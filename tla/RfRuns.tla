-------------------------------- MODULE RfRuns --------------------------------
(***************************************************************************)
(* RF validation runs of Study Web: the files selected for a run, its       *)
(* execution (main.py execute_run, run_executor.py, the SQL of              *)
(* sql_export.py) and the manual entries operators make on its candidates.  *)
(*                                                                         *)
(* A request is a sequence of steps between which other requests come: an  *)
(* execution is one HTTP request that runs five programs and psql, and all *)
(* executions of a run share its output directory.  An identity is a BSSID *)
(* at a survey time: candidates, observations and matches are about one.   *)
(* Each statement and each SQL function is one step.                       *)
(***************************************************************************)
EXTENDS Naturals, FiniteSets

CONSTANTS
  Run,           \* test run ids of the active scope
  Input,         \* rows of vocera_rf_validation_input_files
  Role,          \* the source type of an input, its role in every run
  Identity,      \* (BSSID, survey time) pairs
  Paired,        \* identities a badge log and a survey have in the match window
  Listed,        \* identities a manual CSV gives a measurement for
  Patched,       \* run statuses the clients patch in
  Request,       \* requests under way at the same time
  Nothing,       \* no file
  Fragile,       \* bound: inputs whose file may be damaged or removed
  Selected,      \* the files each run has been given before
  MaxChanges,    \* bound: files attached, detached or damaged
  MaxExecutions  \* bound: executions ever begun

ASSUME SelectedAssumption == Selected \in [Run -> SUBSET Input]

Status == {"absent", "draft", "running", "complete", "failed", "deleted"}
Of(role) == {i \in Input : Role[i] = role}

VARIABLES
  row,          \* validation_test_runs: status, and whether deleted_at is set
  attached,     \* vocera_rf_validation_run_input_files
  available,    \* is_available of each input
  disk,         \* each input's file: "good", "bad" (not an archive) or "gone"
  out,          \* the output directory of each run: what each artifact holds
  candidate,    \* badge_ekahau_candidate_matches: status per run and identity
  match,        \* badge_ekahau_matches: where the value came from
  observation,  \* manual_ekahau_observations
  loaded,       \* the selection whose rows a run has in the database
  request,      \* requests: stage and local variables
  alone,        \* runs whose executions have not met one another
  changes,      \* files attached, detached or damaged
  executions    \* executions begun

vars == <<row, attached, available, disk, out, candidate, match, observation,
          loaded, request, alone, changes, executions>>

db    == <<candidate, match, observation, loaded>>
files == <<attached, available, disk, changes>>

NoSelection == [badge |-> Nothing, survey |-> Nothing, csv |-> Nothing]
NoArtifacts == [badge |-> Nothing, survey |-> Nothing,
                template |-> NoSelection, matches |-> NoSelection]
NoOutput    == [parsed |-> NoArtifacts, sql |-> NoArtifacts]
Idle        == [stage |-> "idle", run |-> Nothing, input |-> Nothing,
                files |-> {}, saved |-> {}]

Init ==
  /\ row = [r \in Run |-> [status |-> "draft", hidden |-> FALSE]]
  /\ attached = Selected
  /\ available = [i \in Input |-> TRUE]
  /\ disk = [i \in Input |-> "good"]
  /\ out = [r \in Run |-> NoOutput]
  /\ candidate = [r \in Run |-> [k \in Identity |-> "none"]]
  /\ match = [r \in Run |-> [k \in Identity |-> "none"]]
  /\ observation = [r \in Run |-> {}]
  /\ loaded = [r \in Run |-> NoSelection]
  /\ request = [q \in Request |-> Idle]
  /\ alone = Run
  /\ changes = 0 /\ executions = 0

Exists(r)  == row[r].status # "absent"
Visible(r) == Exists(r) /\ ~row[r].hidden

At(q, stage)  == request[q].stage = stage
Goto(q, stage) == request' = [request EXCEPT ![q].stage = stage]
Finish(q)      == request' = [request EXCEPT ![q] = Idle]

Executing(q, r) == request[q].run = r /\ request[q].stage \notin {"idle", "attach"}

\* "update ... where test_run_id": nothing happens when the row is gone.
SetStatus(r, status) ==
  row' = IF Exists(r) THEN [row EXCEPT ![r].status = status] ELSE row

-----------------------------------------------------------------------------
(* The run's row and its files                                              *)

\* update_run with a run_status.
PatchStatus(r) ==
  /\ Exists(r)
  /\ \E status \in Patched :
       row' = [row EXCEPT ![r] = [status |-> status, hidden |-> status = "deleted"]]
  /\ UNCHANGED <<files, out, db, request, alone, executions>>

\* delete_run, soft.
HideRun(r) ==
  /\ Exists(r)
  /\ row' = [row EXCEPT ![r] = [status |-> "deleted", hidden |-> TRUE]]
  /\ UNCHANGED <<files, out, db, request, alone, executions>>

Cleared(r) ==
  /\ candidate' = [candidate EXCEPT ![r] = [k \in Identity |-> "none"]]
  /\ match' = [match EXCEPT ![r] = [k \in Identity |-> "none"]]
  /\ observation' = [observation EXCEPT ![r] = {}]
  /\ loaded' = [loaded EXCEPT ![r] = NoSelection]

\* delete_run, hard: vocera_rf_validation_delete_run.
RemoveRun(r) ==
  /\ Exists(r)
  /\ row' = [row EXCEPT ![r] = [status |-> "absent", hidden |-> FALSE]]
  /\ attached' = [attached EXCEPT ![r] = {}]
  /\ Cleared(r)
  /\ UNCHANGED <<available, disk, out, request, alone, changes, executions>>

CountChange == changes < MaxChanges /\ changes' = changes + 1

\* add_run_file: the checks, which hide a badge log that is not an archive ...
AddFile(q, r) ==
  /\ At(q, "idle")
  /\ Visible(r)
  /\ CountChange
  /\ \E i \in Input :
       /\ available[i]
       /\ IF Role[i] = "badge_log" /\ disk[i] # "good"
          THEN /\ available' = [available EXCEPT ![i] = FALSE]
               /\ UNCHANGED request
          ELSE /\ request' = [request EXCEPT ![q] =
                    [Idle EXCEPT !.stage = "attach", !.run = r, !.input = i]]
               /\ UNCHANGED available
  /\ UNCHANGED <<row, attached, disk, out, db, alone, executions>>

\* ... and the insert, refused by the foreign key when the run is gone.
Attach(q) ==
  /\ At(q, "attach")
  /\ LET r == request[q].run IN
     attached' = IF Exists(r) THEN [attached EXCEPT ![r] = @ \cup {request[q].input}]
                 ELSE attached
  /\ Finish(q)
  /\ UNCHANGED <<row, available, disk, changes, out, db, alone, executions>>

\* remove_run_file
RemoveFile(r) ==
  /\ Visible(r)
  /\ CountChange
  /\ \E i \in attached[r] : attached' = [attached EXCEPT ![r] = @ \ {i}]
  /\ UNCHANGED <<row, available, disk, out, db, request, alone, executions>>

\* Something outside the program damages or removes an input's file.
Damage(i) ==
  /\ disk[i] = "good"
  /\ CountChange
  /\ disk' \in {[disk EXCEPT ![i] = "bad"], [disk EXCEPT ![i] = "gone"]}
  /\ UNCHANGED <<row, attached, available, out, db, request, alone, executions>>

-----------------------------------------------------------------------------
(* Execution                                                                *)

\* The run's row and its files are read once; everything later uses them.
Execute(q, r) ==
  /\ At(q, "idle")
  /\ executions < MaxExecutions
  /\ Visible(r)
  /\ request' = [request EXCEPT ![q] = [Idle EXCEPT !.stage = "preflight", !.run = r,
                                                    !.files = attached[r]]]
  /\ alone' = IF \E p \in Request : Executing(p, r) THEN alone \ {r} ELSE alone \cup {r}
  /\ executions' = executions + 1
  /\ UNCHANGED <<row, files, out, db>>

Usable(i) == disk[i] = "good" \/ (disk[i] = "bad" /\ Role[i] # "badge_log")

\* The files are looked at on disk, and the run marked failed or running.
Preflight(q) ==
  /\ At(q, "preflight")
  /\ LET ok == \A i \in request[q].files : Usable(i) IN
     /\ SetStatus(request[q].run, IF ok THEN "running" ELSE "failed")
     /\ IF ok THEN Goto(q, "inputs") ELSE Finish(q)
  /\ UNCHANGED <<files, out, db, alone, executions>>

Fail(q)  == Goto(q, "failed")
Only(fs, role) == {i \in fs : Role[i] = role}
TheOne(fs, role) ==
  IF Only(fs, role) = {} THEN Nothing ELSE CHOOSE i \in fs : Role[i] = role

\* What execute_selected_run makes of the selection; paths are its locals.
Chosen(q) ==
  [badge  |-> TheOne(request[q].files, "badge_log"),
   survey |-> TheOne(request[q].files, "ekahau_json"),
   csv    |-> TheOne(request[q].files, "manual_csv")]

\* _selected_files and _one: one file per role, and a badge log and a survey.
Inputs(q) ==
  /\ At(q, "inputs")
  /\ LET fs == request[q].files IN
     IF /\ \A i \in fs : disk[i] # "gone"
        /\ \A role \in {"badge_log", "ekahau_json", "manual_csv"} :
             Cardinality(Only(fs, role)) <= 1
        /\ \A role \in {"badge_log", "ekahau_json"} : Only(fs, role) # {}
     THEN Goto(q, "badge") ELSE Fail(q)
  /\ UNCHANGED <<row, files, out, db, alone, executions>>

\* A program of the pipeline: it may fail, and fails without a readable file.
Step(q, stage, input, artifact, content, next) ==
  /\ At(q, stage)
  /\ \/ /\ input # Nothing => disk[input] = "good"
        /\ out' = [out EXCEPT ![request[q].run].parsed[artifact] = content]
        /\ Goto(q, next)
     \/ Fail(q) /\ UNCHANGED out
  /\ UNCHANGED <<row, files, db, alone, executions>>

ParseBadge(q) ==
  LET i == Chosen(q).badge IN Step(q, "badge", i, "badge", i, "survey")

\* Deviation: a survey that was parsed before is not parsed again.
ParseEkahauOnce(q) ==
  LET i == Chosen(q).survey
      was == out[request[q].run].parsed.survey
  IN  Step(q, "survey", i, "survey", IF was # Nothing THEN was ELSE i, "template")

ParseEkahau(q) ==
  LET i == Chosen(q).survey IN Step(q, "survey", i, "survey", i, "template")

ManualTemplate(q) ==
  LET o == out[request[q].run].parsed IN
  Step(q, "template", Nothing, "template",
       [badge |-> o.badge, survey |-> o.survey, csv |-> Nothing], "correlate")

Correlate(q) ==
  LET c == Chosen(q).csv IN
  Step(q, "correlate", c, "matches",
       [out[request[q].run].parsed.template EXCEPT !.csv = c], "emit")

Emit(q) ==
  /\ At(q, "emit")
  /\ \/ /\ out' = [out EXCEPT ![request[q].run].sql = out[request[q].run].parsed]
        /\ Goto(q, "preserve")
     \/ Fail(q) /\ UNCHANGED out
  /\ UNCHANGED <<row, files, db, alone, executions>>

\* The transaction of import.sql: the run's observations are set aside ...
Preserve(q) ==
  /\ At(q, "preserve")
  /\ request' = [request EXCEPT ![q].stage = "replace",
                                ![q].saved = observation[request[q].run]]
  /\ UNCHANGED <<row, files, out, db, alone, executions>>

Found(s)   == IF s.survey = Nothing THEN {} ELSE Paired[s.badge, s.survey]
Entered(s) == IF s.csv = Nothing THEN {} ELSE Listed[s.csv] \cap Found(s)

\* Candidates and matches refer to events of the badge log and points of the
\* survey by id: the foreign keys hold when the artifacts are of one pair.
References(sql) ==
  \A s \in {sql.template, sql.matches} :
    Found(s) # {} => s.badge = sql.badge /\ s.survey = sql.survey

\* Deviation: candidates with a restored observation are marked complete.
MarkObserved(k, entered, restored) == k \in entered \/ k \in restored

\* _mark_completed_candidates_from_matches_sql
MarkCompleted(k, entered, restored) == k \in entered

\* Deviation: only observations that have a match again are put back.
RestoredWithMatch(saved, new, entered) == saved \cap entered

\* _restore_manual_observations_sql
Restored(saved, new, entered) == saved \cap new

\* ... everything about the run deleted, the new rows inserted, and the
\* observations put back whose survey point is still there.
Replace(q) ==
  /\ At(q, "replace")
  /\ LET r == request[q].run
         sql == out[r].sql
         new == Found(sql.template)
         entered == Entered(sql.matches)
         restored == Restored(request[q].saved, new, entered)
     IN
     \/ /\ References(sql)
        /\ candidate' = [candidate EXCEPT ![r] = [k \in Identity |->
             IF k \notin new THEN "none"
             ELSE IF MarkCompleted(k, entered, restored) THEN "complete" ELSE "pending"]]
        /\ match' = [match EXCEPT ![r] = [k \in Identity |->
             IF k \in entered THEN "csv" ELSE "none"]]
        /\ observation' = [observation EXCEPT ![r] = restored]
        /\ loaded' = [loaded EXCEPT ![r] =
             [badge |-> sql.badge, survey |-> sql.survey, csv |-> sql.matches.csv]]
        /\ row' = IF Exists(r) THEN row
                  ELSE [row EXCEPT ![r] = [status |-> "draft", hidden |-> FALSE]]
        /\ Goto(q, "complete")
     \/ Fail(q) /\ UNCHANGED <<row, db>>
  /\ UNCHANGED <<files, out, alone, executions>>

End(q) ==
  /\ \E status \in {"complete", "failed"} : At(q, status) /\ SetStatus(request[q].run, status)
  /\ Finish(q)
  /\ UNCHANGED <<files, out, db, alone, executions>>

\* The server is restarted: the requests and their programs are gone.
Restart ==
  /\ \E q \in Request : ~At(q, "idle")
  /\ request' = [q \in Request |-> Idle]
  /\ UNCHANGED <<row, files, out, db, alone, executions>>

-----------------------------------------------------------------------------
(* Manual entries.  A candidate or match is named by its row id, which a    *)
(* reload replaces: an id from before answers 404.                          *)

\* submit_manual_entry: vocera_rf_validation_submit_candidate_match.
SubmitEntry(r, k) ==
  /\ candidate[r][k] # "none"
  /\ match' = [match EXCEPT ![r][k] = "entered"]
  /\ observation' = [observation EXCEPT ![r] = @ \cup {k}]
  /\ candidate' = [candidate EXCEPT ![r][k] = "complete"]
  /\ UNCHANGED <<row, files, out, loaded, request, alone, executions>>

\* reset_manual_match: vocera_rf_validation_clear_candidate_manual_entry.  The
\* observation goes only when the match points to it.
ResetEntry(r, k) ==
  /\ match[r][k] # "none"
  /\ match' = [match EXCEPT ![r][k] = "none"]
  /\ observation' = [observation EXCEPT ![r] = IF match[r][k] = "entered" THEN @ \ {k} ELSE @]
  /\ candidate' = [candidate EXCEPT ![r][k] = "pending"]
  /\ UNCHANGED <<row, files, out, loaded, request, alone, executions>>

-----------------------------------------------------------------------------
Next ==
  \/ \E r \in Run : PatchStatus(r) \/ HideRun(r) \/ RemoveRun(r) \/ RemoveFile(r)
  \/ \E q \in Request, r \in Run : AddFile(q, r) \/ Execute(q, r)
  \/ \E q \in Request :
       \/ Attach(q) \/ Preflight(q) \/ Inputs(q)
       \/ ParseBadge(q) \/ ParseEkahau(q) \/ ManualTemplate(q) \/ Correlate(q) \/ Emit(q)
       \/ Preserve(q) \/ Replace(q) \/ End(q)
  \/ \E i \in Fragile : Damage(i)
  \/ Restart
  \/ \E r \in Run, k \in Identity : SubmitEntry(r, k) \/ ResetEntry(r, k)

Spec == Init /\ [][Next]_vars

-----------------------------------------------------------------------------
(* Properties                                                               *)

\* v_vocera_ekahau_pending_manual_entry, over all runs.
Offered(k) ==
  /\ \E r \in Run : candidate[r][k] = "pending"
  /\ \A r \in Run : match[r][k] = "none"

(* Whatever a run has found is either offered to the operator or has a      *)
(* match: neither a reload nor a reset leaves it marked complete without    *)
(* one, where no page would show it again.                                  *)
NoIdentityLost ==
  \A r \in Run, k \in Identity :
    candidate[r][k] # "none" => Offered(k) \/ \E s \in Run : match[s][k] # "none"

(* A value an operator typed in is in the database until somebody resets it *)
(* or removes the run, or the run is reloaded from files that do not have   *)
(* that survey point; a reload loses nothing entered before it began.       *)
EntriesSurviveReload ==
  [][\A r \in Run : \A k \in observation[r] \ observation'[r] :
       \/ request' = request /\ match[r][k] = "entered" /\ match'[r][k] = "none"
       \/ row'[r].status = "absent"
       \/ \E q \in Request :
            /\ At(q, "replace") /\ request[q].run = r
            /\ k \notin Found(out[r].sql.template) \/ k \notin request[q].saved]_vars

(* An execution that ends as complete has left the rows of the files that   *)
(* were selected when it began, unless another one of the same run was      *)
(* under way: the output directory is shared and never emptied.             *)
CompleteIsOfTheSelection ==
  [][\A q \in Request :
       LET r == request[q].run IN
       /\ At(q, "complete") /\ request'[q] = Idle
       /\ r \in alone /\ row'[r].status = "complete"
       => loaded[r] = Chosen(q)]_vars

=============================================================================
