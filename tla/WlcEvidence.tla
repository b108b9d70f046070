------------------------------ MODULE WlcEvidence ------------------------------
(***************************************************************************)
(* Attempt packages of the wireless controller: an operator fills a         *)
(* directory by hand (vocera_wlc_attempt.py), and an import reads it, gives *)
(* the attempt a verdict and loads it into the ledger                       *)
(* (vocera_wlc_evidence.py).                                                *)
(*                                                                         *)
(* A transcript is what parse_wlc_snapshot makes of it: whether it names a  *)
(* multicast group, whether the receiver is a member, and how many fields   *)
(* it fills.                                                                *)
(***************************************************************************)
EXTENDS Naturals

CONSTANTS
  Attempt,      \* attempt ids
  Audio,        \* audio results an operator records
  Transcript,   \* transcripts an operator may save: group, member, fields
  Unknown,      \* neither TRUE nor FALSE
  MaxAmendments,   \* bound: changes an operator makes to the packages
  MaxIngests    \* bound: imports begun

Phase   == {"before", "during", "after"}
Finding == {"membership_missing", "membership_present", "capture_container_valid"}

VARIABLES
  package,      \* the files of each attempt directory
  report,       \* validation/ingest-report.json
  attemptRow,       \* vocera_media_broadcast_attempts: the report a row was made of
  finding,      \* vocera_media_attempt_findings: attempt of each finding_id
  import,       \* imports: stage and the report they carry
  amendments, ingests

evidenceVars == <<package, report, attemptRow, finding, import, amendments, ingests>>

NoTranscript  == [group |-> FALSE, member |-> Unknown, fields |-> 0]
NoBody   == "no attempt"
ASSUME AttemptAssumption == NoBody \notin Attempt

NoReport == [ok |-> FALSE, audio |-> "none", verdict |-> "none", findings |-> {},
             cli |-> [p \in Phase |-> NoTranscript], evidence |-> NoTranscript, loaded |-> Unknown]
NoImport     == [stage |-> "idle", report |-> NoReport]

EvidenceInit ==
  /\ package = [a \in Attempt |->
       [audio |-> "unknown", cli |-> [p \in Phase |-> NoTranscript], pcap |-> "missing"]]
  /\ report = [a \in Attempt |-> NoReport] /\ attemptRow = report
  /\ finding = [f \in Finding |-> NoBody]
  /\ import = [a \in Attempt |-> NoImport]
  /\ amendments = 0 /\ ingests = 0

-----------------------------------------------------------------------------
(* The operator                                                             *)

Change(a, to) ==
  /\ amendments < MaxAmendments /\ amendments' = amendments + 1
  /\ package' = [package EXCEPT ![a] = to]
  /\ UNCHANGED <<report, attemptRow, finding, import, ingests>>

\* command_record
RecordResult(a)         == \E r \in Audio : Change(a, [package[a] EXCEPT !.audio = r])
SaveTranscript(a) == \E p \in Phase, t \in Transcript :
                       Change(a, [package[a] EXCEPT !.cli[p] = t])
CopyCapture(a)    == \E c \in {"valid", "foreign"} : Change(a, [package[a] EXCEPT !.pcap = c])

-----------------------------------------------------------------------------
(* The report                                                               *)

\* _artifact_rows, _snapshot_rows: the transcripts that exist.
Saved(p) == {ph \in Phase : p.cli[ph] # NoTranscript}

\* Deviation: whatever transcript fills most fields.
RichestSnapshot(p) ==
  {t \in {p.cli[ph] : ph \in Saved(p)} :
     \A ph \in Saved(p) : p.cli[ph].fields <= t.fields}

\* _best_snapshot: the one taken during the broadcast, or the richest.
_best_snapshot(p) ==
  IF "during" \in Saved(p) THEN {p.cli["during"]}
  ELSE {t \in {p.cli[ph] : ph \in Saved(p)} :
          \A ph \in Saved(p) : p.cli[ph].fields <= t.fields}

Verdict(audio, t, pcap) ==
  IF audio = "heard" THEN "baseline_success"
  ELSE IF audio = "missed" /\ t.group /\ t.member = FALSE THEN "membership_failure"
  ELSE IF audio \in {"partial", "choppy"} /\ pcap THEN "media_degraded"
  ELSE IF audio = "missed" /\ t.group /\ t.member = TRUE /\ pcap THEN "inconclusive, medium"
  ELSE "inconclusive"

Findings(t, pcap) ==
  {f \in Finding :
     \/ f = "membership_missing" /\ t.member = FALSE
     \/ f = "membership_present" /\ t.member = TRUE
     \/ f = "capture_container_valid" /\ pcap}

\* pcap_summary: the magic of a capture file is at its head.
ValidContainer(p) == p.pcap = "valid"

\* _artifact_rows: every file of the manifest must exist.
Complete(p) == Saved(p) = Phase /\ p.pcap # "missing"

\* build_report; the report and the rows are made without missing files as well.
build_report(a, loaded) ==
  LET p    == package[a]
      best == IF Saved(p) = {} THEN {NoTranscript} ELSE _best_snapshot(p)
      pcap == ValidContainer(p)
  IN  {[ok |-> Complete(p), audio |-> p.audio,
        verdict |-> Verdict(p.audio, t, pcap), findings |-> Findings(t, pcap),
        cli |-> p.cli, evidence |-> t, loaded |-> loaded] : t \in best}

\* command_validate replaces the report of an import.
Validate(a) ==
  /\ amendments < MaxAmendments /\ amendments' = amendments + 1
  /\ \E r \in build_report(a, Unknown) : report' = [report EXCEPT ![a] = r]
  /\ UNCHANGED <<package, attemptRow, finding, import, ingests>>

-----------------------------------------------------------------------------
(* ingest_attempt                                                           *)

ImportAt(a, stage) == import[a].stage = stage

IngestBegins(a) ==
  /\ ImportAt(a, "idle") /\ ingests < MaxIngests /\ ingests' = ingests + 1
  /\ \E r \in build_report(a, Unknown) :
       /\ report' = [report EXCEPT ![a] = r]
       /\ import' = [import EXCEPT ![a] = [stage |-> "load", report |-> r]]
  /\ UNCHANGED <<package, attemptRow, finding, amendments>>

FindingsOf(a)         == {f \in Finding : finding[f] = a}
Taken(a, r)   == {f \in r.findings : finding[f] \notin {NoBody, a}}
Replaced(a, r) == [f \in Finding |-> IF f \in r.findings THEN a
                                     ELSE IF finding[f] = a THEN NoBody ELSE finding[f]]
Loaded(a, yes) ==
  import' = [import EXCEPT ![a] = [stage |-> "report", report |-> [@.report EXCEPT !.loaded = yes]]]
Abandon(a) == import' = [import EXCEPT ![a] = NoImport]

\* Deviation: the statements before a refused one stay.
LoadByStatement(a) ==
  LET r == import[a].report IN
  /\ ImportAt(a, "load")
  /\ attemptRow' = [attemptRow EXCEPT ![a] = r]
  /\ IF Taken(a, r) = {} THEN finding' = Replaced(a, r) /\ Loaded(a, TRUE)
     ELSE /\ finding' = [f \in Finding |-> IF finding[f] = a THEN NoBody ELSE finding[f]]
          /\ Abandon(a)
  /\ UNCHANGED <<package, report, amendments, ingests>>

\* emit_attempt_sql: one transaction, which a finding_id of another attempt
\* breaks: the id is made of type, message and source only.
Load(a) ==
  LET r == import[a].report IN
  /\ ImportAt(a, "load")
  /\ IF Taken(a, r) = {}
     THEN /\ attemptRow' = [attemptRow EXCEPT ![a] = r]
          /\ finding' = Replaced(a, r)
          /\ Loaded(a, TRUE)
     ELSE Abandon(a) /\ UNCHANGED <<attemptRow, finding>>
  /\ UNCHANGED <<package, report, amendments, ingests>>

\* No database is configured, or it does not answer.
NoDatabase(a) ==
  /\ ImportAt(a, "load") /\ (Loaded(a, FALSE) \/ Abandon(a))
  /\ UNCHANGED <<package, report, attemptRow, finding, amendments, ingests>>

WriteReport(a) ==
  /\ ImportAt(a, "report")
  /\ report' = [report EXCEPT ![a] = import[a].report]
  /\ Abandon(a)
  /\ UNCHANGED <<package, attemptRow, finding, amendments, ingests>>

EvidenceNext ==
  \E a \in Attempt :
    \/ RecordResult(a) \/ SaveTranscript(a) \/ CopyCapture(a) \/ Validate(a)
    \/ IngestBegins(a) \/ Load(a) \/ NoDatabase(a) \/ WriteReport(a)

EvidenceSpec == EvidenceInit /\ [][EvidenceNext]_evidenceVars

-----------------------------------------------------------------------------
(* Properties                                                               *)

(* What the ledger says of an attempt is one report: its findings are those *)
(* its verdict was reached with, also when imports of several attempts      *)
(* follow one another and some are refused; a membership failure is claimed *)
(* only of a missed broadcast whose transcript names the group and not the  *)
(* receiver, and where a transcript of the broadcast was saved, by that one *)
(* (compute_verdict, emit_attempt_sql).                                     *)
LedgerIsOneReport ==
  \A a \in Attempt :
    LET r == attemptRow[a] IN
    /\ FindingsOf(a) = r.findings
    /\ r.verdict = "membership_failure" =>
         r.audio = "missed" /\ "membership_missing" \in FindingsOf(a) /\ r.evidence.group
    /\ r.verdict = "media_degraded" => "capture_container_valid" \in FindingsOf(a)
    /\ r.verdict = "baseline_success" <=> r.audio = "heard"
    /\ r.cli["during"] # NoTranscript => r.evidence = r.cli["during"]

=============================================================================
