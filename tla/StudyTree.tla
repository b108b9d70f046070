------------------------------- MODULE StudyTree -------------------------------
(***************************************************************************)
(* Projects, their studies, the RF runs attached to studies and the manual  *)
(* samples of Study Web (main.py).  A request reads, decides, and writes    *)
(* with one statement; another request may come between the two.            *)
(***************************************************************************)
EXTENDS Naturals, FiniteSets

CONSTANTS
  Project, Study, TestRun, Sample,  \* ids
  Sender,                           \* requests under way at the same time
  ActiveScope,                      \* scope of this Study Web: badge or ipad
  Keep,                             \* a field the payload does not name
  MaxRequests                       \* bound: requests ever accepted

VARIABLES
  project,     \* vocera_projects
  study,       \* vocera_studies
  runStudy,    \* study_id of validation_test_runs
  sample,      \* vocera_rf_manual_samples
  sending,     \* requests between their check and their statement
  requests,    \* requests accepted so far
  disturbed    \* ids that two requests worked on at the same time

treeVars == <<project, study, runStudy, sample, sending, requests, disturbed>>

ProjectType == {"rf", "media", "mixed"}
StudyType   == {"rf", "media"}
Scope       == {"badge", "ipad", "media"}
NoId        == "none"

ASSUME TreeAssumption ==
  /\ NoId \notin Project /\ NoId \notin Study
  /\ IsFiniteSet(Study) /\ IsFiniteSet(TestRun)

NoProject == [state |-> "absent", type |-> "rf"]
NoStudy   == [state |-> "absent", in |-> NoId, type |-> "rf", scope |-> "badge"]
NoSample  == [state |-> "absent", in |-> NoId, rssi |-> FALSE, snr |-> FALSE]
NoRequest == [op |-> "none", id |-> NoId, set |-> NoProject, touches |-> {}]

TypeOK ==
  /\ project \in [Project -> [state : {"absent", "active", "deleted"}, type : ProjectType]]
  /\ study \in [Study -> [state : {"absent", "active", "deleted"}, in : Project \cup {NoId},
                          type : StudyType, scope : Scope]]
  /\ runStudy \in [TestRun -> Study \cup {NoId}]
  /\ sample \in [Sample -> [state : {"absent", "active", "deleted"}, in : Study \cup {NoId},
                            rssi : BOOLEAN, snr : BOOLEAN]]
  /\ disturbed \subseteq Project \cup Study \cup TestRun \cup Sample

TreeInit ==
  /\ project = [p \in Project |-> NoProject]
  /\ study = [s \in Study |-> NoStudy]
  /\ runStudy = [r \in TestRun |-> NoId]
  /\ sample = [x \in Sample |-> NoSample]
  /\ sending = [q \in Sender |-> NoRequest] /\ requests = 0
  /\ disturbed = {}

tree == <<project, study, runStudy, sample>>

\* project_row and study_row: a study of a deleted project is not found.
project_row(p) == project[p].state = "active"
study_row(s)   == study[s].state = "active" /\ project_row(study[s].in)

study_run_count(s)     == Cardinality({r \in TestRun : runStudy[r] = s})
project_study_count(p) == Cardinality({s \in Study : study[s].in = p})
ActiveStudies(p)       == {s \in Study : study[s].in = p /\ study[s].state = "active"}

validate_project_study_type(p, type) == project[p].type \in {"mixed", type}
validate_study_type_scope(type, scope) ==
  scope \in IF type = "rf" THEN {"badge", "ipad"} ELSE {"media"}
validate_rf_study_id(s) ==
  study_row(s) /\ study[s].type = "rf" /\ study[s].scope = ActiveScope

\* The checks of a request passed: what it will write, and whom it concerns.
Plan(q, op, id, set, touches) ==
  /\ sending[q] = NoRequest
  /\ requests < MaxRequests /\ requests' = requests + 1
  /\ sending' = [sending EXCEPT ![q] = [op |-> op, id |-> id, set |-> set,
                                        touches |-> touches]]
  /\ disturbed' = disturbed \cup
       UNION {sending[p].touches \cap touches : p \in Sender}
  /\ UNCHANGED tree

-----------------------------------------------------------------------------
(* Requests up to their statement                                           *)

create_project(q) ==
  \E p \in Project, type \in ProjectType :
    /\ project[p].state = "absent"
    /\ Plan(q, "project", p, [state |-> "active", type |-> type], {p})

\* Only to mixed once the project has a study, deleted ones included.
update_project(q) ==
  \E p \in Project, type \in ProjectType :
    /\ project_row(p)
    /\ type # project[p].type => project_study_count(p) = 0 \/ type = "mixed"
    /\ Plan(q, "project type", p, [type |-> type], {p})

delete_project(q) ==
  \E p \in Project :
    /\ project_row(p) /\ ActiveStudies(p) = {}
    /\ Plan(q, "delete project", p, NoProject, {p})

create_project_study(q) ==
  \E p \in {r \in Project : project_row(r)}, s \in {t \in Study : study[t].state = "absent"} :
  \E type \in StudyType, scope \in Scope :
    /\ validate_project_study_type(p, type)
    /\ validate_study_type_scope(type, scope)
    /\ Plan(q, "study", s, [state |-> "active", in |-> p, type |-> type, scope |-> scope],
            {p, s})

Given(field, old) == IF field = Keep THEN old ELSE field

\* Deviation: type and scope are checked against the payload only.
PatchUnchecked(s, to) ==
  /\ to.in # Keep => project_row(to.in)
  /\ to.type # Keep /\ to.scope # Keep => validate_study_type_scope(to.type, to.scope)

\* What update_study accepts: the study as it will be is checked, and runs fix
\* its type and scope.
PatchAccepted(s, to) ==
  LET in    == Given(to.in, study[s].in)
      type  == Given(to.type, study[s].type)
      scope == Given(to.scope, study[s].scope)
  IN /\ project_row(in)
     /\ validate_project_study_type(in, type)
     /\ validate_study_type_scope(type, scope)
     /\ study_run_count(s) > 0 => type = study[s].type /\ scope = study[s].scope

\* A status that is not deleted clears deleted_at; one that is sets it.
update_study(q) ==
  \E s \in {t \in Study : study_row(t)} :
  \E in \in Project \cup {Keep}, type \in StudyType \cup {Keep},
     scope \in Scope \cup {Keep}, state \in {"active", "deleted", Keep} :
    LET to == [in |-> in, type |-> type, scope |-> scope, state |-> state] IN
    /\ PatchAccepted(s, to)
    /\ Plan(q, "patch study", s, to, {s, study[s].in} \cup ({in} \ {Keep}))

delete_study(q) ==
  \E s \in Study :
    /\ study_row(s)
    /\ Plan(q, "patch study", s,
            [in |-> Keep, type |-> Keep, scope |-> Keep, state |-> "deleted"],
            {s, study[s].in})

\* create_run_record and create_study_run for a run without a study, update_run
\* with a study_id for one that has one.
attach_run(q) ==
  \E r \in TestRun, s \in Study :
    /\ validate_rf_study_id(s)
    /\ Plan(q, "run", r, s, {r, s, study[s].in})

create_study_sample(q) ==
  \E x \in Sample, s \in Study, m \in {{"rssi"}, {"snr"}, {"rssi", "snr"}} :
    /\ sample[x].state = "absent" /\ study_row(s)
    /\ Plan(q, "sample", x, [state |-> "active", in |-> s, rssi |-> "rssi" \in m,
                             snr |-> "snr" \in m], {x, s})

\* The measurements left after the patch are counted, those it clears not.
update_study_sample(q) ==
  \E x \in Sample, rssi, snr \in BOOLEAN \cup {Keep} :
    /\ sample[x].state = "active" /\ study_row(sample[x].in)
    /\ Given(rssi, sample[x].rssi) = TRUE \/ Given(snr, sample[x].snr) = TRUE
    /\ Plan(q, "patch sample", x, [rssi |-> rssi, snr |-> snr], {x, sample[x].in})

delete_study_sample(q) ==
  \E x \in Sample :
    /\ sample[x].state = "active" /\ study_row(sample[x].in)
    /\ Plan(q, "delete sample", x, NoSample, {x, sample[x].in})

-----------------------------------------------------------------------------
(* The statement.  An insert under an id that is taken fails.               *)

AsPatched(old, to) ==
  [state |-> Given(to.state, old.state), in |-> Given(to.in, old.in),
   type |-> Given(to.type, old.type), scope |-> Given(to.scope, old.scope)]

Write(q) ==
  LET id == sending[q].id
      to == sending[q].set
  IN
  /\ \/ /\ sending[q].op = "project"
        /\ project' = IF project[id].state = "absent" THEN [project EXCEPT ![id] = to]
                      ELSE project
        /\ UNCHANGED <<study, runStudy, sample>>
     \/ /\ sending[q].op = "project type"
        /\ project' = [project EXCEPT ![id].type = to.type]
        /\ UNCHANGED <<study, runStudy, sample>>
     \/ /\ sending[q].op = "delete project"
        /\ project' = [project EXCEPT ![id].state = "deleted"]
        /\ UNCHANGED <<study, runStudy, sample>>
     \/ /\ sending[q].op = "study"
        /\ study' = IF study[id].state = "absent" THEN [study EXCEPT ![id] = to] ELSE study
        /\ UNCHANGED <<project, runStudy, sample>>
     \/ /\ sending[q].op = "patch study"
        /\ study' = [study EXCEPT ![id] = AsPatched(study[id], to)]
        /\ UNCHANGED <<project, runStudy, sample>>
     \/ /\ sending[q].op = "run"
        /\ runStudy' = [runStudy EXCEPT ![id] = to]
        /\ UNCHANGED <<project, study, sample>>
     \/ /\ sending[q].op = "sample"
        /\ sample' = IF sample[id].state = "absent" THEN [sample EXCEPT ![id] = to]
                     ELSE sample
        /\ UNCHANGED <<project, study, runStudy>>
     \/ /\ sending[q].op = "patch sample"
        /\ sample' = [sample EXCEPT ![id].rssi = Given(to.rssi, sample[id].rssi),
                                    ![id].snr = Given(to.snr, sample[id].snr)]
        /\ UNCHANGED <<project, study, runStudy>>
     \/ /\ sending[q].op = "delete sample"
        /\ sample' = [sample EXCEPT ![id].state = "deleted"]
        /\ UNCHANGED <<project, study, runStudy>>
  /\ sending' = [sending EXCEPT ![q] = NoRequest]
  /\ UNCHANGED <<requests, disturbed>>

\* delete_run, hard.
DropRun(r) ==
  /\ runStudy[r] # NoId
  /\ runStudy' = [runStudy EXCEPT ![r] = NoId]
  /\ UNCHANGED <<project, study, sample, sending, requests, disturbed>>

TreeNext ==
  \/ \E q \in Sender :
       \/ create_project(q) \/ update_project(q) \/ delete_project(q)
       \/ create_project_study(q) \/ update_study(q) \/ delete_study(q)
       \/ attach_run(q)
       \/ create_study_sample(q) \/ update_study_sample(q) \/ delete_study_sample(q)
       \/ Write(q)
  \/ \E r \in TestRun : DropRun(r)

TreeSpec == TreeInit /\ [][TreeNext]_treeVars

-----------------------------------------------------------------------------
(* Properties                                                               *)

(* Whatever order requests come in, a study that is listed is in a project  *)
(* that is listed and admits its type, has a scope its type allows, and the *)
(* runs attached to a study are of the type and scope they were accepted    *)
(* for, and a manual sample keeps a measurement; except where two requests  *)
(* worked on the same row at once, which the code does not prevent          *)
(* (main.py 672-880, 1575-1930).                                            *)
TreeIsConsistent ==
  /\ \A s \in Study : {s, study[s].in} \cap disturbed = {} =>
       /\ study[s].state = "active" =>
            project_row(study[s].in) /\ validate_project_study_type(study[s].in, study[s].type)
       /\ study[s].state # "absent" => validate_study_type_scope(study[s].type, study[s].scope)
       /\ \A r \in TestRun \ disturbed :
            runStudy[r] = s => study[s].type = "rf" /\ study[s].scope = ActiveScope
  /\ \A x \in Sample \ disturbed :
       sample[x].state # "absent" => sample[x].rssi \/ sample[x].snr
=============================================================================
