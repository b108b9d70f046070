-------------------------- MODULE BroadcastAttempts --------------------------
(***************************************************************************)
(* Broadcast attempts of a capture session and the operator events about    *)
(* them, as the requests of Study Web keep them: each statement is a psql    *)
(* process and a transaction of its own, so a request is a sequence of       *)
(* steps that other requests may come between, and that may end anywhere.    *)
(* Besides them, scans of terminal logs and imports of attempt packages      *)
(* write the rows, without an event and without the files of the package.    *)
(***************************************************************************)
EXTENDS Naturals, Sequences, FiniteSets

CONSTANTS
  Session,       \* capture sessions
  Attempt,       \* attempt ids
  Home,          \* the session an id was generated for: its name is a prefix
  Request,       \* requests under way at the same time
  Kind,          \* event kinds the operators use
  SessionState,  \* session states the clients patch in
  Group,         \* multicast groups that pass enforce_vlan_selection
  Report,        \* what imported packages say of their attempt
  Nothing,       \* no id, no kind, no group
  MaxEvents,     \* bound: events ever stored
  MaxSelections, \* bound: requests that select a group
  MaxEvidence    \* bound: logs and packages whose evidence is put on a row

Outcome == Kind \cap {"heard", "missed", "partial", "choppy", "alert_only"}

ASSUME AttemptsAssumption ==
  /\ Home \in [Attempt -> Session]
  /\ Nothing \notin Attempt \cup Kind \cup Group \cup Session
  /\ "broadcast_started" \in Kind
  /\ {"prepared_not_started", "stopped"} \subseteq SessionState
  /\ Report \subseteq [session : Session \cup {Nothing}, kind : Outcome \cup {Nothing},
                       group : Group \cup {Nothing}, marked : BOOLEAN]
  /\ MaxEvents \in Nat /\ MaxSelections \in Nat /\ MaxEvidence \in Nat

VARIABLES
  row,           \* vocera_media_broadcast_attempts
  sessionState,  \* session_state of vocera_media_capture_sessions
  event,         \* vocera_media_capture_session_events, in commit order
  sheet,         \* group in the evidence files of each attempt
  req,           \* requests: operation, next statement, local variables
  selections,    \* requests to select a group so far
  evidence,      \* logs and packages put on rows so far
  raced,         \* attempts two requests worked on at once
  abandoned,     \* attempts a request gave up on
  imported,      \* attempts an import wrote
  scanned        \* attempts whose group is a log's, newer than any selection

marks == <<raced, abandoned, imported, scanned>>
vars  == <<row, sessionState, event, sheet, req, selections, evidence, marks>>

NoRow == [state |-> "absent", session |-> Nothing, kind |-> Nothing, group |-> Nothing,
          marked |-> FALSE]
Idle  == [stage |-> "idle", session |-> Nothing, attempt |-> Nothing,
          kind |-> Nothing, group |-> Nothing]

TypeOK ==
  /\ row \in [Attempt -> [state   : {"absent", "open", "incomplete", "completed"},
                          session : Session \cup {Nothing},
                          kind    : Outcome \cup {Nothing},
                          group   : Group \cup {Nothing},
                          marked  : BOOLEAN]]         \* attempt_marked_at is set
  /\ sessionState \in [Session -> SessionState]
  /\ event \in Seq([session : Session, attempt : Attempt \cup {Nothing}, kind : Kind])
  /\ sheet \in [Attempt -> Group \cup {Nothing}]
  /\ req \in [Request ->
       [stage   : {"idle", "lookup", "check", "open", "close", "log", "end",
                   "select", "files"},
        session : Session \cup {Nothing}, attempt : Attempt \cup {Nothing},
        kind    : Kind \cup {Nothing}, group : Group \cup {Nothing}]]
  /\ selections \in 0..MaxSelections /\ evidence \in 0..MaxEvidence
  /\ raced \cup abandoned \cup imported \cup scanned \subseteq Attempt

Init ==
  /\ row = [a \in Attempt |-> NoRow]
  /\ sessionState = [s \in Session |-> "prepared_not_started"]
  /\ event = <<>>
  /\ sheet = [a \in Attempt |-> Nothing]
  /\ req = [r \in Request |-> Idle]
  /\ selections = 0 /\ evidence = 0
  /\ raced = {} /\ abandoned = {} /\ imported = {} /\ scanned = {}

AtWork(r)   == req[r].stage # "idle"
Exists(a)   == row[a].state # "absent"
OpenOf(s)   == {a \in Attempt : row[a].session = s /\ row[a].state = "open"}
OwnIds(s)   == {a \in Attempt : Home[a] = s}
\* The suffix of a generated id is a fresh uuid.
FreshIds(s) == {a \in OwnIds(s) : ~Exists(a) /\ \A r \in Request : req[r].attempt # a}

\* Requests that may still store an event count against the bound.
RoomForEvent == Len(event) + Cardinality({r \in Request : req[r].kind # Nothing}) < MaxEvents

Begin(r, stage, s, a, k, g) ==
  /\ ~AtWork(r)
  /\ req' = [req EXCEPT ![r] = [stage |-> stage, session |-> s, attempt |-> a,
                                kind |-> k, group |-> g]]
Goto(r, stage)      == req' = [req EXCEPT ![r].stage = stage]
GotoWith(r, stage, a) == req' = [req EXCEPT ![r].stage = stage, ![r].attempt = a]
Finish(r)           == req' = [req EXCEPT ![r] = Idle]

\* Attempts that more than one request is at work on after the step.
NoteOverlap ==
  /\ raced' = raced \cup
       {a \in Attempt : Cardinality({r \in Request : req'[r].attempt = a}) > 1}
  /\ UNCHANGED <<abandoned, imported, evidence>>

-----------------------------------------------------------------------------
(* Arrival of a request.  Clients name only attempts of their own session;  *)
(* an id that no row has yet is accepted.                                    *)

FirstStage(k, a) ==
  IF k = "broadcast_started" \/ (k \in Outcome /\ a = Nothing) THEN "lookup"
  ELSE IF k \in Outcome THEN "close" ELSE "log"

PostEvent(r) ==
  /\ RoomForEvent
  /\ \E s \in Session, k \in Kind, a \in {Nothing} \cup Attempt :
       /\ a # Nothing => a \in OwnIds(s)
       /\ Begin(r, FirstStage(k, a), s, a, k, Nothing)
  /\ NoteOverlap
  /\ UNCHANGED <<row, sessionState, event, sheet, selections, scanned>>

PostStart(r) ==
  /\ RoomForEvent
  /\ \E s \in Session, a \in {Nothing} \cup Attempt :
       /\ a # Nothing => a \in OwnIds(s)
       /\ Begin(r, IF a = Nothing THEN "check" ELSE "open", s, a,
                "broadcast_started", Nothing)
  /\ NoteOverlap
  /\ UNCHANGED <<row, sessionState, event, sheet, selections, scanned>>

PatchOutcome(r) ==
  /\ RoomForEvent
  /\ \E a \in Attempt, k \in Outcome :
       /\ Exists(a) /\ row[a].session # Nothing   \* an error otherwise
       /\ Begin(r, "close", row[a].session, a, k, Nothing)
  /\ NoteOverlap
  /\ UNCHANGED <<row, sessionState, event, sheet, selections, scanned>>

PatchActiveGroup(r) ==
  /\ selections < MaxSelections
  /\ selections' = selections + 1
  /\ \E a \in Attempt, g \in Group :
       Exists(a) /\ Begin(r, "select", row[a].session, a, Nothing, g)
  /\ NoteOverlap
  /\ UNCHANGED <<row, sessionState, event, sheet, scanned>>

\* media_wlc_update_session: any state, in one statement.
PatchSession(s) ==
  /\ \E st \in SessionState : sessionState' = [sessionState EXCEPT ![s] = st]
  /\ UNCHANGED <<row, event, sheet, req, selections, evidence, marks>>

-----------------------------------------------------------------------------
(* Statements.  The open attempt is looked up in one, written in another.    *)

CheckNoneOpen(r) ==
  /\ req[r].stage = "check"
  /\ \/ OpenOf(req[r].session) # {} /\ Finish(r)               \* 409
     \/ \E a \in FreshIds(req[r].session) :
          OpenOf(req[r].session) = {} /\ GotoWith(r, "open", a)
  /\ NoteOverlap
  /\ UNCHANGED <<row, sessionState, event, sheet, selections, scanned>>

LookupOpen(r) ==
  LET s == req[r].session
      given == req[r].attempt
      closes == req[r].kind \in Outcome
  IN /\ req[r].stage = "lookup"
     /\ \/ \E a \in OpenOf(s) :
             \/ closes /\ GotoWith(r, "close", a)
             \/ ~closes /\ given \in {a, Nothing} /\ GotoWith(r, "log", a)
             \/ ~closes /\ given \notin {a, Nothing} /\ Goto(r, "open")
        \/ \E a \in IF given = Nothing THEN FreshIds(s) ELSE {given} :
             OpenOf(s) = {} /\ GotoWith(r, IF closes THEN "close" ELSE "open", a)
     /\ NoteOverlap
     /\ UNCHANGED <<row, sessionState, event, sheet, selections, scanned>>

\* Deviation: the insert overwrites the row that has the id.
InsertOpenOverwriting(r) ==
  LET s == req[r].session
      a == req[r].attempt
  IN /\ req[r].stage = "open"
     /\ \/ OpenOf(s) \ {a} # {} /\ Finish(r) /\ UNCHANGED row
        \/ /\ OpenOf(s) \ {a} = {} /\ Goto(r, "log")
           /\ row' = [row EXCEPT ![a].state = "open", ![a].session = s]
     /\ NoteOverlap
     /\ UNCHANGED <<sessionState, event, sheet, selections, scanned>>

\* Deviation: the table lacks the partial unique index.
InsertOpenWithoutIndex(r) ==
  LET a == req[r].attempt
  IN /\ req[r].stage = "open"
     /\ row' = IF Exists(a) THEN row
               ELSE [row EXCEPT ![a].state = "open", ![a].session = req[r].session]
     /\ Goto(r, "log")
     /\ NoteOverlap
     /\ UNCHANGED <<sessionState, event, sheet, selections, scanned>>

\* "on conflict (attempt_id) do nothing" does not cover the index of open
\* attempts: meeting it is an error, and the request ends.
InsertOpen(r) ==
  LET s == req[r].session
      a == req[r].attempt
  IN /\ req[r].stage = "open"
     /\ \/ Exists(a) /\ Goto(r, "log") /\ UNCHANGED row
        \/ ~Exists(a) /\ OpenOf(s) # {} /\ Finish(r) /\ UNCHANGED row
        \/ /\ ~Exists(a) /\ OpenOf(s) = {} /\ Goto(r, "log")
           /\ row' = [row EXCEPT ![a].state = "open", ![a].session = s]
     /\ NoteOverlap
     /\ UNCHANGED <<sessionState, event, sheet, selections, scanned>>

\* Deviation: the update branch takes the session of the request.
CloseElsewhere(r) ==
  LET a == req[r].attempt
  IN /\ req[r].stage = "close"
     /\ row' = [row EXCEPT ![a] = [NoRow EXCEPT !.state = "completed",
                                                !.session = req[r].session,
                                                !.kind = req[r].kind, !.marked = TRUE]]
     /\ Goto(r, "log")
     /\ NoteOverlap
     /\ UNCHANGED <<sessionState, event, sheet, selections, scanned>>

\* The upsert keeps the session, the start and the group of a row it meets.
CloseAttempt(r) ==
  LET a == req[r].attempt
  IN /\ req[r].stage = "close"
     /\ row' = [row EXCEPT ![a].state = "completed", ![a].kind = req[r].kind,
                           ![a].marked = TRUE,
                           ![a].session = IF Exists(a) THEN @ ELSE req[r].session]
     /\ Goto(r, "log")
     /\ NoteOverlap
     /\ UNCHANGED <<sessionState, event, sheet, selections, scanned>>

\* The foreign key refuses an attempt that has no row.
LogEvent(r) ==
  LET a == req[r].attempt
  IN /\ req[r].stage = "log"
     /\ IF a # Nothing /\ ~Exists(a)
        THEN Finish(r) /\ UNCHANGED event
        ELSE /\ event' = Append(event, [session |-> req[r].session, attempt |-> a,
                                        kind |-> req[r].kind])
             /\ IF req[r].kind = "session_end" THEN Goto(r, "end") ELSE Finish(r)
     /\ NoteOverlap
     /\ UNCHANGED <<row, sessionState, sheet, selections, scanned>>

EndSession(r) ==
  /\ req[r].stage = "end"
  /\ sessionState' = [sessionState EXCEPT ![req[r].session] = "stopped"]
  /\ Finish(r)
  /\ NoteOverlap
  /\ UNCHANGED <<row, event, sheet, selections, scanned>>

\* The files of the package are written for attempts that have a session.
SelectGroup(r) ==
  /\ req[r].stage = "select"
  /\ row' = [row EXCEPT ![req[r].attempt].group = req[r].group]
  /\ scanned' = scanned \ {req[r].attempt}
  /\ IF req[r].session = Nothing THEN Finish(r) ELSE Goto(r, "files")
  /\ NoteOverlap
  /\ UNCHANGED <<sessionState, event, sheet, selections>>

\* Deviation: the files are written for the first selection only.
WriteSheetOnce(r) ==
  /\ req[r].stage = "files"
  /\ sheet' = [sheet EXCEPT ![req[r].attempt] = IF @ = Nothing THEN req[r].group ELSE @]
  /\ Finish(r)
  /\ NoteOverlap
  /\ UNCHANGED <<row, sessionState, event, selections, scanned>>

WriteSheet(r) ==
  /\ req[r].stage = "files"
  /\ sheet' = [sheet EXCEPT ![req[r].attempt] = req[r].group]
  /\ Finish(r)
  /\ NoteOverlap
  /\ UNCHANGED <<row, sessionState, event, selections, scanned>>

\* A failing statement, a file error that is passed over, or a restart: the
\* request goes no further.
GiveUp(r) ==
  /\ AtWork(r)
  /\ Finish(r)
  /\ abandoned' = abandoned \cup ({req[r].attempt} \ {Nothing})
  /\ UNCHANGED <<row, sessionState, event, sheet, selections, evidence, raced, imported, scanned>>

-----------------------------------------------------------------------------
(* The other writers of attempt rows.                                       *)

PutEvidence ==
  /\ evidence < MaxEvidence
  /\ evidence' = evidence + 1
  /\ UNCHANGED <<sessionState, event, sheet, req, selections, raced, abandoned>>

\* media_wlc_update_attempt_from_snapshot: the last statement of a scan about a
\* block that names this attempt of the session.
UpdateFromSnapshot(a) ==
  /\ PutEvidence
  /\ row[a].session # Nothing
  /\ \E g \in Group : row' = [row EXCEPT ![a].group = g]
  /\ scanned' = scanned \cup {a}
  /\ UNCHANGED imported

\* emit_attempt_sql: one transaction, which keeps the state of a row it meets and
\* opens a new one.  Packages of vocera_wlc_attempt.py name no session, but a
\* manifest may; the index of open attempts refuses a second one.
ImportAttempt(a) ==
  /\ PutEvidence
  /\ \E p \in Report :
       LET state == IF Exists(a) THEN row[a].state ELSE "open" IN
       /\ state = "open" /\ p.session # Nothing => OpenOf(p.session) \subseteq {a}
       /\ row' = [row EXCEPT ![a] = [state |-> state, session |-> p.session, kind |-> p.kind,
                                     group |-> p.group, marked |-> p.marked]]
  /\ imported' = imported \cup {a}
  /\ UNCHANGED scanned

\* The schema file, which every import runs first, takes open rows that are
\* marked for rows of an older schema.
ApplySchema ==
  /\ row' = [a \in Attempt |->
       IF row[a].state = "open" /\ row[a].marked
       THEN [row[a] EXCEPT !.state = IF row[a].kind = Nothing THEN "incomplete" ELSE "completed"]
       ELSE row[a]]
  /\ UNCHANGED <<sessionState, event, sheet, req, selections, evidence, marks>>

Next ==
  \/ \E r \in Request :
       \/ PostEvent(r) \/ PostStart(r) \/ PatchOutcome(r) \/ PatchActiveGroup(r)
       \/ CheckNoneOpen(r) \/ LookupOpen(r) \/ InsertOpen(r) \/ CloseAttempt(r) \/ LogEvent(r)
       \/ EndSession(r) \/ SelectGroup(r) \/ WriteSheet(r) \/ GiveUp(r)
  \/ \E s \in Session : PatchSession(s)
  \/ \E a \in Attempt : UpdateFromSnapshot(a) \/ ImportAttempt(a)
  \/ ApplySchema

Spec == Init /\ [][Next]_vars

-----------------------------------------------------------------------------
(* Properties.                                                              *)

\* The packets of a session are assigned to attempts by their windows, which
\* needs at most one open attempt, whatever order lookups and inserts take.
OneOpenAttempt == \A s \in Session : \A a, b \in OpenOf(s) : a = b

\* No event is on its way or stored for what a row shows only if a request gave
\* up between its two statements.
EventFor(a, ks) ==
  \/ \E i \in DOMAIN event : event[i].attempt = a /\ event[i].kind \in ks
  \/ \E r \in Request : req[r].stage = "log" /\ req[r].attempt = a /\ req[r].kind \in ks

\* The timeline tells what the rows tell: an open attempt has its start, a
\* completed one the outcome it shows, even if several outcomes raced for it.
TimelineCoversRows ==
  \A a \in Attempt \ (abandoned \cup imported) :
    /\ row[a].state = "open"      => EventFor(a, {"broadcast_started"})
    /\ row[a].state = "completed" => EventFor(a, {row[a].kind})

\* Where requests took turns and none gave up, the last outcome of the timeline
\* is that of the row, and so is the last group written to the package, unless
\* a terminal log has put another on the row since.
LastWordCounts ==
  \A a \in Attempt \ (raced \cup abandoned \cup imported) :
    (\A r \in Request : req[r].attempt # a) =>
      /\ a \notin scanned => sheet[a] = row[a].group
      /\ \A i \in DOMAIN event :
           /\ event[i].attempt = a /\ event[i].kind \in Outcome
           /\ \A j \in DOMAIN event :
                event[j].attempt = a /\ event[j].kind \in Outcome => j <= i
           => row[a].kind = event[i].kind

\* The timeline tells what the rows tell, also of attempts that outcomes raced
\* for; where no two requests worked on an attempt at once, its last word and the
\* last selection in the files of the package are what the row says.  Attempts
\* that a request gave up on or that an import wrote are excepted
\* (main.py 3914-4057).
TimelineAgreesWithRows == TimelineCoversRows /\ LastWordCounts

\* A start that names a finished attempt, or that lost a race against its
\* outcome, does not open it again.
CompletedStaysCompleted ==
  [][\A a \in Attempt : row[a].state = "completed" => row'[a].state = "completed"]_vars
=============================================================================
