---------------------------- MODULE Attempts_proofs ----------------------------
(***************************************************************************)
(* Theorems about BroadcastAttempts, WlcTranscripts and WlcCli for any      *)
(* sessions, attempts, groups, event kinds, requests, scans and logs: at    *)
(* most one attempt of a session is open, a completed one stays completed,  *)
(* the timeline tells what rows tell, a terminal log that counts as parsed  *)
(* has its blocks stored, only a block that names an attempt is evidence of *)
(* it, and cutting a log into blocks keeps its lines.                       *)
(***************************************************************************)
EXTENDS BroadcastAttempts, WlcTranscripts, WlcCli, FiniteSetTheorems, SequenceTheorems,
        WellFoundedInduction, TLAPS

-----------------------------------------------------------------------------
(***************************************************************************)
(* Attempts and events (BroadcastAttempts).                                 *)
(***************************************************************************)

(* What a request carries at each of its stages.                            *)
ReqOK(r) ==
  /\ req[r].stage \notin {"idle", "select", "files"} => req[r].session \in Session
  /\ req[r].stage \in {"open", "close", "select", "files"} => req[r].attempt \in Attempt
  /\ req[r].stage \in {"lookup", "check", "open", "close", "log", "end"} => req[r].kind \in Kind
  /\ req[r].stage = "close" => req[r].kind \in Outcome
  /\ req[r].stage \in {"select", "files"} => req[r].group \in Group

IInv ==
  /\ TypeOK
  /\ \A r \in Request : ReqOK(r)
  /\ OneOpenAttempt

Requests ==
  [stage   : {"idle", "lookup", "check", "open", "close", "log", "end", "select", "files"},
   session : Session \cup {Nothing}, attempt : Attempt \cup {Nothing},
   kind    : Kind \cup {Nothing}, group : Group \cup {Nothing}]

AttemptRow ==
  [state   : {"absent", "open", "incomplete", "completed"}, session : Session \cup {Nothing},
   kind    : Outcome \cup {Nothing}, group : Group \cup {Nothing}, marked : BOOLEAN]

(* The marks that say which attempts the properties except.                 *)
MarksOK == evidence \in 0..MaxEvidence /\ raced \cup abandoned \cup imported \cup scanned \subseteq Attempt

-----------------------------------------------------------------------------
(* The rows of one step.                                                    *)

(* A request that moves on keeps all requests well formed, if its new       *)
(* record is.                                                               *)
LEMMA ReqStep ==
  ASSUME IInv, NEW r \in Request, NEW x \in Requests,
         req' = [req EXCEPT ![r] = x],
         x.stage \notin {"idle", "select", "files"} => x.session \in Session,
         x.stage \in {"open", "close", "select", "files"} => x.attempt \in Attempt,
         x.stage \in {"lookup", "check", "open", "close", "log", "end"} => x.kind \in Kind,
         x.stage = "close" => x.kind \in Outcome,
         x.stage \in {"select", "files"} => x.group \in Group
  PROVE  req' \in [Request -> Requests] /\ \A q \in Request : ReqOK(q)'
<1>1. req \in [Request -> Requests]  BY DEF IInv, TypeOK, Requests
<1>2. req' \in [Request -> Requests]  BY <1>1
<1>3. ASSUME NEW q \in Request PROVE ReqOK(q)'
  <2>1. CASE q = r
    <3>1. req'[q] = x  BY <1>1, <2>1
    <3> QED  BY <3>1 DEF ReqOK
  <2>2. CASE q # r
    <3>1. req'[q] = req[q]  BY <1>1, <2>2
    <3> QED  BY <3>1 DEF IInv, ReqOK
  <2> QED  BY <2>1, <2>2
<1> QED  BY <1>2, <1>3

(* A request that ends carries nothing.                                     *)
LEMMA FinishStep ==
  ASSUME IInv, NEW r \in Request, Finish(r)
  PROVE  req' \in [Request -> Requests] /\ \A q \in Request : ReqOK(q)'
<1>1. Idle \in Requests  BY DEF Idle, Requests
<1>2. Idle.stage = "idle"  BY DEF Idle
<1> QED  BY <1>1, <1>2, ReqStep DEF Finish

(* A request that goes on to another stage with what it carries.            *)
LEMMA GotoStep ==
  ASSUME IInv, NEW r \in Request,
         NEW s \in {"open", "close", "log", "end", "files"}, Goto(r, s),
         s # "files" => req[r].stage \notin {"idle", "select", "files"},
         s \in {"open", "close", "files"} => req[r].attempt \in Attempt,
         s # "files" => req[r].kind \in Kind,
         s = "close" => req[r].kind \in Outcome,
         s = "files" => req[r].group \in Group
  PROVE  req' \in [Request -> Requests] /\ \A q \in Request : ReqOK(q)'
<1>1. req \in [Request -> Requests]  BY DEF IInv, TypeOK, Requests
<1> DEFINE x == [req[r] EXCEPT !.stage = s]
<1>2. x \in Requests /\ x.stage = s /\ x.session = req[r].session
      /\ x.attempt = req[r].attempt /\ x.kind = req[r].kind /\ x.group = req[r].group
  BY <1>1 DEF Requests
<1>3. req' = [req EXCEPT ![r] = x]  BY <1>1 DEF Goto
<1>4. s # "files" => req[r].session \in Session  BY DEF IInv, ReqOK
<1> HIDE DEF x
<1> QED  BY <1>2, <1>3, <1>4, ReqStep

(* The same, with the attempt the request has settled on.                   *)
LEMMA GotoWithStep ==
  ASSUME IInv, NEW r \in Request, NEW a \in Attempt,
         NEW s \in {"open", "close", "log"}, GotoWith(r, s, a),
         req[r].stage \notin {"idle", "select", "files"}, req[r].kind \in Kind,
         s = "close" => req[r].kind \in Outcome
  PROVE  req' \in [Request -> Requests] /\ \A q \in Request : ReqOK(q)'
<1>1. req \in [Request -> Requests]  BY DEF IInv, TypeOK, Requests
<1> DEFINE x == [req[r] EXCEPT !.stage = s, !.attempt = a]
<1>2. x \in Requests /\ x.stage = s /\ x.session = req[r].session
      /\ x.attempt = a /\ x.kind = req[r].kind
  BY <1>1 DEF Requests
<1>3. req' = [req EXCEPT ![r] = x]  BY <1>1 DEF GotoWith
<1>4. req[r].session \in Session  BY DEF IInv, ReqOK
<1> HIDE DEF x
<1> QED  BY <1>2, <1>3, <1>4, ReqStep

(* A request that arrives.                                                  *)
LEMMA BeginStep ==
  ASSUME IInv, NEW r \in Request, NEW st \in {"lookup", "check", "open", "close", "log", "select"},
         NEW s \in Session \cup {Nothing}, NEW a \in Attempt \cup {Nothing},
         NEW k \in Kind \cup {Nothing},
         NEW g \in Group \cup {Nothing}, Begin(r, st, s, a, k, g),
         st \in {"open", "close", "select"} => a \in Attempt,
         st # "select" => k \in Kind /\ s \in Session, st = "close" => k \in Outcome,
         st = "select" => g \in Group
  PROVE  req' \in [Request -> Requests] /\ \A q \in Request : ReqOK(q)'
<1> DEFINE x == [stage |-> st, session |-> s, attempt |-> a, kind |-> k, group |-> g]
<1>1. x \in Requests /\ x.stage = st /\ x.session = s /\ x.attempt = a /\ x.kind = k /\ x.group = g
  BY DEF Requests
<1>2. req' = [req EXCEPT ![r] = x]  BY DEF Begin
<1> HIDE DEF x
<1> QED  BY <1>1, <1>2, ReqStep

(* Steps that touch no row leave the open attempts alone.                   *)
LEMMA RowsKept ==
  ASSUME IInv, row' = row
  PROVE  OneOpenAttempt'
BY DEF IInv, OneOpenAttempt, OpenOf

-----------------------------------------------------------------------------
(* The actions.                                                             *)

(* Requests that arrive or move without touching a row.                     *)
LEMMA QuietSteps ==
  ASSUME IInv, NEW r \in Request,
         PostEvent(r) \/ PostStart(r) \/ PatchOutcome(r) \/ PatchActiveGroup(r)
         \/ CheckNoneOpen(r) \/ LookupOpen(r) \/ EndSession(r) \/ GiveUp(r)
  PROVE  /\ req' \in [Request -> Requests]
         /\ \A q \in Request : ReqOK(q)'
         /\ row' = row /\ event' = event /\ sheet' = sheet
         /\ sessionState' \in [Session -> SessionState]
         /\ selections' \in 0..MaxSelections
         /\ MarksOK'
<1> USE AttemptsAssumption
<1>0. /\ row \in [Attempt -> AttemptRow]
      /\ req \in [Request -> Requests]
      /\ sessionState \in [Session -> SessionState]
      /\ selections \in 0..MaxSelections /\ MarksOK
  BY DEF IInv, TypeOK, Requests, AttemptRow, MarksOK
<1>a. ASSUME NoteOverlap, scanned' = scanned PROVE MarksOK'
  BY <1>0, <1>a DEF NoteOverlap, MarksOK
<1>b. Outcome \subseteq Kind  BY DEF Outcome
<1>1. CASE PostEvent(r)
  <2>1. PICK s \in Session, k \in Kind, a \in {Nothing} \cup Attempt :
          Begin(r, FirstStage(k, a), s, a, k, Nothing)
    BY <1>1 DEF PostEvent
  <2>2. /\ FirstStage(k, a) \in {"lookup", "close", "log"}
        /\ FirstStage(k, a) = "close" => k \in Outcome /\ a \in Attempt
    BY DEF FirstStage
  <2>3. req' \in [Request -> Requests] /\ \A q \in Request : ReqOK(q)'
    BY <2>1, <2>2, BeginStep
  <2> QED  BY <1>0, <1>1, <1>a, <2>3 DEF PostEvent
<1>2. CASE PostStart(r)
  <2>1. PICK s \in Session, a \in {Nothing} \cup Attempt :
          Begin(r, IF a = Nothing THEN "check" ELSE "open", s, a, "broadcast_started", Nothing)
    BY <1>2 DEF PostStart
  <2>2. PICK st \in {"check", "open"} :
          /\ Begin(r, st, s, a, "broadcast_started", Nothing)
          /\ st = "open" => a \in Attempt
    BY <2>1
  <2>3. req' \in [Request -> Requests] /\ \A q \in Request : ReqOK(q)'
    BY <2>2, BeginStep
  <2> QED  BY <1>0, <1>2, <1>a, <2>3 DEF PostStart
<1>3. CASE PatchOutcome(r)
  <2>1. PICK a \in Attempt, k \in Outcome :
          row[a].session # Nothing /\ Begin(r, "close", row[a].session, a, k, Nothing)
    BY <1>3 DEF PatchOutcome
  <2>2. row[a].session \in Session  BY <1>0, <2>1 DEF AttemptRow
  <2>3. req' \in [Request -> Requests] /\ \A q \in Request : ReqOK(q)'
    BY <1>b, <2>1, <2>2, BeginStep
  <2> QED  BY <1>0, <1>3, <1>a, <2>3 DEF PatchOutcome
<1>4. CASE PatchActiveGroup(r)
  <2>1. PICK a \in Attempt, g \in Group :
          Exists(a) /\ Begin(r, "select", row[a].session, a, Nothing, g)
    BY <1>4 DEF PatchActiveGroup
  <2>2. row[a].session \in Session \cup {Nothing}  BY <1>0 DEF AttemptRow
  <2>3. req' \in [Request -> Requests] /\ \A q \in Request : ReqOK(q)'
    BY <2>1, <2>2, BeginStep
  <2>4. selections' \in 0..MaxSelections  BY <1>0, <1>4 DEF PatchActiveGroup
  <2> QED  BY <1>0, <1>4, <1>a, <2>3, <2>4 DEF PatchActiveGroup
<1>5. CASE CheckNoneOpen(r)
  <2>1. CASE Finish(r)
    <3>1. req' \in [Request -> Requests] /\ \A q \in Request : ReqOK(q)'
      BY <2>1, FinishStep
    <3> QED  BY <1>0, <1>5, <1>a, <3>1 DEF CheckNoneOpen
  <2>2. CASE \E a \in FreshIds(req[r].session) : GotoWith(r, "open", a)
    <3>1. PICK a \in Attempt : GotoWith(r, "open", a)  BY <2>2 DEF FreshIds, OwnIds
    <3>2. req[r].kind \in Kind /\ req[r].stage = "check"
      BY <1>5 DEF CheckNoneOpen, IInv, ReqOK
    <3>3. req' \in [Request -> Requests] /\ \A q \in Request : ReqOK(q)'
      BY <3>1, <3>2, GotoWithStep
    <3> QED  BY <1>0, <1>5, <1>a, <3>3 DEF CheckNoneOpen
  <2> QED  BY <1>5, <2>1, <2>2 DEF CheckNoneOpen
<1>6. CASE LookupOpen(r)
  <2>1. /\ req[r].stage = "lookup" /\ req[r].kind \in Kind
        /\ req[r].attempt \in Attempt \cup {Nothing}
    BY <1>0, <1>6 DEF LookupOpen, IInv, ReqOK, Requests
  <2>2. \/ \E a \in Attempt, s \in {"open", "close", "log"} :
             GotoWith(r, s, a) /\ (s = "close" => req[r].kind \in Outcome)
        \/ Goto(r, "open") /\ req[r].attempt \in Attempt
    <3>1. CASE \E a \in OpenOf(req[r].session) :
                 \/ req[r].kind \in Outcome /\ GotoWith(r, "close", a)
                 \/ /\ req[r].kind \notin Outcome /\ req[r].attempt \in {a, Nothing}
                    /\ GotoWith(r, "log", a)
                 \/ /\ req[r].kind \notin Outcome /\ req[r].attempt \notin {a, Nothing}
                    /\ Goto(r, "open")
      BY <2>1, <3>1 DEF OpenOf
    <3>2. CASE \E a \in IF req[r].attempt = Nothing THEN FreshIds(req[r].session)
                        ELSE {req[r].attempt} :
                 GotoWith(r, IF req[r].kind \in Outcome THEN "close" ELSE "open", a)
      BY <2>1, <3>2 DEF FreshIds, OwnIds
    <3> QED  BY <1>6, <3>1, <3>2 DEF LookupOpen
  <2>3. req' \in [Request -> Requests] /\ \A q \in Request : ReqOK(q)'
    <3>1. CASE \E a \in Attempt, s \in {"open", "close", "log"} :
                 GotoWith(r, s, a) /\ (s = "close" => req[r].kind \in Outcome)
      BY <2>1, <3>1, GotoWithStep
    <3>2. CASE Goto(r, "open") /\ req[r].attempt \in Attempt
      BY <2>1, <3>2, GotoStep
    <3> QED  BY <2>2, <3>1, <3>2
  <2> QED  BY <1>0, <1>6, <1>a, <2>3 DEF LookupOpen
<1>7. CASE EndSession(r)
  <2>1. req' \in [Request -> Requests] /\ \A q \in Request : ReqOK(q)'
    BY <1>7, FinishStep DEF EndSession
  <2>2. sessionState' \in [Session -> SessionState]  BY <1>0, <1>7 DEF EndSession
  <2> QED  BY <1>0, <1>7, <1>a, <2>1, <2>2 DEF EndSession
<1>8. CASE GiveUp(r)
  <2>1. req' \in [Request -> Requests] /\ \A q \in Request : ReqOK(q)'
    BY <1>8, FinishStep DEF GiveUp
  <2>2. MarksOK'  BY <1>0, <1>8 DEF GiveUp, Requests, MarksOK
  <2> QED  BY <1>0, <1>8, <2>1, <2>2 DEF GiveUp
<1> QED  BY <1>1, <1>2, <1>3, <1>4, <1>5, <1>6, <1>7, <1>8

(* The insert keeps the index of open attempts: it opens an attempt only     *)
(* where none is open.                                                      *)
LEMMA InsertStep ==
  ASSUME IInv, NEW r \in Request, InsertOpen(r)
  PROVE  IInv'
<1> DEFINE s == req[r].session
           a == req[r].attempt
<1>0. /\ row \in [Attempt -> AttemptRow]
      /\ MarksOK
  BY DEF IInv, TypeOK, AttemptRow, MarksOK
<1>1. req[r].stage = "open" /\ s \in Session /\ a \in Attempt /\ req[r].kind \in Kind
  BY DEF InsertOpen, IInv, ReqOK
<1>2. MarksOK'  BY <1>0 DEF InsertOpen, NoteOverlap, MarksOK
<1>3. UNCHANGED <<sessionState, event, sheet, selections>>  BY DEF InsertOpen
<1>4. req' \in [Request -> Requests] /\ \A q \in Request : ReqOK(q)'
  <2>1. CASE Finish(r)  BY <2>1, FinishStep
  <2>2. CASE Goto(r, "log")  BY <2>2, <1>1, GotoStep
  <2> QED  BY <2>1, <2>2 DEF InsertOpen
<1>5. CASE row' = row
  <2>1. OneOpenAttempt'  BY <1>5, RowsKept
  <2> QED  BY <1>0, <1>2, <1>3, <1>4, <1>5, <2>1 DEF IInv, TypeOK, Requests, AttemptRow, MarksOK
<1>6. CASE /\ OpenOf(s) = {}
           /\ row' = [row EXCEPT ![a].state = "open", ![a].session = s]
  <2>1. row' \in [Attempt -> AttemptRow]
    BY <1>0, <1>1, <1>6 DEF AttemptRow
  <2>2. /\ row'[a].session = s
        /\ \A b \in Attempt \ {a} : row'[b] = row[b]
    BY <1>0, <1>1, <1>6 DEF AttemptRow
  <2>4. OneOpenAttempt'
    <3>1. ASSUME NEW t \in Session, NEW b \in OpenOf(t)', NEW c \in OpenOf(t)' PROVE b = c
      <4>1. CASE t = s
        <5>1. b = a /\ c = a  BY <1>6, <2>2, <4>1 DEF OpenOf
        <5> QED  BY <5>1
      <4>2. CASE t # s
        <5>1. b \in OpenOf(t) /\ c \in OpenOf(t)  BY <2>2, <4>2 DEF OpenOf
        <5> QED  BY <5>1 DEF IInv, OneOpenAttempt
      <4> QED  BY <4>1, <4>2
    <3> QED  BY <3>1 DEF OneOpenAttempt
  <2> QED  BY <1>2, <1>3, <1>4, <2>1, <2>4 DEF IInv, TypeOK, Requests, AttemptRow, MarksOK
<1> QED  BY <1>5, <1>6 DEF InsertOpen

(* Closing an attempt opens none.                                           *)
LEMMA CloseStep ==
  ASSUME IInv, NEW r \in Request, CloseAttempt(r)
  PROVE  IInv'
<1> DEFINE a == req[r].attempt
<1>0. /\ row \in [Attempt -> AttemptRow]
      /\ MarksOK
  BY DEF IInv, TypeOK, AttemptRow, MarksOK
<1>1. /\ req[r].stage = "close" /\ req[r].session \in Session /\ a \in Attempt
      /\ req[r].kind \in Kind /\ req[r].kind \in Outcome
  BY DEF CloseAttempt, IInv, ReqOK
<1>2. MarksOK'  BY <1>0 DEF CloseAttempt, NoteOverlap, MarksOK
<1>3. UNCHANGED <<sessionState, event, sheet, selections>>  BY DEF CloseAttempt
<1>4. req' \in [Request -> Requests] /\ \A q \in Request : ReqOK(q)'
  BY <1>1, GotoStep DEF CloseAttempt
<1>5. /\ row' \in [Attempt -> AttemptRow]
      /\ row'[a].state = "completed"
      /\ row'[a].session = IF Exists(a) THEN row[a].session ELSE req[r].session
      /\ \A b \in Attempt \ {a} : row'[b] = row[b]
  BY <1>0, <1>1 DEF CloseAttempt, AttemptRow
<1>7. OneOpenAttempt'
  <2>1. ASSUME NEW t \in Session PROVE OpenOf(t)' \subseteq OpenOf(t)
    BY <1>5 DEF OpenOf
  <2> QED  BY <2>1 DEF IInv, OneOpenAttempt
<1> QED  BY <1>2, <1>3, <1>4, <1>5, <1>7 DEF IInv, TypeOK, Requests, AttemptRow, MarksOK

(* Selecting a group leaves state and session of the row.                   *)
LEMMA SelectStep ==
  ASSUME IInv, NEW r \in Request, SelectGroup(r)
  PROVE  IInv'
<1> DEFINE a == req[r].attempt
<1>0. /\ row \in [Attempt -> AttemptRow]
      /\ MarksOK
  BY DEF IInv, TypeOK, AttemptRow, MarksOK
<1>1. req[r].stage = "select" /\ a \in Attempt /\ req[r].group \in Group
  BY DEF SelectGroup, IInv, ReqOK
<1>2. MarksOK'  BY <1>0 DEF SelectGroup, NoteOverlap, MarksOK
<1>3. UNCHANGED <<sessionState, event, sheet, selections>>  BY DEF SelectGroup
<1>4. req' \in [Request -> Requests] /\ \A q \in Request : ReqOK(q)'
  <2>1. CASE Finish(r)  BY <2>1, FinishStep
  <2>2. CASE Goto(r, "files")  BY <1>1, <2>2, GotoStep
  <2> QED  BY <2>1, <2>2 DEF SelectGroup
<1>5. /\ row' \in [Attempt -> AttemptRow]
      /\ \A b \in Attempt : row'[b].state = row[b].state /\ row'[b].session = row[b].session
  BY <1>0, <1>1 DEF SelectGroup, AttemptRow
<1>7. OneOpenAttempt'
  <2>1. ASSUME NEW t \in Session PROVE OpenOf(t)' \subseteq OpenOf(t)
    BY <1>5 DEF OpenOf
  <2> QED  BY <2>1 DEF IInv, OneOpenAttempt
<1> QED  BY <1>2, <1>3, <1>4, <1>5, <1>7 DEF IInv, TypeOK, Requests, AttemptRow, MarksOK

(* Storing an event, and writing the files of a selection.                  *)
LEMMA LogStep ==
  ASSUME IInv, NEW r \in Request, LogEvent(r)
  PROVE  IInv'
<1>0. /\ event \in Seq([session : Session, attempt : Attempt \cup {Nothing}, kind : Kind])
      /\ req \in [Request -> Requests] /\ MarksOK
  BY DEF IInv, TypeOK, Requests, MarksOK
<1>1. /\ req[r].stage = "log" /\ req[r].session \in Session /\ req[r].kind \in Kind
      /\ req[r].attempt \in Attempt \cup {Nothing}
  BY <1>0 DEF LogEvent, IInv, ReqOK, Requests
<1>2. MarksOK'  BY <1>0 DEF LogEvent, NoteOverlap, MarksOK
<1>3. UNCHANGED <<row, sessionState, sheet, selections>>  BY DEF LogEvent
<1>4. req' \in [Request -> Requests] /\ \A q \in Request : ReqOK(q)'
  <2>1. CASE Finish(r)  BY <2>1, FinishStep
  <2>2. CASE Goto(r, "end")  BY <1>1, <2>2, GotoStep
  <2> QED  BY <2>1, <2>2 DEF LogEvent
<1>5. event' \in Seq([session : Session, attempt : Attempt \cup {Nothing}, kind : Kind])
  <2> DEFINE Entry == [session : Session, attempt : Attempt \cup {Nothing}, kind : Kind]
             e     == [session |-> req[r].session, attempt |-> req[r].attempt,
                       kind |-> req[r].kind]
  <2>1. e \in Entry  BY <1>1
  <2>2. event' = event \/ event' = Append(event, e)  BY DEF LogEvent
  <2>3. event \in Seq(Entry)  BY <1>0
  <2>4. event' \in Seq(Entry)
    <3> HIDE DEF e, Entry
    <3> QED  BY <2>1, <2>2, <2>3
  <2> QED  BY <2>4
<1>6. OneOpenAttempt'  BY <1>3, RowsKept
<1> QED  BY <1>2, <1>3, <1>4, <1>5, <1>6 DEF IInv, TypeOK, Requests, AttemptRow, MarksOK

(* Writing the sheets of an attempt.                                       *)
LEMMA SheetStep ==
  ASSUME IInv, NEW r \in Request, WriteSheet(r)
  PROVE  IInv'
<1>0. sheet \in [Attempt -> Group \cup {Nothing}] /\ MarksOK
  BY DEF IInv, TypeOK, AttemptRow, MarksOK
<1>1. req[r].attempt \in Attempt /\ req[r].group \in Group  BY DEF WriteSheet, IInv, ReqOK
<1>2. MarksOK'  BY <1>0 DEF WriteSheet, NoteOverlap, MarksOK
<1>3. UNCHANGED <<row, sessionState, event, selections>>  BY DEF WriteSheet
<1>4. req' \in [Request -> Requests] /\ \A q \in Request : ReqOK(q)'
  BY FinishStep DEF WriteSheet
<1>5. sheet' \in [Attempt -> Group \cup {Nothing}]  BY <1>0, <1>1 DEF WriteSheet
<1>6. OneOpenAttempt'  BY <1>3, RowsKept
<1> QED  BY <1>2, <1>3, <1>4, <1>5, <1>6 DEF IInv, TypeOK, Requests, AttemptRow, MarksOK

(* Scans, imports and the schema leave the requests alone, and open no second *)
(* attempt of a session.                                                    *)
LEMMA EvidenceSteps ==
  ASSUME IInv, (\E a \in Attempt : UpdateFromSnapshot(a) \/ ImportAttempt(a)) \/ ApplySchema
  PROVE  IInv'
<1> USE AttemptsAssumption
<1>0. row \in [Attempt -> AttemptRow] /\ MarksOK
  BY DEF IInv, TypeOK, AttemptRow, MarksOK
<1>1. UNCHANGED <<sessionState, event, sheet, req, selections>>
  BY DEF UpdateFromSnapshot, ImportAttempt, ApplySchema, PutEvidence
<1>2. ASSUME row' \in [Attempt -> AttemptRow], MarksOK',
             \A t \in Session : OpenOf(t)' \subseteq OpenOf(t)
      PROVE  IInv'
  <2>1. OneOpenAttempt'  BY <1>2 DEF IInv, OneOpenAttempt
  <2>2. \A r \in Request : ReqOK(r)'  BY <1>1 DEF IInv, ReqOK
  <2> QED  BY <1>1, <1>2, <2>1, <2>2 DEF IInv, TypeOK, AttemptRow, MarksOK
<1>3. ASSUME NEW a \in Attempt, UpdateFromSnapshot(a) PROVE IInv'
  <2>1. PICK g \in Group : row' = [row EXCEPT ![a].group = g]
    BY <1>3 DEF UpdateFromSnapshot
  <2>2. /\ row' \in [Attempt -> AttemptRow]
        /\ \A b \in Attempt : row'[b].state = row[b].state /\ row'[b].session = row[b].session
    BY <1>0, <2>1 DEF AttemptRow
  <2>3. MarksOK'  BY <1>0, <1>3 DEF UpdateFromSnapshot, PutEvidence, MarksOK
  <2> QED  BY <1>2, <2>2, <2>3 DEF OpenOf
<1>4. ASSUME NEW a \in Attempt, ImportAttempt(a) PROVE IInv'
  <2> DEFINE state == IF Exists(a) THEN row[a].state ELSE "open"
  <2>1. PICK p \in Report :
          /\ state = "open" /\ p.session # Nothing => OpenOf(p.session) \subseteq {a}
          /\ row' = [row EXCEPT ![a] = [state |-> state, session |-> p.session, kind |-> p.kind,
                                        group |-> p.group, marked |-> p.marked]]
    BY <1>4 DEF ImportAttempt
  <2>2. state \in {"open", "incomplete", "completed"}  BY <1>0 DEF Exists, AttemptRow
  <2> HIDE DEF state
  <2>3. p \in [session : Session \cup {Nothing}, kind : Outcome \cup {Nothing},
               group : Group \cup {Nothing}, marked : BOOLEAN]
    OBVIOUS
  <2>4. /\ row' \in [Attempt -> AttemptRow]
        /\ row'[a].state = state /\ row'[a].session = p.session
        /\ \A b \in Attempt \ {a} : row'[b] = row[b]
    BY <1>0, <2>1, <2>2, <2>3 DEF AttemptRow
  <2>5. MarksOK'  BY <1>0, <1>4 DEF ImportAttempt, PutEvidence, MarksOK
  <2>6. ASSUME NEW t \in Session, NEW b \in OpenOf(t)', NEW c \in OpenOf(t)' PROVE b = c
    <3>1. CASE a \in {b, c}
      <4>1. p.session = t /\ state = "open"  BY <2>4, <3>1 DEF OpenOf
      <4>2. OpenOf(t) \subseteq {a}  BY <2>1, <4>1
      <4>3. OpenOf(t)' \subseteq OpenOf(t) \cup {a}  BY <2>4 DEF OpenOf
      <4> QED  BY <4>2, <4>3
    <3>2. CASE a \notin {b, c}
      <4>1. b \in OpenOf(t) /\ c \in OpenOf(t)  BY <2>4, <3>2 DEF OpenOf
      <4> QED  BY <4>1 DEF IInv, OneOpenAttempt
    <3> QED  BY <3>1, <3>2
  <2>7. OneOpenAttempt'  BY <2>6 DEF OneOpenAttempt
  <2>8. \A r \in Request : ReqOK(r)'  BY <1>1 DEF IInv, ReqOK
  <2> QED  BY <1>1, <2>4, <2>5, <2>7, <2>8 DEF IInv, TypeOK, AttemptRow, MarksOK
<1>5. ASSUME ApplySchema PROVE IInv'
  <2>1. ASSUME NEW b \in Attempt
        PROVE  /\ row'[b] \in AttemptRow
               /\ row'[b].state = "open" => row[b].state = "open" /\ row'[b].session = row[b].session
    BY <1>0, <1>5 DEF ApplySchema, AttemptRow
  <2>2. row' \in [Attempt -> AttemptRow]  BY <1>5, <2>1 DEF ApplySchema
  <2>3. MarksOK'  BY <1>0, <1>5 DEF ApplySchema, marks, MarksOK
  <2>4. \A t \in Session : OpenOf(t)' \subseteq OpenOf(t)  BY <2>1 DEF OpenOf
  <2> QED  BY <1>2, <2>2, <2>3, <2>4
<1> QED  BY <1>3, <1>4, <1>5

-----------------------------------------------------------------------------
(* The invariant.                                                           *)

LEMMA InitHolds == Init => IInv
<1> SUFFICES ASSUME Init PROVE IInv  OBVIOUS
<1> USE AttemptsAssumption
<1>1. TypeOK
  <2>1. event \in Seq([session : Session, attempt : Attempt \cup {Nothing}, kind : Kind])
    BY DEF Init
  <2>2. row \in [Attempt -> AttemptRow]
    BY DEF Init, NoRow, AttemptRow
  <2> QED  BY <2>1, <2>2 DEF Init, TypeOK, Idle, AttemptRow
<1>2. \A r \in Request : ReqOK(r)  BY DEF Init, ReqOK, Idle
<1>3. OneOpenAttempt  BY DEF Init, OneOpenAttempt, OpenOf, NoRow
<1> QED  BY <1>1, <1>2, <1>3 DEF IInv

LEMMA StepHolds == IInv /\ [Next]_vars => IInv'
<1> SUFFICES ASSUME IInv, [Next]_vars PROVE IInv'  OBVIOUS
<1>1. ASSUME NEW r \in Request,
             PostEvent(r) \/ PostStart(r) \/ PatchOutcome(r) \/ PatchActiveGroup(r)
             \/ CheckNoneOpen(r) \/ LookupOpen(r) \/ EndSession(r) \/ GiveUp(r)
      PROVE  IInv'
  <2>1. /\ req' \in [Request -> Requests]
        /\ \A q \in Request : ReqOK(q)'
        /\ row' = row /\ event' = event /\ sheet' = sheet
        /\ sessionState' \in [Session -> SessionState]
        /\ selections' \in 0..MaxSelections
        /\ MarksOK'
    BY <1>1, QuietSteps
  <2>2. OneOpenAttempt'  BY <2>1, RowsKept
  <2> QED  BY <2>1, <2>2 DEF IInv, TypeOK, Requests, AttemptRow, MarksOK
<1>2. ASSUME NEW s \in Session, PatchSession(s) PROVE IInv'
  <2>1. sessionState' \in [Session -> SessionState]  BY <1>2 DEF PatchSession, IInv, TypeOK
  <2>2. UNCHANGED <<row, event, sheet, req, selections, evidence, marks>>
    BY <1>2 DEF PatchSession
  <2>3. OneOpenAttempt'  BY <2>2, RowsKept
  <2> QED  BY <2>1, <2>2, <2>3 DEF IInv, TypeOK, ReqOK, marks
<1>3. CASE UNCHANGED vars
  <2>1. OneOpenAttempt'  BY <1>3, RowsKept DEF vars
  <2> QED  BY <1>3, <2>1 DEF vars, marks, IInv, TypeOK, ReqOK
<1> QED
  BY <1>1, <1>2, <1>3, InsertStep, CloseStep, SelectStep, LogStep, SheetStep, EvidenceSteps
     DEF Next

LEMMA Inductive == Spec => []IInv
BY InitHolds, StepHolds, PTL DEF Spec

-----------------------------------------------------------------------------
(* Theorems.                                                                *)

(* Rows, requests, events and files keep their types, for any sessions,     *)
(* attempts, groups, kinds and requests (media_wlc_* of main.py 3642-4057). *)
THEOREM TypeCorrect == Spec => []TypeOK
BY Inductive, PTL DEF IInv

(* A session has at most one open attempt, however many operators start     *)
(* broadcasts, record outcomes and look the open attempt up at once.        *)
THEOREM OneOpen == Spec => []OneOpenAttempt
BY Inductive, PTL DEF IInv

(* No request, no race of any number of them, no scan and no import opens a *)
(* completed attempt again (main.py 3738-3850).                             *)
THEOREM CompletedIsFinal == Spec => CompletedStaysCompleted
<1>1. IInv /\ [Next]_vars =>
        [\A a \in Attempt : row[a].state = "completed" => row'[a].state = "completed"]_vars
  <2> SUFFICES ASSUME IInv, [Next]_vars, NEW a \in Attempt, row[a].state = "completed"
               PROVE  row'[a].state = "completed"
    OBVIOUS
  <2>0. row \in [Attempt -> AttemptRow]
    BY DEF IInv, TypeOK, AttemptRow, MarksOK
  <2>1. ASSUME NEW r \in Request, InsertOpen(r) PROVE row'[a].state = "completed"
    <3>1. CASE row' = row  BY <3>1
    <3>2. CASE /\ ~Exists(req[r].attempt)
               /\ row' = [row EXCEPT ![req[r].attempt].state = "open",
                                     ![req[r].attempt].session = req[r].session]
      <4>1. req[r].attempt # a  BY <3>2 DEF Exists
      <4> QED  BY <2>0, <3>2, <4>1 DEF AttemptRow
    <3> QED  BY <2>1, <3>1, <3>2 DEF InsertOpen
  <2>2. ASSUME NEW r \in Request, CloseAttempt(r) PROVE row'[a].state = "completed"
    BY <2>0, <2>2 DEF CloseAttempt, AttemptRow
  <2>3. ASSUME NEW r \in Request, SelectGroup(r) PROVE row'[a].state = "completed"
    BY <2>0, <2>3 DEF SelectGroup, AttemptRow
  <2>4. ASSUME NEW r \in Request, LogEvent(r) \/ WriteSheet(r)
        PROVE  row'[a].state = "completed"
    BY <2>4 DEF LogEvent, WriteSheet
  <2>5. ASSUME NEW r \in Request,
               PostEvent(r) \/ PostStart(r) \/ PatchOutcome(r) \/ PatchActiveGroup(r)
               \/ CheckNoneOpen(r) \/ LookupOpen(r) \/ EndSession(r) \/ GiveUp(r)
        PROVE  row'[a].state = "completed"
    <3>1. row' = row  BY <2>5, QuietSteps
    <3> QED  BY <3>1
  <2>6. ASSUME NEW s \in Session, PatchSession(s) PROVE row'[a].state = "completed"
    BY <2>6 DEF PatchSession
  <2>7. CASE UNCHANGED vars  BY <2>7 DEF vars
  <2>8. ASSUME NEW b \in Attempt, UpdateFromSnapshot(b) PROVE row'[a].state = "completed"
    BY <2>0, <2>8 DEF UpdateFromSnapshot, AttemptRow
  <2>9. ASSUME NEW b \in Attempt, ImportAttempt(b) PROVE row'[a].state = "completed"
    BY <2>0, <2>9 DEF ImportAttempt, Exists, AttemptRow
  <2>10. ASSUME ApplySchema PROVE row'[a].state = "completed"
    BY <2>0, <2>10 DEF ApplySchema, AttemptRow
  <2> QED  BY <2>1, <2>2, <2>3, <2>4, <2>5, <2>6, <2>7, <2>8, <2>9, <2>10 DEF Next
<1> QED  BY <1>1, Inductive, PTL DEF Spec, CompletedStaysCompleted

-----------------------------------------------------------------------------
(* The timeline and the rows.                                               *)

(* What no two requests worked on at once, no request gave up on and no     *)
(* import wrote has one request at work on it.                              *)
Disturbed == raced \cup abandoned \cup imported

Sole ==
  \A a \in Attempt \ Disturbed : \A p, q \in Request :
    req[p].attempt = a /\ req[q].attempt = a => p = q

(* Only starts open attempts.                                               *)
KindOK(r) ==
  /\ req[r].stage \in {"check", "open"} => req[r].kind = "broadcast_started"
  /\ req[r].stage = "lookup" => req[r].kind \in Outcome \cup {"broadcast_started"}

(* A request that has changed a row and not yet told of it.                 *)
Writes(r, a) == req[r].stage = "files" /\ req[r].attempt = a
Closes(r, a) == req[r].stage = "log" /\ req[r].attempt = a /\ req[r].kind \in Outcome

Kept(r, a) ==
  /\ Writes(r, a) /\ a \notin scanned => row[a].group = req[r].group
  /\ Closes(r, a) => Exists(a) /\ row[a].kind = req[r].kind

(* The last outcome the timeline has of an attempt is that of the row.      *)
LastOutcome(a, i) ==
  /\ i \in DOMAIN event /\ event[i].attempt = a /\ event[i].kind \in Outcome
  /\ \A j \in DOMAIN event : event[j].attempt = a /\ event[j].kind \in Outcome => j <= i

Told(a) == \A i \in DOMAIN event : LastOutcome(a, i) => row[a].kind = event[i].kind

Word(a) ==
  /\ (\A r \in Request : ~Writes(r, a)) /\ a \notin scanned => sheet[a] = row[a].group
  /\ (\A r \in Request : ~Closes(r, a)) => Told(a)

Rest ==
  /\ Sole
  /\ \A r \in Request : KindOK(r)
  /\ \A a \in Attempt \ Disturbed : Word(a) /\ \A r \in Request : Kept(r, a)

(* Rows that no import wrote have a session, are marked once completed, and  *)
(* the selections for them know the session.                                 *)
Native(a) ==
  /\ Exists(a) => row[a].session # Nothing
  /\ row[a].state \in {"absent", "open"} => ~row[a].marked
  /\ \A r \in Request : req[r].stage = "select" /\ req[r].attempt = a => req[r].session # Nothing

Covered(a) ==
  /\ row[a].state = "open"      => EventFor(a, {"broadcast_started"})
  /\ row[a].state = "completed" => EventFor(a, {row[a].kind})

WInv ==
  /\ IInv /\ Rest
  /\ \A a \in Attempt \ imported : Native(a)
  /\ \A a \in Attempt \ (abandoned \cup imported) : Covered(a)

LEMMA StartIsNoOutcome == "broadcast_started" \notin Outcome
BY DEF Outcome

(* What is noted after a step keeps attempts apart.                         *)
LEMMA SoleStep ==
  ASSUME IsFiniteSet(Request), NoteOverlap
  PROVE  Sole'
<1> SUFFICES ASSUME NEW a \in Attempt \ Disturbed', NEW p \in Request, NEW q \in Request,
                    req'[p].attempt = a, req'[q].attempt = a, p # q
             PROVE  FALSE
  BY DEF Sole
<1> DEFINE S == {r \in Request : req'[r].attempt = a}
<1>1. IsFiniteSet(S) /\ Cardinality(S) \in Nat  BY FS_Subset, FS_CardinalityType
<1>2. Cardinality(S) # 0  BY <1>1, FS_EmptySet
<1>3. Cardinality(S) # 1
  <2>1. ~ \E x : S = {x}  OBVIOUS
  <2> HIDE DEF S
  <2> QED  BY <1>1, <2>1, FS_Singleton
<1>4. ~(Cardinality(S) > 1)  BY DEF NoteOverlap, Disturbed
<1> HIDE DEF S
<1> QED  BY <1>1, <1>2, <1>3, <1>4

LEMMA NotedIsMore == NoteOverlap => Disturbed \subseteq Disturbed'
BY DEF NoteOverlap, Disturbed

(* A request that moves on while no event or file changes, and no row but by *)
(* its opening, which the log tells.                                         *)
LEMMA MoveKeeps ==
  ASSUME WInv, NEW r \in Request, NEW x, req' = [req EXCEPT ![r] = x],
         UNCHANGED <<event, sheet, scanned>>, Disturbed \subseteq Disturbed', Sole',
         \A a \in Attempt : /\ row'[a].group = row[a].group /\ row'[a].kind = row[a].kind
                            /\ Exists(a) => row'[a].state # "absent",
         req[r].stage \notin {"files", "log"} \/ req[r].attempt \notin Attempt \ Disturbed',
         x.stage \notin {"files", "log"} \/ (x.stage = "log" /\ x.kind \notin Outcome),
         x.stage \in {"check", "open"} => x.kind = "broadcast_started",
         x.stage = "lookup" => x.kind \in Outcome \cup {"broadcast_started"}
  PROVE  Rest'
<1>1. req'[r] = x /\ \A q \in Request : q # r => req'[q] = req[q]
  BY DEF WInv, IInv, TypeOK
<1>2. \A q \in Request : KindOK(q)'  BY <1>1 DEF WInv, Rest, KindOK
<1>3. ASSUME NEW a \in Attempt \ Disturbed'
      PROVE  Word(a)' /\ \A q \in Request : Kept(q, a)'
  <2>1. Word(a) /\ \A q \in Request : Kept(q, a)  BY DEF WInv, Rest
  <2>2. ~Writes(r, a) /\ ~Closes(r, a) /\ ~Writes(r, a)' /\ ~Closes(r, a)'
    BY <1>1 DEF Writes, Closes
  <2>4. ASSUME NEW q \in Request PROVE Kept(q, a)'
    <3>1. CASE q = r  BY <2>2, <3>1 DEF Kept
    <3>2. CASE q # r
      <4>1. req'[q] = req[q]  BY <1>1, <3>2
      <4>2. Kept(q, a)  BY <2>1
      <4> QED  BY <4>1, <4>2 DEF Kept, Writes, Closes, Exists
    <3> QED  BY <3>1, <3>2
  <2>5. Told(a) => Told(a)'  BY DEF Told, LastOutcome
  <2>6. Word(a)'
    <3>1. ASSUME \A q \in Request : ~Writes(q, a)', a \notin scanned' PROVE sheet'[a] = row'[a].group
      <4>1. ASSUME NEW q \in Request PROVE ~Writes(q, a)
        <5>1. ~Writes(q, a)'  BY <3>1
        <5> QED  BY <1>1, <2>2, <5>1 DEF Writes
      <4> QED  BY <2>1, <3>1, <4>1 DEF Word
    <3>2. ASSUME \A q \in Request : ~Closes(q, a)' PROVE Told(a)'
      <4>1. ASSUME NEW q \in Request PROVE ~Closes(q, a)
        <5>1. ~Closes(q, a)'  BY <3>2
        <5> QED  BY <1>1, <2>2, <5>1 DEF Closes
      <4> QED  BY <2>1, <2>5, <4>1 DEF Word
    <3> QED  BY <3>1, <3>2 DEF Word
  <2> QED  BY <2>4, <2>6
<1> QED  BY <1>2, <1>3 DEF Rest

(* Where such a request may come from and go to.                            *)
Moves(r, x) ==
  /\ req' = [req EXCEPT ![r] = x]
  /\ req[r].stage \notin {"files", "log"}
  /\ x.stage \notin {"files", "log"} \/ (x.stage = "log" /\ x.kind \notin Outcome)
  /\ x.stage \in {"check", "open"} => x.kind = "broadcast_started"
  /\ x.stage = "lookup" => x.kind \in Outcome \cup {"broadcast_started"}

LEMMA BeginMoves ==
  ASSUME NEW r \in Request, NEW st, NEW s, NEW a, NEW k, NEW g, Begin(r, st, s, a, k, g),
         st \notin {"files", "log"} \/ (st = "log" /\ k \notin Outcome),
         st \in {"check", "open"} => k = "broadcast_started",
         st = "lookup" => k \in Outcome \cup {"broadcast_started"}
  PROVE  \E x : Moves(r, x)
<1> DEFINE x == [stage |-> st, session |-> s, attempt |-> a, kind |-> k, group |-> g]
<1>1. x.stage = st /\ x.kind = k /\ req' = [req EXCEPT ![r] = x] /\ req[r].stage = "idle"
  BY DEF Begin, AtWork
<1> HIDE DEF x
<1> QED  BY <1>1 DEF Moves

LEMMA FinishMoves ==
  ASSUME NEW r \in Request, Finish(r), req[r].stage \notin {"files", "log"}
  PROVE  \E x : Moves(r, x)
<1>1. Idle.stage = "idle"  BY DEF Idle
<1> QED  BY <1>1 DEF Finish, Moves

LEMMA GotoMoves ==
  ASSUME IInv, NEW r \in Request, NEW st \in {"open", "close", "log"},
         Goto(r, st) \/ \E a : GotoWith(r, st, a),
         req[r].stage \notin {"files", "log"},
         st = "log" => req[r].kind \notin Outcome,
         st = "open" => req[r].kind = "broadcast_started"
  PROVE  \E x : Moves(r, x)
<1>1. req[r] \in Requests  BY DEF IInv, TypeOK, Requests
<1>2. CASE Goto(r, st)
  <2> DEFINE x == [req[r] EXCEPT !.stage = st]
  <2>1. x.stage = st /\ x.kind = req[r].kind  BY <1>1 DEF Requests
  <2>2. req' = [req EXCEPT ![r] = x]  BY <1>2 DEF Goto
  <2> HIDE DEF x
  <2> QED  BY <2>1, <2>2 DEF Moves
<1>3. CASE \E a : GotoWith(r, st, a)
  <2>1. PICK a : GotoWith(r, st, a)  BY <1>3
  <2> DEFINE x == [req[r] EXCEPT !.stage = st, !.attempt = a]
  <2>2. x.stage = st /\ x.kind = req[r].kind  BY <1>1 DEF Requests
  <2>3. req \in [Request -> Requests]  BY DEF IInv, TypeOK, Requests
  <2>4. req' = [req EXCEPT ![r] = x]  BY <2>1, <2>3 DEF GotoWith
  <2> HIDE DEF x
  <2> QED  BY <2>2, <2>4 DEF Moves
<1> QED  BY <1>2, <1>3

LEMMA QuietMoves ==
  ASSUME WInv, NEW r \in Request,
         PostEvent(r) \/ PostStart(r) \/ PatchOutcome(r) \/ PatchActiveGroup(r)
         \/ CheckNoneOpen(r) \/ LookupOpen(r) \/ EndSession(r)
  PROVE  (\E x : Moves(r, x)) /\ NoteOverlap /\ scanned' = scanned
<1>1. CASE PostEvent(r)
  <2>1. PICK s \in Session, k \in Kind, a \in {Nothing} \cup Attempt :
          Begin(r, FirstStage(k, a), s, a, k, Nothing)
    BY <1>1 DEF PostEvent
  <2>2. /\ FirstStage(k, a) \in {"lookup", "close", "log"}
        /\ FirstStage(k, a) = "lookup" => k \in Outcome \cup {"broadcast_started"}
        /\ FirstStage(k, a) = "log" => k \notin Outcome
    BY DEF FirstStage
  <2> QED  BY <1>1, <2>1, <2>2, BeginMoves DEF PostEvent
<1>2. CASE PostStart(r)
  <2>1. PICK s \in Session, a \in {Nothing} \cup Attempt, st \in {"check", "open"} :
          Begin(r, st, s, a, "broadcast_started", Nothing)
    BY <1>2 DEF PostStart
  <2> QED  BY <1>2, <2>1, BeginMoves DEF PostStart
<1>3. CASE PatchOutcome(r)
  <2>1. PICK a \in Attempt, k \in Outcome : Begin(r, "close", row[a].session, a, k, Nothing)
    BY <1>3 DEF PatchOutcome
  <2> QED  BY <1>3, <2>1, BeginMoves DEF PatchOutcome
<1>4. CASE PatchActiveGroup(r)
  <2>1. PICK a \in Attempt, g \in Group : Begin(r, "select", row[a].session, a, Nothing, g)
    BY <1>4 DEF PatchActiveGroup
  <2> QED  BY <1>4, <2>1, BeginMoves DEF PatchActiveGroup
<1>5. CASE CheckNoneOpen(r)
  <2>1. /\ req[r].stage = "check" /\ req[r].kind = "broadcast_started"
        /\ NoteOverlap /\ scanned' = scanned
    BY <1>5 DEF CheckNoneOpen, WInv, Rest, KindOK
  <2>2. CASE Finish(r)  BY <2>1, <2>2, FinishMoves
  <2>3. CASE \E a \in FreshIds(req[r].session) : GotoWith(r, "open", a)
    BY <2>1, <2>3, GotoMoves DEF WInv
  <2> QED  BY <1>5, <2>1, <2>2, <2>3 DEF CheckNoneOpen
<1>6. CASE LookupOpen(r)
  <2>1. /\ req[r].stage = "lookup" /\ NoteOverlap /\ scanned' = scanned
        /\ req[r].kind \in Outcome \cup {"broadcast_started"}
    BY <1>6 DEF LookupOpen, WInv, Rest, KindOK
  <2>2. PICK st \in {"open", "close", "log"} :
          /\ Goto(r, st) \/ \E a : GotoWith(r, st, a)
          /\ st # "close" => req[r].kind \notin Outcome
    <3>1. CASE \E a \in OpenOf(req[r].session) :
                 \/ req[r].kind \in Outcome /\ GotoWith(r, "close", a)
                 \/ /\ req[r].kind \notin Outcome /\ req[r].attempt \in {a, Nothing}
                    /\ GotoWith(r, "log", a)
                 \/ /\ req[r].kind \notin Outcome /\ req[r].attempt \notin {a, Nothing}
                    /\ Goto(r, "open")
      BY <3>1
    <3>2. CASE \E a \in IF req[r].attempt = Nothing THEN FreshIds(req[r].session)
                        ELSE {req[r].attempt} :
                 GotoWith(r, IF req[r].kind \in Outcome THEN "close" ELSE "open", a)
      BY <2>1, <3>2
    <3> QED  BY <1>6, <3>1, <3>2 DEF LookupOpen
  <2> QED  BY <2>1, <2>2, GotoMoves DEF WInv
<1>7. CASE EndSession(r)
  BY <1>7, FinishMoves DEF EndSession
<1> QED  BY <1>1, <1>2, <1>3, <1>4, <1>5, <1>6, <1>7

-----------------------------------------------------------------------------
(* The actions again.                                                       *)

LEMMA QuietKeeps ==
  ASSUME IsFiniteSet(Request), WInv, NEW r \in Request,
         PostEvent(r) \/ PostStart(r) \/ PatchOutcome(r) \/ PatchActiveGroup(r)
         \/ CheckNoneOpen(r) \/ LookupOpen(r) \/ EndSession(r)
  PROVE  Rest'
<1>1. PICK x : Moves(r, x)  BY QuietMoves
<1>2. NoteOverlap /\ scanned' = scanned  BY QuietMoves
<1>3. Sole' /\ Disturbed \subseteq Disturbed'  BY <1>2, SoleStep, NotedIsMore
<1>4. row' = row /\ event' = event /\ sheet' = sheet  BY QuietSteps DEF WInv
<1> QED  BY <1>1, <1>2, <1>3, <1>4, MoveKeeps DEF Moves, Exists

(* A request that gives up abandons the attempt it worked on.               *)
LEMMA GiveUpKeeps ==
  ASSUME WInv, NEW r \in Request, GiveUp(r)
  PROVE  Rest'
<1> USE AttemptsAssumption
<1>1. /\ req' = [req EXCEPT ![r] = Idle]
      /\ Disturbed' = Disturbed \cup ({req[r].attempt} \ {Nothing})
      /\ row' = row /\ event' = event /\ sheet' = sheet /\ scanned' = scanned
  BY DEF GiveUp, Finish, Disturbed
<1>2. Idle.attempt = Nothing /\ Idle.stage = "idle"  BY DEF Idle
<1>3. \A q \in Request : req'[q] = IF q = r THEN Idle ELSE req[q]
  BY <1>1 DEF WInv, IInv, TypeOK
<1>4. Sole'  BY <1>1, <1>2, <1>3 DEF WInv, Rest, Sole
<1>5. req[r].attempt \notin Attempt \ Disturbed'  BY <1>1
<1> QED  BY <1>1, <1>2, <1>4, <1>5, MoveKeeps DEF Exists

(* The request that opens an attempt goes on to log its start.              *)
LEMMA InsertKeeps ==
  ASSUME IsFiniteSet(Request), WInv, NEW r \in Request, InsertOpen(r)
  PROVE  Rest'
<1>1. /\ req[r].stage = "open" /\ req[r].kind = "broadcast_started"
      /\ NoteOverlap /\ event' = event /\ sheet' = sheet /\ scanned' = scanned
  BY DEF InsertOpen, WInv, Rest, KindOK
<1>2. Sole' /\ Disturbed \subseteq Disturbed'  BY <1>1, SoleStep, NotedIsMore
<1>3. ASSUME Finish(r) \/ Goto(r, "log") PROVE \E x : Moves(r, x)
  BY <1>1, <1>3, FinishMoves, GotoMoves, StartIsNoOutcome DEF WInv
<1>4. CASE row' = row
  <2>1. PICK x : Moves(r, x)  BY <1>3 DEF InsertOpen
  <2> QED  BY <1>1, <1>2, <1>4, <2>1, MoveKeeps DEF Moves, Exists
<1>5. CASE /\ Goto(r, "log")
           /\ row' = [row EXCEPT ![req[r].attempt].state = "open",
                                 ![req[r].attempt].session = req[r].session]
  <2>1. PICK x : Moves(r, x)  BY <1>3, <1>5
  <2>2. row \in [Attempt -> AttemptRow]  BY DEF WInv, IInv, TypeOK, AttemptRow
  <2>3. ASSUME NEW a \in Attempt
        PROVE  /\ row'[a].group = row[a].group /\ row'[a].kind = row[a].kind
               /\ Exists(a) => row'[a].state # "absent"
    BY <1>5, <2>2 DEF AttemptRow, Exists
  <2> QED  BY <1>1, <1>2, <2>1, <2>3, MoveKeeps DEF Moves
<1> QED  BY <1>4, <1>5 DEF InsertOpen

(* Attempts the step of a request does not touch.                           *)
LEMMA OthersKeep ==
  ASSUME WInv, NEW r \in Request, NEW a \in Attempt \ Disturbed',
         Disturbed \subseteq Disturbed',
         req[r].attempt # a, req'[r].attempt # a,
         \A q \in Request : q # r => req'[q] = req[q],
         row'[a] = row[a], sheet'[a] = sheet[a], event' = event, a \in scanned <=> a \in scanned'
  PROVE  Word(a)' /\ \A q \in Request : Kept(q, a)'
<1>1. Word(a) /\ \A q \in Request : Kept(q, a)  BY DEF WInv, Rest
<1>2. /\ ~Writes(r, a) /\ ~Closes(r, a) /\ ~Writes(r, a)' /\ ~Closes(r, a)'
  BY DEF Writes, Closes
<1>3. ASSUME NEW q \in Request PROVE Kept(q, a)'
  <2>1. CASE q = r  BY <1>2, <2>1 DEF Kept
  <2>2. CASE q # r
    <3>1. Kept(q, a) /\ req'[q] = req[q]  BY <1>1, <2>2
    <3> QED  BY <3>1 DEF Kept, Writes, Closes, Exists
  <2> QED  BY <2>1, <2>2
<1>4. Word(a)'
  <2>1. ASSUME \A q \in Request : ~Writes(q, a)', a \notin scanned' PROVE sheet'[a] = row'[a].group
    <3>1. ASSUME NEW q \in Request PROVE ~Writes(q, a)
      <4>1. ~Writes(q, a)'  BY <2>1
      <4> QED  BY <1>2, <4>1 DEF Writes
    <3> QED  BY <1>1, <2>1, <3>1 DEF Word
  <2>2. ASSUME \A q \in Request : ~Closes(q, a)' PROVE Told(a)'
    <3>1. ASSUME NEW q \in Request PROVE ~Closes(q, a)
      <4>1. ~Closes(q, a)'  BY <2>2
      <4> QED  BY <1>2, <4>1 DEF Closes
    <3>2. Told(a)  BY <1>1, <3>1 DEF Word
    <3> QED  BY <3>2 DEF Told, LastOutcome
  <2> QED  BY <2>1, <2>2 DEF Word
<1> QED  BY <1>3, <1>4

(* One that goes to another stage keeps what it carries.                    *)
LEMMA GotoKeeps ==
  ASSUME IInv, NEW r \in Request, NEW st, Goto(r, st)
  PROVE  /\ req'[r].stage = st /\ req'[r].session = req[r].session
         /\ req'[r].attempt = req[r].attempt
         /\ req'[r].kind = req[r].kind /\ req'[r].group = req[r].group
         /\ \A q \in Request : q # r => req'[q] = req[q]
<1>1. req \in [Request -> Requests]  BY DEF IInv, TypeOK, Requests
<1> QED  BY <1>1 DEF Goto, Requests

LEMMA FinishKeeps ==
  ASSUME IInv, NEW r \in Request, Finish(r)
  PROVE  /\ req'[r].stage = "idle" /\ req'[r].attempt = Nothing
         /\ \A q \in Request : q # r => req'[q] = req[q]
BY DEF IInv, TypeOK, Finish, Idle

(* The request that closes an attempt has its outcome to tell.              *)
LEMMA CloseKeeps ==
  ASSUME IsFiniteSet(Request), WInv, NEW r \in Request, CloseAttempt(r)
  PROVE  Rest'
<1> DEFINE c == req[r].attempt
<1>1. /\ req[r].stage = "close" /\ c \in Attempt /\ req[r].kind \in Outcome
      /\ NoteOverlap /\ event' = event /\ sheet' = sheet /\ Goto(r, "log")
      /\ scanned' = scanned
  BY DEF CloseAttempt, WInv, IInv, ReqOK
<1>2. Sole' /\ Disturbed \subseteq Disturbed'  BY <1>1, SoleStep, NotedIsMore
<1>3. /\ req'[r].stage = "log" /\ req'[r].attempt = c /\ req'[r].kind = req[r].kind
      /\ \A q \in Request : q # r => req'[q] = req[q]
  BY <1>1, GotoKeeps DEF WInv
<1>4. /\ row'[c].state = "completed" /\ row'[c].kind = req[r].kind
      /\ row'[c].group = row[c].group
      /\ \A a \in Attempt \ {c} : row'[a] = row[a]
  <2>1. row \in [Attempt -> AttemptRow]
    BY DEF WInv, IInv, TypeOK, AttemptRow
  <2> QED  BY <1>1, <2>1 DEF CloseAttempt, AttemptRow
<1>5. \A q \in Request : KindOK(q)'  BY <1>3 DEF WInv, Rest, KindOK
<1>6. ASSUME NEW a \in Attempt \ Disturbed'
      PROVE  Word(a)' /\ \A q \in Request : Kept(q, a)'
  <2>1. CASE a # c  BY <1>1, <1>2, <1>3, <1>4, <2>1, OthersKeep
  <2>2. CASE a = c
    <3>1. \A q \in Request : q # r => req'[q].attempt # a /\ req[q].attempt # a
      BY <1>2, <1>3, <2>2 DEF Sole
    <3>2. /\ ~Writes(r, a) /\ ~Writes(r, a)' /\ Closes(r, a)'
      BY <1>1, <1>3, <2>2 DEF Writes, Closes
    <3>3. ASSUME NEW q \in Request PROVE Kept(q, a)'
      <4>1. CASE q = r  BY <1>3, <1>4, <2>2, <3>2, <4>1 DEF Kept, Exists
      <4>2. CASE q # r
        <5>1. ~Writes(q, a)' /\ ~Closes(q, a)'  BY <3>1, <4>2 DEF Writes, Closes
        <5> QED  BY <5>1 DEF Kept
      <4> QED  BY <4>1, <4>2
    <3>4. Word(a)'
      <4>1. \A q \in Request : ~Writes(q, a)  BY <3>1, <3>2 DEF Writes
      <4>2. a \notin scanned => sheet[a] = row[a].group
        BY <1>2, <4>1 DEF WInv, Rest, Word
      <4>3. a \notin scanned' => sheet'[a] = row'[a].group  BY <1>1, <1>4, <2>2, <4>2
      <4> QED  BY <3>2, <4>3 DEF Word
    <3> QED  BY <3>3, <3>4
  <2> QED  BY <2>1, <2>2
<1> QED  BY <1>2, <1>5, <1>6 DEF Rest

(* The request that selects a group has it to write.                        *)
LEMMA SelectKeeps ==
  ASSUME IsFiniteSet(Request), WInv, NEW r \in Request, SelectGroup(r)
  PROVE  Rest'
<1> DEFINE c == req[r].attempt
<1>1. /\ req[r].stage = "select" /\ c \in Attempt
      /\ NoteOverlap /\ event' = event /\ sheet' = sheet
      /\ IF req[r].session = Nothing THEN Finish(r) ELSE Goto(r, "files")
      /\ scanned' = scanned \ {c}
  BY DEF SelectGroup, WInv, IInv, ReqOK
<1>2. Sole' /\ Disturbed \subseteq Disturbed'  BY <1>1, SoleStep, NotedIsMore
<1>3. /\ \A q \in Request : q # r => req'[q] = req[q]
      /\ req'[r].stage \in {"idle", "files"} /\ req'[r].attempt \in {c, Nothing}
      /\ req[r].session # Nothing =>
           req'[r].stage = "files" /\ req'[r].attempt = c /\ req'[r].group = req[r].group
  BY <1>1, GotoKeeps, FinishKeeps DEF WInv
<1>4. /\ row'[c].state = row[c].state /\ row'[c].kind = row[c].kind
      /\ row'[c].group = req[r].group
      /\ \A a \in Attempt \ {c} : row'[a] = row[a]
  <2>1. row \in [Attempt -> AttemptRow]
    BY DEF WInv, IInv, TypeOK, AttemptRow
  <2> QED  BY <1>1, <2>1 DEF SelectGroup, AttemptRow
<1>5. \A q \in Request : KindOK(q)'  BY <1>3 DEF WInv, Rest, KindOK
<1>6. ASSUME NEW a \in Attempt \ Disturbed'
      PROVE  Word(a)' /\ \A q \in Request : Kept(q, a)'
  <2>1. CASE a # c  BY <1>1, <1>2, <1>3, <1>4, <2>1, OthersKeep, AttemptsAssumption
  <2>2. CASE a = c
    <3>0. Word(a) /\ req[r].session # Nothing
      <4>1. a \notin imported  BY <1>2 DEF Disturbed
      <4> QED  BY <1>1, <1>2, <2>2, <4>1 DEF WInv, Rest, Native
    <3>1. \A q \in Request : q # r => req'[q].attempt # a /\ req[q].attempt # a
      BY <1>2, <1>3, <2>2, <3>0 DEF Sole
    <3>2. Writes(r, a)' /\ ~Closes(r, a)  BY <1>1, <1>3, <2>2, <3>0 DEF Writes, Closes
    <3>3. ASSUME NEW q \in Request PROVE Kept(q, a)'
      <4>1. CASE q = r
        <5>1. ~Closes(r, a)'  BY <1>3 DEF Closes
        <5> QED  BY <1>3, <1>4, <2>2, <3>0, <4>1, <5>1 DEF Kept
      <4>2. CASE q # r
        <5>1. ~Writes(q, a)' /\ ~Closes(q, a)'  BY <3>1, <4>2 DEF Writes, Closes
        <5> QED  BY <5>1 DEF Kept
      <4> QED  BY <4>1, <4>2
    <3>4. Told(a)'
      <4>1. \A q \in Request : ~Closes(q, a)  BY <3>1, <3>2 DEF Closes
      <4>2. Told(a)  BY <3>0, <4>1 DEF Word
      <4> QED  BY <1>1, <1>4, <2>2, <4>2 DEF Told, LastOutcome
    <3>5. Word(a)'  BY <3>2, <3>4 DEF Word
    <3> QED  BY <3>3, <3>5
  <2> QED  BY <2>1, <2>2
<1> QED  BY <1>2, <1>5, <1>6 DEF Rest

(* The request that writes the files writes the group of the row.           *)
LEMMA SheetKeeps ==
  ASSUME IsFiniteSet(Request), WInv, NEW r \in Request, WriteSheet(r)
  PROVE  Rest'
<1> USE AttemptsAssumption
<1> DEFINE c == req[r].attempt
<1>1. /\ req[r].stage = "files" /\ c \in Attempt
      /\ NoteOverlap /\ event' = event /\ row' = row /\ Finish(r) /\ scanned' = scanned
      /\ sheet' = [sheet EXCEPT ![c] = req[r].group]
  BY DEF WriteSheet, WInv, IInv, ReqOK
<1>2. Sole' /\ Disturbed \subseteq Disturbed'  BY <1>1, SoleStep, NotedIsMore
<1>3. /\ req'[r].stage = "idle" /\ req'[r].attempt = Nothing
      /\ \A q \in Request : q # r => req'[q] = req[q]
  BY <1>1, FinishKeeps DEF WInv
<1>4. sheet'[c] = req[r].group /\ \A a \in Attempt \ {c} : sheet'[a] = sheet[a]
  BY <1>1 DEF WInv, IInv, TypeOK
<1>5. \A q \in Request : KindOK(q)'  BY <1>3 DEF WInv, Rest, KindOK
<1>6. ASSUME NEW a \in Attempt \ Disturbed'
      PROVE  Word(a)' /\ \A q \in Request : Kept(q, a)'
  <2>1. CASE a # c  BY <1>1, <1>2, <1>3, <1>4, <2>1, OthersKeep
  <2>2. CASE a = c
    <3>0. Word(a) /\ \A q \in Request : Kept(q, a)  BY <1>2 DEF WInv, Rest
    <3>1. a \notin scanned => row[a].group = req[r].group
      <4>1. Writes(r, a) /\ Kept(r, a)  BY <1>1, <2>2, <3>0 DEF Writes
      <4> QED  BY <4>1 DEF Kept
    <3>2. ~Writes(r, a)' /\ ~Closes(r, a)' /\ ~Closes(r, a)
      BY <1>1, <1>3 DEF Writes, Closes
    <3>3. ASSUME NEW q \in Request PROVE Kept(q, a)'
      <4>1. CASE q = r  BY <3>2, <4>1 DEF Kept
      <4>2. CASE q # r
        <5>1. Kept(q, a) /\ req'[q] = req[q]  BY <1>3, <3>0, <4>2
        <5> QED  BY <1>1, <5>1 DEF Kept, Writes, Closes, Exists
      <4> QED  BY <4>1, <4>2
    <3>4. a \notin scanned' => sheet'[a] = row'[a].group  BY <1>1, <1>4, <2>2, <3>1
    <3>5. ASSUME \A q \in Request : ~Closes(q, a)' PROVE Told(a)'
      <4>1. ASSUME NEW q \in Request PROVE ~Closes(q, a)
        <5>1. ~Closes(q, a)'  BY <3>5
        <5> QED  BY <1>3, <3>2, <5>1 DEF Closes
      <4>2. Told(a)  BY <3>0, <4>1 DEF Word
      <4> QED  BY <1>1, <4>2 DEF Told, LastOutcome
    <3>6. Word(a)'  BY <3>4, <3>5 DEF Word
    <3> QED  BY <3>3, <3>6
  <2> QED  BY <2>1, <2>2
<1> QED  BY <1>2, <1>5, <1>6 DEF Rest

(* The event of a request is the last of its attempt, and its kind that of   *)
(* the row.                                                                  *)
LEMMA LogKeeps ==
  ASSUME IsFiniteSet(Request), WInv, NEW r \in Request, LogEvent(r)
  PROVE  Rest'
<1> USE AttemptsAssumption
<1> DEFINE c == req[r].attempt
           e == [session |-> req[r].session, attempt |-> c, kind |-> req[r].kind]
           n == Len(event) + 1
<1>1. /\ req[r].stage = "log" /\ row' = row /\ sheet' = sheet /\ NoteOverlap
      /\ scanned' = scanned
      /\ \/ c # Nothing /\ ~Exists(c) /\ event' = event
         \/ event' = Append(event, e)
      /\ Finish(r) \/ Goto(r, "end")
  BY DEF LogEvent
<1>2. Sole' /\ Disturbed \subseteq Disturbed'  BY <1>1, SoleStep, NotedIsMore
<1>3. /\ req'[r].stage \in {"idle", "end"}
      /\ \A q \in Request : q # r => req'[q] = req[q]
  BY <1>1, FinishKeeps, GotoKeeps DEF WInv
<1>4. \A q \in Request : KindOK(q)'  BY <1>3 DEF WInv, Rest, KindOK
<1>5. event \in Seq([session : Session, attempt : Attempt \cup {Nothing}, kind : Kind])
  BY DEF WInv, IInv, TypeOK
<1>6. ASSUME event' = Append(event, e)
      PROVE  /\ Len(event) \in Nat /\ DOMAIN event = 1..Len(event)
             /\ DOMAIN event' = 1..n
             /\ \A i \in DOMAIN event : event'[i] = event[i]
             /\ event'[n] = e
  BY <1>5, <1>6
<1>7. e.attempt = c /\ e.kind = req[r].kind  OBVIOUS
<1> HIDE DEF e
<1>8. ASSUME NEW a \in Attempt \ Disturbed'
      PROVE  Word(a)' /\ \A q \in Request : Kept(q, a)'
  <2>0. Word(a) /\ \A q \in Request : Kept(q, a)  BY <1>2 DEF WInv, Rest
  <2>1. ~Writes(r, a) /\ ~Writes(r, a)' /\ ~Closes(r, a)'
    BY <1>1, <1>3 DEF Writes, Closes
  <2>2. ASSUME NEW q \in Request PROVE Kept(q, a)'
    <3>1. CASE q = r  BY <2>1, <3>1 DEF Kept
    <3>2. CASE q # r
      <4>1. Kept(q, a) /\ req'[q] = req[q]  BY <1>3, <2>0, <3>2
      <4> QED  BY <1>1, <4>1 DEF Kept, Writes, Closes, Exists
    <3> QED  BY <3>1, <3>2
  <2>3. ASSUME \A q \in Request : ~Writes(q, a)', a \notin scanned' PROVE sheet'[a] = row'[a].group
    <3>1. ASSUME NEW q \in Request PROVE ~Writes(q, a)
      <4>1. ~Writes(q, a)'  BY <2>3
      <4> QED  BY <1>3, <2>1, <4>1 DEF Writes
    <3> QED  BY <1>1, <2>0, <2>3, <3>1 DEF Word
  <2>4. ASSUME \A q \in Request : ~Closes(q, a)' PROVE Told(a)'
    <3>1. ASSUME NEW q \in Request, q # r PROVE ~Closes(q, a)
      <4>1. ~Closes(q, a)'  BY <2>4
      <4> QED  BY <1>3, <3>1, <4>1 DEF Closes
    <3>2. ASSUME NEW i, LastOutcome(a, i)' PROVE row'[a].kind = event'[i].kind
      <4>1. CASE event' = Append(event, e) /\ i = n
        <5>1. event'[i] = e  BY <1>6, <4>1
        <5>2. event'[i].attempt = a /\ event'[i].kind \in Outcome  BY <3>2 DEF LastOutcome
        <5>3. Closes(r, a)  BY <1>1, <1>7, <5>1, <5>2 DEF Closes
        <5>4. row[a].kind = req[r].kind  BY <2>0, <5>3 DEF Kept
        <5> QED  BY <1>1, <1>7, <5>1, <5>4
      <4>2. CASE event' = Append(event, e) /\ i # n
        <5>1. i \in DOMAIN event /\ event'[i] = event[i] /\ i < n
          BY <1>6, <3>2, <4>2 DEF LastOutcome
        <5>2. LastOutcome(a, i)
          <6>1. ASSUME NEW j \in DOMAIN event, event[j].attempt = a, event[j].kind \in Outcome
                PROVE  j <= i
            <7>1. j \in DOMAIN event' /\ event'[j] = event[j]  BY <1>6, <4>2
            <7> QED  BY <3>2, <6>1, <7>1 DEF LastOutcome
          <6> QED  BY <3>2, <5>1, <6>1 DEF LastOutcome
        <5>3. ~Closes(r, a)
          <6>1. SUFFICES ASSUME Closes(r, a) PROVE FALSE  OBVIOUS
          <6>2. n \in DOMAIN event' /\ event'[n].attempt = a /\ event'[n].kind \in Outcome
            BY <1>6, <1>7, <4>2, <6>1 DEF Closes
          <6>3. n <= i  BY <3>2, <6>2 DEF LastOutcome
          <6> QED  BY <1>6, <4>2, <5>1, <6>3
        <5>4. Told(a)  BY <2>0, <3>1, <5>3 DEF Word
        <5> QED  BY <1>1, <5>1, <5>2, <5>4 DEF Told
      <4>3. CASE c # Nothing /\ ~Exists(c) /\ event' = event
        <5>1. ~Closes(r, a)  BY <2>0, <4>3 DEF Closes, Kept
        <5>2. Told(a)  BY <2>0, <3>1, <5>1 DEF Word
        <5>3. LastOutcome(a, i)  BY <3>2, <4>3 DEF LastOutcome
        <5> QED  BY <1>1, <4>3, <5>2, <5>3 DEF Told, LastOutcome
      <4> QED  BY <1>1, <4>1, <4>2, <4>3
    <3> QED  BY <3>2 DEF Told
  <2>5. Word(a)'  BY <2>3, <2>4 DEF Word
  <2> QED  BY <2>2, <2>5
<1> QED  BY <1>2, <1>4, <1>8 DEF Rest

LEMMA InitRest ==
  ASSUME Init
  PROVE  /\ Rest
         /\ \A a \in Attempt \ imported : Native(a)
         /\ \A a \in Attempt \ (abandoned \cup imported) : Covered(a)
<1> USE AttemptsAssumption
<1>1. \A r \in Request : req[r].stage = "idle" /\ req[r].attempt = Nothing
  BY DEF Init, Idle
<1>2. \A a \in Attempt : /\ row[a].state = "absent" /\ row[a].group = Nothing
                         /\ row[a].marked = FALSE /\ sheet[a] = Nothing
  BY DEF Init, NoRow
<1>3. Sole  BY <1>1 DEF Sole
<1>4. \A r \in Request : KindOK(r)  BY <1>1 DEF KindOK
<1>5. ASSUME NEW a \in Attempt \ Disturbed
      PROVE  Word(a) /\ \A r \in Request : Kept(r, a)
  <2>1. Told(a)  BY DEF Told, LastOutcome, Init
  <2>2. Word(a)  BY <1>2, <2>1 DEF Word
  <2>3. \A r \in Request : Kept(r, a)  BY <1>1 DEF Kept, Writes, Closes
  <2> QED  BY <2>2, <2>3
<1>6. ASSUME NEW a \in Attempt PROVE Native(a) /\ Covered(a)
  BY <1>1, <1>2 DEF Native, Covered, Exists
<1> QED  BY <1>3, <1>4, <1>5, <1>6 DEF Rest

(* What no request does: rows it may change, of attempts that are excepted,  *)
(* or in their group by a log, or in their state by the schema.             *)
LEMMA RowsToldKeep ==
  ASSUME WInv, UNCHANGED <<event, sheet, req>>,
         Disturbed \subseteq Disturbed', raced \subseteq raced', scanned \subseteq scanned',
         \A a \in Attempt \ Disturbed' :
           /\ row'[a].kind = row[a].kind /\ (Exists(a) => Exists(a)')
           /\ row'[a].group = row[a].group \/ a \in scanned'
  PROVE  Rest'
<1>1. Sole' /\ \A r \in Request : KindOK(r)'  BY DEF WInv, Rest, Sole, KindOK
<1>2. ASSUME NEW a \in Attempt \ Disturbed'
      PROVE  Word(a)' /\ \A r \in Request : Kept(r, a)'
  <2>1. Word(a) /\ \A r \in Request : Kept(r, a)  BY DEF WInv, Rest
  <2>2. \A r \in Request : (Writes(r, a)' <=> Writes(r, a)) /\ (Closes(r, a)' <=> Closes(r, a))
    BY DEF Writes, Closes
  <2>3. Told(a) => Told(a)'  BY DEF Told, LastOutcome
  <2>4. Word(a)'  BY <2>1, <2>2, <2>3 DEF Word
  <2>5. \A r \in Request : Kept(r, a)'  BY <2>1, <2>2 DEF Kept
  <2> QED  BY <2>4, <2>5
<1> QED  BY <1>1, <1>2 DEF Rest

LEMMA RestStep ==
  ASSUME IsFiniteSet(Request), WInv, [Next]_vars
  PROVE  Rest'
<1>0. row \in [Attempt -> AttemptRow]  BY DEF WInv, IInv, TypeOK, AttemptRow
<1>1. ASSUME UNCHANGED <<row, event, sheet, req, marks>> PROVE Rest'
  BY <1>1, RowsToldKeep DEF marks, Disturbed, Exists
<1>2. ASSUME NEW s \in Session, PatchSession(s) PROVE Rest'
  BY <1>1, <1>2 DEF PatchSession
<1>3. CASE UNCHANGED vars  BY <1>1, <1>3 DEF vars
<1>4. ASSUME NEW b \in Attempt, UpdateFromSnapshot(b) PROVE Rest'
  <2>1. /\ UNCHANGED <<event, sheet, req>> /\ Disturbed' = Disturbed /\ raced' = raced
        /\ scanned' = scanned \cup {b}
    BY <1>4 DEF UpdateFromSnapshot, PutEvidence, Disturbed
  <2>2. PICK g : row' = [row EXCEPT ![b].group = g]  BY <1>4 DEF UpdateFromSnapshot
  <2>3. ASSUME NEW a \in Attempt
        PROVE  /\ row'[a].kind = row[a].kind /\ (Exists(a) => Exists(a)')
               /\ row'[a].group = row[a].group \/ a \in scanned'
    BY <1>0, <2>1, <2>2 DEF AttemptRow, Exists
  <2> QED  BY <2>1, <2>3, RowsToldKeep
<1>5. ASSUME NEW b \in Attempt, ImportAttempt(b) PROVE Rest'
  <2>1. /\ UNCHANGED <<event, sheet, req, scanned>> /\ Disturbed' = Disturbed \cup {b}
        /\ raced' = raced
    BY <1>5 DEF ImportAttempt, PutEvidence, Disturbed
  <2>2. \A a \in Attempt \ Disturbed' : row'[a] = row[a]
    BY <1>0, <1>5, <2>1 DEF ImportAttempt
  <2> QED  BY <2>1, <2>2, RowsToldKeep DEF Exists
<1>6. ASSUME ApplySchema PROVE Rest'
  <2>1. UNCHANGED <<event, sheet, req, scanned, raced>> /\ Disturbed' = Disturbed
    BY <1>6 DEF ApplySchema, marks, Disturbed
  <2>2. ASSUME NEW a \in Attempt
        PROVE  /\ row'[a].kind = row[a].kind /\ (Exists(a) => Exists(a)')
               /\ row'[a].group = row[a].group
    BY <1>0, <1>6 DEF ApplySchema, AttemptRow, Exists
  <2> QED  BY <2>1, <2>2, RowsToldKeep
<1> QED
  BY <1>2, <1>3, <1>4, <1>5, <1>6, QuietKeeps, GiveUpKeeps, InsertKeeps, CloseKeeps, LogKeeps,
     SelectKeeps, SheetKeeps DEF Next

-----------------------------------------------------------------------------
(* Rows that no import wrote.                                               *)

LEMMA NativeKeeps ==
  ASSUME WInv, NEW r \in Request,
         \A q \in Request : q # r => req'[q] = req[q],
         req'[r].stage = "select" =>
           \E b \in Attempt : /\ req'[r].attempt = b /\ req'[r].session = row[b].session
                              /\ Exists(b),
         imported \subseteq imported',
         \A a \in Attempt \ imported :
           \/ row'[a].state = row[a].state /\ row'[a].session = row[a].session
              /\ row'[a].marked = row[a].marked
           \/ /\ row'[a].session # Nothing
              /\ row'[a].state = "open" => ~row'[a].marked
              /\ row'[a].state # "absent"
  PROVE  \A a \in Attempt \ imported' : Native(a)'
<1> SUFFICES ASSUME NEW a \in Attempt \ imported' PROVE Native(a)'
  OBVIOUS
<1>1. Native(a)  BY DEF WInv
<1>2. /\ Exists(a)' => row'[a].session # Nothing
      /\ row'[a].state \in {"absent", "open"} => ~row'[a].marked
  BY <1>1 DEF Native, Exists
<1>3. ASSUME NEW q \in Request, req'[q].stage = "select", req'[q].attempt = a
      PROVE  req'[q].session # Nothing
  <2>1. CASE q = r  BY <1>1, <1>3, <2>1 DEF Native
  <2>2. CASE q # r  BY <1>1, <1>3, <2>2 DEF Native
  <2> QED  BY <2>1, <2>2
<1> QED  BY <1>2, <1>3 DEF Native

LEMMA BeginsAt ==
  ASSUME IInv, NEW r \in Request, NEW st, NEW s, NEW a, NEW k, NEW g, Begin(r, st, s, a, k, g)
  PROVE  /\ \A q \in Request : q # r => req'[q] = req[q]
         /\ req'[r].stage = st /\ req'[r].attempt = a /\ req'[r].session = s
         /\ req[r].stage = "idle"
BY DEF IInv, TypeOK, Begin, AtWork

LEMMA GoesWith ==
  ASSUME IInv, NEW r \in Request, NEW st, NEW a, GotoWith(r, st, a)
  PROVE  /\ \A q \in Request : q # r => req'[q] = req[q]
         /\ req'[r].stage = st
<1>1. req \in [Request -> Requests]  BY DEF IInv, TypeOK, Requests
<1> QED  BY <1>1 DEF GotoWith, Requests

(* A request that selects a group has the session of its row, and each step  *)
(* of a request is its own.                                                 *)
LEMMA SelectsForSession ==
  ASSUME WInv, NEW r \in Request,
         \/ PostEvent(r) \/ PostStart(r) \/ PatchOutcome(r) \/ PatchActiveGroup(r)
         \/ CheckNoneOpen(r) \/ LookupOpen(r) \/ InsertOpen(r) \/ CloseAttempt(r) \/ LogEvent(r)
         \/ EndSession(r) \/ SelectGroup(r) \/ WriteSheet(r) \/ GiveUp(r)
  PROVE  /\ \A q \in Request : q # r => req'[q] = req[q]
         /\ req'[r].stage = "select" =>
              \E b \in Attempt : /\ req'[r].attempt = b /\ req'[r].session = row[b].session
                                 /\ Exists(b)
<1>0. IInv  BY DEF WInv
<1>1. ASSUME NEW st \in {"lookup", "check", "open", "close", "log"},
             \E s, a, k, g : Begin(r, st, s, a, k, g)
      PROVE  (\A q \in Request : q # r => req'[q] = req[q]) /\ req'[r].stage # "select"
  BY <1>0, <1>1, BeginsAt
<1>2. ASSUME NEW st \in {"open", "close", "log", "end", "files"},
             Goto(r, st) \/ (\E a : GotoWith(r, st, a)) \/ Finish(r)
      PROVE  (\A q \in Request : q # r => req'[q] = req[q]) /\ req'[r].stage # "select"
  BY <1>0, <1>2, GotoKeeps, GoesWith, FinishKeeps
<1>3. CASE PostEvent(r)
  <2>1. PICK s \in Session, k \in Kind, a \in {Nothing} \cup Attempt :
          Begin(r, FirstStage(k, a), s, a, k, Nothing)
    BY <1>3 DEF PostEvent
  <2>2. FirstStage(k, a) \in {"lookup", "close", "log"}  BY DEF FirstStage
  <2> QED  BY <1>1, <2>1, <2>2
<1>4. CASE PostStart(r)
  <2>1. PICK s \in Session, a \in {Nothing} \cup Attempt, st \in {"check", "open"} :
          Begin(r, st, s, a, "broadcast_started", Nothing)
    BY <1>4 DEF PostStart
  <2> QED  BY <1>1, <2>1
<1>5. CASE PatchOutcome(r)
  <2>1. PICK a \in Attempt, k \in Outcome : Begin(r, "close", row[a].session, a, k, Nothing)
    BY <1>5 DEF PatchOutcome
  <2> QED  BY <1>1, <2>1
<1>6. CASE PatchActiveGroup(r)
  <2>1. PICK a \in Attempt, g \in Group :
          Exists(a) /\ Begin(r, "select", row[a].session, a, Nothing, g)
    BY <1>6 DEF PatchActiveGroup
  <2> QED  BY <1>0, <2>1, BeginsAt
<1>7. CASE CheckNoneOpen(r) \/ EndSession(r) \/ GiveUp(r) \/ InsertOpen(r) \/ CloseAttempt(r)
           \/ LogEvent(r) \/ SelectGroup(r) \/ WriteSheet(r)
  <2>1. \/ Finish(r) \/ Goto(r, "log") \/ Goto(r, "end") \/ Goto(r, "files")
        \/ \E a : GotoWith(r, "open", a)
    BY <1>7 DEF CheckNoneOpen, EndSession, GiveUp, InsertOpen, CloseAttempt, LogEvent,
       SelectGroup, WriteSheet
  <2> QED  BY <1>2, <2>1
<1>8. CASE LookupOpen(r)
  <2>1. PICK st \in {"open", "close", "log"} : Goto(r, st) \/ \E a : GotoWith(r, st, a)
    BY <1>8 DEF LookupOpen
  <2> QED  BY <1>2, <2>1
<1> QED  BY <1>3, <1>4, <1>5, <1>6, <1>7, <1>8

LEMMA NativeStep ==
  ASSUME WInv, [Next]_vars
  PROVE  \A a \in Attempt \ imported' : Native(a)'
<1> USE AttemptsAssumption
<1>0. row \in [Attempt -> AttemptRow]  BY DEF WInv, IInv, TypeOK, AttemptRow
<1>1. ASSUME NEW r \in Request,
             \/ PostEvent(r) \/ PostStart(r) \/ PatchOutcome(r) \/ PatchActiveGroup(r)
             \/ CheckNoneOpen(r) \/ LookupOpen(r) \/ EndSession(r) \/ GiveUp(r)
             \/ LogEvent(r) \/ WriteSheet(r)
      PROVE  \A a \in Attempt \ imported' : Native(a)'
  <2>1. row' = row /\ imported' = imported
    BY <1>1 DEF PostEvent, PostStart, PatchOutcome, PatchActiveGroup, CheckNoneOpen, LookupOpen,
       EndSession, GiveUp, LogEvent, WriteSheet, NoteOverlap
  <2> QED  BY <1>1, <2>1, SelectsForSession, NativeKeeps
<1>2. ASSUME NEW r \in Request, InsertOpen(r)
      PROVE  \A a \in Attempt \ imported' : Native(a)'
  <2>1. /\ req[r].attempt \in Attempt /\ req[r].session \in Session
        /\ imported' = imported
    BY <1>2 DEF InsertOpen, NoteOverlap, WInv, IInv, ReqOK
  <2>2. CASE row' = row  BY <1>2, <2>1, <2>2, SelectsForSession, NativeKeeps
  <2>3. CASE /\ ~Exists(req[r].attempt)
             /\ row' = [row EXCEPT ![req[r].attempt].state = "open",
                                   ![req[r].attempt].session = req[r].session]
    <3>1. ASSUME NEW a \in Attempt \ imported
          PROVE  \/ row'[a] = row[a]
                 \/ row'[a].session # Nothing /\ row'[a].state = "open" /\ ~row'[a].marked
      <4>1. Native(a)  BY DEF WInv
      <4>2. CASE a = req[r].attempt
        <5>1. ~row[a].marked  BY <2>3, <4>1, <4>2 DEF Native, Exists
        <5>2. row'[a].session = req[r].session /\ row'[a].state = "open"
              /\ row'[a].marked = row[a].marked
          BY <1>0, <2>3, <4>2 DEF AttemptRow
        <5> QED  BY <2>1, <5>1, <5>2
      <4>3. CASE a # req[r].attempt  BY <1>0, <2>3, <4>3
      <4> QED  BY <4>2, <4>3
    <3> QED  BY <1>2, <2>1, <3>1, SelectsForSession, NativeKeeps
  <2> QED  BY <1>2, <2>2, <2>3 DEF InsertOpen
<1>3. ASSUME NEW r \in Request, CloseAttempt(r)
      PROVE  \A a \in Attempt \ imported' : Native(a)'
  <2>1. /\ req[r].attempt \in Attempt /\ req[r].session \in Session
        /\ imported' = imported
    BY <1>3 DEF CloseAttempt, NoteOverlap, WInv, IInv, ReqOK
  <2>2. ASSUME NEW a \in Attempt \ imported
        PROVE  \/ row'[a] = row[a]
               \/ row'[a].session # Nothing /\ row'[a].state = "completed"
    <3>1. Native(a)  BY DEF WInv
    <3>2. CASE a = req[r].attempt
      <4>1. row'[a].state = "completed"
            /\ row'[a].session = IF Exists(a) THEN row[a].session ELSE req[r].session
        BY <1>0, <1>3, <3>2 DEF CloseAttempt, AttemptRow
      <4> QED  BY <2>1, <3>1, <4>1 DEF Native
    <3>3. CASE a # req[r].attempt  BY <1>0, <1>3, <3>3 DEF CloseAttempt
    <3> QED  BY <3>2, <3>3
  <2> QED  BY <1>3, <2>1, <2>2, SelectsForSession, NativeKeeps
<1>4. ASSUME NEW r \in Request, SelectGroup(r)
      PROVE  \A a \in Attempt \ imported' : Native(a)'
  <2>1. imported' = imported  BY <1>4 DEF SelectGroup, NoteOverlap
  <2>2. \A a \in Attempt : row'[a].state = row[a].state /\ row'[a].session = row[a].session
                           /\ row'[a].marked = row[a].marked
    BY <1>0, <1>4 DEF SelectGroup, AttemptRow
  <2> QED  BY <1>4, <2>1, <2>2, SelectsForSession, NativeKeeps
<1>5. ASSUME req' = req, imported \subseteq imported',
             \A a \in Attempt \ imported' :
               /\ row'[a].session = row[a].session /\ row'[a].marked = row[a].marked
               /\ row'[a].state = row[a].state
      PROVE  \A a \in Attempt \ imported' : Native(a)'
  BY <1>5 DEF WInv, Native, Exists
<1>6. ASSUME NEW s \in Session, PatchSession(s) PROVE \A a \in Attempt \ imported' : Native(a)'
  BY <1>5, <1>6 DEF PatchSession, marks
<1>7. CASE UNCHANGED vars  BY <1>5, <1>7 DEF vars, marks
<1>8. ASSUME NEW b \in Attempt, UpdateFromSnapshot(b)
      PROVE  \A a \in Attempt \ imported' : Native(a)'
  <2>1. \A a \in Attempt : /\ row'[a].session = row[a].session /\ row'[a].marked = row[a].marked
                           /\ row'[a].state = row[a].state
    BY <1>0, <1>8 DEF UpdateFromSnapshot, AttemptRow
  <2> QED  BY <1>5, <1>8, <2>1 DEF UpdateFromSnapshot, PutEvidence
<1>9. ASSUME NEW b \in Attempt, ImportAttempt(b)
      PROVE  \A a \in Attempt \ imported' : Native(a)'
  <2>1. imported' = imported \cup {b} /\ req' = req
    BY <1>9 DEF ImportAttempt, PutEvidence
  <2>2. \A a \in Attempt \ imported' : row'[a] = row[a]
    BY <1>0, <1>9, <2>1 DEF ImportAttempt
  <2> QED  BY <1>5, <2>1, <2>2
<1>10. ASSUME ApplySchema PROVE \A a \in Attempt \ imported' : Native(a)'
  <2>1. req' = req /\ imported' = imported  BY <1>10 DEF ApplySchema, marks
  <2>2. ASSUME NEW a \in Attempt \ imported PROVE row'[a] = row[a]
    <3>1. Native(a)  BY DEF WInv
    <3> QED  BY <1>10, <3>1 DEF ApplySchema, Native
  <2> QED  BY <1>5, <2>1, <2>2
<1> QED
  BY <1>1, <1>2, <1>3, <1>4, <1>6, <1>7, <1>8, <1>9, <1>10 DEF Next

-----------------------------------------------------------------------------
(* The timeline covers the rows.                                            *)

LEMMA EventStays ==
  ASSUME NEW r \in Request, NEW a, NEW ks, EventFor(a, ks),
         \A q \in Request : q # r => req'[q] = req[q],
         req[r].stage # "log" \/ req[r].attempt # a, event' = event
  PROVE  EventFor(a, ks)'
<1>1. CASE \E i \in DOMAIN event : event[i].attempt = a /\ event[i].kind \in ks
  BY <1>1 DEF EventFor
<1>2. CASE \E q \in Request : req[q].stage = "log" /\ req[q].attempt = a /\ req[q].kind \in ks
  <2>1. PICK q \in Request : req[q].stage = "log" /\ req[q].attempt = a /\ req[q].kind \in ks
    BY <1>2
  <2>2. req'[q] = req[q]  BY <2>1
  <2> QED  BY <2>1, <2>2 DEF EventFor
<1> QED  BY <1>1, <1>2 DEF EventFor

(* The event of a request that was to tell of an attempt is in the timeline. *)
LEMMA EventLogged ==
  ASSUME WInv, NEW r \in Request, LogEvent(r), NEW a \in Attempt, Exists(a),
         NEW ks, EventFor(a, ks)
  PROVE  EventFor(a, ks)'
<1> USE AttemptsAssumption
<1> DEFINE e == [session |-> req[r].session, attempt |-> req[r].attempt, kind |-> req[r].kind]
           n == Len(event) + 1
<1>1. /\ \/ req[r].attempt # Nothing /\ ~Exists(req[r].attempt) /\ event' = event
         \/ event' = Append(event, e)
      /\ \A q \in Request : q # r => req'[q] = req[q]
  BY SelectsForSession DEF LogEvent
<1>2. event \in Seq([session : Session, attempt : Attempt \cup {Nothing}, kind : Kind])
  BY DEF WInv, IInv, TypeOK
<1>3. ASSUME event' = Append(event, e)
      PROVE  /\ \A i \in DOMAIN event : i \in DOMAIN event' /\ event'[i] = event[i]
             /\ n \in DOMAIN event' /\ event'[n] = e
  BY <1>2, <1>3
<1>4. e.attempt = req[r].attempt /\ e.kind = req[r].kind  OBVIOUS
<1> HIDE DEF e
<1>5. CASE \E i \in DOMAIN event : event[i].attempt = a /\ event[i].kind \in ks
  <2>1. PICK i \in DOMAIN event : event[i].attempt = a /\ event[i].kind \in ks  BY <1>5
  <2>2. i \in DOMAIN event' /\ event'[i] = event[i]  BY <1>1, <1>3
  <2> QED  BY <2>1, <2>2 DEF EventFor
<1>6. CASE \E q \in Request : req[q].stage = "log" /\ req[q].attempt = a /\ req[q].kind \in ks
  <2>1. PICK q \in Request : req[q].stage = "log" /\ req[q].attempt = a /\ req[q].kind \in ks
    BY <1>6
  <2>2. CASE q # r
    <3>1. req'[q] = req[q]  BY <1>1, <2>2
    <3> QED  BY <2>1, <3>1 DEF EventFor
  <2>3. CASE q = r
    <3>1. event' = Append(event, e)  BY <1>1, <2>1, <2>3
    <3>2. n \in DOMAIN event' /\ event'[n].attempt = a /\ event'[n].kind \in ks
      BY <1>3, <1>4, <2>1, <2>3, <3>1
    <3> QED  BY <3>2 DEF EventFor
  <2> QED  BY <2>2, <2>3
<1> QED  BY <1>5, <1>6 DEF EventFor

(* A row that shows what it showed is covered while its events stay.         *)
LEMMA CoveredStays ==
  ASSUME NEW a, Covered(a), row'[a].state = row[a].state, row'[a].kind = row[a].kind,
         \A ks : Exists(a) /\ EventFor(a, ks) => EventFor(a, ks)'
  PROVE  Covered(a)'
<1>1. CASE row[a].state = "open"
  <2>1. EventFor(a, {"broadcast_started"}) /\ Exists(a)  BY <1>1 DEF Covered, Exists
  <2> QED  BY <1>1, <2>1 DEF Covered
<1>2. CASE row[a].state = "completed"
  <2>1. EventFor(a, {row[a].kind}) /\ Exists(a)  BY <1>2 DEF Covered, Exists
  <2>2. PICK ks : ks = {row[a].kind}  OBVIOUS
  <2>3. EventFor(a, ks)'  BY <2>1, <2>2
  <2>4. EventFor(a, {row[a].kind})'  BY <2>2, <2>3 DEF EventFor
  <2> QED  BY <1>2, <2>4 DEF Covered
<1>3. CASE row[a].state \notin {"open", "completed"}  BY <1>3 DEF Covered
<1> QED  BY <1>1, <1>2, <1>3

LEMMA CoveredStep ==
  ASSUME WInv, [Next]_vars
  PROVE  \A a \in Attempt \ (abandoned' \cup imported') : Covered(a)'
<1> SUFFICES ASSUME NEW a \in Attempt \ (abandoned' \cup imported') PROVE Covered(a)'
  OBVIOUS
<1>0. row \in [Attempt -> AttemptRow]  BY DEF WInv, IInv, TypeOK, AttemptRow
<1>a. abandoned \subseteq abandoned' /\ imported \subseteq imported'
  BY DEF Next, vars, marks, PostEvent, PostStart, PatchOutcome, PatchActiveGroup, CheckNoneOpen,
     LookupOpen, InsertOpen, CloseAttempt, LogEvent, EndSession, SelectGroup, WriteSheet, GiveUp,
     NoteOverlap, PatchSession, UpdateFromSnapshot, ImportAttempt, PutEvidence, ApplySchema
<1>b. Covered(a) /\ Native(a)  BY <1>a DEF WInv
<1>1. ASSUME NEW r \in Request,
             PostEvent(r) \/ PostStart(r) \/ PatchOutcome(r) \/ PatchActiveGroup(r)
             \/ CheckNoneOpen(r) \/ LookupOpen(r) \/ EndSession(r)
      PROVE  Covered(a)'
  <2>1. req[r].stage # "log"  BY <1>1, QuietMoves DEF Moves
  <2>2. row' = row /\ event' = event  BY <1>1, QuietSteps DEF WInv
  <2> QED  BY <1>1, <1>b, <2>1, <2>2, SelectsForSession, EventStays, CoveredStays
<1>2. ASSUME NEW r \in Request, GiveUp(r) PROVE Covered(a)'
  <2>1. req[r].attempt # a /\ row' = row /\ event' = event
    BY <1>2, AttemptsAssumption DEF GiveUp
  <2> QED  BY <1>2, <1>b, <2>1, SelectsForSession, EventStays, CoveredStays
<1>3. ASSUME NEW r \in Request, InsertOpen(r) PROVE Covered(a)'
  <2>1. /\ req[r].stage = "open" /\ req[r].kind = "broadcast_started" /\ event' = event
    BY <1>3 DEF InsertOpen, WInv, Rest, KindOK
  <2>2. CASE row'[a] = row[a]
    BY <1>3, <1>b, <2>1, <2>2, SelectsForSession, EventStays, CoveredStays
  <2>3. CASE row'[a] # row[a]
    <3>1. a = req[r].attempt /\ Goto(r, "log")
          /\ row' = [row EXCEPT ![req[r].attempt].state = "open",
                                ![req[r].attempt].session = req[r].session]
      BY <1>0, <1>3, <2>3 DEF InsertOpen
    <3>2. row'[a].state = "open"  BY <1>0, <3>1 DEF AttemptRow
    <3>3. /\ req'[r].stage = "log" /\ req'[r].attempt = a /\ req'[r].kind = "broadcast_started"
      BY <2>1, <3>1, GotoKeeps DEF WInv
    <3>4. EventFor(a, {"broadcast_started"})'  BY <3>3 DEF EventFor
    <3> QED  BY <3>2, <3>4 DEF Covered
  <2> QED  BY <2>2, <2>3
<1>4. ASSUME NEW r \in Request, CloseAttempt(r) PROVE Covered(a)'
  <2>1. req[r].stage = "close" /\ event' = event /\ Goto(r, "log")  BY <1>4 DEF CloseAttempt
  <2>2. CASE a # req[r].attempt
    <3>1. row'[a] = row[a]  BY <1>0, <1>4, <2>2 DEF CloseAttempt
    <3> QED  BY <1>4, <1>b, <2>1, <3>1, SelectsForSession, EventStays, CoveredStays
  <2>3. CASE a = req[r].attempt
    <3>1. row'[a].state = "completed" /\ row'[a].kind = req[r].kind
      BY <1>0, <1>4, <2>3 DEF CloseAttempt, AttemptRow
    <3>2. req'[r].stage = "log" /\ req'[r].attempt = a /\ req'[r].kind = req[r].kind
      BY <2>1, <2>3, GotoKeeps DEF WInv
    <3>3. EventFor(a, {row[a].kind})'  BY <3>1, <3>2 DEF EventFor
    <3> QED  BY <3>1, <3>3 DEF Covered
  <2> QED  BY <2>2, <2>3
<1>5. ASSUME NEW r \in Request, SelectGroup(r) \/ WriteSheet(r) PROVE Covered(a)'
  <2>1. /\ req[r].stage # "log" /\ event' = event
        /\ row'[a].state = row[a].state /\ row'[a].kind = row[a].kind
    BY <1>0, <1>5 DEF SelectGroup, WriteSheet, AttemptRow
  <2> QED  BY <1>5, <1>b, <2>1, SelectsForSession, EventStays, CoveredStays
<1>6. ASSUME NEW r \in Request, LogEvent(r) PROVE Covered(a)'
  <2>1. row' = row  BY <1>6 DEF LogEvent
  <2> QED  BY <1>6, <1>b, <2>1, EventLogged, CoveredStays
<1>7. ASSUME row'[a].state = row[a].state, row'[a].kind = row[a].kind, event' = event, req' = req
      PROVE  Covered(a)'
  <2>1. \A ks : EventFor(a, ks) => EventFor(a, ks)'  BY <1>7 DEF EventFor
  <2> QED  BY <1>7, <1>b, <2>1, CoveredStays
<1>8. ASSUME NEW s \in Session, PatchSession(s) PROVE Covered(a)'
  BY <1>7, <1>8 DEF PatchSession
<1>9. CASE UNCHANGED vars  BY <1>7, <1>9 DEF vars
<1>10. ASSUME NEW b \in Attempt, UpdateFromSnapshot(b) PROVE Covered(a)'
  <2>1. row'[a].state = row[a].state /\ row'[a].kind = row[a].kind
    BY <1>0, <1>10 DEF UpdateFromSnapshot, AttemptRow
  <2> QED  BY <1>7, <1>10, <2>1 DEF UpdateFromSnapshot, PutEvidence
<1>11. ASSUME NEW b \in Attempt, ImportAttempt(b) PROVE Covered(a)'
  <2>1. row'[a] = row[a]  BY <1>0, <1>11 DEF ImportAttempt
  <2> QED  BY <1>7, <1>11, <2>1 DEF ImportAttempt, PutEvidence
<1>12. ASSUME ApplySchema PROVE Covered(a)'
  <2>1. row'[a] = row[a]  BY <1>12, <1>b DEF ApplySchema, Native
  <2> QED  BY <1>7, <1>12, <2>1 DEF ApplySchema
<1> QED
  BY <1>1, <1>2, <1>3, <1>4, <1>5, <1>6, <1>8, <1>9, <1>10, <1>11, <1>12 DEF Next

(* The rows, the timeline and the evidence files of an attempt agree, for    *)
(* any requests, scans and imports whose statements come between each other. *)
(* The timeline has a start or the outcome shown also of attempts that       *)
(* several outcomes raced for; the last outcome and the last selection are   *)
(* those of the row where no two requests worked on it at once, the latter   *)
(* until a log has put another group on it. Excepted are the attempts a      *)
(* request gave up on between two statements, and those an import wrote      *)
(* (main.py 3914-4057, 6328-6344).                                           *)
THEOREM TimelineTellsTheRows ==
  ASSUME IsFiniteSet(Request)
  PROVE  Spec => []TimelineAgreesWithRows
<1>1. WInv => TimelineAgreesWithRows
  <2> SUFFICES ASSUME WInv PROVE TimelineCoversRows /\ LastWordCounts
    BY DEF TimelineAgreesWithRows
  <2>1. TimelineCoversRows  BY DEF TimelineCoversRows, WInv, Covered
  <2>2. ASSUME NEW a \in Attempt \ Disturbed, \A r \in Request : req[r].attempt # a
        PROVE  (a \notin scanned => sheet[a] = row[a].group) /\ Told(a)
    <3>1. Word(a)  BY DEF WInv, Rest
    <3> QED  BY <2>2, <3>1 DEF Word, Writes, Closes
  <2>3. LastWordCounts  BY <2>2 DEF LastWordCounts, Told, LastOutcome, Disturbed
  <2> QED  BY <2>1, <2>3
<1>2. WInv /\ [Next]_vars => WInv'
  <2> SUFFICES ASSUME WInv, [Next]_vars PROVE WInv'  OBVIOUS
  <2>1. IInv'  BY StepHolds DEF WInv
  <2>2. Rest'  BY RestStep
  <2> QED  BY <2>1, <2>2, NativeStep, CoveredStep DEF WInv
<1>3. Init => WInv  BY InitHolds, InitRest DEF WInv
<1> QED  BY <1>1, <1>2, <1>3, PTL DEF Spec

-----------------------------------------------------------------------------
(***************************************************************************)
(* Terminal logs (WlcTranscripts).                                          *)
(***************************************************************************)

TextsRead == {<<>>} \cup UNION {{growth[v] : v \in DOMAIN growth} : growth \in Scripts}

ScanRecord ==
  [pc : {"idle", "hash", "read", "block", "snapshot", "attempt", "observe"}, sha : Nat,
   text : TextsRead, at : Nat \ {0}, index : Nat \ {0}, attempt : Attempts \cup {None}]

TranscriptsTypeOK ==
  /\ script \in Scripts /\ version \in DOMAIN script
  /\ attempts \in SUBSET Attempts
  /\ artifact \in {None} \cup Nat
  /\ scan \in [Scans -> ScanRecord]
  /\ overlap \in BOOLEAN

AttemptsAreKnown == Named(Log) \cap Attempts \subseteq attempts
ArtifactIsOfThePast == artifact # None => artifact <= version
ScansTakeTurns ==
  ~overlap => \A s, t \in Scans : scan[s].pc # "idle" /\ scan[t].pc # "idle" => s = t

InBlock(s) == scan[s].pc \in {"snapshot", "attempt", "observe"}
ScanAtWork(s) == scan[s].pc \in {"block", "snapshot", "attempt", "observe"}

AttemptIsNamed(s) ==
  InBlock(s) =>
    /\ scan[s].at \in DOMAIN scan[s].text
    /\ scan[s].attempt # None => Block(s).ids = <<scan[s].attempt>>
    /\ scan[s].pc # "observe" => scan[s].attempt # None /\ scan[s].index = 1
    /\ scan[s].attempt # None /\ scan[s].pc # "snapshot" =>
         SnapshotId(scan[s].at, scan[s].attempt, Block(s).phase) \in DOMAIN snapshots

HashIsOfTheText(s) ==
  /\ scan[s].pc \in {"idle", "hash", "read"} => scan[s].at = 1
  /\ scan[s].sha <= version
  /\ ~overlap /\ scan[s].pc = "hash" => scan[s].sha = IF artifact = None THEN 0 ELSE artifact
  /\ ScanAtWork(s) /\ scan[s].sha = version => scan[s].text = Log
  /\ ~overlap /\ scan[s].pc \notin {"idle", "hash"} => artifact = None \/ artifact < scan[s].sha

StoredUpTo(at, index) ==
  \A i \in 1..(index - 1) :
    /\ ObservationId(at, i) \in DOMAIN observations
    /\ observations[ObservationId(at, i)] =
         [attempt |-> Bound(Log[at].ids, attempts), block |-> Log[at]]

BlocksAreStored(s) ==
  ~overlap /\ ScanAtWork(s) /\ scan[s].sha = version =>
    /\ \A at \in DOMAIN Log : at < scan[s].at => StoredBlock(at, Log[at])
    /\ InBlock(s) =>
         /\ scan[s].attempt = Bound(Block(s).ids, attempts)
         /\ scan[s].pc # "snapshot" /\ scan[s].attempt # None =>
              LET id == SnapshotId(scan[s].at, scan[s].attempt, Block(s).phase) IN
              id \in DOMAIN snapshots /\ snapshots[id] = Block(s)
         /\ scan[s].pc = "observe" => StoredUpTo(scan[s].at, scan[s].index)

TranscriptsInv ==
  /\ TranscriptsTypeOK /\ AttemptsAreKnown /\ ArtifactIsOfThePast /\ ScansTakeTurns
  /\ ParsedLogIsStored /\ OnlyExplicitAttempts
  /\ \A s \in Scans : AttemptIsNamed(s) /\ HashIsOfTheText(s) /\ BlocksAreStored(s)

LEMMA TextFacts ==
  ASSUME NEW text \in TextsRead
  PROVE  IsText(text)
<1>1. IsText(<<>>)
  BY DEF IsText, IsSequence
<1>2. ASSUME NEW growth \in Scripts, NEW v \in DOMAIN growth PROVE IsText(growth[v])
  BY <1>2, ScriptAssumption
<1> QED BY <1>1, <1>2 DEF TextsRead

LEMMA LogFacts ==
  ASSUME TranscriptsTypeOK
  PROVE  /\ Log \in TextsRead /\ IsText(Log)
         /\ version \in Nat \ {0}
         /\ version < Len(script) => version + 1 \in DOMAIN script
<1>1. script \in Scripts /\ version \in DOMAIN script
  BY DEF TranscriptsTypeOK
<1>2. Log \in TextsRead
  BY <1>1 DEF Log, TextsRead
<1>3. IsSequence(script)
  BY <1>1, ScriptAssumption
<1> QED BY <1>1, <1>2, <1>3, TextFacts DEF IsSequence

LEMMA BoundFacts ==
  ASSUME NEW text \in TextsRead, NEW i \in DOMAIN text, NEW known \in SUBSET Attempts
  PROVE  LET b == Bound(text[i].ids, known) IN
         /\ b \in Attempts \cup {None}
         /\ b # None => text[i].ids = <<b>>
<1>1. text[i].ids \in Seq({text[i].ids[j] : j \in DOMAIN text[i].ids})
  BY TextFacts DEF IsText
<1> DEFINE ids == text[i].ids
<1>2. CASE Len(ids) = 1 /\ ids[1] \in known
  <2>1. Bound(ids, known) = ids[1]
    BY <1>2 DEF Bound
  <2>2. ids = <<ids[1]>>
    BY <1>1, <1>2
  <2> QED BY <1>2, <2>1, <2>2
<1>3. CASE ~(Len(ids) = 1 /\ ids[1] \in known)
  BY <1>3 DEF Bound
<1> QED BY <1>2, <1>3

\* An attempt that the log does not name is not bound.
LEMMA BoundStays ==
  ASSUME NEW text \in TextsRead, NEW i \in DOMAIN text, NEW known \in SUBSET Attempts,
         NEW a \in Attempts, a \notin Named(text)
  PROVE  Bound(text[i].ids, known \cup {a}) = Bound(text[i].ids, known)
<1> DEFINE ids == text[i].ids
<1>1. ids \in Seq({ids[j] : j \in DOMAIN ids})
  BY TextFacts DEF IsText
<1>2. CASE Len(ids) = 1
  <2>1. 1 \in DOMAIN ids
    BY <1>1, <1>2
  <2>2. ids[1] \in Named(text)
    BY <2>1 DEF Named
  <2> QED BY <2>2 DEF Bound
<1>3. CASE Len(ids) # 1
  BY <1>3 DEF Bound
<1> QED BY <1>2, <1>3

LEMMA RecordFacts ==
  ASSUME TranscriptsTypeOK, NEW s \in Scans
  PROVE  /\ scan[s] \in ScanRecord
         /\ scan[s].sha \in Nat /\ scan[s].text \in TextsRead
         /\ scan[s].at \in Nat \ {0} /\ scan[s].index \in Nat \ {0}
         /\ scan[s].attempt \in Attempts \cup {None}
         /\ IsText(scan[s].text)
<1>1. scan[s] \in ScanRecord
  BY DEF TranscriptsTypeOK
<1>2. scan[s].text \in TextsRead
  BY <1>1 DEF ScanRecord
<1> QED BY <1>1, <1>2, TextFacts DEF ScanRecord

LEMMA TranscriptsInitOK == TranscriptsInit => TranscriptsInv
<1> SUFFICES ASSUME TranscriptsInit PROVE TranscriptsInv
  OBVIOUS
<1> USE DEF TranscriptsInit
<1>1. NoScan \in ScanRecord
  BY DEF NoScan, ScanRecord, TextsRead
<1>2. 1 \in DOMAIN script
  <2>1. IsSequence(script) /\ script # <<>>
    BY ScriptAssumption
  <2> QED BY <2>1, ScriptAssumption DEF IsSequence
<1>3. TranscriptsTypeOK
  BY <1>1, <1>2 DEF TranscriptsTypeOK
<1>4. AttemptsAreKnown
  BY DEF AttemptsAreKnown, Log
<1>5. ArtifactIsOfThePast
  BY DEF ArtifactIsOfThePast
<1>6. \A s \in Scans : scan[s].pc = "idle" /\ scan[s].sha = 0 /\ scan[s].at = 1
  BY DEF NoScan
<1>7. ScansTakeTurns
  BY <1>6 DEF ScansTakeTurns
<1>8. ParsedLogIsStored
  BY ScanAssumption DEF ParsedLogIsStored
<1>9. OnlyExplicitAttempts
  BY DEF OnlyExplicitAttempts
<1>10. ASSUME NEW s \in Scans PROVE AttemptIsNamed(s) /\ HashIsOfTheText(s) /\ BlocksAreStored(s)
  BY <1>6 DEF AttemptIsNamed, HashIsOfTheText, BlocksAreStored, InBlock, ScanAtWork
<1> QED BY <1>3, <1>4, <1>5, <1>7, <1>8, <1>9, <1>10 DEF TranscriptsInv

\* What a step of one scan leaves to be shown: nothing of the other scans.
LEMMA StepOfAScan ==
  ASSUME TranscriptsInv, NEW s \in Scans, NEW new \in ScanRecord,
         scan' = [scan EXCEPT ![s] = new],
         \/ scan[s].pc # "idle" \/ overlap
         \/ \A t \in Scans : scan[t].pc = "idle",
         UNCHANGED <<script, version, attempts, overlap>>,
         artifact' \in {None} \cup Nat,
         DOMAIN snapshots \subseteq DOMAIN snapshots'
  PROVE  /\ TranscriptsTypeOK' /\ AttemptsAreKnown' /\ ScansTakeTurns'
         /\ scan'[s] = new /\ Log' = Log
         /\ \A t \in Scans \ {s} :
              AttemptIsNamed(t)' /\ HashIsOfTheText(t)' /\ BlocksAreStored(t)'
<1> USE DEF TranscriptsInv
<1>1. scan \in [Scans -> ScanRecord]
  BY DEF TranscriptsTypeOK
<1>2. scan' \in [Scans -> ScanRecord] /\ scan'[s] = new /\ \A t \in Scans \ {s} : scan'[t] = scan[t]
  BY <1>1
<1>3. TranscriptsTypeOK'
  BY <1>2 DEF TranscriptsTypeOK
<1>4. Log' = Log
  BY DEF Log
<1>5. AttemptsAreKnown'
  BY <1>4 DEF AttemptsAreKnown, Named
<1>6. ~overlap => \A t \in Scans \ {s} : scan[t].pc = "idle"
  BY DEF ScansTakeTurns
<1>7. ScansTakeTurns'
  BY <1>2, <1>6 DEF ScansTakeTurns
<1>8. ASSUME NEW t \in Scans \ {s}
      PROVE  AttemptIsNamed(t)' /\ HashIsOfTheText(t)' /\ BlocksAreStored(t)'
  <2>1. scan'[t] = scan[t] /\ AttemptIsNamed(t) /\ HashIsOfTheText(t)
    BY <1>2
  <2>2. AttemptIsNamed(t)'
    BY <2>1 DEF AttemptIsNamed, InBlock, Block, SnapshotId
  <2>3. HashIsOfTheText(t)'
    BY <2>1, <1>4, <1>6 DEF HashIsOfTheText, ScanAtWork
  <2>4. BlocksAreStored(t)'
    BY <2>1, <1>6 DEF BlocksAreStored, ScanAtWork
  <2> QED BY <2>2, <2>3, <2>4
<1> QED BY <1>2, <1>3, <1>4, <1>5, <1>7, <1>8

\* A step of one scan that writes no row.
LEMMA QuietStep ==
  ASSUME TranscriptsInv, NEW s \in Scans, NEW new \in ScanRecord,
         scan' = [scan EXCEPT ![s] = new],
         \/ scan[s].pc # "idle" \/ overlap
         \/ \A t \in Scans : scan[t].pc = "idle",
         UNCHANGED <<script, version, attempts, overlap, rows>>,
         AttemptIsNamed(s)' /\ HashIsOfTheText(s)' /\ BlocksAreStored(s)'
  PROVE  TranscriptsInv'
<1>1. UNCHANGED <<artifact, snapshots, observations>>
  BY DEF rows
<1>2. artifact \in {None} \cup Nat
  BY DEF TranscriptsInv, TranscriptsTypeOK
<1>3. /\ TranscriptsTypeOK' /\ AttemptsAreKnown' /\ ScansTakeTurns'
      /\ scan'[s] = new /\ Log' = Log
      /\ \A t \in Scans \ {s} :
           AttemptIsNamed(t)' /\ HashIsOfTheText(t)' /\ BlocksAreStored(t)'
  <2>1. DOMAIN snapshots \subseteq DOMAIN snapshots'
    BY <1>1
  <2> QED BY <1>1, <1>2, <2>1, StepOfAScan
<1>4. ParsedLogIsStored'
  BY <1>1, <1>3 DEF TranscriptsInv, ParsedLogIsStored, StoredBlock
<1>5. OnlyExplicitAttempts'
  BY <1>1 DEF TranscriptsInv, OnlyExplicitAttempts, SnapshotId
<1>6. ArtifactIsOfThePast'
  BY <1>1 DEF TranscriptsInv, ArtifactIsOfThePast
<1> QED BY <1>3, <1>4, <1>5, <1>6 DEF TranscriptsInv

\* A scan that gives up or has done its work.
LEMMA ScanEnds ==
  ASSUME TranscriptsTypeOK', NEW s \in Scans, scan'[s] = NoScan
  PROVE  AttemptIsNamed(s)' /\ HashIsOfTheText(s)' /\ BlocksAreStored(s)'
<1>1. scan'[s].pc = "idle" /\ scan'[s].sha = 0 /\ scan'[s].at = 1
  BY DEF NoScan
<1>2. version' \in Nat
  <2>1. script' \in Scripts /\ version' \in DOMAIN script'
    BY DEF TranscriptsTypeOK
  <2> QED BY <2>1, ScriptAssumption DEF IsSequence
<1> QED BY <1>1, <1>2 DEF AttemptIsNamed, HashIsOfTheText, BlocksAreStored, InBlock, ScanAtWork

LEMMA NoScanTyped == NoScan \in ScanRecord
BY DEF NoScan, ScanRecord, TextsRead

LEMMA QuietEnd ==
  ASSUME TranscriptsInv, NEW s \in Scans, ScanGoes(s, NoScan), scan[s].pc # "idle",
         UNCHANGED <<script, version, attempts, overlap, rows>>
  PROVE  TranscriptsInv'
<1>1. scan' = [scan EXCEPT ![s] = NoScan]
  BY DEF ScanGoes
<1>2. scan \in [Scans -> ScanRecord]
  BY DEF TranscriptsInv, TranscriptsTypeOK
<1>3. scan'[s] = NoScan /\ scan' \in [Scans -> ScanRecord]
  BY <1>1, <1>2, NoScanTyped
<1>4. TranscriptsTypeOK'
  BY <1>3 DEF TranscriptsInv, TranscriptsTypeOK, rows
<1> QED BY <1>1, <1>3, <1>4, ScanEnds, NoScanTyped, QuietStep

LEMMA StartOK ==
  ASSUME TranscriptsInv, NEW s \in Scans, Start(s)
  PROVE  TranscriptsInv'
<1> DEFINE old == NoScan
           new == [old EXCEPT !.pc = "hash", !.sha = IF artifact = None THEN 0 ELSE artifact]
<1>1. artifact \in {None} \cup Nat
  BY DEF TranscriptsInv, TranscriptsTypeOK
<1>3. /\ scan' = [scan EXCEPT ![s] = new]
      /\ overlap \/ \A t \in Scans : scan[t].pc = "idle"
      /\ UNCHANGED <<script, version, attempts, overlap, rows>>
  BY DEF Start, ScanGoes
<1>7. old \in ScanRecord /\ old.at = 1
  BY NoScanTyped DEF NoScan
<1> HIDE DEF old
<1>2. /\ new \in ScanRecord /\ new.pc = "hash" /\ new.at = 1
      /\ new.sha = IF artifact = None THEN 0 ELSE artifact
  BY <1>1, <1>7 DEF ScanRecord
<1> HIDE DEF new
<1>4. scan'[s] = new
  BY <1>3 DEF TranscriptsInv, TranscriptsTypeOK
<1>5. AttemptIsNamed(s)' /\ BlocksAreStored(s)'
  BY <1>2, <1>4 DEF AttemptIsNamed, BlocksAreStored, InBlock, ScanAtWork
<1>6. HashIsOfTheText(s)'
  <2>1. version \in Nat \ {0}
    BY LogFacts DEF TranscriptsInv
  <2>2. new.sha <= version
    BY <1>1, <1>2, <2>1 DEF TranscriptsInv, ArtifactIsOfThePast
  <2> QED BY <1>2, <1>3, <1>4, <2>2 DEF HashIsOfTheText, ScanAtWork, rows
<1> QED BY <1>2, <1>3, <1>5, <1>6, QuietStep

LEMMA HashOK ==
  ASSUME TranscriptsInv, NEW s \in Scans, Hash(s)
  PROVE  TranscriptsInv'
<1>1. /\ scan[s].pc = "hash"
      /\ UNCHANGED <<script, version, attempts, overlap, rows>>
  BY DEF Hash
<1>2. CASE scan[s].sha = version
  BY <1>1, <1>2, QuietEnd DEF Hash
<1>3. CASE scan[s].sha # version
  <2> DEFINE old == NoScan
             new == [old EXCEPT !.pc = "read", !.sha = version]
  <2>1. version \in Nat \ {0}
    BY LogFacts DEF TranscriptsInv
  <2>3. scan' = [scan EXCEPT ![s] = new]
    BY <1>3 DEF Hash, ScanGoes
  <2>7. old \in ScanRecord /\ old.at = 1
    BY NoScanTyped DEF NoScan
  <2> HIDE DEF old
  <2>2. new \in ScanRecord /\ new.pc = "read" /\ new.sha = version /\ new.at = 1
    BY <2>1, <2>7 DEF ScanRecord
  <2> HIDE DEF new
  <2>4. scan'[s] = new
    BY <2>3 DEF TranscriptsInv, TranscriptsTypeOK
  <2>5. AttemptIsNamed(s)' /\ BlocksAreStored(s)'
    BY <2>2, <2>4 DEF AttemptIsNamed, BlocksAreStored, InBlock, ScanAtWork
  <2>6. HashIsOfTheText(s)'
    <3>1. artifact \in {None} \cup Nat
      BY DEF TranscriptsInv, TranscriptsTypeOK
    <3>2. ~overlap => artifact # version
      BY <1>1, <1>3 , <2>1, ScanAssumption DEF TranscriptsInv, HashIsOfTheText
    <3>3. ~overlap => artifact = None \/ artifact < version
      BY <2>1, <3>1, <3>2 DEF TranscriptsInv, ArtifactIsOfThePast
    <3> QED BY <1>1, <2>1, <2>2, <2>4, <3>2, <3>3 DEF HashIsOfTheText, ScanAtWork, rows
  <2> QED BY <1>1, <2>2, <2>3, <2>5, <2>6, QuietStep
<1> QED BY <1>2, <1>3

LEMMA ReadOK ==
  ASSUME TranscriptsInv, NEW s \in Scans, Read(s)
  PROVE  TranscriptsInv'
<1> DEFINE old == scan[s]
           new == [old EXCEPT !.pc = "block", !.text = Log]
<1>1. /\ scan[s].pc = "read"
      /\ scan' = [scan EXCEPT ![s] = new]
      /\ UNCHANGED <<script, version, attempts, overlap, rows>>
  BY DEF Read, ScanGoes
<1>2. /\ old \in ScanRecord /\ Log \in TextsRead
  BY RecordFacts, LogFacts DEF TranscriptsInv
<1> HIDE DEF old
<1>3. /\ new \in ScanRecord /\ new.pc = "block" /\ new.text = Log
      /\ new.sha = old.sha /\ new.at = old.at
  BY <1>2 DEF ScanRecord
<1> HIDE DEF new
<1>4. scan'[s] = new /\ Log' = Log
  BY <1>1 DEF TranscriptsInv, TranscriptsTypeOK, Log
<1>5. AttemptIsNamed(s)'
  BY <1>3, <1>4 DEF AttemptIsNamed, InBlock
<1>6. HashIsOfTheText(s)'
  BY <1>1, <1>3, <1>4 DEF TranscriptsInv, HashIsOfTheText, ScanAtWork, rows, old
<1>7. BlocksAreStored(s)'
  <2>1. old.at = 1
    BY <1>1 DEF TranscriptsInv, HashIsOfTheText, old
  <2>2. IsText(Log)
    BY LogFacts DEF TranscriptsInv
  <2> QED BY <1>3, <1>4, <2>1, <2>2 DEF BlocksAreStored, InBlock, IsText, IsSequence
<1> QED BY <1>1, <1>3, <1>5, <1>6, <1>7, QuietStep

LEMMA AssociateOK ==
  ASSUME TranscriptsInv, NEW s \in Scans, Associate(s)
  PROVE  TranscriptsInv'
<1> DEFINE old == scan[s]
           bound == Bound(Block(s).ids, attempts)
           pc == IF bound = None THEN "observe" ELSE "snapshot"
           mid == [old EXCEPT !.pc = pc]
           new == [mid EXCEPT !.attempt = bound, !.index = 1]
<1>1. /\ old.pc = "block" /\ old.at <= Len(old.text)
      /\ scan' = [scan EXCEPT ![s] = new]
      /\ UNCHANGED <<script, version, attempts, overlap, rows>>
  BY DEF Associate, AtBlock, ScanGoes
<1>2. old \in ScanRecord /\ IsText(old.text) /\ old.at \in Nat \ {0} /\ old.text \in TextsRead
  BY RecordFacts DEF TranscriptsInv
<1>3. old.at \in DOMAIN old.text
  BY <1>1, <1>2 DEF IsText, IsSequence
<1>4. bound \in Attempts \cup {None} /\ (bound # None => Block(s).ids = <<bound>>)
  BY <1>2, <1>3, BoundFacts DEF Block, TranscriptsInv, TranscriptsTypeOK
<1>5. pc \in {"observe", "snapshot"} /\ (pc = "observe" <=> bound = None)
  OBVIOUS
<1>6. Block(s) = old.text[old.at]
  BY DEF Block
<1>7. HashIsOfTheText(s) /\ BlocksAreStored(s)
  BY DEF TranscriptsInv
<1> HIDE DEF pc, bound
<1>8. /\ new \in ScanRecord /\ new.pc = pc /\ new.text = old.text /\ new.index = 1
      /\ new.sha = old.sha /\ new.at = old.at /\ new.attempt = bound
  <2> HIDE DEF old
  <2>1. /\ mid \in ScanRecord /\ mid.pc = pc /\ mid.text = old.text /\ mid.sha = old.sha
        /\ mid.at = old.at
    BY <1>2, <1>5 DEF ScanRecord
  <2> HIDE DEF mid
  <2>2. 1 \in Nat \ {0}
    OBVIOUS
  <2> QED BY <1>4, <2>1, <2>2 DEF ScanRecord
<1> HIDE DEF new
<1>9. scan'[s] = new /\ Log' = Log
  BY <1>1 DEF TranscriptsInv, TranscriptsTypeOK, Log
<1>10. Block(s)' = Block(s)
  BY <1>6, <1>8, <1>9 DEF Block
<1>11. UNCHANGED <<artifact, snapshots, observations>>
  BY <1>1 DEF rows
<1>12. AttemptIsNamed(s)'
  BY <1>3, <1>4, <1>5, <1>8, <1>9, <1>10 DEF AttemptIsNamed, InBlock
<1>13. HashIsOfTheText(s)'
  BY <1>1, <1>5, <1>7, <1>8, <1>9, <1>11 DEF HashIsOfTheText, ScanAtWork
<1>14. BlocksAreStored(s)'
  <2>1. ASSUME NEW at PROVE StoredUpTo(at, 1)'
    BY DEF StoredUpTo
  <2>2. \A at \in DOMAIN Log : StoredBlock(at, Log[at]) => StoredBlock(at, Log[at])'
    BY <1>1, <1>9, <1>11 DEF StoredBlock
  <2>3. bound' = bound
    BY <1>1, <1>10 DEF bound
  <2> QED BY <1>1, <1>5, <1>7, <1>8, <1>9, <1>10, <2>1, <2>2, <2>3
         DEF BlocksAreStored, InBlock, ScanAtWork, bound
<1> QED BY <1>1, <1>8, <1>12, <1>13, <1>14, QuietStep

\* While a scan works, no row says that the log is parsed as it is now.
LEMMA NotYetParsed ==
  ASSUME TranscriptsInv, NEW s \in Scans, scan[s].pc \notin {"idle", "hash"}, ~overlap
  PROVE  artifact # version
<1>1. scan[s].sha \in Nat /\ version \in Nat \ {0} /\ artifact \in {None} \cup Nat
  BY RecordFacts, LogFacts DEF TranscriptsInv, TranscriptsTypeOK
<1>2. scan[s].sha <= version /\ (artifact = None \/ artifact < scan[s].sha)
  BY DEF TranscriptsInv, HashIsOfTheText
<1> QED BY <1>1, <1>2, ScanAssumption

LEMMA StoreSnapshotOK ==
  ASSUME TranscriptsInv, NEW s \in Scans, StoreSnapshot(s)
  PROVE  TranscriptsInv'
<1> DEFINE old == scan[s]
           new == [old EXCEPT !.pc = "attempt"]
           id == SnapshotId(old.at, old.attempt, Block(s).phase)
<1>1. /\ old.pc = "snapshot"
      /\ scan' = [scan EXCEPT ![s] = new]
      /\ snapshots' = Put(snapshots, id, Block(s))
      /\ UNCHANGED <<script, version, attempts, overlap, artifact, observations>>
  BY DEF StoreSnapshot, ScanGoes
<1>2. old \in ScanRecord
  BY RecordFacts DEF TranscriptsInv
<1>3. AttemptIsNamed(s) /\ HashIsOfTheText(s) /\ BlocksAreStored(s)
  BY DEF TranscriptsInv
<1>4. /\ new \in ScanRecord /\ new.pc = "attempt" /\ new.text = old.text
      /\ new.sha = old.sha /\ new.at = old.at /\ new.attempt = old.attempt
      /\ new.index = old.index
  <2> HIDE DEF old
  <2> QED BY <1>2 DEF ScanRecord
<1>5. Block(s) = old.text[old.at]
  BY DEF Block
<1>6. /\ DOMAIN snapshots' = DOMAIN snapshots \cup {id} /\ snapshots'[id] = Block(s)
      /\ \A k \in DOMAIN snapshots : k # id => snapshots'[k] = snapshots[k]
  BY <1>1 DEF Put
<1>7. id[2] = old.attempt /\ id[1] = old.at
  BY DEF SnapshotId
<1> HIDE DEF new, id
<1>8. /\ TranscriptsTypeOK' /\ AttemptsAreKnown' /\ ScansTakeTurns'
      /\ scan'[s] = new /\ Log' = Log
      /\ \A t \in Scans \ {s} :
           AttemptIsNamed(t)' /\ HashIsOfTheText(t)' /\ BlocksAreStored(t)'
  <2>1. artifact' \in {None} \cup Nat
    BY <1>1 DEF TranscriptsInv, TranscriptsTypeOK
  <2> QED BY <1>1, <1>4, <1>6, <2>1, StepOfAScan
<1>9. Block(s)' = Block(s)
  BY <1>4, <1>5, <1>8 DEF Block
<1>10. Block(s).ids = <<old.attempt>> /\ old.attempt # None
  BY <1>1, <1>3 DEF AttemptIsNamed, InBlock
<1>11. ParsedLogIsStored'
  BY <1>1, NotYetParsed DEF ParsedLogIsStored
<1>12. OnlyExplicitAttempts'
  <2>1. \A k \in DOMAIN snapshots' : snapshots'[k].ids = <<k[2]>>
    BY <1>6, <1>7, <1>10 DEF TranscriptsInv, OnlyExplicitAttempts
  <2> QED BY <1>1, <1>6, <2>1 DEF TranscriptsInv, OnlyExplicitAttempts, SnapshotId
<1>13. ArtifactIsOfThePast'
  BY <1>1 DEF TranscriptsInv, ArtifactIsOfThePast
<1>14. id \in DOMAIN snapshots' /\ id = SnapshotId(new.at, new.attempt, Block(s)'.phase)
  BY <1>4, <1>6, <1>9 DEF id
<1>15. AttemptIsNamed(s)'
  BY <1>1, <1>3, <1>4, <1>8, <1>9, <1>14 DEF AttemptIsNamed, InBlock
<1>16. HashIsOfTheText(s)'
  BY <1>1, <1>3, <1>4, <1>8 DEF HashIsOfTheText, ScanAtWork
<1>17. BlocksAreStored(s)'
  <2>1. \A at \in DOMAIN Log : at < old.at /\ StoredBlock(at, Log[at]) => StoredBlock(at, Log[at])'
    <3> SUFFICES ASSUME NEW at \in DOMAIN Log, at < old.at, StoredBlock(at, Log[at])
                 PROVE  StoredBlock(at, Log[at])'
      OBVIOUS
    <3>1. at # old.at
      <4>1. at \in Nat /\ old.at \in Nat
        BY LogFacts, RecordFacts DEF TranscriptsInv, IsText, IsSequence
      <4> QED BY <4>1
    <3>2. SnapshotId(at, Bound(Log[at].ids, attempts), Log[at].phase) # id
      BY <1>7, <3>1 DEF SnapshotId
    <3> QED BY <1>1, <1>6, <1>8, <3>2 DEF StoredBlock
  <2>2. ~overlap /\ old.sha = version =>
          /\ \A at \in DOMAIN Log : at < old.at => StoredBlock(at, Log[at])
          /\ old.attempt = Bound(Block(s).ids, attempts)
    BY <1>1, <1>3 DEF BlocksAreStored, ScanAtWork, InBlock
  <2>3. snapshots'[id] = Block(s)
    BY <1>6
  <2> QED BY <1>1, <1>4, <1>8, <1>9, <1>14, <2>1, <2>2, <2>3 DEF BlocksAreStored, InBlock, ScanAtWork
<1> QED BY <1>8, <1>11, <1>12, <1>13, <1>15, <1>16, <1>17 DEF TranscriptsInv

LEMMA UpdateAttemptOK ==
  ASSUME TranscriptsInv, NEW s \in Scans, UpdateAttempt(s)
  PROVE  TranscriptsInv'
<1> DEFINE old == scan[s]
           new == [old EXCEPT !.pc = "observe"]
<1>1. /\ old.pc = "attempt"
      /\ scan' = [scan EXCEPT ![s] = new]
      /\ UNCHANGED <<script, version, attempts, overlap, rows>>
  BY DEF UpdateAttempt, ScanGoes
<1>2. old \in ScanRecord
  BY RecordFacts DEF TranscriptsInv
<1>3. AttemptIsNamed(s) /\ HashIsOfTheText(s) /\ BlocksAreStored(s)
  BY DEF TranscriptsInv
<1>4. /\ new \in ScanRecord /\ new.pc = "observe" /\ new.text = old.text
      /\ new.sha = old.sha /\ new.at = old.at /\ new.attempt = old.attempt
      /\ new.index = old.index
  <2> HIDE DEF old
  <2> QED BY <1>2 DEF ScanRecord
<1> HIDE DEF new
<1>5. scan'[s] = new /\ Log' = Log
  BY <1>1 DEF TranscriptsInv, TranscriptsTypeOK, Log
<1>6. Block(s)' = Block(s)
  BY <1>4, <1>5 DEF Block
<1>7. UNCHANGED <<artifact, snapshots, observations>>
  BY <1>1 DEF rows
<1>8. AttemptIsNamed(s)'
  BY <1>1, <1>3, <1>4, <1>5, <1>6, <1>7 DEF AttemptIsNamed, InBlock, SnapshotId
<1>9. HashIsOfTheText(s)'
  BY <1>1, <1>3, <1>4, <1>5, <1>7 DEF HashIsOfTheText, ScanAtWork
<1>10. BlocksAreStored(s)'
  <2>1. ASSUME NEW at PROVE StoredUpTo(at, 1)'
    BY DEF StoredUpTo
  <2>2. \A at \in DOMAIN Log : StoredBlock(at, Log[at]) => StoredBlock(at, Log[at])'
    BY <1>1, <1>5, <1>7 DEF StoredBlock
  <2>3. new.index = 1
    BY <1>1, <1>3, <1>4 DEF AttemptIsNamed, InBlock
  <2>4. Bound(Block(s).ids, attempts)' = Bound(Block(s).ids, attempts)
    BY <1>1, <1>6
  <2> QED BY <1>1, <1>3, <1>4, <1>5, <1>6, <1>7, <2>1, <2>2, <2>3, <2>4
          DEF BlocksAreStored, InBlock, ScanAtWork, SnapshotId
<1> QED BY <1>1, <1>4, <1>8, <1>9, <1>10, QuietStep

LEMMA StoreObservationOK ==
  ASSUME TranscriptsInv, NEW s \in Scans, StoreObservation(s)
  PROVE  TranscriptsInv'
<1> DEFINE old == scan[s]
           new == [old EXCEPT !.index = @ + 1]
           id == ObservationId(old.at, old.index)
           seen == [attempt |-> old.attempt, block |-> Block(s)]
<1>1. /\ old.pc = "observe"
      /\ scan' = [scan EXCEPT ![s] = new]
      /\ observations' = Put(observations, id, seen)
      /\ UNCHANGED <<script, version, attempts, overlap, artifact, snapshots>>
  BY DEF StoreObservation, ScanGoes
<1>2. old \in ScanRecord /\ old.index \in Nat \ {0} /\ old.at \in Nat \ {0}
  BY RecordFacts DEF TranscriptsInv
<1>3. AttemptIsNamed(s) /\ HashIsOfTheText(s) /\ BlocksAreStored(s)
  BY DEF TranscriptsInv
<1>4. /\ new \in ScanRecord /\ new.pc = "observe" /\ new.text = old.text
      /\ new.sha = old.sha /\ new.at = old.at /\ new.attempt = old.attempt
      /\ new.index = old.index + 1
  <2> HIDE DEF old
  <2> QED BY <1>1, <1>2 DEF ScanRecord
<1>5. Block(s) = old.text[old.at]
  BY DEF Block
<1>6. /\ DOMAIN observations' = DOMAIN observations \cup {id} /\ observations'[id] = seen
      /\ \A k \in DOMAIN observations : k # id => observations'[k] = observations[k]
  BY <1>1 DEF Put
<1>7. id[2] = old.index /\ id[1] = old.at
  BY DEF ObservationId
<1>8. seen.attempt = old.attempt /\ seen.block = Block(s)
  OBVIOUS
<1> HIDE DEF new, id, seen
<1>9. /\ TranscriptsTypeOK' /\ AttemptsAreKnown' /\ ScansTakeTurns'
      /\ scan'[s] = new /\ Log' = Log
      /\ \A t \in Scans \ {s} :
           AttemptIsNamed(t)' /\ HashIsOfTheText(t)' /\ BlocksAreStored(t)'
  <2>1. artifact' \in {None} \cup Nat
    BY <1>1 DEF TranscriptsInv, TranscriptsTypeOK
  <2> QED BY <1>1, <1>4, <2>1, StepOfAScan
<1>10. Block(s)' = Block(s)
  BY <1>4, <1>5, <1>9 DEF Block
<1>11. ParsedLogIsStored'
  BY <1>1, NotYetParsed DEF ParsedLogIsStored
<1>12. OnlyExplicitAttempts'
  <2>1. old.attempt # None =>
          /\ seen.block.ids = <<old.attempt>>
          /\ SnapshotId(old.at, old.attempt, seen.block.phase) \in DOMAIN snapshots
    BY <1>1, <1>3, <1>8 DEF AttemptIsNamed, InBlock
  <2>2. ASSUME NEW k \in DOMAIN observations', observations'[k].attempt # None
        PROVE  /\ observations'[k].block.ids = <<observations'[k].attempt>>
               /\ SnapshotId(k[1], observations'[k].attempt, observations'[k].block.phase)
                    \in DOMAIN snapshots
    <3>1. CASE k = id
      BY <1>6, <1>7, <1>8, <2>1, <2>2, <3>1
    <3>2. CASE k # id
      BY <1>6, <2>2, <3>2 DEF TranscriptsInv, OnlyExplicitAttempts
    <3> QED BY <3>1, <3>2
  <2> QED BY <1>1, <2>2 DEF TranscriptsInv, OnlyExplicitAttempts, SnapshotId
<1>13. ArtifactIsOfThePast'
  BY <1>1 DEF TranscriptsInv, ArtifactIsOfThePast
<1>14. AttemptIsNamed(s)'
  BY <1>1, <1>3, <1>4, <1>9, <1>10 DEF AttemptIsNamed, InBlock, SnapshotId
<1>15. HashIsOfTheText(s)'
  BY <1>1, <1>3, <1>4, <1>9 DEF HashIsOfTheText, ScanAtWork
<1>16. BlocksAreStored(s)'
  <2> SUFFICES ASSUME ~overlap, old.sha = version
               PROVE  BlocksAreStored(s)'
    BY <1>1, <1>4, <1>9 DEF BlocksAreStored
  <2>1. /\ \A at \in DOMAIN Log : at < old.at => StoredBlock(at, Log[at])
        /\ old.attempt = Bound(Block(s).ids, attempts)
        /\ old.attempt # None =>
             LET it == SnapshotId(old.at, old.attempt, Block(s).phase) IN
             it \in DOMAIN snapshots /\ snapshots[it] = Block(s)
        /\ StoredUpTo(old.at, old.index)
    BY <1>1, <1>3 DEF BlocksAreStored, ScanAtWork, InBlock
  <2>2. old.text = Log
    BY <1>1, <1>3 DEF HashIsOfTheText, ScanAtWork
  <2>3. \A at \in DOMAIN Log : at < old.at => StoredBlock(at, Log[at])'
    <3> SUFFICES ASSUME NEW at \in DOMAIN Log, at < old.at
                 PROVE  StoredBlock(at, Log[at])'
      OBVIOUS
    <3>1. at # old.at
      <4>1. at \in Nat
        BY LogFacts DEF TranscriptsInv, IsText, IsSequence
      <4> QED BY <1>2, <4>1
    <3>2. \A index : ObservationId(at, index) # id
      BY <1>7, <3>1 DEF ObservationId
    <3> QED BY <1>1, <1>6, <1>9, <2>1, <3>2 DEF StoredBlock
  <2>5. ASSUME NEW i \in 1..old.index
        PROVE  /\ ObservationId(old.at, i) \in DOMAIN observations'
               /\ observations'[ObservationId(old.at, i)] =
                    [attempt |-> Bound(Log[old.at].ids, attempts), block |-> Log[old.at]]
    <3>1. CASE i = old.index
      BY <1>5, <1>6, <2>1, <2>2, <3>1 DEF id, seen
    <3>2. CASE i # old.index
      <4>1. i \in 1..(old.index - 1)
        BY <1>2, <3>2
      <4>2. ObservationId(old.at, i) # id
        BY <1>7, <3>2 DEF ObservationId
      <4> QED BY <1>6, <2>1, <4>1, <4>2 DEF StoredUpTo
    <3> QED BY <3>1, <3>2
  <2>6. StoredUpTo(scan[s].at, scan[s].index)'
    <3>1. scan'[s].at = old.at /\ 1..(scan'[s].index - 1) = 1..old.index
      BY <1>2, <1>4, <1>9
    <3> QED BY <1>1, <1>9, <2>5, <3>1 DEF StoredUpTo, ObservationId
  <2> QED BY <1>1, <1>4, <1>9, <1>10, <2>1, <2>3, <2>6 DEF BlocksAreStored, InBlock, ScanAtWork, SnapshotId
<1> QED BY <1>9, <1>11, <1>12, <1>13, <1>14, <1>15, <1>16 DEF TranscriptsInv

LEMMA NextBlockOK ==
  ASSUME TranscriptsInv, NEW s \in Scans, NextBlock(s)
  PROVE  TranscriptsInv'
<1> DEFINE old == scan[s]
           new == [old EXCEPT !.pc = "block", !.at = @ + 1]
<1>1. /\ old.pc = "observe" /\ old.index > Block(s).obs
      /\ scan' = [scan EXCEPT ![s] = new]
      /\ UNCHANGED <<script, version, attempts, overlap, rows>>
  BY DEF NextBlock, ScanGoes
<1>2. old \in ScanRecord /\ old.index \in Nat \ {0} /\ old.at \in Nat \ {0} /\ IsText(old.text)
  BY RecordFacts DEF TranscriptsInv
<1>3. AttemptIsNamed(s) /\ HashIsOfTheText(s) /\ BlocksAreStored(s)
  BY DEF TranscriptsInv
<1>4. /\ new \in ScanRecord /\ new.pc = "block" /\ new.text = old.text
      /\ new.sha = old.sha /\ new.at = old.at + 1
  <2> HIDE DEF old
  <2>1. old.at + 1 \in Nat \ {0}
    BY <1>2
  <2> QED BY <1>2, <2>1 DEF ScanRecord
<1> HIDE DEF new
<1>5. scan'[s] = new /\ Log' = Log
  BY <1>1 DEF TranscriptsInv, TranscriptsTypeOK, Log
<1>6. UNCHANGED <<artifact, snapshots, observations>>
  BY <1>1 DEF rows
<1>7. AttemptIsNamed(s)'
  BY <1>4, <1>5 DEF AttemptIsNamed, InBlock
<1>8. HashIsOfTheText(s)'
  BY <1>1, <1>3, <1>4, <1>5, <1>6 DEF HashIsOfTheText, ScanAtWork
<1>9. BlocksAreStored(s)'
  <2> SUFFICES ASSUME ~overlap, old.sha = version
               PROVE  \A at \in DOMAIN Log : at < new.at => StoredBlock(at, Log[at])
    <3>1. \A at \in DOMAIN Log : StoredBlock(at, Log[at]) => StoredBlock(at, Log[at])'
      BY <1>1, <1>5, <1>6 DEF StoredBlock
    <3> QED BY <1>1, <1>4, <1>5, <3>1 DEF BlocksAreStored, InBlock
  <2>1. /\ \A at \in DOMAIN Log : at < old.at => StoredBlock(at, Log[at])
        /\ old.attempt = Bound(Block(s).ids, attempts)
        /\ old.attempt # None =>
             LET it == SnapshotId(old.at, old.attempt, Block(s).phase) IN
             it \in DOMAIN snapshots /\ snapshots[it] = Block(s)
        /\ StoredUpTo(old.at, old.index)
    BY <1>1, <1>3 DEF BlocksAreStored, ScanAtWork, InBlock
  <2>2. old.text = Log /\ Block(s) = Log[old.at]
    BY <1>1, <1>3 DEF HashIsOfTheText, ScanAtWork, Block
  <2>3. old.at \in DOMAIN old.text
    BY <1>1, <1>3 DEF AttemptIsNamed, InBlock
  <2>4. Block(s).obs \in Nat
    BY <1>2, <2>2, <2>3 DEF IsText
  <2>5. 1..Block(s).obs \subseteq 1..(old.index - 1)
    BY <1>1, <1>2, <2>4
  <2>6. StoredBlock(old.at, Log[old.at])
    BY <2>1, <2>2, <2>5 DEF StoredBlock, StoredUpTo
  <2>7. ASSUME NEW at \in DOMAIN Log, at < new.at PROVE at < old.at \/ at = old.at
    <3>1. at \in Nat
      BY LogFacts DEF TranscriptsInv, IsText, IsSequence
    <3> QED BY <1>2, <1>4, <2>7, <3>1
  <2> QED BY <2>1, <2>6, <2>7
<1> QED BY <1>1, <1>4, <1>7, <1>8, <1>9, QuietStep

LEMMA RegisterOK ==
  ASSUME TranscriptsInv, NEW s \in Scans, Register(s)
  PROVE  TranscriptsInv'
<1>1. /\ scan[s].pc = "block" /\ scan[s].at > Len(scan[s].text)
      /\ scan' = [scan EXCEPT ![s] = NoScan] /\ artifact' = scan[s].sha
      /\ UNCHANGED <<script, version, attempts, overlap, snapshots, observations>>
  BY DEF Register, ScanGoes
<1>2. /\ scan[s].sha \in Nat /\ scan[s].at \in Nat \ {0} /\ IsText(scan[s].text)
  BY RecordFacts DEF TranscriptsInv
<1>3. HashIsOfTheText(s) /\ BlocksAreStored(s)
  BY DEF TranscriptsInv
<1>4. /\ TranscriptsTypeOK' /\ AttemptsAreKnown' /\ ScansTakeTurns'
      /\ scan'[s] = NoScan /\ Log' = Log
      /\ \A t \in Scans \ {s} :
           AttemptIsNamed(t)' /\ HashIsOfTheText(t)' /\ BlocksAreStored(t)'
  BY <1>1, <1>2, NoScanTyped, StepOfAScan
<1>5. AttemptIsNamed(s)' /\ HashIsOfTheText(s)' /\ BlocksAreStored(s)'
  BY <1>4, ScanEnds
<1>6. ParsedLogIsStored'
  <2> SUFFICES ASSUME ~overlap, scan[s].sha = version, NEW at \in DOMAIN Log
               PROVE  StoredBlock(at, Log[at])
    BY <1>1, <1>4 DEF ParsedLogIsStored, StoredBlock
  <2>1. scan[s].text = Log
    BY <1>1, <1>3 DEF HashIsOfTheText, ScanAtWork
  <2>2. at < scan[s].at
    BY <1>1, <1>2, <2>1 DEF IsText, IsSequence
  <2> QED BY <1>1, <1>3, <2>2 DEF BlocksAreStored, ScanAtWork
<1>7. OnlyExplicitAttempts'
  BY <1>1 DEF TranscriptsInv, OnlyExplicitAttempts, SnapshotId
<1>8. ArtifactIsOfThePast'
  BY <1>1, <1>3 DEF ArtifactIsOfThePast, HashIsOfTheText
<1> QED BY <1>4, <1>5, <1>6, <1>7, <1>8 DEF TranscriptsInv

\* Growth makes every hash taken so far one of the past.
LEMMA GrowOK ==
  ASSUME TranscriptsInv, Grow
  PROVE  TranscriptsInv'
<1>1. /\ version < Len(script) /\ version' = version + 1
      /\ Named(script[version + 1]) \cap Attempts \subseteq attempts
      /\ UNCHANGED <<script, attempts, scan, overlap, artifact, snapshots, observations>>
  BY DEF Grow, rows
<1>2. version \in Nat \ {0} /\ version + 1 \in DOMAIN script
  BY <1>1, LogFacts DEF TranscriptsInv
<1>3. artifact \in {None} \cup Nat
  BY DEF TranscriptsInv, TranscriptsTypeOK
<1>4. TranscriptsTypeOK'
  BY <1>1, <1>2 DEF TranscriptsInv, TranscriptsTypeOK
<1>5. AttemptsAreKnown'
  BY <1>1 DEF AttemptsAreKnown, Log
<1>6. ArtifactIsOfThePast' /\ artifact' # version'
  BY <1>1, <1>2, <1>3, ScanAssumption DEF TranscriptsInv, ArtifactIsOfThePast
<1>7. ScansTakeTurns' /\ ParsedLogIsStored' /\ OnlyExplicitAttempts'
  BY <1>1, <1>6 DEF TranscriptsInv, ScansTakeTurns, ParsedLogIsStored, OnlyExplicitAttempts, SnapshotId
<1>8. ASSUME NEW s \in Scans PROVE AttemptIsNamed(s)' /\ HashIsOfTheText(s)' /\ BlocksAreStored(s)'
  <2>1. AttemptIsNamed(s) /\ HashIsOfTheText(s) /\ scan[s].sha \in Nat
    BY RecordFacts DEF TranscriptsInv
  <2>2. scan[s].sha <= version
    BY <2>1 DEF HashIsOfTheText
  <2>3. scan[s].sha <= version' /\ scan[s].sha # version'
    BY <1>1, <1>2, <2>1, <2>2
  <2>4. AttemptIsNamed(s)'
    BY <1>1, <2>1 DEF AttemptIsNamed, InBlock, Block, SnapshotId
  <2>5. HashIsOfTheText(s)'
    BY <1>1, <2>1, <2>3 DEF HashIsOfTheText, ScanAtWork
  <2>6. BlocksAreStored(s)'
    BY <1>1, <2>3 DEF BlocksAreStored
  <2> QED BY <2>4, <2>5, <2>6
<1> QED BY <1>4, <1>5, <1>6, <1>7, <1>8 DEF TranscriptsInv

\* An attempt that begins is not in the log yet: what is bound stays bound.
LEMMA AttemptStartsOK ==
  ASSUME TranscriptsInv, NEW a \in Attempts, AttemptStarts(a)
  PROVE  TranscriptsInv'
<1>1. /\ a \notin attempts /\ attempts' = attempts \cup {a}
      /\ UNCHANGED <<script, version, scan, overlap, artifact, snapshots, observations>>
  BY DEF AttemptStarts, rows
<1>2. Log \in TextsRead /\ attempts \in SUBSET Attempts /\ Log' = Log
  BY <1>1, LogFacts DEF TranscriptsInv, TranscriptsTypeOK, Log
<1>3. a \notin Named(Log)
  BY <1>1 DEF TranscriptsInv, AttemptsAreKnown
<1>4. \A at \in DOMAIN Log : Bound(Log[at].ids, attempts') = Bound(Log[at].ids, attempts)
  BY <1>1, <1>2, <1>3, BoundStays
<1>5. \A at \in DOMAIN Log : StoredBlock(at, Log[at]) => StoredBlock(at, Log[at])'
  BY <1>1, <1>2, <1>4 DEF StoredBlock
<1>6. TranscriptsTypeOK'
  BY <1>1 DEF TranscriptsInv, TranscriptsTypeOK
<1>7. AttemptsAreKnown' /\ ArtifactIsOfThePast' /\ ScansTakeTurns' /\ OnlyExplicitAttempts'
  BY <1>1, <1>2 DEF TranscriptsInv, AttemptsAreKnown, ArtifactIsOfThePast, ScansTakeTurns,
                    OnlyExplicitAttempts, SnapshotId, Named
<1>8. ParsedLogIsStored'
  BY <1>1, <1>2, <1>5 DEF TranscriptsInv, ParsedLogIsStored
<1>9. ASSUME NEW s \in Scans PROVE AttemptIsNamed(s)' /\ HashIsOfTheText(s)' /\ BlocksAreStored(s)'
  <2>1. AttemptIsNamed(s) /\ HashIsOfTheText(s) /\ BlocksAreStored(s)
    BY DEF TranscriptsInv
  <2>2. AttemptIsNamed(s)' /\ HashIsOfTheText(s)'
    BY <1>1, <1>2, <2>1 DEF AttemptIsNamed, HashIsOfTheText, InBlock, ScanAtWork, Block, SnapshotId
  <2>3. BlocksAreStored(s)'
    <3> SUFFICES ASSUME ~overlap, ScanAtWork(s), scan[s].sha = version
                 PROVE  BlocksAreStored(s)'
      BY <1>1 DEF BlocksAreStored, ScanAtWork
    <3>1. scan[s].text = Log
      BY <2>1 DEF HashIsOfTheText
    <3>2. InBlock(s) => scan[s].at \in DOMAIN Log
      BY <2>1, <3>1 DEF AttemptIsNamed
    <3>3. Block(s) = Log[scan[s].at] /\ Block(s)' = Block(s)
      BY <1>1, <3>1 DEF Block
    <3>4. InBlock(s) => /\ Bound(Block(s).ids, attempts') = Bound(Block(s).ids, attempts)
                        /\ Bound(Log[scan[s].at].ids, attempts') = Bound(Log[scan[s].at].ids, attempts)
      BY <1>4, <3>2, <3>3
    <3>5. InBlock(s) /\ StoredUpTo(scan[s].at, scan[s].index) => StoredUpTo(scan[s].at, scan[s].index)'
      BY <1>1, <1>2, <3>4 DEF StoredUpTo, ObservationId
    <3> QED BY <1>1, <1>2, <1>5, <2>1, <3>3, <3>4, <3>5 DEF BlocksAreStored, ScanAtWork, InBlock, SnapshotId
  <2> QED BY <2>2, <2>3
<1> QED BY <1>6, <1>7, <1>8, <1>9 DEF TranscriptsInv

LEMMA TranscriptsStutter ==
  ASSUME TranscriptsInv,
         UNCHANGED <<script, version, attempts, artifact, snapshots, observations, scan, overlap>>
  PROVE  TranscriptsInv'
<1>1. TranscriptsTypeOK' /\ Log' = Log
  BY DEF TranscriptsInv, TranscriptsTypeOK, Log
<1>2. /\ AttemptsAreKnown' /\ ArtifactIsOfThePast' /\ ScansTakeTurns'
      /\ OnlyExplicitAttempts' /\ ParsedLogIsStored'
  BY <1>1 DEF TranscriptsInv, AttemptsAreKnown, ArtifactIsOfThePast, ScansTakeTurns,
              OnlyExplicitAttempts, SnapshotId, Named, ParsedLogIsStored, StoredBlock
<1>3. ASSUME NEW s \in Scans PROVE AttemptIsNamed(s)' /\ HashIsOfTheText(s)' /\ BlocksAreStored(s)'
  <2>1. AttemptIsNamed(s) /\ HashIsOfTheText(s) /\ BlocksAreStored(s)
    BY DEF TranscriptsInv
  <2>2. AttemptIsNamed(s)' /\ HashIsOfTheText(s)'
    BY <1>1, <2>1 DEF AttemptIsNamed, HashIsOfTheText, InBlock, ScanAtWork, Block, SnapshotId
  <2>3. BlocksAreStored(s)'
    BY <1>1, <2>1 DEF BlocksAreStored, InBlock, ScanAtWork, Block, SnapshotId, StoredBlock,
                      StoredUpTo, ObservationId
  <2> QED BY <2>2, <2>3
<1> QED BY <1>1, <1>2, <1>3 DEF TranscriptsInv

LEMMA TranscriptsStep == TranscriptsInv /\ [TranscriptsNext]_transcriptVars => TranscriptsInv'
<1> SUFFICES ASSUME TranscriptsInv, [TranscriptsNext]_transcriptVars PROVE TranscriptsInv'
  OBVIOUS
<1>1. ASSUME NEW s \in Scans, Start(s) PROVE TranscriptsInv'
  BY <1>1, StartOK
<1>2. ASSUME NEW s \in Scans, ScanWorks(s) PROVE TranscriptsInv'
  <2>1. CASE Hash(s)
    BY <2>1, HashOK
  <2>2. CASE Read(s)
    BY <2>2, ReadOK
  <2>3. CASE Associate(s)
    BY <2>3, AssociateOK
  <2>4. CASE StoreSnapshot(s)
    BY <2>4, StoreSnapshotOK
  <2>5. CASE UpdateAttempt(s)
    BY <2>5, UpdateAttemptOK
  <2>6. CASE RefuseAttempt(s)
    BY <2>6, QuietEnd DEF RefuseAttempt
  <2>7. CASE StoreObservation(s)
    BY <2>7, StoreObservationOK
  <2>8. CASE NextBlock(s)
    BY <2>8, NextBlockOK
  <2>9. CASE Register(s)
    BY <2>9, RegisterOK
  <2> QED BY <1>2, <2>1, <2>2, <2>3, <2>4, <2>5, <2>6, <2>7, <2>8, <2>9 DEF ScanWorks
<1>3. ASSUME NEW s \in Scans, Stop(s) PROVE TranscriptsInv'
  BY <1>3, QuietEnd DEF Stop
<1>4. CASE Grow
  BY <1>4, GrowOK
<1>5. ASSUME NEW a \in Attempts, AttemptStarts(a) PROVE TranscriptsInv'
  BY <1>5, AttemptStartsOK
<1>6. ASSUME NEW a \in Attempts, Override(a) PROVE TranscriptsInv'
  BY <1>6, TranscriptsStutter DEF Override, rows
<1>7. CASE UNCHANGED transcriptVars
  BY <1>7, TranscriptsStutter DEF transcriptVars
<1> QED BY <1>1, <1>2, <1>3, <1>4, <1>5, <1>6, <1>7 DEF TranscriptsNext

LEMMA TranscriptsInvariant == TranscriptsSpec => []TranscriptsInv
BY TranscriptsInitOK, TranscriptsStep, PTL DEF TranscriptsSpec

\* An artifact row with the hash of the log stands for the rows of that very text,
\* however the log grew and wherever scans stopped, while scans do not overlap
\* (media_wlc_process_terminal_output).
THEOREM ParsedIsStored == TranscriptsSpec => []ParsedLogIsStored
<1>1. TranscriptsInv => ParsedLogIsStored
  BY DEF TranscriptsInv
<1> QED BY <1>1, TranscriptsInvariant, PTL

\* Evidence is put on an attempt only when its block names that attempt and no
\* other, also while scans overlap.
THEOREM EvidenceIsExplicit == TranscriptsSpec => []OnlyExplicitAttempts
<1>1. TranscriptsInv => OnlyExplicitAttempts
  BY DEF TranscriptsInv
<1> QED BY <1>1, TranscriptsInvariant, PTL

-----------------------------------------------------------------------------
(***************************************************************************)
(* The cutting of a log (WlcCli): what the fold of Step over the lines of a *)
(* text amounts to, for any number of lines.                                *)
(***************************************************************************)

LEMMA NumbersByInduction ==
  ASSUME NEW T, 0 \in T, \A k \in T : k \in Nat => k + 1 \in T
  PROVE  Nat \subseteq T
<1> DEFINE R == OpToRel(<, Nat)
           S == Nat \ T
<1>1. IsWellFoundedOn(R, Nat)
  BY NatLessThanWellFounded
<1>2. ASSUME S # {} PROVE FALSE
  <2>1. PICK m \in S : \A k \in S : ~(<<k, m>> \in R)
    <3> HIDE DEF R
    <3>1. S \subseteq Nat
      OBVIOUS
    <3> HIDE DEF S
    <3> QED BY <1>1, <1>2, <3>1, WFMin
  <2>2. m \in Nat /\ m # 0 /\ m \notin T
    OBVIOUS
  <2>3. m - 1 \in Nat /\ m - 1 < m /\ (m - 1) + 1 = m
    BY <2>2
  <2>4. m - 1 \notin T
    BY <2>2, <2>3
  <2>5. <<m - 1, m>> \in R
    BY <2>2, <2>3 DEF OpToRel
  <2> QED BY <2>1, <2>3, <2>4, <2>5
<1> QED BY <1>2

LEMMA GreatestNumber ==
  ASSUME NEW n \in Nat, NEW S \in SUBSET (1..n), S # {}
  PROVE  Max(S) \in S /\ \A i \in S : Max(S) >= i
<1> DEFINE R == OpToRel(<, Nat)
           T == {n - i : i \in S}
<1>1. IsWellFoundedOn(R, Nat)
  BY NatLessThanWellFounded
<1>2. T \subseteq Nat /\ T # {}
  <2> HIDE DEF R
  <2>1. \A i \in S : n - i \in Nat
    OBVIOUS
  <2>2. PICK i \in S : TRUE
    OBVIOUS
  <2>3. n - i \in T
    BY <2>2
  <2> QED BY <2>1, <2>3
<1>3. PICK m \in T : \A k \in T : ~(<<k, m>> \in R)
  <2> HIDE DEF R, T
  <2> QED BY <1>1, <1>2, WFMin
<1>4. PICK i \in S : m = n - i
  OBVIOUS
<1>5. ASSUME NEW j \in S PROVE i >= j
  <2>1. n - j \in T /\ m \in Nat /\ n - j \in Nat
    BY <1>2
  <2>2. ~(n - j < m)
    BY <1>3, <2>1 DEF OpToRel
  <2> QED BY <1>4, <2>2
<1>6. \E x \in S : \A y \in S : x >= y
  BY <1>5
<1> QED BY <1>6 DEF Max

LEMMA LastIsGreatest ==
  ASSUME NEW k \in Nat, NEW s \in SUBSET (1..k), k \in s
  PROVE  Max(s) = k
<1>1. Max(s) \in s /\ Max(s) >= k
  BY GreatestNumber
<1>2. \A x \in s : x \in 1..k
  OBVIOUS
<1>3. Max(s) \in 1..k
  BY <1>1, <1>2
<1> QED BY <1>1, <1>3

Folded(b, q) == FoldLeft(Step, b, q)

LineByLine(acc, b, q, n) == acc[0] = b /\ \A k \in 1..n : acc[k] = Step(acc[k - 1], q[k])

\* The state after each line (FoldLeft goes through the subsets of the domain, last element
\* first).
LEMMA LinesInOrder ==
  ASSUME NEW b, NEW q, NEW n \in Nat, DOMAIN q = 1..n
  PROVE  \E acc : LineByLine(acc, b, q, n) /\ Folded(b, q) = acc[n]
<1> DEFINE Iterates(it, k) ==
             it = [s \in SUBSET (1..k) |->
                     IF s = {} THEN b ELSE Step(it[s \ {Max(s)}], q[Max(s)])]
           T == {k \in Nat : \E it : Iterates(it, k)}
<1>1. 0 \in T
  <2> DEFINE it == [s \in SUBSET (1..0) |-> b]
  <2>1. \A s \in SUBSET (1..0) : s = {}
    OBVIOUS
  <2>2. Iterates(it, 0)
    BY <2>1
  <2> HIDE DEF Iterates, it
  <2> QED BY <2>2
<1>2. ASSUME NEW k \in T, k \in Nat PROVE k + 1 \in T
  <2>1. PICK it : Iterates(it, k)
    OBVIOUS
  <2>2. \A s \in SUBSET (1..k) :
          it[s] = IF s = {} THEN b ELSE Step(it[s \ {Max(s)}], q[Max(s)])
    BY <2>1
  <2> HIDE DEF Iterates
  <2> DEFINE new == [s \in SUBSET (1..(k + 1)) |->
                       IF k + 1 \in s THEN Step(it[s \ {k + 1}], q[k + 1]) ELSE it[s]]
  <2>3. ASSUME NEW s \in SUBSET (1..(k + 1))
        PROVE  new[s] = IF s = {} THEN b ELSE Step(new[s \ {Max(s)}], q[Max(s)])
    <3>1. CASE k + 1 \in s
      <4>1. k + 1 \in Nat
        BY <1>2
      <4>3. Max(s) = k + 1
        <5> HIDE DEF T, new
        <5> QED BY <3>1, <4>1, LastIsGreatest
      <4>4. s \ {k + 1} \in SUBSET (1..(k + 1)) /\ k + 1 \notin s \ {k + 1}
        OBVIOUS
      <4>5. new[s \ {k + 1}] = it[s \ {k + 1}] /\ new[s] = Step(it[s \ {k + 1}], q[k + 1])
        BY <3>1, <4>4
      <4> QED BY <3>1, <4>3, <4>5
    <3>2. CASE k + 1 \notin s
      <4>1. s \in SUBSET (1..k)
        BY <1>2, <3>2
      <4>2. new[s] = it[s]
        BY <3>2
      <4>3. CASE s = {}
        BY <2>2, <4>1, <4>2, <4>3
      <4>4. CASE s # {}
        <5>1. s \ {Max(s)} \in SUBSET (1..(k + 1)) /\ k + 1 \notin s \ {Max(s)}
          BY <3>2
        <5>2. new[s \ {Max(s)}] = it[s \ {Max(s)}]
          BY <5>1
        <5> QED BY <2>2, <4>1, <4>2, <4>4, <5>2
      <4> QED BY <4>3, <4>4
    <3> QED BY <3>1, <3>2
  <2>4. new = [s \in SUBSET (1..(k + 1)) |-> new[s]]
    OBVIOUS
  <2> HIDE DEF new
  <2>5. Iterates(new, k + 1)
    BY <2>3, <2>4 DEF Iterates
  <2> QED BY <1>2, <2>5
<1>3. n \in T
  <2> HIDE DEF T
  <2> QED BY <1>1, <1>2, NumbersByInduction
<1> DEFINE it == CHOOSE it : Iterates(it, n)
<1>4. Iterates(it, n)
  <2> HIDE DEF Iterates
  <2> QED BY <1>3
<1>5. Folded(b, q) = it[1..n]
  BY DEF Folded, FoldLeft, MapThenFoldSet
<1>6. \A s \in SUBSET (1..n) : it[s] = IF s = {} THEN b ELSE Step(it[s \ {Max(s)}], q[Max(s)])
  <2> HIDE DEF it
  <2> QED BY <1>4
<1> HIDE DEF it, Iterates, T
<1> DEFINE acc == [k \in 0..n |-> it[1..k]]
<1>7. acc[0] = b
  <2>1. 1..0 = {} /\ 1..0 \in SUBSET (1..n)
    OBVIOUS
  <2>2. it[1..0] = b
    BY <1>6, <2>1
  <2>3. acc[0] = it[1..0]
    OBVIOUS
  <2> QED BY <2>2, <2>3
<1>8. ASSUME NEW k \in 1..n PROVE acc[k] = Step(acc[k - 1], q[k])
  <2>1. 1..k \in SUBSET (1..n) /\ k \in 1..k /\ k \in Nat
    OBVIOUS
  <2>2. Max(1..k) = k
    BY <2>1, LastIsGreatest
  <2>3. Max(1..k) = k /\ (1..k) \ {k} = 1..(k - 1) /\ 1..k # {}
    BY <2>1, <2>2
  <2>4. it[1..k] = Step(it[1..(k - 1)], q[k])
    BY <1>6, <2>1, <2>3
  <2> QED BY <2>4
<1>9. acc[n] = it[1..n]
  OBVIOUS
<1> HIDE DEF acc
<1> QED BY <1>5, <1>7, <1>8, <1>9 DEF LineByLine

-----------------------------------------------------------------------------
(* Blocks, one after the other.                                             *)

FlatUpTo(s, n, f) == f = [i \in 1..n |-> IF i = 1 THEN s[i] ELSE f[i - 1] \o s[i]]

LEMMA FlatAt ==
  ASSUME NEW s, NEW n, NEW f, FlatUpTo(s, n, f)
  PROVE  \A i \in 1..n : f[i] = IF i = 1 THEN s[i] ELSE f[i - 1] \o s[i]
BY DEF FlatUpTo

LEMMA FlatExists ==
  ASSUME NEW s, NEW n \in Nat
  PROVE  \E f : FlatUpTo(s, n, f)
<1> DEFINE T == {k \in Nat : \E f : FlatUpTo(s, k, f)}
<1>1. 0 \in T
  <2> DEFINE f == [i \in 1..0 |-> s[i]]
  <2>1. f = [i \in 1..0 |-> IF i = 1 THEN s[i] ELSE f[i - 1] \o s[i]]
    OBVIOUS
  <2>2. FlatUpTo(s, 0, f)
    BY <2>1 DEF FlatUpTo
  <2> QED BY <2>2
<1>2. ASSUME NEW k \in T, k \in Nat PROVE k + 1 \in T
  <2>1. PICK f : FlatUpTo(s, k, f)
    OBVIOUS
  <2>2. \A i \in 1..k : f[i] = IF i = 1 THEN s[i] ELSE f[i - 1] \o s[i]
    BY <2>1, FlatAt
  <2> DEFINE last == IF k + 1 = 1 THEN s[k + 1] ELSE f[k] \o s[k + 1]
             g == [i \in 1..(k + 1) |-> IF i = k + 1 THEN last ELSE f[i]]
  <2>3. ASSUME NEW i \in 1..(k + 1)
        PROVE  g[i] = IF i = 1 THEN s[i] ELSE g[i - 1] \o s[i]
    <3>1. CASE i = k + 1
      <4>1. k # 0 => k \in 1..(k + 1) /\ k # k + 1
        OBVIOUS
      <4>2. k # 0 => g[k] = f[k]
        BY <4>1
      <4> QED BY <3>1, <4>2
    <3>2. CASE i # k + 1
      <4>1. i \in 1..k /\ (i # 1 => i - 1 \in 1..k /\ i - 1 # k + 1 /\ i - 1 \in 1..(k + 1))
        BY <3>2
      <4>2. g[i] = f[i] /\ (i # 1 => g[i - 1] = f[i - 1])
        BY <3>2, <4>1
      <4> QED BY <2>2, <4>1, <4>2
    <3> QED BY <3>1, <3>2
  <2>4. g = [i \in 1..(k + 1) |-> g[i]]
    OBVIOUS
  <2> HIDE DEF g
  <2>5. FlatUpTo(s, k + 1, g)
    BY <2>3, <2>4 DEF FlatUpTo
  <2> QED BY <2>5
<1>3. n \in T
  <2> HIDE DEF T
  <2> QED BY <1>1, <1>2, NumbersByInduction
<1> QED BY <1>3

LEMMA FlatIsOne ==
  ASSUME NEW s, NEW r, NEW n \in Nat, NEW f, NEW g,
         FlatUpTo(s, n, f), FlatUpTo(r, n + 1, g), \A i \in 1..n : s[i] = r[i]
  PROVE  \A i \in 1..n : f[i] = g[i]
<1> DEFINE T == {k \in Nat : k \in 1..n => f[k] = g[k]}
<1>1. /\ \A i \in 1..n : f[i] = IF i = 1 THEN s[i] ELSE f[i - 1] \o s[i]
      /\ \A i \in 1..(n + 1) : g[i] = IF i = 1 THEN r[i] ELSE g[i - 1] \o r[i]
  BY FlatAt
<1>2. 0 \in T
  OBVIOUS
<1>3. ASSUME NEW k \in T, k \in Nat PROVE k + 1 \in T
  <2>1. SUFFICES ASSUME k + 1 \in 1..n PROVE f[k + 1] = g[k + 1]
    OBVIOUS
  <2>2. k # 0 => k \in 1..n /\ (k + 1) - 1 = k /\ k + 1 # 1
    BY <2>1
  <2> QED BY <1>1, <1>3, <2>1, <2>2
<1>4. Nat \subseteq T
  <2> HIDE DEF T
  <2> QED BY <1>2, <1>3, NumbersByInduction
<1> QED BY <1>4

LEMMA FlattenIs ==
  ASSUME NEW s, NEW n \in Nat, Len(s) = n, n # 0
  PROVE  \E f : FlatUpTo(s, n, f) /\ FlattenSeq(s) = f[n]
<1> DEFINE f == CHOOSE f : f = [i \in 1..n |-> IF i = 1 THEN s[i] ELSE f[i - 1] \o s[i]]
<1>1. FlatUpTo(s, n, f)
  <2>1. \E g : FlatUpTo(s, n, g)
    BY FlatExists
  <2> QED BY <2>1 DEF FlatUpTo
<1>2. FlattenSeq(s) = f[n]
  BY DEF FlattenSeq
<1> QED BY <1>1, <1>2

LEMMA FlattenNone == FlattenSeq(<<>>) = <<>>
<1>1. Len(<<>>) = 0
  OBVIOUS
<1> QED BY <1>1 DEF FlattenSeq

LEMMA FlattenLonger ==
  ASSUME NEW s, NEW r, NEW n \in Nat, n # 0, Len(s) = n, Len(r) = n + 1,
         \A i \in 1..n : s[i] = r[i]
  PROVE  FlattenSeq(r) = FlattenSeq(s) \o r[n + 1]
<1>1. n + 1 \in Nat /\ n + 1 # 0 /\ n <= n + 1 /\ n \in 1..n /\ n + 1 \in 1..(n + 1)
      /\ (n + 1) - 1 = n /\ n + 1 # 1
  OBVIOUS
<1>2. PICK f : FlatUpTo(s, n, f) /\ FlattenSeq(s) = f[n]
  BY FlattenIs
<1>3. PICK g : FlatUpTo(r, n + 1, g) /\ FlattenSeq(r) = g[n + 1]
  BY <1>1, FlattenIs
<1>4. \A i \in 1..n : f[i] = g[i]
  BY <1>1, <1>2, <1>3, FlatIsOne
<1>5. \A i \in 1..(n + 1) : g[i] = IF i = 1 THEN r[i] ELSE g[i - 1] \o r[i]
  BY <1>3, FlatAt
<1>6. f[n] = g[n]
  BY <1>1, <1>4
<1> QED BY <1>1, <1>2, <1>3, <1>5, <1>6

LEMMA FlattenOneMore ==
  ASSUME NEW S, NEW s \in Seq(Seq(S)), NEW l \in Seq(S)
  PROVE  FlattenSeq(Append(s, l)) = FlattenSeq(s) \o l
<1>1. /\ Len(s) \in Nat /\ Len(Append(s, l)) = Len(s) + 1 /\ Append(s, l)[Len(s) + 1] = l
      /\ \A i \in 1..Len(s) : s[i] = Append(s, l)[i]
  BY AppendProperties, LenProperties
<1>2. CASE Len(s) # 0
  BY <1>1, <1>2, FlattenLonger
<1>3. CASE Len(s) = 0
  <2>1. s = <<>> /\ Append(<<>>, l) = <<l>>
    BY <1>3, EmptySeq
  <2>2. PICK g : FlatUpTo(<<l>>, 1, g) /\ FlattenSeq(<<l>>) = g[1]
    <3>1. Len(<<l>>) = 1 /\ 1 \in Nat /\ 1 # 0
      OBVIOUS
    <3> QED BY <3>1, FlattenIs
  <2>3. g[1] = IF 1 = 1 THEN <<l>>[1] ELSE g[1 - 1] \o <<l>>[1]
    BY <2>2, FlatAt
  <2>4. FlattenSeq(s) \o l = l
    BY <2>1, FlattenNone, ConcatEmptySeq
  <2> QED BY <2>1, <2>2, <2>3, <2>4
<1> QED BY <1>2, <1>3

LEMMA FlattenTyped ==
  ASSUME NEW S, NEW s \in Seq(Seq(S))
  PROVE  FlattenSeq(s) \in Seq(S)
<1> DEFINE n == Len(s)
<1>1. n \in Nat /\ \A i \in 1..n : s[i] \in Seq(S)
  BY LenProperties, ElementOfSeq
<1>2. CASE n = 0
  <2>1. s = <<>>
    BY <1>2, EmptySeq
  <2> QED BY <2>1, FlattenNone, EmptySeq
<1>3. CASE n # 0
  <2>1. PICK f : FlatUpTo(s, n, f) /\ FlattenSeq(s) = f[n]
    BY <1>1, <1>3, FlattenIs
  <2>2. \A i \in 1..n : f[i] = IF i = 1 THEN s[i] ELSE f[i - 1] \o s[i]
    BY <2>1, FlatAt
  <2> HIDE DEF n
  <2> DEFINE T == {k \in Nat : k \in 1..n => f[k] \in Seq(S)}
  <2>3. 0 \in T
    OBVIOUS
  <2>4. ASSUME NEW k \in T, k \in Nat PROVE k + 1 \in T
    <3>1. SUFFICES ASSUME k + 1 \in 1..n PROVE f[k + 1] \in Seq(S)
      OBVIOUS
    <3>2. CASE k = 0
      BY <1>1, <2>2, <3>1, <3>2
    <3>3. CASE k # 0
      <4>1. k \in 1..n /\ (k + 1) - 1 = k /\ k + 1 # 1
        BY <1>1, <2>4, <3>1, <3>3
      <4>2. f[k] \in Seq(S) /\ s[k + 1] \in Seq(S) /\ f[k + 1] = f[k] \o s[k + 1]
        BY <1>1, <2>2, <3>1, <4>1
      <4> QED BY <4>2, ConcatProperties
    <3> QED BY <3>2, <3>3
  <2>5. n \in T
    <3> HIDE DEF T
    <3> QED BY <1>1, <2>3, <2>4, NumbersByInduction
  <2> QED BY <1>1, <1>3, <2>1, <2>5
<1> QED BY <1>2, <1>3

-----------------------------------------------------------------------------
(* What the state of the cutting holds after k lines of the text t.         *)

CutStates(S) == [blocks : Seq(Seq(S)), lines : Seq(S), commands : Seq(S)]

OpensOnly(block) == \A i \in DOMAIN block : block[i].k = "length0" => i = 1

Held(s) == FlattenSeq(s.blocks) \o s.lines

HoldsTheText(t, k, s) ==
  \/ /\ s.commands = <<>> /\ s.lines = <<>> /\ s.blocks = <<>>
     /\ \A i \in 1..k : ~IsCommand(t[i])
  \/ /\ s.commands # <<>> /\ s.lines # <<>>
     /\ OpensOnly(s.lines) /\ \A b \in DOMAIN s.blocks : OpensOnly(s.blocks[b])
     /\ \E d \in 0..(k - 1) : /\ Held(s) = SubSeq(t, d + 1, k)
                              /\ \A i \in 1..d : ~IsCommand(t[i])

LEMMA NextIsHeld ==
  ASSUME NEW S, NEW t \in Seq(S), NEW k \in Nat, k + 1 \in 1..Len(t),
         NEW d \in 0..k
  PROVE  /\ SubSeq(t, d + 1, k) \o <<t[k + 1]>> = SubSeq(t, d + 1, k + 1)
         /\ SubSeq(t, d + 1, k) \in Seq(S)
<1>1. Len(t) \in Nat /\ \A i \in 1..Len(t) : t[i] \in S
  BY LenProperties, ElementOfSeq
<1>2. d + 1 \in 1..Len(t) /\ k + 1 \in (d + 1)..Len(t) /\ (k + 1) - 1 = k
  BY <1>1
<1>3. SubSeq(t, d + 1, k + 1) = SubSeq(t, d + 1, k) \o <<t[k + 1]>>
  BY <1>2, SubSeqRecursiveSecond
<1>4. SubSeq(t, d + 1, k) \in Seq(S)
  <2>1. d + 1 \in Int /\ k \in Int /\ \A i \in (d + 1)..k : t[i] \in S
    BY <1>1, <1>2
  <2> QED BY <2>1, SubSeqProperties
<1> QED BY <1>3, <1>4

\* One more line in the block that is open.
LEMMA LineComesLast ==
  ASSUME NEW S, NEW b \in Seq(Seq(S)), NEW lines \in Seq(S), NEW l \in S
  PROVE  FlattenSeq(b) \o Append(lines, l) = (FlattenSeq(b) \o lines) \o <<l>>
<1>1. /\ Append(lines, l) = lines \o <<l>> /\ <<l>> \in Seq(S) /\ FlattenSeq(b) \in Seq(S)
  BY AppendIsConcat, FlattenTyped
<1>2. (FlattenSeq(b) \o lines) \o <<l>> = FlattenSeq(b) \o (lines \o <<l>>)
  BY <1>1, ConcatAssociative
<1> QED BY <1>1, <1>2

LEMMA LineOpensNothing ==
  ASSUME NEW S, NEW lines \in Seq(S), NEW l \in S, l.k # "length0", OpensOnly(lines)
  PROVE  OpensOnly(Append(lines, l))
<1> DEFINE new == Append(lines, l)
<1>1. /\ Len(lines) \in Nat /\ DOMAIN lines = 1..Len(lines) /\ DOMAIN new = 1..(Len(lines) + 1)
      /\ new[Len(lines) + 1] = l /\ \A i \in 1..Len(lines) : new[i] = lines[i]
  BY AppendProperties, LenProperties
<1> HIDE DEF new
<1>2. OpensOnly(new)
  BY <1>1 DEF OpensOnly
<1> QED BY <1>2 DEF new

\* A block is closed.
LEMMA BlockIsClosed ==
  ASSUME NEW S, NEW b \in Seq(Seq(S)), NEW lines \in Seq(S),
         OpensOnly(lines), \A i \in DOMAIN b : OpensOnly(b[i])
  PROVE  /\ Append(b, lines) \in Seq(Seq(S))
         /\ FlattenSeq(Append(b, lines)) = FlattenSeq(b) \o lines
         /\ \A i \in DOMAIN Append(b, lines) : OpensOnly(Append(b, lines)[i])
<1> DEFINE new == Append(b, lines)
<1>1. /\ new \in Seq(Seq(S)) /\ Len(b) \in Nat /\ DOMAIN b = 1..Len(b)
      /\ Len(new) = Len(b) + 1 /\ new[Len(b) + 1] = lines /\ \A i \in 1..Len(b) : new[i] = b[i]
  BY AppendProperties, LenProperties
<1>2. DOMAIN new = 1..(Len(b) + 1)
  BY <1>1, LenProperties
<1> HIDE DEF new
<1>3. \A i \in DOMAIN new : OpensOnly(new[i])
  BY <1>1, <1>2
<1> QED BY <1>1, <1>3, FlattenOneMore DEF new

LEMMA OneLineOpens ==
  ASSUME NEW S, NEW l \in S
  PROVE  <<l>> \in Seq(S) /\ <<l>> # <<>> /\ OpensOnly(<<l>>)
<1>1. DOMAIN <<l>> = {1}
  OBVIOUS
<1> QED BY <1>1 DEF OpensOnly

LEMMA CutNextLine ==
  ASSUME NEW S, NEW t \in Seq(S), NEW k \in Nat, k + 1 \in 1..Len(t),
         NEW s \in CutStates(S), HoldsTheText(t, k, s)
  PROVE  Step(s, t[k + 1]) \in CutStates(S) /\ HoldsTheText(t, k + 1, Step(s, t[k + 1]))
<1> DEFINE l == t[k + 1]
<1>1. l \in S
  BY ElementOfSeq
<1>2. s.blocks \in Seq(Seq(S)) /\ s.lines \in Seq(S) /\ s.commands \in Seq(S)
  BY DEF CutStates
<1>3. Append(s.commands, l) \in Seq(S) /\ Append(s.commands, l) # <<>>
  BY <1>1, <1>2, AppendProperties
<1>4. <<l>> \in Seq(S) /\ <<l>> # <<>> /\ OpensOnly(<<l>>)
  BY <1>1, OneLineOpens
<1>5. <<>> \in Seq(S) /\ <<>> \in Seq(Seq(S))
  BY EmptySeq
<1>6. ASSUME l.k = "length0" PROVE IsCommand(l)
  BY <1>6 DEF IsCommand
<1>7. CASE s.commands = <<>>
  <2>1. /\ s.lines = <<>> /\ s.blocks = <<>> /\ \A i \in 1..k : ~IsCommand(t[i])
    BY <1>7 DEF HoldsTheText
  <2>2. CASE ~IsCommand(l)
    <3>1. Step(s, l) = s
      BY <1>6, <2>1, <2>2 DEF Step
    <3>2. \A i \in 1..(k + 1) : ~IsCommand(t[i])
      BY <2>1, <2>2
    <3> QED BY <1>7, <2>1, <3>1, <3>2 DEF HoldsTheText
  <2>3. CASE IsCommand(l)
    <3> DEFINE new == Step(s, l)
    <3>1. new = [blocks |-> <<>>, lines |-> <<l>>, commands |-> <<l>>]
      <4>1. Append(<<>>, l) = <<l>>
        OBVIOUS
      <4>2. s = [blocks |-> <<>>, lines |-> <<>>, commands |-> <<>>]
        BY <1>7, <2>1 DEF CutStates
      <4> QED BY <2>3, <4>1, <4>2 DEF Step, flush
    <3> HIDE DEF new
    <3>2. Held(new) = <<l>>
      BY <1>4, <3>1, FlattenNone, ConcatEmptySeq DEF Held
    <3>3. SubSeq(t, k + 1, k + 1) = <<l>>
      <4>1. k \in 0..k /\ SubSeq(t, k + 1, k) = <<>>
        BY SubSeqEmpty
      <4>2. <<>> \o <<l>> = <<l>>
        BY <1>4, ConcatEmptySeq
      <4> QED BY <4>1, <4>2, NextIsHeld
    <3>4. new \in CutStates(S)
      BY <1>4, <1>5, <3>1 DEF CutStates
    <3>5. k \in 0..((k + 1) - 1)
      OBVIOUS
    <3>6. DOMAIN <<>> = {}
      OBVIOUS
    <3>7. HoldsTheText(t, k + 1, new)
      BY <1>4, <2>1, <3>1, <3>2, <3>3, <3>5, <3>6 DEF HoldsTheText
    <3> QED BY <3>4, <3>7 DEF new
  <2> QED BY <2>2, <2>3
<1>8. CASE s.commands # <<>>
  <2>1. /\ s.lines # <<>> /\ OpensOnly(s.lines)
        /\ \A b \in DOMAIN s.blocks : OpensOnly(s.blocks[b])
    BY <1>8 DEF HoldsTheText
  <2>2. PICK d \in 0..(k - 1) : /\ Held(s) = SubSeq(t, d + 1, k)
                                /\ \A i \in 1..d : ~IsCommand(t[i])
    BY <1>8 DEF HoldsTheText
  <2>3. d \in 0..k /\ d \in 0..((k + 1) - 1)
    OBVIOUS
  <2>4. Held(s) \o <<l>> = SubSeq(t, d + 1, k + 1)
    BY <2>2, <2>3, NextIsHeld
  <2> DEFINE new == Step(s, l)
  <2>5. CASE l.k = "length0"
    <3>1. new = [blocks |-> Append(s.blocks, s.lines), lines |-> <<l>>, commands |-> <<l>>]
      BY <1>8, <2>5 DEF Step, flush
    <3> HIDE DEF new
    <3>2. /\ Append(s.blocks, s.lines) \in Seq(Seq(S))
          /\ FlattenSeq(Append(s.blocks, s.lines)) = Held(s)
          /\ \A b \in DOMAIN Append(s.blocks, s.lines) : OpensOnly(Append(s.blocks, s.lines)[b])
      BY <1>2, <2>1, BlockIsClosed DEF Held
    <3>3. Held(new) = SubSeq(t, d + 1, k + 1)
      BY <2>4, <3>1, <3>2 DEF Held
    <3>4. new \in CutStates(S)
      BY <1>4, <3>1, <3>2 DEF CutStates
    <3>5. HoldsTheText(t, k + 1, new)
      BY <1>4, <2>2, <2>3, <3>1, <3>2, <3>3 DEF HoldsTheText
    <3> QED BY <3>4, <3>5 DEF new
  <2>6. CASE l.k # "length0"
    <3> DEFINE commands == IF IsCommand(l) THEN Append(s.commands, l) ELSE s.commands
    <3>1. new = [blocks |-> s.blocks, lines |-> Append(s.lines, l), commands |-> commands]
      BY <2>1, <2>6 DEF Step, CutStates
    <3>2. commands \in Seq(S) /\ commands # <<>>
      BY <1>2, <1>3, <1>8
    <3> HIDE DEF new, commands, l
    <3>3. /\ Append(s.lines, l) \in Seq(S) /\ Append(s.lines, l) # <<>>
          /\ FlattenSeq(s.blocks) \o Append(s.lines, l) = Held(s) \o <<l>>
          /\ OpensOnly(Append(s.lines, l))
      <4>1. FlattenSeq(s.blocks) \o s.lines = Held(s)
        BY DEF Held
      <4>2. FlattenSeq(s.blocks) \o Append(s.lines, l)
              = (FlattenSeq(s.blocks) \o s.lines) \o <<l>>
        <5>1. \A b \in Seq(Seq(S)) : \A x \in Seq(S) :
                FlattenSeq(b) \o Append(x, l) = (FlattenSeq(b) \o x) \o <<l>>
          BY <1>1, LineComesLast
        <5> QED BY <1>2, <5>1, Zenon
      <4>3. OpensOnly(Append(s.lines, l))
        BY <1>1, <1>2, <2>1, <2>6, LineOpensNothing
      <4>4. Append(s.lines, l) \in Seq(S) /\ Append(s.lines, l) # <<>>
        BY <1>1, <1>2, AppendProperties
      <4> QED BY <4>1, <4>2, <4>3, <4>4
    <3>4. Held(new) = SubSeq(t, d + 1, k + 1)
      BY <2>4, <3>1, <3>3 DEF Held
    <3>5. new \in CutStates(S)
      BY <1>2, <3>1, <3>2, <3>3 DEF CutStates
    <3>6. HoldsTheText(t, k + 1, new)
      BY <2>1, <2>2, <2>3, <3>1, <3>2, <3>3, <3>4 DEF HoldsTheText
    <3> QED BY <3>5, <3>6 DEF new, l
  <2> QED BY <2>5, <2>6
<1> QED BY <1>7, <1>8

(* However a terminal log goes on, the blocks it is cut into are all its   *)
(* lines from the first command on, each once and in their order, and the  *)
(* command that starts a sheet never stands inside a block                 *)
(* (transcript_command_blocks).                                            *)
THEOREM CuttingKeepsLines ==
  ASSUME NEW S, NEW t \in Seq(S)
  PROVE  KeepsItsLines(t)
<1> DEFINE n == Len(t)
           none == [blocks |-> <<>>, lines |-> <<>>, commands |-> <<>>]
<1>1. n \in Nat /\ DOMAIN t = 1..n
  BY LenProperties
<1>2. PICK acc : LineByLine(acc, none, t, n) /\ Folded(none, t) = acc[n]
  BY <1>1, LinesInOrder
<1>3. transcript_command_blocks(t) = flush(acc[n]).blocks
  BY <1>2 DEF transcript_command_blocks, Folded
<1> HIDE DEF n
<1> DEFINE T == {k \in Nat : k <= n => acc[k] \in CutStates(S) /\ HoldsTheText(t, k, acc[k])}
<1>4. 0 \in T
  <2>1. acc[0] = none
    BY <1>2 DEF LineByLine
  <2>2. none \in CutStates(S)
    BY EmptySeq DEF CutStates
  <2>3. HoldsTheText(t, 0, none)
    BY DEF HoldsTheText
  <2> QED BY <2>1, <2>2, <2>3
<1>5. ASSUME NEW k \in T, k \in Nat PROVE k + 1 \in T
  <2>1. SUFFICES ASSUME k + 1 <= n
                 PROVE  acc[k + 1] \in CutStates(S) /\ HoldsTheText(t, k + 1, acc[k + 1])
    OBVIOUS
  <2>2. k + 1 \in 1..n /\ k <= n /\ (k + 1) - 1 = k
    BY <1>1, <1>5, <2>1
  <2>3. acc[k + 1] = Step(acc[k], t[k + 1])
    BY <1>2, <2>2 DEF LineByLine
  <2>4. acc[k] \in CutStates(S) /\ HoldsTheText(t, k, acc[k])
    BY <2>2
  <2> QED BY <1>5, <2>2, <2>3, <2>4, CutNextLine DEF n
<1>6. Nat \subseteq T
  <2> HIDE DEF T
  <2> QED BY <1>4, <1>5, NumbersByInduction
<1> DEFINE s == acc[n]
           blocks == transcript_command_blocks(t)
<1>7. s \in CutStates(S) /\ HoldsTheText(t, n, s)
  BY <1>1, <1>6
<1> HIDE DEF T
<1>8. s.blocks \in Seq(Seq(S)) /\ s.lines \in Seq(S)
  BY <1>7 DEF CutStates
<1>9. CASE s.commands = <<>>
  <2>1. blocks = <<>> /\ \A i \in 1..n : ~IsCommand(t[i])
    BY <1>3, <1>7, <1>9 DEF HoldsTheText, flush, CutStates
  <2>2. FlattenSeq(blocks) = <<>> /\ Len(FlattenSeq(blocks)) = 0 /\ DOMAIN blocks = {}
    BY <2>1, FlattenNone
  <2>3. SubSeq(t, n + 1, n) = <<>>
    BY <1>1, SubSeqEmpty
  <2>4. Len(t) - Len(FlattenSeq(blocks)) = n
    BY <1>1, <2>2 DEF n
  <2> HIDE DEF blocks, s
  <2> QED BY <2>1, <2>2, <2>3, <2>4 DEF KeepsItsLines, blocks, n
<1>10. CASE s.commands # <<>>
  <2>1. PICK d \in 0..(n - 1) : Held(s) = SubSeq(t, d + 1, n) /\ \A i \in 1..d : ~IsCommand(t[i])
    BY <1>7, <1>10 DEF HoldsTheText
  <2>2. OpensOnly(s.lines) /\ \A b \in DOMAIN s.blocks : OpensOnly(s.blocks[b])
    BY <1>7, <1>10 DEF HoldsTheText
  <2>3. blocks = Append(s.blocks, s.lines)
    BY <1>3, <1>10 DEF flush
  <2> HIDE DEF blocks, s
  <2>4. FlattenSeq(blocks) = Held(s) /\ \A b \in DOMAIN blocks : OpensOnly(blocks[b])
    BY <1>8, <2>2, <2>3, BlockIsClosed DEF Held
  <2>5. Len(SubSeq(t, d + 1, n)) = n - d
    <3>1. d + 1 \in Int /\ n \in Int /\ d + 1 <= n /\ \A i \in (d + 1)..n : t[i] \in S
      BY <1>1, ElementOfSeq DEF n
    <3>2. Len(SubSeq(t, d + 1, n)) = n - (d + 1) + 1
      BY <3>1, SubSeqProperties
    <3> QED BY <3>1, <3>2
  <2>6. Len(t) - Len(FlattenSeq(blocks)) = d
    BY <1>1, <2>1, <2>4, <2>5 DEF n
  <2> QED BY <2>1, <2>4, <2>6 DEF KeepsItsLines, blocks, n, OpensOnly
<1> QED BY <1>9, <1>10

=============================================================================
