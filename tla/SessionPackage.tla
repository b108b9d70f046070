---------------------------- MODULE SessionPackage ----------------------------
(***************************************************************************)
(* The JSON files of one capture-session package and the commands of        *)
(* vocera_wlc_session.py that rewrite them.  Nothing locks the package, and  *)
(* write_text truncates a file before it fills it: another command, or the   *)
(* next one after a crash, may find it cut, which read_json takes for empty. *)
(***************************************************************************)
EXTENDS Naturals, Sequences, SequencesExt

CONSTANTS
  Command,      \* commands that may run at the same time
  Id,           \* attempt ids
  Result,       \* audio results of command_outcome
  Unset,        \* no id, no result
  MaxAppends,   \* bound: commands that append an event
  MaxCrashes,   \* bound: commands killed half-way
  MaxInits,     \* bound: runs of init, with or without --force
  MaxWork       \* bound: the three together

ASSUME PackageAssumption ==
  /\ "broadcast_started" \notin Result
  /\ Unset \notin Id
  /\ MaxAppends \in Nat /\ MaxCrashes \in Nat /\ MaxInits \in Nat

VARIABLES
  file,         \* session.json, attempts/index.json and the two timelines
  cmd,          \* commands: step, file at hand, buffer
  acked,        \* events whose command printed its result, while commands
                \* have only taken turns
  erased,       \* those of them that a forced init took out of the timelines
  harmed,       \* files a crash left cut, or left out of step
  crowded,      \* two commands have been at work at once
  events,       \* events made so far: their number is their id
  crashes, inits

packageVars == <<file, cmd, acked, erased, harmed, crowded, events, crashes, inits>>

File     == {"manifest", "index", "timeline", "markers"}
Timeline == {"timeline", "markers"}
Absent   == [state |-> "absent", data |-> <<>>]
Cut      == [state |-> "cut", data |-> <<>>]
Whole(d) == [state |-> "whole", data |-> d]

Resting == [op |-> "none", step |-> "idle", at |-> "manifest", buffer |-> <<>>,
         attempt |-> Unset, kind |-> Unset, id |-> 0, force |-> FALSE]

PackageInit ==
  /\ file = [f \in File |-> Absent]
  /\ cmd = [c \in Command |-> Resting]
  /\ acked = {} /\ erased = {} /\ harmed = {} /\ crowded = FALSE
  /\ events = 0 /\ crashes = 0 /\ inits = 0

Running(c) == cmd[c].step # "idle"
Return(c) == cmd' = [cmd EXCEPT ![c] = Resting]
Loaded(f) == file[f].data        \* read_json: cut or absent files are empty
EventOf(c) == [id |-> cmd[c].id, attempt |-> cmd[c].attempt, kind |-> cmd[c].kind]

Budget == events + crashes + inits < MaxWork

Launch(c, record) ==
  /\ ~Running(c)
  /\ cmd' = [cmd EXCEPT ![c] = record]
  /\ crowded' = (crowded \/ \E d \in Command : d # c /\ Running(d))
  /\ acked' = IF crowded' THEN {} ELSE acked

-----------------------------------------------------------------------------
(* Commands.                                                                *)

\* The package exists for an operator once it has a session.json.
CommandEvent(c) ==
  /\ file["manifest"].state # "absent"
  /\ events < MaxAppends /\ Budget
  /\ events' = events + 1
  /\ \E a \in Id \cup {Unset}, r \in Result :
       \/ Launch(c, [Resting EXCEPT !.op = "mark", !.step = "read", !.at = "timeline",
                                !.kind = "note", !.id = events + 1])
       \/ /\ a # Unset     \* generated, or chosen anew by the operator
          /\ \A i \in DOMAIN Loaded("index") : Loaded("index")[i].attempt # a
          /\ \A d \in Command : cmd[d].attempt # a
          /\ Launch(c, [Resting EXCEPT !.op = "start", !.step = "read", !.at = "index",
                                   !.attempt = a, !.kind = "broadcast_started",
                                   !.id = events + 1])
       \/ Launch(c, [Resting EXCEPT !.op = "outcome", !.step = "read", !.at = "index",
                                !.attempt = a, !.kind = r, !.id = events + 1])
  /\ UNCHANGED <<file, erased, harmed, crashes, inits>>

CommandResolve(c) ==
  /\ file["manifest"].state # "absent"
  /\ \E a \in Id \cup {Unset} :
       Launch(c, [Resting EXCEPT !.op = "resolve", !.step = "read", !.at = "index",
                             !.attempt = a])
  /\ UNCHANGED <<file, erased, harmed, events, crashes, inits>>

CommandInit(c) ==
  /\ inits < MaxInits /\ Budget
  /\ inits' = inits + 1
  /\ \E force \in BOOLEAN :
       Launch(c, [Resting EXCEPT !.op = "init", !.step = "check", !.force = force])
  /\ UNCHANGED <<file, erased, harmed, events, crashes>>

-----------------------------------------------------------------------------
(* Reading, and what is written back.                                       *)

OpenIn(rows) == {i \in DOMAIN rows : rows[i].state = "open"}

\* The row a command works on: the one named, or the first open one.
Target(c, rows) ==
  {i \in DOMAIN rows :
     IF cmd[c].attempt # Unset
     THEN rows[i].attempt = cmd[c].attempt /\ \A j \in 1..(i - 1) : rows[j].attempt # rows[i].attempt
     ELSE rows[i].state = "open" /\ \A j \in 1..(i - 1) : rows[j].state # "open"}

WriteBack(c, rows, a) ==
  cmd' = [cmd EXCEPT ![c].step = "cut", ![c].buffer = rows, ![c].attempt = a]

NewRow(a, state, result) ==
  [attempt |-> a, state |-> state, result |-> result, resolved |-> FALSE]

\* Deviation: the open attempt is not looked for.
StartUnchecked(c, rows) ==
  WriteBack(c, Append(rows, NewRow(cmd[c].attempt, "open", Unset)), cmd[c].attempt)

StartAttempt(c, rows) ==
  IF OpenIn(rows) # {}
  THEN Return(c)
  ELSE WriteBack(c, Append(rows, NewRow(cmd[c].attempt, "open", Unset)), cmd[c].attempt)

RecordOutcome(c, rows) ==
  IF Target(c, rows) # {}
  THEN \E i \in Target(c, rows) :
         WriteBack(c, [rows EXCEPT ![i].state = "completed", ![i].result = cmd[c].kind],
                   rows[i].attempt)
  ELSE IF cmd[c].attempt # Unset
  THEN Return(c)                                       \* not found
  ELSE \E a \in Id :
         /\ \A i \in DOMAIN rows : rows[i].attempt # a
         /\ \A d \in Command : cmd[d].attempt # a
         /\ WriteBack(c, Append(rows, NewRow(a, "completed", cmd[c].kind)), a)

ResolveGroup(c, rows) ==
  IF Target(c, rows) = {}
  THEN Return(c)
  ELSE \E i \in Target(c, rows) :
         WriteBack(c, [rows EXCEPT ![i].resolved = TRUE], rows[i].attempt)

ReadIndex(c) ==
  /\ cmd[c].step = "read" /\ cmd[c].at = "index"
  /\ \/ cmd[c].op = "start" /\ StartAttempt(c, Loaded("index"))
     \/ cmd[c].op = "outcome" /\ RecordOutcome(c, Loaded("index"))
     \/ cmd[c].op = "resolve" /\ ResolveGroup(c, Loaded("index"))
  /\ UNCHANGED <<file, acked, erased, harmed, crowded, events, crashes, inits>>

ReadTimeline(c) ==
  /\ cmd[c].step = "read" /\ cmd[c].at \in Timeline
  /\ cmd' = [cmd EXCEPT ![c].step = "cut",
                        ![c].buffer = Append(Loaded(cmd[c].at), EventOf(c))]
  /\ UNCHANGED <<file, acked, erased, harmed, crowded, events, crashes, inits>>

\* init is refused where a session.json exists, unless forced.
CheckPackage(c) ==
  /\ cmd[c].step = "check"
  /\ IF file["manifest"].state # "absent" /\ ~cmd[c].force
     THEN Return(c) /\ UNCHANGED erased
     ELSE /\ cmd' = [cmd EXCEPT ![c].step = "cut", ![c].at = "manifest"]
          /\ erased' = acked
  /\ UNCHANGED <<file, acked, harmed, crowded, events, crashes, inits>>

-----------------------------------------------------------------------------
(* Writing.                                                                 *)

\* init writes without overwriting: a file that exists by now is an error.
Truncate(c) ==
  LET f == cmd[c].at IN
  /\ cmd[c].step = "cut"
  /\ IF cmd[c].op = "init" /\ ~cmd[c].force /\ file[f].state # "absent"
     THEN Return(c) /\ UNCHANGED file
     ELSE /\ file' = [file EXCEPT ![f] = Cut]
          /\ cmd' = [cmd EXCEPT ![c].step = "fill"]
  /\ UNCHANGED <<acked, erased, harmed, crowded, events, crashes, inits>>

\* Deviation: the event goes to session-events.json only.
AfterOneTimeline(op, f) ==
  CASE f = "manifest"                 -> "timeline"
    [] f = "index" /\ op # "resolve"  -> "timeline"
    [] f = "timeline" /\ op = "init"  -> "markers"
    [] OTHER                          -> "end"

\* The file a command turns to after f; init leaves the index alone.
After(op, f) ==
  CASE f = "manifest"                 -> "timeline"
    [] f = "index" /\ op # "resolve"  -> "timeline"
    [] f = "timeline"                 -> "markers"
    [] OTHER                          -> "end"

Fill(c) ==
  LET f == cmd[c].at
      next == After(cmd[c].op, f)
  IN /\ cmd[c].step = "fill"
     /\ file' = [file EXCEPT ![f] = Whole(cmd[c].buffer)]
     /\ IF next = "end"
        THEN /\ Return(c)
             /\ acked' = acked \cup {e \in {EventOf(c)} : cmd[c].id > 0 /\ ~crowded}
        ELSE /\ cmd' = [cmd EXCEPT ![c].at = next, ![c].buffer = <<>>,
                                   ![c].step = IF cmd[c].op = "init"
                                               THEN "cut" ELSE "read"]
             /\ UNCHANGED acked
     /\ UNCHANGED <<erased, harmed, crowded, events, crashes, inits>>

Crash(c) ==
  /\ Running(c) /\ crashes < MaxCrashes /\ Budget
  /\ crashes' = crashes + 1
  /\ harmed' = harmed \cup (IF cmd[c].op = "init" THEN Timeline
                             ELSE {cmd[c].at} \cap {f \in File : cmd[c].step = "fill"})
  /\ Return(c)
  /\ UNCHANGED <<file, acked, erased, crowded, events, inits>>

PackageNext == \E c \in Command :
  \/ CommandEvent(c) \/ CommandResolve(c) \/ CommandInit(c)
  \/ ReadIndex(c) \/ ReadTimeline(c) \/ CheckPackage(c)
  \/ Truncate(c) \/ Fill(c) \/ Crash(c)

PackageSpec == PackageInit /\ [][PackageNext]_packageVars

-----------------------------------------------------------------------------
(* Properties.                                                              *)

\* However commands overlap and wherever they are killed, the index never holds
\* two open attempts: each writer starts from one whole state it has read.
OneOpenInIndex ==
  /\ \A i, j \in OpenIn(file["index"].data) : i = j
  /\ \A c \in Command : cmd[c].at = "index" =>
       \A i, j \in OpenIn(cmd[c].buffer) : i = j

\* Commands that take turns keep what they acknowledged in both timelines,
\* in every file no crash cut short, until a forced init empties them.
AcknowledgedEventsStay ==
  \A f \in Timeline \ harmed :
    file[f].state = "whole" => acked \ erased \subseteq ToSet(file[f].data)

\* An acknowledged attempt is in the index, also after a forced init, and is
\* completed there once an outcome of it was acknowledged.
AcknowledgedAttemptsStay ==
  "index" \notin harmed /\ file["index"].state = "whole" =>
    \A e \in acked : e.kind # "note" =>
      \E i \in DOMAIN file["index"].data :
        /\ file["index"].data[i].attempt = e.attempt
        /\ e.kind \in Result => file["index"].data[i].state = "completed"

\* What a command acknowledged stays while commands take turns: in the index also
\* after a forced init, in the timelines up to it (vocera_wlc_session.py 652-731).
AcknowledgedStays == AcknowledgedEventsStay /\ AcknowledgedAttemptsStay
=============================================================================
