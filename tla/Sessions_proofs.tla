---------------------------- MODULE Sessions_proofs ----------------------------
(***************************************************************************)
(* Theorems about SessionPackage and CaptureSessions for any commands,      *)
(* attempts, calls, sessions, legs and results, and any number of events,   *)
(* kills and rebuilds: the index never holds two open attempts, commands    *)
(* that take turns keep what they acknowledged, and the names, legs and     *)
(* command sheets of capture sessions fit together.                         *)
(***************************************************************************)
EXTENDS SessionPackage, CaptureSessions, WellFoundedInduction, TLAPS

-----------------------------------------------------------------------------
(***************************************************************************)
(* The session package of the command line (SessionPackage).                *)
(***************************************************************************)

Rows   == [attempt : Id, state : {"open", "completed"},
           result : Result \cup {Unset}, resolved : BOOLEAN]
Kinds  == Result \cup {"note", "broadcast_started", Unset}
Events == [id : Nat, attempt : Id \cup {Unset}, kind : Kinds]

Contents(f) == IF f = "index" THEN Seq(Rows) ELSE Seq(Events)

Files == [state : {"absent", "cut", "whole"}, data : Seq(Rows) \cup Seq(Events)]
Cmds  == [op : {"none", "mark", "start", "outcome", "resolve", "init"},
          step : {"idle", "read", "check", "cut", "fill"}, at : File,
          buffer : Seq(Rows) \cup Seq(Events), attempt : Id \cup {Unset},
          kind : Kinds, id : Nat, force : BOOLEAN]

TypeOK ==
  /\ file \in [File -> Files]
  /\ cmd \in [Command -> Cmds]
  /\ acked \subseteq Events
  /\ erased \subseteq Events
  /\ harmed \subseteq File
  /\ crowded \in BOOLEAN
  /\ events \in Nat /\ crashes \in Nat /\ inits \in Nat

\* The index has rows, the timelines have events, and so have the buffers that
\* are written to them.
DataOK(f) == file[f].data \in Contents(f)

\* Commands that append an event, and have a result to print.
Telling == {"mark", "start", "outcome"}

CmdOK(c) ==
  /\ cmd[c].buffer \in Contents(cmd[c].at)
  /\ cmd[c].step = "idle" <=> cmd[c].op = "none"
  /\ cmd[c].step = "check" => cmd[c].op = "init"
  /\ cmd[c].op = "init" => cmd[c].at # "index" /\ cmd[c].step # "read" /\ cmd[c].buffer = <<>>
  /\ cmd[c].op = "mark" => cmd[c].at \in Timeline /\ cmd[c].kind = "note"
  /\ cmd[c].op = "start" => cmd[c].kind = "broadcast_started" /\ cmd[c].attempt \in Id
  /\ cmd[c].op = "outcome" => cmd[c].kind \in Result
  /\ cmd[c].op \in {"start", "outcome"} => cmd[c].at # "manifest"
  /\ cmd[c].op = "resolve" => cmd[c].at = "index"
  /\ cmd[c].id > 0 => cmd[c].op \in Telling

IInv ==
  /\ TypeOK
  /\ \A f \in File : DataOK(f)
  /\ \A c \in Command : CmdOK(c)
  /\ OneOpenInIndex

-----------------------------------------------------------------------------
(* Commands.                                                                *)

(* A command whose new record is well formed keeps all of them so.          *)
LEMMA CmdStep ==
  ASSUME IInv, NEW c \in Command, NEW x \in Cmds, cmd' = [cmd EXCEPT ![c] = x],
         x.buffer \in Contents(x.at), x.step = "idle" <=> x.op = "none",
         x.step = "check" => x.op = "init",
         x.op = "init" => x.at # "index" /\ x.step # "read" /\ x.buffer = <<>>,
         x.op = "mark" => x.at \in Timeline /\ x.kind = "note",
         x.op = "start" => x.kind = "broadcast_started" /\ x.attempt \in Id,
         x.op = "outcome" => x.kind \in Result,
         x.op \in {"start", "outcome"} => x.at # "manifest",
         x.op = "resolve" => x.at = "index", x.id > 0 => x.op \in Telling
  PROVE  /\ cmd' \in [Command -> Cmds] /\ cmd'[c] = x
         /\ \A d \in Command : d # c => cmd'[d] = cmd[d]
         /\ \A d \in Command : CmdOK(d)'
<1>1. cmd \in [Command -> Cmds]  BY DEF IInv, TypeOK
<1>2. cmd' \in [Command -> Cmds] /\ cmd'[c] = x /\ \A d \in Command : d # c => cmd'[d] = cmd[d]
  BY <1>1
<1>3. ASSUME NEW d \in Command PROVE CmdOK(d)'
  <2>1. CASE d = c  BY <1>2, <2>1 DEF CmdOK
  <2>2. CASE d # c
    <3>1. CmdOK(d) /\ cmd'[d] = cmd[d]  BY <1>2, <2>2 DEF IInv
    <3> QED  BY <3>1 DEF CmdOK
  <2> QED  BY <2>1, <2>2
<1> QED  BY <1>2, <1>3

LEMMA EmptyIsContents == \A f : <<>> \in Contents(f) /\ <<>> \in Seq(Rows) \cup Seq(Events)
BY DEF Contents

LEMMA RestingIsCmd ==
  /\ Resting \in Cmds
  /\ Resting.step = "idle" /\ Resting.op = "none" /\ Resting.id = 0 /\ Resting.buffer = <<>>
  /\ Resting.at = "manifest"
BY EmptyIsContents DEF Resting, Cmds, File, Kinds

LEMMA FinishCmd ==
  ASSUME IInv, NEW c \in Command, Return(c)
  PROVE  /\ cmd' \in [Command -> Cmds]
         /\ cmd'[c].step = "idle" /\ cmd'[c].op = "none"
         /\ cmd'[c].at = "manifest" /\ cmd'[c].buffer = <<>>
         /\ \A d \in Command : d # c => cmd'[d] = cmd[d]
         /\ \A d \in Command : CmdOK(d)'
<1>1. Resting.buffer \in Contents(Resting.at) /\ ~(Resting.id > 0)
  BY RestingIsCmd, EmptyIsContents
<1>2. cmd' = [cmd EXCEPT ![c] = Resting]  BY DEF Return
<1> QED  BY <1>1, <1>2, RestingIsCmd, CmdStep

(* The record of a command that begins: it has read nothing yet.            *)
First(x) ==
  /\ x \in Cmds /\ x.buffer = <<>>
  /\ x.op # "none" /\ x.step = IF x.op = "init" THEN "check" ELSE "read"
  /\ x.op = "init" => x.at = "manifest"
  /\ x.op = "mark" => x.at = "timeline" /\ x.kind = "note"
  /\ x.op \in {"start", "outcome", "resolve"} => x.at = "index"
  /\ x.op = "start" => x.kind = "broadcast_started" /\ x.attempt \in Id
  /\ x.op = "outcome" => x.kind \in Result
  /\ x.id > 0 => x.op \in Telling

LEMMA BeginCmd ==
  ASSUME IInv, NEW c \in Command, NEW x, Launch(c, x), First(x)
  PROVE  /\ cmd' \in [Command -> Cmds] /\ cmd'[c] = x
         /\ \A d \in Command : d # c => cmd'[d] = cmd[d]
         /\ \A d \in Command : CmdOK(d)'
<1>1. x \in Cmds /\ x.buffer \in Contents(x.at)  BY EmptyIsContents DEF First
<1>2. x.step # "idle" /\ x.op # "none" /\ (x.step = "check" => x.op = "init")  BY DEF First
<1>3. x.op = "init" => x.at # "index" /\ x.step # "read" /\ x.buffer = <<>>  BY DEF First
<1>4. /\ x.op = "mark" => x.at \in Timeline /\ x.kind = "note"
      /\ x.op = "start" => x.kind = "broadcast_started" /\ x.attempt \in Id
      /\ x.op = "outcome" => x.kind \in Result
      /\ x.op \in {"start", "outcome"} => x.at # "manifest"
      /\ x.op = "resolve" => x.at = "index"
      /\ x.id > 0 => x.op \in Telling
  BY DEF First, Timeline
<1>5. cmd' = [cmd EXCEPT ![c] = x]  BY DEF Launch
<1> QED  BY <1>1, <1>2, <1>3, <1>4, <1>5, CmdStep

(* A command that has read the index and will write rows back.              *)
LEMMA WriteBackCmd ==
  ASSUME IInv, NEW c \in Command, cmd[c].step = "read", cmd[c].at = "index",
         NEW rows \in Seq(Rows), NEW a \in Id \cup {Unset},
         cmd[c].op = "start" => a \in Id,
         WriteBack(c, rows, a)
  PROVE  /\ cmd' \in [Command -> Cmds]
         /\ cmd'[c].op = cmd[c].op /\ cmd'[c].step = "cut" /\ cmd'[c].at = "index"
         /\ cmd'[c].buffer = rows /\ cmd'[c].attempt = a /\ cmd'[c].kind = cmd[c].kind
         /\ \A d \in Command : d # c => cmd'[d] = cmd[d]
         /\ \A d \in Command : CmdOK(d)'
<1> DEFINE x == [cmd[c] EXCEPT !.step = "cut", !.buffer = rows, !.attempt = a]
<1>0. cmd \in [Command -> Cmds] /\ cmd[c] \in Cmds /\ CmdOK(c)  BY DEF IInv, TypeOK
<1>1. /\ x \in Cmds
      /\ x.op = cmd[c].op /\ x.step = "cut" /\ x.at = "index" /\ x.buffer = rows
      /\ x.attempt = a /\ x.kind = cmd[c].kind /\ x.id = cmd[c].id
  BY <1>0 DEF Cmds
<1>2. cmd' = [cmd EXCEPT ![c] = x]  BY <1>0 DEF WriteBack
<1> HIDE DEF x
<1>3. x.buffer \in Contents(x.at)  BY <1>1 DEF Contents
<1>4. x.op # "init" /\ x.op # "none" /\ x.op # "mark"  BY <1>0, <1>1 DEF CmdOK, Timeline
<1>5. /\ x.op = "start" => x.kind = "broadcast_started" /\ x.attempt \in Id
      /\ x.op = "outcome" => x.kind \in Result
      /\ x.id > 0 => x.op \in Telling
  BY <1>0, <1>1 DEF CmdOK
<1> QED  BY <1>1, <1>2, <1>3, <1>4, <1>5, CmdStep

(* A command that will write a file it has read, or starts on.              *)
LEMMA CutCmd ==
  ASSUME IInv, NEW c \in Command, NEW x \in Cmds, cmd' = [cmd EXCEPT ![c] = x],
         cmd[c].step # "idle",
         x.step \in {"read", "cut", "fill"}, x.step = "read" => x.op # "init",
         x.op = cmd[c].op, x.attempt = cmd[c].attempt, x.kind = cmd[c].kind, x.id = cmd[c].id,
         x.buffer \in Contents(x.at), x.at = "index" => cmd[c].op # "init",
         cmd[c].op = "init" => x.buffer = <<>>,
         x.at \in Timeline \/ x.at = cmd[c].at \/ (x.at = "manifest" /\ cmd[c].op = "init"),
         x.at \in Timeline => x.op # "resolve"
  PROVE  /\ cmd' \in [Command -> Cmds] /\ cmd'[c] = x
         /\ \A d \in Command : d # c => cmd'[d] = cmd[d]
         /\ \A d \in Command : CmdOK(d)'
<1>1. CmdOK(c) /\ cmd[c] \in Cmds  BY DEF IInv, TypeOK
<1>2. /\ x.step = "idle" <=> x.op = "none"
      /\ x.step = "check" => x.op = "init"
      /\ x.op = "init" => x.at # "index" /\ x.step # "read" /\ x.buffer = <<>>
      /\ x.op = "start" => x.kind = "broadcast_started" /\ x.attempt \in Id
      /\ x.op = "outcome" => x.kind \in Result
      /\ x.id > 0 => x.op \in Telling
  BY <1>1 DEF CmdOK
<1>3. /\ x.op = "mark" => x.at \in Timeline /\ x.kind = "note"
      /\ x.op \in {"start", "outcome"} => x.at # "manifest"
      /\ x.op = "resolve" => x.at = "index"
  BY <1>1 DEF CmdOK, Timeline
<1> QED  BY <1>2, <1>3, CmdStep

(* Files that are read hold their kind of entries.                          *)
LEMMA LoadedIsContents ==
  ASSUME IInv
  PROVE  \A f \in File : Loaded(f) \in Contents(f)
BY DEF IInv, DataOK, Loaded

-----------------------------------------------------------------------------
(* Rows.                                                                    *)

(* At most one open row.                                                    *)
OneOpenRow(rows) == \A i, j \in OpenIn(rows) : i = j

LEMMA AppendRow ==
  ASSUME NEW rows \in Seq(Rows), NEW x \in Rows
  PROVE  /\ Append(rows, x) \in Seq(Rows)
         /\ DOMAIN Append(rows, x) = 1..(Len(rows) + 1)
         /\ DOMAIN rows = 1..Len(rows) /\ Len(rows) \in Nat
         /\ \A i \in DOMAIN rows : Append(rows, x)[i] = rows[i]
         /\ Append(rows, x)[Len(rows) + 1] = x
OBVIOUS

LEMMA RowIsRow ==
  ASSUME NEW a \in Id, NEW st \in {"open", "completed"}, NEW k \in Result \cup {Unset}
  PROVE  /\ NewRow(a, st, k) \in Rows
         /\ NewRow(a, st, k).attempt = a /\ NewRow(a, st, k).state = st
BY DEF NewRow, Rows

Completed(rows, i, k) == [rows EXCEPT ![i].state = "completed", ![i].result = k]
Resolved(rows, i)     == [rows EXCEPT ![i].resolved = TRUE]

LEMMA RowReplaced ==
  ASSUME NEW rows \in Seq(Rows), NEW i \in DOMAIN rows, NEW x \in Rows, NEW new,
         new = [rows EXCEPT ![i] = x]
  PROVE  /\ new \in Seq(Rows) /\ DOMAIN new = DOMAIN rows /\ new[i] = x
         /\ \A j \in DOMAIN rows : j # i => new[j] = rows[j]
<1>1. Len(rows) \in Nat /\ DOMAIN rows = 1..Len(rows) /\ rows \in [1..Len(rows) -> Rows]
  OBVIOUS
<1>2. new \in [1..Len(rows) -> Rows] /\ new[i] = x  BY <1>1
<1>3. new \in Seq(Rows)  BY <1>1, <1>2
<1> QED  BY <1>1, <1>2, <1>3

LEMMA OutcomeRows ==
  ASSUME NEW rows \in Seq(Rows), NEW i \in DOMAIN rows, NEW k \in Result, NEW new,
         new = Completed(rows, i, k)
  PROVE  /\ new \in Seq(Rows) /\ DOMAIN new = DOMAIN rows
         /\ \A j \in DOMAIN rows : j # i => new[j] = rows[j]
         /\ new[i].attempt = rows[i].attempt /\ new[i].state = "completed"
<1> DEFINE x == [rows[i] EXCEPT !.state = "completed", !.result = k]
<1>1. rows[i] \in Rows  OBVIOUS
<1>2. x \in Rows /\ x.attempt = rows[i].attempt /\ x.state = "completed"  BY <1>1 DEF Rows
<1>3. new = [rows EXCEPT ![i] = x]  BY DEF Completed
<1> HIDE DEF x
<1> QED  BY <1>2, <1>3, RowReplaced

LEMMA ResolvedRows ==
  ASSUME NEW rows \in Seq(Rows), NEW i \in DOMAIN rows, NEW new, new = Resolved(rows, i)
  PROVE  /\ new \in Seq(Rows) /\ DOMAIN new = DOMAIN rows
         /\ \A j \in DOMAIN rows : j # i => new[j] = rows[j]
         /\ new[i].attempt = rows[i].attempt /\ new[i].state = rows[i].state
<1> DEFINE x == [rows[i] EXCEPT !.resolved = TRUE]
<1>1. rows[i] \in Rows  OBVIOUS
<1>2. x \in Rows /\ x.attempt = rows[i].attempt /\ x.state = rows[i].state  BY <1>1 DEF Rows
<1>3. new = [rows EXCEPT ![i] = x]  BY DEF Resolved
<1> HIDE DEF x
<1> QED  BY <1>2, <1>3, RowReplaced

(* What the commands make of the rows they have read: no row goes, no row   *)
(* opens again, and the row of the command is there.                        *)
Grown(rows, new) ==
  \A i \in DOMAIN rows :
    /\ i \in DOMAIN new /\ new[i].attempt = rows[i].attempt
    /\ rows[i].state = "completed" => new[i].state = "completed"

Shown(new, a, k) ==
  \E i \in DOMAIN new : new[i].attempt = a /\ (k \in Result => new[i].state = "completed")

LEMMA RowsWritten ==
  ASSUME IInv, NEW c \in Command, ReadIndex(c), ~Return(c)
  PROVE  \E rows \in Seq(Rows), a \in Id \cup {Unset} :
           /\ WriteBack(c, rows, a)
           /\ cmd[c].op = "start" => a \in Id
           /\ OneOpenRow(Loaded("index")) => OneOpenRow(rows)
           /\ Grown(Loaded("index"), rows)
           /\ cmd[c].op \in {"start", "outcome"} => Shown(rows, a, cmd[c].kind)
<1> DEFINE old == Loaded("index")
<1> USE PackageAssumption
<1>1. /\ cmd[c].step = "read" /\ cmd[c].at = "index" /\ cmd[c].attempt \in Id \cup {Unset}
      /\ CmdOK(c)
  BY DEF ReadIndex, IInv, TypeOK, Cmds
<1>2. old \in Seq(Rows)
  <2>1. "index" \in File  BY DEF File
  <2> QED  BY <2>1, LoadedIsContents DEF Contents
<1> HIDE DEF old
<1>3. CASE cmd[c].op = "start"
  <2> DEFINE x == NewRow(cmd[c].attempt, "open", Unset)
             new == Append(old, x)
  <2>1. /\ cmd[c].attempt \in Id /\ cmd[c].kind = "broadcast_started"
    BY <1>1, <1>3 DEF CmdOK
  <2>2. OpenIn(old) = {} /\ WriteBack(c, new, cmd[c].attempt)
    BY <1>3 DEF ReadIndex, StartAttempt, old
  <2>3. x \in Rows /\ x.attempt = cmd[c].attempt  BY <2>1, RowIsRow
  <2> HIDE DEF x
  <2>4. /\ new \in Seq(Rows) /\ DOMAIN new = 1..(Len(old) + 1)
        /\ DOMAIN old = 1..Len(old) /\ Len(old) \in Nat
        /\ \A i \in DOMAIN old : new[i] = old[i]
        /\ new[Len(old) + 1] = x
    BY <1>2, <2>3, AppendRow
  <2> HIDE DEF new
  <2>5. OneOpenRow(new)
    <3>1. ASSUME NEW i \in OpenIn(new) PROVE i = Len(old) + 1
      <4>1. i \in DOMAIN new /\ new[i].state = "open"  BY <3>1 DEF OpenIn
      <4>2. i \in DOMAIN old => i \in OpenIn(old)  BY <2>4, <4>1 DEF OpenIn
      <4> QED  BY <2>2, <2>4, <4>1, <4>2
    <3> QED  BY <3>1 DEF OneOpenRow
  <2>6. Grown(old, new)  BY <2>4 DEF Grown
  <2>7. Len(old) + 1 \in DOMAIN new  BY <2>4
  <2>8. Shown(new, cmd[c].attempt, cmd[c].kind)  BY <2>1, <2>3, <2>4, <2>7 DEF Shown
  <2> QED  BY <2>1, <2>2, <2>4, <2>5, <2>6, <2>8 DEF old
<1>4. CASE cmd[c].op = "outcome"
  <2>1. cmd[c].kind \in Result  BY <1>1, <1>4 DEF CmdOK
  <2>2. CASE \E i \in Target(c, old) :
               WriteBack(c, [old EXCEPT ![i].state = "completed", ![i].result = cmd[c].kind],
                         old[i].attempt)
    <3>1. PICK i \in DOMAIN old : WriteBack(c, Completed(old, i, cmd[c].kind), old[i].attempt)
      BY <2>2 DEF Target, Completed
    <3> DEFINE new == Completed(old, i, cmd[c].kind)
    <3>3. WriteBack(c, new, old[i].attempt)  BY <3>1
    <3> HIDE DEF new
    <3>2. /\ new \in Seq(Rows) /\ DOMAIN new = DOMAIN old
          /\ \A j \in DOMAIN old : j # i => new[j] = old[j]
          /\ new[i].attempt = old[i].attempt /\ new[i].state = "completed"
      BY <1>2, <2>1, OutcomeRows DEF new
    <3>4. old[i].attempt \in Id
      <4>1. old[i] \in Rows  BY <1>2
      <4> QED  BY <4>1 DEF Rows
    <3>5. OpenIn(new) \subseteq OpenIn(old)
      <4>1. ASSUME NEW j \in OpenIn(new) PROVE j \in OpenIn(old)
        <5>1. j \in DOMAIN old /\ new[j].state = "open"  BY <3>2 DEF OpenIn
        <5>2. j # i  BY <3>2, <5>1
        <5> QED  BY <3>2, <5>1, <5>2 DEF OpenIn
      <4> QED  BY <4>1
    <3>6. OneOpenRow(old) => OneOpenRow(new)  BY <3>5 DEF OneOpenRow
    <3>7. Grown(old, new)
      <4>1. ASSUME NEW j \in DOMAIN old
            PROVE  /\ j \in DOMAIN new /\ new[j].attempt = old[j].attempt
                   /\ old[j].state = "completed" => new[j].state = "completed"
        <5>1. CASE j = i  BY <3>2, <5>1
        <5>2. CASE j # i  BY <3>2, <5>2
        <5> QED  BY <5>1, <5>2
      <4> QED  BY <4>1 DEF Grown
    <3>8. Shown(new, old[i].attempt, cmd[c].kind)  BY <3>2 DEF Shown
    <3> QED  BY <1>4, <3>2, <3>3, <3>4, <3>6, <3>7, <3>8 DEF old
  <2>3. CASE \E a \in Id : WriteBack(c, Append(old, NewRow(a, "completed", cmd[c].kind)), a)
    <3>1. PICK a \in Id : WriteBack(c, Append(old, NewRow(a, "completed", cmd[c].kind)), a)
      BY <2>3
    <3> DEFINE x == NewRow(a, "completed", cmd[c].kind)
               new == Append(old, x)
    <3>2. x \in Rows /\ x.attempt = a /\ x.state = "completed"  BY <2>1, RowIsRow
    <3>3. WriteBack(c, new, a)  BY <3>1
    <3> HIDE DEF x
    <3>4. /\ new \in Seq(Rows) /\ DOMAIN new = 1..(Len(old) + 1)
          /\ DOMAIN old = 1..Len(old) /\ Len(old) \in Nat
          /\ \A i \in DOMAIN old : new[i] = old[i]
          /\ new[Len(old) + 1] = x
      BY <1>2, <3>2, AppendRow
    <3> HIDE DEF new
    <3>5. OpenIn(new) \subseteq OpenIn(old)
      <4>1. ASSUME NEW i \in OpenIn(new) PROVE i \in OpenIn(old)
        <5>1. i \in DOMAIN new /\ new[i].state = "open"  BY DEF OpenIn
        <5>2. i # Len(old) + 1  BY <3>2, <3>4, <5>1
        <5>3. i \in DOMAIN old  BY <3>4, <5>1, <5>2
        <5> QED  BY <3>4, <5>1, <5>3 DEF OpenIn
      <4> QED  BY <4>1
    <3>6. OneOpenRow(old) => OneOpenRow(new)  BY <3>5 DEF OneOpenRow
    <3>7. Grown(old, new)  BY <3>4 DEF Grown
    <3>8. Len(old) + 1 \in DOMAIN new  BY <3>4
    <3>9. Shown(new, a, cmd[c].kind)  BY <3>2, <3>4, <3>8 DEF Shown
    <3> QED  BY <1>4, <3>3, <3>4, <3>6, <3>7, <3>9 DEF old
  <2> QED  BY <1>4, <2>2, <2>3 DEF ReadIndex, RecordOutcome, old
<1>5. CASE cmd[c].op = "resolve"
  <2>1. PICK i \in DOMAIN old : WriteBack(c, Resolved(old, i), old[i].attempt)
    BY <1>5 DEF ReadIndex, ResolveGroup, Target, Resolved, old
  <2> DEFINE new == Resolved(old, i)
  <2>3. WriteBack(c, new, old[i].attempt)  BY <2>1
  <2> HIDE DEF new
  <2>2. /\ new \in Seq(Rows) /\ DOMAIN new = DOMAIN old
        /\ \A j \in DOMAIN old : j # i => new[j] = old[j]
        /\ new[i].attempt = old[i].attempt /\ new[i].state = old[i].state
    BY <1>2, ResolvedRows DEF new
  <2>4. old[i].attempt \in Id
    <3>1. old[i] \in Rows  BY <1>2
    <3> QED  BY <3>1 DEF Rows
  <2>5. \A j \in DOMAIN old : new[j].attempt = old[j].attempt /\ new[j].state = old[j].state
    BY <2>2
  <2>6. OneOpenRow(old) => OneOpenRow(new)  BY <2>2, <2>5 DEF OneOpenRow, OpenIn
  <2>7. Grown(old, new)  BY <2>2, <2>5 DEF Grown
  <2> QED  BY <1>5, <2>2, <2>3, <2>4, <2>6, <2>7 DEF old
<1> QED  BY <1>3, <1>4, <1>5 DEF ReadIndex

-----------------------------------------------------------------------------
(* The actions.                                                             *)

(* How a command begins.                                                    *)
Begun(c) ==
  /\ ~Running(c) /\ file' = file /\ erased' = erased /\ harmed' = harmed
  /\ crowded' = (crowded \/ \E d \in Command : d # c /\ Running(d))
  /\ acked' = IF crowded' THEN {} ELSE acked
  /\ First(cmd'[c])

(* What the other commands and the numbers are after a step of one.         *)
Framed(c) ==
  /\ cmd' \in [Command -> Cmds]
  /\ \A d \in Command : d # c => cmd'[d] = cmd[d]
  /\ \A d \in Command : CmdOK(d)'
  /\ events' \in Nat /\ crashes' \in Nat /\ inits' \in Nat

LEMMA LaunchStep ==
  ASSUME IInv, NEW c \in Command, NEW x, Launch(c, x), First(x),
         UNCHANGED <<file, erased, harmed>>, events' \in Nat, crashes' \in Nat, inits' \in Nat
  PROVE  Begun(c) /\ Framed(c)
<1>1. /\ cmd' \in [Command -> Cmds] /\ cmd'[c] = x
      /\ \A d \in Command : d # c => cmd'[d] = cmd[d]
      /\ \A d \in Command : CmdOK(d)'
  BY BeginCmd
<1>2. /\ ~Running(c)
      /\ crowded' = (crowded \/ \E d \in Command : d # c /\ Running(d))
      /\ acked' = IF crowded' THEN {} ELSE acked
  BY DEF Launch
<1> QED  BY <1>1, <1>2 DEF Begun, Framed

LEMMA CommandsBegin ==
  ASSUME IInv, NEW c \in Command, CommandEvent(c) \/ CommandResolve(c) \/ CommandInit(c)
  PROVE  Begun(c) /\ Framed(c)
<1> USE PackageAssumption
<1>0. events \in Nat /\ crashes \in Nat /\ inits \in Nat  BY DEF IInv, TypeOK
<1>1. CASE CommandEvent(c)
  <2> DEFINE n == events + 1
  <2>0. n \in Nat /\ UNCHANGED <<file, erased, harmed, crashes, inits>> /\ events' = n
    <3>1. n \in Nat  BY <1>0
    <3>2. UNCHANGED <<file, erased, harmed, crashes, inits>> /\ events' = n  BY <1>1, Zenon DEF CommandEvent
    <3> QED  BY <3>1, <3>2
  <2>1. UNCHANGED <<file, erased, harmed>> /\ events' \in Nat /\ crashes' \in Nat /\ inits' \in Nat
    BY <1>0, <2>0
  <2>2. PICK a \in Id \cup {Unset}, r \in Result :
       \/ Launch(c, [Resting EXCEPT !.op = "mark", !.step = "read", !.at = "timeline",
                                    !.kind = "note", !.id = n])
       \/ /\ a # Unset
          /\ Launch(c, [Resting EXCEPT !.op = "start", !.step = "read", !.at = "index",
                                       !.attempt = a, !.kind = "broadcast_started",
                                       !.id = n])
       \/ Launch(c, [Resting EXCEPT !.op = "outcome", !.step = "read", !.at = "index",
                                    !.attempt = a, !.kind = r, !.id = n])
    BY <1>1, Zenon DEF CommandEvent
  <2> HIDE DEF n
  <2> DEFINE x == [Resting EXCEPT !.op = "mark", !.step = "read", !.at = "timeline",
                                  !.kind = "note", !.id = n]
             y == [Resting EXCEPT !.op = "start", !.step = "read", !.at = "index",
                                  !.attempt = a, !.kind = "broadcast_started",
                                  !.id = n]
             z == [Resting EXCEPT !.op = "outcome", !.step = "read", !.at = "index",
                                  !.attempt = a, !.kind = r, !.id = n]
  <2>3. /\ x \in Cmds /\ x.op = "mark" /\ x.step = "read" /\ x.at = "timeline"
        /\ x.kind = "note" /\ x.buffer = <<>>
    BY <2>0, RestingIsCmd, Zenon DEF Cmds, Kinds, File
  <2>4. /\ y \in Cmds /\ y.op = "start" /\ y.step = "read" /\ y.at = "index" /\ y.attempt = a
        /\ y.kind = "broadcast_started" /\ y.buffer = <<>>
    BY <2>0, RestingIsCmd, Zenon DEF Cmds, Kinds, File
  <2>5. /\ z \in Cmds /\ z.op = "outcome" /\ z.step = "read" /\ z.at = "index"
        /\ z.kind = r /\ z.buffer = <<>>
    BY <2>0, RestingIsCmd, Zenon DEF Cmds, Kinds, File
  <2>6. Launch(c, x) \/ (a # Unset /\ Launch(c, y)) \/ Launch(c, z)  BY <2>2
  <2> HIDE DEF x, y, z
  <2>7. First(x) /\ (a # Unset => First(y)) /\ First(z)
    BY <2>3, <2>4, <2>5 DEF First, Telling
  <2> QED  BY <2>1, <2>6, <2>7, LaunchStep
<1>2. CASE CommandResolve(c)
  <2>1. UNCHANGED <<file, erased, harmed>> /\ events' \in Nat /\ crashes' \in Nat /\ inits' \in Nat
    BY <1>0, <1>2 DEF CommandResolve
  <2>2. PICK a \in Id \cup {Unset} :
          Launch(c, [Resting EXCEPT !.op = "resolve", !.step = "read", !.at = "index",
                                    !.attempt = a])
    BY <1>2 DEF CommandResolve
  <2> DEFINE x == [Resting EXCEPT !.op = "resolve", !.step = "read", !.at = "index",
                                  !.attempt = a]
  <2>3. /\ x \in Cmds /\ x.op = "resolve" /\ x.step = "read" /\ x.at = "index"
        /\ x.id = 0 /\ x.buffer = <<>>
    BY RestingIsCmd DEF Cmds, File
  <2>4. Launch(c, x)  BY <2>2
  <2> HIDE DEF x
  <2>5. First(x)  BY <2>3 DEF First
  <2> QED  BY <2>1, <2>4, <2>5, LaunchStep
<1>3. CASE CommandInit(c)
  <2>0. UNCHANGED <<file, erased, harmed, events, crashes>> /\ inits' = inits + 1
    BY <1>3, Zenon DEF CommandInit
  <2>1. UNCHANGED <<file, erased, harmed>> /\ events' \in Nat /\ crashes' \in Nat /\ inits' \in Nat
    BY <1>0, <2>0
  <2>2. PICK force \in BOOLEAN :
          Launch(c, [Resting EXCEPT !.op = "init", !.step = "check", !.force = force])
    BY <1>3 DEF CommandInit
  <2> DEFINE x == [Resting EXCEPT !.op = "init", !.step = "check", !.force = force]
  <2>3. /\ x \in Cmds /\ x.op = "init" /\ x.step = "check" /\ x.at = "manifest"
        /\ x.id = 0 /\ x.buffer = <<>>
    BY RestingIsCmd DEF Cmds, File
  <2>4. Launch(c, x)  BY <2>2
  <2> HIDE DEF x
  <2>5. First(x)  BY <2>3 DEF First
  <2> QED  BY <2>1, <2>4, <2>5, LaunchStep
<1> QED  BY <1>1, <1>2, <1>3

(* A command that ends.                                                     *)
LEMMA ReturnStep ==
  ASSUME IInv, NEW c \in Command, Return(c),
         events' \in Nat, crashes' \in Nat, inits' \in Nat
  PROVE  Framed(c) /\ cmd'[c].step = "idle" /\ cmd'[c].op = "none" /\ cmd'[c].at = "manifest"
BY FinishCmd DEF Framed

(* Reading a file: the command ends, or has what it will write.             *)
LEMMA ReadIndexStep ==
  ASSUME IInv, NEW c \in Command, ReadIndex(c), ~Return(c)
  PROVE  /\ Framed(c)
         /\ cmd'[c].op = cmd[c].op /\ cmd'[c].step = "cut" /\ cmd'[c].at = "index"
         /\ cmd'[c].kind = cmd[c].kind
         /\ OneOpenRow(Loaded("index")) => OneOpenRow(cmd'[c].buffer)
         /\ Grown(Loaded("index"), cmd'[c].buffer)
         /\ cmd[c].op \in {"start", "outcome"} =>
              Shown(cmd'[c].buffer, cmd'[c].attempt, cmd[c].kind)
<1>1. PICK rows \in Seq(Rows), a \in Id \cup {Unset} :
        /\ WriteBack(c, rows, a)
        /\ cmd[c].op = "start" => a \in Id
        /\ OneOpenRow(Loaded("index")) => OneOpenRow(rows)
        /\ Grown(Loaded("index"), rows)
        /\ cmd[c].op \in {"start", "outcome"} => Shown(rows, a, cmd[c].kind)
  BY RowsWritten
<1>2. cmd[c].step = "read" /\ cmd[c].at = "index"  BY DEF ReadIndex
<1>3. /\ cmd' \in [Command -> Cmds]
      /\ cmd'[c].op = cmd[c].op /\ cmd'[c].step = "cut" /\ cmd'[c].at = "index"
      /\ cmd'[c].buffer = rows /\ cmd'[c].attempt = a /\ cmd'[c].kind = cmd[c].kind
      /\ \A d \in Command : d # c => cmd'[d] = cmd[d]
      /\ \A d \in Command : CmdOK(d)'
  BY <1>1, <1>2, WriteBackCmd
<1>4. events' \in Nat /\ crashes' \in Nat /\ inits' \in Nat
  BY DEF ReadIndex, IInv, TypeOK
<1> QED  BY <1>1, <1>3, <1>4 DEF Framed

LEMMA ReadTimelineStep ==
  ASSUME IInv, NEW c \in Command, ReadTimeline(c)
  PROVE  /\ Framed(c)
         /\ cmd'[c].op = cmd[c].op /\ cmd'[c].step = "cut" /\ cmd'[c].at = cmd[c].at
         /\ cmd'[c].attempt = cmd[c].attempt /\ cmd'[c].kind = cmd[c].kind
         /\ cmd'[c].id = cmd[c].id
         /\ cmd'[c].buffer = Append(Loaded(cmd[c].at), EventOf(c))
<1> DEFINE b == Append(Loaded(cmd[c].at), EventOf(c))
           x == [cmd[c] EXCEPT !.step = "cut", !.buffer = b]
<1>1. cmd \in [Command -> Cmds] /\ cmd[c] \in Cmds /\ CmdOK(c)  BY DEF IInv, TypeOK
<1>2. cmd[c].step = "read" /\ cmd[c].at \in Timeline  BY DEF ReadTimeline
<1>3. cmd[c].at \in File /\ cmd[c].at # "index"  BY <1>2 DEF Timeline, File
<1>4. EventOf(c) \in Events  BY <1>1 DEF EventOf, Events, Cmds
<1>5. Loaded(cmd[c].at) \in Seq(Events)  BY <1>3, LoadedIsContents DEF Contents
<1>6. b \in Seq(Events) /\ b \in Contents(cmd[c].at)  BY <1>3, <1>4, <1>5 DEF Contents
<1>7. cmd' = [cmd EXCEPT ![c].step = "cut", ![c].buffer = b]  BY DEF ReadTimeline
<1> HIDE DEF b
<1>8. /\ x \in Cmds
      /\ x.op = cmd[c].op /\ x.step = "cut" /\ x.at = cmd[c].at /\ x.buffer = b
      /\ x.attempt = cmd[c].attempt /\ x.kind = cmd[c].kind /\ x.id = cmd[c].id
  BY <1>1, <1>6 DEF Cmds
<1>9. cmd' = [cmd EXCEPT ![c] = x]  BY <1>1, <1>7
<1> HIDE DEF x
<1>10. x.op # "resolve" /\ x.op # "init"  BY <1>1, <1>2, <1>3, <1>8 DEF CmdOK
<1>11. /\ cmd' \in [Command -> Cmds] /\ cmd'[c] = x
       /\ \A d \in Command : d # c => cmd'[d] = cmd[d]
       /\ \A d \in Command : CmdOK(d)'
  BY <1>2, <1>3, <1>6, <1>8, <1>9, <1>10, CutCmd
<1>12. events' \in Nat /\ crashes' \in Nat /\ inits' \in Nat
  BY DEF ReadTimeline, IInv, TypeOK
<1> QED  BY <1>8, <1>11, <1>12 DEF Framed, b

LEMMA FileStep ==
  ASSUME IInv, NEW f \in File, NEW x \in Files, x.data \in Contents(f),
         file' = [file EXCEPT ![f] = x]
  PROVE  /\ file' \in [File -> Files] /\ file'[f] = x
         /\ \A g \in File : g # f => file'[g] = file[g]
         /\ \A g \in File : DataOK(g)'
<1>1. file \in [File -> Files] /\ \A g \in File : file[g].data \in Contents(g)
  BY DEF IInv, TypeOK, DataOK
<1>2. /\ file' \in [File -> Files] /\ file'[f] = x
      /\ \A g \in File : g # f => file'[g] = file[g]
  BY <1>1
<1>3. \A g \in File : file'[g].data \in Contents(g)  BY <1>1, <1>2
<1> QED  BY <1>2, <1>3 DEF DataOK

(* What a command is about to write fits the file it is at.                 *)
LEMMA CutOrWhole ==
  ASSUME IInv, NEW c \in Command
  PROVE  /\ Cut \in Files /\ Cut.data \in Contents(cmd[c].at)
         /\ Cut.data = <<>> /\ Cut.state = "cut"
         /\ Whole(cmd[c].buffer) \in Files
         /\ Whole(cmd[c].buffer).data \in Contents(cmd[c].at)
         /\ Whole(cmd[c].buffer).data = cmd[c].buffer
         /\ Whole(cmd[c].buffer).state = "whole"
<1>1. cmd[c].buffer \in Contents(cmd[c].at) /\ cmd[c].buffer \in Seq(Rows) \cup Seq(Events)
  BY DEF IInv, CmdOK, TypeOK, Cmds
<1> QED  BY <1>1, EmptyIsContents DEF Cut, Whole, Files

LEMMA CheckStep ==
  ASSUME IInv, NEW c \in Command, CheckPackage(c), ~Return(c)
  PROVE  /\ Framed(c) /\ acked' = acked /\ erased' = acked
         /\ cmd'[c].op = "init" /\ cmd'[c].step = "cut" /\ cmd'[c].at = "manifest"
<1> DEFINE x == [cmd[c] EXCEPT !.step = "cut", !.at = "manifest"]
<1>1. cmd \in [Command -> Cmds] /\ cmd[c] \in Cmds /\ CmdOK(c)  BY DEF IInv, TypeOK
<1>2. cmd[c].step = "check"  BY DEF CheckPackage
<1>3. cmd[c].op = "init" /\ cmd[c].buffer = <<>>  BY <1>1, <1>2 DEF CmdOK
<1>4. /\ x \in Cmds
      /\ x.op = cmd[c].op /\ x.step = "cut" /\ x.at = "manifest" /\ x.buffer = <<>>
      /\ x.attempt = cmd[c].attempt /\ x.kind = cmd[c].kind /\ x.id = cmd[c].id
  BY <1>1, <1>3 DEF Cmds, File
<1>5. /\ cmd' = [cmd EXCEPT ![c].step = "cut", ![c].at = "manifest"]
      /\ acked' = acked /\ erased' = acked
  BY DEF CheckPackage
<1>6. cmd' = [cmd EXCEPT ![c] = x]  BY <1>1, <1>5
<1> HIDE DEF x
<1>7. x.buffer \in Contents(x.at)  BY <1>4, EmptyIsContents
<1>8. /\ cmd' \in [Command -> Cmds] /\ cmd'[c] = x
      /\ \A d \in Command : d # c => cmd'[d] = cmd[d]
      /\ \A d \in Command : CmdOK(d)'
  BY <1>2, <1>3, <1>4, <1>6, <1>7, CutCmd DEF Timeline
<1>9. events' \in Nat /\ crashes' \in Nat /\ inits' \in Nat
  BY DEF CheckPackage, IInv, TypeOK
<1> QED  BY <1>3, <1>4, <1>5, <1>8, <1>9 DEF Framed

LEMMA TruncateStep ==
  ASSUME IInv, NEW c \in Command, Truncate(c), ~(Return(c) /\ UNCHANGED file)
  PROVE  /\ Framed(c) /\ file' = [file EXCEPT ![cmd[c].at] = Cut]
         /\ cmd'[c].op = cmd[c].op /\ cmd'[c].step = "fill" /\ cmd'[c].at = cmd[c].at
         /\ cmd'[c].attempt = cmd[c].attempt /\ cmd'[c].kind = cmd[c].kind
         /\ cmd'[c].id = cmd[c].id /\ cmd'[c].buffer = cmd[c].buffer
<1> DEFINE x == [cmd[c] EXCEPT !.step = "fill"]
<1>1. cmd \in [Command -> Cmds] /\ cmd[c] \in Cmds /\ CmdOK(c)  BY DEF IInv, TypeOK
<1>2. cmd[c].step = "cut"  BY DEF Truncate
<1>3. /\ x \in Cmds
      /\ x.op = cmd[c].op /\ x.step = "fill" /\ x.at = cmd[c].at /\ x.buffer = cmd[c].buffer
      /\ x.attempt = cmd[c].attempt /\ x.kind = cmd[c].kind /\ x.id = cmd[c].id
  BY <1>1 DEF Cmds
<1>4. /\ file' = [file EXCEPT ![cmd[c].at] = Cut]
      /\ cmd' = [cmd EXCEPT ![c].step = "fill"]
  BY DEF Truncate
<1>5. cmd' = [cmd EXCEPT ![c] = x]  BY <1>1, <1>4
<1> HIDE DEF x
<1>6. /\ x.buffer \in Contents(x.at) /\ (x.at = "index" => cmd[c].op # "init")
      /\ cmd[c].op = "init" => x.buffer = <<>>
      /\ x.at \in Timeline => x.op # "resolve"
  BY <1>1, <1>3 DEF CmdOK, Timeline
<1>7. /\ cmd' \in [Command -> Cmds] /\ cmd'[c] = x
      /\ \A d \in Command : d # c => cmd'[d] = cmd[d]
      /\ \A d \in Command : CmdOK(d)'
  BY <1>2, <1>3, <1>5, <1>6, CutCmd
<1>8. events' \in Nat /\ crashes' \in Nat /\ inits' \in Nat
  BY DEF Truncate, IInv, TypeOK
<1> QED  BY <1>3, <1>4, <1>7, <1>8 DEF Framed

(* Where a command turns to when it has written a file.                     *)
LEMMA NextFile ==
  ASSUME IInv, NEW c \in Command, Running(c), cmd[c].step # "check"
  PROVE  LET next == After(cmd[c].op, cmd[c].at) IN
         \/ next = "timeline" /\ cmd[c].at = "manifest" /\ cmd[c].op = "init"
         \/ next = "timeline" /\ cmd[c].at = "index" /\ cmd[c].op \in {"start", "outcome"}
         \/ next = "markers" /\ cmd[c].at = "timeline" /\ cmd[c].op # "resolve"
         \/ next = "end" /\ cmd[c].at = "index" /\ cmd[c].op = "resolve"
         \/ next = "end" /\ cmd[c].at = "markers"
<1>1. cmd[c] \in Cmds /\ CmdOK(c) /\ cmd[c].step # "idle"
  BY DEF IInv, TypeOK, Running
<1>2. cmd[c].op \in {"mark", "start", "outcome", "resolve", "init"} /\ cmd[c].at \in File
  BY <1>1 DEF Cmds, CmdOK
<1>3. /\ cmd[c].at = "manifest" => cmd[c].op = "init"
      /\ cmd[c].at = "index" => cmd[c].op \in {"start", "outcome", "resolve"}
      /\ cmd[c].at = "timeline" => cmd[c].op # "resolve"
  BY <1>1, <1>2 DEF CmdOK, Timeline
<1> QED  BY <1>2, <1>3 DEF After, File

LEMMA FillStep ==
  ASSUME IInv, NEW c \in Command, Fill(c), After(cmd[c].op, cmd[c].at) # "end"
  PROVE  /\ Framed(c) /\ acked' = acked /\ erased' = erased
         /\ cmd'[c].op = cmd[c].op /\ cmd'[c].at = After(cmd[c].op, cmd[c].at)
         /\ cmd'[c].step = IF cmd[c].op = "init" THEN "cut" ELSE "read"
         /\ cmd'[c].attempt = cmd[c].attempt /\ cmd'[c].kind = cmd[c].kind
         /\ cmd'[c].id = cmd[c].id /\ cmd'[c].buffer = <<>>
<1> DEFINE next == After(cmd[c].op, cmd[c].at)
           st == IF cmd[c].op = "init" THEN "cut" ELSE "read"
           x == [cmd[c] EXCEPT !.at = next, !.buffer = <<>>, !.step = st]
<1>1. cmd \in [Command -> Cmds] /\ cmd[c] \in Cmds /\ CmdOK(c)  BY DEF IInv, TypeOK
<1>2. cmd[c].step = "fill" /\ Running(c)  BY DEF Fill, Running
<1>3. next \in Timeline /\ cmd[c].op # "resolve"  BY <1>2, NextFile DEF Timeline
<1>4. /\ acked' = acked /\ erased' = erased
      /\ cmd' = [cmd EXCEPT ![c].at = next, ![c].buffer = <<>>, ![c].step = st]
  BY DEF Fill
<1>5. st \in {"read", "cut"} /\ (st = "read" <=> cmd[c].op # "init")  OBVIOUS
<1> HIDE DEF st, next
<1>6. /\ x \in Cmds
      /\ x.op = cmd[c].op /\ x.step = st /\ x.at = next /\ x.buffer = <<>>
      /\ x.attempt = cmd[c].attempt /\ x.kind = cmd[c].kind /\ x.id = cmd[c].id
  BY <1>1, <1>3, <1>5, EmptyIsContents DEF Cmds, Timeline, File
<1>7. cmd' = [cmd EXCEPT ![c] = x]  BY <1>1, <1>4
<1> HIDE DEF x
<1>8. x.buffer \in Contents(x.at) /\ x.at # "index"
  BY <1>3, <1>6, EmptyIsContents DEF Timeline
<1>9. /\ cmd' \in [Command -> Cmds] /\ cmd'[c] = x
      /\ \A d \in Command : d # c => cmd'[d] = cmd[d]
      /\ \A d \in Command : CmdOK(d)'
  BY <1>2, <1>3, <1>5, <1>6, <1>7, <1>8, CutCmd
<1>10. events' \in Nat /\ crashes' \in Nat /\ inits' \in Nat
  BY DEF Fill, IInv, TypeOK
<1> QED  BY <1>4, <1>6, <1>9, <1>10 DEF Framed, st, next

-----------------------------------------------------------------------------
(* One open row.                                                            *)

LEMMA NoRowsNoneOpen == OneOpenRow(<<>>)
BY DEF OneOpenRow, OpenIn

LEMMA OneOpenSoFar ==
  ASSUME IInv
  PROVE  /\ OneOpenRow(file["index"].data)
         /\ \A c \in Command : cmd[c].at = "index" => OneOpenRow(cmd[c].buffer)
BY DEF IInv, OneOpenInIndex, OneOpenRow

LEMMA Keeps ==
  ASSUME IInv, NEW c \in Command, Framed(c),
         file' \in [File -> Files], \A g \in File : DataOK(g)',
         OneOpenRow(file'["index"].data),
         cmd'[c].at = "index" => OneOpenRow(cmd'[c].buffer),
         acked' \subseteq Events, erased' \subseteq Events, harmed' \subseteq File,
         crowded' \in BOOLEAN
  PROVE  IInv'
<1>1. TypeOK'  BY DEF Framed, TypeOK
<1>2. \A d \in Command : cmd'[d].at = "index" => OneOpenRow(cmd'[d].buffer)
  BY OneOpenSoFar DEF Framed
<1>3. OneOpenInIndex'  BY <1>2 DEF OneOpenInIndex, OneOpenRow
<1> QED  BY <1>1, <1>3 DEF IInv, Framed

(* A step that leaves the files alone.                                      *)
LEMMA KeepsFiles ==
  ASSUME IInv, NEW c \in Command, Framed(c), file' = file,
         cmd'[c].at = "index" => OneOpenRow(cmd'[c].buffer),
         acked' \subseteq Events, erased' \subseteq Events, harmed' \subseteq File,
         crowded' \in BOOLEAN
  PROVE  IInv'
<1>1. file' \in [File -> Files] /\ \A g \in File : DataOK(g)'
  BY DEF IInv, TypeOK, DataOK
<1>2. OneOpenRow(file'["index"].data)  BY OneOpenSoFar
<1> QED  BY <1>1, <1>2, Keeps

(* A step that writes the file at hand: nothing, or what was prepared.      *)
LEMMA KeepsWritten ==
  ASSUME IInv, NEW c \in Command, Framed(c),
         NEW x \in {Cut, Whole(cmd[c].buffer)},
         file' = [file EXCEPT ![cmd[c].at] = x],
         cmd'[c].at = "index" => OneOpenRow(cmd'[c].buffer),
         acked' \subseteq Events, UNCHANGED <<erased, harmed, crowded>>
  PROVE  IInv'
<1>1. cmd[c].at \in File  BY DEF IInv, TypeOK, Cmds
<1>2. x \in Files /\ x.data \in Contents(cmd[c].at) /\ x.data \in {<<>>, cmd[c].buffer}
  BY CutOrWhole
<1>3. /\ file' \in [File -> Files] /\ file'[cmd[c].at] = x
      /\ \A g \in File : g # cmd[c].at => file'[g] = file[g]
      /\ \A g \in File : DataOK(g)'
  BY <1>1, <1>2, FileStep
<1>4. OneOpenRow(file'["index"].data)
  <2>1. CASE cmd[c].at = "index"
    BY <1>2, <1>3, <2>1, OneOpenSoFar, NoRowsNoneOpen
  <2>2. CASE cmd[c].at # "index"
    BY <1>3, <2>2, OneOpenSoFar DEF File
  <2> QED  BY <2>1, <2>2
<1>5. erased' \subseteq Events /\ harmed' \subseteq File /\ crowded' \in BOOLEAN
  BY DEF IInv, TypeOK
<1> QED  BY <1>3, <1>4, <1>5, Keeps

LEMMA StepHolds ==
  ASSUME IInv, [PackageNext]_packageVars
  PROVE  IInv'
<1>0. /\ events \in Nat /\ crashes \in Nat /\ inits \in Nat
      /\ acked \subseteq Events /\ erased \subseteq Events /\ harmed \subseteq File
      /\ crowded \in BOOLEAN
  BY DEF IInv, TypeOK
<1>1. CASE UNCHANGED packageVars
  BY <1>1 DEF IInv, packageVars, TypeOK, DataOK, CmdOK, OneOpenInIndex, OpenIn
<1>2. ASSUME NEW c \in Command, CommandEvent(c) \/ CommandResolve(c) \/ CommandInit(c)
      PROVE  IInv'
  <2>1. Begun(c) /\ Framed(c)  BY <1>2, CommandsBegin
  <2>2. file' = file /\ erased' = erased /\ harmed' = harmed /\ cmd'[c].buffer = <<>>
    BY <2>1 DEF Begun, First
  <2>3. crowded' \in BOOLEAN /\ acked' \in {acked, {}}  BY <2>1 DEF Begun
  <2> QED  BY <1>0, <2>1, <2>2, <2>3, NoRowsNoneOpen, KeepsFiles
<1>3. ASSUME NEW c \in Command, ReadIndex(c)
      PROVE  IInv'
  <2>1. UNCHANGED <<file, acked, erased, harmed, crowded, events, crashes, inits>>
    BY <1>3 DEF ReadIndex
  <2>2. Framed(c) /\ (cmd'[c].at = "index" => OneOpenRow(cmd'[c].buffer))
    <3>1. CASE Return(c)  BY <1>0, <2>1, <3>1, ReturnStep
    <3>2. CASE ~Return(c)  BY <1>3, <3>2, ReadIndexStep, OneOpenSoFar DEF Loaded
    <3> QED  BY <3>1, <3>2
  <2> QED  BY <1>0, <2>1, <2>2, KeepsFiles
<1>4. ASSUME NEW c \in Command, ReadTimeline(c)
      PROVE  IInv'
  <2>1. /\ UNCHANGED <<file, acked, erased, harmed, crowded>> /\ cmd[c].at \in Timeline
    BY <1>4 DEF ReadTimeline
  <2>2. Framed(c) /\ cmd'[c].at = cmd[c].at  BY <1>4, ReadTimelineStep
  <2>3. cmd'[c].at # "index"  BY <2>1, <2>2 DEF Timeline
  <2> QED  BY <1>0, <2>1, <2>2, <2>3, KeepsFiles
<1>5. ASSUME NEW c \in Command, CheckPackage(c)
      PROVE  IInv'
  <2>1. UNCHANGED <<file, acked, harmed, crowded, events, crashes, inits>>
        /\ erased' \in {erased, acked}
    BY <1>5 DEF CheckPackage
  <2>2. Framed(c) /\ cmd'[c].at # "index"
    <3>1. CASE Return(c)  BY <1>0, <2>1, <3>1, ReturnStep
    <3>2. CASE ~Return(c)  BY <1>5, <3>2, CheckStep
    <3> QED  BY <3>1, <3>2
  <2> QED  BY <1>0, <2>1, <2>2, KeepsFiles
<1>6. ASSUME NEW c \in Command, Truncate(c)
      PROVE  IInv'
  <2>1. UNCHANGED <<acked, erased, harmed, crowded, events, crashes, inits>>
    BY <1>6 DEF Truncate
  <2>2. CASE Return(c) /\ UNCHANGED file
    <3>1. Framed(c) /\ cmd'[c].at # "index"  BY <1>0, <2>1, <2>2, ReturnStep
    <3> QED  BY <1>0, <2>1, <2>2, <3>1, KeepsFiles
  <2>3. CASE ~(Return(c) /\ UNCHANGED file)
    <3>1. /\ Framed(c) /\ file' = [file EXCEPT ![cmd[c].at] = Cut]
          /\ cmd'[c].at = cmd[c].at /\ cmd'[c].buffer = cmd[c].buffer
      BY <1>6, <2>3, TruncateStep
    <3> QED  BY <1>0, <2>1, <3>1, OneOpenSoFar, KeepsWritten
  <2> QED  BY <2>2, <2>3
<1>7. ASSUME NEW c \in Command, Fill(c)
      PROVE  IInv'
  <2>1. /\ UNCHANGED <<erased, harmed, crowded, events, crashes, inits>>
        /\ file' = [file EXCEPT ![cmd[c].at] = Whole(cmd[c].buffer)]
    BY <1>7 DEF Fill
  <2>2. Framed(c) /\ (cmd'[c].at = "index" => OneOpenRow(cmd'[c].buffer)) /\ acked' \subseteq Events
    <3>1. CASE After(cmd[c].op, cmd[c].at) = "end"
      <4>1. /\ Return(c)
            /\ acked' = acked \cup {e \in {EventOf(c)} : cmd[c].id > 0 /\ ~crowded}
        BY <1>7, <3>1 DEF Fill
      <4>2. EventOf(c) \in Events  BY DEF EventOf, Events, IInv, TypeOK, Cmds
      <4> QED  BY <1>0, <2>1, <4>1, <4>2, ReturnStep
    <3>2. CASE After(cmd[c].op, cmd[c].at) # "end"
      BY <1>0, <1>7, <3>2, FillStep, NoRowsNoneOpen
    <3> QED  BY <3>1, <3>2
  <2> QED  BY <2>1, <2>2, KeepsWritten
<1>8. ASSUME NEW c \in Command, Crash(c)
      PROVE  IInv'
  <2>1. /\ UNCHANGED <<file, acked, erased, crowded, events, inits>> /\ Return(c)
        /\ crashes' = crashes + 1 /\ harmed' \subseteq File
    BY <1>0, <1>8 DEF Crash, Timeline, File
  <2>2. Framed(c) /\ cmd'[c].at # "index"  BY <1>0, <2>1, ReturnStep
  <2> QED  BY <1>0, <2>1, <2>2, KeepsFiles
<1> QED  BY <1>1, <1>2, <1>3, <1>4, <1>5, <1>6, <1>7, <1>8 DEF PackageNext

LEMMA InitHolds == PackageInit => IInv
<1> SUFFICES ASSUME PackageInit PROVE IInv
  OBVIOUS
<1> USE DEF PackageInit
<1>1. Absent \in Files /\ Absent.data = <<>>  BY DEF Absent, Files
<1>2. TypeOK  BY <1>1, RestingIsCmd DEF TypeOK
<1>3. \A f \in File : DataOK(f)  BY <1>1, EmptyIsContents DEF DataOK
<1>4. \A c \in Command : CmdOK(c)
  <2>1. Resting.buffer \in Contents(Resting.at) /\ ~(Resting.id > 0)
    BY RestingIsCmd, EmptyIsContents
  <2> QED  BY <2>1, RestingIsCmd DEF CmdOK
<1>5. OneOpenInIndex
  <2>1. file["index"].data = <<>>  BY <1>1 DEF File
  <2> QED  BY <2>1, RestingIsCmd DEF OneOpenInIndex, OpenIn
<1> QED  BY <1>2, <1>3, <1>4, <1>5 DEF IInv

LEMMA IInvHolds == PackageSpec => []IInv
<1>1. IInv /\ [PackageNext]_packageVars => IInv'  BY StepHolds
<1> QED  BY InitHolds, <1>1, PTL DEF PackageSpec

(* The index has rows and the timelines events, whatever was cut, killed or *)
(* run at the same time, and each command carries what it will write where. *)
THEOREM TypeCorrect == PackageSpec => []TypeOK
<1>1. IInv => TypeOK  BY DEF IInv
<1> QED  BY <1>1, IInvHolds, PTL

(* However commands overlap and wherever they are killed, the index never   *)
(* holds two open attempts (vocera_wlc_session.py 700-731).                 *)
THEOREM OneOpenRowInIndex == PackageSpec => []OneOpenInIndex
<1>1. IInv => OneOpenInIndex  BY DEF IInv
<1> QED  BY <1>1, IInvHolds, PTL

-----------------------------------------------------------------------------
(* What was acknowledged stays.                                             *)

(* A file that holds what an event says of it: the timelines hold the event, *)
(* the index the row of its attempt.                                        *)
Holds(f, data, e) ==
  /\ f = "index" /\ e.kind # "note" => Shown(data, e.attempt, e.kind)
  /\ f \in Timeline => e \in ToSet(data)

Filled(f) == \E c \in Command : cmd[c].step = "fill" /\ cmd[c].at = f

\* The events a file has to show: the timelines those no forced init erased.
Due(f) == IF f \in Timeline THEN acked \ erased ELSE acked

\* Whole files that no crash has harmed hold all that was acknowledged.
Kept == \A f \in File \ harmed : ~Filled(f) => \A e \in Due(f) : Holds(f, file[f].data, e)

\* The files a command has written by the time it is at f.
Done(f) == CASE f = "timeline" -> {"index"}
             [] f = "markers"  -> {"index", "timeline"}
             [] OTHER          -> {}

\* What a command that is alone has achieved.
Progress(c) ==
  /\ cmd[c].step = "fill" => file[cmd[c].at].state = "cut"
  /\ cmd[c].step \in {"cut", "fill"} =>
       /\ cmd[c].op = "init" => acked = erased
       /\ cmd[c].at \notin harmed => \A e \in Due(cmd[c].at) : Holds(cmd[c].at, cmd[c].buffer, e)
       /\ cmd[c].op \in Telling => Holds(cmd[c].at, cmd[c].buffer, EventOf(c))
  /\ cmd[c].op \in Telling =>
       \A f \in Done(cmd[c].at) \ harmed : Holds(f, file[f].data, EventOf(c))

Alone(c) == \A d \in Command : d # c => ~Running(d)

AInv ==
  /\ crowded => acked = {}
  /\ ~crowded => /\ \A c \in Command : Running(c) => Alone(c) /\ Progress(c)
                 /\ Kept

LEMMA HoldsGrown ==
  ASSUME NEW rows, NEW new, NEW e, Grown(rows, new), Holds("index", rows, e)
  PROVE  Holds("index", new, e)
<1>1. Shown(rows, e.attempt, e.kind) => Shown(new, e.attempt, e.kind)
  BY DEF Shown, Grown
<1> QED  BY <1>1 DEF Holds, Timeline

LEMMA HoldsAppended ==
  ASSUME NEW f \in Timeline, NEW data \in Seq(Events), NEW x \in Events
  PROVE  /\ Holds(f, Append(data, x), x)
         /\ \A e : Holds(f, data, e) => Holds(f, Append(data, x), e)
<1> DEFINE new == Append(data, x)
<1>1. /\ DOMAIN new = 1..(Len(data) + 1) /\ DOMAIN data = 1..Len(data) /\ Len(data) \in Nat
      /\ \A i \in DOMAIN data : new[i] = data[i]
      /\ new[Len(data) + 1] = x
  OBVIOUS
<1> HIDE DEF new
<1>2. f # "index"  BY DEF Timeline
<1>3. x \in ToSet(new)
  <2>1. Len(data) + 1 \in DOMAIN new  BY <1>1
  <2> QED  BY <1>1, <2>1 DEF ToSet
<1>4. ToSet(data) \subseteq ToSet(new)
  <2>1. DOMAIN data \subseteq DOMAIN new  BY <1>1
  <2> QED  BY <1>1, <2>1 DEF ToSet
<1> QED  BY <1>2, <1>3, <1>4 DEF Holds, new

(* The manifest holds nothing an event says.                                *)
LEMMA ManifestHolds == \A d, e : Holds("manifest", d, e)
BY DEF Holds, Timeline

LEMMA OnlyItFills ==
  ASSUME NEW c \in Command, Alone(c)
  PROVE  \A f : Filled(f) <=> cmd[c].step = "fill" /\ cmd[c].at = f
BY DEF Alone, Running, Filled

LEMMA OnlyItMoves ==
  ASSUME NEW c \in Command, Alone(c), Framed(c), ~crowded',
         cmd'[c].step # "idle" => Progress(c)', Kept'
  PROVE  AInv'
<1>1. \A d \in Command : d # c => cmd'[d] = cmd[d] /\ cmd[d].step = "idle"
  BY DEF Alone, Running, Framed
<1>2. ASSUME NEW d \in Command, Running(d)' PROVE Alone(d)' /\ Progress(d)'
  <2>1. d = c /\ cmd'[c].step # "idle"  BY <1>1, <1>2 DEF Running
  <2>2. Alone(c)'  BY <1>1 DEF Alone, Running
  <2> QED  BY <2>1, <2>2
<1> QED  BY <1>2 DEF AInv

LEMMA OnlyItFillsNow ==
  ASSUME NEW c \in Command, Alone(c), Framed(c)
  PROVE  \A f : Filled(f)' <=> cmd'[c].step = "fill" /\ cmd'[c].at = f
<1>1. \A d \in Command : d # c => cmd'[d] = cmd[d] /\ cmd[d].step = "idle"
  BY DEF Alone, Running, Framed
<1> QED  BY <1>1 DEF Filled

LEMMA BeginKeeps ==
  ASSUME IInv, AInv, NEW c \in Command, Begun(c), Framed(c)
  PROVE  AInv'
<1>1. CASE crowded'
  BY <1>1 DEF Begun, AInv
<1>2. CASE ~crowded'
  <2>1. ~crowded /\ Alone(c) /\ acked' = acked /\ file' = file /\ erased' = erased
        /\ harmed' = harmed /\ cmd[c].step = "idle"
    BY <1>2 DEF Begun, Alone, Running
  <2>2. /\ cmd'[c].step \in {"read", "check"}
        /\ cmd'[c].op = "mark" => cmd'[c].at = "timeline" /\ cmd'[c].kind = "note"
        /\ cmd'[c].op \in {"start", "outcome"} => cmd'[c].at = "index"
    BY DEF Begun, First
  <2>3. \A f : ~Filled(f) /\ ~Filled(f)'
    BY <2>1, <2>2, OnlyItFills, OnlyItFillsNow
  <2>4. Kept'  BY <2>1, <2>3 DEF Kept, AInv, Due
  <2>5. Progress(c)'
    <3>1. ASSUME cmd'[c].op = "mark" PROVE Holds("index", file'["index"].data, EventOf(c)')
      BY <2>2, <3>1 DEF Holds, EventOf, Timeline
    <3>2. cmd'[c].op \in Telling =>
            \A f \in Done(cmd'[c].at) : Holds(f, file'[f].data, EventOf(c)')
      BY <2>2, <3>1 DEF Telling, Done
    <3> QED  BY <2>2, <3>2 DEF Progress
  <2> QED  BY <1>2, <2>1, <2>4, <2>5, OnlyItMoves
<1> QED  BY <1>1, <1>2

(* A command that ends without having touched a file.                       *)
LEMMA ReturnKeeps ==
  ASSUME IInv, AInv, NEW c \in Command, Running(c), cmd[c].step # "fill",
         Framed(c), cmd'[c].step = "idle",
         UNCHANGED <<file, acked, erased, harmed, crowded>>
  PROVE  AInv'
<1>1. CASE crowded  BY <1>1 DEF AInv
<1>2. CASE ~crowded
  <2>1. Alone(c) /\ Kept  BY <1>2 DEF AInv
  <2>2. \A f : ~Filled(f)  BY <2>1, OnlyItFills
  <2>3. Kept'  BY <2>1, <2>2 DEF Kept, Due
  <2> QED  BY <1>2, <2>1, <2>3, OnlyItMoves
<1> QED  BY <1>1, <1>2

LEMMA ReadIndexKeeps ==
  ASSUME IInv, AInv, NEW c \in Command, ReadIndex(c)
  PROVE  AInv'
<1>1. /\ UNCHANGED <<file, acked, erased, harmed, crowded, events, crashes, inits>>
      /\ Running(c) /\ cmd[c].step = "read" /\ cmd[c].at = "index"
  BY DEF ReadIndex, Running
<1>2. CASE Return(c)
  <2>1. events' \in Nat /\ crashes' \in Nat /\ inits' \in Nat  BY <1>1 DEF IInv, TypeOK
  <2>2. Framed(c) /\ cmd'[c].step = "idle"  BY <1>2, <2>1, ReturnStep
  <2> QED  BY <1>1, <2>2, ReturnKeeps
<1>3. CASE crowded  BY <1>1, <1>3 DEF AInv
<1>4. CASE ~crowded /\ ~Return(c)
  <2>1. Alone(c) /\ Kept  BY <1>1, <1>4 DEF AInv
  <2>2. /\ Framed(c)
        /\ cmd'[c].op = cmd[c].op /\ cmd'[c].step = "cut" /\ cmd'[c].at = "index"
        /\ cmd'[c].kind = cmd[c].kind
        /\ Grown(Loaded("index"), cmd'[c].buffer)
        /\ cmd[c].op \in {"start", "outcome"} =>
             Shown(cmd'[c].buffer, cmd'[c].attempt, cmd[c].kind)
    BY <1>4, ReadIndexStep
  <2>3. \A f : ~Filled(f) /\ ~Filled(f)'
    BY <1>1, <2>1, <2>2, OnlyItFills, OnlyItFillsNow
  <2>4. Kept'  BY <1>1, <2>1, <2>3 DEF Kept, Due
  <2>5. cmd'[c].op # "init" /\ cmd'[c].op # "mark"
    BY <2>2 DEF Framed, CmdOK, Timeline
  <2>6. "index" \notin harmed' => \A e \in Due("index")' : Holds("index", cmd'[c].buffer, e)
    <3>1. ASSUME "index" \notin harmed', NEW e \in Due("index")'
          PROVE  Holds("index", file["index"].data, e)
      BY <1>1, <2>1, <2>3, <3>1 DEF Kept, File, Due
    <3> QED  BY <2>2, <3>1, HoldsGrown DEF Loaded
  <2>7. cmd'[c].op \in Telling => Holds("index", cmd'[c].buffer, EventOf(c)')
    BY <2>2, <2>5 DEF Telling, Holds, EventOf, Timeline
  <2>8. Done(cmd'[c].at) = {}  BY <2>2 DEF Done
  <2>9. Progress(c)'  BY <2>2, <2>5, <2>6, <2>7, <2>8 DEF Progress
  <2> QED  BY <1>1, <1>4, <2>1, <2>2, <2>4, <2>9, OnlyItMoves
<1> QED  BY <1>2, <1>3, <1>4

LEMMA ReadTimelineKeeps ==
  ASSUME IInv, AInv, NEW c \in Command, ReadTimeline(c)
  PROVE  AInv'
<1>1. /\ UNCHANGED <<file, acked, erased, harmed, crowded>>
      /\ Running(c) /\ cmd[c].step = "read" /\ cmd[c].at \in Timeline
  BY DEF ReadTimeline, Running
<1>2. CASE crowded  BY <1>1, <1>2 DEF AInv
<1>3. CASE ~crowded
  <2> DEFINE f == cmd[c].at
  <2>1. Alone(c) /\ Kept /\ Progress(c)  BY <1>1, <1>3 DEF AInv
  <2>2. /\ Framed(c)
        /\ cmd'[c].op = cmd[c].op /\ cmd'[c].step = "cut" /\ cmd'[c].at = f
        /\ cmd'[c].attempt = cmd[c].attempt /\ cmd'[c].kind = cmd[c].kind
        /\ cmd'[c].id = cmd[c].id
        /\ cmd'[c].buffer = Append(Loaded(f), EventOf(c))
    BY ReadTimelineStep
  <2>3. \A g : ~Filled(g) /\ ~Filled(g)'
    BY <1>1, <2>1, <2>2, OnlyItFills, OnlyItFillsNow
  <2>4. Kept'  BY <1>1, <2>1, <2>3 DEF Kept, Due
  <2>5. EventOf(c)' = EventOf(c) /\ EventOf(c) \in Events
    BY <2>2 DEF EventOf, Events, IInv, TypeOK, Cmds
  <2>6. f \in File /\ f # "index"  BY <1>1 DEF File, Timeline
  <2>7. Loaded(f) \in Seq(Events)  BY <2>6, LoadedIsContents DEF Contents
  <2>8. cmd'[c].op # "init"
    <3>1. CmdOK(c)  BY DEF IInv
    <3> QED  BY <1>1, <2>2, <3>1 DEF CmdOK
  <2>9. f \notin harmed' => \A e \in Due(f) : Holds(f, cmd'[c].buffer, e)
    <3>1. ASSUME f \notin harmed', NEW e \in Due(f) PROVE Holds(f, Loaded(f), e)
      BY <1>1, <2>1, <2>3, <2>6, <3>1 DEF Kept, Loaded, Due
    <3> QED  BY <1>1, <2>2, <2>5, <2>7, <3>1, HoldsAppended
  <2>10. Holds(f, cmd'[c].buffer, EventOf(c)')
    BY <1>1, <2>2, <2>5, <2>7, HoldsAppended
  <2>11. cmd'[c].op \in Telling =>
           \A g \in Done(f) \ harmed' : Holds(g, file'[g].data, EventOf(c)')
    BY <1>1, <2>1, <2>2, <2>5 DEF Progress
  <2>12. Progress(c)'
    <3> HIDE DEF f
    <3> QED  BY <2>2, <1>1, <2>8, <2>9, <2>10, <2>11 DEF Progress, Due
  <2> QED  BY <1>1, <1>3, <2>1, <2>2, <2>4, <2>12, OnlyItMoves
<1> QED  BY <1>2, <1>3

(* A check that ends its command leaves what was erased.                    *)
LEMMA CheckEnds ==
  ASSUME IInv, NEW c \in Command, CheckPackage(c), Return(c)
  PROVE  erased' = erased
<1>1. cmd \in [Command -> Cmds]  BY DEF IInv, TypeOK
<1>2. cmd'[c].step = "idle"  BY <1>1, RestingIsCmd DEF Return
<1>3. cmd' # [cmd EXCEPT ![c].step = "cut", ![c].at = "manifest"]  BY <1>1, <1>2 DEF Cmds
<1> QED  BY <1>3 DEF CheckPackage

LEMMA CheckKeeps ==
  ASSUME IInv, AInv, NEW c \in Command, CheckPackage(c)
  PROVE  AInv'
<1>1. /\ UNCHANGED <<file, acked, harmed, crowded, events, crashes, inits>>
      /\ Running(c) /\ cmd[c].step = "check" /\ (Return(c) => erased' = erased)
  BY CheckEnds DEF CheckPackage, Running
<1>2. CASE Return(c)
  <2>1. events' \in Nat /\ crashes' \in Nat /\ inits' \in Nat  BY <1>1 DEF IInv, TypeOK
  <2>2. Framed(c) /\ cmd'[c].step = "idle"  BY <1>2, <2>1, ReturnStep
  <2> QED  BY <1>1, <1>2, <2>2, ReturnKeeps
<1>3. CASE crowded  BY <1>1, <1>3 DEF AInv
<1>4. CASE ~crowded /\ ~Return(c)
  <2>1. Alone(c) /\ Kept  BY <1>1, <1>4 DEF AInv
  <2>2. /\ Framed(c) /\ acked' = acked /\ erased' = acked
        /\ cmd'[c].op = "init" /\ cmd'[c].step = "cut" /\ cmd'[c].at = "manifest"
    BY <1>4, CheckStep
  <2>3. \A f : ~Filled(f)  BY <1>1, <2>1, OnlyItFills
  <2>4. Kept'  BY <1>1, <2>1, <2>2, <2>3 DEF Kept, Due
  <2>5. Progress(c)'  BY <2>2, ManifestHolds DEF Progress, Telling
  <2> QED  BY <1>1, <1>4, <2>1, <2>2, <2>4, <2>5, OnlyItMoves
<1> QED  BY <1>2, <1>3, <1>4

(* No command has the file at hand among those it has written.              *)
LEMMA AtIsNotDone == \A f : f \notin Done(f)
BY DEF Done

LEMMA TruncateKeeps ==
  ASSUME IInv, AInv, NEW c \in Command, Truncate(c)
  PROVE  AInv'
<1>1. /\ UNCHANGED <<acked, erased, harmed, crowded, events, crashes, inits>>
      /\ Running(c) /\ cmd[c].step = "cut"
  BY DEF Truncate, Running
<1>2. CASE Return(c) /\ UNCHANGED file
  <2>1. events' \in Nat /\ crashes' \in Nat /\ inits' \in Nat  BY <1>1 DEF IInv, TypeOK
  <2>2. Framed(c) /\ cmd'[c].step = "idle"  BY <1>2, <2>1, ReturnStep
  <2> QED  BY <1>1, <1>2, <2>2, ReturnKeeps
<1>3. CASE crowded  BY <1>1, <1>3 DEF AInv
<1>4. CASE ~crowded /\ ~(Return(c) /\ UNCHANGED file)
  <2> DEFINE f == cmd[c].at
  <2>1. Alone(c) /\ Kept /\ Progress(c)  BY <1>1, <1>4 DEF AInv
  <2>2. /\ Framed(c) /\ file' = [file EXCEPT ![f] = Cut]
        /\ cmd'[c].op = cmd[c].op /\ cmd'[c].step = "fill" /\ cmd'[c].at = f
        /\ cmd'[c].attempt = cmd[c].attempt /\ cmd'[c].kind = cmd[c].kind
        /\ cmd'[c].id = cmd[c].id /\ cmd'[c].buffer = cmd[c].buffer
    BY <1>4, TruncateStep
  <2>3. f \in File  BY DEF IInv, TypeOK, Cmds
  <2>4. file'[f] = Cut /\ \A g \in File : g # f => file'[g] = file[g]
    BY <2>2, <2>3, CutOrWhole, FileStep
  <2>5. EventOf(c)' = EventOf(c)  BY <2>2 DEF EventOf
  <2>6. \A g : ~Filled(g) /\ (Filled(g)' <=> g = f)
    BY <1>1, <2>1, <2>2, OnlyItFills, OnlyItFillsNow
  <2>7. Kept'  BY <1>1, <2>1, <2>4, <2>6 DEF Kept, Due
  <2>8. file'[cmd'[c].at].state = "cut"  BY <2>2, <2>4, CutOrWhole
  <2>9. /\ cmd'[c].op = "init" => acked' = erased'
        /\ cmd'[c].at \notin harmed' => \A e \in Due(f) : Holds(cmd'[c].at, cmd'[c].buffer, e)
        /\ cmd'[c].op \in Telling => Holds(cmd'[c].at, cmd'[c].buffer, EventOf(c)')
    BY <1>1, <2>1, <2>2, <2>5 DEF Progress
  <2>10. ASSUME cmd'[c].op \in Telling, NEW g \in Done(cmd'[c].at) \ harmed'
         PROVE  Holds(g, file'[g].data, EventOf(c)')
    <3>1. g \in Done(f) \ harmed /\ cmd[c].op \in Telling  BY <1>1, <2>2, <2>10
    <3>2. g \in File /\ g # f
      <4>1. Done(f) \subseteq File  BY DEF Done, File
      <4> QED  BY <3>1, <4>1, AtIsNotDone
    <3>3. Holds(g, file[g].data, EventOf(c))  BY <2>1, <3>1 DEF Progress
    <3> QED  BY <2>4, <2>5, <3>2, <3>3
  <2>11. Progress(c)'  BY <1>1, <2>2, <2>8, <2>9, <2>10 DEF Progress, Due
  <2> QED  BY <1>1, <1>4, <2>1, <2>2, <2>7, <2>11, OnlyItMoves
<1> QED  BY <1>2, <1>3, <1>4

LEMMA CrashKeeps ==
  ASSUME IInv, AInv, NEW c \in Command, Crash(c)
  PROVE  AInv'
<1>1. /\ UNCHANGED <<file, acked, erased, crowded, events, inits>> /\ Return(c)
      /\ crashes' = crashes + 1 /\ Running(c)
      /\ harmed' = harmed \cup (IF cmd[c].op = "init" THEN Timeline
                                ELSE {cmd[c].at} \cap {f \in File : cmd[c].step = "fill"})
  BY DEF Crash
<1>2. CASE crowded  BY <1>1, <1>2 DEF AInv
<1>3. CASE ~crowded
  <2>1. Alone(c) /\ Kept  BY <1>1, <1>3 DEF AInv
  <2>2. Framed(c) /\ cmd'[c].step = "idle"
    <3>1. events' \in Nat /\ crashes' \in Nat /\ inits' \in Nat
      BY <1>1 DEF IInv, TypeOK
    <3> QED  BY <1>1, <3>1, ReturnStep
  <2>3. ASSUME NEW f \in File \ harmed', NEW e \in Due(f)'
        PROVE  Holds(f, file'[f].data, e)
    <3>1. CASE ~Filled(f)  BY <1>1, <2>1, <2>3, <3>1 DEF Kept, Due
    <3>2. CASE Filled(f)
      <4>1. cmd[c].step = "fill" /\ cmd[c].at = f  BY <2>1, <3>2, OnlyItFills
      <4>2. cmd[c].op = "init" /\ f \notin Timeline  BY <1>1, <2>3, <4>1
      <4>3. f # "index"
        <5>1. CmdOK(c)  BY DEF IInv
        <5> QED  BY <4>1, <4>2, <5>1 DEF CmdOK
      <4> QED  BY <4>2, <4>3, ManifestHolds DEF File, Timeline
    <3> QED  BY <3>1, <3>2
  <2>4. Kept'  BY <2>3 DEF Kept
  <2> QED  BY <1>1, <1>3, <2>1, <2>2, <2>4, OnlyItMoves
<1> QED  BY <1>2, <1>3

(* A file that has been filled: it holds what its buffer held, and a command *)
(* that told something by it has told it in all files before it too.        *)
LEMMA FilledHolds ==
  ASSUME IInv, AInv, NEW c \in Command, Fill(c), ~crowded
  PROVE  /\ \A f \in File \ harmed : \A e \in Due(f) : Holds(f, file'[f].data, e)
         /\ cmd[c].op \in Telling =>
              \A f \in (Done(cmd[c].at) \cup {cmd[c].at}) \ harmed :
                Holds(f, file'[f].data, EventOf(c))
<1> DEFINE f == cmd[c].at
<1>1. /\ Running(c) /\ cmd[c].step = "fill"
      /\ file' = [file EXCEPT ![f] = Whole(cmd[c].buffer)]
  BY DEF Fill, Running
<1>2. Alone(c) /\ Kept /\ Progress(c)  BY <1>1 DEF AInv
<1>3. f \in File  BY DEF IInv, TypeOK, Cmds
<1>4. /\ file'[f].data = cmd[c].buffer
      /\ \A g \in File : g # f => file'[g] = file[g]
  BY <1>1, <1>3, CutOrWhole, FileStep
<1>5. ASSUME NEW g \in File \ harmed, NEW e \in Due(g)
      PROVE  Holds(g, file'[g].data, e)
  <2>1. CASE g = f  BY <1>1, <1>2, <1>4, <2>1 DEF Progress
  <2>2. CASE g # f
    <3>1. ~Filled(g)  BY <1>2, <2>2, OnlyItFills
    <3> QED  BY <1>2, <1>4, <2>2, <3>1 DEF Kept
  <2> QED  BY <2>1, <2>2
<1>6. ASSUME cmd[c].op \in Telling, NEW g \in (Done(f) \cup {f}) \ harmed
      PROVE  Holds(g, file'[g].data, EventOf(c))
  <2>1. CASE g = f  BY <1>1, <1>2, <1>4, <1>6, <2>1 DEF Progress
  <2>2. CASE g # f
    <3>1. g \in File  BY <1>6, <2>2 DEF Done, File
    <3> QED  BY <1>2, <1>4, <1>6, <2>2, <3>1 DEF Progress
  <2> QED  BY <2>1, <2>2
<1> QED  BY <1>5, <1>6

LEMMA FillKeeps ==
  ASSUME IInv, AInv, NEW c \in Command, Fill(c)
  PROVE  AInv'
<1> DEFINE f == cmd[c].at
<1>1. /\ UNCHANGED <<erased, harmed, crowded, events, crashes, inits>>
      /\ Running(c) /\ cmd[c].step = "fill"
  BY DEF Fill, Running
<1>2. acked' \subseteq acked \cup {e \in {EventOf(c)} : cmd[c].id > 0 /\ ~crowded}
  BY DEF Fill
<1>3. CASE crowded  BY <1>1, <1>2, <1>3 DEF AInv
<1>4. CASE ~crowded /\ After(cmd[c].op, f) = "end"
  <2>1. Alone(c)  BY <1>1, <1>4 DEF AInv
  <2>2. Return(c)  BY <1>4 DEF Fill
  <2>3. Framed(c) /\ cmd'[c].step = "idle"
    <3>1. events' \in Nat /\ crashes' \in Nat /\ inits' \in Nat  BY <1>1 DEF IInv, TypeOK
    <3> QED  BY <2>2, <3>1, ReturnStep
  <2>4. ASSUME NEW g \in File \ harmed', NEW e \in Due(g)'
        PROVE  Holds(g, file'[g].data, e)
    <3>1. CASE e \in Due(g)  BY <1>1, <1>4, <2>4, <3>1, FilledHolds
    <3>2. CASE e = EventOf(c) /\ cmd[c].id > 0
      <4>1. cmd[c].op \in Telling
        <5>1. CmdOK(c)  BY DEF IInv
        <5> QED  BY <3>2, <5>1 DEF CmdOK
      <4>2. f = "markers"  BY <1>1, <1>4, <4>1, NextFile DEF Telling
      <4>3. g # "manifest" => g \in (Done(f) \cup {f}) \ harmed
        BY <1>1, <4>2 DEF Done, File
      <4> QED  BY <1>4, <3>2, <4>1, <4>3, FilledHolds, ManifestHolds
    <3> QED  BY <1>1, <1>2, <2>4, <3>1, <3>2 DEF Due
  <2>5. Kept'  BY <2>4 DEF Kept
  <2> QED  BY <1>1, <1>4, <2>1, <2>3, <2>5, OnlyItMoves
<1>5. CASE ~crowded /\ After(cmd[c].op, f) # "end"
  <2>1. Alone(c) /\ Progress(c)  BY <1>1, <1>5 DEF AInv
  <2>2. /\ Framed(c) /\ acked' = acked /\ erased' = erased
        /\ cmd'[c].op = cmd[c].op /\ cmd'[c].at = After(cmd[c].op, f)
        /\ cmd'[c].step = IF cmd[c].op = "init" THEN "cut" ELSE "read"
        /\ cmd'[c].attempt = cmd[c].attempt /\ cmd'[c].kind = cmd[c].kind
        /\ cmd'[c].id = cmd[c].id
    BY <1>5, FillStep
  <2>3. EventOf(c)' = EventOf(c)  BY <2>2 DEF EventOf
  <2>4. Kept'  BY <1>1, <1>5, <2>2, FilledHolds DEF Kept, Due
  <2>5. cmd'[c].op = "init" => acked' = erased'
    BY <1>1, <2>1, <2>2 DEF Progress
  <2>6. cmd'[c].step # "fill" /\ (cmd'[c].step = "cut" => cmd'[c].op = "init")
    BY <2>2
  <2>7. ASSUME cmd'[c].op \in Telling
        PROVE  Done(cmd'[c].at) \subseteq Done(f) \cup {f}
    <3>1. \/ cmd'[c].at = "timeline" /\ f = "index"
          \/ cmd'[c].at = "markers" /\ f = "timeline"
      BY <1>1, <1>5, <2>2, <2>7, NextFile DEF Telling
    <3> QED  BY <3>1 DEF Done
  <2>8. ASSUME cmd'[c].op \in Telling, NEW g \in Done(cmd'[c].at) \ harmed'
        PROVE  Holds(g, file'[g].data, EventOf(c)')
    <3>1. g \in (Done(f) \cup {f}) \ harmed /\ cmd[c].op \in Telling  BY <1>1, <2>2, <2>7, <2>8
    <3> QED  BY <1>5, <2>3, <3>1, FilledHolds
  <2>9. "init" \notin Telling  BY DEF Telling
  <2>10. Progress(c)'
    <3>1. cmd'[c].step = "cut" => cmd'[c].at \in Timeline /\ acked' \ erased' = {}
      BY <1>1, <1>5, <2>2, <2>5, <2>6, NextFile DEF Timeline
    <3>2. cmd'[c].step = "cut" => \A e : e \notin Due(cmd[c].at)'
      BY <3>1 DEF Due
    <3> QED  BY <2>5, <2>6, <2>8, <2>9, <3>2 DEF Progress
  <2> QED  BY <1>1, <1>5, <2>1, <2>2, <2>4, <2>10, OnlyItMoves
<1> QED  BY <1>3, <1>4, <1>5

LEMMA AInvStep ==
  ASSUME IInv, AInv, [PackageNext]_packageVars
  PROVE  AInv'
<1>1. CASE UNCHANGED packageVars
  BY <1>1 DEF AInv, packageVars, Alone, Running, Progress, Kept, Filled, EventOf, Due
<1>2. ASSUME NEW c \in Command, CommandEvent(c) \/ CommandResolve(c) \/ CommandInit(c)
      PROVE  AInv'
  BY <1>2, CommandsBegin, BeginKeeps
<1> QED  BY <1>1, <1>2, ReadIndexKeeps, ReadTimelineKeeps, CheckKeeps, TruncateKeeps,
            FillKeeps, CrashKeeps DEF PackageNext

LEMMA AInvInit == PackageInit => AInv
<1> SUFFICES ASSUME PackageInit PROVE AInv
  OBVIOUS
<1>1. acked = {} /\ \A c \in Command : ~Running(c)
  BY RestingIsCmd DEF PackageInit, Running
<1> QED  BY <1>1 DEF AInv, Kept, Due

LEMMA AInvTells ==
  ASSUME IInv, AInv
  PROVE  AcknowledgedStays
<1>1. ASSUME NEW f \in File \ harmed, file[f].state = "whole", NEW e \in Due(f)
      PROVE  Holds(f, file[f].data, e)
  <2>1. ~crowded  BY <1>1 DEF AInv, Due
  <2>2. ~Filled(f)
    BY <1>1, <2>1 DEF AInv, Filled, Progress, Running
  <2> QED  BY <1>1, <2>1, <2>2 DEF AInv, Kept
<1>2. AcknowledgedEventsStay
  BY <1>1 DEF AcknowledgedEventsStay, Holds, Timeline, File, Due
<1>3. AcknowledgedAttemptsStay
  <2>1. ASSUME "index" \notin harmed, file["index"].state = "whole",
               NEW e \in acked, e.kind # "note"
        PROVE  Shown(file["index"].data, e.attempt, e.kind)
    BY <1>1, <2>1 DEF Holds, File, Due, Timeline
  <2> QED  BY <2>1 DEF AcknowledgedAttemptsStay, Shown
<1> QED  BY <1>2, <1>3 DEF AcknowledgedStays

(* While commands take turns, what one of them acknowledged stays: the row of *)
(* its attempt in the index, completed once an outcome was told, also after a *)
(* forced init, and its event in both timelines up to the next forced init, in *)
(* every file no crash has harmed (vocera_wlc_session.py 652-731).          *)
THEOREM AcknowledgedIsKept == PackageSpec => []AcknowledgedStays
<1>1. IInv /\ AInv /\ [PackageNext]_packageVars => AInv'  BY AInvStep
<1>2. IInv /\ AInv => AcknowledgedStays  BY AInvTells
<1> QED  BY AInvInit, IInvHolds, <1>1, <1>2, PTL DEF PackageSpec

-----------------------------------------------------------------------------
(***************************************************************************)
(* Capture sessions and legs (CaptureSessions). The type of every call, that*)
(* names of sessions in capture stay apart, and what the package of a       *)
(* session shows of its newest leg.                                         *)
(***************************************************************************)

CallRecord ==
  [op : {"none", "session", "leg"},
   at : {"none", "package", "name", "make", "insert", "preflight", "start", "stop"},
   session : CaptureId \cup {Blank}, asked : Asked \cup {NoName},
   mac : Client \cup {Blank}, ap : AP \cup {Blank}, edited : BOOLEAN]

SessionRecord ==
  [state : State, name : Asked, asked : Asked, receiver : Client \cup {Blank}]

\* A call is at a step of its handler, and has what that step uses.
CallIsAlong(q) ==
  /\ call[q].op = "none" => call[q].at = "none"
  /\ call[q].op = "session" => /\ call[q].session \in CaptureId
                               /\ call[q].at \in {"package", "name", "make", "insert"}
  /\ call[q].op = "session" /\ call[q].at \in {"make", "insert"} => call[q].asked \in Asked
  /\ call[q].op = "leg" => /\ call[q].session \in CaptureId
                           /\ session[call[q].session] # NoSession
                           /\ call[q].at \in {"preflight", "insert", "start", "stop"}

CapturesTypeOK ==
  /\ session \in [CaptureId -> SessionRecord \cup {NoSession}]
  /\ package \in [CaptureId -> [made : BOOLEAN, start : AP \cup {Blank}, stop : AP \cup {Blank}]]
  /\ config \in [receiver : Client \cup {Blank}, target : Client \cup {Blank},
                 ap : AP \cup {Blank}, ready : BOOLEAN]
  /\ call \in [Call -> CallRecord]
  /\ leg \in Seq([session : CaptureId, client : Client \cup {Blank}, ap : AP \cup {Blank},
                  edited : BOOLEAN])
  /\ \A q \in Call : CallIsAlong(q)

-----------------------------------------------------------------------------
(* What an action leaves of the calls                                       *)

LEMMA CaptureRows ==
  /\ NoSession \notin SessionRecord
  /\ \A r \in SessionRecord : r.state # "absent"
BY DEF SessionRecord, NoSession, State

LEMMA NoCallFacts ==
  /\ NoCall \in CallRecord /\ NoCall.op = "none" /\ NoCall.at = "none" /\ ~NoCall.edited
BY DEF NoCall, CallRecord

\* One call goes on: the others stay as they are.
OneCall(q, new) == new \in CallRecord /\ call' = [call EXCEPT ![q] = new]

LEMMA OthersStay ==
  ASSUME CapturesTypeOK, NEW q \in Call, NEW new, OneCall(q, new)
  PROVE  call' \in [Call -> CallRecord] /\ \A p \in Call : call'[p] = IF p = q THEN new ELSE call[p]
BY DEF CapturesTypeOK, OneCall

LEMMA EndCallFacts ==
  ASSUME NEW q \in Call, EndCall(q)
  PROVE  OneCall(q, NoCall)
BY NoCallFacts DEF EndCall, OneCall

LEMMA CallGoesFacts ==
  ASSUME CapturesTypeOK, NEW q \in Call,
         NEW step \in {"name", "start", "stop"}, CallGoes(q, step)
  PROVE  \E new : /\ OneCall(q, new)
                  /\ new.op = call[q].op /\ new.at = step /\ new.session = call[q].session
                  /\ new.asked = call[q].asked /\ new.mac = call[q].mac /\ new.ap = call[q].ap
                  /\ new.edited = call[q].edited
<1> DEFINE old == call[q]
           new == [old EXCEPT !.at = step]
<1>1. old \in CallRecord
  BY DEF CapturesTypeOK
<1>2. call' = [call EXCEPT ![q] = new]
  BY DEF CallGoes, CapturesTypeOK
<1> HIDE DEF old
<1>3. /\ new \in CallRecord
      /\ new.op = old.op /\ new.at = step /\ new.session = old.session
      /\ new.asked = old.asked /\ new.mac = old.mac /\ new.ap = old.ap /\ new.edited = old.edited
  BY <1>1 DEF CallRecord
<1> HIDE DEF new
<1> QED BY <1>2, <1>3 DEF OneCall, old

LEMMA CreateSessionFacts ==
  ASSUME NEW q \in Call, CreateSession(q)
  PROVE  \E s, new :
           /\ s \in CaptureId
           /\ OneCall(q, new) /\ session[s] = NoSession
           /\ new.op = "session" /\ new.at = "package" /\ new.session = s
           /\ crossed' = crossed \cup
                {{s, call[p].session} : p \in {p \in Call : call[p].op = "session"}}
           /\ UNCHANGED <<session, package, leg, config, torn>>
<1>1. PICK s \in {t \in CaptureId : session[t] = NoSession} :
        /\ BeginCall(q, [NoCall EXCEPT !.op = "session", !.at = "package", !.session = s])
        /\ crossed' = crossed \cup
             {{s, call[p].session} : p \in {p \in Call : call[p].op = "session"}}
        /\ UNCHANGED <<session, package, leg, config, torn>>
  BY DEF CreateSession
<1> DEFINE a   == [NoCall EXCEPT !.op = "session"]
           b   == [a EXCEPT !.at = "package"]
           new == [b EXCEPT !.session = s]
<1>2. call' = [call EXCEPT ![q] = new]
  BY <1>1 DEF BeginCall
<1>3. a \in CallRecord /\ a.op = "session"
  BY NoCallFacts DEF CallRecord
<1> HIDE DEF a
<1>6. b \in CallRecord /\ b.op = "session" /\ b.at = "package"
  BY <1>3 DEF CallRecord
<1> HIDE DEF b
<1>4. new \in CallRecord /\ new.op = "session" /\ new.at = "package" /\ new.session = s
  BY <1>6 DEF CallRecord
<1> HIDE DEF new
<1>5. OneCall(q, new) /\ session[s] = NoSession /\ s \in CaptureId
  BY <1>1, <1>2, <1>4 DEF OneCall
<1> QED BY <1>1, <1>4, <1>5

LEMMA CheckNameFacts ==
  ASSUME CapturesTypeOK, NEW q \in Call, CheckName(q)
  PROVE  /\ call[q].op = "session" /\ call[q].at = "name"
         /\ UNCHANGED <<session, package, leg, config, crossed, torn>>
         /\ \/ OneCall(q, NoCall)
            \/ \E asked, new :
                 /\ asked \in Asked
                 /\ OneCall(q, new) /\ UsersOf(asked) = {}
                 /\ new.op = "session" /\ new.at = "make" /\ new.asked = asked
                 /\ new.session = call[q].session
<1>1. /\ call[q].op = "session" /\ call[q].at = "name"
      /\ UNCHANGED <<session, package, leg, config, crossed, torn>>
  BY DEF CheckName
<1>2. PICK asked \in Asked :
        IF UsersOf(asked) # {} THEN EndCall(q)
        ELSE call' = [call EXCEPT ![q].at = "make", ![q].asked = asked]
  BY DEF CheckName
<1>3. CASE UsersOf(asked) # {}
  BY <1>1, <1>2, <1>3, EndCallFacts
<1>4. CASE UsersOf(asked) = {}
  <2> DEFINE old == call[q]
             mid == [old EXCEPT !.at = "make"]
             new == [mid EXCEPT !.asked = asked]
  <2>1. old \in CallRecord /\ old.op = "session"
    BY <1>1 DEF CapturesTypeOK
  <2>2. call' = [call EXCEPT ![q] = new]
    BY <1>2, <1>4 DEF CapturesTypeOK
  <2> HIDE DEF old
  <2>3. mid \in CallRecord /\ mid.op = "session" /\ mid.at = "make" /\ mid.session = old.session
    BY <2>1 DEF CallRecord
  <2> HIDE DEF mid
  <2>4. /\ new \in CallRecord /\ new.op = "session" /\ new.at = "make" /\ new.session = old.session
        /\ new.asked = asked
    BY <2>3 DEF CallRecord
  <2> HIDE DEF new
  <2>5. OneCall(q, new) /\ old = call[q]
    BY <2>2, <2>4 DEF OneCall, old
  <2> QED BY <1>1, <1>4, <2>4, <2>5
<1> QED BY <1>3, <1>4

LEMMA CreatePackageFacts ==
  ASSUME CapturesTypeOK, NEW q \in Call, CreatePackage(q)
  PROVE  /\ call[q].op = "session" /\ call[q].at = "make"
         /\ UNCHANGED <<session, leg, config, crossed, torn>>
         /\ \/ OneCall(q, NoCall) /\ UNCHANGED package
            \/ \E new : /\ OneCall(q, new)
                        /\ new.op = "session" /\ new.at = "insert" /\ new.asked = call[q].asked
                        /\ new.session = call[q].session
                        /\ package' = [package EXCEPT ![call[q].session].made = TRUE]
<1>1. /\ call[q].op = "session" /\ call[q].at = "make"
      /\ UNCHANGED <<session, leg, config, crossed, torn>>
  BY DEF CreatePackage
<1>2. CASE EndCall(q) /\ UNCHANGED package
  BY <1>1, <1>2, EndCallFacts
<1>3. ASSUME NEW mac \in Client \cup {Blank, Malformed},
             package' = [package EXCEPT ![call[q].session].made = TRUE],
             call' = [call EXCEPT ![q].at = "insert",
                                  ![q].mac = media_normalized_mac(media_wlc_namespace(mac))]
      PROVE  \E new : /\ OneCall(q, new)
                      /\ new.op = "session" /\ new.at = "insert" /\ new.asked = call[q].asked
                      /\ new.session = call[q].session
                      /\ package' = [package EXCEPT ![call[q].session].made = TRUE]
  <2> DEFINE m == media_normalized_mac(media_wlc_namespace(mac))
             old == call[q]
             mid == [old EXCEPT !.at = "insert"]
             new == [mid EXCEPT !.mac = m]
  <2>1. m \in Client \cup {Blank}
    BY DEF media_normalized_mac
  <2>2. old \in CallRecord /\ old.op = "session"
    BY <1>1 DEF CapturesTypeOK
  <2>3. call' = [call EXCEPT ![q] = new]
    BY <1>3 DEF CapturesTypeOK
  <2> HIDE DEF old, m
  <2>4. /\ mid \in CallRecord /\ mid.op = "session" /\ mid.at = "insert"
        /\ mid.session = old.session /\ mid.asked = old.asked
    BY <2>2 DEF CallRecord
  <2> HIDE DEF mid
  <2>5. /\ new \in CallRecord /\ new.op = "session" /\ new.at = "insert"
        /\ new.session = old.session /\ new.asked = old.asked
    BY <2>1, <2>4 DEF CallRecord
  <2> HIDE DEF new
  <2>6. OneCall(q, new) /\ old = call[q]
    BY <2>3, <2>5 DEF OneCall, old
  <2> QED BY <1>3, <2>5, <2>6
<1> QED BY <1>1, <1>2, <1>3 DEF CreatePackage

LEMMA CreateLegFacts ==
  ASSUME CapturesTypeOK, NEW q \in Call, CreateLeg(q)
  PROVE  \E s, new :
           /\ s \in CaptureId
           /\ OneCall(q, new) /\ session[s] # NoSession
           /\ new.op = "leg" /\ new.at = "preflight" /\ new.session = s /\ new.mac = TargetMac
           /\ torn' = (IF Working("leg", s) # {} THEN torn \cup {s} ELSE torn)
           /\ UNCHANGED <<session, package, leg, config, crossed>>
<1>1. PICK s \in {t \in CaptureId : session[t] # NoSession} :
        /\ BeginCall(q, [NoCall EXCEPT !.op = "leg", !.at = "preflight", !.session = s,
                                       !.mac = TargetMac])
        /\ torn' = (IF Working("leg", s) # {} THEN torn \cup {s} ELSE torn)
        /\ UNCHANGED <<session, package, leg, config, crossed>>
  BY DEF CreateLeg
<1> DEFINE a   == [NoCall EXCEPT !.op = "leg"]
           b   == [a EXCEPT !.at = "preflight"]
           c   == [b EXCEPT !.session = s]
           new == [c EXCEPT !.mac = TargetMac]
<1>2. call' = [call EXCEPT ![q] = new]
  BY <1>1 DEF BeginCall
<1>3. TargetMac \in Client \cup {Blank}
  BY DEF TargetMac, CapturesTypeOK
<1>4. a \in CallRecord /\ a.op = "leg" /\ ~a.edited
  BY NoCallFacts DEF CallRecord
<1> HIDE DEF a
<1>7. b \in CallRecord /\ b.op = "leg" /\ b.at = "preflight"
  BY <1>4 DEF CallRecord
<1> HIDE DEF b
<1>8. c \in CallRecord /\ c.op = "leg" /\ c.at = "preflight" /\ c.session = s
  BY <1>7 DEF CallRecord
<1> HIDE DEF c
<1>5. /\ new \in CallRecord /\ new.op = "leg" /\ new.at = "preflight" /\ new.session = s
      /\ new.mac = TargetMac
  BY <1>3, <1>8 DEF CallRecord
<1> HIDE DEF new
<1>6. OneCall(q, new) /\ session[s] # NoSession /\ s \in CaptureId
  BY <1>1, <1>2, <1>5 DEF OneCall
<1> QED BY <1>1, <1>5, <1>6

LEMMA PreflightFacts ==
  ASSUME CapturesTypeOK, NEW q \in Call, Preflight(q)
  PROVE  /\ call[q].op = "leg" /\ call[q].at = "preflight"
         /\ UNCHANGED <<session, package, leg, config, crossed, torn>>
         /\ \/ OneCall(q, NoCall)
            \/ \E new : /\ OneCall(q, new) /\ Blockers(call[q].session) = {}
                        /\ new.op = "leg" /\ new.at = "insert" /\ new.session = call[q].session
                        /\ new.mac = call[q].mac /\ new.edited = call[q].edited
<1>1. /\ call[q].op = "leg" /\ call[q].at = "preflight"
      /\ UNCHANGED <<session, package, leg, config, crossed, torn>>
  BY DEF Preflight
<1>2. PICK asked \in AP \cup {Blank}, reason \in BOOLEAN :
        LET ap == IF asked # Blank THEN asked ELSE config.ap IN
        IF Blockers(call[q].session) # {} \/ (ap # config.ap /\ ~reason)
        THEN EndCall(q)
        ELSE call' = [call EXCEPT ![q].at = "insert", ![q].ap = ap]
  BY DEF Preflight
<1> DEFINE ap == IF asked # Blank THEN asked ELSE config.ap
<1>3. CASE Blockers(call[q].session) # {} \/ (ap # config.ap /\ ~reason)
  BY <1>1, <1>2, <1>3, EndCallFacts
<1>4. CASE ~(Blockers(call[q].session) # {} \/ (ap # config.ap /\ ~reason))
  <2> DEFINE old == call[q]
             mid == [old EXCEPT !.at = "insert"]
             new == [mid EXCEPT !.ap = ap]
  <2>1. old \in CallRecord /\ old.op = "leg"
    BY <1>1 DEF CapturesTypeOK
  <2>2. call' = [call EXCEPT ![q] = new]
    BY <1>2, <1>4 DEF CapturesTypeOK
  <2>3. ap \in AP \cup {Blank}
    BY DEF CapturesTypeOK
  <2> HIDE DEF old, ap
  <2>4. /\ mid \in CallRecord /\ mid.op = "leg" /\ mid.at = "insert" /\ mid.session = old.session
        /\ mid.mac = old.mac /\ mid.edited = old.edited
    BY <2>1 DEF CallRecord
  <2> HIDE DEF mid
  <2>5. /\ new \in CallRecord /\ new.op = "leg" /\ new.at = "insert" /\ new.session = old.session
        /\ new.mac = old.mac /\ new.edited = old.edited
    BY <2>3, <2>4 DEF CallRecord
  <2> HIDE DEF new
  <2>6. OneCall(q, new) /\ old = call[q]
    BY <2>2, <2>5 DEF OneCall, old
  <2> QED BY <1>1, <1>4, <2>5, <2>6
<1> QED BY <1>3, <1>4

LEMMA InsertLegFacts ==
  ASSUME CapturesTypeOK, NEW q \in Call, InsertLeg(q)
  PROVE  /\ call[q].op = "leg" /\ call[q].at = "insert"
         /\ UNCHANGED <<session, package, config, crossed, torn>>
         /\ leg' = Append(leg, [session |-> call[q].session, client |-> call[q].mac,
                                ap |-> call[q].ap, edited |-> call[q].edited])
         /\ \E new : /\ OneCall(q, new)
                     /\ new.op = "leg" /\ new.at = "start" /\ new.session = call[q].session
                     /\ new.mac = call[q].mac /\ new.ap = call[q].ap
                     /\ new.edited = call[q].edited
<1>1. CallGoes(q, "start") /\ "start" \in {"name", "start", "stop"}
  BY DEF InsertLeg
<1> QED BY <1>1, CallGoesFacts DEF InsertLeg

LEMMA WriteLegSheetFacts ==
  ASSUME CapturesTypeOK, NEW q \in Call, WriteLegSheet(q)
  PROVE  /\ call[q].op = "leg" /\ call[q].at \in {"start", "stop"}
         /\ UNCHANGED <<session, leg, config, crossed, torn>>
         /\ \/ /\ call[q].at = "start"
               /\ package' = [package EXCEPT ![call[q].session].start = call[q].ap]
               /\ \E new : /\ OneCall(q, new)
                           /\ new.op = "leg" /\ new.at = "stop" /\ new.session = call[q].session
                           /\ new.mac = call[q].mac /\ new.ap = call[q].ap
                           /\ new.edited = call[q].edited
            \/ /\ call[q].at = "stop"
               /\ package' = [package EXCEPT ![call[q].session].stop = call[q].ap]
               /\ OneCall(q, NoCall)
<1>1. call[q].op = "leg" /\ call[q].session \in CaptureId
  BY DEF WriteLegSheet, CapturesTypeOK, CallIsAlong
<1>2. /\ call[q].at \in {"start", "stop"}
      /\ UNCHANGED <<session, leg, config, crossed, torn>>
  BY DEF WriteLegSheet
<1>3. CASE call[q].at = "start"
  <2>1. CallGoes(q, "stop")
    BY <1>3 DEF WriteLegSheet
  <2>2. package' = [package EXCEPT ![call[q].session].start = call[q].ap]
    BY <1>3 DEF WriteLegSheet
  <2>3. "stop" \in {"name", "start", "stop"}
    OBVIOUS
  <2> QED BY <1>1, <1>2, <1>3, <2>1, <2>2, <2>3, CallGoesFacts
<1>4. CASE call[q].at = "stop"
  <2>1. EndCall(q)
    BY <1>4 DEF WriteLegSheet
  <2>2. package' = [package EXCEPT ![call[q].session].stop = call[q].ap]
    BY <1>4 DEF WriteLegSheet
  <2> QED BY <1>1, <1>2, <1>4, <2>1, <2>2, EndCallFacts
<1> QED BY <1>2, <1>3, <1>4

\* The row a call inserts, or the row there is with its state set.
LEMMA InsertSessionFacts ==
  ASSUME CapturesTypeOK, NEW q \in Call, media_wlc_insert_session(q)
  PROVE  /\ call[q].op = "session" /\ call[q].at = "insert"
         /\ OneCall(q, NoCall) /\ UNCHANGED <<package, leg, config, crossed, torn>>
         /\ \E r \in SessionRecord :
              /\ session' = [session EXCEPT ![call[q].session] = r]
              /\ session[call[q].session] = NoSession =>
                   r.asked = call[q].asked /\ r.name = safe_name(call[q].asked)
              /\ session[call[q].session] # NoSession =>
                   /\ r.asked = session[call[q].session].asked
                   /\ r.name = session[call[q].session].name
                   /\ r.receiver = session[call[q].session].receiver
<1> DEFINE s == call[q].session
           old == session[s]
<1>1. /\ call[q].op = "session" /\ call[q].at = "insert" /\ EndCall(q)
      /\ UNCHANGED <<package, leg, config, crossed, torn>>
  BY DEF media_wlc_insert_session
<1>2. s \in CaptureId /\ call[q].asked \in Asked /\ call[q].mac \in Client \cup {Blank}
  BY <1>1 DEF CapturesTypeOK, CallIsAlong, CallRecord
<1>3. session' = [session EXCEPT ![s] =
                    IF old = NoSession THEN session_payload(q)
                    ELSE [old EXCEPT !.state = "prepared_not_started"]]
  BY DEF media_wlc_insert_session, CapturesTypeOK
<1>4. CASE old = NoSession
  <2> DEFINE r == session_payload(q)
  <2>1. session' = [session EXCEPT ![s] = r]
    BY <1>3, <1>4
  <2>2. safe_name(call[q].asked) \in Asked
    BY <1>2 DEF safe_name, Asked
  <2>3. r \in SessionRecord /\ r.asked = call[q].asked /\ r.name = safe_name(call[q].asked)
    BY <1>2, <2>2 DEF session_payload, SessionRecord, State
  <2> HIDE DEF r
  <2> QED BY <1>1, <1>4, <2>1, <2>3, EndCallFacts
<1>5. CASE old # NoSession
  <2> DEFINE r == [old EXCEPT !.state = "prepared_not_started"]
  <2>1. session' = [session EXCEPT ![s] = r]
    BY <1>3, <1>5
  <2>2. old \in SessionRecord
    BY <1>2, <1>5 DEF CapturesTypeOK
  <2> HIDE DEF old
  <2>3. r \in SessionRecord /\ r.asked = old.asked /\ r.name = old.name /\ r.receiver = old.receiver
    BY <2>2 DEF SessionRecord, State
  <2> HIDE DEF r
  <2> QED BY <1>1, <1>5, <2>1, <2>3, EndCallFacts DEF old
<1> QED BY <1>4, <1>5

LEMMA UpdateSessionFacts ==
  ASSUME CapturesTypeOK, media_wlc_update_session
  PROVE  /\ UNCHANGED <<package, leg, config, call, torn>>
         /\ \E s \in CaptureId, r \in SessionRecord :
              /\ session[s] # NoSession /\ session' = [session EXCEPT ![s] = r]
              /\ r.asked = session[s].asked /\ r.name = session[s].name
              /\ r.receiver = session[s].receiver
              /\ crossed' = IF ~Active(s) /\ r.state \notin Terminal
                            THEN crossed \cup {{s, t} : t \in CaptureId} ELSE crossed
<1>1. PICK s \in {t \in CaptureId : session[t] # NoSession}, to \in State :
        /\ session' = [session EXCEPT ![s].state = to]
        /\ crossed' = IF ~Active(s) /\ to \notin Terminal
                      THEN crossed \cup {{s, t} : t \in CaptureId} ELSE crossed
  BY DEF media_wlc_update_session
<1> DEFINE old == session[s]
           r == [old EXCEPT !.state = to]
<1>2. session' = [session EXCEPT ![s] = r]
  BY <1>1 DEF CapturesTypeOK
<1>3. old \in SessionRecord /\ s \in CaptureId /\ old # NoSession
  BY <1>1 DEF CapturesTypeOK
<1> HIDE DEF old
<1>4. /\ r \in SessionRecord /\ r.asked = old.asked /\ r.name = old.name
      /\ r.receiver = old.receiver /\ r.state = to
  BY <1>3 DEF SessionRecord
<1> HIDE DEF r
<1> QED BY <1>1, <1>2, <1>3, <1>4 DEF old, media_wlc_update_session

LEMMA EditConfigFacts ==
  ASSUME CapturesTypeOK, EditConfig
  PROVE  /\ UNCHANGED <<session, package, leg, crossed, torn>>
         /\ config' \in [receiver : Client \cup {Blank}, target : Client \cup {Blank},
                         ap : AP \cup {Blank}, ready : BOOLEAN]
         /\ call' \in [Call -> CallRecord]
         /\ \A q \in Call :
              /\ call'[q].op = call[q].op /\ call'[q].at = call[q].at
              /\ call'[q].session = call[q].session /\ call'[q].asked = call[q].asked
              /\ call'[q].mac = call[q].mac /\ call'[q].ap = call[q].ap
              /\ call[q].op = "leg" => call'[q].edited
<1>1. config' \in [receiver : Client \cup {Blank}, target : Client \cup {Blank},
                   ap : AP \cup {Blank}, ready : BOOLEAN]
  BY DEF EditConfig, CapturesTypeOK
<1>2. call' = [q \in Call |-> [call[q] EXCEPT !.edited = call[q].edited \/ call[q].op = "leg"]]
  BY DEF EditConfig
<1>3. ASSUME NEW q \in Call
      PROVE  /\ call'[q] \in CallRecord
             /\ call'[q].op = call[q].op /\ call'[q].at = call[q].at
             /\ call'[q].session = call[q].session /\ call'[q].asked = call[q].asked
             /\ call'[q].mac = call[q].mac /\ call'[q].ap = call[q].ap
             /\ call[q].op = "leg" => call'[q].edited
  <2> DEFINE old == call[q]
             e   == old.edited \/ old.op = "leg"
             new == [old EXCEPT !.edited = e]
  <2>1. call'[q] = new
    BY <1>2
  <2>2. old \in CallRecord /\ e \in BOOLEAN /\ (old.op = "leg" => e)
    BY DEF CapturesTypeOK, CallRecord
  <2> HIDE DEF e
  <2> SUFFICES /\ new \in CallRecord
               /\ new.op = old.op /\ new.at = old.at
               /\ new.session = old.session /\ new.asked = old.asked
               /\ new.mac = old.mac /\ new.ap = old.ap /\ new.edited = e
    BY <2>1, <2>2
  <2> HIDE DEF old
  <2> QED BY <2>2 DEF CallRecord
<1>4. call' \in [Call -> CallRecord]
  BY <1>2, <1>3
<1> QED BY <1>1, <1>3, <1>4 DEF EditConfig

LEMMA GiveUpLegFacts ==
  ASSUME NEW q \in Call, GiveUpLeg(q)
  PROVE  /\ OneCall(q, NoCall) /\ UNCHANGED <<session, package, leg, config, crossed>>
         /\ call[q].at \in {"insert", "start", "stop"}
         /\ torn' = IF call[q].at # "insert" THEN torn \cup {call[q].session} ELSE torn
BY EndCallFacts DEF GiveUpLeg

LEMMA CheckDirectoryFacts ==
  ASSUME CapturesTypeOK, NEW q \in Call, CheckDirectory(q)
  PROVE  /\ call[q].op = "session"
         /\ UNCHANGED <<session, package, leg, config, crossed, torn>>
         /\ \/ OneCall(q, NoCall)
            \/ \E new : /\ OneCall(q, new) /\ new.op = "session" /\ new.at = "name"
                        /\ new.session = call[q].session
<1>1. EndCall(q) \/ CallGoes(q, "name")
  BY DEF CheckDirectory
<1>2. "name" \in {"name", "start", "stop"}
  OBVIOUS
<1> QED BY <1>1, <1>2, EndCallFacts, CallGoesFacts DEF CheckDirectory

-----------------------------------------------------------------------------
(* Types                                                                    *)

LegRecord == [session : CaptureId, client : Client \cup {Blank}, ap : AP \cup {Blank},
              edited : BOOLEAN]
PackageRecord == [made : BOOLEAN, start : AP \cup {Blank}, stop : AP \cup {Blank}]

\* A call that ends, or goes on along its handler, keeps the types.
LEMMA TypesOfOneCall ==
  ASSUME CapturesTypeOK, NEW q \in Call, NEW new, OneCall(q, new),
         \A s \in CaptureId : session[s] # NoSession => session'[s] # NoSession,
         session' \in [CaptureId -> SessionRecord \cup {NoSession}],
         package' \in [CaptureId -> PackageRecord],
         leg' \in Seq(LegRecord), UNCHANGED config,
         \/ new.op = "none" /\ new.at = "none"
         \/ /\ new.op = "session" /\ new.session \in CaptureId
            /\ new.at \in {"package", "name", "make", "insert"}
            /\ new.at \in {"make", "insert"} => new.asked \in Asked
         \/ /\ new.op = "leg" /\ new.session \in CaptureId /\ session[new.session] # NoSession
            /\ new.at \in {"preflight", "insert", "start", "stop"}
  PROVE  CapturesTypeOK'
<1>1. /\ call' \in [Call -> CallRecord]
      /\ \A p \in Call : call'[p] = IF p = q THEN new ELSE call[p]
  BY OthersStay
<1>2. ASSUME NEW p \in Call PROVE CallIsAlong(p)'
  <2>1. CASE p = q
    BY <1>1, <2>1 DEF CallIsAlong
  <2>2. CASE p # q
    <3>1. call'[p] = call[p] /\ CallIsAlong(p)
      BY <1>1, <2>2 DEF CapturesTypeOK
    <3> QED BY <3>1 DEF CallIsAlong
  <2> QED BY <2>1, <2>2
<1> QED BY <1>1, <1>2 DEF CapturesTypeOK, LegRecord, PackageRecord

LEMMA CapturesTypeInit == CapturesInit => CapturesTypeOK
<1> SUFFICES ASSUME CapturesInit PROVE CapturesTypeOK
  OBVIOUS
<1> USE DEF CapturesInit
<1>1. call \in [Call -> CallRecord] /\ \A q \in Call : call[q].op = "none" /\ call[q].at = "none"
  BY NoCallFacts
<1>2. \A q \in Call : CallIsAlong(q)
  BY <1>1 DEF CallIsAlong
<1>3. leg \in Seq([session : CaptureId, client : Client \cup {Blank}, ap : AP \cup {Blank},
                   edited : BOOLEAN])
  OBVIOUS
<1>4. package \in [CaptureId -> [made : BOOLEAN, start : AP \cup {Blank}, stop : AP \cup {Blank}]]
  BY DEF NoPackage
<1>5. session \in [CaptureId -> SessionRecord \cup {NoSession}]
  OBVIOUS
<1>6. config \in [receiver : Client \cup {Blank}, target : Client \cup {Blank},
                  ap : AP \cup {Blank}, ready : BOOLEAN]
  OBVIOUS
<1> QED BY <1>1, <1>2, <1>3, <1>4, <1>5, <1>6 DEF CapturesTypeOK

LEMMA CapturesTypeStep == CapturesTypeOK /\ [CapturesNext]_captureVars => CapturesTypeOK'
<1> SUFFICES ASSUME CapturesTypeOK, [CapturesNext]_captureVars PROVE CapturesTypeOK'
  OBVIOUS
<1>0. /\ session \in [CaptureId -> SessionRecord \cup {NoSession}]
      /\ package \in [CaptureId -> PackageRecord] /\ leg \in Seq(LegRecord)
      /\ \A q \in Call : call[q] \in CallRecord /\ CallIsAlong(q)
  BY DEF CapturesTypeOK, LegRecord, PackageRecord
<1>1. ASSUME NEW q \in Call, CreateSession(q) PROVE CapturesTypeOK'
  BY <1>0, <1>1, CreateSessionFacts, TypesOfOneCall
<1>2. ASSUME NEW q \in Call, CheckDirectory(q) PROVE CapturesTypeOK'
  <2>1. call[q].session \in CaptureId
    BY <1>0, <1>2, CheckDirectoryFacts DEF CallIsAlong
  <2> QED BY <1>0, <1>2, <2>1, CheckDirectoryFacts, TypesOfOneCall, NoCallFacts
<1>3. ASSUME NEW q \in Call, CheckName(q) PROVE CapturesTypeOK'
  <2>1. call[q].session \in CaptureId
    BY <1>0, <1>3, CheckNameFacts DEF CallIsAlong
  <2> QED BY <1>0, <1>3, <2>1, CheckNameFacts, TypesOfOneCall, NoCallFacts
<1>4. ASSUME NEW q \in Call, CreatePackage(q) PROVE CapturesTypeOK'
  <2>1. call[q].session \in CaptureId /\ call[q].asked \in Asked
    BY <1>0, <1>4, CreatePackageFacts DEF CallIsAlong
  <2>2. package' \in [CaptureId -> PackageRecord]
    <3> DEFINE s == call[q].session
    <3>1. UNCHANGED package \/ package' = [package EXCEPT ![s].made = TRUE]
      BY <1>4, CreatePackageFacts
    <3>2. s \in CaptureId
      BY <2>1
    <3> HIDE DEF s
    <3>3. CASE package' = [package EXCEPT ![s].made = TRUE]
      BY <1>0, <3>2, <3>3 DEF PackageRecord
    <3> QED BY <1>0, <3>1, <3>3
  <2> QED BY <1>0, <1>4, <2>1, <2>2, CreatePackageFacts, TypesOfOneCall, NoCallFacts
<1>5. ASSUME NEW q \in Call, media_wlc_insert_session(q) PROVE CapturesTypeOK'
  <2>1. PICK r \in SessionRecord : session' = [session EXCEPT ![call[q].session] = r]
    BY <1>5, InsertSessionFacts
  <2>2. /\ session' \in [CaptureId -> SessionRecord \cup {NoSession}]
        /\ \A s \in CaptureId : session[s] # NoSession => session'[s] # NoSession
    BY <1>0, <2>1, CaptureRows
  <2> QED BY <1>0, <1>5, <2>2, InsertSessionFacts, TypesOfOneCall, NoCallFacts
<1>6. ASSUME NEW q \in Call, CreateLeg(q) PROVE CapturesTypeOK'
  BY <1>0, <1>6, CreateLegFacts, TypesOfOneCall
<1>7. ASSUME NEW q \in Call, Preflight(q) PROVE CapturesTypeOK'
  <2>1. call[q].session \in CaptureId /\ session[call[q].session] # NoSession
    BY <1>0, <1>7, PreflightFacts DEF CallIsAlong
  <2> QED BY <1>0, <1>7, <2>1, PreflightFacts, TypesOfOneCall, NoCallFacts
<1>8. ASSUME NEW q \in Call, InsertLeg(q) PROVE CapturesTypeOK'
  <2>1. call[q].session \in CaptureId /\ session[call[q].session] # NoSession
    BY <1>0, <1>8, InsertLegFacts DEF CallIsAlong
  <2>2. [session |-> call[q].session, client |-> call[q].mac, ap |-> call[q].ap,
         edited |-> call[q].edited] \in LegRecord
    BY <1>0, <2>1 DEF LegRecord, CallRecord
  <2>3. leg' \in Seq(LegRecord)
    BY <1>0, <1>8, <2>2, InsertLegFacts
  <2>4. PICK new : /\ OneCall(q, new)
                   /\ new.op = "leg" /\ new.at = "start" /\ new.session = call[q].session
    BY <1>8, InsertLegFacts
  <2>5. UNCHANGED <<session, package, config>>
    BY <1>8, InsertLegFacts
  <2> QED BY <1>0, <2>1, <2>3, <2>4, <2>5, TypesOfOneCall
<1>9. ASSUME NEW q \in Call, WriteLegSheet(q) PROVE CapturesTypeOK'
  <2>1. /\ call[q].session \in CaptureId /\ session[call[q].session] # NoSession
        /\ call[q].ap \in AP \cup {Blank}
    BY <1>0, <1>9, WriteLegSheetFacts DEF CallIsAlong, CallRecord
  <2>2. package' \in [CaptureId -> PackageRecord]
    <3> DEFINE s == call[q].session
               v == call[q].ap
    <3>1. \/ package' = [package EXCEPT ![s].start = v]
          \/ package' = [package EXCEPT ![s].stop = v]
      BY <1>9, WriteLegSheetFacts
    <3>2. s \in CaptureId /\ v \in AP \cup {Blank}
      BY <2>1
    <3> HIDE DEF s, v
    <3>3. CASE package' = [package EXCEPT ![s].start = v]
      BY <1>0, <3>2, <3>3 DEF PackageRecord
    <3>4. CASE package' = [package EXCEPT ![s].stop = v]
      BY <1>0, <3>2, <3>4 DEF PackageRecord
    <3> QED BY <3>1, <3>3, <3>4
  <2> QED BY <1>0, <1>9, <2>1, <2>2, WriteLegSheetFacts, TypesOfOneCall, NoCallFacts
<1>10. ASSUME NEW q \in Call, GiveUpLeg(q) PROVE CapturesTypeOK'
  BY <1>0, <1>10, GiveUpLegFacts, TypesOfOneCall, NoCallFacts
<1>11. ASSUME media_wlc_update_session PROVE CapturesTypeOK'
  <2>1. PICK s \in CaptureId, r \in SessionRecord : session' = [session EXCEPT ![s] = r]
    BY <1>11, UpdateSessionFacts
  <2>2. /\ session' \in [CaptureId -> SessionRecord \cup {NoSession}]
        /\ \A t \in CaptureId : session[t] # NoSession => session'[t] # NoSession
    BY <1>0, <2>1, CaptureRows
  <2>3. UNCHANGED <<package, leg, config, call>>
    BY <1>11, UpdateSessionFacts
  <2>4. \A q \in Call : CallIsAlong(q)'
    BY <1>0, <2>2, <2>3 DEF CallIsAlong
  <2> QED BY <2>2, <2>3, <2>4 DEF CapturesTypeOK
<1>12. ASSUME EditConfig PROVE CapturesTypeOK'
  <2>1. \A q \in Call : CallIsAlong(q)'
    BY <1>0, <1>12, EditConfigFacts DEF CallIsAlong
  <2> QED BY <1>12, <2>1, EditConfigFacts DEF CapturesTypeOK
<1>13. CASE UNCHANGED captureVars
  BY <1>13 DEF captureVars, CapturesTypeOK, CallIsAlong
<1> QED BY <1>1, <1>2, <1>3, <1>4, <1>5, <1>6, <1>7, <1>8, <1>9, <1>10, <1>11, <1>12, <1>13
        DEF CapturesNext

\* Every call is at a step of its own handler (create_study_media_qoe_wlc_session,
\* create_media_qoe_ap_ota_leg), and the session of a leg under way has its row.
THEOREM CapturesTyped == CapturesSpec => []CapturesTypeOK
BY CapturesTypeInit, CapturesTypeStep, PTL DEF CapturesSpec

-----------------------------------------------------------------------------
(* Names                                                                    *)

Crossed(s, t) == {s, t} \in crossed

\* Two rows whose names, kept as they were asked for, are the same.
Clash(s, t) ==
  /\ ~session[s].asked.spaced /\ ~session[t].asked.spaced
  /\ session[s].name = session[t].name

Naming(q) == call[q].op = "session" /\ call[q].at \in {"make", "insert"}

\* Creations that overlap are crossed.
OverlapsAreCrossed(p, q) ==
  call[p].op = "session" /\ call[q].op = "session" /\ call[p].session # call[q].session =>
    Crossed(call[p].session, call[q].session)

\* The name a call goes on with is that of no other active session, but of one
\* that was created meanwhile or brought back.
NameIsFree(q) ==
  Naming(q) =>
    \A t \in CaptureId : t # call[q].session /\ Active(t) /\ ~Crossed(call[q].session, t) =>
      session[t].name # call[q].asked

\* A row that its call may yet set to active again has its name to itself.
RowIsApart(q) ==
  call[q].op = "session" /\ session[call[q].session] # NoSession =>
    \A t \in CaptureId : t # call[q].session /\ Active(t) /\ ~Crossed(call[q].session, t) =>
      ~Clash(call[q].session, t)

NamesApart(s, t) ==
  s # t /\ Active(s) /\ Active(t) /\ ~Crossed(s, t) => ~Clash(s, t)

NamesInv ==
  /\ \A p, q \in Call : OverlapsAreCrossed(p, q)
  /\ \A q \in Call : NameIsFree(q) /\ RowIsApart(q)
  /\ \A s, t \in CaptureId : NamesApart(s, t)

LEMMA CrossedIsSymmetric ==
  /\ \A s, t : Crossed(s, t) <=> Crossed(t, s)
  /\ \A s, t : Crossed(s, t)' <=> Crossed(t, s)'
<1>1. \A s, t : {s, t} = {t, s}
  OBVIOUS
<1> QED BY <1>1 DEF Crossed

LEMMA QuietNames ==
  ASSUME NamesInv, UNCHANGED session,
         \A s, t \in CaptureId : Crossed(s, t) => Crossed(s, t)',
         \A q \in Call : call'[q].op = "session" =>
           /\ call[q].op = "session" /\ call'[q].session = call[q].session
           /\ call[q].session \in CaptureId
           /\ call'[q].at \in {"make", "insert"} =>
                call[q].at \in {"make", "insert"} /\ call'[q].asked = call[q].asked
  PROVE  NamesInv'
<1>1. \A s, t \in CaptureId : (Active(s)' <=> Active(s)) /\ (Clash(s, t)' <=> Clash(s, t))
  BY DEF Active, Clash
<1>2. \A p, q \in Call : OverlapsAreCrossed(p, q)'
  BY DEF NamesInv, OverlapsAreCrossed
<1>3. \A q \in Call : NameIsFree(q)'
  BY <1>1 DEF NamesInv, NameIsFree, Naming
<1>4. \A q \in Call : RowIsApart(q)'
  BY <1>1 DEF NamesInv, RowIsApart
<1>5. \A s, t \in CaptureId : NamesApart(s, t)'
  BY <1>1 DEF NamesInv, NamesApart
<1> QED BY <1>2, <1>3, <1>4, <1>5 DEF NamesInv

LEMMA QuietCall ==
  ASSUME CapturesTypeOK, NamesInv, UNCHANGED <<session, crossed>>,
         NEW q \in Call, NEW new, OneCall(q, new),
         new.op = "session" =>
           /\ call[q].op = "session" /\ new.session = call[q].session
           /\ new.at \in {"make", "insert"} =>
                call[q].at \in {"make", "insert"} /\ new.asked = call[q].asked
  PROVE  NamesInv'
<1>1. \A p \in Call : call'[p] = IF p = q THEN new ELSE call[p]
  BY OthersStay
<1>2. \A p \in Call : call[p].op = "session" => call[p].session \in CaptureId
  BY DEF CapturesTypeOK, CallIsAlong
<1>3. \A s, t \in CaptureId : Crossed(s, t) => Crossed(s, t)'
  BY DEF Crossed
<1> QED BY <1>1, <1>2, <1>3, QuietNames

LEMMA NamesAfterCreate ==
  ASSUME CapturesTypeOK, NamesInv, NEW q \in Call, CreateSession(q)
  PROVE  NamesInv'
<1>1. PICK s, new :
        /\ s \in CaptureId
        /\ OneCall(q, new) /\ session[s] = NoSession
        /\ new.op = "session" /\ new.at = "package" /\ new.session = s
        /\ crossed' = crossed \cup {{s, call[p].session} : p \in {p \in Call : call[p].op = "session"}}
        /\ UNCHANGED session
  BY CreateSessionFacts
<1>2. \A p \in Call : call'[p] = IF p = q THEN new ELSE call[p]
  BY <1>1, OthersStay
<1>3. \A p \in Call : call[p].op = "session" => call[p].session \in CaptureId
  BY DEF CapturesTypeOK, CallIsAlong
<1>4. \A t, u \in CaptureId : Crossed(t, u) => Crossed(t, u)'
  BY <1>1 DEF Crossed
<1>5. \A p \in Call, t \in CaptureId :
        call[p].op = "session" /\ call[p].session = t => Crossed(s, t)' /\ Crossed(t, s)'
  BY <1>1, CrossedIsSymmetric DEF Crossed
<1>6. \A t, u \in CaptureId : (Active(t)' <=> Active(t)) /\ (Clash(t, u)' <=> Clash(t, u))
  BY <1>1 DEF Active, Clash
<1>7. ASSUME NEW p \in Call, NEW o \in Call PROVE OverlapsAreCrossed(p, o)'
  <2>1. CASE p # q /\ o # q
    BY <1>2, <1>3, <1>4, <2>1 DEF NamesInv, OverlapsAreCrossed
  <2>2. CASE p = q
    BY <1>1, <1>2, <1>3, <1>5, <2>2 DEF OverlapsAreCrossed
  <2>3. CASE o = q /\ p # q
    BY <1>1, <1>2, <1>3, <1>5, <2>3 DEF OverlapsAreCrossed
  <2> QED BY <2>1, <2>2, <2>3
<1>8. ASSUME NEW p \in Call PROVE NameIsFree(p)' /\ RowIsApart(p)'
  <2>1. CASE p = q
    BY <1>1, <1>2, <2>1 DEF NameIsFree, RowIsApart, Naming
  <2>2. CASE p # q
    <3>1. NameIsFree(p)'
      BY <1>1, <1>2, <1>3, <1>4, <2>2 DEF NamesInv, NameIsFree, Naming, Active
    <3>2. RowIsApart(p)'
      BY <1>1, <1>2, <1>3, <1>4, <1>6, <2>2 DEF NamesInv, RowIsApart
    <3> QED BY <3>1, <3>2
  <2> QED BY <2>1, <2>2
<1>9. \A t, u \in CaptureId : NamesApart(t, u)'
  BY <1>4, <1>6 DEF NamesInv, NamesApart
<1> QED BY <1>7, <1>8, <1>9 DEF NamesInv

LEMMA NamesAfterCheck ==
  ASSUME CapturesTypeOK, NamesInv, NEW q \in Call, CheckName(q)
  PROVE  NamesInv'
<1>1. UNCHANGED <<session, crossed>> /\ call[q].op = "session"
  BY CheckNameFacts
<1>2. CASE OneCall(q, NoCall)
  BY <1>1, <1>2, QuietCall, NoCallFacts
<1>3. ASSUME NEW asked \in Asked, NEW new, OneCall(q, new), UsersOf(asked) = {},
             new.op = "session", new.at = "make", new.asked = asked, new.session = call[q].session
      PROVE  NamesInv'
  <2>1. \A p \in Call : call'[p] = IF p = q THEN new ELSE call[p]
    BY <1>3, OthersStay
  <2>2. \A s, t \in CaptureId : /\ Active(s)' <=> Active(s)
                                /\ Clash(s, t)' <=> Clash(s, t)
                                /\ Crossed(s, t)' <=> Crossed(s, t)
    BY <1>1 DEF Active, Clash, Crossed
  <2>3. \A p \in Call : call[p].op = "session" => call[p].session \in CaptureId
    BY DEF CapturesTypeOK, CallIsAlong
  <2>4. \A p, o \in Call : OverlapsAreCrossed(p, o)'
    BY <1>1, <1>3, <2>1, <2>2, <2>3 DEF NamesInv, OverlapsAreCrossed
  <2>5. \A t \in CaptureId : Active(t) => session[t].name # asked
    BY <1>3 DEF UsersOf
  <2>6. ASSUME NEW p \in Call PROVE NameIsFree(p)'
    <3>1. CASE p = q
      BY <1>1, <1>3, <2>1, <2>2, <2>5, <3>1 DEF NameIsFree
    <3>2. CASE p # q
      BY <1>1, <2>1, <2>2, <2>3, <3>2 DEF NamesInv, NameIsFree, Naming
    <3> QED BY <3>1, <3>2
  <2>7. \A p \in Call : RowIsApart(p)'
    BY <1>1, <1>3, <2>1, <2>2, <2>3 DEF NamesInv, RowIsApart
  <2>8. \A s, t \in CaptureId : NamesApart(s, t)'
    BY <2>2 DEF NamesInv, NamesApart
  <2> QED BY <2>4, <2>6, <2>7, <2>8 DEF NamesInv
<1> QED BY <1>2, <1>3, CheckNameFacts

\* The row a call inserts, or sets to active again, has its name to itself: every
\* other call under way is crossed with it.
LEMMA NamesAfterInsert ==
  ASSUME CapturesTypeOK, NamesInv, NEW q \in Call, media_wlc_insert_session(q)
  PROVE  NamesInv'
<1>0. PICK s \in CaptureId : s = call[q].session
  BY InsertSessionFacts DEF CapturesTypeOK, CallIsAlong
<1>1. PICK r \in SessionRecord :
        /\ session' = [session EXCEPT ![s] = r]
        /\ session[s] = NoSession => r.asked = call[q].asked /\ r.name = safe_name(call[q].asked)
        /\ session[s] # NoSession => r.asked = session[s].asked /\ r.name = session[s].name
  BY <1>0, InsertSessionFacts
<1>2. /\ call[q].op = "session" /\ call[q].at = "insert" /\ OneCall(q, NoCall)
      /\ UNCHANGED crossed
  BY InsertSessionFacts
<1>3. call[q].asked \in Asked
  BY <1>2 DEF CapturesTypeOK, CallIsAlong
<1>4. \A p \in Call : call'[p] = IF p = q THEN NoCall ELSE call[p]
  BY <1>2, OthersStay
<1>5. \A p \in Call : call[p].op = "session" => call[p].session \in CaptureId
  BY DEF CapturesTypeOK, CallIsAlong
<1>6. /\ \A t \in CaptureId : session'[t] = IF t = s THEN r ELSE session[t]
      /\ \A t \in CaptureId \ {s} : Active(t)' <=> Active(t)
      /\ \A t, u \in CaptureId : Crossed(t, u)' <=> Crossed(t, u)
  BY <1>1, <1>2, <1>3 DEF CapturesTypeOK, Active, Crossed
<1>7. \A p \in Call \ {q} : call[p].op = "session" /\ call[p].session # s =>
        Crossed(s, call[p].session) /\ Crossed(call[p].session, s)
  BY <1>2, <1>0, CrossedIsSymmetric DEF NamesInv, OverlapsAreCrossed
<1>8. ASSUME NEW t \in CaptureId, t # s, Active(t), ~Crossed(s, t)
      PROVE  ~Clash(s, t)'
  <2>1. CASE session[s] = NoSession
    <3>1. session[t].name # call[q].asked
      BY <1>2, <1>8, <1>0 DEF NamesInv, NameIsFree, Naming
    <3>2. ~call[q].asked.spaced => safe_name(call[q].asked) = call[q].asked
      <4> DEFINE a == call[q].asked
                 b == [a EXCEPT !.spaced = FALSE]
      <4>1. a \in Asked
        BY <1>3
      <4> HIDE DEF a
      <4>2. a.spaced = FALSE => b = a
        BY <4>1 DEF Asked
      <4>3. a.spaced \in BOOLEAN
        BY <4>1 DEF Asked
      <4> HIDE DEF b
      <4>4. ~a.spaced => b = a
        BY <4>2, <4>3
      <4> QED BY <4>4 DEF safe_name, a, b
    <3> QED BY <1>1, <1>3, <1>6, <1>8, <2>1, <3>1, <3>2 DEF Clash
  <2>2. CASE session[s] # NoSession
    <3>1. ~Clash(s, t)
      BY <1>2, <1>8, <1>0, <2>2 DEF NamesInv, RowIsApart
    <3> QED BY <1>1, <1>3, <1>6, <1>8, <2>2, <3>1 DEF Clash
  <2> QED BY <2>1, <2>2
<1>9. \A t, u \in CaptureId : Clash(t, u)' <=> Clash(u, t)'
  BY DEF Clash
<1>10. \A t, u \in CaptureId \ {s} : Clash(t, u)' <=> Clash(t, u)
  BY <1>6 DEF Clash
<1>11. ASSUME NEW t \in CaptureId, NEW u \in CaptureId PROVE NamesApart(t, u)'
  <2>1. CASE t = s /\ u # s
    BY <1>6, <1>8, <2>1 DEF NamesApart
  <2>2. CASE u = s /\ t # s
    BY <1>6, <1>8, <1>9, <2>2, CrossedIsSymmetric DEF NamesApart
  <2>3. CASE t # s /\ u # s
    BY <1>6, <1>10, <2>3 DEF NamesInv, NamesApart
  <2>4. CASE t = u
    BY <2>4 DEF NamesApart
  <2> QED BY <2>1, <2>2, <2>3, <2>4
<1>12. \A p, o \in Call : OverlapsAreCrossed(p, o)'
  BY <1>4, <1>5, <1>6, NoCallFacts DEF NamesInv, OverlapsAreCrossed
<1>13. ASSUME NEW p \in Call PROVE NameIsFree(p)'
  <2>1. CASE p = q
    BY <1>4, <2>1, NoCallFacts DEF NameIsFree, Naming
  <2>2. CASE p # q /\ Naming(p)
    <3> SUFFICES ASSUME NEW t \in CaptureId, t # call[p].session, Active(t)',
                        ~Crossed(call[p].session, t)
                 PROVE  session'[t].name # call[p].asked
      BY <1>4, <1>5, <1>6, <2>2 DEF NameIsFree, Naming
    <3>1. CASE t # s
      BY <1>6, <2>2, <3>1 DEF NamesInv, NameIsFree
    <3>2. CASE t = s
      BY <1>7, <2>2, <3>2 DEF Naming
    <3> QED BY <3>1, <3>2
  <2>3. CASE p # q /\ ~Naming(p)
    BY <1>4, <2>3 DEF NameIsFree, Naming
  <2> QED BY <2>1, <2>2, <2>3
<1>14. ASSUME NEW p \in Call PROVE RowIsApart(p)'
  <2>1. CASE p = q
    BY <1>4, <2>1, NoCallFacts DEF RowIsApart
  <2>2. CASE p # q /\ call[p].op = "session"
    <3>3. PICK u \in CaptureId : u = call[p].session
      BY <1>5, <2>2
    <3> SUFFICES ASSUME session'[u] # NoSession,
                        NEW t \in CaptureId, t # u, Active(t)', ~Crossed(u, t)
                 PROVE  ~Clash(u, t)'
      BY <1>4, <1>6, <2>2, <3>3 DEF RowIsApart
    <3>1. CASE u = s
      <4>1. t # s /\ Active(t) /\ ~Crossed(s, t)
        BY <1>6, <3>1
      <4> QED BY <1>8, <3>1, <4>1
    <3>2. CASE u # s
      <4>1. t # s
        BY <1>7, <2>2, <3>2, <3>3
      <4>2. ~Clash(u, t)
        BY <1>6, <2>2, <3>2, <3>3, <4>1 DEF NamesInv, RowIsApart
      <4> QED BY <1>10, <3>2, <4>1, <4>2
    <3> QED BY <3>1, <3>2
  <2>3. CASE p # q /\ call[p].op # "session"
    BY <1>4, <2>3 DEF RowIsApart
  <2> QED BY <2>1, <2>2, <2>3
<1> QED BY <1>11, <1>12, <1>13, <1>14 DEF NamesInv

\* A session that is brought back is crossed with all others.
LEMMA NamesAfterUpdate ==
  ASSUME CapturesTypeOK, NamesInv, media_wlc_update_session
  PROVE  NamesInv'
<1>1. PICK s \in CaptureId, r \in SessionRecord :
        /\ session[s] # NoSession /\ session' = [session EXCEPT ![s] = r]
        /\ r.asked = session[s].asked /\ r.name = session[s].name
        /\ crossed' = IF ~Active(s) /\ r.state \notin Terminal
                      THEN crossed \cup {{s, t} : t \in CaptureId} ELSE crossed
  BY UpdateSessionFacts
<1>2. UNCHANGED call
  BY UpdateSessionFacts
<1>3. \A t, u \in CaptureId : Clash(t, u)' <=> Clash(t, u)
  BY <1>1 DEF CapturesTypeOK, Clash
<1>4. \A t \in CaptureId : (session'[t] # NoSession <=> session[t] # NoSession)
                           /\ session'[t].name = session[t].name
  BY <1>1, CaptureRows DEF CapturesTypeOK
<1>5. \A t, u \in CaptureId : Crossed(t, u) => Crossed(t, u)'
  BY <1>1 DEF Crossed
<1>6. ASSUME NEW t \in CaptureId, NEW u \in CaptureId, Active(t)', ~Active(t)
      PROVE  Crossed(t, u)' /\ Crossed(u, t)'
  <2>1. t = s /\ ~Active(s) /\ r.state \notin Terminal
    BY <1>1, <1>6 DEF CapturesTypeOK, Active
  <2>2. Crossed(t, u)'
    BY <1>1, <2>1 DEF Crossed
  <2> QED BY <2>2, CrossedIsSymmetric
<1>7. \A q \in Call : call[q].op = "session" => call[q].session \in CaptureId
  BY DEF CapturesTypeOK, CallIsAlong
<1>8. \A p, q \in Call : OverlapsAreCrossed(p, q)'
  BY <1>2, <1>5, <1>7 DEF NamesInv, OverlapsAreCrossed
<1>9. \A q \in Call : NameIsFree(q)'
  BY <1>2, <1>4, <1>5, <1>6, <1>7 DEF NamesInv, NameIsFree, Naming
<1>10. \A q \in Call : RowIsApart(q)'
  BY <1>2, <1>3, <1>4, <1>5, <1>6, <1>7 DEF NamesInv, RowIsApart
<1>11. \A t, u \in CaptureId : NamesApart(t, u)'
  BY <1>3, <1>5, <1>6 DEF NamesInv, NamesApart
<1> QED BY <1>8, <1>9, <1>10, <1>11 DEF NamesInv

LEMMA NamesInitOK == CapturesInit => NamesInv
<1> SUFFICES ASSUME CapturesInit PROVE NamesInv
  OBVIOUS
<1>1. \A q \in Call : call[q].op = "none"
  BY NoCallFacts DEF CapturesInit
<1>2. \A s \in CaptureId : ~Active(s)
  BY DEF CapturesInit, Active, NoSession
<1> QED BY <1>1, <1>2 DEF NamesInv, OverlapsAreCrossed, NameIsFree, RowIsApart, NamesApart, Naming

LEMMA NamesStep == CapturesTypeOK /\ NamesInv /\ [CapturesNext]_captureVars => NamesInv'
<1> SUFFICES ASSUME CapturesTypeOK, NamesInv, [CapturesNext]_captureVars PROVE NamesInv'
  OBVIOUS
<1>1. ASSUME NEW q \in Call, CheckDirectory(q) PROVE NamesInv'
  BY <1>1, CheckDirectoryFacts, QuietCall, NoCallFacts
<1>2. ASSUME NEW q \in Call, CreatePackage(q) PROVE NamesInv'
  BY <1>2, CreatePackageFacts, QuietCall, NoCallFacts
<1>3. ASSUME NEW q \in Call, CreateLeg(q) PROVE NamesInv'
  BY <1>3, CreateLegFacts, QuietCall
<1>4. ASSUME NEW q \in Call, Preflight(q) PROVE NamesInv'
  BY <1>4, PreflightFacts, QuietCall, NoCallFacts
<1>5. ASSUME NEW q \in Call, InsertLeg(q) PROVE NamesInv'
  <2>1. PICK new : OneCall(q, new) /\ new.op = "leg"
    BY <1>5, InsertLegFacts
  <2>2. UNCHANGED <<session, crossed>>
    BY <1>5, InsertLegFacts
  <2> QED BY <2>1, <2>2, QuietCall
<1>6. ASSUME NEW q \in Call, WriteLegSheet(q) PROVE NamesInv'
  BY <1>6, WriteLegSheetFacts, QuietCall, NoCallFacts
<1>7. ASSUME NEW q \in Call, GiveUpLeg(q) PROVE NamesInv'
  BY <1>7, GiveUpLegFacts, QuietCall, NoCallFacts
<1>8. \A q \in Call : call[q].op = "session" => call[q].session \in CaptureId
  BY DEF CapturesTypeOK, CallIsAlong
<1>9. ASSUME EditConfig PROVE NamesInv'
  <2>1. \A s, t \in CaptureId : Crossed(s, t) => Crossed(s, t)'
    BY <1>9, EditConfigFacts DEF Crossed
  <2> QED BY <1>8, <1>9, <2>1, EditConfigFacts, QuietNames
<1>10. CASE UNCHANGED captureVars
  <2>1. UNCHANGED <<session, call, crossed>>
    BY <1>10 DEF captureVars
  <2>2. \A s, t \in CaptureId : Crossed(s, t) => Crossed(s, t)'
    BY <2>1 DEF Crossed
  <2> QED BY <1>8, <2>1, <2>2, QuietNames
<1> QED BY <1>1, <1>2, <1>3, <1>4, <1>5, <1>6, <1>7, <1>9, <1>10,
           NamesAfterCreate, NamesAfterCheck, NamesAfterInsert, NamesAfterUpdate DEF CapturesNext

\* Two sessions that are not at their end have different capture names if one was created
\* after the other, neither was brought back from imported or aborted, and both were asked
\* for with a name safe_name keeps.  Nothing is said of creations that overlap: the name
\* is looked up once, before the package and the row are made (media_wlc_name_in_use).
THEOREM NamesStayApart == CapturesSpec => []CaptureNamesApart
<1>1. NamesInv => CaptureNamesApart
  BY DEF NamesInv, NamesApart, CaptureNamesApart, Crossed, Clash
<1> QED BY <1>1, NamesInitOK, NamesStep, CapturesTyped, PTL DEF CapturesSpec

-----------------------------------------------------------------------------
(* Legs and their sheets                                                    *)

\* The target a leg took from the configuration is still the one there, or the
\* configuration was edited meanwhile.
TargetIsCurrent(q) ==
  call[q].op = "leg" /\ call[q].at = "preflight" /\ ~call[q].edited => call[q].mac = TargetMac

TargetIsReceiver(q) ==
  call[q].op = "leg" /\ call[q].at = "insert" /\ ~call[q].edited =>
    session[call[q].session].receiver \in {Blank, call[q].mac}

LegIsOfItsReceiver(i) ==
  /\ session[leg[i].session] # NoSession
  /\ leg[i].edited \/ session[leg[i].session].receiver \in {Blank, leg[i].client}

ReceiverInv ==
  /\ \A q \in Call : TargetIsCurrent(q) /\ TargetIsReceiver(q)
  /\ \A i \in DOMAIN leg : LegIsOfItsReceiver(i)

\* A step that keeps the rows, the legs and the configuration.
LEMMA ReceiversOfOneCall ==
  ASSUME CapturesTypeOK, ReceiverInv, UNCHANGED <<session, leg, config>>,
         NEW q \in Call, NEW new, OneCall(q, new),
         \/ new.op # "leg" \/ new.at = "stop"
         \/ new.at = "preflight" /\ new.mac = TargetMac
         \/ /\ new.at = "insert" /\ new.session = call[q].session /\ new.mac = call[q].mac
            /\ new.edited = call[q].edited /\ call[q].op = "leg" /\ call[q].at = "preflight"
            /\ Blockers(call[q].session) = {}
  PROVE  ReceiverInv'
<1>1. \A p \in Call : call'[p] = IF p = q THEN new ELSE call[p]
  BY OthersStay
<1>2. TargetMac' = TargetMac
  BY DEF TargetMac
<1>3. ASSUME NEW p \in Call PROVE TargetIsCurrent(p)' /\ TargetIsReceiver(p)'
  <2>1. CASE p # q
    BY <1>1, <1>2, <2>1 DEF ReceiverInv, TargetIsCurrent, TargetIsReceiver
  <2>2. CASE p = q /\ ~(new.op = "leg" /\ new.at = "insert")
    BY <1>1, <1>2, <2>2 DEF TargetIsCurrent, TargetIsReceiver
  <2>3. CASE p = q /\ new.op = "leg" /\ new.at = "insert"
    <3>1. /\ new.session = call[q].session /\ new.mac = call[q].mac /\ new.edited = call[q].edited
          /\ call[q].op = "leg" /\ call[q].at = "preflight"
          /\ "receiver" \notin Blockers(call[q].session) /\ "target" \notin Blockers(call[q].session)
      BY <2>3
    <3>2. /\ TargetMac # Blank
          /\ session[call[q].session].receiver \in {Blank, TargetMac}
      BY <3>1 DEF Blockers
    <3>3. ~call[q].edited => call[q].mac = TargetMac
      BY <3>1 DEF ReceiverInv, TargetIsCurrent
    <3> QED BY <1>1, <2>3, <3>1, <3>2, <3>3 DEF TargetIsCurrent, TargetIsReceiver
  <2> QED BY <2>1, <2>2, <2>3
<1> QED BY <1>3 DEF ReceiverInv, LegIsOfItsReceiver

\* A row that is inserted, or set to another state, keeps the receiver it had.
LEMMA ReceiversOfRows ==
  ASSUME CapturesTypeOK, ReceiverInv, UNCHANGED <<leg, config>>,
         \A s \in CaptureId : session[s] # NoSession =>
           session'[s] # NoSession /\ session'[s].receiver = session[s].receiver,
         \A q \in Call : call'[q].op = "leg" => call'[q] = call[q]
  PROVE  ReceiverInv'
<1>1. \A i \in DOMAIN leg : leg[i].session \in CaptureId
  <2>1. leg \in Seq(LegRecord)
    BY DEF CapturesTypeOK, LegRecord
  <2>2. \A i \in DOMAIN leg : leg[i] \in LegRecord
    BY <2>1
  <2> QED BY <2>2 DEF LegRecord
<1>2. \A i \in DOMAIN leg : LegIsOfItsReceiver(i)'
  BY <1>1 DEF ReceiverInv, LegIsOfItsReceiver
<1>3. \A q \in Call : call[q].op = "leg" => call[q].session \in CaptureId /\ session[call[q].session] # NoSession
  BY DEF CapturesTypeOK, CallIsAlong
<1>4. TargetMac' = TargetMac
  BY DEF TargetMac
<1>5. \A q \in Call : TargetIsCurrent(q)' /\ TargetIsReceiver(q)'
  BY <1>3, <1>4 DEF ReceiverInv, TargetIsCurrent, TargetIsReceiver
<1> QED BY <1>2, <1>5 DEF ReceiverInv

LEMMA ReceiversAfterLeg ==
  ASSUME CapturesTypeOK, ReceiverInv, NEW q \in Call, InsertLeg(q)
  PROVE  ReceiverInv'
<1> DEFINE new == [session |-> call[q].session, client |-> call[q].mac,
                   ap |-> call[q].ap, edited |-> call[q].edited]
<1>1. /\ call[q].op = "leg" /\ call[q].at = "insert" /\ UNCHANGED <<session, config>>
      /\ leg' = Append(leg, new)
  BY InsertLegFacts
<1>2. PICK now : OneCall(q, now) /\ now.op = "leg" /\ now.at = "start"
  BY InsertLegFacts
<1>3. \A p \in Call : call'[p] = IF p = q THEN now ELSE call[p]
  BY <1>2, OthersStay
<1>4. /\ new.session = call[q].session /\ new.client = call[q].mac /\ new.edited = call[q].edited
      /\ session[call[q].session] # NoSession
  BY <1>1 DEF CapturesTypeOK, CallIsAlong
<1> HIDE DEF new
<1>5. /\ DOMAIN leg' = 1..(Len(leg) + 1) /\ DOMAIN leg = 1..Len(leg)
      /\ \A i \in 1..Len(leg) : leg'[i] = leg[i]
      /\ leg'[Len(leg) + 1] = new
  BY <1>1 DEF CapturesTypeOK
<1>6. new.edited \/ session[new.session].receiver \in {Blank, new.client}
  BY <1>1, <1>4 DEF ReceiverInv, TargetIsReceiver
<1>7. Len(leg) \in Nat
  BY DEF CapturesTypeOK
<1>8. ASSUME NEW i \in DOMAIN leg' PROVE LegIsOfItsReceiver(i)'
  <2>1. CASE i = Len(leg) + 1
    BY <1>1, <1>4, <1>5, <1>6, <2>1 DEF LegIsOfItsReceiver
  <2>2. CASE i # Len(leg) + 1
    <3>1. i \in DOMAIN leg
      BY <1>5, <1>7, <2>2
    <3> QED BY <1>1, <1>5, <3>1 DEF ReceiverInv, LegIsOfItsReceiver
  <2> QED BY <2>1, <2>2
<1>9. TargetMac' = TargetMac
  BY <1>1 DEF TargetMac
<1>10. \A p \in Call : TargetIsCurrent(p)' /\ TargetIsReceiver(p)'
  BY <1>1, <1>2, <1>3, <1>9 DEF ReceiverInv, TargetIsCurrent, TargetIsReceiver
<1> QED BY <1>8, <1>10 DEF ReceiverInv

LEMMA ReceiverStep == CapturesTypeOK /\ ReceiverInv /\ [CapturesNext]_captureVars => ReceiverInv'
<1> SUFFICES ASSUME CapturesTypeOK, ReceiverInv, [CapturesNext]_captureVars PROVE ReceiverInv'
  OBVIOUS
<1>1. ASSUME NEW q \in Call, CreateSession(q) PROVE ReceiverInv'
  BY <1>1, CreateSessionFacts, ReceiversOfOneCall
<1>2. ASSUME NEW q \in Call, CheckDirectory(q) PROVE ReceiverInv'
  BY <1>2, CheckDirectoryFacts, ReceiversOfOneCall, NoCallFacts
<1>3. ASSUME NEW q \in Call, CheckName(q) PROVE ReceiverInv'
  BY <1>3, CheckNameFacts, ReceiversOfOneCall, NoCallFacts
<1>4. ASSUME NEW q \in Call, CreatePackage(q) PROVE ReceiverInv'
  BY <1>4, CreatePackageFacts, ReceiversOfOneCall, NoCallFacts
<1>5. ASSUME NEW q \in Call, media_wlc_insert_session(q) PROVE ReceiverInv'
  <2>1. OneCall(q, NoCall) /\ UNCHANGED <<leg, config>>
    BY <1>5, InsertSessionFacts
  <2>2. PICK r \in SessionRecord :
          /\ session' = [session EXCEPT ![call[q].session] = r]
          /\ session[call[q].session] # NoSession => r.receiver = session[call[q].session].receiver
    BY <1>5, InsertSessionFacts
  <2>3. \A s \in CaptureId : session[s] # NoSession =>
          session'[s] # NoSession /\ session'[s].receiver = session[s].receiver
    BY <2>2, CaptureRows DEF CapturesTypeOK
  <2>4. \A p \in Call : call'[p].op = "leg" => call'[p] = call[p]
    BY <2>1, OthersStay, NoCallFacts
  <2> QED BY <2>1, <2>3, <2>4, ReceiversOfRows
<1>6. ASSUME NEW q \in Call, CreateLeg(q) PROVE ReceiverInv'
  BY <1>6, CreateLegFacts, ReceiversOfOneCall
<1>7. ASSUME NEW q \in Call, Preflight(q) PROVE ReceiverInv'
  <2>1. /\ call[q].op = "leg" /\ call[q].at = "preflight" /\ UNCHANGED <<session, leg, config>>
    BY <1>7, PreflightFacts
  <2>2. CASE OneCall(q, NoCall)
    BY <2>1, <2>2, ReceiversOfOneCall, NoCallFacts
  <2>3. CASE \E new : /\ OneCall(q, new) /\ Blockers(call[q].session) = {}
                      /\ new.op = "leg" /\ new.at = "insert" /\ new.session = call[q].session
                      /\ new.mac = call[q].mac /\ new.edited = call[q].edited
    BY <2>1, <2>3, ReceiversOfOneCall
  <2> QED BY <1>7, <2>2, <2>3, PreflightFacts
<1>8. ASSUME NEW q \in Call, WriteLegSheet(q) PROVE ReceiverInv'
  BY <1>8, WriteLegSheetFacts, ReceiversOfOneCall, NoCallFacts
<1>9. ASSUME NEW q \in Call, GiveUpLeg(q) PROVE ReceiverInv'
  BY <1>9, GiveUpLegFacts, ReceiversOfOneCall, NoCallFacts
<1>10. ASSUME media_wlc_update_session PROVE ReceiverInv'
  <2>1. PICK s \in CaptureId, r \in SessionRecord :
          session' = [session EXCEPT ![s] = r] /\ r.receiver = session[s].receiver
    BY <1>10, UpdateSessionFacts
  <2>2. \A t \in CaptureId : session[t] # NoSession =>
          session'[t] # NoSession /\ session'[t].receiver = session[t].receiver
    BY <2>1, CaptureRows DEF CapturesTypeOK
  <2> QED BY <1>10, <2>2, UpdateSessionFacts, ReceiversOfRows
<1>11. ASSUME EditConfig PROVE ReceiverInv'
  <2>1. \A q \in Call : TargetIsCurrent(q)' /\ TargetIsReceiver(q)'
    BY <1>11, EditConfigFacts DEF TargetIsCurrent, TargetIsReceiver
  <2>2. \A i \in DOMAIN leg : LegIsOfItsReceiver(i)'
    BY <1>11, EditConfigFacts DEF ReceiverInv, LegIsOfItsReceiver
  <2> QED BY <1>11, <2>1, <2>2, EditConfigFacts DEF ReceiverInv
<1>12. CASE UNCHANGED captureVars
  BY <1>12 DEF captureVars, ReceiverInv, TargetIsCurrent, TargetIsReceiver, LegIsOfItsReceiver, TargetMac
<1> QED BY <1>1, <1>2, <1>3, <1>4, <1>5, <1>6, <1>7, <1>8, <1>9, <1>10, <1>11, <1>12,
           ReceiversAfterLeg DEF CapturesNext

LEMMA ReceiverInitOK == CapturesInit => ReceiverInv
<1> SUFFICES ASSUME CapturesInit PROVE ReceiverInv
  OBVIOUS
<1>1. \A q \in Call : call[q].op = "none"
  BY NoCallFacts DEF CapturesInit
<1>2. DOMAIN leg = {}
  BY DEF CapturesInit
<1> QED BY <1>1, <1>2 DEF ReceiverInv, TargetIsCurrent, TargetIsReceiver

\* The sheet of the newest leg of a session.
NewestSheet(s) == IF LegsOf(s) = {} THEN Blank ELSE leg[Max(LegsOf(s))].ap

WritesSheets(q) == call[q].at \in {"start", "stop"}

\* One request at a time prepares a leg of the session.
OneLegAtATime(s) ==
  \A p, q \in Working("leg", s) : p = q

\* The sheets are those of the newest leg, or the request that inserted it is
\* about to write them.
SheetsFollowLegs(s) ==
  /\ (\A q \in Working("leg", s) : ~WritesSheets(q)) =>
       package[s].start = NewestSheet(s) /\ package[s].stop = NewestSheet(s)
  /\ \A q \in Working("leg", s) :
       /\ WritesSheets(q) => call[q].ap = NewestSheet(s)
       /\ call[q].at = "stop" => package[s].start = NewestSheet(s)

SheetsInv == \A s \in CaptureId : s \notin torn => OneLegAtATime(s) /\ SheetsFollowLegs(s)

LEMMA NewestSheetStays ==
  ASSUME UNCHANGED leg, NEW s \in CaptureId
  PROVE  NewestSheet(s)' = NewestSheet(s)
BY DEF NewestSheet, LegsOf

LEMMA GreatestIndex ==
  ASSUME NEW n \in Nat, NEW S \in SUBSET (1..n), S # {}
  PROVE  \E i \in S : \A j \in S : i >= j
<1> DEFINE R == OpToRel(<, Nat)
           T == {n - i : i \in S}
<1>1. IsWellFoundedOn(R, Nat)
  BY NatLessThanWellFounded
<1>2. T \subseteq Nat /\ T # {}
  <2> HIDE DEF R
  <2>1. \A i \in S : n - i \in Nat
    OBVIOUS
  <2>2. PICK i \in S : TRUE
    OBVIOUS
  <2>3. n - i \in T
    BY <2>2
  <2> QED BY <2>1, <2>3
<1>3. PICK m \in T : \A k \in T : ~(<<k, m>> \in R)
  <2> HIDE DEF R, T
  <2> QED BY <1>1, <1>2, WFMin
<1>4. PICK i \in S : m = n - i
  OBVIOUS
<1>5. ASSUME NEW j \in S PROVE i >= j
  <2>1. n - j \in T /\ m \in Nat /\ n - j \in Nat
    BY <1>2
  <2>2. ~(n - j < m)
    BY <1>3, <2>1 DEF OpToRel
  <2> QED BY <1>4, <2>2
<1> QED BY <1>5

\* The leg that is appended is the newest of its session, and of no other.
LEMMA NewestAfterAppend ==
  ASSUME CapturesTypeOK, NEW new \in LegRecord, leg' = Append(leg, new), NEW s \in CaptureId
  PROVE  NewestSheet(s)' = IF s = new.session THEN new.ap ELSE NewestSheet(s)
<1> DEFINE n == Len(leg) + 1
<1>1. leg \in Seq(LegRecord) /\ Len(leg) \in Nat /\ DOMAIN leg = 1..Len(leg)
  BY DEF CapturesTypeOK, LegRecord
<1>2. /\ DOMAIN leg' = 1..n /\ n \in Nat /\ n \notin DOMAIN leg
      /\ \A i \in DOMAIN leg : leg'[i] = leg[i] /\ i \in DOMAIN leg' /\ i \in Nat /\ n >= i /\ ~(i >= n)
      /\ leg'[n] = new /\ n >= n
      /\ \A i \in DOMAIN leg' : i = n \/ i \in DOMAIN leg
  BY <1>1
<1>3. LegsOf(s)' = {i \in DOMAIN leg' : leg'[i].session = s}
  BY DEF LegsOf
<1> HIDE DEF n
<1>4. CASE s = new.session
  <2>1. n \in LegsOf(s)' /\ \A i \in LegsOf(s)' : n >= i
    BY <1>2, <1>3, <1>4
  <2>2. \A i \in LegsOf(s)' : (\A j \in LegsOf(s)' : i >= j) => i = n
    BY <1>2, <1>3, <2>1
  <2>3. Max(LegsOf(s)') = n
    BY <2>1, <2>2 DEF Max
  <2> QED BY <1>2, <1>4, <2>1, <2>3 DEF NewestSheet
<1>5. CASE s # new.session
  <2>1. LegsOf(s)' = LegsOf(s)
    BY <1>2, <1>3, <1>5 DEF LegsOf
  <2>2. CASE LegsOf(s) = {}
    BY <1>5, <2>1, <2>2 DEF NewestSheet
  <2>3. CASE LegsOf(s) # {}
    <3>1. Max(LegsOf(s)) \in DOMAIN leg
      <4>1. LegsOf(s) \in SUBSET (1..Len(leg))
        BY <1>1 DEF LegsOf
      <4>2. PICK i \in LegsOf(s) : \A j \in LegsOf(s) : i >= j
        BY <1>1, <2>3, <4>1, GreatestIndex
      <4>3. Max(LegsOf(s)) \in LegsOf(s)
        BY <4>2 DEF Max
      <4> QED BY <4>3 DEF LegsOf
    <3> QED BY <1>2, <1>5, <2>1, <2>3, <3>1 DEF NewestSheet
  <2> QED BY <2>2, <2>3
<1> QED BY <1>4, <1>5

\* A step of a call that prepares no leg of the session.
LEMMA SheetsOfOthers ==
  ASSUME CapturesTypeOK, SheetsInv, NEW q \in Call, NEW new, OneCall(q, new),
         torn \subseteq torn', NEW s \in CaptureId,
         package'[s].start = package[s].start, package'[s].stop = package[s].stop,
         NewestSheet(s)' = NewestSheet(s),
         ~(call[q].op = "leg" /\ call[q].session = s), ~(new.op = "leg" /\ new.session = s)
  PROVE  s \notin torn' => OneLegAtATime(s)' /\ SheetsFollowLegs(s)'
<1>1. \A p \in Call : call'[p] = IF p = q THEN new ELSE call[p]
  BY OthersStay
<1>2. Working("leg", s)' = Working("leg", s) /\ q \notin Working("leg", s)
  BY <1>1 DEF Working
<1>3. \A p \in Working("leg", s) : call'[p] = call[p]
  BY <1>1, <1>2 DEF Working
<1> QED BY <1>2, <1>3 DEF SheetsInv, OneLegAtATime, SheetsFollowLegs, WritesSheets

\* The one call that prepares a leg of the session goes on or ends.
LEMMA SheetsOfWorker ==
  ASSUME CapturesTypeOK, SheetsInv, NEW q \in Call, NEW new, OneCall(q, new),
         NEW s \in CaptureId, s \notin torn, call[q].op = "leg", call[q].session = s,
         \/ new.op = "leg" /\ new.session = s /\ new.ap = NewestSheet(s)' /\ new.at = "start"
         \/ /\ new.op = "leg" /\ new.session = s /\ new.ap = NewestSheet(s)' /\ new.at = "stop"
            /\ package'[s].start = NewestSheet(s)'
         \/ /\ \/ new.op = "none"
               \/ new.op = "leg" /\ new.session = s /\ new.at \in {"preflight", "insert"}
            /\ package'[s].start = NewestSheet(s)' /\ package'[s].stop = NewestSheet(s)'
  PROVE  OneLegAtATime(s)' /\ SheetsFollowLegs(s)'
<1>1. \A p \in Call : call'[p] = IF p = q THEN new ELSE call[p]
  BY OthersStay
<1>2. \A p \in Call : call[p].op = "leg" /\ call[p].session = s => p = q
  BY DEF SheetsInv, OneLegAtATime, Working
<1>3. \A p \in Working("leg", s)' : p = q /\ call'[p] = new /\ new.op = "leg"
  BY <1>1, <1>2 DEF Working
<1>4. new.op = "leg" => q \in Working("leg", s)'
  BY <1>1 DEF Working
<1>5. CASE new.op = "none"
  <2>1. Working("leg", s)' = {}
    BY <1>3, <1>5
  <2> QED BY <1>5, <2>1 DEF OneLegAtATime, SheetsFollowLegs
<1>6. CASE new.op = "leg"
  <2>1. /\ new.at = "start" => new.ap = NewestSheet(s)'
        /\ new.at = "stop" => new.ap = NewestSheet(s)' /\ package'[s].start = NewestSheet(s)'
        /\ new.at \notin {"start", "stop"} =>
             package'[s].start = NewestSheet(s)' /\ package'[s].stop = NewestSheet(s)'
    BY <1>6
  <2>2. OneLegAtATime(s)'
    BY <1>3 DEF OneLegAtATime
  <2>3. \A p \in Working("leg", s)' : /\ WritesSheets(p)' => call'[p].ap = NewestSheet(s)'
                                      /\ call'[p].at = "stop" => package'[s].start = NewestSheet(s)'
    BY <1>3, <2>1 DEF WritesSheets
  <2>4. (\A p \in Working("leg", s)' : ~WritesSheets(p)') =>
          package'[s].start = NewestSheet(s)' /\ package'[s].stop = NewestSheet(s)'
    <3>1. WritesSheets(q)' <=> new.at \in {"start", "stop"}
      BY <1>1 DEF WritesSheets
    <3> QED BY <1>4, <1>6, <2>1, <3>1
  <2> QED BY <2>2, <2>3, <2>4 DEF SheetsFollowLegs
<1> QED BY <1>5, <1>6

\* While the one call that prepares a leg has not written, the sheets are those
\* of the newest leg so far.
LEMMA SheetsBefore ==
  ASSUME SheetsInv, NEW q \in Call, NEW s \in CaptureId, s \notin torn,
         call[q].op = "leg", call[q].session = s
  PROVE  /\ call[q].at \notin {"start", "stop"} =>
              package[s].start = NewestSheet(s) /\ package[s].stop = NewestSheet(s)
         /\ call[q].at \in {"start", "stop"} => call[q].ap = NewestSheet(s)
         /\ call[q].at = "stop" => package[s].start = NewestSheet(s)
<1>1. q \in Working("leg", s) /\ \A p \in Working("leg", s) : p = q
  BY DEF SheetsInv, OneLegAtATime, Working
<1> QED BY <1>1 DEF SheetsInv, SheetsFollowLegs, WritesSheets

LEMMA SheetsAfterCreate ==
  ASSUME CapturesTypeOK, SheetsInv, NEW q \in Call, CreateLeg(q), call[q] = NoCall
  PROVE  SheetsInv'
<1>1. PICK s, new :
        /\ s \in CaptureId
        /\ OneCall(q, new) /\ new.op = "leg" /\ new.at = "preflight" /\ new.session = s
        /\ torn' = (IF Working("leg", s) # {} THEN torn \cup {s} ELSE torn)
        /\ UNCHANGED <<package, leg>>
  BY CreateLegFacts
<1>2. \A p \in Call : call'[p] = IF p = q THEN new ELSE call[p]
  BY <1>1, OthersStay
<1>3. \A t \in CaptureId : NewestSheet(t)' = NewestSheet(t)
  BY <1>1, NewestSheetStays
<1>4. ASSUME NEW t \in CaptureId, t \notin torn' PROVE OneLegAtATime(t)' /\ SheetsFollowLegs(t)'
  <2>1. CASE t # s
    <3>1. ~(call[q].op = "leg" /\ call[q].session = t) /\ ~(new.op = "leg" /\ new.session = t)
      BY <1>1, <2>1, NoCallFacts
    <3>2. torn \subseteq torn'
      BY <1>1
    <3> QED BY <1>1, <1>3, <1>4, <3>1, <3>2, SheetsOfOthers
  <2>2. CASE t = s
    <3>1. Working("leg", t) = {} /\ t \notin torn
      BY <1>1, <1>4, <2>2
    <3>2. package[t].start = NewestSheet(t) /\ package[t].stop = NewestSheet(t)
      BY <3>1 DEF SheetsInv, SheetsFollowLegs
    <3>3. \A p \in Working("leg", t)' : p = q /\ call'[p] = new
      BY <1>2, <3>1 DEF Working
    <3> QED BY <1>1, <1>3, <3>2, <3>3 DEF OneLegAtATime, SheetsFollowLegs, WritesSheets
  <2> QED BY <2>1, <2>2
<1> QED BY <1>4 DEF SheetsInv

LEMMA SheetsAfterPreflight ==
  ASSUME CapturesTypeOK, SheetsInv, NEW q \in Call, Preflight(q)
  PROVE  SheetsInv'
<1>1. /\ call[q].op = "leg" /\ call[q].at = "preflight" /\ UNCHANGED <<package, leg, torn>>
  BY PreflightFacts
<1>2. PICK new : /\ OneCall(q, new)
                 /\ \/ new.op = "none"
                    \/ new.op = "leg" /\ new.at = "insert" /\ new.session = call[q].session
  BY PreflightFacts, NoCallFacts
<1>3. \A t \in CaptureId : NewestSheet(t)' = NewestSheet(t)
  BY <1>1, NewestSheetStays
<1>4. ASSUME NEW t \in CaptureId, t \notin torn' PROVE OneLegAtATime(t)' /\ SheetsFollowLegs(t)'
  <2>1. CASE t # call[q].session
    <3>1. ~(new.op = "leg" /\ new.session = t) /\ torn \subseteq torn'
      BY <1>1, <1>2, <2>1
    <3> QED BY <1>1, <1>2, <1>3, <1>4, <2>1, <3>1, SheetsOfOthers
  <2>2. CASE t = call[q].session
    <3>1. package[t].start = NewestSheet(t) /\ package[t].stop = NewestSheet(t)
      BY <1>1, <1>4, <2>2, SheetsBefore
    <3>2. package'[t].start = NewestSheet(t)' /\ package'[t].stop = NewestSheet(t)'
      BY <1>1, <1>3, <3>1
    <3>3. \/ new.op = "none"
          \/ new.op = "leg" /\ new.session = t /\ new.at \in {"preflight", "insert"}
      BY <1>2, <2>2
    <3>4. OneCall(q, new) /\ t \notin torn /\ call[q].op = "leg" /\ call[q].session = t
      BY <1>1, <1>2, <1>4, <2>2
    <3> QED BY <3>2, <3>3, <3>4, SheetsOfWorker
  <2> QED BY <2>1, <2>2
<1> QED BY <1>4 DEF SheetsInv

LEMMA SheetsAfterInsert ==
  ASSUME CapturesTypeOK, SheetsInv, NEW q \in Call, InsertLeg(q)
  PROVE  SheetsInv'
<1> DEFINE l == [session |-> call[q].session, client |-> call[q].mac,
                 ap |-> call[q].ap, edited |-> call[q].edited]
<1>1. /\ call[q].op = "leg" /\ call[q].at = "insert" /\ UNCHANGED <<package, torn>>
      /\ leg' = Append(leg, l)
  BY InsertLegFacts
<1>2. PICK new : /\ OneCall(q, new)
                 /\ new.op = "leg" /\ new.at = "start" /\ new.session = call[q].session
                 /\ new.ap = call[q].ap
  BY InsertLegFacts
<1>3. l \in LegRecord /\ l.session = call[q].session /\ l.ap = call[q].ap
  <2>1. call[q] \in CallRecord /\ call[q].session \in CaptureId
    BY <1>1 DEF CapturesTypeOK, CallIsAlong
  <2> QED BY <2>1 DEF LegRecord, CallRecord
<1> HIDE DEF l
<1>4. \A t \in CaptureId : NewestSheet(t)' = IF t = call[q].session THEN call[q].ap ELSE NewestSheet(t)
  BY <1>1, <1>3, NewestAfterAppend
<1>5. ASSUME NEW t \in CaptureId, t \notin torn' PROVE OneLegAtATime(t)' /\ SheetsFollowLegs(t)'
  <2>1. CASE t # call[q].session
    <3>1. ~(new.op = "leg" /\ new.session = t) /\ torn \subseteq torn'
      BY <1>1, <1>2, <2>1
    <3> QED BY <1>1, <1>2, <1>4, <1>5, <2>1, <3>1, SheetsOfOthers
  <2>2. CASE t = call[q].session
    <3>1. new.ap = NewestSheet(t)'
      BY <1>2, <1>4, <2>2
    <3> QED BY <1>1, <1>2, <1>5, <2>2, <3>1, SheetsOfWorker
  <2> QED BY <2>1, <2>2
<1> QED BY <1>5 DEF SheetsInv

LEMMA SheetsAfterWrite ==
  ASSUME CapturesTypeOK, SheetsInv, NEW q \in Call, WriteLegSheet(q)
  PROVE  SheetsInv'
<1> DEFINE v == call[q].ap
<1>0. PICK s \in CaptureId : s = call[q].session
  BY WriteLegSheetFacts DEF CapturesTypeOK, CallIsAlong
<1>1. /\ call[q].op = "leg" /\ call[q].at \in {"start", "stop"} /\ UNCHANGED <<leg, torn>>
  BY WriteLegSheetFacts
<1>2. \A t \in CaptureId : NewestSheet(t)' = NewestSheet(t)
  BY <1>1, NewestSheetStays
<1>3. package \in [CaptureId -> PackageRecord]
  BY DEF CapturesTypeOK, PackageRecord
<1>4. CASE call[q].at = "start"
  <2>1. PICK new : /\ OneCall(q, new)
                   /\ new.op = "leg" /\ new.at = "stop" /\ new.session = s /\ new.ap = v
    BY <1>0, <1>4, WriteLegSheetFacts
  <2>2. package' = [package EXCEPT ![s].start = v]
    BY <1>0, <1>4, WriteLegSheetFacts
  <2> HIDE DEF v
  <2>3. \A t \in CaptureId : /\ package'[t].start = IF t = s THEN v ELSE package[t].start
                             /\ package'[t].stop = package[t].stop
    BY <1>3, <2>2 DEF PackageRecord
  <2>4. ASSUME NEW t \in CaptureId, t \notin torn' PROVE OneLegAtATime(t)' /\ SheetsFollowLegs(t)'
    <3>1. CASE t # s
      BY <1>0, <1>1, <1>2, <2>1, <2>3, <2>4, <3>1, SheetsOfOthers
    <3>2. CASE t = s
      <4>1. v = NewestSheet(s)
        BY <1>0, <1>1, <2>4, <3>2, SheetsBefore DEF v
      <4> QED BY <1>0, <1>1, <1>2, <2>1, <2>3, <2>4, <3>2, <4>1, SheetsOfWorker
    <3> QED BY <3>1, <3>2
  <2> QED BY <2>4 DEF SheetsInv
<1>5. CASE call[q].at = "stop"
  <2>1. OneCall(q, NoCall)
    BY <1>5, WriteLegSheetFacts
  <2>2. package' = [package EXCEPT ![s].stop = v]
    BY <1>0, <1>5, WriteLegSheetFacts
  <2> HIDE DEF v
  <2>3. \A t \in CaptureId : /\ package'[t].stop = IF t = s THEN v ELSE package[t].stop
                             /\ package'[t].start = package[t].start
    BY <1>3, <2>2 DEF PackageRecord
  <2>4. ASSUME NEW t \in CaptureId, t \notin torn' PROVE OneLegAtATime(t)' /\ SheetsFollowLegs(t)'
    <3>1. CASE t # s
      BY <1>0, <1>1, <1>2, <2>1, <2>3, <2>4, <3>1, SheetsOfOthers, NoCallFacts
    <3>2. CASE t = s
      <4>1. v = NewestSheet(s) /\ package[s].start = NewestSheet(s)
        BY <1>0, <1>1, <1>5, <2>4, <3>2, SheetsBefore DEF v
      <4>2. package'[t].start = NewestSheet(t)' /\ package'[t].stop = NewestSheet(t)'
        BY <1>2, <2>3, <3>2, <4>1
      <4>3. t \notin torn /\ call[q].op = "leg" /\ call[q].session = t
        BY <1>0, <1>1, <2>4, <3>2
      <4> QED BY <2>1, <4>2, <4>3, SheetsOfWorker, NoCallFacts
    <3> QED BY <3>1, <3>2
  <2> QED BY <2>4 DEF SheetsInv
<1> QED BY <1>1, <1>4, <1>5

LEMMA SheetsAfterGiveUp ==
  ASSUME CapturesTypeOK, SheetsInv, NEW q \in Call, GiveUpLeg(q)
  PROVE  SheetsInv'
<1>1. /\ OneCall(q, NoCall) /\ UNCHANGED <<package, leg>>
      /\ call[q].at \in {"insert", "start", "stop"}
      /\ torn' = IF call[q].at # "insert" THEN torn \cup {call[q].session} ELSE torn
  BY GiveUpLegFacts
<1>2. \A t \in CaptureId : NewestSheet(t)' = NewestSheet(t)
  BY <1>1, NewestSheetStays
<1>3. torn \subseteq torn'
  BY <1>1
<1>4. ASSUME NEW t \in CaptureId, t \notin torn' PROVE OneLegAtATime(t)' /\ SheetsFollowLegs(t)'
  <2>1. CASE ~(call[q].op = "leg" /\ call[q].session = t)
    BY <1>1, <1>2, <1>3, <1>4, <2>1, SheetsOfOthers, NoCallFacts
  <2>2. CASE call[q].op = "leg" /\ call[q].session = t
    <3>1. call[q].at = "insert" /\ t \notin torn
      BY <1>1, <1>4, <2>2
    <3>2. package[t].start = NewestSheet(t) /\ package[t].stop = NewestSheet(t)
      BY <2>2, <3>1, SheetsBefore
    <3>3. package'[t].start = NewestSheet(t)' /\ package'[t].stop = NewestSheet(t)'
      BY <1>1, <1>2, <3>2
    <3> QED BY <1>1, <2>2, <3>1, <3>3, SheetsOfWorker, NoCallFacts
  <2> QED BY <2>1, <2>2
<1> QED BY <1>4 DEF SheetsInv

\* The handlers of sessions leave the sheets.
LEMMA SheetsOfSessions ==
  ASSUME CapturesTypeOK, SheetsInv, NEW q \in Call, NEW new, OneCall(q, new),
         call[q].op # "leg", new.op # "leg", UNCHANGED <<leg, torn>>,
         \A s \in CaptureId : /\ package'[s].start = package[s].start
                              /\ package'[s].stop = package[s].stop
  PROVE  SheetsInv'
<1>1. \A s \in CaptureId : NewestSheet(s)' = NewestSheet(s)
  BY NewestSheetStays
<1>2. torn \subseteq torn'
  OBVIOUS
<1>3. ASSUME NEW s \in CaptureId, s \notin torn' PROVE OneLegAtATime(s)' /\ SheetsFollowLegs(s)'
  BY <1>1, <1>2, <1>3, SheetsOfOthers
<1> QED BY <1>3 DEF SheetsInv

\* So do a step that changes no call but for its edited mark.
LEMMA SheetsStay ==
  ASSUME SheetsInv, UNCHANGED <<package, leg, torn>>,
         \A q \in Call : /\ call'[q].op = call[q].op /\ call'[q].at = call[q].at
                         /\ call'[q].session = call[q].session /\ call'[q].ap = call[q].ap
  PROVE  SheetsInv'
<1>1. \A s \in CaptureId : NewestSheet(s)' = NewestSheet(s) /\ Working("leg", s)' = Working("leg", s)
  BY NewestSheetStays DEF Working
<1>2. \A s \in CaptureId : Working("leg", s) \subseteq Call
  BY DEF Working
<1> QED BY <1>1, <1>2 DEF SheetsInv, OneLegAtATime, SheetsFollowLegs, WritesSheets

LEMMA SheetsStep == CapturesTypeOK /\ SheetsInv /\ [CapturesNext]_captureVars => SheetsInv'
<1> SUFFICES ASSUME CapturesTypeOK, SheetsInv, [CapturesNext]_captureVars PROVE SheetsInv'
  OBVIOUS
<1>1. ASSUME NEW q \in Call, CreateSession(q) PROVE SheetsInv'
  <2>1. call[q].op # "leg"
    BY <1>1, NoCallFacts DEF CreateSession, BeginCall
  <2>2. PICK new : OneCall(q, new) /\ new.op = "session"
    BY <1>1, CreateSessionFacts
  <2>3. UNCHANGED <<leg, torn, package>>
    BY <1>1, CreateSessionFacts
  <2> QED BY <2>1, <2>2, <2>3, SheetsOfSessions
<1>2. ASSUME NEW q \in Call, CheckDirectory(q) PROVE SheetsInv'
  BY <1>2, CheckDirectoryFacts, SheetsOfSessions, NoCallFacts
<1>3. ASSUME NEW q \in Call, CheckName(q) PROVE SheetsInv'
  BY <1>3, CheckNameFacts, SheetsOfSessions, NoCallFacts
<1>4. ASSUME NEW q \in Call, CreatePackage(q) PROVE SheetsInv'
  <2>1. PICK s : UNCHANGED package \/ package' = [package EXCEPT ![s].made = TRUE]
    BY <1>4, CreatePackageFacts
  <2>2. package \in [CaptureId -> PackageRecord]
    BY DEF CapturesTypeOK, PackageRecord
  <2>3. \A t \in CaptureId : package'[t].start = package[t].start /\ package'[t].stop = package[t].stop
    BY <2>1, <2>2 DEF PackageRecord
  <2>4. call[q].op = "session" /\ UNCHANGED <<leg, torn>>
    BY <1>4, CreatePackageFacts
  <2>5. PICK new : OneCall(q, new) /\ new.op \in {"none", "session"}
    BY <1>4, CreatePackageFacts, NoCallFacts
  <2> QED BY <2>3, <2>4, <2>5, SheetsOfSessions
<1>5. ASSUME NEW q \in Call, media_wlc_insert_session(q) PROVE SheetsInv'
  BY <1>5, InsertSessionFacts, SheetsOfSessions, NoCallFacts
<1>6. ASSUME NEW q \in Call, CreateLeg(q) PROVE SheetsInv'
  <2>1. call[q] = NoCall
    BY <1>6 DEF CreateLeg, BeginCall
  <2> QED BY <1>6, <2>1, SheetsAfterCreate
<1>7. ASSUME media_wlc_update_session PROVE SheetsInv'
  BY <1>7, UpdateSessionFacts, SheetsStay
<1>8. ASSUME EditConfig PROVE SheetsInv'
  BY <1>8, EditConfigFacts, SheetsStay
<1>9. CASE UNCHANGED captureVars
  BY <1>9, SheetsStay DEF captureVars
<1> QED BY <1>1, <1>2, <1>3, <1>4, <1>5, <1>6, <1>7, <1>8, <1>9, SheetsAfterPreflight,
           SheetsAfterInsert, SheetsAfterWrite, SheetsAfterGiveUp DEF CapturesNext

LEMMA SheetsInitOK == CapturesInit => SheetsInv
<1> SUFFICES ASSUME CapturesInit PROVE SheetsInv
  OBVIOUS
<1>1. \A s \in CaptureId : Working("leg", s) = {} /\ LegsOf(s) = {}
  BY NoCallFacts DEF CapturesInit, Working, LegsOf
<1>2. \A s \in CaptureId : package[s].start = Blank /\ package[s].stop = Blank
  BY DEF CapturesInit, NoPackage
<1> QED BY <1>1, <1>2 DEF SheetsInv, OneLegAtATime, SheetsFollowLegs, NewestSheet

\* For any calls: a leg captures the receiver of its session, unless the configuration
\* was edited between the two readings of its request; and once no request for a leg of
\* the session is under way the sheets of the package are those of the newest leg, unless
\* two such requests were ever at work at once or one ended half way
\* (create_media_qoe_ap_ota_leg).
THEOREM LegsStayFitting == CapturesSpec => []LegsFitTheirSession
<1>1. ReceiverInv => LegsAreOfTheirReceiver
  BY DEF ReceiverInv, LegIsOfItsReceiver, LegsAreOfTheirReceiver
<1>2. SheetsInv => SheetsAreOfTheNewestLeg
  BY DEF SheetsInv, SheetsFollowLegs, SheetsAreOfTheNewestLeg, NewestSheet
<1>3. CapturesSpec => []ReceiverInv
  BY ReceiverInitOK, ReceiverStep, CapturesTyped, PTL DEF CapturesSpec
<1>4. CapturesSpec => []SheetsInv
  BY SheetsInitOK, SheetsStep, CapturesTyped, PTL DEF CapturesSpec
<1>5. ReceiverInv /\ SheetsInv => LegsFitTheirSession
  BY <1>1, <1>2 DEF LegsFitTheirSession
<1> QED BY <1>3, <1>4, <1>5, PTL
================================================================================
