------------------------------ MODULE ParseLock ------------------------------
(***************************************************************************)
(* The row of vocera_media_execution_locks that serialises Media QoE parser *)
(* subprocesses, and the runs of media_run_capture_parse that take it.      *)
(*                                                                         *)
(* Time is relative: lock.left is what is left of the lease, age[r] the     *)
(* time run r has spent in its phase.  A step of Tick is one unit for every *)
(* clock (the lease is measured by the database, the parser's timeout by    *)
(* the host; both run at the same rate).                                    *)
(***************************************************************************)
EXTENDS Integers

CONSTANTS
  Run,         \* parse_run_id values; one is used again once no row names it
  NoLock,      \* the table has no row for the lock
  Timeout,     \* effective_timeout of each run
  Slack,       \* what a lease adds to the timeout (60 seconds in the code)
  Floor,       \* the shortest lease (120 seconds in the code)
  StartDelay   \* the longest a run takes from its insert to its subprocess

ASSUME TimesAssumption ==
  /\ Timeout \in [Run -> Nat] /\ Slack \in Nat /\ Floor \in Nat
  /\ StartDelay \in Nat
  /\ NoLock \notin [run : Run, left : Nat]

\* The code never renews a lease: the slack has to cover the two statements
\* that record the run as queued and as running.
ASSUME SlackAssumption == StartDelay < Slack

VARIABLES
  lock,        \* NoLock or the row: the run that inserted it, what is left
  phase,       \* where each run is in media_run_capture_parse
  age          \* time spent by a run in its phase, while a bound applies

vars == <<lock, phase, age>>

\* Deviation: the lease covers no more than the timeout.
LeaseWithoutSlack(r) == IF Timeout[r] > Floor THEN Timeout[r] ELSE Floor

Lease(r) == IF Timeout[r] + Slack > Floor THEN Timeout[r] + Slack ELSE Floor

Active   == {"queued", "parsing"}
Finished == {"done", "refused", "lost", "dead"}
Phases   == {"new", "recording"} \cup Active \cup Finished

TypeOK ==
  /\ lock = NoLock \/ lock \in [run : Run, left : Nat]
  /\ phase \in [Run -> Phases]
  /\ age \in [Run -> Nat]

Stale == lock # NoLock /\ lock.left = 0
Live  == lock # NoLock /\ lock.left > 0

Init ==
  /\ lock = NoLock
  /\ phase = [r \in Run |-> "new"]
  /\ age = [r \in Run |-> 0]

Goto(r, p) == phase' = [phase EXCEPT ![r] = p] /\ age' = [age EXCEPT ![r] = 0]

-----------------------------------------------------------------------------
(* The statement of media_acquire_parse_lock.  It is one transaction: the   *)
(* primary key makes concurrent inserts take turns.                         *)

Insert(r) == lock' = [run |-> r, left |-> Lease(r)]

\* Deviation: the insert replaces the row it meets.
AcquireRegardless(r) ==
  /\ phase[r] = "new"
  /\ Insert(r)
  /\ Goto(r, "queued")

Acquire(r) ==
  /\ phase[r] = "new"
  /\ ~Live
  /\ Insert(r)
  /\ Goto(r, "queued")

\* Deviation: the caller does not look at "acquired".
RefusalUnnoticed(r) ==
  /\ phase[r] = "new"
  /\ Live
  /\ Goto(r, "queued")
  /\ UNCHANGED lock

\* on conflict do nothing: 409 "Another Media QoE parse is already running."
Refuse(r) ==
  /\ phase[r] = "new"
  /\ Live
  /\ Goto(r, "refused")
  /\ UNCHANGED lock

\* Deviation: a stale row is not deleted.
RefuseForStale(r) ==
  /\ phase[r] = "new"
  /\ Stale
  /\ Goto(r, "refused")
  /\ UNCHANGED lock

\* Both common table expressions modify the table and PostgreSQL leaves their
\* order open: the insert may meet the stale row that the delete then removes.
RefuseAndDeleteStale(r) ==
  /\ phase[r] = "new"
  /\ Stale
  /\ lock' = NoLock
  /\ Goto(r, "refused")

\* The insert commits and its psql process fails: the caller sees an error
\* before lock_acquired is set, so nothing will delete the row.
AcquireUnseen(r) ==
  /\ phase[r] = "new"
  /\ ~Live
  /\ Insert(r)
  /\ Goto(r, "lost")

-----------------------------------------------------------------------------
(* media_run_capture_parse once it holds the lock.                          *)

\* The run is recorded as queued, then as running, and the subprocess starts.
StartParser(r) ==
  /\ phase[r] = "queued"
  /\ Goto(r, "parsing")
  /\ UNCHANGED lock

\* The subprocess exits, or subprocess.run kills it at the timeout.
StopParser(r) ==
  /\ phase[r] = "parsing"
  /\ Goto(r, "recording")
  /\ UNCHANGED lock

\* Deviation: the delete does not ask for the run.
DeleteAnyRow(r) == lock' = IF phase[r] = "new" THEN lock ELSE NoLock

\* delete ... where parse_run_id = mine: only this run's own row goes.
DeleteOwnRow(r) ==
  lock' = IF lock # NoLock /\ lock.run = r THEN NoLock ELSE lock

\* The finally block, after the results were recorded or a statement failed.
Release(r) ==
  /\ phase[r] \in {"queued", "recording"}
  /\ DeleteOwnRow(r)
  /\ Goto(r, "done")

\* The delete itself fails: the row stays behind until its lease ends.
ReleaseFails(r) ==
  /\ phase[r] \in {"queued", "recording"}
  /\ Goto(r, "lost")
  /\ UNCHANGED lock

\* Study Web dies with its subprocesses; the row is in the database.
Crash ==
  /\ \E r \in Run : phase[r] \in Active \cup {"recording"}
  /\ phase' = [r \in Run |-> IF phase[r] \in Active \cup {"recording"}
                             THEN "dead" ELSE phase[r]]
  /\ age' = [r \in Run |-> 0]
  /\ UNCHANGED lock

\* The next call makes a new parse_run_id; here an identifier no row names.
NewRun(r) ==
  /\ phase[r] \in Finished
  /\ lock # NoLock => lock.run # r
  /\ Goto(r, "new")
  /\ UNCHANGED lock

\* Time passes, except beyond the bounds of a starting or a parsing run.
Tick ==
  /\ \A r \in Run : /\ phase[r] = "queued" => age[r] < StartDelay
                    /\ phase[r] = "parsing" => age[r] < Timeout[r]
  /\ age' = [r \in Run |-> IF phase[r] \in Active THEN age[r] + 1 ELSE 0]
  /\ lock' = IF Live THEN [lock EXCEPT !.left = @ - 1] ELSE lock
  /\ UNCHANGED phase

Call(r) == Acquire(r) \/ Refuse(r) \/ RefuseAndDeleteStale(r) \/ AcquireUnseen(r)

Work(r) == StartParser(r) \/ StopParser(r) \/ Release(r)

Next ==
  \/ Tick
  \/ Crash
  \/ \E r \in Run : \/ Acquire(r) \/ Refuse(r) \/ RefuseAndDeleteStale(r)
                    \/ AcquireUnseen(r)
                    \/ StartParser(r) \/ StopParser(r)
                    \/ Release(r) \/ ReleaseFails(r)
                    \/ NewRun(r)

Spec == Init /\ [][Next]_vars

\* Time goes on, a call or a run in progress comes to its next statement, and
\* the ingest timer makes new calls.  Crashes and failures are never forced.
Fairness ==
  /\ WF_vars(Tick)
  /\ \A r \in Run : WF_vars(Call(r)) /\ WF_vars(Work(r)) /\ WF_vars(NewRun(r))

FairSpec == Spec /\ Fairness

-----------------------------------------------------------------------------
\* A parser subprocess never outlives the lease of its run: while one works,
\* the table holds its run's row and the row is not yet stale.  Takeover of an
\* expired row relies on it, as leases are never renewed.
ParserHoldsLease ==
  \A r \in Run : phase[r] \in Active => Live /\ lock.run = r

\* No two runs work under the lock at the same time.
OneRunAtWork ==
  \A r, s \in Run : phase[r] \in Active /\ phase[s] \in Active => r = s

\* A row whose lease has not ended is removed or replaced by its own run only:
\* a run that recorded its results late must not delete its successor's row.
LiveRowEndsByItsRun ==
  [][Live /\ (lock' = NoLock \/ lock'.run # lock.run)
       => phase[lock.run] # phase'[lock.run]]_vars

\* A row left behind (crash, failed delete, unseen insert) does not block the
\* parser for good: it is deleted or taken over once its lease has ended.
LeftoverRowsAreCleared ==
  \A r \in Run :
    (lock # NoLock /\ lock.run = r /\ phase[r] \notin Active)
      ~> (lock = NoLock \/ lock.run # r)

\* The run at work under the lock, or what the table says without one.
Holder ==
  IF \E r \in Run : phase[r] \in Active
  THEN CHOOSE r \in Run : phase[r] \in Active
  ELSE IF lock = NoLock THEN "nobody" ELSE "lingering"

Mutex == INSTANCE ParseMutex WITH holder <- Holder

\* The lock table gives its callers the mutual exclusion of ParseMutex.
ImplementsParseMutex == Mutex!Spec
=============================================================================
