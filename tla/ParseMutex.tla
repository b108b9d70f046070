----------------------------- MODULE ParseMutex -----------------------------
(***************************************************************************)
(* What the Media QoE parse lock promises to its callers: at most one run   *)
(* works under the lock.  A row nobody works under any more (its run        *)
(* crashed, lost the answer of its insert, or has finished and not yet      *)
(* deleted it) lingers; it may refuse others for a while and is then        *)
(* cleared or taken over.  ParseLock, the lock table with its leases,       *)
(* implements this module; WlcIngest uses it.                               *)
(***************************************************************************)
CONSTANT Run            \* the runs that may ask for the lock
VARIABLE holder         \* the run at work, or one of the two values below

Nobody    == "nobody"
Lingering == "lingering"

Init == holder = Nobody

\* r gets the lock; a lingering row can only be taken over, never shared.
Acquire(r) == holder \in {Nobody, Lingering} /\ holder' = r

\* r stops working, its row deleted or left behind.
Finish(r) == holder = r /\ holder' \in {Nobody, Lingering}

\* An insert whose caller never learned of it leaves a row without a run.
Linger == holder = Nobody /\ holder' = Lingering

\* A lingering row is deleted: by its own late release or as a stale row.
Clear == holder = Lingering /\ holder' = Nobody

Next == Linger \/ Clear \/ \E r \in Run : Acquire(r) \/ Finish(r)

Spec == Init /\ [][Next]_holder
=============================================================================
