---------------------------- MODULE MC_ParseLock ----------------------------
(* ParseLock with three runs and timeouts on both sides of the lease floor. *)
EXTENDS ParseLock, TLC

CONSTANTS r1, r2, r3

MCRun     == {r1, r2, r3}
MCTimeout == (r1 :> 1) @@ (r2 :> 3) @@ (r3 :> 3)
=============================================================================
