------------------------------ MODULE MC_Sessions ------------------------------
(***************************************************************************)
(* What operators do around a capture session: a behaviour is one of three  *)
(* parts, the attempts of a session in the database, the JSON files of its  *)
(* package, or the sessions and AP-OTA legs themselves.                     *)
(***************************************************************************)
EXTENDS BroadcastAttempts, SessionPackage, CaptureSessions, TLC

CONSTANTS s1, a1, a2, r1, r2, g1, g2, ap1, ap2

VARIABLE part     \* the part at work

attemptVars == vars

MCSession == {s1}
MCAttempt == {a1, a2}
MCHome    == (a1 :> s1) @@ (a2 :> s1)
MCRequest == {r1, r2}
MCGroup   == {g1, g2}
MCKind    == {"broadcast_started", "heard", "missed", "session_end"}

\* A package that names no session, and one that does and knows no result.
MCReport == {[session |-> Nothing, kind |-> "heard", group |-> Nothing, marked |-> TRUE],
             [session |-> s1, kind |-> Nothing, group |-> Nothing, marked |-> TRUE]}

MCSessionState == {"prepared_not_started", "stopped"}

\* The parts share their model values, so that few permutations serve them all:
\* a1 and a2 are the sessions of the third part, g1 and g2 its receivers.
Symmetry == Permutations(MCRequest) \cup Permutations(MCGroup) \cup Permutations(MCAttempt)

\* Events, selections, stopped sessions and other evidence, taken together; the
\* other writer of the rows takes the place of the second request, and races and
\* requests that give up are looked at one at a time.
MaxTold == 4
Stopped == {s \in Session : sessionState[s] = "stopped"}
Bounded ==
  /\ Len(event) + selections + 2 * Cardinality(Stopped) + 2 * evidence < MaxTold
  /\ evidence = 0 \/ Cardinality({r \in Request : AtWork(r)}) <= 1
  /\ raced = {} \/ abandoned = {}

-----------------------------------------------------------------------------
MCInit ==
  /\ part \in {"attempts", "package", "captures"}
  /\ Init /\ PackageInit /\ CapturesInit
  /\ part # "captures" => config.receiver = Blank /\ config.ap = ap1

MCNext ==
  /\ UNCHANGED part
  /\ \/ part = "attempts" /\ Next          /\ UNCHANGED <<packageVars, captureVars>>
     \/ part = "package"  /\ PackageNext   /\ UNCHANGED <<attemptVars, captureVars>>
     \/ part = "captures" /\ CapturesNext  /\ UNCHANGED <<attemptVars, packageVars>>

MCSpec == MCInit /\ [][MCNext]_<<part, attemptVars, packageVars, captureVars>>
=============================================================================
