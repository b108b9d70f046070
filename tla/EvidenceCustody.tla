--------------------------- MODULE EvidenceCustody ---------------------------
(***************************************************************************)
(* What finalization promises about the captures of a session package:      *)
(* evidence is published whole, from content the upload account offered     *)
(* and that is a capture container; evidence is never withdrawn; and an     *)
(* upload is discarded only once its name has evidence.                     *)
(***************************************************************************)
CONSTANTS
  Name,        \* file names, the same in incoming/ and in pcaps/
  Data,        \* contents a file may have
  Trusted,     \* the contents that are capture containers
  Absent       \* no file under the name

VARIABLES
  present,     \* names with a file in incoming/
  offered,     \* the contents each upload has had so far
  evidence     \* the content in pcaps/, or Absent

vars == <<present, offered, evidence>>

Init ==
  /\ present = {}
  /\ offered = [n \in Name |-> {}]
  /\ evidence = [n \in Name |-> Absent]

\* The upload account creates or rewrites a file: any content, at any time.
Offer(n, d) ==
  /\ present' = present \cup {n}
  /\ offered' = [offered EXCEPT ![n] = @ \cup {d}]
  /\ UNCHANGED evidence

Publish(n, d) ==
  /\ d \in offered[n] \cap Trusted
  /\ evidence' = [evidence EXCEPT ![n] = d]
  /\ UNCHANGED <<present, offered>>

Discard(n) ==
  /\ evidence[n] # Absent
  /\ present' = present \ {n}
  /\ UNCHANGED <<offered, evidence>>

Next == \E n \in Name : \/ \E d \in Data : Offer(n, d) \/ Publish(n, d)
                        \/ Discard(n)

Spec == Init /\ [][Next]_vars
=============================================================================
