---------------------------- MODULE MC_WlcIngest ----------------------------
(* WlcIngest with two captures and a file that is not a capture.            *)
EXTENDS WlcIngest, TLC

CONSTANTS epc1, epc2, junk, w1, w2, n1, n2

MCData     == {epc1, epc2, junk}
MCBadMagic == {junk}

\* Every name may carry every content.
Anything == [n \in Name |-> MCData]
\* Different captures under different names.
Distinct == [n \in Name |-> IF n = n1 THEN {epc1, junk} ELSE {epc2}]
\* Two captures under each name.
Captures == [n \in Name |-> {epc1, epc2}]

\* For runs in which both names and both captures may do the same.
NameSymmetry == Permutations({n1, n2}) \cup Permutations({epc1, epc2})
\* For runs in which both scans and both captures may do the same.
Symmetry == Permutations({w1, w2}) \cup Permutations({epc1, epc2})
=============================================================================
