------------------------- MODULE MC_UploadFinalizer -------------------------
(* UploadFinalizer with two captures, a link or oversized file, and a file   *)
(* that is not a capture.                                                    *)
EXTENDS UploadFinalizer, TLC

CONSTANTS epc1, epc2, link, junk

MCData     == {epc1, epc2, link, junk}
MCUnsafe   == {link}
MCBadMagic == {junk}

Symmetry == Permutations({epc1, epc2}) \cup Permutations(Worker)
=============================================================================
