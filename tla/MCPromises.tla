----------------------------- MODULE MCPromises -----------------------------
(* OutputPromises with a second of 2 ms, a day of 3 s and words of 5 bits.  *)
(* The promises are about durations of at least a second whose interval     *)
(* fits a word.                                                             *)
EXTENDS OutputPromises, TLC

CONSTANTS o1, o2

MCOutputs == {o1, o2}
MCForSeconds == {1, 2}
MCUntilTargets == {0, 1, 2, 4}
Symmetry == Permutations(MCOutputs)
=============================================================================
