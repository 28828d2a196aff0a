-------------------------- MODULE MCExpanderOutlet --------------------------
(* ExpanderOutlet with two outputs and one pin that is none, a second of    *)
(* 3 ms, a day of 3 s and words of 4 bits, in which 6 s become 2 ms; UNTIL  *)
(* names the time at boot, a later one and one beyond the end of the day.   *)
EXTENDS ExpanderOutlet

MCOutputs == {0, 1}
MCForSeconds == {0, 1, 2, 6}
MCUntilTargets == {1, 2, 3}
=============================================================================
