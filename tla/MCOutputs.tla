----------------------------- MODULE MCOutputs -----------------------------
(* Outputs with a second of 3 ms, a day of 3 s and words of 4 bits, so that *)
(* midnight passes and the u32 arithmetic wraps.  The FOR texts are "-01",  *)
(* "000", "001" and "002"; the UNTIL times one before, one at and one after *)
(* the boot time, and one beyond the end of the day.                        *)
EXTENDS Outputs

CONSTANTS o1, o4

MCOutputs == {o1, o4}
MCGpioReady == {o1}
MCForSeconds == {-1, 0, 1, 2}
MCUntilTargets == {0, 1, 2, 3}
=============================================================================
