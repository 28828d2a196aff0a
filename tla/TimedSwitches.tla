--------------------------- MODULE TimedSwitches ---------------------------
(***************************************************************************)
(* What the outputs of the outlet promise, without pins, clock, channels   *)
(* or machine integers: switches that can be turned on and off, alone or   *)
(* together, and a countdown for each that turns its own switch off, and   *)
(* no other, when it has run out.                                          *)
(***************************************************************************)
EXTENDS Naturals

CONSTANTS
  Switches,
  Countdowns    \* the lengths a countdown can be started with (a subset of Nat)

VARIABLES
  lit,     \* the switches that are on
  left,    \* per switch, what is left of its countdown
  over     \* the switches whose countdown is over and who are not yet told

switchVars == <<lit, left, over>>

On(S) == lit' = lit \cup S /\ UNCHANGED <<left, over>>

Off(S) == lit' = lit \ S /\ UNCHANGED <<left, over>>

(* A switch is turned on with a countdown; one of length zero never runs. *)
OnFor(n, c) ==
  /\ lit' = lit \cup {n}
  /\ \/ c = 0 /\ UNCHANGED <<left, over>>
     \/ /\ c > 0
        /\ left' = [left EXCEPT ![n] = c]
        /\ over' \in {over, over \ {n}}

Elapse ==
  /\ left' = [n \in Switches |-> IF left[n] = 0 THEN 0 ELSE left[n] - 1]
  /\ over' = over \cup {n \in Switches : left[n] = 1}
  /\ UNCHANGED lit

Expire(n) ==
  /\ n \in over
  /\ over' = over \ {n}
  /\ lit' = lit \ {n}
  /\ UNCHANGED left

AllIdle ==
  /\ lit = {}
  /\ left = [n \in Switches |-> 0]
  /\ over = {}

SwitchNext ==
  \/ \E S \in {{n} : n \in Switches} \cup {Switches} : On(S) \/ Off(S)
  \/ \E n \in Switches, c \in Countdowns : OnFor(n, c)
  \/ Elapse
  \/ \E n \in Switches : Expire(n)
  \/ AllIdle'

SwitchSafety == AllIdle /\ [][SwitchNext]_switchVars

(* A countdown that is over is acted on, unless it is started again. *)
SwitchSpec ==
  /\ SwitchSafety
  /\ \A n \in Switches : WF_switchVars(Expire(n))
=============================================================================
