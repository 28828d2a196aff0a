--------------------------- MODULE OutputPromises ---------------------------
(***************************************************************************)
(* Outputs, with a record of what each output was last asked to do, and    *)
(* the promises of the commands stated against that record.                *)
(*                                                                         *)
(* A sender is promised by ON OUT that the output is on, by FOR that it    *)
(* is on for that many seconds and then off, by UNTIL that it is on until  *)
(* that time of day and then off, whatever the other outputs, the other    *)
(* channels and earlier timers do, until a later command for the output.   *)
(***************************************************************************)
EXTENDS Outputs

VARIABLES
  asked,   \* per output, the last request: off, on, for, until, or late for
           \* an UNTIL whose time has already passed today
  owed,    \* per output, the milliseconds its last FOR or UNTIL has left
  crossed  \* the outputs whose last request left an expiry waiting that had
           \* been posted before

promiseVars == <<data, pin, timer, expired, clock, asked, owed, crossed>>

Requests == {"off", "on", "for", "until", "late"}

PromiseTypeOK ==
  /\ TypeOK
  /\ asked \in [Outputs -> Requests]
  /\ owed \in [Outputs -> Nat]
  /\ crossed \subseteq Outputs

AsLongAs(ms) == IF ms > 0 THEN ms ELSE 0

Ask(S, what, ms) ==
  /\ asked' = [n \in Outputs |-> IF n \in S THEN what ELSE asked[n]]
  /\ owed' = [n \in Outputs |-> IF n \in S THEN AsLongAs(ms) ELSE owed[n]]
  /\ crossed' = (crossed \ S) \cup (S \cap expired')

PromiseInit ==
  /\ Init
  /\ asked = [n \in Outputs |-> "off"]
  /\ owed = [n \in Outputs |-> 0]
  /\ crossed = {}

AskAllOff == (SmsAllOff \/ MqttAllOff \/ UartClear) /\ Ask(Outputs, "off", 0)
AskAllOn == (SmsAllOn \/ MqttAllOn) /\ Ask(Outputs, "on", 0)
AskOff(n) == (SmsOffOut(n) \/ MqttOffOut(n)) /\ Ask({n}, "off", 0)
AskOn(n) == (SmsOnOut(n) \/ MqttOnOut(n)) /\ Ask({n}, "on", 0)

AskToggle(n) ==
  /\ UartToggle(n)
  /\ Ask({n}, IF n \in data THEN "off" ELSE "on", 0)

AskFor(n, s) == (SmsFor(n, s) \/ MqttFor(n, s)) /\ Ask({n}, "for", s * Second)

AskUntil(n, t) ==
  /\ SmsUntil(n, t) \/ MqttUntil(n, t)
  /\ Ask({n}, IF t > LocalTime THEN "until" ELSE "late", t * Second - clock)

PromiseTick ==
  /\ Tick
  /\ owed' = [n \in Outputs |-> AsLongAs(owed[n] - 1)]
  /\ UNCHANGED <<asked, crossed>>

PromiseCallback(n) ==
  /\ TimerCallback(n)
  /\ UNCHANGED <<asked, owed, crossed>>

PromiseBoot == Boot /\ Ask(Outputs, "off", 0)

PromiseNext ==
  \/ AskAllOff
  \/ AskAllOn
  \/ \E n \in Outputs : AskOff(n) \/ AskOn(n) \/ AskToggle(n)
  \/ \E n \in Outputs, s \in ForSeconds : AskFor(n, s)
  \/ \E n \in Outputs, t \in UntilTargets : AskUntil(n, t)
  \/ PromiseTick
  \/ \E n \in Outputs : PromiseCallback(n)
  \/ PromiseBoot

PromiseSpec == PromiseInit /\ [][PromiseNext]_promiseVars
-----------------------------------------------------------------------------
(* The promises hold for durations of at least a second, whose interval    *)
(* fits a u32, whatever starting a timer does to its posted expiry.        *)
Intended ==
  /\ ForSeconds \subseteq Nat \ {0}
  /\ UntilTargets \subseteq Nat
  /\ \A s \in ForSeconds \cup UntilTargets : s * Second < Word

Timed(n) == asked[n] \in {"for", "until"}

(* An output switched on by FOR or UNTIL is on for all of the time it was  *)
(* promised: no timer of an earlier command and nothing asked of another   *)
(* output cuts it.  One thing does: an expiry that was already posted when *)
(* the timer was started again, if the SDK keeps it, from the moment that  *)
(* the main task takes it.                                                 *)
KeptOn ==
  \A n \in Outputs : Timed(n) /\ owed[n] > 0 =>
    n \in data \/ n \in crossed \ expired

(* An output switched on by FOR or UNTIL does not stay on: while it is on, *)
(* its timer runs, for less than a second more than was promised (UNTIL    *)
(* reads the clock in whole seconds), or its expiry waits for the task.    *)
SwitchesOffInTime ==
  \A n \in Outputs : Timed(n) /\ n \in data =>
    \/ timer[n] > 0 /\ timer[n] < owed[n] + Second
    \/ n \in expired
=============================================================================
