------------------------------ MODULE Outputs ------------------------------
(***************************************************************************)
(* The switched outputs of the outlet: the Data bit field, the GPIO pins   *)
(* that update_IO drives from it, and one one-shot timer per output.       *)
(*                                                                         *)
(* Three channels command them (SMS, MQTT, the serial port) and the timer  *)
(* callbacks switch them off.  All of these run in the main task, one      *)
(* handler at a time, so each handler is one action.  Time passes between  *)
(* the handlers: a timer that runs out posts its expiry to the main task,  *)
(* which may be busy, so the callback runs some time later.                *)
(***************************************************************************)
EXTENDS Integers, FiniteSets

CONSTANTS
  Outputs,        \* the outputs out_1 .. out_6, each with its own timer
  GpioReady,      \* the outputs whose pin is initialised at boot
  Word,           \* number of values of a u32
  Second,         \* milliseconds in a second (1000)
  Day,            \* seconds in a day (86400)
  BootTime,       \* the local time the boot code sets, in seconds (noon)
  ForSeconds,     \* what Ql_atoi can return for the three characters of FOR
  UntilTargets,   \* times of day UNTIL can name, in seconds
  RestartDrops    \* TRUE iff starting a timer discards its posted expiry

ASSUME OutputsAssumption ==
  /\ GpioReady \subseteq Outputs
  /\ Word \in Nat \ {0}
  /\ Second \in Nat \ {0}
  /\ Day \in Nat \ {0}
  /\ BootTime \in 0 .. Day - 1
  /\ ForSeconds \subseteq Int
  /\ UntilTargets \subseteq Int
  /\ RestartDrops \in BOOLEAN

VARIABLES
  data,      \* the outputs whose bit is set in Data
  pin,       \* the outputs whose pin is at PINLEVEL_HIGH
  timer,     \* per output, the milliseconds its timer still has to run; 0: stopped
  expired,   \* the outputs whose timer has run out and whose callback is due
  clock      \* the local time, in milliseconds since midnight

vars == <<data, pin, timer, expired, clock>>

TypeOK ==
  /\ data \subseteq Outputs
  /\ pin \subseteq Outputs
  /\ timer \in [Outputs -> 0 .. Word - 1]
  /\ expired \subseteq Outputs
  /\ clock \in 0 .. Day * Second - 1
-----------------------------------------------------------------------------
(* What the handlers are built from. *)

(* update_IO: every pin is set from its bit; setting the level of a pin    *)
(* that was never initialised fails and leaves the pin alone.              *)
update_IO == pin' = (data' \cap GpioReady) \cup (pin \ GpioReady)

IntervalUnwrapped(s) == (s % Word) * Second   \* mutant: no 32-bit product

(* The interval a duration in seconds becomes, in u32 arithmetic. *)
Interval(s) == ((s % Word) * Second) % Word

TimerStartIfStopped(n, ms) ==   \* mutant: a running timer is left alone
  /\ timer' = IF timer[n] = 0 THEN [timer EXCEPT ![n] = ms] ELSE timer
  /\ UNCHANGED expired

(* Ql_Timer_Start rejects an interval below 1 ms, which no caller notices, *)
(* and otherwise runs the timer of n from ms, whatever it was doing.       *)
TimerStart(n, ms) ==
  \/ /\ ms = 0
     /\ UNCHANGED <<timer, expired>>
  \/ /\ ms > 0
     /\ timer' = [timer EXCEPT ![n] = ms]
     /\ expired' = IF RestartDrops THEN expired \ {n} ELSE expired

SwitchOn(S) ==
  /\ data' = data \cup S
  /\ update_IO
  /\ UNCHANGED <<timer, expired, clock>>

SwitchOff(S) ==
  /\ data' = data \ S
  /\ update_IO
  /\ UNCHANGED <<timer, expired, clock>>

SwitchOnFor(n, s) ==
  /\ data' = data \cup {n}
  /\ update_IO
  /\ TimerStart(n, Interval(s))
  /\ UNCHANGED clock

(* The clock as Ql_GetLocalTime returns it, in whole seconds. *)
LocalTime == clock \div Second

SwitchOnUntilMidnight(n, t) ==   \* mutant: the current time not subtracted
  SwitchOnFor(n, t)

(* UNTIL: a time that is not later than now is ignored. *)
SwitchOnUntil(n, t) ==
  \/ /\ t > LocalTime
     /\ SwitchOnFor(n, t - LocalTime)
  \/ /\ t <= LocalTime
     /\ SwitchOn({})
-----------------------------------------------------------------------------
(* Hdlr_RecvNewSMS: the commands of a sender it recognises. *)

SmsAllOff == SwitchOff(Outputs)
SmsAllOn == SwitchOn(Outputs)
SmsOnOut(n) == SwitchOn({n})
SmsOffOut(n) == SwitchOff({n})
SmsUntil(n, t) == SwitchOnUntil(n, t)
SmsFor(n, s) == SwitchOnFor(n, s)

Sms ==
  \/ SmsAllOff
  \/ SmsAllOn
  \/ \E n \in Outputs : SmsOnOut(n)
  \/ \E n \in Outputs : SmsOffOut(n)
  \/ \E n \in Outputs, t \in UntilTargets : SmsUntil(n, t)
  \/ \E n \in Outputs, s \in ForSeconds : SmsFor(n, s)

(* mqtt_message_received_callback: the same commands, from the broker. *)

MqttAllOff == SwitchOff(Outputs)
MqttAllOn == SwitchOn(Outputs)
MqttOnOut(n) == SwitchOn({n})
MqttOffOut(n) == SwitchOff({n})
MqttUntil(n, t) == SwitchOnUntil(n, t)
MqttFor(n, s) == SwitchOnFor(n, s)

Mqtt ==
  \/ MqttAllOff
  \/ MqttAllOn
  \/ \E n \in Outputs : MqttOnOut(n)
  \/ \E n \in Outputs : MqttOffOut(n)
  \/ \E n \in Outputs, t \in UntilTargets : MqttUntil(n, t)
  \/ \E n \in Outputs, s \in ForSeconds : MqttFor(n, s)

(* CallBack_UART_Hdlr: a burst of characters; the first one is a digit of  *)
(* an output, which it toggles, or anything else, which clears Data.       *)

UartToggle(n) == IF n \in data THEN SwitchOff({n}) ELSE SwitchOn({n})
UartClear == SwitchOff(Outputs)

Uart == UartClear \/ \E n \in Outputs : UartToggle(n)
-----------------------------------------------------------------------------
TickPastMidnight ==   \* mutant: the day does not end
  /\ clock' = clock + 1
  /\ timer' = [n \in Outputs |-> IF timer[n] = 0 THEN 0 ELSE timer[n] - 1]
  /\ expired' = expired \cup {n \in Outputs : timer[n] = 1}
  /\ UNCHANGED <<data, pin>>

(* One millisecond passes: the clock advances, every running timer has one *)
(* millisecond less, and one that reaches zero posts its expiry.           *)
Tick ==
  /\ clock' = (clock + 1) % (Day * Second)
  /\ timer' = [n \in Outputs |-> IF timer[n] = 0 THEN 0 ELSE timer[n] - 1]
  /\ expired' = expired \cup {n \in Outputs : timer[n] = 1}
  /\ UNCHANGED <<data, pin>>

TimerCallbackNoIO(n) ==   \* mutant: the bit is cleared, the pin is not
  /\ n \in expired
  /\ expired' = expired \ {n}
  /\ data' = data \ {n}
  /\ UNCHANGED <<pin, timer, clock>>

TimerCallbackWrongId(n) ==   \* mutant: the check of timerId never matches
  /\ n \in expired
  /\ expired' = expired \ {n}
  /\ UNCHANGED <<data, pin, timer, clock>>

TimerCallbackAll(n) ==   \* mutant: Data.all is cleared instead of one bit
  /\ n \in expired
  /\ expired' = expired \ {n}
  /\ data' = {}
  /\ update_IO
  /\ UNCHANGED <<timer, clock>>

(* TimerCallback1 .. TimerCallback6. *)
TimerCallback(n) ==
  /\ n \in expired
  /\ expired' = expired \ {n}
  /\ data' = data \ {n}
  /\ update_IO
  /\ UNCHANGED <<timer, clock>>

(* The start of proc_main_task: the bits are cleared, the initialised pins *)
(* are driven low, the clock is set and the timers registered, none runs.  *)
Boot ==
  /\ data' = {}
  /\ pin' = {}
  /\ timer' = [n \in Outputs |-> 0]
  /\ expired' = {}
  /\ clock' = BootTime * Second

Init ==
  /\ data = {}
  /\ pin = {}
  /\ timer = [n \in Outputs |-> 0]
  /\ expired = {}
  /\ clock = BootTime * Second

Next ==
  \/ Sms
  \/ Mqtt
  \/ Uart
  \/ Tick
  \/ \E n \in Outputs : TimerCallback(n)
  \/ Boot

(* Time passes, and the main task gets to every expiry posted to it. *)
Fairness ==
  /\ WF_vars(Tick)
  /\ \A n \in Outputs : WF_vars(TimerCallback(n))

Spec == Init /\ [][Next]_vars /\ Fairness
-----------------------------------------------------------------------------
(* Whatever handler ran last, the initialised pins show the bits of Data:  *)
(* no path through the handlers forgets update_IO.                         *)
PinsFollowData == pin \cap GpioReady = data \cap GpioReady

(* Once nobody restarts the timer of an output, a timer that is running    *)
(* does switch the output off, whatever else the outlet is asked to do.    *)
RunningTimerSwitchesOff ==
  \A n \in Outputs :
    <>[][timer'[n] <= timer[n]]_timer => (timer[n] > 0 ~> n \notin data)

(* The outputs are independent timed switches: a command changes the       *)
(* outputs it names, and a timer the output it belongs to.                 *)
Abstract == INSTANCE TimedSwitches WITH
  Switches <- Outputs,
  Countdowns <- 0 .. Word - 1,
  lit <- data,
  left <- timer,
  over <- expired

ImplementsTimedSwitches == Abstract!SwitchSpec
=============================================================================
