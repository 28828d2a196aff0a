--------------------------- MODULE Outputs_proofs ---------------------------
(***************************************************************************)
(* What TLAPS proves of Outputs for any set of outputs, any word size, any *)
(* inputs, and whichever way restarting a timer treats a posted expiry;    *)
(* and of OutputPromises: that FOR and UNTIL keep their promises, for any  *)
(* length of a second and of a day and any interleaving.                   *)
(***************************************************************************)
EXTENDS OutputPromises, TLAPS


(* The interval of a timer is a u32, whatever was read from the command. *)
LEMMA IntervalType ==
  ASSUME NEW s \in Int
  PROVE  Interval(s) \in 0 .. Word - 1
<1> USE OutputsAssumption
<1>1. s % Word \in Nat
  OBVIOUS
<1>2. (s % Word) * Second \in Nat
  BY <1>1
<1> QED
  BY <1>2 DEF Interval

(* The steps of the handlers on the bits and the pins keep their types. *)
LEMMA SwitchTypes ==
  ASSUME TypeOK, NEW S \in SUBSET Outputs
  PROVE  /\ SwitchOn(S) => TypeOK'
         /\ SwitchOff(S) => TypeOK'
BY OutputsAssumption DEF TypeOK, SwitchOn, SwitchOff, update_IO

LEMMA SwitchOnForType ==
  ASSUME TypeOK, NEW n \in Outputs, NEW s \in Int, SwitchOnFor(n, s)
  PROVE  TypeOK'
<1>1. Interval(s) \in 0 .. Word - 1
  BY IntervalType
<1>2. timer' \in [Outputs -> 0 .. Word - 1] /\ expired' \subseteq Outputs
  BY <1>1 DEF TypeOK, SwitchOnFor, TimerStart
<1>3. data' \subseteq Outputs /\ pin' \subseteq Outputs
  BY OutputsAssumption DEF TypeOK, SwitchOnFor, update_IO
<1> QED
  BY <1>2, <1>3 DEF TypeOK, SwitchOnFor

LEMMA SwitchOnUntilType ==
  ASSUME TypeOK, NEW n \in Outputs, NEW t \in Int, SwitchOnUntil(n, t)
  PROVE  TypeOK'
<1>1. LocalTime \in Int
  BY OutputsAssumption DEF TypeOK, LocalTime
<1>2. CASE t > LocalTime /\ SwitchOnFor(n, t - LocalTime)
  BY <1>1, <1>2, SwitchOnForType
<1>3. CASE t <= LocalTime /\ SwitchOn({})
  BY <1>3, SwitchTypes
<1> QED
  BY <1>2, <1>3 DEF SwitchOnUntil

LEMMA TickType == TypeOK /\ Tick => TypeOK'
<1> SUFFICES ASSUME TypeOK, Tick PROVE TypeOK'
  OBVIOUS
<1>1. Day * Second \in Nat \ {0}
  BY OutputsAssumption
<1>2. clock' \in 0 .. Day * Second - 1
  BY <1>1 DEF TypeOK, Tick
<1>3. timer' \in [Outputs -> 0 .. Word - 1]
  BY OutputsAssumption DEF TypeOK, Tick
<1> QED
  BY <1>2, <1>3 DEF TypeOK, Tick

LEMMA InitType == Init => TypeOK
<1>1. BootTime * Second \in 0 .. Day * Second - 1
  BY OutputsAssumption
<1> QED
  BY <1>1, OutputsAssumption DEF Init, TypeOK

LEMMA SmsType == TypeOK /\ Sms => TypeOK'
BY SwitchTypes, SwitchOnForType, SwitchOnUntilType, OutputsAssumption
   DEF Sms, SmsAllOff, SmsAllOn, SmsOnOut, SmsOffOut, SmsUntil, SmsFor

LEMMA MqttType == TypeOK /\ Mqtt => TypeOK'
BY SwitchTypes, SwitchOnForType, SwitchOnUntilType, OutputsAssumption
   DEF Mqtt, MqttAllOff, MqttAllOn, MqttOnOut, MqttOffOut, MqttUntil, MqttFor

LEMMA UartType == TypeOK /\ Uart => TypeOK'
BY SwitchTypes DEF Uart, UartClear, UartToggle

LEMMA NextType == TypeOK /\ [Next]_vars => TypeOK'
<1> SUFFICES ASSUME TypeOK, [Next]_vars PROVE TypeOK'
  OBVIOUS
<1>1. CASE Tick
  BY <1>1, TickType
<1>2. CASE \E n \in Outputs : TimerCallback(n)
  BY <1>2, OutputsAssumption DEF TypeOK, TimerCallback, update_IO
<1>3. CASE Boot
  <2>1. BootTime * Second \in 0 .. Day * Second - 1
    BY OutputsAssumption
  <2> QED
    BY <1>3, <2>1, OutputsAssumption DEF TypeOK, Boot
<1>4. CASE UNCHANGED vars
  BY <1>4 DEF TypeOK, vars
<1> QED
  BY <1>1, <1>2, <1>3, <1>4, SmsType, MqttType, UartType DEF Next

(* Every handler, in any order, keeps the state well formed; in particular *)
(* a timer never gets an interval that is not a u32.                       *)
THEOREM TypeCorrect == Spec => []TypeOK
BY InitType, NextType, PTL DEF Spec
-----------------------------------------------------------------------------
(* A handler that ends in update_IO leaves the pins as the bits, whatever  *)
(* they were before.                                                       *)
LEMMA UpdateIOFollows == update_IO => PinsFollowData'
BY OutputsAssumption DEF update_IO, PinsFollowData

LEMMA SwitchFollows ==
  ASSUME PinsFollowData
  PROVE  /\ \A S : SwitchOn(S) \/ SwitchOff(S) => PinsFollowData'
         /\ \A n, s : SwitchOnFor(n, s) => PinsFollowData'
         /\ \A n, t : SwitchOnUntil(n, t) => PinsFollowData'
<1>1. \A S : SwitchOn(S) \/ SwitchOff(S) => PinsFollowData'
  BY UpdateIOFollows DEF SwitchOn, SwitchOff
<1>2. \A n, s : SwitchOnFor(n, s) => PinsFollowData'
  BY UpdateIOFollows DEF SwitchOnFor
<1> QED
  BY <1>1, <1>2 DEF SwitchOnUntil

LEMMA NextFollows == PinsFollowData /\ [Next]_vars => PinsFollowData'
<1> SUFFICES ASSUME PinsFollowData, [Next]_vars PROVE PinsFollowData'
  OBVIOUS
<1>1. CASE Sms
  BY <1>1, SwitchFollows
     DEF Sms, SmsAllOff, SmsAllOn, SmsOnOut, SmsOffOut, SmsUntil, SmsFor
<1>2. CASE Mqtt
  BY <1>2, SwitchFollows
     DEF Mqtt, MqttAllOff, MqttAllOn, MqttOnOut, MqttOffOut, MqttUntil, MqttFor
<1>3. CASE Uart
  BY <1>3, SwitchFollows DEF Uart, UartClear, UartToggle
<1>4. CASE Tick
  BY <1>4 DEF Tick, PinsFollowData
<1>5. CASE \E n \in Outputs : TimerCallback(n)
  BY <1>5, UpdateIOFollows DEF TimerCallback
<1>6. CASE Boot
  BY <1>6 DEF Boot, PinsFollowData
<1>7. CASE UNCHANGED vars
  BY <1>7 DEF vars, PinsFollowData
<1> QED
  BY <1>1, <1>2, <1>3, <1>4, <1>5, <1>6, <1>7 DEF Next

(* update_IO is called on every path that changes Data: no interleaving of *)
(* the channels and the timer callbacks leaves an initialised pin stale.   *)
THEOREM PinsFollow == Spec => []PinsFollowData
<1>1. Init => PinsFollowData
  BY DEF Init, PinsFollowData
<1> QED
  BY <1>1, NextFollows, PTL DEF Spec
-----------------------------------------------------------------------------
(* Each handler is a step of the timed switches, or changes nothing there. *)
AbstractStep == [Abstract!SwitchNext]_(Abstract!switchVars)

LEMMA SwitchSteps ==
  ASSUME NEW S, S \in {{n} : n \in Outputs} \cup {Outputs} \cup {{}},
         SwitchOn(S) \/ SwitchOff(S)
  PROVE  AbstractStep
<1>1. CASE S = {}
  BY <1>1 DEF SwitchOn, SwitchOff, AbstractStep, Abstract!switchVars
<1>2. CASE S \in {{n} : n \in Outputs} \cup {Outputs}
  <2>1. Abstract!On(S) \/ Abstract!Off(S)
    BY DEF SwitchOn, SwitchOff, Abstract!On, Abstract!Off
  <2> QED
    BY <1>2, <2>1 DEF AbstractStep, Abstract!SwitchNext
<1> QED
  BY <1>1, <1>2

LEMMA OnForSteps ==
  ASSUME NEW n \in Outputs, NEW s \in Int, SwitchOnFor(n, s)
  PROVE  AbstractStep
<1>1. Interval(s) \in 0 .. Word - 1
  BY IntervalType
<1>2. expired' \in {expired, expired \ {n}} \/ Interval(s) = 0
  BY <1>1 DEF SwitchOnFor, TimerStart
<1>3. Abstract!OnFor(n, Interval(s))
  BY <1>1, <1>2 DEF SwitchOnFor, TimerStart, Abstract!OnFor
<1> QED
  BY <1>1, <1>3 DEF AbstractStep, Abstract!SwitchNext

LEMMA OnUntilSteps ==
  ASSUME TypeOK, NEW n \in Outputs, NEW t \in Int, SwitchOnUntil(n, t)
  PROVE  AbstractStep
<1>1. t - LocalTime \in Int
  BY OutputsAssumption DEF TypeOK, LocalTime
<1> QED
  BY <1>1, OnForSteps, SwitchSteps DEF SwitchOnUntil

LEMMA NextSteps == TypeOK /\ [Next]_vars => AbstractStep
<1> SUFFICES ASSUME TypeOK, [Next]_vars PROVE AbstractStep
  OBVIOUS
<1>1. CASE Sms
  BY <1>1, SwitchSteps, OnForSteps, OnUntilSteps, OutputsAssumption
     DEF Sms, SmsAllOff, SmsAllOn, SmsOnOut, SmsOffOut, SmsUntil, SmsFor
<1>2. CASE Mqtt
  BY <1>2, SwitchSteps, OnForSteps, OnUntilSteps, OutputsAssumption
     DEF Mqtt, MqttAllOff, MqttAllOn, MqttOnOut, MqttOffOut, MqttUntil, MqttFor
<1>3. CASE Uart
  BY <1>3, SwitchSteps DEF Uart, UartClear, UartToggle
<1>4. CASE Tick
  <2>1. Abstract!Elapse
    BY <1>4 DEF Tick, Abstract!Elapse
  <2> QED
    BY <2>1 DEF AbstractStep, Abstract!SwitchNext
<1>5. CASE \E n \in Outputs : TimerCallback(n)
  <2>1. PICK n \in Outputs : TimerCallback(n)
    BY <1>5
  <2>2. Abstract!Expire(n)
    BY <2>1 DEF TimerCallback, Abstract!Expire
  <2> QED
    BY <2>2 DEF AbstractStep, Abstract!SwitchNext
<1>6. CASE Boot
  BY <1>6 DEF Boot, AbstractStep, Abstract!SwitchNext, Abstract!AllIdle
<1>7. CASE UNCHANGED vars
  BY <1>7 DEF vars, AbstractStep, Abstract!switchVars
<1> QED
  BY <1>1, <1>2, <1>3, <1>4, <1>5, <1>6, <1>7 DEF Next

(* The outputs, with their three channels, their pins and their u32        *)
(* intervals, are the independent timed switches: no command and no timer  *)
(* callback changes an output other than its own.                          *)
THEOREM RefinesTimedSwitches == Spec => Abstract!SwitchSafety
<1>1. Init => Abstract!AllIdle
  BY DEF Init, Abstract!AllIdle
<1> QED
  BY <1>1, NextSteps, TypeCorrect, PTL DEF Spec, AbstractStep, Abstract!SwitchSafety
-----------------------------------------------------------------------------
(* The promises.  KeptOn and SwitchesOffInTime are not inductive by        *)
(* themselves: Kept and Ends tie the timer of an output to what it owes.   *)


(* While an output owes time, its timer has at least that long to run and  *)
(* no expiry is waiting to switch it off, or has, but one posted before.   *)
Kept(n) ==
  Timed(n) /\ owed[n] > 0 =>
    /\ owed[n] <= timer[n]
    /\ n \in expired => n \in data /\ n \in crossed
    /\ n \in data \/ n \in crossed

Ends(n) ==
  Timed(n) /\ n \in data =>
    \/ timer[n] > 0 /\ timer[n] < owed[n] + Second
    \/ n \in expired

PromiseInv ==
  /\ PromiseTypeOK
  /\ \A n \in Outputs : Kept(n) /\ Ends(n)
-----------------------------------------------------------------------------
(* A duration that fits is the interval its timer gets. *)
LEMMA IntervalExact ==
  ASSUME NEW s \in Nat, s * Second < Word
  PROVE  Interval(s) = s * Second
<1> USE OutputsAssumption
<1>1. s <= s * Second
  OBVIOUS
<1>2. s % Word = s
  BY <1>1
<1>3. s * Second \in 0 .. Word - 1
  OBVIOUS
<1>4. (s * Second) % Word = s * Second
  BY <1>3
<1> QED
  BY <1>2, <1>4 DEF Interval

(* The clock lies in the second it is read as. *)
LEMMA LocalTimeExact ==
  ASSUME clock \in Nat
  PROVE  /\ LocalTime \in Nat
         /\ LocalTime * Second <= clock
         /\ clock < LocalTime * Second + Second
BY OutputsAssumption DEF LocalTime

(* A timer started by FOR or UNTIL for ms milliseconds of promise. *)
LEMMA StartKeeps ==
  ASSUME PromiseInv, NEW n \in Outputs, NEW s \in Nat \ {0}, s * Second < Word,
         NEW ms \in Nat \ {0}, ms <= s * Second, s * Second < ms + Second,
         NEW what \in {"for", "until"},
         SwitchOnFor(n, s), Ask({n}, what, ms)
  PROVE  PromiseInv'
<1> USE OutputsAssumption
<1>1. Interval(s) = s * Second
  BY IntervalExact
<1>2. s * Second > 0
  OBVIOUS
<1>3. /\ data' = data \cup {n}
      /\ timer' = [timer EXCEPT ![n] = s * Second]
      /\ expired' \in {expired, expired \ {n}}
  BY <1>1, <1>2 DEF SwitchOnFor, TimerStart
<1>4. /\ asked' = [m \in Outputs |-> IF m \in {n} THEN what ELSE asked[m]]
      /\ owed' = [m \in Outputs |-> IF m \in {n} THEN ms ELSE owed[m]]
      /\ crossed' = (crossed \ {n}) \cup ({n} \cap expired')
  BY DEF Ask, AsLongAs
<1>5. TypeOK'
  BY SwitchOnForType DEF PromiseInv, PromiseTypeOK
<1>6. PromiseTypeOK'
  BY <1>4, <1>5 DEF PromiseInv, PromiseTypeOK, Requests
<1>7. ASSUME NEW m \in Outputs PROVE Kept(m)' /\ Ends(m)'
  <2>1. CASE m = n
    BY <1>3, <1>4, <2>1
       DEF PromiseInv, PromiseTypeOK, TypeOK, Kept, Ends, Timed
  <2>2. CASE m # n
    BY <1>3, <1>4, <2>2
       DEF PromiseInv, PromiseTypeOK, TypeOK, Kept, Ends, Timed
  <2> QED
    BY <2>1, <2>2
<1> QED
  BY <1>6, <1>7 DEF PromiseInv

(* A command without a time limit ends the promise of the outputs it names *)
(* and leaves the others as they are.                                      *)
LEMMA SwitchKeeps ==
  ASSUME PromiseInv, NEW S \in SUBSET Outputs,
         NEW what \in Requests \ {"for", "until"}, NEW ms \in Int,
         Ask(S, what, ms),
         \E T \in SUBSET S : SwitchOn(T) \/ SwitchOff(T)
  PROVE  PromiseInv'
<1>1. PICK T \in SUBSET S : SwitchOn(T) \/ SwitchOff(T)
  OBVIOUS
<1>2. /\ data' = data \cup T \/ data' = data \ T
      /\ UNCHANGED <<timer, expired>>
  BY <1>1 DEF SwitchOn, SwitchOff
<1>3. TypeOK'
  BY <1>1, SwitchTypes DEF PromiseInv, PromiseTypeOK
<1>4. /\ asked' = [m \in Outputs |-> IF m \in S THEN what ELSE asked[m]]
      /\ owed' = [m \in Outputs |-> IF m \in S THEN AsLongAs(ms) ELSE owed[m]]
      /\ crossed' = (crossed \ S) \cup (S \cap expired')
  BY DEF Ask
<1>5. AsLongAs(ms) \in Nat
  BY DEF AsLongAs
<1>6. PromiseTypeOK'
  BY <1>3, <1>4, <1>5 DEF PromiseInv, PromiseTypeOK
<1>7. ASSUME NEW m \in Outputs PROVE Kept(m)' /\ Ends(m)'
  <2>1. CASE m \in S
    BY <1>4, <2>1 DEF Kept, Ends, Timed
  <2>2. CASE m \notin S
    BY <1>2, <1>4, <2>2 DEF PromiseInv, Kept, Ends, Timed
  <2> QED
    BY <2>1, <2>2
<1> QED
  BY <1>6, <1>7 DEF PromiseInv
-----------------------------------------------------------------------------
LEMMA ForKeeps ==
  ASSUME PromiseInv, Intended, NEW n \in Outputs, NEW s \in ForSeconds,
         AskFor(n, s)
  PROVE  PromiseInv'
<1> USE OutputsAssumption
<1>1. s \in Nat \ {0} /\ s * Second < Word
  BY DEF Intended
<1>2. s * Second \in Nat \ {0} /\ s * Second < s * Second + Second
  BY <1>1
<1>3. SwitchOnFor(n, s) /\ Ask({n}, "for", s * Second)
  BY DEF AskFor, SmsFor, MqttFor
<1> QED
  BY <1>1, <1>2, <1>3, StartKeeps

LEMMA UntilKeeps ==
  ASSUME PromiseInv, Intended, NEW n \in Outputs, NEW t \in UntilTargets,
         AskUntil(n, t)
  PROVE  PromiseInv'
<1> USE OutputsAssumption
<1>1. t \in Nat /\ t * Second < Word
  BY DEF Intended
<1>2. clock \in Nat
  BY DEF PromiseInv, PromiseTypeOK, TypeOK
<1> DEFINE now == LocalTime
           ms == t * Second - clock
<1>3. /\ now \in Nat
      /\ now * Second <= clock
      /\ clock < now * Second + Second
  BY <1>2, LocalTimeExact
<1>4. ms \in Int
  BY <1>1, <1>2
<1>5. SwitchOnUntil(n, t)
  BY DEF AskUntil, SmsUntil, MqttUntil
<1>6. CASE t > now
  <2> DEFINE s == t - now
  <2>1. s \in Nat \ {0} /\ t = now + s
    BY <1>1, <1>3, <1>6
  <2> HIDE DEF now, s
  <2>2. t * Second = now * Second + s * Second
    BY <1>3, <2>1
  <2>3. now * Second \in Nat /\ s * Second \in Nat /\ Second <= s * Second
    BY <1>3, <2>1
  <2>4. s * Second < Word
    BY <1>1, <2>2, <2>3
  <2>5. ms \in Nat \ {0} /\ ms <= s * Second /\ s * Second < ms + Second
    BY <1>2, <1>3, <2>2, <2>3
  <2>6. Ask({n}, "until", ms)
    BY <1>6 DEF AskUntil, now
  <2>7. SwitchOnFor(n, s)
    BY <1>3, <1>5, <1>6, <1>1 DEF SwitchOnUntil, now, s
  <2> HIDE DEF ms
  <2> QED
    BY <1>1, <2>1, <2>4, <2>5, <2>6, <2>7, StartKeeps
<1>7. CASE ~(t > now)
  <2>1. SwitchOn({})
    BY <1>5, <1>7 DEF SwitchOnUntil
  <2>2. Ask({n}, "late", ms)
    BY <1>7 DEF AskUntil
  <2> HIDE DEF ms
  <2> QED
    BY <1>4, <2>1, <2>2, SwitchKeeps DEF Requests
<1> QED
  BY <1>6, <1>7

LEMMA UntimedKeeps ==
  ASSUME PromiseInv, NEW n \in Outputs,
         AskAllOff \/ AskAllOn \/ AskOff(n) \/ AskOn(n) \/ AskToggle(n)
  PROVE  PromiseInv'
<1>1. CASE AskAllOff
  <2>1. SwitchOff(Outputs) /\ Ask(Outputs, "off", 0)
    BY <1>1 DEF AskAllOff, SmsAllOff, MqttAllOff, UartClear
  <2> QED
    BY <2>1, SwitchKeeps DEF Requests
<1>2. CASE AskAllOn
  <2>1. SwitchOn(Outputs) /\ Ask(Outputs, "on", 0)
    BY <1>2 DEF AskAllOn, SmsAllOn, MqttAllOn
  <2> QED
    BY <2>1, SwitchKeeps DEF Requests
<1>3. CASE AskOff(n)
  <2>1. SwitchOff({n}) /\ Ask({n}, "off", 0)
    BY <1>3 DEF AskOff, SmsOffOut, MqttOffOut
  <2> QED
    BY <2>1, SwitchKeeps DEF Requests
<1>4. CASE AskOn(n)
  <2>1. SwitchOn({n}) /\ Ask({n}, "on", 0)
    BY <1>4 DEF AskOn, SmsOnOut, MqttOnOut
  <2> QED
    BY <2>1, SwitchKeeps DEF Requests
<1>5. CASE AskToggle(n)
  <2>1. \E what \in {"off", "on"} :
          (SwitchOn({n}) \/ SwitchOff({n})) /\ Ask({n}, what, 0)
    BY <1>5 DEF AskToggle, UartToggle
  <2> QED
    BY <2>1, SwitchKeeps DEF Requests
<1> QED
  BY <1>1, <1>2, <1>3, <1>4, <1>5

LEMMA TickKeeps ==
  ASSUME PromiseInv, PromiseTick
  PROVE  PromiseInv'
<1>1. TypeOK'
  BY TickType DEF PromiseInv, PromiseTypeOK, PromiseTick
<1>2. PromiseTypeOK'
  BY <1>1 DEF PromiseInv, PromiseTypeOK, PromiseTick, AsLongAs
<1>3. ASSUME NEW m \in Outputs PROVE Kept(m)' /\ Ends(m)'
  <2>1. timer[m] \in Nat /\ owed[m] \in Nat
    BY OutputsAssumption DEF PromiseInv, PromiseTypeOK, TypeOK
  <2>2. /\ timer'[m] = IF timer[m] = 0 THEN 0 ELSE timer[m] - 1
        /\ owed'[m] = IF owed[m] - 1 > 0 THEN owed[m] - 1 ELSE 0
        /\ m \in expired' <=> m \in expired \/ timer[m] = 1
        /\ asked' = asked /\ data' = data /\ crossed' = crossed
    BY DEF PromiseTick, Tick, AsLongAs
  <2>3. Kept(m) /\ Ends(m)
    BY DEF PromiseInv
  <2> QED
    BY <2>1, <2>2, <2>3, OutputsAssumption DEF Kept, Ends, Timed
<1> QED
  BY <1>2, <1>3 DEF PromiseInv

LEMMA CallbackKeeps ==
  ASSUME PromiseInv, NEW n \in Outputs, PromiseCallback(n)
  PROVE  PromiseInv'
<1>1. PromiseTypeOK'
  BY OutputsAssumption
     DEF PromiseInv, PromiseTypeOK, TypeOK, PromiseCallback, TimerCallback, update_IO
<1>2. ASSUME NEW m \in Outputs PROVE Kept(m)' /\ Ends(m)'
  BY DEF PromiseInv, PromiseCallback, TimerCallback, Kept, Ends, Timed
<1> QED
  BY <1>1, <1>2 DEF PromiseInv

LEMMA BootKeeps ==
  ASSUME PromiseInv, PromiseBoot
  PROVE  PromiseInv'
<1>1. TypeOK'
  <2>1. BootTime * Second \in 0 .. Day * Second - 1
    BY OutputsAssumption
  <2> QED
    BY <2>1, OutputsAssumption DEF TypeOK, PromiseBoot, Boot
<1>2. /\ asked' = [m \in Outputs |-> "off"]
      /\ owed' = [m \in Outputs |-> 0]
      /\ crossed' = {}
  BY DEF Boot, PromiseBoot, Ask, AsLongAs, PromiseInv, PromiseTypeOK
<1> QED
  BY <1>1, <1>2 DEF PromiseInv, PromiseTypeOK, Requests, Kept, Ends, Timed

LEMMA PromiseStep ==
  ASSUME Intended
  PROVE  PromiseInv /\ [PromiseNext]_promiseVars => PromiseInv'
<1> SUFFICES ASSUME PromiseInv, [PromiseNext]_promiseVars PROVE PromiseInv'
  OBVIOUS
<1>1. CASE AskAllOff \/ AskAllOn
  <2>1. CASE Outputs # {}
    BY <1>1, <2>1, UntimedKeeps
  <2>2. CASE Outputs = {}
    <3>1. \E what \in {"off", "on"} :
            (SwitchOn({}) \/ SwitchOff({})) /\ Ask({}, what, 0)
      BY <1>1, <2>2
         DEF AskAllOff, AskAllOn, SmsAllOff, MqttAllOff, UartClear, SmsAllOn, MqttAllOn
    <3> QED
      BY <2>2, <3>1, SwitchKeeps DEF Requests
  <2> QED
    BY <2>1, <2>2
<1>2. CASE \E n \in Outputs : AskOff(n) \/ AskOn(n) \/ AskToggle(n)
  BY <1>2, UntimedKeeps
<1>3. CASE \E n \in Outputs, s \in ForSeconds : AskFor(n, s)
  BY <1>3, ForKeeps
<1>4. CASE \E n \in Outputs, t \in UntilTargets : AskUntil(n, t)
  BY <1>4, UntilKeeps
<1>5. CASE PromiseTick
  BY <1>5, TickKeeps
<1>6. CASE \E n \in Outputs : PromiseCallback(n)
  BY <1>6, CallbackKeeps
<1>7. CASE PromiseBoot
  BY <1>7, BootKeeps
<1>8. CASE UNCHANGED promiseVars
  BY <1>8
     DEF promiseVars, PromiseInv, PromiseTypeOK, TypeOK, Kept, Ends, Timed
<1> QED
  BY <1>1, <1>2, <1>3, <1>4, <1>5, <1>6, <1>7, <1>8 DEF PromiseNext

LEMMA PromiseStart == PromiseInit => PromiseInv
<1> SUFFICES ASSUME PromiseInit PROVE PromiseInv
  OBVIOUS
<1>1. TypeOK
  BY InitType DEF PromiseInit
<1> QED
  BY <1>1 DEF PromiseInit, PromiseInv, PromiseTypeOK, Requests, Kept, Ends, Timed

LEMMA PromiseAlways ==
  ASSUME Intended
  PROVE  PromiseSpec => []PromiseInv
BY PromiseStart, PromiseStep, PTL DEF PromiseSpec

(* An output switched on by FOR or UNTIL is on for all of the time it was  *)
(* promised, unless an expiry posted before its timer was started again    *)
(* has been taken since.                                                   *)
THEOREM PromisesKept ==
  ASSUME Intended
  PROVE  PromiseSpec => []KeptOn
<1>1. PromiseInv => KeptOn
  BY DEF PromiseInv, KeptOn, Kept
<1> QED
  BY <1>1, PromiseAlways, PTL

(* ... and then its timer, still running or just expired, switches it off, *)
(* less than a second later than was promised.                             *)
THEOREM PromisesEnd ==
  ASSUME Intended
  PROVE  PromiseSpec => []SwitchesOffInTime
<1>1. PromiseInv => SwitchesOffInTime
  BY DEF PromiseInv, SwitchesOffInTime, Ends
<1> QED
  BY <1>1, PromiseAlways, PTL
-----------------------------------------------------------------------------
(* The types need none of what Intended says.  First: a record of requests *)
(* is kept of the system as it is, so every step here is one of Outputs.   *)
LEMMA RecordOnly == [PromiseNext]_promiseVars => [Next]_vars
<1> SUFFICES ASSUME [PromiseNext]_promiseVars PROVE [Next]_vars
  OBVIOUS
<1>1. CASE AskAllOff \/ AskAllOn
  BY <1>1 DEF AskAllOff, AskAllOn, Next, Sms, Mqtt, Uart
<1>2. CASE \E n \in Outputs : AskOff(n) \/ AskOn(n) \/ AskToggle(n)
  BY <1>2 DEF AskOff, AskOn, AskToggle, Next, Sms, Mqtt, Uart
<1>3. CASE \E n \in Outputs, s \in ForSeconds : AskFor(n, s)
  BY <1>3 DEF AskFor, Next, Sms, Mqtt
<1>4. CASE \E n \in Outputs, t \in UntilTargets : AskUntil(n, t)
  BY <1>4 DEF AskUntil, Next, Sms, Mqtt
<1>5. CASE PromiseTick
  BY <1>5 DEF PromiseTick, Next
<1>6. CASE \E n \in Outputs : PromiseCallback(n)
  BY <1>6 DEF PromiseCallback, Next
<1>7. CASE PromiseBoot
  BY <1>7 DEF PromiseBoot, Next
<1>8. CASE UNCHANGED promiseVars
  BY <1>8 DEF promiseVars, vars
<1> QED
  BY <1>1, <1>2, <1>3, <1>4, <1>5, <1>6, <1>7, <1>8 DEF PromiseNext

(* What is asked is a request, and what is owed for it is never negative.  *)
LEMMA AskTypes ==
  ASSUME PromiseTypeOK, TypeOK', NEW S, NEW what \in Requests, NEW ms \in Int,
         Ask(S, what, ms)
  PROVE  PromiseTypeOK'
<1>1. AsLongAs(ms) \in Nat
  BY DEF AsLongAs
<1>2. expired' \subseteq Outputs
  BY DEF TypeOK
<1> QED
  BY <1>1, <1>2 DEF PromiseTypeOK, Ask

LEMMA PromiseNextTypes ==
  PromiseTypeOK /\ [PromiseNext]_promiseVars => PromiseTypeOK'
<1> SUFFICES ASSUME PromiseTypeOK, [PromiseNext]_promiseVars
             PROVE  PromiseTypeOK'
  OBVIOUS
<1>1. TypeOK'
  BY RecordOnly, NextType DEF PromiseTypeOK
<1>2. CASE AskAllOff \/ AskAllOn \/ PromiseBoot
  BY <1>1, <1>2, AskTypes DEF AskAllOff, AskAllOn, PromiseBoot, Requests
<1>3. CASE \E n \in Outputs : AskOff(n) \/ AskOn(n) \/ AskToggle(n)
  BY <1>1, <1>3, AskTypes DEF AskOff, AskOn, AskToggle, Requests
<1>4. CASE \E n \in Outputs, s \in ForSeconds : AskFor(n, s)
  <2>1. PICK n \in Outputs, s \in ForSeconds : AskFor(n, s)
    BY <1>4
  <2>2. s * Second \in Int
    BY OutputsAssumption
  <2> QED
    BY <1>1, <2>1, <2>2, AskTypes DEF AskFor, Requests
<1>5. CASE \E n \in Outputs, t \in UntilTargets : AskUntil(n, t)
  <2>1. PICK n \in Outputs, t \in UntilTargets : AskUntil(n, t)
    BY <1>5
  <2>2. t * Second - clock \in Int
    BY OutputsAssumption DEF PromiseTypeOK, TypeOK
  <2> QED
    BY <1>1, <2>1, <2>2, AskTypes DEF AskUntil, Requests
<1>6. CASE PromiseTick
  BY <1>1, <1>6 DEF PromiseTick, PromiseTypeOK, AsLongAs
<1>7. CASE (\E n \in Outputs : PromiseCallback(n)) \/ UNCHANGED promiseVars
  BY <1>1, <1>7 DEF PromiseCallback, promiseVars, PromiseTypeOK
<1> QED
  BY <1>2, <1>3, <1>4, <1>5, <1>6, <1>7 DEF PromiseNext

(* The record of what was asked and what is owed is well formed whatever   *)
(* is asked: negative durations, times gone by and a restarted timer that  *)
(* keeps its posted expiry included.                                       *)
THEOREM PromiseTypes == PromiseSpec => []PromiseTypeOK
<1>1. PromiseInit => PromiseTypeOK
  BY PromiseStart DEF PromiseInv
<1> QED
  BY <1>1, PromiseNextTypes, PTL DEF PromiseSpec

(* What is proved of Outputs without fairness is true of the record's runs.*)
THEOREM RecordsTheOutputs == PromiseSpec => Init /\ [][Next]_vars
<1>1. PromiseInit => Init
  BY DEF PromiseInit
<1> QED
  BY <1>1, RecordOnly, PTL DEF PromiseSpec
=============================================================================
