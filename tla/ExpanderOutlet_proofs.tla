----------------------- MODULE ExpanderOutlet_proofs ------------------------
(***************************************************************************)
(* What TLAPS proves of ExpanderOutlet, for any outputs of the expander,   *)
(* any word size and any inputs: what "Get Outputs" answers is true, and   *)
(* no relay stays on without a reason, but for a failed write or a restart.*)
(***************************************************************************)
EXTENDS ExpanderOutlet, TLAPS

(* What the arguments need of the types.                                   *)
BitsType ==
  /\ data \subseteq Outputs
  /\ timer \in [Outputs -> Nat]
  /\ clock \in Int

(* NoLightForgotten speaks of the relays; this is what it means for the    *)
(* bits, where neither a failed write nor a restart matters.               *)
NoBitForgotten ==
  \A n \in data : n \in byHand \/ timer[n] > 0 \/ n \in expired

(* The inductive invariant: NoBitForgotten is about the bits, and          *)
(* AnswerIsTrue carries it over to the relays.                             *)
OutletInv == BitsType /\ AnswerIsTrue /\ NoBitForgotten

(* A duration, of whatever text, gives an interval that is a number.       *)
LEMMA IntervalNat == \A s \in Int : Bits!Interval(s) \in Nat
<1> TAKE s \in Int
<1> USE ExpanderOutletAssumption
<1>1. (s % Word) * Second \in Nat
  <2>1. s % Word \in Nat
    OBVIOUS
  <2> QED
    BY <2>1
<1> QED
  BY <1>1 DEF Bits!Interval

(* So is the local time in seconds.                                        *)
LEMMA LocalTimeInt == BitsType => Bits!LocalTime \in Int
BY ExpanderOutletAssumption DEF BitsType, Bits!LocalTime

(* A handler that ends in update_IO leaves the relays as the bits, unless  *)
(* the write fails, whatever the expander held before.                     *)
LEMMA UpdateShows ==
  ASSUME update_IO, data' \subseteq Outputs
  PROVE  AnswerIsTrue'
BY ExpanderOutletAssumption
   DEF update_IO, pcf8574_setoutput, Send, AnswerIsTrue, Shown

(* A command without a time: the timers stay, and the bits that are set    *)
(* from now on are set by hand.                                            *)
LEMMA HandKeeps ==
  ASSUME OutletInv, update_IO, UNCHANGED <<timer, expired, clock>>,
         data' \subseteq Outputs,
         data' \subseteq data \cup byHand',
         byHand \cap data' \subseteq byHand'
  PROVE  OutletInv'
<1>1. AnswerIsTrue'
  BY UpdateShows
<1>2. BitsType' /\ NoBitForgotten'
  BY DEF OutletInv, BitsType, NoBitForgotten
<1> QED
  BY <1>1, <1>2 DEF OutletInv

(* A command with a time, of any length.                                   *)
LEMMA ForKeeps ==
  ASSUME OutletInv, NEW n \in Outputs, NEW s \in Int,
         Bits!SwitchOnFor(n, s), update_IO,
         byHand' = HandAfter(n, s)
  PROVE  OutletInv'
<1>1. Bits!Interval(s) \in Nat
  BY IntervalNat
<1>2. data' = data \cup {n} /\ clock' = clock
  BY DEF Bits!SwitchOnFor
<1>3. \/ Bits!Interval(s) = 0 /\ UNCHANGED <<timer, expired>>
      \/ /\ Bits!Interval(s) > 0
         /\ timer' = [timer EXCEPT ![n] = Bits!Interval(s)]
         /\ expired' = expired
  BY DEF Bits!SwitchOnFor, Bits!TimerStart
<1>4. BitsType' /\ NoBitForgotten'
  BY <1>1, <1>2, <1>3 DEF OutletInv, BitsType, NoBitForgotten, HandAfter
<1>5. AnswerIsTrue'
  BY <1>4, UpdateShows DEF BitsType
<1> QED
  BY <1>4, <1>5 DEF OutletInv

(* UNTIL is FOR the time that is left, or nothing but a write.             *)
LEMMA UntilKeeps ==
  ASSUME OutletInv, NEW n \in Outputs, NEW t \in Int, Until(n, t)
  PROVE  OutletInv'
<1>1. CASE t > Bits!LocalTime
  <2> DEFINE s == t - Bits!LocalTime
  <2>1. s \in Int
    BY LocalTimeInt DEF OutletInv
  <2>2. Bits!SwitchOnFor(n, s) /\ update_IO /\ byHand' = HandAfter(n, s)
    BY <1>1, LocalTimeInt
       DEF Until, Bits!SmsUntil, Bits!SwitchOnUntil, OutletInv
  <2> HIDE DEF s
  <2> QED
    BY <2>1, <2>2, ForKeeps
<1>2. CASE ~(t > Bits!LocalTime)
  <2>1. Bits!SwitchOn({}) /\ update_IO /\ byHand' = byHand
    BY <1>2 DEF Until, Bits!SmsUntil, Bits!SwitchOnUntil
  <2> QED
    BY <2>1, HandKeeps DEF Bits!SwitchOn, OutletInv, BitsType
<1> QED
  BY <1>1, <1>2

(* A callback takes the bit and with it the need for a reason to be on.    *)
LEMMA TimerCallbackKeeps ==
  ASSUME OutletInv, NEW n \in Outputs, TimerCallback(n)
  PROVE  OutletInv'
<1>1. /\ data' = data \ {n} /\ expired' = expired \ {n}
      /\ byHand' = byHand \ {n} /\ UNCHANGED <<timer, clock>>
  BY DEF TimerCallback, Bits!TimerCallback
<1>2. BitsType' /\ NoBitForgotten'
  BY <1>1 DEF OutletInv, BitsType, NoBitForgotten
<1>3. AnswerIsTrue'
  BY <1>2, UpdateShows DEF TimerCallback, BitsType
<1> QED
  BY <1>2, <1>3 DEF OutletInv

(* A timer that runs out leaves its expiry behind.                         *)
LEMMA TickKeeps ==
  ASSUME OutletInv, Tick
  PROVE  OutletInv'
<1>1. /\ timer' = [n \in Outputs |-> IF timer[n] = 0 THEN 0 ELSE timer[n] - 1]
      /\ expired' = expired \cup {n \in Outputs : timer[n] = 1}
      /\ data' = data /\ byHand' = byHand
  BY DEF Tick, Bits!Tick
<1>2. clock' \in Int
  <2>1. Day * Second \in Nat \ {0}
    BY ExpanderOutletAssumption
  <2> QED
    BY <2>1 DEF OutletInv, BitsType, Tick, Bits!Tick
<1>3. BitsType'
  BY <1>1, <1>2 DEF OutletInv, BitsType
<1>4. NoBitForgotten'
  BY <1>1 DEF OutletInv, BitsType, NoBitForgotten
<1>5. AnswerIsTrue'
  BY <1>1 DEF OutletInv, AnswerIsTrue, Shown, Tick, expanderVars
<1> QED
  BY <1>3, <1>4, <1>5 DEF OutletInv

(* A restart forgets the bits; the expander is behind until a write.       *)
LEMMA RestartKeeps == Restart => OutletInv'
<1> SUFFICES ASSUME Restart PROVE OutletInv'
  OBVIOUS
<1>1. data' = {} /\ timer' = [n \in Outputs |-> 0] /\ clock' = BootTime * Second
  BY DEF Restart, Boot, Bits!Boot
<1>2. BootTime * Second \in Int
  BY ExpanderOutletAssumption
<1>3. behind' = TRUE
  BY DEF Restart, Reset, PowerUp
<1> QED
  BY <1>1, <1>2, <1>3
     DEF OutletInv, BitsType, AnswerIsTrue, NoBitForgotten

(* At power-up the expander is behind and no bit is set.                   *)
LEMMA InitInv == OutletInit => OutletInv
<1> SUFFICES ASSUME OutletInit PROVE OutletInv
  OBVIOUS
<1>1. BootTime * Second \in Int
  BY ExpanderOutletAssumption
<1> QED
  BY <1>1 DEF OutletInit, ExpanderInit, Bits!Init, OutletInv, BitsType,
              AnswerIsTrue, NoBitForgotten

(* Every handler of the firmware, every tick and every restart keeps it.   *)
LEMMA NextInv == OutletInv /\ [OutletNext]_outletVars => OutletInv'
<1> SUFFICES ASSUME OutletInv, [OutletNext]_outletVars PROVE OutletInv'
  OBVIOUS
<1>1. CASE AllOff
  BY <1>1, HandKeeps DEF AllOff, Bits!SmsAllOff, Bits!SwitchOff, OutletInv, BitsType
<1>2. CASE AllOn
  BY <1>2, HandKeeps DEF AllOn, Bits!SmsAllOn, Bits!SwitchOn, OutletInv, BitsType
<1>3. ASSUME NEW n \in Outputs, OnOut(n) PROVE OutletInv'
  BY <1>3, HandKeeps DEF OnOut, Bits!SmsOnOut, Bits!SwitchOn, OutletInv, BitsType
<1>4. ASSUME NEW n \in Outputs, OffOut(n) PROVE OutletInv'
  BY <1>4, HandKeeps DEF OffOut, Bits!SmsOffOut, Bits!SwitchOff, OutletInv, BitsType
<1>5. ASSUME NEW n \in Outputs, Key(n) PROVE OutletInv'
  <2>1. CASE n \in data
    BY <1>5, <2>1, HandKeeps
       DEF Key, Bits!UartToggle, Bits!SwitchOff, OutletInv, BitsType
  <2>2. CASE n \notin data
    BY <1>5, <2>2, HandKeeps
       DEF Key, Bits!UartToggle, Bits!SwitchOn, OutletInv, BitsType
  <2> QED
    BY <2>1, <2>2
<1>6. ASSUME NEW n \in Outputs, NEW s \in ForSeconds, For(n, s) PROVE OutletInv'
  BY <1>6, ForKeeps, ExpanderOutletAssumption DEF For, Bits!SmsFor
<1>7. ASSUME NEW n \in Outputs, NEW t \in UntilTargets, Until(n, t)
      PROVE  OutletInv'
  BY <1>7, UntilKeeps, ExpanderOutletAssumption
<1>8. CASE NoSuchOutput
  BY <1>8, HandKeeps DEF NoSuchOutput, Bits!SwitchOn, OutletInv, BitsType
<1>9. CASE OtherKey
  BY <1>9, HandKeeps DEF OtherKey, Bits!UartClear, Bits!SwitchOff, OutletInv, BitsType
<1>10. ASSUME NEW n \in Outputs, TimerCallback(n) PROVE OutletInv'
  BY <1>10, TimerCallbackKeeps
<1>11. CASE Tick
  BY <1>11, TickKeeps
<1>12. CASE Restart
  BY <1>12, RestartKeeps
<1>13. CASE UNCHANGED outletVars
  BY <1>13 DEF outletVars, expanderVars, OutletInv, BitsType, AnswerIsTrue,
               NoBitForgotten, Shown
<1> QED
  BY <1>1, <1>2, <1>3, <1>4, <1>5, <1>6, <1>7, <1>8, <1>9, <1>10, <1>11,
     <1>12, <1>13 DEF OutletNext

(* The invariant holds of every behaviour of the SMS-only firmware.        *)
THEOREM InvHolds == OutletSpec => []OutletInv
BY InitInv, NextInv, PTL DEF OutletSpec

(* What "Get Outputs" answers is what the relays show, once a write has    *)
(* succeeded and until one fails or the module restarts.                   *)
THEOREM AnswersTrue == OutletSpec => []AnswerIsTrue
<1>1. OutletInv => AnswerIsTrue
  BY DEF OutletInv
<1> QED
  BY <1>1, InvHolds, PTL

(* No relay is on that nobody left on and that no timer will switch off,   *)
(* with the same exceptions.                                               *)
THEOREM NoneForgotten == OutletSpec => []NoLightForgotten
<1>1. OutletInv => NoLightForgotten
  BY DEF OutletInv, AnswerIsTrue, NoBitForgotten, NoLightForgotten
<1> QED
  BY <1>1, InvHolds, PTL
-----------------------------------------------------------------------------
(* The types: BitsType asks less than they say, so they are their own      *)
(* invariant.                                                              *)

(* The interval of a timer is a u32, whatever was read from the command.   *)
LEMMA IntervalFits == \A s \in Int : Bits!Interval(s) \in 0 .. Word - 1
<1> TAKE s \in Int
<1>1. (s % Word) * Second \in Nat
  <2>1. s % Word \in Nat
    BY ExpanderOutletAssumption
  <2> QED
    BY <2>1, ExpanderOutletAssumption
<1> QED
  BY <1>1, ExpanderOutletAssumption DEF Bits!Interval

(* A command without a time, which leaves the timers as they are.          *)
LEMMA HandTypes ==
  ASSUME OutletTypeOK, update_IO, UNCHANGED <<timer, expired, clock>>,
         data' \subseteq Outputs, byHand' \subseteq data'
  PROVE  OutletTypeOK'
BY DEF OutletTypeOK, ExpanderTypeOK, Bits!TypeOK, update_IO, pcf8574_setoutput, Send

(* A command with a time, of any length.                                   *)
LEMMA ForTypes ==
  ASSUME OutletTypeOK, NEW n \in Outputs, NEW s \in Int,
         Bits!SwitchOnFor(n, s), update_IO,
         byHand' = HandAfter(n, s)
  PROVE  OutletTypeOK'
<1>1. Bits!Interval(s) \in 0 .. Word - 1
  BY IntervalFits
<1>2. data' = data \cup {n} /\ clock' = clock
  BY DEF Bits!SwitchOnFor
<1>3. \/ UNCHANGED <<timer, expired>>
      \/ timer' = [timer EXCEPT ![n] = Bits!Interval(s)] /\ expired' = expired
  BY DEF Bits!SwitchOnFor, Bits!TimerStart
<1>4. Bits!TypeOK'
  BY <1>1, <1>2, <1>3 DEF OutletTypeOK, Bits!TypeOK
<1>5. byHand' \subseteq data'
  BY <1>2 DEF OutletTypeOK, HandAfter
<1>6. ExpanderTypeOK'
  BY DEF OutletTypeOK, ExpanderTypeOK, update_IO, pcf8574_setoutput, Send
<1> QED
  BY <1>4, <1>5, <1>6 DEF OutletTypeOK

LEMMA UntilTypes ==
  ASSUME OutletTypeOK, NEW n \in Outputs, NEW t \in Int, Until(n, t)
  PROVE  OutletTypeOK'
<1>1. Bits!LocalTime \in Int
  BY ExpanderOutletAssumption DEF OutletTypeOK, Bits!TypeOK, Bits!LocalTime
<1>2. CASE t > Bits!LocalTime
  <2> DEFINE s == t - Bits!LocalTime
  <2>1. s \in Int
    BY <1>1
  <2>2. Bits!SwitchOnFor(n, s) /\ update_IO /\ byHand' = HandAfter(n, s)
    BY <1>1, <1>2 DEF Until, Bits!SmsUntil, Bits!SwitchOnUntil
  <2> HIDE DEF s
  <2> QED
    BY <2>1, <2>2, ForTypes
<1>3. CASE ~(t > Bits!LocalTime)
  <2>1. Bits!SwitchOn({}) /\ update_IO /\ byHand' = byHand
    BY <1>3 DEF Until, Bits!SmsUntil, Bits!SwitchOnUntil
  <2> QED
    BY <2>1, HandTypes DEF Bits!SwitchOn, OutletTypeOK, Bits!TypeOK
<1> QED
  BY <1>2, <1>3

LEMMA TimerCallbackTypes ==
  ASSUME OutletTypeOK, NEW n \in Outputs, TimerCallback(n)
  PROVE  OutletTypeOK'
<1>1. /\ data' = data \ {n} /\ expired' = expired \ {n}
      /\ byHand' = byHand \ {n} /\ UNCHANGED <<timer, clock>>
  BY DEF TimerCallback, Bits!TimerCallback
<1>2. Bits!TypeOK' /\ byHand' \subseteq data'
  BY <1>1 DEF OutletTypeOK, Bits!TypeOK
<1>3. ExpanderTypeOK'
  BY DEF OutletTypeOK, ExpanderTypeOK, TimerCallback, update_IO, pcf8574_setoutput, Send
<1> QED
  BY <1>2, <1>3 DEF OutletTypeOK

LEMMA TickTypes ==
  ASSUME OutletTypeOK, Tick
  PROVE  OutletTypeOK'
<1>1. /\ clock' = (clock + 1) % (Day * Second)
      /\ timer' = [n \in Outputs |-> IF timer[n] = 0 THEN 0 ELSE timer[n] - 1]
      /\ expired' = expired \cup {n \in Outputs : timer[n] = 1}
      /\ data' = data
  BY DEF Tick, Bits!Tick
<1>2. clock' \in 0 .. Day * Second - 1
  <2>1. Day * Second \in Nat \ {0}
    BY ExpanderOutletAssumption
  <2>2. clock + 1 \in Int
    BY DEF OutletTypeOK, Bits!TypeOK
  <2> QED
    BY <1>1, <2>1, <2>2
<1>3. timer' \in [Outputs -> 0 .. Word - 1]
  BY <1>1, ExpanderOutletAssumption DEF OutletTypeOK, Bits!TypeOK
<1>4. Bits!TypeOK'
  BY <1>1, <1>2, <1>3 DEF OutletTypeOK, Bits!TypeOK
<1>5. ExpanderTypeOK' /\ byHand' \subseteq data'
  BY <1>1 DEF OutletTypeOK, Tick, expanderVars, ExpanderTypeOK
<1> QED
  BY <1>4, <1>5 DEF OutletTypeOK

(* At power-up and after a restart nothing runs, whatever the chip shows.  *)
LEMMA IdleTypes == Bits!Init => Bits!TypeOK
<1>1. BootTime * Second \in 0 .. Day * Second - 1
  BY ExpanderOutletAssumption
<1> QED
  BY <1>1, ExpanderOutletAssumption DEF Bits!Init, Bits!TypeOK

LEMMA RestartTypes ==
  ASSUME OutletTypeOK, Restart
  PROVE  OutletTypeOK'
<1>1. /\ data' = {} /\ timer' = [n \in Outputs |-> 0] /\ expired' = {}
      /\ clock' = BootTime * Second /\ byHand' = {}
  BY DEF Restart, Boot, Bits!Boot
<1>2. BootTime * Second \in 0 .. Day * Second - 1
  BY ExpanderOutletAssumption
<1>3. Bits!TypeOK' /\ byHand' \subseteq data'
  BY <1>1, <1>2, ExpanderOutletAssumption DEF Bits!TypeOK
<1>4. ExpanderTypeOK'
  BY DEF OutletTypeOK, ExpanderTypeOK, Restart, Reset, PowerUp
<1> QED
  BY <1>3, <1>4 DEF OutletTypeOK

LEMMA InitTypes == OutletInit => OutletTypeOK
BY IdleTypes DEF OutletInit, ExpanderInit, OutletTypeOK, ExpanderTypeOK

LEMMA NextTypes == OutletTypeOK /\ [OutletNext]_outletVars => OutletTypeOK'
<1> SUFFICES ASSUME OutletTypeOK, [OutletNext]_outletVars PROVE OutletTypeOK'
  OBVIOUS
<1>0. data \subseteq Outputs /\ byHand \subseteq data
  BY DEF OutletTypeOK, Bits!TypeOK
<1>1. CASE AllOff \/ OtherKey
  BY <1>0, <1>1, HandTypes
     DEF AllOff, OtherKey, Bits!SmsAllOff, Bits!UartClear, Bits!SwitchOff
<1>2. CASE AllOn \/ NoSuchOutput
  BY <1>0, <1>2, HandTypes DEF AllOn, NoSuchOutput, Bits!SmsAllOn, Bits!SwitchOn
<1>3. ASSUME NEW n \in Outputs, OnOut(n) PROVE OutletTypeOK'
  BY <1>0, <1>3, HandTypes DEF OnOut, Bits!SmsOnOut, Bits!SwitchOn
<1>4. ASSUME NEW n \in Outputs, OffOut(n) PROVE OutletTypeOK'
  BY <1>0, <1>4, HandTypes DEF OffOut, Bits!SmsOffOut, Bits!SwitchOff
<1>5. ASSUME NEW n \in Outputs, Key(n) PROVE OutletTypeOK'
  BY <1>0, <1>5, HandTypes
     DEF Key, Bits!UartToggle, Bits!SwitchOff, Bits!SwitchOn
<1>6. ASSUME NEW n \in Outputs, NEW s \in ForSeconds, For(n, s)
      PROVE  OutletTypeOK'
  BY <1>6, ForTypes, ExpanderOutletAssumption DEF For, Bits!SmsFor
<1>7. ASSUME NEW n \in Outputs, NEW t \in UntilTargets, Until(n, t)
      PROVE  OutletTypeOK'
  BY <1>7, UntilTypes, ExpanderOutletAssumption
<1>8. ASSUME NEW n \in Outputs, TimerCallback(n) PROVE OutletTypeOK'
  BY <1>8, TimerCallbackTypes
<1>9. CASE Tick
  BY <1>9, TickTypes
<1>10. CASE Restart
  BY <1>10, RestartTypes
<1>11. CASE UNCHANGED outletVars
  BY <1>11 DEF outletVars, expanderVars, OutletTypeOK, ExpanderTypeOK, Bits!TypeOK
<1> QED
  BY <1>1, <1>2, <1>3, <1>4, <1>5, <1>6, <1>7, <1>8, <1>9, <1>10, <1>11
     DEF OutletNext

(* Every timer stays within its u32, and what was switched on by hand is   *)
(* on: no callback or command clears a bit and leaves it marked so.        *)
THEOREM OutletTypes == OutletSpec => []OutletTypeOK
BY InitTypes, NextTypes, PTL DEF OutletSpec
===============================================================================
