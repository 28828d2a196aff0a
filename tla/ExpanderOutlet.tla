--------------------------- MODULE ExpanderOutlet ---------------------------
(***************************************************************************)
(* The firmware in M65 SDK/custom/main.c: commands by SMS and from the     *)
(* serial port, the same bits, timers and clock as in Outputs, and relays  *)
(* behind a port expander, each on while its pin is low.                   *)
(*                                                                         *)
(* The pins of Outputs are gone: update_IO writes a byte to the expander,  *)
(* which keeps it when the module restarts, and which a failed write does  *)
(* not reach.                                                              *)
(***************************************************************************)
EXTENDS Expander

CONSTANTS Outputs, Word, Second, Day, BootTime, ForSeconds, UntilTargets

ASSUME ExpanderOutletAssumption ==
  /\ Outputs \subseteq Pins
  /\ Word \in Nat \ {0}
  /\ Second \in Nat \ {0}
  /\ Day \in Nat \ {0}
  /\ BootTime \in 0 .. Day - 1
  /\ ForSeconds \subseteq Int
  /\ UntilTargets \subseteq Int

VARIABLES data, timer, expired, clock,   \* as in Outputs
  byHand    \* the outputs last switched on without an end

outletVars == <<expanderVars, data, timer, expired, clock, byHand>>

(* What the handlers do to the bits and the timers.                        *)
Bits == INSTANCE Outputs WITH GpioReady <- {}, pin <- {}, RestartDrops <- FALSE

(* The outputs whose relays are on.                                        *)
Shown == Outputs \ latch

OutletTypeOK ==
  /\ ExpanderTypeOK
  /\ Bits!TypeOK
  /\ byHand \subseteq data
-----------------------------------------------------------------------------
update_IOUninverted == pcf8574_setoutput(data')   \* mutant: Data.all, not ~Data.all

(* Every bit, inverted.  A handler may call it two or three times with the *)
(* same bits; it fails here if all of them do.                             *)
update_IO == pcf8574_setoutput(Pins \ data')

(* Hdlr_RecvNewSMS, for a sender it recognises.                            *)

AllOff == Bits!SmsAllOff /\ update_IO /\ byHand' = {}
AllOn == Bits!SmsAllOn /\ update_IO /\ byHand' = Outputs
OnOut(n) == Bits!SmsOnOut(n) /\ update_IO /\ byHand' = byHand \cup {n}
OffOut(n) == Bits!SmsOffOut(n) /\ update_IO /\ byHand' = byHand \ {n}

(* A duration whose interval is 0 starts no timer.                         *)
HandAfter(n, s) == IF Bits!Interval(s) = 0 THEN byHand \cup {n} ELSE byHand \ {n}

For(n, s) ==
  /\ Bits!SmsFor(n, s)
  /\ update_IO
  /\ byHand' = HandAfter(n, s)

Until(n, t) ==
  /\ Bits!SmsUntil(n, t)
  /\ update_IO
  /\ byHand' = IF t > Bits!LocalTime THEN HandAfter(n, t - Bits!LocalTime)
                                     ELSE byHand

(* A command whose digit names no output changes nothing, but it does call *)
(* update_IO.                                                              *)
NoSuchOutput == Bits!SwitchOn({}) /\ update_IO /\ UNCHANGED byHand

(* CallBack_UART_Hdlr.                                                     *)
Key(n) ==
  /\ Bits!UartToggle(n)
  /\ update_IO
  /\ byHand' = (byHand \ {n}) \cup ({n} \ data)

OtherKey == Bits!UartClear /\ update_IO /\ byHand' = {}

TimerCallbackNoIO(n) ==   \* mutant: the bit is cleared, the expander not told
  /\ Bits!TimerCallback(n)
  /\ byHand' = byHand \ {n}
  /\ UNCHANGED expanderVars

TimerCallbackWrongId(n) ==   \* mutant: the check of timerId never matches
  /\ Bits!TimerCallbackWrongId(n)
  /\ UNCHANGED <<byHand, expanderVars>>

TimerCallback(n) ==
  /\ Bits!TimerCallback(n)
  /\ update_IO
  /\ byHand' = byHand \ {n}

Tick == Bits!Tick /\ UNCHANGED <<byHand, expanderVars>>

(* The start of proc_main_task clears the bits and calls no update_IO.     *)
Boot == Bits!Boot /\ byHand' = {}

Restart == Boot /\ (Reset \/ PowerUp)

OutletInit ==
  /\ ExpanderInit
  /\ Bits!Init
  /\ byHand = {}

OutletNext ==
  \/ AllOff
  \/ AllOn
  \/ \E n \in Outputs : OnOut(n) \/ OffOut(n) \/ Key(n)
  \/ \E n \in Outputs, s \in ForSeconds : For(n, s)
  \/ \E n \in Outputs, t \in UntilTargets : Until(n, t)
  \/ NoSuchOutput
  \/ OtherKey
  \/ \E n \in Outputs : TimerCallback(n)
  \/ Tick
  \/ Restart

(* As in Outputs: time passes, and the main task takes every expiry.       *)
OutletSpec ==
  /\ OutletInit /\ [][OutletNext]_outletVars
  /\ WF_outletVars(Tick)
  /\ \A n \in Outputs : WF_outletVars(TimerCallback(n))
-----------------------------------------------------------------------------
(* The answer to "Get Outputs" is given from the bits: the relays are as   *)
(* it says once a write has succeeded and until the next one fails.        *)
AnswerIsTrue == behind \/ Shown = data

(* A relay that is on was switched on without an end or has a timer that   *)
(* will switch it off, unless the expander is behind.                      *)
NoLightForgotten ==
  \A n \in Shown : behind \/ n \in byHand \/ timer[n] > 0 \/ n \in expired

(* A timer that is not started again for ever switches its relay off; a    *)
(* write that fails or a restart is the one excuse, and nothing writes     *)
(* again by itself.                                                        *)
TimersDarken ==
  \A n \in Outputs :
    <>[][timer'[n] <= timer[n]]_timer =>
      (timer[n] > 0 ~> n \notin Shown \/ behind)
=============================================================================
