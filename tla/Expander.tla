------------------------------ MODULE Expander ------------------------------
(***************************************************************************)
(* The PCF8574 port expander that drives the relays of the firmware in     *)
(* M65 SDK/custom, and what that firmware uses of its driver PCF8574.c.    *)
(* The chip keeps what was last written to it, whatever happens to the     *)
(* module.  A byte is the set of its bits that are 1.                      *)
(***************************************************************************)
EXTENDS Integers

CONSTANT MaxPins     \* PCF8574_MAXPINS (8)

Pins == 0 .. MaxPins - 1

ASSUME ExpanderAssumption == MaxPins \in Nat \ {0}

VARIABLES
  pinstatus,   \* pcf8574_pinstatus[0], in the RAM of the module
  latch,       \* what the chip was last told
  behind       \* TRUE iff the last write has failed, or there was none since boot

expanderVars == <<pinstatus, latch, behind>>

ExpanderTypeOK ==
  /\ pinstatus \subseteq Pins
  /\ latch \subseteq Pins
  /\ behind \in BOOLEAN
-----------------------------------------------------------------------------
(* Ql_IIC_Write, of which the driver ignores the result.                   *)
Send(byte) ==
  \/ latch' = byte /\ behind' = FALSE
  \/ UNCHANGED latch /\ behind' = TRUE

pcf8574_setoutput(byte) ==
  /\ pinstatus' = byte
  /\ Send(byte)

(* The module restarts: its RAM is new, the chip is as it was ...          *)
Reset ==
  /\ pinstatus' = {}
  /\ behind' = TRUE
  /\ UNCHANGED latch

(* ... unless its power fails too: then all its pins are high.             *)
PowerUp ==
  /\ pinstatus' = {}
  /\ latch' = Pins
  /\ behind' = TRUE

ExpanderInit ==
  /\ pinstatus = {}
  /\ latch = Pins
  /\ behind = TRUE
=============================================================================
