------------------------------ MODULE MCUsers ------------------------------
(* Users with numbers of two characters, recognised by the first one.  Some *)
(* senders have other numbers: one too short for a slot, one too long for   *)
(* it and one too long for its place of users.                              *)
EXTENDS Users

CONSTANTS a, b

MCSlotNumbers == {<<a, a>>, <<a, b>>, <<b, b>>}
MCNumbers ==
  {<<a, a>>, <<b, b>>, <<b>>, <<b, a, a>>, <<b, a, a, b, b>>}
MCNewNumbers == MCSlotNumbers \cup {<<a, b, a, b>>}
=============================================================================
