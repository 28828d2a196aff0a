----------------------------- MODULE MCSmsInbox -----------------------------
(* SmsInbox with more messages than places. *)
EXTENDS SmsInbox

CONSTANTS m1, m2, m3

MCMessages == {m1, m2, m3}
=============================================================================
