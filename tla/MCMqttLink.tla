----------------------------- MODULE MCMqttLink -----------------------------
(* MqttLink with the kinds of misbehaviour each run allows.  An identifier  *)
(* may be 50 at most, so that an answer after the first packet is out of    *)
(* range, and wraps at 52.                                                  *)
EXTENDS MqttLink

MCNoFaults == {}
MCUrcFaults == {"urc"}
MCRaceFaults == {"retransmit", "reject"}
=============================================================================
