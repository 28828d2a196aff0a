---------------------------- MODULE MCSerialPort ----------------------------
(* SerialPort with two keys, one other character, a buffer of 2 characters  *)
(* and a driver that holds 3, so that a burst can be longer than the buffer.*)
EXTENDS SerialPort

CONSTANTS one, two, newline

MCKeys == {one, two}
MCOtherChars == {newline}
=============================================================================
