----------------------------- MODULE SerialPort -----------------------------
(***************************************************************************)
(* Keys typed at the serial port: the buffer of the UART driver, its event *)
(* to the main task, and the callback that reads until nothing is left and *)
(* then obeys the first character of all it has read.                      *)
(*                                                                         *)
(* Characters go on arriving between two reads of the callback.  The       *)
(* driver posts an event for new characters only after a read that got     *)
(* less than it asked for (ql_uart.h, Ql_UART_Read).                       *)
(***************************************************************************)
EXTENDS Naturals, Sequences, FiniteSets

CONSTANTS
  Keys,       \* the digits of the outputs: '1' .. '6'
  OtherChars, \* any other characters
  BufferLen,  \* SERIAL_RX_BUFFER_LEN (2048)
  DriverLen   \* characters the driver's own buffer holds (3584 at most)

ASSUME SerialAssumption ==
  /\ Keys \cap OtherChars = {}
  /\ BufferLen \in Nat \ {0}
  /\ DriverLen \in Nat \ {0}

VARIABLES
  fifo,     \* the characters in the driver
  armed,    \* TRUE iff the next character posts an event
  event,    \* TRUE iff EVENT_UART_READY_TO_READ is posted
  reading,  \* TRUE iff the callback is in the loop of ReadSerialPort
  rx,       \* what it has read so far into m_RxBuf_Uart1
  data,     \* the outputs whose bit is set, each named by its key
  typed,    \* what data would be if every character were obeyed by itself
  hasty,    \* TRUE iff a character was typed before the one before was obeyed
  filled,   \* TRUE iff a burst has filled m_RxBuf_Uart1
  failed    \* TRUE iff a read has failed

vars == <<fifo, armed, event, reading, rx, data, typed, hasty, filled, failed>>

SerialTypeOK ==
  /\ fifo \in Seq(Keys \cup OtherChars) /\ Len(fifo) <= DriverLen
  /\ rx \in Seq(Keys \cup OtherChars) /\ Len(rx) <= BufferLen
  /\ data \subseteq Keys /\ typed \subseteq Keys
  /\ {armed, event, reading, hasty, filled, failed} \subseteq BOOLEAN
-----------------------------------------------------------------------------
(* The switch of CallBack_UART_Hdlr: a key toggles its output, any other   *)
(* character clears them all.                                              *)
Obeyed(bits, c) ==
  IF c \in Keys THEN (bits \ {c}) \cup ({c} \ bits) ELSE {}

AtRest == fifo = <<>> /\ ~event /\ ~reading

(* A character arrives; there is no flow control (FC_NONE), so that one    *)
(* that finds the driver full is lost.                                     *)
Type(c) ==
  /\ fifo' = IF Len(fifo) < DriverLen THEN Append(fifo, c) ELSE fifo
  /\ event' = (event \/ armed)
  /\ armed' = FALSE
  /\ typed' = Obeyed(typed, c)
  /\ hasty' = (hasty \/ ~AtRest)
  /\ UNCHANGED <<reading, rx, data, filled, failed>>

CallBack_UART_HdlrQuiet ==   \* mutant: the event is taken, nothing is read
  /\ event /\ ~reading
  /\ event' = FALSE
  /\ UNCHANGED <<fifo, armed, reading, rx, data, typed, hasty, filled, failed>>

CallBack_UART_HdlrAppending ==   \* mutant: the buffer keeps the last burst
  /\ event /\ ~reading
  /\ event' = FALSE
  /\ reading' = TRUE
  /\ UNCHANGED <<fifo, armed, rx, data, typed, hasty, filled, failed>>

(* The event is taken; ReadSerialPort clears the buffer.                   *)
CallBack_UART_Hdlr ==
  /\ event /\ ~reading
  /\ event' = FALSE
  /\ reading' = TRUE
  /\ rx' = <<>>
  /\ UNCHANGED <<fifo, armed, data, typed, hasty, filled, failed>>

ReadChunkAnyRoom ==   \* mutant: each turn asks for bufLen characters
  LET got == IF Len(fifo) < BufferLen THEN Len(fifo) ELSE BufferLen
  IN  /\ reading /\ got > 0
      /\ rx' = rx \o SubSeq(fifo, 1, got)
      /\ fifo' = SubSeq(fifo, got + 1, Len(fifo))
      /\ armed' = (armed \/ got < BufferLen)
      /\ filled' = (filled \/ got = BufferLen)
      /\ UNCHANGED <<event, reading, data, typed, hasty, failed>>

(* A turn of the loop that gets something, as much as the buffer has room  *)
(* for; asking for more than there was arms the event.                     *)
ReadChunk ==
  LET room == BufferLen - Len(rx)
      got == IF Len(fifo) < room THEN Len(fifo) ELSE room
  IN  /\ reading /\ got > 0
      /\ rx' = rx \o SubSeq(fifo, 1, got)
      /\ fifo' = SubSeq(fifo, got + 1, Len(fifo))
      /\ armed' = (armed \/ got < room)
      /\ filled' = (filled \/ got = room)
      /\ UNCHANGED <<event, reading, data, typed, hasty, failed>>

ObeyAllReadUnchecked ==   \* mutant: an empty read is a character 0
  data' = IF rx = <<>> THEN {} ELSE Obeyed(data, rx[1])

(* What the callback does with all it has read, if anything.               *)
ObeyAllRead ==
  data' = IF rx = <<>> THEN data ELSE Obeyed(data, rx[1])

(* The turn that gets nothing ends the loop: nothing has arrived, or there *)
(* is no room left, and then the read asked for nothing.                   *)
ReadEnd ==
  /\ reading
  /\ fifo = <<>> \/ Len(rx) = BufferLen
  /\ armed' = (armed \/ Len(rx) < BufferLen)
  /\ ObeyAllRead
  /\ reading' = FALSE
  /\ UNCHANGED <<fifo, event, rx, typed, hasty, filled, failed>>

(* A read fails: ReadSerialPort returns -99 and what was read is dropped.  *)
ReadFails ==
  /\ reading
  /\ failed' = TRUE
  /\ reading' = FALSE
  /\ UNCHANGED <<fifo, rx, armed, event, data, typed, hasty, filled>>

Init ==
  /\ fifo = <<>> /\ armed = TRUE /\ event = FALSE
  /\ reading = FALSE /\ rx = <<>>
  /\ data = {} /\ typed = {}
  /\ hasty = FALSE /\ filled = FALSE /\ failed = FALSE

Next ==
  \/ \E c \in Keys \cup OtherChars : Type(c)
  \/ CallBack_UART_Hdlr
  \/ ReadChunk
  \/ ReadEnd
  \/ ReadFails

(* The main task takes the event and its loop goes on; nobody has to type. *)
Spec ==
  /\ Init /\ [][Next]_vars
  /\ WF_vars(CallBack_UART_Hdlr) /\ WF_vars(ReadChunk) /\ WF_vars(ReadEnd)
-----------------------------------------------------------------------------
(* Somebody who types each key only after the one before has been obeyed   *)
(* gets what he types; in a burst all but the first character are lost.    *)
SlowTypingWorks == AtRest /\ ~hasty /\ ~failed => data = typed

(* However fast keys follow each other, and however often an event finds   *)
(* its characters read already, keys alone change one output at a time.    *)
KeysClearNothing ==
  [][(\A i \in DOMAIN rx : rx[i] \in Keys) =>
       Cardinality((data \ data') \cup (data' \ data)) <= 1]_data

(* What is typed is read in the end, and the port goes on listening, as    *)
(* long as no burst has filled the buffer of the callback and no read has  *)
(* failed.                                                                 *)
TypedIsRead == fifo # <<>> ~> fifo = <<>> \/ filled \/ failed
=============================================================================
