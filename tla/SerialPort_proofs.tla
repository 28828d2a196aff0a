-------------------------- MODULE SerialPort_proofs --------------------------
(***************************************************************************)
(* What TLAPS proves of SerialPort for any keys and other characters and   *)
(* any size of the two buffers: slow typing works, and keys alone change   *)
(* one output at a time, however fast they follow each other.              *)
(***************************************************************************)
EXTENDS SerialPort, SequenceTheorems, FiniteSetTheorems, TLAPS

Chars == Keys \cup OtherChars

(* The character typed last, while it is on its way through the driver and *)
(* the buffer of the callback: it lies in one of the two, alone, and is    *)
(* all that typed is ahead of data.                                        *)
InDriver(c) == fifo = <<c>> /\ (reading => rx = <<>> /\ ~event)
InBuffer(c) == fifo = <<>> /\ reading /\ rx = <<c>> /\ ~event

OnItsWay ==
  \E c \in Chars : (InDriver(c) \/ InBuffer(c)) /\ typed = Obeyed(data, c)

(* The inductive invariant: without haste at most one character is under   *)
(* way.                                                                    *)
OneUnderWay == ~hasty /\ ~failed => (AtRest /\ data = typed) \/ OnItsWay
-----------------------------------------------------------------------------
(* A turn of the loop takes got characters from the driver, at least one,  *)
(* no more than there are and no more than there is room for.              *)
LEMMA ChunkTypes ==
  ASSUME SerialTypeOK, NEW got \in Nat,
         got > 0, got <= Len(fifo), got <= BufferLen - Len(rx)
  PROVE  LET new == rx \o SubSeq(fifo, 1, got)
             rest == SubSeq(fifo, got + 1, Len(fifo))
         IN  /\ new \in Seq(Chars) /\ Len(new) = Len(rx) + got
             /\ rest \in Seq(Chars) /\ Len(rest) = Len(fifo) - got
<1>1. fifo \in Seq(Chars) /\ rx \in Seq(Chars)
  BY DEF SerialTypeOK, Chars
<1>2. BufferLen \in Nat /\ DriverLen \in Nat
  BY SerialAssumption
<1>3. Len(fifo) \in Nat /\ Len(rx) \in Nat
  BY <1>1, LenProperties
<1>4. SubSeq(fifo, 1, got) \in Seq(Chars) /\ Len(SubSeq(fifo, 1, got)) = got
  BY <1>1, <1>3, SubSeqProperties
<1>5. /\ rx \o SubSeq(fifo, 1, got) \in Seq(Chars)
      /\ Len(rx \o SubSeq(fifo, 1, got)) = Len(rx) + got
  BY <1>1, <1>4, ConcatProperties
<1>6. SubSeq(fifo, got + 1, Len(fifo)) \in Seq(Chars)
  BY <1>1, <1>3, SubSeqProperties
<1>7. Len(SubSeq(fifo, got + 1, Len(fifo))) = Len(fifo) - got
  BY <1>1, <1>3, SubSeqProperties
<1> QED
  BY <1>5, <1>6, <1>7

(* Obeying a character changes the outputs of the keys and no others.      *)
LEMMA ObeyedType ==
  ASSUME NEW bits \in SUBSET Keys, NEW c
  PROVE  Obeyed(bits, c) \in SUBSET Keys
BY DEF Obeyed

(* No step leaves the types.                                               *)
LEMMA NextType == SerialTypeOK /\ [Next]_vars => SerialTypeOK'
<1> SUFFICES ASSUME SerialTypeOK, [Next]_vars PROVE SerialTypeOK'
  OBVIOUS
<1> USE SerialAssumption
<1>1. ASSUME NEW c \in Keys \cup OtherChars, Type(c) PROVE SerialTypeOK'
  <2>1. typed' \subseteq Keys
    BY <1>1, ObeyedType DEF Type, SerialTypeOK
  <2>2. fifo' \in Seq(Keys \cup OtherChars) /\ Len(fifo') <= DriverLen
    BY <1>1, AppendProperties, LenProperties DEF Type, SerialTypeOK
  <2>3. {armed, event, reading, hasty, filled, failed}' \subseteq BOOLEAN
    BY <1>1, Zenon DEF Type, SerialTypeOK
  <2> QED
    BY <1>1, <2>1, <2>2, <2>3 DEF Type, SerialTypeOK
<1>2. CASE CallBack_UART_Hdlr
  <2>1. rx' \in Seq(Keys \cup OtherChars) /\ Len(rx') = 0
    BY <1>2, EmptySeq DEF CallBack_UART_Hdlr
  <2>2. {armed, event, reading, hasty, filled, failed}' \subseteq BOOLEAN
    BY <1>2, Zenon DEF CallBack_UART_Hdlr, SerialTypeOK
  <2> QED
    BY <1>2, <2>1, <2>2 DEF CallBack_UART_Hdlr, SerialTypeOK
<1>3. CASE ReadChunk
  <2> DEFINE room == BufferLen - Len(rx)
             got == IF Len(fifo) < room THEN Len(fifo) ELSE room
  <2>1. Len(fifo) \in Nat /\ Len(rx) \in Nat /\ Len(rx) <= BufferLen
    BY LenProperties DEF SerialTypeOK
  <2>2. room \in Nat
    BY <2>1
  <2>3. got > 0 /\ got \in Nat /\ got <= Len(fifo) /\ got <= room
    BY <1>3, <2>1, <2>2 DEF ReadChunk
  <2>4. /\ rx' \in Seq(Chars) /\ Len(rx') = Len(rx) + got
        /\ fifo' \in Seq(Chars) /\ Len(fifo') = Len(fifo) - got
    <3> HIDE DEF got
    <3>1. rx' = rx \o SubSeq(fifo, 1, got) /\ fifo' = SubSeq(fifo, got + 1, Len(fifo))
      BY <1>3 DEF ReadChunk, got
    <3> QED
      BY <2>3, <3>1, ChunkTypes
  <2>5. Len(rx') <= BufferLen /\ Len(fifo') <= DriverLen
    <3> HIDE DEF got
    <3> QED
      BY <2>1, <2>3, <2>4 DEF SerialTypeOK
  <2>6. (armed \/ got < room) \in BOOLEAN /\ (filled \/ got = room) \in BOOLEAN
    OBVIOUS
  <2>7. armed' \in BOOLEAN /\ filled' \in BOOLEAN
    BY <1>3, <2>6, Zenon DEF ReadChunk
  <2> QED
    BY <1>3, <2>4, <2>5, <2>7 DEF ReadChunk, SerialTypeOK, Chars
<1>4. CASE ReadEnd
  <2>1. data' \subseteq Keys
    BY <1>4, ObeyedType DEF ReadEnd, ObeyAllRead, SerialTypeOK
  <2>2. armed' \in BOOLEAN
    BY <1>4, Zenon DEF ReadEnd
  <2> QED
    BY <1>4, <2>1, <2>2 DEF ReadEnd, SerialTypeOK
<1>5. CASE ReadFails
  BY <1>5 DEF ReadFails, SerialTypeOK
<1>6. CASE UNCHANGED vars
  BY <1>6 DEF vars, SerialTypeOK
<1> QED
  BY <1>1, <1>2, <1>3, <1>4, <1>5, <1>6 DEF Next

(* The buffers never hold more than fits and every variable keeps its      *)
(* type, for buffers of any size.                                          *)
THEOREM SerialTypes == Spec => []SerialTypeOK
<1>1. Init => SerialTypeOK
  <2>1. <<>> \in Seq(Keys \cup OtherChars) /\ Len(<<>>) = 0
    BY EmptySeq
  <2> SUFFICES ASSUME Init PROVE SerialTypeOK
    OBVIOUS
  <2>2. {armed, event, reading, hasty, filled, failed} \subseteq BOOLEAN
    BY Zenon DEF Init
  <2> QED
    BY <2>1, <2>2, SerialAssumption DEF Init, SerialTypeOK
<1> QED
  BY <1>1, NextType, PTL DEF Spec
-----------------------------------------------------------------------------
(* A character typed at rest is alone in the driver.                       *)
LEMMA TypeOneMore ==
  ASSUME SerialTypeOK, OneUnderWay, NEW c \in Chars, Type(c)
  PROVE  OneUnderWay'
<1> SUFFICES ASSUME ~hasty', ~failed' PROVE InDriver(c)' /\ typed' = Obeyed(data', c)
  BY DEF OneUnderWay, OnItsWay
<1>1. AtRest /\ ~hasty /\ ~failed
  BY Zenon DEF Type
<1>2. data = typed
  BY <1>1 DEF OneUnderWay, OnItsWay, InDriver, InBuffer, AtRest
<1>3. Len(fifo) < DriverLen
  BY <1>1, SerialAssumption, EmptySeq DEF AtRest
<1>4. fifo' = <<c>>
  BY <1>1, <1>3 DEF Type, AtRest
<1>5. ~reading' /\ typed' = Obeyed(data', c)
  BY <1>1, <1>2 DEF Type, AtRest
<1> QED
  BY <1>4, <1>5 DEF InDriver

(* The callback takes the one character into its buffer, which has room    *)
(* for it.                                                                 *)
LEMMA ChunkTakesIt ==
  ASSUME SerialTypeOK, ReadChunk, NEW c \in Chars, InDriver(c)
  PROVE  InBuffer(c)'
<1> USE SerialAssumption
<1>1. fifo = <<c>> /\ rx = <<>> /\ ~event /\ reading
  BY DEF InDriver, ReadChunk
<1>2. Len(fifo) = 1 /\ Len(rx) = 0
  BY <1>1
<1> DEFINE room == BufferLen - Len(rx)
           got == IF Len(fifo) < room THEN Len(fifo) ELSE room
<1>3. got = 1
  BY <1>2
<1>4. rx' = rx \o SubSeq(fifo, 1, 1) /\ fifo' = SubSeq(fifo, 2, Len(fifo))
  <2>1. rx' = rx \o SubSeq(fifo, 1, got) /\ fifo' = SubSeq(fifo, got + 1, Len(fifo))
    BY DEF ReadChunk
  <2> HIDE DEF got
  <2> QED
    BY <1>3, <2>1
<1>5. SubSeq(fifo, 1, 1) = <<c>> /\ SubSeq(fifo, 2, Len(fifo)) = <<>>
  <2> DEFINE one == <<c>>
  <2>1. one \in Seq(Chars) /\ Len(one) = 1 /\ one[1] = c
    OBVIOUS
  <2> HIDE DEF one
  <2>2. SubSeq(one, 1, 1) \in Seq(Chars) /\ Len(SubSeq(one, 1, 1)) = 1
        /\ SubSeq(one, 1, 1)[1] = one[1]
    BY <2>1, SubSeqProperties
  <2>3. SubSeq(one, 1, 1) = one
    BY <2>1, <2>2, SeqEqual
  <2>4. SubSeq(one, 2, 1) = <<>>
    BY <2>1, SubSeqProperties, EmptySeq
  <2> QED
    BY <1>1, <1>2, <2>3, <2>4 DEF one
<1>6. rx' = <<c>> /\ fifo' = <<>>
  BY <1>1, <1>4, <1>5
<1> QED
  BY <1>1, <1>6 DEF ReadChunk, InBuffer

(* One under way is carried on by every step.                              *)
LEMMA NextUnderWay ==
  ASSUME SerialTypeOK, OneUnderWay, [Next]_vars
  PROVE  OneUnderWay'
<1> USE SerialAssumption
<1>1. ASSUME NEW c \in Keys \cup OtherChars, Type(c) PROVE OneUnderWay'
  BY <1>1, TypeOneMore DEF Chars
<1>2. CASE CallBack_UART_Hdlr
  <2>1. SUFFICES ASSUME ~hasty, ~failed PROVE OneUnderWay'
    BY <1>2 DEF CallBack_UART_Hdlr, OneUnderWay
  <2>2. PICK c \in Chars : InDriver(c) /\ typed = Obeyed(data, c)
    BY <1>2, <2>1
       DEF CallBack_UART_Hdlr, OneUnderWay, OnItsWay, InBuffer, AtRest
  <2>3. InDriver(c)' /\ typed' = Obeyed(data', c)
    BY <1>2, <2>2 DEF CallBack_UART_Hdlr, InDriver
  <2> QED
    BY <2>3 DEF OneUnderWay, OnItsWay
<1>3. CASE ReadChunk
  <2>1. SUFFICES ASSUME ~hasty, ~failed PROVE OneUnderWay'
    BY <1>3 DEF ReadChunk, OneUnderWay
  <2>2. fifo # <<>> /\ reading
    BY <1>3, LenProperties DEF ReadChunk, SerialTypeOK
  <2>3. PICK c \in Chars : InDriver(c) /\ typed = Obeyed(data, c)
    BY <2>1, <2>2 DEF OneUnderWay, OnItsWay, InBuffer, AtRest
  <2>4. InBuffer(c)'
    BY <1>3, <2>3, ChunkTakesIt
  <2>5. typed' = Obeyed(data', c)
    BY <1>3, <2>3 DEF ReadChunk
  <2> QED
    BY <2>4, <2>5 DEF OneUnderWay, OnItsWay
<1>4. CASE ReadEnd
  <2>1. SUFFICES ASSUME ~hasty, ~failed PROVE (AtRest /\ data = typed)'
    BY <1>4 DEF ReadEnd, OneUnderWay
  <2>2. PICK c \in Chars : (InDriver(c) \/ InBuffer(c)) /\ typed = Obeyed(data, c)
    BY <1>4, <2>1 DEF ReadEnd, OneUnderWay, OnItsWay, AtRest
  <2>3. ~InDriver(c)
    <3>1. SUFFICES ASSUME InDriver(c) PROVE FALSE
      OBVIOUS
    <3>2. fifo = <<c>> /\ rx = <<>>
      BY <1>4, <3>1 DEF ReadEnd, InDriver
    <3>3. fifo # <<>> /\ Len(rx) # BufferLen
      BY <3>2
    <3> QED
      BY <1>4, <3>3 DEF ReadEnd
  <2>4. fifo = <<>> /\ rx = <<c>> /\ ~event
    BY <2>2, <2>3 DEF InBuffer
  <2>5. data' = Obeyed(data, c)
    BY <1>4, <2>4 DEF ReadEnd, ObeyAllRead
  <2> QED
    BY <1>4, <2>2, <2>4, <2>5 DEF ReadEnd, AtRest
<1>5. CASE ReadFails
  BY <1>5 DEF ReadFails, OneUnderWay
<1>6. CASE UNCHANGED vars
  BY <1>6
     DEF vars, OneUnderWay, OnItsWay, InDriver, InBuffer, AtRest
<1> QED
  BY <1>1, <1>2, <1>3, <1>4, <1>5, <1>6 DEF Next

(* Whoever waits for the port to be at rest before the next key gets what  *)
(* he types, with buffers of any size and whatever the driver does with    *)
(* its events.                                                             *)
THEOREM SlowTypingSafe == Spec => []SlowTypingWorks
<1>1. Init => OneUnderWay
  BY DEF Init, OneUnderWay, AtRest
<1>2. OneUnderWay => SlowTypingWorks
  BY DEF OneUnderWay, SlowTypingWorks, OnItsWay, InDriver, InBuffer, AtRest
<1>3. SerialTypeOK /\ OneUnderWay /\ [Next]_vars => OneUnderWay'
  BY NextUnderWay
<1> QED
  BY <1>1, <1>2, <1>3, SerialTypes, PTL DEF Spec
-----------------------------------------------------------------------------
(* Keys toggle: in the buffer of the callback only the first of them       *)
(* counts, and the output it names is the only one that changes.           *)
THEOREM KeysToggleOne == Spec => KeysClearNothing
<1> DEFINE Change == (data \ data') \cup (data' \ data)
           OneAtMost == (\A i \in DOMAIN rx : rx[i] \in Keys)
                          => Cardinality(Change) <= 1
<1>1. ASSUME SerialTypeOK, [Next]_vars, data' # data,
             \A i \in DOMAIN rx : rx[i] \in Keys
      PROVE  Cardinality(Change) <= 1
  <2>1. ReadEnd
    BY <1>1 DEF Next, vars, Type, CallBack_UART_Hdlr, ReadChunk, ReadFails
  <2>2. rx # <<>> /\ data' = Obeyed(data, rx[1])
    BY <1>1, <2>1 DEF ReadEnd, ObeyAllRead
  <2>3. rx[1] \in Keys
    BY <1>1, <2>2, EmptySeq, LenProperties DEF SerialTypeOK
  <2>4. Change = {rx[1]}
    BY <2>2, <2>3 DEF Obeyed
  <2>5. Cardinality({rx[1]}) = 1
    BY FS_Singleton
  <2>6. Cardinality(Change) = 1
    BY <2>4, <2>5, Zenon
  <2> QED
    BY <2>6
<1>2. SerialTypeOK /\ [Next]_vars => [OneAtMost]_data
  BY <1>1
<1> QED
  BY <1>2, SerialTypes, PTL DEF KeysClearNothing, Spec
=============================================================================
