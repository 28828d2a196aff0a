-------------------------- MODULE SmsOutlet_proofs --------------------------
(***************************************************************************)
(* What TLAPS proves of SmsInbox, for any messages, any capacity of the    *)
(* store and any number of failures, and of SmsOutlet, for any users too:  *)
(* the commands that are obeyed, their order, and who is then known.       *)
(***************************************************************************)
EXTENDS SmsOutlet, FunctionTheorems, FiniteSetTheorems, SequenceTheorems,
        WellFoundedInduction, TLAPS

(* What a line can be are different things.                                *)
LEMMA Distinct ==
  /\ Header # Ok /\ Header # Error /\ Header # Nothing
  /\ Ok # Error /\ Ok # Nothing /\ Error # Nothing
<1>1. ASSUME NEW x, NEW y, NEW z PROVE Cardinality({x, y, z}) <= 3
  <2>1. IsFiniteSet({x}) /\ Cardinality({x}) = 1
    BY FS_Singleton
  <2>2. IsFiniteSet({x} \cup {y}) /\ Cardinality({x} \cup {y}) <= 2
    BY <2>1, FS_AddElement
  <2>3. Cardinality(({x} \cup {y}) \cup {z}) <= 3
    <3>1. Cardinality({x} \cup {y}) \in Nat
      BY <2>2, FS_CardinalityType
    <3> QED
      BY <2>2, <3>1, FS_AddElement
  <2>4. ({x} \cup {y}) \cup {z} = {x, y, z}
    OBVIOUS
  <2> QED
    BY <2>3, <2>4
<1>2. Cardinality({Header, Ok, Error, Nothing}) = 4
  BY InboxAssumption
<1>3. ASSUME NEW x, NEW y, NEW z, {Header, Ok, Error, Nothing} = {x, y, z}
      PROVE  FALSE
  <2>1. Cardinality({x, y, z}) <= 3
    BY <1>1
  <2>2. Cardinality({x, y, z}) = 4
    BY <1>2, <1>3
  <2> QED
    BY <2>1, <2>2
<1>4. Header # Ok /\ Header # Error /\ Header # Nothing
  <2>1. Header = Ok => {Header, Ok, Error, Nothing} = {Ok, Error, Nothing}
    OBVIOUS
  <2>2. Header = Error => {Header, Ok, Error, Nothing} = {Ok, Error, Nothing}
    OBVIOUS
  <2>3. Header = Nothing => {Header, Ok, Error, Nothing} = {Ok, Error, Nothing}
    OBVIOUS
  <2> QED
    BY <1>3, <2>1, <2>2, <2>3
<1>5. Ok # Error /\ Ok # Nothing
  <2>1. Ok = Error => {Header, Ok, Error, Nothing} = {Header, Error, Nothing}
    OBVIOUS
  <2>2. Ok = Nothing => {Header, Ok, Error, Nothing} = {Header, Error, Nothing}
    OBVIOUS
  <2> QED
    BY <1>3, <2>1, <2>2
<1>6. Error # Nothing
  <2>1. Error = Nothing => {Header, Ok, Error, Nothing} = {Header, Ok, Nothing}
    OBVIOUS
  <2> QED
    BY <1>3, <2>1
<1> QED
  BY <1>4, <1>5, <1>6

LEMMA MessagesAreNoLines ==
  ASSUME NEW m \in Messages
  PROVE  m # Header /\ m # Ok /\ m # Error /\ m # Nothing
BY InboxAssumption
-----------------------------------------------------------------------------
(* What the main task makes of a line, and of the lines of each answer     *)
(* that it can get.                                                        *)
Taking(content, final) ==
  [readContent |-> TRUE, content |-> content, final |-> final]

Looking(content, final) ==
  [readContent |-> FALSE, content |-> content, final |-> final]

LEMMA Handled ==
  ASSUME NEW content, NEW final, NEW line, final \notin {Ok, Error}
  PROVE  /\ HandleLine(Taking(content, final), line)
              = Looking(line, final)
         /\ line = Header =>
              HandleLine(Looking(content, final), line)
                = Taking(content, final)
         /\ line # Header =>
              HandleLine(Looking(content, final), line)
                = Looking(content, line)
BY DEF HandleLine, HdlrReadPDUMsg, Taking, Looking

LEMMA Read ==
  /\ Reading(<<>>) = [readContent |-> readContent, content |-> Nothing,
                      final |-> Nothing]
  /\ \A start :
       start = [readContent |-> readContent, content |-> Nothing,
                final |-> Nothing] =>
         /\ \A a : Reading(<<a>>) = HandleLine(start, a)
         /\ \A a, b : Reading(<<a, b>>) = HandleLine(HandleLine(start, a), b)
         /\ \A a, b, c : Reading(<<a, b, c>>)
              = HandleLine(HandleLine(HandleLine(start, a), b), c)
<1>1. DOMAIN <<>> = {}
  OBVIOUS
<1>2. \A a : DOMAIN <<a>> = {1}
  OBVIOUS
<1>3. \A a, b : DOMAIN <<a, b>> = {1, 2}
  OBVIOUS
<1>4. \A a, b, c : DOMAIN <<a, b, c>> = {1, 2, 3}
  OBVIOUS
<1> QED
  BY <1>1, <1>2, <1>3, <1>4 DEF Reading

LEMMA ReadWhen ==
  /\ readContent = TRUE =>
       /\ Reading(<<>>) = Taking(Nothing, Nothing)
       /\ \A a : Reading(<<a>>) = HandleLine(Taking(Nothing, Nothing), a)
       /\ \A a, b : Reading(<<a, b>>)
            = HandleLine(HandleLine(Taking(Nothing, Nothing), a), b)
       /\ \A a, b, c : Reading(<<a, b, c>>)
            = HandleLine(HandleLine(HandleLine(Taking(Nothing, Nothing), a), b), c)
  /\ readContent = FALSE =>
       /\ Reading(<<>>) = Looking(Nothing, Nothing)
       /\ \A a : Reading(<<a>>) = HandleLine(Looking(Nothing, Nothing), a)
       /\ \A a, b : Reading(<<a, b>>)
            = HandleLine(HandleLine(Looking(Nothing, Nothing), a), b)
       /\ \A a, b, c : Reading(<<a, b, c>>)
            = HandleLine(HandleLine(HandleLine(Looking(Nothing, Nothing), a), b), c)
<1>1. readContent = TRUE =>
        Taking(Nothing, Nothing) = [readContent |-> readContent,
                                    content |-> Nothing, final |-> Nothing]
  BY DEF Taking
<1>2. readContent = FALSE =>
        Looking(Nothing, Nothing) = [readContent |-> readContent,
                                     content |-> Nothing, final |-> Nothing]
  BY DEF Looking
<1> QED
  BY <1>1, <1>2, Read

LEMMA DecodedReader ==
  \A content, final :
    /\ Taking(content, final).readContent = TRUE
    /\ Looking(content, final).readContent = FALSE
    /\ Decoded(Taking(content, final)) =
         IF final = Ok /\ content \in Messages THEN content ELSE Nothing
    /\ Decoded(Looking(content, final)) =
         IF final = Ok /\ content \in Messages THEN content ELSE Nothing
BY DEF Taking, Looking, Decoded

(* A short answer says nothing, and ends a reading that was cut before.    *)
LEMMA ReadShort ==
  ASSUME readContent \in BOOLEAN
  PROVE  /\ Reading(<<>>).readContent = readContent
         /\ Decoded(Reading(<<>>)) = Nothing
         /\ \A final \in {Ok, Error} :
              /\ Reading(<<final>>).readContent = FALSE
              /\ Decoded(Reading(<<final>>)) = Nothing
         /\ Reading(<<Header>>).readContent \in BOOLEAN
         /\ Decoded(Reading(<<Header>>)) = Nothing
<1>1. Nothing \notin Messages
  BY InboxAssumption
<1>2. CASE readContent = TRUE
  <2>1. \A line : HandleLine(Taking(Nothing, Nothing), line) = Looking(line, Nothing)
    BY Handled, Distinct
  <2>2. \A line : Reading(<<line>>) = Looking(line, Nothing)
    BY <1>2, <2>1, ReadWhen
  <2>3. Reading(<<>>) = Taking(Nothing, Nothing)
    BY <1>2, ReadWhen
  <2>4. Reading(<<>>).readContent = readContent
    BY <1>2, <2>3, DecodedReader
  <2>5. Reading(<<Header>>).readContent = FALSE
    BY <2>2, DecodedReader
  <2>6. /\ Decoded(Reading(<<>>)) = Nothing
        /\ \A line : Decoded(Reading(<<line>>)) = Nothing
    BY <2>2, <2>3, DecodedReader, Distinct
  <2>7. \A line : Reading(<<line>>).readContent = FALSE
    BY <2>2, DecodedReader
  <2> QED
    BY <2>4, <2>5, <2>6, <2>7
<1>3. CASE readContent = FALSE
  <2>1. HandleLine(Looking(Nothing, Nothing), Header) = Taking(Nothing, Nothing)
    BY Handled, Distinct
  <2>2. \A final \in {Ok, Error} :
          HandleLine(Looking(Nothing, Nothing), final) = Looking(Nothing, final)
    BY Handled, Distinct
  <2>3. /\ Reading(<<Header>>) = Taking(Nothing, Nothing)
        /\ \A final \in {Ok, Error} :
             Reading(<<final>>) = Looking(Nothing, final)
        /\ Reading(<<>>) = Looking(Nothing, Nothing)
    BY <1>3, <2>1, <2>2, ReadWhen
  <2>4. Reading(<<>>).readContent = readContent
    BY <1>3, <2>3, DecodedReader
  <2>5. Reading(<<Header>>).readContent = TRUE
    BY <2>3, DecodedReader
  <2>6. /\ Decoded(Reading(<<>>)) = Nothing
        /\ Decoded(Reading(<<Header>>)) = Nothing
        /\ \A final \in {Ok, Error} : Decoded(Reading(<<final>>)) = Nothing
    BY <1>1, <2>3, DecodedReader
  <2>7. \A final \in {Ok, Error} : Reading(<<final>>).readContent = FALSE
    BY <2>3, DecodedReader
  <2> QED
    BY <2>4, <2>5, <2>6, <2>7
<1> QED
  BY <1>2, <1>3

(* The header makes the next line the content; if the flag was left set it *)
(* is the content itself, and the message is taken for a line like others. *)
LEMMA ReadMessage ==
  ASSUME readContent \in BOOLEAN, NEW m \in Messages
  PROVE  /\ Decoded(Reading(<<Header, m>>)) = Nothing
         /\ Reading(<<Header, m>>).readContent = FALSE
         /\ Decoded(Reading(<<Header, m, Ok>>)) = IF readContent THEN Nothing ELSE m
         /\ Reading(<<Header, m, Ok>>).readContent = FALSE
<1>1. m \notin {Header, Ok, Error, Nothing}
  BY InboxAssumption
<1>2. CASE readContent = TRUE
  <2>1. HandleLine(Taking(Nothing, Nothing), Header)
          = Looking(Header, Nothing)
    BY Handled, Distinct
  <2>2. HandleLine(Looking(Header, Nothing), m) = Looking(Header, m)
    BY <1>1, Handled, Distinct
  <2>3. HandleLine(Looking(Header, m), Ok) = Looking(Header, Ok)
    BY <1>1, Handled, Distinct
  <2>4. /\ Reading(<<Header, m>>) = Looking(Header, m)
        /\ Reading(<<Header, m, Ok>>) = Looking(Header, Ok)
    BY <1>2, <2>1, <2>2, <2>3, ReadWhen
  <2> QED
    BY <1>1, <1>2, <2>4, DecodedReader, InboxAssumption
<1>3. CASE readContent = FALSE
  <2>1. HandleLine(Looking(Nothing, Nothing), Header)
          = Taking(Nothing, Nothing)
    BY Handled, Distinct
  <2>2. HandleLine(Taking(Nothing, Nothing), m) = Looking(m, Nothing)
    BY <1>1, Handled, Distinct
  <2>3. HandleLine(Looking(m, Nothing), Ok) = Looking(m, Ok)
    BY <1>1, Handled, Distinct
  <2>4. /\ Reading(<<Header, m>>) = Looking(m, Nothing)
        /\ Reading(<<Header, m, Ok>>) = Looking(m, Ok)
    BY <1>3, <2>1, <2>2, <2>3, ReadWhen
  <2> QED
    BY <1>1, <1>3, <2>4, DecodedReader, Distinct
<1> QED
  BY <1>2, <1>3

LEMMA ShortSeq ==
  ASSUME NEW S, NEW q \in Seq(S)
  PROVE  /\ Len(q) = 1 => q = <<q[1]>>
         /\ Len(q) = 2 => q = <<q[1], q[2]>>
OBVIOUS

(* What an answer can be cut to.                                           *)
LEMMA Cuts ==
  \A s, a, b, c :
    /\ s = <<a>> => \A n \in 0 .. Len(s) - 1 : SubSeq(s, 1, n) = <<>>
    /\ s = <<a, b, c>> =>
         \A n \in 0 .. Len(s) - 1 : SubSeq(s, 1, n) \in {<<>>, <<a>>, <<a, b>>}
<1> TAKE s, a, b, c
<1>1. CASE s = <<a>>
  <2>1. Len(s) = 1
    BY <1>1
  <2>2. SubSeq(s, 1, 0) = <<>>
    BY <1>1
  <2>3. s # <<a, b, c>>
    BY <1>1
  <2> QED
    BY <2>1, <2>2, <2>3
<1>2. CASE s = <<a, b, c>>
  <2>1. Len(s) = 3
    BY <1>2
  <2>2. SubSeq(s, 1, 0) = <<>>
    BY <1>2
  <2>3. SubSeq(s, 1, 1) = <<a>>
    <3>1. /\ SubSeq(s, 1, 1) \in Seq({a, b, c})
          /\ Len(SubSeq(s, 1, 1)) = 1
          /\ SubSeq(s, 1, 1)[1] = a
      <4>1. \A i \in 1 .. 1 : s[i] \in {a, b, c}
        BY <1>2
      <4>2. /\ SubSeq(s, 1, 1) \in Seq({a, b, c})
            /\ Len(SubSeq(s, 1, 1)) = 1
            /\ \A i \in 1 .. 1 : SubSeq(s, 1, 1)[i] = s[i]
        BY <4>1, SubSeqProperties
      <4> QED
        BY <1>2, <4>2
    <3> QED
      BY <3>1, ShortSeq
  <2>4. SubSeq(s, 1, 2) = <<a, b>>
    <3>1. /\ SubSeq(s, 1, 2) \in Seq({a, b, c})
          /\ Len(SubSeq(s, 1, 2)) = 2
          /\ SubSeq(s, 1, 2)[1] = a /\ SubSeq(s, 1, 2)[2] = b
      <4>1. \A i \in 1 .. 2 : s[i] \in {a, b, c}
        BY <1>2
      <4>2. /\ SubSeq(s, 1, 2) \in Seq({a, b, c})
            /\ Len(SubSeq(s, 1, 2)) = 2
            /\ \A i \in 1 .. 2 : SubSeq(s, 1, 2)[i] = s[i]
        BY <4>1, SubSeqProperties
      <4> QED
        BY <1>2, <4>2
    <3> QED
      BY <3>1, ShortSeq
  <2>5. s # <<a>>
    BY <1>2
  <2> QED
    BY <2>1, <2>2, <2>3, <2>4, <2>5
<1> QED
  BY <1>1, <1>2

(* A read that does not fail obeys the message, if there is one and no     *)
(* earlier answer was cut short; it leaves the flag reset.                 *)
ReadWell(i) ==
  /\ readContent' = FALSE
  /\ obeyed' = IF readContent \/ store[i] = Nothing
                 THEN obeyed
                 ELSE Append(obeyed, store[i])
  /\ UNCHANGED faults

(* One that fails obeys nothing, and sets the flag only if the answer is   *)
(* cut short.                                                              *)
ReadCut == Fault("cut") /\ readContent' \in BOOLEAN /\ obeyed' = obeyed

ReadFailed ==
  /\ Fault("failed")
  /\ readContent' = readContent \/ readContent' = FALSE
  /\ obeyed' = obeyed

LEMMA ReadEffect ==
  ASSUME readContent \in BOOLEAN, NEW i, store[i] \in Messages \cup {Nothing},
         ReadSMS(i)
  PROVE  ReadWell(i) \/ ReadCut \/ ReadFailed
<1>1. Nothing \notin Messages
  BY InboxAssumption
<1>2. CASE Receive(Reading(Answer(i))) /\ UNCHANGED faults
  <2>1. CASE store[i] = Nothing
    <3>1. Answer(i) = <<Ok>>
      BY <2>1 DEF Answer
    <3>2. /\ Reading(Answer(i)).readContent = FALSE
          /\ Decoded(Reading(Answer(i))) = Nothing
      BY <3>1, ReadShort
    <3> QED
      BY <1>2, <2>1, <3>2 DEF Receive, ReadWell
  <2>2. CASE store[i] # Nothing
    <3>1. Answer(i) = <<Header, store[i], Ok>> /\ store[i] \in Messages
      BY <2>2 DEF Answer
    <3>2. /\ Reading(Answer(i)).readContent = FALSE
          /\ Decoded(Reading(Answer(i))) = IF readContent THEN Nothing ELSE store[i]
      BY <3>1, ReadMessage
    <3>3. obeyed' = IF readContent THEN obeyed ELSE Append(obeyed, store[i])
      BY <1>1, <1>2, <3>1, <3>2 DEF Receive
    <3> QED
      BY <1>2, <2>2, <3>2, <3>3 DEF Receive, ReadWell
  <2> QED
    BY <2>1, <2>2
<1>3. ASSUME NEW n \in 0 .. Len(Answer(i)) - 1, Fault("cut"),
             Receive(Reading(SubSeq(Answer(i), 1, n)))
      PROVE  ReadCut
  <2> DEFINE lines == SubSeq(Answer(i), 1, n)
  <2>1. \/ lines = <<>>
        \/ lines = <<Header>>
        \/ store[i] \in Messages /\ lines = <<Header, store[i]>>
    BY <1>3, Cuts DEF Answer
  <2>2. Reading(lines).readContent \in BOOLEAN /\ Decoded(Reading(lines)) = Nothing
    BY <2>1, ReadShort, ReadMessage
  <2> HIDE DEF lines
  <2>3. Receive(Reading(lines))
    BY <1>3 DEF lines
  <2> QED
    BY <1>3, <2>2, <2>3 DEF Receive, ReadCut
<1>4. CASE Fault("failed") /\ Receive(Reading(<<Error>>))
  <2>1. /\ Reading(<<Error>>).readContent = FALSE
        /\ Decoded(Reading(<<Error>>)) = Nothing
    BY ReadShort
  <2> QED
    BY <1>4, <2>1 DEF Receive, ReadFailed
<1>5. CASE Fault("failed") /\ UNCHANGED <<readContent, obeyed>>
  BY <1>5 DEF ReadFailed
<1> QED
  BY <1>2, <1>3, <1>4, <1>5 DEF ReadSMS
-----------------------------------------------------------------------------
(* Types.                                                                  *)
Indications ==
  [param1 : {URC_NEW_SMS_IND}, param2 : Index]
    \cup [param1 : {URC_SYS_INIT_STATE_IND}, param2 : {SYS_STATE_SMSOK}]

(* The bound on the failures is a bound on those of each kind.             *)
LEMMA FaultTypes ==
  ASSUME faults \in [FaultKinds -> 0 .. MaxFaults], NEW kind \in FaultKinds,
         Fault(kind)
  PROVE  faults' \in [FaultKinds -> 0 .. MaxFaults]
<1>1. faults["failed"] \in Nat /\ faults["cut"] \in Nat /\ faults["restart"] \in Nat
  BY DEF FaultKinds
<1>2. faults[kind] + 1 \in 0 .. MaxFaults
  BY <1>1, InboxAssumption DEF Fault, FaultKinds
<1> QED
  BY <1>2 DEF Fault

LEMMA WaitingTypes == InboxTypeOK => Waiting \subseteq Messages
<1> SUFFICES ASSUME InboxTypeOK PROVE Waiting \subseteq Messages
  OBVIOUS
<1>1. ASSUME NEW k \in DOMAIN queue, queue[k].param1 = URC_NEW_SMS_IND
      PROVE  queue[k].param2 \in Index
  BY <1>1 DEF InboxTypeOK, URC_NEW_SMS_IND, URC_SYS_INIT_STATE_IND
<1>2. WaitingIndexes \subseteq Index
  BY <1>1 DEF WaitingIndexes, ToSet
<1> QED
  BY <1>2 DEF Waiting, InboxTypeOK

LEMMA PostTypes ==
  ASSUME queue \in Seq(Indications),
         \/ \E i \in Index : Post(URC_NEW_SMS_IND, i)
         \/ Post(URC_SYS_INIT_STATE_IND, SYS_STATE_SMSOK)
  PROVE  queue' \in Seq(Indications)
<1>1. PICK m \in Indications : queue' = Append(queue, m)
  BY DEF Post, Indications
<1> QED
  BY <1>1, AppendProperties

LEMMA TakeTypes ==
  ASSUME queue \in Seq(Indications), queue # <<>>, queue' = Tail(queue)
  PROVE  queue' \in Seq(Indications)
BY HeadTailProperties

(* The index of an indication, of which none but a message's has one.      *)
LEMMA HeadTypes ==
  ASSUME queue \in Seq(Indications), queue # <<>>,
         Head(queue).param1 = URC_NEW_SMS_IND
  PROVE  Head(queue).param2 \in Index
<1>1. Head(queue) \in Indications
  BY HeadTailProperties
<1> QED
  BY <1>1 DEF Indications, URC_NEW_SMS_IND, URC_SYS_INIT_STATE_IND

LEMMA ReadTypes ==
  ASSUME InboxTypeOK, NEW i \in Index, ReadSMS(i)
  PROVE  /\ readContent' \in BOOLEAN
         /\ obeyed' \in Seq(Messages)
         /\ faults' \in [FaultKinds -> 0 .. MaxFaults]
<1>1. store[i] \in Messages \cup {Nothing} /\ readContent \in BOOLEAN
  BY DEF InboxTypeOK
<1>2. CASE ReadWell(i)
  <2>1. readContent' \in BOOLEAN
    BY <1>2 DEF ReadWell
  <2>2. obeyed' = obeyed \/ (store[i] \in Messages /\ obeyed' = Append(obeyed, store[i]))
    BY <1>1, <1>2 DEF ReadWell
  <2>3. obeyed \in Seq(Messages)
    BY DEF InboxTypeOK
  <2>4. obeyed' \in Seq(Messages)
    BY <2>2, <2>3, AppendProperties
  <2> QED
    BY <1>2, <2>1, <2>4 DEF ReadWell, InboxTypeOK
<1>3. CASE ReadCut
  <2>1. faults' \in [FaultKinds -> 0 .. MaxFaults]
    BY <1>3, FaultTypes DEF ReadCut, InboxTypeOK, FaultKinds
  <2> QED
    BY <1>3, <2>1 DEF ReadCut, InboxTypeOK
<1>4. CASE ReadFailed
  <2>1. faults' \in [FaultKinds -> 0 .. MaxFaults]
    BY <1>4, FaultTypes DEF ReadFailed, InboxTypeOK, FaultKinds
  <2>2. readContent' \in BOOLEAN
    BY <1>1, <1>4 DEF ReadFailed
  <2> QED
    BY <1>4, <2>1, <2>2 DEF ReadFailed, InboxTypeOK
<1> QED
  BY <1>1, <1>2, <1>3, <1>4, ReadEffect

LEMMA InboxInitTypes == InboxInit => InboxTypeOK
<1> SUFFICES ASSUME InboxInit PROVE InboxTypeOK
  OBVIOUS
<1>1. /\ queue \in Seq(Indications)
      /\ arrived \in Seq(Messages)
      /\ obeyed \in Seq(Messages)
  BY EmptySeq DEF InboxInit
<1>2. faults \in [FaultKinds -> 0 .. MaxFaults]
  BY InboxAssumption DEF InboxInit
<1> QED
  BY <1>1, <1>2 DEF InboxInit, InboxTypeOK, Emptied, Indications

LEMMA InboxNextTypes == InboxTypeOK /\ [InboxNext]_inboxVars => InboxTypeOK'
<1> SUFFICES ASSUME InboxTypeOK, [InboxNext]_inboxVars PROVE InboxTypeOK'
  OBVIOUS
<1>1. queue \in Seq(Indications)
  BY DEF InboxTypeOK, Indications
<1>2. ASSUME NEW m \in Messages, NEW i \in Index, Arrive(m, i)
      PROVE  InboxTypeOK'
  <2>1. queue' \in Seq(Indications)
    BY <1>1, <1>2, PostTypes DEF Arrive
  <2>2. arrived' \in Seq(Messages)
    BY <1>2, AppendProperties DEF Arrive, InboxTypeOK
  <2>3. store' \in [Index -> Messages \cup {Nothing}]
    BY <1>2 DEF Arrive, InboxTypeOK
  <2> QED
    BY <1>2, <2>1, <2>2, <2>3 DEF Arrive, InboxTypeOK, Indications
<1>3. CASE BecomeReady
  <2>1. queue' \in Seq(Indications)
    BY <1>1, <1>3, PostTypes DEF BecomeReady
  <2>2. smsReady' \in BOOLEAN
    BY <1>3 DEF BecomeReady
  <2>3. /\ store' = store /\ readContent' = readContent /\ arrived' = arrived
        /\ obeyed' = obeyed /\ overtaken' = overtaken /\ dropped' = dropped
        /\ faults' = faults
    BY <1>3 DEF BecomeReady
  <2> QED
    BY <2>1, <2>2, <2>3 DEF InboxTypeOK, Indications
<1>4. CASE RecvNewSMS
  <2>1. queue' \in Seq(Indications)
    BY <1>1, <1>4, TakeTypes DEF RecvNewSMS
  <2>2. /\ readContent' \in BOOLEAN
        /\ obeyed' \in Seq(Messages)
        /\ faults' \in [FaultKinds -> 0 .. MaxFaults]
    BY <1>1, <1>4, HeadTypes, ReadTypes DEF RecvNewSMS
  <2> QED
    BY <1>4, <2>1, <2>2 DEF RecvNewSMS, InboxTypeOK, Indications
<1>5. CASE Initialize
  <2>1. queue' \in Seq(Indications)
    BY <1>1, <1>5, TakeTypes DEF Initialize
  <2>2. CASE store' = Emptied /\ overtaken' = overtaken \cup Waiting /\ UNCHANGED faults
    BY <1>5, <2>1, <2>2, WaitingTypes DEF Initialize, InboxTypeOK, Indications, Emptied
  <2>3. CASE Fault("failed") /\ UNCHANGED <<store, overtaken>>
    <3>1. faults' \in [FaultKinds -> 0 .. MaxFaults]
      BY <2>3, FaultTypes DEF InboxTypeOK, FaultKinds
    <3> QED
      BY <1>5, <2>1, <2>3, <3>1 DEF Initialize, InboxTypeOK, Indications
  <2> QED
    BY <1>5, <2>2, <2>3 DEF Initialize
<1>6. CASE Restart
  <2>1. queue' \in Seq(Indications)
    BY <1>6, EmptySeq DEF Restart
  <2>2. faults' \in [FaultKinds -> 0 .. MaxFaults]
    BY <1>6, FaultTypes DEF Restart, InboxTypeOK, FaultKinds
  <2> QED
    BY <1>6, <2>1, <2>2, WaitingTypes DEF Restart, InboxTypeOK, Indications
<1>7. CASE UNCHANGED inboxVars
  BY <1>7 DEF inboxVars, InboxTypeOK
<1> QED
  BY <1>2, <1>3, <1>4, <1>5, <1>6, <1>7 DEF InboxNext

(* The steps alone: no safety property rests on the fairness.              *)
InboxSafety == InboxInit /\ [][InboxNext]_inboxVars

LEMMA InboxIsSafe == InboxSpec => InboxSafety
BY DEF InboxSpec, InboxSafety

(* The main task reads no index that the modem's store does not have, and  *)
(* what it obeys are messages, however an answer is cut.                   *)
THEOREM InboxTypes == InboxSafety => []InboxTypeOK
BY InboxInitTypes, InboxNextTypes, PTL DEF InboxSafety
-----------------------------------------------------------------------------
(* The places of the indications in the queue, and the message that each   *)
(* of them points at.                                                      *)
News == {k \in DOMAIN queue : queue[k].param1 = URC_NEW_SMS_IND}
At(k) == store[queue[k].param2]

LEMMA WaitingIs ==
  /\ Waiting = {At(k) : k \in News} \ {Nothing}
  /\ Waiting' = {At(k)' : k \in News'} \ {Nothing}
BY DEF Waiting, WaitingIndexes, ToSet, News, At

LEMMA NewsTypes ==
  ASSUME InboxTypeOK
  PROVE  /\ News \subseteq 1 .. Len(queue)
         /\ Len(queue) \in Nat
         /\ \A k \in News : queue[k].param2 \in Index
<1>1. queue \in Seq(Indications)
  BY DEF InboxTypeOK, Indications
<1>2. DOMAIN queue = 1 .. Len(queue) /\ Len(queue) \in Nat
  BY <1>1, LenProperties
<1>3. \A k \in News : queue[k].param2 \in Index
  BY <1>1, <1>2 DEF News, Indications, URC_NEW_SMS_IND, URC_SYS_INIT_STATE_IND
<1> QED
  BY <1>2, <1>3 DEF News

(* A posted message is the last; the others stay where they are.           *)
LEMMA NewsPosted ==
  ASSUME InboxTypeOK, NEW urc, NEW param, Post(urc, param)
  PROVE  /\ News' = IF urc = URC_NEW_SMS_IND THEN News \cup {Len(queue) + 1} ELSE News
         /\ \A k \in News : queue'[k] = queue[k]
         /\ queue'[Len(queue) + 1].param2 = param
<1> DEFINE message == [param1 |-> urc, param2 |-> param]
           S == Indications \cup {message}
<1>1. queue \in Seq(S) /\ message \in S
  BY SeqMonotonic DEF InboxTypeOK, Indications
<1>2. /\ DOMAIN queue = 1 .. Len(queue) /\ Len(queue) \in Nat
      /\ queue' \in Seq(S)
      /\ Len(queue') = Len(queue) + 1
      /\ \A k \in 1 .. Len(queue) : queue'[k] = queue[k]
      /\ queue'[Len(queue) + 1] = message
  BY <1>1, LenProperties, AppendProperties DEF Post
<1>3. DOMAIN queue' = 1 .. Len(queue) + 1
  BY <1>2, LenProperties
<1> QED
  BY <1>2, <1>3 DEF News

(* When the first message is taken, the others move up.                    *)
LEMMA NewsTaken ==
  ASSUME InboxTypeOK, queue # <<>>, queue' = Tail(queue)
  PROVE  /\ \A k \in Nat : k \in News' <=> k # 0 /\ k + 1 \in News
         /\ \A k \in News' : k \in Nat \ {0} /\ queue'[k] = queue[k + 1]
         /\ 1 \in News <=> Head(queue).param1 = URC_NEW_SMS_IND
         /\ queue[1] = Head(queue)
<1>1. queue \in Seq(Indications)
  BY DEF InboxTypeOK, Indications
<1>2. /\ DOMAIN queue = 1 .. Len(queue) /\ Len(queue) \in Nat \ {0}
      /\ DOMAIN queue' = 1 .. Len(queue) - 1
      /\ \A k \in 1 .. Len(queue) - 1 : queue'[k] = queue[k + 1]
      /\ queue[1] = Head(queue)
  BY <1>1, LenProperties, HeadTailProperties, EmptySeq
<1>3. ASSUME NEW k \in Nat PROVE k \in News' <=> k # 0 /\ k + 1 \in News
  <2>1. k \in DOMAIN queue' <=> k # 0 /\ k + 1 \in DOMAIN queue
    BY <1>2
  <2>2. k \in DOMAIN queue' => queue'[k] = queue[k + 1]
    BY <1>2
  <2> QED
    BY <2>1, <2>2 DEF News
<1>4. \A k \in News' : k \in Nat \ {0} /\ queue'[k] = queue[k + 1]
  BY <1>2 DEF News
<1>5. 1 \in News <=> Head(queue).param1 = URC_NEW_SMS_IND
  BY <1>2 DEF News
<1> QED
  BY <1>2, <1>3, <1>4, <1>5
-----------------------------------------------------------------------------
(* What has been stored, obeyed and deleted was stored when it came.       *)
LEMMA ToSetAppend ==
  ASSUME NEW S, NEW s \in Seq(S), NEW x \in S
  PROVE  ToSet(Append(s, x)) = ToSet(s) \cup {x}
<1>1. DOMAIN s = 1 .. Len(s) /\ Len(s) \in Nat
  BY LenProperties
<1>2. /\ DOMAIN Append(s, x) = 1 .. Len(s) + 1
      /\ \A i \in 1 .. Len(s) : Append(s, x)[i] = s[i]
      /\ Append(s, x)[Len(s) + 1] = x
  BY LenProperties, AppendProperties
<1> QED
  BY <1>1, <1>2 DEF ToSet

KnownInv ==
  /\ \A i \in Index : store[i] # Nothing => store[i] \in ToSet(arrived)
  /\ ToSet(obeyed) \subseteq ToSet(arrived)
  /\ overtaken \subseteq ToSet(arrived)
  /\ dropped \subseteq ToSet(arrived)
  /\ \A i \in Index : store[i] \notin overtaken

LEMMA WaitingKnown ==
  ASSUME InboxTypeOK, KnownInv
  PROVE  /\ Waiting \subseteq ToSet(arrived)
         /\ Waiting \cap overtaken = {}
BY WaitingIs, NewsTypes DEF At, KnownInv

LEMMA NothingArrived == InboxTypeOK => Nothing \notin ToSet(arrived)
BY InboxAssumption DEF InboxTypeOK, ToSet

(* What a message read does to what was obeyed.                            *)
LEMMA ReadObeys ==
  ASSUME InboxTypeOK, NEW i \in Index, ReadSMS(i)
  PROVE  \/ obeyed' = obeyed
         \/ /\ store[i] \in Messages
            /\ obeyed' = Append(obeyed, store[i])
            /\ ToSet(obeyed') = ToSet(obeyed) \cup {store[i]}
<1>1. /\ store[i] \in Messages \cup {Nothing}
      /\ readContent \in BOOLEAN
      /\ obeyed \in Seq(Messages)
  BY DEF InboxTypeOK
<1>2. \/ obeyed' = obeyed
      \/ store[i] \in Messages /\ obeyed' = Append(obeyed, store[i])
  BY <1>1, ReadEffect DEF ReadWell, ReadCut, ReadFailed
<1>3. \A m \in Messages : ToSet(Append(obeyed, m)) = ToSet(obeyed) \cup {m}
  BY <1>1, ToSetAppend
<1> QED
  BY <1>2, <1>3

(* What arrives is new, and the last to have arrived.                      *)
LEMMA Arrives ==
  ASSUME InboxTypeOK, NEW m \in Messages, NEW i \in Index, Arrive(m, i)
  PROVE  /\ m \notin ToSet(arrived)
         /\ ToSet(arrived') = ToSet(arrived) \cup {m}
         /\ store[i] = Nothing
         /\ store' = [store EXCEPT ![i] = m]
         /\ News' = News \cup {Len(queue) + 1}
         /\ Len(queue) + 1 \notin News
         /\ store'[queue'[Len(queue) + 1].param2] = m
<1>1. Post(URC_NEW_SMS_IND, i) /\ arrived' = Append(arrived, m)
  BY DEF Arrive
<1>2. arrived \in Seq(Messages) /\ store \in [Index -> Messages \cup {Nothing}]
  BY DEF InboxTypeOK
<1>3. /\ News' = News \cup {Len(queue) + 1}
      /\ queue'[Len(queue) + 1].param2 = i
  BY <1>1, NewsPosted
<1>4. Len(queue) + 1 \notin News
  BY NewsTypes
<1>5. ToSet(arrived') = ToSet(arrived) \cup {m}
  BY <1>1, <1>2, ToSetAppend
<1>6. store' = [store EXCEPT ![i] = m]
  BY DEF Arrive
<1>7. store'[queue'[Len(queue) + 1].param2] = m
  BY <1>2, <1>3, <1>6
<1> QED
  BY <1>3, <1>4, <1>5, <1>6, <1>7 DEF Arrive

(* Taken from the queue: the indication of the message at an index.        *)
LEMMA Receives ==
  ASSUME InboxTypeOK, RecvNewSMS
  PROVE  /\ 1 \in News
         /\ queue[1].param2 \in Index
         /\ ReadSMS(queue[1].param2)
         /\ queue # <<>> /\ queue' = Tail(queue)
         /\ UNCHANGED <<store, smsReady, arrived, overtaken, dropped>>
<1>1. queue # <<>> /\ queue' = Tail(queue) /\ Head(queue).param1 = URC_NEW_SMS_IND
  BY DEF RecvNewSMS
<1>2. 1 \in News /\ queue[1] = Head(queue)
  BY <1>1, NewsTaken
<1>3. queue[1].param2 \in Index
  BY <1>2, NewsTypes
<1> QED
  BY <1>1, <1>2, <1>3 DEF RecvNewSMS

LEMMA KnownStep == InboxTypeOK /\ KnownInv /\ [InboxNext]_inboxVars => KnownInv'
<1> SUFFICES ASSUME InboxTypeOK, KnownInv, [InboxNext]_inboxVars PROVE KnownInv'
  OBVIOUS
<1>1. ASSUME NEW m \in Messages, NEW i \in Index, Arrive(m, i)
      PROVE  KnownInv'
  <2>1. /\ m \notin ToSet(arrived)
        /\ ToSet(arrived') = ToSet(arrived) \cup {m}
        /\ store' = [store EXCEPT ![i] = m]
    BY <1>1, Arrives
  <2>2. obeyed' = obeyed /\ overtaken' = overtaken /\ dropped' = dropped
    BY <1>1 DEF Arrive
  <2>3. \A j \in Index : store'[j] = store[j] \/ store'[j] = m
    BY <2>1 DEF InboxTypeOK
  <2> QED
    BY <2>1, <2>2, <2>3 DEF KnownInv
<1>2. CASE RecvNewSMS
  <2> DEFINE i == queue[1].param2
  <2>1. /\ i \in Index /\ ReadSMS(i)
        /\ store' = store /\ arrived' = arrived /\ overtaken' = overtaken
        /\ dropped' = dropped
    BY <1>2, Receives
  <2> HIDE DEF i
  <2>2. CASE obeyed' = obeyed
    BY <2>1, <2>2 DEF KnownInv
  <2>3. CASE store[i] \in Messages /\ ToSet(obeyed') = ToSet(obeyed) \cup {store[i]}
    <3>1. store[i] \in ToSet(arrived)
      BY <2>1, <2>3, InboxAssumption DEF KnownInv
    <3> QED
      BY <2>1, <2>3, <3>1 DEF KnownInv
  <2> QED
    BY <2>1, <2>2, <2>3, ReadObeys
<1>3. CASE Initialize
  <2>1. arrived' = arrived /\ obeyed' = obeyed /\ dropped' = dropped
    BY <1>3 DEF Initialize
  <2>2. CASE store' = store /\ overtaken' = overtaken
    BY <2>1, <2>2 DEF KnownInv
  <2>3. CASE store' = Emptied /\ overtaken' = overtaken \cup Waiting
    <3>1. overtaken' \subseteq ToSet(arrived)
      BY <2>3, WaitingKnown DEF KnownInv
    <3>2. \A i \in Index : store'[i] = Nothing
      BY <2>3 DEF Emptied
    <3>3. Nothing \notin overtaken'
      BY <3>1, NothingArrived
    <3> QED
      BY <2>1, <3>1, <3>2, <3>3 DEF KnownInv
  <2> QED
    BY <1>3, <2>2, <2>3 DEF Initialize
<1>4. CASE Restart
  <2>1. UNCHANGED <<store, arrived, obeyed, overtaken>>
    BY <1>4 DEF Restart
  <2>2. dropped' \subseteq ToSet(arrived)
    BY <1>4, WaitingKnown DEF Restart, KnownInv
  <2> QED
    BY <2>1, <2>2 DEF KnownInv
<1>5. CASE BecomeReady \/ UNCHANGED inboxVars
  <2>1. UNCHANGED <<store, arrived, obeyed, overtaken, dropped>>
    BY <1>5 DEF BecomeReady, inboxVars
  <2> QED
    BY <2>1 DEF KnownInv
<1> QED
  BY <1>1, <1>2, <1>3, <1>4, <1>5 DEF InboxNext

LEMMA KnownStart == InboxInit => KnownInv
<1> SUFFICES ASSUME InboxInit PROVE KnownInv
  OBVIOUS
<1>1. ToSet(obeyed) = {}
  BY DEF InboxInit, ToSet
<1> QED
  BY <1>1 DEF InboxInit, KnownInv, Emptied
-----------------------------------------------------------------------------
(* The order of the commands.  While nothing was deleted that was still to *)
(* be read, each indication points at the message that it was posted for,  *)
(* and these, behind those obeyed, are in the order of their arrival.      *)
OrderInv ==
  overtaken = {} =>
    /\ \A k \in News : At(k) # Nothing
    /\ \A k, l \in News : k < l => Before(arrived, At(k), At(l))
    /\ \A j, k \in DOMAIN obeyed :
         j < k => Before(arrived, obeyed[j], obeyed[k])
    /\ \A j \in DOMAIN obeyed, k \in News : Before(arrived, obeyed[j], At(k))

(* What came earlier stays so, and the last comes after all.               *)
LEMMA BeforeAppend ==
  ASSUME NEW S, NEW s \in Seq(S), NEW x \in S
  PROVE  /\ \A a, b : Before(s, a, b) => Before(Append(s, x), a, b)
         /\ \A a \in ToSet(s) : Before(Append(s, x), a, x)
<1>1. /\ DOMAIN s = 1 .. Len(s) /\ Len(s) \in Nat
      /\ DOMAIN Append(s, x) = 1 .. Len(s) + 1
      /\ \A i \in 1 .. Len(s) : Append(s, x)[i] = s[i]
      /\ Append(s, x)[Len(s) + 1] = x
  BY LenProperties, AppendProperties
<1>2. ASSUME NEW a, NEW b, Before(s, a, b) PROVE Before(Append(s, x), a, b)
  <2>1. PICK p \in DOMAIN s, q \in DOMAIN s : p < q /\ s[p] = a /\ s[q] = b
    BY <1>2 DEF Before
  <2>2. /\ p \in DOMAIN Append(s, x) /\ q \in DOMAIN Append(s, x)
        /\ Append(s, x)[p] = a /\ Append(s, x)[q] = b
    BY <1>1, <2>1
  <2> QED
    BY <2>1, <2>2 DEF Before
<1>3. ASSUME NEW a \in ToSet(s) PROVE Before(Append(s, x), a, x)
  <2>1. PICK p \in DOMAIN s : s[p] = a
    BY DEF ToSet
  <2>2. /\ p \in DOMAIN Append(s, x) /\ Len(s) + 1 \in DOMAIN Append(s, x)
        /\ p < Len(s) + 1 /\ Append(s, x)[p] = a
    BY <1>1, <2>1
  <2> QED
    BY <1>1, <2>2 DEF Before
<1> QED
  BY <1>2, <1>3

LEMMA OrderArrive ==
  ASSUME InboxTypeOK, KnownInv, OrderInv,
         NEW m \in Messages, NEW i \in Index, Arrive(m, i)
  PROVE  OrderInv'
<1> SUFFICES ASSUME overtaken' = {} PROVE OrderInv'
  BY DEF OrderInv
<1>1. overtaken = {} /\ obeyed' = obeyed /\ arrived' = Append(arrived, m)
  BY DEF Arrive
<1> DEFINE last == Len(queue) + 1
           now(k) == store'[queue'[k].param2]
<1>2. /\ News' = News \cup {last}
      /\ now(last) = m
      /\ store[i] = Nothing
      /\ store' = [store EXCEPT ![i] = m]
  BY Arrives
<1>3. /\ \A a, b : Before(arrived, a, b) => Before(arrived', a, b)
      /\ \A a \in ToSet(arrived) : Before(arrived', a, m)
  BY <1>1, BeforeAppend DEF InboxTypeOK
<1>4. \A k \in News : queue'[k] = queue[k]
  BY NewsPosted DEF Arrive
<1>5. ASSUME NEW k \in News
      PROVE  now(k) = At(k) /\ now(k) # Nothing /\ now(k) \in ToSet(arrived)
  <2>1. queue[k].param2 \in Index /\ At(k) # Nothing
    BY <1>1, NewsTypes DEF OrderInv
  <2>2. now(k) = At(k)
    BY <1>2, <1>4, <2>1 DEF At, InboxTypeOK
  <2> QED
    BY <2>1, <2>2 DEF At, KnownInv
<1>6. \A k \in News : k < last /\ k \in Nat
  BY NewsTypes
<1>7. last \in Nat
  BY NewsTypes
<1>8. m # Nothing
  BY InboxAssumption
<1>9. \A j \in DOMAIN obeyed : obeyed[j] \in ToSet(arrived)
  BY DEF KnownInv, ToSet
<1>10. \A k \in News' : At(k)' = now(k)
  BY DEF At
<1> HIDE DEF last, now
<1>11. \A k \in News' : now(k) # Nothing
  BY <1>2, <1>5, <1>8
<1>12. ASSUME NEW k \in News', NEW l \in News', k < l
       PROVE  Before(arrived', now(k), now(l))
  <2>1. k \in News
    BY <1>2, <1>6, <1>7, <1>12
  <2>2. CASE l \in News
    BY <1>1, <1>3, <1>5, <1>12, <2>1, <2>2 DEF OrderInv
  <2>3. CASE l = last
    BY <1>2, <1>3, <1>5, <2>1, <2>3
  <2> QED
    BY <1>2, <2>2, <2>3
<1>13. ASSUME NEW j \in DOMAIN obeyed, NEW k \in News'
       PROVE  Before(arrived', obeyed[j], now(k))
  <2>1. CASE k \in News
    BY <1>1, <1>3, <1>5, <2>1 DEF OrderInv
  <2>2. CASE k = last
    BY <1>2, <1>3, <1>9, <2>2
  <2> QED
    BY <1>2, <2>1, <2>2
<1>14. \A j, k \in DOMAIN obeyed : j < k => Before(arrived', obeyed[j], obeyed[k])
  BY <1>1, <1>3 DEF OrderInv
<1> QED
  BY <1>1, <1>10, <1>11, <1>12, <1>13, <1>14 DEF OrderInv

(* When the first message is taken and no message is deleted, those that   *)
(* still wait are in their order, and were after the first.                *)
LEMMA OrderTaken ==
  ASSUME InboxTypeOK, queue # <<>>, queue' = Tail(queue), store' = store
  PROVE  /\ \A k \in News' : k \in Nat /\ k + 1 \in News /\ At(k)' = At(k + 1)
         /\ OrderInv /\ overtaken' = overtaken /\ arrived' = arrived /\ obeyed' = obeyed
              => OrderInv'
<1>1. \A k \in News' : k \in Nat /\ k + 1 \in News /\ queue'[k] = queue[k + 1]
  BY NewsTaken
<1>2. \A k \in News' : At(k)' = At(k + 1)
  BY <1>1 DEF At
<1>3. \A k, l \in News' : k < l => k + 1 < l + 1
  BY <1>1
<1>4. ASSUME OrderInv, overtaken' = overtaken, arrived' = arrived, obeyed' = obeyed
      PROVE  OrderInv'
  BY <1>1, <1>2, <1>3, <1>4 DEF OrderInv
<1> QED
  BY <1>1, <1>2, <1>4

LEMMA OrderReceive ==
  ASSUME InboxTypeOK, OrderInv, RecvNewSMS
  PROVE  OrderInv'
<1> DEFINE i == queue[1].param2
<1>1. /\ 1 \in News /\ i \in Index /\ ReadSMS(i)
      /\ queue # <<>> /\ queue' = Tail(queue)
      /\ store' = store /\ arrived' = arrived /\ overtaken' = overtaken
  BY Receives
<1>2. At(1) = store[i]
  BY DEF At
<1> HIDE DEF i
<1>3. CASE obeyed' = obeyed
  BY <1>1, <1>3, OrderTaken
<1>4. CASE obeyed' = Append(obeyed, At(1)) /\ At(1) \in Messages
  <2> SUFFICES ASSUME overtaken = {} PROVE OrderInv'
    BY <1>1 DEF OrderInv
  <2>1. \A k \in News' : k \in Nat \ {0} /\ k + 1 \in News /\ At(k)' = At(k + 1)
    BY <1>1, NewsTaken, OrderTaken
  <2>2. obeyed \in Seq(Messages)
    BY DEF InboxTypeOK
  <2> DEFINE n == Len(obeyed)
  <2>3. /\ n \in Nat /\ DOMAIN obeyed = 1 .. n /\ DOMAIN obeyed' = 1 .. n + 1
        /\ \A j \in 1 .. n : obeyed'[j] = obeyed[j]
        /\ obeyed'[n + 1] = At(1)
    BY <1>4, <2>2, LenProperties, AppendProperties
  <2> HIDE DEF n
  <2>4. \A k \in News' : At(k)' # Nothing
    BY <2>1 DEF OrderInv
  <2>5. ASSUME NEW k \in News', NEW l \in News', k < l
        PROVE  Before(arrived', At(k)', At(l)')
    BY <1>1, <2>1, <2>5 DEF OrderInv
  <2>6. ASSUME NEW j \in DOMAIN obeyed', NEW k \in DOMAIN obeyed', j < k
        PROVE  Before(arrived', obeyed'[j], obeyed'[k])
    <3>1. j \in 1 .. n /\ obeyed'[j] = obeyed[j]
      BY <2>3, <2>6
    <3>2. CASE k = n + 1
      BY <1>1, <2>3, <3>1, <3>2 DEF OrderInv
    <3>3. CASE k \in 1 .. n
      BY <1>1, <2>3, <2>6, <3>1, <3>3 DEF OrderInv
    <3> QED
      BY <2>3, <3>2, <3>3
  <2>7. ASSUME NEW j \in DOMAIN obeyed', NEW k \in News'
        PROVE  Before(arrived', obeyed'[j], At(k)')
    <3>1. CASE j = n + 1
      <4>1. 1 < k + 1
        BY <2>1
      <4> QED
        BY <1>1, <2>1, <2>3, <3>1, <4>1 DEF OrderInv
    <3>2. CASE j \in 1 .. n
      BY <1>1, <2>1, <2>3, <3>2 DEF OrderInv
    <3> QED
      BY <2>3, <3>1, <3>2
  <2> QED
    BY <2>4, <2>5, <2>6, <2>7 DEF OrderInv
<1> QED
  BY <1>1, <1>2, <1>3, <1>4, ReadObeys

LEMMA OrderInitialize ==
  ASSUME InboxTypeOK, OrderInv, Initialize
  PROVE  OrderInv'
<1>1. /\ queue # <<>> /\ queue' = Tail(queue)
      /\ arrived' = arrived /\ obeyed' = obeyed
  BY DEF Initialize
<1>2. CASE store' = store /\ overtaken' = overtaken
  BY <1>1, <1>2, OrderTaken
<1>3. CASE overtaken' = overtaken \cup Waiting
  <2> SUFFICES ASSUME overtaken' = {} PROVE OrderInv'
    BY DEF OrderInv
  <2>1. overtaken = {} /\ Waiting = {}
    BY <1>3
  <2>2. News = {}
    BY <2>1, WaitingIs DEF OrderInv
  <2>3. News' = {}
    BY <1>1, <2>2, NewsTaken
  <2> QED
    BY <1>1, <2>1, <2>3 DEF OrderInv
<1> QED
  BY <1>2, <1>3 DEF Initialize

LEMMA OrderStep ==
  InboxTypeOK /\ KnownInv /\ OrderInv /\ [InboxNext]_inboxVars => OrderInv'
<1> SUFFICES ASSUME InboxTypeOK, KnownInv, OrderInv, [InboxNext]_inboxVars
             PROVE  OrderInv'
  OBVIOUS
<1>1. CASE \E m \in Messages, i \in Index : Arrive(m, i)
  BY <1>1, OrderArrive
<1>2. CASE RecvNewSMS
  BY <1>2, OrderReceive
<1>3. CASE Initialize
  BY <1>3, OrderInitialize
<1>4. CASE BecomeReady
  <2>1. News' = News /\ \A k \in News : queue'[k] = queue[k]
    BY <1>4, NewsPosted DEF BecomeReady, URC_NEW_SMS_IND, URC_SYS_INIT_STATE_IND
  <2>2. UNCHANGED <<store, arrived, obeyed, overtaken>>
    BY <1>4 DEF BecomeReady
  <2>3. \A k \in News : At(k)' = At(k)
    BY <2>1, <2>2 DEF At
  <2> QED
    BY <2>1, <2>2, <2>3 DEF OrderInv
<1>5. CASE Restart
  <2>1. News' = {}
    BY <1>5 DEF Restart, News
  <2>2. UNCHANGED <<arrived, obeyed, overtaken>>
    BY <1>5 DEF Restart
  <2> QED
    BY <2>1, <2>2 DEF OrderInv
<1>6. CASE UNCHANGED inboxVars
  <2>1. UNCHANGED <<store, queue, arrived, obeyed, overtaken>>
    BY <1>6 DEF inboxVars
  <2> QED
    BY <2>1 DEF OrderInv, News, At
<1> QED
  BY <1>1, <1>2, <1>3, <1>4, <1>5, <1>6 DEF InboxNext

LEMMA OrderStart == InboxInit => OrderInv
BY DEF InboxInit, OrderInv, News

(* What the proofs below need of every state: the types, and that nothing  *)
(* is obeyed, stored or deleted that has not arrived.                      *)
THEOREM InboxHolds == InboxSafety => [](InboxTypeOK /\ KnownInv)
BY InboxInitTypes, InboxNextTypes, KnownStart, KnownStep, PTL DEF InboxSafety

(* Commands are obeyed once each and in the order of their arrival,        *)
(* through every failed read and every restart, unless the deletion at     *)
(* "SMS Ready" overtakes an indication.                                    *)
THEOREM OrderKept == InboxSafety => []ObeyedInOrder
<1>1. KnownInv /\ OrderInv => ObeyedInOrder
  BY DEF KnownInv, OrderInv, ObeyedInOrder
<1>2. InboxSafety => []OrderInv
  BY InboxHolds, OrderStart, OrderStep, PTL DEF InboxSafety
<1> QED
  BY <1>1, <1>2, InboxHolds, PTL
-----------------------------------------------------------------------------
(* Counting.                                                               *)

(* A sequence has no more elements than places.                            *)
LEMMA Elements ==
  ASSUME NEW S, NEW s \in Seq(S)
  PROVE  IsFiniteSet(ToSet(s)) /\ Cardinality(ToSet(s)) \in Nat
<1>1. DOMAIN s = 1 .. Len(s) /\ Len(s) \in Nat /\ s \in [1 .. Len(s) -> S]
  BY LenProperties
<1>2. s \in Surjection(1 .. Len(s), ToSet(s))
  BY <1>1 DEF Surjection, ToSet
<1>3. IsFiniteSet(1 .. Len(s))
  BY <1>1, FS_Interval
<1> QED
  BY <1>2, <1>3, FS_Surjection, FS_CardinalityType

LEMMA Counts ==
  \A S, T : IsFiniteSet(S) /\ IsFiniteSet(T) =>
    /\ IsFiniteSet(S \cup T)
    /\ Cardinality(S) \in Nat /\ Cardinality(T) \in Nat
    /\ Cardinality(S \cup T) \in Nat
    /\ Cardinality(S \cup T) <= Cardinality(S) + Cardinality(T)
    /\ S \cap T = {} => Cardinality(S \cup T) = Cardinality(S) + Cardinality(T)
<1> SUFFICES ASSUME NEW S, NEW T, IsFiniteSet(S), IsFiniteSet(T)
             PROVE  /\ IsFiniteSet(S \cup T)
                    /\ Cardinality(S) \in Nat /\ Cardinality(T) \in Nat
                    /\ Cardinality(S \cup T) \in Nat
                    /\ Cardinality(S \cup T) <= Cardinality(S) + Cardinality(T)
                    /\ S \cap T = {} =>
                         Cardinality(S \cup T) = Cardinality(S) + Cardinality(T)
  OBVIOUS
<1>1. /\ IsFiniteSet(S \cup T)
      /\ Cardinality(S \cup T)
           = Cardinality(S) + Cardinality(T) - Cardinality(S \cap T)
  BY FS_Union
<1>2. IsFiniteSet(S \cap T)
  BY FS_Subset
<1>3. /\ Cardinality(S) \in Nat /\ Cardinality(T) \in Nat
      /\ Cardinality(S \cup T) \in Nat /\ Cardinality(S \cap T) \in Nat
  BY <1>1, <1>2, FS_CardinalityType
<1>4. S \cap T = {} => Cardinality(S \cap T) = 0
  BY FS_EmptySet
<1> QED
  BY <1>1, <1>3, <1>4

(* The sets counted below are finite.                                      *)
LEMMA Finite ==
  ASSUME InboxTypeOK, KnownInv
  PROVE  /\ IsFiniteSet(News)
         /\ IsFiniteSet(Waiting)
         /\ IsFiniteSet(ToSet(arrived))
         /\ IsFiniteSet(ToSet(obeyed))
         /\ IsFiniteSet(overtaken) /\ IsFiniteSet(dropped)
<1>1. IsFiniteSet(News)
  <2>1. IsFiniteSet(1 .. Len(queue))
    BY NewsTypes, FS_Interval
  <2> QED
    BY <2>1, NewsTypes, FS_Subset
<1>2. IsFiniteSet(ToSet(arrived))
  BY Elements DEF InboxTypeOK
<1> QED
  BY <1>1, <1>2, WaitingKnown, FS_Subset DEF KnownInv

(* Each message that waits has an indication of its own.                   *)
LEMMA FewerWaiting ==
  ASSUME InboxTypeOK, KnownInv
  PROVE  Cardinality(Waiting) <= Cardinality(News)
<1> DEFINE those == {k \in News : At(k) # Nothing}
           f == [k \in those |-> At(k)]
<1>1. f \in Surjection(those, Waiting)
  <2>1. f \in [those -> Waiting]
    BY WaitingIs
  <2>2. \A m \in Waiting : \E k \in those : f[k] = m
    BY WaitingIs
  <2> QED
    BY <2>1, <2>2, Fun_IsSurj
<1>2. IsFiniteSet(those) /\ Cardinality(those) <= Cardinality(News)
  BY Finite, FS_Subset
<1>3. Cardinality(Waiting) <= Cardinality(those)
  BY <1>1, <1>2, FS_Surjection
<1>4. /\ Cardinality(Waiting) \in Nat /\ Cardinality(those) \in Nat
      /\ Cardinality(News) \in Nat
  BY <1>2, Finite, FS_CardinalityType
<1> QED
  BY <1>2, <1>3, <1>4

(* The queue without its first message has as many indications as the rest *)
(* of the queue.                                                           *)
LEMMA CountTaken ==
  ASSUME InboxTypeOK, KnownInv, queue # <<>>, queue' = Tail(queue)
  PROVE  Cardinality(News') = Cardinality(News \ {1})
<1> DEFINE f == [k \in News \ {1} |-> k - 1]
<1>1. /\ \A k \in Nat : k \in News' <=> k # 0 /\ k + 1 \in News
      /\ \A k \in News' : k \in Nat \ {0}
  BY NewsTaken
<1>2. \A k \in News : k \in Nat \ {0}
  BY NewsTypes
<1>3. f \in [News \ {1} -> News']
  BY <1>1, <1>2
<1>4. \A a, b \in News \ {1} : f[a] = f[b] => a = b
  BY <1>2
<1>5. \A k \in News' : \E a \in News \ {1} : f[a] = k
  <2> TAKE k \in News'
  <2>1. k + 1 \in News \ {1} /\ (k + 1) - 1 = k
    BY <1>1
  <2> QED
    BY <2>1
<1>6. f \in Bijection(News \ {1}, News')
  BY <1>3, <1>4, <1>5, Fun_IsBij
<1>7. ExistsBijection(News \ {1}, News')
  BY <1>6, Fun_ExistsBij
<1>8. IsFiniteSet(News \ {1})
  BY Finite, FS_Subset
<1> QED
  BY <1>7, <1>8, FS_Bijection
-----------------------------------------------------------------------------
(* What waits.                                                             *)
LEMMA WaitingArrives ==
  ASSUME InboxTypeOK, NEW m \in Messages, NEW i \in Index, Arrive(m, i)
  PROVE  Waiting' = Waiting \cup {m}
<1> DEFINE last == Len(queue) + 1
           now(k) == store'[queue'[k].param2]
<1>1. /\ News' = News \cup {last} /\ now(last) = m
      /\ store[i] = Nothing /\ store' = [store EXCEPT ![i] = m]
  BY Arrives
<1>2. \A k \in News : queue'[k] = queue[k] /\ queue[k].param2 \in Index
  BY NewsPosted, NewsTypes DEF Arrive
<1>3. \A k \in News : now(k) = At(k) \/ (At(k) = Nothing /\ now(k) = m)
  BY <1>1, <1>2 DEF At, InboxTypeOK
<1>4. Waiting' = {now(k) : k \in News'} \ {Nothing}
  BY WaitingIs DEF At
<1>5. m # Nothing
  BY InboxAssumption
<1> HIDE DEF last, now
<1> QED
  BY <1>1, <1>3, <1>4, <1>5, WaitingIs

LEMMA WaitingTaken ==
  ASSUME InboxTypeOK, queue # <<>>, queue' = Tail(queue), store' = store
  PROVE  /\ Waiting' \subseteq Waiting
         /\ Waiting \subseteq Waiting' \cup {At(1)}
         /\ 1 \notin News => Waiting' = Waiting
         /\ 1 \in News /\ At(1) # Nothing => At(1) \in Waiting
<1>1. \A k \in News' : k \in Nat /\ k + 1 \in News /\ At(k)' = At(k + 1)
  BY OrderTaken
<1>2. \A k \in News \ {1} : \E l \in News' : At(l)' = At(k)
  <2> TAKE k \in News \ {1}
  <2>1. k \in Nat \ {0, 1}
    BY NewsTypes
  <2>2. k - 1 \in Nat /\ k - 1 # 0 /\ (k - 1) + 1 = k
    BY <2>1
  <2>3. k - 1 \in News'
    BY <2>2, NewsTaken
  <2> WITNESS k - 1 \in News'
  <2> QED
    BY <1>1, <2>2, <2>3
<1>3. Waiting' \subseteq Waiting
  BY <1>1, WaitingIs
<1>4. Waiting \subseteq {At(k) : k \in News \ {1}} \cup {At(1)}
  BY WaitingIs
<1>5. Waiting \subseteq Waiting' \cup {At(1)}
  BY <1>2, <1>4, WaitingIs
<1>6. 1 \notin News => Waiting \subseteq Waiting'
  BY <1>2, WaitingIs
<1> QED
  BY <1>3, <1>5, <1>6, WaitingIs

LEMMA WaitingSame ==
  ASSUME InboxTypeOK,
         BecomeReady \/ UNCHANGED <<queue, store>>
  PROVE  News' = News /\ Waiting' = Waiting
<1>1. News' = News /\ (\A k \in News : queue'[k] = queue[k]) /\ store' = store
  BY NewsPosted DEF BecomeReady, URC_NEW_SMS_IND, URC_SYS_INIT_STATE_IND, News
<1>2. \A k \in News : At(k)' = At(k)
  BY <1>1 DEF At
<1> QED
  BY <1>1, <1>2, WaitingIs

LEMMA WaitingEmptied ==
  ASSUME InboxTypeOK, queue # <<>>, queue' = Tail(queue), store' = Emptied
  PROVE  Waiting' = {}
<1>1. \A k \in News' : queue'[k].param2 \in Index
  BY NewsTaken, NewsTypes
<1>2. \A k \in News' : At(k)' = Nothing
  BY <1>1 DEF At, Emptied
<1> QED
  BY <1>2, WaitingIs
-----------------------------------------------------------------------------
(* Repeats.  What was obeyed and what may still be, counted with repeats,  *)
(* are at most so many different messages and one for each overtaken one.  *)
RepeatInv ==
  Len(obeyed) + Cardinality(News)
    <= Cardinality(ToSet(obeyed) \cup Waiting) + Cardinality(overtaken)

LEMMA RepeatCounts ==
  ASSUME InboxTypeOK, KnownInv
  PROVE  /\ Len(obeyed) \in Nat
         /\ Cardinality(News) \in Nat
         /\ Cardinality(Waiting) \in Nat
         /\ Cardinality(ToSet(obeyed)) \in Nat
         /\ Cardinality(overtaken) \in Nat
         /\ IsFiniteSet(ToSet(obeyed) \cup Waiting)
         /\ Cardinality(ToSet(obeyed) \cup Waiting) \in Nat
         /\ Cardinality(ToSet(obeyed) \cup Waiting)
              <= Cardinality(ToSet(obeyed)) + Cardinality(Waiting)
<1>1. Len(obeyed) \in Nat
  BY LenProperties DEF InboxTypeOK
<1>2. Cardinality(News) \in Nat /\ Cardinality(overtaken) \in Nat
  BY Finite, FS_CardinalityType
<1> QED
  BY <1>1, <1>2, Finite, Counts

LEMMA RepeatArrive ==
  ASSUME InboxTypeOK, KnownInv, RepeatInv,
         NEW m \in Messages, NEW i \in Index, Arrive(m, i)
  PROVE  RepeatInv'
<1>1. /\ m \notin ToSet(arrived)
      /\ News' = News \cup {Len(queue) + 1} /\ Len(queue) + 1 \notin News
  BY Arrives
<1>2. Cardinality(News') = Cardinality(News) + 1
  BY <1>1, Finite, FS_AddElement
<1>3. obeyed' = obeyed /\ overtaken' = overtaken /\ Waiting' = Waiting \cup {m}
  BY WaitingArrives DEF Arrive
<1> DEFINE all == ToSet(obeyed) \cup Waiting
<1>4. m \notin all
  BY <1>1, WaitingKnown DEF KnownInv
<1>5. IsFiniteSet(all)
  BY RepeatCounts
<1>6. Cardinality(all \cup {m}) = Cardinality(all) + 1
  BY <1>4, <1>5, FS_AddElement
<1>7. ToSet(obeyed') \cup Waiting' = all \cup {m}
  BY <1>3
<1>8. Cardinality(ToSet(obeyed') \cup Waiting') = Cardinality(all) + 1
  BY <1>6, <1>7
<1> QED
  BY <1>2, <1>3, <1>8, RepeatCounts DEF RepeatInv

LEMMA RepeatReceive ==
  ASSUME InboxTypeOK, KnownInv, RepeatInv, RecvNewSMS
  PROVE  RepeatInv'
<1> DEFINE all == ToSet(obeyed) \cup Waiting
           next == ToSet(obeyed') \cup Waiting'
<1>1. /\ 1 \in News /\ queue[1].param2 \in Index /\ ReadSMS(queue[1].param2)
      /\ queue # <<>> /\ queue' = Tail(queue)
      /\ store' = store /\ overtaken' = overtaken
  BY Receives
<1>2. Cardinality(News') = Cardinality(News) - 1
  BY <1>1, CountTaken, Finite, FS_RemoveElement
<1>3. IsFiniteSet(all) /\ Cardinality(all) \in Nat
  BY RepeatCounts
<1>4. CASE obeyed' = obeyed
  <2>1. next \subseteq all /\ all \subseteq next \cup {At(1)}
    BY <1>1, <1>4, WaitingTaken
  <2>2. IsFiniteSet(next)
    BY <1>3, <2>1, FS_Subset
  <2>3. /\ IsFiniteSet(next \cup {At(1)}) /\ Cardinality(next) \in Nat
        /\ Cardinality(next \cup {At(1)}) <= Cardinality(next) + 1
    <3> HIDE DEF next
    <3>1. Cardinality(next) \in Nat
      BY <2>2, FS_CardinalityType
    <3> QED
      BY <2>2, <3>1, FS_AddElement
  <2>4. Cardinality(all) <= Cardinality(next \cup {At(1)})
    <3> HIDE DEF all, next
    <3> QED
      BY <2>1, <2>3, FS_Subset
  <2>5. Cardinality(next \cup {At(1)}) \in Nat
    BY <2>3, FS_CardinalityType
  <2>6. Cardinality(all) <= Cardinality(next) + 1
    BY <1>3, <2>3, <2>4, <2>5
  <2>7. Len(obeyed) + Cardinality(News) <= Cardinality(all) + Cardinality(overtaken)
    BY DEF RepeatInv
  <2> HIDE DEF all, next
  <2>8. /\ Len(obeyed) \in Nat /\ Cardinality(News) \in Nat
        /\ Cardinality(overtaken) \in Nat
    BY RepeatCounts
  <2>9. Len(obeyed') = Len(obeyed) /\ overtaken' = overtaken
    BY <1>1, <1>4
  <2>10. Len(obeyed') + Cardinality(News') <= Cardinality(next) + Cardinality(overtaken')
    BY <1>2, <1>3, <2>3, <2>6, <2>7, <2>8, <2>9
  <2> QED
    BY <2>10 DEF RepeatInv, next
<1>5. CASE /\ At(1) \in Messages /\ obeyed' = Append(obeyed, At(1))
           /\ ToSet(obeyed') = ToSet(obeyed) \cup {At(1)}
  <2>1. At(1) \in Waiting
    BY <1>1, <1>5, WaitingTaken, InboxAssumption
  <2>2. next = all
    BY <1>1, <1>5, <2>1, WaitingTaken
  <2>3. Len(obeyed') = Len(obeyed) + 1
    BY <1>5, AppendProperties DEF InboxTypeOK
  <2>4. Len(obeyed) + Cardinality(News) <= Cardinality(all) + Cardinality(overtaken)
    BY DEF RepeatInv
  <2> HIDE DEF all
  <2>5. Len(obeyed') + Cardinality(News') <= Cardinality(all) + Cardinality(overtaken')
    BY <1>1, <1>2, <1>3, <2>3, <2>4, RepeatCounts
  <2> QED
    BY <2>2, <2>5 DEF RepeatInv
<1> QED
  BY <1>1, <1>4, <1>5, ReadObeys DEF At

LEMMA RepeatInitialize ==
  ASSUME InboxTypeOK, KnownInv, RepeatInv, Initialize
  PROVE  RepeatInv'
<1>1. /\ queue # <<>> /\ queue' = Tail(queue) /\ obeyed' = obeyed
      /\ Head(queue).param1 # URC_NEW_SMS_IND
  BY DEF Initialize, URC_NEW_SMS_IND, URC_SYS_INIT_STATE_IND
<1>2. 1 \notin News
  BY <1>1, NewsTaken
<1>3. Cardinality(News') = Cardinality(News)
  <2>1. News \ {1} = News
    BY <1>2
  <2> QED
    BY <1>1, <2>1, CountTaken
<1>4. CASE store' = store /\ overtaken' = overtaken
  <2>1. Waiting' = Waiting
    BY <1>1, <1>2, <1>4, WaitingTaken
  <2> QED
    BY <1>1, <1>3, <1>4, <2>1 DEF RepeatInv
<1>5. CASE store' = Emptied /\ overtaken' = overtaken \cup Waiting
  <2>1. Waiting' = {}
    BY <1>1, <1>5, WaitingEmptied
  <2>2. Cardinality(overtaken') = Cardinality(overtaken) + Cardinality(Waiting)
    BY <1>5, Counts, Finite, WaitingKnown
  <2>3. ToSet(obeyed') \cup Waiting' = ToSet(obeyed)
    BY <1>1, <2>1
  <2>4. Len(obeyed) + Cardinality(News)
          <= Cardinality(ToSet(obeyed)) + Cardinality(overtaken')
    BY <2>2, RepeatCounts DEF RepeatInv
  <2> QED
    BY <1>1, <1>3, <2>3, <2>4 DEF RepeatInv
<1> QED
  BY <1>4, <1>5 DEF Initialize

LEMMA RepeatRestart ==
  ASSUME InboxTypeOK, KnownInv, RepeatInv, Restart
  PROVE  RepeatInv'
<1>1. News' = {} /\ obeyed' = obeyed /\ overtaken' = overtaken
  BY DEF Restart, News
<1>2. Waiting' = {} /\ Cardinality(News') = 0
  BY <1>1, WaitingIs, FS_EmptySet
<1>3. ToSet(obeyed') \cup Waiting' = ToSet(obeyed)
  BY <1>1, <1>2
<1>4. Len(obeyed) <= Cardinality(ToSet(obeyed)) + Cardinality(overtaken)
  BY FewerWaiting, RepeatCounts DEF RepeatInv
<1> QED
  BY <1>1, <1>2, <1>3, <1>4, RepeatCounts DEF RepeatInv

LEMMA RepeatStep ==
  InboxTypeOK /\ KnownInv /\ RepeatInv /\ [InboxNext]_inboxVars => RepeatInv'
<1> SUFFICES ASSUME InboxTypeOK, KnownInv, RepeatInv, [InboxNext]_inboxVars
             PROVE  RepeatInv'
  OBVIOUS
<1>1. CASE \E m \in Messages, i \in Index : Arrive(m, i)
  BY <1>1, RepeatArrive
<1>2. CASE RecvNewSMS
  BY <1>2, RepeatReceive
<1>3. CASE Initialize
  BY <1>3, RepeatInitialize
<1>4. CASE Restart
  BY <1>4, RepeatRestart
<1>5. CASE BecomeReady \/ UNCHANGED inboxVars
  <2>1. obeyed' = obeyed /\ overtaken' = overtaken
    BY <1>5 DEF BecomeReady, inboxVars
  <2>2. News' = News /\ Waiting' = Waiting
    BY <1>5, WaitingSame DEF inboxVars
  <2> QED
    BY <2>1, <2>2 DEF RepeatInv
<1> QED
  BY <1>1, <1>2, <1>3, <1>4, <1>5 DEF InboxNext

LEMMA RepeatStart == InboxInit => RepeatInv
<1> SUFFICES ASSUME InboxInit PROVE RepeatInv
  OBVIOUS
<1>1. InboxTypeOK /\ KnownInv
  BY InboxInitTypes, KnownStart
<1>2. Len(obeyed) = 0 /\ News = {}
  BY DEF InboxInit, News
<1>3. Cardinality(News) = 0
  BY <1>2, FS_EmptySet
<1> QED
  BY <1>1, <1>2, <1>3, RepeatCounts DEF RepeatInv

(* No more commands are repeated than were deleted before they were read:  *)
(* the index left of one is all that makes another be read twice.          *)
THEOREM RepeatsBounded == InboxSafety => []RepeatsOnlyOvertaken
<1>1. ASSUME InboxTypeOK, KnownInv, RepeatInv PROVE RepeatsOnlyOvertaken
  BY <1>1, FewerWaiting, RepeatCounts DEF RepeatInv, RepeatsOnlyOvertaken
<1>2. InboxSafety => []RepeatInv
  BY InboxHolds, RepeatStart, RepeatStep, PTL DEF InboxSafety
<1> QED
  BY <1>1, <1>2, InboxHolds, PTL
-----------------------------------------------------------------------------
(* Losses.  What was neither obeyed nor waits, nor is excused by a deletion*)
(* or a restart, was missed in a read; the flag may make one more miss.    *)
Missed == Lost \ (overtaken \cup dropped)
Misleading == IF readContent THEN 1 ELSE 0
Excuses == faults["failed"] + 2 * faults["cut"]

LossInv == Cardinality(Missed) + Misleading <= Excuses

LEMMA LossTypes ==
  ASSUME InboxTypeOK, KnownInv
  PROVE  /\ IsFiniteSet(Missed) /\ Cardinality(Missed) \in Nat
         /\ Misleading \in {0, 1}
         /\ Excuses \in Nat
<1>1. Missed \subseteq ToSet(arrived)
  BY DEF Missed, Lost
<1>2. IsFiniteSet(Missed) /\ Cardinality(Missed) \in Nat
  BY <1>1, Finite, FS_Subset, FS_CardinalityType
<1>3. faults["failed"] \in Nat /\ faults["cut"] \in Nat
  BY DEF InboxTypeOK, FaultKinds
<1> QED
  BY <1>2, <1>3 DEF Misleading, Excuses

(* A failure pays for what it can make be missed.                          *)
LEMMA ExcusesGrow ==
  ASSUME InboxTypeOK
  PROVE  /\ Fault("failed") => Excuses' = Excuses + 1
         /\ Fault("cut") => Excuses' = Excuses + 2
         /\ Fault("restart") => Excuses' = Excuses
         /\ UNCHANGED faults => Excuses' = Excuses
<1>1. faults["failed"] \in Nat /\ faults["cut"] \in Nat
  BY DEF InboxTypeOK, FaultKinds
<1>2. DOMAIN faults = {"failed", "cut", "restart"}
  BY DEF InboxTypeOK, FaultKinds
<1>3. Fault("failed") => /\ faults'["failed"] = faults["failed"] + 1
                         /\ faults'["cut"] = faults["cut"]
  BY <1>2 DEF Fault
<1>4. Fault("cut") => /\ faults'["cut"] = faults["cut"] + 1
                      /\ faults'["failed"] = faults["failed"]
  BY <1>2 DEF Fault
<1>5. Fault("restart") => /\ faults'["cut"] = faults["cut"]
                          /\ faults'["failed"] = faults["failed"]
  BY <1>2 DEF Fault
<1> QED
  BY <1>1, <1>3, <1>4, <1>5 DEF Excuses

LEMMA MissedGrows ==
  ASSUME InboxTypeOK, KnownInv
  PROVE  /\ Missed' \subseteq Missed =>
              /\ Cardinality(Missed') \in Nat
              /\ Cardinality(Missed') <= Cardinality(Missed)
         /\ \A m : Missed' \subseteq Missed \cup {m} =>
              /\ Cardinality(Missed') \in Nat
              /\ Cardinality(Missed') <= Cardinality(Missed) + 1
<1> DEFINE old == Missed
           new == Missed'
<1>1. IsFiniteSet(old) /\ Cardinality(old) \in Nat
  BY LossTypes
<1> HIDE DEF old, new
<1>2. ASSUME new \subseteq old
      PROVE  Cardinality(new) \in Nat /\ Cardinality(new) <= Cardinality(old)
  BY <1>1, <1>2, FS_Subset, FS_CardinalityType
<1>3. ASSUME NEW m, new \subseteq old \cup {m}
      PROVE  Cardinality(new) \in Nat /\ Cardinality(new) <= Cardinality(old) + 1
  <2>1. /\ IsFiniteSet(old \cup {m})
        /\ Cardinality(old \cup {m}) <= Cardinality(old) + 1
    BY <1>1, FS_AddElement
  <2>2. /\ IsFiniteSet(new) /\ Cardinality(new) <= Cardinality(old \cup {m})
    BY <1>3, <2>1, FS_Subset
  <2>3. Cardinality(new) \in Nat /\ Cardinality(old \cup {m}) \in Nat
    BY <2>1, <2>2, FS_CardinalityType
  <2> QED
    BY <1>1, <2>1, <2>2, <2>3
<1> QED
  BY <1>2, <1>3 DEF old, new

LEMMA LossReceive ==
  ASSUME InboxTypeOK, KnownInv, LossInv, RecvNewSMS
  PROVE  LossInv'
<1>1. /\ 1 \in News /\ queue[1].param2 \in Index /\ ReadSMS(queue[1].param2)
      /\ queue # <<>> /\ queue' = Tail(queue)
      /\ UNCHANGED <<store, arrived, overtaken, dropped>>
  BY Receives
<1>2. Waiting \subseteq Waiting' \cup {At(1)}
  BY <1>1, WaitingTaken
<1>3. /\ store[queue[1].param2] \in Messages \cup {Nothing}
      /\ readContent \in BOOLEAN /\ obeyed \in Seq(Messages)
  BY <1>1 DEF InboxTypeOK
<1>4. At(1) = store[queue[1].param2]
  BY DEF At
<1>5. ToSet(obeyed) \subseteq ToSet(obeyed')
  BY <1>1, ReadObeys
<1>6. Missed' \subseteq Missed \cup {At(1)}
  BY <1>1, <1>2, <1>5 DEF Missed, Lost
<1>7. CASE ReadWell(queue[1].param2) /\ readContent = FALSE
  <2>1. At(1) \in ToSet(obeyed') \/ At(1) \notin ToSet(arrived)
    <3>1. CASE At(1) = Nothing
      BY <3>1, NothingArrived
    <3>2. CASE At(1) # Nothing
      <4>1. At(1) \in Messages /\ obeyed' = Append(obeyed, At(1))
        BY <1>3, <1>4, <1>7, <3>2 DEF ReadWell
      <4> QED
        BY <1>3, <4>1, ToSetAppend
    <3> QED
      BY <3>1, <3>2
  <2>2. Missed' \subseteq Missed
    BY <1>1, <1>6, <2>1 DEF Missed, Lost
  <2>3. Excuses' = Excuses /\ Misleading' = 0
    BY <1>7, ExcusesGrow DEF ReadWell, Misleading
  <2> QED
    BY <2>2, <2>3, MissedGrows, LossTypes DEF LossInv
<1>8. CASE ReadWell(queue[1].param2) /\ readContent = TRUE
  <2>1. Excuses' = Excuses /\ Misleading' = 0 /\ Misleading = 1
    BY <1>8, ExcusesGrow DEF ReadWell, Misleading
  <2> QED
    BY <1>6, <2>1, MissedGrows, LossTypes DEF LossInv
<1>9. CASE ReadCut
  <2>1. Excuses' = Excuses + 2 /\ Misleading' \in {0, 1}
    BY <1>9, ExcusesGrow DEF ReadCut, Misleading
  <2> QED
    BY <1>6, <2>1, MissedGrows, LossTypes DEF LossInv
<1>10. CASE ReadFailed
  <2>1. Excuses' = Excuses + 1 /\ Misleading' \in {0, Misleading}
    BY <1>10, ExcusesGrow DEF ReadFailed, Misleading
  <2> QED
    BY <1>6, <2>1, MissedGrows, LossTypes DEF LossInv
<1> QED
  BY <1>1, <1>3, <1>7, <1>8, <1>9, <1>10, ReadEffect

LEMMA LossStep ==
  InboxTypeOK /\ KnownInv /\ LossInv /\ [InboxNext]_inboxVars => LossInv'
<1> SUFFICES ASSUME InboxTypeOK, KnownInv, LossInv, [InboxNext]_inboxVars
             PROVE  LossInv'
  OBVIOUS
<1>1. ASSUME NEW m \in Messages, NEW i \in Index, Arrive(m, i)
      PROVE  LossInv'
  <2>1. /\ UNCHANGED <<readContent, obeyed, overtaken, dropped, faults>>
        /\ ToSet(arrived') = ToSet(arrived) \cup {m}
        /\ Waiting' = Waiting \cup {m}
    BY <1>1, Arrives, WaitingArrives DEF Arrive
  <2>2. Missed' \subseteq Missed
    BY <2>1 DEF Missed, Lost
  <2>3. Excuses' = Excuses /\ Misleading' = Misleading
    BY <2>1 DEF Excuses, Misleading
  <2> QED
    BY <2>2, <2>3, MissedGrows, LossTypes DEF LossInv
<1>2. CASE RecvNewSMS
  BY <1>2, LossReceive
<1>3. CASE Initialize
  <2>1. /\ queue # <<>> /\ queue' = Tail(queue)
        /\ Head(queue).param1 # URC_NEW_SMS_IND
        /\ UNCHANGED <<readContent, arrived, obeyed, dropped>>
    BY <1>3 DEF Initialize, URC_NEW_SMS_IND, URC_SYS_INIT_STATE_IND
  <2>2. Misleading' = Misleading
    BY <2>1 DEF Misleading
  <2>3. CASE store' = Emptied /\ overtaken' = overtaken \cup Waiting /\ UNCHANGED faults
    <3>1. Missed' \subseteq Missed
      BY <2>1, <2>3 DEF Missed, Lost
    <3>2. Excuses' = Excuses
      BY <2>3 DEF Excuses
    <3> QED
      BY <2>2, <3>1, <3>2, MissedGrows, LossTypes DEF LossInv
  <2>4. CASE Fault("failed") /\ UNCHANGED <<store, overtaken>>
    <3>1. Waiting' = Waiting
      BY <2>1, <2>4, NewsTaken, WaitingTaken
    <3>2. Missed' \subseteq Missed
      BY <2>1, <2>4, <3>1 DEF Missed, Lost
    <3>3. Excuses' = Excuses + 1
      BY <2>4, ExcusesGrow
    <3> QED
      BY <2>2, <3>2, <3>3, MissedGrows, LossTypes DEF LossInv
  <2> QED
    BY <1>3, <2>3, <2>4 DEF Initialize
<1>4. CASE Restart
  <2>1. /\ dropped' = dropped \cup Waiting /\ readContent' = FALSE
        /\ UNCHANGED <<arrived, obeyed, overtaken>>
    BY <1>4 DEF Restart
  <2>2. Missed' \subseteq Missed
    BY <2>1 DEF Missed, Lost
  <2>3. Excuses' = Excuses /\ Misleading' = 0
    BY <1>4, <2>1, ExcusesGrow DEF Restart, Misleading
  <2> QED
    BY <2>2, <2>3, MissedGrows, LossTypes DEF LossInv
<1>5. CASE BecomeReady \/ UNCHANGED inboxVars
  <2>1. UNCHANGED <<readContent, arrived, obeyed, overtaken, dropped, faults>>
    BY <1>5 DEF BecomeReady, inboxVars
  <2>2. Waiting' = Waiting
    BY <1>5, WaitingSame DEF inboxVars
  <2> QED
    BY <2>1, <2>2 DEF LossInv, Missed, Lost, Misleading, Excuses
<1> QED
  BY <1>1, <1>2, <1>3, <1>4, <1>5 DEF InboxNext

LEMMA LossStart == InboxInit => LossInv
<1> SUFFICES ASSUME InboxInit PROVE LossInv
  OBVIOUS
<1>1. InboxTypeOK /\ KnownInv
  BY InboxInitTypes, KnownStart
<1>2. Missed = {} /\ readContent = FALSE
  BY DEF InboxInit, Missed, Lost, ToSet
<1>3. Cardinality(Missed) = 0 /\ Misleading = 0
  BY <1>2, FS_EmptySet DEF Misleading
<1> QED
  BY <1>1, <1>3, LossTypes DEF LossInv

(* A command that fails costs one message at most, an answer cut short two:*)
(* the one being read, and the next, which the flag left set misleads.     *)
THEOREM LossesExcused == InboxSafety => []LossesBounded
<1>1. ASSUME InboxTypeOK, KnownInv, LossInv PROVE LossesBounded
  <2> DEFINE causes == overtaken \cup dropped
  <2>1. /\ IsFiniteSet(Missed) /\ Cardinality(Missed) \in Nat
        /\ Misleading \in {0, 1} /\ Excuses \in Nat
    BY <1>1, LossTypes
  <2>2. IsFiniteSet(causes)
    BY <1>1, Finite, Counts
  <2>3. Lost \subseteq Missed \cup causes
    BY DEF Missed
  <2> HIDE DEF causes
  <2>4. /\ IsFiniteSet(Missed \cup causes)
        /\ Cardinality(Missed \cup causes) \in Nat
        /\ Cardinality(Missed \cup causes) <= Cardinality(Missed) + Cardinality(causes)
        /\ Cardinality(causes) \in Nat
    BY <2>1, <2>2, Counts
  <2>5. IsFiniteSet(Lost) /\ Cardinality(Lost) <= Cardinality(Missed \cup causes)
    BY <2>3, <2>4, FS_Subset
  <2>6. Cardinality(Lost) \in Nat
    BY <2>5, FS_CardinalityType
  <2>7. Cardinality(Lost) <= Excuses + Cardinality(causes)
    BY <1>1, <2>1, <2>4, <2>5, <2>6 DEF LossInv
  <2> QED
    BY <2>7 DEF LossesBounded, Excuses, causes
<1>2. InboxSafety => []LossInv
  BY InboxHolds, LossStart, LossStep, PTL DEF InboxSafety
<1> QED
  BY <1>1, <1>2, InboxHolds, PTL
-----------------------------------------------------------------------------
(* The users take nothing from the inbox and give nothing to it: whatever  *)
(* SmsOutlet does is a step of SmsInbox or leaves its state alone.         *)
LEMMA InboxSteps == [Next]_vars => [InboxNext]_inboxVars
  BY DEF Next, Receiving, InboxNext, vars

(* What is proved of the inbox holds where its commands are obeyed: every  *)
(* behaviour of the composition keeps to the order, repeats and loses no   *)
(* more than the inbox alone.                                              *)
THEOREM OutletKeepsInbox ==
  Spec =>
    [](InboxTypeOK /\ ObeyedInOrder /\ RepeatsOnlyOvertaken /\ LossesBounded)
<1>1. Init => InboxInit
  BY DEF Init
<1>2. Spec => InboxSafety
  BY <1>1, InboxSteps, PTL DEF Spec, InboxSafety
<1> QED
  BY <1>2, InboxTypes, OrderKept, RepeatsBounded, LossesExcused, PTL
-----------------------------------------------------------------------------
(* Who is known after a sequence of messages, and after one more.          *)

(* A set of natural numbers that is not empty has a least element.         *)
LEMMA Least ==
  ASSUME NEW S \in SUBSET Nat, S # {}
  PROVE  \E m \in S : \A k \in S : m <= k
<1> DEFINE less == OpToRel(<, Nat)
<1>1. IsWellFoundedOn(less, Nat)
  BY NatLessThanWellFounded
<1>2. \A k \in S, m \in S : k < m => <<k, m>> \in less
  BY DEF OpToRel
<1> HIDE DEF less
<1>3. PICK m \in S : \A k \in S : ~(<<k, m>> \in less)
  BY <1>1, WFMin
<1>4. \A k \in S : ~(k < m)
  BY <1>2, <1>3
<1> QED
  BY <1>4

(* known follows who is known after each of the first n messages of s.     *)
Follows(known, s, n) ==
  known = [k \in 0 .. n |->
             IF k = 0 THEN <<>> ELSE AfterCommand(known[k - 1], s[k])]

LEMMA FollowsMore ==
  ASSUME NEW s, NEW n \in Nat, NEW known, Follows(known, s, n)
  PROVE  \E more : Follows(more, s, n + 1)
<1> DEFINE more == [k \in 0 .. n + 1 |->
                      IF k = n + 1 THEN AfterCommand(known[n], s[n + 1])
                                   ELSE known[k]]
<1>1. ASSUME NEW k \in 0 .. n + 1
      PROVE  more[k] = IF k = 0 THEN <<>> ELSE AfterCommand(more[k - 1], s[k])
  <2>1. CASE k = 0
    BY <2>1 DEF Follows
  <2>2. CASE k = n + 1
    BY <2>2
  <2>3. CASE k \in 1 .. n
    <3>1. known[k] = AfterCommand(known[k - 1], s[k])
      BY <2>3 DEF Follows
    <3>2. more[k] = known[k] /\ more[k - 1] = known[k - 1]
      BY <2>3
    <3> QED
      BY <2>3, <3>1, <3>2
  <2> QED
    BY <2>1, <2>2, <2>3
<1>2. more = [k \in 0 .. n + 1 |->
                IF k = 0 THEN <<>> ELSE AfterCommand(more[k - 1], s[k])]
  BY <1>1
<1> QED
  BY <1>2 DEF Follows

LEMMA FollowsExists ==
  ASSUME NEW s, NEW n \in Nat
  PROVE  \E known : Follows(known, s, n)
<1> DEFINE without == {m \in Nat : ~\E known : Follows(known, s, m)}
<1>1. 0 \notin without
  <2>1. Follows([k \in 0 .. 0 |-> <<>>], s, 0)
    BY DEF Follows
  <2> QED
    BY <2>1
<1>2. \A m \in Nat : m \notin without => m + 1 \notin without
  BY FollowsMore
<1> HIDE DEF without
<1>3. without = {}
  <2> SUFFICES ASSUME without # {} PROVE FALSE
    OBVIOUS
  <2>1. without \in SUBSET Nat
    BY DEF without
  <2>2. PICK m \in without : \A k \in without : m <= k
    BY <2>1, Least
  <2>3. m - 1 \in Nat /\ m - 1 \notin without
    BY <1>1, <2>1, <2>2
  <2> QED
    BY <1>2, <2>1, <2>2, <2>3
<1> QED
  BY <1>3 DEF without

(* Two that follow the same messages agree.                                *)
LEMMA FollowsAgree ==
  ASSUME NEW s, NEW t, NEW n \in Nat, NEW m \in Nat, n <= m,
         \A k \in 1 .. n : s[k] = t[k],
         NEW f, Follows(f, s, n), NEW g, Follows(g, t, m)
  PROVE  \A k \in 0 .. n : f[k] = g[k]
<1> DEFINE apart == {k \in 0 .. n : f[k] # g[k]}
<1>1. 0 \notin apart
  BY DEF Follows
<1>2. \A k \in 1 .. n : k - 1 \notin apart => k \notin apart
  BY DEF Follows
<1>3. apart \in SUBSET Nat /\ apart \subseteq 0 .. n
  OBVIOUS
<1> HIDE DEF apart
<1>4. apart = {}
  <2> SUFFICES ASSUME apart # {} PROVE FALSE
    OBVIOUS
  <2>1. PICK k \in apart : \A j \in apart : k <= j
    BY <1>3, Least
  <2> QED
    BY <1>1, <1>2, <1>3, <2>1
<1> QED
  BY <1>4 DEF apart

LEMMA KnownFollows ==
  ASSUME NEW s, Len(s) \in Nat
  PROVE  \E known : Follows(known, s, Len(s)) /\ Known(s) = known[Len(s)]
<1>1. Known(s) = (CHOOSE known : Follows(known, s, Len(s)))[Len(s)]
  BY DEF Known, Follows
<1> QED
  BY <1>1, FollowsExists

LEMMA KnownNobody == Known(<<>>) = <<>>
<1>1. PICK known : Follows(known, <<>>, 0) /\ Known(<<>>) = known[0]
  BY KnownFollows, EmptySeq
<1> QED
  BY <1>1 DEF Follows

LEMMA KnownAppend ==
  ASSUME NEW s \in Seq(Messages), NEW m \in Messages
  PROVE  Known(Append(s, m)) = AfterCommand(Known(s), m)
<1> DEFINE n == Len(s)
           t == Append(s, m)
<1>1. /\ n \in Nat /\ Len(t) = n + 1 /\ t[n + 1] = m
      /\ \A k \in 1 .. n : s[k] = t[k]
  BY LenProperties, AppendProperties
<1> HIDE DEF n, t
<1>2. PICK f : Follows(f, s, n) /\ Known(s) = f[n]
  BY <1>1, KnownFollows DEF n
<1>3. PICK g : Follows(g, t, n + 1) /\ Known(t) = g[n + 1]
  BY <1>1, KnownFollows
<1>4. f[n] = g[n]
  BY <1>1, <1>2, <1>3, FollowsAgree
<1>5. g[n + 1] = AfterCommand(g[n], t[n + 1])
  BY <1>1, <1>3 DEF Follows
<1> QED
  BY <1>1, <1>2, <1>3, <1>4, <1>5 DEF t
-----------------------------------------------------------------------------
(* As many as arrived, in their order: what arrived.                       *)
Once(s) == \A i, j \in DOMAIN s : s[i] = s[j] => i = j

(* p puts the numbers up to n into the numbers up to n, in their order:    *)
(* none of them falls behind ...                                           *)
LEMMA NoneEarlier ==
  ASSUME NEW n \in Nat, NEW p \in [1 .. n -> 1 .. n],
         \A j, k \in 1 .. n : j < k => p[j] < p[k]
  PROVE  \A k \in 1 .. n : k <= p[k]
<1> DEFINE early == {k \in 1 .. n : p[k] < k}
<1>1. early \in SUBSET Nat /\ early \subseteq 1 .. n
  OBVIOUS
<1>2. ASSUME NEW k \in early PROVE k - 1 \in early
  <2>1. k \in 1 .. n /\ p[k] \in 1 .. n /\ p[k] < k
    OBVIOUS
  <2>2. k - 1 \in 1 .. n /\ p[k - 1] \in 1 .. n
    BY <2>1
  <2>3. p[k - 1] < p[k]
    BY <2>1, <2>2
  <2> QED
    BY <2>1, <2>2, <2>3
<1>3. early = {}
  <2> HIDE DEF early
  <2> SUFFICES ASSUME early # {} PROVE FALSE
    OBVIOUS
  <2>1. PICK m \in early : \A k \in early : m <= k
    BY <1>1, Least
  <2> QED
    BY <1>1, <1>2, <2>1
<1> QED
  BY <1>3

(* ... so that all stay where they are.                                    *)
LEMMA EachAtItsPlace ==
  ASSUME NEW n \in Nat, NEW p \in [1 .. n -> 1 .. n],
         \A j, k \in 1 .. n : j < k => p[j] < p[k]
  PROVE  \A k \in 1 .. n : p[k] = k
<1> DEFINE q == [k \in 1 .. n |-> n + 1 - p[n + 1 - k]]
<1>1. \A k \in 1 .. n : n + 1 - k \in 1 .. n /\ n + 1 - (n + 1 - k) = k
  OBVIOUS
<1>2. ASSUME NEW k \in 1 .. n PROVE q[k] \in 1 .. n /\ q[k] = n + 1 - p[n + 1 - k]
  BY <1>1
<1>3. ASSUME NEW j \in 1 .. n, NEW k \in 1 .. n, j < k
      PROVE  q[j] < q[k]
  <2>1. n + 1 - k \in 1 .. n /\ n + 1 - j \in 1 .. n /\ n + 1 - k < n + 1 - j
    BY <1>3
  <2>2. p[n + 1 - k] < p[n + 1 - j]
    BY <2>1
  <2>3. p[n + 1 - k] \in 1 .. n /\ p[n + 1 - j] \in 1 .. n
    BY <2>1
  <2> QED
    BY <2>2, <2>3
<1>4. q \in [1 .. n -> 1 .. n]
  BY <1>2
<1> HIDE DEF q
<1>5. \A k \in 1 .. n : k <= q[k] /\ k <= p[k]
  BY <1>3, <1>4, NoneEarlier
<1>6. ASSUME NEW k \in 1 .. n PROVE p[k] <= k
  <2>1. n + 1 - k \in 1 .. n
    OBVIOUS
  <2>2. q[n + 1 - k] = n + 1 - p[k]
    BY <1>1, <1>2, <2>1
  <2>3. n + 1 - k <= q[n + 1 - k] /\ p[k] \in 1 .. n
    BY <1>5, <2>1
  <2> QED
    BY <2>2, <2>3
<1> QED
  BY <1>5, <1>6

LEMMA AllInOrder ==
  ASSUME NEW S, NEW s \in Seq(S), NEW t \in Seq(S), Len(s) = Len(t), Once(s),
         ToSet(t) \subseteq ToSet(s),
         \A j, k \in DOMAIN t : j < k => Before(s, t[j], t[k])
  PROVE  t = s
<1> DEFINE n == Len(s)
           p == [k \in 1 .. n |-> CHOOSE i \in 1 .. n : s[i] = t[k]]
<1>1. n \in Nat /\ DOMAIN s = 1 .. n /\ DOMAIN t = 1 .. n
  BY LenProperties
<1>2. ASSUME NEW k \in 1 .. n
      PROVE  p[k] \in 1 .. n /\ s[p[k]] = t[k]
  <2>1. \E i \in 1 .. n : s[i] = t[k]
    BY <1>1 DEF ToSet
  <2> QED
    BY <2>1
<1>3. ASSUME NEW j \in 1 .. n, NEW k \in 1 .. n, j < k
      PROVE  p[j] < p[k]
  <2> HIDE DEF p, n
  <2>1. Before(s, t[j], t[k])
    BY <1>1, <1>3
  <2>2. PICK a, b \in DOMAIN s : a < b /\ s[a] = t[j] /\ s[b] = t[k]
    BY <2>1, Zenon DEF Before
  <2>3. p[j] \in DOMAIN s /\ s[p[j]] = t[j] /\ p[k] \in DOMAIN s /\ s[p[k]] = t[k]
    BY <1>1, <1>2
  <2>4. p[j] = a /\ p[k] = b
    BY <2>2, <2>3 DEF Once
  <2> QED
    BY <2>2, <2>4
<1>4. p \in [1 .. n -> 1 .. n]
  BY <1>2
<1> HIDE DEF p, n
<1>5. \A k \in 1 .. n : p[k] = k
  BY <1>1, <1>3, <1>4, EachAtItsPlace
<1>6. \A k \in 1 .. n : s[k] = t[k]
  BY <1>2, <1>5
<1> QED
  BY <1>1, <1>6, SeqEqual DEF n

(* Each message arrives once.                                              *)
LEMMA OnceStep ==
  ASSUME InboxTypeOK, Once(arrived), [InboxNext]_inboxVars
  PROVE  Once(arrived')
<1>1. CASE arrived' = arrived
  BY <1>1
<1>2. ASSUME NEW m \in Messages, NEW i \in Index, Arrive(m, i)
      PROVE  Once(arrived')
  <2>1. /\ m \notin ToSet(arrived) /\ arrived' = Append(arrived, m)
        /\ arrived \in Seq(Messages)
    BY <1>2 DEF Arrive, InboxTypeOK
  <2>2. /\ DOMAIN arrived = 1 .. Len(arrived) /\ Len(arrived) \in Nat
        /\ DOMAIN arrived' = 1 .. Len(arrived) + 1
        /\ \A k \in 1 .. Len(arrived) : arrived'[k] = arrived[k]
        /\ arrived'[Len(arrived) + 1] = m
    BY <2>1, LenProperties, AppendProperties
  <2>3. \A k \in 1 .. Len(arrived) : arrived[k] # m
    BY <2>1, <2>2 DEF ToSet
  <2> QED
    BY <2>2, <2>3 DEF Once
<1> QED
  BY <1>1, <1>2 DEF InboxNext, inboxVars, BecomeReady, RecvNewSMS, Initialize, Restart
-----------------------------------------------------------------------------
(* The users, as far as messages let them in.                              *)

(* What is proved of the file of numbers.                                  *)
Proved == INSTANCE Users_proofs WITH MaxFaults <- 0, faults <- 0, seen <- {}

(* Every sender's number fills its slot.                                   *)
NumbersFit == \A n \in Numbers : Len(n) = SlotLen

LEMMA SameDirectory ==
  /\ Directory!Slot = Proved!Slot /\ Directory!Nobody = Proved!Nobody
  /\ \A text : Directory!Load(text) = Proved!Load(text)
  /\ \A n : Directory!IsManager(n) <=> Proved!IsManager(n)
BY DEF Directory!Slot, Proved!Slot, Directory!Nobody, Proved!Nobody, Directory!Load, Proved!Load,
       Directory!Prefix, Proved!Prefix, Directory!IsManager, Proved!IsManager,
       Directory!Same, Proved!Same

(* Each of those known has his place in the file ...                       *)
Stored(known, text) ==
  /\ known \in Seq(Seq(Chars)) /\ Len(known) <= Slots
  /\ \A k \in DOMAIN known : Len(known[k]) = SlotLen
  /\ Proved!Holds(text, Len(known))
  /\ \A k \in DOMAIN known : Proved!Load(text)[k - 1] = known[k]

(* ... and the same one in users, which is empty while nobody is known.    *)
InPlace(known, places) ==
  /\ places \in [Directory!Slot -> Seq(Chars)]
  /\ \A k \in DOMAIN known : places[k - 1] = known[k]
  /\ known = <<>> => \A i \in Directory!Slot : places[i] = <<>>

UsersKnow == Stored(Known(obeyed), file) /\ InPlace(Known(obeyed), users)

LEMMA DirectoryConstants ==
  /\ Slots \in Nat \ {0} /\ SlotLen \in Nat \ {0}
  /\ PrefixLen \in 1 .. SlotLen
  /\ Numbers \subseteq Seq(Chars) /\ NewNumbers \subseteq Seq(Chars)
  /\ Directory!Slot = 0 .. Slots - 1 /\ Proved!Slot = 0 .. Slots - 1
BY OutletAssumption DEF Directory!UsersAssumption, Directory!Slot, Proved!Slot

(* A number of a slot fits its place.                                      *)
LEMMA CopyFits ==
  ASSUME users \in [Directory!Slot -> Seq(Chars)],
         NEW i, NEW n \in Seq(Chars), Len(n) = SlotLen
  PROVE  Directory!Copied(i, n) = [users EXCEPT ![i] = n]
<1>1. Directory!Copied(i, n) = Proved!Copied(i, n)
  BY SameDirectory
     DEF Directory!Copied, Proved!Copied, Directory!Prefix, Proved!Prefix
<1>2. Len(n) < BufferLen
  BY OutletAssumption DEF Directory!UsersAssumption
<1> QED
  BY <1>1, <1>2, SameDirectory, OutletAssumption, Proved!CopiedFits

(* After "Manager", the sender alone is known.                             *)
LEMMA ManagerKnown ==
  ASSUME NumbersFit, NEW known, InPlace(known, users),
         NEW n \in Numbers, Directory!Manager(n)
  PROVE  Stored(<<n>>, file') /\ InPlace(<<n>>, users')
<1>1. n \in Seq(Chars) /\ Len(n) = SlotLen /\ 0 \in Directory!Slot
  BY DirectoryConstants DEF NumbersFit
<1>2. users' = [users EXCEPT ![0] = n] /\ file' = n
  BY <1>1, CopyFits DEF Directory!Manager, Directory!Fault, InPlace
<1>3. Proved!Holds(n, 1) /\ Proved!Load(n)[0] = n
  BY <1>1, OutletAssumption, Proved!SmallFiles
<1>4. /\ <<n>> \in Seq(Seq(Chars)) /\ Len(<<n>>) = 1
      /\ \A k \in DOMAIN <<n>> : k = 1 /\ <<n>>[k] = n
  BY <1>1
<1>5. Stored(<<n>>, file')
  BY <1>1, <1>2, <1>3, <1>4, DirectoryConstants DEF Stored
<1>6. InPlace(<<n>>, users')
  BY <1>1, <1>2, <1>4 DEF InPlace
<1> QED
  BY <1>5, <1>6

(* The code accepts a new user exactly when AfterCommand lets him in: the  *)
(* sender is the first of those known, and the file has a place.           *)
LEMMA AcceptedIs ==
  ASSUME NumbersFit, NEW known, Stored(known, file), InPlace(known, users),
         NEW m \in Messages
  PROVE  /\ Len(file) \div SlotLen = Len(known)
         /\ Accepted(m) <=>
              /\ known # <<>>
              /\ m.from = Head(known)
              /\ Len(m.adds) = SlotLen
              /\ Len(known) < Slots
<1>1. /\ m.from \in Numbers /\ m.from \in Seq(Chars) /\ Len(m.from) = SlotLen
      /\ 0 \in Directory!Slot /\ SlotLen \in Nat \ {0} /\ PrefixLen \in 1 .. SlotLen
  BY OutletAssumption, DirectoryConstants DEF NumbersFit
<1>2. /\ known \in Seq(Seq(Chars)) /\ Len(known) \in Nat
      /\ DOMAIN known = 1 .. Len(known)
      /\ Len(file) = Len(known) * SlotLen
  BY LenProperties DEF Stored, Proved!Holds
<1>3. Len(file) \div SlotLen = Len(known)
  BY <1>1, <1>2, OutletAssumption, Proved!SlotOf
<1>4. Directory!IsManager(m.from) => known # <<>>
  <2> SUFFICES ASSUME Directory!IsManager(m.from), known = <<>> PROVE FALSE
    OBVIOUS
  <2>1. users[0] = Proved!Nobody
    BY <1>1 DEF InPlace, Proved!Nobody
  <2> QED
    BY <1>1, <2>1, SameDirectory, OutletAssumption, Proved!OnlyTheManager
<1>5. ASSUME known # <<>>
      PROVE  /\ users[0] = Head(known) /\ Head(known) \in Seq(Chars)
             /\ Len(Head(known)) = SlotLen
  <2>1. 1 \in DOMAIN known /\ Head(known) = known[1]
    BY <1>2, <1>5, EmptySeq, LenProperties
  <2> QED
    BY <1>2, <2>1 DEF InPlace, Stored
<1>6. \A n \in Seq(Chars) : Len(n) = SlotLen => Directory!Prefix(n, SlotLen) = n
  <2> SUFFICES ASSUME NEW n \in Seq(Chars), Len(n) = SlotLen
               PROVE  Directory!Prefix(n, SlotLen) = n
    OBVIOUS
  <2>1. Directory!Prefix(n, SlotLen) = SubSeq(n, 1, SlotLen)
    BY DEF Directory!Prefix
  <2> QED
    BY <1>1, <2>1, SubSeqProperties, SeqEqual
<1>7. known # <<>> => (Directory!IsManager(m.from) <=> m.from = Head(known))
  BY <1>1, <1>5, <1>6 DEF Directory!IsManager, Directory!Same
<1>8. known # <<>> /\ m.from = Head(known) => Directory!Recognised(m.from)
  BY <1>1, <1>5 DEF Directory!Recognised, Directory!Same
<1>9. /\ Directory!Fits(m.adds) <=> Len(m.adds) = SlotLen
      /\ Directory!HasRoom(Len(file)) <=> Len(known) < Slots
  BY <1>3 DEF Directory!Fits, Directory!HasRoom
<1> QED
  BY <1>3, <1>4, <1>7, <1>8, <1>9 DEF Accepted

(* A user who is let in takes the next place in both.                      *)
LEMMA NewUserKnown ==
  ASSUME NEW known, Stored(known, file), InPlace(known, users),
         Len(file) \div SlotLen = Len(known), known # <<>>, Len(known) < Slots,
         NEW new \in Seq(Chars), Len(new) = SlotLen, Directory!Place(new, Len(file)),
         file' = file \o new
  PROVE  Stored(Append(known, new), file') /\ InPlace(Append(known, new), users')
<1> DEFINE n == Len(known)
           more == Append(known, new)
<1>1. /\ known \in Seq(Seq(Chars)) /\ n \in Nat /\ DOMAIN known = 1 .. n
      /\ n + 1 <= Slots /\ n \in Directory!Slot
      /\ Directory!Slot = 0 .. Slots - 1 /\ Proved!Slot = 0 .. Slots - 1
  BY LenProperties, DirectoryConstants DEF Stored
<1>2. /\ more \in Seq(Seq(Chars)) /\ DOMAIN more = 1 .. n + 1 /\ Len(more) = n + 1
      /\ \A k \in 1 .. n : more[k] = known[k]
      /\ more[n + 1] = new
      /\ more # <<>>
  <2>1. /\ more \in Seq(Seq(Chars)) /\ Len(more) = n + 1
        /\ \A k \in 1 .. n : more[k] = known[k]
        /\ more[n + 1] = new
    BY <1>1, AppendProperties
  <2> HIDE DEF more
  <2>2. DOMAIN more = 1 .. n + 1 /\ more # <<>>
    BY <1>1, <2>1, LenProperties, EmptySeq
  <2> QED
    BY <2>1, <2>2
<1>3. Proved!Holds(file, n)
  BY DEF Stored
<1> HIDE DEF n, more
<1>4. /\ Proved!Holds(file', n + 1)
      /\ \A i \in Proved!Slot : i < n => Proved!Load(file')[i] = Proved!Load(file)[i]
      /\ Proved!Load(file')[n] = new
  BY <1>1, <1>3, OutletAssumption, Proved!NextSlotFilled
<1>5. users' = [users EXCEPT ![n] = new] /\ users \in [Directory!Slot -> Seq(Chars)]
  BY CopyFits DEF Directory!Place, Directory!NextSlot, InPlace, n
<1>6. \A k \in 1 .. n + 1 :
        /\ Len(more[k]) = SlotLen
        /\ Proved!Load(file')[k - 1] = more[k]
        /\ users'[k - 1] = more[k]
  <2>1. ASSUME NEW k \in 1 .. n
        PROVE  /\ Len(more[k]) = SlotLen
               /\ Proved!Load(file')[k - 1] = more[k]
               /\ users'[k - 1] = more[k]
    <3>1. /\ Len(known[k]) = SlotLen /\ Proved!Load(file)[k - 1] = known[k]
          /\ users[k - 1] = known[k]
      BY <1>1 DEF Stored, InPlace
    <3>2. k - 1 \in Proved!Slot /\ k - 1 < n /\ k - 1 \in Directory!Slot /\ k - 1 # n
      BY <1>1, DirectoryConstants
    <3> QED
      BY <1>2, <1>4, <1>5, <3>1, <3>2
  <2>2. users'[n] = new
    BY <1>1, <1>5
  <2> QED
    BY <1>1, <1>2, <1>4, <2>1, <2>2
<1>7. Stored(more, file')
  BY <1>1, <1>2, <1>4, <1>6 DEF Stored
<1>8. InPlace(more, users')
  BY <1>2, <1>5, <1>6 DEF InPlace
<1> QED
  BY <1>7, <1>8 DEF more

(* Whatever is obeyed, those known after it are in their places.           *)
LEMMA ObeyKnown ==
  ASSUME NumbersFit, NEW known, Stored(known, file), InPlace(known, users),
         NEW m \in Messages, Obey(m)
  PROVE  /\ Stored(AfterCommand(known, m), file')
         /\ InPlace(AfterCommand(known, m), users')
<1>1. m.from \in Numbers /\ m.adds \in NewNumbers \cup {<<>>}
  BY OutletAssumption
<1>2. CASE IsManagerCommand(m)
  <2>1. Directory!Manager(m.from)
    BY <1>2 DEF Obey
  <2> QED
    BY <1>1, <1>2, <2>1, ManagerKnown DEF AfterCommand
<1>3. CASE ~IsManagerCommand(m) /\ Accepted(m)
  <2>1. Directory!AddUser(m.from, m.adds)
    BY <1>3 DEF Obey
  <2>2. Directory!Place(m.adds, Len(file)) /\ file' = file \o m.adds
    BY <2>1 DEF Directory!AddUser, Directory!Fault
  <2>3. AfterCommand(known, m) = Append(known, m.adds)
    BY <1>3, AcceptedIs DEF AfterCommand
  <2>4. m.adds \in Seq(Chars)
    BY <1>1, <1>3, DirectoryConstants DEF IsManagerCommand
  <2>5. /\ Len(file) \div SlotLen = Len(known)
        /\ known # <<>> /\ Len(known) < Slots /\ Len(m.adds) = SlotLen
    BY <1>3, AcceptedIs
  <2> QED
    BY <2>2, <2>3, <2>4, <2>5, NewUserKnown
<1>4. CASE ~IsManagerCommand(m) /\ ~Accepted(m)
  <2>1. UNCHANGED usersVars
    BY <1>4 DEF Obey, Accepted, Directory!AddUser, Directory!Place, Directory!Fault
  <2>2. AfterCommand(known, m) = known
    BY <1>4, AcceptedIs DEF AfterCommand
  <2> QED
    BY <2>1, <2>2 DEF usersVars
<1> QED
  BY <1>2, <1>3, <1>4

(* At a restart users is read from the file, which has everybody.          *)
LEMMA BootKnown ==
  ASSUME NEW known, Stored(known, file), Directory!Boot
  PROVE  Stored(known, file') /\ InPlace(known, users')
<1>1. users' = Proved!Load(file) /\ file' = file
  BY SameDirectory DEF Directory!Boot, Directory!Fault
<1>2. /\ known \in Seq(Seq(Chars)) /\ Len(known) \in Nat
      /\ Proved!Holds(file, Len(known)) /\ file \in Seq(Chars)
  BY LenProperties DEF Stored, Proved!Holds
<1>3. Proved!Load(file) \in [Proved!Slot -> Seq(Chars)]
  BY <1>2, OutletAssumption, Proved!LoadType
<1>4. known = <<>> => \A i \in Proved!Slot : Proved!Load(file)[i] = <<>>
  <2> SUFFICES ASSUME known = <<>>, NEW i \in Proved!Slot PROVE Proved!Load(file)[i] = <<>>
    OBVIOUS
  <2>1. Len(known) = 0 /\ ~(i < 0)
    BY DirectoryConstants
  <2>2. (Proved!Load(file)[i] # Proved!Nobody) <=> i < Len(known)
    BY <1>2, OutletAssumption, Proved!TakenSlots
  <2> QED
    BY <2>1, <2>2 DEF Proved!Nobody
<1>5. \A k \in DOMAIN known : Proved!Load(file)[k - 1] = known[k]
  BY DEF Stored
<1> QED
  BY <1>1, <1>3, <1>4, <1>5, SameDirectory DEF InPlace

LEMMA KnowStart == Init => UsersKnow
<1> SUFFICES ASSUME Init PROVE UsersKnow
  OBVIOUS
<1>1. /\ obeyed = <<>> /\ file = <<>>
      /\ users = [i \in Directory!Slot |-> <<>>]
  BY DEF Init, InboxInit, Directory!Init, Directory!Nobody
<1>2. Known(obeyed) = <<>>
  BY <1>1, KnownNobody
<1>3. Proved!Holds(<<>>, 0)
  BY OutletAssumption, Proved!SmallFiles
<1>4. <<>> \in Seq(Seq(Chars)) /\ Len(<<>>) = 0 /\ DOMAIN <<>> = {} /\ <<>> \in Seq(Chars)
  BY EmptySeq
<1>5. Stored(<<>>, file)
  BY <1>1, <1>3, <1>4, DirectoryConstants DEF Stored
<1>6. InPlace(<<>>, users)
  BY <1>1, <1>4 DEF InPlace
<1> QED
  BY <1>2, <1>5, <1>6 DEF UsersKnow

LEMMA KnowStep ==
  ASSUME NumbersFit, InboxTypeOK, UsersKnow, [Next]_vars
  PROVE  UsersKnow'
<1>1. PICK known : known = Known(obeyed)
  OBVIOUS
<1>2. Stored(known, file) /\ InPlace(known, users)
  BY <1>1 DEF UsersKnow
<1>3. CASE UNCHANGED <<obeyed, users, file>>
  BY <1>3 DEF UsersKnow
<1>4. CASE Receiving
  <2>1. CASE obeyed' = obeyed
    BY <1>3, <1>4, <2>1 DEF Receiving, usersVars
  <2>2. CASE obeyed' # obeyed
    <3>1. /\ queue[1].param2 \in Index /\ ReadSMS(queue[1].param2)
      BY <1>4, Receives DEF Receiving
    <3>2. PICK m \in Messages : obeyed' = Append(obeyed, m)
      BY <2>2, <3>1, ReadObeys
    <3>3. obeyed \in Seq(Messages)
      BY DEF InboxTypeOK
    <3>4. Last(obeyed') = m
      BY <3>2, <3>3, AppendProperties DEF Last
    <3>5. Obey(m)
      BY <1>4, <2>2, <3>4 DEF Receiving
    <3>6. Known(obeyed') = AfterCommand(known, m)
      BY <1>1, <3>2, <3>3, KnownAppend
    <3>7. /\ Stored(AfterCommand(known, m), file')
          /\ InPlace(AfterCommand(known, m), users')
      BY <1>2, <3>5, ObeyKnown
    <3> QED
      BY <3>6, <3>7 DEF UsersKnow
  <2> QED
    BY <2>1, <2>2
<1>5. CASE Restart /\ Directory!Boot
  <2>1. Known(obeyed') = known
    BY <1>1, <1>5 DEF Restart
  <2>2. Stored(known, file') /\ InPlace(known, users')
    BY <1>2, <1>5, BootKnown
  <2> QED
    BY <2>1, <2>2 DEF UsersKnow
<1> QED
  BY <1>3, <1>4, <1>5
     DEF Next, Arrive, BecomeReady, Initialize, usersVars, vars, inboxVars

(* The users are those whom the obeyed messages let in, each in his place, *)
(* and once everything sent was obeyed, and nothing was deleted unread,    *)
(* those whom the messages let in in the order of their arrival: for any   *)
(* messages, restarts and failed reads, provided that every sender's       *)
(* number fills its slot.                                                  *)
THEOREM EveryoneKnown == NumbersFit => (Spec => []EveryoneLetInIsKnown)
<1> SUFFICES ASSUME NumbersFit PROVE Spec => []EveryoneLetInIsKnown
  OBVIOUS
<1> DEFINE Inv == InboxTypeOK /\ Once(arrived) /\ UsersKnow
<1>1. Init => Inv
  BY InboxInitTypes, KnowStart, EmptySeq DEF Init, InboxInit, Once
<1>2. Inv /\ [Next]_vars => Inv'
  BY InboxNextTypes, InboxSteps, OnceStep, KnowStep
<1>3. Inv /\ ObeyedInOrder => EveryoneLetInIsKnown
  <2> SUFFICES ASSUME InboxTypeOK, Once(arrived), UsersKnow, ObeyedInOrder
               PROVE  EveryoneLetInIsKnown
    OBVIOUS
  <2>1. InPlaces(Known(obeyed))
    BY DEF UsersKnow, InPlace, InPlaces
  <2>2. ASSUME Len(arrived) = Len(obeyed), overtaken = {}
        PROVE  obeyed = arrived
    <3>1. arrived \in Seq(Messages) /\ obeyed \in Seq(Messages)
      BY DEF InboxTypeOK
    <3> QED
      BY <2>2, <3>1, AllInOrder DEF ObeyedInOrder
  <2> QED
    BY <2>1, <2>2 DEF EveryoneLetInIsKnown
<1> QED
  BY <1>1, <1>2, <1>3, OutletKeepsInbox, PTL DEF Spec
===============================================================================
