------------------------------ MODULE SmsInbox ------------------------------
(***************************************************************************)
(* How an SMS becomes a command: the modem stores it and reports its index *)
(* (+CMTI), the URC task posts the index to the main task, the main task   *)
(* reads the message at that index (AT+CMGR) and obeys it.  No message is  *)
(* deleted but all of them at once, when the main task handles "SMS Ready".*)
(*                                                                         *)
(* An answer of the modem is a sequence of lines.  A message stands for    *)
(* the line with its PDU; the other lines are Header, Ok and Error.        *)
(* Handlers of the main task run to their end one after the other; the     *)
(* modem and the URC task go on meanwhile.                                 *)
(***************************************************************************)
EXTENDS Naturals, FiniteSets, Sequences, SequencesExt

CONSTANTS
  Messages,          \* the SMS that are sent, each one different
  Capacity,          \* places in the modem's store
  Header, Ok, Error, \* "+CMGR: ...", "OK" and "ERROR"
  Nothing,           \* no message, no line
  MaxFaults          \* bound on the number of failures

ASSUME InboxAssumption ==
  /\ Capacity \in Nat \ {0}
  /\ MaxFaults \in Nat
  /\ Cardinality({Header, Ok, Error, Nothing}) = 4
  /\ Messages \cap {Header, Ok, Error, Nothing} = {}

Index == 1 .. Capacity

FaultKinds ==
  {"failed",    \* an AT command answers ERROR or times out before AT+CMGR
   "cut",       \* the answer to AT+CMGR ends before its final line
   "restart"}   \* the outlet restarts

URC_NEW_SMS_IND == "URC_NEW_SMS_IND"
URC_SYS_INIT_STATE_IND == "URC_SYS_INIT_STATE_IND"
SYS_STATE_SMSOK == 0

VARIABLES
  store,        \* in the modem, kept over restarts: the message at an index
  smsReady,     \* the modem has reported "SMS Ready" since the last restart
  queue,        \* messages to the main task
  readContent,  \* s_bSMSReadContentFlag
  \* history:
  arrived,      \* the messages stored, in their order
  obeyed,       \* the messages obeyed, in their order
  overtaken,    \* the messages deleted while their indication was waiting
  dropped,      \* the messages whose indication was waiting at a restart
  faults        \* how many failures of each kind there have been

inboxVars == <<store, smsReady, queue, readContent,
               arrived, obeyed, overtaken, dropped, faults>>

InboxTypeOK ==
  /\ store \in [Index -> Messages \cup {Nothing}]
  /\ smsReady \in BOOLEAN
  /\ queue \in Seq([param1 : {URC_NEW_SMS_IND}, param2 : Index]
                     \cup [param1 : {URC_SYS_INIT_STATE_IND},
                           param2 : {SYS_STATE_SMSOK}])
  /\ readContent \in BOOLEAN
  /\ arrived \in Seq(Messages)
  /\ obeyed \in Seq(Messages)
  /\ overtaken \subseteq Messages
  /\ dropped \subseteq Messages
  /\ faults \in [FaultKinds -> 0 .. MaxFaults]

Fault(kind) ==
  /\ faults["failed"] + faults["cut"] + faults["restart"] < MaxFaults
  /\ faults' = [faults EXCEPT ![kind] = @ + 1]

(* The indexes that the main task has still to read. *)
WaitingIndexes ==
  {message.param2 : message \in
     {m \in ToSet(queue) : m.param1 = URC_NEW_SMS_IND}}

Waiting == {store[i] : i \in WaitingIndexes} \ {Nothing}
-----------------------------------------------------------------------------
(* The URC task. *)

PostShared(urc, param) ==   \* mutant: posted by address, as the MQTT URCs are
  queue' = Append([k \in DOMAIN queue |->
                     IF queue[k].param1 = urc
                       THEN [param1 |-> urc, param2 |-> param]
                       ELSE queue[k]],
                  [param1 |-> urc, param2 |-> param])

PostTwice(urc, param) ==   \* mutant: the handlers of both tables are called
  queue' = queue \o << [param1 |-> urc, param2 |-> param],
                       [param1 |-> urc, param2 |-> param] >>

(* Ql_OS_SendMessage: by value, to the end of the queue. *)
Post(urc, param) ==
  queue' = Append(queue, [param1 |-> urc, param2 |-> param])

(* The modem stores a new message wherever there is a place, reports it,   *)
(* and OnURCHandler_SMS posts its index.  A full store takes no message.   *)
Arrive(m, i) ==
  /\ m \notin ToSet(arrived)
  /\ smsReady
  /\ store[i] = Nothing
  /\ store' = [store EXCEPT ![i] = m]
  /\ arrived' = Append(arrived, m)
  /\ Post(URC_NEW_SMS_IND, i)
  /\ UNCHANGED <<smsReady, readContent, obeyed, overtaken, dropped, faults>>

(* "SMS Ready": OnURCHandler_InitStat. *)
BecomeReady ==
  /\ ~smsReady
  /\ smsReady' = TRUE
  /\ Post(URC_SYS_INIT_STATE_IND, SYS_STATE_SMSOK)
  /\ UNCHANGED <<store, readContent, arrived, obeyed, overtaken, dropped,
                 faults>>
-----------------------------------------------------------------------------
(* Reading a message. *)

HdlrReadPDUMsgSticky(reader, line) ==   \* mutant: the flag is never reset
  IF reader.readContent
    THEN [reader EXCEPT !.content = line]
    ELSE IF line = Header
      THEN [reader EXCEPT !.readContent = TRUE]
      ELSE [reader EXCEPT !.final = line]

(* SMS_CMD_GeneralHandler with HdlrReadPDUMsg, called with each line until *)
(* a final one: the line after a header is the content, whatever it is; a  *)
(* line that is neither is searched for a final result.                    *)
HdlrReadPDUMsg(reader, line) ==
  IF reader.readContent
    THEN [reader EXCEPT !.content = line, !.readContent = FALSE]
    ELSE IF line = Header
      THEN [reader EXCEPT !.readContent = TRUE]
      ELSE [reader EXCEPT !.final = line]

HandleLine(reader, line) ==
  IF reader.final \in {Ok, Error} THEN reader ELSE HdlrReadPDUMsg(reader, line)

(* Ql_RIL_SendATCmd("AT+CMGR="): the lines as they come, of which there are*)
(* at most three; without a final line it times out.                       *)
Reading(lines) ==
  LET After(reader, k) ==
        IF k \in DOMAIN lines THEN HandleLine(reader, lines[k]) ELSE reader
      start ==
        [readContent |-> readContent, content |-> Nothing, final |-> Nothing]
  IN  After(After(After(start, 1), 2), 3)

(* What the modem answers when nothing fails. *)
Answer(i) == IF store[i] = Nothing THEN <<Ok>> ELSE <<Header, store[i], Ok>>

(* RIL_SMS_ReadSMS_Text, once the answer is there: without an OK it fails, *)
(* an empty content is no new message, and a text that is no PDU cannot be *)
(* decoded.                                                                *)
Decoded(reader) ==
  IF reader.final = Ok /\ reader.content \in Messages
    THEN reader.content
    ELSE Nothing

(* Hdlr_RecvNewSMS: a message that cannot be read is not read again. *)
Receive(reader) ==
  /\ readContent' = reader.readContent
  /\ obeyed' = IF Decoded(reader) = Nothing
                 THEN obeyed
                 ELSE Append(obeyed, Decoded(reader))

ReadSMS(i) ==
  \/ /\ Receive(Reading(Answer(i)))
     /\ UNCHANGED faults
  \/ \E n \in 0 .. Len(Answer(i)) - 1 :
       /\ Fault("cut")
       /\ Receive(Reading(SubSeq(Answer(i), 1, n)))
  \/ /\ Fault("failed")
     /\ Receive(Reading(<<Error>>))
  \/ /\ Fault("failed")
     /\ UNCHANGED <<readContent, obeyed>>

RecvNewSMSFlush ==   \* mutant: the other messages are taken from the queue too
  /\ queue # <<>>
  /\ Head(queue).param1 = URC_NEW_SMS_IND
  /\ queue' = <<>>
  /\ ReadSMS(Head(queue).param2)
  /\ UNCHANGED <<store, smsReady, arrived, overtaken, dropped>>

(* The message loop, URC_NEW_SMS_IND. *)
RecvNewSMS ==
  /\ queue # <<>>
  /\ Head(queue).param1 = URC_NEW_SMS_IND
  /\ queue' = Tail(queue)
  /\ ReadSMS(Head(queue).param2)
  /\ UNCHANGED <<store, smsReady, arrived, overtaken, dropped>>

EmptiedFromZero == [i \in 0 .. Capacity - 1 |-> Nothing]   \* mutant: from 0

Emptied == [i \in Index |-> Nothing]

(* The message loop, SYS_STATE_SMSOK: SMS_Initialize deletes all messages. *)
Initialize ==
  /\ queue # <<>>
  /\ Head(queue).param1 = URC_SYS_INIT_STATE_IND
  /\ queue' = Tail(queue)
  /\ \/ /\ store' = Emptied
        /\ overtaken' = overtaken \cup Waiting
        /\ UNCHANGED faults
     \/ /\ Fault("failed")
        /\ UNCHANGED <<store, overtaken>>
  /\ UNCHANGED <<smsReady, readContent, arrived, obeyed, dropped>>

(* The outlet restarts, and the modem with it: only the store is kept. *)
Restart ==
  /\ Fault("restart")
  /\ dropped' = dropped \cup Waiting
  /\ smsReady' = FALSE
  /\ queue' = <<>>
  /\ readContent' = FALSE
  /\ UNCHANGED <<store, arrived, obeyed, overtaken>>

InboxInit ==
  /\ store = Emptied
  /\ smsReady = FALSE
  /\ queue = <<>>
  /\ readContent = FALSE
  /\ arrived = <<>>
  /\ obeyed = <<>>
  /\ overtaken = {}
  /\ dropped = {}
  /\ faults = [kind \in FaultKinds |-> 0]

InboxNext ==
  \/ \E m \in Messages, i \in Index : Arrive(m, i)
  \/ BecomeReady
  \/ RecvNewSMS
  \/ Initialize
  \/ Restart

(* The main task takes its messages; the modem gets ready and stores what  *)
(* it has place for.                                                       *)
InboxFairness ==
  /\ WF_inboxVars(RecvNewSMS \/ Initialize)
  /\ WF_inboxVars(BecomeReady)
  /\ \A m \in Messages : WF_inboxVars(\E i \in Index : Arrive(m, i))

InboxSpec == InboxInit /\ [][InboxNext]_inboxVars /\ InboxFairness
-----------------------------------------------------------------------------
Before(s, x, y) == \E p, q \in DOMAIN s : p < q /\ s[p] = x /\ s[q] = y

(* Commands are obeyed in the order in which they were stored, each once,  *)
(* unless SMS_Initialize deleted a message that was still to be read: its  *)
(* index is then read for the message that takes its place.                *)
ObeyedInOrder ==
  overtaken = {} =>
    /\ ToSet(obeyed) \subseteq ToSet(arrived)
    /\ \A j, k \in DOMAIN obeyed :
         j < k => Before(arrived, obeyed[j], obeyed[k])

(* ... and then no more commands are repeated than were deleted so.        *)
RepeatsOnlyOvertaken ==
  Len(obeyed) - Cardinality(ToSet(obeyed)) <= Cardinality(overtaken)

Lost == ToSet(arrived) \ (ToSet(obeyed) \cup Waiting)

(* No message is lost without a cause: a failed command costs at most one, *)
(* an answer cut short at most two, since s_bSMSReadContentFlag can mislead*)
(* the next read but no later one, and a deletion or a restart costs those *)
(* that were waiting.                                                      *)
LossesBounded ==
  Cardinality(Lost) <=
    faults["failed"] + 2 * faults["cut"] + Cardinality(overtaken \cup dropped)

(* Once no more fails, a message whose read is not misled is obeyed, if no *)
(* deletion is waiting.                                                    *)
Safe(m) ==
  /\ m \in Waiting
  /\ ~readContent
  /\ faults["failed"] + faults["cut"] + faults["restart"] = MaxFaults
  /\ \A k \in DOMAIN queue : queue[k].param1 = URC_NEW_SMS_IND

WaitingIsObeyed ==
  \A m \in Messages : Safe(m) ~> m \in ToSet(obeyed)

(* Every SMS is received: README, "In URC_NEW_SMS_IND new commands are     *)
(* received by SMS".  It does not hold: no message is deleted at run time, *)
(* so the store fills up and the modem takes no other.                     *)
EveryCommandReceived ==
  \A m \in Messages : <>(m \in ToSet(arrived))
=============================================================================
