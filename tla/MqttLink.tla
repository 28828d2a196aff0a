------------------------------ MODULE MqttLink ------------------------------
(***************************************************************************)
(* How the outlet brings up and uses its MQTT connection.                  *)
(*                                                                         *)
(* Main task: a repeating timer calls Callback_Timer, which issues the AT  *)
(* command that m_mqtt_state asks for and then waits (STATE_MQTT_TOTAL_NUM)*)
(* for the unsolicited result code (URC) that reports the outcome; the     *)
(* message loop moves m_mqtt_state when that URC reports success.          *)
(* Commands from the broker arrive in mqtt_message_received_callback,      *)
(* whose answers are published by publish_mqtt_msg.                        *)
(*                                                                         *)
(* URC task: parses each URC into the one global mqtt_urc_param and posts  *)
(* its address to the main task, which reads the fields later, when more   *)
(* URCs may have been parsed into them.                                    *)
(*                                                                         *)
(* The modem and the broker are the environment: what they may answer is   *)
(* here, and how often they misbehave is bounded by MaxFaults.             *)
(***************************************************************************)
EXTENDS Naturals, Sequences, SequencesExt

CONSTANTS
  Faults,      \* the kinds of misbehaviour allowed, a subset of FaultKinds
  MaxFaults,   \* bound on their number
  MaxGets,     \* bound on the status requests the broker delivers
  MaxId,       \* largest message identifier AT+QMTPUB accepts (65535)
  Word         \* number of values of a u32

FaultKinds ==
  {"at",          \* an AT command answers ERROR or is not sent (BUSY)
   "timeout",     \* the modem executes an AT command whose answer is lost
   "urc",         \* a URC reports failure
   "retransmit",  \* a URC reports that a packet was sent again
   "refuse",      \* the broker refuses the connection
   "reject",      \* the broker rejects the subscription
   "lost"}        \* the broker closes the connection

ASSUME LinkAssumption ==
  /\ Faults \subseteq FaultKinds
  /\ MaxFaults \in Nat
  /\ MaxGets \in Nat
  /\ Word \in Nat
  /\ MaxId \in 1 .. Word - 1

Ops == {"OPEN", "CONN", "SUB", "PUB"}
TOTAL_NUM == "TOTAL_NUM"
States == {"NW_QUERY", "CFG"} \cup Ops \cup {TOTAL_NUM}

SUB_REJECTED == 128   \* a granted QoS that means rejection
NO_VALUE == 255       \* what the URC task stores for a missing field

VARIABLES
  m_mqtt_state,
  timerOn,         \* the SIM is ready and the MQTT timer repeats
  urc_param,       \* the fields of mqtt_urc_param the main task reads
  urcTask,         \* the URC the URC task is parsing, or Idle
  queue,           \* the URC messages posted to the main task
  pub_message_id,
  jobs,            \* AT commands the modem works on, oldest first
  socket,          \* what the modem has, one of Sockets
  subscribed,      \* whether the broker has granted the subscription
  gets,            \* status requests delivered but not yet received
  asked,           \* status requests delivered so far
  faults, seen,    \* the number and the kinds of misbehaviours so far
  greetings        \* times the first packet was handed to the modem

mainVars == <<m_mqtt_state, timerOn, pub_message_id, greetings>>
urcVars == <<urc_param, urcTask>>
modemVars == <<jobs, socket, subscribed>>
envVars == <<gets, asked>>
faultVars == <<faults, seen>>
vars == <<mainVars, urcVars, queue, modemVars, envVars, faultVars>>

Idle == [op |-> "none", value |-> NO_VALUE]
Results == 0 .. 3
Values == {0, 1, SUB_REJECTED, NO_VALUE}
Kinds == Ops \cup {"STATE"}
Sockets == {"closed", "open", "connected", "lost"}

TypeOK ==
  /\ m_mqtt_state \in States
  /\ timerOn \in BOOLEAN
  /\ urc_param \in [result : Results, sub_value : Values]
  /\ urcTask \in [op : Kinds \cup {"none"}, value : Values]
  /\ queue \in Seq(Kinds)
  /\ pub_message_id \in 0 .. Word - 1
  /\ jobs \in Seq(Ops)
  /\ socket \in Sockets
  /\ subscribed \in BOOLEAN
  /\ gets \in 0 .. MaxGets
  /\ asked \in 0 .. MaxGets
  /\ faults \in 0 .. MaxFaults
  /\ seen \subseteq Faults
  /\ greetings \in Nat

Fault(kind) ==
  /\ kind \in Faults
  /\ faults < MaxFaults
  /\ faults' = faults + 1
  /\ seen' = seen \cup {kind}
-----------------------------------------------------------------------------
(* The modem's side of an AT command.  It takes an operation that fits the *)
(* state of its socket, and a publication only with an identifier in       *)
(* range; it answers ERROR to any other.                                   *)
Takes(op, id) ==
  /\ op = "OPEN" => socket \in {"closed", "lost"} /\ ~Contains(jobs, "OPEN")
  /\ op = "CONN" => socket = "open" /\ ~Contains(jobs, "CONN")
  /\ op = "SUB" => socket = "connected"
  /\ op = "PUB" => socket = "connected" /\ id <= MaxId

ATSuccess(op, id) ==
  /\ Takes(op, id)
  /\ jobs' = Append(jobs, op)
  /\ UNCHANGED faultVars

ATTimeout(op, id) ==
  /\ Takes(op, id)
  /\ jobs' = Append(jobs, op)
  /\ Fault("timeout")

ATFailure(op, id) ==
  /\ UNCHANGED jobs
  /\ \/ ~Takes(op, id) /\ UNCHANGED faultVars
     \/ Fault("at")
-----------------------------------------------------------------------------
(* Main task: the SIM is ready, the MQTT timer is started, or started anew *)
(* when the SIM is reported ready again, which changes nothing.            *)
SimReady ==
  /\ timerOn' = TRUE
  /\ UNCHANGED <<m_mqtt_state, pub_message_id, greetings, urcVars, queue,
                 modemVars, envVars, faultVars>>

(* Callback_Timer, one action per state. *)

(* Registered and the PDP context opened; otherwise, try again next time. *)
TickNwQuery ==
  /\ timerOn
  /\ m_mqtt_state = "NW_QUERY"
  /\ \/ m_mqtt_state' = "CFG" /\ UNCHANGED faultVars
     \/ m_mqtt_state' = "NW_QUERY" /\ Fault("at")
  /\ UNCHANGED <<timerOn, pub_message_id, greetings, urcVars, queue,
                 modemVars, envVars>>

TickCfg ==
  /\ timerOn
  /\ m_mqtt_state = "CFG"
  /\ \/ m_mqtt_state' = "OPEN" /\ UNCHANGED faultVars
     \/ m_mqtt_state' = "CFG" /\ (Fault("at") \/ Fault("timeout"))
  /\ UNCHANGED <<timerOn, pub_message_id, greetings, urcVars, queue,
                 modemVars, envVars>>

TickRequestOnce(op) ==   \* mutant: a failed command is not tried again
  /\ timerOn
  /\ m_mqtt_state = op
  /\ ATSuccess(op, 0) \/ ATTimeout(op, 0) \/ ATFailure(op, 0)
  /\ m_mqtt_state' = TOTAL_NUM
  /\ UNCHANGED <<timerOn, pub_message_id, greetings, urcVars, queue, socket,
                 subscribed, envVars>>

(* STATE_MQTT_OPEN, _CONN and _SUB: on success, wait for the URC; on any   *)
(* other return value, stay and try again on the next tick.                *)
TickRequest(op) ==
  /\ timerOn
  /\ m_mqtt_state = op
  /\ \/ ATSuccess(op, 0) /\ m_mqtt_state' = TOTAL_NUM
     \/ (ATTimeout(op, 0) \/ ATFailure(op, 0)) /\ UNCHANGED m_mqtt_state
  /\ UNCHANGED <<timerOn, pub_message_id, greetings, urcVars, queue, socket,
                 subscribed, envVars>>

(* STATE_MQTT_PUB: publish the first packet, with the next identifier. *)
TickPub ==
  /\ timerOn
  /\ m_mqtt_state = "PUB"
  /\ pub_message_id' = (pub_message_id + 1) % Word
  /\ \/ /\ ATSuccess("PUB", pub_message_id')
        /\ m_mqtt_state' = TOTAL_NUM
        /\ greetings' = greetings + 1
     \/ /\ ATTimeout("PUB", pub_message_id')
        /\ greetings' = greetings + 1
        /\ UNCHANGED m_mqtt_state
     \/ /\ ATFailure("PUB", pub_message_id')
        /\ UNCHANGED <<m_mqtt_state, greetings>>
  /\ UNCHANGED <<timerOn, urcVars, queue, socket, subscribed, envVars>>

TickIdle ==
  /\ timerOn
  /\ m_mqtt_state = TOTAL_NUM
  /\ UNCHANGED vars

Callback_Timer ==
  \/ TickNwQuery
  \/ TickCfg
  \/ \E op \in {"OPEN", "CONN", "SUB"} : TickRequest(op)
  \/ TickPub
  \/ TickIdle

(* mqtt_message_received_callback on "Get Outputs" or "Get All Users":     *)
(* publish_mqtt_msg, whose failure is only logged.                         *)
ReceiveGet ==
  /\ gets > 0
  /\ gets' = gets - 1
  /\ pub_message_id' = (pub_message_id + 50) % Word
  /\ \/ ATSuccess("PUB", pub_message_id')
     \/ ATTimeout("PUB", pub_message_id')
     \/ ATFailure("PUB", pub_message_id')
  /\ UNCHANGED <<m_mqtt_state, timerOn, greetings, urcVars, queue, socket,
                 subscribed, asked>>

NextStateAgain(op) ==   \* mutant: a publication is followed by a subscription
  CASE op = "OPEN" -> "CONN"
    [] op \in {"CONN", "PUB"} -> "SUB"
    [] op = "SUB" -> "PUB"

(* The message loop: success moves the state machine, failure is logged.   *)
NextState(op) ==
  CASE op = "OPEN" -> "CONN"
    [] op = "CONN" -> "SUB"
    [] op = "SUB" -> "PUB"
    [] op = "PUB" -> TOTAL_NUM

SucceededAnyQos(op) == urc_param.result = 0   \* mutant: 128 not checked

Succeeded(op) ==
  /\ urc_param.result = 0
  /\ op = "SUB" => urc_param.sub_value # SUB_REJECTED

HandleUrc ==
  /\ queue # <<>>
  /\ queue' = Tail(queue)
  /\ m_mqtt_state' = IF Head(queue) \in Ops /\ Succeeded(Head(queue))
                     THEN NextState(Head(queue))
                     ELSE m_mqtt_state
  /\ UNCHANGED <<timerOn, pub_message_id, greetings, urcVars, modemVars,
                 envVars, faultVars>>
-----------------------------------------------------------------------------
(* The modem finishes the work on its oldest operation, or reports that it *)
(* sends its packet again, and the URC task, when it is idle, parses the   *)
(* result into mqtt_urc_param.  The granted QoS of a subscription comes    *)
(* after it in the URC and is stored, and the message posted, after that.  *)

ParseResult(op, result, value) ==
  /\ urcTask = Idle
  /\ urc_param' = [urc_param EXCEPT !.result = result]
  /\ urcTask' = [op |-> op, value |-> value]
  /\ UNCHANGED <<mainVars, queue, envVars>>

Stage(op) ==
  CASE op = "OPEN" -> "open"
    [] op = "CONN" -> "connected"
    [] OTHER -> socket

ReportSuccess ==
  /\ jobs # <<>>
  /\ ParseResult(Head(jobs), 0, IF Head(jobs) = "SUB" THEN 1 ELSE NO_VALUE)
  /\ jobs' = Tail(jobs)
  /\ socket' = Stage(Head(jobs))
  /\ subscribed' = (subscribed \/ Head(jobs) = "SUB")
  /\ UNCHANGED faultVars

ReportFailure ==
  /\ jobs # <<>>
  /\ Fault("urc")
  /\ ParseResult(Head(jobs), IF Head(jobs) = "OPEN" THEN 3 ELSE 2, NO_VALUE)
  /\ jobs' = Tail(jobs)
  /\ UNCHANGED <<socket, subscribed>>

(* The connection is refused: the result is 0, the reason is in            *)
(* connect_code, which nobody reads.                                       *)
ReportRefusal ==
  /\ jobs # <<>>
  /\ Head(jobs) = "CONN"
  /\ Fault("refuse")
  /\ ParseResult("CONN", 0, NO_VALUE)
  /\ jobs' = Tail(jobs)
  /\ UNCHANGED <<socket, subscribed>>

ReportRejection ==
  /\ jobs # <<>>
  /\ Head(jobs) = "SUB"
  /\ Fault("reject")
  /\ ParseResult("SUB", 0, SUB_REJECTED)
  /\ jobs' = Tail(jobs)
  /\ UNCHANGED <<socket, subscribed>>

ReportRetransmission ==
  /\ jobs # <<>>
  /\ Head(jobs) \in {"CONN", "SUB", "PUB"}
  /\ Fault("retransmit")
  /\ ParseResult(Head(jobs), 1, 1)
  /\ UNCHANGED modemVars

PostUrcCleared ==   \* mutant: what was parsed is cleared, then posted
  /\ urcTask # Idle
  /\ urcTask' = Idle
  /\ queue' = Append(queue, urcTask'.op)
  /\ UNCHANGED <<mainVars, urc_param, modemVars, envVars, faultVars>>

PostUrc ==
  /\ urcTask # Idle
  /\ urc_param' = IF urcTask.op = "SUB"
                  THEN [urc_param EXCEPT !.sub_value = urcTask.value]
                  ELSE urc_param
  /\ queue' = Append(queue, urcTask.op)
  /\ urcTask' = Idle
  /\ UNCHANGED <<mainVars, modemVars, envVars, faultVars>>

(* The connection is lost: the modem drops its work and reports +QMTSTAT,  *)
(* which stores no result and which the message loop ignores.              *)
LoseConnection ==
  /\ socket = "connected"
  /\ Fault("lost")
  /\ urcTask = Idle
  /\ jobs' = <<>>
  /\ socket' = "lost"
  /\ subscribed' = FALSE
  /\ urcTask' = [op |-> "STATE", value |-> NO_VALUE]
  /\ UNCHANGED <<mainVars, urc_param, queue, envVars>>

(* The broker delivers a status request on the subscribed topic. *)
DeliverGet ==
  /\ subscribed
  /\ asked < MaxGets
  /\ asked' = asked + 1
  /\ gets' = gets + 1
  /\ UNCHANGED <<mainVars, urcVars, queue, modemVars, faultVars>>
-----------------------------------------------------------------------------
Init ==
  /\ m_mqtt_state = "NW_QUERY"
  /\ timerOn = FALSE
  /\ urc_param = [result |-> 0, sub_value |-> NO_VALUE]
  /\ urcTask = Idle
  /\ queue = <<>>
  /\ pub_message_id = 0
  /\ jobs = <<>>
  /\ socket = "closed"
  /\ subscribed = FALSE
  /\ gets = 0
  /\ asked = 0
  /\ faults = 0
  /\ seen = {}
  /\ greetings = 0

Report ==
  \/ ReportSuccess
  \/ ReportFailure
  \/ ReportRefusal
  \/ ReportRejection
  \/ ReportRetransmission

Next ==
  \/ SimReady
  \/ Callback_Timer
  \/ ReceiveGet
  \/ HandleUrc
  \/ Report
  \/ PostUrc
  \/ LoseConnection
  \/ DeliverGet

(* The SIM becomes ready, the timer repeats, the main task takes its       *)
(* messages and callbacks, the modem finishes its work and the URC task    *)
(* passes the results on.                                                  *)
Fairness ==
  /\ WF_vars(SimReady)
  /\ WF_vars(Callback_Timer)
  /\ WF_vars(ReceiveGet)
  /\ WF_vars(HandleUrc)
  /\ WF_vars(Report)
  /\ WF_vars(PostUrc)

Spec == Init /\ [][Next]_vars /\ Fairness
-----------------------------------------------------------------------------
(* The first packet is published only to a broker that has granted the     *)
(* subscription, unless the connection is lost in between.                 *)
PublishesWhenSubscribed ==
  m_mqtt_state = "PUB" /\ socket # "lost" => subscribed

(* What the message loop can be misled by: a refused connection looks like *)
(* an accepted one, and, when a subscription is sent twice, a rejected one *)
(* can look like a granted one.                                            *)
Misled ==
  \/ "refuse" \in seen
  \/ "reject" \in seen /\ seen \cap {"retransmit", "timeout"} # {}

(* m_mqtt_state never runs ahead of the modem: it asks for a connection    *)
(* only over an open socket, subscribes only over a connection and         *)
(* publishes only when subscribed, although the results the message loop   *)
(* reads from mqtt_urc_param may be those of a later URC than the one      *)
(* whose message it takes.                                                 *)
NeverAhead ==
  ~Misled =>
    /\ m_mqtt_state = "CONN" => socket # "closed"
    /\ m_mqtt_state = "SUB" => socket \in {"connected", "lost"}
    /\ PublishesWhenSubscribed

(* Once the first packet was handed to the modem, the link is never opened,*)
(* connected or subscribed again, however late the message loop takes the  *)
(* URCs of the earlier commands, their retransmissions and repetitions.    *)
GreetingLast == greetings > 0 => m_mqtt_state \in {"PUB", TOTAL_NUM}

(* The first packet is published in the end. *)
Greets == <>(greetings > 0)

(* As long as nothing but AT commands fails, and nobody asks for the       *)
(* status before, the first packet is published in the end: each command   *)
(* is tried again until it is taken.                                       *)
GreetsDespiteATFaults ==
  [](seen \subseteq {"at", "timeout"} /\ asked = 0) => Greets
=============================================================================
