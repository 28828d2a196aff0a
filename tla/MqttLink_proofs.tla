--------------------------- MODULE MqttLink_proofs ---------------------------
(***************************************************************************)
(* What TLAPS proves of MqttLink, for any number and kinds of faults, any  *)
(* number of status requests and any range of identifiers: once the first  *)
(* packet was handed to the modem, the link never starts over, and unless  *)
(* misled its state machine never runs ahead of the modem.                 *)
(***************************************************************************)
EXTENDS MqttLink, SequenceTheorems, TLAPS

(* The first half of the way to a connection and the second.               *)
Early == {"OPEN", "CONN"}
Late == {"SUB", "PUB"}

NotYetConnected == socket \in {"closed", "open"}

(* What the modem works on fits what it has.                               *)
JobsFit ==
  /\ socket = "closed" => jobs \in {<<>>, <<"OPEN">>}
  /\ socket = "open" => jobs \in {<<>>, <<"CONN">>}
  /\ ~NotYetConnected => jobs \in Seq(Late)

(* There is no connection, and none asked for, before the state CONN.      *)
NotAsked ==
  m_mqtt_state \in {"NW_QUERY", "CFG", "OPEN"} =>
    NotYetConnected /\ jobs # <<"CONN">>

(* Before there is a connection no late result is under way ...            *)
NothingLate ==
  NotYetConnected =>
    /\ urcTask.op \notin Late
    /\ \A i \in DOMAIN queue : queue[i] \notin Late

(* ... and no early result comes behind a late one.                        *)
EarlyFirst ==
  \A i \in DOMAIN queue : queue[i] \in Late =>
    /\ urcTask.op \notin Early
    /\ \A j \in DOMAIN queue : j > i => queue[j] \notin Early

(* When the state machine publishes, the early results are behind it.      *)
EarlyIsOver ==
  (m_mqtt_state = "PUB" \/ greetings > 0) =>
    /\ ~NotYetConnected
    /\ urcTask.op \notin Early
    /\ \A i \in DOMAIN queue : queue[i] \notin Early

LinkInv ==
  /\ JobsFit /\ NotAsked
  /\ NothingLate /\ EarlyFirst /\ EarlyIsOver
  /\ GreetingLast
-----------------------------------------------------------------------------
(* The types.  TypeOK is not inductive: it is only because no more requests*)
(* wait than were delivered that their number is bounded, and a task that  *)
(* parses nothing is Idle.                                                 *)
Bookkeeping ==
  /\ gets <= asked
  /\ urcTask.op = "none" => urcTask = Idle

TypeInv == TypeOK /\ Bookkeeping

(* Init fits the types.                                                    *)
LEMMA InitType == Init => TypeOK
<1> SUFFICES ASSUME Init PROVE TypeOK
  OBVIOUS
<1>1. 0 \in 0 .. Word - 1 /\ 0 \in 0 .. MaxGets /\ 0 \in 0 .. MaxFaults
  BY LinkAssumption
<1>2. urc_param \in [result : Results, sub_value : Values]
  BY DEF Init, Results, Values
<1>3. urcTask \in [op : Kinds \cup {"none"}, value : Values]
  BY DEF Init, Idle, Values
<1>4. queue \in Seq(Kinds) /\ jobs \in Seq(Ops)
  BY DEF Init
<1>5. m_mqtt_state \in States /\ socket \in Sockets
  BY DEF Init, States, Sockets
<1> QED
  BY <1>1, <1>2, <1>3, <1>4, <1>5 DEF Init, TypeOK

(* A misbehaviour, or none, is counted within its bound.                   *)
LEMMA FaultType ==
  ASSUME TypeOK, NEW kind, Fault(kind) \/ UNCHANGED faultVars
  PROVE  faults' \in 0 .. MaxFaults /\ seen' \subseteq Faults
BY LinkAssumption DEF TypeOK, Fault, faultVars

(* An AT command adds at most itself to what the modem works on, and only  *)
(* if the modem takes it.                                                  *)
LEMMA ATType ==
  ASSUME TypeOK, NEW op \in Ops, NEW id,
         ATSuccess(op, id) \/ ATTimeout(op, id) \/ ATFailure(op, id)
  PROVE  /\ jobs' \in Seq(Ops)
         /\ Fault("at") \/ Fault("timeout") \/ UNCHANGED faultVars
         /\ UNCHANGED jobs \/ (Takes(op, id) /\ jobs' = Append(jobs, op))
<1>1. Append(jobs, op) \in Seq(Ops)
  BY DEF TypeOK
<1> QED
  BY <1>1 DEF TypeOK, ATSuccess, ATTimeout, ATFailure

(* pub_message_id stays a u32.                                             *)
LEMMA NextId ==
  ASSUME TypeOK, NEW k \in Nat
  PROVE  (pub_message_id + k) % Word \in 0 .. Word - 1
<1>1. Word \in Nat \ {0} /\ pub_message_id \in Nat
  BY LinkAssumption DEF TypeOK
<1>2. pub_message_id + k \in Nat
  BY <1>1
<1> QED
  BY <1>1, <1>2

(* A tick of the timer.                                                    *)
LEMMA TimerType ==
  ASSUME TypeOK, Callback_Timer
  PROVE  TypeOK'
<1> USE DEF Ops, States, TOTAL_NUM
<1>1. CASE TickNwQuery
  <2>1. faults' \in 0 .. MaxFaults /\ seen' \subseteq Faults
    BY <1>1, FaultType DEF TickNwQuery
  <2> QED
    BY <1>1, <2>1 DEF TickNwQuery, TypeOK, urcVars, modemVars, envVars
<1>2. CASE TickCfg
  <2>1. faults' \in 0 .. MaxFaults /\ seen' \subseteq Faults
    BY <1>2, FaultType DEF TickCfg
  <2> QED
    BY <1>2, <2>1 DEF TickCfg, TypeOK, urcVars, modemVars, envVars
<1>3. ASSUME NEW op \in {"OPEN", "CONN", "SUB"}, TickRequest(op)
      PROVE  TypeOK'
  <2>1. ATSuccess(op, 0) \/ ATTimeout(op, 0) \/ ATFailure(op, 0)
    BY <1>3 DEF TickRequest
  <2>2. jobs' \in Seq(Ops)
    BY <2>1, ATType
  <2>3. faults' \in 0 .. MaxFaults /\ seen' \subseteq Faults
    BY <2>1, ATType, FaultType
  <2> QED
    BY <1>3, <2>2, <2>3 DEF TickRequest, TypeOK, urcVars, envVars
<1>4. CASE TickPub
  <2>1. \/ ATSuccess("PUB", pub_message_id')
        \/ ATTimeout("PUB", pub_message_id')
        \/ ATFailure("PUB", pub_message_id')
    BY <1>4 DEF TickPub
  <2>2. jobs' \in Seq(Ops)
    BY <2>1, ATType
  <2>3. faults' \in 0 .. MaxFaults /\ seen' \subseteq Faults
    BY <2>1, ATType, FaultType
  <2>4. pub_message_id' \in 0 .. Word - 1
    BY <1>4, NextId DEF TickPub
  <2> QED
    BY <1>4, <2>2, <2>3, <2>4 DEF TickPub, TypeOK, urcVars, envVars
<1>5. CASE TickIdle
  BY <1>5 DEF TickIdle, TypeOK, vars, mainVars, urcVars, modemVars, envVars,
              faultVars
<1> QED
  BY <1>1, <1>2, <1>3, <1>4, <1>5 DEF Callback_Timer

(* What the URC task parses and what the modem then works on.              *)
LEMMA ReportType ==
  ASSUME TypeOK, Report
  PROVE  TypeOK'
<1> USE DEF Results, Values, Kinds, NO_VALUE, SUB_REJECTED
<1>1. jobs # <<>> => Head(jobs) \in Ops /\ Tail(jobs) \in Seq(Ops)
  BY HeadTailProperties DEF TypeOK
<1>2. faults' \in 0 .. MaxFaults /\ seen' \subseteq Faults
  BY FaultType DEF Report, ReportSuccess, ReportFailure, ReportRefusal,
                   ReportRejection, ReportRetransmission
<1>3. ASSUME NEW op \in Ops, NEW result \in Results, NEW value \in Values,
             ParseResult(op, result, value)
      PROVE  /\ urc_param' \in [result : Results, sub_value : Values]
             /\ urcTask' \in [op : Kinds \cup {"none"}, value : Values]
             /\ UNCHANGED <<mainVars, queue, envVars>>
  BY <1>3 DEF ParseResult, TypeOK
<1>4. CASE ReportSuccess
  <2>1. socket' \in Sockets /\ subscribed' \in BOOLEAN
    BY <1>4 DEF ReportSuccess, Stage, TypeOK, Sockets
  <2>2. jobs # <<>> /\ jobs' = Tail(jobs)
    BY <1>4 DEF ReportSuccess
  <2>3. \E value \in Values : ParseResult(Head(jobs), 0, value)
    BY <1>4 DEF ReportSuccess
  <2>4. /\ urc_param' \in [result : Results, sub_value : Values]
        /\ urcTask' \in [op : Kinds \cup {"none"}, value : Values]
        /\ UNCHANGED <<mainVars, queue, envVars>>
    BY <1>1, <1>3, <2>2, <2>3
  <2> QED
    BY <1>1, <1>2, <2>1, <2>2, <2>4 DEF TypeOK, mainVars, envVars
<1>5. CASE ReportFailure
  <2>1. \/ ParseResult(Head(jobs), 3, NO_VALUE)
        \/ ParseResult(Head(jobs), 2, NO_VALUE)
    BY <1>5 DEF ReportFailure
  <2>2. /\ jobs # <<>> /\ jobs' = Tail(jobs)
        /\ UNCHANGED <<socket, subscribed>>
    BY <1>5 DEF ReportFailure
  <2>3. /\ urc_param' \in [result : Results, sub_value : Values]
        /\ urcTask' \in [op : Kinds \cup {"none"}, value : Values]
        /\ UNCHANGED <<mainVars, queue, envVars>>
    BY <1>1, <1>3, <2>1, <2>2
  <2> QED
    BY <1>1, <1>2, <2>2, <2>3 DEF TypeOK, mainVars, envVars
<1>6. CASE ReportRefusal
  <2>1. /\ ParseResult("CONN", 0, NO_VALUE) /\ "CONN" \in Ops
        /\ jobs # <<>> /\ jobs' = Tail(jobs)
        /\ UNCHANGED <<socket, subscribed>>
    BY <1>6 DEF ReportRefusal, Ops
  <2> QED
    BY <1>1, <1>2, <1>3, <2>1 DEF TypeOK, mainVars, envVars
<1>7. CASE ReportRejection
  <2>1. /\ ParseResult("SUB", 0, SUB_REJECTED) /\ "SUB" \in Ops
        /\ jobs # <<>> /\ jobs' = Tail(jobs)
        /\ UNCHANGED <<socket, subscribed>>
    BY <1>7 DEF ReportRejection, Ops
  <2> QED
    BY <1>1, <1>2, <1>3, <2>1 DEF TypeOK, mainVars, envVars
<1>8. CASE ReportRetransmission
  BY <1>1, <1>2, <1>3, <1>8
     DEF ReportRetransmission, TypeOK, mainVars, envVars, modemVars
<1> QED
  BY <1>4, <1>5, <1>6, <1>7, <1>8 DEF Report

(* Every step keeps the types.                                             *)
LEMMA NextType ==
  ASSUME TypeInv, [Next]_vars
  PROVE  TypeOK'
<1> USE DEF TypeInv, Bookkeeping
<1>1. CASE SimReady
  BY <1>1 DEF SimReady, TypeOK, urcVars, modemVars, envVars, faultVars
<1>2. CASE Callback_Timer
  BY <1>2, TimerType
<1>3. CASE ReceiveGet
  <2>1. \/ ATSuccess("PUB", pub_message_id')
        \/ ATTimeout("PUB", pub_message_id')
        \/ ATFailure("PUB", pub_message_id')
    BY <1>3 DEF ReceiveGet
  <2>2. jobs' \in Seq(Ops)
    BY <2>1, ATType DEF Ops
  <2>3. faults' \in 0 .. MaxFaults /\ seen' \subseteq Faults
    BY <2>1, ATType, FaultType DEF Ops
  <2>4. pub_message_id' \in 0 .. Word - 1
    BY <1>3, NextId DEF ReceiveGet
  <2>5. gets' \in 0 .. MaxGets
    BY <1>3, LinkAssumption DEF ReceiveGet, TypeOK
  <2> QED
    BY <1>3, <2>2, <2>3, <2>4, <2>5 DEF ReceiveGet, TypeOK, urcVars
<1>4. CASE HandleUrc
  <2>1. Tail(queue) \in Seq(Kinds)
    BY <1>4, HeadTailProperties DEF HandleUrc, TypeOK
  <2>2. m_mqtt_state' \in States
    BY <1>4 DEF HandleUrc, NextState, States, Ops, TypeOK
  <2> QED
    BY <1>4, <2>1, <2>2
       DEF HandleUrc, TypeOK, urcVars, modemVars, envVars, faultVars
<1>5. CASE Report
  BY <1>5, ReportType
<1>6. CASE PostUrc
  <2>1. urcTask.op \in Kinds
    BY <1>6 DEF PostUrc, TypeOK, Idle
  <2>2. urc_param' \in [result : Results, sub_value : Values]
    BY <1>6 DEF PostUrc, TypeOK
  <2>3. urcTask' \in [op : Kinds \cup {"none"}, value : Values]
    BY <1>6 DEF PostUrc, Idle, Values
  <2>4. queue' \in Seq(Kinds)
    BY <1>6, <2>1 DEF PostUrc, TypeOK
  <2> QED
    BY <1>6, <2>2, <2>3, <2>4
       DEF PostUrc, TypeOK, mainVars, modemVars, envVars, faultVars
<1>7. CASE LoseConnection
  <2>1. faults' \in 0 .. MaxFaults /\ seen' \subseteq Faults
    BY <1>7, FaultType DEF LoseConnection
  <2>2. urcTask' \in [op : Kinds \cup {"none"}, value : Values]
    BY <1>7 DEF LoseConnection, Kinds, Values
  <2>3. socket' \in Sockets /\ jobs' \in Seq(Ops)
    BY <1>7 DEF LoseConnection, Sockets
  <2> QED
    BY <1>7, <2>1, <2>2, <2>3 DEF LoseConnection, TypeOK, mainVars, envVars
<1>8. CASE DeliverGet
  <2>1. asked' \in 0 .. MaxGets
    BY <1>8, LinkAssumption DEF DeliverGet, TypeOK
  <2>2. gets' \in 0 .. MaxGets
    BY <1>8, LinkAssumption DEF DeliverGet, TypeOK
  <2> QED
    BY <1>8, <2>1, <2>2
       DEF DeliverGet, TypeOK, mainVars, urcVars, modemVars, faultVars
<1>9. CASE UNCHANGED vars
  BY <1>9 DEF TypeOK, vars, mainVars, urcVars, modemVars, envVars, faultVars
<1> QED
  BY <1>1, <1>2, <1>3, <1>4, <1>5, <1>6, <1>7, <1>8, <1>9 DEF Next

(* ... and with them the two facts they need.                              *)
LEMMA NextBookkeeping ==
  ASSUME TypeInv, [Next]_vars
  PROVE  Bookkeeping'
<1>1. CASE UNCHANGED <<gets, asked, urcTask>>
  BY <1>1 DEF TypeInv, Bookkeeping
<1>2. CASE ReceiveGet
  BY <1>2 DEF ReceiveGet, TypeInv, TypeOK, Bookkeeping, urcVars
<1>3. CASE Report
  <2>1. UNCHANGED <<gets, asked>>
    BY <1>3 DEF Report, ReportSuccess, ReportFailure, ReportRefusal,
                ReportRejection, ReportRetransmission, ParseResult, envVars
  <2>2. jobs # <<>> => Head(jobs) \in Ops
    BY HeadTailProperties DEF TypeInv, TypeOK
  <2>3. urcTask'.op \in Ops
    BY <1>3, <2>2
       DEF Report, ReportSuccess, ReportFailure, ReportRefusal,
           ReportRejection, ReportRetransmission, ParseResult, Ops
  <2> QED
    BY <2>1, <2>3 DEF TypeInv, Bookkeeping, Ops
<1>4. CASE PostUrc
  BY <1>4 DEF PostUrc, TypeInv, Bookkeeping, envVars
<1>5. CASE LoseConnection
  BY <1>5 DEF LoseConnection, TypeInv, Bookkeeping, envVars
<1>6. CASE DeliverGet
  BY <1>6 DEF DeliverGet, TypeInv, TypeOK, Bookkeeping, urcVars
<1>7. CASE SimReady \/ Callback_Timer \/ HandleUrc \/ UNCHANGED vars
  <2>1. UNCHANGED <<gets, asked, urcTask>>
    BY <1>7 DEF SimReady, Callback_Timer, TickNwQuery, TickCfg, TickRequest,
                TickPub, TickIdle, HandleUrc, vars, urcVars, envVars
  <2> QED
    BY <1>1, <2>1
<1> QED
  BY <1>2, <1>3, <1>4, <1>5, <1>6, <1>7 DEF Next

(* TypeOK holds of every behaviour: whatever the modem, the broker and the *)
(* URC task do, the fields of the state machine keep their ranges.         *)
THEOREM TypesHold == Spec => []TypeInv
<1>1. Init => TypeInv
  BY InitType DEF TypeInv, Bookkeeping, Init
<1>2. TypeInv /\ [Next]_vars => TypeInv'
  BY NextType, NextBookkeeping DEF TypeInv
<1> QED
  BY <1>1, <1>2, PTL DEF Spec

(* The type invariant of the run.                                          *)
THEOREM TypeCorrect == Spec => []TypeOK
<1>1. TypeInv => TypeOK
  BY DEF TypeInv
<1> QED
  BY <1>1, TypesHold, PTL
-----------------------------------------------------------------------------
(* The order of results. *)

linkVars == <<m_mqtt_state, socket, jobs, urcTask, queue, greetings>>

(* LinkInv reads no other variables.                                       *)
LEMMA StillKeeps ==
  ASSUME LinkInv, UNCHANGED linkVars
  PROVE  LinkInv'
BY DEF LinkInv, linkVars, JobsFit, NotAsked, NothingLate, EarlyFirst,
       EarlyIsOver, GreetingLast, NotYetConnected

(* The modem takes an AT command only when it fits: the link is opened by  *)
(* the state OPEN alone, in which it was not lost.                         *)
LEMMA CommandFits ==
  ASSUME TypeInv, LinkInv, NEW op \in Ops, NEW id,
         ATSuccess(op, id) \/ ATTimeout(op, id) \/ ATFailure(op, id),
         op = "OPEN" => m_mqtt_state = "OPEN",
         UNCHANGED socket
  PROVE  JobsFit' /\ (jobs' = <<"CONN">> => jobs = <<"CONN">> \/ op = "CONN")
<1>1. UNCHANGED jobs \/ (Takes(op, id) /\ jobs' = Append(jobs, op))
  BY ATType DEF TypeInv
<1>2. CASE UNCHANGED jobs
  BY <1>2 DEF LinkInv, JobsFit, NotYetConnected
<1>3. CASE Takes(op, id) /\ jobs' = Append(jobs, op) /\ op = "OPEN"
  <2>1. socket = "closed" /\ ~Contains(jobs, "OPEN")
    BY <1>3 DEF Takes, LinkInv, NotAsked, NotYetConnected
  <2>2. jobs # <<"OPEN">>
    BY <2>1 DEF Contains
  <2>3. jobs = <<>>
    BY <2>1, <2>2 DEF LinkInv, JobsFit
  <2>4. jobs' = <<"OPEN">>
    BY <1>3, <2>3
  <2> QED
    BY <2>1, <2>4 DEF JobsFit, NotYetConnected
<1>4. CASE Takes(op, id) /\ jobs' = Append(jobs, op) /\ op = "CONN"
  <2>1. socket = "open" /\ ~Contains(jobs, "CONN")
    BY <1>4 DEF Takes
  <2>2. jobs # <<"CONN">>
    BY <2>1 DEF Contains
  <2>3. jobs = <<>>
    BY <2>1, <2>2 DEF LinkInv, JobsFit
  <2>4. jobs' = <<"CONN">>
    BY <1>4, <2>3
  <2> QED
    BY <1>4, <2>1, <2>4 DEF JobsFit, NotYetConnected
<1>5. CASE Takes(op, id) /\ jobs' = Append(jobs, op) /\ op \in Late
  <2>1. socket = "connected"
    BY <1>5 DEF Takes, Late
  <2>2. jobs \in Seq(Late)
    BY <2>1 DEF LinkInv, JobsFit, NotYetConnected
  <2>3. jobs' \in Seq(Late)
    BY <1>5, <2>2
  <2>4. jobs' # <<"CONN">>
    BY <2>3 DEF Late
  <2> QED
    BY <2>1, <2>3, <2>4 DEF JobsFit, NotYetConnected
<1> QED
  BY <1>1, <1>2, <1>3, <1>4, <1>5 DEF Ops, Late

(* A tick moves the state machine by itself only before the link is asked  *)
(* for, and asks the modem for what the state says.                        *)
LEMMA TimerKeeps ==
  ASSUME TypeInv, LinkInv, Callback_Timer
  PROVE  LinkInv'
<1> USE DEF linkVars, LinkInv, NotYetConnected
<1>1. CASE TickNwQuery \/ TickCfg
  <2>1. m_mqtt_state \in {"NW_QUERY", "CFG"}
    BY <1>1 DEF TickNwQuery, TickCfg
  <2>2. m_mqtt_state' \in {"NW_QUERY", "CFG", "OPEN"}
    BY <1>1 DEF TickNwQuery, TickCfg
  <2>3. UNCHANGED <<socket, jobs, urcTask, queue, greetings>>
    BY <1>1 DEF TickNwQuery, TickCfg, urcVars, modemVars
  <2>4. greetings = 0
    BY <2>1 DEF GreetingLast, TypeInv, TypeOK, TOTAL_NUM
  <2> QED
    BY <2>1, <2>2, <2>3, <2>4
       DEF JobsFit, NotAsked, NothingLate, EarlyFirst, EarlyIsOver,
           GreetingLast
<1>2. ASSUME NEW op \in {"OPEN", "CONN", "SUB"}, TickRequest(op)
      PROVE  LinkInv'
  <2>1. UNCHANGED <<socket, urcTask, queue, greetings>>
    BY <1>2 DEF TickRequest, urcVars
  <2>2. m_mqtt_state = op /\ m_mqtt_state' \in {op, TOTAL_NUM}
    BY <1>2 DEF TickRequest
  <2>3. JobsFit' /\ (jobs' = <<"CONN">> => jobs = <<"CONN">> \/ op = "CONN")
    BY <1>2, <2>1, <2>2, CommandFits DEF TickRequest, Ops
  <2>4. greetings = 0
    BY <2>2 DEF GreetingLast, TypeInv, TypeOK, TOTAL_NUM
  <2>5. NotAsked' /\ EarlyIsOver' /\ GreetingLast'
    BY <2>1, <2>2, <2>3, <2>4
       DEF NotAsked, EarlyIsOver, GreetingLast, TOTAL_NUM
  <2> QED
    BY <2>1, <2>3, <2>5 DEF NothingLate, EarlyFirst
<1>3. CASE TickPub
  <2>1. UNCHANGED <<socket, urcTask, queue>>
    BY <1>3 DEF TickPub, urcVars
  <2>2. m_mqtt_state = "PUB" /\ m_mqtt_state' \in {"PUB", TOTAL_NUM}
    BY <1>3 DEF TickPub
  <2>3. JobsFit'
    BY <1>3, <2>1, <2>2, CommandFits DEF TickPub, Ops
  <2>4. NotAsked' /\ EarlyIsOver' /\ GreetingLast'
    BY <2>1, <2>2 DEF NotAsked, EarlyIsOver, GreetingLast, TOTAL_NUM
  <2> QED
    BY <2>1, <2>3, <2>4 DEF NothingLate, EarlyFirst
<1>4. CASE TickIdle
  BY <1>4, StillKeeps DEF TickIdle, vars, mainVars, modemVars, urcVars
<1> QED
  BY <1>1, <1>2, <1>3, <1>4 DEF Callback_Timer

(* An answer to a status request is a publication.                         *)
LEMMA AnswerKeeps ==
  ASSUME TypeInv, LinkInv, ReceiveGet
  PROVE  LinkInv'
<1>1. UNCHANGED <<m_mqtt_state, socket, urcTask, queue, greetings>>
  BY DEF ReceiveGet, urcVars
<1>2. JobsFit' /\ (jobs' = <<"CONN">> => jobs = <<"CONN">>)
  BY <1>1, CommandFits DEF ReceiveGet, Ops
<1> QED
  BY <1>1, <1>2
     DEF LinkInv, NotYetConnected, NotAsked, NothingLate, EarlyFirst,
         EarlyIsOver, GreetingLast

(* The message loop takes a result: if it is of a subscription or later,   *)
(* the early ones are all behind it.                                       *)
LEMMA HandleKeeps ==
  ASSUME TypeInv, LinkInv, HandleUrc
  PROVE  LinkInv'
<1> DEFINE op == Head(queue)
<1>1. queue \in Seq(Kinds) /\ queue # <<>>
  BY DEF HandleUrc, TypeInv, TypeOK
<1>2. /\ op = queue[1] /\ 1 \in DOMAIN queue
      /\ \A i \in DOMAIN queue' :
           i + 1 \in DOMAIN queue /\ queue'[i] = queue[i + 1] /\ i + 1 > 1
      /\ \A i, j \in DOMAIN queue' : j > i => j + 1 > i + 1
  BY <1>1 DEF HandleUrc
<1>3. UNCHANGED <<socket, jobs, urcTask, greetings>>
  BY DEF HandleUrc, mainVars, urcVars, modemVars
<1>4. JobsFit' /\ NothingLate' /\ EarlyFirst'
  BY <1>2, <1>3
     DEF LinkInv, JobsFit, NothingLate, EarlyFirst, NotYetConnected
<1>5. \/ m_mqtt_state' = m_mqtt_state
      \/ op = "OPEN" /\ m_mqtt_state' = "CONN"
      \/ op = "CONN" /\ m_mqtt_state' = "SUB"
      \/ op = "SUB" /\ m_mqtt_state' = "PUB"
      \/ op = "PUB" /\ m_mqtt_state' = TOTAL_NUM
  BY DEF HandleUrc, NextState, Ops
<1>6. op \in Late =>
        /\ ~NotYetConnected
        /\ urcTask.op \notin Early
        /\ \A i \in DOMAIN queue' : queue'[i] \notin Early
  BY <1>2 DEF LinkInv, NothingLate, EarlyFirst
<1>7. greetings > 0 => op \notin Early
  BY <1>2 DEF LinkInv, EarlyIsOver
<1>8. NotAsked'
  BY <1>3, <1>5 DEF LinkInv, NotAsked, NotYetConnected, TOTAL_NUM
<1>9. EarlyIsOver'
  BY <1>2, <1>3, <1>5, <1>6
     DEF LinkInv, EarlyIsOver, NotYetConnected, Late, TOTAL_NUM
<1>10. GreetingLast'
  BY <1>3, <1>5, <1>7 DEF LinkInv, GreetingLast, Early, TOTAL_NUM
<1> QED
  BY <1>4, <1>8, <1>9, <1>10 DEF LinkInv

(* What the oldest operation of the modem says of its socket.              *)
LEMMA OldestJob ==
  ASSUME TypeInv, LinkInv, jobs # <<>>
  PROVE  /\ Head(jobs) = "OPEN" => socket = "closed" /\ jobs = <<"OPEN">>
         /\ Head(jobs) = "CONN" => socket = "open" /\ jobs = <<"CONN">>
         /\ Head(jobs) \in Late => ~NotYetConnected
         /\ Head(jobs) \in Early \cup Late
<1>1. socket \in {"closed", "open", "connected", "lost"} /\ jobs \in Seq(Ops)
  BY DEF TypeInv, TypeOK, Sockets
<1>2. CASE socket = "closed"
  <2>1. jobs = <<"OPEN">>
    BY <1>2 DEF LinkInv, JobsFit
  <2> QED
    BY <1>2, <2>1 DEF Early, Late
<1>3. CASE socket = "open"
  <2>1. jobs = <<"CONN">>
    BY <1>3 DEF LinkInv, JobsFit
  <2> QED
    BY <1>3, <2>1 DEF Early, Late
<1>4. CASE socket \notin {"closed", "open"}
  <2>1. jobs \in Seq(Late)
    BY <1>4 DEF LinkInv, JobsFit, NotYetConnected
  <2>2. Head(jobs) \in Late
    BY <2>1
  <2> QED
    BY <1>4, <2>2 DEF Early, Late, NotYetConnected
<1> QED
  BY <1>2, <1>3, <1>4

(* A result of the oldest operation, which is then done or not.            *)
LEMMA ReportKeeps ==
  ASSUME TypeInv, LinkInv, Report
  PROVE  LinkInv'
<1> USE DEF NotYetConnected, Early, Late
<1>1. /\ jobs # <<>>
      /\ jobs' = jobs \/ jobs' = Tail(jobs)
      /\ urcTask'.op = Head(jobs)
      /\ UNCHANGED <<m_mqtt_state, greetings, queue>>
      /\ socket' = socket \/ (socket' = Stage(Head(jobs)) /\ jobs' = Tail(jobs))
  BY DEF Report, ReportSuccess, ReportFailure, ReportRefusal, ReportRejection,
         ReportRetransmission, ParseResult, mainVars, modemVars
<1>2. CASE Head(jobs) = "OPEN"
  <2>1. socket = "closed" /\ jobs = <<"OPEN">>
    BY <1>1, <1>2, OldestJob
  <2>2. Tail(jobs) = <<>> /\ <<"OPEN">> # <<"CONN">> /\ <<>> # <<"CONN">>
    BY <2>1
  <2>3. socket' = "closed" \/ (socket' = "open" /\ jobs' = <<>>)
    BY <1>1, <1>2, <2>1, <2>2 DEF Stage
  <2>4. jobs' \in {<<>>, <<"OPEN">>}
    BY <1>1, <2>1, <2>2
  <2> QED
    BY <1>1, <1>2, <2>1, <2>2, <2>3, <2>4
       DEF LinkInv, JobsFit, NotAsked, NothingLate, EarlyFirst, EarlyIsOver,
           GreetingLast
<1>3. CASE Head(jobs) = "CONN"
  <2>1. socket = "open" /\ jobs = <<"CONN">>
    BY <1>1, <1>3, OldestJob
  <2>2. Tail(jobs) = <<>> /\ <<>> \in Seq({"SUB", "PUB"})
    BY <2>1
  <2>3. socket' = "open" \/ (socket' = "connected" /\ jobs' = <<>>)
    BY <1>1, <1>3, <2>1, <2>2 DEF Stage
  <2>4. jobs' \in {<<>>, <<"CONN">>}
    BY <1>1, <2>1, <2>2
  <2>5. m_mqtt_state \notin {"NW_QUERY", "CFG", "OPEN"}
    BY <2>1 DEF LinkInv, NotAsked
  <2> QED
    BY <1>1, <1>3, <2>1, <2>2, <2>3, <2>4, <2>5
       DEF LinkInv, JobsFit, NotAsked, NothingLate, EarlyFirst, EarlyIsOver,
           GreetingLast
<1>4. CASE Head(jobs) \in Late
  <2>1. ~NotYetConnected
    BY <1>1, <1>4, OldestJob
  <2>2. socket' = socket
    BY <1>1, <1>4 DEF Stage
  <2>3. jobs \in Seq(Late)
    BY <2>1 DEF LinkInv, JobsFit
  <2>4. jobs' \in Seq(Late)
    BY <1>1, <2>3, HeadTailProperties
  <2> QED
    BY <1>1, <1>4, <2>1, <2>2, <2>4
       DEF LinkInv, JobsFit, NotAsked, NothingLate, EarlyFirst, EarlyIsOver,
           GreetingLast
<1> QED
  BY <1>1, <1>2, <1>3, <1>4, OldestJob

(* The result is posted behind the others.                                 *)
LEMMA PostKeeps ==
  ASSUME TypeInv, LinkInv, PostUrc
  PROVE  LinkInv'
<1>1. UNCHANGED <<m_mqtt_state, socket, jobs, greetings>>
  BY DEF PostUrc, mainVars, modemVars
<1>2. urcTask'.op = "none"
  BY DEF PostUrc, Idle
<1>3. queue \in Seq(Kinds) /\ urcTask.op \in Kinds
  BY DEF PostUrc, TypeInv, TypeOK, Bookkeeping
<1>4. /\ DOMAIN queue' = 1 .. Len(queue) + 1
      /\ DOMAIN queue = 1 .. Len(queue) /\ Len(queue) \in Nat
      /\ \A i \in 1 .. Len(queue) : queue'[i] = queue[i]
      /\ queue'[Len(queue) + 1] = urcTask.op
  BY <1>3, AppendProperties DEF PostUrc
<1>5. \A i \in DOMAIN queue' :
        \/ i \in DOMAIN queue /\ queue'[i] = queue[i]
        \/ i = Len(queue) + 1 /\ queue'[i] = urcTask.op
  BY <1>4
<1>6. JobsFit' /\ NotAsked' /\ GreetingLast'
  BY <1>1 DEF LinkInv, JobsFit, NotAsked, GreetingLast, NotYetConnected
<1>7. NothingLate' /\ EarlyIsOver'
  BY <1>1, <1>2, <1>5
     DEF LinkInv, NothingLate, EarlyIsOver, NotYetConnected, Early, Late
<1>8. EarlyFirst'
  <2> SUFFICES ASSUME NEW i \in DOMAIN queue', queue'[i] \in Late,
                      NEW j \in DOMAIN queue', j > i
               PROVE  queue'[j] \notin Early
    BY <1>2 DEF EarlyFirst, Early
  <2>1. i \in DOMAIN queue /\ queue[i] \in Late
    BY <1>4, <1>5
  <2> QED
    BY <2>1, <1>5 DEF LinkInv, EarlyFirst
<1> QED
  BY <1>6, <1>7, <1>8 DEF LinkInv

(* A lost connection takes the work of the modem with it.                  *)
LEMMA LoseKeeps ==
  ASSUME LinkInv, LoseConnection
  PROVE  LinkInv'
<1>1. /\ socket = "connected" /\ socket' = "lost"
      /\ jobs' = <<>> /\ urcTask'.op = "STATE"
      /\ UNCHANGED <<m_mqtt_state, greetings, queue>>
  BY DEF LoseConnection, mainVars
<1>2. <<>> \in Seq(Late)
  OBVIOUS
<1> QED
  BY <1>1, <1>2
     DEF LinkInv, JobsFit, NotAsked, NothingLate, EarlyFirst, EarlyIsOver,
         GreetingLast, NotYetConnected, Early

(* Every step keeps the order.                                             *)
LEMMA NextKeeps ==
  ASSUME TypeInv, LinkInv, [Next]_vars
  PROVE  LinkInv'
<1>1. CASE SimReady
  BY <1>1, StillKeeps DEF SimReady, linkVars, modemVars, urcVars
<1>2. CASE DeliverGet
  BY <1>2, StillKeeps DEF DeliverGet, linkVars, mainVars, modemVars, urcVars
<1>3. CASE UNCHANGED vars
  BY <1>3, StillKeeps DEF vars, linkVars, mainVars, modemVars, urcVars
<1> QED
  BY <1>1, <1>2, <1>3, TimerKeeps, AnswerKeeps, HandleKeeps, ReportKeeps,
     PostKeeps, LoseKeeps DEF Next

(* Results are posted in the order in which the modem finishes, and it     *)
(* takes nothing before it has what that needs; so no result of an OPEN or *)
(* a CONN is under way when the first packet is handed over.               *)
THEOREM LinkInvHolds == Spec => []LinkInv
<1>1. Init => LinkInv
  BY DEF Init, LinkInv, JobsFit, NotAsked, NothingLate, EarlyFirst,
         EarlyIsOver, GreetingLast, NotYetConnected, Idle, Late
<1>2. LinkInv /\ TypeInv /\ [Next]_vars => LinkInv'
  BY NextKeeps
<1> QED
  BY <1>1, <1>2, TypesHold, PTL DEF Spec

(* Once the first packet was handed to the modem, the link is never opened,*)
(* connected or subscribed again, whatever the faults and however many.    *)
THEOREM NeverStartsOver == Spec => []GreetingLast
<1>1. LinkInv => GreetingLast
  BY DEF LinkInv
<1> QED
  BY <1>1, LinkInvHolds, PTL
-----------------------------------------------------------------------------
(***************************************************************************)
(* The results that the message loop reads late: as long as no refused     *)
(* connection and no repeated, rejected subscription misleads it, the      *)
(* state machine never runs ahead of the modem, although the fields it     *)
(* reads may be those of a later URC than the one whose message it takes.  *)
(***************************************************************************)
(* The commands that the state machine waits for one after the other.      *)
Asking == {"OPEN", "CONN", "SUB"}

Working(op) == \E i \in DOMAIN jobs : jobs[i] = op
Queued(op) == \E i \in DOMAIN queue : queue[i] = op
Reported(op) == urcTask.op = op \/ Queued(op)

Unrepeated == seen \cap {"retransmit", "timeout"} = {}

(* Unless something is repeated, there is at most one of these commands or *)
(* its result anywhere, and none while the state machine does not wait.    *)
OneAtATime ==
  Unrepeated =>
    /\ m_mqtt_state # TOTAL_NUM =>
         \A op \in Asking : ~Reported(op) /\ ~Working(op)
    /\ \A i \in DOMAIN jobs : jobs[i] \in Asking =>
         /\ \A op \in Asking : ~Reported(op)
         /\ \A j \in DOMAIN jobs : jobs[j] \in Asking => j = i
    /\ urcTask.op \in Asking => \A op \in Asking : ~Queued(op)
    /\ \A i, j \in DOMAIN queue :
         queue[i] \in Asking /\ queue[j] \in Asking => i = j

(* A subscription is of a connection, which takes the modem's work with it *)
(* when it is lost, and a connection is of an open socket.                 *)
SubFits == subscribed => socket = "connected"
LostIdle == socket = "lost" => jobs = <<>>
ConnFits == socket = "closed" => ~Reported("CONN")

(* Nobody asks and nothing is published before the subscription.           *)
NoRequestBefore == ~subscribed /\ socket # "lost" => gets = 0
NoPublicationBefore ==
  ~Misled /\ ~subscribed /\ socket # "lost" => ~Working("PUB")

(* A rejection is seen: its value is where the message loop will read it.  *)
SeenRejected ==
  /\ "reject" \in seen
  /\ urcTask.op = "SUB" => urcTask.value = SUB_REJECTED
  /\ Queued("SUB") => urc_param.sub_value = SUB_REJECTED

(* When the result reads success, it is true of every URC under way, also  *)
(* of those it was not reported with.                                      *)
ResultsMeanIt ==
  ~Misled /\ urc_param.result = 0 =>
    /\ Reported("OPEN") => socket # "closed"
    /\ Reported("CONN") => socket \notin {"closed", "open"}
    /\ Reported("SUB") => socket = "lost" \/ subscribed \/ SeenRejected

AheadInv ==
  /\ OneAtATime
  /\ SubFits /\ LostIdle /\ ConnFits
  /\ NoRequestBefore /\ NoPublicationBefore
  /\ ResultsMeanIt
  /\ NeverAhead
-----------------------------------------------------------------------------
(* The kinds of misbehaviour seen only grow: who is misled stays misled.   *)
LEMMA SeenGrows ==
  ASSUME [Next]_vars
  PROVE  /\ seen \subseteq seen'
         /\ Misled => Misled'
         /\ Unrepeated' => Unrepeated
<1>1. SUFFICES seen \subseteq seen'
  BY DEF Misled, Unrepeated
<1>2. CASE UNCHANGED faultVars
  BY <1>2 DEF faultVars
<1>3. ASSUME NEW kind, Fault(kind) PROVE seen \subseteq seen'
  BY <1>3 DEF Fault
<1>4. ASSUME NEW op, NEW id,
             ATSuccess(op, id) \/ ATTimeout(op, id) \/ ATFailure(op, id)
      PROVE  seen \subseteq seen'
  BY <1>2, <1>3, <1>4 DEF ATSuccess, ATTimeout, ATFailure
<1>5. CASE Callback_Timer \/ ReceiveGet
  BY <1>2, <1>3, <1>4, <1>5
     DEF Callback_Timer, TickNwQuery, TickCfg, TickRequest, TickPub,
         TickIdle, ReceiveGet, vars
<1>6. CASE Report \/ LoseConnection
  BY <1>2, <1>3, <1>6
     DEF Report, ReportSuccess, ReportFailure, ReportRefusal,
         ReportRejection, ReportRetransmission, LoseConnection
<1>7. CASE SimReady \/ HandleUrc \/ PostUrc \/ DeliverGet \/ UNCHANGED vars
  BY <1>2, <1>7 DEF SimReady, HandleUrc, PostUrc, DeliverGet, vars
<1> QED
  BY <1>5, <1>6, <1>7 DEF Next

(* AheadInv reads no other variables.                                      *)
LEMMA StillStays ==
  ASSUME AheadInv,
         UNCHANGED <<m_mqtt_state, urc_param, urcTask, queue, jobs, socket,
                     subscribed, gets, seen>>
  PROVE  AheadInv'
BY DEF AheadInv, OneAtATime, SubFits, LostIdle, ConnFits, NoRequestBefore,
       NoPublicationBefore, ResultsMeanIt, NeverAhead, SeenRejected,
       PublishesWhenSubscribed, Misled, Unrepeated, Working, Reported, Queued

(* An AT command: one that is waited for is issued only by the state that  *)
(* bears its name, which it leaves when the command is answered, and a     *)
(* publication only over a subscription.                                   *)
LEMMA CommandStays ==
  ASSUME TypeInv, LinkInv, AheadInv, [Next]_vars,
         NEW op \in Ops, NEW id,
         ATSuccess(op, id) \/ ATTimeout(op, id) \/ ATFailure(op, id),
         UNCHANGED <<socket, subscribed, urc_param, urcTask, queue>>,
         m_mqtt_state' \in {m_mqtt_state, TOTAL_NUM},
         op \in Asking =>
           /\ m_mqtt_state = op
           /\ \/ m_mqtt_state' = TOTAL_NUM
              \/ UNCHANGED jobs
              \/ "timeout" \in seen',
         op = "PUB" => Misled \/ socket = "lost" \/ subscribed,
         gets' \in Nat, gets' <= gets
  PROVE  AheadInv'
<1>1. UNCHANGED jobs \/ (Takes(op, id) /\ jobs' = Append(jobs, op))
  BY ATType DEF TypeInv
<1>2. jobs \in Seq(Ops) /\ op \in Asking \cup {"PUB"}
  BY DEF TypeInv, TypeOK, Ops, Asking
<1>3. \A i \in DOMAIN jobs' :
        \/ i \in DOMAIN jobs /\ jobs'[i] = jobs[i]
        \/ jobs' # jobs /\ i = Len(jobs) + 1 /\ jobs'[i] = op /\ Takes(op, id)
  BY <1>1, <1>2, AppendProperties
<1>4. /\ Misled => Misled'
      /\ Unrepeated' => Unrepeated
      /\ seen \subseteq seen'
  BY SeenGrows
<1>5. OneAtATime'
  <2> SUFFICES ASSUME Unrepeated' PROVE OneAtATime'
    BY DEF OneAtATime
  <2>1. Unrepeated
    BY <1>4
  <2>2. CASE op = "PUB"
    BY <1>3, <2>1, <2>2
       DEF OneAtATime, AheadInv, Asking, Working, Reported, Queued
  <2>3. CASE op \in Asking /\ jobs' = jobs
    BY <2>1, <2>3 DEF OneAtATime, AheadInv, Working, Reported, Queued
  <2>4. CASE op \in Asking /\ jobs' # jobs
    <3>1. "timeout" \notin seen'
      BY DEF Unrepeated
    <3>2. m_mqtt_state = op /\ m_mqtt_state' = TOTAL_NUM
      BY <2>4, <3>1
    <3>3. \A p \in Asking : ~Reported(p) /\ ~Working(p)
      BY <2>1, <2>4, <3>2 DEF OneAtATime, AheadInv, Asking, TOTAL_NUM
    <3>4. \A i \in DOMAIN jobs' : jobs'[i] \in Asking => i = Len(jobs) + 1
      BY <1>3, <3>3 DEF Working
    <3> QED
      BY <3>2, <3>3, <3>4 DEF OneAtATime, Reported, Queued
  <2> QED
    BY <1>2, <2>2, <2>3, <2>4
<1>6. SubFits' /\ ConnFits'
  BY DEF AheadInv, SubFits, ConnFits, Reported, Queued
<1>7. LostIdle'
  <2>1. ASSUME socket = "lost" PROVE ~Takes(op, id)
    BY <2>1, <1>2
       DEF Takes, LinkInv, NotAsked, NotYetConnected, Asking
  <2> QED
    BY <1>1, <2>1 DEF AheadInv, LostIdle
<1>8. NoRequestBefore'
  BY DEF AheadInv, NoRequestBefore, TypeInv, TypeOK
<1>9. NoPublicationBefore'
  <2>1. ASSUME op = "PUB", Takes(op, id) PROVE socket = "connected"
    BY <2>1 DEF Takes
  <2> QED
    BY <1>2, <1>3, <1>4, <2>1
       DEF AheadInv, NoPublicationBefore, Working, Asking
<1>10. ResultsMeanIt'
  BY <1>4 DEF AheadInv, ResultsMeanIt, SeenRejected, Reported, Queued
<1>11. NeverAhead'
  BY <1>4 DEF AheadInv, NeverAhead, PublishesWhenSubscribed, TOTAL_NUM
<1> QED
  BY <1>5, <1>6, <1>7, <1>8, <1>9, <1>10, <1>11 DEF AheadInv

(* What the state machine has, as long as no result of its own comes.      *)
LEMMA TimerStays ==
  ASSUME TypeInv, LinkInv, AheadInv, [Next]_vars, Callback_Timer
  PROVE  AheadInv'
<1>1. CASE TickNwQuery \/ TickCfg
  <2>1. /\ m_mqtt_state \in {"NW_QUERY", "CFG"}
        /\ m_mqtt_state' \in {"NW_QUERY", "CFG", "OPEN"}
        /\ UNCHANGED <<urc_param, urcTask, queue, jobs, socket, subscribed,
                       gets>>
    BY <1>1 DEF TickNwQuery, TickCfg, urcVars, modemVars, envVars
  <2>2. /\ seen \subseteq seen'
        /\ Misled => Misled'
        /\ Unrepeated' => Unrepeated
    BY SeenGrows
  <2>3. OneAtATime'
    BY <2>1, <2>2
       DEF AheadInv, OneAtATime, Working, Reported, Queued, TOTAL_NUM
  <2>4. /\ SubFits' /\ LostIdle' /\ ConnFits' /\ NoRequestBefore'
        /\ NoPublicationBefore'
    BY <2>1, <2>2
       DEF AheadInv, SubFits, LostIdle, ConnFits, NoRequestBefore,
           NoPublicationBefore, Working, Reported, Queued
  <2>5. ResultsMeanIt'
    BY <2>1, <2>2 DEF AheadInv, ResultsMeanIt, SeenRejected, Reported, Queued
  <2>6. NeverAhead'
    BY <2>1 DEF NeverAhead, PublishesWhenSubscribed
  <2> QED
    BY <2>3, <2>4, <2>5, <2>6 DEF AheadInv
<1>2. ASSUME NEW op \in {"OPEN", "CONN", "SUB"}, TickRequest(op)
      PROVE  AheadInv'
  <2>1. /\ ATSuccess(op, 0) \/ ATTimeout(op, 0) \/ ATFailure(op, 0)
        /\ m_mqtt_state = op
        /\ UNCHANGED <<socket, subscribed, urc_param, urcTask, queue, gets>>
        /\ m_mqtt_state' \in {m_mqtt_state, TOTAL_NUM}
    BY <1>2 DEF TickRequest, urcVars, envVars
  <2>2. \/ m_mqtt_state' = TOTAL_NUM
        \/ UNCHANGED jobs
        \/ "timeout" \in seen'
    BY <1>2 DEF TickRequest, ATTimeout, ATFailure, Fault
  <2> QED
    BY <2>1, <2>2, CommandStays DEF Ops, TypeInv, TypeOK
<1>3. CASE TickPub
  <2>1. /\ \/ ATSuccess("PUB", pub_message_id')
           \/ ATTimeout("PUB", pub_message_id')
           \/ ATFailure("PUB", pub_message_id')
        /\ m_mqtt_state = "PUB"
        /\ UNCHANGED <<socket, subscribed, urc_param, urcTask, queue, gets>>
        /\ m_mqtt_state' \in {m_mqtt_state, TOTAL_NUM}
    BY <1>3 DEF TickPub, urcVars, envVars
  <2>2. Misled \/ socket = "lost" \/ subscribed
    BY <2>1 DEF AheadInv, NeverAhead, PublishesWhenSubscribed
  <2> QED
    BY <2>1, <2>2, CommandStays DEF Ops, Asking, TypeInv, TypeOK
<1>4. CASE TickIdle
  BY <1>4, StillStays
     DEF TickIdle, vars, mainVars, urcVars, modemVars, envVars, faultVars
<1> QED
  BY <1>1, <1>2, <1>3, <1>4 DEF Callback_Timer

(* An answer goes only to who asked, over the subscription.                *)
LEMMA AnswerStays ==
  ASSUME TypeInv, LinkInv, AheadInv, [Next]_vars, ReceiveGet
  PROVE  AheadInv'
<1>1. /\ \/ ATSuccess("PUB", pub_message_id')
         \/ ATTimeout("PUB", pub_message_id')
         \/ ATFailure("PUB", pub_message_id')
      /\ UNCHANGED <<socket, subscribed, urc_param, urcTask, queue,
                     m_mqtt_state>>
      /\ gets > 0 /\ gets' = gets - 1
  BY DEF ReceiveGet, urcVars
<1>2. gets \in Nat /\ gets' \in Nat /\ gets' <= gets
  BY <1>1, LinkAssumption DEF TypeInv, TypeOK
<1>3. socket = "lost" \/ subscribed
  BY <1>1, <1>2 DEF AheadInv, NoRequestBefore
<1> QED
  BY <1>1, <1>2, <1>3, CommandStays DEF Ops, Asking

(* The message loop takes a result that means what it says.                *)
LEMMA HandleStays ==
  ASSUME TypeInv, AheadInv, [Next]_vars, HandleUrc
  PROVE  AheadInv'
<1> DEFINE op == Head(queue)
<1>1. queue \in Seq(Kinds) /\ queue # <<>>
  BY DEF HandleUrc, TypeInv, TypeOK
<1>2. /\ op = queue[1] /\ 1 \in DOMAIN queue /\ Queued(op)
      /\ \A i \in DOMAIN queue' :
           i + 1 \in DOMAIN queue /\ queue'[i] = queue[i + 1] /\ i + 1 # 1
      /\ \A i, j \in DOMAIN queue' : i + 1 = j + 1 => i = j
      /\ \A p : Queued(p)' => Queued(p)
  BY <1>1 DEF HandleUrc, Queued
<1>3. UNCHANGED <<socket, subscribed, jobs, urcTask, urc_param, gets, seen>>
  BY DEF HandleUrc, mainVars, urcVars, modemVars, envVars, faultVars
<1>4. \/ m_mqtt_state' = m_mqtt_state
      \/ /\ op \in Ops /\ m_mqtt_state' = NextState(op)
         /\ urc_param.result = 0
         /\ op = "SUB" => urc_param.sub_value # SUB_REJECTED
  BY DEF HandleUrc, Succeeded
<1>5. OneAtATime'
  <2> SUFFICES ASSUME Unrepeated' PROVE OneAtATime'
    BY DEF OneAtATime
  <2>1. Unrepeated
    BY <1>3 DEF Unrepeated
  <2>2. \A p : Reported(p)' => Reported(p)
    BY <1>2, <1>3 DEF Reported
  <2>3. m_mqtt_state' # TOTAL_NUM =>
          \A p \in Asking : ~Reported(p)' /\ ~Working(p)'
    <3>1. CASE m_mqtt_state' = m_mqtt_state
      BY <1>3, <2>1, <2>2, <3>1 DEF AheadInv, OneAtATime, Working
    <3>2. CASE op \in Asking
      <4>1. \A p \in Asking : ~Working(p)
        BY <1>2, <2>1, <3>2 DEF AheadInv, OneAtATime, Working, Reported
      <4>2. \A p \in Asking : ~Queued(p)'
        BY <1>2, <2>1, <3>2 DEF AheadInv, OneAtATime, Queued
      <4>3. urcTask.op \notin Asking
        BY <1>2, <2>1, <3>2 DEF AheadInv, OneAtATime
      <4> QED
        BY <1>3, <4>1, <4>2, <4>3 DEF Reported, Working
    <3> QED
      BY <1>4, <3>1, <3>2 DEF NextState, Ops, Asking
  <2>4. /\ \A i \in DOMAIN jobs' : jobs'[i] \in Asking =>
             /\ \A p \in Asking : ~Reported(p)'
             /\ \A j \in DOMAIN jobs' : jobs'[j] \in Asking => j = i
        /\ urcTask'.op \in Asking => \A p \in Asking : ~Queued(p)'
    BY <1>2, <1>3, <2>1, <2>2 DEF AheadInv, OneAtATime
  <2>5. \A i, j \in DOMAIN queue' :
          queue'[i] \in Asking /\ queue'[j] \in Asking => i = j
    BY <1>2, <2>1 DEF AheadInv, OneAtATime
  <2> QED
    BY <2>3, <2>4, <2>5 DEF OneAtATime
<1>6. /\ SubFits' /\ LostIdle' /\ ConnFits' /\ NoRequestBefore'
      /\ NoPublicationBefore'
  BY <1>2, <1>3
     DEF AheadInv, SubFits, LostIdle, ConnFits, NoRequestBefore,
         NoPublicationBefore, Misled, Working, Reported
<1>7. ResultsMeanIt'
  BY <1>2, <1>3
     DEF AheadInv, ResultsMeanIt, SeenRejected, Misled, Reported
<1>8. NeverAhead'
  <2> SUFFICES ASSUME ~Misled
               PROVE  /\ m_mqtt_state' = "CONN" => socket # "closed"
                      /\ m_mqtt_state' = "SUB" =>
                           socket \in {"connected", "lost"}
                      /\ m_mqtt_state' = "PUB" /\ socket # "lost" =>
                           subscribed
    BY <1>3 DEF NeverAhead, Misled, PublishesWhenSubscribed
  <2>1. CASE m_mqtt_state' = m_mqtt_state
    BY <2>1 DEF AheadInv, NeverAhead, PublishesWhenSubscribed
  <2>2. CASE op \in Ops /\ m_mqtt_state' = NextState(op)
             /\ urc_param.result = 0
             /\ (op = "SUB" => urc_param.sub_value # SUB_REJECTED)
    <3>1. Reported(op)
      BY <1>2 DEF Reported
    <3>2. CASE op = "OPEN"
      BY <2>2, <3>1, <3>2 DEF AheadInv, ResultsMeanIt, NextState
    <3>3. CASE op = "CONN"
      BY <2>2, <3>1, <3>3
         DEF AheadInv, ResultsMeanIt, NextState, TypeInv, TypeOK, Sockets
    <3>4. CASE op = "SUB"
      <4>1. ~SeenRejected
        BY <1>2, <2>2, <3>4 DEF SeenRejected
      <4> QED
        BY <2>2, <3>1, <3>4, <4>1 DEF AheadInv, ResultsMeanIt, NextState
    <3>5. CASE op = "PUB"
      BY <2>2, <3>5 DEF NextState, TOTAL_NUM
    <3> QED
      BY <2>2, <3>2, <3>3, <3>4, <3>5 DEF Ops
  <2> QED
    BY <1>4, <2>1, <2>2
<1> QED
  BY <1>5, <1>6, <1>7, <1>8 DEF AheadInv

(* What the modem works on fits its socket, more exactly than JobsFit says.*)
LEMMA OldestFits ==
  ASSUME TypeInv, LinkInv, AheadInv, jobs # <<>>
  PROVE  /\ Head(jobs) \in Ops
         /\ Head(jobs) = "OPEN" => socket = "closed"
         /\ Head(jobs) = "CONN" => socket = "open"
         /\ Head(jobs) \in Late => socket = "connected"
BY OldestJob
   DEF TypeInv, TypeOK, Sockets, AheadInv, LostIdle, NotYetConnected, Early,
       Late, Ops

(* A result of the oldest command, whether it is then done or sent again.  *)
LEMMA ReportOne ==
  ASSUME TypeInv, LinkInv, AheadInv, [Next]_vars, Report
  PROVE  OneAtATime'
<1> SUFFICES ASSUME Unrepeated' PROVE OneAtATime'
  BY DEF OneAtATime
<1>1. /\ jobs # <<>> /\ jobs' = Tail(jobs)
      /\ urcTask = Idle /\ urcTask'.op = Head(jobs)
      /\ UNCHANGED <<m_mqtt_state, queue>>
  BY DEF Report, ReportSuccess, ReportFailure, ReportRefusal, ReportRejection,
         ReportRetransmission, ParseResult, mainVars, Fault, Unrepeated
<1>2. jobs \in Seq(Ops)
  BY DEF TypeInv, TypeOK
<1>3. /\ Head(jobs) = jobs[1] /\ 1 \in DOMAIN jobs
      /\ \A i \in DOMAIN jobs' :
           i + 1 \in DOMAIN jobs /\ jobs'[i] = jobs[i + 1] /\ i + 1 # 1
      /\ \A i, j \in DOMAIN jobs' : i + 1 = j + 1 => i = j
  BY <1>1, <1>2
<1>4. Unrepeated
  BY SeenGrows
<1>5. CASE Head(jobs) \in Asking
  <2>1. m_mqtt_state = TOTAL_NUM
    BY <1>3, <1>4, <1>5 DEF AheadInv, OneAtATime, Working
  <2>2. \A p \in Asking : ~Queued(p)
    BY <1>3, <1>4, <1>5 DEF AheadInv, OneAtATime, Reported
  <2>3. \A i \in DOMAIN jobs' : jobs'[i] \notin Asking
    BY <1>3, <1>4, <1>5 DEF AheadInv, OneAtATime
  <2> QED
    BY <1>1, <2>1, <2>2, <2>3 DEF OneAtATime, Queued
<1>6. CASE Head(jobs) \notin Asking
  <2>1. \A p \in Asking : Reported(p)' => Reported(p)
    BY <1>1, <1>6 DEF Reported, Queued
  <2>2. \A p \in Asking : Working(p)' => Working(p)
    BY <1>3 DEF Working
  <2>3. m_mqtt_state' # TOTAL_NUM =>
          \A p \in Asking : ~Reported(p)' /\ ~Working(p)'
    BY <1>1, <1>4, <2>1, <2>2 DEF AheadInv, OneAtATime
  <2>4. \A i \in DOMAIN jobs' : jobs'[i] \in Asking =>
          /\ \A p \in Asking : ~Reported(p)'
          /\ \A j \in DOMAIN jobs' : jobs'[j] \in Asking => j = i
    BY <1>3, <1>4, <2>1 DEF AheadInv, OneAtATime
  <2> QED
    BY <1>1, <1>4, <1>6, <2>3, <2>4 DEF AheadInv, OneAtATime
<1> QED
  BY <1>5, <1>6

(* A success is true of the oldest command; what else is under way was     *)
(* asked for later than what it says of the modem, or is behind it.        *)
LEMMA ReportMeansIt ==
  ASSUME TypeInv, LinkInv, AheadInv, [Next]_vars, Report
  PROVE  ResultsMeanIt'
<1> SUFFICES ASSUME ~Misled', urc_param'.result = 0 PROVE ResultsMeanIt'
  BY DEF ResultsMeanIt
<1>1. /\ jobs # <<>> /\ UNCHANGED queue
      /\ urcTask = Idle /\ urcTask'.op = Head(jobs)
      /\ urc_param' = [urc_param EXCEPT !.result = urc_param'.result]
  BY DEF Report, ReportSuccess, ReportFailure, ReportRefusal, ReportRejection,
         ReportRetransmission, ParseResult, TypeInv, TypeOK
<1>2. ReportSuccess \/ ReportRejection
  <2>1. ~ReportRefusal
    BY DEF ReportRefusal, Fault, Misled
  <2>2. ~ReportFailure /\ ~ReportRetransmission
    BY DEF ReportFailure, ReportRetransmission, ParseResult, TypeInv, TypeOK
  <2> QED
    BY <2>1, <2>2 DEF Report
<1>3. ~Misled
  BY SeenGrows
<1>4. /\ Head(jobs) \in Ops
      /\ Head(jobs) = "OPEN" => socket = "closed"
      /\ Head(jobs) = "CONN" => socket = "open"
      /\ Head(jobs) \in Late => socket = "connected"
  BY <1>1, OldestFits
<1>5. \A p : Reported(p)' <=> p = Head(jobs) \/ Queued(p)
  BY <1>1 DEF Reported, Queued
<1>6. CASE ReportSuccess
  <2>1. socket' = Stage(Head(jobs))
        /\ subscribed' = (subscribed \/ Head(jobs) = "SUB")
    BY <1>6 DEF ReportSuccess
  <2>2. socket' # "closed"
    BY <1>4, <2>1 DEF Stage, Ops, Late
  <2>3. Reported("CONN")' => socket' \notin {"closed", "open"}
    <3>1. CASE Head(jobs) = "OPEN"
      BY <1>4, <1>5, <3>1 DEF AheadInv, ConnFits, Reported
    <3>2. CASE Head(jobs) # "OPEN"
      BY <1>4, <2>1, <3>2 DEF Stage, Ops, Late
    <3> QED
      BY <3>1, <3>2
  <2>4. Reported("SUB")' => socket' = "lost" \/ subscribed'
    <3>1. CASE Head(jobs) \in Early
      <4>1. NotYetConnected
        BY <1>4, <3>1 DEF NotYetConnected, Early
      <4> QED
        BY <1>5, <3>1, <4>1 DEF LinkInv, NothingLate, Queued, Early, Late
    <3>2. CASE Head(jobs) = "SUB"
      BY <2>1, <3>2
    <3>3. CASE Head(jobs) = "PUB"
      <4>1. Working("PUB")
        <5>1. jobs \in Seq(Ops)
          BY DEF TypeInv, TypeOK
        <5> QED
          BY <1>1, <3>3, <5>1 DEF Working
      <4>2. subscribed
        BY <1>3, <1>4, <3>3, <4>1 DEF AheadInv, NoPublicationBefore, Late
      <4> QED
        BY <2>1, <4>2
    <3> QED
      BY <1>4, <3>1, <3>2, <3>3 DEF Ops, Early
  <2> QED
    BY <2>2, <2>3, <2>4 DEF ResultsMeanIt
<1>7. CASE ReportRejection
  <2>1. /\ Head(jobs) = "SUB" /\ socket = "connected" /\ socket' = socket
        /\ urcTask'.value = SUB_REJECTED
        /\ "reject" \in seen'
    BY <1>4, <1>7 DEF ReportRejection, ParseResult, Fault, Late
  <2>2. Unrepeated
    BY <2>1, SeenGrows DEF Misled, Unrepeated
  <2>3. ~Queued("SUB")
    <3>1. jobs \in Seq(Ops) /\ jobs # <<>>
      BY <1>1 DEF TypeInv, TypeOK
    <3>2. 1 \in DOMAIN jobs /\ jobs[1] = "SUB"
      BY <2>1, <3>1
    <3> QED
      BY <2>2, <3>2 DEF AheadInv, OneAtATime, Asking, Reported
  <2>4. SeenRejected'
    BY <1>1, <2>1, <2>3 DEF SeenRejected, Queued
  <2> QED
    BY <2>1, <2>4 DEF ResultsMeanIt
<1> QED
  BY <1>2, <1>6, <1>7

(* ... and all the rest.                                                   *)
LEMMA ReportStays ==
  ASSUME TypeInv, LinkInv, AheadInv, [Next]_vars, Report
  PROVE  AheadInv'
<1>1. /\ jobs # <<>> /\ jobs' \in {jobs, Tail(jobs)}
      /\ urcTask'.op = Head(jobs)
      /\ UNCHANGED <<m_mqtt_state, queue, gets>>
      /\ \/ UNCHANGED <<socket, subscribed>>
         \/ /\ socket' = Stage(Head(jobs))
            /\ subscribed' = (subscribed \/ Head(jobs) = "SUB")
  BY DEF Report, ReportSuccess, ReportFailure, ReportRefusal, ReportRejection,
         ReportRetransmission, ParseResult, mainVars, envVars, modemVars
<1>2. /\ Head(jobs) \in Ops
      /\ Head(jobs) = "OPEN" => socket = "closed"
      /\ Head(jobs) = "CONN" => socket = "open"
      /\ Head(jobs) \in Late => socket = "connected"
  BY <1>1, OldestFits
<1>3. /\ socket # "lost" /\ socket' # "lost"
      /\ socket = "connected" => socket' = socket
      /\ socket' = "closed" => socket = "closed" /\ Head(jobs) # "CONN"
  BY <1>1, <1>2, OldestJob
     DEF Stage, Ops, Late, AheadInv, LostIdle
<1>4. /\ subscribed => subscribed'
      /\ subscribed' => socket' = "connected"
  <2>1. subscribed => socket = "connected"
    BY DEF AheadInv, SubFits
  <2>2. CASE UNCHANGED <<socket, subscribed>>
    BY <2>1, <2>2
  <2>3. CASE subscribed' = (subscribed \/ Head(jobs) = "SUB")
    <3>1. Head(jobs) = "SUB" => socket' = "connected"
      BY <1>2, <1>3 DEF Late
    <3>2. subscribed => socket' = "connected"
      BY <1>3, <2>1
    <3>3. subscribed => subscribed'
      BY <2>3, Zenon
    <3>4. subscribed' => subscribed \/ Head(jobs) = "SUB"
      BY <2>3, Zenon
    <3> QED
      BY <3>1, <3>2, <3>3, <3>4
  <2> QED
    BY <1>1, <2>2, <2>3
<1>5. ~Misled' => ~Misled
  BY SeenGrows
<1>6. Working("PUB")' => Working("PUB")
  <2>1. jobs \in Seq(Ops)
    BY DEF TypeInv, TypeOK
  <2>2. \A i \in DOMAIN Tail(jobs) :
          i + 1 \in DOMAIN jobs /\ Tail(jobs)[i] = jobs[i + 1]
    BY <1>1, <2>1
  <2> QED
    BY <1>1, <2>2 DEF Working
<1>7. SubFits' /\ LostIdle' /\ ConnFits'
  BY <1>1, <1>3, <1>4
     DEF AheadInv, SubFits, LostIdle, ConnFits, Reported, Queued
<1>8. NoRequestBefore' /\ NoPublicationBefore'
  BY <1>1, <1>3, <1>4, <1>5, <1>6
     DEF AheadInv, NoRequestBefore, NoPublicationBefore
<1>9. NeverAhead'
  BY <1>1, <1>3, <1>4, <1>5 DEF AheadInv, NeverAhead, PublishesWhenSubscribed
<1> QED
  BY <1>7, <1>8, <1>9, ReportOne, ReportMeansIt DEF AheadInv

(* What was parsed is posted, the granted QoS with it.                     *)
LEMMA PostStays ==
  ASSUME TypeInv, AheadInv, [Next]_vars, PostUrc
  PROVE  AheadInv'
<1>1. /\ UNCHANGED <<m_mqtt_state, socket, subscribed, jobs, gets, seen>>
      /\ urcTask'.op = "none"
      /\ urc_param' = IF urcTask.op = "SUB"
                      THEN [urc_param EXCEPT !.sub_value = urcTask.value]
                      ELSE urc_param
  BY DEF PostUrc, Idle, mainVars, modemVars, envVars, faultVars
<1>2. queue \in Seq(Kinds) /\ urcTask.op \in Kinds
  BY DEF PostUrc, TypeInv, TypeOK, Bookkeeping
<1>3. /\ \A i \in DOMAIN queue' :
           \/ i \in DOMAIN queue /\ queue'[i] = queue[i]
           \/ i = Len(queue) + 1 /\ queue'[i] = urcTask.op
      /\ \A i \in DOMAIN queue : i \in DOMAIN queue' /\ queue'[i] = queue[i]
      /\ Len(queue) + 1 \in DOMAIN queue'
      /\ queue'[Len(queue) + 1] = urcTask.op
  BY <1>2, AppendProperties DEF PostUrc
<1>4. \A p : Queued(p)' <=> Queued(p) \/ p = urcTask.op
  BY <1>3 DEF Queued
<1>5. \A p \in Kinds : Reported(p)' <=> Reported(p)
  BY <1>1, <1>4 DEF Reported, Kinds, Ops
<1>6. OneAtATime'
  <2> SUFFICES ASSUME Unrepeated PROVE OneAtATime'
    BY <1>1 DEF OneAtATime, Unrepeated
  <2>1. \A p \in Asking : Reported(p)' <=> Reported(p)
    BY <1>5 DEF Asking, Kinds, Ops
  <2>2. \A i, j \in DOMAIN queue' :
          queue'[i] \in Asking /\ queue'[j] \in Asking => i = j
    BY <1>3 DEF AheadInv, OneAtATime, Queued
  <2> QED
    BY <1>1, <2>1, <2>2 DEF AheadInv, OneAtATime, Working, Asking
<1>7. /\ SubFits' /\ LostIdle' /\ ConnFits' /\ NoRequestBefore'
      /\ NoPublicationBefore'
  BY <1>1, <1>5
     DEF AheadInv, SubFits, LostIdle, ConnFits, NoRequestBefore,
         NoPublicationBefore, Misled, Working, Kinds, Ops
<1>8. ResultsMeanIt'
  <2>1. urc_param'.result = urc_param.result
    BY <1>1 DEF TypeInv, TypeOK
  <2>2. SeenRejected => SeenRejected'
    <3>1. CASE urcTask.op = "SUB"
      <4>1. urc_param'.sub_value = urcTask.value
        BY <1>1, <3>1 DEF TypeInv, TypeOK
      <4> QED
        BY <1>1, <3>1, <4>1 DEF SeenRejected
    <3>2. CASE urcTask.op # "SUB"
      BY <1>1, <1>4, <3>2 DEF SeenRejected
    <3> QED
      BY <3>1, <3>2
  <2> QED
    BY <1>1, <1>5, <2>1, <2>2
       DEF AheadInv, ResultsMeanIt, Misled, Kinds, Ops
<1>9. NeverAhead'
  BY <1>1 DEF AheadInv, NeverAhead, PublishesWhenSubscribed, Misled
<1> QED
  BY <1>6, <1>7, <1>8, <1>9 DEF AheadInv

(* The connection is lost, and everything said of it with it.              *)
LEMMA LoseStays ==
  ASSUME TypeInv, AheadInv, [Next]_vars, LoseConnection
  PROVE  AheadInv'
<1>1. /\ socket' = "lost" /\ jobs' = <<>> /\ subscribed' = FALSE
      /\ urcTask'.op = "STATE"
      /\ UNCHANGED <<m_mqtt_state, urc_param, queue, gets>>
  BY DEF LoseConnection, mainVars, envVars
<1>2. Unrepeated' => Unrepeated
  BY SeenGrows
<1>3. OneAtATime'
  BY <1>1, <1>2
     DEF AheadInv, OneAtATime, Working, Reported, Queued, Asking
<1> QED
  BY <1>1, <1>3
     DEF AheadInv, SubFits, LostIdle, ConnFits, NoRequestBefore,
         NoPublicationBefore, ResultsMeanIt, NeverAhead,
         PublishesWhenSubscribed

(* Every step keeps all of it.                                             *)
LEMMA NextStays ==
  ASSUME TypeInv, LinkInv, AheadInv, [Next]_vars
  PROVE  AheadInv'
<1>1. CASE SimReady
  BY <1>1, StillStays DEF SimReady, modemVars, urcVars, envVars, faultVars
<1>2. CASE DeliverGet
  <2>1. /\ subscribed
        /\ UNCHANGED <<m_mqtt_state, urc_param, urcTask, queue, jobs, socket,
                       subscribed, seen>>
    BY <1>2 DEF DeliverGet, mainVars, modemVars, urcVars, faultVars
  <2> QED
    BY <2>1
       DEF AheadInv, OneAtATime, SubFits, LostIdle, ConnFits,
           NoRequestBefore, NoPublicationBefore, ResultsMeanIt, NeverAhead,
           SeenRejected, PublishesWhenSubscribed, Misled, Unrepeated, Working,
           Reported, Queued
<1>3. CASE UNCHANGED vars
  BY <1>3, StillStays
     DEF vars, mainVars, modemVars, urcVars, envVars, faultVars
<1> QED
  BY <1>1, <1>2, <1>3, TimerStays, AnswerStays, HandleStays, ReportStays,
     PostStays, LoseStays DEF Next

(* At every moment the fields of mqtt_urc_param, if they read success, are *)
(* true of every result that the message loop has yet to take.             *)
THEOREM AheadInvHolds == Spec => []AheadInv
<1>1. Init => AheadInv
  BY DEF Init, AheadInv, OneAtATime, SubFits, LostIdle, ConnFits,
         NoRequestBefore, NoPublicationBefore, ResultsMeanIt, NeverAhead,
         PublishesWhenSubscribed, Working, Reported, Queued, Idle, Asking
<1>2. AheadInv /\ LinkInv /\ TypeInv /\ [Next]_vars => AheadInv'
  BY NextStays
<1> QED
  BY <1>1, <1>2, LinkInvHolds, TypesHold, PTL DEF Spec

(* The state machine never runs ahead of the modem, for any number of      *)
(* failures, repetitions, rejections and lost connections.                 *)
THEOREM WaitsForTheModem == Spec => []NeverAhead
<1>1. AheadInv => NeverAhead
  BY DEF AheadInv
<1> QED
  BY <1>1, AheadInvHolds, PTL
=============================================================================
