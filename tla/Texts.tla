------------------------------- MODULE Texts -------------------------------
(***************************************************************************)
(* Texts and what they do.  People write commands to the outlet by SMS or  *)
(* publish them on its topic; the outlet publishes its answers, and its    *)
(* greeting, on the topic it is subscribed to, so that it is sent its own  *)
(* texts too.  The clock runs, over days on which the calendar arithmetic  *)
(* is at its edges.                                                        *)
(***************************************************************************)
EXTENDS Commands, TimeConv

CONSTANTS
  Written,      \* what people write: records [text, means]
  Lines,        \* what the line of a received message has before its topic
  Greeting,     \* test_data
  UsersAnswer,  \* the answer to Get All Users: the numbers of the users
  Dates,        \* the days considered
  Times,        \* times of day the clock shows, in seconds
  MaxTexts      \* bound: texts people write

Calendar ==
  {date \in [year : Nat, month : 1 .. 12, day : 1 .. 31] :
     date.day <= MonthLength(date)}

(* Times of day, those that Unit tells apart. *)
TimesOfDay == {t \in 0 .. Day - 1 : t % Unit = 0}

(* A time is for one output, and UNTIL names a time of day.                *)
WellMeant(command) ==
  /\ command \in [do : {"on", "off", "until", "for", "users", "outputs", "time", "nothing"},
                 outs : SUBSET Outputs, when : Nat]
  /\ command.do \in {"until", "for"} => \E n \in Outputs : command.outs = {n}
  /\ command.do = "until" => command.when \in TimesOfDay

(* No digit is looked for behind the end of a line, where the memory is    *)
(* not known.                                                              *)
ASSUME TextsAssumption ==
  /\ MaxTexts \in Nat
  /\ Dates \subseteq Calendar
  /\ Times \subseteq TimesOfDay
  /\ \A w \in Written : WellMeant(w.means)
  /\ \A w \in Written, line \in Lines :
       LET length == Len(line \o "Mic Outputs," \o w.text)
       IN  /\ Places(w.text, "UNTIL ") # {} => length > 22
           /\ Places(w.text, "FOR ") # {} => length > 15

VARIABLES
  on,        \* the outputs whose bit is set in Data
  started,   \* the last timer started: its output and how many Units it
             \* runs; or none
  report,    \* the last report made
  topic,     \* the messages on the topic that the outlet is still to get
  date,
  now,       \* the local time, in seconds
  texts      \* bounded: texts people have written

vars == <<on, started, report, topic, date, now, texts>>
outlet == <<on, started, report>>

(* The outlet's own texts mean nothing. *)
OwnText(text) == [text |-> text, means |-> Nothing]

OutputsAnswerQuoting(S) ==   \* mutant: the answer begins with the question
  "Get Outputs: " \o (IF 1 \in S THEN "1" ELSE "0")

OutputsAnswer(S) ==
  LET Bit(n) == IF n \in S THEN "1" ELSE "0"
  IN  "OUT1: " \o Bit(1) \o " OUT2: " \o Bit(2) \o " OUT3: " \o Bit(3)
        \o " OUT4: " \o Bit(4) \o " OUT5: " \o Bit(5) \o " OUT6: " \o Bit(6)

(* What can be on the topic. *)
OnTopic ==
  Written \cup {OwnText(text) : text \in
                  {Greeting, UsersAnswer} \cup {OutputsAnswer(S) : S \in SUBSET Outputs}}

TextsTypeOK ==
  /\ on \subseteq Outputs
  /\ started \subseteq Outputs \X Nat /\ Cardinality(started) <= 1
  /\ report \in {"none", "users", "outputs", "time"}
  /\ topic \in Seq(OnTopic)
  /\ date \in Dates /\ now \in Times
  /\ texts \in 0 .. MaxTexts
-----------------------------------------------------------------------------
(* What the outlet does once it has understood a command. *)

(* What the MQTT callback publishes. *)
Answers(command) ==
  CASE command.do = "users" -> <<OwnText(UsersAnswer)>>
    [] command.do = "outputs" -> <<OwnText(OutputsAnswer(on))>>
    [] OTHER -> <<>>

(* What each text is understood as, by SMS and behind each line. *)
BySms == [w \in Written |-> Sms(w.text)]
OverMqtt ==
  [line \in Lines |->
     [text \in {t.text : t \in OnTopic} |->
        Mqtt(adjust_buffer(line \o "Mic Outputs," \o text))]]

Obeyed(command) ==
  LET target == ConvertToTimestamp(date, command.when)
      current == ConvertToTimestamp(date, now)
      late == command.do = "until" /\ target <= current
  IN
  /\ on' = CASE command.do = "off" -> on \ command.outs
             [] command.do = "on" \/ command.do = "for" -> on \cup command.outs
             [] command.do = "until" /\ ~late -> on \cup command.outs
             [] OTHER -> on
  /\ started' = IF command.do \notin {"until", "for"} \/ late \/ command.outs = {}
                THEN started
                ELSE command.outs \X {IF command.do = "for"
                                      THEN command.when \div Unit
                                      ELSE target - current}
  /\ report' = IF command.do \in {"users", "outputs", "time"} THEN command.do
               ELSE report

Hdlr_RecvNewSMS(w) ==
  /\ texts < MaxTexts /\ texts' = texts + 1
  /\ \E command \in BySms[w] : Obeyed(command)
  /\ UNCHANGED <<topic, date, now>>

Publish(w) ==
  /\ texts < MaxTexts /\ texts' = texts + 1
  /\ topic' = Append(topic, w)
  /\ UNCHANGED <<outlet, date, now>>

(* The greeting, and the answers, are published while the link is up. *)
STATE_MQTT_PUB ==
  /\ texts < MaxTexts /\ texts' = texts + 1
  /\ topic' = Append(topic, OwnText(Greeting))
  /\ UNCHANGED <<outlet, date, now>>

mqtt_message_received_callback(line) ==
  /\ topic # <<>>
  /\ \E command \in OverMqtt[line][Head(topic).text] :
       /\ Obeyed(command)
       /\ topic' = Tail(topic) \o Answers(command)
  /\ UNCHANGED <<date, now, texts>>

(* The clock, at the moments considered. *)
TimePasses ==
  /\ \/ /\ date' = date
        /\ now' \in {t \in Times : t > now}
     \/ /\ NextDate(date) \in Dates /\ date' = NextDate(date)
        /\ now' \in Times
  /\ UNCHANGED <<outlet, topic, texts>>

Init ==
  /\ on = {} /\ started = {} /\ report = "none"
  /\ topic = <<>> /\ texts = 0
  /\ date \in Dates /\ now \in Times

Next ==
  \/ \E w \in Written : Hdlr_RecvNewSMS(w) \/ Publish(w)
  \/ STATE_MQTT_PUB
  \/ \E line \in Lines : mqtt_message_received_callback(line)
  \/ TimePasses

(* The modem hands every message to the callback. *)
Fairness == WF_vars(\E line \in Lines : mqtt_message_received_callback(line))

Spec == Init /\ [][Next]_vars /\ Fairness
-----------------------------------------------------------------------------
(* The parsers take every text that can come for what its writer means, or *)
(* for a command that does nothing where nothing is meant.                 *)
Idle(command) ==
  \/ command.do = "nothing"
  \/ command.do \in {"on", "off", "until", "for"} /\ command.outs = {}

TakenFor(commands, meant) ==
  \A command \in commands : command = meant \/ (Idle(command) /\ Idle(meant))

Understood ==
  /\ \A w \in Written : TakenFor(BySms[w], w.means)
  /\ \A line \in Lines, t \in OnTopic : TakenFor(OverMqtt[line][t.text], t.means)

(* What the writer of a command means: until is a time of today, and no    *)
(* command at all once it is past.                                         *)
Meant(command) ==
  LET timed == command.when - (IF command.do = "for" THEN 0 ELSE now)
      late == command.do = "until" /\ command.when <= now
  IN
  CASE command.do = "off" -> outlet' = <<on \ command.outs, started, report>>
    [] command.do = "on" -> outlet' = <<on \cup command.outs, started, report>>
    [] command.do \in {"until", "for"} /\ ~late ->
         outlet' = <<on \cup command.outs, command.outs \X {timed \div Unit}, report>>
    [] command.do \in {"users", "outputs", "time"} ->
         outlet' = <<on, started, command.do>>
    [] OTHER -> outlet' = outlet

(* A text does what its writer means, by SMS and over MQTT alike, whatever *)
(* the line of the message says before it and whichever day it is, and the *)
(* outlet's own texts do nothing.  The day on which the u32 starts again   *)
(* from 0 is the exception.                                                *)
DoesAsMeant ==
  [][/\ \A w \in Written : Hdlr_RecvNewSMS(w) => Meant(w.means) \/ Wraps(date)
     /\ \A line \in Lines : mqtt_message_received_callback(line) =>
          Meant(Head(topic).means) \/ Wraps(date)]_vars

(* The outlet does not keep itself busy: the messages on the topic come to *)
(* an end, although each of its answers is sent back to it.                *)
TopicFallsQuiet == []<>(topic = <<>>)

(* The days ConvertToTimestamp counts go up by one from each day to the    *)
(* next, except at the ends of a leap year: not at all at its end, and by  *)
(* two at its beginning.                                                   *)
DaysAreCounted ==
  [][date' # date =>
       DayNumber(date') - DayNumber(date) =
         IF date.year = date'.year THEN 1
         ELSE IF LeapYear(date.year) THEN 0
         ELSE IF LeapYear(date'.year) THEN 2
         ELSE 1]_vars
=============================================================================
