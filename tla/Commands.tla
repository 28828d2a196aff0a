------------------------------ MODULE Commands ------------------------------
(***************************************************************************)
(* What the firmware takes a text for.  The SMS handler compares the text, *)
(* or its beginning, with its words.  The MQTT callback is given a line    *)
(* that names the topic before the text, moves the text to the front and   *)
(* looks for its words anywhere.  Both then read digits and times at fixed *)
(* positions.  Texts are strings; positions count from 0 as in the code.   *)
(***************************************************************************)
EXTENDS Integers, Sequences, SequencesExt, FiniteSetsExt, TLC

CONSTANT
  AnySecond    \* what a time that sscanf cannot read may turn out to be

Outputs == 1 .. 6
NUL == "$"     \* the end of a string in memory; no text has this character
Digits == {"0", "1", "2", "3", "4", "5", "6", "7", "8", "9"}

CharAt(m, k) == IF k < Len(m) THEN SubSeq(m, k + 1, k + 1) ELSE NUL
From(m, k) == SubSeq(m, k + 1, Len(m))
Upto(m, k, n) == SubSeq(m, k + 1, IF k + n < Len(m) THEN k + n ELSE Len(m))

StartsAt(m, k, word) == Len(word) + k <= Len(m) /\ Upto(m, k, Len(word)) = word
StartsWith(m, word) == StartsAt(m, 0, word)
Places(m, word) == {k \in 0 .. Len(m) : StartsAt(m, k, word)}

(* The string that starts at the beginning of the memory m. *)
CString(m) ==
  LET ends == Places(m, NUL) IN IF ends = {} THEN m ELSE SubSeq(m, 1, Min(ends))
-----------------------------------------------------------------------------
(* Commands. *)

Nothing == [do |-> "nothing", outs |-> {}, when |-> 0]
Command(do, outs, when) == [do |-> do, outs |-> outs, when |-> when]

OutputAtAnyDigit(m, k) ==   \* mutant: every digit is taken for an output
  {n \in 0 .. 9 : ToString(n) = CharAt(m, k)}

(* The output whose digit is at place k, if there is one. *)
OutputAt(m, k) == {n \in Outputs : ToString(n) = CharAt(m, k)}

LeadingDigits(s) ==
  CHOOSE n \in 0 .. Len(s) :
    /\ CharAt(s, n) \notin Digits
    /\ \A j \in 0 .. n - 1 : CharAt(s, j) \in Digits

Ql_atoi(s) ==
  LET Value(c) == CHOOSE d \in 0 .. 9 : ToString(d) = c
  IN  FoldLeft(LAMBDA v, j : 10 * v + Value(CharAt(s, j - 1)), 0,
               [j \in 1 .. LeadingDigits(s) |-> j])

(* sscanf of "%d:%d:%d", in seconds; what it cannot read is left as it is. *)
TimeStringToSeconds(s) ==
  LET Rest(t) == IF CharAt(t, LeadingDigits(t)) = ":"
                 THEN From(t, LeadingDigits(t) + 1) ELSE ""
      minutes == Rest(s)
      seconds == Rest(minutes)
  IN  IF LeadingDigits(seconds) > 0
      THEN {Ql_atoi(s) * 3600 + Ql_atoi(minutes) * 60 + Ql_atoi(seconds)}
      ELSE AnySecond

Until(m) ==
  {Command("until", OutputAt(m, 22), t) : t \in TimeStringToSeconds(Upto(m, 6, 8))}
For(m) == {Command("for", OutputAt(m, 15), Ql_atoi(Upto(m, 4, 3)))}
-----------------------------------------------------------------------------
(* The two parsers: the commands a text may be taken for. *)

(* What a text in memory m asks for once the word has been found. *)
Asked(word, m) ==
  CASE word = "Get All Users" -> {Command("users", {}, 0)}
    [] word = "Get Outputs"   -> {Command("outputs", {}, 0)}
    [] word = "Current Time"  -> {Command("time", {}, 0)}
    [] word = "ALL OFF"       -> {Command("off", Outputs, 0)}
    [] word = "ALL ON"        -> {Command("on", Outputs, 0)}
    [] word = "ON OUT "       -> {Command("on", OutputAt(m, 7), 0)}
    [] word = "OFF OUT "      -> {Command("off", OutputAt(m, 8), 0)}
    [] word = "UNTIL "        -> Until(m)
    [] word = "FOR "          -> For(m)

(* Hdlr_RecvNewSMS compares the whole text, or its beginning. *)
SmsWords(text) ==
  {word \in {"Get All Users", "Get Outputs", "ALL OFF", "ALL ON", "Current Time"} :
     text = word}
  \cup {word \in {"ON OUT ", "UNTIL ", "FOR ", "OFF OUT "} : StartsWith(text, word)}

Sms(text) ==
  IF SmsWords(text) = {} THEN {Nothing}
  ELSE UNION {Asked(word, text) : word \in SmsWords(text)}

(* The text is moved over the beginning of the line and ended there; what  *)
(* the line held further on stays behind it.                               *)
adjust_buffer(m) ==
  LET key == "Mic Outputs,"
      found == Places(m, key)
      text == From(m, Min(found) + Len(key))
  IN  IF found = {} THEN m ELSE text \o NUL \o From(m, Len(text) + 1)

MqttWordsSorted ==   \* mutant: the shorter commands are looked for first
  <<"ALL OFF", "ALL ON", "Get All Users", "Get Outputs", "OFF OUT ", "ON OUT ",
    "FOR ", "UNTIL ">>

(* The words mqtt_message_received_callback looks for, in this order: the  *)
(* first one that the text holds, anywhere, decides.                       *)
MqttWords ==
  <<"Get All Users", "Get Outputs", "UNTIL ", "FOR ", "OFF OUT ", "ON OUT ",
    "ALL OFF", "ALL ON">>

Mqtt(buffer) ==
  LET text == CString(buffer)
      found == {i \in DOMAIN MqttWords : Places(text, MqttWords[i]) # {}}
  IN  IF found = {} THEN {Nothing} ELSE Asked(MqttWords[Min(found)], buffer)
=============================================================================
