------------------------------ MODULE MCTexts ------------------------------
(* Texts in the forms the parsers expect.                                     *)
EXTENDS Texts

W(text, do, outs, when) == [text |-> text, means |-> Command(do, outs, when)]

MCWritten ==
  {W("ALL ON", "on", Outputs, 0),
   W("ALL OFF", "off", Outputs, 0),
   W("ON OUT 1", "on", {1}, 0),
   W("OFF OUT 6", "off", {6}, 0),
   W("ON OUT 3", "on", {3}, 0),
   W("UNTIL 00:00:00 ON OUT 1", "until", {1}, 0),
   W("UNTIL 21:20:00 ON OUT 1", "until", {1}, 76800),
   W("ON OUT 7", "nothing", {}, 0),
   W("UNTIL 10:40:00 ON OUT 6", "until", {6}, 38400),
   W("FOR 384 ON OUT 1", "for", {1}, 384),
   W("Get All Users", "users", {}, 0),
   W("Get Outputs", "outputs", {}, 0)}

MCLines == {"", "0,1,", "+QMTRECV: 0,1234,"}
MCGreeting == "SMS & MQTT Controller Embedding Systems"
MCUsersAnswer ==
  "Manager: +989121234567 First User: +989131234567 Second User:  Third User: "

D(y, m, d) == [year |-> y, month |-> m, day |-> d]
MCDates ==
  {D(2024, 2, 28), D(2024, 2, 29), D(2024, 3, 1), D(2024, 12, 31), D(2025, 1, 1),
   D(2025, 2, 28), D(2025, 3, 1), D(2027, 12, 31), D(2028, 1, 1), D(2041, 7, 14)}

MCTimes == {0, 38400, 76800}      \* 00:00, 10:40 and 21:20
MCAnySecond == {0, 76800}
=============================================================================
