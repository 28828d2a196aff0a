------------------------------ MODULE TimeConv ------------------------------
(***************************************************************************)
(* The calendar arithmetic behind UNTIL: ConvertToTimestamp, and the day   *)
(* of the calendar that follows a day, to compare it with.                 *)
(***************************************************************************)
EXTENDS Integers, Sequences

CONSTANTS
  Unit,    \* seconds are counted in units of this many, to keep numbers small
  Word     \* the number of values of a u32, divided by Unit

Day == 86400     \* seconds

ASSUME TimeAssumption ==
  /\ Unit \in Nat \ {0} /\ Day % Unit = 0
  /\ Word \in Nat /\ Day \div Unit < Word

monthDays == <<31, 28, 31, 30, 31, 30, 31, 31, 30, 31, 30, 31>>

LeapYear(y) == y % 4 = 0 /\ (y % 100 # 0 \/ y % 400 = 0)

(* The days of the months before, but for a leap day. *)
DaysBefore[month \in 1 .. 12] ==
  IF month = 1 THEN 0 ELSE DaysBefore[month - 1] + monthDays[month - 1]

DayNumberTwice(date) ==   \* mutant: the leap day of the year from January on
  date.year * 365 + date.year \div 4 - date.year \div 100 + date.year \div 400
  + DaysBefore[date.month]
  + (IF LeapYear(date.year) THEN 1 ELSE 0)
  + date.day - 1

(* The days ConvertToTimestamp counts.  year / 4 counts the leap day of the *)
(* year itself, from its first of January, and it is added again in March.  *)
DayNumber(date) ==
  date.year * 365 + date.year \div 4 - date.year \div 100 + date.year \div 400
  + DaysBefore[date.month]
  + (IF date.month > 2 /\ LeapYear(date.year) THEN 1 ELSE 0)
  + date.day - 1

(* The seconds since then, as a u32. *)
ConvertToTimestamp(date, second) ==
  (DayNumber(date) * (Day \div Unit) + second \div Unit) % Word

(* The u32 starts again from 0 in the course of the day. *)
Wraps(date) == ConvertToTimestamp(date, Day - 1) < ConvertToTimestamp(date, 0)

(* The clock of the module at midnight. *)
MonthLength(date) ==
  IF date.month = 2 /\ LeapYear(date.year) THEN 29 ELSE monthDays[date.month]

NextDate(date) ==
  IF date.day < MonthLength(date)
  THEN [date EXCEPT !.day = @ + 1]
  ELSE IF date.month < 12
       THEN [date EXCEPT !.month = @ + 1, !.day = 1]
       ELSE [year |-> date.year + 1, month |-> 1, day |-> 1]
=============================================================================
