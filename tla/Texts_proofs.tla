---------------------------- MODULE Texts_proofs ----------------------------
(***************************************************************************)
(* What TLAPS proves of Texts, for any dates of the calendar, any times of *)
(* day and any texts: the calendar arithmetic, and what becomes of a text  *)
(* once the parsers have understood it.                                    *)
(***************************************************************************)
EXTENDS Texts, FiniteSetTheorems, SequenceTheorems, TLAPS

(* The days before each month, which the recursive function adds up.       *)
LEMMA DaysBeforeIs ==
  /\ DaysBefore \in [1 .. 12 -> Nat]
  /\ DaysBefore[1] = 0
  /\ \A month \in 1 .. 11 :
       DaysBefore[month + 1] = DaysBefore[month] + monthDays[month]
  /\ DaysBefore[12] = 334
<1> DEFINE table == <<0, 31, 59, 90, 120, 151, 181, 212, 243, 273, 304, 334>>
           days == [month \in 1 .. 12 |-> table[month]]
           Adds(f) == f = [month \in 1 .. 12 |->
                             IF month = 1 THEN 0 ELSE f[month - 1] + monthDays[month - 1]]
<1>1. \A month \in 1 .. 12 :
        days[month] = IF month = 1 THEN 0 ELSE days[month - 1] + monthDays[month - 1]
  BY DEF monthDays
<1>2. Adds(days)
  BY <1>1
<1>3. DaysBefore = CHOOSE f : Adds(f)
  BY DEF DaysBefore
<1> HIDE DEF days
<1>4. Adds(DaysBefore)
  BY <1>2, <1>3
<1>5. \A month \in 1 .. 12 :
        DaysBefore[month] =
          IF month = 1 THEN 0 ELSE DaysBefore[month - 1] + monthDays[month - 1]
  BY <1>4
<1>6. \A month \in 1 .. 12 : monthDays[month] \in Nat
  BY DEF monthDays
<1>7. DaysBefore[1] = 0 /\ DaysBefore[12] = 334
  BY <1>5 DEF monthDays
<1>8. \A month \in 1 .. 12 : DaysBefore[month] \in Nat
  BY <1>5, <1>6
<1> QED
  BY <1>4, <1>5, <1>7, <1>8

(* What the leap days of all years up to y come to, as the code counts.    *)
LeapDays(y) == y \div 4 - y \div 100 + y \div 400

LEMMA LeapDaysGrow ==
  ASSUME NEW y \in Nat
  PROVE  /\ LeapDays(y) \in Int
         /\ LeapDays(y + 1) = LeapDays(y) + (IF LeapYear(y + 1) THEN 1 ELSE 0)
         /\ ~(LeapYear(y) /\ LeapYear(y + 1))
<1>1. ASSUME NEW n \in {4, 100, 400}
      PROVE  (y + 1) \div n = y \div n + (IF (y + 1) % n = 0 THEN 1 ELSE 0)
  OBVIOUS
<1>2. /\ (y + 1) % 400 = 0 => (y + 1) % 100 = 0
      /\ (y + 1) % 100 = 0 => (y + 1) % 4 = 0
      /\ ~(y % 4 = 0 /\ (y + 1) % 4 = 0)
  OBVIOUS
<1>3. y \div 4 \in Int /\ y \div 100 \in Int /\ y \div 400 \in Int
  OBVIOUS
<1> QED
  BY <1>1, <1>2, <1>3 DEF LeapDays, LeapYear

(* The day number of a day and of the next.                                *)
LEMMA NextDay ==
  ASSUME NEW d \in Calendar, d.year = NextDate(d).year
  PROVE  DayNumber(NextDate(d)) - DayNumber(d) = 1
<1>1. /\ d \in [year : Nat, month : 1 .. 12, day : 1 .. 31]
      /\ d.day <= MonthLength(d)
  BY DEF Calendar
<1> DEFINE base == d.year * 365 + d.year \div 4 - d.year \div 100 + d.year \div 400
           leap == IF LeapYear(d.year) THEN 1 ELSE 0
<1>2. base \in Int /\ leap \in {0, 1}
  BY <1>1
<1>3. CASE d.day < MonthLength(d)
  <2>1. /\ NextDate(d).year = d.year /\ NextDate(d).month = d.month
        /\ NextDate(d).day = d.day + 1
    BY <1>1, <1>3 DEF NextDate
  <2>2. DaysBefore[d.month] \in Nat
    BY <1>1, DaysBeforeIs
  <2> HIDE DEF base
  <2>3. DayNumber(d) = base + DaysBefore[d.month]
                         + (IF d.month > 2 /\ LeapYear(d.year) THEN 1 ELSE 0) + d.day - 1
    BY DEF DayNumber, base
  <2>4. DayNumber(NextDate(d))
          = base + DaysBefore[d.month]
              + (IF d.month > 2 /\ LeapYear(d.year) THEN 1 ELSE 0) + (d.day + 1) - 1
    BY <2>1 DEF DayNumber, base
  <2> QED
    BY <1>1, <1>2, <2>2, <2>3, <2>4
<1>4. CASE d.day = MonthLength(d) /\ d.month < 12
  <2>1. /\ NextDate(d).year = d.year /\ NextDate(d).month = d.month + 1
        /\ NextDate(d).day = 1
    BY <1>1, <1>4 DEF NextDate
  <2>2. /\ DaysBefore[d.month] \in Nat
        /\ DaysBefore[d.month + 1] = DaysBefore[d.month] + monthDays[d.month]
    BY <1>1, <1>4, DaysBeforeIs
  <2> HIDE DEF base
  <2>3. DayNumber(d) = base + DaysBefore[d.month]
                         + (IF d.month > 2 /\ LeapYear(d.year) THEN 1 ELSE 0) + d.day - 1
    BY DEF DayNumber, base
  <2>4. DayNumber(NextDate(d))
          = base + DaysBefore[d.month + 1]
              + (IF d.month + 1 > 2 /\ LeapYear(d.year) THEN 1 ELSE 0) + 1 - 1
    BY <2>1 DEF DayNumber, base
  <2>5. CASE d.month = 2
    <3>1. monthDays[2] = 28
      BY DEF monthDays
    <3>2. d.day = 28 + leap
      BY <1>4, <2>5, <3>1 DEF MonthLength
    <3> QED
      BY <1>2, <2>2, <2>3, <2>4, <2>5, <3>1, <3>2
  <2>6. CASE d.month # 2
    <3>1. d.day = monthDays[d.month]
      BY <1>4, <2>6 DEF MonthLength
    <3>2. (d.month + 1 > 2) <=> d.month > 2
      BY <1>1, <2>6
    <3> QED
      BY <1>1, <1>2, <2>2, <2>3, <2>4, <3>1, <3>2
  <2> QED
    BY <2>5, <2>6
<1>5. CASE d.day = MonthLength(d) /\ d.month = 12
  BY <1>1, <1>5 DEF NextDate
<1>6. MonthLength(d) \in Nat
  BY <1>1 DEF MonthLength, monthDays
<1> QED
  BY <1>1, <1>3, <1>4, <1>5, <1>6

LEMMA NextYear ==
  ASSUME NEW d \in Calendar, d.year # NextDate(d).year
  PROVE  /\ NextDate(d).year = d.year + 1
         /\ DayNumber(NextDate(d)) - DayNumber(d) =
              IF LeapYear(d.year) THEN 0
              ELSE IF LeapYear(d.year + 1) THEN 2
              ELSE 1
<1>1. /\ d \in [year : Nat, month : 1 .. 12, day : 1 .. 31]
      /\ d.day <= MonthLength(d)
  BY DEF Calendar
<1>2. MonthLength(d) \in Nat /\ ~(d.day < MonthLength(d)) /\ d.month = 12
  BY <1>1 DEF NextDate, MonthLength, monthDays
<1>3. NextDate(d) = [year |-> d.year + 1, month |-> 1, day |-> 1]
  BY <1>2 DEF NextDate
<1>4. d.day = 31
  BY <1>1, <1>2 DEF MonthLength, monthDays
<1>5. DayNumber(d) = d.year * 365 + LeapDays(d.year) + 334
                       + (IF LeapYear(d.year) THEN 1 ELSE 0) + 30
  <2>1. DayNumber(d) = d.year * 365 + d.year \div 4 - d.year \div 100 + d.year \div 400
                         + 334 + (IF LeapYear(d.year) THEN 1 ELSE 0) + 31 - 1
    BY <1>2, <1>4, DaysBeforeIs DEF DayNumber
  <2>2. d.year \div 4 \in Int /\ d.year \div 100 \in Int /\ d.year \div 400 \in Int
    BY <1>1
  <2> QED
    BY <1>1, <2>1, <2>2 DEF LeapDays
<1>6. DayNumber(NextDate(d)) = (d.year + 1) * 365 + LeapDays(d.year + 1)
  BY <1>1, <1>3, DaysBeforeIs DEF DayNumber, LeapDays
<1> QED
  BY <1>1, <1>3, <1>5, <1>6, LeapDaysGrow

(* The clock shows days of the calendar, those considered.                 *)
LEMMA DatesHold == Spec => [](date \in Dates)
<1>1. Init => date \in Dates
  BY DEF Init
<1>2. date \in Dates /\ [Next]_vars => (date \in Dates)'
  BY DEF Next, vars, outlet, Hdlr_RecvNewSMS, Publish, STATE_MQTT_PUB,
         mqtt_message_received_callback, TimePasses
<1> QED
  BY <1>1, <1>2, PTL DEF Spec

(* From each day to the next, on any dates of the calendar, the code       *)
(* counts one day, but at the ends of leap years.                          *)
THEOREM DaysCounted == Spec => DaysAreCounted
<1> DEFINE Difference == DayNumber(date') - DayNumber(date)
           Counted == Difference =
             IF date.year = date'.year THEN 1
             ELSE IF LeapYear(date.year) THEN 0
             ELSE IF LeapYear(date'.year) THEN 2
             ELSE 1
<1>1. ASSUME date \in Dates, [Next]_vars, date' # date PROVE Counted
  <2>1. date' = NextDate(date)
    BY <1>1 DEF Next, vars, outlet, Hdlr_RecvNewSMS, Publish, STATE_MQTT_PUB,
                mqtt_message_received_callback, TimePasses
  <2>2. date \in Calendar
    BY <1>1, TextsAssumption
  <2>3. CASE date.year = date'.year
    BY <2>1, <2>2, <2>3, NextDay
  <2>4. CASE date.year # date'.year
    BY <2>1, <2>2, <2>4, NextYear
  <2> QED
    BY <2>3, <2>4
<1>2. date \in Dates /\ [Next]_vars => [date' # date => Counted]_vars
  BY <1>1
<1> QED
  BY <1>2, DatesHold, PTL DEF Spec, DaysAreCounted
-----------------------------------------------------------------------------
(* Times of day and their timestamps.                                      *)

(* A remainder is known by its range.                                      *)
LEMMA Remainder ==
  ASSUME NEW y \in Int, NEW W \in Nat \ {0}, NEW k \in Int,
         y - W * k \in 0 .. W - 1
  PROVE  y % W = y - W * k
<1> DEFINE q == y \div W
           r == y % W
<1>1. q \in Int /\ r \in 0 .. W - 1 /\ y = W * q + r
  OBVIOUS
<1> HIDE DEF q, r
<1>2. W * (q - k) = y - r - W * k /\ W * k \in Int
  BY <1>1
<1>3. CASE q - k >= 1
  <2>1. W * (q - k) >= W
    BY <1>1, <1>3
  <2> QED
    BY <1>1, <1>2, <2>1
<1>4. CASE q - k <= -1
  <2>1. W * (q - k) <= -W
    BY <1>1, <1>4
  <2> QED
    BY <1>1, <1>2, <2>1
<1>5. CASE q = k
  BY <1>1, <1>2, <1>5 DEF r
<1> QED
  BY <1>1, <1>3, <1>4, <1>5

LEMMA RemainderOfSum ==
  ASSUME NEW x \in Int, NEW W \in Nat \ {0}, NEW a \in 0 .. W - 1
  PROVE  (x + a) % W = IF (x % W) + a < W THEN (x % W) + a ELSE (x % W) + a - W
<1> DEFINE q == x \div W
           r == x % W
<1>1. q \in Int /\ r \in 0 .. W - 1 /\ x = W * q + r
  OBVIOUS
<1> HIDE DEF q, r
<1>2. W * q \in Int /\ W * (q + 1) = W * q + W
  BY <1>1
<1>3. CASE r + a < W
  <2>1. (x + a) - W * q = r + a /\ r + a \in 0 .. W - 1
    BY <1>1, <1>2, <1>3
  <2> QED
    BY <1>1, <1>3, <2>1, Remainder DEF r
<1>4. CASE r + a >= W
  <2> DEFINE k == q + 1
  <2>1. /\ k \in Int /\ x + a \in Int
        /\ (x + a) - W * k = r + a - W /\ r + a - W \in 0 .. W - 1
    BY <1>1, <1>2, <1>4
  <2> HIDE DEF k
  <2>2. (x + a) % W = (x + a) - W * k
    BY <2>1, Remainder
  <2> QED
    BY <1>1, <1>4, <2>1, <2>2 DEF r
<1> QED
  BY <1>1, <1>3, <1>4

LEMMA Divides ==
  ASSUME NEW a \in Int, NEW b \in Nat \ {0}, a % b = 0
  PROVE  a = b * (a \div b)
<1> DEFINE q == a \div b
           r == a % b
<1>1. q \in Int /\ r \in 0 .. b - 1 /\ a = b * q + r
  OBVIOUS
<1>2. r = 0
  OBVIOUS
<1> HIDE DEF q, r
<1>3. b * q \in Int
  BY <1>1
<1>4. a = b * q
  BY <1>1, <1>2, <1>3
<1> QED
  BY <1>4 DEF q

(* What a time of day is in units, and how two of them differ.             *)
LEMMA Units ==
  /\ Unit \in Nat \ {0} /\ Word \in Nat
  /\ (Day - 1) \div Unit \in Nat /\ (Day - 1) \div Unit < Word
  /\ \A t \in TimesOfDay :
       /\ t \in Int
       /\ t \div Unit \in 0 .. (Day - 1) \div Unit
       /\ t = Unit * (t \div Unit)
<1>1. Unit \in Nat \ {0} /\ Word \in Nat /\ Day \div Unit < Word
      /\ Day \in Nat \ {0}
  BY TimeAssumption DEF Day
<1>2. ASSUME NEW a \in Nat, NEW b \in Nat, a <= b PROVE a \div Unit <= b \div Unit
  <2> DEFINE p == a \div Unit
             q == b \div Unit
             r == a % Unit
             s == b % Unit
  <2>1. p \in Int /\ q \in Int /\ r \in 0 .. Unit - 1 /\ s \in 0 .. Unit - 1
    BY <1>1
  <2>2. a = Unit * p + r /\ b = Unit * q + s
    BY <1>1
  <2> HIDE DEF p, q, r, s
  <2>3. CASE p - q >= 1
    <3>1. Unit * (p - q) >= Unit
      BY <1>1, <2>1, <2>3
    <3>2. Unit * (p - q) = a - r - b + s
      BY <1>1, <2>1, <2>2
    <3> QED
      BY <1>1, <1>2, <2>1, <3>1, <3>2
  <2>4. CASE p <= q
    BY <2>4 DEF p, q
  <2> QED
    BY <2>1, <2>3, <2>4
<1>3. \A a \in Nat : a \div Unit \in Nat
  BY <1>1
<1>4. ASSUME NEW t \in TimesOfDay
      PROVE  /\ t \in Int
             /\ t \div Unit \in 0 .. (Day - 1) \div Unit
             /\ t = Unit * (t \div Unit)
  <2>1. t \in Nat /\ t <= Day - 1 /\ t % Unit = 0 /\ Day - 1 \in Nat
    <3>1. t \in 0 .. Day - 1 /\ t % Unit = 0
      BY Zenon DEF TimesOfDay
    <3> QED
      BY <1>1, <3>1
  <2>2. t = Unit * (t \div Unit)
    <3>1. t \in Int /\ Unit \in Nat \ {0} /\ t % Unit = 0
      BY <1>1, <2>1
    <3> QED
      BY ONLY <3>1, Divides, Zenon
  <2>3. t \div Unit \in Nat /\ (Day - 1) \div Unit \in Nat
        /\ t \div Unit <= (Day - 1) \div Unit
    BY <1>2, <1>3, <2>1
  <2> QED
    BY <2>1, <2>2, <2>3
<1>5. (Day - 1) \div Unit \in Nat /\ (Day - 1) \div Unit <= Day \div Unit
      /\ Day \div Unit \in Nat
  BY <1>1, <1>2, <1>3
<1> QED
  BY <1>1, <1>4, <1>5

LEMMA DayNumberType == \A d \in Calendar : DayNumber(d) \in Int
<1> SUFFICES ASSUME NEW d \in Calendar PROVE DayNumber(d) \in Int
  OBVIOUS
<1>1. d.year \in Nat /\ d.month \in 1 .. 12 /\ d.day \in 1 .. 31
  BY DEF Calendar
<1>2. DaysBefore[d.month] \in Nat
  BY <1>1, DaysBeforeIs
<1> QED
  BY <1>1, <1>2 DEF DayNumber

LEMMA TimestampType ==
  \A d \in Calendar, s \in Nat : ConvertToTimestamp(d, s) \in 0 .. Word - 1
<1> SUFFICES ASSUME NEW d \in Calendar, NEW s \in Nat
             PROVE  ConvertToTimestamp(d, s) \in 0 .. Word - 1
  OBVIOUS
<1> DEFINE units == DayNumber(d) * (Day \div Unit) + s \div Unit
<1>1. Day \div Unit \in Int /\ s \div Unit \in Int /\ Word \in Nat /\ Word # 0
  BY TimeAssumption DEF Day
<1>2. units \in Int
  BY <1>1, DayNumberType
<1> HIDE DEF units
<1>3. units % Word \in 0 .. Word - 1
  BY <1>1, <1>2
<1> QED
  BY <1>3 DEF ConvertToTimestamp, units

(* The time between two times of a day, on which the u32 does not start    *)
(* again, is the time between their timestamps; and so is their order.     *)
LEMMA SameDay ==
  ASSUME NEW d \in Calendar, ~Wraps(d), NEW s \in TimesOfDay, NEW t \in TimesOfDay
  PROVE  LET target == ConvertToTimestamp(d, s)
             current == ConvertToTimestamp(d, t)
         IN  /\ target <= current <=> s <= t
             /\ target - current = (s - t) \div Unit
<1> DEFINE x == DayNumber(d) * (Day \div Unit)
           last == (Day - 1) \div Unit
           a == s \div Unit
           b == t \div Unit
<1>1. x \in Int
  BY DayNumberType, TimeAssumption DEF Day
<1>2. /\ Unit \in Nat \ {0} /\ Word \in Nat /\ last \in Nat /\ last < Word
      /\ a \in 0 .. last /\ b \in 0 .. last
      /\ s \in Int /\ t \in Int
      /\ s = Unit * a /\ t = Unit * b
  BY Units
<1>3. /\ ConvertToTimestamp(d, s) = (x + a) % Word
      /\ ConvertToTimestamp(d, t) = (x + b) % Word
      /\ ~((x + last) % Word < (x + 0 \div Unit) % Word)
  BY DEF ConvertToTimestamp, Wraps
<1> HIDE DEF x, last, a, b
<1>4. 0 \div Unit = 0 /\ x + 0 = x /\ x % Word \in 0 .. Word - 1
  BY <1>1, <1>2
<1>5. Word \in Nat \ {0} /\ a \in 0 .. Word - 1 /\ b \in 0 .. Word - 1
      /\ last \in 0 .. Word - 1
  BY <1>2
<1>6. (x % Word) + last < Word
  <2> SUFFICES ASSUME (x % Word) + last >= Word PROVE FALSE
    BY <1>2, <1>4
  <2>1. (x + last) % Word = (x % Word) + last - Word
    <3>1. (x + last) % Word = IF (x % Word) + last < Word
                              THEN (x % Word) + last ELSE (x % Word) + last - Word
      BY <1>1, <1>5, RemainderOfSum
    <3> QED
      BY <1>2, <1>4, <3>1
  <2> QED
    BY <1>2, <1>3, <1>4, <2>1
<1>7. (x + a) % Word = (x % Word) + a /\ (x + b) % Word = (x % Word) + b
  <2>1. \A c \in 0 .. last : (x + c) % Word = (x % Word) + c
    <3> SUFFICES ASSUME NEW c \in 0 .. last PROVE (x + c) % Word = (x % Word) + c
      OBVIOUS
    <3>1. c \in 0 .. Word - 1 /\ (x % Word) + c < Word
      BY <1>2, <1>4, <1>6
    <3> QED
      BY <1>1, <1>5, <3>1, RemainderOfSum
  <2> QED
    BY <1>2, <2>1
<1>8. (s - t) \div Unit = a - b
  <2>1. s - t = Unit * (a - b)
    BY <1>2
  <2>2. a - b \in Int
    BY <1>2
  <2>3. (Unit * (a - b)) \div Unit = a - b
    BY <1>2, <2>2
  <2> QED
    BY <2>1, <2>3
<1>9. s <= t <=> a <= b
  BY <1>2
<1> QED
  BY <1>2, <1>3, <1>4, <1>7, <1>8, <1>9

-----------------------------------------------------------------------------
(* What becomes of a text.                                                 *)

LEMMA TopicWellMeant == \A t \in OnTopic : WellMeant(t.means)
<1> SUFFICES ASSUME NEW t \in OnTopic PROVE WellMeant(t.means)
  OBVIOUS
<1>1. CASE t \in Written
  BY <1>1, TextsAssumption
<1>2. CASE t \notin Written
  <2>1. t.means = Nothing
    BY <1>2 DEF OnTopic, OwnText
  <2>2. WellMeant(Nothing)
    BY DEF WellMeant, Nothing
  <2> QED
    BY <2>1, <2>2
<1> QED
  BY <1>1, <1>2

(* A command does what is meant, on a day on which the u32 does not start  *)
(* again.                                                                  *)
LEMMA ObeyedAsMeant ==
  ASSUME NEW command, WellMeant(command), date \in Calendar, now \in TimesOfDay,
         Obeyed(command), ~Wraps(date)
  PROVE  Meant(command)
<1> DEFINE target == ConvertToTimestamp(date, command.when)
           current == ConvertToTimestamp(date, now)
<1>1. command.outs \subseteq Outputs /\ command.when \in Nat
  BY DEF WellMeant
<1>2. CASE command.do \notin {"until", "for"}
  BY <1>2 DEF Obeyed, Meant, outlet
<1>3. CASE command.do = "for"
  <2>1. command.outs # {} /\ command.when - 0 = command.when
    BY <1>1, <1>3 DEF WellMeant
  <2> QED
    BY <1>3, <2>1 DEF Obeyed, Meant, outlet
<1>4. CASE command.do = "until"
  <2>1. command.outs # {} /\ command.when \in TimesOfDay
    BY <1>4 DEF WellMeant
  <2>2. /\ target <= current <=> command.when <= now
        /\ target - current = (command.when - now) \div Unit
    BY <2>1, SameDay
  <2> HIDE DEF target, current
  <2>3. CASE command.when <= now
    <3>1. target <= current
      BY <2>2, <2>3
    <3>2. on' = on /\ started' = started /\ report' = report
      BY <1>4, <3>1 DEF Obeyed, target, current
    <3> QED
      BY <1>4, <2>3, <3>2 DEF Meant, outlet
  <2>4. CASE ~(command.when <= now)
    <3>1. ~(target <= current)
      BY <2>2, <2>4
    <3>2. /\ on' = on \cup command.outs
          /\ started' = command.outs \X {target - current}
          /\ report' = report
      BY <1>4, <2>1, <3>1 DEF Obeyed, target, current
    <3>3. started' = command.outs \X {(command.when - now) \div Unit}
      BY <2>2, <3>2
    <3> QED
      BY <1>4, <2>4, <3>2, <3>3 DEF Meant, outlet
  <2> QED
    BY <2>3, <2>4
<1> QED
  BY <1>2, <1>3, <1>4

(* ... or nothing, where that is meant.                                    *)
LEMMA IdleAsMeant ==
  ASSUME NEW command, Idle(command), NEW meant, WellMeant(meant), Idle(meant),
         Obeyed(command)
  PROVE  UNCHANGED outlet /\ Meant(meant)
<1>1. UNCHANGED outlet
  <2>1. CASE command.do = "nothing"
    BY <2>1 DEF Obeyed, outlet
  <2>2. CASE command.do \in {"on", "off", "until", "for"} /\ command.outs = {}
    BY <2>2 DEF Obeyed, outlet
  <2> QED
    BY <2>1, <2>2 DEF Idle
<1>2. outlet' = outlet => Meant(meant)
  <2>1. CASE meant.do = "nothing"
    BY <2>1 DEF Meant
  <2>2. CASE meant.do \in {"on", "off"} /\ meant.outs = {}
    BY <2>2 DEF Meant, outlet
  <2>3. ~(meant.do \in {"until", "for"} /\ meant.outs = {})
    BY DEF WellMeant
  <2> QED
    BY <2>1, <2>2, <2>3 DEF Idle
<1> QED
  BY <1>1, <1>2

LEMMA ObeyedTypes ==
  ASSUME NEW command, WellMeant(command), date \in Calendar, now \in TimesOfDay,
         on \subseteq Outputs,
         started \subseteq Outputs \X Nat, Cardinality(started) <= 1,
         report \in {"none", "users", "outputs", "time"},
         Obeyed(command)
  PROVE  /\ on' \subseteq Outputs
         /\ started' \subseteq Outputs \X Nat
         /\ Cardinality(started') <= 1
         /\ report' \in {"none", "users", "outputs", "time"}
<1> DEFINE target == ConvertToTimestamp(date, command.when)
           current == ConvertToTimestamp(date, now)
           late == command.do = "until" /\ target <= current
<1>1. /\ command.outs \subseteq Outputs /\ command.when \in Nat
      /\ command.do \in {"until", "for"} => \E n \in Outputs : command.outs = {n}
  BY DEF WellMeant
<1>2. on' \subseteq Outputs
  BY <1>1 DEF Obeyed
<1>3. report' \in {"none", "users", "outputs", "time"}
  BY DEF Obeyed
<1>4. CASE command.do \notin {"until", "for"} \/ late
  <2>1. started' = started
    BY <1>4 DEF Obeyed
  <2> QED
    BY <1>2, <1>3, <2>1
<1>5. CASE command.do \in {"until", "for"} /\ ~late
  <2> DEFINE timed == IF command.do = "for" THEN command.when \div Unit
                      ELSE target - current
  <2>1. PICK n \in Outputs : command.outs = {n}
    BY <1>1, <1>5
  <2>2. timed \in Nat
    <3>1. command.when \div Unit \in Nat
      BY <1>1, TimeAssumption
    <3>2. target \in 0 .. Word - 1 /\ current \in 0 .. Word - 1 /\ Word \in Nat
      BY <1>1, TimestampType, TimeAssumption DEF TimesOfDay
    <3> HIDE DEF target, current
    <3>3. CASE command.do = "for"
      BY <3>1, <3>3
    <3>4. CASE command.do = "until"
      <4>1. ~(target <= current)
        BY <1>5, <3>4
      <4>2. target - current \in Nat
        BY <3>2, <4>1
      <4> QED
        BY <3>4, <4>2
    <3> QED
      BY <1>5, <3>3, <3>4
  <2>3. started' = {n} \X {timed}
    BY <1>5, <2>1 DEF Obeyed
  <2> HIDE DEF timed
  <2>4. started' = {<<n, timed>>}
    BY <2>3
  <2>5. Cardinality(started') = 1
    BY <2>4, FS_Singleton
  <2> QED
    BY <1>2, <1>3, <2>1, <2>2, <2>4, <2>5
<1> QED
  BY <1>4, <1>5
-----------------------------------------------------------------------------
(* The invariant: the types, on days and at times that SameDay speaks of.  *)

LEMMA AnswersAreOnTopic ==
  ASSUME NEW command, on \subseteq Outputs
  PROVE  Answers(command) \in Seq(OnTopic)
<1>1. OwnText(UsersAnswer) \in OnTopic /\ OwnText(OutputsAnswer(on)) \in OnTopic
  BY DEF OnTopic
<1> HIDE DEF OnTopic, OwnText
<1>2. <<>> \in Seq(OnTopic) /\ \A t \in OnTopic : <<t>> \in Seq(OnTopic)
  OBVIOUS
<1>3. CASE command.do = "users"
  BY <1>1, <1>2, <1>3 DEF Answers
<1>4. CASE command.do = "outputs"
  BY <1>1, <1>2, <1>4 DEF Answers
<1>5. CASE command.do \notin {"users", "outputs"}
  BY <1>2, <1>5 DEF Answers
<1> QED
  BY <1>3, <1>4, <1>5

LEMMA InCalendar ==
  ASSUME TextsTypeOK PROVE date \in Calendar /\ now \in TimesOfDay
BY TextsAssumption DEF TextsTypeOK

(* The outcome of a command that is taken for what is meant.               *)
LEMMA Understanding ==
  ASSUME TextsTypeOK, NEW commands, NEW meant, WellMeant(meant),
         TakenFor(commands, meant), NEW command \in commands, Obeyed(command)
  PROVE  /\ on' \subseteq Outputs
         /\ started' \subseteq Outputs \X Nat
         /\ Cardinality(started') <= 1
         /\ report' \in {"none", "users", "outputs", "time"}
         /\ Meant(meant) \/ Wraps(date)
<1>1. CASE command = meant
  BY <1>1, InCalendar, ObeyedTypes, ObeyedAsMeant DEF TextsTypeOK
<1>2. CASE Idle(command) /\ Idle(meant)
  <2>1. UNCHANGED outlet /\ Meant(meant)
    BY <1>2, IdleAsMeant
  <2> QED
    BY <2>1 DEF TextsTypeOK, outlet
<1> QED
  BY <1>1, <1>2 DEF TakenFor

(* What the callback is given is on the topic.                             *)
LEMMA Received ==
  ASSUME Understood, TextsTypeOK, NEW line \in Lines, topic # <<>>
  PROVE  /\ Head(topic) \in OnTopic /\ Tail(topic) \in Seq(OnTopic)
         /\ WellMeant(Head(topic).means)
         /\ TakenFor(OverMqtt[line][Head(topic).text], Head(topic).means)
<1>1. Head(topic) \in OnTopic /\ Tail(topic) \in Seq(OnTopic)
  <2>1. topic \in Seq(OnTopic)
    BY DEF TextsTypeOK
  <2> HIDE DEF OnTopic
  <2> QED
    BY <2>1
<1> QED
  BY <1>1, TopicWellMeant DEF Understood

LEMMA BoundIsNat == MaxTexts \in Nat
<1> SUFFICES ASSUME MaxTexts \notin Nat PROVE FALSE
  OBVIOUS
<1> QED
  BY TextsAssumption, Zenon

LEMMA TypesKept ==
  ASSUME Understood, TextsTypeOK, [Next]_vars PROVE TextsTypeOK'
<1> USE DEF TextsTypeOK
<1>1. ASSUME NEW w \in Written, Hdlr_RecvNewSMS(w) PROVE TextsTypeOK'
  <2>1. PICK command \in BySms[w] : Obeyed(command)
    BY <1>1 DEF Hdlr_RecvNewSMS
  <2>2. /\ on' \subseteq Outputs /\ started' \subseteq Outputs \X Nat
        /\ Cardinality(started') <= 1
        /\ report' \in {"none", "users", "outputs", "time"}
    <3>1. WellMeant(w.means) /\ TakenFor(BySms[w], w.means)
      BY TextsAssumption DEF Understood
    <3> HIDE DEF TextsTypeOK
    <3> QED
      BY <2>1, <3>1, Understanding
  <2>3. texts' \in 0 .. MaxTexts
    BY <1>1, BoundIsNat DEF Hdlr_RecvNewSMS
  <2> QED
    BY <1>1, <2>2, <2>3 DEF Hdlr_RecvNewSMS
<1>2. ASSUME NEW w \in Written, Publish(w) PROVE TextsTypeOK'
  <2>1. w \in OnTopic
    BY DEF OnTopic
  <2>2. topic' \in Seq(OnTopic)
    <3> HIDE DEF OnTopic
    <3> QED
      BY <1>2, <2>1 DEF Publish
  <2>3. texts' \in 0 .. MaxTexts
    BY <1>2, BoundIsNat DEF Publish
  <2> QED
    BY <1>2, <2>2, <2>3 DEF Publish, outlet
<1>3. CASE STATE_MQTT_PUB
  <2>1. OwnText(Greeting) \in OnTopic
    BY DEF OnTopic
  <2>2. topic' \in Seq(OnTopic)
    <3> HIDE DEF OnTopic, OwnText
    <3> QED
      BY <1>3, <2>1 DEF STATE_MQTT_PUB
  <2>3. texts' \in 0 .. MaxTexts
    BY <1>3, BoundIsNat DEF STATE_MQTT_PUB
  <2> QED
    BY <1>3, <2>2, <2>3 DEF STATE_MQTT_PUB, outlet
<1>4. ASSUME NEW line \in Lines, mqtt_message_received_callback(line)
      PROVE  TextsTypeOK'
  <2>1. topic # <<>>
    BY <1>4 DEF mqtt_message_received_callback
  <2>2. PICK command \in OverMqtt[line][Head(topic).text] :
          Obeyed(command) /\ topic' = Tail(topic) \o Answers(command)
    BY <1>4 DEF mqtt_message_received_callback
  <2>3. /\ on' \subseteq Outputs /\ started' \subseteq Outputs \X Nat
        /\ Cardinality(started') <= 1
        /\ report' \in {"none", "users", "outputs", "time"}
    <3> HIDE DEF TextsTypeOK
    <3> QED
      BY <2>1, <2>2, Received, Understanding
  <2>4. topic' \in Seq(OnTopic)
    <3>1. Answers(command) \in Seq(OnTopic)
      BY AnswersAreOnTopic
    <3>2. Tail(topic) \in Seq(OnTopic)
      BY <2>1, Received
    <3> HIDE DEF OnTopic
    <3> QED
      BY <2>2, <3>1, <3>2, ConcatProperties
  <2> QED
    BY <1>4, <2>3, <2>4 DEF mqtt_message_received_callback
<1>5. CASE TimePasses
  BY <1>5 DEF TimePasses, outlet
<1>6. CASE UNCHANGED vars
  BY <1>6 DEF vars
<1> QED
  BY <1>1, <1>2, <1>3, <1>4, <1>5, <1>6 DEF Next

(* Where every text is understood as its writer means it: the outlet runs  *)
(* no timer that is not for one of its outputs or does not end, and what   *)
(* is on its topic is what people wrote, its greeting or its answers.      *)
THEOREM TextsTypes == Understood => (Spec => []TextsTypeOK)
<1> SUFFICES ASSUME Understood PROVE Spec => []TextsTypeOK
  OBVIOUS
<1>1. Init => TextsTypeOK
  <2> SUFFICES ASSUME Init PROVE TextsTypeOK
    OBVIOUS
  <2>1. Cardinality({}) = 0
    BY FS_EmptySet
  <2>2. <<>> \in Seq(OnTopic)
    <3> HIDE DEF OnTopic
    <3> QED
      OBVIOUS
  <2>3. /\ on = {} /\ started = {} /\ report = "none"
        /\ topic = <<>> /\ texts = 0 /\ date \in Dates /\ now \in Times
    BY DEF Init
  <2> QED
    BY <2>1, <2>2, <2>3, BoundIsNat DEF TextsTypeOK
<1>2. TextsTypeOK /\ [Next]_vars => TextsTypeOK'
  BY TypesKept
<1> QED
  BY <1>1, <1>2, PTL DEF Spec

(* ... and it does what the writer means, by SMS and over MQTT alike, on   *)
(* every day of the calendar on which the u32 does not start again from 0. *)
THEOREM UnderstoodIsObeyed == Understood => (Spec => DoesAsMeant)
<1> SUFFICES ASSUME Understood PROVE Spec => DoesAsMeant
  OBVIOUS
<1>1. ASSUME TextsTypeOK, NEW w \in Written, Hdlr_RecvNewSMS(w)
      PROVE  Meant(w.means) \/ Wraps(date)
  <2>1. PICK command \in BySms[w] : Obeyed(command)
    BY <1>1 DEF Hdlr_RecvNewSMS
  <2>2. WellMeant(w.means) /\ TakenFor(BySms[w], w.means)
    BY TextsAssumption DEF Understood
  <2> QED
    BY <1>1, <2>1, <2>2, Understanding
<1>2. ASSUME TextsTypeOK, NEW line \in Lines, mqtt_message_received_callback(line)
      PROVE  Meant(Head(topic).means) \/ Wraps(date)
  <2>1. topic # <<>>
    BY <1>2 DEF mqtt_message_received_callback
  <2>2. PICK command \in OverMqtt[line][Head(topic).text] : Obeyed(command)
    BY <1>2 DEF mqtt_message_received_callback
  <2> QED
    BY <1>2, <2>1, <2>2, Received, Understanding
<1> DEFINE A == /\ \A w \in Written :
                     Hdlr_RecvNewSMS(w) => Meant(w.means) \/ Wraps(date)
                /\ \A line \in Lines :
                     mqtt_message_received_callback(line) =>
                       Meant(Head(topic).means) \/ Wraps(date)
<1>3. TextsTypeOK => A
  BY <1>1, <1>2
<1>4. TextsTypeOK => [A]_vars
  BY <1>3
<1>5. []TextsTypeOK => [][A]_vars
  BY <1>4, PTL
<1> QED
  BY <1>5, TextsTypes, PTL DEF DoesAsMeant
=============================================================================
