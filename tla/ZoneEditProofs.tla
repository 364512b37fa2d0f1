--------------------------- MODULE ZoneEditProofs ---------------------------
(***************************************************************************)
(* Theorems about serial strategies and the edit of a zone, for every      *)
(* sequence space, day of the edit and set of zones.                       *)
(*                                                                         *)
(* The serial and the calendar come first.  The rest is about a diff: it   *)
(* is applied, or sent and processed, entry by entry, and an induction     *)
(* over the number of entries done says what the zone is on its way.       *)
(***************************************************************************)
EXTENDS ZoneEdit, FiniteSetTheorems, SequenceTheorems, WellFoundedInduction, TLAPS

LEMMA HalfNat == Half \in Nat /\ Half > 1
BY HalfAssumption

(* One more is newer, also for the greatest serial (Serial + 1).           *)
LEMMA IncrementIsNewer ==
  ASSUME NEW c \in Serials
  PROVE  WrappingAdd(c, 1) \in Serials /\ Newer(WrappingAdd(c, 1), c)
BY HalfNat DEF Serials, SerialSpace, WrappingAdd, WrappingSub, Newer

(* The date counter gives a newer serial wherever the current one stands   *)
(* (compute_date_counter_serial).                                          *)
LEMMA DateCounterIsNewer ==
  ASSUME NEW c \in Serials, NEW b \in Nat, b + PerDay - 1 \in Serials
  PROVE  NextDateCounter(c, b) \in Serials /\ Newer(NextDateCounter(c, b), c)
<1>1. CASE c \in b..(b + PerDay - 1) /\ c - b < PerDay - 1
  <2>1. NextDateCounter(c, b) = c + 1 /\ c + 1 \in Serials
    BY <1>1, HalfNat DEF NextDateCounter, Serials, SerialSpace, PerDay
  <2>2. WrappingAdd(c, 1) = c + 1
    BY <2>1, HalfNat DEF Serials, SerialSpace, WrappingAdd
  <2> QED
    BY <2>1, <2>2, IncrementIsNewer
<1>2. CASE c \in b..(b + PerDay - 1) /\ ~(c - b < PerDay - 1)
  <2>1. NextDateCounter(c, b) = WrappingAdd(c, 1)
    BY <1>2, HalfNat DEF NextDateCounter, Serials, SerialSpace, PerDay
  <2> QED
    BY <2>1, IncrementIsNewer
<1>3. CASE c \notin b..(b + PerDay - 1) /\ Newer(b, c)
  <2>1. b \in Serials
    BY HalfNat DEF Serials, SerialSpace, PerDay
  <2> QED
    BY <1>3, <2>1 DEF NextDateCounter
<1>4. CASE c \notin b..(b + PerDay - 1) /\ ~Newer(b, c)
  BY <1>4, IncrementIsNewer DEF NextDateCounter
<1> QED
  BY <1>1, <1>2, <1>3, <1>4

(* So does the time, which may be anywhere in the sequence space.          *)
LEMMA UnixIsNewer ==
  ASSUME NEW c \in Serials, NEW now \in Serials
  PROVE  NextUnix(c, now) \in Serials /\ Newer(NextUnix(c, now), c)
BY IncrementIsNewer DEF NextUnix

LEMMA Remainder ==
  ASSUME NEW n \in Nat
  PROVE  n % SerialSpace \in Serials
BY HalfNat DEF SerialSpace, Serials

(* SerialStrategy::next is newer than the current serial, whatever the     *)
(* strategy and wherever the current serial stands.                        *)
THEOREM NextIsNewer ==
  ASSUME NEW strategy \in Strategies, NEW c \in Serials, NEW second \in Seconds
  PROVE  /\ NextSerial(strategy, c, EditDay, second) \in Serials
         /\ Newer(NextSerial(strategy, c, EditDay, second), c)
<1>1. CASE strategy = "DateCounter"
  <2>1. NextSerial(strategy, c, EditDay, second) = NextDateCounter(c, TodayBase(Civil(EditDay)))
    BY <1>1 DEF NextSerial
  <2>2. TodayBase(Civil(EditDay)) \in Nat /\ TodayBase(Civil(EditDay)) + PerDay - 1 \in Serials
    BY DateAssumption
  <2> QED
    BY <2>1, <2>2, DateCounterIsNewer
<1>2. CASE strategy = "UnixTimestamp"
  <2>1. EditDay * SecondsPerDay + second \in Nat
    <3>1. EditDay \in Nat /\ second \in Nat
      BY EditAssumption
    <3> QED
      BY <3>1, SMT DEF SecondsPerDay
  <2>2. (EditDay * SecondsPerDay + second) % SerialSpace \in Serials
    BY <2>1, Remainder
  <2> QED
    BY <1>2, <2>2, UnixIsNewer DEF NextSerial
<1>3. CASE strategy = "Monotonic"
  BY <1>3, IncrementIsNewer DEF NextSerial
<1> QED
  BY <1>1, <1>2, <1>3 DEF Strategies

-----------------------------------------------------------------------------
(* A zone that was loaded was loaded on the day of the edit. *)
SerialOK ==
  /\ serial \in Serials
  /\ day \in Nat
  /\ stage # "unloaded" => day = EditDay
  /\ stage = "unloaded" => copies = 0

LEMMA SerialInit == Init => SerialOK
BY HalfNat DEF Init, SerialOK, Serials, SerialSpace

(* A change of the zone that named makes *)
LEMMA ChangeIsNewer ==
  ASSUME serial \in Serials, NEW z, Change(z)
  PROVE  serial' \in Serials /\ (zone' # zone => Newer(serial', serial))
BY IncrementIsNewer DEF Change

LEMMA SerialNext ==
  ASSUME SerialOK, [Next]_vars
  PROVE  SerialOK' /\ (stage # "unloaded" /\ zone' # zone => Newer(serial', serial))
<1>1. CASE Tick
  BY <1>1 DEF Tick, SerialOK, editVars
<1>2. CASE Load
  <2>1. serial' \in Serials
    BY <1>2, EditAssumption DEF Load
  <2>2. stage = "unloaded" /\ day' = day /\ day = EditDay /\ stage' = "idle"
    BY <1>2 DEF Load
  <2> QED
    BY <2>1, <2>2 DEF SerialOK
<1>3. CASE Other
  <2>1. PICK e \in OtherEntries : Change(ApplyUpdate(zone, <<EncodeEntry(e)>>))
    BY <1>3 DEF Other
  <2>2. serial' \in Serials /\ (zone' # zone => Newer(serial', serial))
    BY <2>1, ChangeIsNewer DEF SerialOK
  <2> QED
    BY <1>3, <2>2 DEF Other, SerialOK
<1>4. CASE Process
  <2>1. CASE PrerequisitesHold(zone, message.prerequisites)
    <3>1. Change(ApplyUpdate(zone, message.updates))
      BY <1>4, <2>1 DEF Process
    <3>2. serial' \in Serials /\ (zone' # zone => Newer(serial', serial))
      BY <3>1, ChangeIsNewer DEF SerialOK
    <3> QED
      BY <1>4, <3>2 DEF Process, SerialOK
  <2>2. CASE ~PrerequisitesHold(zone, message.prerequisites)
    BY <1>4, <2>2 DEF Process, SerialOK
  <2> QED
    BY <2>1, <2>2
<1>5. CASE Lose
  BY <1>5 DEF Lose, SerialOK
<1>6. CASE Read
  BY <1>6 DEF Read, SerialOK
<1>7. CASE Publish
  <2>1. PICK strategy \in Strategies, second \in Seconds :
          serial' = NextSerial(strategy, serial, day, second)
    BY <1>7 DEF Publish
  <2>2. day = EditDay
    BY <1>7 DEF Publish, SerialOK
  <2>3. serial' \in Serials /\ Newer(serial', serial)
    BY <2>1, <2>2, NextIsNewer DEF SerialOK
  <2> QED
    BY <1>7, <2>3 DEF Publish, SerialOK
<1>8. CASE Send
  BY <1>8 DEF Send, SerialOK
<1>9. CASE Resend
  BY <1>9 DEF Resend, SerialOK
<1>10. CASE UNCHANGED vars
  BY <1>10 DEF vars, editVars, SerialOK
<1> QED
  BY <1>1, <1>2, <1>3, <1>4, <1>5, <1>6, <1>7, <1>8, <1>9, <1>10 DEF Next

(* SerialAdvances: every change of a zone, by a file or by an update, by   *)
(* the editor or by others, gives it a newer serial.                       *)
THEOREM SerialCorrect == Spec => SerialAdvances
<1>1. SerialOK /\ [Next]_vars => [stage # "unloaded" /\ zone' # zone => Newer(serial', serial)]_vars
  BY SerialNext
<1>2. SerialOK /\ [Next]_vars => SerialOK'
  BY SerialNext
<1> QED
  BY SerialInit, <1>1, <1>2, PTL DEF Spec, SerialAdvances

-----------------------------------------------------------------------------
(* The calendar.  Years begin in March here; YearFirst counts the days of  *)
(* an era before a year of it, and year 400 is the first of the next era.  *)

YearFirst(y) == 365 * y + y \div 4 - y \div 100 + y \div 400

LEMMA YearOfEraCorrect ==
  ASSUME NEW d \in Int, 0 <= d, d < 146097
  PROVE  /\ YearOfEra(d) \in Int /\ 0 <= YearOfEra(d) /\ YearOfEra(d) < 400
         /\ YearFirst(YearOfEra(d)) <= d /\ d < YearFirst(YearOfEra(d) + 1)
<1>1. YearOfEra(d) \in Int /\ 0 <= YearOfEra(d) /\ YearOfEra(d) < 400
  BY SMTT(60) DEF YearOfEra
<1>2. ASSUME NEW y \in Int, 0 <= y, y < 400, y = YearOfEra(d)
      PROVE  YearFirst(y) <= d
  BY <1>2, SMTT(60) DEF YearOfEra, YearFirst
<1>3. ASSUME NEW y \in Int, 0 <= y, y < 400, y = YearOfEra(d)
      PROVE  d < YearFirst(y + 1)
  BY <1>3, SMTT(60) DEF YearOfEra, YearFirst
<1> QED
  BY <1>1, <1>2, <1>3, SMT

LEMMA YearsInOrder ==
  ASSUME NEW a \in Int, NEW b \in Int, 0 <= a, a < b, b <= 400
  PROVE  /\ YearFirst(a + 1) \in Int /\ YearFirst(b) \in Int
         /\ YearFirst(a + 1) <= YearFirst(b)
BY SMTT(60) DEF YearFirst

LEMMA YearIsUnique ==
  ASSUME NEW d \in Int, 0 <= d, d < 146097,
         NEW y \in Int, 0 <= y, y < 400,
         YearFirst(y) <= d, d < YearFirst(y + 1)
  PROVE  YearOfEra(d) = y
<1>1. PICK x \in Int : x = YearOfEra(d)
  BY YearOfEraCorrect, SMT
<1>2. 0 <= x /\ x < 400 /\ YearFirst(x) <= d /\ d < YearFirst(x + 1)
  BY <1>1, YearOfEraCorrect, SMT
<1>3. ASSUME x < y PROVE FALSE
  <2>1. YearFirst(x + 1) \in Int /\ YearFirst(y) \in Int /\ YearFirst(x + 1) <= YearFirst(y)
    BY <1>2, <1>3, YearsInOrder, SMT
  <2> QED
    BY <1>2, <2>1, SMT
<1>4. ASSUME y < x PROVE FALSE
  <2>1. YearFirst(y + 1) \in Int /\ YearFirst(x) \in Int /\ YearFirst(y + 1) <= YearFirst(x)
    BY <1>2, <1>4, YearsInOrder, SMT
  <2> QED
    BY <1>2, <2>1, SMT
<1> QED
  BY <1>1, <1>3, <1>4, SMT

(* A year that begins in March has the leap day of the year it ends in.    *)
LEMMA YearLength ==
  ASSUME NEW y \in Int, 0 <= y, y < 400, NEW era \in Int, 0 <= era
  PROVE  YearFirst(y + 1) - YearFirst(y) = IF Leap(y + 1 + era * 400) THEN 366 ELSE 365
<1>1. /\ (y + 1 + era * 400) % 4 = (y + 1) % 4
      /\ (y + 1 + era * 400) % 100 = (y + 1) % 100
      /\ (y + 1 + era * 400) % 400 = (y + 1) % 400
  BY SMTT(60)
<1>2. Leap(y + 1 + era * 400) <=> Leap(y + 1)
  BY <1>1, SMT DEF Leap
<1>3. YearFirst(y + 1) - YearFirst(y) = IF Leap(y + 1) THEN 366 ELSE 365
  BY SMTT(60) DEF YearFirst, Leap
<1> QED
  BY <1>2, <1>3, SMT

LEMMA MonthCorrect ==
  ASSUME NEW x \in Int, 0 <= x, x < 366
  PROVE  /\ MonthOfYear(x) \in Int /\ 0 <= MonthOfYear(x) /\ MonthOfYear(x) < 12
         /\ MonthStart(MonthOfYear(x)) <= x /\ x < MonthStart(MonthOfYear(x) + 1)
BY SMTT(60) DEF MonthOfYear, MonthStart

LEMMA MonthIsUnique ==
  ASSUME NEW x \in Int, 0 <= x, x < 366, NEW m \in Int, 0 <= m, m < 12,
         MonthStart(m) <= x, x < MonthStart(m + 1)
  PROVE  MonthOfYear(x) = m
BY SMTT(60) DEF MonthOfYear, MonthStart

LEMMA MonthLengths ==
  ASSUME NEW m \in Int, 0 <= m, m < 11
  PROVE  MonthStart(m + 1) = MonthStart(m) + (IF m \in {1, 3, 6, 8} THEN 30 ELSE 31)
BY SMTT(60) DEF MonthStart

(* The date of day k of month m of year y, counted from March *)
DateOf(era, y, m, k) ==
  [year  |-> IF m < 10 THEN y + era * 400 ELSE y + era * 400 + 1,
   month |-> IF m < 10 THEN m + 3 ELSE m - 9,
   day   |-> k]

LEMMA CivilForm ==
  ASSUME NEW era \in Int, 0 <= era, NEW d \in Int, 0 <= d, d < 146097,
         NEW y \in Int, 0 <= y, y < 400, NEW m \in Int, 0 <= m, m < 12,
         YearFirst(y) \in Int, YearFirst(y) <= d, d < YearFirst(y + 1),
         MonthStart(m) \in Int,
         MonthStart(m) <= d - YearFirst(y), d - YearFirst(y) < MonthStart(m + 1)
  PROVE  CivilOfEra(era, d) = DateOf(era, y, m, d - YearFirst(y) - MonthStart(m) + 1)
<1>1. YearOfEra(d) = y
  BY YearIsUnique
<1>2. YearStart(y) = YearFirst(y)
  BY SMT DEF YearStart, YearFirst
<1>3. d - YearFirst(y) \in Int /\ 0 <= d - YearFirst(y) /\ d - YearFirst(y) < 366
  <2>1. YearFirst(y + 1) \in Int /\ YearFirst(y + 1) <= YearFirst(y) + 366
    BY YearLength, SMT DEF YearFirst
  <2> QED
    BY <2>1, SMT
<1>4. MonthOfYear(d - YearFirst(y)) = m
  BY <1>3, MonthIsUnique
<1>5. CivilOfEra(era, d) =
        LET mm == IF m < 10 THEN m + 3 ELSE m - 9
        IN [year  |-> IF mm <= 2 THEN y + era * 400 + 1 ELSE y + era * 400,
            month |-> mm,
            day   |-> d - YearFirst(y) - MonthStart(m) + 1]
  BY <1>1, <1>2, <1>4 DEF CivilOfEra
<1>6. m < 10 => ~(m + 3 <= 2)
  BY SMT
<1>7. ~(m < 10) => m - 9 <= 2
  BY SMT
<1> QED
  BY <1>5, <1>6, <1>7 DEF DateOf

LEMMA DaysInForm ==
  ASSUME NEW era \in Int, 0 <= era, NEW y \in Int, 0 <= y, y < 400,
         NEW m \in Int, 0 <= m, m < 12, NEW k \in Int
  PROVE  DaysIn(DateOf(era, y, m, k)) =
           IF m = 11 THEN YearFirst(y + 1) - YearFirst(y) - 337
           ELSE MonthStart(m + 1) - MonthStart(m)
<1>1. CASE m = 11
  <2>1. DaysIn(DateOf(era, y, m, k)) = IF Leap(y + era * 400 + 1) THEN 29 ELSE 28
    BY <1>1, SMT DEF DaysIn, DateOf
  <2>2. y + era * 400 + 1 = y + 1 + era * 400
    BY SMT
  <2>3. YearFirst(y + 1) - YearFirst(y) = IF Leap(y + era * 400 + 1) THEN 366 ELSE 365
    BY <2>2, YearLength
  <2> QED
    BY <1>1, <2>1, <2>3, SMT
<1>2. CASE m # 11
  <2>1. DaysIn(DateOf(era, y, m, k)) = IF m \in {1, 3, 6, 8} THEN 30 ELSE 31
    BY <1>2, SMT DEF DaysIn, DateOf
  <2>2. MonthStart(m + 1) = MonthStart(m) + (IF m \in {1, 3, 6, 8} THEN 30 ELSE 31)
    BY <1>2, MonthLengths, SMT
  <2>3. MonthStart(m) \in Int
    BY SMT DEF MonthStart
  <2> QED
    BY <1>2, <2>1, <2>2, <2>3, SMT
<1> QED
  BY <1>1, <1>2

(* The day after the last of a month, of a March year too *)
LEMMA NextDateForm ==
  ASSUME NEW era \in Int, NEW y \in Int, NEW m \in Int, 0 <= m, m < 12, NEW k \in Int
  PROVE  /\ k < DaysIn(DateOf(era, y, m, k)) =>
              NextDate(DateOf(era, y, m, k)) = DateOf(era, y, m, k + 1)
         /\ k = DaysIn(DateOf(era, y, m, k)) /\ m < 11 =>
              NextDate(DateOf(era, y, m, k)) = DateOf(era, y, m + 1, 1)
         /\ k = DaysIn(DateOf(era, y, m, k)) /\ m = 11 =>
              NextDate(DateOf(era, y, m, k)) = DateOf(era, y + 1, 0, 1)
<1> DEFINE D == DateOf(era, y, m, k)
<1>1. /\ D.day = k
      /\ D.month = IF m < 10 THEN m + 3 ELSE m - 9
      /\ D.year = IF m < 10 THEN y + era * 400 ELSE y + era * 400 + 1
  BY DEF DateOf
<1> HIDE DEF D
<1>2. ASSUME k < DaysIn(D) PROVE NextDate(D) = DateOf(era, y, m, k + 1)
  BY <1>1, <1>2 DEF NextDate, DateOf
<1>3. ASSUME k = DaysIn(D), m < 11 PROVE NextDate(D) = DateOf(era, y, m + 1, 1)
  <2>1. ~(k < DaysIn(D))
    BY <1>3
  <2>2. CASE m = 9
    <3>1. D.month = 12 /\ D.year = y + era * 400
      BY <1>1, <2>2, SMT
    <3>2. NextDate(D) = [year |-> y + era * 400 + 1, month |-> 1, day |-> 1]
      BY <1>1, <2>1, <3>1, SMT DEF NextDate
    <3>3. DateOf(era, y, m + 1, 1) = [year |-> y + era * 400 + 1, month |-> 1, day |-> 1]
      BY <2>2, SMT DEF DateOf
    <3> QED
      BY <3>2, <3>3
  <2>3. CASE m # 9
    <3>1. D.month < 12
      BY <1>1, <1>3, <2>3, SMT
    <3>2. NextDate(D) = [year |-> D.year, month |-> D.month + 1, day |-> 1]
      BY <1>1, <2>1, <3>1 DEF NextDate
    <3>3. D.month + 1 = IF m + 1 < 10 THEN m + 1 + 3 ELSE m + 1 - 9
      BY <1>1, <2>3, SMT
    <3>4. D.year = IF m + 1 < 10 THEN y + era * 400 ELSE y + era * 400 + 1
      BY <1>1, <2>3, SMT
    <3> QED
      BY <3>2, <3>3, <3>4 DEF DateOf
  <2> QED
    BY <2>2, <2>3
<1>4. ASSUME k = DaysIn(D), m = 11 PROVE NextDate(D) = DateOf(era, y + 1, 0, 1)
  <2>1. ~(k < DaysIn(D))
    BY <1>4
  <2>2. D.month = 2 /\ D.year = y + era * 400 + 1
    BY <1>1, <1>4, SMT
  <2>3. NextDate(D) = [year |-> y + era * 400 + 1, month |-> 3, day |-> 1]
    BY <1>1, <2>1, <2>2, SMT DEF NextDate
  <2>4. DateOf(era, y + 1, 0, 1) = [year |-> y + 1 + era * 400, month |-> 3, day |-> 1]
    BY SMT DEF DateOf
  <2>5. y + 1 + era * 400 = y + era * 400 + 1
    BY SMT
  <2> QED
    BY <2>3, <2>4, <2>5
<1> QED
  BY <1>2, <1>3, <1>4 DEF D

(* Within an era the day after is the next date of the calendar.           *)
LEMMA DayInEra ==
  ASSUME NEW era \in Int, 0 <= era, NEW d \in Int, 0 <= d, d < 146096
  PROVE  CivilOfEra(era, d + 1) = NextDate(CivilOfEra(era, d))
<1>1. PICK y \in Int : y = YearOfEra(d)
  BY YearOfEraCorrect, SMT
<1>2. 0 <= y /\ y < 400 /\ YearFirst(y) <= d /\ d < YearFirst(y + 1)
  BY <1>1, YearOfEraCorrect, SMT
<1>3. YearFirst(y) \in Int /\ YearFirst(y + 1) \in Int /\ YearFirst(y + 2) \in Int
  BY SMT DEF YearFirst
<1>4. YearFirst(y + 1) - YearFirst(y) \in {365, 366}
  BY <1>2, YearLength, SMT
<1> DEFINE x == d - YearFirst(y)
<1>5. x \in Int /\ 0 <= x /\ x < 366
  BY <1>2, <1>3, <1>4, SMT
<1>6. PICK m \in Int : m = MonthOfYear(x)
  BY <1>5, MonthCorrect, SMT
<1>7. 0 <= m /\ m < 12 /\ MonthStart(m) <= x /\ x < MonthStart(m + 1)
  BY <1>5, <1>6, MonthCorrect
<1>8. MonthStart(m) \in Int /\ MonthStart(m + 1) \in Int /\ MonthStart(m + 2) \in Int
  BY SMT DEF MonthStart
<1>9. PICK k \in Int : k = d - YearFirst(y) - MonthStart(m) + 1
  BY <1>3, <1>8, SMT
<1>10. CivilOfEra(era, d) = DateOf(era, y, m, k)
  BY <1>2, <1>3, <1>7, <1>8, <1>9, CivilForm
<1>11. DaysIn(DateOf(era, y, m, k)) =
         IF m = 11 THEN YearFirst(y + 1) - YearFirst(y) - 337
         ELSE MonthStart(m + 1) - MonthStart(m)
  BY <1>2, <1>7, DaysInForm
<1>12. MonthStart(0) = 0 /\ MonthStart(1) = 31 /\ MonthStart(11) = 337 /\ MonthStart(12) = 367
  BY SMT DEF MonthStart
<1>13. m # 11 => MonthStart(m + 1) <= 337
  BY <1>7, SMT DEF MonthStart
<1>14. PICK e \in Int : e = d + 1
  BY SMT
<1>15. 0 <= e /\ e < 146097
  BY <1>14, SMT
<1>16. CASE d + 1 < YearFirst(y + 1) /\ x + 1 < MonthStart(m + 1)
  <2>1. k < DaysIn(DateOf(era, y, m, k))
    BY <1>3, <1>8, <1>9, <1>11, <1>12, <1>16, SMT
  <2>2. e - YearFirst(y) - MonthStart(m) + 1 = k + 1
    BY <1>3, <1>8, <1>9, <1>14, SMT
  <2>3. /\ YearFirst(y) <= e /\ e < YearFirst(y + 1)
        /\ MonthStart(m) <= e - YearFirst(y) /\ e - YearFirst(y) < MonthStart(m + 1)
    BY <1>2, <1>3, <1>7, <1>8, <1>16, <1>14, SMT
  <2>4. CivilOfEra(era, e) = DateOf(era, y, m, e - YearFirst(y) - MonthStart(m) + 1)
    BY <1>2, <1>3, <1>7, <1>8, <1>15, <2>3, CivilForm
  <2> QED
    BY <1>7, <1>10, <1>14, <2>1, <2>2, <2>4, NextDateForm
<1>17. CASE d + 1 < YearFirst(y + 1) /\ ~(x + 1 < MonthStart(m + 1))
  <2>1. x + 1 = MonthStart(m + 1) /\ m < 11
    BY <1>3, <1>4, <1>5, <1>7, <1>8, <1>12, <1>17, SMT
  <2>2. k = DaysIn(DateOf(era, y, m, k))
    BY <1>3, <1>8, <1>9, <1>11, <2>1, SMT
  <2>3. MonthStart(m + 1) < MonthStart(m + 1 + 1) /\ m + 1 + 1 = m + 2
    BY SMT DEF MonthStart
  <2>4. /\ YearFirst(y) <= e /\ e < YearFirst(y + 1)
        /\ MonthStart(m + 1) <= e - YearFirst(y) /\ e - YearFirst(y) < MonthStart(m + 1 + 1)
        /\ e - YearFirst(y) - MonthStart(m + 1) + 1 = 1
    BY <1>2, <1>3, <1>8, <1>17, <1>14, <2>1, <2>3, SMT
  <2>5. CivilOfEra(era, e) = DateOf(era, y, m + 1, e - YearFirst(y) - MonthStart(m + 1) + 1)
    <3>1. m + 1 \in Int /\ 0 <= m + 1 /\ m + 1 < 12
      BY <1>7, <2>1, SMT
    <3> QED
      BY <1>2, <1>3, <1>8, <1>15, <2>4, <3>1, CivilForm
  <2> QED
    BY <1>7, <1>10, <1>14, <2>1, <2>2, <2>4, <2>5, NextDateForm
<1>18. CASE ~(d + 1 < YearFirst(y + 1))
  <2>1. d + 1 = YearFirst(y + 1)
    BY <1>2, <1>3, <1>18, SMT
  <2>2. m = 11
    BY <1>3, <1>4, <1>7, <1>8, <1>13, <2>1, SMT
  <2>3. k = DaysIn(DateOf(era, y, m, k))
    BY <1>3, <1>9, <1>11, <1>12, <2>1, <2>2, SMT
  <2>4. y + 1 < 400 /\ YearFirst(y + 1) < YearFirst(y + 1 + 1)
    <3>1. y # 399
      BY <2>1, SMT DEF YearFirst
    <3> QED
      BY <1>2, <3>1, SMT DEF YearFirst
  <2>5. /\ YearFirst(y + 1) <= e /\ e < YearFirst(y + 1 + 1)
        /\ MonthStart(0) <= e - YearFirst(y + 1) /\ e - YearFirst(y + 1) < MonthStart(0 + 1)
        /\ e - YearFirst(y + 1) - MonthStart(0) + 1 = 1
    BY <1>3, <1>12, <1>14, <2>1, <2>4, SMT
  <2>6. CivilOfEra(era, e) = DateOf(era, y + 1, 0, e - YearFirst(y + 1) - MonthStart(0) + 1)
    <3>1. y + 1 \in Int /\ 0 <= y + 1
      BY <1>2, SMT
    <3>2. MonthStart(0) \in Int /\ 0 \in Int /\ 0 <= 0 /\ 0 < 12
      BY <1>12, SMT
    <3> QED
      BY <1>3, <1>15, <2>4, <2>5, <3>1, <3>2, CivilForm
  <2> QED
    BY <1>7, <1>10, <1>14, <2>2, <2>3, <2>5, <2>6, NextDateForm
<1> QED
  BY <1>16, <1>17, <1>18

(* The last day of an era is the 29th of February. *)
LEMMA EraEnd ==
  ASSUME NEW era \in Int, 0 <= era
  PROVE  CivilOfEra(era + 1, 0) = NextDate(CivilOfEra(era, 146096))
<1>1. /\ YearFirst(399) = 145731 /\ YearFirst(399 + 1) = 146097
      /\ YearFirst(0) = 0 /\ YearFirst(0 + 1) = 365
  BY SMT DEF YearFirst
<1>2. MonthStart(0) = 0 /\ MonthStart(0 + 1) = 31 /\ MonthStart(11) = 337 /\ MonthStart(11 + 1) = 367
  BY SMT DEF MonthStart
<1>3. CivilOfEra(era, 146096) = DateOf(era, 399, 11, 29)
  <2>1. PICK e \in Int, d0 \in Int, y \in Int, m \in Int, k \in Int :
          /\ e = era /\ d0 = 146096 /\ y = 399 /\ m = 11 /\ k = 29
    BY SMT
  <2>2. e \in Int /\ 0 <= e /\ 0 <= d0 /\ d0 < 146097 /\ 0 <= y /\ y < 400 /\ 0 <= m /\ m < 12
    BY <2>1, SMT
  <2>3. /\ YearFirst(y) = 145731 /\ YearFirst(y + 1) = 146097
        /\ MonthStart(m) = 337 /\ MonthStart(m + 1) = 367
    BY <2>1, <1>1, <1>2, SMT
  <2>4. /\ YearFirst(y) \in Int /\ YearFirst(y) <= d0 /\ d0 < YearFirst(y + 1)
        /\ MonthStart(m) \in Int /\ MonthStart(m) <= d0 - YearFirst(y)
        /\ d0 - YearFirst(y) < MonthStart(m + 1)
        /\ d0 - YearFirst(y) - MonthStart(m) + 1 = k
    BY <2>1, <2>3, SMT
  <2>5. CivilOfEra(e, d0) = DateOf(e, y, m, d0 - YearFirst(y) - MonthStart(m) + 1)
    BY <2>2, <2>4, CivilForm
  <2> QED
    BY <2>1, <2>4, <2>5
<1>4. 29 = DaysIn(DateOf(era, 399, 11, 29))
  BY <1>1, DaysInForm, SMT
<1>5. NextDate(DateOf(era, 399, 11, 29)) = DateOf(era, 400, 0, 1)
  BY <1>4, NextDateForm, SMT
<1>6. CivilOfEra(era + 1, 0) = DateOf(era + 1, 0, 0, 1)
  <2>1. PICK e \in Int, d0 \in Int, y \in Int, m \in Int, k \in Int :
          /\ e = era + 1 /\ d0 = 0 /\ y = 0 /\ m = 0 /\ k = 1
    BY SMT
  <2>2. e \in Int /\ 0 <= e /\ 0 <= d0 /\ d0 < 146097 /\ 0 <= y /\ y < 400 /\ 0 <= m /\ m < 12
    BY <2>1, SMT
  <2>3. /\ YearFirst(y) = 0 /\ YearFirst(y + 1) = 365
        /\ MonthStart(m) = 0 /\ MonthStart(m + 1) = 31
    BY <2>1, <1>1, <1>2, SMT
  <2>4. /\ YearFirst(y) \in Int /\ YearFirst(y) <= d0 /\ d0 < YearFirst(y + 1)
        /\ MonthStart(m) \in Int /\ MonthStart(m) <= d0 - YearFirst(y)
        /\ d0 - YearFirst(y) < MonthStart(m + 1)
        /\ d0 - YearFirst(y) - MonthStart(m) + 1 = k
    BY <2>1, <2>3, SMT
  <2>5. CivilOfEra(e, d0) = DateOf(e, y, m, d0 - YearFirst(y) - MonthStart(m) + 1)
    BY <2>2, <2>4, CivilForm
  <2> QED
    BY <2>1, <2>4, <2>5
<1>7. DateOf(era + 1, 0, 0, 1) = DateOf(era, 400, 0, 1)
  <2>1. 0 + (era + 1) * 400 = 400 + era * 400
    BY SMT
  <2> QED
    BY <2>1, SMT DEF DateOf
<1> QED
  BY <1>3, <1>5, <1>6, <1>7

(* days_to_civil follows the calendar from each day to the next.           *)
LEMMA DayAfter ==
  ASSUME NEW n \in Nat
  PROVE  Civil(n + 1) = NextDate(Civil(n))
<1>1. PICK era \in Int : era = (n + 719468) \div 146097
  BY SMT
<1>2. PICK d \in Int : d = n + 719468 - era * 146097
  BY <1>1, SMT
<1>3. 0 <= era /\ 0 <= d /\ d < 146097
  BY <1>1, <1>2, SMT
<1>4. Civil(n) = CivilOfEra(era, d)
  BY <1>1, <1>2, SMT DEF Civil, DaysPerEra
<1>5. CASE d < 146096
  <2>1. (n + 1 + 719468) \div 146097 = era
    BY <1>1, <1>2, <1>3, <1>5, SMT
  <2>2. n + 1 + 719468 - era * 146097 = d + 1
    BY <1>2, SMT
  <2>3. Civil(n + 1) = CivilOfEra(era, d + 1)
    BY <2>1, <2>2, SMT DEF Civil, DaysPerEra
  <2> QED
    BY <1>3, <1>4, <1>5, <2>3, DayInEra
<1>6. CASE d = 146096
  <2>1. (n + 1 + 719468) \div 146097 = era + 1
    BY <1>1, <1>2, <1>3, <1>6, SMT
  <2>2. n + 1 + 719468 - (era + 1) * 146097 = 0
    BY <1>2, <1>6, SMT
  <2>3. Civil(n + 1) = CivilOfEra(era + 1, 0)
    BY <2>1, <2>2, SMT DEF Civil, DaysPerEra
  <2> QED
    BY <1>3, <1>4, <1>6, <2>3, EraEnd
<1> QED
  BY <1>3, <1>5, <1>6, SMT

LEMMA FirstDay == Civil(0) = [year |-> 1970, month |-> 1, day |-> 1]
<1>1. 719468 \div 146097 = 4 /\ 719468 - 4 * 146097 = 135080
  BY SMT
<1>2. /\ YearFirst(369) = 134774 /\ YearFirst(369 + 1) = 135139
      /\ MonthStart(10) = 306 /\ MonthStart(10 + 1) = 337
  BY SMT DEF YearFirst, MonthStart
<1>3. CivilOfEra(4, 135080) = DateOf(4, 369, 10, 1)
  <2>1. PICK e \in Int, d0 \in Int, y \in Int, m \in Int, k \in Int :
          /\ e = 4 /\ d0 = 135080 /\ y = 369 /\ m = 10 /\ k = 1
    BY SMT
  <2>2. e \in Int /\ 0 <= e /\ 0 <= d0 /\ d0 < 146097 /\ 0 <= y /\ y < 400 /\ 0 <= m /\ m < 12
    BY <2>1, SMT
  <2>3. /\ YearFirst(y) = 134774 /\ YearFirst(y + 1) = 135139
        /\ MonthStart(m) = 306 /\ MonthStart(m + 1) = 337
    BY <2>1, <1>2, SMT
  <2>4. /\ YearFirst(y) \in Int /\ YearFirst(y) <= d0 /\ d0 < YearFirst(y + 1)
        /\ MonthStart(m) \in Int /\ MonthStart(m) <= d0 - YearFirst(y)
        /\ d0 - YearFirst(y) < MonthStart(m + 1)
        /\ d0 - YearFirst(y) - MonthStart(m) + 1 = k
    BY <2>1, <2>3, SMT
  <2>5. CivilOfEra(e, d0) = DateOf(e, y, m, d0 - YearFirst(y) - MonthStart(m) + 1)
    BY <2>2, <2>4, CivilForm
  <2> QED
    BY <2>1, <2>4, <2>5
<1>4. DateOf(4, 369, 10, 1) = [year |-> 1970, month |-> 1, day |-> 1]
  BY SMT DEF DateOf
<1>5. Civil(0) = CivilOfEra(4, 135080)
  BY <1>1, SMT DEF Civil, DaysPerEra
<1> QED
  BY <1>3, <1>4, <1>5

(* CalendarCorrect: days_to_civil gives the date of the calendar, for      *)
(* every day from the first of January 1970 on.                            *)
THEOREM CalendarHolds == Spec => []CalendarCorrect
<1> DEFINE Inv == day \in Nat /\ date = Civil(day)
<1>1. Init => Inv
  BY FirstDay DEF Init
<1>2. Inv /\ [Next]_vars => Inv'
  <2> SUFFICES ASSUME Inv, [Next]_vars PROVE Inv'
    OBVIOUS
  <2>1. CASE Tick
    <3>1. day' = day + 1 /\ day + 1 \in Nat /\ date' = NextDate(date)
      BY <2>1 DEF Tick
    <3> QED
      BY <3>1, DayAfter
  <2>2. CASE ~Tick
    <3>1. UNCHANGED <<day, date>>
      BY <2>2 DEF Next, Load, Other, Process, Lose, Read, Publish, Send, Resend, vars
    <3> QED
      BY <3>1
  <2> QED
    BY <2>1, <2>2
<1>3. Inv => CalendarCorrect
  BY DEF CalendarCorrect
<1> QED
  BY <1>1, <1>2, <1>3, PTL DEF Spec

-----------------------------------------------------------------------------
(* Folds, taken step by step.                                              *)

(* Induction over the numbers, for a set: the least number outside of it   *)
(* would not be 0 and not be the next of one inside.                       *)
LEMMA AllNat ==
  ASSUME NEW S, 0 \in S, \A n \in Nat : n \in S => n + 1 \in S
  PROVE  Nat \subseteq S
<1> DEFINE T == Nat \ S
<1>1. SUFFICES ASSUME T # {} PROVE FALSE
  OBVIOUS
<1>2. IsWellFoundedOn(OpToRel(<, Nat), Nat) /\ T \subseteq Nat
  BY NatLessThanWellFounded
<1>3. PICK x \in T : \A y \in T : ~(<<y, x>> \in OpToRel(<, Nat))
  BY <1>1, <1>2, WFMin
<1>4. x \in Nat /\ x # 0
  OBVIOUS
<1>5. x - 1 \in Nat /\ (x - 1) + 1 = x /\ x - 1 < x
  BY <1>4
<1>6. <<x - 1, x>> \in OpToRel(<, Nat)
  BY <1>4, <1>5 DEF OpToRel
<1>7. x - 1 \notin T
  BY <1>3, <1>6
<1>8. x \in S
  BY <1>5, <1>7
<1>9. QED
  BY <1>8

(* The last index of the first k + 1 *)
LEMMA MaxFirst ==
  ASSUME NEW n \in Nat, NEW s \in SUBSET (1..(n + 1)), n + 1 \in s
  PROVE  Max(s) = n + 1
<1>1. n + 1 \in s /\ \A y \in s : n + 1 >= y
  OBVIOUS
<1>2. \A x \in s : (\A y \in s : x >= y) => x = n + 1
  OBVIOUS
<1>3. QED
  BY <1>1, <1>2 DEF Max

(* FoldLeft of apply_diff and of an update, taken entry by entry.          *)
Applied(how, x, e) == IF how = "diff" THEN ApplyEntry(x, e) ELSE ApplyRr(x, e)

IsFold(how, f, b, es, n) ==
  f = [s \in SUBSET (1..n) |->
         IF s = {} THEN b ELSE Applied(how, f[s \ {Max(s)}], es[Max(s)])]

FoldOf(how, b, es, n) == CHOOSE f : IsFold(how, f, b, es, n)

LEMMA FoldExists ==
  ASSUME NEW how, NEW b, NEW es, NEW n \in Nat
  PROVE  \E f : IsFold(how, f, b, es, n)
<1> DEFINE Fold(f, k) == f = [s \in SUBSET (1..k) |->
                                IF s = {} THEN b ELSE Applied(how, f[s \ {Max(s)}], es[Max(s)])]
           S == {k \in Nat : \E f : Fold(f, k)}
<1>1. 0 \in S
  <2>1. 1..0 = {}
    OBVIOUS
  <2>2. Fold([s \in SUBSET {} |-> b], 0)
    BY <2>1
  <2>3. QED
    BY <2>2
<1>2. ASSUME NEW k \in Nat, k \in S
      PROVE  k + 1 \in S
  <2>1. PICK f : Fold(f, k)
    BY <1>2
  <2> DEFINE g == [s \in SUBSET (1..(k + 1)) |->
                     IF k + 1 \in s THEN Applied(how, f[s \ {k + 1}], es[k + 1]) ELSE f[s]]
  <2>2. ASSUME NEW s \in SUBSET (1..(k + 1))
        PROVE  g[s] = IF s = {} THEN b ELSE Applied(how, g[s \ {Max(s)}], es[Max(s)])
    <3>1. CASE k + 1 \in s
      <4>1. Max(s) = k + 1
        BY <3>1, MaxFirst
      <4>2. s \ {k + 1} \in SUBSET (1..(k + 1)) /\ k + 1 \notin s \ {k + 1}
        OBVIOUS
      <4>3. g[s \ {k + 1}] = f[s \ {k + 1}]
        BY <4>2
      <4>4. QED
        BY <3>1, <4>1, <4>3
    <3>2. CASE k + 1 \notin s
      <4>1. s \in SUBSET (1..k)
        <5>1. \A i \in 1..(k + 1) : i = k + 1 \/ i \in 1..k
          BY <1>2
        <5>2. QED
          BY <3>2, <5>1
      <4>2. f[s] = IF s = {} THEN b ELSE Applied(how, f[s \ {Max(s)}], es[Max(s)])
        BY <2>1, <4>1
      <4>3. k + 1 \notin s \ {Max(s)} /\ s \ {Max(s)} \in SUBSET (1..(k + 1))
        BY <3>2
      <4>4. g[s] = f[s] /\ g[s \ {Max(s)}] = f[s \ {Max(s)}]
        BY <3>2, <4>3
      <4>5. QED
        BY <4>2, <4>4
    <3>3. QED
      BY <3>1, <3>2
  <2>3. g = [s \in SUBSET (1..(k + 1)) |-> g[s]]
    OBVIOUS
  <2> HIDE DEF g
  <2>4. Fold(g, k + 1)
    BY <2>2, <2>3
  <2>5. k + 1 \in Nat
    BY <1>2
  <2> HIDE DEF Fold
  <2>6. QED
    BY <2>4, <2>5
<1>3. n \in S
  BY <1>1, <1>2, AllNat
<1> HIDE DEF Fold
<1>4. PICK f : Fold(f, n)
  BY <1>3
<1> USE DEF Fold
<1>5. IsFold(how, f, b, es, n)
  BY <1>4 DEF IsFold
<1>6. QED
  BY <1>5, Zenon

(* h is what a fold has made after each of its entries. *)
IsTrace(how, h, b, es, n) ==
  /\ h[0] = b /\ h[n] = FoldOf(how, b, es, n)[1..n]
  /\ \A k \in 0..(n - 1) : h[k + 1] = Applied(how, h[k], es[k + 1])

LEMMA FoldSteps ==
  ASSUME NEW how, NEW b, NEW n \in Nat, NEW es
  PROVE  \E h : IsTrace(how, h, b, es, n)
<1>0. PICK f : f = FoldOf(how, b, es, n) /\ IsFold(how, f, b, es, n)
  BY FoldExists, Zenon DEF FoldOf
<1>1. f = [s \in SUBSET (1..n) |->
             IF s = {} THEN b ELSE Applied(how, f[s \ {Max(s)}], es[Max(s)])]
  BY <1>0, Zenon DEF IsFold
<1>2. f[1..0] = b
  <2>1. 1..0 = {}
    OBVIOUS
  <2>2. QED
    BY <1>1, <2>1
<1>3. ASSUME NEW k \in 0..(n - 1)
      PROVE  f[1..(k + 1)] = Applied(how, f[1..k], es[k + 1])
  <2>1. 1..(k + 1) \in SUBSET (1..n) /\ k + 1 \in 1..(k + 1) /\ (1..(k + 1)) \ {k + 1} = 1..k
    OBVIOUS
  <2>2. Max(1..(k + 1)) = k + 1
    BY <2>1, MaxFirst
  <2>3. QED
    BY <1>1, <2>1, <2>2
<1> DEFINE h == [k \in 0..n |-> f[1..k]]
<1>4. h[0] = b /\ h[n] = f[1..n]
  BY <1>2
<1>5. ASSUME NEW k \in 0..(n - 1)
      PROVE  h[k + 1] = Applied(how, h[k], es[k + 1])
  <2>1. k \in 0..n /\ k + 1 \in 0..n
    OBVIOUS
  <2>2. h[k] = f[1..k] /\ h[k + 1] = f[1..(k + 1)]
    BY <2>1
  <2>3. QED
    BY <1>3, <2>2
<1> HIDE DEF h
<1>6. IsTrace(how, h, b, es, n)
  BY <1>0, <1>4, <1>5 DEF IsTrace
<1>7. QED
  BY <1>6, Zenon

(* So for apply_diff, and for the update section of a message. *)
IsDiffTrace(h, b, n, es) ==
  /\ h[0] = b /\ h[n] = ApplyDiff(b, es)
  /\ \A k \in 0..(n - 1) : h[k + 1] = ApplyEntry(h[k], es[k + 1])

LEMMA DiffSteps ==
  ASSUME NEW b, NEW n \in Nat, NEW es, DOMAIN es = 1..n
  PROVE  \E h : IsDiffTrace(h, b, n, es)
<1>2. ApplyDiff(b, es) = FoldOf("diff", b, es, n)[1..n]
  BY DEF ApplyDiff, FoldLeft, MapThenFoldSet, FoldOf, IsFold, Applied
<1>3. PICK h : IsTrace("diff", h, b, es, n)
  BY FoldSteps, Zenon
<1>4. \A k \in 0..(n - 1) : h[k + 1] = ApplyEntry(h[k], es[k + 1])
  BY <1>3 DEF IsTrace, Applied
<1>5. h[0] = b /\ h[n] = ApplyDiff(b, es)
  BY <1>2, <1>3 DEF IsTrace
<1>6. IsDiffTrace(h, b, n, es)
  BY <1>4, <1>5, Zenon DEF IsDiffTrace
<1>7. QED
  BY <1>6, Zenon

IsUpdateTrace(h, b, n, ws) ==
  /\ h[0] = b /\ h[n] = ApplyUpdate(b, ws)
  /\ \A k \in 0..(n - 1) : h[k + 1] = ApplyRr(h[k], ws[k + 1])

LEMMA UpdateSteps ==
  ASSUME NEW b, NEW n \in Nat, NEW ws, DOMAIN ws = 1..n
  PROVE  \E h : IsUpdateTrace(h, b, n, ws)
<1>2. ApplyUpdate(b, ws) = FoldOf("update", b, ws, n)[1..n]
  BY DEF ApplyUpdate, FoldLeft, MapThenFoldSet, FoldOf, IsFold, Applied
<1>3. PICK h : IsTrace("update", h, b, ws, n)
  BY FoldSteps, Zenon
<1>4. \A k \in 0..(n - 1) : h[k + 1] = ApplyRr(h[k], ws[k + 1])
  BY <1>3 DEF IsTrace, Applied
<1>5. h[0] = b /\ h[n] = ApplyUpdate(b, ws)
  BY <1>2, <1>3 DEF IsTrace
<1>6. IsUpdateTrace(h, b, n, ws)
  BY <1>4, <1>5, Zenon DEF IsUpdateTrace
<1>7. QED
  BY <1>6, Zenon

(* One more record in a message is applied last. *)
LEMMA UpdateAppend ==
  ASSUME NEW b, NEW n \in Nat, NEW s, NEW t, DOMAIN s = 1..n, DOMAIN t = 1..(n + 1),
         \A i \in 1..n : t[i] = s[i]
  PROVE  ApplyUpdate(b, t) = ApplyRr(ApplyUpdate(b, s), t[n + 1])
<1>a. PICK h : IsUpdateTrace(h, b, n, s)
  BY UpdateSteps, Zenon
<1>0. PICK m \in Nat : m = n + 1
  OBVIOUS
<1>b. PICK g : IsUpdateTrace(g, b, m, t)
  BY <1>0, UpdateSteps, Zenon
<1>1. /\ h[0] = b /\ h[n] = ApplyUpdate(b, s)
      /\ \A k \in 0..(n - 1) : h[k + 1] = ApplyRr(h[k], s[k + 1])
  BY <1>a, Zenon DEF IsUpdateTrace
<1>2. /\ g[0] = b /\ g[m] = ApplyUpdate(b, t)
      /\ \A k \in 0..(m - 1) : g[k + 1] = ApplyRr(g[k], t[k + 1])
  BY <1>b, Zenon DEF IsUpdateTrace
<1> DEFINE S == {k \in Nat : k <= n => g[k] = h[k]}
<1>3. 0 \in S
  BY <1>1, <1>2
<1>4. ASSUME NEW k \in Nat, k \in S
      PROVE  k + 1 \in S
  <2>1. SUFFICES ASSUME k + 1 <= n PROVE g[k + 1] = h[k + 1]
    OBVIOUS
  <2>2. k \in 0..(n - 1) /\ k \in 0..(m - 1) /\ k <= n /\ k + 1 \in 1..n
    BY <1>0, <2>1
  <2>3. g[k] = h[k] /\ t[k + 1] = s[k + 1]
    BY <1>4, <2>2
  <2>4. QED
    BY <1>1, <1>2, <2>2, <2>3
<1>5. n \in S
  BY <1>3, <1>4, AllNat
<1>6. g[n] = h[n]
  BY <1>5
<1>7. n \in 0..(m - 1)
  BY <1>0
<1>8. QED
  BY <1>0, <1>1, <1>2, <1>6, <1>7

(* An empty update changes nothing. *)
LEMMA UpdateNone ==
  ASSUME NEW b, NEW s, DOMAIN s = 1..0
  PROVE  ApplyUpdate(b, s) = b
<1>1. 0 \in Nat
  OBVIOUS
<1>2. PICK h : IsUpdateTrace(h, b, 0, s)
  BY <1>1, UpdateSteps, Zenon
<1>3. QED
  BY <1>2, Zenon DEF IsUpdateTrace

-----------------------------------------------------------------------------
(* FlattenSeq, one sequence after the other. *)
IsFlat(f, qs, n) == f = [i \in 1..n |-> IF i = 1 THEN qs[i] ELSE f[i - 1] \o qs[i]]

(* The recursive function of FlattenSeq exists for every length. *)
LEMMA FlatExists ==
  ASSUME NEW qs, NEW n \in Nat
  PROVE  \E f : IsFlat(f, qs, n)
<1> DEFINE Flat(f, k) == f = [i \in 1..k |-> IF i = 1 THEN qs[i] ELSE f[i - 1] \o qs[i]]
           S == {k \in Nat : \E f : Flat(f, k)}
<1>1. 0 \in S
  <2>1. 1..0 = {}
    OBVIOUS
  <2>2. Flat([i \in {} |-> 0], 0)
    BY <2>1
  <2>3. QED
    BY <2>2
<1>2. ASSUME NEW k \in Nat, k \in S
      PROVE  k + 1 \in S
  <2>1. PICK f : Flat(f, k)
    BY <1>2
  <2> DEFINE g == [i \in 1..(k + 1) |->
                     IF i <= k THEN f[i] ELSE IF i = 1 THEN qs[i] ELSE f[k] \o qs[i]]
  <2>2. ASSUME NEW i \in 1..(k + 1)
        PROVE  g[i] = IF i = 1 THEN qs[i] ELSE g[i - 1] \o qs[i]
    <3>1. CASE i <= k
      <4>1. i \in 1..k /\ (i # 1 => i - 1 \in 1..k /\ i - 1 \in 1..(k + 1) /\ i - 1 <= k)
        BY <3>1
      <4>2. f[i] = IF i = 1 THEN qs[i] ELSE f[i - 1] \o qs[i]
        BY <2>1, <4>1
      <4>3. g[i] = f[i] /\ (i # 1 => g[i - 1] = f[i - 1])
        BY <3>1, <4>1
      <4>4. QED
        BY <4>2, <4>3
    <3>2. CASE ~(i <= k)
      <4>1. i = k + 1 /\ i - 1 = k
        BY <3>2
      <4>2. i # 1 => k \in 1..(k + 1) /\ k <= k
        BY <4>1
      <4>3. i # 1 => g[i - 1] = f[k]
        BY <4>1, <4>2
      <4>4. g[i] = IF i = 1 THEN qs[i] ELSE f[k] \o qs[i]
        BY <3>2
      <4>5. QED
        BY <4>3, <4>4
    <3>3. QED
      BY <3>1, <3>2
  <2>3. g = [i \in 1..(k + 1) |-> g[i]]
    OBVIOUS
  <2> HIDE DEF g
  <2>4. Flat(g, k + 1)
    BY <2>2, <2>3
  <2>5. k + 1 \in Nat
    BY <1>2
  <2> HIDE DEF Flat
  <2>6. QED
    BY <2>4, <2>5
<1>3. n \in S
  BY <1>1, <1>2, AllNat
<1> HIDE DEF Flat
<1>4. PICK f : Flat(f, n)
  BY <1>3
<1> USE DEF Flat
<1>5. IsFlat(f, qs, n)
  BY <1>4 DEF IsFlat
<1>6. QED
  BY <1>5, Zenon

(* g is the part of the flat sequence after each of its pieces. *)
IsFlatTrace(g, qs, n, T) ==
  /\ g[0] = <<>> /\ g[n] = FlattenSeq(qs)
  /\ \A k \in 0..n : g[k] \in Seq(T)
  /\ \A k \in 0..(n - 1) : g[k + 1] = g[k] \o qs[k + 1]

LEMMA FlatSteps ==
  ASSUME NEW T, NEW qs \in Seq(Seq(T)), NEW n \in Nat, n = Len(qs)
  PROVE  \E g : IsFlatTrace(g, qs, n, T)
<1>0. PICK f : f = (CHOOSE x : IsFlat(x, qs, n)) /\ IsFlat(f, qs, n)
  BY FlatExists, Zenon
<1>1. f = [i \in 1..n |-> IF i = 1 THEN qs[i] ELSE f[i - 1] \o qs[i]]
  BY <1>0, Zenon DEF IsFlat
<1>2. n # 0 => FlattenSeq(qs) = f[n]
  <2>1. f = CHOOSE x : x = [i \in 1..Len(qs) |-> IF i = 1 THEN qs[i] ELSE x[i - 1] \o qs[i]]
    BY <1>0 DEF IsFlat
  <2>2. QED
    BY <2>1 DEF FlattenSeq
<1>3. n = 0 => FlattenSeq(qs) = <<>>
  <2>1. n = 0 => qs = <<>>
    BY EmptySeq
  <2>2. QED
    BY <2>1 DEF FlattenSeq
<1> DEFINE g == [k \in 0..n |-> IF k = 0 THEN <<>> ELSE f[k]]
<1>4. \A k \in 1..n : qs[k] \in Seq(T)
  BY ElementOfSeq
<1>5. g[0] = <<>> /\ g[n] = FlattenSeq(qs)
  BY <1>2, <1>3
<1>6. ASSUME NEW k \in 0..(n - 1)
      PROVE  g[k + 1] = g[k] \o qs[k + 1]
  <2>1. k + 1 \in 1..n /\ k + 1 \in 0..n /\ k \in 0..n /\ k + 1 # 0 /\ k + 1 - 1 = k
    OBVIOUS
  <2>2. g[k + 1] = f[k + 1] /\ (k # 0 => g[k] = f[k])
    BY <2>1
  <2>3. CASE k = 0
    <3>1. f[k + 1] = qs[k + 1] /\ g[k] = <<>>
      BY <1>1, <2>1, <2>3
    <3>2. QED
      BY <2>1, <2>2, <3>1, <1>4, ConcatEmptySeq
  <2>4. CASE k # 0
    <3>0. PICK i \in 1..n : i = k + 1 /\ i # 1 /\ i - 1 = k
      BY <2>1, <2>4
    <3>1. f[i] = f[i - 1] \o qs[i]
      BY <1>1, <3>0
    <3>2. QED
      BY <2>2, <2>4, <3>0, <3>1
  <2>5. QED
    BY <2>3, <2>4
<1> HIDE DEF g
<1> DEFINE S == {k \in Nat : k <= n => g[k] \in Seq(T)}
<1>7. 0 \in S
  <2>1. <<>> \in Seq(T)
    OBVIOUS
  <2>2. QED
    BY <1>5, <2>1
<1>8. ASSUME NEW k \in Nat, k \in S
      PROVE  k + 1 \in S
  <2>1. SUFFICES ASSUME k + 1 <= n PROVE g[k + 1] \in Seq(T)
    OBVIOUS
  <2>2. k \in 0..(n - 1) /\ k + 1 \in 1..n /\ k <= n
    BY <2>1
  <2>3. g[k] \in Seq(T) /\ qs[k + 1] \in Seq(T)
    BY <1>4, <1>8, <2>2
  <2>4. QED
    BY <1>6, <2>2, <2>3, ConcatProperties
<1>9. \A k \in 0..n : g[k] \in Seq(T)
  <2>1. Nat \subseteq S
    BY <1>7, <1>8, AllNat
  <2>2. QED
    BY <2>1
<1>10. IsFlatTrace(g, qs, n, T)
  BY <1>5, <1>6, <1>9 DEF IsFlatTrace
<1>11. QED
  BY <1>10, Zenon

-----------------------------------------------------------------------------
(* The records of an update, entry by entry of its diff.                   *)

(* The update section of a message, and what an entry of a diff makes of   *)
(* a zone when its one or two records are processed.                       *)
Encoded(updates) == [i \in DOMAIN updates |-> EncodeEntry(updates[i])]

AddOf(r) == EncodeEntry([kind |-> "AddRecord", record |-> r])
DeleteOf(r) == EncodeEntry([kind |-> "DeleteRecord", record |-> r])

ApplyEdit(z, e) ==
  CASE e.kind = "Added"      -> ApplyRr(z, AddOf(e.record))
    [] e.kind = "Removed"    -> ApplyRr(z, DeleteOf(e.record))
    [] e.kind = "TtlChanged" ->
         ApplyRr(ApplyRr(z, DeleteOf([e.record EXCEPT !.ttl = e.old_ttl])), AddOf(e.record))

(* One more entry in a message is one more record to process. *)
LEMMA EncodedAppend ==
  ASSUME NEW z, NEW T, NEW s \in Seq(T), NEW x \in T
  PROVE  /\ s \o <<x>> \in Seq(T)
         /\ ApplyUpdate(z, Encoded(s \o <<x>>)) = ApplyRr(ApplyUpdate(z, Encoded(s)), EncodeEntry(x))
<1>1. PICK n \in Nat : n = Len(s) /\ DOMAIN s = 1..n
  BY LenProperties
<1>2. PICK t \in Seq(T) : /\ t = s \o <<x>> /\ Len(t) = n + 1 /\ DOMAIN t = 1..(n + 1)
                          /\ t[n + 1] = x /\ \A i \in 1..n : t[i] = s[i]
  <2>1. <<x>> \in Seq(T) /\ Len(<<x>>) = 1 /\ <<x>>[1] = x
    OBVIOUS
  <2>2. /\ s \o <<x>> \in Seq(T) /\ Len(s \o <<x>>) = n + 1
        /\ \A i \in 1..(n + 1) : (s \o <<x>>)[i] = IF i <= n THEN s[i] ELSE <<x>>[i - n]
    BY <1>1, <2>1, ConcatProperties
  <2>3. DOMAIN (s \o <<x>>) = 1..(n + 1)
    BY <2>2, LenProperties
  <2>4. (s \o <<x>>)[n + 1] = x
    BY <2>1, <2>2
  <2>5. \A i \in 1..n : (s \o <<x>>)[i] = s[i]
    BY <2>2
  <2>6. QED
    BY <2>2, <2>3, <2>4, <2>5
<1>3. DOMAIN Encoded(s) = 1..n /\ DOMAIN Encoded(t) = 1..(n + 1)
  BY <1>1, <1>2 DEF Encoded
<1>4. \A i \in 1..n : Encoded(t)[i] = Encoded(s)[i]
  BY <1>1, <1>2 DEF Encoded
<1>5. Encoded(t)[n + 1] = EncodeEntry(x)
  BY <1>2 DEF Encoded
<1>6. ApplyUpdate(z, Encoded(t)) = ApplyRr(ApplyUpdate(z, Encoded(s)), Encoded(t)[n + 1])
  BY <1>3, <1>4, UpdateAppend
<1>7. QED
  BY <1>2, <1>5, <1>6

Kinds == {"Added", "Removed", "TtlChanged"}

(* h is the zone after each entry of the diff. *)
IsEditTrace(h, z, n, es, r) ==
  /\ h[0] = z /\ h[n] = r
  /\ \A k \in 0..(n - 1) : h[k + 1] = ApplyEdit(h[k], es[k + 1])

LEMMA EditSteps ==
  ASSUME NEW z, NEW n \in Nat, NEW es, DOMAIN es = 1..n, NEW ps,
         \A i \in 1..n : es[i].kind \in Kinds
  PROVE  \E h : IsEditTrace(h, z, n, es, ApplyUpdate(z, Encode(ps, ToUpdates(es)).updates))
<1> DEFINE qs == [i \in 1..n |-> EntryUpdates(es[i])]
           T == {EntryUpdates(es[i])[j] : i \in 1..n, j \in 1..2}
<1>1. ASSUME NEW i \in 1..n
      PROVE  \/ /\ es[i].kind \in {"Added", "Removed"} /\ EntryUpdates(es[i])[1] \in T
                /\ EntryUpdates(es[i]) = <<EntryUpdates(es[i])[1]>>
             \/ /\ es[i].kind = "TtlChanged"
                /\ EntryUpdates(es[i])[1] \in T /\ EntryUpdates(es[i])[2] \in T
                /\ EntryUpdates(es[i]) = <<EntryUpdates(es[i])[1], EntryUpdates(es[i])[2]>>
  <2>1. EntryUpdates(es[i])[1] \in T /\ EntryUpdates(es[i])[2] \in T
    OBVIOUS
  <2> HIDE DEF T
  <2>2. es[i].kind \in {"Added", "Removed", "TtlChanged"}
    BY DEF Kinds
  <2>3. CASE es[i].kind = "Added"
    BY <2>1, <2>3 DEF EntryUpdates
  <2>4. CASE es[i].kind = "Removed"
    BY <2>1, <2>4 DEF EntryUpdates
  <2>5. CASE es[i].kind = "TtlChanged"
    BY <2>1, <2>5 DEF EntryUpdates
  <2>6. QED
    BY <2>2, <2>3, <2>4, <2>5
<1> HIDE DEF T
<1>2. qs \in Seq(Seq(T)) /\ Len(qs) = n
  <2>1. \A i \in 1..n : EntryUpdates(es[i]) \in Seq(T)
    <3> TAKE i \in 1..n
    <3>1. CASE es[i].kind = "TtlChanged"
      <4>1. PICK x \in T, y \in T : EntryUpdates(es[i]) = <<x, y>>
        BY <1>1, <3>1
      <4>2. QED
        BY <4>1
    <3>2. CASE es[i].kind # "TtlChanged"
      <4>1. PICK x \in T : EntryUpdates(es[i]) = <<x>>
        BY <1>1, <3>2
      <4>2. QED
        BY <4>1
    <3>3. QED
      BY <3>1, <3>2
  <2>2. QED
    BY <2>1
<1>3. ToUpdates(es) = FlattenSeq(qs)
  BY DEF ToUpdates
<1>4. \A i \in 1..n : qs[i] = EntryUpdates(es[i])
  OBVIOUS
<1> HIDE DEF qs
<1>5. PICK g : IsFlatTrace(g, qs, n, T)
  BY <1>2, FlatSteps, Zenon
<1>6. /\ g[0] = <<>> /\ g[n] = FlattenSeq(qs)
      /\ \A k \in 0..n : g[k] \in Seq(T)
      /\ \A k \in 0..(n - 1) : g[k + 1] = g[k] \o qs[k + 1]
  BY <1>5, Zenon DEF IsFlatTrace
<1> DEFINE h == [k \in 0..n |-> ApplyUpdate(z, Encoded(g[k]))]
<1>7. h[0] = z
  <2>1. DOMAIN Encoded(<<>>) = 1..0
    BY DEF Encoded
  <2>2. QED
    BY <1>6, <2>1, UpdateNone
<1>8. h[n] = ApplyUpdate(z, Encode(ps, ToUpdates(es)).updates)
  BY <1>3, <1>6 DEF Encode, Encoded
<1>9. ASSUME NEW k \in 0..(n - 1)
      PROVE  h[k + 1] = ApplyEdit(h[k], es[k + 1])
  <2>1. k \in 0..n /\ k + 1 \in 0..n /\ k + 1 \in 1..n
    OBVIOUS
  <2>a. PICK e : e = es[k + 1]
    OBVIOUS
  <2>2. PICK s \in Seq(T) : s = g[k] /\ e = es[k + 1] /\ g[k + 1] = s \o EntryUpdates(e)
    BY <1>4, <1>6, <2>1, <2>a
  <2>3. h[k] = ApplyUpdate(z, Encoded(s)) /\ h[k + 1] = ApplyUpdate(z, Encoded(s \o EntryUpdates(e)))
    BY <2>1, <2>2
  <2> HIDE DEF h
  <2>4. CASE e.kind \in {"Added", "Removed"}
    <3>1. PICK x \in T : EntryUpdates(e) = <<x>> /\ x = EntryUpdates(e)[1]
      BY <1>1, <2>1, <2>2, <2>4
    <3>2. h[k + 1] = ApplyRr(h[k], EncodeEntry(x))
      BY <2>3, <3>1, EncodedAppend
    <3>3. x = IF e.kind = "Added" THEN [kind |-> "AddRecord", record |-> e.record]
                                  ELSE [kind |-> "DeleteRecord", record |-> e.record]
      BY <2>4, <3>1 DEF EntryUpdates
    <3>4. QED
      BY <2>2, <2>4, <3>2, <3>3 DEF ApplyEdit, AddOf, DeleteOf
  <2>5. CASE e.kind = "TtlChanged"
    <3>1. PICK x \in T, y \in T : /\ EntryUpdates(e) = <<x, y>>
                                  /\ x = EntryUpdates(e)[1] /\ y = EntryUpdates(e)[2]
      BY <1>1, <2>1, <2>2, <2>5
    <3>2. PICK t \in Seq(T) : t = s \o <<x>>
      BY EncodedAppend
    <3>3. s \o <<x, y>> = t \o <<y>>
      <4>1. <<x>> \in Seq(T) /\ <<y>> \in Seq(T)
        OBVIOUS
      <4>2. /\ <<x, y>> \in Seq(T) /\ Len(<<x, y>>) = 2 /\ Len(<<x>>) = 1 /\ Len(<<y>>) = 1
            /\ <<x, y>>[1] = x /\ <<x, y>>[2] = y /\ <<x>>[1] = x /\ <<y>>[1] = y
        OBVIOUS
      <4>3. <<x>> \o <<y>> = <<x, y>>
        <5>1. PICK u \in Seq(T), v \in Seq(T), q \in Seq(T) :
                /\ u = <<x>> /\ v = <<y>> /\ q = <<x, y>>
                /\ Len(u) = 1 /\ Len(v) = 1 /\ Len(q) = 2
                /\ u[1] = x /\ v[1] = y /\ q[1] = x /\ q[2] = y
          BY <4>1, <4>2
        <5> DEFINE p == u \o v
        <5>2. /\ p \in Seq(T) /\ Len(p) = Len(u) + Len(v)
              /\ \A i \in 1..(Len(u) + Len(v)) : p[i] = IF i <= Len(u) THEN u[i] ELSE v[i - Len(u)]
          BY ConcatProperties
        <5> HIDE DEF p
        <5>3. Len(p) = 2 /\ p[1] = x /\ p[2] = y
          BY <5>1, <5>2
        <5>4. \A i \in 1..2 : i = 1 \/ i = 2
          OBVIOUS
        <5>5. p = q
          BY <5>1, <5>2, <5>3, <5>4, SeqEqual
        <5>6. QED
          BY <5>1, <5>5 DEF p
      <4>4. (s \o <<x>>) \o <<y>> = s \o (<<x>> \o <<y>>)
        BY <4>1, ConcatAssociative
      <4>5. QED
        BY <3>2, <4>3, <4>4
    <3>4. ApplyUpdate(z, Encoded(t)) = ApplyRr(h[k], EncodeEntry(x))
      BY <2>3, <3>2, EncodedAppend
    <3>5. ApplyUpdate(z, Encoded(t \o <<y>>)) = ApplyRr(ApplyUpdate(z, Encoded(t)), EncodeEntry(y))
      BY EncodedAppend
    <3>6. h[k + 1] = ApplyRr(ApplyRr(h[k], EncodeEntry(x)), EncodeEntry(y))
      BY <2>3, <3>1, <3>3, <3>4, <3>5
    <3>7. /\ x = [kind |-> "DeleteRecord", record |-> [e.record EXCEPT !.ttl = e.old_ttl]]
          /\ y = [kind |-> "AddRecord", record |-> e.record]
      BY <2>5, <3>1 DEF EntryUpdates
    <3>8. QED
      BY <2>2, <2>5, <3>6, <3>7 DEF ApplyEdit, AddOf, DeleteOf
  <2>6. QED
    BY <1>1, <2>1, <2>2, <2>4, <2>5
<1> HIDE DEF h
<1>10. IsEditTrace(h, z, n, es, ApplyUpdate(z, Encode(ps, ToUpdates(es)).updates))
  BY <1>7, <1>8, <1>9 DEF IsEditTrace
<1>11. QED
  BY <1>10, Zenon

-----------------------------------------------------------------------------
(* The entries of a diff.                                                  *)

(* A diff has an entry for every difference, and the removals come last. *)
LEMMA SeqsCover ==
  ASSUME NEW S, IsFiniteSet(S), NEW a \in SetToSeqs(S)
  PROVE  /\ a \in Seq(S)
         /\ \A x \in S : \E i \in 1..Len(a) : a[i] = x
<1>1. PICK m \in Nat : m = Cardinality(S)
  BY FS_CardinalityType
<1>2. a \in [1..m -> S] /\ \A i, j \in 1..m : i # j => a[i] # a[j]
  BY <1>1 DEF SetToSeqs
<1>3. IsFiniteSet(1..m) /\ Cardinality(1..m) = m
  BY FS_Interval
<1>4. a \in Injection(1..m, S)
  BY <1>2 DEF Injection, IsInjective
<1>5. a \in Surjection(1..m, S)
  BY <1>1, <1>3, <1>4, FS_Injection
<1>6. \A x \in S : \E i \in 1..m : a[i] = x
  BY <1>5 DEF Surjection
<1>7. a \in Seq(S) /\ Len(a) = m
  BY <1>2
<1>8. QED
  BY <1>6, <1>7

(* Finite zones have a finite number of differences. *)
LEMMA EntriesFinite ==
  ASSUME NEW old, NEW new, IsFiniteSet(old), IsFiniteSet(new)
  PROVE  IsFiniteSet(Additions(old, new) \cup TtlChanges(old, new)) /\ IsFiniteSet(Removals(old, new))
<1>1. IsFiniteSet(Additions(old, new))
  <2> DEFINE D == {r \in new : Identity(r) \notin Identities(old)}
             f == [r \in D |-> [kind |-> "Added", record |-> r]]
  <2>1. IsFiniteSet(D)
    BY FS_Subset
  <2>2. f \in Surjection(D, Additions(old, new))
    BY DEF Surjection, Additions
  <2> HIDE DEF D, f
  <2>3. QED
    BY <2>1, <2>2, FS_Surjection
<1>2. IsFiniteSet(Removals(old, new))
  <2> DEFINE D == {r \in old : Identity(r) \notin Identities(new)}
             f == [r \in D |-> [kind |-> "Removed", record |-> r]]
  <2>1. IsFiniteSet(D)
    BY FS_Subset
  <2>2. f \in Surjection(D, Removals(old, new))
    BY DEF Surjection, Removals
  <2> HIDE DEF D, f
  <2>3. QED
    BY <2>1, <2>2, FS_Surjection
<1>3. IsFiniteSet(TtlChanges(old, new))
  <2> DEFINE D == {q \in old \X new : Identity(q[1]) = Identity(q[2]) /\ q[1].ttl # q[2].ttl}
             f == [p \in D |-> [kind |-> "TtlChanged", record |-> p[2], old_ttl |-> p[1].ttl]]
  <2>1. IsFiniteSet(D)
    <3>1. IsFiniteSet(old \X new)
      BY FS_Product
    <3>2. QED
      BY <3>1, FS_Subset
  <2>2. f \in Surjection(D, TtlChanges(old, new))
    BY DEF Surjection, TtlChanges
  <2> HIDE DEF D, f
  <2>3. QED
    BY <2>1, <2>2, FS_Surjection
<1>4. QED
  BY <1>1, <1>2, <1>3, FS_Union

(* What Diffs promises of its entries *)
IsDiff(es, n, old, new) ==
  /\ DOMAIN es = 1..n
  /\ \A i \in 1..n : es[i] \in Additions(old, new) \cup TtlChanges(old, new) \cup Removals(old, new)
  /\ \A e \in Additions(old, new) \cup TtlChanges(old, new) \cup Removals(old, new) :
       \E i \in 1..n : es[i] = e
  /\ \A i, j \in 1..n : i < j /\ es[i].kind = "Removed" => es[j].kind = "Removed"

(* Diffs, literally and as a predicate. *)
LEMMA DiffForm ==
  ASSUME NEW old, NEW new
  PROVE  Diffs(old, new) = {a \o b : a \in SetToSeqs(Additions(old, new) \cup TtlChanges(old, new)),
                                     b \in SetToSeqs(Removals(old, new))}
BY DEF Diffs

IsJoin(es, A, R) == \E a \in SetToSeqs(A) : \E b \in SetToSeqs(R) : es = a \o b

LEMMA DiffParts ==
  ASSUME NEW old, NEW new, NEW es \in Diffs(old, new)
  PROVE  IsJoin(es, Additions(old, new) \cup TtlChanges(old, new), Removals(old, new))
BY DiffForm DEF IsJoin

(* A diff of finite zones is a finite sequence with those properties. *)
LEMMA DiffIsDiff ==
  ASSUME NEW old, NEW new, IsFiniteSet(old), IsFiniteSet(new), NEW es \in Diffs(old, new)
  PROVE  \E n \in Nat : IsDiff(es, n, old, new)
<1> DEFINE A == Additions(old, new) \cup TtlChanges(old, new)
           R == Removals(old, new)
<1>j. IsJoin(es, A, R)
  BY DiffParts, Zenon
<1>1. PICK a \in SetToSeqs(A) : \E b \in SetToSeqs(R) : es = a \o b
  BY <1>j, Zenon DEF IsJoin
<1>0. PICK b \in SetToSeqs(R) : es = a \o b
  BY <1>1, Zenon
<1>2. IsFiniteSet(A) /\ IsFiniteSet(R)
  BY EntriesFinite
<1>3. \A e \in A : e.kind # "Removed"
  BY DEF Additions, TtlChanges
<1>4. \A e \in R : e.kind = "Removed"
  BY DEF Removals
<1> HIDE DEF A, R
<1>5. a \in Seq(A) /\ \A x \in A : \E i \in 1..Len(a) : a[i] = x
  BY <1>2, SeqsCover
<1>6. b \in Seq(R) /\ \A x \in R : \E i \in 1..Len(b) : b[i] = x
  BY <1>2, SeqsCover
<1>7. PICK la \in Nat, lb \in Nat : la = Len(a) /\ lb = Len(b)
  BY <1>5, <1>6
<1>8. a \in Seq(A \cup R) /\ b \in Seq(A \cup R)
  BY <1>5, <1>6, SeqMonotonic
<1>9. /\ es \in Seq(A \cup R) /\ Len(es) = la + lb /\ DOMAIN es = 1..(la + lb)
      /\ \A i \in 1..(la + lb) : es[i] = IF i <= la THEN a[i] ELSE b[i - la]
  BY <1>0, <1>7, <1>8, ConcatProperties, LenProperties
<1>10. \A i \in 1..la : a[i] \in A
  BY <1>5, <1>7, ElementOfSeq
<1>11. \A i \in 1..lb : b[i] \in R
  BY <1>6, <1>7, ElementOfSeq
<1>12. ASSUME NEW i \in 1..(la + lb)
       PROVE  IF i <= la THEN es[i] \in A ELSE es[i] \in R
  <2>1. CASE i <= la
    <3>1. i \in 1..la
      BY <2>1
    <3>2. QED
      BY <2>1, <3>1, <1>9, <1>10
  <2>2. CASE ~(i <= la)
    <3>1. i - la \in 1..lb
      BY <2>2
    <3>2. QED
      BY <2>2, <3>1, <1>9, <1>11
  <2>3. QED
    BY <2>1, <2>2
<1>13. ASSUME NEW e \in A \cup R
       PROVE  \E i \in 1..(la + lb) : es[i] = e
  <2>1. CASE e \in A
    <3>1. PICK i \in 1..la : a[i] = e
      BY <1>5, <1>7, <2>1
    <3>2. i \in 1..(la + lb) /\ i <= la
      OBVIOUS
    <3>3. QED
      BY <1>9, <3>1, <3>2
  <2>2. CASE e \in R
    <3>1. PICK i \in 1..lb : b[i] = e
      BY <1>6, <1>7, <2>2
    <3>2. PICK j \in 1..(la + lb) : j = la + i /\ ~(j <= la) /\ j - la = i
      OBVIOUS
    <3>3. QED
      BY <1>9, <3>1, <3>2
  <2>3. QED
    BY <2>1, <2>2
<1>14. ASSUME NEW i \in 1..(la + lb), NEW j \in 1..(la + lb), i < j, es[i].kind = "Removed"
       PROVE  es[j].kind = "Removed"
  <2>1. ~(i <= la)
    BY <1>3, <1>12, <1>14
  <2>2. ~(j <= la)
    BY <1>14, <2>1
  <2>3. QED
    BY <1>4, <1>12, <2>2
<1>15. PICK n \in Nat : n = la + lb
  OBVIOUS
<1>16. IsDiff(es, n, old, new)
  <2>1. \A i \in 1..n : es[i] \in A \cup R
    BY <1>12, <1>15
  <2>2. \A e \in A \cup R : \E i \in 1..n : es[i] = e
    BY <1>13, <1>15
  <2>3. \A i, j \in 1..n : i < j /\ es[i].kind = "Removed" => es[j].kind = "Removed"
    BY <1>14, <1>15
  <2>4. DOMAIN es = 1..n
    BY <1>9, <1>15
  <2>5. QED
    BY <2>1, <2>2, <2>3, <2>4, Zenon DEF IsDiff, A, R
<1>17. QED
  BY <1>16

-----------------------------------------------------------------------------
(* A zone on its way, by apply_diff.                                       *)

(* A zone on its way from old to new, after k entries: what is not wanted  *)
(* has an entry to come that takes it away, and what is wanted and not     *)
(* there has one that brings it.                                           *)
ToGo(es, n, k, id) ==
  \E j \in 1..n : k < j /\ Identity(es[j].record) = id /\ es[j].kind # "Added"
ToCome(es, n, k, g) ==
  \E j \in 1..n : k < j /\ es[j].record = g /\ es[j].kind # "Removed"

OnWay(z, es, n, k, new) ==
  /\ \A r \in z : r \in new \/ ToGo(es, n, k, Identity(r))
  /\ \A g \in new : g \in z \/ ToCome(es, n, k, g)

Unique(z) == \A r, s \in z : Identity(r) = Identity(s) => r = s

(* What each entry says of the two zones. *)
LEMMA EntryFacts ==
  ASSUME NEW es, NEW n \in Nat, NEW old, NEW new, IsDiff(es, n, old, new), NEW i \in 1..n
  PROVE  /\ es[i].kind \in Kinds
         /\ es[i].kind = "Added" => es[i].record \in new /\ Identity(es[i].record) \notin Identities(old)
         /\ es[i].kind = "Removed" => es[i].record \in old /\ Identity(es[i].record) \notin Identities(new)
         /\ es[i].kind = "TtlChanged" =>
              /\ es[i].record \in new
              /\ \E o \in old : Identity(o) = Identity(es[i].record) /\ es[i].old_ttl = o.ttl
<1>1. es[i] \in Additions(old, new) \/ es[i] \in TtlChanges(old, new) \/ es[i] \in Removals(old, new)
  BY DEF IsDiff
<1>2. CASE es[i] \in Additions(old, new)
  BY <1>2 DEF Additions, Kinds
<1>3. CASE es[i] \in TtlChanges(old, new)
  BY <1>3 DEF TtlChanges, Kinds
<1>4. CASE es[i] \in Removals(old, new)
  BY <1>4 DEF Removals, Kinds
<1>5. QED
  BY <1>1, <1>2, <1>3, <1>4

(* Before the first entry both zones are on the way; after the last one    *)
(* the zone is there.                                                      *)
LEMMA WayBegins ==
  ASSUME NEW es, NEW n \in Nat, NEW old, NEW new, IsDiff(es, n, old, new),
         Unique(new), \A r \in old \cup new : IsRecord(r)
  PROVE  OnWay(old, es, n, 0, new) /\ OnWay(new, es, n, 0, new)
<1>0. \A e \in Additions(old, new) \cup TtlChanges(old, new) \cup Removals(old, new) :
        \E i \in 1..n : es[i] = e /\ 0 < i
  BY DEF IsDiff
<1>1. \A r \in old, g \in new : Identity(r) = Identity(g) /\ r.ttl = g.ttl => r = g
  BY DEF Identity, IsRecord
<1>2. ASSUME NEW r \in old, NEW g \in new, Identity(r) = Identity(g), r.ttl # g.ttl
      PROVE  ToGo(es, n, 0, Identity(r)) /\ ToCome(es, n, 0, g)
  <2> DEFINE e == [kind |-> "TtlChanged", record |-> g, old_ttl |-> r.ttl]
  <2>1. e \in TtlChanges(old, new)
    <3>1. PICK p \in old \X new : p[1] = r /\ p[2] = g
      <4>1. <<r, g>> \in old \X new /\ <<r, g>>[1] = r /\ <<r, g>>[2] = g
        OBVIOUS
      <4>2. QED
        BY <4>1, Zenon
    <3>2. p \in {q \in old \X new : Identity(q[1]) = Identity(q[2]) /\ q[1].ttl # q[2].ttl}
      BY <1>2, <3>1
    <3>3. e = [kind |-> "TtlChanged", record |-> p[2], old_ttl |-> p[1].ttl]
      BY <3>1
    <3>4. QED
      BY <3>2, <3>3 DEF TtlChanges
  <2>2. PICK i \in 1..n : es[i] = e /\ 0 < i
    BY <1>0, <2>1
  <2>3. QED
    BY <1>2, <2>2 DEF ToGo, ToCome
<1>3. ASSUME NEW r \in old
      PROVE  r \in new \/ ToGo(es, n, 0, Identity(r))
  <2>1. CASE Identity(r) \in Identities(new)
    <3>1. PICK g \in new : Identity(g) = Identity(r)
      BY <2>1 DEF Identities
    <3>2. QED
      BY <1>1, <1>2, <3>1
  <2>2. CASE Identity(r) \notin Identities(new)
    <3>1. [kind |-> "Removed", record |-> r] \in Removals(old, new)
      BY <2>2 DEF Removals
    <3>2. PICK i \in 1..n : es[i] = [kind |-> "Removed", record |-> r] /\ 0 < i
      BY <1>0, <3>1
    <3>3. QED
      BY <3>2 DEF ToGo
  <2>3. QED
    BY <2>1, <2>2
<1>4. ASSUME NEW g \in new
      PROVE  g \in old \/ ToCome(es, n, 0, g)
  <2>1. CASE Identity(g) \in Identities(old)
    <3>1. PICK r \in old : Identity(r) = Identity(g)
      BY <2>1 DEF Identities
    <3>2. QED
      BY <1>1, <1>2, <3>1
  <2>2. CASE Identity(g) \notin Identities(old)
    <3>1. [kind |-> "Added", record |-> g] \in Additions(old, new)
      BY <2>2 DEF Additions
    <3>2. PICK i \in 1..n : es[i] = [kind |-> "Added", record |-> g] /\ 0 < i
      BY <1>0, <3>1
    <3>3. QED
      BY <3>2 DEF ToCome
  <2>3. QED
    BY <2>1, <2>2
<1>5. QED
  BY <1>3, <1>4 DEF OnWay

LEMMA WayEnds ==
  ASSUME NEW z, NEW es, NEW n \in Nat, NEW new, OnWay(z, es, n, n, new)
  PROVE  z = new
BY DEF OnWay, ToGo, ToCome

(* The entry that comes next is in the way of nobody else. *)
LEMMA GoNext ==
  ASSUME NEW es, NEW n \in Nat, NEW k \in 0..(n - 1), NEW id, NEW g
  PROVE  /\ ToGo(es, n, k, id) =>
              \/ ToGo(es, n, k + 1, id)
              \/ Identity(es[k + 1].record) = id /\ es[k + 1].kind # "Added"
         /\ ToCome(es, n, k, g) =>
              \/ ToCome(es, n, k + 1, g)
              \/ es[k + 1].record = g /\ es[k + 1].kind # "Removed"
<1>1. PICK m \in 1..n : m = k + 1 /\ \A j \in 1..n : k < j => j = m \/ m < j
  OBVIOUS
<1>2. ASSUME ToGo(es, n, k, id)
      PROVE  ToGo(es, n, m, id) \/ (Identity(es[m].record) = id /\ es[m].kind # "Added")
  BY <1>1, <1>2 DEF ToGo
<1>3. ASSUME ToCome(es, n, k, g)
      PROVE  ToCome(es, n, m, g) \/ (es[m].record = g /\ es[m].kind # "Removed")
  BY <1>1, <1>3 DEF ToCome
<1>4. QED
  BY <1>1, <1>2, <1>3

(* A record whose TTL is to change is there, whatever its TTL. *)
Waiting(z, es, n, k) ==
  \A j \in 1..n : k < j /\ es[j].kind = "TtlChanged" => Identity(es[j].record) \in Identities(z)

LEMMA WaitingBegins ==
  ASSUME NEW es, NEW n \in Nat, NEW old, NEW new, IsDiff(es, n, old, new)
  PROVE  Waiting(old, es, n, 0)
<1> SUFFICES ASSUME NEW j \in 1..n, es[j].kind = "TtlChanged"
             PROVE  Identity(es[j].record) \in Identities(old)
  BY DEF Waiting
<1>1. PICK o \in old : Identity(o) = Identity(es[j].record)
  BY EntryFacts
<1>2. QED
  BY <1>1 DEF Identities

(* apply_diff takes a zone one entry further. *)
LEMMA EntryOnWay ==
  ASSUME NEW z, NEW es, NEW n \in Nat, NEW k \in 0..(n - 1), NEW old, NEW new,
         IsDiff(es, n, old, new), Unique(new), OnWay(z, es, n, k, new), Waiting(z, es, n, k)
  PROVE  /\ OnWay(ApplyEntry(z, es[k + 1]), es, n, k + 1, new)
         /\ Waiting(ApplyEntry(z, es[k + 1]), es, n, k + 1)
<1>0. k + 1 \in 1..n
  OBVIOUS
<1>1. PICK e : e = es[k + 1]
  OBVIOUS
<1>2. /\ e.kind \in Kinds
      /\ e.kind # "Removed" => e.record \in new
      /\ e.kind = "Removed" => Identity(e.record) \notin Identities(new)
  BY <1>0, <1>1, EntryFacts DEF Kinds
<1>3. ASSUME NEW r \in z
      PROVE  \/ r \in new
             \/ ToGo(es, n, k + 1, Identity(r))
             \/ Identity(e.record) = Identity(r) /\ e.kind # "Added"
  BY <1>1, GoNext DEF OnWay
<1>4. ASSUME NEW g \in new
      PROVE  \/ g \in z
             \/ ToCome(es, n, k + 1, g)
             \/ e.record = g /\ e.kind # "Removed"
  BY <1>1, GoNext DEF OnWay
<1>w. SUFFICES /\ OnWay(ApplyEntry(z, e), es, n, k + 1, new)
               /\ \A id \in Identities(z) :
                    id \in Identities(ApplyEntry(z, e)) \/ (e.kind = "Removed" /\ Identity(e.record) = id)
  <2> SUFFICES ASSUME NEW j \in 1..n, k + 1 < j, es[j].kind = "TtlChanged",
                      \A id \in Identities(z) :
                        id \in Identities(ApplyEntry(z, e)) \/ (e.kind = "Removed" /\ Identity(e.record) = id)
               PROVE  Identity(es[j].record) \in Identities(ApplyEntry(z, e))
    BY <1>1 DEF Waiting
  <2>1. k < j
    OBVIOUS
  <2>2. Identity(es[j].record) \in Identities(z)
    BY <2>1 DEF Waiting
  <2>3. es[j].record \in new
    BY EntryFacts
  <2>4. QED
    BY <1>2, <2>2, <2>3 DEF Identities
<1>5. CASE e.kind = "Added"
  <2>1. ApplyEntry(z, e) = z \cup {e.record}
    BY <1>5 DEF ApplyEntry
  <2>2. Identities(z) \subseteq Identities(ApplyEntry(z, e))
    BY <2>1 DEF Identities
  <2>3. QED
    BY <1>1, <1>2, <1>3, <1>4, <1>5, <2>1, <2>2 DEF OnWay
<1>6. CASE e.kind = "Removed"
  <2>1. ApplyEntry(z, e) = {r \in z : Identity(r) # Identity(e.record)}
    BY <1>6 DEF ApplyEntry
  <2>2. \A g \in new : Identity(g) # Identity(e.record)
    BY <1>2, <1>6 DEF Identities
  <2>3. \A id \in Identities(z) : id \in Identities(ApplyEntry(z, e)) \/ Identity(e.record) = id
    BY <2>1 DEF Identities
  <2>4. QED
    BY <1>1, <1>3, <1>4, <1>6, <2>1, <2>2, <2>3 DEF OnWay
<1>7. CASE e.kind = "TtlChanged"
  <2>1. ApplyEntry(z, e) = {IF Identity(r) = Identity(e.record) THEN e.record ELSE r : r \in z}
    BY <1>7 DEF ApplyEntry
  <2>2. \A r \in ApplyEntry(z, e) : r = e.record \/ (r \in z /\ Identity(r) # Identity(e.record))
    BY <2>1
  <2>3. ASSUME NEW g \in new
        PROVE  g \in ApplyEntry(z, e) \/ ToCome(es, n, k + 1, g)
    <3>1. CASE g # e.record
      BY <1>2, <1>4, <1>7, <2>1, <3>1 DEF Unique
    <3>2. CASE g = e.record
      <4>1. k + 1 \in 1..n /\ k < k + 1
        OBVIOUS
      <4>2. Identity(e.record) \in Identities(z)
        BY <1>1, <1>7, <4>1 DEF Waiting
      <4>3. PICK r \in z : Identity(r) = Identity(e.record)
        BY <4>2 DEF Identities
      <4>4. QED
        BY <2>1, <3>2, <4>3
    <3>3. QED
      BY <3>1, <3>2
  <2>4. \A id \in Identities(z) : id \in Identities(ApplyEntry(z, e))
    <3> SUFFICES ASSUME NEW r \in z PROVE Identity(r) \in Identities(ApplyEntry(z, e))
      BY DEF Identities
    <3>1. CASE Identity(r) = Identity(e.record)
      <4>1. e.record \in ApplyEntry(z, e)
        BY <2>1, <3>1
      <4>2. QED
        BY <3>1, <4>1 DEF Identities
    <3>2. CASE Identity(r) # Identity(e.record)
      <4>1. r \in ApplyEntry(z, e)
        BY <2>1, <3>2
      <4>2. QED
        BY <4>1 DEF Identities
    <3>3. QED
      BY <3>1, <3>2
  <2>5. QED
    BY <1>1, <1>2, <1>3, <1>7, <2>2, <2>3, <2>4 DEF OnWay
<1>8. QED
  BY <1>1, <1>2, <1>5, <1>6, <1>7 DEF Kinds

-----------------------------------------------------------------------------
(* The zones named can hold.                                               *)

(* named keeps a zone it could load. *)
Sound(z) == IsFiniteSet(z) /\ Legal(z) /\ \A r \in z : IsRecord(r)

RecordOf(n, t, d, ttl) == [name |-> n, type |-> t, data |-> d, ttl |-> ttl]

Clash(z, w) == \E r \in Named(z, w.name) : (r.type = "CNAME") # (w.type = "CNAME")

(* The other records of a set get the TTL of the one that is added. *)
Neighbours(z, w) ==
  {r \in z : r.name = w.name /\ r.type = w.type /\ w.type # "CNAME" /\ r.data # w.data}

(* AddRr as three sets: others, neighbours and the new record. *)
LEMMA AddForm ==
  ASSUME NEW z, \A r \in z : IsRecord(r), NEW w
  PROVE  /\ Clash(z, w) => AddRr(z, w) = z
         /\ ~Clash(z, w) => AddRr(z, w) =
              {r \in z : ~(r.name = w.name /\ r.type = w.type)}
              \cup {RecordOf(r.name, r.type, r.data, w.ttl) : r \in Neighbours(z, w)}
              \cup {RecordOf(w.name, w.type, w.data, w.ttl)}
<1>1. Clash(z, w) => AddRr(z, w) = z
  BY DEF AddRr, Clash
<1>2. ASSUME ~Clash(z, w)
      PROVE  AddRr(z, w) = (z \ Rrset(z, w.name, w.type))
               \cup {[r EXCEPT !.ttl = w.ttl] : r \in Neighbours(z, w)}
               \cup {RecordOf(w.name, w.type, w.data, w.ttl)}
  <2>1. Rrset(z, w.name, w.type) \ {r \in Rrset(z, w.name, w.type) : w.type = "CNAME" \/ r.data = w.data}
          = Neighbours(z, w)
    BY DEF Rrset, Neighbours
  <2>2. QED
    BY <1>2, <2>1, Zenon DEF AddRr, Clash, RecordOf
<1>3. z \ Rrset(z, w.name, w.type) = {r \in z : ~(r.name = w.name /\ r.type = w.type)}
  BY DEF Rrset
<1>4. \A r \in Neighbours(z, w) : [r EXCEPT !.ttl = w.ttl] = RecordOf(r.name, r.type, r.data, w.ttl)
  <2> TAKE r \in Neighbours(z, w)
  <2>1. r = [name |-> r.name, type |-> r.type, data |-> r.data, ttl |-> r.ttl]
    BY DEF Neighbours, IsRecord
  <2>2. QED
    BY <2>1 DEF RecordOf
<1>5. {[r EXCEPT !.ttl = w.ttl] : r \in Neighbours(z, w)}
        = {RecordOf(r.name, r.type, r.data, w.ttl) : r \in Neighbours(z, w)}
  BY <1>4
<1>6. QED
  BY <1>1, <1>2, <1>3, <1>5

(* An addition leaves a zone that named can hold. *)
LEMMA AddSound ==
  ASSUME NEW z, Sound(z), NEW w, w.type # "ANY"
  PROVE  Sound(AddRr(z, w))
<1>0. \A r \in z : IsRecord(r)
  BY DEF Sound
<1>1. CASE Clash(z, w)
  BY <1>0, <1>1, AddForm
<1>2. CASE ~Clash(z, w)
  <2>1. PICK a : /\ a = AddRr(z, w)
                 /\ a = {r \in z : ~(r.name = w.name /\ r.type = w.type)}
                        \cup {RecordOf(r.name, r.type, r.data, w.ttl) : r \in Neighbours(z, w)}
                        \cup {RecordOf(w.name, w.type, w.data, w.ttl)}
    BY <1>0, <1>2, AddForm
  <2>2. IsFiniteSet(a)
    <3> DEFINE f == [r \in Neighbours(z, w) |-> RecordOf(r.name, r.type, r.data, w.ttl)]
               I == {RecordOf(r.name, r.type, r.data, w.ttl) : r \in Neighbours(z, w)}
               K == {r \in z : ~(r.name = w.name /\ r.type = w.type)}
    <3>1. IsFiniteSet(Neighbours(z, w)) /\ IsFiniteSet(K)
      BY FS_Subset DEF Sound, Neighbours
    <3>2. f \in Surjection(Neighbours(z, w), I)
      BY DEF Surjection
    <3>3. a = K \cup I \cup {RecordOf(w.name, w.type, w.data, w.ttl)}
      BY <2>1
    <3> HIDE DEF f, I, K
    <3>4. IsFiniteSet(I)
      BY <3>1, <3>2, FS_Surjection
    <3>5. IsFiniteSet(K \cup I)
      BY <3>1, <3>4, FS_Union
    <3>6. QED
      BY <3>3, <3>5, FS_AddElement
  <2>3. ASSUME NEW x \in a
        PROVE  /\ IsRecord(x)
               /\ \/ x \in z /\ ~(x.name = w.name /\ x.type = w.type)
                  \/ /\ x.name = w.name /\ x.type = w.type /\ x.ttl = w.ttl
                     /\ \/ w.type # "CNAME"
                        \/ x = RecordOf(w.name, w.type, w.data, w.ttl)
    BY <1>0, <2>1 DEF Neighbours, IsRecord, RecordOf
  <2>4. Rrset(z, Apex, "NS") # {} /\ \A r, s \in z : r.name = s.name =>
               /\ r.type = s.type => r.ttl = s.ttl
               /\ r.type = "CNAME" => r = s
    BY DEF Sound, Legal
  <2>5. \A r \in z : r.name = w.name => (r.type = "CNAME" <=> w.type = "CNAME")
    BY <1>2 DEF Clash, Named
  <2>6. ASSUME NEW r \in a, NEW s \in a, r.name = s.name
        PROVE  /\ r.type = s.type => r.ttl = s.ttl
               /\ r.type = "CNAME" => r = s
    <3>1. CASE r.name # w.name
      BY <2>3, <2>4, <2>6, <3>1
    <3>2. CASE r.name = w.name
      BY <2>3, <2>4, <2>5, <2>6, <3>2
    <3>3. QED
      BY <3>1, <3>2
  <2>7. Rrset(a, Apex, "NS") # {}
    <3>1. PICK s \in z : s.name = Apex /\ s.type = "NS"
      BY <2>4 DEF Rrset
    <3>2. CASE w.name = Apex /\ w.type = "NS"
      <4>1. PICK x \in a : x = RecordOf(w.name, w.type, w.data, w.ttl)
        BY <2>1
      <4>2. x.name = Apex /\ x.type = "NS"
        BY <3>2, <4>1 DEF RecordOf
      <4>3. QED
        BY <4>2 DEF Rrset
    <3>3. CASE ~(w.name = Apex /\ w.type = "NS")
      <4>1. s \in a
        BY <2>1, <3>1, <3>3
      <4>2. QED
        BY <3>1, <4>1 DEF Rrset
    <3>4. QED
      BY <3>2, <3>3
  <2>8. QED
    BY <2>1, <2>2, <2>3, <2>6, <2>7 DEF Sound, Legal
<1>3. QED
  BY <1>1, <1>2

(* A set of name servers that is not the last one has another. *)
LEMMA TwoServers ==
  ASSUME NEW S, IsFiniteSet(S), NEW a \in S, Cardinality(S) # 1
  PROVE  \E b \in S : b # a
<1>1. S # {a}
  BY FS_Singleton
<1>2. QED
  BY <1>1

(* So does a deletion. *)
LEMMA DeleteSound ==
  ASSUME NEW z, Sound(z), NEW w, w.class \in {"ANY", "NONE"}
  PROVE  Sound(DeleteRr(z, w))
<1> DEFINE gone == {r \in Named(z, w.name) : w.type \in {"ANY", r.type}
                                             /\ (w.class = "NONE" => r.data = w.data)}
           servers == Rrset(z, Apex, "NS")
           kept == CASE w.class = "ANY" -> servers
                     [] w.class = "NONE" -> IF Cardinality(servers) = 1 THEN servers ELSE {}
<1>1. DeleteRr(z, w) = z \ (gone \ kept)
  BY DEF DeleteRr
<1>2. DeleteRr(z, w) \subseteq z
  BY <1>1
<1>3. IsFiniteSet(DeleteRr(z, w))
  BY <1>2, FS_Subset DEF Sound
<1>4. PICK a \in servers : TRUE
  BY DEF Sound, Legal
<1>5. \E s \in servers : s \in DeleteRr(z, w)
  <2>1. servers \subseteq z
    BY DEF Rrset
  <2>2. CASE kept = servers
    BY <1>1, <1>4, <2>1, <2>2
  <2>3. CASE kept # servers
    <3>1. w.class = "NONE" /\ Cardinality(servers) # 1
      BY <2>3
    <3>2. IsFiniteSet(servers)
      BY <2>1, FS_Subset DEF Sound
    <3>3. PICK b \in servers : b # a
      BY <1>4, <3>1, <3>2, TwoServers
    <3>4. a.data # b.data
      <4>1. a \in z /\ b \in z /\ a.name = b.name /\ a.type = b.type
        BY DEF Rrset
      <4>2. a.ttl = b.ttl /\ IsRecord(a) /\ IsRecord(b)
        BY <4>1 DEF Sound, Legal
      <4>3. QED
        BY <3>3, <4>1, <4>2 DEF IsRecord
    <3>5. a \notin gone \/ b \notin gone
      BY <3>1, <3>4
    <3>6. QED
      BY <1>1, <2>1, <3>5
  <2>4. QED
    BY <2>2, <2>3
<1>6. Rrset(DeleteRr(z, w), Apex, "NS") # {}
  BY <1>5 DEF Rrset
<1>7. QED
  BY <1>2, <1>3, <1>6 DEF Sound, Legal

LEMMA RrSound ==
  ASSUME NEW z, Sound(z), NEW w, w.class \in {"IN", "ANY", "NONE"}, w.class = "IN" => w.type # "ANY"
  PROVE  Sound(ApplyRr(z, w))
BY AddSound, DeleteSound DEF ApplyRr

(* Update entries are encoded with the classes named processes. *)
LEMMA EncodeClass ==
  ASSUME NEW e, \/ e.kind = "AddRecord" /\ e.record.type # "ANY"
                \/ e.kind \in {"DeleteRecord", "DeleteRrset", "DeleteName"}
  PROVE  /\ EncodeEntry(e).class \in {"IN", "ANY", "NONE"}
         /\ EncodeEntry(e).class = "IN" => EncodeEntry(e).type # "ANY"
<1>1. CASE e.kind = "AddRecord"
  BY <1>1 DEF EncodeEntry, Wire
<1>2. CASE e.kind = "DeleteRecord"
  BY <1>2 DEF EncodeEntry, Wire
<1>3. CASE e.kind = "DeleteRrset"
  BY <1>3 DEF EncodeEntry, Wire
<1>4. CASE e.kind = "DeleteName"
  BY <1>4 DEF EncodeEntry, Wire
<1>5. QED
  BY <1>1, <1>2, <1>3, <1>4

LEMMA EditSound ==
  ASSUME NEW z, Sound(z), NEW e, e.kind \in Kinds, e.record.type # "ANY"
  PROVE  Sound(ApplyEdit(z, e))
<1>1. /\ AddOf(e.record).class = "IN" /\ AddOf(e.record).type # "ANY"
      /\ \A r : DeleteOf(r).class = "NONE"
  BY DEF AddOf, DeleteOf, EncodeEntry, Wire
<1>2. CASE e.kind = "Added"
  BY <1>1, <1>2, RrSound DEF ApplyEdit
<1>3. CASE e.kind = "Removed"
  BY <1>1, <1>3, RrSound DEF ApplyEdit
<1>4. CASE e.kind = "TtlChanged"
  <2>1. PICK y : y = ApplyRr(z, DeleteOf([e.record EXCEPT !.ttl = e.old_ttl]))
    OBVIOUS
  <2>2. Sound(y)
    BY <1>1, <2>1, RrSound
  <2>3. ApplyEdit(z, e) = ApplyRr(y, AddOf(e.record))
    BY <1>4, <2>1 DEF ApplyEdit
  <2>4. QED
    BY <1>1, <2>2, <2>3, RrSound
<1>5. QED
  BY <1>2, <1>3, <1>4 DEF Kinds

(* What an entry of the diff does to a zone that named holds.              *)
LEMMA SoundUnique ==
  ASSUME NEW z, Sound(z)
  PROVE  Unique(z)
BY DEF Sound, Legal, Unique, IsRecord, Identity

(* An addition and a deletion carry their record over the wire. *)
LEMMA AddWire ==
  ASSUME NEW g, IsRecord(g)
  PROVE  /\ AddOf(g).name = g.name /\ AddOf(g).type = g.type /\ AddOf(g).data = g.data
         /\ AddOf(g).ttl = g.ttl /\ AddOf(g).class = "IN"
         /\ RecordOf(g.name, g.type, g.data, g.ttl) = g
BY DEF AddOf, EncodeEntry, Wire, RecordOf, IsRecord

LEMMA DeleteWire ==
  ASSUME NEW g, IsRecord(g), NEW t
  PROVE  /\ DeleteOf(g).name = g.name /\ DeleteOf(g).type = g.type
         /\ DeleteOf(g).data = g.data /\ DeleteOf(g).class = "NONE"
         /\ DeleteOf([g EXCEPT !.ttl = t]) = DeleteOf(g)
<1>1. \A r : DeleteOf(r) = Wire(r.name, r.type, "NONE", 0, r.data)
  BY DEF DeleteOf, EncodeEntry
<1>2. PICK h : h = [g EXCEPT !.ttl = t]
  OBVIOUS
<1>3. g = [name |-> g.name, type |-> g.type, data |-> g.data, ttl |-> g.ttl]
  BY DEF IsRecord
<1>4. h.name = g.name /\ h.type = g.type /\ h.data = g.data
  BY <1>2, <1>3
<1>5. DeleteOf(h) = DeleteOf(g)
  BY <1>1, <1>4
<1>6. QED
  BY <1>1, <1>2, <1>5 DEF Wire

(* A wanted record that is added takes its place; what else is there       *)
(* afterwards is wanted or was there before.                               *)
Takes(z, a, new, g) ==
  /\ g \in a
  /\ \A h \in new : h \in z => h \in a
  /\ \A x \in a : \/ x \in new
                  \/ \E r \in z : r \notin new /\ Identity(r) = Identity(x)
                                 /\ Identity(x) # Identity(g)

LEMMA AddWanted ==
  ASSUME NEW z, Sound(z), NEW new, Sound(new), NEW g \in new, ~Clash(z, AddOf(g))
  PROVE  Takes(z, AddRr(z, AddOf(g)), new, g)
<1>1. IsRecord(g) /\ \A r \in z \cup new : IsRecord(r)
  BY DEF Sound
<1>2. PICK w : /\ w = AddOf(g) /\ w.name = g.name /\ w.type = g.type /\ w.data = g.data /\ w.ttl = g.ttl
               /\ RecordOf(w.name, w.type, w.data, w.ttl) = g
  BY <1>1, AddWire
<1>3. PICK a : /\ a = AddRr(z, w)
               /\ a = {r \in z : ~(r.name = w.name /\ r.type = w.type)}
                      \cup {RecordOf(r.name, r.type, r.data, w.ttl) : r \in Neighbours(z, w)}
                      \cup {RecordOf(w.name, w.type, w.data, w.ttl)}
  BY <1>1, <1>2, AddForm
<1>4. g \in a
  BY <1>2, <1>3
<1>5. \A h \in new : h.name = g.name /\ h.type = g.type =>
                       /\ h.ttl = g.ttl /\ (h.type = "CNAME" => h = g)
                       /\ (h.data = g.data => h = g)
  BY <1>1 DEF Sound, Legal, IsRecord
<1>6. \A r \in z : RecordOf(r.name, r.type, r.data, r.ttl) = r
  BY <1>1 DEF IsRecord, RecordOf
<1>7. ASSUME NEW h \in new, h \in z
      PROVE  h \in a
  <2>1. CASE ~(h.name = w.name /\ h.type = w.type)
    BY <1>3, <1>7, <2>1
  <2>2. CASE h.name = w.name /\ h.type = w.type /\ h # g
    <3>1. h \in Neighbours(z, w) /\ h.ttl = w.ttl
      BY <1>2, <1>5, <1>7, <2>2 DEF Neighbours
    <3>2. h = RecordOf(h.name, h.type, h.data, w.ttl)
      BY <1>6, <1>7, <3>1
    <3>3. QED
      BY <1>3, <3>1, <3>2
  <2>3. QED
    BY <1>4, <2>1, <2>2
<1>8. ASSUME NEW x \in a, x \notin new
      PROVE  \E r \in z : r \notin new /\ Identity(r) = Identity(x) /\ Identity(x) # Identity(g)
  <2>1. CASE x \in z /\ ~(x.name = w.name /\ x.type = w.type)
    BY <1>2, <1>8, <2>1 DEF Identity
  <2>2. CASE \E r \in Neighbours(z, w) : x = RecordOf(r.name, r.type, r.data, w.ttl)
    <3>1. PICK r \in Neighbours(z, w) : x = RecordOf(r.name, r.type, r.data, w.ttl)
      BY <2>2
    <3>2. r \in z /\ r.name = g.name /\ r.type = g.type /\ r.data # g.data
      BY <1>2 DEF Neighbours
    <3>3. Identity(r) = Identity(x) /\ Identity(x) # Identity(g)
      BY <3>1, <3>2 DEF Identity, RecordOf
    <3>4. r \notin new
      BY <1>2, <1>5, <1>6, <1>8, <3>1, <3>2
    <3>5. QED
      BY <3>2, <3>3, <3>4
  <2>3. QED
    BY <1>2, <1>3, <1>8, <2>1, <2>2
<1>9. QED
  BY <1>2, <1>3, <1>4, <1>7, <1>8 DEF Takes

(* A record that is deleted goes, unless it is the last name server. *)
LEMMA DeleteForm ==
  ASSUME NEW z, Sound(z), NEW g, IsRecord(g), NEW x \in z
  PROVE  /\ DeleteRr(z, DeleteOf(g)) \subseteq z
         /\ Identity(x) # Identity(g) => x \in DeleteRr(z, DeleteOf(g))
         /\ Identity(x) = Identity(g) /\ x \in DeleteRr(z, DeleteOf(g)) =>
              Cardinality(Rrset(z, Apex, "NS")) = 1 /\ x \in Rrset(z, Apex, "NS")
<1>1. PICK w : /\ w = DeleteOf(g) /\ w.name = g.name /\ w.type = g.type /\ w.data = g.data
               /\ w.class = "NONE"
  BY DeleteWire
<1> DEFINE gone == {r \in Named(z, w.name) : w.type \in {"ANY", r.type}
                                             /\ (w.class = "NONE" => r.data = w.data)}
           servers == Rrset(z, Apex, "NS")
           kept == CASE w.class = "ANY" -> servers
                     [] w.class = "NONE" -> IF Cardinality(servers) = 1 THEN servers ELSE {}
<1>2. DeleteRr(z, w) = z \ (gone \ kept)
  BY DEF DeleteRr
<1>3. kept = IF Cardinality(servers) = 1 THEN servers ELSE {}
  BY <1>1
<1>4. w.type # "ANY"
  BY <1>1 DEF IsRecord
<1>5. x \in gone <=> Identity(x) = Identity(g)
  BY <1>1, <1>4 DEF Named, Identity
<1>6. QED
  BY <1>1, <1>2, <1>3, <1>5

-----------------------------------------------------------------------------
(* A zone on its way, by an update.                                        *)

(* No name changes from a CNAME to other records or back. *)
NoSwitch(old, new) ==
  \A r \in old, s \in new : r.name = s.name => (r.type = "CNAME") = (s.type = "CNAME")

(* On the way from old to new no wanted record is refused.                 *)
LEMMA NoClash ==
  ASSUME NEW z, Sound(z), NEW es, NEW n \in Nat, NEW k \in 0..n, NEW old, NEW new,
         IsDiff(es, n, old, new), Sound(old), Sound(new), NoSwitch(old, new),
         OnWay(z, es, n, k, new), NEW g \in new
  PROVE  ~Clash(z, AddOf(g))
<1>1. IsRecord(g) /\ AddOf(g).name = g.name /\ AddOf(g).type = g.type
  BY AddWire DEF Sound
<1>2. ASSUME NEW s \in new, s.name = g.name
      PROVE  (s.type = "CNAME") = (g.type = "CNAME")
  BY <1>2 DEF Sound, Legal
<1>3. ASSUME NEW r \in z, r.name = g.name
      PROVE  (r.type = "CNAME") = (g.type = "CNAME")
  <2>1. CASE r \in new
    BY <1>2, <1>3, <2>1
  <2>2. CASE ToGo(es, n, k, Identity(r))
    <3>1. PICK j \in 1..n : Identity(es[j].record) = Identity(r) /\ es[j].kind # "Added"
      BY <2>2 DEF ToGo
    <3>2. es[j].record.name = r.name /\ es[j].record.type = r.type
      BY <3>1 DEF Identity
    <3>3. es[j].record \in old \/ es[j].record \in new
      BY <3>1, EntryFacts DEF Kinds
    <3>4. CASE es[j].record \in new
      BY <1>2, <1>3, <3>2, <3>4
    <3>5. CASE es[j].record \in old
      BY <1>3, <3>2, <3>5 DEF NoSwitch
    <3>6. QED
      BY <3>3, <3>4, <3>5
  <2>3. QED
    BY <2>1, <2>2 DEF OnWay
<1>4. QED
  BY <1>1, <1>3 DEF Clash, Named

(* named takes a zone one entry further.                                   *)
LEMMA EditOnWay ==
  ASSUME NEW z, Sound(z), NEW es, NEW n \in Nat, NEW k \in 0..(n - 1), NEW old, NEW new,
         IsDiff(es, n, old, new), Sound(old), Sound(new), NoSwitch(old, new),
         OnWay(z, es, n, k, new)
  PROVE  OnWay(ApplyEdit(z, es[k + 1]), es, n, k + 1, new)
<1>0. k + 1 \in 1..n /\ k \in 0..n
  OBVIOUS
<1>1. PICK e : e = es[k + 1]
  OBVIOUS
<1>2. /\ e.kind \in Kinds
      /\ e.kind # "Removed" => e.record \in new
      /\ e.kind = "Removed" => e.record \in old /\ Identity(e.record) \notin Identities(new)
  BY <1>0, <1>1, EntryFacts DEF Kinds
<1>3. ASSUME NEW r \in z, r \notin new
      PROVE  \/ ToGo(es, n, k + 1, Identity(r))
             \/ Identity(e.record) = Identity(r) /\ e.kind # "Added"
  BY <1>1, <1>3, GoNext DEF OnWay
<1>4. ASSUME NEW g \in new
      PROVE  \/ g \in z
             \/ ToCome(es, n, k + 1, g)
             \/ e.record = g /\ e.kind # "Removed"
  BY <1>1, GoNext DEF OnWay
<1>5. Unique(new) /\ \A r \in z \cup old \cup new : IsRecord(r)
  BY SoundUnique DEF Sound
<1>6. CASE e.kind = "Added"
  <2>1. PICK g \in new : g = e.record
    BY <1>2, <1>6
  <2>2. ~Clash(z, AddOf(g))
    BY <1>0, NoClash
  <2>3. PICK a : a = AddRr(z, AddOf(g)) /\ a = ApplyEdit(z, e)
    <3>1. AddOf(g).class = "IN"
      BY <1>5, AddWire
    <3>2. QED
      BY <1>6, <2>1, <3>1 DEF ApplyEdit, ApplyRr
  <2>4. /\ g \in a
        /\ \A h \in new : h \in z => h \in a
        /\ \A x \in a : \/ x \in new
                        \/ \E r \in z : r \notin new /\ Identity(r) = Identity(x)
    <3>1. Takes(z, AddRr(z, AddOf(g)), new, g)
      BY <2>2, AddWanted
    <3>2. Takes(z, a, new, g)
      BY <2>3, <3>1
    <3>3. QED
      BY <3>2 DEF Takes
  <2>5. \A x \in a : x \in new \/ ToGo(es, n, k + 1, Identity(x))
    BY <1>3, <1>6, <2>4
  <2>6. \A h \in new : h \in a \/ ToCome(es, n, k + 1, h)
    BY <1>4, <2>1, <2>4
  <2>7. QED
    BY <1>1, <2>3, <2>5, <2>6 DEF OnWay
<1>7. CASE e.kind = "TtlChanged"
  <2>1. PICK g \in new : g = e.record
    BY <1>2, <1>7
  <2>2. PICK y : y = DeleteRr(z, DeleteOf(g))
    OBVIOUS
  <2>3. /\ AddOf(g).class = "IN" /\ DeleteOf(g).class = "NONE"
        /\ DeleteOf([g EXCEPT !.ttl = e.old_ttl]) = DeleteOf(g)
    BY <1>5, AddWire, DeleteWire
  <2>4. Sound(y)
    BY <2>2, <2>3, DeleteSound
  <2>5. y \subseteq z /\ \A x \in z : Identity(x) # Identity(g) => x \in y
    <3>1. \A x \in z : /\ DeleteRr(z, DeleteOf(g)) \subseteq z
                       /\ Identity(x) # Identity(g) => x \in DeleteRr(z, DeleteOf(g))
      BY <1>5, DeleteForm
    <3>2. y \subseteq z
      BY <2>2 DEF DeleteRr
    <3>3. QED
      BY <2>2, <3>1, <3>2
  <2>6. ~Clash(y, AddOf(g))
    <3>1. ~Clash(z, AddOf(g))
      BY <1>0, NoClash
    <3>2. QED
      BY <2>5, <3>1 DEF Clash, Named
  <2>7. PICK a : a = AddRr(y, AddOf(g)) /\ a = ApplyEdit(z, e)
    BY <1>7, <2>1, <2>2, <2>3 DEF ApplyEdit, ApplyRr
  <2>8. /\ g \in a
        /\ \A h \in new : h \in y => h \in a
        /\ \A x \in a :
             \/ x \in new
             \/ \E r \in y : r \notin new /\ Identity(r) = Identity(x) /\ Identity(x) # Identity(g)
    <3>1. Takes(y, AddRr(y, AddOf(g)), new, g)
      BY <2>4, <2>6, AddWanted
    <3>2. Takes(y, a, new, g)
      BY <2>7, <3>1
    <3>3. QED
      BY <3>2 DEF Takes
  <2>9. \A x \in a : x \in new \/ ToGo(es, n, k + 1, Identity(x))
    BY <1>3, <2>1, <2>5, <2>8
  <2>10. \A h \in new : h \in a \/ ToCome(es, n, k + 1, h)
    <3> TAKE h \in new
    <3>1. CASE Identity(h) = Identity(g)
      BY <1>5, <2>8, <3>1 DEF Unique
    <3>2. CASE Identity(h) # Identity(g)
      BY <1>4, <2>1, <2>5, <2>8, <3>2
    <3>3. QED
      BY <3>1, <3>2
  <2>11. QED
    BY <1>1, <2>7, <2>9, <2>10 DEF OnWay
<1>8. CASE e.kind = "Removed"
  <2>1. PICK o \in old : o = e.record /\ Identity(o) \notin Identities(new) /\ IsRecord(o)
    BY <1>2, <1>5, <1>8
  <2>2. PICK a : a = DeleteRr(z, DeleteOf(o)) /\ a = ApplyEdit(z, e)
    <3>1. DeleteOf(o).class = "NONE"
      BY <2>1, DeleteWire
    <3>2. QED
      BY <1>8, <2>1, <3>1 DEF ApplyEdit, ApplyRr
  <2>3. a \subseteq z
    BY <2>2 DEF DeleteRr
  <2>4. \A x \in z : Identity(x) # Identity(o) => x \in a
    BY <2>1, <2>2, DeleteForm
  <2>5. \A h \in new : h \in a \/ ToCome(es, n, k + 1, h)
    BY <1>4, <1>8, <2>1, <2>4 DEF Identities
  <2>6. ASSUME NEW x \in a, x \notin new
        PROVE  ToGo(es, n, k + 1, Identity(x))
    <3>1. SUFFICES ASSUME Identity(x) = Identity(o) PROVE FALSE
      BY <1>3, <2>1, <2>3, <2>6
    <3>2. Cardinality(Rrset(z, Apex, "NS")) = 1 /\ x \in Rrset(z, Apex, "NS")
      BY <2>1, <2>2, <2>3, <3>1, DeleteForm
    <3>3. PICK s \in new : s.name = Apex /\ s.type = "NS"
      BY DEF Sound, Legal, Rrset
    <3>4. s \in z
      <4>1. SUFFICES ASSUME ToCome(es, n, k, s) PROVE FALSE
        BY DEF OnWay
      <4>2. PICK j \in 1..n : k < j /\ es[j].kind # "Removed"
        BY <4>1 DEF ToCome
      <4>3. j # k + 1 /\ k + 1 < j
        BY <1>1, <1>8, <4>2
      <4>4. QED
        BY <1>0, <1>1, <1>8, <4>2, <4>3 DEF IsDiff
    <3>5. s \in Rrset(z, Apex, "NS")
      BY <3>3, <3>4 DEF Rrset
    <3>6. IsFiniteSet(Rrset(z, Apex, "NS"))
      BY FS_Subset DEF Sound, Rrset
    <3>7. x = s
      <4>1. \E y : Rrset(z, Apex, "NS") = {y}
        BY <3>2, <3>6, FS_Singleton
      <4>2. QED
        BY <3>2, <3>5, <4>1
    <3>8. QED
      BY <2>6, <3>7
  <2>7. QED
    BY <1>1, <2>2, <2>5, <2>6 DEF OnWay
<1>9. QED
  BY <1>1, <1>2, <1>6, <1>7, <1>8 DEF Kinds

(* apply_diff after diff gives the other zone.                             *)
LEMMA DiffApplied ==
  ASSUME NEW old, NEW new, Sound(old), Sound(new), NEW es \in Diffs(old, new)
  PROVE  ApplyDiff(old, es) = new
<1>1. PICK n \in Nat : IsDiff(es, n, old, new)
  BY DiffIsDiff DEF Sound
<1>2. DOMAIN es = 1..n
  BY <1>1 DEF IsDiff
<1>3. PICK h : IsDiffTrace(h, old, n, es)
  BY <1>2, DiffSteps, Zenon
<1>4. /\ h[0] = old /\ h[n] = ApplyDiff(old, es)
      /\ \A k \in 0..(n - 1) : h[k + 1] = ApplyEntry(h[k], es[k + 1])
  BY <1>3, Zenon DEF IsDiffTrace
<1>5. Unique(new) /\ \A r \in old \cup new : IsRecord(r)
  BY SoundUnique DEF Sound
<1> DEFINE S == {k \in Nat : k <= n => OnWay(h[k], es, n, k, new) /\ Waiting(h[k], es, n, k)}
<1>6. 0 \in S
  BY <1>1, <1>4, <1>5, WayBegins, WaitingBegins
<1>7. ASSUME NEW k \in Nat, k \in S
      PROVE  k + 1 \in S
  <2>1. SUFFICES ASSUME k + 1 <= n
                 PROVE  OnWay(h[k + 1], es, n, k + 1, new) /\ Waiting(h[k + 1], es, n, k + 1)
    OBVIOUS
  <2>2. k \in 0..(n - 1) /\ k <= n
    BY <2>1
  <2>3. OnWay(h[k], es, n, k, new) /\ Waiting(h[k], es, n, k)
    BY <1>7, <2>2
  <2>4. QED
    BY <1>1, <1>4, <1>5, <2>2, <2>3, EntryOnWay
<1>8. n \in S
  BY <1>6, <1>7, AllNat
<1>9. OnWay(h[n], es, n, n, new)
  BY <1>8
<1>10. QED
  BY <1>4, <1>9, WayEnds

(* An update with the entries of a diff reaches the other zone, from       *)
(* either of the two.                                                      *)
LEMMA DiffSent ==
  ASSUME NEW old, NEW new, Sound(old), Sound(new), NoSwitch(old, new),
         NEW es \in Diffs(old, new), NEW ps, NEW z, z \in {old, new}
  PROVE  ApplyUpdate(z, Encode(ps, ToUpdates(es)).updates) = new
<1>1. PICK n \in Nat : IsDiff(es, n, old, new)
  BY DiffIsDiff DEF Sound
<1>2. DOMAIN es = 1..n /\ \A i \in 1..n : es[i].kind \in Kinds
  BY <1>1, EntryFacts DEF IsDiff
<1>3. PICK u : u = ApplyUpdate(z, Encode(ps, ToUpdates(es)).updates)
  OBVIOUS
<1>4. PICK h : IsEditTrace(h, z, n, es, u)
  BY <1>2, <1>3, EditSteps, Zenon
<1>5. /\ h[0] = z /\ h[n] = u
      /\ \A k \in 0..(n - 1) : h[k + 1] = ApplyEdit(h[k], es[k + 1])
  BY <1>4, Zenon DEF IsEditTrace
<1>6. Unique(new) /\ \A r \in old \cup new : IsRecord(r)
  BY SoundUnique DEF Sound
<1> DEFINE S == {k \in Nat : k <= n => OnWay(h[k], es, n, k, new) /\ Sound(h[k])}
<1>7. 0 \in S
  BY <1>1, <1>5, <1>6, WayBegins
<1>8. ASSUME NEW k \in Nat, k \in S
      PROVE  k + 1 \in S
  <2>1. SUFFICES ASSUME k + 1 <= n
                 PROVE  OnWay(h[k + 1], es, n, k + 1, new) /\ Sound(h[k + 1])
    OBVIOUS
  <2>2. k \in 0..(n - 1) /\ k <= n /\ k + 1 \in 1..n
    BY <2>1
  <2>3. OnWay(h[k], es, n, k, new) /\ Sound(h[k])
    BY <1>8, <2>2
  <2>4. es[k + 1].kind \in Kinds /\ es[k + 1].record.type # "ANY"
    <3>1. es[k + 1].record \in old \cup new
      BY <1>1, <2>2, EntryFacts DEF Kinds
    <3>2. QED
      BY <1>2, <1>6, <2>2, <3>1 DEF IsRecord
  <2>5. Sound(h[k + 1])
    BY <1>5, <2>2, <2>3, <2>4, EditSound
  <2>6. OnWay(h[k + 1], es, n, k + 1, new)
    BY <1>1, <1>5, <2>2, <2>3, EditOnWay
  <2>7. QED
    BY <2>5, <2>6
<1>9. n \in S
  BY <1>7, <1>8, AllNat
<1>10. OnWay(h[n], es, n, n, new)
  BY <1>9
<1>11. QED
  BY <1>3, <1>5, <1>10, WayEnds

-----------------------------------------------------------------------------
(* The editor and named.                                                   *)

(* The message of an edit from b to g, with the prerequisites of its kind: *)
(* each name and record set the edit is about exists, or is as b has it.   *)
TypesOf(b, g, names) == {r.type : r \in {x \in b \cup g : x.name \in names}}
UsedNames(b, names) == {n \in names : Named(b, n) # {}}
UsedSets(b, g, names) ==
  {p \in UsedNames(b, names) \X TypesOf(b, g, names) : Rrset(b, p[1], p[2]) # {}}

AskExists(b, g, names) ==
  {[kind |-> "NameExists", name |-> n] : n \in UsedNames(b, names)} \cup
  {[kind |-> "RrsetExists", name |-> p[1], type |-> p[2]] : p \in UsedSets(b, g, names)}

AskExact(b, g, names) ==
  {[kind |-> "NameNotExists", name |-> n] : n \in names \ UsedNames(b, names)} \cup
  {[kind |-> "RrsetNotExists", name |-> p[1], type |-> p[2]] :
     p \in (UsedNames(b, names) \X TypesOf(b, g, names)) \ UsedSets(b, g, names)} \cup
  {[kind |-> "RrsetExistsWithData", name |-> p[1], type |-> p[2],
    records |-> Rrset(b, p[1], p[2])] : p \in UsedSets(b, g, names)}

PrerequisiteSet(b, g, kind, names) ==
  CASE kind = "none" -> {} [] kind = "exists" -> AskExists(b, g, names)
    [] kind = "exact" -> AskExact(b, g, names)

IsMessage(m, b, g, kind) ==
  \E es \in Diffs(b, g) :
    m = Encode(SetToSeq(PrerequisiteSet(b, g, kind, Touched(es))), ToUpdates(es))

(* The prerequisites Send chooses are those. *)
LEMMA PrerequisiteForm ==
  ASSUME NEW kind, NEW names
  PROVE  Prerequisites(kind, names) = SetToSeq(PrerequisiteSet(base, goal, kind, names))
BY Zenon DEF Prerequisites, PrerequisiteSet, AskExists, AskExact, UsedSets, UsedNames, TypesOf, Types

(* One record is an update of its own. *)
LEMMA UpdateOne ==
  ASSUME NEW z, NEW w
  PROVE  ApplyUpdate(z, <<w>>) = ApplyRr(z, w)
<1>0. PICK n \in Nat : n = 0
  OBVIOUS
<1>1. PICK s, t : /\ DOMAIN s = 1..n
                  /\ t = <<w>> /\ DOMAIN t = 1..(n + 1) /\ t[n + 1] = w
  <2>1. DOMAIN <<>> = 1..0 /\ DOMAIN <<w>> = 1..1 /\ <<w>>[1] = w /\ 0 + 1 = 1
    OBVIOUS
  <2>2. QED
    BY <1>0, <2>1
<1>2. \A i \in 1..n : t[i] = s[i]
  BY <1>0
<1>3. ApplyUpdate(z, t) = ApplyRr(ApplyUpdate(z, s), t[n + 1])
  <2>1. DOMAIN s = 1..n /\ DOMAIN t = 1..(n + 1)
    BY <1>1
  <2>2. QED
    BY <1>2, <2>1, UpdateAppend
<1>4. ApplyUpdate(z, s) = z
  BY <1>0, <1>1, UpdateNone
<1>5. QED
  BY <1>1, <1>3, <1>4

(* Changes by others leave a zone that named can hold. *)
LEMMA OtherSound ==
  ASSUME NEW z, Sound(z), NEW e \in OtherEntries
  PROVE  Sound(ApplyUpdate(z, <<EncodeEntry(e)>>))
<1>1. /\ EncodeEntry(e).class \in {"IN", "ANY", "NONE"}
      /\ EncodeEntry(e).class = "IN" => EncodeEntry(e).type # "ANY"
  BY ZoneAssumption, EncodeClass
<1>2. Sound(ApplyRr(z, EncodeEntry(e)))
  BY <1>1, RrSound
<1>3. QED
  BY <1>2, UpdateOne

(* The zones on the way of an update, one for each entry of its diff.      *)
IsMessageTrace(es, n, h, b, g, z, r) ==
  IsDiff(es, n, b, g) /\ IsEditTrace(h, z, n, es, r)

LEMMA MessageSteps ==
  ASSUME NEW b, Sound(b), NEW g, Sound(g), NEW kind, NEW m, IsMessage(m, b, g, kind), NEW z
  PROVE  \E n \in Nat : \E es, h : IsMessageTrace(es, n, h, b, g, z, ApplyUpdate(z, m.updates))
<1>1. PICK es \in Diffs(b, g) :
        m = Encode(SetToSeq(PrerequisiteSet(b, g, kind, Touched(es))), ToUpdates(es))
  BY Zenon DEF IsMessage
<1>2. PICK n \in Nat : IsDiff(es, n, b, g)
  BY DiffIsDiff DEF Sound
<1>3. DOMAIN es = 1..n /\ \A i \in 1..n : es[i].kind \in Kinds
  BY <1>2, EntryFacts DEF IsDiff
<1>4. PICK ps : ps = SetToSeq(PrerequisiteSet(b, g, kind, Touched(es)))
  OBVIOUS
<1>5. PICK h : IsEditTrace(h, z, n, es, ApplyUpdate(z, Encode(ps, ToUpdates(es)).updates))
  BY <1>3, EditSteps, Zenon
<1>6. m = Encode(ps, ToUpdates(es))
  BY <1>1, <1>4
<1>7. IsEditTrace(h, z, n, es, ApplyUpdate(z, m.updates))
  BY <1>5, <1>6
<1>8. IsMessageTrace(es, n, h, b, g, z, ApplyUpdate(z, m.updates))
  BY <1>2, <1>7, Zenon DEF IsMessageTrace
<1>9. QED
  BY <1>8, Zenon

(* The entries are about records. *)
LEMMA EntryIsRecord ==
  ASSUME NEW es, NEW n \in Nat, NEW b, Sound(b), NEW g, Sound(g), IsDiff(es, n, b, g),
         NEW i \in 1..n
  PROVE  es[i].kind \in Kinds /\ IsRecord(es[i].record)
<1>1. es[i].kind \in Kinds
  BY EntryFacts
<1>2. es[i].record \in b \cup g
  BY <1>1, EntryFacts DEF Kinds
<1>3. QED
  BY <1>1, <1>2 DEF Sound

(* An update leaves a zone that named can hold, whatever it starts from. *)
LEMMA MessageSound ==
  ASSUME NEW b, Sound(b), NEW g, Sound(g), NEW kind, NEW m, IsMessage(m, b, g, kind),
         NEW z, Sound(z)
  PROVE  Sound(ApplyUpdate(z, m.updates))
<1>t. PICK n \in Nat : \E es, h : IsMessageTrace(es, n, h, b, g, z, ApplyUpdate(z, m.updates))
  BY MessageSteps, Zenon
<1>0. PICK es, h : IsMessageTrace(es, n, h, b, g, z, ApplyUpdate(z, m.updates))
  BY <1>t, Zenon
<1>1. IsDiff(es, n, b, g) /\ IsEditTrace(h, z, n, es, ApplyUpdate(z, m.updates))
  BY <1>0, Zenon DEF IsMessageTrace
<1>2. /\ h[0] = z /\ h[n] = ApplyUpdate(z, m.updates)
      /\ \A k \in 0..(n - 1) : h[k + 1] = ApplyEdit(h[k], es[k + 1])
  BY <1>1, Zenon DEF IsEditTrace
<1> DEFINE S == {k \in Nat : k <= n => Sound(h[k])}
<1>3. 0 \in S
  BY <1>2
<1>4. ASSUME NEW k \in Nat, k \in S
      PROVE  k + 1 \in S
  <2>1. SUFFICES ASSUME k + 1 <= n PROVE Sound(h[k + 1])
    OBVIOUS
  <2>2. k \in 0..(n - 1) /\ k <= n /\ k + 1 \in 1..n
    BY <2>1
  <2>3. Sound(h[k])
    BY <1>4, <2>2
  <2>4. es[k + 1].kind \in Kinds /\ es[k + 1].record.type # "ANY"
    BY <1>1, <2>2, EntryIsRecord DEF IsRecord
  <2>5. QED
    BY <1>2, <2>2, <2>3, <2>4, EditSound
<1>5. n \in S
  BY <1>3, <1>4, AllNat
<1>6. QED
  BY <1>2, <1>5

(* An update makes the wanted zone of either of the two. *)
LEMMA MessageSent ==
  ASSUME NEW b, Sound(b), NEW g, Sound(g), NoSwitch(b, g), NEW kind, NEW m,
         IsMessage(m, b, g, kind), NEW z \in {b, g}
  PROVE  ApplyUpdate(z, m.updates) = g
<1>1. PICK es \in Diffs(b, g) :
        m = Encode(SetToSeq(PrerequisiteSet(b, g, kind, Touched(es))), ToUpdates(es))
  BY Zenon DEF IsMessage
<1>2. PICK ps : ps = SetToSeq(PrerequisiteSet(b, g, kind, Touched(es)))
  OBVIOUS
<1>3. m = Encode(ps, ToUpdates(es))
  BY <1>1, <1>2
<1>4. ApplyUpdate(z, Encode(ps, ToUpdates(es)).updates) = g
  BY DiffSent
<1>5. QED
  BY <1>3, <1>4

-----------------------------------------------------------------------------
(* The inductive invariant: what the editor has read and wants are zones   *)
(* named loads, its message is one of a diff of the two, and as long as    *)
(* nobody else changes the zone it is the one or the other.                *)
EditOK ==
  /\ stage \in Stages
  /\ copies \in Nat /\ landed \in Nat /\ others \in Nat
  /\ stage # "unloaded" => Sound(zone)
  /\ stage \in {"read", "published", "sent", "refused"} => Sound(base) /\ Sound(goal)
  /\ guard \in Guards
  /\ stage = "sent" => IsMessage(message, base, goal, guard)
  /\ stage # "sent" => copies = 0 /\ landed = 0
  /\ stage = "published" => zone = goal
  /\ others = 0 /\ landed = 0 /\ stage \in {"read", "sent"} => zone = base
  /\ others = 0 /\ landed > 0 /\ NoSwitch(base, goal) => zone = goal

LEMMA EditInit == Init => EditOK
BY DEF Init, EditOK, Stages, Guards

LEMMA ZonesSound ==
  ASSUME NEW z \in Zones
  PROVE  Sound(z)
BY ZoneAssumption DEF Sound

(* The steps that change the zone or the message. *)
LEMMA EditProcess ==
  ASSUME EditOK, Process
  PROVE  EditOK'
<1>1. copies > 0 /\ copies' = copies - 1
  BY DEF Process
<1>2. stage = "sent"
  BY <1>1 DEF EditOK
<1>3. UNCHANGED <<stage, base, goal, guard, message, others>>
  BY DEF Process, editVars
<1>4. copies' \in Nat
  BY <1>1 DEF EditOK
<1>5. CASE PrerequisitesHold(zone, message.prerequisites)
  <2>1. zone' = ApplyUpdate(zone, message.updates) /\ landed' = landed + 1
    BY <1>5 DEF Process, Change
  <2>2. Sound(zone')
    BY <1>2, <2>1, MessageSound DEF EditOK
  <2>3. others = 0 /\ NoSwitch(base, goal) => zone \in {base, goal}
    BY <1>2 DEF EditOK
  <2>4. others = 0 /\ NoSwitch(base, goal) => zone' = goal
    BY <1>2, <2>1, <2>3, MessageSent DEF EditOK
  <2>5. landed' \in Nat /\ landed' # 0
    BY <2>1 DEF EditOK
  <2>6. QED
    BY <1>2, <1>3, <1>4, <2>2, <2>4, <2>5 DEF EditOK
<1>6. CASE ~PrerequisitesHold(zone, message.prerequisites)
  <2>1. UNCHANGED <<zone, landed>>
    BY <1>6 DEF Process
  <2>2. QED
    BY <1>2, <1>3, <1>4, <2>1 DEF EditOK
<1>7. QED
  BY <1>5, <1>6

LEMMA EditSend ==
  ASSUME EditOK, Send
  PROVE  EditOK'
<1>1. stage = "read" /\ UNCHANGED <<zone, base, goal, landed, others>>
  BY DEF Send
<1>2. PICK kind \in Guards : kind = guard'
  BY DEF Send
<1>3. PICK entries \in Diffs(base, goal) :
        LET m == Encode(Prerequisites(kind, Touched(entries)), ToUpdates(entries))
        IN IF TooLong(m)
           THEN stage' = "refused" /\ UNCHANGED <<message, copies, sends>>
           ELSE stage' = "sent" /\ message' = m /\ copies' = 1 /\ sends' = 1
  BY <1>2 DEF Send
<1>4. PICK m : m = Encode(Prerequisites(kind, Touched(entries)), ToUpdates(entries))
  OBVIOUS
<1>5. m = Encode(SetToSeq(PrerequisiteSet(base, goal, kind, Touched(entries))), ToUpdates(entries))
  BY <1>4, PrerequisiteForm
<1>6. IsMessage(m, base, goal, kind)
  BY <1>5, Zenon DEF IsMessage
<1>7. CASE TooLong(m)
  <2>1. stage' = "refused" /\ copies' = copies
    BY <1>3, <1>4, <1>7
  <2>2. QED
    BY <1>1, <1>2, <2>1 DEF EditOK, Stages
<1>8. CASE ~TooLong(m)
  <2>1. stage' = "sent" /\ message' = m /\ copies' = 1
    BY <1>3, <1>4, <1>8
  <2>2. IsMessage(message', base', goal', guard')
    BY <1>1, <1>2, <1>6, <2>1
  <2>3. QED
    BY <1>1, <1>2, <2>1, <2>2 DEF EditOK, Stages
<1>9. QED
  BY <1>7, <1>8

LEMMA EditNext ==
  ASSUME EditOK, [Next]_vars
  PROVE  EditOK'
<1>1. CASE Tick
  BY <1>1 DEF Tick, EditOK, editVars
<1>2. CASE Load
  <2>1. Sound(zone')
    BY <1>2, EditAssumption, ZonesSound DEF Load
  <2>2. QED
    BY <1>2, <2>1 DEF Load, EditOK, editVars, Stages
<1>3. CASE Other
  <2>1. PICK e \in OtherEntries : zone' = ApplyUpdate(zone, <<EncodeEntry(e)>>)
    BY <1>3 DEF Other, Change
  <2>2. stage \in {"read", "sent"} /\ others' = others + 1
    BY <1>3 DEF Other
  <2>3. Sound(zone')
    BY <2>1, <2>2, OtherSound DEF EditOK
  <2>4. others' \in Nat /\ others' # 0
    BY <2>2 DEF EditOK
  <2>5. QED
    BY <1>3, <2>2, <2>3, <2>4 DEF Other, EditOK, editVars
<1>4. CASE Process
  BY <1>4, EditProcess
<1>5. CASE Lose
  BY <1>5 DEF Lose, EditOK, editVars
<1>6. CASE Read
  <2>1. Sound(base') /\ Sound(goal')
    BY <1>6, ZonesSound DEF Read, EditOK
  <2>2. QED
    BY <1>6, <2>1 DEF Read, EditOK, Stages
<1>7. CASE Publish
  <2>1. PICK entries \in Diffs(base, goal) : zone' = ApplyDiff(base, entries)
    BY <1>7 DEF Publish
  <2>2. stage = "read" /\ stage' = "published" /\ UNCHANGED <<base, goal, guard, copies, landed, others>>
    BY <1>7 DEF Publish, editVars
  <2>3. Sound(base) /\ Sound(goal)
    BY <2>2 DEF EditOK
  <2>4. zone' = goal
    BY <2>1, <2>3, DiffApplied
  <2>5. QED
    BY <2>2, <2>3, <2>4 DEF EditOK, Stages
<1>8. CASE Send
  BY <1>8, EditSend
<1>9. CASE Resend
  <2>1. copies' = copies + 1 /\ stage = "sent"
    BY <1>9 DEF Resend
  <2>2. copies' \in Nat
    BY <2>1 DEF EditOK
  <2>3. QED
    BY <1>9, <2>1, <2>2 DEF Resend, EditOK, editVars
<1>10. CASE UNCHANGED vars
  BY <1>10 DEF vars, editVars, EditOK
<1>11. QED
  BY <1>1, <1>2, <1>3, <1>4, <1>5, <1>6, <1>7, <1>8, <1>9, <1>10 DEF Next

LEMMA EditInductive == Spec => []EditOK
BY EditInit, EditNext, PTL DEF Spec

(* PublishedIsGoal: a zone file made from a diff, by apply_diff on the     *)
(* zone it was computed from, is the zone the editor wants: diff and       *)
(* apply_diff lose no record, name or TTL, for every pair of zones and     *)
(* every order of the entries.                                             *)
THEOREM PublishedCorrect == Spec => []PublishedIsGoal
<1>1. EditOK => PublishedIsGoal
  BY DEF EditOK, PublishedIsGoal
<1>2. QED
  BY <1>1, EditInductive, PTL

(* UpdateReachesGoal: so does an update made from it by to_updates, in     *)
(* whatever order the entries are processed and however often it is sent,  *)
(* when no name changes from a CNAME to other records and nobody else      *)
(* changes the zone.                                                       *)
THEOREM ReachesCorrect == Spec => []UpdateReachesGoal
<1>1. ~CnameSwitch => NoSwitch(base, goal)
  BY DEF CnameSwitch, NoSwitch
<1>2. EditOK => UpdateReachesGoal
  BY <1>1 DEF EditOK, UpdateReachesGoal
<1>3. QED
  BY <1>2, EditInductive, PTL

-----------------------------------------------------------------------------
(* What an update takes away and adds.                                     *)

(* What an entry does to the identities of a zone: it takes away its own,  *)
(* or that of the CNAME its CNAME replaces, and adds its own at most.      *)
Replaces(g, id) == g.type = "CNAME" /\ id.type = "CNAME" /\ g.name = id.name

LEMMA AddIdentities ==
  ASSUME NEW z, Sound(z), NEW g, IsRecord(g), NEW a, a = AddRr(z, AddOf(g))
  PROVE  /\ \A x \in z : Identity(x) \in Identities(a) \/ Replaces(g, Identity(x))
         /\ \A x \in a : Identity(x) \in Identities(z) \/ Identity(x) = Identity(g)
         /\ ~Clash(z, AddOf(g)) => g \in a
<1>1. PICK w : /\ w = AddOf(g) /\ w.name = g.name /\ w.type = g.type /\ w.data = g.data /\ w.ttl = g.ttl
               /\ RecordOf(w.name, w.type, w.data, w.ttl) = g
  BY AddWire
<1>2. CASE Clash(z, w)
  <2>1. a = z
    BY <1>1, <1>2, AddForm DEF Sound
  <2>2. QED
    BY <1>1, <1>2, <2>1 DEF Identities
<1>3. CASE ~Clash(z, w)
  <2>1. a = {r \in z : ~(r.name = w.name /\ r.type = w.type)}
            \cup {RecordOf(r.name, r.type, r.data, w.ttl) : r \in Neighbours(z, w)}
            \cup {RecordOf(w.name, w.type, w.data, w.ttl)}
    <3>1. \A r \in z : IsRecord(r)
      BY DEF Sound
    <3>2. AddRr(z, w) = {r \in z : ~(r.name = w.name /\ r.type = w.type)}
                        \cup {RecordOf(r.name, r.type, r.data, w.ttl) : r \in Neighbours(z, w)}
                        \cup {RecordOf(w.name, w.type, w.data, w.ttl)}
      BY <1>3, <3>1, AddForm
    <3>3. QED
      BY <1>1, <3>2
  <2>2. g \in a
    BY <1>1, <2>1
  <2>3. \A r : Identity(RecordOf(r.name, r.type, r.data, w.ttl)) = Identity(r)
    BY DEF Identity, RecordOf
  <2>4. ASSUME NEW x \in z, ~Replaces(g, Identity(x))
        PROVE  Identity(x) \in Identities(a)
    <3>1. CASE ~(x.name = w.name /\ x.type = w.type)
      BY <2>1, <3>1 DEF Identities
    <3>2. CASE x.name = w.name /\ x.type = w.type /\ x.data = w.data
      <4>1. Identity(x) = Identity(g)
        BY <1>1, <3>2 DEF Identity
      <4>2. QED
        BY <2>2, <4>1 DEF Identities
    <3>3. CASE x.name = w.name /\ x.type = w.type /\ x.data # w.data
      <4>1. w.type # "CNAME"
        BY <1>1, <2>4, <3>3 DEF Replaces, Identity
      <4>2. x \in Neighbours(z, w)
        BY <3>3, <4>1 DEF Neighbours
      <4>3. RecordOf(x.name, x.type, x.data, w.ttl) \in a
        BY <2>1, <4>2
      <4>4. QED
        BY <2>3, <4>3 DEF Identities
    <3>4. QED
      BY <3>1, <3>2, <3>3
  <2>5. ASSUME NEW x \in a
        PROVE  Identity(x) \in Identities(z) \/ Identity(x) = Identity(g)
    <3>1. CASE x \in z
      BY <3>1 DEF Identities
    <3>2. CASE \E r \in Neighbours(z, w) : x = RecordOf(r.name, r.type, r.data, w.ttl)
      <4>1. PICK r \in z : x = RecordOf(r.name, r.type, r.data, w.ttl)
        BY <3>2 DEF Neighbours
      <4>2. QED
        BY <2>3, <4>1 DEF Identities
    <3>3. QED
      BY <1>1, <2>1, <3>1, <3>2
  <2>6. QED
    BY <2>2, <2>4, <2>5
<1>4. QED
  BY <1>2, <1>3

(* A record that takes the place of one with the same identity is in       *)
(* nobody's way.                                                           *)
LEMMA NoClashAgain ==
  ASSUME NEW z, Sound(z), NEW g, IsRecord(g), Identity(g) \in Identities(z), NEW y, y \subseteq z
  PROVE  ~Clash(y, AddOf(g))
<1>1. AddOf(g).name = g.name /\ AddOf(g).type = g.type
  BY AddWire
<1>2. PICK x \in z : x.name = g.name /\ x.type = g.type
  BY DEF Identities, Identity
<1>3. \A r \in z : r.name = x.name => (r.type = "CNAME" <=> x.type = "CNAME")
  BY DEF Sound, Legal
<1>4. QED
  BY <1>1, <1>2, <1>3 DEF Clash, Named

(* e takes z to a. *)
Keeps(z, a, e) ==
  /\ \A id \in Identities(z) :
       \/ id \in Identities(a)
       \/ e.kind = "Removed" /\ id = Identity(e.record)
       \/ e.kind # "Removed" /\ Replaces(e.record, id)
  /\ \A id \in Identities(a) :
       id \in Identities(z) \/ (e.kind # "Removed" /\ id = Identity(e.record))
  /\ e.kind # "Removed" /\ ~Clash(z, AddOf(e.record)) => e.record \in a
  /\ e.kind = "Removed" => a = DeleteRr(z, DeleteOf(e.record))

LEMMA EditKeeps ==
  ASSUME NEW z, Sound(z), NEW e, e.kind \in Kinds, IsRecord(e.record)
  PROVE  Keeps(z, ApplyEdit(z, e), e)
<1>1. PICK g, a : g = e.record /\ a = ApplyEdit(z, e)
  OBVIOUS
<1>2. /\ AddOf(g).class = "IN" /\ DeleteOf(g).class = "NONE"
      /\ DeleteOf([g EXCEPT !.ttl = e.old_ttl]) = DeleteOf(g)
  BY <1>1, AddWire, DeleteWire
<1>3. CASE e.kind = "Added"
  <2>1. a = AddRr(z, AddOf(g))
    BY <1>1, <1>2, <1>3 DEF ApplyEdit, ApplyRr
  <2>2. /\ \A x \in z : Identity(x) \in Identities(a) \/ Replaces(g, Identity(x))
        /\ \A x \in a : Identity(x) \in Identities(z) \/ Identity(x) = Identity(g)
        /\ ~Clash(z, AddOf(g)) => g \in a
    BY <1>1, <2>1, AddIdentities
  <2>3. \A id \in Identities(z) : id \in Identities(a) \/ Replaces(g, id)
    BY <2>2 DEF Identities
  <2>4. \A id \in Identities(a) : id \in Identities(z) \/ id = Identity(g)
    BY <2>2 DEF Identities
  <2>5. QED
    <3>1. Keeps(z, a, e)
      BY <1>1, <1>3, <2>2, <2>3, <2>4 DEF Keeps
    <3>2. QED
      BY <1>1, <3>1
<1>4. CASE e.kind = "Removed"
  <2>1. a = DeleteRr(z, DeleteOf(g))
    BY <1>1, <1>2, <1>4 DEF ApplyEdit, ApplyRr
  <2>2. \A x \in z : Identity(x) # Identity(g) => x \in a
    BY <1>1, <2>1, DeleteForm
  <2>3. a \subseteq z
    BY <2>1 DEF DeleteRr
  <2>4. \A id \in Identities(z) : id \in Identities(a) \/ id = Identity(g)
    BY <2>2 DEF Identities
  <2>5. \A id \in Identities(a) : id \in Identities(z)
    BY <2>3 DEF Identities
  <2>6. QED
    <3>1. Keeps(z, a, e)
      BY <1>1, <1>4, <2>1, <2>4, <2>5 DEF Keeps
    <3>2. QED
      BY <1>1, <3>1
<1>5. CASE e.kind = "TtlChanged"
  <2>1. PICK y : y = DeleteRr(z, DeleteOf(g))
    OBVIOUS
  <2>2. a = AddRr(y, AddOf(g))
    BY <1>1, <1>2, <1>5, <2>1 DEF ApplyEdit, ApplyRr
  <2>3. Sound(y)
    BY <1>2, <2>1, DeleteSound
  <2>4. y \subseteq z
    BY <2>1 DEF DeleteRr
  <2>5. \A x \in z : Identity(x) # Identity(g) => x \in y
    BY <1>1, <2>1, DeleteForm
  <2>6. /\ \A x \in y : Identity(x) \in Identities(a) \/ Replaces(g, Identity(x))
        /\ \A x \in a : Identity(x) \in Identities(y) \/ Identity(x) = Identity(g)
        /\ ~Clash(y, AddOf(g)) => g \in a
    BY <1>1, <2>2, <2>3, AddIdentities
  <2>7. ~Clash(z, AddOf(g)) => g \in a
    BY <2>4, <2>6 DEF Clash, Named
  <2>8. ASSUME NEW x \in z
        PROVE  Identity(x) \in Identities(a) \/ Replaces(g, Identity(x))
    <3>1. CASE Identity(x) = Identity(g)
      <4>1. Identity(g) \in Identities(z)
        BY <3>1 DEF Identities
      <4>2. g \in a
        BY <1>1, <2>4, <2>6, <4>1, NoClashAgain
      <4>3. QED
        BY <3>1, <4>2 DEF Identities
    <3>2. CASE Identity(x) # Identity(g)
      BY <2>5, <2>6, <3>2
    <3>3. QED
      BY <3>1, <3>2
  <2>9. \A id \in Identities(z) : id \in Identities(a) \/ Replaces(g, id)
    BY <2>8 DEF Identities
  <2>10. \A id \in Identities(a) : id \in Identities(z) \/ id = Identity(g)
    BY <2>4, <2>6 DEF Identities
  <2>11. QED
    <3>1. Keeps(z, a, e)
      BY <1>1, <1>5, <2>7, <2>9, <2>10 DEF Keeps
    <3>2. QED
      BY <1>1, <3>1
<1>6. QED
  BY <1>3, <1>4, <1>5 DEF Kinds

-----------------------------------------------------------------------------
(* What a message takes away and adds                                      *)
MayGo(id, b, g) ==
  \/ id \in Identities(b) \ Identities(g)
  \/ id.type = "CNAME" /\ \E s \in g \ b : s.type = "CNAME" /\ s.name = id.name

Survives(z, a, b, g) ==
  /\ \A id \in Identities(z) \ Identities(a) : MayGo(id, b, g)
  /\ Identities(a) \ Identities(z) \subseteq Identities(g)

(* An entry that removes nothing brings a record the old zone does not     *)
(* have, TTL included.                                                     *)
LEMMA EntryNew ==
  ASSUME NEW es, NEW n \in Nat, NEW b, Sound(b), NEW g, IsDiff(es, n, b, g), NEW i \in 1..n
  PROVE  /\ es[i].kind # "Removed" => es[i].record \in g \ b
         /\ es[i].kind = "Removed" => es[i].record \in b \ g
                                      /\ Identity(es[i].record) \notin Identities(g)
<1>1. PICK e : e = es[i]
  OBVIOUS
<1>2. /\ e.kind \in Kinds
      /\ e.kind = "Added" => e.record \in g /\ Identity(e.record) \notin Identities(b)
      /\ e.kind = "Removed" => e.record \in b /\ Identity(e.record) \notin Identities(g)
      /\ e.kind = "TtlChanged" => e.record \in g
  BY <1>1, EntryFacts
<1>3. e.kind = "TtlChanged" => e.record \notin b
  <2>1. SUFFICES ASSUME e.kind = "TtlChanged", e.record \in b PROVE FALSE
    OBVIOUS
  <2>2. e \in TtlChanges(b, g)
    BY <1>1, <2>1 DEF IsDiff, Additions, Removals
  <2>3. PICK o \in b : Identity(o) = Identity(e.record) /\ o.ttl # e.record.ttl
    BY <2>2 DEF TtlChanges
  <2>4. Unique(b)
    BY SoundUnique
  <2>5. QED
    BY <2>1, <2>3, <2>4 DEF Unique
<1>4. QED
  BY <1>1, <1>2, <1>3 DEF Kinds, Identities

LEMMA EntryMayGo ==
  ASSUME NEW es, NEW n \in Nat, NEW b, Sound(b), NEW g, Sound(g), IsDiff(es, n, b, g),
         NEW i \in 1..n, NEW id
  PROVE  /\ es[i].kind = "Removed" /\ id = Identity(es[i].record) => MayGo(id, b, g)
         /\ es[i].kind # "Removed" /\ Replaces(es[i].record, id) => MayGo(id, b, g)
         /\ es[i].kind # "Removed" => Identity(es[i].record) \in Identities(g)
<1>1. PICK e : e = es[i] /\ (e.kind # "Removed" => e.record \in g \ b)
               /\ (e.kind = "Removed" => e.record \in b /\ Identity(e.record) \notin Identities(g))
  BY EntryNew
<1>2. QED
  BY <1>1 DEF MayGo, Replaces, Identities

(* Entry by entry, nothing else goes or comes. *)
LEMMA MessageSurvives ==
  ASSUME NEW b, Sound(b), NEW g, Sound(g), NEW kind, NEW m, IsMessage(m, b, g, kind),
         NEW z, Sound(z)
  PROVE  Survives(z, ApplyUpdate(z, m.updates), b, g)
<1>t. PICK n \in Nat : \E es, h : IsMessageTrace(es, n, h, b, g, z, ApplyUpdate(z, m.updates))
  BY MessageSteps, Zenon
<1>0. PICK es, h : IsMessageTrace(es, n, h, b, g, z, ApplyUpdate(z, m.updates))
  BY <1>t, Zenon
<1>1. IsDiff(es, n, b, g) /\ IsEditTrace(h, z, n, es, ApplyUpdate(z, m.updates))
  BY <1>0, Zenon DEF IsMessageTrace
<1>2. /\ h[0] = z /\ h[n] = ApplyUpdate(z, m.updates)
      /\ \A k \in 0..(n - 1) : h[k + 1] = ApplyEdit(h[k], es[k + 1])
  BY <1>1, Zenon DEF IsEditTrace
<1> DEFINE S == {k \in Nat : k <= n => Sound(h[k]) /\ Survives(z, h[k], b, g)}
<1>3. 0 \in S
  BY <1>2 DEF Survives
<1>4. ASSUME NEW k \in Nat, k \in S
      PROVE  k + 1 \in S
  <2>1. SUFFICES ASSUME k + 1 <= n PROVE Sound(h[k + 1]) /\ Survives(z, h[k + 1], b, g)
    OBVIOUS
  <2>2. k \in 0..(n - 1) /\ k <= n /\ k + 1 \in 1..n
    BY <2>1
  <2>3. Sound(h[k]) /\ Survives(z, h[k], b, g)
    BY <1>4, <2>2
  <2>4. PICK e : /\ e = es[k + 1] /\ e.kind \in Kinds /\ IsRecord(e.record)
                 /\ h[k + 1] = ApplyEdit(h[k], e)
    BY <1>1, <1>2, <2>2, EntryIsRecord
  <2>5. Keeps(h[k], h[k + 1], e)
    BY <2>3, <2>4, EditKeeps
  <2>6. Sound(h[k + 1])
    BY <2>3, <2>4, EditSound DEF IsRecord
  <2>7. \A id : /\ e.kind = "Removed" /\ id = Identity(e.record) => MayGo(id, b, g)
                /\ e.kind # "Removed" /\ Replaces(e.record, id) => MayGo(id, b, g)
                /\ e.kind # "Removed" => Identity(e.record) \in Identities(g)
    BY <1>1, <2>2, <2>4, EntryMayGo
  <2>8. Survives(z, h[k + 1], b, g)
    BY <2>3, <2>5, <2>7 DEF Survives, Keeps
  <2>9. QED
    BY <2>6, <2>8
<1>5. n \in S
  BY <1>3, <1>4, AllNat
<1>6. QED
  BY <1>2, <1>5

(* A step in which a copy of the message takes effect *)
LEMMA Lands ==
  ASSUME EditOK, [Next]_vars, landed' > landed
  PROVE  /\ stage = "sent" /\ Sound(base) /\ Sound(goal) /\ Sound(zone)
         /\ IsMessage(message, base, goal, guard)
         /\ PrerequisitesHold(zone, message.prerequisites)
         /\ zone' = ApplyUpdate(zone, message.updates)
<1>1. CASE Process
  <2>1. stage = "sent"
    BY <1>1 DEF Process, EditOK
  <2>2. PrerequisitesHold(zone, message.prerequisites)
    BY <1>1 DEF Process, EditOK
  <2>3. QED
    BY <1>1, <2>1, <2>2 DEF Process, EditOK, Change
<1>2. CASE ~Process
  <2>1. landed' = landed
    BY <1>2 DEF Next, Tick, Load, Other, Lose, Read, Publish, Send, Resend, vars
  <2>2. QED
    BY <2>1 DEF EditOK
<1>3. QED
  BY <1>1, <1>2

(* OthersSurvive: an update takes away and adds only what the edit is      *)
(* about, whatever others have made of the zone since it was read; of      *)
(* theirs, only a CNAME gives way to the one the editor writes.            *)
THEOREM SurviveCorrect == Spec => OthersSurvive
<1> DEFINE A == landed' > landed =>
                  LET before == Identities(zone)
                      after  == Identities(zone')
                  IN /\ \A r \in before \ after :
                          Replaceable(r) \/ r \in Identities(base) \ Identities(goal)
                     /\ after \ before \subseteq Identities(goal)
<1>1. ASSUME EditOK, [Next]_vars PROVE A
  <2>1. SUFFICES ASSUME landed' > landed PROVE A
    OBVIOUS
  <2>2. /\ Sound(base) /\ Sound(goal) /\ Sound(zone)
        /\ IsMessage(message, base, goal, guard)
        /\ zone' = ApplyUpdate(zone, message.updates)
    BY <1>1, <2>1, Lands
  <2>3. Survives(zone, zone', base, goal)
    BY <2>2, MessageSurvives
  <2>4. QED
    BY <2>3 DEF Survives, MayGo, Replaceable
<1>2. EditOK /\ [Next]_vars => [A]_vars
  BY <1>1
<1>3. QED
  BY <1>2, EditInductive, PTL DEF Spec, OthersSurvive

-----------------------------------------------------------------------------
(* The sections of a message.                                              *)

(* The prerequisite section of a message: its records are those of the     *)
(* prerequisites of its kind.                                              *)
LEMMA SetSeq ==
  ASSUME NEW S, IsFiniteSet(S)
  PROVE  SetToSeq(S) \in Seq(S) /\ ToSet(SetToSeq(S)) = S
<1>1. PICK m \in Nat : m = Cardinality(S)
  BY FS_CardinalityType
<1>2. PICK f : f \in [1..m -> S] /\ IsInjective(f)
  <2>1. ExistsBijection(1..m, S)
    BY <1>1, FS_CardinalityType
  <2>2. QED
    BY <2>1 DEF ExistsBijection, Bijection, Injection
<1>3. PICK s : s = SetToSeq(S) /\ s \in [1..m -> S] /\ IsInjective(s)
  BY <1>1, <1>2 DEF SetToSeq
<1>4. s \in SetToSeqs(S)
  BY <1>1, <1>3 DEF SetToSeqs, IsInjective
<1>5. s \in Seq(S) /\ \A x \in S : \E i \in 1..Len(s) : s[i] = x
  BY <1>4, SeqsCover
<1>6. \A i \in DOMAIN s : s[i] \in S
  BY <1>3
<1>7. DOMAIN s = 1..Len(s)
  BY <1>5, LenProperties
<1>8. ToSet(s) = S
  BY <1>5, <1>6, <1>7 DEF ToSet
<1>9. QED
  BY <1>3, <1>5, <1>8

(* The members of sequences put together. *)
LEMMA SetOfConcat ==
  ASSUME NEW T, NEW s \in Seq(T), NEW t \in Seq(T)
  PROVE  ToSet(s \o t) = ToSet(s) \cup ToSet(t)
<1>1. PICK a \in Nat, b \in Nat : a = Len(s) /\ b = Len(t) /\ DOMAIN s = 1..a /\ DOMAIN t = 1..b
  BY LenProperties
<1>2. PICK u \in Seq(T) : u = s \o t /\ DOMAIN u = 1..(a + b)
                          /\ \A i \in 1..(a + b) : u[i] = IF i <= a THEN s[i] ELSE t[i - a]
  <2>1. /\ s \o t \in Seq(T) /\ Len(s \o t) = a + b
        /\ \A i \in 1..(a + b) : (s \o t)[i] = IF i <= a THEN s[i] ELSE t[i - a]
    BY <1>1, ConcatProperties
  <2>2. DOMAIN (s \o t) = 1..(a + b)
    BY <2>1, LenProperties
  <2>3. QED
    BY <2>1, <2>2
<1>3. ASSUME NEW x \in ToSet(u)
      PROVE  x \in ToSet(s) \cup ToSet(t)
  <2>1. PICK i \in 1..(a + b) : x = u[i]
    BY <1>2 DEF ToSet
  <2>2. CASE i <= a
    <3>1. i \in 1..a /\ x = s[i]
      BY <1>2, <2>1, <2>2
    <3>2. QED
      BY <1>1, <3>1 DEF ToSet
  <2>3. CASE ~(i <= a)
    <3>1. i - a \in 1..b /\ x = t[i - a]
      BY <1>2, <2>1, <2>3
    <3>2. QED
      BY <1>1, <3>1 DEF ToSet
  <2>4. QED
    BY <2>2, <2>3
<1>4. ASSUME NEW x \in ToSet(s)
      PROVE  x \in ToSet(u)
  <2>1. PICK i \in 1..a : x = s[i]
    BY <1>1 DEF ToSet
  <2>2. i \in 1..(a + b) /\ u[i] = x
    BY <1>2, <2>1
  <2>3. QED
    BY <1>2, <2>2 DEF ToSet
<1>5. ASSUME NEW x \in ToSet(t)
      PROVE  x \in ToSet(u)
  <2>1. PICK i \in 1..b : x = t[i]
    BY <1>1 DEF ToSet
  <2>2. PICK j \in 1..(a + b) : j = a + i /\ ~(j <= a) /\ j - a = i
    OBVIOUS
  <2>3. u[j] = x
    BY <1>2, <2>1, <2>2
  <2>4. QED
    BY <1>2, <2>3 DEF ToSet
<1>6. QED
  BY <1>2, <1>3, <1>4, <1>5

IsFlatOf(s, qs, n) ==
  \A x : x \in ToSet(s) <=> \E i \in 1..n : x \in ToSet(qs[i])

LEMMA FlatMembers ==
  ASSUME NEW T, NEW qs \in Seq(Seq(T)), NEW n \in Nat, n = Len(qs)
  PROVE  FlattenSeq(qs) \in Seq(T) /\ IsFlatOf(FlattenSeq(qs), qs, n)
<1>1. PICK g : IsFlatTrace(g, qs, n, T)
  BY FlatSteps, Zenon
<1>2. /\ g[0] = <<>> /\ g[n] = FlattenSeq(qs)
      /\ \A k \in 0..n : g[k] \in Seq(T)
      /\ \A k \in 0..(n - 1) : g[k + 1] = g[k] \o qs[k + 1]
  BY <1>1, Zenon DEF IsFlatTrace
<1> DEFINE S == {k \in Nat : k <= n => IsFlatOf(g[k], qs, k)}
<1>3. 0 \in S
  <2>1. ToSet(g[0]) = {}
    BY <1>2 DEF ToSet
  <2>2. QED
    BY <2>1 DEF IsFlatOf
<1>4. ASSUME NEW k \in Nat, k \in S
      PROVE  k + 1 \in S
  <2>1. SUFFICES ASSUME k + 1 <= n PROVE IsFlatOf(g[k + 1], qs, k + 1)
    OBVIOUS
  <2>2. k \in 0..(n - 1) /\ k \in 0..n /\ k <= n /\ k + 1 \in 1..n
    BY <2>1
  <2>3. IsFlatOf(g[k], qs, k)
    BY <1>4, <2>2
  <2>4. qs[k + 1] \in Seq(T) /\ g[k] \in Seq(T)
    BY <1>2, <2>2, ElementOfSeq
  <2>5. ToSet(g[k + 1]) = ToSet(g[k]) \cup ToSet(qs[k + 1])
    <3>1. ToSet(g[k] \o qs[k + 1]) = ToSet(g[k]) \cup ToSet(qs[k + 1])
      BY <2>4, SetOfConcat
    <3>2. QED
      BY <1>2, <2>2, <3>1
  <2>6. \A i : i \in 1..(k + 1) <=> i \in 1..k \/ i = k + 1
    OBVIOUS
  <2>7. QED
    BY <2>3, <2>5, <2>6 DEF IsFlatOf
<1>5. n \in S
  BY <1>3, <1>4, AllNat
<1>6. FlattenSeq(qs) \in Seq(T)
  BY <1>2
<1>7. QED
  BY <1>2, <1>5, <1>6

(* The records of one prerequisite. *)
LEMMA PrerequisiteWires ==
  ASSUME NEW p, p.kind \in {"RrsetExists", "RrsetNotExists", "NameExists", "NameNotExists"}
                \/ (p.kind = "RrsetExistsWithData" /\ IsFiniteSet(p.records))
  PROVE  /\ EncodePrerequisite(p) \in Seq(ToSet(EncodePrerequisite(p)))
         /\ p.kind = "RrsetExists" =>
              ToSet(EncodePrerequisite(p)) = {Wire(p.name, p.type, "ANY", 0, NoData)}
         /\ p.kind = "RrsetNotExists" =>
              ToSet(EncodePrerequisite(p)) = {Wire(p.name, p.type, "NONE", 0, NoData)}
         /\ p.kind = "NameExists" =>
              ToSet(EncodePrerequisite(p)) = {Wire(p.name, "ANY", "ANY", 0, NoData)}
         /\ p.kind = "NameNotExists" =>
              ToSet(EncodePrerequisite(p)) = {Wire(p.name, "ANY", "NONE", 0, NoData)}
         /\ p.kind = "RrsetExistsWithData" =>
              ToSet(EncodePrerequisite(p)) = {Wire(p.name, p.type, "IN", 0, r.data) : r \in p.records}
<1>1. ASSUME NEW w
      PROVE  <<w>> \in Seq(ToSet(<<w>>)) /\ ToSet(<<w>>) = {w}
  <2>1. DOMAIN <<w>> = 1..1 /\ <<w>>[1] = w
    OBVIOUS
  <2>2. ToSet(<<w>>) = {w}
    BY <2>1 DEF ToSet
  <2>3. QED
    BY <2>2
<1>2. CASE p.kind = "RrsetExists"
  <2>1. EncodePrerequisite(p) = <<Wire(p.name, p.type, "ANY", 0, NoData)>>
    BY <1>2 DEF EncodePrerequisite
  <2>2. QED
    BY <1>1, <1>2, <2>1
<1>3. CASE p.kind = "RrsetNotExists"
  <2>1. EncodePrerequisite(p) = <<Wire(p.name, p.type, "NONE", 0, NoData)>>
    BY <1>3 DEF EncodePrerequisite
  <2>2. QED
    BY <1>1, <1>3, <2>1
<1>4. CASE p.kind = "NameExists"
  <2>1. EncodePrerequisite(p) = <<Wire(p.name, "ANY", "ANY", 0, NoData)>>
    BY <1>4 DEF EncodePrerequisite
  <2>2. QED
    BY <1>1, <1>4, <2>1
<1>5. CASE p.kind = "NameNotExists"
  <2>1. EncodePrerequisite(p) = <<Wire(p.name, "ANY", "NONE", 0, NoData)>>
    BY <1>5 DEF EncodePrerequisite
  <2>2. QED
    BY <1>1, <1>5, <2>1
<1>6. CASE p.kind = "RrsetExistsWithData"
  <2>1. IsFiniteSet(p.records)
    BY <1>6
  <2>2. PICK rs : rs = SetToSeq(p.records) /\ rs \in Seq(p.records) /\ ToSet(rs) = p.records
    BY <2>1, SetSeq
  <2>3. PICK k \in Nat : k = Len(rs) /\ DOMAIN rs = 1..k
    BY <2>2, LenProperties
  <2>4. PICK s : /\ s = EncodePrerequisite(p)
                 /\ s = [i \in 1..k |-> Wire(p.name, p.type, "IN", 0, rs[i].data)]
    BY <1>6, <2>2, <2>3 DEF EncodePrerequisite
  <2>5. \A i \in 1..k : s[i] \in ToSet(s)
    BY <2>4 DEF ToSet
  <2>6. s \in Seq(ToSet(s))
    <3>1. s \in [1..k -> ToSet(s)]
      BY <2>4, <2>5
    <3>2. QED
      BY <3>1
  <2>7. ToSet(s) = {Wire(p.name, p.type, "IN", 0, rs[i].data) : i \in 1..k}
    BY <2>4 DEF ToSet
  <2>8. p.records = {rs[i] : i \in 1..k}
    BY <2>2, <2>3 DEF ToSet
  <2>9. ToSet(s) = {Wire(p.name, p.type, "IN", 0, r.data) : r \in p.records}
    BY <2>7, <2>8
  <2>10. QED
    BY <1>6, <2>4, <2>6, <2>9
<1>7. QED
  BY <1>2, <1>3, <1>4, <1>5, <1>6

(* The prerequisites that can be encoded. *)
IsPrerequisite(p) ==
  \/ p.kind \in {"RrsetExists", "RrsetNotExists", "NameExists", "NameNotExists"}
  \/ p.kind = "RrsetExistsWithData" /\ IsFiniteSet(p.records)

(* The records of the prerequisites of a set *)
IsSection(s, P) ==
  /\ Len(s) \in Nat
  /\ \A w : w \in ToSet(s) <=> \E p \in P : w \in ToSet(EncodePrerequisite(p))

LEMMA SectionForm ==
  ASSUME NEW P, IsFiniteSet(P), \A p \in P : IsPrerequisite(p), NEW us
  PROVE  IsSection(Encode(SetToSeq(P), us).prerequisites, P)
<1>1. PICK ps : ps = SetToSeq(P) /\ ps \in Seq(P) /\ ToSet(ps) = P
  BY SetSeq
<1>2. PICK n \in Nat : n = Len(ps) /\ DOMAIN ps = 1..n
  BY <1>1, LenProperties
<1> DEFINE qs == [i \in 1..n |-> EncodePrerequisite(ps[i])]
           T == UNION {ToSet(EncodePrerequisite(p)) : p \in P}
<1>3. \A i \in 1..n : ps[i] \in P
  BY <1>1, <1>2, ElementOfSeq
<1>4. \A p \in P : \E i \in 1..n : ps[i] = p
  BY <1>1, <1>2 DEF ToSet
<1>5. ASSUME NEW p \in P
      PROVE  EncodePrerequisite(p) \in Seq(T)
  <2>1. EncodePrerequisite(p) \in Seq(ToSet(EncodePrerequisite(p)))
    BY PrerequisiteWires DEF IsPrerequisite
  <2>2. ToSet(EncodePrerequisite(p)) \subseteq T
    OBVIOUS
  <2>3. QED
    BY <2>1, <2>2, SeqMonotonic
<1>6. Encode(ps, us).prerequisites = FlattenSeq(qs)
  BY <1>2 DEF Encode
<1> HIDE DEF T
<1>7. \A i \in 1..n : qs[i] = EncodePrerequisite(ps[i]) /\ qs[i] \in Seq(T)
  BY <1>3, <1>5
<1>8. qs \in Seq(Seq(T)) /\ Len(qs) = n
  <2>1. qs \in [1..n -> Seq(T)]
    BY <1>7
  <2>2. QED
    BY <2>1
<1> HIDE DEF qs
<1>9. FlattenSeq(qs) \in Seq(T) /\ IsFlatOf(FlattenSeq(qs), qs, n)
  BY <1>8, FlatMembers
<1>10. Len(FlattenSeq(qs)) \in Nat
  BY <1>9, LenProperties
<1>11. \A w : w \in ToSet(FlattenSeq(qs)) <=> \E p \in P : w \in ToSet(EncodePrerequisite(p))
  BY <1>3, <1>4, <1>7, <1>9 DEF IsFlatOf
<1>12. IsSection(FlattenSeq(qs), P)
  BY <1>10, <1>11 DEF IsSection
<1>13. QED
  BY <1>1, <1>6, <1>12

(* A finite diff has finitely many prerequisites. *)
LEMMA TouchedFinite ==
  ASSUME NEW es, NEW n \in Nat, DOMAIN es = 1..n
  PROVE  IsFiniteSet(Touched(es))
<1> DEFINE f == [i \in 1..n |-> es[i].record.name]
<1>1. f \in Surjection(1..n, Touched(es))
  BY DEF Surjection, Touched
<1>2. IsFiniteSet(1..n)
  BY FS_Interval
<1> HIDE DEF f
<1>3. QED
  BY <1>1, <1>2, FS_Surjection

LEMMA UsedFinite ==
  ASSUME NEW b, IsFiniteSet(b), NEW g, IsFiniteSet(g), NEW names, IsFiniteSet(names)
  PROVE  /\ IsFiniteSet(UsedNames(b, names)) /\ IsFiniteSet(names \ UsedNames(b, names))
         /\ IsFiniteSet(UsedSets(b, g, names))
         /\ IsFiniteSet((UsedNames(b, names) \X TypesOf(b, g, names)) \ UsedSets(b, g, names))
<1>1. IsFiniteSet(UsedNames(b, names)) /\ IsFiniteSet(names \ UsedNames(b, names))
  BY FS_Subset DEF UsedNames
<1>2. IsFiniteSet(TypesOf(b, g, names))
  <2> DEFINE D == {x \in b \cup g : x.name \in names}
             f == [r \in D |-> r.type]
  <2>1. IsFiniteSet(b \cup g)
    BY FS_Union
  <2>2. IsFiniteSet(D)
    BY <2>1, FS_Subset
  <2>3. f \in Surjection(D, TypesOf(b, g, names))
    BY DEF Surjection, TypesOf
  <2> HIDE DEF D, f
  <2>4. QED
    BY <2>2, <2>3, FS_Surjection
<1>3. IsFiniteSet(UsedNames(b, names) \X TypesOf(b, g, names))
  BY <1>1, <1>2, FS_Product
<1>4. UsedSets(b, g, names) \subseteq UsedNames(b, names) \X TypesOf(b, g, names)
  BY DEF UsedSets
<1>5. QED
  BY <1>1, <1>3, <1>4, FS_Subset

LEMMA ExistsFinite ==
  ASSUME NEW b, IsFiniteSet(b), NEW g, IsFiniteSet(g), NEW names, IsFiniteSet(names)
  PROVE  IsFiniteSet(AskExists(b, g, names)) /\ \A p \in AskExists(b, g, names) : IsPrerequisite(p)
<1> DEFINE U == UsedNames(b, names)
           V == UsedSets(b, g, names)
           A == {[kind |-> "NameExists", name |-> n] : n \in U}
           B == {[kind |-> "RrsetExists", name |-> p[1], type |-> p[2]] : p \in V}
           e == [n \in U |-> [kind |-> "NameExists", name |-> n]]
           f == [p \in V |-> [kind |-> "RrsetExists", name |-> p[1], type |-> p[2]]]
<1>1. AskExists(b, g, names) = A \cup B
  BY DEF AskExists
<1>2. IsFiniteSet(U) /\ IsFiniteSet(V)
  BY UsedFinite
<1>3. \A p \in A \cup B : IsPrerequisite(p)
  BY DEF IsPrerequisite
<1> HIDE DEF U, V
<1>4. e \in Surjection(U, A) /\ f \in Surjection(V, B)
  BY DEF Surjection
<1> HIDE DEF A, B, e, f
<1>5. IsFiniteSet(A) /\ IsFiniteSet(B)
  BY <1>2, <1>4, FS_Surjection
<1>6. IsFiniteSet(A \cup B)
  BY <1>5, FS_Union
<1>7. QED
  BY <1>1, <1>3, <1>6

LEMMA ExactFinite ==
  ASSUME NEW b, IsFiniteSet(b), NEW g, IsFiniteSet(g), NEW names, IsFiniteSet(names)
  PROVE  IsFiniteSet(AskExact(b, g, names)) /\ \A p \in AskExact(b, g, names) : IsPrerequisite(p)
<1> DEFINE U == names \ UsedNames(b, names)
           V == UsedSets(b, g, names)
           W == (UsedNames(b, names) \X TypesOf(b, g, names)) \ UsedSets(b, g, names)
           A == {[kind |-> "NameNotExists", name |-> n] : n \in U}
           B == {[kind |-> "RrsetNotExists", name |-> p[1], type |-> p[2]] : p \in W}
           C == {[kind |-> "RrsetExistsWithData", name |-> p[1], type |-> p[2],
                  records |-> Rrset(b, p[1], p[2])] : p \in V}
           d == [n \in U |-> [kind |-> "NameNotExists", name |-> n]]
           e == [p \in W |-> [kind |-> "RrsetNotExists", name |-> p[1], type |-> p[2]]]
           f == [p \in V |-> [kind |-> "RrsetExistsWithData", name |-> p[1], type |-> p[2],
                              records |-> Rrset(b, p[1], p[2])]]
<1>1. AskExact(b, g, names) = A \cup B \cup C
  BY DEF AskExact
<1>2. IsFiniteSet(U) /\ IsFiniteSet(V) /\ IsFiniteSet(W)
  BY UsedFinite
<1>3. \A p \in A \cup B \cup C : IsPrerequisite(p)
  <2>1. \A n, t : IsFiniteSet(Rrset(b, n, t))
    BY FS_Subset DEF Rrset
  <2>2. QED
    BY <2>1 DEF IsPrerequisite
<1> HIDE DEF U, V, W
<1>4. d \in Surjection(U, A)
  BY DEF Surjection
<1>5. e \in Surjection(W, B)
  BY DEF Surjection
<1>6. f \in Surjection(V, C)
  BY DEF Surjection
<1> HIDE DEF A, B, C, d, e, f
<1>7. IsFiniteSet(A) /\ IsFiniteSet(B) /\ IsFiniteSet(C)
  BY <1>2, <1>4, <1>5, <1>6, FS_Surjection
<1>8. IsFiniteSet(A \cup B)
  BY <1>7, FS_Union
<1>9. IsFiniteSet(A \cup B \cup C)
  BY <1>7, <1>8, FS_Union
<1>10. QED
  BY <1>1, <1>3, <1>9

LEMMA PrerequisitesFinite ==
  ASSUME NEW b, IsFiniteSet(b), NEW g, IsFiniteSet(g), NEW names, IsFiniteSet(names),
         NEW kind \in Guards
  PROVE  /\ IsFiniteSet(PrerequisiteSet(b, g, kind, names))
         /\ \A p \in PrerequisiteSet(b, g, kind, names) : IsPrerequisite(p)
<1>1. CASE kind = "none"
  BY <1>1, FS_EmptySet DEF PrerequisiteSet
<1>2. CASE kind = "exists"
  BY <1>2, ExistsFinite DEF PrerequisiteSet
<1>3. CASE kind = "exact"
  BY <1>3, ExactFinite DEF PrerequisiteSet
<1>4. QED
  BY <1>1, <1>2, <1>3 DEF Guards

(* The update section is a sequence, whose length is a number. *)
LEMMA UpdatesSeq ==
  ASSUME NEW n \in Nat, NEW es, DOMAIN es = 1..n, NEW ps, \A i \in 1..n : es[i].kind \in Kinds
  PROVE  Len(Encode(ps, ToUpdates(es)).updates) \in Nat
<1> DEFINE qs == [i \in 1..n |-> EntryUpdates(es[i])]
           T == UNION {ToSet(EntryUpdates(es[i])) : i \in 1..n}
<1>1. \A i \in 1..n : EntryUpdates(es[i]) \in Seq(T)
  <2> TAKE i \in 1..n
  <2>1. \A x : <<x>> \in Seq({x}) /\ ToSet(<<x>>) = {x}
    BY DEF ToSet
  <2>2. ASSUME NEW x, NEW y
        PROVE  <<x, y>> \in Seq({x, y}) /\ ToSet(<<x, y>>) = {x, y}
    <3>1. DOMAIN <<x, y>> = 1..2 /\ <<x, y>>[1] = x /\ <<x, y>>[2] = y
      OBVIOUS
    <3>2. ToSet(<<x, y>>) = {x, y}
      BY <3>1 DEF ToSet
    <3>3. QED
      BY <3>2
  <2>3. EntryUpdates(es[i]) \in Seq(ToSet(EntryUpdates(es[i])))
    <3>1. CASE es[i].kind \in {"Added", "Removed"}
      <4>1. PICK x : EntryUpdates(es[i]) = <<x>>
        BY <3>1 DEF EntryUpdates
      <4>2. QED
        BY <2>1, <4>1
    <3>2. CASE es[i].kind = "TtlChanged"
      <4>1. PICK x, y : EntryUpdates(es[i]) = <<x, y>>
        BY <3>2 DEF EntryUpdates
      <4>2. <<x, y>> \in Seq({x, y}) /\ ToSet(<<x, y>>) = {x, y}
        BY <2>2
      <4>3. QED
        BY <4>1, <4>2
    <3>3. QED
      BY <3>1, <3>2 DEF Kinds
  <2>4. ToSet(EntryUpdates(es[i])) \subseteq T
    OBVIOUS
  <2>5. QED
    BY <2>3, <2>4, SeqMonotonic
<1> HIDE DEF T
<1>2. qs \in Seq(Seq(T)) /\ Len(qs) = n
  BY <1>1
<1>3. ToUpdates(es) = FlattenSeq(qs)
  BY DEF ToUpdates
<1> HIDE DEF qs
<1>4. PICK us : us = ToUpdates(es) /\ us \in Seq(T)
  BY <1>2, <1>3, FlatMembers
<1>5. PICK k \in Nat : k = Len(us) /\ DOMAIN us = 1..k
  BY <1>4, LenProperties
<1>6. Encode(ps, us).updates = [i \in 1..k |-> EncodeEntry(us[i])]
  BY <1>5 DEF Encode
<1>7. Len([i \in 1..k |-> EncodeEntry(us[i])]) = k
  OBVIOUS
<1>8. QED
  BY <1>4, <1>6, <1>7

(* The sections of a message Send makes have lengths, and the              *)
(* prerequisite section is that of its kind.                               *)
LEMMA MessageLengths ==
  ASSUME NEW b, Sound(b), NEW g, Sound(g), NEW kind \in Guards, NEW es \in Diffs(b, g), NEW m,
         m = Encode(SetToSeq(PrerequisiteSet(b, g, kind, Touched(es))), ToUpdates(es))
  PROVE  /\ Len(m.prerequisites) \in Nat /\ Len(m.updates) \in Nat
         /\ IsSection(m.prerequisites, PrerequisiteSet(b, g, kind, Touched(es)))
<1>1. PICK n \in Nat : IsDiff(es, n, b, g)
  BY DiffIsDiff DEF Sound
<1>2. DOMAIN es = 1..n /\ \A i \in 1..n : es[i].kind \in Kinds
  BY <1>1, EntryFacts DEF IsDiff
<1>3. IsFiniteSet(Touched(es))
  BY <1>2, TouchedFinite
<1>4. PICK P : /\ P = PrerequisiteSet(b, g, kind, Touched(es)) /\ IsFiniteSet(P)
               /\ \A p \in P : IsPrerequisite(p)
  BY <1>3, PrerequisitesFinite DEF Sound
<1>5. PICK us : us = ToUpdates(es)
  OBVIOUS
<1>6. m = Encode(SetToSeq(P), us)
  BY <1>4, <1>5
<1>7. IsSection(Encode(SetToSeq(P), us).prerequisites, P)
  BY <1>4, SectionForm
<1>8. Len(Encode(SetToSeq(P), ToUpdates(es)).updates) \in Nat
  BY <1>2, UpdatesSeq
<1>9. QED
  BY <1>4, <1>5, <1>6, <1>7, <1>8 DEF IsSection

(* The counters, and sections that fit *)
CountsOK ==
  /\ day \in 0..LastDay
  /\ Len(message.prerequisites) <= MaxCount /\ Len(message.updates) <= MaxCount
  /\ sends \in 0..MaxSends /\ copies \in 0..sends /\ landed \in 0..(sends - copies)
  /\ others \in 0..MaxOthers

LEMMA CountsInit == Init => CountsOK
<1>1. Len(Empty.prerequisites) = 0 /\ Len(Empty.updates) = 0
  BY DEF Empty
<1>2. QED
  BY <1>1, EditAssumption, ZoneAssumption DEF Init, CountsOK

(* A message that is sent fits, for it was not too long. *)
LEMMA CountsSend ==
  ASSUME CountsOK, EditOK, Send
  PROVE  CountsOK'
<1>1. /\ stage = "read" /\ copies = 0 /\ landed = 0 /\ UNCHANGED <<day, landed, others>>
      /\ Sound(base) /\ Sound(goal)
  BY DEF Send, EditOK
<1>2. PICK kind \in Guards : kind = guard'
  BY DEF Send
<1>3. PICK entries \in Diffs(base, goal) :
        LET m == Encode(Prerequisites(kind, Touched(entries)), ToUpdates(entries))
        IN IF TooLong(m)
           THEN stage' = "refused" /\ UNCHANGED <<message, copies, sends>>
           ELSE stage' = "sent" /\ message' = m /\ copies' = 1 /\ sends' = 1
  BY <1>2 DEF Send
<1>4. PICK m : m = Encode(Prerequisites(kind, Touched(entries)), ToUpdates(entries))
  OBVIOUS
<1>5. m = Encode(SetToSeq(PrerequisiteSet(base, goal, kind, Touched(entries))), ToUpdates(entries))
  BY <1>4, PrerequisiteForm
<1>6. Len(m.prerequisites) \in Nat /\ Len(m.updates) \in Nat
  BY <1>1, <1>5, MessageLengths
<1>7. CASE TooLong(m)
  <2>1. UNCHANGED <<message, copies, sends>>
    BY <1>3, <1>4, <1>7
  <2>2. QED
    BY <1>1, <2>1 DEF CountsOK
<1>8. CASE ~TooLong(m)
  <2>1. message' = m /\ copies' = 1 /\ sends' = 1
    BY <1>3, <1>4, <1>8
  <2>2. Len(m.prerequisites) <= MaxCount /\ Len(m.updates) <= MaxCount
    BY <1>6, <1>8, ZoneAssumption DEF TooLong
  <2>3. QED
    BY <1>1, <2>1, <2>2, EditAssumption DEF CountsOK
<1>9. QED
  BY <1>7, <1>8

LEMMA CountsNext ==
  ASSUME CountsOK, EditOK, [Next]_vars
  PROVE  CountsOK'
<1>a. LastDay \in Nat /\ EditDay \in 0..LastDay /\ MaxSends \in Nat /\ MaxOthers \in Nat
  BY EditAssumption
<1>1. CASE Tick
  BY <1>a, <1>1 DEF Tick, CountsOK, editVars
<1>2. CASE Load
  BY <1>2 DEF Load, CountsOK, editVars
<1>3. CASE Other
  BY <1>a, <1>3 DEF Other, CountsOK, editVars
<1>4. CASE Process
  <2>1. copies > 0 /\ copies' = copies - 1 /\ UNCHANGED <<day, message, sends, others>>
    BY <1>4 DEF Process, editVars
  <2>2. landed' \in {landed, landed + 1}
    BY <1>4 DEF Process
  <2>3. QED
    BY <1>a, <2>1, <2>2 DEF CountsOK
<1>5. CASE Lose
  BY <1>a, <1>5 DEF Lose, CountsOK, editVars
<1>6. CASE Read
  BY <1>6 DEF Read, CountsOK
<1>7. CASE Publish
  BY <1>7 DEF Publish, CountsOK, editVars
<1>8. CASE Send
  BY <1>8, CountsSend
<1>9. CASE Resend
  BY <1>a, <1>9 DEF Resend, CountsOK, editVars
<1>10. CASE UNCHANGED vars
  BY <1>10 DEF vars, editVars, CountsOK
<1>11. QED
  BY <1>1, <1>2, <1>3, <1>4, <1>5, <1>6, <1>7, <1>8, <1>9, <1>10 DEF Next

(* ZonesOK: whatever the editor and others do, named has a zone that it     *)
(* would load, with its name server and with every CNAME alone, and no     *)
(* message has a section its count cannot tell.                            *)
THEOREM TypeCorrect == Spec => []ZonesOK
<1>1. CountsOK /\ EditOK /\ SerialOK => ZonesOK
  BY DEF CountsOK, EditOK, SerialOK, ZonesOK, Sound
<1>2. SerialOK /\ [Next]_vars => SerialOK'
  BY SerialNext
<1>3. CountsOK /\ EditOK /\ [Next]_vars => CountsOK'
  BY CountsNext
<1>4. QED
  BY <1>1, <1>2, <1>3, CountsInit, SerialInit, EditInductive, PTL DEF Spec

-----------------------------------------------------------------------------
(* Prerequisites that hold.                                                *)

(* A zone is as b at some names and types.                                 *)
AsAt(z, b, names, types) ==
  \A n \in names : /\ Named(b, n) = {} => Named(z, n) = {}
                   /\ \A t \in types :
                        Identities(Rrset(z, n, t)) = Identities(Rrset(b, n, t))

(* There is a prerequisite for every edited name and record set. *)
LEMMA ExactMembers ==
  ASSUME NEW b, NEW g, NEW names, NEW n \in names, NEW t \in TypesOf(b, g, names)
  PROVE  /\ Named(b, n) = {} => [kind |-> "NameNotExists", name |-> n] \in AskExact(b, g, names)
         /\ Named(b, n) # {} /\ Rrset(b, n, t) = {} =>
              [kind |-> "RrsetNotExists", name |-> n, type |-> t] \in AskExact(b, g, names)
         /\ Named(b, n) # {} /\ Rrset(b, n, t) # {} =>
              [kind |-> "RrsetExistsWithData", name |-> n, type |-> t, records |-> Rrset(b, n, t)]
                \in AskExact(b, g, names)
<1>1. PICK p : p = <<n, t>> /\ p[1] = n /\ p[2] = t
  <2>1. <<n, t>>[1] = n /\ <<n, t>>[2] = t
    OBVIOUS
  <2>2. QED
    BY <2>1, Zenon
<1>2. CASE Named(b, n) = {}
  BY <1>2 DEF AskExact, UsedNames
<1>3. CASE Named(b, n) # {} /\ Rrset(b, n, t) = {}
  <2>1. p \in (UsedNames(b, names) \X TypesOf(b, g, names)) \ UsedSets(b, g, names)
    BY <1>1, <1>3 DEF UsedNames, UsedSets
  <2>2. [kind |-> "RrsetNotExists", name |-> p[1], type |-> p[2]] \in AskExact(b, g, names)
    BY <2>1 DEF AskExact
  <2>3. QED
    BY <1>1, <1>3, <2>2
<1>4. CASE Named(b, n) # {} /\ Rrset(b, n, t) # {}
  <2>1. p \in UsedSets(b, g, names)
    BY <1>1, <1>4 DEF UsedNames, UsedSets
  <2>2. [kind |-> "RrsetExistsWithData", name |-> p[1], type |-> p[2],
         records |-> Rrset(b, p[1], p[2])] \in AskExact(b, g, names)
    BY <2>1 DEF AskExact
  <2>3. QED
    BY <1>1, <1>4, <2>2
<1>5. QED
  BY <1>2, <1>3, <1>4

(* Records with data are those of one record set each. *)
LEMMA ExactData ==
  ASSUME NEW b, NEW g, NEW names, NEW p \in AskExact(b, g, names), p.kind = "RrsetExistsWithData"
  PROVE  p.records = Rrset(b, p.name, p.type)
BY DEF AskExact

(* So every record with data in the section is one of the zone b. *)
LEMMA SectionData ==
  ASSUME NEW s, NEW b, NEW g, NEW names, IsFiniteSet(b), IsFiniteSet(g), IsFiniteSet(names),
         IsSection(s, AskExact(b, g, names)), NEW w \in ToSet(s), w.class = "IN"
  PROVE  \E r \in Rrset(b, w.name, w.type) : w.data = r.data
<1>1. PICK p \in AskExact(b, g, names) : w \in ToSet(EncodePrerequisite(p))
  BY DEF IsSection
<1>2. IsPrerequisite(p)
  BY ExactFinite
<1>3. p.kind = "RrsetExistsWithData"
  BY <1>1, <1>2, PrerequisiteWires DEF IsPrerequisite, Wire
<1>4. w \in {Wire(p.name, p.type, "IN", 0, r.data) : r \in p.records}
  BY <1>1, <1>2, <1>3, PrerequisiteWires DEF IsPrerequisite
<1>5. PICK r \in p.records : w = Wire(p.name, p.type, "IN", 0, r.data)
  BY <1>4
<1>6. w.name = p.name /\ w.type = p.type /\ w.data = r.data
  BY <1>5 DEF Wire
<1>7. QED
  BY <1>3, <1>5, <1>6, ExactData

(* Equal data, equal record sets. *)
LEMMA SetEqual ==
  ASSUME NEW z, NEW b, NEW n, NEW t,
         \A r \in Rrset(z, n, t) : \E x \in Rrset(b, n, t) : r.data = x.data,
         \A x \in Rrset(b, n, t) : \E r \in Rrset(z, n, t) : r.data = x.data
  PROVE  Identities(Rrset(z, n, t)) = Identities(Rrset(b, n, t))
BY DEF Identities, Identity, Rrset

(* Prerequisites that hold say that the zone is as b where it is edited. *)
LEMMA ExactHolds ==
  ASSUME NEW b, Sound(b), NEW g, Sound(g), NEW names, IsFiniteSet(names),
         NEW s, IsSection(s, AskExact(b, g, names)), NEW z, PrerequisitesHold(z, s)
  PROVE  AsAt(z, b, names, TypesOf(b, g, names))
<1>0. IsFiniteSet(b) /\ IsFiniteSet(g)
  BY DEF Sound
<1>1. ASSUME NEW p \in AskExact(b, g, names), NEW w \in ToSet(EncodePrerequisite(p))
      PROVE  w \in ToSet(s) /\ PrerequisiteHolds(z, s, w)
  BY <1>1 DEF IsSection, PrerequisitesHold
<1>2. \A p \in AskExact(b, g, names) : IsPrerequisite(p)
  BY <1>0, ExactFinite
<1>3. ASSUME NEW n \in names, Named(b, n) = {}
      PROVE  Named(z, n) = {}
  <2>1. PICK p : p = [kind |-> "NameNotExists", name |-> n]
    OBVIOUS
  <2>2. p \in AskExact(b, g, names)
    BY <1>3, <2>1 DEF AskExact, UsedNames
  <2>3. PICK w : w = Wire(n, "ANY", "NONE", 0, NoData) /\ w \in ToSet(EncodePrerequisite(p))
    BY <1>2, <2>1, <2>2, PrerequisiteWires DEF IsPrerequisite
  <2>4. PrerequisiteHolds(z, s, w)
    BY <1>1, <2>2, <2>3
  <2>5. QED
    BY <2>3, <2>4 DEF PrerequisiteHolds, Wire
<1>4. ASSUME NEW n \in names, NEW t \in TypesOf(b, g, names)
      PROVE  Identities(Rrset(z, n, t)) = Identities(Rrset(b, n, t))
  <2>0. t # "ANY"
    BY DEF TypesOf, Sound, IsRecord
  <2>1. CASE Named(b, n) = {}
    <3>1. Rrset(z, n, t) = {} /\ Rrset(b, n, t) = {}
      BY <1>3, <2>1 DEF Named, Rrset
    <3>2. QED
      BY <3>1
  <2>2. CASE Named(b, n) # {} /\ Rrset(b, n, t) = {}
    <3>1. PICK p : p = [kind |-> "RrsetNotExists", name |-> n, type |-> t]
      OBVIOUS
    <3>2. p \in AskExact(b, g, names)
      BY <2>2, <3>1, ExactMembers
    <3>3. PICK w : w = Wire(n, t, "NONE", 0, NoData) /\ w \in ToSet(EncodePrerequisite(p))
      BY <1>2, <3>1, <3>2, PrerequisiteWires DEF IsPrerequisite
    <3>4. PrerequisiteHolds(z, s, w)
      BY <1>1, <3>2, <3>3
    <3>5. Rrset(z, n, t) = {}
      BY <2>0, <3>3, <3>4 DEF PrerequisiteHolds, Wire
    <3>6. QED
      BY <2>2, <3>5
  <2>3. CASE Named(b, n) # {} /\ Rrset(b, n, t) # {}
    <3>1. PICK p : p = [kind |-> "RrsetExistsWithData", name |-> n, type |-> t,
                        records |-> Rrset(b, n, t)]
      OBVIOUS
    <3>2. p \in AskExact(b, g, names)
      BY <2>3, <3>1, ExactMembers
    <3>3. ToSet(EncodePrerequisite(p)) = {Wire(p.name, p.type, "IN", 0, r.data) : r \in p.records}
      BY <1>2, <3>1, <3>2, PrerequisiteWires DEF IsPrerequisite
    <3>4. \A r \in Rrset(b, n, t) : Wire(n, t, "IN", 0, r.data) \in ToSet(s)
      BY <1>1, <3>1, <3>2, <3>3
    <3>5. PICK o \in Rrset(b, n, t) : TRUE
      BY <2>3
    <3>6. PICK w : w = Wire(n, t, "IN", 0, o.data)
      OBVIOUS
    <3>7. PrerequisiteHolds(z, s, w)
      BY <3>4, <3>5, <3>6 DEF PrerequisitesHold
    <3>8. PICK Q : Q = {y \in ToSet(s) : y.class = "IN" /\ y.name = n /\ y.type = t}
      OBVIOUS
    <3>9. PICK D : D = {r.data : r \in Rrset(z, n, t)} /\ D = {q.data : q \in Q}
      BY <2>0, <3>6, <3>7, <3>8 DEF PrerequisiteHolds, Wire
    <3>10. ASSUME NEW r \in Rrset(z, n, t)
           PROVE  \E x \in Rrset(b, n, t) : r.data = x.data
      <4>1. PICK q \in Q : q.data = r.data
        BY <3>9
      <4>2. q \in ToSet(s) /\ q.class = "IN" /\ q.name = n /\ q.type = t
        BY <3>8
      <4>3. \E x \in Rrset(b, q.name, q.type) : q.data = x.data
        BY <1>0, <4>2, SectionData
      <4>4. QED
        BY <4>1, <4>2, <4>3
    <3>11. ASSUME NEW x \in Rrset(b, n, t)
           PROVE  \E r \in Rrset(z, n, t) : r.data = x.data
      <4>1. PICK q : q = Wire(n, t, "IN", 0, x.data) /\ q \in ToSet(s)
        BY <3>4
      <4>2. q.class = "IN" /\ q.name = n /\ q.type = t /\ q.data = x.data
        BY <4>1 DEF Wire
      <4>3. q \in Q
        BY <3>8, <4>1, <4>2
      <4>4. x.data \in D
        BY <3>9, <4>2, <4>3
      <4>5. QED
        BY <3>9, <4>4
    <3>12. QED
      BY <3>10, <3>11, SetEqual
  <2>4. QED
    BY <2>1, <2>2, <2>3
<1>5. QED
  BY <1>3, <1>4 DEF AsAt

(* Those that ask for names say that the names b has are there. *)
LEMMA ExistsHolds ==
  ASSUME NEW b, Sound(b), NEW g, Sound(g), NEW names, IsFiniteSet(names),
         NEW s, IsSection(s, AskExists(b, g, names)), NEW z, PrerequisitesHold(z, s),
         NEW n \in names, Named(b, n) # {}
  PROVE  Named(z, n) # {}
<1>1. PICK p : p = [kind |-> "NameExists", name |-> n]
  OBVIOUS
<1>2. p \in AskExists(b, g, names)
  BY <1>1 DEF AskExists, UsedNames
<1>3. IsPrerequisite(p)
  BY <1>2, ExistsFinite DEF Sound
<1>4. PICK w : w = Wire(n, "ANY", "ANY", 0, NoData) /\ w \in ToSet(EncodePrerequisite(p))
  BY <1>1, <1>3, PrerequisiteWires DEF IsPrerequisite
<1>5. PrerequisiteHolds(z, s, w)
  BY <1>2, <1>4 DEF IsSection, PrerequisitesHold
<1>6. QED
  BY <1>4, <1>5 DEF PrerequisiteHolds, Wire

-----------------------------------------------------------------------------
(* A guarded edit.                                                         *)

(* The names at which two zones differ; every one of them has an entry. *)
EditedOf(b, g) == {r.name : r \in (b \ g) \cup (g \ b)}

LEMMA EditedTouched ==
  ASSUME NEW b, Sound(b), NEW g, Sound(g), NEW es, NEW n \in Nat, IsDiff(es, n, b, g)
  PROVE  EditedOf(b, g) \subseteq Touched(es)
<1>1. OnWay(b, es, n, 0, g) /\ DOMAIN es = 1..n
  <2>1. Unique(g) /\ \A r \in b \cup g : IsRecord(r)
    BY SoundUnique DEF Sound
  <2>2. QED
    BY <2>1, WayBegins DEF IsDiff
<1>2. ASSUME NEW r \in b, r \notin g
      PROVE  r.name \in Touched(es)
  <2>1. PICK j \in 1..n : Identity(es[j].record) = Identity(r)
    BY <1>1, <1>2 DEF OnWay, ToGo
  <2>2. es[j].record.name = r.name
    BY <2>1 DEF Identity
  <2>3. QED
    BY <1>1, <2>2 DEF Touched
<1>3. ASSUME NEW r \in g, r \notin b
      PROVE  r.name \in Touched(es)
  <2>1. PICK j \in 1..n : es[j].record = r
    BY <1>1, <1>3 DEF OnWay, ToCome
  <2>2. QED
    BY <1>1, <2>1 DEF Touched
<1>4. QED
  BY <1>2, <1>3 DEF EditedOf

(* A zone on its way at the names that are edited: as OnWay, but for TTLs, *)
(* and with no CNAME in the way.                                           *)
Near(z, es, n, k, b, g) ==
  /\ \A r \in z : r.name \in EditedOf(b, g) /\ r.type \in TypesOf(b, g, EditedOf(b, g)) =>
       Identity(r) \in Identities(g) \/ ToGo(es, n, k, Identity(r))
  /\ \A x \in g : x.name \in EditedOf(b, g) =>
       Identity(x) \in Identities(z) \/ ToCome(es, n, k, x)
  /\ \A r \in z, x \in g : r.name = x.name /\ x.name \in EditedOf(b, g) =>
       (r.type = "CNAME" <=> x.type = "CNAME")

(* A zone that is as b at the edited names is on its way. *)
LEMMA NearBegins ==
  ASSUME NEW b, Sound(b), NEW g, Sound(g), NoSwitch(b, g),
         NEW es, NEW n \in Nat, IsDiff(es, n, b, g), NEW z, Sound(z),
         AsAt(z, b, EditedOf(b, g), TypesOf(b, g, EditedOf(b, g)))
  PROVE  Near(z, es, n, 0, b, g)
<1>1. OnWay(b, es, n, 0, g)
  <2>1. Unique(g) /\ \A r \in b \cup g : IsRecord(r)
    BY SoundUnique DEF Sound
  <2>2. QED
    BY <2>1, WayBegins
<1>2. PICK N, T : N = EditedOf(b, g) /\ T = TypesOf(b, g, N)
  OBVIOUS
<1>3. \A x \in b \cup g : x.name \in N => x.type \in T
  BY <1>2 DEF TypesOf
<1>4. ASSUME NEW r \in z, r.name \in N, r.type \in T
      PROVE  Identity(r) \in Identities(g) \/ ToGo(es, n, 0, Identity(r))
  <2>1. Identity(r) \in Identities(Rrset(z, r.name, r.type))
    BY DEF Identities, Rrset
  <2>2. Identity(r) \in Identities(Rrset(b, r.name, r.type))
    BY <1>2, <1>4, <2>1 DEF AsAt
  <2>3. PICK o \in b : Identity(o) = Identity(r)
    BY <2>2 DEF Identities, Rrset
  <2>4. o \in g \/ ToGo(es, n, 0, Identity(o))
    BY <1>1 DEF OnWay
  <2>5. QED
    BY <2>3, <2>4 DEF Identities
<1>5. ASSUME NEW x \in g, x.name \in N
      PROVE  Identity(x) \in Identities(z) \/ ToCome(es, n, 0, x)
  <2>1. CASE x \in b
    <3>1. Identity(x) \in Identities(Rrset(b, x.name, x.type))
      BY <2>1 DEF Identities, Rrset
    <3>2. Identity(x) \in Identities(Rrset(z, x.name, x.type))
      BY <1>2, <1>3, <1>5, <3>1 DEF AsAt
    <3>3. QED
      BY <3>2 DEF Identities, Rrset
  <2>2. CASE x \notin b
    BY <1>1, <2>2 DEF OnWay
  <2>3. QED
    BY <2>1, <2>2
<1>6. ASSUME NEW r \in z, NEW x \in g, r.name = x.name, x.name \in N
      PROVE  r.type = "CNAME" <=> x.type = "CNAME"
  <2>1. r \in Named(z, x.name)
    BY <1>6 DEF Named
  <2>2. Named(b, x.name) # {}
    BY <1>2, <1>6, <2>1 DEF AsAt
  <2>3. PICK o \in b : o.name = x.name
    BY <2>2 DEF Named
  <2>4. Identity(o) \in Identities(Rrset(b, x.name, o.type))
    BY <2>3 DEF Identities, Rrset
  <2>5. Identity(o) \in Identities(Rrset(z, x.name, o.type))
    BY <1>2, <1>3, <1>6, <2>3, <2>4 DEF AsAt
  <2>6. PICK y \in z : y.name = x.name /\ y.type = o.type
    BY <2>5 DEF Identities, Rrset
  <2>7. y.type = "CNAME" <=> r.type = "CNAME"
    BY <1>6, <2>6 DEF Sound, Legal
  <2>8. (o.type = "CNAME") = (x.type = "CNAME")
    BY <2>3 DEF NoSwitch
  <2>9. QED
    BY <2>6, <2>7, <2>8
<1>7. QED
  BY <1>2, <1>4, <1>5, <1>6 DEF Near

(* One entry further it still is: no CNAME of others is in the way, and    *)
(* a last name server that stays is a wanted one.                          *)
LEMMA NearNext ==
  ASSUME NEW b, Sound(b), NEW g, Sound(g),
         NEW es, NEW n \in Nat, IsDiff(es, n, b, g), NEW k \in 0..(n - 1), NEW z, Sound(z),
         Near(z, es, n, k, b, g)
  PROVE  Near(ApplyEdit(z, es[k + 1]), es, n, k + 1, b, g)
<1>0. PICK i \in 1..n : i = k + 1
  OBVIOUS
<1>1. PICK e, a : e = es[i] /\ a = ApplyEdit(z, e)
  OBVIOUS
<1>2. /\ e.kind # "Removed" => e.record \in g \ b
      /\ e.kind = "Removed" => e.record \in b \ g /\ Identity(e.record) \notin Identities(g)
  BY <1>1, EntryNew
<1>3. e.kind \in Kinds /\ IsRecord(e.record)
  BY <1>1, EntryIsRecord
<1>4. Keeps(z, a, e)
  BY <1>1, <1>3, EditKeeps
<1>5. PICK N, T : N = EditedOf(b, g) /\ T = TypesOf(b, g, N)
  OBVIOUS
<1>6. /\ \A r \in z : r.name \in N /\ r.type \in T =>
           Identity(r) \in Identities(g) \/ ToGo(es, n, k, Identity(r))
      /\ \A x \in g : x.name \in N => Identity(x) \in Identities(z) \/ ToCome(es, n, k, x)
      /\ \A r \in z, x \in g : r.name = x.name /\ x.name \in N =>
           (r.type = "CNAME" <=> x.type = "CNAME")
  BY <1>5 DEF Near
<1>7. \A id : ToGo(es, n, k, id) =>
                ToGo(es, n, i, id) \/ (Identity(e.record) = id /\ e.kind # "Added")
  BY <1>0, <1>1, GoNext
<1>8. \A x : ToCome(es, n, k, x) =>
               ToCome(es, n, i, x) \/ (e.record = x /\ e.kind # "Removed")
  BY <1>0, <1>1, GoNext
<1>9. ASSUME NEW x \in a
      PROVE  \/ \E r \in z : Identity(r) = Identity(x) /\ r.name = x.name /\ r.type = x.type
             \/ e.kind # "Removed" /\ Identity(x) = Identity(e.record)
                /\ x.name = e.record.name /\ x.type = e.record.type
  <2>1. Identity(x) \in Identities(z) \/ (e.kind # "Removed" /\ Identity(x) = Identity(e.record))
    BY <1>4 DEF Keeps, Identities
  <2>2. QED
    BY <2>1 DEF Identities, Identity
<1>10. ASSUME NEW x \in a, x.name \in N, x.type \in T
       PROVE  Identity(x) \in Identities(g) \/ ToGo(es, n, i, Identity(x))
  <2>1. CASE e.kind # "Removed" /\ Identity(x) = Identity(e.record)
    BY <1>2, <2>1 DEF Identities
  <2>2. CASE e.kind # "Removed" /\ Identity(x) # Identity(e.record)
    BY <1>6, <1>7, <1>9, <1>10, <2>2
  <2>3. CASE e.kind = "Removed" /\ Identity(x) # Identity(e.record)
    BY <1>6, <1>7, <1>9, <1>10, <2>3
  <2>4. CASE e.kind = "Removed" /\ Identity(x) = Identity(e.record)
    <3>1. a = DeleteRr(z, DeleteOf(e.record)) /\ a \subseteq z
      BY <1>4, <2>4 DEF Keeps, DeleteRr
    <3>2. Cardinality(Rrset(z, Apex, "NS")) = 1 /\ x \in Rrset(z, Apex, "NS")
      BY <1>3, <2>4, <3>1, DeleteForm
    <3>3. PICK s \in g : s.name = Apex /\ s.type = "NS"
      BY DEF Sound, Legal, Rrset
    <3>4. x.name = Apex
      BY <3>2 DEF Rrset
    <3>5. ~ToCome(es, n, k, s)
      <4>1. SUFFICES ASSUME ToCome(es, n, k, s) PROVE FALSE
        OBVIOUS
      <4>2. PICK j \in 1..n : k < j /\ es[j].kind # "Removed"
        BY <4>1 DEF ToCome
      <4>3. j # i /\ i < j
        BY <1>0, <1>1, <2>4, <4>2
      <4>4. QED
        BY <1>1, <2>4, <4>2, <4>3 DEF IsDiff
    <3>6. PICK y \in z : Identity(y) = Identity(s)
      BY <1>6, <1>10, <3>3, <3>4, <3>5 DEF Identities
    <3>7. y \in Rrset(z, Apex, "NS")
      BY <3>3, <3>6 DEF Rrset, Identity
    <3>8. IsFiniteSet(Rrset(z, Apex, "NS"))
      BY FS_Subset DEF Sound, Rrset
    <3>9. x = y
      <4>1. \E v : Rrset(z, Apex, "NS") = {v}
        BY <3>2, <3>8, FS_Singleton
      <4>2. QED
        BY <3>2, <3>7, <4>1
    <3>10. QED
      BY <3>3, <3>6, <3>9 DEF Identities
  <2>5. QED
    BY <2>1, <2>2, <2>3, <2>4
<1>11. ASSUME NEW x \in g, x.name \in N, e.record = x, e.kind # "Removed"
       PROVE  x \in a
  <2>1. AddOf(x).name = x.name /\ AddOf(x).type = x.type
    BY <1>3, <1>11, AddWire
  <2>2. ~Clash(z, AddOf(x))
    BY <1>6, <1>11, <2>1 DEF Clash, Named
  <2>3. QED
    BY <1>4, <1>11, <2>2 DEF Keeps
<1>12. ASSUME NEW x \in g, x.name \in N
       PROVE  Identity(x) \in Identities(a) \/ ToCome(es, n, i, x)
  <2>1. CASE ToCome(es, n, k, x)
    BY <1>8, <1>11, <1>12, <2>1 DEF Identities
  <2>2. CASE Identity(x) \in Identities(z)
    <3>1. CASE Identity(x) \in Identities(a)
      BY <3>1
    <3>2. CASE e.kind = "Removed" /\ Identity(x) = Identity(e.record)
      BY <1>2, <3>2 DEF Identities
    <3>3. CASE e.kind # "Removed" /\ Replaces(e.record, Identity(x))
      <4>1. x.type = "CNAME" /\ x.name = e.record.name /\ e.record \in g
        BY <1>2, <3>3 DEF Replaces, Identity
      <4>2. e.record = x
        BY <4>1 DEF Sound, Legal
      <4>3. QED
        BY <1>11, <1>12, <3>3, <4>2 DEF Identities
    <3>4. QED
      BY <1>4, <2>2, <3>1, <3>2, <3>3 DEF Keeps
  <2>3. QED
    BY <1>6, <1>12, <2>1, <2>2
<1>13. ASSUME NEW r \in a, NEW x \in g, r.name = x.name, x.name \in N
       PROVE  r.type = "CNAME" <=> x.type = "CNAME"
  <2>1. CASE \E q \in z : q.name = r.name /\ q.type = r.type
    BY <1>6, <1>13, <2>1
  <2>2. CASE e.kind # "Removed" /\ r.name = e.record.name /\ r.type = e.record.type
    <3>1. e.record \in g
      BY <1>2, <2>2
    <3>2. QED
      BY <1>13, <2>2, <3>1 DEF Sound, Legal
  <2>3. QED
    BY <1>9, <2>1, <2>2
<1>14. Near(a, es, n, i, b, g)
  BY <1>5, <1>10, <1>12, <1>13 DEF Near
<1>15. QED
  BY <1>0, <1>1, <1>14

(* After the last entry the edited record sets are the wanted ones. *)
LEMMA NearEnds ==
  ASSUME NEW b, NEW g, NEW es, NEW n \in Nat, NEW a, Near(a, es, n, n, b, g),
         NEW m \in EditedOf(b, g), NEW t \in TypesOf(b, g, EditedOf(b, g))
  PROVE  Identities(Rrset(a, m, t)) = Identities(Rrset(g, m, t))
<1>1. \A r \in a : r.name = m /\ r.type = t => Identity(r) \in Identities(g)
  BY DEF Near, ToGo
<1>2. \A x \in g : x.name = m => Identity(x) \in Identities(a)
  BY DEF Near, ToCome
<1>3. ASSUME NEW r \in Rrset(a, m, t)
      PROVE  Identity(r) \in Identities(Rrset(g, m, t))
  <2>1. PICK x \in g : Identity(x) = Identity(r) /\ x.name = m /\ x.type = t
    BY <1>1 DEF Rrset, Identities, Identity
  <2>2. x \in Rrset(g, m, t)
    BY <2>1 DEF Rrset
  <2>3. QED
    BY <2>1, <2>2 DEF Identities
<1>4. ASSUME NEW x \in Rrset(g, m, t)
      PROVE  Identity(x) \in Identities(Rrset(a, m, t))
  <2>1. PICK r \in a : Identity(r) = Identity(x) /\ r.name = m /\ r.type = t
    BY <1>2 DEF Rrset, Identities, Identity
  <2>2. r \in Rrset(a, m, t)
    BY <2>1 DEF Rrset
  <2>3. QED
    BY <2>1, <2>2 DEF Identities
<1>5. QED
  BY <1>3, <1>4 DEF Identities

(* What a message whose prerequisites hold makes of a zone *)
Guarded(z, a, b, g, kind) ==
  \A n \in EditedOf(b, g) :
    /\ kind = "exact" /\ NoSwitch(b, g) =>
         \A t \in TypesOf(b, g, EditedOf(b, g)) :
           Identities(Rrset(a, n, t)) = Identities(Rrset(g, n, t))
    /\ kind = "exists" => (Named(b, n) # {} => Named(z, n) # {})

(* What the prerequisites of each kind say of the zone they hold in. *)
LEMMA GuardHolds ==
  ASSUME NEW b, Sound(b), NEW g, Sound(g), NEW kind \in Guards, NEW es, NEW n \in Nat,
         IsDiff(es, n, b, g), NEW s, IsSection(s, PrerequisiteSet(b, g, kind, Touched(es))),
         NEW z, PrerequisitesHold(z, s)
  PROVE  /\ kind = "exact" => AsAt(z, b, EditedOf(b, g), TypesOf(b, g, EditedOf(b, g)))
         /\ kind = "exists" => \A m \in EditedOf(b, g) : Named(b, m) # {} => Named(z, m) # {}
<1>1. EditedOf(b, g) \subseteq Touched(es)
  BY EditedTouched
<1>2. IsFiniteSet(Touched(es))
  BY TouchedFinite DEF IsDiff
<1>3. TypesOf(b, g, EditedOf(b, g)) \subseteq TypesOf(b, g, Touched(es))
  BY <1>1 DEF TypesOf
<1>4. CASE kind = "exact"
  <2>1. IsSection(s, AskExact(b, g, Touched(es)))
    BY <1>4 DEF PrerequisiteSet
  <2>2. AsAt(z, b, Touched(es), TypesOf(b, g, Touched(es)))
    BY <1>2, <2>1, ExactHolds
  <2>3. QED
    BY <1>1, <1>3, <1>4, <2>2 DEF AsAt
<1>5. CASE kind = "exists"
  <2>1. IsSection(s, AskExists(b, g, Touched(es)))
    BY <1>5 DEF PrerequisiteSet
  <2>2. QED
    BY <1>1, <1>2, <1>5, <2>1, ExistsHolds
<1>6. QED
  BY <1>4, <1>5

(* The two together, along the entries of the diff. *)
LEMMA MessageGuarded ==
  ASSUME NEW b, Sound(b), NEW g, Sound(g), NEW kind \in Guards, NEW m, IsMessage(m, b, g, kind),
         NEW z, Sound(z), PrerequisitesHold(z, m.prerequisites)
  PROVE  Guarded(z, ApplyUpdate(z, m.updates), b, g, kind)
<1>1. PICK es \in Diffs(b, g) :
        m = Encode(SetToSeq(PrerequisiteSet(b, g, kind, Touched(es))), ToUpdates(es))
  BY Zenon DEF IsMessage
<1>2. PICK n \in Nat : IsDiff(es, n, b, g)
  BY DiffIsDiff DEF Sound
<1>3. DOMAIN es = 1..n /\ \A i \in 1..n : es[i].kind \in Kinds
  BY <1>2, EntryFacts DEF IsDiff
<1>4. IsSection(m.prerequisites, PrerequisiteSet(b, g, kind, Touched(es)))
  BY <1>1, MessageLengths
<1>5. /\ kind = "exact" => AsAt(z, b, EditedOf(b, g), TypesOf(b, g, EditedOf(b, g)))
      /\ kind = "exists" => \A x \in EditedOf(b, g) : Named(b, x) # {} => Named(z, x) # {}
  BY <1>2, <1>4, GuardHolds
<1>6. PICK u : u = ApplyUpdate(z, m.updates)
  OBVIOUS
<1>7. ASSUME kind = "exact", NoSwitch(b, g)
      PROVE  Near(u, es, n, n, b, g)
  <2>1. PICK ps : ps = SetToSeq(PrerequisiteSet(b, g, kind, Touched(es)))
    OBVIOUS
  <2>2. PICK h : IsEditTrace(h, z, n, es, ApplyUpdate(z, Encode(ps, ToUpdates(es)).updates))
    BY <1>3, EditSteps, Zenon
  <2>3. u = ApplyUpdate(z, Encode(ps, ToUpdates(es)).updates)
    BY <1>1, <1>6, <2>1
  <2>4. /\ h[0] = z /\ h[n] = u
        /\ \A k \in 0..(n - 1) : h[k + 1] = ApplyEdit(h[k], es[k + 1])
    BY <2>2, <2>3, Zenon DEF IsEditTrace
  <2> DEFINE S == {k \in Nat : k <= n => Near(h[k], es, n, k, b, g) /\ Sound(h[k])}
  <2>5. 0 \in S
    BY <1>2, <1>5, <1>7, <2>4, NearBegins
  <2>6. ASSUME NEW k \in Nat, k \in S
        PROVE  k + 1 \in S
    <3>1. SUFFICES ASSUME k + 1 <= n
                   PROVE  Near(h[k + 1], es, n, k + 1, b, g) /\ Sound(h[k + 1])
      OBVIOUS
    <3>2. k \in 0..(n - 1) /\ k <= n /\ k + 1 \in 1..n
      BY <3>1
    <3>3. Near(h[k], es, n, k, b, g) /\ Sound(h[k])
      BY <2>6, <3>2
    <3>4. es[k + 1].kind \in Kinds /\ es[k + 1].record.type # "ANY"
      BY <1>2, <3>2, EntryIsRecord DEF IsRecord
    <3>5. Sound(h[k + 1])
      BY <2>4, <3>2, <3>3, <3>4, EditSound
    <3>6. Near(h[k + 1], es, n, k + 1, b, g)
      BY <1>2, <2>4, <3>2, <3>3, NearNext
    <3>7. QED
      BY <3>5, <3>6
  <2>7. n \in S
    BY <2>5, <2>6, AllNat
  <2>8. QED
    BY <2>4, <2>7
<1>8. ASSUME kind = "exact", NoSwitch(b, g), NEW x \in EditedOf(b, g),
             NEW t \in TypesOf(b, g, EditedOf(b, g))
      PROVE  Identities(Rrset(u, x, t)) = Identities(Rrset(g, x, t))
  BY <1>7, <1>8, NearEnds
<1>9. Guarded(z, u, b, g, kind)
  BY <1>5, <1>8 DEF Guarded
<1>10. QED
  BY <1>6, <1>9

(* GuardedIsGoal: an update that asks for the record sets of the zone it   *)
(* was made from takes effect only where the edit ends with the records    *)
(* the editor wants, whoever else writes the zone and however late it      *)
(* arrives; one that asks for the names never brings back a deleted one.   *)
THEOREM GuardedCorrect == Spec => GuardedIsGoal
<1> DEFINE A == landed' > landed =>
                  \A n \in EditedNames :
                    /\ guard = "exact" /\ ~CnameSwitch =>
                         \A t \in Types(EditedNames) :
                           Identities(Rrset(zone', n, t)) = Identities(Rrset(goal, n, t))
                    /\ guard = "exists" => (Named(base, n) # {} => Named(zone, n) # {})
<1>1. ASSUME EditOK, [Next]_vars PROVE A
  <2>1. SUFFICES ASSUME landed' > landed PROVE A
    OBVIOUS
  <2>2. /\ Sound(base) /\ Sound(goal) /\ Sound(zone)
        /\ IsMessage(message, base, goal, guard)
        /\ PrerequisitesHold(zone, message.prerequisites)
        /\ zone' = ApplyUpdate(zone, message.updates)
    BY <1>1, <2>1, Lands
  <2>3. guard \in Guards
    BY <1>1 DEF EditOK
  <2>4. Guarded(zone, zone', base, goal, guard)
    BY <2>2, <2>3, MessageGuarded
  <2>5. EditedNames = EditedOf(base, goal) /\ Types(EditedNames) = TypesOf(base, goal, EditedNames)
    BY DEF EditedNames, EditedOf, Types, TypesOf
  <2>6. ~CnameSwitch => NoSwitch(base, goal)
    BY DEF CnameSwitch, NoSwitch
  <2>7. QED
    BY <2>4, <2>5, <2>6 DEF Guarded
<1>2. EditOK /\ [Next]_vars => [A]_vars
  BY <1>1
<1>3. QED
  BY <1>2, EditInductive, PTL DEF Spec, GuardedIsGoal
=============================================================================
