--------------------------- MODULE SerialStrategy ---------------------------
(***************************************************************************)
(* The next serial of a zone (bind9-sdk-core record.rs): one more, the     *)
(* seconds since 1970, or the date of today and a counter of two digits.   *)
(***************************************************************************)
EXTENDS Serial

Strategies == {"DateCounter", "UnixTimestamp", "Monotonic"}

PerDay == 100
SecondsPerDay == 86400

(* days_to_civil: the date of a day after 1970-01-01.  An era is 400 years *)
(* and begins in March, so that the leap day is the last of its year.      *)
DaysPerEra == 146097

(* The correction for the last day of an era is forgotten. *)
Bug_YearOfEra(doe) == (doe - doe \div 1460 + doe \div 36524) \div 365
YearOfEra(doe) == (doe - doe \div 1460 + doe \div 36524 - doe \div 146096) \div 365
YearStart(yoe) == 365 * yoe + yoe \div 4 - yoe \div 100

MonthOfYear(doy) == (5 * doy + 2) \div 153
MonthStart(mp) == (153 * mp + 2) \div 5

CivilOfEra(era, doe) ==
  LET yoe == YearOfEra(doe)
      doy == doe - YearStart(yoe)
      mp  == MonthOfYear(doy)
      m   == IF mp < 10 THEN mp + 3 ELSE mp - 9
      y   == yoe + era * 400
  IN [year  |-> IF m <= 2 THEN y + 1 ELSE y,
      month |-> m,
      day   |-> doy - MonthStart(mp) + 1]

Civil(days) ==
  LET z   == days + 719468
      era == z \div DaysPerEra
  IN CivilOfEra(era, z - era * DaysPerEra)

(* YYYYMMDD00 of a date *)
TodayBase(date) == (date.year * 10000 + date.month * 100 + date.day) * PerDay

(* compute_date_counter_serial *)
NextDateCounter(current, base) ==
  IF current \in base..(base + PerDay - 1)
  THEN LET counter == current - base
       IN IF counter >= PerDay - 1 THEN WrappingAdd(current, 1) ELSE base + counter + 1
  ELSE IF Newer(base, current) THEN base ELSE WrappingAdd(current, 1)

(* The serial of this very second is used again, and numbers are compared. *)
Bug_NextUnix(current, now) == IF now >= current THEN now ELSE WrappingAdd(current, 1)

NextUnix(current, now) == IF Newer(now, current) THEN now ELSE WrappingAdd(current, 1)

(* SerialStrategy::next, at a second of a day *)
NextSerial(strategy, current, day, second) ==
  CASE strategy = "DateCounter"   -> NextDateCounter(current, TodayBase(Civil(day)))
    [] strategy = "UnixTimestamp" -> NextUnix(current, (day * SecondsPerDay + second) % SerialSpace)
    [] strategy = "Monotonic"     -> WrappingAdd(current, 1)
=============================================================================
