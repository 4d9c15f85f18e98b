---------------------------- MODULE CalendarDate ----------------------------
(***************************************************************************)
(* How stored dates and times become text: decode_date, decode_timestamp,  *)
(* decode_time, decode_timetz and j2date (src/decode.c).  A column holds a *)
(* number of days or of microseconds from 2000-01-01; what is printed is   *)
(* kept as its fields.  Alignment and sizes are in TupleDecode.            *)
(*                                                                         *)
(* The lengths of a day and its parts are constants, so that a few ticks   *)
(* to the day reach every corner of the clock.                             *)
(***************************************************************************)
EXTENDS Integers

CONSTANTS
  Dates,       \* numbers of days stored in date columns
  Timestamps,  \* numbers of ticks stored in timestamp columns
  Times,       \* numbers of ticks since midnight
  Zones,       \* seconds west of Greenwich
  Second,      \* 1000000 microseconds
  Minute,      \* 60 seconds
  Hour,        \* 60 minutes
  Hours,       \* 24 hours in a day
  LastJulian   \* the last day an int32 can number, 2147483647

POSTGRES_EPOCH_JDATE == 2451545
Day == Second * Minute * Hour * Hours  \* USECS_PER_DAY

(* The first day j2date can count from, where its unsigned sum is zero.    *)
FirstJulian == -32044

(* C division, towards zero, and its remainder.                            *)
Quotient(a, b) == IF a >= 0 THEN a \div b ELSE -((-a) \div b)
Remainder(a, b) == a - Quotient(a, b) * b

ASSUME ClockAssumption ==
  /\ Second \in Nat \ {0} /\ Minute \in Nat \ {0}
  /\ Hour \in Nat \ {0} /\ Hours \in Nat \ {0}
(* Days whose sum with the epoch (decode.c:638) fits an int32.  Infinity,  *)
(* stored as the largest int32, is not one of them: its sum overflows.     *)
(* The days of a 64-bit timestamp are far fewer.                           *)
ASSUME DatesAssumption ==
  /\ LastJulian \in Int
  /\ Dates \subseteq {d \in Int :
                       /\ FirstJulian <= d + POSTGRES_EPOCH_JDATE
                       /\ d + POSTGRES_EPOCH_JDATE <= LastJulian}
ASSUME TimesAssumption ==
  /\ Timestamps \subseteq {t \in Int : t >= (FirstJulian - POSTGRES_EPOCH_JDATE) * Day}
  /\ Times \subseteq 0..Day /\ Zones \subseteq Int

VARIABLES
  kind,        \* type of the column
  stored,      \* the number in the tuple
  west,        \* the zone behind it, of a timetz
  pc,
  date, clock, zone  \* the fields printed

vars == <<kind, stored, west, pc, date, clock, zone>>

Nothing == [year |-> 0, era |-> "AD", month |-> 0, day |-> 0]
Midnight == [hour |-> 0, minute |-> 0, second |-> 0, tick |-> 0]
NoZone == [sign |-> "-", hour |-> 0, minute |-> 0]

Init ==
  /\ \/ kind = "date" /\ stored \in Dates /\ west = 0
     \/ kind = "timestamp" /\ stored \in Timestamps /\ west = 0
     \/ kind = "time" /\ stored \in Times /\ west = 0
     \/ kind = "timetz" /\ stored \in Times /\ west \in Zones
  /\ pc = "stored"
  /\ date = Nothing /\ clock = Midnight /\ zone = NoZone

-----------------------------------------------------------------------------
(* j2date.  Years are counted from March of 4801 BC; 146097 days are 400   *)
(* years, 1461 days four.                                                  *)

\* Variant: the centuries inside 400 years are forgotten.
WithLeapDaysLess(n) == n + 60 + (n \div 146097) * 3

(* The day a calendar with a leap year every four years would have         *)
(* reached.                                                                *)
WithLeapDays(n) ==
  n + 60 + (n \div 146097) * 3 + ((n % 146097) * 4 + 3) \div 146097

YearInFour(rest) == (rest * 4) \div 1461

(* The day of the year from March, and 123 to make up three months.        *)
DayOfYear(rest) ==
  (IF YearInFour(rest) # 0 THEN (rest + 305) % 365 ELSE (rest + 306) % 366) + 123

MonthFromMarch(days) == (days * 2141) \div 65536
MonthOf(days) == ((MonthFromMarch(days) + 10) % 12) + 1
DayOfMonth(days) == days - ((7834 * MonthFromMarch(days)) \div 256)

j2date(jd) ==
  LET julian == WithLeapDays(jd - FirstJulian)
      rest == julian % 1461
      days == DayOfYear(rest)
  IN [year |-> YearInFour(rest) + 4 * (julian \div 1461) - 4800,
      month |-> MonthOf(days), day |-> DayOfMonth(days)]

\* Variant: there is a year 0.
PrintedZero(d) ==
  [year |-> IF d.year < 0 THEN -d.year ELSE d.year,
   era |-> IF d.year < 0 THEN "BC" ELSE "AD",
   month |-> d.month, day |-> d.day]

(* There is no year 0: it is printed as 1 BC.                              *)
Printed(d) ==
  [year |-> IF d.year <= 0 THEN -d.year + 1 ELSE d.year,
   era |-> IF d.year <= 0 THEN "BC" ELSE "AD",
   month |-> d.month, day |-> d.day]

\* Variant: the minutes are not taken modulo the hour.
ClockOfWhole(t) ==
  LET sec == Quotient(t, Second)
  IN [hour |-> Quotient(Quotient(sec, Minute), Hour),
      minute |-> Quotient(sec, Minute),
      second |-> Remainder(sec, Minute), tick |-> Remainder(t, Second)]

ClockOf(t) ==
  LET sec == Quotient(t, Second)
  IN [hour |-> Quotient(Quotient(sec, Minute), Hour),
      minute |-> Remainder(Quotient(sec, Minute), Hour),
      second |-> Remainder(sec, Minute),
      tick |-> Remainder(t, Second)]

DecodeDate ==
  /\ pc = "stored" /\ kind = "date"
  /\ date' = Printed(j2date(stored + POSTGRES_EPOCH_JDATE))
  /\ pc' = "printed"
  /\ UNCHANGED <<kind, stored, west, clock, zone>>

(* A rest below zero belongs to the day before.                            *)
SplitDay(t) ==
  LET days == Quotient(t, Day)
      rest == t - days * Day
  IN IF rest < 0 THEN [days |-> days - 1, rest |-> rest + Day]
     ELSE [days |-> days, rest |-> rest]

DecodeTimestamp ==
  /\ pc = "stored" /\ kind = "timestamp"
  /\ LET split == SplitDay(stored)
     IN /\ date' = Printed(j2date(split.days + POSTGRES_EPOCH_JDATE))
        /\ clock' = ClockOf(split.rest)
  /\ pc' = "printed"
  /\ UNCHANGED <<kind, stored, west, zone>>

DecodeTime ==
  /\ pc = "stored" /\ kind = "time"
  /\ clock' = ClockOf(stored)
  /\ pc' = "printed"
  /\ UNCHANGED <<kind, stored, west, date, zone>>

\* Variant: the sign is that of the seconds stored.
ZoneOfWest(w) ==
  LET min == Quotient(w, 60)
  IN [sign |-> IF min > 0 THEN "+" ELSE "-",
      hour |-> IF min < 0 THEN -Quotient(min, 60) ELSE Quotient(min, 60),
      minute |-> IF min < 0 THEN -Remainder(min, 60) ELSE Remainder(min, 60)]

(* Seconds west become hours and minutes east.                             *)
ZoneOf(w) ==
  LET min == -Quotient(w, 60)
      Abs(n) == IF n < 0 THEN -n ELSE n
  IN [sign |-> IF min > 0 THEN "+" ELSE "-",
      hour |-> Abs(Quotient(min, 60)), minute |-> Abs(Remainder(min, 60))]

DecodeTimeTz ==
  /\ pc = "stored" /\ kind = "timetz"
  /\ clock' = ClockOf(stored)
  /\ zone' = ZoneOf(west)
  /\ pc' = "printed"
  /\ UNCHANGED <<kind, stored, west, date>>

Done == pc = "printed" /\ UNCHANGED vars

Next == DecodeDate \/ DecodeTimestamp \/ DecodeTime \/ DecodeTimeTz \/ Done

Spec == Init /\ [][Next]_vars

(***************************************************************************)
(* Properties                                                              *)
(***************************************************************************)

LeapYear(y) == y % 4 = 0 /\ (y % 100 # 0 \/ y % 400 = 0)
MonthLength(y, m) ==
  IF m = 2 THEN (IF LeapYear(y) THEN 29 ELSE 28)
  ELSE IF m \in {4, 6, 9, 11} THEN 30 ELSE 31

(* Days of the year before a month, in a year that is not a leap year.     *)
DaysBefore == <<0, 31, 59, 90, 120, 151, 181, 212, 243, 273, 304, 334>>

(* The Gregorian calendar: the Julian day number of a date.  1 January of  *)
(* the year 1 is day 1721426.                                              *)
DayNumber(y, m, d) ==
  1721425 + 365 * (y - 1)
    + ((y - 1) \div 4) - ((y - 1) \div 100) + ((y - 1) \div 400)
    + DaysBefore[m] + (IF m > 2 /\ LeapYear(y) THEN 1 ELSE 0) + d

Year == IF date.era = "BC" THEN 1 - date.year ELSE date.year
RealDate ==
  /\ date.year >= 1 /\ date.month \in 1..12
  /\ date.day \in 1..MonthLength(Year, date.month)
DaysPrinted == DayNumber(Year, date.month, date.day) - POSTGRES_EPOCH_JDATE
TicksPrinted ==
  ((clock.hour * Hour + clock.minute) * Minute + clock.second) * Second + clock.tick
RealClock ==
  /\ clock.hour \in 0..Hours /\ clock.minute \in 0..(Hour - 1)
  /\ clock.second \in 0..(Minute - 1) /\ clock.tick \in 0..(Second - 1)

(* Every variable keeps its type.                                          *)
TypeOK ==
  /\ kind \in {"date", "timestamp", "time", "timetz"}
  /\ stored \in Int /\ west \in Int
  /\ pc \in {"stored", "printed"}
  /\ date \in [year : Nat, era : {"AD", "BC"}, month : 0..12, day : 0..31]
  /\ clock \in [hour : Nat, minute : Nat, second : Nat, tick : Nat]
  /\ zone \in [sign : {"+", "-"}, hour : Nat, minute : Nat]

(* The date printed is a day of the Gregorian calendar, and the one that   *)
(* was stored: leap years, centuries and the years before Christ included. *)
DateRestored ==
  pc = "printed" /\ kind = "date" => RealDate /\ DaysPrinted = stored

(* So is a timestamp, to the microsecond, on either side of 2000.          *)
TimestampRestored ==
  pc = "printed" /\ kind = "timestamp" =>
    /\ RealDate /\ RealClock /\ clock.hour < Hours
    /\ DaysPrinted * Day + TicksPrinted = stored

(* A time of day up to 24:00 is printed as it was stored.                  *)
TimeRestored ==
  pc = "printed" /\ kind \in {"time", "timetz"} =>
    RealClock /\ TicksPrinted = stored

(* A zone of whole minutes is printed with the sign and the amount it has; *)
(* of others the seconds are left out.                                     *)
ZoneRestored ==
  pc = "printed" /\ kind = "timetz" =>
    LET east == 60 * (60 * zone.hour + zone.minute)
        printed == IF zone.sign = "+" THEN east ELSE -east
    IN /\ zone.minute < 60 /\ printed % 60 = 0
       /\ west % 60 = 0 => printed = -west
       /\ -60 < printed + west /\ printed + west < 60
=============================================================================
