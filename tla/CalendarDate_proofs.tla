------------------------ MODULE CalendarDate_proofs ------------------------
(***************************************************************************)
(* Proofs about CalendarDate: every date is printed as the day of the      *)
(* Gregorian calendar it was stored as, however far from 2000 it is.       *)
(*                                                                         *)
(* 400 years have 146097 days, of which the days before March of year 100, *)
(* 200 and 300 are 0, 1 and 2 leap days behind a calendar with one every   *)
(* four years.  j2date adds them, and reads that calendar.                 *)
(***************************************************************************)
EXTENDS CalendarDate, TLAPS

\* Of the day m of 400 years: e centuries passed by March, y years of the four,
\* and where in its century the year 4q + y is.
LEMMA YearFound ==
  ASSUME NEW m \in Int, m >= 0, m <= 146096, NEW e \in Int, NEW k \in Int,
         NEW q \in Int, NEW rest \in Int, NEW y \in Int,
         e = (4 * m + 3) \div 146097, k = m + 60 + e,
         q = k \div 1461, rest = k % 1461, y = (rest * 4) \div 1461
  PROVE  /\ e \in 0..3 /\ y \in 0..3 /\ rest >= 0 /\ rest <= 1460
         /\ k = 1461 * q + rest
         /\ y = 0 => rest <= 365
         /\ y > 0 => 365 * y < rest /\ rest <= 365 * y + 365
         /\ 100 * e <= 4 * q + y /\ 4 * q + y <= 100 * e + 100
         /\ 4 * q + y = 100 * e => y = 0 /\ rest >= 60
         /\ 4 * q + y = 100 * e + 100 => y = 0 /\ rest <= 59 /\ (rest = 59 => e = 3)
<1>1. e \in 0..3
  OBVIOUS
<1>2. k = 1461 * q + rest /\ rest >= 0 /\ rest <= 1460
  OBVIOUS
<1>3. /\ y \in 0..3 /\ (y = 0 => rest <= 365)
      /\ y > 0 => 365 * y < rest /\ rest <= 365 * y + 365
  BY <1>2
<1>4. 146097 * e <= 4 * m + 3 /\ 4 * m + 3 < 146097 * e + 146097
  OBVIOUS
<1>5. k >= 36525 * e + 60 /\ k <= 36525 * e + 36525 + 59 /\ (e < 3 => k <= 36525 * e + 36525 + 58)
  BY <1>1, <1>4
<1>6. q >= 25 * e /\ q <= 25 * e + 25
  BY <1>2, <1>5, <1>1
<1>7. q = 25 * e + 25 => y = 0 /\ rest <= 59 /\ (rest = 59 => e = 3)
  BY <1>1, <1>2, <1>3, <1>5
<1>8. q = 25 * e => rest >= 60
  BY <1>1, <1>2, <1>5
<1> QED
  BY <1>1, <1>2, <1>3, <1>6, <1>7, <1>8

\* The month and the day of the month of day d from 1 March.
LEMMA MonthFound ==
  ASSUME NEW d \in Int, d >= 0, d <= 365, NEW month \in Int, NEW day \in Int,
         month = MonthOf(d + 123), day = DayOfMonth(d + 123)
  PROVE  /\ month \in 1..12 /\ day >= 1 /\ day <= 31
         /\ month \in {4, 6, 9, 11} => day <= 30
         /\ month = 2 => day <= 29 /\ (day = 29 => d = 365)
         /\ IF d >= 306 THEN month <= 2 /\ DaysBefore[month] + day = d - 305
            ELSE month > 2 /\ DaysBefore[month] + day = d + 60
<1> DEFINE a == ((d + 123) * 2141) \div 65536
<1>0. month = ((a + 10) % 12) + 1 /\ day = d + 123 - ((7834 * a) \div 256)
  BY DEF MonthFromMarch, MonthOf, DayOfMonth
<1>1. a = ((d + 123) * 2141) \div 65536
  OBVIOUS
<1> HIDE DEF a
<1>2. a \in {4, 5, 6, 7, 8, 9, 10, 11, 12, 13, 14, 15}
  BY <1>1
<1>3. 65536 * a <= (d + 123) * 2141 /\ (d + 123) * 2141 < 65536 * a + 65536
  BY <1>1
<1>4. CASE a = 4
  BY <1>0, <1>3, <1>4 DEF DaysBefore
<1>5. CASE a = 5
  BY <1>0, <1>3, <1>5 DEF DaysBefore
<1>6. CASE a = 6
  BY <1>0, <1>3, <1>6 DEF DaysBefore
<1>7. CASE a = 7
  BY <1>0, <1>3, <1>7 DEF DaysBefore
<1>8. CASE a = 8
  BY <1>0, <1>3, <1>8 DEF DaysBefore
<1>9. CASE a = 9
  BY <1>0, <1>3, <1>9 DEF DaysBefore
<1>10. CASE a = 10
  BY <1>0, <1>3, <1>10 DEF DaysBefore
<1>11. CASE a = 11
  BY <1>0, <1>3, <1>11 DEF DaysBefore
<1>12. CASE a = 12
  BY <1>0, <1>3, <1>12 DEF DaysBefore
<1>13. CASE a = 13
  BY <1>0, <1>3, <1>13 DEF DaysBefore
<1>14. CASE a = 14
  BY <1>0, <1>3, <1>14 DEF DaysBefore
<1>15. CASE a = 15
  BY <1>0, <1>3, <1>15 DEF DaysBefore
<1> QED
  BY <1>2, <1>4, <1>5, <1>6, <1>7, <1>8, <1>9, <1>10, <1>11, <1>12, <1>13,
     <1>14, <1>15

\* The day of the year, d from 1 March, of a day of four years.
LEMMA DayOfYearFound ==
  ASSUME NEW rest \in Int, rest >= 0, rest <= 1460, NEW y \in 0..3,
         y = YearInFour(rest),
         y = 0 => rest <= 365,
         y > 0 => 365 * y < rest /\ rest <= 365 * y + 365,
         NEW d \in Int, d = DayOfYear(rest) - 123
  PROVE  /\ d >= 0 /\ d <= 365
         /\ y = 0 => d = IF rest < 60 THEN rest + 306 ELSE rest - 60
         /\ y > 0 => d = IF rest - 365 * y < 60 THEN rest - 365 * y + 305
                         ELSE rest - 365 * y - 60
<1>1. d = IF y # 0 THEN (rest + 305) % 365 ELSE (rest + 306) % 366
  BY DEF DayOfYear
<1>2. CASE y = 0
  BY <1>1, <1>2
<1>3. CASE y = 1
  BY <1>1, <1>3
<1>4. CASE y = 2
  BY <1>1, <1>4
<1>5. CASE y = 3
  BY <1>1, <1>5
<1> QED
  BY <1>2, <1>3, <1>4, <1>5

\* A year by its place: y of four, the q-th four of 400 years, the e-th century.
Placed(c, e, q, y, year) ==
  /\ c \in Int /\ e \in 0..3 /\ q \in Int /\ y \in 0..3 /\ year \in Int
  /\ 100 * e <= 4 * q + y /\ 4 * q + y <= 100 * e + 100
  /\ year = 400 * c + 4 * q + y - 4800

\* The leap years before a year, and whether it is one, by its place in its
\* century.
Leaps(c, e, q, y, year) ==
  /\ (year - 1) \div 4 = 100 * c - 1200 + (IF y = 0 THEN q - 1 ELSE q)
  /\ ((year - 1) \div 400) - ((year - 1) \div 100) =
       36 - 3 * c - (IF 4 * q + y = 100 * e /\ e > 0 THEN e - 1 ELSE e)
  /\ y > 0 => ~LeapYear(year)
  /\ y = 0 /\ 4 * q = 100 * e => (LeapYear(year) <=> e = 0)
  /\ y = 0 /\ 4 * q = 100 * e + 100 => (LeapYear(year) <=> e = 3)
  /\ y = 0 /\ 4 * q > 100 * e /\ 4 * q < 100 * e + 100 => LeapYear(year)

\* That is what the Gregorian rule says.
LEMMA LeapYears ==
  ASSUME NEW c, NEW e, NEW q, NEW y, NEW year, Placed(c, e, q, y, year)
  PROVE  Leaps(c, e, q, y, year)
<1>0. /\ c \in Int /\ e \in 0..3 /\ q \in Int /\ y \in 0..3 /\ year \in Int
      /\ 100 * e <= 4 * q + y /\ 4 * q + y <= 100 * e + 100
      /\ year = 400 * c + 4 * q + y - 4800
  BY DEF Placed
<1>1. (year - 1) \div 4 = 100 * c - 1200 + (IF y = 0 THEN q - 1 ELSE q)
  BY <1>0
<1>2. year % 4 = y
  BY <1>0
<1>3. CASE e = 0
  BY <1>0, <1>1, <1>2, <1>3 DEF LeapYear, Leaps
<1>4. CASE e = 1
  BY <1>0, <1>1, <1>2, <1>4 DEF LeapYear, Leaps
<1>5. CASE e = 2
  BY <1>0, <1>1, <1>2, <1>5 DEF LeapYear, Leaps
<1>6. CASE e = 3
  BY <1>0, <1>1, <1>2, <1>6 DEF LeapYear, Leaps
<1> QED
  BY <1>0, <1>3, <1>4, <1>5, <1>6

\* The date j2date finds is a day of the calendar, and the day it was given.
LEMMA JulianDay ==
  ASSUME NEW jd \in Int, jd >= FirstJulian
  PROVE  /\ j2date(jd).year \in Int /\ j2date(jd).year >= -4800
         /\ j2date(jd).month \in 1..12
         /\ j2date(jd).day \in 1..MonthLength(j2date(jd).year, j2date(jd).month)
         /\ DayNumber(j2date(jd).year, j2date(jd).month, j2date(jd).day) = jd
<1> DEFINE n == jd - FirstJulian
           c == n \div 146097
           m == n % 146097
           e == (4 * m + 3) \div 146097
           k == m + 60 + e
           q == k \div 1461
           rest == k % 1461
           y == YearInFour(rest)
           d == DayOfYear(rest) - 123
           year == 400 * c + 4 * q + y - 4800
           month == MonthOf(d + 123)
           day == DayOfMonth(d + 123)
<1> HIDE DEF n, c, m, e, k, q, rest, y, d, year, month, day
<1>1. /\ n \in Int /\ n >= 0 /\ c \in Int /\ c >= 0 /\ m \in Int
      /\ m >= 0 /\ m <= 146096
      /\ n = 146097 * c + m
  BY DEF FirstJulian, n, c, m
<1>2. /\ e \in Int /\ k \in Int /\ q \in Int /\ rest \in Int /\ y \in Int
      /\ y = (rest * 4) \div 1461
  BY <1>1 DEF YearInFour, e, k, q, rest, y
<1>3. WithLeapDays(n) = 146100 * c + k
  BY <1>1 DEF WithLeapDays, c, m, e, k
<1>4. WithLeapDays(n) \div 1461 = 100 * c + q /\ WithLeapDays(n) % 1461 = rest
  BY <1>1, <1>2, <1>3 DEF q, rest
<1>5. d \in Int /\ d + 123 = DayOfYear(rest)
  BY <1>2 DEF DayOfYear, YearInFour, d
<1>6. month \in Int /\ day \in Int /\ year \in Int
  BY <1>1, <1>2, <1>5 DEF MonthFromMarch, MonthOf, DayOfMonth, month, day, year
<1>7. /\ j2date(jd).year = y + 4 * (100 * c + q) - 4800
      /\ j2date(jd).month = month /\ j2date(jd).day = day
  <2> DEFINE w == WithLeapDays(n)
  <2>1. /\ w \div 1461 = 100 * c + q
        /\ YearInFour(w % 1461) = y /\ DayOfYear(w % 1461) = d + 123
    BY <1>4, <1>5 DEF y
  <2>2. /\ j2date(jd).year = YearInFour(w % 1461) + 4 * (w \div 1461) - 4800
        /\ j2date(jd).month = MonthOf(DayOfYear(w % 1461))
        /\ j2date(jd).day = DayOfMonth(DayOfYear(w % 1461))
    BY DEF j2date, n
  <2> HIDE DEF w
  <2> QED
    BY <2>1, <2>2 DEF month, day
<1>8. y + 4 * (100 * c + q) - 4800 = year
  BY <1>1, <1>2 DEF year
<1>9. /\ e \in 0..3 /\ y \in 0..3 /\ rest >= 0 /\ rest <= 1460
      /\ k = 1461 * q + rest
      /\ y = 0 => rest <= 365
      /\ y > 0 => 365 * y < rest /\ rest <= 365 * y + 365
      /\ 100 * e <= 4 * q + y /\ 4 * q + y <= 100 * e + 100
      /\ 4 * q + y = 100 * e => y = 0 /\ rest >= 60
      /\ 4 * q + y = 100 * e + 100 => y = 0 /\ rest <= 59 /\ (rest = 59 => e = 3)
  <2>1. /\ e = (4 * m + 3) \div 146097 /\ k = m + 60 + e
        /\ q = k \div 1461 /\ rest = k % 1461
    BY DEF e, k, q, rest
  <2> QED
    BY <1>1, <1>2, <2>1, YearFound
<1>10. /\ d >= 0 /\ d <= 365
       /\ y = 0 => d = IF rest < 60 THEN rest + 306 ELSE rest - 60
       /\ y > 0 => d = IF rest - 365 * y < 60 THEN rest - 365 * y + 305
                       ELSE rest - 365 * y - 60
  <2>1. y = YearInFour(rest) /\ d = DayOfYear(rest) - 123
    BY DEF y, d
  <2> QED
    BY <1>2, <1>5, <1>9, <2>1, DayOfYearFound
<1>11. /\ month \in 1..12 /\ day >= 1 /\ day <= 31
       /\ month \in {4, 6, 9, 11} => day <= 30
       /\ month = 2 => day <= 29 /\ (day = 29 => d = 365)
       /\ IF d >= 306 THEN month <= 2 /\ DaysBefore[month] + day = d - 305
          ELSE month > 2 /\ DaysBefore[month] + day = d + 60
  <2>1. month = MonthOf(d + 123) /\ day = DayOfMonth(d + 123)
    BY DEF month, day
  <2> QED
    BY <1>5, <1>6, <1>10, <2>1, MonthFound
<1>12. Leaps(c, e, q, y, year)
  <2>1. year = 400 * c + 4 * q + y - 4800
    BY DEF year
  <2>2. Placed(c, e, q, y, year)
    BY <1>1, <1>2, <1>6, <1>9, <2>1 DEF Placed
  <2> QED
    BY <2>2, LeapYears
<1>13. year = 400 * c + 4 * q + y - 4800 /\ k = m + 60 + e /\ jd = n - 32044
  BY <1>1 DEF FirstJulian, year, k, n
<1>14. DaysBefore[month] \in Int
  BY <1>11 DEF DaysBefore
<1>15. year >= -4800
  BY <1>1, <1>2, <1>9, <1>13
<1>16. day \in 1..MonthLength(year, month)
  <2>1. d = 365 => y = 0 /\ rest = 59
    BY <1>2, <1>9, <1>10
  <2>2. y = 0 /\ rest = 59 => LeapYear(year)
    BY <1>2, <1>9, <1>12 DEF Leaps
  <2> QED
    BY <1>6, <1>11, <2>1, <2>2 DEF MonthLength
<1>17. DayNumber(year, month, day) = jd
  <2> DEFINE f == ((year - 1) \div 4) - ((year - 1) \div 100) + ((year - 1) \div 400)
             b == DaysBefore[month]
             l == IF month > 2 /\ LeapYear(year) THEN 1 ELSE 0
  <2> HIDE DEF f, b, l
  <2>1. /\ f \in Int
        /\ f = 97 * c - 1164 + (IF y = 0 THEN q - 1 ELSE q)
                 - (IF 4 * q + y = 100 * e /\ e > 0 THEN e - 1 ELSE e)
    BY <1>1, <1>2, <1>6, <1>9, <1>12 DEF f, Leaps
  <2>2. DayNumber(year, month, day) = 1721425 + 365 * (year - 1) + f + b + l + day
    BY <1>6, <1>14 DEF DayNumber, f, b, l
  <2>3. b \in Int /\ l \in {0, 1}
    BY <1>14 DEF b, l
  <2>4. l = 1 <=> month > 2 /\ LeapYear(year)
    BY DEF l
  <2>5. /\ month <= 2 <=> d >= 306
        /\ b + day = IF d >= 306 THEN d - 305 ELSE d + 60
    BY <1>6, <1>11 DEF b
  <2>6. CASE y > 0
    <3>1. b + day = rest - 365 * y
      BY <1>2, <1>5, <1>9, <1>10, <2>3, <2>5, <2>6, <1>6
    <3>2. l = 0
      BY <1>12, <2>3, <2>4, <2>6 DEF Leaps
    <3> QED
      BY <1>1, <1>2, <1>6, <1>9, <1>13, <2>1, <2>2, <2>3, <2>6, <3>1, <3>2
  <2>7. CASE y = 0 /\ rest < 60
    <3>1. b + day = rest + 1 /\ l = 0
      BY <1>2, <1>5, <1>6, <1>10, <1>11, <2>3, <2>4, <2>5, <2>7
    <3> QED
      BY <1>1, <1>2, <1>6, <1>9, <1>13, <2>1, <2>2, <2>3, <2>7, <3>1
  <2>8. CASE y = 0 /\ rest >= 60
    <3>1. b + day = rest /\ (l = 1 <=> LeapYear(year))
      BY <1>2, <1>5, <1>6, <1>9, <1>10, <1>11, <2>3, <2>4, <2>5, <2>8
    <3>2. l = IF 4 * q = 100 * e /\ e > 0 THEN 0 ELSE 1
      BY <1>2, <1>9, <1>12, <2>3, <2>8, <3>1 DEF Leaps
    <3> QED
      BY <1>1, <1>2, <1>6, <1>9, <1>13, <2>1, <2>2, <2>3, <2>8, <3>1, <3>2
  <2> QED
    BY <1>2, <1>9, <2>6, <2>7, <2>8
<1> QED
  BY <1>6, <1>7, <1>8, <1>11, <1>15, <1>16, <1>17

-----------------------------------------------------------------------------
(* Division by the length of a day or a part of it.                        *)

\* A product is as large as its factors are.
LEMMA Larger ==
  ASSUME NEW a \in Int, NEW b \in Int, NEW n \in Nat \ {0}, a <= b
  PROVE  a * n \in Int /\ b * n \in Int /\ a * n <= b * n
<1>1. a * n \in Int /\ b * n \in Int
  OBVIOUS
<1>2. (b - a) * n >= 0
  OBVIOUS
<1>3. (b - a) * n = b * n - a * n
  OBVIOUS
<1> QED
  BY <1>1, <1>2, <1>3

\* Of two multiples with rests, the smaller has the smaller quotient.
LEMMA SmallerQuotient ==
  ASSUME NEW a \in Int, NEW b \in Int, NEW n \in Nat \ {0}, NEW r \in Nat,
         a * n + r <= b * n
  PROVE  a <= b /\ (a * n + r < b * n => a < b)
<1>1. ASSUME a > b PROVE FALSE
  <2>1. b + 1 <= a
    BY <1>1
  <2>2. (b + 1) * n \in Int /\ a * n \in Int /\ (b + 1) * n <= a * n
    BY <2>1, Larger
  <2>3. (b + 1) * n = b * n + n /\ b * n \in Int
    OBVIOUS
  <2> QED
    BY <2>2, <2>3
<1>2. ASSUME a * n + r < b * n, a = b PROVE FALSE
  <2>1. a * n = b * n /\ a * n \in Int
    BY <1>2
  <2> QED
    BY <1>2, <2>1
<1> QED
  BY <1>1, <1>2

\* Towards zero, the quotient and its remainder make up the number.
LEMMA Divided ==
  ASSUME NEW t \in Nat, NEW n \in Nat \ {0}
  PROVE  /\ Quotient(t, n) \in Nat /\ Remainder(t, n) \in 0..(n - 1)
         /\ t = Quotient(t, n) * n + Remainder(t, n)
<1>1. t \div n \in Int /\ t % n \in 0..(n - 1) /\ t = n * (t \div n) + (t % n)
  OBVIOUS
<1>2. t \div n >= 0
  OBVIOUS
<1>3. n * (t \div n) = (t \div n) * n
  BY <1>1
<1>4. Quotient(t, n) = t \div n /\ Remainder(t, n) = t - (t \div n) * n
  BY DEF Quotient, Remainder
<1> QED
  BY <1>1, <1>2, <1>3, <1>4
\* The epoch and the first day are whole numbers.
LEMMA EpochTyped == POSTGRES_EPOCH_JDATE \in Int /\ FirstJulian \in Int
BY SMT DEF POSTGRES_EPOCH_JDATE, FirstJulian

\* A day has a positive number of ticks.
LEMMA DayTyped == Day \in Nat \ {0} /\ Day = Hours * Hour * Minute * Second
<1>1. Second * Minute \in Nat \ {0}
  BY ClockAssumption
<1>2. Second * Minute * Hour \in Nat \ {0}
  BY <1>1, ClockAssumption
<1>3. Second * Minute * Hour * Hours \in Nat \ {0}
  BY <1>2, ClockAssumption
<1>4. Second * Minute * Hour * Hours = Hours * Hour * Minute * Second
  BY ClockAssumption
<1> QED
  BY <1>3, <1>4 DEF Day

\* The fields of a clock make up the ticks they were read from.
LEMMA ClockRead ==
  ASSUME NEW t \in Nat, t <= Day
  PROVE  /\ ClockOf(t).hour \in 0..Hours /\ ClockOf(t).minute \in 0..(Hour - 1)
         /\ ClockOf(t).second \in 0..(Minute - 1) /\ ClockOf(t).tick \in 0..(Second - 1)
         /\ t < Day => ClockOf(t).hour < Hours
         /\ ((ClockOf(t).hour * Hour + ClockOf(t).minute) * Minute
               + ClockOf(t).second) * Second + ClockOf(t).tick = t
<1> DEFINE sec == Quotient(t, Second)
           min == Quotient(sec, Minute)
           h == Quotient(min, Hour)
<1>0. /\ Second \in Nat \ {0} /\ Minute \in Nat \ {0}
      /\ Hour \in Nat \ {0} /\ Hours \in Nat \ {0}
  BY ClockAssumption
<1>1. /\ sec \in Nat /\ Remainder(t, Second) \in 0..(Second - 1)
      /\ t = sec * Second + Remainder(t, Second)
  BY <1>0, Divided
<1> HIDE DEF sec
<1>2. /\ min \in Nat /\ Remainder(sec, Minute) \in 0..(Minute - 1)
      /\ sec = min * Minute + Remainder(sec, Minute)
  BY <1>0, <1>1, Divided
<1> HIDE DEF min
<1>3. /\ h \in Nat /\ Remainder(min, Hour) \in 0..(Hour - 1)
      /\ min = h * Hour + Remainder(min, Hour)
  BY <1>0, <1>2, Divided
<1>4. ClockOf(t) = [hour |-> h, minute |-> Remainder(min, Hour),
                    second |-> Remainder(sec, Minute), tick |-> Remainder(t, Second)]
  BY DEF ClockOf, sec, min
<1> HIDE DEF h
<1>5. /\ Hours * Hour \in Nat /\ Hours * Hour * Minute \in Nat
      /\ Day = Hours * Hour * Minute * Second
  BY <1>0, DayTyped
<1>6. /\ sec <= Hours * Hour * Minute
      /\ t < Day => sec < Hours * Hour * Minute
  <2> DEFINE b == Hours * Hour * Minute
             r == Remainder(t, Second)
  <2>1. b \in Int /\ r \in Nat /\ sec * Second + r <= b * Second
        /\ (t < Day => sec * Second + r < b * Second)
    BY <1>0, <1>1, <1>5
  <2> HIDE DEF b, r
  <2>2. sec <= b /\ (sec * Second + r < b * Second => sec < b)
    BY <1>0, <1>1, <2>1, SmallerQuotient
  <2>3. sec <= b /\ (t < Day => sec < b)
    BY <2>1, <2>2
  <2> QED
    BY <2>3 DEF b
<1>7. /\ min <= Hours * Hour
      /\ t < Day => min < Hours * Hour
  <2> DEFINE b == Hours * Hour
             r == Remainder(sec, Minute)
  <2>1. b \in Int /\ r \in Nat /\ min * Minute + r <= b * Minute
        /\ (t < Day => min * Minute + r < b * Minute)
    BY <1>0, <1>2, <1>5, <1>6
  <2> HIDE DEF b, r
  <2>2. min <= b /\ (min * Minute + r < b * Minute => min < b)
    BY <1>0, <1>2, <2>1, SmallerQuotient
  <2>3. min <= b /\ (t < Day => min < b)
    BY <2>1, <2>2
  <2> QED
    BY <2>3 DEF b
<1>8. h <= Hours /\ (t < Day => h < Hours)
  <2> DEFINE r == Remainder(min, Hour)
  <2>1. r \in Nat /\ h * Hour + r <= Hours * Hour
        /\ (t < Day => h * Hour + r < Hours * Hour)
    BY <1>0, <1>3, <1>7
  <2> HIDE DEF r
  <2>2. h <= Hours /\ (h * Hour + r < Hours * Hour => h < Hours)
    BY <1>0, <1>3, <2>1, SmallerQuotient
  <2> QED
    BY <2>1, <2>2
<1>9. h \in 0..Hours
  BY <1>0, <1>3, <1>8
<1> QED
  BY <1>1, <1>2, <1>3, <1>4, <1>8, <1>9

\* A timestamp is split into its day and a time on that day.
LEMMA DaySplit ==
  ASSUME NEW t \in Int, t >= (FirstJulian - POSTGRES_EPOCH_JDATE) * Day
  PROVE  /\ SplitDay(t).days \in Int /\ SplitDay(t).rest \in 0..(Day - 1)
         /\ SplitDay(t).days * Day + SplitDay(t).rest = t
         /\ SplitDay(t).days + POSTGRES_EPOCH_JDATE >= FirstJulian
<1> DEFINE q == Quotient(t, Day)
           r == t - q * Day
           days == SplitDay(t).days
           rest == SplitDay(t).rest
           k == FirstJulian - POSTGRES_EPOCH_JDATE
<1>0. Day \in Nat \ {0} /\ k \in Int
  BY DayTyped, EpochTyped
<1>1. /\ q \in Int /\ q * Day \in Int /\ t = q * Day + r
      /\ -Day < r /\ r < Day
  <2>1. CASE t >= 0
    <3>1. q \in Nat /\ Remainder(t, Day) \in 0..(Day - 1)
          /\ t = q * Day + Remainder(t, Day)
      BY <1>0, <2>1, Divided
    <3> HIDE DEF q
    <3>2. q * Day \in Int
      BY <1>0, <3>1
    <3> QED
      BY <1>0, <3>1, <3>2
  <2>2. CASE t < 0
    <3> DEFINE p == Quotient(-t, Day)
    <3>1. p \in Nat /\ Remainder(-t, Day) \in 0..(Day - 1)
          /\ -t = p * Day + Remainder(-t, Day)
      BY <1>0, <2>2, Divided
    <3>2. q = -p
      BY <2>2 DEF Quotient
    <3> HIDE DEF p, q
    <3>3. p * Day \in Int /\ q * Day = -(p * Day)
      BY <1>0, <3>1, <3>2
    <3> QED
      BY <1>0, <3>1, <3>2, <3>3
  <2> QED
    BY <2>1, <2>2
<1>2. SplitDay(t) = IF r < 0 THEN [days |-> q - 1, rest |-> r + Day]
                    ELSE [days |-> q, rest |-> r]
  BY DEF SplitDay
<1> HIDE DEF q, r
<1>3. r \in Int
  BY <1>1 DEF r
<1>4. (q - 1) * Day = q * Day - Day
  BY <1>0, <1>1
<1>5. /\ days \in Int /\ rest \in 0..(Day - 1) /\ days * Day + rest = t
  <2>1. CASE r < 0
    <3>1. days = q - 1 /\ rest = r + Day
      BY <1>2, <2>1
    <3> HIDE DEF days, rest
    <3>2. days * Day = q * Day - Day
      BY <1>4, <3>1
    <3> QED
      BY <1>0, <1>1, <1>3, <2>1, <3>1, <3>2
  <2>2. CASE ~(r < 0)
    <3>1. days = q /\ rest = r
      BY <1>2, <2>2
    <3> HIDE DEF days, rest
    <3>2. days * Day = q * Day
      BY <3>1
    <3> QED
      BY <1>0, <1>1, <1>3, <2>2, <3>1, <3>2
  <2> QED
    BY <2>1, <2>2
<1> HIDE DEF days, rest, k
<1>6. days >= k
  <2> SUFFICES ASSUME days < k PROVE FALSE
    BY <1>0, <1>5
  <2>1. days + 1 \in Int /\ days + 1 <= k
    BY <1>0, <1>5
  <2>2. (days + 1) * Day \in Int /\ k * Day \in Int /\ (days + 1) * Day <= k * Day
    BY <1>0, <2>1, Larger
  <2>3. (days + 1) * Day = days * Day + Day /\ days * Day \in Int
    BY <1>0, <1>5
  <2>4. k * Day <= t
    BY DEF k
  <2> QED
    BY <1>0, <1>5, <2>2, <2>3, <2>4
<1> QED
  BY <1>5, <1>6, EpochTyped DEF days, rest, k
-----------------------------------------------------------------------------
(* What has been printed, and of what.                                     *)

Read ==
  /\ kind \in {"date", "timestamp", "time", "timetz"} /\ pc \in {"stored", "printed"}
  /\ kind = "date" => stored \in Dates
  /\ kind = "timestamp" => stored \in Timestamps
  /\ kind \in {"time", "timetz"} => stored \in Times
  /\ west \in Int
  /\ pc = "stored" => date = Nothing /\ clock = Midnight /\ zone = NoZone
Wrote ==
  pc = "printed" =>
    /\ date = IF kind = "date" THEN Printed(j2date(stored + POSTGRES_EPOCH_JDATE))
              ELSE IF kind = "timestamp"
                THEN Printed(j2date(SplitDay(stored).days + POSTGRES_EPOCH_JDATE))
              ELSE Nothing
    /\ clock = IF kind = "date" THEN Midnight
               ELSE IF kind = "timestamp" THEN ClockOf(SplitDay(stored).rest)
               ELSE ClockOf(stored)
    /\ zone = IF kind = "timetz" THEN ZoneOf(west) ELSE NoZone
IInv == Read /\ Wrote

\* It is an invariant.
LEMMA InvHolds == Spec => []IInv
<1>1. Init => IInv
  <2> SUFFICES ASSUME Init PROVE IInv
    OBVIOUS
  <2>0. west = 0 \/ west \in Zones
    BY Zenon DEF Init
  <2>1. west \in Int
    <3>1. CASE west = 0
      BY <3>1
    <3>2. CASE west \in Zones
      BY <3>2, TimesAssumption, Zenon
    <3> QED
      BY <2>0, <3>1, <3>2
  <2>2. /\ kind \in {"date", "timestamp", "time", "timetz"}
        /\ kind = "date" => stored \in Dates
        /\ kind = "timestamp" => stored \in Timestamps
        /\ kind \in {"time", "timetz"} => stored \in Times
    BY Zenon DEF Init
  <2> QED
    BY <2>1, <2>2 DEF Init, IInv, Read, Wrote
<1>2. IInv /\ [Next]_vars => IInv'
  <2> SUFFICES ASSUME IInv, [Next]_vars PROVE IInv'
    OBVIOUS
  <2>1. CASE DecodeDate
    BY <2>1 DEF DecodeDate, IInv, Read, Wrote
  <2>2. CASE DecodeTimestamp
    BY <2>2 DEF DecodeTimestamp, IInv, Read, Wrote
  <2>3. CASE DecodeTime
    BY <2>3 DEF DecodeTime, IInv, Read, Wrote
  <2>4. CASE DecodeTimeTz
    BY <2>4 DEF DecodeTimeTz, IInv, Read, Wrote
  <2>5. CASE UNCHANGED vars
    BY <2>5 DEF vars, IInv, Read, Wrote
  <2> QED
    BY <2>1, <2>2, <2>3, <2>4, <2>5 DEF Next, Done
<1> QED
  BY <1>1, <1>2, PTL DEF Spec

\* A printed date is the day it was printed of.
LEMMA PrintedDay ==
  ASSUME NEW jd \in Int, jd >= FirstJulian, date = Printed(j2date(jd))
  PROVE  RealDate /\ DaysPrinted = jd - POSTGRES_EPOCH_JDATE
<1> DEFINE d == j2date(jd)
<1>1. /\ d.year \in Int /\ d.month \in 1..12
      /\ d.day \in 1..MonthLength(d.year, d.month)
      /\ DayNumber(d.year, d.month, d.day) = jd
  BY JulianDay
<1> HIDE DEF d
<1>2. date = [year |-> IF d.year <= 0 THEN -d.year + 1 ELSE d.year,
              era |-> IF d.year <= 0 THEN "BC" ELSE "AD",
              month |-> d.month, day |-> d.day]
  BY DEF Printed, d
<1>3. date.year >= 1 /\ date.month = d.month /\ date.day = d.day
  BY <1>1, <1>2
<1>4. date.era = IF d.year <= 0 THEN "BC" ELSE "AD"
  BY <1>1, <1>2
<1>5. Year = d.year
  BY <1>1, <1>2, <1>4 DEF Year
<1> QED
  BY <1>1, <1>3, <1>5 DEF RealDate, DaysPrinted

(* A date column is printed as the days of the Gregorian calendar it       *)
(* holds, for every number of days from 4801 BC on whose sum with the      *)
(* epoch fits an int32.                                                    *)
THEOREM DatesTrue == Spec => []DateRestored
<1>1. ASSUME IInv, pc = "printed", kind = "date"
      PROVE  RealDate /\ DaysPrinted = stored
  <2> DEFINE jd == stored + POSTGRES_EPOCH_JDATE
  <2>0. stored \in {d \in Int : /\ FirstJulian <= d + POSTGRES_EPOCH_JDATE
                                /\ d + POSTGRES_EPOCH_JDATE <= LastJulian}
    BY <1>1, DatesAssumption, Zenon DEF IInv, Read
  <2>1. stored \in Int /\ jd \in Int /\ jd >= FirstJulian
    BY <2>0, EpochTyped
  <2>2. date = Printed(j2date(jd))
    BY <1>1 DEF IInv, Wrote
  <2>3. jd - POSTGRES_EPOCH_JDATE = stored
    BY <2>1, EpochTyped
  <2> HIDE DEF jd
  <2> QED
    BY <2>1, <2>2, <2>3, PrintedDay
<1>2. IInv => DateRestored
  BY <1>1 DEF DateRestored
<1> QED
  BY <1>2, InvHolds, PTL

(* A timestamp is printed as the instant it holds, before and after 2000,  *)
(* whatever the lengths of the parts of a day.                             *)
THEOREM TimestampsTrue == Spec => []TimestampRestored
<1>1. ASSUME IInv, pc = "printed", kind = "timestamp"
      PROVE  /\ RealDate /\ RealClock /\ clock.hour < Hours
             /\ DaysPrinted * Day + TicksPrinted = stored
  <2> DEFINE days == SplitDay(stored).days
             rest == SplitDay(stored).rest
             jd == days + POSTGRES_EPOCH_JDATE
  <2>1. stored \in Int /\ stored >= (FirstJulian - POSTGRES_EPOCH_JDATE) * Day
    BY <1>1, TimesAssumption DEF IInv, Read
  <2>2. /\ days \in Int /\ rest \in 0..(Day - 1) /\ days * Day + rest = stored
        /\ jd >= FirstJulian
    BY <2>1, DaySplit
  <2>3. date = Printed(j2date(jd)) /\ clock = ClockOf(rest)
    BY <1>1 DEF IInv, Wrote
  <2> HIDE DEF days, rest
  <2>4. jd \in Int /\ jd - POSTGRES_EPOCH_JDATE = days
    BY <2>2, EpochTyped
  <2> HIDE DEF jd
  <2>5. RealDate /\ DaysPrinted = days
    BY <2>2, <2>3, <2>4, PrintedDay
  <2>6. rest \in Nat /\ rest < Day /\ rest <= Day
    BY <2>2, DayTyped
  <2>7. RealClock /\ clock.hour < Hours /\ TicksPrinted = rest
    BY <2>3, <2>6, ClockRead DEF RealClock, TicksPrinted
  <2> QED
    BY <2>2, <2>5, <2>7
<1>2. IInv => TimestampRestored
  BY <1>1 DEF TimestampRestored
<1> QED
  BY <1>2, InvHolds, PTL

(* A time of day, 24:00 included, is printed as the time it holds.         *)
THEOREM TimesTrue == Spec => []TimeRestored
<1>1. ASSUME IInv, pc = "printed", kind \in {"time", "timetz"}
      PROVE  RealClock /\ TicksPrinted = stored
  <2>0. stored \in 0..Day
    BY <1>1, TimesAssumption, Zenon DEF IInv, Read
  <2>1. stored \in Nat /\ stored <= Day
    BY <2>0, DayTyped
  <2>2. clock = ClockOf(stored)
    BY <1>1 DEF IInv, Wrote
  <2> QED
    BY <2>1, <2>2, ClockRead DEF RealClock, TicksPrinted
<1>2. IInv => TimeRestored
  BY <1>1 DEF TimeRestored
<1> QED
  BY <1>2, InvHolds, PTL
\* The fields of a zone.
LEMMA ZoneRead ==
  ASSUME NEW w \in Int
  PROVE  LET z == ZoneOf(w)
             east == 60 * (60 * z.hour + z.minute)
             shown == IF z.sign = "+" THEN east ELSE -east
         IN /\ z.hour \in Nat /\ z.minute \in Nat /\ z.minute < 60
            /\ shown \in Int /\ shown % 60 = 0 /\ (w % 60 = 0 => shown = -w)
            /\ -60 < shown + w /\ shown + w < 60
<1> DEFINE z == ZoneOf(w)
           min == -Quotient(w, 60)
           size == IF min < 0 THEN -min ELSE min
           east == 60 * (60 * z.hour + z.minute)
<1>1. /\ min \in Int /\ -60 < 60 * min + w /\ 60 * min + w < 60
      /\ w % 60 = 0 => 60 * min = -w
  <2>1. CASE w >= 0
    BY <2>1 DEF Quotient
  <2>2. CASE w < 0
    BY <2>2 DEF Quotient
  <2> QED
    BY <2>1, <2>2
<1> HIDE DEF min
<1>2. /\ z.hour = size \div 60 /\ z.minute = size % 60
      /\ size \in Nat
  <2>1. CASE min >= 0
    BY <1>1, <2>1 DEF ZoneOf, Quotient, Remainder, min
  <2>2. CASE min < 0
    BY <1>1, <2>2 DEF ZoneOf, Quotient, Remainder, min
  <2> QED
    BY <1>1, <2>1, <2>2
<1>3. z.sign = IF min > 0 THEN "+" ELSE "-"
  BY DEF ZoneOf, min
<1> HIDE DEF z
<1>4. z.hour \in Nat /\ z.minute \in Nat /\ z.minute < 60 /\ east = 60 * size
  BY <1>2
<1> HIDE DEF east
<1>5. (IF z.sign = "+" THEN east ELSE -east) = 60 * min
  <2>1. CASE min > 0
    BY <1>1, <1>3, <1>4, <2>1
  <2>2. CASE ~(min > 0)
    BY <1>1, <1>3, <1>4, <2>2
  <2> QED
    BY <2>1, <2>2
<1>6. (60 * min) % 60 = 0 /\ 60 * min \in Int
  BY <1>1
<1> QED
  BY <1>1, <1>4, <1>5, <1>6 DEF z, east

(* A zone keeps its sign and its minutes.                                  *)
THEOREM ZonesTrue == Spec => []ZoneRestored
<1>1. ASSUME IInv, pc = "printed", kind = "timetz" PROVE ZoneRestored
  <2>1. west \in Int /\ zone = ZoneOf(west)
    BY <1>1 DEF IInv, Read, Wrote
  <2> QED
    BY <2>1, ZoneRead DEF ZoneRestored
<1>2. IInv => ZoneRestored
  BY <1>1 DEF ZoneRestored
<1> QED
  BY <1>2, InvHolds, PTL
(* Every variable keeps its type.                                          *)
THEOREM TypeCorrect == Spec => []TypeOK
<1> DEFINE DateOK == date \in [year : Nat, era : {"AD", "BC"}, month : 0..12, day : 0..31]
           ClockOK == clock \in [hour : Nat, minute : Nat, second : Nat, tick : Nat]
           ZoneOK == zone \in [sign : {"+", "-"}, hour : Nat, minute : Nat]
<1>1. ASSUME NEW jd \in Int, jd >= FirstJulian, date = Printed(j2date(jd))
      PROVE  DateOK
  <2> DEFINE d == j2date(jd)
  <2>1. /\ d.year \in Int /\ d.month \in 1..12
        /\ d.day \in 1..MonthLength(d.year, d.month)
    BY <1>1, JulianDay
  <2>2. MonthLength(d.year, d.month) \in 28..31
    BY DEF MonthLength
  <2> HIDE DEF d
  <2>3. d.month \in 0..12 /\ d.day \in 0..31
    BY <2>1, <2>2
  <2>4. date = [year |-> IF d.year <= 0 THEN -d.year + 1 ELSE d.year,
                era |-> IF d.year <= 0 THEN "BC" ELSE "AD",
                month |-> d.month, day |-> d.day]
    BY <1>1 DEF Printed, d
  <2> QED
    BY <2>1, <2>3, <2>4
<1>2. ASSUME NEW t \in Nat, t <= Day, clock = ClockOf(t)
      PROVE  ClockOK
  BY <1>2, ClockRead, ClockAssumption DEF ClockOf
<1>3. ASSUME NEW w \in Int, zone = ZoneOf(w)
      PROVE  ZoneOK
  <2>1. zone.hour \in Nat /\ zone.minute \in Nat
    BY <1>3, ZoneRead
  <2>2. zone.sign \in {"+", "-"}
    BY <1>3 DEF ZoneOf
  <2>3. zone = [sign |-> zone.sign, hour |-> zone.hour, minute |-> zone.minute]
    BY <1>3 DEF ZoneOf
  <2> QED
    BY <2>1, <2>2, <2>3
<1>4. ASSUME IInv PROVE stored \in Int
  <2>1. CASE kind = "date"
    BY <1>4, <2>1, DatesAssumption, Zenon DEF IInv, Read
  <2>2. CASE kind = "timestamp"
    BY <1>4, <2>2, TimesAssumption, Zenon DEF IInv, Read
  <2>3. CASE kind \in {"time", "timetz"}
    <3>1. stored \in 0..Day
      BY <1>4, <2>3, TimesAssumption, Zenon DEF IInv, Read
    <3> QED
      BY <3>1, DayTyped
  <2> QED
    BY <1>4, <2>1, <2>2, <2>3 DEF IInv, Read
<1>5. ASSUME IInv PROVE DateOK
  <2>1. CASE pc = "printed" /\ kind = "date"
    <3>1. stored \in {d \in Int : /\ FirstJulian <= d + POSTGRES_EPOCH_JDATE
                                  /\ d + POSTGRES_EPOCH_JDATE <= LastJulian}
      BY <1>5, <2>1, DatesAssumption, Zenon DEF IInv, Read
    <3>2. date = Printed(j2date(stored + POSTGRES_EPOCH_JDATE))
      BY <1>5, <2>1 DEF IInv, Wrote
    <3>3. stored + POSTGRES_EPOCH_JDATE \in Int
      BY <3>1, EpochTyped
    <3> QED
      BY <1>1, <3>1, <3>2, <3>3
  <2>2. CASE pc = "printed" /\ kind = "timestamp"
    <3>1. stored \in Int /\ stored >= (FirstJulian - POSTGRES_EPOCH_JDATE) * Day
      BY <1>5, <2>2, TimesAssumption DEF IInv, Read
    <3>2. date = Printed(j2date(SplitDay(stored).days + POSTGRES_EPOCH_JDATE))
      BY <1>5, <2>2 DEF IInv, Wrote
    <3>3. /\ SplitDay(stored).days + POSTGRES_EPOCH_JDATE \in Int
          /\ SplitDay(stored).days + POSTGRES_EPOCH_JDATE >= FirstJulian
      BY <3>1, DaySplit, EpochTyped
    <3> QED
      BY <1>1, <3>2, <3>3
  <2>3. CASE date = Nothing
    BY <2>3 DEF Nothing
  <2> QED
    BY <1>5, <2>1, <2>2, <2>3 DEF IInv, Read, Wrote
<1>6. ASSUME IInv PROVE ClockOK
  <2>1. CASE pc = "printed" /\ kind = "timestamp"
    <3>1. stored \in Int /\ stored >= (FirstJulian - POSTGRES_EPOCH_JDATE) * Day
      BY <1>6, <2>1, TimesAssumption DEF IInv, Read
    <3>2. clock = ClockOf(SplitDay(stored).rest)
      BY <1>6, <2>1 DEF IInv, Wrote
    <3>3. SplitDay(stored).rest \in 0..(Day - 1)
      BY <3>1, DaySplit
    <3>4. SplitDay(stored).rest \in Nat /\ SplitDay(stored).rest <= Day
      BY <3>3, DayTyped
    <3> QED
      BY <1>2, <3>2, <3>4
  <2>2. CASE pc = "printed" /\ kind \in {"time", "timetz"}
    <3>1. stored \in 0..Day
      BY <1>6, <2>2, TimesAssumption, Zenon DEF IInv, Read
    <3>2. stored \in Nat /\ stored <= Day
      BY <3>1, DayTyped
    <3>3. clock = ClockOf(stored)
      BY <1>6, <2>2 DEF IInv, Wrote
    <3> QED
      BY <1>2, <3>2, <3>3
  <2>3. CASE clock = Midnight
    BY <2>3 DEF Midnight
  <2> QED
    BY <1>6, <2>1, <2>2, <2>3 DEF IInv, Read, Wrote
<1>7. ASSUME IInv PROVE ZoneOK
  <2>1. CASE zone = NoZone
    BY <2>1 DEF NoZone
  <2>2. CASE zone = ZoneOf(west)
    BY <1>3, <1>7, <2>2 DEF IInv, Read
  <2> QED
    BY <1>7, <2>1, <2>2 DEF IInv, Read, Wrote
<1>8. IInv => TypeOK
  BY <1>4, <1>5, <1>6, <1>7 DEF IInv, Read, TypeOK
<1> QED
  BY <1>8, InvHolds, PTL
=============================================================================
