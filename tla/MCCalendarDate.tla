--------------------------- MODULE MCCalendarDate ---------------------------
(***************************************************************************)
(* Days and times for CalendarDate: 400 years and more, both ends of the   *)
(* range of dates, the turn from BC to AD, and every tick of short days.   *)
(***************************************************************************)
EXTENDS CalendarDate

Days(first, last) == {jd - POSTGRES_EPOCH_JDATE : jd \in first..last}

MCDates ==
  Days(FirstJulian, FirstJulian + 1500) \cup Days(0, 800)
    \cup Days(1719000, 1723000) \cup Days(2299000, 2453000)
    \cup Days(2147300000, 2147301500)

(* All ticks of some days around leap days, and the turns of years.        *)
MCTimestamps ==
  UNION {(d * Day)..((d + 1) * Day) :
           d \in (-3)..62 \cup (-36530)..(-36524) \cup (-730490)..(-730480)
                 \cup (-2451545)..(-2451540)}

MCTimes == 0..Day
MCZones == {0, 1, -1, 59, -59, 60, -60, 3600, -3600, 19800, -20700, 57599, -57599,
            -3661, 3661, 1800, -1800}
=============================================================================
