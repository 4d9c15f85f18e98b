SPECIFICATION Spec
CONSTANTS
  Dates <- MCDates
  Timestamps <- MCTimestamps
  Times <- MCTimes
  Zones <- MCZones
  Second = 2
  Minute = 3
  Hour = 2
  Hours = 4
  LastJulian = 2147483647
INVARIANTS
  DateRestored
  TimestampRestored
  TimeRestored
  ZoneRestored
