SPECIFICATION Spec
CONSTANTS
  FirstYear = 1970
  LastYear = 2106
  V3Years <- MCV3Years
  DayOffsets <- MCDayOffsets
  Clocks <- MCClocks
  MaxCarries = 20
  TableYears = 128
INVARIANTS
  DaysCounted
  V3Right
CHECK_DEADLOCK FALSE
