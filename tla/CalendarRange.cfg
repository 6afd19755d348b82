SPECIFICATION Spec
CONSTANTS
  Standard <- Eastern
  SummerDays <- Summer
  Asks <- AllAsks
  FirstDay = 0
  LastDay = 11
CHECK_DEADLOCK FALSE
INVARIANTS
  FlagsMeanWholeDays
  WeekdayIsTheNextOne
  DefaultFits
  DaysFitUnlessClocksGoBack
