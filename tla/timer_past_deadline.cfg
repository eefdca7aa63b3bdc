CONSTANTS
  MaxTime = 3
  Durations = {0, 1}
INIT Init
NEXT Next
INVARIANT SleepUntilNeverPanics
