SPECIFICATION DaySpec
CONSTANTS
  Observed <- MCObserved
  SummaryEvery = 2
  SleepGap = 1
  MaxTime = 4
  MaxSegments = 4
  MaxSessions = 2
  MaxFailures = 0
  Moment <- MCMoment
  Second = 3
  DayLength = 18
INVARIANT PastDaysComplete
CHECK_DEADLOCK FALSE
