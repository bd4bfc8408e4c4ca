SPECIFICATION DaySpec
CONSTANTS
  Observed <- MCObserved
  SummaryEvery = 2
  SleepGap = 1
  MaxTime = 3
  MaxSegments = 4
  MaxSessions = 2
  MaxFailures = 1
  Moment <- MCMoment
  Second = 3
  DayLength = 18
INVARIANTS OneOpenSession SessionTimeCountedOnce ForegroundIsActive RevisionsGrow
PROPERTIES ClosedSessionsFrozen ActiveTimeIsWitnessed SampledTimeIsRecorded
CHECK_DEADLOCK FALSE
