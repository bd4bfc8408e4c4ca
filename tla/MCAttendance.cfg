SPECIFICATION FairSpec
CONSTANTS
  DayLength = 2
  MaxTime = 5
  None = None
INVARIANTS OriginalTimeKept CheckedInIsRecorded RecordedInOrder
PROPERTIES QueuedUntilRecorded EventuallyRecorded TodayIsRecorded
CHECK_DEADLOCK FALSE
