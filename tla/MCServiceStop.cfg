SPECIFICATION FairSpec
CONSTANTS
  ShutdownTimeout = 4
  Slack = 1
  PollTimeout = 5
  MaxTime = 5
INVARIANTS ZeroKeyNeedsSlowPoll QuietStopFinalises
PROPERTY StopReturns
