SPECIFICATION Spec
CONSTANTS
  Rows = {r1, r2}
  BatchSize = 1
  SecondTicks = 2
  BaseRetryDelay = 1
  MaxRetryDelay = 4
  MaxExponent = 3
  Width = 5
  RetryAfterSeconds = {0, 1, 5, 9, 17}
  MaxTime = 7
  MaxSetBacks = 1
SYMMETRY Symmetry
INVARIANTS DeferralBounded OverdueIsClaimable
PROPERTIES ClaimedNearItsTime OldestFirst
CHECK_DEADLOCK FALSE
