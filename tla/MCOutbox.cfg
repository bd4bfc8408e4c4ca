SPECIFICATION FairSpec
CONSTANTS
  u = u
  Items = {i1, i2, u}
  BatchSize = 2
  Undecodable = {u}
INVARIANTS NothingLost ClaimsAreOwned
PROPERTIES ClosedRowsStayClosed ImplementsDelivery EventuallySettled
