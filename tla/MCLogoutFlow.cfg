SPECIFICATION LogoutFairSpec
CONSTANTS
  u = u
  Items = {i1, u}
  BatchSize = 1
  Undecodable = {u}
INVARIANT UploadsOnlyAtLogout
PROPERTIES AcknowledgedAfterFirstAttempts OnlyServerPassesAcknowledge WebLogoutAnswered
