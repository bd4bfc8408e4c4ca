SPECIFICATION LogoutSpec
CONSTANTS
  Items = {i1, i2}
  BatchSize = 1
  Undecodable = {}
SYMMETRY Symmetry
PROPERTY AcknowledgedAfterCompleteDrain
