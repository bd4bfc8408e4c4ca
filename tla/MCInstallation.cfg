SPECIFICATION InstallSpec
CONSTANTS
  Creators = {c1, c2, c3}
  None = None
SYMMETRY Symmetry
INVARIANTS KeyOpensDatabase SuccessIsLasting ActivatedFindsStorage UsableUnlessCrashed
CHECK_DEADLOCK FALSE
