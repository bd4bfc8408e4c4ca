SPECIFICATION Spec
CONSTANTS
  Letters = {E}
  Volumes = {v1, v2}
  Names = {a, b}
  ScanLimit = 1
  EventLimit = 1
  DeviceLimit = 2
  SummaryEvents = 2
  MaxScans = 3
  MaxChanges = 3
SYMMETRY Symmetry
INVARIANTS SummaryExplainsFiles SummaryShowsDevices
CHECK_DEADLOCK FALSE
