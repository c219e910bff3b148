CONSTANTS
  Modes <- AllModes
  MinRpm = 1
  MaxRpm = 2
  Readings = {1}
  Floors = {2}
  Tolerance = 0
  FineStep = 1
  WriteStep = 2
  IdleMargin = 0
  i1 = i1
  i2 = i2
  Ids = {i1, i2}
  AutoRetry = 1
  WriteInterval = 1
  ModeReconcile = 0
  MismatchHold = 0
  RpmReconcile = 0
  InputHold = 0
  OffResidence = 0
  RunResidence = 0
  CoolingResidence = 1
  QuietConfirmation = 0
SYMMETRY Symmetry
SPECIFICATION Safety
PROPERTIES FailureComesFirst OnlyCurrentAnswersCount EmergencyFloorHolds HandBackIsNotRepeated
