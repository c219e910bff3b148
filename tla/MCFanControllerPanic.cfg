CONSTANTS
  Modes <- WithAdaptive
  MinRpm = 1
  MaxRpm = 2
  Readings = {0, 2}
  Floors = {2}
  Tolerance = 1
  FineStep = 1
  WriteStep = 2
  IdleMargin = 0
  i1 = i1
  i2 = i2
  Ids = {i1}
  AutoRetry = 1
  WriteInterval = 1
  ModeReconcile = 0
  MismatchHold = 0
  RpmReconcile = 0
  InputHold = 1
  OffResidence = 1
  RunResidence = 1
  CoolingResidence = 1
  QuietConfirmation = 0
SPECIFICATION Safety
INVARIANTS TargetIsBounded
