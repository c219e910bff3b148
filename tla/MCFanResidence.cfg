CONSTANTS
  Modes <- CurveModes
  MinRpm = 0
  MaxRpm = 1
  Readings = {0, 1}
  Floors = {1}
  Tolerance = 1
  FineStep = 1
  WriteStep = 2
  IdleMargin = 0
  Ids = {1}
  AutoRetry = 1
  WriteInterval = 0
  ModeReconcile = 0
  MismatchHold = 0
  RpmReconcile = 0
  InputHold = 0
  OffResidence = 1
  RunResidence = 1
  CoolingResidence = 0
  QuietConfirmation = 0
SPECIFICATION HistorySpec
PROPERTIES ResidenceIsKept FanIsReturned
