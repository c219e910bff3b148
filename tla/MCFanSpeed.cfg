CONSTANTS
  Curve <- BalancedCurve
  Hysteresis = 2
  DeadBand = 1
  Inputs = {1, 4, 5, 6, 7, 8, 10}
  Full = 10
  Alerts <- TemperatureAlerts
  PressureFloor <- Floors
  HotFloor = 8
  UrgentInput = 8
  UrgentSpeed = 7
  MinRpm = 2
  MaxRpm = 11
  Readings = {0, 6, 15}
  RiseRate = 4
  FallRate = 3
  ReleaseRate = 1
  FineStep = 2
  WriteStep = 3
  WriteInterval = 3
  Elapsed = {1, 2}
SPECIFICATION Spec
INVARIANT SpeedCoversSteadyInput
PROPERTIES EmergencyIsObeyed SteadyInputSettles
