CONSTANTS
  Fans = {1, 2}
  Unranged = {{}, {2}}
  HardwareRange <- MCRange
  Sensors <- MCSensors
  Balanced <- MCBalanced
  Keys <- MCKeys
  Biases <- MCBiases
  Surfaces <- MCSurfaces
  Inputs <- MCInputs
  Speeds <- MCSpeeds
  Hystereses <- MCHystereses
  MaxRows = 4
  MaxUndo = 2
  Percents = {70}
  Saved <- MCSaved
  MaxGestures <- MCMax
SPECIFICATION UiSpec
INVARIANTS ServiceChangesAlone SentIsMeant ConfirmedIsPublished UndoRestores
PROPERTIES LastWordStands PreferencesAgree SaveEnds
