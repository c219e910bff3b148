CONSTANTS
  Keys <- MCKeys
  Samples <- MCSamples
  Levels = {0, 50}
  Loads = {80}
  Measurements <- MCMeasurements
  Targets = {38}
  Biases <- MCBiases
  Pressures = {"nominal"}
  Steps = {2, 4}
  MaxAge = 3
  Hold = 4
  DtCap = 2
  Confirmation = 2
  LoadGap = 4
SPECIFICATION Spec
INVARIANTS EvidenceIsOfThisSpell ReadingIsCurrent
PROPERTIES HeatIsHeard
