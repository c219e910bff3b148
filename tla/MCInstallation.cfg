CONSTANTS
  Versions = {"legacy", "older", "newer", "current"}
  Current = "current"
  Legacy = {"legacy"}
  Attempts = 2
SPECIFICATION Spec
INVARIANTS HelperIsWhole OnlyCompatibleIsCommanded RemovedIsHandedBack
PROPERTIES JobEnds
