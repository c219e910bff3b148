CONSTANTS
  left = left
  right = right
  x1 = x1
  x2 = x2
  Fans = {left, right}
  Settings = {custom}
  System = system
  Foreign = {x1, x2}
  Absent = Absent
  Names = {"a", "b"}
SYMMETRY Symmetry
SPECIFICATION Spec
PROPERTIES RestartIsFaithful OriginalIsBackedUp
