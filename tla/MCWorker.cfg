CONSTANTS
  f1 = f1
  f2 = f2
  Fans = {f1, f2}
SPECIFICATION Spec
INVARIANTS UnownedIsFree NoActionIsForgotten
PROPERTIES BarrierHolds UserResetIsFinal UninstallIsHandedBack HandBackEnds
