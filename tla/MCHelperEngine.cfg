SPECIFICATION EitherSpec
CONSTANTS
  p1 = p1
  p2 = p2
  f1 = f1
  f2 = f2
  NoPeer = NoPeer
  NoFan = NoFan
  Peers = {p1, p2}
  Fans = {f1, f2}
  LeaseTicks = 2
  c1 = c1
  c2 = c2
  k1 = k1
  k2 = k2
  k3 = k3
  Callers = {c1, c2}
  Connections = {k1, k2, k3}
  NoConnection = NoConnection
INVARIANTS
  ForcedIsAccountedFor
PROPERTIES
  CustodyKept
  LeaseIsExclusive
  LeaseEnds
  OrphanIsRecovered
  CallsAreOrdered
