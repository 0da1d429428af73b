SPECIFICATION RelaySpec
CONSTANTS
  r1 = r1
  r2 = r2
  r3 = r3
  m1 = m1
  m2 = m2
  Ranks = {r1, r2, r3}
  Msgs = {m1, m2}
  Hop <- RelayHop
  Near <- PairNear
  LocalCap = 0
  RemoteCap = 1
  NumIsendsWait = 0
  NumIrecvs = 2
  MaxHooks = 0
  MaxMasks = 0
  None = None
SYMMETRY Symmetry
INVARIANTS
  OnePlace
