SPECIFICATION Spec
CONSTANTS
  r1 = r1
  r2 = r2
  r3 = r3
  m1 = m1
  m2 = m2
  Ranks = {r1, r2}
  Msgs = {m1, m2}
  Hop <- DirectHop
  Near <- SelfNear
  LocalCap = 0
  RemoteCap = 1
  NumIsendsWait = 1
  NumIrecvs = 2
  MaxHooks = 1
  MaxMasks = 1
  None = None
SYMMETRY Symmetry
INVARIANTS
  BuffersAccounted
  NoReentry
  ReceivePosted
  CapacityKept
  FlushedAtReduce
  MaskRespected
