SPECIFICATION Spec
CONSTANTS
  r1 = r1
  r2 = r2
  m1 = m1
  m2 = m2
  m3 = m3
  Ranks = {r1, r2}
  Msgs = {m1, m2, m3}
  Hop <- DirectHop
  MaxHooks = 1
  Callback = Callback
  None = None
  Relay = r1
SYMMETRY Symmetry
INVARIANTS
  IInv
  BarrierQuiescent
  ReduceEntryClean
  CollectivesMatch
PROPERTY
  PromiseKept
