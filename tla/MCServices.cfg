SPECIFICATION AnyFairSpec
CONSTANTS
  r1 = r1
  r2 = r2
  k1 = k1
  k2 = k2
  k3 = k3
  Orig = Orig
  Copy = Copy
  Ranks = {r1, r2}
  Keys = {k1, k2, k3}
  NumSlots = 2
  Slot <- MCSlot
  Owner <- MCOwner
  MaxCount = 2
  MaxInserts = 3
  Uses <- Careful
  None = None
  Services = {"counting", "reducing", "work_queue", "progress", "lines", "alias"}
  NextHop <- NLNRHop
  ReduceUses <- CarefulUses
INVARIANTS
  
  
  ReductionsExact
  WorkDone
  ProgressExact
  LinesKept
  TableExact
PROPERTY
  BarrierReturns
