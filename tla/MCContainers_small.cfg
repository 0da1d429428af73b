SPECIFICATION AnySpec
CONSTANTS
  r1 = r1
  r2 = r2
  Ranks = {r1, r2}
  Items <- MCItems
  Owner <- MCOwner
  Slots = {1, 2}
  Slot <- MCSlot
  Calls <- MCCalls
  Starts <- MCStarts
  MaxOps = 1
  MaxFind = 1
  Systems = {"bag"}
  BagStarts <- FewItems
  BagCalls <- Rebalance
INVARIANTS
  RebalanceDefined
