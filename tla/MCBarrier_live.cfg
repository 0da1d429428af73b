SPECIFICATION FairSpec
CONSTANTS
  r1 = r1
  r2 = r2
  r3 = r3
  m1 = m1
  Ranks = {r1, r2, r3}
  Msgs = {m1}
  Hop <- RelayHop
  Relay = r1
  MaxHooks = 1
  Callback = Callback
  None = None
PROPERTIES
  BarrierReturns
  AsyncBarrierReturns
