SPECIFICATION AnyBcastSpec
CONSTANTS
  MaxNodes = 3
  MaxLocal = 2
  Layouts <- CyclicLayouts
CHECK_DEADLOCK FALSE
INVARIANT
  BcastReachesAll
