SPECIFICATION RegularSpec
CONSTANTS
  MaxNodes = 5
  MaxLocal = 3
  Layouts <- RegularLayouts
CHECK_DEADLOCK FALSE
INVARIANTS
  GridLayout
  RouteShape
  BcastExactlyOnce
PROPERTIES
  NLNRUsesNRPairs
  Arrives
