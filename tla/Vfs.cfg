CONSTANTS
  Order <- MCOrder
  MaxNodes = 4
  Image <- MCImage
  Depth = 2
  Targets <- MCTargets
  NodeCost = 1
  Capacity = 4
  MaxHops = 3
  MaxFetches = 2
  Overlay = FALSE
  Careful = TRUE
SPECIFICATION Spec
INVARIANTS TypeOK LinksCounted TreeShaped
PROPERTIES ImplementsFileTree
CHECK_DEADLOCK FALSE
