CONSTANTS
  Order <- MCOrder
  MaxNodes = 5
  Image <- MCImage
  Depth = 2
  Targets <- MCTargets
  NodeCost = 1
  Capacity = 5
  MaxHops = 3
  MaxFetches = 2
  Overlay = TRUE
  Careful = TRUE
SPECIFICATION Spec
PROPERTIES RestartKeeps
CHECK_DEADLOCK FALSE
