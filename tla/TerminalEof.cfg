CONSTANTS
  Kinds = {"quiet", "cat"}
  MaxKeys = 4
  MaxCommands = 2
SPECIFICATION Spec
INVARIANTS EndIsTyped
CHECK_DEADLOCK FALSE
