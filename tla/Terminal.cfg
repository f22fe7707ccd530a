CONSTANTS
  Kinds = {"quiet", "cat", "bg", "tui", "secret", "thsh"}
  MaxKeys = 5
  MaxCommands = 3
SPECIFICATION FairSpec
INVARIANTS TypeOK KeysInOrder ModesFollow
PROPERTIES InterruptedEnds CommandsRun
CHECK_DEADLOCK FALSE
