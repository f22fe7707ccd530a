CONSTANTS
  Walk <- MCWalk
  Base <- MCBase
  Starts <- MCStarts
  Size <- MCSize
  Texts = {"v", "w"}
  MaxChanges = 2
  MaxSaves = 2
  MaxCrashes = 1
SPECIFICATION Spec
PROPERTIES UnmountedNotSaved
CHECK_DEADLOCK FALSE
