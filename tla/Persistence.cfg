CONSTANTS
  Walk <- MCWalk
  Base <- MCBase
  WebStarts <- MCWebStarts
  Size <- MCSize
  Image <- MCImage
  DirStarts <- MCDirStarts
  LinkNames <- MCLinkNames
  Target <- MCTarget
  Targets = {"/t", "t"}
  WebTexts = {"v"}
  Texts = {"v", "w"}
  MaxChanges = 2
  MaxSaves = 2
  MaxCrashes = 1
SPECIFICATION Spec
INVARIANTS TypeOK SavedIsPulled NothingForeign
CHECK_DEADLOCK FALSE
