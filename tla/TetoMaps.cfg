CONSTANTS
  Page = 2
  Top = 18
  Floor = 1
  Stack = 16
  Guard = 2
  Spacing = 4
  FirstMap = 6
  Capacity = 3
  FrameSize = 4
  Frames = 2
  Lengths = {2, 3, 6}
  MaxDirty = 3
SPECIFICATION Spec
INVARIANTS TypeOK RegionsApart
PROPERTIES ImplementsSpace
CHECK_DEADLOCK FALSE
