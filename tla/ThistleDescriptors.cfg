CONSTANTS
  sh = sh
  a = a
  b = b
  c = c
  p1 = p1
  NoPipe = NoPipe
  Procs = {sh, a, b}
  Root = sh
  Pipes = {p1}
  FdLimit = 5
  Habits = {"leak", "tty", "join", "setid"}
  MaxOps = 2
  MaxChunks = 2
SPECIFICATION Spec
INVARIANTS TypeOK HoldsExact PipeEnds NoLostWakeup ChunksInOrder
SYMMETRY Alike
CHECK_DEADLOCK FALSE
