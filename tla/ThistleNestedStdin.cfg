CONSTANTS
  sh = sh
  a = a
  b = b
  c = c
  p1 = p1
  NoPipe = NoPipe
  Procs = {sh, a, b, c}
  Root = sh
  Pipes = {p1}
  FdLimit = 5
  Habits = {"tty"}
  MaxOps = 1
  MaxChunks = 1
SPECIFICATION Spec
INVARIANT ShellKeepsStdin
SYMMETRY Alike
CHECK_DEADLOCK FALSE
