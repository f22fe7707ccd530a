CONSTANTS
  w1 = w1
  w2 = w2
  Workers = {w1, w2}
  MaxHarts = 2
  Budget = 2
  Programs <- MixedPrograms
  Servers = {w1, w2}
  Direct = {w1}
  Reapers = {w2}
SPECIFICATION Spec
INVARIANTS TypeOK HartExclusive OnlyRunnableExecutes RequestOwed InstructionsInOrder ActiveExact
PROPERTIES ExitedIsFinal ImplementsContract
CHECK_DEADLOCK FALSE
