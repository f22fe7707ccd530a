CONSTANTS
  w1 = w1
  w2 = w2
  Workers = {w1, w2}
  MaxHarts = 3
  Budget = 2
  Programs <- LoopPrograms
  Servers = {w1}
  Direct = {}
  Reapers = {}
SPECIFICATION FairSpec
PROPERTIES NoHartStarves EveryRequestSettled FiniteProgramsEnd
CHECK_DEADLOCK FALSE
