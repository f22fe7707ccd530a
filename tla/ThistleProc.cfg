CONSTANTS
  MaxPid = 4
  Signals = {2, 9}
  HabitSets = {{}, {"mask"}, {"setid"}, {"missing"}, {"offline"}, {"fails"}, {"read", "endless"}}
  Statuses = {0, 130}
  Errors = {130}
  MaxWidth = 2
  MaxOps = 3
SPECIFICATION FairSpec
INVARIANTS TypeOK StatusNamesSignal NothingForgotten
PROPERTIES EndIsFinal InterruptReachesUnit ForegroundReturns EndedStops
CHECK_DEADLOCK FALSE
