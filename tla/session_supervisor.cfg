SPECIFICATION Spec
CONSTANTS
  p1 = p1
  main = main
  Stoppers = {p1, main}
  Main = main
  MaxSessions = 3
INVARIANTS StoppedIsReaped 
PROPERTIES EveryStopReturns
CHECK_DEADLOCK FALSE
