SPECIFICATION Spec
CONSTANTS
  p1 = p1
  main = main
  Stoppers = {p1, main}
  Main = main
  MaxSessions = 2
INVARIANTS IdleMeansStopped
CHECK_DEADLOCK FALSE
