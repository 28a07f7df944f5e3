SPECIFICATION AllSpec
CONSTANTS
    Positions = {1, 2}
    Capacity = 2
    Stamps = 3
    Remembered = 2
    MaxMoves = 2
    MaxPresses = 3
    MaxTaps = 1
    MaxAnswers = 1
    Turns <- SomeTurns
    MaxTurns = 6
INVARIANTS CountsClose AnsweredInOrder  
  
CONSTRAINT OneAtATime
CHECK_DEADLOCK FALSE
