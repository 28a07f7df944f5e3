SPECIFICATION AllSpec
CONSTANTS
    Positions = {1, 2}
    Capacity = 2
    Stamps = 3
    Remembered = 2
    MaxMoves = 1
    MaxPresses = 1
    MaxTaps = 0
    MaxAnswers = 1
    Turns <- SomeTurns
    MaxTurns = 0
INVARIANTS PointerKept
CONSTRAINT OneAtATime
CHECK_DEADLOCK FALSE
