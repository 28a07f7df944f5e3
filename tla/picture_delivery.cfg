SPECIFICATION Spec
CONSTANTS
    TextureCount = 2
    ChunksOf <- MCChunksOf
    Jpegs = {2}
    Budget = 2
    Reserve = 1
    AtlasCaps = {1, 2}
    MaxTries = 3
    MaxEvents = 1
    MaxResets = 1
    MaxStream = 1
    MaxArrived = 2
    GameDrawing = FALSE
INVARIANTS NoUnexplainedHoles UrgentFirst RepairCoversTheGap
PROPERTIES NothingGivenUpWhileArriving ScreenCompleted
CHECK_DEADLOCK FALSE
