SPECIFICATION Spec
CONSTANTS
    TextureCount = 2
    ChunksOf <- MCChunksOf
    Jpegs = {1}
    Budget = 2
    Reserve = 1
    AtlasCaps = {2}
    MaxTries = 3
    MaxEvents = 1
    MaxResets = 1
    MaxStream = 1
    MaxArrived = 2
    GameDrawing = TRUE
PROPERTIES HeartbeatCatches
CHECK_DEADLOCK FALSE
