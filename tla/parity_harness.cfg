SPECIFICATION Spec
CONSTANTS
    MaxPictures = 5
    Whole = 2
    Places = {1, 2}
    Look <- CyclingLook
    Tolerance = 2
    Animated = {30}
    Checkpoints = 2
    Burst = 2
    Zooms = 1
    MaxPolls = 1
    Canvas = 2
    Only = {"scroll", "soak"}
    Grabs = 2
    SoakFrames = 2
INVARIANTS PairsAreOfTheirWindow ReportIsWhole 
PROPERTIES RunEnds
CHECK_DEADLOCK FALSE
