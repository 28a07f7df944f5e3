SPECIFICATION Spec
CONSTANTS
    Candidates = {c1, c2}
    UdpWorks = TRUE
    MaxFaults = 1
    Polls = {p1}
    MaxMoves = 2
    MaxOthers = 1
INVARIANTS FlagsTellOrders NoCandidateForgotten
PROPERTIES DeadCanvasLeaves PageSettles
CHECK_DEADLOCK FALSE
