SPECIFICATION Spec
CONSTANTS
  c1 = c1
  c2 = c2
  a = a
  b = b
  Clients = {c1, c2}
  Commands = {a, b}
  Pictures <- PicturesTwo
  HistorySize = 2
  GapRetryFrames = 1
  KeyframeRetryFrames = 1
  MaxPending = 1
  MaxFrames = 3
  MaxUplink = 1
SYMMETRY Symmetry
INVARIANTS OnlyLossMakesGaps StillScreenShown SceneIsTheFrame 
CONSTRAINT ShortQueues
