SPECIFICATION Spec
CONSTANTS
  c1 = c1
  c2 = c2
  a = a
  b = b
  Clients = {c1}
  Commands = {a, b}
  Pictures <- PicturesTwo
  HistorySize = 3
  GapRetryFrames = 2
  KeyframeRetryFrames = 2
  MaxPending = 1
  MaxFrames = 6
  MaxUplink = 1
INVARIANTS HeldAreStale
PROPERTIES BridgeAnswered MirrorSpec
CONSTRAINTS ShortQueues NobodyReturns
