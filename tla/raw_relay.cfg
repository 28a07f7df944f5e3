SPECIFICATION Spec
CONSTANTS
  v1 = v1
  plain = plain
  answer = answer
  Viewers = {v1}
  Images = {plain, answer}
  MaxFrames = 2
  Sockets = {v1}
  Stamped = {answer}
  MaxConns = 2
INVARIANTS NewestKept AnnouncedFirst
PROPERTIES HolderMirrors CloseEnds NewestShown
CHECK_DEADLOCK FALSE
