SPECIFICATION Spec
CONSTANTS
  Conns = {c1, c2}
  Talkers = {c1}
  Delay = 1
  Signals = 1
INVARIANTS LatchInv AnswerReaches
PROPERTIES StopsForReason ClientServed IdleStops
CHECK_DEADLOCK FALSE
