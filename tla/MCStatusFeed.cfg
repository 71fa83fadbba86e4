SPECIFICATION Spec
CONSTANTS
  Goroutines = {main, notify, loop}
  Loop = loop
  Statuses = {"ready", "stopped"}
  Types = {"status", "metrics"}
  Taps = {"t1"}
  Typed <- MCTyped
  Cap = 2
  MaxUpdates = 2
  MaxMetrics = 2
SYMMETRY MCSymmetry
INVARIANTS FeedInv FeedIsCurrent MetricsGoForward
PROPERTIES SilentOnceRemoved
CHECK_DEADLOCK FALSE
