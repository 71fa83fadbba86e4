SPECIFICATION Spec
CONSTANTS
  Calls = {"launcher", "notifier"}
  Data = {"ready", "other"}
  MaxQueue = 2
INVARIANTS ServiceInv
PROPERTIES KeepsContract AnnouncedReturns StopCompletes
CHECK_DEADLOCK FALSE
