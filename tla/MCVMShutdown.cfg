SPECIFICATION Spec
CONSTANTS
  Launches = {"dockerd"}
  Waits = {"wait"}
  Down = "down"
  NameOf <- MCNameOf
  Mounts = 1
  Listeners = {l1, l2}
INVARIANTS ShutdownInv DoneMeansStopped OffIsUnmounted
PROPERTIES ShutdownEnds
CHECK_DEADLOCK FALSE
