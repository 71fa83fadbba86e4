SPECIFICATION GuestSpec
CONSTANTS
  Launches = {"d", "e"}
  Waits = {"v", "w"}
  Down = "down"
  NameOf <- MCNames
  Mounts = 2
INVARIANTS GuestInv UnmountIsQuiet
PROPERTIES WaitReturns PowersOff
CHECK_DEADLOCK FALSE
