SPECIFICATION ClockedSpec
CONSTANTS
  Mounts = 2
  Tolerance = 1
  FirstLimit = 1
  StepFrom = 4
  Second = 5
  Delays = {0, 3}
  Offsets <- MCOffsets
  Drifts <- MCDrifts
  Naps = {10}
  MaxNaps = 1
INVARIANTS BootInv
PROPERTIES StopReported BootEnds SetIsAccurate ClockRecovers
CHECK_DEADLOCK FALSE
