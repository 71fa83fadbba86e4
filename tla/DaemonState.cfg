SPECIFICATION Spec
CONSTANTS
  MaxSessions = 3
  IPs = {1, 2}
INVARIANT RestartKeepsIdentity
PROPERTIES OneIdentity ExitCompletes
CHECK_DEADLOCK FALSE
