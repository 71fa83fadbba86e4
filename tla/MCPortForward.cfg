SPECIFICATION Spec
CONSTANTS
  Containers = {"a", "b"}
  HostPorts = {80, 443}
  HostIPs = {"lo", "lan"}
  Published <- MCPublished
  Addresses = {"a1", "a2"}
  Apart = {"b"}
  MaxStarts = 2
INVARIANTS TrackedInv ForwardedIsCurrent
PROPERTIES StoppedIsClosed
CHECK_DEADLOCK FALSE
