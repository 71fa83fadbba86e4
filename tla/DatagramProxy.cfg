SPECIFICATION ProxyFairSpec
CONSTANTS
  Calls = {c1, c2}
  Data = {"ready", "other"}
  MaxQueue = 2
PROPERTIES ReadPinsSocket CallsComplete
