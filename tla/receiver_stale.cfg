SPECIFICATION Spec
CONSTANTS
  MaxMid = 1
  QosLevels = {2}
  Settings <- MCClean
  MaxMessages = 2
  MaxFaults = 1
INVARIANTS CompletedWasPassed
