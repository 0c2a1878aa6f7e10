SPECIFICATION FairSpec
CONSTANTS
  MaxMid = 3
  QosLevels = {0, 1, 2}
  Settings <- MCSettings
  MaxMessages = 3
  MaxFaults = 2
INVARIANTS SessionLosesNothing CleanRepeatsNothing
PROPERTIES EventuallyCompleted
