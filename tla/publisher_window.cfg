SPECIFICATION Spec
CONSTANTS
  InflightMaximum = 2
  MaxMid = 3
  QosLevels = {1, 2}
  CleanSessions = {FALSE}
  ConnectsAgain = TRUE
  MaxPublish = 4
  MaxFaults = 1
INVARIANTS HeldAreLast HeldOnlyWhenFull QuotaAccounts AcksMatch
