SPECIFICATION FairSpec
CONSTANTS
  InflightMaximum = 1
  MaxMid = 9
  QosLevels = {0, 1, 2}
  CleanSessions = {TRUE, FALSE}
  ConnectsAgain = FALSE
  MaxPublish = 3
  MaxFaults = 2
INVARIANTS OrderKept
PROPERTIES PubrecIsFinal ImplementsDelivery EventuallyAcked
