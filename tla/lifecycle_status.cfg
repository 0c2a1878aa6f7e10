SPECIFICATION FairSpec
CONSTANTS
  ConnectsAgain = FALSE
  OnlineReactions = {"none", "disconnect"}
  OfflineReactions = {"none", "disconnect", "established", "tcp_refused"}
  MessageReactions = {"none", "disconnect"}
  MaxWaiting = 2
  MaxCalls = 4
  MaxFaults = 3
INVARIANTS AliveIsAccepted WireOrder LostOnce
PROPERTIES EventuallyConnected EventuallyDisconnected
CHECK_DEADLOCK FALSE
