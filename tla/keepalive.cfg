SPECIFICATION Spec
CONSTANTS
  KeepaliveSeconds = 5
  Timeouts = {0, 1, 7}
  MaxGap = 1
  MaxDelay = 2
  MaxBacklog = 2
INVARIANTS BrokerIsContacted SilenceIsNoticed
PROPERTIES NoFalseAlarm
