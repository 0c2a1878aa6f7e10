SPECIFICATION FairSpec
CONSTANTS
  Base = 2
  Streams <- MCStreams
  MaxConnections = 2
\* The stream of the last connection ends.
INVARIANTS PayloadFits HandledIsSent
PROPERTIES EventuallyHandled
CHECK_DEADLOCK FALSE
