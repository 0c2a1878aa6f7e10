SPECIFICATION Spec
CONSTANTS
  Size = 2
  ReconnectsIn = {"on_disconnect"}
  MaxPackets = 4
  MaxBusy = 2
INVARIANTS FreedOnce ToldWhenWritten
PROPERTIES ImplementsStream
CHECK_DEADLOCK FALSE
