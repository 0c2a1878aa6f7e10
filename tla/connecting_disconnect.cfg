SPECIFICATION Spec
CONSTANTS
  Proxies = {"none"}
  Backoffs <- MCBackoffs
  Addresses = 2
  BoundAs <- MCBoundAs
  Codes = {3, 9}
  MaxFaults = 1
CHECK_DEADLOCK FALSE
PROPERTIES DisconnectInCallbackEnds
