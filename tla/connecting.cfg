SPECIFICATION Spec
CONSTANTS
  Proxies = {"none", "open", "username"}
  Backoffs <- MCBackoffs
  Addresses = 2
  BoundAs <- MCBoundAs
  Codes = {3, 9}
  MaxFaults = 3
INVARIANTS NoDescriptorLeaks HandshakeIsWhole LossIsRetried
PROPERTIES DelaysGrow EventuallyUp DisconnectEnds
CHECK_DEADLOCK FALSE
