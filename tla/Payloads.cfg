CONSTANTS
  h0 = h0
  h1 = h1
  d0 = d0
  d1 = d1
  Hosts <- MCHosts
  Devices <- MCDevices
  Requests <- MCRequests
SPECIFICATION Spec
INVARIANTS
  PoolsSound
  RoutedToDevice
PROPERTIES
  ImplementsStore
CHECK_DEADLOCK FALSE
