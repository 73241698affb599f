CONSTANTS
  h0 = h0
  h1 = h1
  NoPayload = NoPayload
  NoData = NoData
  NoHost = NoHost
  Hosts <- MCHosts
  PktAddrs <- MCPktAddrs
  Tags <- MCTags
  PayloadNum = 3
  Requests <- Stream
SPECIFICATION StreamSpec
INVARIANTS
  TypeOK
  PopsSafe
  RouteInv
  RoutedHome
PROPERTY
  ImplementsSwitch
  QueuedIsDelivered
