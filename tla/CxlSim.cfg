CONSTANTS
  h0 = h0
  h1 = h1
  NoPayload = NoPayload
  NoData = NoData
  NoHost = NoHost
  Hosts <- MCHosts
  PktAddrs <- MCPktAddrs
  Tags <- MCTags
  PayloadNum = 2
  BufferSize = 3
  Programs <- MCPrograms
SPECIFICATION FairSpec
INVARIANTS
  TypeOK
  SignalMeansStored
  ReadReturnsData
  ReadsNewest
  RoutedHome
  SpinEnds
  BurstsAddUp
  DramCountExact
  StopIsClean
PROPERTY
  ImplementsMailbox
  RunCompletes
