CONSTANTS
  h0 = h0
  h1 = h1
  h2 = h2
  Hosts <- MCHosts
  Traces <- MCTraces
  Leftover <- MCLeftover
  BufferSize = 3
  PacketSize = 4
  AddressSpan = 32
  FloatExact = 12
SPECIFICATION Spec
INVARIANTS
  TypeOK
  EveryHostStarts
PROPERTIES
  ImplementsHostProcess
  AllServed
