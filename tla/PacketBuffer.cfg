CONSTANTS
  BufferSize = 4
  Packets = {p, q}
SPECIFICATION FairSpec
INVARIANTS
  SlotsApart
  NoTornPacket
  RingInv
PROPERTIES
  ImplementsRing
  SendReturns
