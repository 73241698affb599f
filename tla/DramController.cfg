CONSTANTS
  b0 = b0
  b1 = b1
  b2 = b2
  r0 = r0
  r1 = r1
  NoRow = NoRow
  Addrs <- MCAddrs
  Banks <- MCBanks
  Rows <- MCRows
  BankOf <- MCBankOf
  RowOf <- MCRowOf
  Ranks <- MCRanks
  Commands <- MCCommands
  MaxSize = 1
  LowMark = 1
  HighMark = 1
  ReadLatency = 2
  MaxRefreshes = 1
SPECIFICATION FairSpec
INVARIANT
  OpenForActive
PROPERTY
  ImplementsStore
  NoneStuck
CHECK_DEADLOCK FALSE
