CONSTANTS
  Keys = {1, 2, 3, 4, 5, 6}
  ByteCount = 6
  MaxPrefix = 1
  Cap4 = 3
  Cap16 = 4
  Cap48 = 5
  Low16 = 2
  Low48 = 3
  Low256 = 4
  Names <- EightNames
  ValuesOf <- OneReplaced
  JunkBytes = {1, 5}
  Octet = 2
  Skip = 2
  Width = 4
  Rids = {1, 2, 3, 4, 5, 6, 7}
  RoutePrefix <- SomeRoutes
  NPages = 3
  MaxRun = 2
  Per <- TwoSlots
  RunPages = 7
  Base = 3
  MaxData = 4
  MaxPad = 1
  IPPROTO_TCP = 1
  IPPROTO_UDP = 2
  PairsOfAddresses <- TwoPairs
SPECIFICATION Spec
INVARIANTS
  TreeKept ArtExact RadixKept MatchExact SlabExact RunsExact ReceiverAgrees
PROPERTY SlabImplements
CHECK_DEADLOCK FALSE
