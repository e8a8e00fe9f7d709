CONSTANTS
  MaxId = 4
  IdMod = 65536
  Shapes <- TwoShapes
  Strange = TRUE
  PortIds = {1, 5}
  IpIdMod = 4
  Indexes <- TwoStarts
  MaxIpId = 2
  MaxIpCrashes = 2
  a1 = a1
  a2 = a2
  Addr = {a1, a2}
  Subnets <- HostAndDefault
  Hops = {h1, h2}
  KernelHops = {h1}
  Port = port
  Foreign = foreign
  Unset = unset
  InboxLen = 1
  MaxRows = 1
  Mids = {1, 2, 3}
  Weight <- Unweighted
  MemberSlots = 2
  MaxNodes = 1
  WeightWidth = 2
  Junk = {0, 3}
  Pickers = {w1, w2}
  MaxDeletes = 1
  Bits = 1
  Fids = {1, 2, 3, 4}
  Prefix <- Nested
  Serves <- Mixed
  Services = {1, 2}
  FilterSlots = 2
  Searchers = {w1}
  MaxIndex = 3
  N = 2
  P = 2
  Qcnt = 1
  CountWidth = 256
  Bufs = {b1}
  RingLen = 1
  ReadMax = 1
  MaxDoubled = 1
  Starts = {a, b}
  MaxOrders = 2
  MaxCrashes = 2
  Capturers = {w1, w2}
  Descriptors = {1, 2}
  MaxBurst = 2
  MaxRecords = 4
SPECIFICATION Spec
INVARIANTS
  SystemTypes ConfigKept AddressesExact RoutesKept MembersKept
  TableExact SearchExact BuffersPlaced SingleUser
  SupervisorSafe CaptureKept
PROPERTY NoFreeUnderInsert
CHECK_DEADLOCK FALSE
