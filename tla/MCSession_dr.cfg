CONSTANTS
  k1 = k1
  k2 = k2
  s1 = s1
  s2 = s2
  s3 = s3
  s4 = s4
  None = None
  Threads = {k1, k2}
  Sess = {s1, s2, s3, s4}
  Filters <- DrFilters
  Members <- OneMember
  LocalIp = 30
  Nic <- DrNic
  Env = {"no_arp"}
  TCP_LOCAL_PORT_RANGE_START = 1
  TCP_LOCAL_PORT_RANGE_END = 1
  MaxPort = 1
  SESSION_IDLE_TIMEOUT = 4
  RingSize = 1
SPECIFICATION Spec
SYMMETRY SessSymmetry
INVARIANTS ReplyFindsOwner TimeoutCursorLinked PairsIntact
PROPERTY ForwardsToOwner
