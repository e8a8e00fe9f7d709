CONSTANTS
  k1 = k1
  k2 = k2
  s1 = s1
  s2 = s2
  s3 = s3
  s4 = s4
  None = None
  Threads = {k1, k2}
  Sess = {s1, s2}
  Filters <- TransFilters
  Members <- OneMember
  LocalIp = 30
  Nic <- TransNic
  Env = {"no_arp"}
  TCP_LOCAL_PORT_RANGE_START = 1
  TCP_LOCAL_PORT_RANGE_END = 2
  MaxPort = 3
  SESSION_IDLE_TIMEOUT = 2
  RingSize = 1
SPECIFICATION FairSpec
PROPERTY EverythingReleased
