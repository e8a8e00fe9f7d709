CONSTANTS
  Octet = 2
  Skip = 2
  Width = 4
  Rids = {1, 2}
  RoutePrefix <- TwoHosts
SPECIFICATION RadixSpec
INVARIANT LongestPrefix
CHECK_DEADLOCK FALSE
