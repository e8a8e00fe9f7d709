CONSTANTS
  Mids = {1, 2, 3}
  Weight <- Unweighted
  MemberSlots = 2
  MaxNodes = 1
  WeightWidth = 4
  Junk = {0}
  Pickers = {w1, w2}
  MaxDeletes = 0
SPECIFICATION FairMemberSpec
PROPERTY NoStarvation
CHECK_DEADLOCK FALSE
