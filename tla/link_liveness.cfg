CONSTANTS
  l1 = l1
  l2 = l2
  w1 = w1
  Links = {l1, l2}
  Writers = {}
  None = None
  MaxWaits = 1
SPECIFICATION FairSpec
PROPERTIES
  LinkComesBack
CHECK_DEADLOCK FALSE
