\* Every version of two segments, followed by two more.
SPECIFICATION Spec
CONSTANTS
  None = None
  Garbled = Garbled
  Numbers = {0, 1}
  Rests = {"", "rc"}
  Epochs = {0, 1}
  MaxLen = 2
  Width = 4
  MaxServed = 3
CHECK_DEADLOCK FALSE
INVARIANTS
  NeverGoesBack
  FollowsByValue
