\* Epochs at the ends of an int.
SPECIFICATION Spec
CONSTANTS
  None = None
  Garbled = Garbled
  Numbers = {1}
  Rests = {""}
  Epochs <- EpochsAtTheEnds
  MaxLen = 1
  Width = 4
  MaxServed = 2
CHECK_DEADLOCK FALSE
INVARIANTS
  EpochNeverDrops
