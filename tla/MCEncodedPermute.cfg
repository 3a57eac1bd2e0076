SPECIFICATION EncodedSpec
CONSTANTS
  E = 3
  TK = 3
  Garbage = {7}
INVARIANTS
  ExclusiveSlots
  GroupedPermutation
PROPERTIES
  NeverOverwritten
  ImplementsDispatch
  ImplementsPermute
  EventuallyGrouped
CHECK_DEADLOCK FALSE
