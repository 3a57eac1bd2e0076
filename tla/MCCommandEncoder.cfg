SPECIFICATION Spec
CONSTANTS
  Buffer = {b1, b2}
  MaxLen = 4
  Programs <- SmallPrograms
INVARIANTS
  Serialized
  WriterRemembered
PROPERTIES
  Completes
