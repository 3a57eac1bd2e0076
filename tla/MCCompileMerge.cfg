SPECIFICATION Spec
CONSTANTS
  Programs <- UncommonFunctions
  Fusable = {"e", "f", "g", "h"}
  MaxDepth = 11
  Passes = 3
INVARIANT
  SameOutput
CHECK_DEADLOCK FALSE
