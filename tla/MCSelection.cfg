SPECIFICATION Spec
CONSTANTS
  LogW = 2
  E = 6
  Score = {0, 1}
  Bias = {0, 2}
  Ks = {3}
  BM = 2
  V = 9
  Slots = 2
  Value = {0, 1}
  B = 2
  MaxBlocks = 2
  BlockSize = 2
  NumBlocks = 8
  Logits <- SomeLogits
  Cums <- SomeCums
  Tables <- SomeTables
  SeqLens <- SomeSeqLens
INVARIANTS
  RoutesBest
  AdvancesBest
  HoldsParentHistory
  CopyAgreesWithRemap
CHECK_DEADLOCK FALSE
