SPECIFICATION KernelsSpec
CONSTANTS
  SG = 3
  W = 2
  E = 8
  Value = {0, 2}
  WARPS = 4
  KB = 6
  PASSES = 2
  Experts = 3
  T = 2
  K = 2
  TILE = 2
  Threads = 2
  NumSeqs = 5
  SeqLanes = 2
  SeqThreads = 4
  SeqTile = 2
  SeqTiles = 10
  SeqLengths <- BatchLengths
  TreeNodes = 4
  TreeV = 3
  Mass = 3
  TreeInputs <- DraftTrees
  PagedBlock = 1
  PagedPart = 2
  PagedColumns = 3
  PagedScore = {0, 2}
  V = 3
  Unit = 2
  Coins = 2
  NThreads = 2
  BlockSize = 2
  NBlocks = 4
  MaxModelLen = 7
  NSteps = 3
  InputBatch = 4
  block_table <- BlockTables
  Noises <- OneLikeliest
  Batches <- DraftBatches
INVARIANTS
  BonusAtLeaf
CHECK_DEADLOCK FALSE
