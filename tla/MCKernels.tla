------------------------------ MODULE MCKernels ------------------------------
(***************************************************************************)
(* Kernels that share no buffer with each other, checked together: a       *)
(* behaviour is one dispatch of one of them, or one round of speculative   *)
(* decoding.  The others stay idle: their variables are 0, or "idle" with  *)
(* nothing stored for the modules this one extends.                        *)
(*   - ThreadgroupScan, SplitK and MoeMlp, on all inputs;                  *)
(*   - VarlenPrefill on sequences that are empty, fill a tile, or spill    *)
(*     into a second one;                                                  *)
(*   - SpecTree on every tree, every choice of drafts, and every           *)
(*     distribution at the root, shifted by a node's number at the node;   *)
(*   - PagedAttention on one level, with windows and sinks, and on         *)
(*     prefixes before it;                                                 *)
(*   - DraftPrep on one request with one draft and every pair of           *)
(*     distributions, or two drafts and many pairs, and on requests of     *)
(*     unequal numbers of drafts with one pair.                            *)
(***************************************************************************)
EXTENDS ThreadgroupScan, SplitK, MoeMlp, SpecTree, DraftPrep, VarlenPrefill

CONSTANTS PagedBlock, PagedPart, PagedColumns, PagedScore  \* PagedAttention

VARIABLES
  kernel,
  paged_input, partials, merged
-----------------------------------------------------------------------------
BatchLengths == [0 .. NumSeqs-1 -> {0, SeqTile, SeqTile + 1}]

\* The distributions of some grains over the tokens 0 .. n-1.
Distributions(n, grains) ==
  {p \in [0 .. n-1 -> 0 .. grains] : FoldFunction(LAMBDA x, y : x + y, 0, p) = grains}

Trees ==
  {p \in [0 .. TreeNodes-1 -> -1 .. TreeNodes-1] :
     p[0] = -1 /\ \A c \in 1 .. TreeNodes-1 : p[c] \in 0 .. c-1}

DraftTrees ==
  [parents : Trees,
   draft : [1 .. TreeNodes-1 -> 0 .. TreeV-1],
   prob : {[n \in 0 .. TreeNodes-1 |-> [t \in 0 .. TreeV-1 |-> p[(t + n) % TreeV]]] :
             p \in Distributions(TreeV, Mass)},
   tree_valid : BOOLEAN]

PagedTokens(prefixes) ==
  {<<0, t>> : t \in 0 .. PagedColumns * PagedBlock - 1}
    \cup UNION {{<<i, t>> : t \in 0 .. prefixes[i] - 1} : i \in DOMAIN prefixes}

PagedInputs(prefixes, windows, sinks) ==
  [prefixes : {prefixes}, context_len : 0 .. PagedColumns * PagedBlock,
   block_table : [0 .. PagedColumns-1 -> {-1, 0}], window : windows,
   score : [PagedTokens(prefixes) -> PagedScore], sink : sinks]

\* Noise that makes one token the likeliest.
OneLikeliest == {[t \in 0 .. V-1 |-> IF t = best THEN Unit + 1 ELSE 1] : best \in 0 .. V-1}

EveryPair == [q : Distributions(V, Unit), t : Distributions(V, Unit)]

\* Every target, and the distributions of the draft that favour smaller tokens.
OrderedPair == {x \in EveryPair : \A t \in 1 .. V-1 : x.q[t] <= x.q[t-1]}

\* The target spreads what the draft gives to token 0 alone.
OnePair ==
  {[q |-> [t \in 0 .. V-1 |-> IF t = 0 THEN Unit ELSE 0],
    t |-> [t \in 0 .. V-1 |-> IF t < Unit THEN 1 ELSE 0]]}

Batch(kind, s, num, pairs) ==
  LET n == Cardinality(DOMAIN num)
  IN  [kind |-> kind, S |-> s, pairs |-> pairs, bonus |-> V-1,
       seq_lens |-> [r \in 0 .. n-1 |-> 2 + r], num_draft |-> [r \in 0 .. n-1 |-> num[r+1]]]

DraftBatches ==
  UNION {{Batch(kind, 1, <<1>>, EveryPair), Batch(kind, 2, <<2>>, OrderedPair)} :
           kind \in {"linear", "ragged"}}
    \cup {Batch("linear", 1, <<1, 1, 1>>, OnePair), Batch("linear", 2, <<2, 2>>, OnePair),
          Batch("ragged", 2, <<1, 0, 2>>, OnePair), Batch("ragged", 1, <<0, 1, 0>>, OnePair)}

\* Tables that fill the cache from its end.
BlockTables ==
  [r \in 0 .. InputBatch-1 |-> [k \in 0 .. NBlocks-1 |-> NBlocks*(InputBatch - r) - k]]
-----------------------------------------------------------------------------
Paged  == INSTANCE PagedAttention WITH
            block_size <- PagedBlock, partition_size <- PagedPart, Columns <- PagedColumns,
            input <- paged_input,
            Inputs <- PagedInputs(<<>>, {0, 2}, {-1000} \cup PagedScore)
                        \cup PagedInputs(<<3>>, {0}, {-1000})
                        \cup PagedInputs(<<0, 1>>, {0}, {-1000})

ASSUME KernelsAssumption ==
  /\ ScanAssumption /\ SplitKAssumption /\ MlpAssumption /\ TreeAssumption
  /\ VarlenAssumption /\ Paged!PagedAssumption
  /\ BatchAssumption /\ CoinsAssumption /\ TableAssumption

pagedVars == <<paged_input, partials, merged>>

NoScan ==
  /\ counts = [e \in Index |-> 0] /\ offsets = [e \in 0 .. E |-> Garbage]
  /\ cursor = [e \in Index |-> Garbage] /\ pc = [g \in Simdgroup |-> "idle"]
  /\ sg_sums = 0 /\ running = 0 /\ b = 0 /\ v = 0 /\ total = 0
NoSplit ==
  /\ acc = 0 /\ kb = 0 /\ w = 0 /\ pass = 0 /\ sAcc = 0 /\ out = 0
  /\ warp_pc = [x \in Warp |-> "idle"]
NoMlp ==
  /\ topk_ids = 0 /\ sorted_row_idx = 0 /\ expert_offsets = 0 /\ off_pad = 0
  /\ expert_of_tile = 0 /\ gather_idx = 0 /\ inv_pad = [r \in Row |-> -2]
  /\ permuted = 0 /\ inter = 0 /\ expert_out = 0 /\ mlp_out = [tau \in Token |-> Undef]
  /\ grad_eo = 0 /\ dA = 0 /\ dw = [e \in Expert |-> <<>>]
  /\ dx = [tau \in Token |-> Undef] /\ grad_w = [r \in Row |-> Undef]
  /\ mlp_stage = 0 /\ todo = 0
NoVarlen ==
  /\ cu_seqlens = 0 /\ qlens = 0 /\ pad_off = 0 /\ tile_seq = 0 /\ tile_local0 = 0 /\ n_tiles = 0
  /\ varlen_sums = 0 /\ varlen_pc = [g \in SeqSimdgroup |-> "idle"]
  /\ base_tile = 0 /\ base_pad = 0 /\ total_tiles = 0
  /\ q_hm = 0 /\ o_hm = 0 /\ o_packed = <<>>
NoTree ==
  /\ parents = 0 /\ tree_draft = 0 /\ prob = 0 /\ tree_valid = 0 /\ retrieve_next_token = 0
  /\ retrieve_next_sibling = 0 /\ tree_positions = 0 /\ cleared = {} /\ built = {} /\ filled = {}
  /\ accept_index = 0 /\ accept_token = 0 /\ accept_num = 0 /\ j = 0 /\ last = 0 /\ num_acc = 0
  /\ term = 0 /\ tree_pc = "idle"
NoPaged == paged_input = 0 /\ partials = 0 /\ merged = 0
NoDraft ==
  /\ batch = 0 /\ cu = 0 /\ draft = 0 /\ no_draft_probs = 0 /\ is_greedy = 0 /\ recovered = 0
  /\ rows = 0 /\ accepted_cnt = 0 /\ draft_out = 0 /\ packed_tokens = 0 /\ packed_pos = 0
  /\ cu_accepted = 0 /\ compact_pc = 0 /\ stage = "idle" /\ discard = 0 /\ next_token_ids = 0
  /\ valid_count = 0 /\ new_seq_lens = 0 /\ token_indices_to_sample = 0 /\ num_rejected = 0
  /\ expanded = 0 /\ positions = 0 /\ seq_lens = 0 /\ out_clamped_pos = 0
  /\ out_slot_mapping = 0 /\ writes = {} /\ step = 0

KernelsInit ==
  \/ kernel = "scan"     /\ Init         /\ NoSplit /\ NoMlp /\ NoVarlen /\ NoTree /\ NoPaged /\ NoDraft
  \/ kernel = "split"    /\ SplitInit    /\ NoScan /\ NoMlp /\ NoVarlen /\ NoTree /\ NoPaged /\ NoDraft
  \/ kernel = "mlp"      /\ MlpInit      /\ NoScan /\ NoSplit /\ NoVarlen /\ NoTree /\ NoPaged /\ NoDraft
  \/ kernel = "varlen"   /\ VarlenInit   /\ NoScan /\ NoSplit /\ NoMlp /\ NoTree /\ NoPaged /\ NoDraft
  \/ kernel = "tree"     /\ TreeInit     /\ NoScan /\ NoSplit /\ NoMlp /\ NoVarlen /\ NoPaged /\ NoDraft
  \/ kernel = "paged"    /\ Paged!Init   /\ NoScan /\ NoSplit /\ NoMlp /\ NoVarlen /\ NoTree /\ NoDraft
  \/ kernel = "draft"    /\ DraftInit    /\ NoScan /\ NoSplit /\ NoMlp /\ NoVarlen /\ NoTree /\ NoPaged

ScanAlone ==
  kernel = "scan" /\ UNCHANGED <<kernel, splitVars, mlpVars, varlenVars, treeVars, pagedVars, draftVars>>
SplitAlone ==
  kernel = "split" /\ UNCHANGED <<kernel, vars, mlpVars, varlenVars, treeVars, pagedVars, draftVars>>
MlpAlone ==
  kernel = "mlp" /\ UNCHANGED <<kernel, vars, splitVars, varlenVars, treeVars, pagedVars, draftVars>>
VarlenAlone ==
  kernel = "varlen" /\ UNCHANGED <<kernel, vars, splitVars, mlpVars, treeVars, pagedVars, draftVars>>
TreeAlone ==
  kernel = "tree" /\ UNCHANGED <<kernel, vars, splitVars, mlpVars, varlenVars, pagedVars, draftVars>>
PagedAlone ==
  kernel = "paged" /\ UNCHANGED <<kernel, vars, splitVars, mlpVars, varlenVars, treeVars, draftVars>>
DraftAlone ==
  kernel = "draft" /\ UNCHANGED <<kernel, vars, splitVars, mlpVars, varlenVars, treeVars, pagedVars>>

KernelsNext ==
  \/ ScanAlone /\ Next
  \/ SplitAlone /\ SplitNext
  \/ MlpAlone /\ MlpNext
  \/ VarlenAlone /\ VarlenNext
  \/ TreeAlone /\ TreeNext
  \/ PagedAlone /\ Paged!Next
  \/ DraftAlone /\ DraftNext

kernelsVars == <<kernel, vars, splitVars, mlpVars, varlenVars, treeVars, pagedVars, draftVars>>

\* Of the kernels with barriers between simdgroups, for their liveness.
KernelsFairness ==
  /\ WF_kernelsVars(SplitAlone /\ SplitNext)
  /\ WF_kernelsVars(ScanAlone /\ Barrier)
  /\ \A g \in 0 .. SG-1 : WF_kernelsVars(ScanAlone /\ Step(g))

KernelsSpec == KernelsInit /\ [][KernelsNext]_kernelsVars /\ KernelsFairness
-----------------------------------------------------------------------------
\* paged_attention_reduce: every visible token once, relative to the largest score.
SoftmaxOfContext == kernel = "paged" => Paged!SoftmaxOfContext

\* moe_scan_offsets and the split product: no simdgroup is left at a barrier that
\* the others never reach.
KernelsTerminate == <>((kernel = "scan" => Done) /\ (kernel = "split" => SplitDone))
=============================================================================
