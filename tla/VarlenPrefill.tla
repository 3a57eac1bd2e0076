--------------------------- MODULE VarlenPrefill ----------------------------
(***************************************************************************)
(* attn_varlen_prefill_device, variable-length prefill with no host loop:  *)
(*                                                                         *)
(*   varlen_build_worklist  one threadgroup cuts the packed sequences into *)
(*                          tiles of TILE queries, with two prefix sums    *)
(*                          over one set of simdgroup sums                 *)
(*   varlen_q_pad_gather    copies the queries to the padded layout        *)
(*   attn_varlen_prefill    one threadgroup per tile                       *)
(*   varlen_o_regather      copies the results back to the packed layout   *)
(*                                                                         *)
(* The simdgroups of the first kernel interleave here, their lanes being   *)
(* in lockstep.  The threadgroups of the other three each write rows of    *)
(* their own, so that each of these kernels is one step.  A query is       *)
(* <<"q", token>>; what attention computes for it is the query together    *)
(* with the sequence and the place in it that the kernel takes it for.     *)
(***************************************************************************)
EXTENDS Integers, Sequences, FiniteSets, Functions

CONSTANTS
  NumSeqs,      \* sequences
  SeqLanes,     \* lanes of a simdgroup (32 in the code)
  SeqThreads,   \* most threads of a threadgroup (256 in the code)
  SeqTile,      \* queries of a tile (8 in the code)
  SeqTiles,     \* max_tiles, the caller's bound on the tiles
  SeqLengths    \* the lengths of the sequences, [Seqs -> Nat]

Seqs     == 0 .. NumSeqs-1
WorkTile == 0 .. SeqTiles-1

VarlenAssumption ==
  /\ {NumSeqs, SeqLanes, SeqThreads, SeqTile} \subseteq Nat \ {0} /\ SeqThreads % SeqLanes = 0
  /\ SeqTiles \in Nat
  /\ \A len \in SeqLengths :
       /\ len \in [Seqs -> Nat]
       /\ SumFunctionOnSet([s \in Seqs |-> (len[s] + SeqTile-1) \div SeqTile], Seqs) <= SeqTiles

\* The launcher's number of threads.
nthreads == LET round == ((NumSeqs + SeqLanes-1) \div SeqLanes) * SeqLanes
            IN  IF round > SeqThreads THEN SeqThreads ELSE round
SeqSimdgroup == 0 .. nthreads \div SeqLanes - 1
LanesOf(g)   == g*SeqLanes .. g*SeqLanes + SeqLanes-1

VARIABLES
  cu_seqlens,                                      \* input
  qlens, pad_off, tile_seq, tile_local0, n_tiles,  \* outputs of the worklist
  varlen_sums,                                     \* threadgroup memory
  varlen_pc,                                       \* of each simdgroup
  base_tile, base_pad, total_tiles,                \* its registers
  q_hm, o_hm, o_packed                             \* <<>> before they are written

worklist   == <<qlens, pad_off, tile_seq, tile_local0, n_tiles>>
registers  == <<base_tile, base_pad, total_tiles>>
tensors    == <<q_hm, o_hm, o_packed>>
varlenVars == <<cu_seqlens, worklist, varlen_sums, varlen_pc, registers, tensors>>

Unwritten == -7

VarlenInit ==
  /\ \E len \in SeqLengths :
       cu_seqlens = [s \in 0 .. NumSeqs |-> SumFunctionOnSet(len, 0 .. s-1)]
  /\ qlens = [s \in Seqs |-> Unwritten]
  /\ pad_off = [s \in 0 .. NumSeqs |-> Unwritten]
  /\ tile_seq = [i \in WorkTile |-> Unwritten]
  /\ tile_local0 = [i \in WorkTile |-> Unwritten]
  /\ n_tiles = Unwritten
  /\ varlen_sums = [g \in SeqSimdgroup |-> Unwritten]
  /\ varlen_pc = [g \in SeqSimdgroup |-> "count"]
  /\ base_tile = [g \in SeqSimdgroup |-> Unwritten]
  /\ base_pad = [g \in SeqSimdgroup |-> Unwritten]
  /\ total_tiles = [g \in SeqSimdgroup |-> Unwritten]
  /\ q_hm = <<>> /\ o_hm = <<>> /\ o_packed = <<>>

qlen(s) == cu_seqlens[s+1] - cu_seqlens[s]
nt(s)   == (qlen(s) + SeqTile-1) \div SeqTile

\* The tiles of sequences S, and their padded lengths.
Tiles(S) == SumFunctionOnSet([s \in Seqs |-> nt(s)], S)
Pads(S)  == SumFunctionOnSet([s \in Seqs |-> nt(s) * SeqTile], S)

\* Faulty variant: the chunk is rounded down.
ChunkFloor(t) == LET chunk == NumSeqs \div nthreads IN t*chunk .. t*chunk + chunk-1

\* The sequences of thread t: a contiguous chunk, cut off at B.
Chunk(t) ==
  LET chunk == (NumSeqs + nthreads-1) \div nthreads
  IN  t*chunk .. (IF t*chunk + chunk > NumSeqs THEN NumSeqs ELSE t*chunk + chunk) - 1

Chunks(g) == UNION {Chunk(t) : t \in LanesOf(g)}

GoOn(g, label) == varlen_pc' = [varlen_pc EXCEPT ![g] = label]

(***************************************************************************)
(* First pass over the chunks, and the sum of the simdgroup's tiles.       *)
(***************************************************************************)
Count(g) ==
  /\ varlen_pc[g] = "count"
  /\ qlens' = [s \in Seqs |-> IF s \in Chunks(g) THEN qlen(s) ELSE qlens[s]]
  /\ varlen_sums' = [varlen_sums EXCEPT ![g] = Tiles(Chunks(g))]
  /\ GoOn(g, "counted")
  /\ UNCHANGED <<cu_seqlens, pad_off, tile_seq, tile_local0, n_tiles, registers, tensors>>

\* Sums of the simdgroups below g and of all of them.
SumBelow(g) == SumFunctionOnSet(varlen_sums, 0 .. g-1)
SumAll      == SumFunctionOnSet(varlen_sums, SeqSimdgroup)

SumTiles(g) ==
  /\ varlen_pc[g] = "sum tiles"
  /\ base_tile' = [base_tile EXCEPT ![g] = SumBelow(g)]
  /\ total_tiles' = [total_tiles EXCEPT ![g] = SumAll]
  /\ GoOn(g, "summed")
  /\ UNCHANGED <<cu_seqlens, worklist, varlen_sums, base_pad, tensors>>

\* The second scan, over the padded lengths.
PublishPads(g) ==
  /\ varlen_pc[g] = "publish"
  /\ varlen_sums' = [varlen_sums EXCEPT ![g] = Pads(Chunks(g))]
  /\ GoOn(g, "published")
  /\ UNCHANGED <<cu_seqlens, worklist, registers, tensors>>

\* Thread 0 stores both totals.
SumPads(g) ==
  /\ varlen_pc[g] = "sum pads"
  /\ base_pad' = [base_pad EXCEPT ![g] = SumBelow(g)]
  /\ IF g = 0
     THEN pad_off' = [pad_off EXCEPT ![NumSeqs] = SumAll] /\ n_tiles' = total_tiles[0]
     ELSE UNCHANGED <<pad_off, n_tiles>>
  /\ GoOn(g, "emit")
  /\ UNCHANGED <<cu_seqlens, qlens, tile_seq, tile_local0, varlen_sums, base_tile,
                 total_tiles, tensors>>

(***************************************************************************)
(* The tiles before sequence b, counted from the simdgroup's base: those   *)
(* of the lanes below b's and of b's own lane.                             *)
(***************************************************************************)
RunTile(g, s) == base_tile[g] + Tiles({d \in Chunks(g) : d < s})
RunPad(g, s)  == base_pad[g] + Pads({d \in Chunks(g) : d < s})

\* Second pass over the chunks.
Emit(g) ==
  /\ varlen_pc[g] = "emit"
  /\ LET owner(i) == {s \in Chunks(g) : i \in RunTile(g, s) .. RunTile(g, s) + nt(s)-1}
         seqOf(i) == CHOOSE s \in owner(i) : TRUE
     IN  /\ tile_seq' = [i \in WorkTile |-> IF owner(i) = {} THEN tile_seq[i] ELSE seqOf(i)]
         /\ tile_local0' = [i \in WorkTile |-> IF owner(i) = {} THEN tile_local0[i]
                                               ELSE (i - RunTile(g, seqOf(i))) * SeqTile]
  /\ pad_off' = [s \in 0 .. NumSeqs |-> IF s \in Chunks(g) THEN RunPad(g, s) ELSE pad_off[s]]
  /\ GoOn(g, "fill")
  /\ UNCHANGED <<cu_seqlens, qlens, n_tiles, varlen_sums, registers, tensors>>

\* The simdgroup's share of the tail, strided over the threads.
FillTail(g) ==
  /\ varlen_pc[g] = "fill"
  /\ LET mine == {i \in WorkTile : i >= total_tiles[g] /\ i % nthreads \in LanesOf(g)}
     IN  /\ tile_seq' = [i \in WorkTile |-> IF i \in mine THEN -1 ELSE tile_seq[i]]
         /\ tile_local0' = [i \in WorkTile |-> IF i \in mine THEN 0 ELSE tile_local0[i]]
  /\ GoOn(g, "done")
  /\ UNCHANGED <<cu_seqlens, qlens, pad_off, n_tiles, varlen_sums, registers, tensors>>

\* threadgroup_barrier.
AllPassed(at, to) ==
  (\A g \in SeqSimdgroup : varlen_pc[g] = at) /\ varlen_pc' = [g \in SeqSimdgroup |-> to]

\* The barriers of both scans, and the one between them.
WorklistBarrier ==
  /\ \/ AllPassed("counted", "sum tiles")
     \/ AllPassed("summed", "publish")
     \/ AllPassed("published", "sum pads")
  /\ UNCHANGED <<cu_seqlens, worklist, varlen_sums, registers, tensors>>

Built == \A g \in SeqSimdgroup : varlen_pc[g] = "done"

\* Faulty variant: the end of a sequence is taken for a position of it.
SequenceAtOrAfter(off, i) ==
  LET hit == {k \in Seqs : i <= off[k+1]}
  IN  IF hit = {} THEN NumSeqs-1 ELSE CHOOSE k \in hit : \A d \in hit : k <= d

\* The first sequence that ends after position i, the last one if none does.
SequenceAt(off, i) ==
  LET hit == {k \in Seqs : i < off[k+1]}
  IN  IF hit = {} THEN NumSeqs-1 ELSE CHOOSE k \in hit : \A d \in hit : k <= d

\* The grid is the padded length, which the host reads back.
PadGather ==
  /\ Built /\ q_hm = <<>>
  /\ q_hm' = [p \in 0 .. pad_off[NumSeqs]-1 |->
       LET s == SequenceAt(pad_off, p)
           i == p - pad_off[s]
       IN  IF i < qlen(s) THEN <<"q", cu_seqlens[s] + i>> ELSE <<"zero">>]
  /\ UNCHANGED <<cu_seqlens, worklist, varlen_sums, varlen_pc, registers, o_hm, o_packed>>

\* A tile past n_tiles returns at once; another computes its TILE rows.
Attend ==
  /\ q_hm # <<>> /\ o_hm = <<>>
  /\ o_hm' = [p \in DOMAIN q_hm |->
       LET gx == p \div SeqTile
       IN  IF tile_seq[gx] < 0 THEN <<"undef">>
           ELSE <<tile_seq[gx], tile_local0[gx] + (p % SeqTile), q_hm[p]>>]
  /\ UNCHANGED <<cu_seqlens, worklist, varlen_sums, varlen_pc, registers, q_hm, o_packed>>

Regather ==
  /\ o_hm # <<>> /\ o_packed = <<>>
  /\ o_packed' = [t \in 0 .. cu_seqlens[NumSeqs]-1 |->
       LET s == SequenceAt(cu_seqlens, t) IN o_hm[pad_off[s] + (t - cu_seqlens[s])]]
  /\ UNCHANGED <<cu_seqlens, worklist, varlen_sums, varlen_pc, registers, q_hm, o_hm>>

VarlenNext ==
  \/ WorklistBarrier
  \/ \E g \in SeqSimdgroup : \/ Count(g) \/ SumTiles(g) \/ PublishPads(g)
                          \/ SumPads(g) \/ Emit(g) \/ FillTail(g)
  \/ PadGather \/ Attend \/ Regather

VarlenSpec == VarlenInit /\ [][VarlenNext]_varlenVars
-----------------------------------------------------------------------------
(***************************************************************************)
(* _varlen_worklist, the host's plan: the tiles of sequence after sequence.*)
(***************************************************************************)
HostWorklist ==
  LET tiles[s \in 0 .. NumSeqs] ==
        IF s = 0 THEN <<>>
        ELSE tiles[s-1] \o [t \in 1 .. nt(s-1) |-> <<s-1, (t-1) * SeqTile>>]
  IN  tiles[NumSeqs]

(***************************************************************************)
(* The worklist the simdgroups emit, each from its own bases, is the       *)
(* host's, with sentinels up to max_tiles: for more sequences than         *)
(* threads, idle threads, and empty sequences.                             *)
(***************************************************************************)
WorklistMatchesHost ==
  Built =>
    /\ qlens = [s \in Seqs |-> qlen(s)]
    /\ pad_off = [s \in 0 .. NumSeqs |-> SeqTile * Tiles(0 .. s-1)]
    /\ n_tiles = Len(HostWorklist)
    /\ \A i \in WorkTile : <<tile_seq[i], tile_local0[i]>> =
         IF i < n_tiles THEN HostWorklist[i+1] ELSE <<-1, 0>>

(***************************************************************************)
(* Every token's result is that of its own query, attended to as the       *)
(* sequence and the place in it the token has in the packed batch.         *)
(***************************************************************************)
AttendsOwnQuery ==
  o_packed # <<>> =>
    \A s \in Seqs : \A t \in cu_seqlens[s] .. cu_seqlens[s+1]-1 :
      o_packed[t] = <<s, t - cu_seqlens[s], <<"q", t>>>>
=============================================================================
