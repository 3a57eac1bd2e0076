------------------------------- MODULE BeamKv -------------------------------
(***************************************************************************)
(* The paged KV cache of beam search.  kv_cache_scatter fills a fresh      *)
(* cache with the tokens of every beam, in two dispatches: kv_cache_zero,  *)
(* then the scatter.  After a step the new beam k continues beam           *)
(* parent_beam[k], so its physical blocks must come to hold what its       *)
(* parent's blocks held.                                                   *)
(* beam_reorder_kv does it with three dispatches: beam_build_copy_pairs    *)
(* turns parents into pairs of blocks, kv_cache_clone copies the cache,    *)
(* kv_cache_copy_blocks applies the pairs to the clone, reading the        *)
(* original.  beam_remap_block_table is the alternative without a copy.    *)
(* kv_cache_gather reads a cache back.                                     *)
(*                                                                         *)
(* The pairs and the clone share no buffer, and their threads run          *)
(* together; kv_cache_copy_blocks reads the pairs and writes the clone,    *)
(* and the encoder's barrier makes it wait for both.  The values of keys   *)
(* and the values are moved alike: one cell per token stands for both.     *)
(***************************************************************************)
EXTENDS Beams, Sequences, Functions

CONSTANTS
  B,             \* batch entries
  MaxBlocks,     \* columns of the block table
  BlockSize,     \* tokens of a block
  NumBlocks,     \* blocks of the cache
  Tables,        \* block tables: functions from rows and columns to blocks or -1
  SeqLens        \* functions from rows to numbers of tokens

Row == 0 .. B*BM-1
Col == 0 .. MaxBlocks-1
Blk == 0 .. NumBlocks-1

(***************************************************************************)
(* beam_reorder_kv requires distinct physical blocks of all beams.  A row  *)
(* has columns for its length.                                             *)
(***************************************************************************)
KvAssumption ==
  /\ {B, MaxBlocks, BlockSize, NumBlocks} \subseteq Nat \ {0}
  /\ \A bt \in Tables :
       /\ bt \in [Row -> [Col -> Blk \cup {-1}]]
       /\ \A r, q \in Row : \A c, d \in Col :
            bt[r][c] = bt[q][d] /\ bt[r][c] >= 0 => r = q /\ c = d
  /\ SeqLens \subseteq [Row -> 0 .. MaxBlocks * BlockSize]

Vec    == 4                                \* elements a thread of the clone copies
NSlots == B * BM * MaxBlocks
Slot   == 0 .. NSlots-1                    \* threads of beam_build_copy_pairs
Cell   == 0 .. NumBlocks * BlockSize - 1   \* tokens of the cache
Thread == {i \in Cell : i % Vec = 0}       \* threads of the clone, by first cell

Garbage  == -2     \* what a fresh buffer holds
Sentinel == <<-1, -1>>

\* Token p of row r, as a number other than 0 and Garbage.
Content(r, p) == 1 + r * (MaxBlocks * BlockSize) + p

VARIABLES
  block_table, seq_lens,   \* inputs, <<>> before
  parents,       \* input, the parent_beam of every row
  key_cache,     \* the cache before the step
  zeroed,        \* threads of kv_cache_zero that are done
  scattered,     \* rows whose tokens are in the cache
  pairs,         \* pair of each slot, <<>> before it is written
  cloned,        \* threads of the clone that are done
  key_out,       \* the clone
  copied,        \* [slot, i]: cells copied by kv_cache_copy_blocks
  gathered,      \* what gather reads from key_out, <<>> before
  remapped       \* and from key_cache through the remapped table

input  == <<block_table, parents, seq_lens>>
filled == <<key_cache, zeroed, scattered>>
moved  == <<pairs, cloned, key_out, copied>>
read   == <<gathered, remapped>>
kvVars == <<input, filled, moved, read>>

KvInit ==
  /\ block_table = <<>> /\ parents = <<>> /\ seq_lens = <<>>
  /\ key_cache = [i \in Cell |-> Garbage]
  /\ zeroed = {} /\ scattered = {}
  /\ pairs = [s \in Slot |-> <<>>]
  /\ cloned = {} /\ copied = {}
  /\ key_out = [i \in Cell |-> Garbage]
  /\ gathered = <<>> /\ remapped = <<>>

KvStep == block_table # <<>>

\* The caller brings the parents of the step, with tables and lengths.
Receive(parent_rows) ==
  /\ ~KvStep
  /\ block_table' \in Tables /\ seq_lens' \in SeqLens
  /\ parents' = parent_rows
  /\ UNCHANGED <<filled, moved, read>>

\* Each thread clears one cell; those of Vec neighbours are one step, since
\* nothing but the scatter can tell in which order they are cleared.
Zero(t) ==
  /\ KvStep /\ t \notin zeroed
  /\ zeroed' = zeroed \cup {t}
  /\ key_cache' = [i \in Cell |-> IF i \in t .. t+Vec-1 THEN 0 ELSE key_cache[i]]
  /\ UNCHANGED <<input, scattered, moved, read>>

\* The slot of token p of row r, the caller's slot_mapping.
SlotMapping(r, p) ==
  LET block == block_table[r][p \div BlockSize]
  IN  IF block < 0 THEN -1 ELSE block * BlockSize + (p % BlockSize)

\* Faulty variant: the scatter does not wait for the zeros.
MayScatterEarly == KvStep

\* Both kernels write the cache: a barrier lies between them.
MayScatter == KvStep /\ zeroed = Thread

(***************************************************************************)
(* kv_cache_scatter for the tokens of row r, a threadgroup each: no two    *)
(* write the same cell.  A token without a slot is left out.               *)
(***************************************************************************)
Scatter(r) ==
  /\ MayScatter /\ r \notin scattered
  /\ scattered' = scattered \cup {r}
  /\ key_cache' = [i \in Cell |->
       LET here == {p \in 0 .. seq_lens[r]-1 : SlotMapping(r, p) = i}
       IN  IF here = {} THEN key_cache[i] ELSE Content(r, CHOOSE p \in here : TRUE)]
  /\ UNCHANGED <<input, zeroed, moved, read>>

Filled == KvStep /\ scattered = Row

ParentRow(r) == (r \div BM) * BM + parents[r]

NumBlk(len) == (len + BlockSize - 1) \div BlockSize

(***************************************************************************)
(* The pair a thread of beam_build_copy_pairs finds: source, destination.  *)
(***************************************************************************)
PairOf(s) ==
  LET gb == s \div MaxBlocks
      c  == s % MaxBlocks
      src == block_table[ParentRow(gb)][c]
      dst == block_table[gb][c]
  IN  IF /\ parents[gb] # gb % BM
         /\ c < NumBlk(seq_lens[gb])
         /\ src >= 0 /\ dst >= 0
      THEN <<src, dst>> ELSE Sentinel

BuildPair(s) ==
  /\ Filled /\ pairs[s] = <<>>
  /\ pairs' = [pairs EXCEPT ![s] = PairOf(s)]
  /\ UNCHANGED <<input, filled, cloned, key_out, copied, read>>

Clone(t) ==
  /\ Filled /\ t \notin cloned
  /\ cloned' = cloned \cup {t}
  /\ key_out' = [i \in Cell |-> IF i \in t .. t+Vec-1 THEN key_cache[i] ELSE key_out[i]]
  /\ UNCHANGED <<input, filled, pairs, copied, read>>

MayCopy == (\A s \in Slot : pairs[s] # <<>>) /\ cloned = Thread

\* Faulty variant: the blocks are copied within the clone.
CopyInPlace(s, i) ==
  /\ MayCopy
  /\ <<s, i>> \notin copied
  /\ pairs[s][1] >= 0 /\ pairs[s][2] >= 0
  /\ copied' = copied \cup {<<s, i>>}
  /\ key_out' = [key_out EXCEPT ![pairs[s][2] * BlockSize + i] =
                                  key_out[pairs[s][1] * BlockSize + i]]
  /\ UNCHANGED <<input, filled, pairs, cloned, read>>

Copy(s, i) ==
  /\ MayCopy
  /\ <<s, i>> \notin copied
  /\ pairs[s][1] >= 0 /\ pairs[s][2] >= 0
  /\ copied' = copied \cup {<<s, i>>}
  /\ key_out' = [key_out EXCEPT ![pairs[s][2] * BlockSize + i] =
                                  key_cache[pairs[s][1] * BlockSize + i]]
  /\ UNCHANGED <<input, filled, pairs, cloned, read>>

Reordered ==
  /\ Filled /\ MayCopy
  /\ \A s \in Slot : pairs[s] # Sentinel => \A i \in 0 .. BlockSize-1 : <<s, i>> \in copied

Remap == [r \in Row |-> block_table[ParentRow(r)]]

\* cu_seq_lens, the prefix sums of the lengths, an input of gather.
CuSeqLens == [r \in 0 .. B*BM |->
  FoldFunctionOnSet(LAMBDA len, sum : len + sum, 0, seq_lens, 0 .. r-1)]

(***************************************************************************)
(* The sequence a token of the packed output belongs to: the last that     *)
(* starts at or before it, found by halving.                               *)
(***************************************************************************)
BatchOf(tok) ==
  LET search[bounds \in (0 .. B*BM) \X (0 .. B*BM)] ==
        LET lo  == bounds[1]
            hi  == bounds[2]
            mid == (lo + hi + 1) \div 2
        IN  IF lo = hi THEN lo
            ELSE IF CuSeqLens[mid] <= tok THEN search[<<mid, hi>>] ELSE search[<<lo, mid-1>>]
  IN  search[<<0, B*BM>>]

\* What kv_cache_gather writes for every token: 0 for an unallocated block.
Gathered(cache, table) ==
  [tok \in 0 .. CuSeqLens[B*BM]-1 |->
     LET r     == BatchOf(tok)
         local == tok - CuSeqLens[r]
         block == table[r][local \div BlockSize]
     IN  IF block < 0 THEN 0 ELSE cache[block * BlockSize + (local % BlockSize)]]

Gather ==
  /\ Reordered
  /\ gathered = <<>>
  /\ gathered' = Gathered(key_out, block_table)
  /\ UNCHANGED <<input, filled, moved, remapped>>

GatherRemapped ==
  /\ Reordered
  /\ remapped = <<>>
  /\ remapped' = Gathered(key_cache, Remap)
  /\ UNCHANGED <<input, filled, moved, gathered>>

KvNext ==
  \/ \E t \in Thread : Zero(t)
  \/ \E r \in Row : Scatter(r)
  \/ \E s \in Slot : BuildPair(s)
  \/ \E t \in Thread : Clone(t)
  \/ \E s \in Slot : \E i \in 0 .. BlockSize-1 : Copy(s, i)
  \/ Gather \/ GatherRemapped

-----------------------------------------------------------------------------
\* Column c of both row r and its parent is a block that r's length reaches.
Moves(r, c) ==
  /\ c < NumBlk(seq_lens[r])
  /\ block_table[r][c] >= 0 /\ block_table[ParentRow(r)][c] >= 0

(***************************************************************************)
(* beam_reorder_kv, for every family of parents (chains, swaps, one parent *)
(* of many) and every order of the threads: a beam's blocks, as far as its *)
(* own length reaches, hold what its parent's held before the step; every  *)
(* other block of the cache is as it was.                                  *)
(***************************************************************************)
HoldsParentHistory ==
  Reordered =>
    LET block(cache, b) == [i \in 0 .. BlockSize-1 |-> cache[b * BlockSize + i]]
        dest == {block_table[r][c] : r \in Row, c \in Col} \cap Blk
    IN  /\ \A r \in Row, c \in Col : block_table[r][c] >= 0 =>
             block(key_out, block_table[r][c]) =
               block(key_cache, block_table[IF Moves(r, c) THEN ParentRow(r) ELSE r][c])
        /\ \A b \in Blk \ dest : block(key_out, b) = block(key_cache, b)

(***************************************************************************)
(* Once kv_cache_scatter is done every token is in its slot, and stays     *)
(* there.  kv_cache_gather finds the tokens of every sequence, also beside *)
(* empty ones.  The copy and beam_remap_block_table are interchangeable    *)
(* for beams of one length whose blocks are allocated: the gather then     *)
(* reads the tokens of each beam's parent either way.                      *)
(***************************************************************************)
CopyAgreesWithRemap ==
  Filled =>
    LET plain == /\ \A r, q \in Row : seq_lens[r] = seq_lens[q]
                 /\ \A r \in Row, c \in Col : c < NumBlk(seq_lens[r]) => block_table[r][c] >= 0
    IN  \A r \in Row : \A p \in 0 .. seq_lens[r]-1 :
          LET slot == SlotMapping(r, p)
              tok  == CuSeqLens[r] + p
          IN  /\ slot >= 0 => key_cache[slot] = Content(r, p)
              /\ gathered # <<>> => gathered[tok] = (IF slot < 0 THEN 0 ELSE key_out[slot])
              /\ plain => \A found \in {gathered, remapped} \ {<<>>} :
                            found[tok] = Content(ParentRow(r), p)
=============================================================================
