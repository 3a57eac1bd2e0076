------------------------------- MODULE MoeMlp -------------------------------
(***************************************************************************)
(* The MoE MLP behind the permutation: moe_pad_schedule turns the compact  *)
(* per-expert layout into segments padded to whole tiles, moe_gather       *)
(* copies the activations there, the grouped GEMMs run one expert per      *)
(* tile, and moe_finalize combines the rows of each token.  The backward   *)
(* pass follows the same schedule in the other direction.                  *)
(*                                                                         *)
(* Every dispatch is a stage whose threads (threadgroups, for the stages   *)
(* that work on a row, a tile or a token) run in any order; `todo` holds   *)
(* those that have not run.  A stage begins when the one before it is      *)
(* over, because it binds a buffer that one wrote (see CommandEncoder).    *)
(*                                                                         *)
(* Activations are symbolic: the row of token tau is <<"x", tau>>, a GEMM  *)
(* with expert e applied to row v is <<"w1", e, v>> or <<"w2", e, v>>, and *)
(* a weighted sum is the sequence of its terms.  Undef is what a freshly   *)
(* allocated row holds.                                                    *)
(***************************************************************************)
EXTENDS Integers, Sequences, FiniteSets

CONSTANTS
  Experts, \* number of experts
  T,       \* number of tokens
  K,       \* experts per token
  TILE,    \* rows of a GEMM tile and unit of padding (32 in the code)
  Threads  \* threads of the moe_pad_offsets threadgroup (256 in the code)

MlpAssumption == {Experts, T, K, TILE, Threads} \subseteq Nat \ {0}

TK     == T * K
Expert == 0 .. Experts-1
Token  == 0 .. T-1
Row    == 0 .. TK-1
Undef  == <<"undef">>
ZeroRow == <<"zero">>

(***************************************************************************)
(* The static size of the padded space: every expert may pad by TILE-1.    *)
(* ScheduleSound says that it is enough.                                   *)
(***************************************************************************)
TotalPadMax == ((TK + (TILE-1)*Experts + TILE-1) \div TILE) * TILE
MaxTiles    == TotalPadMax \div TILE
PadRow      == 0 .. TotalPadMax-1
Tile        == 0 .. MaxTiles-1

VARIABLES
  topk_ids,        \* input: the expert of each routing row
  sorted_row_idx,  \* input: the rows grouped by expert
  expert_offsets,  \* input: where each expert's rows begin
  off_pad,         \* where each expert's padded segment begins
  expert_of_tile,  \* the expert of a tile, -1 beyond the last segment
  gather_idx,      \* the token feeding a padded row, -1 for padding
  inv_pad,         \* the padded row of a routing row
  permuted,        \* gathered activations
  inter,           \* output of GEMM1
  expert_out,      \* output of GEMM2
  mlp_out,         \* the MLP output of each token
  grad_eo,         \* gradient of expert_out
  dA,              \* gradient of the GEMM inputs
  dw,              \* weight gradient of each expert
  dx,              \* gradient of each token
  grad_w,          \* gradient of each routing weight: the pair it multiplies
  mlp_stage, todo  \* dispatch under way, its threads that have not run

inputs   == <<topk_ids, sorted_row_idx, expert_offsets>>
schedule == <<off_pad, expert_of_tile, gather_idx, inv_pad>>
forward  == <<permuted, inter, expert_out, mlp_out>>
backward == <<grad_eo, dA, dw, dx, grad_w>>
mlpVars == <<inputs, schedule, forward, backward, mlp_stage, todo>>

(***************************************************************************)
(* The inputs are any result of MoePermute: offsets is the exclusive scan  *)
(* of the expert counts and sorted_row_idx lists the rows in segments.     *)
(***************************************************************************)
RowsBelow(ids, e) == Cardinality({r \in Row : ids[r] < e})

CompactLayout(ids, sorted, off) ==
  /\ off = [e \in 0 .. Experts |-> RowsBelow(ids, e)]
  /\ \A p, q \in Row : sorted[p] = sorted[q] => p = q
  /\ \A p \in Row : p >= off[ids[sorted[p]]] /\ p < off[ids[sorted[p]] + 1]

MlpInit ==
  /\ topk_ids \in [Row -> Expert]
  /\ expert_offsets = [e \in 0 .. Experts |-> RowsBelow(topk_ids, e)]
  /\ sorted_row_idx \in [Row -> Row]
  /\ CompactLayout(topk_ids, sorted_row_idx, expert_offsets)
  /\ off_pad = [e \in 0 .. Experts |-> -2]
  /\ expert_of_tile = [t \in Tile |-> -2]
  /\ gather_idx = [p \in PadRow |-> -2]
  /\ inv_pad = [r \in Row |-> -2]
  /\ permuted = [p \in PadRow |-> Undef]
  /\ inter = [p \in PadRow |-> Undef]
  /\ expert_out = [p \in PadRow |-> Undef]
  /\ mlp_out = [tau \in Token |-> Undef]
  /\ grad_eo = [p \in PadRow |-> Undef]
  /\ dA = [p \in PadRow |-> Undef]
  /\ dw = [e \in Expert |-> <<>>]
  /\ dx = [tau \in Token |-> Undef]
  /\ grad_w = [r \in Row |-> Undef]
  /\ mlp_stage = "pad_scan"
  /\ todo = {0}

(***************************************************************************)
(* Thread x of stage s has run; the last one lets the next stage begin.    *)
(***************************************************************************)
Ran(s, x, next, threads) ==
  /\ mlp_stage = s /\ x \in todo
  /\ IF todo = {x} THEN mlp_stage' = next /\ todo' = threads
                   ELSE mlp_stage' = mlp_stage /\ todo' = todo \ {x}

(***************************************************************************)
(* moe_pad_offsets up to its mem_device barrier: the exclusive scan of the *)
(* counts rounded up to whole tiles.                                       *)
(***************************************************************************)
CeilTile(n) == ((n + TILE-1) \div TILE) * TILE

PadScan ==
  /\ Ran("pad_scan", 0, "pad_fill", 0 .. Threads-1)
  /\ off_pad' =
       LET f[e \in 0 .. Experts] ==
             IF e = 0 THEN 0
                      ELSE f[e-1] + CeilTile(expert_offsets[e] - expert_offsets[e-1])
       IN  f
  /\ UNCHANGED <<inputs, expert_of_tile, gather_idx, inv_pad, forward, backward>>

\* Faulty variant: the search stops at the first expert of equal offsets.
SearchFirst(off, p) ==
  LET s[r \in (0 .. Experts) \X (0 .. Experts)] ==
        LET lo == r[1]  hi == r[2]  mid == (lo + hi) \div 2
        IN  IF hi - lo <= 1 THEN lo
            ELSE IF off[mid] < p THEN s[<<mid, hi>>] ELSE s[<<lo, mid>>]
  IN  s[<<0, Experts>>]

(***************************************************************************)
(* The binary search of both pad kernels: the last expert whose segment    *)
(* begins at or before p.                                                  *)
(***************************************************************************)
Search(off, p) ==
  LET s[r \in (0 .. Experts) \X (0 .. Experts)] ==
        LET lo == r[1]  hi == r[2]  mid == (lo + hi) \div 2
        IN  IF hi - lo <= 1 THEN lo
            ELSE IF off[mid] <= p THEN s[<<mid, hi>>] ELSE s[<<lo, mid>>]
  IN  s[<<0, Experts>>]

(***************************************************************************)
(* moe_pad_offsets after the barrier: thread i strides over the tiles and  *)
(* over the padded rows.                                                   *)
(***************************************************************************)
PadFill(i) ==
  /\ Ran("pad_fill", i, "pad_scatter", Row)
  /\ expert_of_tile' = [t \in Tile |->
       IF t % Threads # i THEN expert_of_tile[t]
       ELSE IF t*TILE >= off_pad[Experts] THEN -1 ELSE Search(off_pad, t*TILE)]
  /\ gather_idx' = [p \in PadRow |-> IF p % Threads = i THEN -1 ELSE gather_idx[p]]
  /\ UNCHANGED <<inputs, off_pad, inv_pad, forward, backward>>

\* Faulty variant: the token of the compact position, not of the row there.
PadScatterCompact(p) ==
  /\ Ran("pad_scatter", p, "gather", PadRow)
  /\ LET e      == Search(expert_offsets, p)
         padpos == off_pad[e] + (p - expert_offsets[e])
     IN  /\ gather_idx' = [gather_idx EXCEPT ![padpos] = p \div K]
         /\ inv_pad' = [inv_pad EXCEPT ![sorted_row_idx[p]] = padpos]
  /\ UNCHANGED <<inputs, off_pad, expert_of_tile, forward, backward>>

(***************************************************************************)
(* A thread of moe_pad_scatter: compact position p moves to its padded     *)
(* position.                                                               *)
(***************************************************************************)
PadScatter(p) ==
  /\ Ran("pad_scatter", p, "gather", PadRow)
  /\ LET e      == Search(expert_offsets, p)
         padpos == off_pad[e] + (p - expert_offsets[e])
         r      == sorted_row_idx[p]
     IN  /\ gather_idx' = [gather_idx EXCEPT ![padpos] = r \div K]
         /\ inv_pad' = [inv_pad EXCEPT ![r] = padpos]
  /\ UNCHANGED <<inputs, off_pad, expert_of_tile, forward, backward>>

(***************************************************************************)
(* A threadgroup of moe_gather copies the token's row, or writes zeros.    *)
(***************************************************************************)
Gather(p) ==
  /\ Ran("gather", p, "gemm1", Tile)
  /\ permuted' = [permuted EXCEPT ![p] =
       IF gather_idx[p] < 0 THEN ZeroRow ELSE <<"x", gather_idx[p]>>]
  /\ UNCHANGED <<inputs, schedule, inter, expert_out, mlp_out, backward>>

RowsOfTile(t) == t*TILE .. t*TILE + TILE-1

(***************************************************************************)
(* One tile of a grouped GEMM: rows of B times the weights named w of the  *)
(* tile's expert, or nothing for a tile beyond the schedule.               *)
(***************************************************************************)
GroupedGemm(B, C, w, t) ==
  [p \in PadRow |->
     IF p \in RowsOfTile(t) /\ expert_of_tile[t] >= 0
     THEN <<w, expert_of_tile[t], B[p]>> ELSE C[p]]

GemmSwiglu(t) ==
  /\ Ran("gemm1", t, "gemm2", Tile)
  /\ inter' = GroupedGemm(permuted, inter, "w1", t)
  /\ UNCHANGED <<inputs, schedule, permuted, expert_out, mlp_out, backward>>

GemmRect(t) ==
  /\ Ran("gemm2", t, "finalize", Token)
  /\ expert_out' = GroupedGemm(inter, expert_out, "w2", t)
  /\ UNCHANGED <<inputs, schedule, permuted, inter, mlp_out, backward>>

(***************************************************************************)
(* A simdgroup of moe_finalize: the weighted sum over the token's choices. *)
(***************************************************************************)
Choices(tau, B) == [k \in 1 .. K |-> B[inv_pad[tau*K + k-1]]]

Finalize(tau) ==
  /\ Ran("finalize", tau, "bwd_zero", PadRow)
  /\ mlp_out' = [mlp_out EXCEPT ![tau] = Choices(tau, expert_out)]
  /\ UNCHANGED <<inputs, schedule, permuted, inter, expert_out, backward>>

\* Faulty variant: the gradient buffer is used as it was allocated.
SkipZero(p) ==
  /\ Ran("bwd_zero", p, "finalize_bwd", Token)
  /\ UNCHANGED <<inputs, schedule, forward, backward>>

(***************************************************************************)
(* MoeFinalizeBwd zero-fills grad_eo before moe_finalize_bwd runs.         *)
(***************************************************************************)
BwdZero(p) ==
  /\ Ran("bwd_zero", p, "finalize_bwd", Token)
  /\ grad_eo' = [grad_eo EXCEPT ![p] = ZeroRow]
  /\ UNCHANGED <<inputs, schedule, forward, dA, dw, dx, grad_w>>

(***************************************************************************)
(* A simdgroup of moe_finalize_bwd scatters the weighted gradient of its   *)
(* token to the rows of its choices, and multiplies it by the expert's     *)
(* output there.                                                           *)
(***************************************************************************)
FinalizeBwd(tau) ==
  /\ Ran("finalize_bwd", tau, "bwd_gemms", (Tile \X {"dx"}) \cup (Expert \X {"dw"}))
  /\ grad_eo' = [p \in PadRow |->
       IF \E k \in 0 .. K-1 : inv_pad[tau*K + k] = p
       THEN <<"g", CHOOSE r \in tau*K .. tau*K + K-1 : inv_pad[r] = p>>
       ELSE grad_eo[p]]
  /\ grad_w' = [r \in Row |-> IF r \div K = tau THEN <<expert_out[inv_pad[r]], tau>>
                                                ELSE grad_w[r]]
  /\ UNCHANGED <<inputs, schedule, forward, dA, dw, dx>>

(***************************************************************************)
(* One tile of moe_grouped_gemm_bwd_dx: the gradient rows times the        *)
(* transposed weights of the tile's expert.                                *)
(***************************************************************************)
BwdDx(t) ==
  /\ Ran("bwd_gemms", <<t, "dx">>, "gather_bwd", Token)
  /\ dA' = GroupedGemm(grad_eo, dA, "w2T", t)
  /\ UNCHANGED <<inputs, schedule, forward, grad_eo, dw, dx, grad_w>>

(***************************************************************************)
(* moe_grouped_gemm_bwd_dw for one expert: the products of activation and  *)
(* gradient rows over the expert's padded segment.  The loop steps over    *)
(* half tiles, which divide the segment's ends.                            *)
(***************************************************************************)
BwdDw(e) ==
  /\ Ran("bwd_gemms", <<e, "dw">>, "gather_bwd", Token)
  /\ dw' = [dw EXCEPT ![e] =
       [i \in 1 .. off_pad[e+1] - off_pad[e] |->
          <<inter[off_pad[e] + i-1], grad_eo[off_pad[e] + i-1]>>]]
  /\ UNCHANGED <<inputs, schedule, forward, grad_eo, dA, dx, grad_w>>

(***************************************************************************)
(* A simdgroup of moe_gather_bwd: the gradient of a token sums the rows of *)
(* its choices.                                                            *)
(***************************************************************************)
GatherBwd(tau) ==
  /\ Ran("gather_bwd", tau, "done", {})
  /\ dx' = [dx EXCEPT ![tau] = Choices(tau, dA)]
  /\ UNCHANGED <<inputs, schedule, forward, grad_eo, dA, dw, grad_w>>

MlpNext ==
  \/ PadScan
  \/ \E i \in 0 .. Threads-1 : PadFill(i)
  \/ \E p \in Row : PadScatter(p)
  \/ \E p \in PadRow : Gather(p) \/ BwdZero(p)
  \/ \E t \in Tile : GemmSwiglu(t) \/ GemmRect(t) \/ BwdDx(t)
  \/ \E e \in Expert : BwdDw(e)
  \/ \E tau \in Token : Finalize(tau) \/ FinalizeBwd(tau) \/ GatherBwd(tau)

MlpSpec == MlpInit /\ [][MlpNext]_mlpVars
-----------------------------------------------------------------------------
Placed == {r \in Row : inv_pad[r] # -2}

(***************************************************************************)
(* Each placed row has a padded row of its own, fed by its own token, in a *)
(* tile that belongs to its expert: what lets a GEMM tile load one         *)
(* expert's weights for all of its rows.                                   *)
(***************************************************************************)
ScheduleSound ==
  /\ \A r \in Placed :
       /\ inv_pad[r] \in PadRow
       /\ expert_of_tile[inv_pad[r] \div TILE] = topk_ids[r]
       /\ gather_idx[inv_pad[r]] = r \div K
  /\ \A r, q \in Placed : inv_pad[r] = inv_pad[q] => r = q

(***************************************************************************)
(* The forward result: each token is combined, choice by choice in order,  *)
(* from its own activation through both GEMMs of the expert the router     *)
(* chose, whatever order threads, rows and tiles ran in.                   *)
(***************************************************************************)
CombinesItsExperts ==
  \A tau \in Token : mlp_out[tau] # Undef =>
    mlp_out[tau] = [k \in 1 .. K |->
                  LET e == topk_ids[tau*K + k-1]
                  IN  <<"w2", e, <<"w1", e, <<"x", tau>>>>>>]

(***************************************************************************)
(* The weight gradient of an expert reduces over its padded segment. Every *)
(* row of it is initialised, each routing row of the expert contributes    *)
(* exactly once, and a padding row contributes a zero gradient: an         *)
(* unwritten one could hold a NaN, which no zero activation cancels.       *)
(***************************************************************************)
WeightGradient ==
  \A e \in Expert : \A i \in 1 .. Len(dw[e]) :
    LET h == dw[e][i][1]
        g == dw[e][i][2]
        rows(j) == {r \in Row : topk_ids[r] = e /\ dw[e][j][2] = <<"g", r>>}
    IN  /\ g = ZeroRow \/ \E r \in rows(i) : h = <<"w1", e, <<"x", r \div K>>>>
        /\ Cardinality(UNION {rows(j) : j \in 1 .. Len(dw[e])})
             = Cardinality({r \in Row : topk_ids[r] = e})

(***************************************************************************)
(* The input gradient of a token sums, over its choices, the gradient of   *)
(* that choice sent back through the weights of the chosen expert, and the *)
(* gradient of a routing weight pairs it with that expert's output.        *)
(***************************************************************************)
InputGradient ==
  /\ \A r \in Row : grad_w[r] # Undef =>
       LET e == topk_ids[r]
       IN  grad_w[r] = <<<<"w2", e, <<"w1", e, <<"x", r \div K>>>>>>, r \div K>>
  /\ \A tau \in Token : dx[tau] # Undef =>
       dx[tau] = [k \in 1 .. K |->
                    <<"w2T", topk_ids[tau*K + k-1], <<"g", tau*K + k-1>>>>]

(***************************************************************************)
(* The backward pass is exact: weight gradients and input gradients alike, *)
(* in whatever order threads, rows and tiles ran.                          *)
(***************************************************************************)
GradientsExact == WeightGradient /\ InputGradient
=============================================================================
