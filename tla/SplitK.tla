------------------------------- MODULE SplitK -------------------------------
(***************************************************************************)
(* A threadgroup of the quantized expert GEMMs: its warps (simdgroups)     *)
(* split the contraction and warp 0 adds up their partial tiles through    *)
(* staging tiles in threadgroup memory.  moe_grouped_gemm_swiglu_q reduces *)
(* two products, gate and up, in two passes over one set of staging tiles; *)
(* moe_grouped_gemm_rect_q is the case of a single product.                *)
(*                                                                         *)
(* A product is abstracted to the terms added to it and how often: term    *)
(* <<p, k>> is block k of the contraction with the weights of product p.   *)
(* The exact product p has each of its own blocks once.                    *)
(***************************************************************************)
EXTENDS Integers

CONSTANTS
  WARPS,    \* N_WARPS, 4 in the code
  KB,       \* blocks of the contraction, K_dim / BK
  PASSES    \* products reduced one after the other: 1, or 2 for gate and up

SplitKAssumption ==
  /\ WARPS \in Nat \ {0} /\ KB \in Nat /\ PASSES \in Nat \ {0}

Warp  == 0 .. WARPS-1
Block == 0 .. KB-1
Pass  == 1 .. PASSES

Term       == Pass \X Block
None       == [t \in Term |-> 0]
Exact(p)   == [t \in Term |-> IF t[1] = p THEN 1 ELSE 0]
PlusBlock(x, t) == [x EXCEPT ![t] = @ + 1]
Plus(x, y) == [t \in Term |-> x[t] + y[t]]

VARIABLES
  acc,       \* registers: the products of each warp
  kb,        \* register: the next block of each warp
  w,         \* register of warp 0: the next staging tile to add
  pass,      \* the pass each warp is in
  warp_pc,   \* what each warp does next
  sAcc,      \* staging tiles of warps 1 and up, in threadgroup memory
  out        \* the products the epilogue stored, None before

splitVars == <<acc, kb, w, pass, warp_pc, sAcc, out>>

\* What a staging tile holds before it is written: not a product.
UnwrittenTile == [t \in Term |-> -1]

SplitInit ==
  /\ acc = [x \in Warp |-> [p \in Pass |-> None]]
  /\ kb = [x \in Warp |-> x]
  /\ w = 1
  /\ pass = [x \in Warp |-> 1]
  /\ warp_pc = [x \in Warp |-> "loop"]
  /\ sAcc = [x \in Warp \ {0} |-> UnwrittenTile]
  /\ out = [p \in Pass |-> None]

WarpGoto(x, label) == warp_pc' = [warp_pc EXCEPT ![x] = label]

(***************************************************************************)
(* One turn of the contraction loop: mma_ABt for every product, then on to *)
(* the block N_WARPS further.                                              *)
(***************************************************************************)
Multiply(x) ==
  /\ warp_pc[x] = "loop" /\ kb[x] < KB
  /\ acc' = [acc EXCEPT ![x] = [p \in Pass |-> PlusBlock(acc[x][p], <<p, kb[x]>>)]]
  /\ kb' = [kb EXCEPT ![x] = @ + WARPS]
  /\ UNCHANGED <<w, pass, warp_pc, sAcc, out>>

(***************************************************************************)
(* Every warp but warp 0 stores its partial product of this pass.          *)
(***************************************************************************)
Stage(x) ==
  /\ (warp_pc[x] = "loop" /\ kb[x] >= KB) \/ warp_pc[x] = "stage"
  /\ sAcc' = IF x = 0 THEN sAcc ELSE [sAcc EXCEPT ![x] = acc[x][pass[x]]]
  /\ WarpGoto(x, "staged")
  /\ UNCHANGED <<acc, kb, w, pass, out>>

(***************************************************************************)
(* Warp 0 adds the staging tiles one after the other.                      *)
(***************************************************************************)
Reduce ==
  /\ warp_pc[0] = "reduce" /\ w < WARPS
  /\ acc' = [acc EXCEPT ![0][pass[0]] = Plus(@, sAcc[w])]
  /\ w' = w + 1
  /\ UNCHANGED <<kb, pass, warp_pc, sAcc, out>>

(***************************************************************************)
(* Warp 0 has added the last tile: the barrier before the next pass, or    *)
(* the epilogue.  The other warps skip the reduction; after the last       *)
(* barrier they return.                                                    *)
(***************************************************************************)
Reduced(x) ==
  /\ warp_pc[x] = "reduce"
  /\ x = 0 => w = WARPS
  /\ IF pass[x] < PASSES
     THEN WarpGoto(x, "reduced") /\ UNCHANGED out
     ELSE WarpGoto(x, "done") /\ out' = IF x = 0 THEN acc[0] ELSE out
  /\ UNCHANGED <<acc, kb, w, pass, sAcc>>

\* Faulty variant: the barrier after the reduction is missing.
BarrierNotAwaitingReads ==
  /\ \/ /\ \A x \in Warp : warp_pc[x] = "staged"
        /\ warp_pc' = [x \in Warp |-> "reduce"]
        /\ UNCHANGED <<pass, w>>
     \/ \E x \in Warp :
          /\ warp_pc[x] = "reduced" /\ WarpGoto(x, "stage")
          /\ pass' = [pass EXCEPT ![x] = @ + 1]
          /\ w' = IF x = 0 THEN 1 ELSE w
  /\ UNCHANGED <<acc, kb, sAcc, out>>

(***************************************************************************)
(* threadgroup_barrier before and after the reduction.  Both loops over    *)
(* the tiles start at the first.                                           *)
(***************************************************************************)
SplitBarrier ==
  /\ \/ /\ \A x \in Warp : warp_pc[x] = "staged"
        /\ warp_pc' = [x \in Warp |-> "reduce"]
        /\ UNCHANGED <<pass, w>>
     \/ /\ \A x \in Warp : warp_pc[x] = "reduced"
        /\ warp_pc' = [x \in Warp |-> "stage"]
        /\ pass' = [x \in Warp |-> pass[x] + 1]
        /\ w' = 1
  /\ UNCHANGED <<acc, kb, sAcc, out>>

SplitDone == \A x \in Warp : warp_pc[x] = "done"

SplitNext ==
  \/ SplitBarrier \/ Reduce
  \/ \E x \in Warp : Multiply(x) \/ Stage(x) \/ Reduced(x)
  \/ SplitDone /\ UNCHANGED splitVars

SplitSpec == SplitInit /\ [][SplitNext]_splitVars
-----------------------------------------------------------------------------
(***************************************************************************)
(* What the epilogue stores has every block of the contraction once, in    *)
(* every product: no partial is missing, added twice, or replaced by one   *)
(* of the other product before warp 0 has read it.                         *)
(***************************************************************************)
EveryBlockOnce ==
  warp_pc[0] = "done" => out = [p \in Pass |-> Exact(p)]

=============================================================================
