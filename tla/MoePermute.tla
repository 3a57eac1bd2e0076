----------------------------- MODULE MoePermute -----------------------------
(***************************************************************************)
(* The MoE permutation, MoePermute::eval_gpu: four dispatches recorded on  *)
(* one command encoder, which group the routing rows by expert.            *)
(*                                                                         *)
(*   moe_zero_i32       one thread per expert clears counts                *)
(*   moe_histogram      one thread per row counts its expert, atomically   *)
(*   moe_scan_offsets   one threadgroup turns counts into segment offsets  *)
(*                      and seeds the cursors of the scatter with them     *)
(*   moe_scatter        one thread per row claims the next slot of its     *)
(*                      expert and records it in both directions           *)
(*                                                                         *)
(* The threads of a dispatch interleave freely.  The dispatches follow one *)
(* another because each binds a buffer the one before it wrote, so that    *)
(* the encoder puts a memory barrier between them.  The guards zeroed =    *)
(* Expert, counted = Row and scanned say so here, and module               *)
(* EncodedPermute derives them from the encoder's rule.  The scan is one   *)
(* step here; module ThreadgroupScan has its simdgroups and barriers.      *)
(***************************************************************************)
EXTENDS Integers, FiniteSets

CONSTANTS
  E,        \* number of experts
  TK,       \* number of routing rows
  Garbage   \* what a cell of a freshly allocated buffer may hold

ASSUME PermuteAssumption ==
  /\ E \in Nat \ {0}
  /\ TK \in Nat
  /\ Garbage \subseteq Int
  /\ Garbage # {}

Expert == 0 .. E-1
Row    == 0 .. TK-1
Slot   == 0 .. TK-1

VARIABLES
  topk_ids,         \* input: the expert the router chose for each row
  counts,           \* rows per expert
  offsets,          \* offsets[e]: first slot of expert e, offsets[E]: total
  cursor,           \* next free slot of each expert
  sorted_row_idx,   \* the row in each slot
  inv_idx,          \* the slot of each row
  zeroed,           \* threads of moe_zero_i32 that have run
  counted,          \* threads of moe_histogram that have run
  scanned,          \* whether moe_scan_offsets has run
  pc,               \* next step of each thread of moe_scatter
  pos               \* the register each of them keeps its slot in

vars == <<topk_ids, counts, offsets, cursor, sorted_row_idx, inv_idx,
          zeroed, counted, scanned, pc, pos>>

(***************************************************************************)
(* f is the exclusive prefix sum of c, with the total at the end.          *)
(***************************************************************************)
IsExclusiveScan(f, c) ==
  /\ f[0] = 0
  /\ \A e \in Expert : f[e+1] = f[e] + c[e]

(***************************************************************************)
(* The router hands in ids below E; every other buffer is freshly          *)
(* allocated and holds garbage.                                            *)
(***************************************************************************)
Init ==
  /\ topk_ids \in [Row -> Expert]
  /\ counts \in [Expert -> Garbage]
  /\ offsets \in [0 .. E -> Garbage]
  /\ cursor \in [Expert -> Garbage]
  /\ sorted_row_idx \in [Slot -> Garbage]
  /\ inv_idx \in [Row -> Garbage]
  /\ zeroed = {}
  /\ counted = {}
  /\ scanned = FALSE
  /\ pc = [t \in Row |-> "claim"]
  /\ pos \in [Row -> Garbage]

(***************************************************************************)
(* A thread of moe_zero_i32.                                               *)
(***************************************************************************)
Zero(e) ==
  /\ e \notin zeroed
  /\ counts' = [counts EXCEPT ![e] = 0]
  /\ zeroed' = zeroed \cup {e}
  /\ UNCHANGED <<topk_ids, offsets, cursor, sorted_row_idx, inv_idx,
                 counted, scanned, pc, pos>>

(***************************************************************************)
(* A thread of moe_histogram: one relaxed atomic add.                      *)
(***************************************************************************)
CountRow(t) ==
  /\ t \notin counted
  /\ counts' = [counts EXCEPT ![topk_ids[t]] = @ + 1]
  /\ counted' = counted \cup {t}
  /\ UNCHANGED <<topk_ids, offsets, cursor, sorted_row_idx, inv_idx,
                 zeroed, scanned, pc, pos>>

Histogram(t) == zeroed = Expert /\ CountRow(t)

(***************************************************************************)
(* The threadgroup of moe_scan_offsets.                                    *)
(***************************************************************************)
Scan ==
  /\ ~scanned
  /\ \E f \in [0 .. E -> 0 .. TK] :
        /\ IsExclusiveScan(f, counts)
        /\ offsets' = f
        /\ cursor' = [e \in Expert |-> f[e]]
  /\ scanned' = TRUE
  /\ UNCHANGED <<topk_ids, counts, sorted_row_idx, inv_idx,
                 zeroed, counted, pc, pos>>

ScanOffsets == zeroed = Expert /\ counted = Row /\ Scan

\* Faulty variant: the cursor is read and written back without atomicity,
\* so that the increment may be lost.
ClaimNotAtomic(t) ==
  /\ pc[t] = "claim"
  /\ pos' = [pos EXCEPT ![t] = cursor[topk_ids[t]]]
  /\ cursor' \in {cursor, [cursor EXCEPT ![topk_ids[t]] = @ + 1]}
  /\ pc' = [pc EXCEPT ![t] = "sorted"]
  /\ UNCHANGED <<topk_ids, counts, offsets, sorted_row_idx, inv_idx,
                 zeroed, counted, scanned>>

\* Faulty variant: the increment returns the new value, not the old one.
ClaimNewValue(t) ==
  /\ pc[t] = "claim"
  /\ pos' = [pos EXCEPT ![t] = cursor[topk_ids[t]] + 1]
  /\ cursor' = [cursor EXCEPT ![topk_ids[t]] = @ + 1]
  /\ pc' = [pc EXCEPT ![t] = "sorted"]
  /\ UNCHANGED <<topk_ids, counts, offsets, sorted_row_idx, inv_idx,
                 zeroed, counted, scanned>>

(***************************************************************************)
(* A thread of moe_scatter: the atomic increment of the cursor, then the   *)
(* two stores, which other threads see one after the other.                *)
(***************************************************************************)
ClaimSlot(t) ==
  /\ pc[t] = "claim"
  /\ pos' = [pos EXCEPT ![t] = cursor[topk_ids[t]]]
  /\ cursor' = [cursor EXCEPT ![topk_ids[t]] = @ + 1]
  /\ pc' = [pc EXCEPT ![t] = "sorted"]
  /\ UNCHANGED <<topk_ids, counts, offsets, sorted_row_idx, inv_idx,
                 zeroed, counted, scanned>>

Claim(t) == scanned /\ ClaimSlot(t)

\* Faulty variant: the slot is read back from the cursor instead of the
\* register.
StoreSortedAtCursor(t) ==
  /\ pc[t] = "sorted"
  /\ sorted_row_idx' = [sorted_row_idx EXCEPT ![cursor[topk_ids[t]] - 1] = t]
  /\ pc' = [pc EXCEPT ![t] = "inv"]
  /\ UNCHANGED <<topk_ids, counts, offsets, cursor, inv_idx,
                 zeroed, counted, scanned, pos>>

StoreSorted(t) ==
  /\ pc[t] = "sorted"
  /\ sorted_row_idx' = [sorted_row_idx EXCEPT ![pos[t]] = t]
  /\ pc' = [pc EXCEPT ![t] = "inv"]
  /\ UNCHANGED <<topk_ids, counts, offsets, cursor, inv_idx,
                 zeroed, counted, scanned, pos>>

StoreInv(t) ==
  /\ pc[t] = "inv"
  /\ inv_idx' = [inv_idx EXCEPT ![t] = pos[t]]
  /\ pc' = [pc EXCEPT ![t] = "done"]
  /\ UNCHANGED <<topk_ids, counts, offsets, cursor, sorted_row_idx,
                 zeroed, counted, scanned, pos>>

Scatter(t) == Claim(t) \/ StoreSorted(t) \/ StoreInv(t)

Next ==
  \/ \E e \in Expert : Zero(e)
  \/ \E t \in Row : Histogram(t)
  \/ ScanOffsets
  \/ \E t \in Row : Scatter(t)

Spec == Init /\ [][Next]_vars
-----------------------------------------------------------------------------
Done    == scanned /\ \A t \in Row : pc[t] = "done"
Claimed == {t \in Row : pc[t] # "claim"}

\* The slots of expert e, read off the offsets the scan published.
Segment(e) == offsets[e] .. offsets[e+1] - 1

TypeOK ==
  /\ topk_ids \in [Row -> Expert]
  /\ counts \in [Expert -> Int]
  /\ offsets \in [0 .. E -> Int]
  /\ cursor \in [Expert -> Int]
  /\ sorted_row_idx \in [Slot -> Int]
  /\ inv_idx \in [Row -> Int]
  /\ zeroed \subseteq Expert
  /\ counted \subseteq Row
  /\ scanned \in BOOLEAN
  /\ pc \in [Row -> {"claim", "sorted", "inv", "done"}]
  /\ pos \in [Row -> Int]

(***************************************************************************)
(* A slot handed out by the atomic cursor lies in the segment of the row's *)
(* expert, so no thread of moe_scatter writes outside sorted_row_idx or    *)
(* into the rows of another expert, and no two threads get the same slot.  *)
(***************************************************************************)
ExclusiveSlots ==
  /\ \A t \in Claimed : pos[t] \in Segment(topk_ids[t]) \cap Slot
  /\ \A t, u \in Claimed : pos[t] = pos[u] => t = u

(***************************************************************************)
(* When the scatter is over, sorted_row_idx and inv_idx are permutations   *)
(* inverse to each other, and the experts of the sorted rows never         *)
(* decrease: what moe_pad_schedule and moe_finalize rely on.               *)
(***************************************************************************)
GroupedPermutation ==
  Done =>
    /\ \A t \in Row : inv_idx[t] \in Slot /\ sorted_row_idx[inv_idx[t]] = t
    /\ \A s \in Slot : sorted_row_idx[s] \in Row /\ inv_idx[sorted_row_idx[s]] = s
    /\ \A s \in Slot : \A e \in Expert :
          s \in Segment(e) <=> topk_ids[sorted_row_idx[s]] = e

(***************************************************************************)
(* A row already recorded in its slot is never overwritten by the scatter  *)
(* of another row.                                                         *)
(***************************************************************************)
NeverOverwritten ==
  [][\A t \in Row : pc[t] \in {"inv", "done"} =>
        sorted_row_idx'[pos[t]] = sorted_row_idx[pos[t]]]_vars

(***************************************************************************)
(* The permutation implements MoeDispatch: claiming a slot is the step     *)
(* that gives a row its place.                                             *)
(***************************************************************************)
Dispatch == INSTANCE MoeDispatch WITH
  slotOf <- [t \in Row |-> IF pc[t] = "claim" THEN -1 ELSE pos[t]]

ImplementsDispatch == Dispatch!Spec
=============================================================================
