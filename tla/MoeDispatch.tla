---------------------------- MODULE MoeDispatch ----------------------------
(***************************************************************************)
(* What the MoE permutation promises to the grouped GEMMs: every routing   *)
(* row of the flat (token, choice) table owns one slot of the permuted     *)
(* activations, no two rows share one, and the slots of an expert are      *)
(* exactly its segment, the segments lying in expert order.  In which      *)
(* order the rows of one expert take their slots is left open: it is       *)
(* whatever order the GPU runs the threads in.                             *)
(***************************************************************************)
EXTENDS Integers, FiniteSets

CONSTANTS
  E,       \* number of experts
  TK       \* number of routing rows: tokens times top-k

Expert == 0 .. E-1
Row    == 0 .. TK-1
NoSlot == -1

VARIABLES
  topk_ids,   \* the expert of each routing row
  slotOf      \* the slot a row owns, NoSlot before it has one

\* The number of rows of the experts below e: where e's segment begins.
Below(e) == Cardinality({t \in Row : topk_ids[t] < e})

Segment(e) == Below(e) .. Below(e+1) - 1

Init ==
  /\ topk_ids \in [Row -> Expert]
  /\ slotOf = [t \in Row |-> NoSlot]

Place(t) ==
  /\ slotOf[t] = NoSlot
  /\ \E s \in Segment(topk_ids[t]) :
        /\ \A u \in Row : slotOf[u] # s
        /\ slotOf' = [slotOf EXCEPT ![t] = s]
  /\ UNCHANGED topk_ids

Next == \E t \in Row : Place(t)

vars == <<topk_ids, slotOf>>

Spec == Init /\ [][Next]_vars
=============================================================================
