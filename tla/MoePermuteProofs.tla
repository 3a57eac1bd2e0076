-------------------------- MODULE MoePermuteProofs --------------------------
(***************************************************************************)
(* For any number of experts and routing rows: the slots the scatter hands *)
(* out are exclusive, and its two output buffers are inverse permutations  *)
(* grouped by expert.                                                      *)
(*                                                                         *)
(* The invariant counts: a zeroed counter holds the number of rows counted *)
(* so far, an offset the number of rows of smaller experts, and a cursor   *)
(* is ahead of its offset by the number of slots already claimed.  That    *)
(* the sums of the scan are cardinalities needs an induction over experts, *)
(* done here with the least counterexample (lemma LeastElement).           *)
(*                                                                         *)
(* Last, the same of EncodedPermute, where the dispatches overlap unless   *)
(* the command encoder keeps them apart.                                   *)
(***************************************************************************)
EXTENDS EncodedPermute, FiniteSetTheorems, NaturalsInduction,
        WellFoundedInduction, TLAPS

USE PermuteAssumption

RowsOf(S, e) == {t \in S : topk_ids[t] = e}
Lower(e)     == {t \in Row : topk_ids[t] < e}
Below(e)     == Cardinality(Lower(e))

CountInv ==
  /\ \A e \in zeroed : counts[e] = Cardinality(RowsOf(counted, e))
  /\ counted # {} => zeroed = Expert
  /\ scanned => zeroed = Expert /\ counted = Row
  /\ Claimed # {} => scanned

OffsetInv ==
  scanned => \A e \in 0 .. E : offsets[e] = Below(e)

CursorInv ==
  scanned => \A e \in Expert :
    cursor[e] = offsets[e] + Cardinality(RowsOf(Claimed, e))

PosInv ==
  /\ \A t \in Claimed :
        offsets[topk_ids[t]] <= pos[t] /\ pos[t] < cursor[topk_ids[t]]
  /\ \A t, u \in Claimed :
        topk_ids[t] = topk_ids[u] /\ pos[t] = pos[u] => t = u

StoreInvariant ==
  /\ \A t \in Row : pc[t] \in {"inv", "done"} => sorted_row_idx[pos[t]] = t
  /\ \A t \in Row : pc[t] = "done" => inv_idx[t] = pos[t]

IInv ==
  /\ TypeOK
  /\ CountInv
  /\ OffsetInv
  /\ CursorInv
  /\ PosInv
  /\ StoreInvariant
-----------------------------------------------------------------------------
(***************************************************************************)
(* A nonempty set of naturals has a least element.                         *)
(***************************************************************************)
LEMMA LeastElement ==
  ASSUME NEW S \in SUBSET Nat, S # {}
  PROVE  \E m \in S : \A n \in S : m <= n
<1> DEFINE R == OpToRel(<, Nat)
<1>1. IsWellFoundedOn(R, Nat)
  BY NatLessThanWellFounded
<1>2. PICK x \in S : \A y \in S : ~(<<y, x>> \in R)
  <2> HIDE DEF R
  <2> QED BY <1>1, WFMin
<1>3. \A y \in S : ~(y < x)
  BY <1>2 DEF OpToRel
<1> QED BY <1>3

(***************************************************************************)
(* Sets of rows are finite and no larger than TK.                          *)
(***************************************************************************)
LEMMA RowSets ==
  /\ IsFiniteSet(Row) /\ Cardinality(Row) = TK
  /\ \A S \in SUBSET Row : IsFiniteSet(S) /\ Cardinality(S) \in 0 .. TK
<1>1. IsFiniteSet(Row) /\ Cardinality(Row) = TK
  BY FS_Interval DEF Row
<1>2. ASSUME NEW S \in SUBSET Row
      PROVE  IsFiniteSet(S) /\ Cardinality(S) \in 0 .. TK
  BY <1>1, FS_Subset, FS_CardinalityType
<1> QED BY <1>1, <1>2

(***************************************************************************)
(* The number of rows below an expert: zero at the first one, growing by   *)
(* the rows of each expert, TK at the end, and never decreasing.           *)
(***************************************************************************)
LEMMA BelowFacts ==
  ASSUME topk_ids \in [Row -> Expert]
  PROVE  /\ \A e \in 0 .. E : Below(e) \in 0 .. TK
         /\ Below(0) = 0
         /\ Below(E) = TK
         /\ \A e \in Expert : Below(e+1) = Below(e) + Cardinality(RowsOf(Row, e))
         /\ \A d, e \in 0 .. E : d <= e => Below(d) <= Below(e)
<1>1. \A e : Lower(e) \in SUBSET Row /\ RowsOf(Row, e) \in SUBSET Row
  BY DEF Lower, RowsOf
<1>2. \A e \in 0 .. E : Below(e) \in 0 .. TK
  BY <1>1, RowSets DEF Below
<1>3. Below(0) = 0
  <2>1. Lower(0) = {}
    BY DEF Lower, Expert
  <2> QED BY <2>1, FS_EmptySet DEF Below
<1>4. Below(E) = TK
  <2>1. Lower(E) = Row
    BY DEF Lower, Expert
  <2> QED BY <2>1, RowSets DEF Below
<1>5. ASSUME NEW e \in Expert
      PROVE  Below(e+1) = Below(e) + Cardinality(RowsOf(Row, e))
  <2>1. Lower(e+1) = Lower(e) \cup RowsOf(Row, e)
    BY DEF Lower, RowsOf, Expert
  <2>2. Lower(e) \cap RowsOf(Row, e) = {}
    BY DEF Lower, RowsOf, Expert
  <2>3. /\ IsFiniteSet(Lower(e)) /\ IsFiniteSet(RowsOf(Row, e))
        /\ Cardinality(Lower(e)) \in Nat /\ Cardinality(RowsOf(Row, e)) \in Nat
    BY <1>1, RowSets
  <2>4. Cardinality(Lower(e) \cup RowsOf(Row, e)) =
          Cardinality(Lower(e)) + Cardinality(RowsOf(Row, e))
    BY <2>2, <2>3, FS_Union, FS_EmptySet
  <2> QED BY <2>1, <2>4 DEF Below
<1>6. ASSUME NEW d \in 0 .. E, NEW e \in 0 .. E, d <= e
      PROVE  Below(d) <= Below(e)
  <2>1. Lower(d) \in SUBSET Lower(e)
    BY <1>6 DEF Lower, Expert
  <2>2. IsFiniteSet(Lower(e))
    BY <1>1, RowSets
  <2> QED BY <2>1, <2>2, FS_Subset DEF Below
<1> QED BY <1>2, <1>3, <1>4, <1>5, <1>6

(***************************************************************************)
(* One more row counts once, for its own expert.                           *)
(***************************************************************************)
LEMMA AddRow ==
  ASSUME topk_ids \in [Row -> Expert],
         NEW S \in SUBSET Row, NEW t \in Row, t \notin S
  PROVE  /\ \A e \in Expert : Cardinality(RowsOf(S \cup {t}, e)) =
               IF e = topk_ids[t] THEN Cardinality(RowsOf(S, e)) + 1
                                  ELSE Cardinality(RowsOf(S, e))
         /\ \A e \in Expert : Cardinality(RowsOf(S, e)) \in Nat
         /\ Cardinality(RowsOf(S, topk_ids[t])) + 1 <=
               Cardinality(RowsOf(Row, topk_ids[t]))
<1>1. \A e : RowsOf(S, e) \in SUBSET Row /\ RowsOf(Row, e) \in SUBSET Row
  BY DEF RowsOf
<1>2. \A e : /\ IsFiniteSet(RowsOf(S, e)) /\ IsFiniteSet(RowsOf(Row, e))
             /\ Cardinality(RowsOf(S, e)) \in Nat
  BY <1>1, RowSets
<1>3. \A e : RowsOf(S \cup {t}, e) =
               IF e = topk_ids[t] THEN RowsOf(S, e) \cup {t} ELSE RowsOf(S, e)
  BY DEF RowsOf
<1>4. \A e : t \notin RowsOf(S, e)
  BY DEF RowsOf
<1>5. ASSUME NEW e \in Expert
      PROVE  Cardinality(RowsOf(S \cup {t}, e)) =
               IF e = topk_ids[t] THEN Cardinality(RowsOf(S, e)) + 1
                                  ELSE Cardinality(RowsOf(S, e))
  BY <1>2, <1>3, <1>4, FS_AddElement
<1>6. RowsOf(S \cup {t}, topk_ids[t]) \in SUBSET RowsOf(Row, topk_ids[t])
  BY DEF RowsOf
<1>7. Cardinality(RowsOf(S \cup {t}, topk_ids[t])) <=
        Cardinality(RowsOf(Row, topk_ids[t]))
  BY <1>2, <1>6, FS_Subset
<1> QED BY <1>2, <1>5, <1>7

(***************************************************************************)
(* What an exclusive scan of the counters computes: the number of rows of  *)
(* smaller experts.                                                        *)
(***************************************************************************)
LEMMA ScanCounts ==
  ASSUME topk_ids \in [Row -> Expert],
         NEW f \in [0 .. E -> Int], IsExclusiveScan(f, counts),
         \A e \in Expert : counts[e] = Cardinality(RowsOf(Row, e))
  PROVE  \A e \in 0 .. E : f[e] = Below(e)
<1> DEFINE Bad == {e \in 0 .. E : f[e] # Below(e)}
<1>1. SUFFICES ASSUME Bad # {} PROVE FALSE
  OBVIOUS
<1>2. PICK m \in Bad : \A n \in Bad : m <= n
  <2>1. Bad \in SUBSET Nat
    OBVIOUS
  <2> HIDE DEF Bad
  <2> QED BY <1>1, <2>1, LeastElement
<1>3. m # 0
  BY <1>2, BelowFacts DEF IsExclusiveScan
<1>4. m-1 \in Expert /\ (m-1) + 1 = m
  BY <1>2, <1>3 DEF Expert
<1>5. f[m-1] = Below(m-1)
  BY <1>2, <1>4 DEF Expert
<1>6. f[m] = f[m-1] + counts[m-1]
  BY <1>4 DEF IsExclusiveScan
<1>7. Below(m) = Below(m-1) + Cardinality(RowsOf(Row, m-1))
  BY <1>4, BelowFacts
<1> QED BY <1>2, <1>4, <1>5, <1>6, <1>7
-----------------------------------------------------------------------------
LEMMA TypingStep == TypeOK /\ [Next]_vars => TypeOK'
<1> SUFFICES ASSUME TypeOK, [Next]_vars PROVE TypeOK'
  OBVIOUS
<1> USE DEF TypeOK
<1>1. ASSUME NEW e \in Expert, Zero(e) PROVE TypeOK'
  BY <1>1 DEF Zero
<1>2. ASSUME NEW t \in Row, Histogram(t) PROVE TypeOK'
  BY <1>2 DEF Histogram, CountRow
<1>3. ASSUME ScanOffsets PROVE TypeOK'
  <2>1. PICK f \in [0 .. E -> 0 .. TK] :
          offsets' = f /\ cursor' = [e \in Expert |-> f[e]]
    BY <1>3 DEF ScanOffsets, Scan
  <2>2. offsets' \in [0 .. E -> Int] /\ cursor' \in [Expert -> Int]
    BY <2>1 DEF Expert
  <2> QED BY <1>3, <2>2 DEF ScanOffsets, Scan
<1>4. ASSUME NEW t \in Row, Claim(t) PROVE TypeOK'
  BY <1>4 DEF Claim, ClaimSlot
<1>5. ASSUME NEW t \in Row, StoreSorted(t) PROVE TypeOK'
  <2>1. t \in Int
    BY DEF Row
  <2>2. sorted_row_idx' \in [Slot -> Int]
    BY <1>5, <2>1 DEF StoreSorted
  <2> QED BY <1>5, <2>2 DEF StoreSorted
<1>6. ASSUME NEW t \in Row, StoreInv(t) PROVE TypeOK'
  BY <1>6 DEF StoreInv
<1>7. CASE UNCHANGED vars
  BY <1>7 DEF vars
<1> QED
  BY <1>1, <1>2, <1>3, <1>4, <1>5, <1>6, <1>7 DEF Next, Scatter

(***************************************************************************)
(* Every buffer, register and program counter keeps its type.              *)
(***************************************************************************)
THEOREM TypeCorrect == Spec => []TypeOK
<1>1. Init => TypeOK
  BY DEF Init, TypeOK
<1> QED BY <1>1, TypingStep, PTL DEF Spec
-----------------------------------------------------------------------------
(***************************************************************************)
(* The invariant gives exclusive slots: inside an expert by PosInv, across *)
(* experts because segments of smaller experts end where later ones begin. *)
(***************************************************************************)
LEMMA SegmentBounds ==
  ASSUME IInv, NEW t \in Claimed
  PROVE  /\ scanned
         /\ topk_ids[t] \in Expert
         /\ cursor[topk_ids[t]] <= offsets[topk_ids[t] + 1]
         /\ pos[t] \in Segment(topk_ids[t]) \cap Slot
<1> DEFINE e == topk_ids[t]
<1>1. scanned
  BY DEF IInv, CountInv
<1>2. t \in Row /\ e \in Expert /\ topk_ids \in [Row -> Expert] /\ pos[t] \in Int
  BY DEF IInv, TypeOK, Claimed
<1>3. Cardinality(RowsOf(Claimed, e)) <= Cardinality(RowsOf(Row, e))
  <2>1. RowsOf(Claimed, e) \in SUBSET RowsOf(Row, e) /\ RowsOf(Row, e) \in SUBSET Row
    BY DEF RowsOf, Claimed
  <2> QED BY <2>1, RowSets, FS_Subset
<1>4. /\ Cardinality(RowsOf(Claimed, e)) \in Nat
      /\ Cardinality(RowsOf(Row, e)) \in Nat
  <2>1. RowsOf(Claimed, e) \in SUBSET Row /\ RowsOf(Row, e) \in SUBSET Row
    BY DEF RowsOf, Claimed
  <2> QED BY <2>1, RowSets
<1>5. offsets[e] = Below(e) /\ offsets[e+1] = Below(e+1) /\ e+1 \in 0 .. E /\ e \in 0 .. E
  BY <1>1, <1>2 DEF IInv, OffsetInv, Expert
<1>6. /\ Below(e+1) = Below(e) + Cardinality(RowsOf(Row, e))
      /\ Below(e) \in 0 .. TK /\ Below(e+1) \in 0 .. TK
  BY <1>2, <1>5, BelowFacts
<1>7. cursor[e] = offsets[e] + Cardinality(RowsOf(Claimed, e))
  BY <1>1, <1>2 DEF IInv, CursorInv
<1>8. cursor[e] <= offsets[e+1]
  BY <1>3, <1>4, <1>5, <1>6, <1>7
<1>9. offsets[e] <= pos[t] /\ pos[t] < cursor[e]
  BY DEF IInv, PosInv
<1>10. pos[t] \in offsets[e] .. offsets[e+1] - 1 /\ pos[t] \in 0 .. TK-1
  BY <1>2, <1>4, <1>5, <1>6, <1>7, <1>8, <1>9
<1> QED BY <1>1, <1>2, <1>8, <1>10 DEF Segment, Slot

LEMMA SegmentsDisjoint ==
  ASSUME IInv, scanned,
         NEW d \in Expert, NEW e \in Expert, NEW s \in Int,
         s \in Segment(d), s \in Segment(e)
  PROVE  d = e
<1>1. topk_ids \in [Row -> Expert]
  BY DEF IInv, TypeOK
<1>2. \A c \in 0 .. E : offsets[c] = Below(c) /\ Below(c) \in Int
  BY <1>1, BelowFacts DEF IInv, OffsetInv
<1>3. {d, d+1, e, e+1} \subseteq 0 .. E
  BY DEF Expert
<1>4. ASSUME d < e PROVE FALSE
  <2>1. Below(d+1) <= Below(e)
    BY <1>1, <1>3, <1>4, BelowFacts DEF Expert
  <2> QED BY <1>2, <1>3, <2>1 DEF Segment
<1>5. ASSUME e < d PROVE FALSE
  <2>1. Below(e+1) <= Below(d)
    BY <1>1, <1>3, <1>5, BelowFacts DEF Expert
  <2> QED BY <1>2, <1>3, <2>1 DEF Segment
<1> QED BY <1>4, <1>5 DEF Expert

LEMMA InvariantGivesExclusiveSlots == IInv => ExclusiveSlots
<1> SUFFICES ASSUME IInv PROVE ExclusiveSlots
  OBVIOUS
<1>1. \A t \in Claimed : pos[t] \in Segment(topk_ids[t]) \cap Slot
  BY SegmentBounds
<1>2. ASSUME NEW t \in Claimed, NEW u \in Claimed, pos[t] = pos[u]
      PROVE  t = u
  <2>1. topk_ids[t] = topk_ids[u]
    <3>1. scanned /\ topk_ids[t] \in Expert /\ topk_ids[u] \in Expert
      BY SegmentBounds
    <3>2. pos[t] \in Int
      BY DEF IInv, TypeOK, Claimed
    <3>3. pos[t] \in Segment(topk_ids[t]) /\ pos[t] \in Segment(topk_ids[u])
      BY <1>1, <1>2
    <3> QED BY <3>1, <3>2, <3>3, SegmentsDisjoint
  <2> QED BY <1>2, <2>1 DEF IInv, PosInv
<1> QED BY <1>1, <1>2 DEF ExclusiveSlots
-----------------------------------------------------------------------------
LEMMA InitEstablishes == Init => IInv
<1> SUFFICES ASSUME Init PROVE IInv
  OBVIOUS
<1>1. TypeOK
  BY DEF Init, TypeOK
<1>2. Claimed = {}
  BY DEF Init, Claimed
<1>3. CountInv /\ OffsetInv /\ CursorInv /\ PosInv
  BY <1>2 DEF Init, CountInv, OffsetInv, CursorInv, PosInv
<1>4. StoreInvariant
  BY DEF Init, StoreInvariant
<1> QED BY <1>1, <1>3, <1>4 DEF IInv

(***************************************************************************)
(* Each action preserves the invariant.                                    *)
(***************************************************************************)
LEMMA ZeroStep ==
  ASSUME IInv, NEW e \in Expert, Zero(e)
  PROVE  IInv'
<1> USE DEF Zero
<1>1. TypeOK'
  BY TypingStep DEF IInv, Next
<1>2. counted = {} /\ ~scanned
  BY DEF IInv, CountInv
<1>3. Claimed = {} /\ Claimed' = {}
  BY <1>2 DEF IInv, CountInv, Claimed
<1>4. CountInv'
  <2>1. \A d \in zeroed' : counts'[d] = 0
    <3> SUFFICES ASSUME NEW d \in zeroed' PROVE counts'[d] = 0
      OBVIOUS
    <3>1. CASE d = e
      BY <3>1 DEF IInv, TypeOK
    <3>2. CASE d # e
      <4>1. d \in zeroed /\ counts'[d] = counts[d]
        BY <3>2 DEF IInv, TypeOK
      <4>2. RowsOf(counted, d) = {}
        BY <1>2 DEF RowsOf
      <4> QED BY <4>1, <4>2, FS_EmptySet DEF IInv, CountInv
    <3> QED BY <3>1, <3>2
  <2>2. \A d : RowsOf(counted, d)' = {}
    BY <1>2 DEF RowsOf
  <2> QED BY <1>2, <1>3, <2>1, <2>2, FS_EmptySet DEF CountInv
<1>5. OffsetInv' /\ CursorInv' /\ PosInv'
  BY <1>2, <1>3 DEF OffsetInv, CursorInv, PosInv
<1>6. StoreInvariant'
  BY DEF IInv, StoreInvariant
<1> QED BY <1>1, <1>4, <1>5, <1>6 DEF IInv

LEMMA HistogramStep ==
  ASSUME IInv, NEW t \in Row, Histogram(t)
  PROVE  IInv'
<1> USE DEF Histogram, CountRow
<1>1. TypeOK'
  BY TypingStep DEF IInv, Next
<1>2. ~scanned
  BY DEF IInv, CountInv
<1>3. Claimed = {} /\ Claimed' = {}
  BY <1>2 DEF IInv, CountInv, Claimed
<1>4. CountInv'
  <2>1. topk_ids \in [Row -> Expert] /\ counted \in SUBSET Row
    BY DEF IInv, TypeOK
  <2>2. ASSUME NEW e \in Expert
        PROVE  counts'[e] = Cardinality(RowsOf(counted \cup {t}, e))
    <3>1. counts[e] = Cardinality(RowsOf(counted, e))
      BY DEF IInv, CountInv
    <3>2. counts'[e] = IF e = topk_ids[t] THEN counts[e] + 1 ELSE counts[e]
      BY DEF IInv, TypeOK
    <3> QED BY <2>1, <3>1, <3>2, AddRow
  <2>3. \A e \in zeroed' : counts'[e] = Cardinality(RowsOf(counted, e))'
    BY <2>2 DEF RowsOf
  <2> QED BY <1>2, <1>3, <2>3 DEF CountInv
<1>5. OffsetInv' /\ CursorInv' /\ PosInv'
  BY <1>2, <1>3 DEF OffsetInv, CursorInv, PosInv
<1>6. StoreInvariant'
  BY DEF IInv, StoreInvariant
<1> QED BY <1>1, <1>4, <1>5, <1>6 DEF IInv

LEMMA ScanStep ==
  ASSUME IInv, ScanOffsets
  PROVE  IInv'
<1> USE DEF ScanOffsets, Scan
<1>1. TypeOK'
  BY TypingStep DEF IInv, Next
<1>2. Claimed = {} /\ Claimed' = {}
  BY DEF IInv, CountInv, Claimed
<1>3. topk_ids \in [Row -> Expert] /\ topk_ids' = topk_ids
  BY DEF IInv, TypeOK
<1>4. PICK f \in [0 .. E -> 0 .. TK] :
        /\ IsExclusiveScan(f, counts)
        /\ offsets' = f
        /\ cursor' = [e \in Expert |-> f[e]]
  OBVIOUS
<1>5. CountInv'
  <2>1. \A e : RowsOf(counted, e)' = RowsOf(counted, e)
    BY DEF RowsOf
  <2> QED BY <1>2, <2>1 DEF IInv, CountInv
<1>6. OffsetInv'
  <2>1. \A e \in Expert : counts[e] = Cardinality(RowsOf(Row, e))
    BY DEF IInv, CountInv
  <2>2. \A e \in 0 .. E : f[e] = Below(e)
    BY <1>3, <1>4, <2>1, ScanCounts
  <2>3. \A e : Below(e)' = Below(e)
    BY <1>3 DEF Below, Lower
  <2> QED BY <1>4, <2>2, <2>3 DEF OffsetInv
<1>7. CursorInv'
  <2>1. \A e : RowsOf(Claimed, e)' = {}
    BY <1>2 DEF RowsOf
  <2>2. \A e : Cardinality(RowsOf(Claimed, e))' = 0
    BY <2>1, FS_EmptySet
  <2>3. \A e \in Expert : cursor'[e] = offsets'[e] /\ offsets'[e] \in Int
    BY <1>4 DEF Expert
  <2> QED BY <2>2, <2>3 DEF CursorInv
<1>8. PosInv'
  BY <1>2 DEF PosInv
<1>9. StoreInvariant'
  BY DEF IInv, StoreInvariant
<1> QED BY <1>1, <1>5, <1>6, <1>7, <1>8, <1>9 DEF IInv

LEMMA ClaimStep ==
  ASSUME IInv, NEW t \in Row, Claim(t)
  PROVE  IInv'
<1> USE DEF Claim, ClaimSlot
<1> DEFINE e == topk_ids[t]
<1>1. TypeOK'
  BY TypingStep DEF IInv, Next, Scatter
<1>2. /\ topk_ids \in [Row -> Expert] /\ topk_ids' = topk_ids /\ e \in Expert
      /\ cursor \in [Expert -> Int] /\ pos \in [Row -> Int]
      /\ offsets \in [0 .. E -> Int]
  BY DEF IInv, TypeOK
<1>3. Claimed \in SUBSET Row /\ t \notin Claimed /\ Claimed' = Claimed \cup {t}
  BY DEF IInv, TypeOK, Claimed
<1>4. CountInv'
  <2>1. \A d : RowsOf(counted, d)' = RowsOf(counted, d)
    BY DEF RowsOf
  <2> QED BY <2>1 DEF IInv, CountInv
<1>5. OffsetInv'
  <2>1. \A d : Below(d)' = Below(d)
    BY <1>2 DEF Below, Lower
  <2> QED BY <2>1 DEF IInv, OffsetInv
<1>6. CursorInv'
  <2>1. ASSUME NEW d \in Expert
        PROVE  cursor'[d] = offsets'[d] + Cardinality(RowsOf(Claimed \cup {t}, d))
    <3>1. cursor[d] = offsets[d] + Cardinality(RowsOf(Claimed, d))
      BY DEF IInv, CursorInv
    <3>2. cursor'[d] = IF d = e THEN cursor[d] + 1 ELSE cursor[d]
      BY <1>2
    <3>3. /\ Cardinality(RowsOf(Claimed \cup {t}, d)) =
               IF d = e THEN Cardinality(RowsOf(Claimed, d)) + 1
                        ELSE Cardinality(RowsOf(Claimed, d))
          /\ Cardinality(RowsOf(Claimed, d)) \in Nat
      BY <1>2, <1>3, AddRow
    <3>4. offsets[d] \in Int
      BY <1>2 DEF Expert
    <3> QED BY <3>1, <3>2, <3>3, <3>4
  <2>2. \A d : RowsOf(Claimed, d)' = RowsOf(Claimed \cup {t}, d)
    BY <1>2, <1>3 DEF RowsOf
  <2> QED BY <2>1, <2>2 DEF CursorInv
<1>7. PosInv'
  <2>1. pos'[t] = cursor[e] /\ \A u \in Claimed : pos'[u] = pos[u]
    BY <1>2, <1>3
  <2>2. /\ cursor'[e] = cursor[e] + 1
        /\ \A d \in Expert : cursor[d] <= cursor'[d] /\ cursor'[d] \in Int
    BY <1>2
  <2>3. offsets[e] <= cursor[e]
    <3>1. Cardinality(RowsOf(Claimed, e)) \in Nat
      BY <1>2, <1>3, AddRow
    <3> QED BY <1>2, <3>1 DEF IInv, CursorInv, Expert
  <2>4. ASSUME NEW u \in Claimed'
        PROVE  offsets'[topk_ids'[u]] <= pos'[u] /\ pos'[u] < cursor'[topk_ids'[u]]
    <3>1. CASE u = t
      BY <1>2, <2>1, <2>2, <2>3, <3>1
    <3>2. CASE u # t
      <4>1. u \in Claimed /\ topk_ids[u] \in Expert /\ pos[u] \in Int
        BY <1>2, <1>3, <3>2
      <4>2. offsets[topk_ids[u]] <= pos[u] /\ pos[u] < cursor[topk_ids[u]]
        BY <4>1 DEF IInv, PosInv
      <4> QED BY <1>2, <2>1, <2>2, <4>1, <4>2
    <3> QED BY <3>1, <3>2
  <2>5. ASSUME NEW u \in Claimed, topk_ids[u] = e
        PROVE  pos'[u] # pos'[t]
    <3>1. pos[u] < cursor[e] /\ pos[u] \in Int
      BY <1>2, <1>3, <2>5 DEF IInv, PosInv
    <3> QED BY <1>2, <2>1, <3>1
  <2>6. ASSUME NEW u \in Claimed', NEW v \in Claimed',
               topk_ids'[u] = topk_ids'[v], pos'[u] = pos'[v]
        PROVE  u = v
    <3>1. CASE u \in Claimed /\ v \in Claimed
      BY <1>2, <2>1, <2>6, <3>1 DEF IInv, PosInv
    <3>2. CASE u = t \/ v = t
      BY <1>2, <1>3, <2>5, <2>6, <3>2
    <3> QED BY <1>3, <3>1, <3>2
  <2> QED BY <2>4, <2>6 DEF PosInv
<1>8. StoreInvariant'
  <2>1. ASSUME NEW u \in Row, pc'[u] \in {"inv", "done"}
        PROVE  pc[u] = pc'[u] /\ pos'[u] = pos[u]
    BY <2>1 DEF IInv, TypeOK
  <2> QED BY <2>1 DEF IInv, StoreInvariant
<1> QED BY <1>1, <1>4, <1>5, <1>6, <1>7, <1>8 DEF IInv

LEMMA StoreSortedStep ==
  ASSUME IInv, NEW t \in Row, StoreSorted(t)
  PROVE  IInv'
<1> USE DEF StoreSorted
<1>1. TypeOK'
  BY TypingStep DEF IInv, Next, Scatter
<1>2. t \in Claimed /\ Claimed' = Claimed
  BY DEF IInv, TypeOK, Claimed
<1>3. \A e : RowsOf(counted, e)' = RowsOf(counted, e)
             /\ RowsOf(Claimed, e)' = RowsOf(Claimed, e) /\ Below(e)' = Below(e)
  BY <1>2 DEF RowsOf, Below, Lower
<1>4. CountInv' /\ OffsetInv' /\ CursorInv' /\ PosInv'
  BY <1>2, <1>3 DEF IInv, CountInv, OffsetInv, CursorInv, PosInv
<1>5. StoreInvariant'
  <2>1. pos[t] \in Slot /\ sorted_row_idx \in [Slot -> Int]
    BY <1>2, SegmentBounds DEF IInv, TypeOK
  <2>2. ASSUME NEW u \in Row, pc'[u] \in {"inv", "done"}
        PROVE  sorted_row_idx'[pos[u]] = u
    <3>1. CASE u = t
      BY <2>1, <3>1
    <3>2. CASE u # t
      <4>1. pc[u] \in {"inv", "done"} /\ u \in Claimed
        BY <2>2, <3>2 DEF IInv, TypeOK, Claimed
      <4>2. pos[u] # pos[t] /\ pos[u] \in Slot
        BY <1>2, <3>2, <4>1, SegmentBounds, InvariantGivesExclusiveSlots
           DEF ExclusiveSlots
      <4>3. sorted_row_idx[pos[u]] = u
        BY <4>1 DEF IInv, StoreInvariant
      <4> QED BY <2>1, <4>2, <4>3
    <3> QED BY <3>1, <3>2
  <2>3. ASSUME NEW u \in Row, pc'[u] = "done"
        PROVE  inv_idx'[u] = pos'[u]
    BY <2>3 DEF IInv, TypeOK, StoreInvariant
  <2> QED BY <2>2, <2>3 DEF StoreInvariant
<1> QED BY <1>1, <1>4, <1>5 DEF IInv

LEMMA StoreInvStep ==
  ASSUME IInv, NEW t \in Row, StoreInv(t)
  PROVE  IInv'
<1> USE DEF StoreInv
<1>1. TypeOK'
  BY TypingStep DEF IInv, Next, Scatter
<1>2. t \in Claimed /\ Claimed' = Claimed
  BY DEF IInv, TypeOK, Claimed
<1>3. \A e : RowsOf(counted, e)' = RowsOf(counted, e)
             /\ RowsOf(Claimed, e)' = RowsOf(Claimed, e) /\ Below(e)' = Below(e)
  BY <1>2 DEF RowsOf, Below, Lower
<1>4. CountInv' /\ OffsetInv' /\ CursorInv' /\ PosInv'
  BY <1>2, <1>3 DEF IInv, CountInv, OffsetInv, CursorInv, PosInv
<1>5. StoreInvariant'
  BY DEF IInv, TypeOK, StoreInvariant
<1> QED BY <1>1, <1>4, <1>5 DEF IInv

LEMMA InductiveStep == IInv /\ [Next]_vars => IInv'
<1> SUFFICES ASSUME IInv, [Next]_vars PROVE IInv'
  OBVIOUS
<1>1. CASE UNCHANGED vars
  <2>1. Claimed' = Claimed /\ TypeOK'
    BY <1>1 DEF vars, Claimed, IInv, TypeOK
  <2>2. \A e : RowsOf(counted, e)' = RowsOf(counted, e)
               /\ RowsOf(Claimed, e)' = RowsOf(Claimed, e) /\ Below(e)' = Below(e)
    BY <1>1, <2>1 DEF vars, RowsOf, Below, Lower
  <2> QED
    BY <1>1, <2>1, <2>2
       DEF vars, IInv, CountInv, OffsetInv, CursorInv, PosInv, StoreInvariant
<1> QED
  BY <1>1, ZeroStep, HistogramStep, ScanStep, ClaimStep, StoreSortedStep,
     StoreInvStep
  DEF Next, Scatter

LEMMA Invariance == Spec => []IInv
BY InitEstablishes, InductiveStep, PTL DEF Spec
-----------------------------------------------------------------------------
(***************************************************************************)
(* No slot is claimed twice and none outside the segment of its expert.    *)
(***************************************************************************)
THEOREM SlotsAreExclusive == Spec => []ExclusiveSlots
BY Invariance, InvariantGivesExclusiveSlots, PTL

(***************************************************************************)
(* At the end every slot is claimed: as many rows as slots, each with a    *)
(* slot of its own.                                                        *)
(***************************************************************************)
LEMMA EverySlotTaken ==
  ASSUME IInv, Done, NEW s \in Slot
  PROVE  \E t \in Row : pos[t] = s
<1>1. Claimed = Row
  BY DEF Done, Claimed
<1> DEFINE f == [t \in Row |-> pos[t]]
<1>2. f \in Injection(Row, Slot)
  <2>1. \A t \in Row : pos[t] \in Slot
    BY <1>1, SegmentBounds
  <2>2. \A t, u \in Row : pos[t] = pos[u] => t = u
    BY <1>1, InvariantGivesExclusiveSlots DEF ExclusiveSlots
  <2>3. f \in [Row -> Slot] /\ IsInjective(f)
    BY <2>1, <2>2 DEF IsInjective
  <2> QED BY <2>3 DEF Injection
<1>3. IsFiniteSet(Slot) /\ Cardinality(Row) = Cardinality(Slot)
  BY RowSets DEF Row, Slot
<1>4. f \in Surjection(Row, Slot)
  <2> HIDE DEF f
  <2> QED BY <1>2, <1>3, FS_Injection
<1> QED BY <1>4 DEF Surjection

LEMMA InvariantGivesPermutation == IInv => GroupedPermutation
<1> SUFFICES ASSUME IInv, Done PROVE GroupedPermutation
  BY DEF GroupedPermutation
<1>1. Claimed = Row
  BY DEF Done, Claimed
<1>2. ASSUME NEW t \in Row
      PROVE  /\ inv_idx[t] = pos[t] /\ pos[t] \in Slot
             /\ sorted_row_idx[pos[t]] = t
             /\ pos[t] \in Segment(topk_ids[t]) /\ topk_ids[t] \in Expert
  BY <1>1, SegmentBounds DEF IInv, StoreInvariant, Done
<1>3. ASSUME NEW s \in Slot
      PROVE  /\ sorted_row_idx[s] \in Row /\ inv_idx[sorted_row_idx[s]] = s
             /\ \A e \in Expert :
                  s \in Segment(e) <=> topk_ids[sorted_row_idx[s]] = e
  <2>1. PICK t \in Row : pos[t] = s
    BY EverySlotTaken
  <2>2. sorted_row_idx[s] = t /\ inv_idx[t] = s
    BY <1>2, <2>1
  <2>3. ASSUME NEW e \in Expert, s \in Segment(e)
        PROVE  topk_ids[t] = e
    <3>1. scanned /\ s \in Int
      BY DEF Done, Slot
    <3>2. s \in Segment(topk_ids[t]) /\ topk_ids[t] \in Expert
      BY <1>2, <2>1
    <3> QED BY <2>3, <3>1, <3>2, SegmentsDisjoint
  <2> QED BY <1>2, <2>1, <2>2, <2>3
<1> QED BY <1>2, <1>3 DEF GroupedPermutation

(***************************************************************************)
(* The outputs of the pipeline are inverse permutations grouped by expert. *)
(***************************************************************************)
THEOREM OutputIsGrouped == Spec => []GroupedPermutation
BY Invariance, InvariantGivesPermutation, PTL

(***************************************************************************)
(* A recorded row stays recorded: no later thread of the scatter writes    *)
(* the slot again.                                                         *)
(***************************************************************************)
THEOREM RecordedForGood == Spec => NeverOverwritten
<1>1. ASSUME IInv, IInv', [Next]_vars
      PROVE  [\A t \in Row : pc[t] \in {"inv", "done"} =>
                sorted_row_idx'[pos[t]] = sorted_row_idx[pos[t]]]_vars
  <2> SUFFICES ASSUME Next, NEW t \in Row, pc[t] \in {"inv", "done"}
               PROVE  sorted_row_idx'[pos[t]] = sorted_row_idx[pos[t]]
    BY <1>1
  <2>1. CASE \E u \in Row : StoreSorted(u) \/ StoreInv(u) \/ Claim(u)
    <3>1. pc'[t] \in {"inv", "done"} /\ pos'[t] = pos[t]
      BY <1>1, <2>1 DEF StoreSorted, StoreInv, Claim, ClaimSlot, IInv, TypeOK
    <3> QED BY <1>1, <3>1 DEF IInv, StoreInvariant
  <2>2. CASE (\E e \in Expert : Zero(e)) \/ (\E u \in Row : Histogram(u))
             \/ ScanOffsets
    BY <2>2 DEF Zero, Histogram, CountRow, ScanOffsets, Scan
  <2> QED BY <2>1, <2>2 DEF Next, Scatter
<1> QED BY <1>1, Invariance, PTL DEF Spec, NeverOverwritten
-----------------------------------------------------------------------------
(***************************************************************************)
(* The pipeline implements MoeDispatch: the atomic increment of the cursor *)
(* is the step that places a row, everything else is a stutter.            *)
(***************************************************************************)
THEOREM Implements == Spec => ImplementsDispatch
<1>1. Init => Dispatch!Init
  BY DEF Init, Dispatch!Init, Dispatch!Row, Dispatch!Expert, Dispatch!NoSlot,
         Row, Expert
<1>2. IInv' => ExclusiveSlots' /\ CountInv'
  BY InvariantGivesExclusiveSlots, PTL DEF IInv
<1>3. ASSUME IInv, IInv', [Next]_vars
      PROVE  [Dispatch!Next]_(Dispatch!vars)
  <2> DEFINE slotOf == [t \in Row |-> IF pc[t] = "claim" THEN -1 ELSE pos[t]]
  <2>1. ASSUME NEW t \in Row, Claim(t)
        PROVE  Dispatch!Place(t)
    <3>1. t \in Claimed' /\ pc[t] = "claim" /\ pc'[t] # "claim"
      BY <1>3, <2>1 DEF Claim, ClaimSlot, Claimed, IInv, TypeOK
    <3>2. /\ topk_ids' = topk_ids /\ topk_ids \in [Row -> Expert]
          /\ topk_ids[t] \in Expert
      BY <1>3, <2>1 DEF Claim, ClaimSlot, IInv, TypeOK
    <3>3. pos'[t] \in Segment(topk_ids[t])' /\ scanned'
      BY <1>2, <1>3, <3>1, <3>2 DEF ExclusiveSlots, CountInv
    <3>4. Dispatch!Segment(topk_ids[t]) = Segment(topk_ids[t])'
      <4>1. \A e : Dispatch!Below(e) = Below(e)
        BY DEF Dispatch!Below, Dispatch!Row, Below, Lower, Row,
               Dispatch!Cardinality, Cardinality
      <4>2. \A e : Below(e)' = Below(e)
        BY <3>2 DEF Below, Lower
      <4>3. \A e \in 0 .. E : offsets'[e] = Below(e)
        BY <1>3, <3>3, <4>2 DEF IInv, OffsetInv
      <4> QED BY <3>2, <4>1, <4>3 DEF Dispatch!Segment, Segment, Expert
    <3>5. \A u \in Row : slotOf[u] # pos'[t]
      <4>1. pos'[t] \in Slot
        BY <1>2, <1>3, <3>1 DEF ExclusiveSlots
      <4>2. ASSUME NEW u \in Row, pc[u] # "claim"
            PROVE  pos[u] # pos'[t]
        <5>1. u \in Claimed' /\ u # t /\ pos'[u] = pos[u]
          BY <2>1, <3>1, <4>2, <1>3 DEF Claim, ClaimSlot, Claimed, IInv, TypeOK
        <5> QED BY <1>2, <1>3, <3>1, <5>1 DEF ExclusiveSlots
      <4> QED BY <4>1, <4>2 DEF Slot
    <3>6. slotOf' = [slotOf EXCEPT ![t] = pos'[t]]
      BY <1>3, <2>1 DEF Claim, ClaimSlot, IInv, TypeOK
    <3> QED
      BY <3>1, <3>2, <3>3, <3>4, <3>5, <3>6
      DEF Dispatch!Place, Dispatch!Row, Dispatch!NoSlot, Row
  <2>2. ASSUME NEW t \in Row, StoreSorted(t) \/ StoreInv(t)
        PROVE  slotOf' = slotOf /\ topk_ids' = topk_ids
    BY <1>3, <2>2 DEF StoreSorted, StoreInv, IInv, TypeOK
  <2>3. CASE (\E e \in Expert : Zero(e)) \/ (\E u \in Row : Histogram(u))
             \/ ScanOffsets \/ UNCHANGED vars
    BY <2>3 DEF Zero, Histogram, CountRow, ScanOffsets, Scan, vars, Dispatch!vars
  <2> QED
    BY <1>3, <2>1, <2>2, <2>3
    DEF Next, Scatter, Dispatch!Next, Dispatch!vars, Dispatch!Row, Row
<1> QED
  BY <1>1, <1>3, Invariance, PTL DEF Spec, ImplementsDispatch, Dispatch!Spec
-----------------------------------------------------------------------------
(***************************************************************************)
(* The dispatches as the encoder orders them.  What CommandEncoderProofs   *)
(* shows of every program is used for Launches, the one program here.      *)
(***************************************************************************)
Encoding == INSTANCE CommandEncoderProofs WITH
              Buffer <- Buffers, Programs <- {Launches}

(***************************************************************************)
(* A dispatch has finished only after its last thread has ended.           *)
(***************************************************************************)
FinishedInv == \A d \in finished : Ended(d)

EncodedInv == IInv /\ Encoding!IInv /\ FinishedInv

(***************************************************************************)
(* The launches keep to the rule the encoder relies on.                    *)
(***************************************************************************)
LEMMA LaunchesKeepRule ==
  \A p \in {Launches} :
    /\ p \in Seq([in : SUBSET Buffers, out : SUBSET Buffers])
    /\ Encoding!WritesFollowReads(p)
<1>1. Launches \in Seq([in : SUBSET Buffers, out : SUBSET Buffers])
  BY DEF Launches, Buffers
<1>2. Encoding!WritesFollowReads(Launches)
  BY DEF Launches, Encoding!WritesFollowReads, Encoding!Touched
<1> QED
  BY <1>1, <1>2

(***************************************************************************)
(* The two instances of CommandEncoder have the same actions.              *)
(***************************************************************************)
LEMMA SameEncoder ==
  /\ Encoder!Init <=> Encoding!Init
  /\ Encoder!Record <=> Encoding!Record
  /\ Encoder!EndEncoding <=> Encoding!EndEncoding
  /\ Encoder!Encoder = Encoding!Encoder
  /\ Encoder!Dispatch = Encoding!Dispatch
  /\ \A e : Encoder!Handler(e) <=> Encoding!Handler(e)
  /\ \A d : Encoder!Start(d) <=> Encoding!Start(d)
  /\ \A d : Encoder!Finish(d) <=> Encoding!Finish(d)
<1> USE DEF Encoder!Dispatch, Encoding!Dispatch, Encoder!Encoder, Encoding!Encoder,
            Encoder!Recorded, Encoding!Recorded, Encoder!InEncoder, Encoding!InEncoder,
            Encoder!Complete, Encoding!Complete, Encoder!host, Encoding!host,
            Encoder!Out, Encoding!Out
<1>1. Encoder!Init <=> Encoding!Init
  BY DEF Encoder!Init, Encoding!Init
<1>2. Encoder!Record <=> Encoding!Record
  BY DEF Encoder!Record, Encoding!Record, Encoder!NeedsBarrier, Encoding!NeedsBarrier,
     Encoder!Binds, Encoding!Binds, Encoder!Touched, Encoding!Touched
<1>3. Encoder!EndEncoding <=> Encoding!EndEncoding
  BY DEF Encoder!EndEncoding, Encoding!EndEncoding
<1>4. \A e : Encoder!Handler(e) <=> Encoding!Handler(e)
  BY DEF Encoder!Handler, Encoding!Handler, Encoder!Written, Encoding!Written
<1>5. \A d : Encoder!Start(d) <=> Encoding!Start(d)
  BY DEF Encoder!Start, Encoding!Start
<1>6. \A d : Encoder!Finish(d) <=> Encoding!Finish(d)
  BY DEF Encoder!Finish, Encoding!Finish
<1> QED
  BY <1>1, <1>2, <1>3, <1>4, <1>5, <1>6

(***************************************************************************)
(* The launch before each one has finished when its threads run: a launch  *)
(* binds what the one before it writes.                                    *)
(***************************************************************************)
LEMMA LaunchesInSequence ==
  ASSUME Encoding!IInv
  PROVE  /\ finished \subseteq started /\ started \subseteq 1 .. 4
         /\ \A d \in started : d > 1 => d - 1 \in finished
<1>1. prog = Launches /\ recorded \in 0 .. Len(prog)
      /\ finished \subseteq started /\ started \subseteq 1 .. recorded
  BY DEF Encoding!IInv, Encoding!TypeOK, Encoding!Recorded
<1>2. Len(prog) = 4
  BY <1>1 DEF Launches
<1>3. \A d \in 2 .. 4 : Encoding!Out(d - 1) \cap Encoding!Binds(d) # {}
  <2>1. /\ prog[1].out = {"counts"} /\ prog[2].out = {"counts"}
        /\ prog[3].out = {"offsets", "cursor"}
        /\ prog[2].out \subseteq Encoding!Binds(2)
        /\ prog[3].in = {"counts"} /\ prog[4].out = {"cursor", "sorted_row_idx", "inv_idx"}
    BY <1>1 DEF Launches, Encoding!Binds, Encoding!Touched
  <2>2. "counts" \in Encoding!Out(1) \cap Encoding!Binds(2)
    BY <2>1 DEF Encoding!Out
  <2>3. "counts" \in Encoding!Out(2) \cap Encoding!Binds(3)
    BY <2>1 DEF Encoding!Out, Encoding!Binds, Encoding!Touched
  <2>4. "cursor" \in Encoding!Out(3) \cap Encoding!Binds(4)
    BY <2>1 DEF Encoding!Out, Encoding!Binds, Encoding!Touched
  <2> QED
    <3> SUFFICES ASSUME NEW d \in 2 .. 4
                 PROVE  Encoding!Out(d - 1) \cap Encoding!Binds(d) # {}
      OBVIOUS
    <3>1. d = 2 \/ d = 3 \/ d = 4
      OBVIOUS
    <3> QED
      BY <2>2, <2>3, <2>4, <3>1
<1>4. ASSUME NEW d \in started, d > 1
      PROVE  d - 1 \in finished
  <2>1. /\ d \in 2 .. 4 /\ d \in 1 .. recorded /\ d - 1 \in 1 .. recorded
        /\ d - 1 < d
    BY <1>1, <1>2, <1>4
  <2> QED
    BY <1>3, <1>4, <2>1 DEF Encoding!IInv, Encoding!TrackedInv, Encoding!Recorded
<1> QED
  BY <1>1, <1>2, <1>4

LEMMA LaunchesFinished == Encoding!IInv => finished \subseteq 1 .. 4
BY LaunchesInSequence

(***************************************************************************)
(* The threads of a running launch take steps of MoePermute: what its      *)
(* guards ask for has happened.                                            *)
(***************************************************************************)
LEMMA ThreadsKeepSequence == ASSUME EncodedInv, ThreadStep PROVE Next
<1>1. PICK d \in started \ finished : ThreadOf(d)
  BY DEF ThreadStep
<1>2. d \in 1 .. 4 /\ (d > 1 => d - 1 \in finished)
  BY <1>1, LaunchesInSequence DEF EncodedInv
<1>3. d > 1 => Ended(d - 1)
  BY <1>2 DEF EncodedInv, FinishedInv
<1>4. CASE d = 1
  BY <1>1, <1>4 DEF ThreadOf, Next
<1>5. CASE d = 2
  <2>1. Ended(1)
    BY <1>3, <1>5
  <2>2. zeroed = Expert
    BY <2>1 DEF Ended
  <2> QED
    BY <1>1, <1>5, <2>2 DEF ThreadOf, Next, Histogram
<1>6. CASE d = 3
  <2>1. Ended(2) /\ 2 \in started
    BY <1>2, <1>3, <1>6, LaunchesInSequence DEF EncodedInv
  <2>2. Ended(1)
    <3>1. 1 \in finished
      BY <2>1, LaunchesInSequence DEF EncodedInv
    <3> QED
      BY <3>1 DEF EncodedInv, FinishedInv
  <2>3. zeroed = Expert /\ counted = Row
    BY <2>1, <2>2 DEF Ended
  <2> QED
    BY <1>1, <1>6, <2>3 DEF ThreadOf, Next, ScanOffsets
<1>7. CASE d = 4
  <2>1. Ended(3)
    BY <1>3, <1>7
  <2>2. scanned
    BY <2>1 DEF Ended
  <2> QED
    BY <1>1, <1>7, <2>2 DEF ThreadOf, Next, Scatter, Claim
<1> QED
  BY <1>2, <1>4, <1>5, <1>6, <1>7

(***************************************************************************)
(* A launch whose threads have ended has no thread that could take a step. *)
(***************************************************************************)
LEMMA EndedForGood ==
  ASSUME TypeOK, [Next]_vars, NEW d \in 1 .. 4, Ended(d)
  PROVE  Ended(d)'
<1>1. CASE UNCHANGED vars
  BY <1>1 DEF vars, Ended
<1>2. CASE d = 1 /\ Next
  <2>1. zeroed = Expert
    BY <1>2 DEF Ended
  <2>2. zeroed' = zeroed
    BY <1>2, <2>1 DEF Next, Zero, Histogram, CountRow, ScanOffsets, Scan, Scatter,
       Claim, ClaimSlot, StoreSorted, StoreInv
  <2> QED
    BY <1>2, <2>1, <2>2 DEF Ended
<1>3. CASE d = 2 /\ Next
  <2>1. counted = Row
    BY <1>3 DEF Ended
  <2>2. counted' = counted
    BY <1>3, <2>1 DEF Next, Zero, Histogram, CountRow, ScanOffsets, Scan, Scatter,
       Claim, ClaimSlot, StoreSorted, StoreInv
  <2> QED
    BY <1>3, <2>1, <2>2 DEF Ended
<1>4. CASE d = 3 /\ Next
  <2>1. scanned
    BY <1>4 DEF Ended
  <2>2. scanned'
    BY <1>4, <2>1 DEF Next, Zero, Histogram, CountRow, ScanOffsets, Scan, Scatter,
       Claim, ClaimSlot, StoreSorted, StoreInv
  <2> QED
    BY <1>4, <2>2 DEF Ended
<1>5. CASE d = 4 /\ Next
  <2>1. \A t \in Row : pc[t] = "done"
    BY <1>5 DEF Ended
  <2>2. pc' = pc
    BY <1>5, <2>1 DEF Next, Zero, Histogram, CountRow, ScanOffsets, Scan, Scatter,
       Claim, ClaimSlot, StoreSorted, StoreInv
  <2> QED
    BY <1>5, <2>1, <2>2 DEF Ended
<1>6. d = 1 \/ d = 2 \/ d = 3 \/ d = 4
  OBVIOUS
<1> QED
  BY <1>1, <1>2, <1>3, <1>4, <1>5, <1>6

LEMMA EncodedInitInv == EncodedInit => Init /\ EncodedInv
<1> SUFFICES ASSUME EncodedInit PROVE Init /\ EncodedInv
  OBVIOUS
<1>1. Init /\ Encoding!Init
  BY SameEncoder DEF EncodedInit
<1>2. IInv /\ Encoding!IInv
  BY <1>1, InitEstablishes, Encoding!InitInv, LaunchesKeepRule
<1>3. finished = {}
  BY <1>1 DEF Encoding!Init
<1> QED
  BY <1>1, <1>2, <1>3 DEF EncodedInv, FinishedInv

(***************************************************************************)
(* Every step is a step of MoePermute or leaves its variables alone, and   *)
(* keeps the invariants of both parts.                                     *)
(***************************************************************************)
LEMMA EncodedStep ==
  ASSUME EncodedInv, [EncodedNext]_<<vars, encVars>>
  PROVE  [Next]_vars /\ EncodedInv'
<1>1. [Next]_vars
  BY ThreadsKeepSequence DEF EncodedNext, EncoderStep, FinishStep
<1>2. IInv'
  BY <1>1, InductiveStep DEF EncodedInv
<1>3. Encoding!IInv' /\ (\A d \in finished' \ finished : Ended(d))
  <2> USE LaunchesKeepRule DEF EncodedInv
  <2>1. CASE EncoderStep
    <3>1. CASE Encoder!Record \/ Encoder!EndEncoding
      BY <3>1, SameEncoder, Encoding!RecordInv, Encoding!EndEncodingInv
      DEF Encoding!Record, Encoding!EndEncoding
    <3>2. CASE \E e \in Encoder!Encoder : Encoder!Handler(e)
      <4>1. PICK e \in Encoding!Encoder : Encoding!Handler(e)
        BY <3>2, SameEncoder
      <4> QED
        BY <4>1, Encoding!HandlerInv DEF Encoding!Handler
    <3>3. CASE \E d \in Encoder!Dispatch : Encoder!Start(d)
      <4>1. PICK d \in Encoding!Dispatch : Encoding!Start(d)
        BY <3>3, SameEncoder
      <4> QED
        BY <4>1, Encoding!StartInv DEF Encoding!Start
    <3> QED
      BY <2>1, <3>1, <3>2, <3>3 DEF EncoderStep
  <2>2. CASE FinishStep
    <3>1. PICK d \in started \ finished : Ended(d) /\ Encoding!Finish(d)
      BY <2>2, SameEncoder DEF FinishStep
    <3>2. d \in Encoding!Dispatch
      BY <3>1 DEF Encoding!IInv, Encoding!TypeOK, Encoding!Recorded, Encoding!Dispatch
    <3> QED
      BY <3>1, <3>2, Encoding!FinishInv DEF Encoding!Finish
  <2>3. CASE ThreadStep \/ UNCHANGED <<vars, encVars>>
    <3>1. UNCHANGED encVars
      BY <2>3 DEF ThreadStep
    <3>2. UNCHANGED Encoding!vars
      BY <3>1 DEF encVars, Encoding!vars, Encoding!host
    <3> QED
      BY <3>1, <3>2, Encoding!StutterInv DEF encVars
  <2> QED
    BY <2>1, <2>2, <2>3 DEF EncodedNext
<1>4. FinishedInv'
  <2>1. finished' \subseteq 1 .. 4
    <3>1. (Encoding!IInv)' => (finished \subseteq 1 .. 4)'
      BY LaunchesFinished, PTL
    <3> QED
      BY <1>3, <3>1
  <2>2. ASSUME NEW d \in finished', Ended(d)
        PROVE  Ended(d)'
    BY <1>1, <2>1, <2>2, EndedForGood DEF EncodedInv, IInv
  <2> QED
    BY <1>3, <2>2 DEF EncodedInv, FinishedInv
<1> QED
  BY <1>1, <1>2, <1>3, <1>4 DEF EncodedInv

(***************************************************************************)
(* However the host splits the four launches over encoders and whenever    *)
(* handlers run, the barriers and fences make the threads take exactly the *)
(* steps MoePermute allows: its guards need no other synchronization.      *)
(***************************************************************************)
THEOREM EncoderSequencesLaunches == EncodedSpec => ImplementsPermute
<1>1. EncodedInit => Init /\ EncodedInv
  BY EncodedInitInv
<1>2. EncodedInv /\ [EncodedNext]_<<vars, encVars>> => [Next]_vars /\ EncodedInv'
  BY EncodedStep
<1> QED
  BY <1>1, <1>2, PTL DEF EncodedSpec, ImplementsPermute, Spec

(***************************************************************************)
(* As it is executed, too, the permutation groups the rows by expert.      *)
(***************************************************************************)
THEOREM EncodedOutputIsGrouped == EncodedSpec => [](ExclusiveSlots /\ GroupedPermutation)
BY EncoderSequencesLaunches, SlotsAreExclusive, OutputIsGrouped, PTL DEF ImplementsPermute
=============================================================================
