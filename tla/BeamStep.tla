------------------------------ MODULE BeamStep ------------------------------
(***************************************************************************)
(* A step of beam search from logits to cache: BeamAdvance chooses the     *)
(* parents of batch entry 0, and BeamKv moves the cache to them.  The      *)
(* other entries, which other simdgroups advance, may have any parents.    *)
(* The history is scattered into the cache when it is first needed; that   *)
(* nothing of it depends on the step makes the order immaterial.           *)
(***************************************************************************)
EXTENDS BeamAdvance, BeamKv

stepVars == <<kvVars, advanceVars>>

StepInit == AdvanceInit /\ KvInit

AdvanceStep == ~KvStep /\ AdvanceNext /\ UNCHANGED kvVars

\* The buffers of the step are released, its parents kept.
Reorder ==
  /\ parent_beam # <<>>
  /\ \E others \in [Row -> Beam] :
       Receive([r \in Row |-> IF r < BM THEN parent_beam[r+1] ELSE others[r]])
  /\ logits' = <<>> /\ cum' = <<>> /\ mine' = <<>> /\ used' = <<>>
  /\ cand_score' = <<>> /\ cand_token' = <<>> /\ chosen' = <<>>
  /\ next_token' = <<>> /\ parent_beam' = <<>> /\ new_cum' = <<>>

KvMove == KvNext /\ UNCHANGED advanceVars

StepNext == AdvanceStep \/ Reorder \/ KvMove

StepSpec == StepInit /\ [][StepNext]_stepVars
=============================================================================
