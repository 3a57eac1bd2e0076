----------------------------- MODULE MCSelection -----------------------------
(***************************************************************************)
(* The two users of TopK, checked together: a behaviour routes a token, or *)
(* makes a step of beam search.  The other stays idle: no step of beam     *)
(* search is under way, or the lanes of the router have chosen nothing.    *)
(*   - MoeRoute on all scores and biases;                                  *)
(*   - BeamStep on every row of logits for beam 0 and rows with none, one, *)
(*     or all tokens high for the others, with beams alive, ahead, and     *)
(*     dead; then on blocks that are in order, scattered, or missing, and  *)
(*     beams of equal or different lengths.                                *)
(***************************************************************************)
EXTENDS BeamStep, MoeRoute

CONSTANT Value   \* of logits

VARIABLE selecting
-----------------------------------------------------------------------------
SomeLogits ==
  {x \in [Beam -> [Token -> Value]] :
     \A b \in Beam \ {0} : \A t \in 1 .. V-1 :
       x[b][t-1] <= x[b][t] /\ (t < V-1 => x[b][t-1] = x[b][t])}

SomeCums == {c \in [Beam -> {MinusInf, 0, 1}] : c[0] = 0}

SomeTables ==
  {[r \in Row |-> [c \in Col |-> r * MaxBlocks + c]],
   [r \in Row |-> [c \in Col |-> IF r = 1 /\ c = MaxBlocks-1 THEN -1
                                 ELSE (B*BM - 1 - r) + c * B*BM]]}

SomeSeqLens ==
  {[r \in Row |-> MaxBlocks * BlockSize - 1],
   [r \in Row |-> IF r = 2 THEN 0 ELSE IF r = 0 THEN 1 ELSE MaxBlocks * BlockSize]}
-----------------------------------------------------------------------------
ASSUME SelectionAssumption ==
  TopKAssumption /\ RouteAssumption /\ WidthAssumption /\ BeamAssumption /\ KvAssumption

NoRoute ==
  /\ n_group = 0 /\ topk_group = 0 /\ K = 0 /\ scored = 0 /\ biased = 0 /\ group_scores = 0
  /\ gsel = [l \in Lane |-> <<>>] /\ routed = [l \in Lane |-> <<>>]
  /\ topk_ids = <<>> /\ topk_weights = <<>> /\ stage = "idle"
NoBeams ==
  /\ block_table = <<>> /\ seq_lens = 0 /\ parents = 0 /\ key_cache = 0 /\ zeroed = 0
  /\ scattered = 0 /\ pairs = 0 /\ cloned = 0 /\ key_out = 0 /\ copied = 0 /\ gathered = 0
  /\ remapped = 0 /\ logits = 0 /\ cum = 0 /\ mine = 0 /\ used = 0 /\ cand_score = 0
  /\ cand_token = 0 /\ chosen = 0 /\ next_token = <<>> /\ parent_beam = 0 /\ new_cum = 0

Init ==
  \/ selecting = "experts" /\ RouteInit /\ NoBeams
  \/ selecting = "beams" /\ StepInit /\ NoRoute

Next ==
  \/ selecting = "experts" /\ RouteNext /\ UNCHANGED <<selecting, stepVars>>
  \/ selecting = "beams" /\ StepNext /\ UNCHANGED <<selecting, routeVars>>

vars == <<selecting, routeVars, stepVars>>
Spec == Init /\ [][Next]_vars
=============================================================================
