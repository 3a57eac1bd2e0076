------------------------------ MODULE MoeRoute ------------------------------
(***************************************************************************)
(* The MoE router, moe_route_grouped, for one token: a simdgroup scores    *)
(* the experts, ranks groups of them by the sum of their best two biased   *)
(* scores, keeps the best groups, and chooses K experts among those.  The  *)
(* weights come from the scores without the bias.                          *)
(*                                                                         *)
(* moe_route_topk is the case of a single group and no bias.  Tokens share *)
(* nothing: each reads its own row of logits and writes its own K outputs. *)
(* The scoring function is abstracted to its value, a number.              *)
(***************************************************************************)
EXTENDS TopK, FiniteSets, FiniteSetsExt

CONSTANTS
  E,        \* number of experts
  Score,    \* scores an expert may get
  Bias,     \* selection biases
  Ks        \* how many experts the caller may ask for

RouteAssumption ==
  /\ E \in Nat \ {0}
  /\ Score \subseteq Nat /\ Bias \subseteq Int
  /\ \A s, t \in Score, a, b \in Bias : s + a > NegInf /\ s + a + t + b > NegInf
  /\ Ks \subseteq 1 .. E

Expert == 0 .. E-1

VARIABLES
  n_group, topk_group, K,  \* arguments
  scored,        \* threadgroup memory: the score of each expert
  biased,        \* threadgroup memory: the score plus the selection bias
  group_scores,  \* threadgroup memory: the rank value of each group
  gsel,          \* registers of each lane: the groups chosen
  routed,        \* registers of each lane: the experts chosen
  topk_ids,      \* output
  topk_weights,  \* output: <<numerator, denominator>> of each weight
  stage

args == <<n_group, topk_group, K, scored, biased>>
routeVars == <<args, group_scores, gsel, routed, topk_ids, topk_weights, stage>>

(***************************************************************************)
(* The arguments the host lets through, on any scores and biases.          *)
(***************************************************************************)
RouteInit ==
  /\ n_group \in {n \in 1 .. E : E % n = 0}
  /\ topk_group \in 1 .. n_group
  /\ K \in Ks
  /\ scored \in [Expert -> Score]
  /\ \E b \in [Expert -> Bias] : biased = [e \in Expert |-> scored[e] + b[e]]
  /\ group_scores = [g \in 0 .. n_group-1 |-> NegInf]
  /\ gsel = [l \in Lane |-> <<>>]
  /\ routed = [l \in Lane |-> <<>>]
  /\ topk_ids = <<>>
  /\ topk_weights = <<>>
  /\ stage = "rank"

epg     == E \div n_group
Grouped == n_group > 1 /\ topk_group < n_group

\* Faulty variant: the second best is the one the best displaced, only.
TopTwoDisplaced(g) ==
  LET top[j \in 0 .. epg] ==
        IF j = 0 THEN <<NegInf, NegInf>>
        ELSE LET v == biased[g*epg + j-1]
                 b == top[j-1]
             IN  IF v > b[1] THEN <<v, b[1]>> ELSE b
  IN  top[epg]

(***************************************************************************)
(* The running best two of a group, in one pass.                           *)
(***************************************************************************)
TopTwo(g) ==
  LET top[j \in 0 .. epg] ==
        IF j = 0 THEN <<NegInf, NegInf>>
        ELSE LET v == biased[g*epg + j-1]
                 b == top[j-1]
             IN  IF v > b[1] THEN <<v, b[1]>>
                 ELSE IF v > b[2] THEN <<b[1], v>> ELSE b
  IN  top[epg]

RankGroups ==
  /\ stage = "rank"
  /\ IF Grouped
     THEN /\ group_scores' = [g \in 0 .. n_group-1 |->
               TopTwo(g)[1] + IF epg > 1 THEN TopTwo(g)[2] ELSE 0]
          /\ stage' = "groups"
     ELSE UNCHANGED group_scores /\ stage' = "experts"
  /\ UNCHANGED <<args, gsel, routed, topk_ids, topk_weights>>

SelectGroup ==
  /\ stage = "groups"
  /\ gsel' = Round([g \in 0 .. n_group-1 |->
                      [id |-> g, v |-> group_scores[g], valid |-> TRUE]],
                   n_group, gsel)
  /\ stage' = IF Len(gsel'[0]) = topk_group THEN "experts" ELSE stage
  /\ UNCHANGED <<args, group_scores, routed, topk_ids, topk_weights>>

(***************************************************************************)
(* sel_mask: the groups that survive.  Lane 0's stand for every lane's, as *)
(* RoutesBest says.                                                        *)
(***************************************************************************)
Surviving(g) == Grouped => g \in IdsOf(gsel[0])

SelectExpert ==
  /\ stage = "experts"
  /\ routed' = Round([e \in Expert |->
                        [id |-> e, v |-> biased[e], valid |-> Surviving(e \div epg)]],
                     E, routed)
  /\ stage' = IF Len(routed'[0]) = K THEN "emit" ELSE stage
  /\ UNCHANGED <<args, group_scores, gsel, topk_ids, topk_weights>>

(***************************************************************************)
(* Lane 0 writes the ids and the weights, as fractions.  The argument      *)
(* renormalize is read here only; routed_scaling_factor is left out.       *)
(***************************************************************************)
EmitExperts ==
  /\ stage = "emit"
  /\ \E renormalize \in BOOLEAN :
     LET ids  == [k \in 1 .. K |-> routed[0][k].id]
         w(k) == IF ids[k] >= 0 THEN scored[ids[k]] ELSE 0
         wsum == MapThenSumSet(w, 1 .. K)
         den  == IF renormalize /\ wsum > 0 THEN wsum ELSE 1
     IN  /\ topk_ids' = ids
         /\ topk_weights' = [k \in 1 .. K |-> <<w(k), den>>]
  /\ stage' = "done"
  /\ UNCHANGED <<args, group_scores, gsel, routed>>

RouteNext == RankGroups \/ SelectGroup \/ SelectExpert \/ EmitExperts

RouteSpec == RouteInit /\ [][RouteNext]_routeVars
-----------------------------------------------------------------------------
(***************************************************************************)
(* What the router promises, without rounds, lanes or running maxima: x    *)
(* beats y in v if it is higher, or as high with a smaller index.  A group *)
(* is worth its best pair of experts and survives if fewer than topk_group *)
(* groups beat it.  The k-th id is the survivor that k-1 survivors beat:   *)
(* K distinct experts, which moe_permute relies on, if that many survive.  *)
(* Every lane holds the same choices after every round, so that the masks  *)
(* of the next are consistent and lane 0 may write for all.                *)
(***************************************************************************)
Beats(v, x, y) == v[x] > v[y] \/ (v[x] = v[y] /\ x < y)

Members(g) == g*epg .. g*epg + epg-1

Worth == [g \in 0 .. n_group-1 |->
  IF epg = 1 THEN biased[g]
  ELSE Max({biased[p[1]] + biased[p[2]] :
              p \in {q \in Members(g) \X Members(g) : q[1] # q[2]}})]

Eligible ==
  {e \in Expert : Grouped =>
     Cardinality({h \in 0 .. n_group-1 : Beats(Worth, h, e \div epg)}) < topk_group}

RoutesBest ==
  /\ \A l \in Lane : gsel[l] = gsel[0] /\ routed[l] = routed[0]
  /\ stage = "done" =>
       \A k \in 1 .. K :
         IF k <= Cardinality(Eligible)
         THEN /\ topk_ids[k] \in Eligible
              /\ Cardinality({e \in Eligible : Beats(biased, e, topk_ids[k])}) = k-1
              /\ topk_weights[k][1] = scored[topk_ids[k]]
         ELSE topk_ids[k] = NoId /\ topk_weights[k][1] = 0

(***************************************************************************)
(* The contract as the comment on the kernel states it, "identical to      *)
(* moe_route_topk -> drops into moe_permute/moe_mlp unchanged": whatever   *)
(* arguments the host accepts, every id is an expert.                      *)
(***************************************************************************)
OutputContract == \A k \in DOMAIN topk_ids : topk_ids[k] \in Expert
=============================================================================
