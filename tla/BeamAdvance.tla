----------------------------- MODULE BeamAdvance -----------------------------
(***************************************************************************)
(* One step of beam search, beam_advance, for one batch entry.  Two        *)
(* dispatches: beam_topk_partials, a simdgroup per beam, lists the beam's  *)
(* best continuations; beam_select, one simdgroup, chooses BM of them all. *)
(*                                                                         *)
(* Each lane keeps the best Slots tokens of its slice of the vocabulary in *)
(* registers, in no order, and replaces the weakest.  That the best Slots  *)
(* of the row are among those of the lanes is what lets one pass do.       *)
(*                                                                         *)
(* The log-sum-exp of a row lowers all of its scores alike, and is counted *)
(* as part of the beam's cumulative score.                                 *)
(***************************************************************************)
EXTENDS Beams, TopK, FiniteSets

CONSTANTS
  V,        \* vocabulary size
  Slots,    \* continuations kept of each beam (2 * BM in the code)
  Logits,   \* functions from beams and tokens to logits
  Cums      \* functions from beams to cumulative scores

MinusInf == 2 * NegInf
Token    == 0 .. V-1

\* The host requires V >= 2 * BM.  A beam that is alive has finite scores.
BeamAssumption ==
  /\ V \in Nat /\ Slots \in Nat
  /\ BM <= Slots /\ Slots <= V
  /\ \A x \in Logits : \A b \in Beam, t \in Token : x[b][t] \in Int /\ x[b][t] > NegInf
  /\ \A c \in Cums : \E b \in Beam : c[b] # MinusInf
  /\ \A c \in Cums, x \in Logits : \A b \in Beam : c[b] # MinusInf =>
       c[b] \in Int /\ \A t \in Token : c[b] + x[b][t] > NegInf

VARIABLES
  logits, cum,              \* inputs
  mine, used,               \* what each lane keeps of its beam's row, <<>>
                            \* before, and the slots it has cleared since
  cand_score, cand_token,   \* the candidates emitted for each beam
  chosen,                   \* registers of beam_select's lanes
  next_token, parent_beam, new_cum   \* outputs, <<>> before

advanceVars == <<logits, cum, mine, used, cand_score, cand_token, chosen,
                 next_token, parent_beam, new_cum>>

AdvanceInit ==
  /\ logits \in Logits /\ cum \in Cums
  /\ mine = [b \in Beam |-> <<>>]
  /\ used = [b \in Beam |-> [l \in Lane |-> {}]]
  /\ cand_score = [b \in Beam |-> <<>>]
  /\ cand_token = [b \in Beam |-> <<>>]
  /\ chosen = [l \in Lane |-> <<>>]
  /\ next_token = <<>> /\ parent_beam = <<>> /\ new_cum = <<>>

Plus(c, x) == IF c = MinusInf THEN MinusInf ELSE c + x

(***************************************************************************)
(* minp: the first of the weakest slots, recomputed after each change.     *)
(***************************************************************************)
Weakest(kept) ==
  CHOOSE p \in DOMAIN kept : \A q \in DOMAIN kept :
    kept[p].v < kept[q].v \/ (kept[p].v = kept[q].v /\ p <= q)

(***************************************************************************)
(* What lane l has kept of its slice of a row of logits.                   *)
(***************************************************************************)
Kept(row, l) ==
  LET after[i \in 0 .. V] ==
        IF i = 0 THEN [j \in 1 .. Slots |-> [v |-> NegInf, id |-> NoId]]
        ELSE LET kept == after[i-1]
                 p    == Weakest(kept)
             IN  IF (i-1) % W = l /\ row[i-1] > kept[p].v
                 THEN [kept EXCEPT ![p] = [v |-> row[i-1], id |-> i-1]] ELSE kept
  IN  after[V]

ScanRow(b) ==
  /\ mine[b] = <<>>
  /\ mine' = [mine EXCEPT ![b] = [l \in Lane |-> Kept(logits[b], l)]]
  /\ UNCHANGED <<logits, cum, used, cand_score, cand_token, chosen,
                 next_token, parent_beam, new_cum>>

(***************************************************************************)
(* A round of the merge of the lists of the lanes: lane 0 emits a winner.  *)
(***************************************************************************)
MergeRound(b) ==
  /\ mine[b] # <<>>
  /\ Len(cand_token[b]) < Slots
  /\ \E r \in {LocalRound(mine[b], used[b])} :
       /\ used' = [used EXCEPT ![b] = r.used]
       /\ cand_token' = [cand_token EXCEPT ![b] = Append(@, r.win[0].id)]
       /\ cand_score' = [cand_score EXCEPT ![b] = Append(@, Plus(cum[b], r.win[0].v))]
  /\ UNCHANGED <<logits, cum, mine, chosen, next_token, parent_beam, new_cum>>

Listed == \A b \in Beam : Len(cand_token[b]) = Slots

(***************************************************************************)
(* A round of beam_select.  Candidate c is entry c % Slots of beam         *)
(* c / Slots.                                                              *)
(***************************************************************************)
Choose ==
  /\ Listed
  /\ Len(chosen[0]) < BM
  /\ chosen' = Round([c \in 0 .. BM*Slots-1 |->
                        [id |-> c, valid |-> TRUE,
                         v  |-> cand_score[c \div Slots][(c % Slots) + 1]]],
                     BM*Slots, chosen)
  /\ UNCHANGED <<logits, cum, mine, used, cand_score, cand_token,
                 next_token, parent_beam, new_cum>>

\* Faulty variant: the parent is taken modulo the candidates of a beam.
EmitModulo ==
  /\ Len(chosen[0]) = BM
  /\ next_token = <<>>
  /\ next_token' = [k \in 1 .. BM |->
       LET c == chosen[0][k].id IN cand_token[c \div Slots][(c % Slots) + 1]]
  /\ parent_beam' = [k \in 1 .. BM |-> chosen[0][k].id % Slots]
  /\ new_cum' = [k \in 1 .. BM |-> chosen[0][k].v]
  /\ UNCHANGED <<logits, cum, mine, used, cand_score, cand_token, chosen>>

Emit ==
  /\ Len(chosen[0]) = BM
  /\ next_token = <<>>
  /\ next_token' = [k \in 1 .. BM |->
       LET c == chosen[0][k].id IN cand_token[c \div Slots][(c % Slots) + 1]]
  /\ parent_beam' = [k \in 1 .. BM |-> chosen[0][k].id \div Slots]
  /\ new_cum' = [k \in 1 .. BM |-> chosen[0][k].v]
  /\ UNCHANGED <<logits, cum, mine, used, cand_score, cand_token, chosen>>

AdvanceNext == (\E b \in Beam : ScanRow(b) \/ MergeRound(b)) \/ Choose \/ Emit
-----------------------------------------------------------------------------
(***************************************************************************)
(* The step is exact: the BM continuations are distinct, ordered, each     *)
(* with its own parent and score, and no other continuation of any beam    *)
(* beats them.  A dead beam (score minus infinity) is no parent: this is   *)
(* how the first step, with one live beam, starts BM different beams.      *)
(***************************************************************************)
AdvancesBest ==
  next_token # <<>> =>
    LET pair(k) == <<parent_beam[k], next_token[k]>>
        taken   == {pair(k) : k \in 1 .. BM}
    IN  /\ Cardinality(taken) = BM
        /\ \A k \in 1 .. BM :
             /\ cum[parent_beam[k]] # MinusInf
             /\ new_cum[k] = cum[parent_beam[k]] + logits[parent_beam[k]][next_token[k]]
             /\ k > 1 => new_cum[k-1] >= new_cum[k]
        /\ \A p \in (Beam \X Token) \ taken :
             Plus(cum[p[1]], logits[p[1]][p[2]]) <= new_cum[BM]
=============================================================================
