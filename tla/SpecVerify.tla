----------------------------- MODULE SpecVerify -----------------------------
(***************************************************************************)
(* Verification of a batch of drafts without trees, by one of two paths:   *)
(*                                                                         *)
(*   "linear"  spec_verify_linear: every request has S drafts; one kernel  *)
(*             accepts, draws the recovered token and counts;              *)
(*   "ragged"  sample_recovered_tokens for every draft, then both of       *)
(*             rejection_greedy_sample and rejection_random_sample with    *)
(*             one is_greedy mask; request b has the drafts cu[b] ..       *)
(*             cu[b+1]-1.                                                  *)
(*                                                                         *)
(* Then, for the linear path, spec_compact packs the emitted tokens.       *)
(*                                                                         *)
(* A thread or simdgroup of a verifier reads only inputs and writes only   *)
(* its request's row, so that verifying one request is one step.  The      *)
(* threads of spec_compact share the packed buffers and interleave.        *)
(*                                                                         *)
(* A probability is a number of grains out of Unit.  A uniform coin is one *)
(* of the midpoints (2k+1)/(2*Coins), written 2k+1.  Noise, Gumbel or      *)
(* exponential, is a positive factor for each token.                       *)
(***************************************************************************)
EXTENDS Integers, FiniteSets, Functions

CONSTANTS
  V,         \* vocabulary size
  Unit,      \* grains of probability
  Coins,     \* coins
  Noises,    \* noise of a request, a set of [DraftToken -> factor]
  NThreads,  \* threads of spec_compact (a multiple of 32 in the code)
  Batches    \* [kind, S, num_draft, pairs, bonus, seq_lens]

DraftToken  == 0 .. V-1
Coin        == {2*k + 1 : k \in 0 .. Coins-1}
Thread      == 0 .. NThreads-1
Placeholder == -1   \* SPEC_PLACEHOLDER

\* A batch has requests 0 .. B-1, drafts of them all when it is linear, and
\* pairs of a draft's and the target's distribution to choose from.
BatchAssumption ==
  /\ {V, Unit, Coins, NThreads} \subseteq Nat \ {0}
  /\ Noises \subseteq [DraftToken -> Nat \ {0}]
  /\ \A x \in Batches :
       /\ x.kind \in {"linear", "ragged"} /\ x.S \in Nat
       /\ IsFiniteSet(DOMAIN x.num_draft)
       /\ DOMAIN x.num_draft = 0 .. Cardinality(DOMAIN x.num_draft)-1
       /\ \A b \in DOMAIN x.num_draft :
            x.num_draft[b] \in (IF x.kind = "linear" THEN {x.S} ELSE 0 .. x.S)
       /\ \A p \in x.pairs : \A f \in {p.q, p.t} :
            f \in [DraftToken -> 0 .. Unit] /\ SumFunctionOnSet(f, DraftToken) = Unit
       /\ x.bonus \in DraftToken /\ x.seq_lens \in [DOMAIN x.num_draft -> Nat \ {0}]

\* The coins are as fine as any probability: the share of them that accepts
\* a token is the share of uniform numbers that does.
CoinsAssumption == \A q \in 1 .. Unit : Coins % q = 0

VARIABLES
  batch,                       \* the shapes
  cu,                          \* cu_num_draft_tokens
  draft,                       \* of each draft: its token, q and t; <<>> once read
  no_draft_probs, is_greedy,   \* of the ragged path
  recovered,                   \* recovered token of each draft
  rows,                        \* out of each kernel, a row <<>> until written
  accepted_cnt,                \* output of the linear path
  draft_out,                   \* the rows the caller goes on with
  packed_tokens, packed_pos, cu_accepted,
  compact_pc,                  \* of the threads of spec_compact
  stage

given      == <<batch, cu, no_draft_probs, is_greedy>>
packing    == <<packed_tokens, packed_pos, cu_accepted, compact_pc>>
verifyVars == <<given, draft, recovered, rows, accepted_cnt, draft_out, packing, stage>>

B        == Cardinality(DOMAIN batch.num_draft)
S        == batch.S
Req      == 0 .. B-1
Kernels  == IF batch.kind = "linear" THEN {"linear"} ELSE {"greedy", "random"}
nd(b)    == cu[b+1] - cu[b]
NDrafts  == cu[B]
DraftGarbage == -7

VerifyInit ==
  /\ batch \in Batches
  /\ cu = [b \in 0 .. B |-> SumFunctionOnSet(batch.num_draft, 0 .. b-1)]
  /\ draft \in [0 .. NDrafts-1 -> {[d |-> v, q |-> p.q, t |-> p.t] : v \in DraftToken, p \in batch.pairs}]
  /\ no_draft_probs \in BOOLEAN /\ (batch.kind = "linear" => ~no_draft_probs)
  /\ is_greedy \in (IF batch.kind = "linear" THEN {[b \in Req |-> FALSE]} ELSE [Req -> BOOLEAN])
  /\ recovered = <<>> /\ draft_out = <<>>
  /\ rows = [k \in {"linear", "greedy", "random"} |-> [b \in Req |-> <<>>]]
  /\ accepted_cnt = [b \in Req |-> DraftGarbage]
  /\ packed_tokens = [i \in 0 .. B*(S+1)-1 |-> DraftGarbage]
  /\ packed_pos = [i \in 0 .. B*(S+1)-1 |-> DraftGarbage]
  /\ cu_accepted = [b \in 0 .. B |-> DraftGarbage]
  /\ compact_pc = [i \in Thread |-> "emit"]
  /\ stage = IF batch.kind = "linear" THEN "verify" ELSE "recover"

\* The smaller of the tokens of greatest weight.
Best(w) ==
  LET best == {v \in DraftToken : \A o \in DraftToken : w[o] <= w[v]}
  IN  CHOOSE v \in best : \A o \in best : v <= o

\* Faulty variant: what the draft model already proposed is not taken off.
ResidualOfTarget(x) == x.t

\* What is left of the target once draft x is rejected.
Residual(x) ==
  [v \in DraftToken |->
     IF no_draft_probs THEN (IF v = x.d THEN 0 ELSE x.t[v])
     ELSE IF x.t[v] > x.q[v] THEN x.t[v] - x.q[v] ELSE 0]

Draw(x, noise) == LET r == Residual(x) IN Best([v \in DraftToken |-> r[v] * noise[v]])

\* The request of a draft, by the kernel's binary search over cu.
Owner(token) ==
  LET find[r \in (0 .. B) \X (0 .. B)] ==
        LET lo == r[1]  hi == r[2]  mid == (lo + hi + 1) \div 2
        IN  IF lo >= hi THEN lo
            ELSE IF cu[mid] <= token THEN find[<<mid, hi>>] ELSE find[<<lo, mid-1>>]
  IN  find[<<0, B>>]

\* sample_recovered_tokens, with the noise of each draft's own request.
Recover ==
  /\ stage = "recover"
  /\ \E inv_q \in [Req -> Noises] :
       recovered' = [i \in 0 .. NDrafts-1 |-> Draw(draft[i], inv_q[Owner(i)])]
  /\ stage' = "verify"
  /\ UNCHANGED <<given, draft, rows, accepted_cnt, draft_out, packing>>

\* u*q <= t, in the code's two forms: they part where q is zero.
AcceptsLinear(x, u) == x.q[x.d] = 0 \/ u * x.q[x.d] <= 2*Coins * x.t[x.d]
AcceptsRandom(x, u) ==
  LET q == IF no_draft_probs THEN Unit ELSE x.q[x.d]
  IN  q > 0 /\ 2*Coins * x.t[x.d] >= u * q

\* The first draft of b that is not among the accepted, nd(b) if there is none.
RejectedAt(b, accepted) ==
  CHOOSE r \in 0 .. nd(b) : r \notin accepted /\ 0 .. r-1 \subseteq accepted

DraftOf(b, i) == draft[cu[b] + i]

\* r accepted drafts, the token that follows them, placeholders.
EmittedRow(b, r, token) ==
  [i \in 0 .. S |-> IF i < r THEN DraftOf(b, i).d ELSE IF i = r THEN token ELSE Placeholder]

Blank == [i \in 0 .. S |-> Placeholder]

WriteRow(k, b, row) ==
  /\ rows' = [rows EXCEPT ![k][b] = row]
  /\ UNCHANGED <<given, draft, recovered, draft_out, packing, stage>>

Verifying(k, b) == stage = "verify" /\ k \in Kernels /\ rows[k][b] = <<>>

VerifyLinear(b) ==
  /\ Verifying("linear", b)
  /\ \E u \in [0 .. S-1 -> Coin], noise \in Noises :
       LET r == RejectedAt(b, {i \in 0 .. S-1 : AcceptsLinear(DraftOf(b, i), u[i])})
       IN  /\ accepted_cnt' = [accepted_cnt EXCEPT ![b] = r]
           /\ WriteRow("linear", b,
                EmittedRow(b, r, IF r = S THEN batch.bonus ELSE Draw(DraftOf(b, r), noise)))

\* Faulty variant: the sampler takes every request.
TakesAll(k, b) == TRUE

\* The gate of a ragged sampler: it leaves the other kind's rows blank.
Takes(k, b) == is_greedy[b] = (k = "greedy")

\* target_argmax is the caller's argmax of the target's distribution.
SampleGreedy(b) ==
  LET r == RejectedAt(b, {i \in 0 .. nd(b)-1 : DraftOf(b, i).d = Best(DraftOf(b, i).t)})
  IN  /\ Verifying("greedy", b)
      /\ WriteRow("greedy", b,
           IF Takes("greedy", b)
           THEN EmittedRow(b, r, IF r = nd(b) THEN batch.bonus ELSE Best(DraftOf(b, r).t))
           ELSE Blank)
      /\ UNCHANGED accepted_cnt

SampleRandom(b) ==
  /\ Verifying("random", b)
  /\ \E u \in [0 .. nd(b)-1 -> Coin] :
       LET r == RejectedAt(b, {i \in 0 .. nd(b)-1 : AcceptsRandom(DraftOf(b, i), u[i])})
       IN  WriteRow("random", b,
             IF Takes("random", b)
             THEN EmittedRow(b, r, IF r = nd(b) THEN batch.bonus ELSE recovered[cu[b] + r])
             ELSE Blank)
  /\ UNCHANGED accepted_cnt

Verified == \A k \in Kernels, b \in Req : rows[k][b] # <<>>

(***************************************************************************)
(* The caller takes the rows of the kernel it launched or, of two, the     *)
(* greater entries: a placeholder is less than any token.  The inputs are  *)
(* read no more.                                                           *)
(***************************************************************************)
Collect ==
  LET greatest(A) == CHOOSE x \in A : \A y \in A : y <= x
  IN  /\ stage = "verify" /\ Verified
      /\ draft_out' = [b \in Req |-> [i \in 0 .. S |-> greatest({rows[k][b][i] : k \in Kernels})]]
      /\ draft' = <<>> /\ recovered' = <<>>
      /\ rows' = [k \in DOMAIN rows |-> <<>>]
      /\ stage' = IF batch.kind = "linear" THEN "compact" ELSE "prepare"
      /\ UNCHANGED <<given, accepted_cnt, packing>>

-----------------------------------------------------------------------------
\* spec_compact: one threadgroup, whose threads take contiguous chunks.
RequestChunk(th) ==
  LET chunk == (B + NThreads-1) \div NThreads
  IN  {b \in Req : th*chunk <= b /\ b < th*chunk + chunk}

vlen       == [b \in Req |-> accepted_cnt[b] + 1]
Emitted    == SumFunctionOnSet(vlen, Req)
ChunkSums  == [o \in Thread |-> SumFunctionOnSet(vlen, RequestChunk(o))]
Base(th)   == SumFunctionOnSet(ChunkSums, 0 .. th-1)
Run(th, b) == Base(th) + SumFunctionOnSet(vlen, {c \in RequestChunk(th) : c < b})

Advance(th, at, next) == compact_pc[th] = at /\ compact_pc' = [compact_pc EXCEPT ![th] = next]

\* After the scan, a thread writes the tokens of its chunk ...
EmitChunk(th) ==
  LET cells == UNION {{<<b, j>> : j \in 0 .. vlen[b]-1} : b \in RequestChunk(th)}
      at(i) == {c \in cells : Run(th, c[1]) + c[2] = i}
      of(i) == CHOOSE c \in at(i) : TRUE
  IN  /\ stage = "compact" /\ Advance(th, "emit", "fill")
      /\ packed_tokens' = [i \in DOMAIN packed_tokens |->
                             IF at(i) = {} THEN packed_tokens[i] ELSE draft_out[of(i)[1]][of(i)[2]]]
      /\ packed_pos' = [i \in DOMAIN packed_pos |->
                          IF at(i) = {} THEN packed_pos[i] ELSE batch.seq_lens[of(i)[1]] + of(i)[2]]
      /\ cu_accepted' = [b \in 0 .. B |-> IF b \in RequestChunk(th) THEN Run(th, b)
                                          ELSE IF b = B /\ th = 0 THEN Emitted ELSE cu_accepted[b]]
      /\ UNCHANGED <<given, draft, recovered, rows, accepted_cnt, draft_out, stage>>

\* Faulty variant: the tail starts at the thread's own tokens' end.
TailOfThread(th, i) == i % NThreads = th /\ i >= Base(th) + ChunkSums[th]

\* The entries of the unused tail that thread th fills.
InTail(th, i) == i % NThreads = th /\ i >= Emitted

\* ... and then its share of the tail.
FillUnused(th) ==
  /\ stage = "compact" /\ Advance(th, "fill", "done")
  /\ packed_tokens' = [i \in DOMAIN packed_tokens |-> IF InTail(th, i) THEN -1 ELSE packed_tokens[i]]
  /\ packed_pos' = [i \in DOMAIN packed_pos |-> IF InTail(th, i) THEN -1 ELSE packed_pos[i]]
  /\ UNCHANGED <<given, draft, recovered, rows, accepted_cnt, draft_out, cu_accepted, stage>>

CompactDone ==
  /\ stage = "compact" /\ \A th \in Thread : compact_pc[th] = "done"
  /\ stage' = "prepare"
  /\ UNCHANGED <<given, draft, recovered, rows, accepted_cnt, draft_out, packing>>

VerifyNext ==
  \/ Recover
  \/ \E b \in Req : VerifyLinear(b) \/ SampleGreedy(b) \/ SampleRandom(b)
  \/ Collect
  \/ \E th \in Thread : EmitChunk(th) \/ FillUnused(th)
  \/ CompactDone

-----------------------------------------------------------------------------
\* The number of tokens of a row.
Length(row) == Cardinality({i \in 0 .. S : row[i] # Placeholder})

\* The proposal that x was drawn from: without draft probabilities, x itself.
Proposal(x) == IF no_draft_probs THEN [v \in DraftToken |-> IF v = x.d THEN Unit ELSE 0] ELSE x.q

(***************************************************************************)
(* Each row is written by one sampler alone, whatever the mask.  It is a   *)
(* prefix of the request's own drafts, one token more, and placeholders;   *)
(* the linear verifier counts the prefix.  A greedy row is what decoding   *)
(* with the target alone would emit.                                       *)
(***************************************************************************)
AcceptedThenOne ==
  stage = "verify" =>
    \A b \in Req :
      LET written == {k \in Kernels : rows[k][b] \notin {<<>>, Blank}}
      IN  /\ Cardinality(written) <= 1
          /\ (\A k \in Kernels : rows[k][b] # <<>>) => written # {}
          /\ \A k \in written :
               LET n == Length(rows[k][b]) - 1
               IN  /\ n \in 0 .. nd(b)
                   /\ rows[k][b][n] \in DraftToken
                   /\ \A i \in 0 .. n-1 : rows[k][b][i] = DraftOf(b, i).d
                   /\ n = nd(b) => rows[k][b][n] = batch.bonus
                   /\ k = "linear" => accepted_cnt[b] = n
                   /\ k = "greedy" => \A i \in 0 .. n : i < nd(b) => rows[k][b][i] = Best(DraftOf(b, i).t)

(***************************************************************************)
(* The tokens follow the target, not the draft.  Of all coins, the grains  *)
(* with which a token is accepted and those with which it is drawn after a *)
(* rejection add up to the target's; and a token emitted for a draft that  *)
(* its model could propose is one the target can emit.  A draft is         *)
(* recovered with the noise of the request that reads it: the search for   *)
(* its owner agrees with the spans of cu, also beside empty ones.          *)
(***************************************************************************)
FollowsTarget ==
  stage = "verify" =>
    /\ \A b \in Req : \A i \in cu[b] .. cu[b+1]-1 : Owner(i) = b
    /\ \A i \in DOMAIN draft, v \in DraftToken :
         LET x == draft[i]
             y == [x EXCEPT !.d = v]
             accepting == {u \in Coin : IF batch.kind = "linear" THEN AcceptsLinear(y, u) ELSE AcceptsRandom(y, u)}
         IN  Proposal(x)[v] * Cardinality(accepting) + Coins * Residual(x)[v] = Coins * x.t[v]
    /\ \A k \in Kernels \ {"greedy"}, b \in Req :
         rows[k][b] # <<>> =>
           \A i \in 0 .. nd(b)-1 :
             rows[k][b][i] # Placeholder /\ Proposal(DraftOf(b, i))[DraftOf(b, i).d] > 0
               => DraftOf(b, i).t[rows[k][b][i]] > 0

(***************************************************************************)
(* Once spec_compact is done, the buffer read from the front is the        *)
(* emitted tokens of request 0, of request 1 and so on, each at the next   *)
(* position of its sequence, whichever thread wrote last; the rest is -1.  *)
(***************************************************************************)
PackedInOrder ==
  stage = "prepare" /\ batch.kind = "linear" =>
    /\ cu_accepted[0] = 0
    /\ \A b \in Req :
         /\ cu_accepted[b+1] - cu_accepted[b] = Length(draft_out[b])
         /\ \A j \in 0 .. Length(draft_out[b])-1 :
              /\ packed_tokens[cu_accepted[b] + j] = draft_out[b][j]
              /\ packed_pos[cu_accepted[b] + j] = batch.seq_lens[b] + j
    /\ \A i \in DOMAIN packed_tokens : (packed_tokens[i] = -1) = (i >= cu_accepted[B])
=============================================================================
