------------------------- MODULE SpeculativeProofs --------------------------
(***************************************************************************)
(* Proofs about speculative decoding.                                      *)
(*                                                                         *)
(* SpecVerify and DraftPrep, for every batch, number of drafts and of      *)
(* threads, and every order of the threadgroups: a row of accepted tokens  *)
(* is a prefix of the drafts and one token more, each of the distribution  *)
(* of the target; compaction packs the rows in order, and the next step's  *)
(* drafts start from what was accepted, in slots of their own.             *)
(*                                                                         *)
(* SpecTree, for every draft tree and target: the pointers are the host's, *)
(* and the walk down the tree follows the target.                          *)
(***************************************************************************)
EXTENDS SpecTree, DraftPrep, Facts, TLAPS

-----------------------------------------------------------------------------
GivenInv ==
  /\ batch \in Batches
  /\ cu = [b \in 0 .. B |-> SumFunctionOnSet(batch.num_draft, 0 .. b-1)]
  /\ is_greedy \in [Req -> BOOLEAN]
  /\ batch.kind = "linear" => ~no_draft_probs

LEMMA BatchIs ==
  ASSUME BatchAssumption, GivenInv
  PROVE  /\ B \in Nat /\ S \in Nat /\ Req = DOMAIN batch.num_draft
         /\ batch.kind \in {"linear", "ragged"} /\ batch.bonus \in DraftToken
         /\ cu \in [0 .. B -> Nat] /\ cu[0] = 0 /\ NDrafts \in Nat
         /\ \A b \in Req : /\ b \in 0 .. B /\ b+1 \in 0 .. B
                           /\ nd(b) = batch.num_draft[b] /\ nd(b) \in 0 .. S
                           /\ cu[b+1] = cu[b] + nd(b)
                           /\ batch.kind = "linear" => nd(b) = S
                           /\ batch.seq_lens[b] \in Nat \ {0}
         /\ \A a \in 0 .. B : \A c \in a .. B : cu[a] <= cu[c]
         /\ \A b \in Req : \A i \in 0 .. nd(b)-1 : cu[b] + i \in 0 .. NDrafts-1
<1> DEFINE num == batch.num_draft
<1>1. /\ batch \in Batches
      /\ IsFiniteSet(DOMAIN num) /\ DOMAIN num = 0 .. Cardinality(DOMAIN num)-1
      /\ \A b \in DOMAIN num : num[b] \in (IF batch.kind = "linear" THEN {batch.S} ELSE 0 .. batch.S)
      /\ batch.S \in Nat /\ batch.kind \in {"linear", "ragged"} /\ batch.bonus \in DraftToken
      /\ batch.seq_lens \in [DOMAIN num -> Nat \ {0}]
  BY DEF GivenInv, BatchAssumption
<1>2. B \in Nat /\ S \in Nat /\ Req = DOMAIN num
  <2>1. Cardinality(DOMAIN num) \in Nat
    BY <1>1, FS_CardinalityType
  <2> QED  BY <1>1, <2>1 DEF B, S, Req
<1>3. /\ \A b \in 0 .. B-1 : num[b] \in Nat /\ num[b] <= S
      /\ batch.kind = "linear" => \A b \in 0 .. B-1 : num[b] = S
  BY <1>1, <1>2 DEF Req, S
<1>4. cu = [b \in 0 .. B |-> SumFunctionOnSet(num, 0 .. b-1)]
  BY DEF GivenInv
<1> HIDE DEF num
<1>5. /\ \A a \in 0 .. B : SumFunctionOnSet(num, 0 .. a-1) \in Nat
      /\ \A a \in 0 .. B : \A c \in a .. B :
              /\ SumFunctionOnSet(num, a .. c-1) \in Nat
              /\ SumFunctionOnSet(num, 0 .. c-1)
                   = SumFunctionOnSet(num, 0 .. a-1) + SumFunctionOnSet(num, a .. c-1)
      /\ \A c \in 0 .. B-1 :
              SumFunctionOnSet(num, 0 .. c) = SumFunctionOnSet(num, 0 .. c-1) + num[c]
  <2>1. \A b \in 0 .. B-1 : num[b] \in Nat
    BY <1>3
  <2>2. B \in Nat
    BY <1>2
  <2> QED  BY ONLY <2>1, <2>2, SpanSum
<1>6. cu \in [0 .. B -> Nat] /\ cu[0] = 0
  <2>1. 0 .. 0-1 = {} /\ 0 \in 0 .. B
    BY <1>2
  <2>2. cu[0] = SumFunctionOnSet(num, {})
    BY <2>1, <1>4
  <2> QED  BY <2>2, <1>4, <1>5, SumEmpty
<1>7. \A a \in 0 .. B : \A c \in a .. B : cu[a] <= cu[c]
  <2>1. ASSUME NEW a \in 0 .. B, NEW c \in a .. B PROVE cu[a] <= cu[c]
    <3>1. c \in 0 .. B
      BY <1>2
    <3>2. cu[a] = SumFunctionOnSet(num, 0 .. a-1) /\ cu[c] = SumFunctionOnSet(num, 0 .. c-1)
      BY <3>1, <1>4
    <3> QED  BY <3>2, <1>5
  <2> QED  BY <2>1
<1>8. ASSUME NEW b \in Req
      PROVE  /\ b \in 0 .. B /\ b+1 \in 0 .. B /\ nd(b) = num[b] /\ nd(b) \in 0 .. S
             /\ cu[b+1] = cu[b] + nd(b) /\ (batch.kind = "linear" => nd(b) = S)
             /\ batch.seq_lens[b] \in Nat \ {0}
  <2>1. b \in 0 .. B-1 /\ b \in 0 .. B /\ b+1 \in 0 .. B /\ b+1-1 = b
    BY <1>2 DEF Req
  <2>2. cu[b] = SumFunctionOnSet(num, 0 .. b-1) /\ cu[b+1] = SumFunctionOnSet(num, 0 .. b)
    BY <2>1, <1>4
  <2>3. cu[b+1] = cu[b] + num[b]
    BY <2>1, <2>2, <1>5
  <2>4. cu[b] \in Nat /\ num[b] \in Nat
    BY <2>1, <1>3, <1>6
  <2>5. nd(b) = num[b]
    BY <2>3, <2>4 DEF nd
  <2>6. batch.seq_lens[b] \in Nat \ {0}
    BY <1>1, <1>2
  <2> QED  BY <2>1, <2>3, <2>4, <2>5, <2>6, <1>2, <1>3
<1>9. NDrafts \in Nat
  <2>1. B \in 0 .. B
    BY <1>2
  <2> QED  BY <2>1, <1>6 DEF NDrafts
<1>10. ASSUME NEW b \in Req, NEW i \in 0 .. nd(b)-1 PROVE cu[b] + i \in 0 .. NDrafts-1
  <2>1. B \in b+1 .. B /\ b \in 0 .. B /\ b+1 \in 0 .. B
    BY <1>2, <1>8 DEF Req
  <2>2. cu[b+1] <= cu[B] /\ cu[b] \in Nat /\ cu[b+1] \in Nat
    BY <2>1, <1>6, <1>7
  <2>3. i \in Nat /\ i < nd(b) /\ cu[b+1] = cu[b] + nd(b) /\ nd(b) \in Nat
    BY <1>2, <1>8
  <2> QED  BY <2>2, <2>3, <1>9 DEF NDrafts
<1> QED  BY <1>1, <1>2, <1>6, <1>7, <1>8, <1>9, <1>10 DEF num

\* The token of greatest weight.
LEMMA BestIs ==
  ASSUME BatchAssumption, NEW w, \A v \in DraftToken : w[v] \in Nat
  PROVE  Best(w) \in DraftToken /\ \A o \in DraftToken : w[o] <= w[Best(w)]
<1>1. V \in Nat /\ V # 0 /\ DraftToken = 0 .. V-1
  BY DEF BatchAssumption, DraftToken
<1> DEFINE best == {v \in DraftToken : \A o \in DraftToken : w[o] <= w[v]}
           Above(v) == {o \in DraftToken : w[v] <= w[o]}
           C == {Above(v) : v \in DraftToken}
<1>2. PICK m \in DraftToken : \A v \in DraftToken : Above(v) \subseteq Above(m) => Above(v) = Above(m)
  <2>1. C \subseteq SUBSET DraftToken /\ IsFiniteSet(DraftToken)
    BY <1>1, FS_Interval
  <2>2. Above(0) \in C
    BY <1>1
  <2>3. C # {}
    <3> HIDE DEF C
    <3> QED  BY <2>2
  <2>4. PICK T \in C : \A U \in C : U \subseteq T => U = T
    <3> HIDE DEF C
    <3> QED  BY <2>1, <2>3, MinimalSubset
  <2> HIDE DEF Above
  <2>5. PICK m \in DraftToken : T = Above(m)
    OBVIOUS
  <2>6. ASSUME NEW v \in DraftToken, Above(v) \subseteq Above(m) PROVE Above(v) = Above(m)
    BY <2>4, <2>5, <2>6
  <2> QED  BY <2>6
<1>3. best # {}
  <2>1. ASSUME NEW v \in DraftToken PROVE w[v] <= w[m]
    <3>1. w[v] \in Nat /\ w[m] \in Nat
      OBVIOUS
    <3>2. CASE w[m] < w[v]
      <4>1. Above(v) \subseteq Above(m) /\ m \in Above(m) /\ m \notin Above(v)
        BY <3>1, <3>2
      <4> QED  BY <4>1, <1>2
    <3> QED  BY <3>1, <3>2
  <2> QED  BY <2>1
<1>4. best \subseteq Nat
  BY <1>1
<1> HIDE DEF best
<1>5. PICK low \in best : \A k \in best : low <= k
  BY <1>3, <1>4, LeastOf
<1>6. Best(w) \in best
  BY <1>5 DEF Best, best
<1> QED  BY <1>6 DEF best

LEMMA RejectedIs ==
  ASSUME BatchAssumption, GivenInv, NEW b \in Req, NEW A, A \subseteq 0 .. nd(b)-1
  PROVE  LET r == RejectedAt(b, A) IN r \in 0 .. nd(b) /\ r \notin A /\ 0 .. r-1 \subseteq A
<1>1. nd(b) \in Nat
  BY BatchIs
<1> DEFINE L == {i \in 0 .. nd(b) : i \notin A}
<1>2. L \subseteq Nat /\ nd(b) \in L
  BY <1>1
<1>3. PICK r \in L : \A i \in L : r <= i
  <2> HIDE DEF L
  <2> QED  BY <1>2, LeastOf
<1>4. 0 .. r-1 \subseteq A
  BY <1>1, <1>3
<1>5. \E x \in 0 .. nd(b) : x \notin A /\ 0 .. x-1 \subseteq A
  BY <1>3, <1>4
<1> QED  BY <1>5 DEF RejectedAt

-----------------------------------------------------------------------------
(***************************************************************************)
(* The verifiers.  A row that is written holds accepted drafts and what    *)
(* follows them; Written says why each of its tokens is there.             *)
(***************************************************************************)
Pairs == {[d |-> v, q |-> p.q, t |-> p.t] : v \in DraftToken, p \in batch.pairs}

AcceptsSome(k, x) ==
  CASE k = "greedy" -> x.d = Best(x.t)
    [] k = "linear" -> \E u \in Coin : AcceptsLinear(x, u)
    [] OTHER        -> \E u \in Coin : AcceptsRandom(x, u)

RejectsSome(k, x) ==
  IF k = "linear" THEN \E u \in Coin : ~AcceptsLinear(x, u) ELSE \E u \in Coin : ~AcceptsRandom(x, u)

Instead(k, x, token) ==
  IF k = "greedy" THEN token = Best(x.t)
  ELSE RejectsSome(k, x) /\ \E noise \in Noises : token = Draw(x, noise)

Justified(k, b, r, token) ==
  /\ \A i \in 0 .. r-1 : AcceptsSome(k, DraftOf(b, i))
  /\ IF r = nd(b) THEN token = batch.bonus ELSE Instead(k, DraftOf(b, r), token)

Written(k, b, row) ==
  \E r \in 0 .. nd(b), token \in DraftToken :
    row = EmittedRow(b, r, token) /\ Justified(k, b, r, token) /\ (k = "linear" => accepted_cnt[b] = r)

Kernel == {"linear", "greedy", "random"}

ReadInv ==
  stage \in {"recover", "verify"} =>
    /\ draft \in [0 .. NDrafts-1 -> Pairs]
    /\ batch.kind = "ragged" /\ stage = "verify" =>
         \A i \in 0 .. NDrafts-1 : \E noise \in Noises : recovered[i] = Draw(draft[i], noise)

RowsInv ==
  stage \in {"recover", "verify"} =>
    /\ rows \in [Kernel -> [Req -> {<<>>} \cup [0 .. S -> Int]]]
    /\ \A k \in Kernels, b \in Req :
         rows[k][b] = <<>> \/ IF k = "linear" \/ Takes(k, b) THEN Written(k, b, rows[k][b])
                              ELSE rows[k][b] = Blank

LEMMA TokenIs ==
  ASSUME BatchAssumption
  PROVE  /\ DraftToken \subseteq Nat /\ IsFiniteSet(DraftToken) /\ -1 \notin DraftToken
         /\ \A noise \in Noises : noise \in [DraftToken -> Nat \ {0}]
         /\ Unit \in Nat \ {0} /\ Coins \in Nat \ {0} /\ NThreads \in Nat \ {0}
         /\ V \in Nat \ {0} /\ DraftToken = 0 .. V-1
<1>1. /\ {V, Unit, Coins, NThreads} \subseteq Nat \ {0}
      /\ Noises \subseteq [DraftToken -> Nat \ {0}] /\ DraftToken = 0 .. V-1
  BY DEF BatchAssumption, DraftToken
<1>2. V \in Nat \ {0}
  BY <1>1
<1>3. 0 .. V-1 \subseteq Nat /\ IsFiniteSet(0 .. V-1) /\ -1 \notin 0 .. V-1
  BY <1>2, FS_Interval
<1> QED  BY <1>1, <1>3

LEMMA PairIs ==
  ASSUME BatchAssumption, GivenInv, NEW x \in Pairs
  PROVE  /\ x.d \in DraftToken /\ x.q \in [DraftToken -> 0 .. Unit] /\ x.t \in [DraftToken -> 0 .. Unit]
         /\ SumFunctionOnSet(x.q, DraftToken) = Unit /\ SumFunctionOnSet(x.t, DraftToken) = Unit
         /\ Unit \in Nat \ {0} /\ Coins \in Nat \ {0} /\ IsFiniteSet(DraftToken)
<1>1. PICK v \in DraftToken, p \in batch.pairs : x = [d |-> v, q |-> p.q, t |-> p.t]
  BY DEF Pairs
<1>2. \A f \in {p.q, p.t} : f \in [DraftToken -> 0 .. Unit] /\ SumFunctionOnSet(f, DraftToken) = Unit
  BY <1>1 DEF BatchAssumption, GivenInv
<1>3. IsFiniteSet(DraftToken) /\ Unit \in Nat \ {0} /\ Coins \in Nat \ {0}
  BY TokenIs
<1> QED  BY <1>1, <1>2, <1>3

\* The weights of a draw are what is left of the target, times the noise.
LEMMA ResidualIs ==
  ASSUME BatchAssumption, GivenInv, NEW x \in Pairs, NEW noise \in Noises
  PROVE  /\ \A v \in DraftToken : Residual(x)[v] \in Nat /\ noise[v] \in Nat \ {0}
                             /\ Residual(x)[v] * noise[v] \in Nat
         /\ Draw(x, noise) \in DraftToken
<1>1. \A v \in DraftToken : Residual(x)[v] \in Nat /\ noise[v] \in Nat \ {0}
  <2>1. Unit \in Nat /\ \A v \in DraftToken : noise[v] \in Nat \ {0}
    BY TokenIs
  <2>2. \A v \in DraftToken : x.q[v] \in 0 .. Unit /\ x.t[v] \in 0 .. Unit
    BY PairIs
  <2>3. \A v \in DraftToken : Residual(x)[v] \in Nat
    BY <2>1, <2>2 DEF Residual
  <2> QED  BY <2>1, <2>3
<1>2. ASSUME NEW v \in DraftToken PROVE Residual(x)[v] * noise[v] \in Nat
  <2>1. Residual(x)[v] \in Nat /\ noise[v] \in Nat
    BY <1>1
  <2> QED  BY <2>1
<1> DEFINE w == [v \in DraftToken |-> Residual(x)[v] * noise[v]]
<1>3. \A v \in DraftToken : w[v] \in Nat
  BY <1>2
<1>4. Draw(x, noise) = Best(w)
  BY DEF Draw
<1> HIDE DEF w
<1> QED  BY <1>1, <1>2, <1>3, <1>4, BestIs

LEMMA TargetBest ==
  ASSUME BatchAssumption, GivenInv, NEW x \in Pairs PROVE Best(x.t) \in DraftToken
<1>1. \A v \in DraftToken : x.t[v] \in Nat
  BY PairIs
<1> QED  BY <1>1, BestIs

\* A row of tokens is not blank, nor the mark of one to be written.
LEMMA RowIs ==
  ASSUME BatchAssumption, GivenInv, draft \in [0 .. NDrafts-1 -> Pairs],
         NEW b \in Req, NEW r \in 0 .. nd(b), NEW token \in DraftToken
  PROVE  /\ EmittedRow(b, r, token) \in [0 .. S -> Int]
         /\ r \in 0 .. S
         /\ \A i \in 0 .. r-1 : EmittedRow(b, r, token)[i] = DraftOf(b, i).d /\ DraftOf(b, i) \in Pairs
                                /\ DraftOf(b, i).d \in DraftToken
         /\ EmittedRow(b, r, token)[r] = token
         /\ \A i \in 0 .. S : i > r => EmittedRow(b, r, token)[i] = Placeholder
         /\ EmittedRow(b, r, token) # Blank /\ EmittedRow(b, r, token) # <<>>
         /\ Length(EmittedRow(b, r, token)) = r + 1
<1>1. /\ S \in Nat /\ nd(b) \in 0 .. S /\ r \in Nat /\ r \in 0 .. S /\ DraftToken \subseteq Nat
      /\ \A i \in 0 .. nd(b)-1 : cu[b] + i \in 0 .. NDrafts-1
  <2>1. S \in Nat /\ nd(b) \in 0 .. S /\ \A i \in 0 .. nd(b)-1 : cu[b] + i \in 0 .. NDrafts-1
    BY BatchIs
  <2> QED  BY <2>1, TokenIs
<1>2. \A i \in 0 .. r-1 : DraftOf(b, i) \in Pairs /\ DraftOf(b, i).d \in DraftToken
  BY <1>1, PairIs DEF DraftOf
<1> DEFINE row == EmittedRow(b, r, token)
<1>3. /\ row = [i \in 0 .. S |-> IF i < r THEN DraftOf(b, i).d ELSE IF i = r THEN token ELSE Placeholder]
      /\ Placeholder = -1
  BY DEF EmittedRow, Placeholder
<1> HIDE DEF row
<1>4. \A i \in 0 .. S : row[i] = (IF i < r THEN DraftOf(b, i).d ELSE IF i = r THEN token ELSE -1)
  BY <1>3
<1>5. \A i \in 0 .. S : row[i] \in Int
  <2>1. ASSUME NEW i \in 0 .. S PROVE row[i] \in Int
    <3>1. CASE i < r
      <4>1. i \in 0 .. r-1 /\ row[i] = DraftOf(b, i).d
        BY <1>1, <1>4, <3>1
      <4>2. DraftOf(b, i).d \in DraftToken
        BY <4>1, <1>2
      <4>3. DraftOf(b, i).d \in Nat
        BY <4>2, <1>1
      <4> QED  BY <4>1, <4>3
    <3>2. CASE ~(i < r)
      BY <1>1, <1>4, <3>2
    <3> QED  BY <3>1, <3>2
  <2> QED  BY <2>1
<1>6. row \in [0 .. S -> Int]
  BY <1>3, <1>5
<1>7. row # Blank
  BY <1>1, <1>4 DEF Blank, Placeholder
<1>8. row # <<>>
  <2>1. DOMAIN row = 0 .. S /\ 0 \in 0 .. S
    BY <1>1, <1>3
  <2>2. DOMAIN (<<>>) = {}
    OBVIOUS
  <2> QED  BY <2>1, <2>2
<1>9. Length(row) = r + 1
  <2>1. {i \in 0 .. S : row[i] # Placeholder} = 0 .. r
    BY <1>1, <1>2, <1>4 DEF Placeholder
  <2>2. Cardinality(0 .. r) = r + 1
    BY <1>1, FS_Interval
  <2> QED  BY <2>1, <2>2 DEF Length
<1>10. \A i \in 0 .. r-1 : row[i] = DraftOf(b, i).d
  BY <1>1, <1>4
<1>11. row[r] = token /\ \A i \in 0 .. S : i > r => row[i] = Placeholder
  BY <1>1, <1>4 DEF Placeholder
<1> QED  BY <1>1, <1>2, <1>6, <1>7, <1>8, <1>9, <1>10, <1>11 DEF row

-----------------------------------------------------------------------------
\* A row of n accepted drafts, as the properties speak of it.
Reads(k, b, row, n) ==
  /\ Length(row) = n+1
  /\ \A i \in 0 .. n : row[i] \in DraftToken
  /\ \A i \in 0 .. S : i > n => row[i] = Placeholder
  /\ \A i \in 0 .. n-1 : row[i] = DraftOf(b, i).d /\ AcceptsSome(k, DraftOf(b, i))
  /\ n = nd(b) => row[n] = batch.bonus
  /\ n # nd(b) => n \in 0 .. nd(b)-1 /\ Instead(k, DraftOf(b, n), row[n])
  /\ k = "linear" => accepted_cnt[b] = n

LEMMA WrittenIs ==
  ASSUME BatchAssumption, GivenInv, draft \in [0 .. NDrafts-1 -> Pairs],
         NEW k, NEW b \in Req, NEW row, Written(k, b, row)
  PROVE  /\ row # <<>> /\ row # Blank /\ row \in [0 .. S -> Int]
         /\ \E n \in 0 .. nd(b) : Reads(k, b, row, n)
<1>1. PICK r \in 0 .. nd(b), token \in DraftToken :
        /\ row = EmittedRow(b, r, token)
        /\ \A i \in 0 .. r-1 : AcceptsSome(k, DraftOf(b, i))
        /\ IF r = nd(b) THEN token = batch.bonus ELSE Instead(k, DraftOf(b, r), token)
        /\ k = "linear" => accepted_cnt[b] = r
  BY DEF Written, Justified
<1>2. /\ row \in [0 .. S -> Int] /\ r \in 0 .. S
      /\ \A i \in 0 .. r-1 : row[i] = DraftOf(b, i).d /\ DraftOf(b, i).d \in DraftToken
      /\ row[r] = token
      /\ \A i \in 0 .. S : i > r => row[i] = Placeholder
      /\ row # Blank /\ row # <<>> /\ Length(row) = r + 1
  BY <1>1, RowIs
<1>3. nd(b) \in Nat
  BY BatchIs
<1>4. \A i \in 0 .. r : row[i] \in DraftToken
  <2>1. ASSUME NEW i \in 0 .. r PROVE row[i] \in DraftToken
    <3>1. i = r \/ i \in 0 .. r-1
      BY <1>2
    <3> QED  BY <3>1, <1>2
  <2> QED  BY <2>1
<1>5. r # nd(b) => r \in 0 .. nd(b)-1
  BY <1>3
<1>6. Reads(k, b, row, r)
  BY <1>1, <1>2, <1>4, <1>5 DEF Reads
<1> QED  BY <1>2, <1>6

\* A verifier writes an accepted row.
LEMMA LinearWrites ==
  ASSUME BatchAssumption, GivenInv, ReadInv, RowsInv, NEW b \in Req, VerifyLinear(b)
  PROVE  /\ Kernels = {"linear"} /\ stage = "verify" /\ stage' = stage
         /\ UNCHANGED <<given, draft, recovered, draft_out, packing>>
         /\ \E row \in [0 .. S -> Int], r \in 0 .. S :
              /\ rows' = [rows EXCEPT !["linear"][b] = row] /\ r \in 0 .. nd(b)
              /\ accepted_cnt' = [accepted_cnt EXCEPT ![b] = r]
              /\ \E token \in DraftToken : row = EmittedRow(b, r, token) /\ Justified("linear", b, r, token)
<1>1. /\ stage = "verify" /\ "linear" \in Kernels
      /\ draft \in [0 .. NDrafts-1 -> Pairs]
  BY DEF VerifyLinear, Verifying, ReadInv
<1>2. batch.kind = "linear" /\ Kernels = {"linear"} /\ nd(b) = S /\ S \in Nat /\ batch.bonus \in DraftToken
  BY <1>1, BatchIs DEF Kernels
<1>3. PICK u \in [0 .. S-1 -> Coin], noise \in Noises :
        LET r == RejectedAt(b, {i \in 0 .. S-1 : AcceptsLinear(DraftOf(b, i), u[i])})
        IN  /\ accepted_cnt' = [accepted_cnt EXCEPT ![b] = r]
            /\ WriteRow("linear", b, EmittedRow(b, r, IF r = S THEN batch.bonus ELSE Draw(DraftOf(b, r), noise)))
  BY DEF VerifyLinear
<1> DEFINE A == {i \in 0 .. S-1 : AcceptsLinear(DraftOf(b, i), u[i])}
           r == RejectedAt(b, A)
           token == IF r = S THEN batch.bonus ELSE Draw(DraftOf(b, r), noise)
           row == EmittedRow(b, r, token)
<1>4. r \in 0 .. nd(b) /\ r \notin A /\ 0 .. r-1 \subseteq A
  <2>1. A \subseteq 0 .. nd(b)-1
    BY <1>2
  <2> HIDE DEF A
  <2> QED  BY <2>1, RejectedIs
<1>5. \A i \in 0 .. nd(b)-1 : DraftOf(b, i) \in Pairs
  BY <1>1, BatchIs DEF DraftOf
<1>6. token \in DraftToken
  <2>1. CASE r = S
    BY <2>1, <1>2
  <2>2. CASE r # S
    <3>1. r \in 0 .. nd(b)-1
      BY <2>2, <1>2, <1>4
    <3>2. DraftOf(b, r) \in Pairs
      BY <3>1, <1>5
    <3> QED  BY <2>2, <3>2, ResidualIs
  <2> QED  BY <2>1, <2>2
<1>7. \A i \in 0 .. r-1 : AcceptsSome("linear", DraftOf(b, i))
  <2>1. ASSUME NEW i \in 0 .. r-1 PROVE AcceptsSome("linear", DraftOf(b, i))
    <3>1. i \in A
      BY <1>4
    <3>2. AcceptsLinear(DraftOf(b, i), u[i]) /\ u[i] \in Coin
      BY <3>1
    <3> QED  BY <3>2 DEF AcceptsSome
  <2> QED  BY <2>1
<1>8. IF r = nd(b) THEN token = batch.bonus ELSE Instead("linear", DraftOf(b, r), token)
  <2>1. CASE r # nd(b)
    <3>1. r \in 0 .. S-1
      BY <2>1, <1>2, <1>4
    <3>2. ~AcceptsLinear(DraftOf(b, r), u[r]) /\ u[r] \in Coin
      BY <3>1, <1>4
    <3>3. token = Draw(DraftOf(b, r), noise)
      BY <3>1
    <3> HIDE DEF r, token
    <3> QED  BY <2>1, <3>2, <3>3 DEF Instead, RejectsSome
  <2> QED  BY <2>1, <1>2
<1>9. row \in [0 .. S -> Int] /\ r \in 0 .. S
  <2> HIDE DEF r, token
  <2> QED  BY <1>1, <1>4, <1>6, RowIs
<1>10. /\ accepted_cnt' = [accepted_cnt EXCEPT ![b] = r]
       /\ WriteRow("linear", b, row)
  BY <1>3
<1> HIDE DEF A, r, token, row
<1>11. row = EmittedRow(b, r, token)
  BY DEF row
<1> QED  BY <1>1, <1>2, <1>4, <1>6, <1>7, <1>8, <1>9, <1>10, <1>11 DEF WriteRow, Justified
LEMMA SamplerWrites ==
  ASSUME BatchAssumption, GivenInv, ReadInv, RowsInv, NEW b \in Req, NEW k \in {"greedy", "random"},
         IF k = "greedy" THEN SampleGreedy(b) ELSE SampleRandom(b)
  PROVE  /\ k \in Kernels /\ stage = "verify" /\ stage' = stage
         /\ UNCHANGED <<given, draft, recovered, draft_out, packing, accepted_cnt>>
         /\ \E row \in [0 .. S -> Int] :
              /\ rows' = [rows EXCEPT ![k][b] = row]
              /\ IF Takes(k, b)
                 THEN \E r \in 0 .. nd(b), token \in DraftToken :
                        row = EmittedRow(b, r, token) /\ Justified(k, b, r, token)
                 ELSE row = Blank
<1>1. /\ stage = "verify" /\ k \in Kernels /\ stage' = stage
      /\ UNCHANGED <<given, draft, recovered, draft_out, packing, accepted_cnt>>
  BY DEF SampleGreedy, SampleRandom, Verifying, WriteRow
<1>2. /\ draft \in [0 .. NDrafts-1 -> Pairs]
      /\ \A i \in 0 .. NDrafts-1 : \E noise \in Noises : recovered[i] = Draw(draft[i], noise)
  <2>1. batch.kind = "ragged"
    BY <1>1, BatchIs DEF Kernels
  <2> QED  BY <1>1, <2>1 DEF ReadInv
<1>3. batch.bonus \in DraftToken /\ S \in Nat /\ nd(b) \in Nat
  BY BatchIs
<1>4. \A i \in 0 .. nd(b)-1 : /\ cu[b] + i \in 0 .. NDrafts-1
                              /\ DraftOf(b, i) = draft[cu[b] + i] /\ DraftOf(b, i) \in Pairs
  BY <1>2, BatchIs DEF DraftOf
<1>5. Blank \in [0 .. S -> Int]
  BY DEF Blank, Placeholder
<1>6. CASE k = "greedy"
  <2> DEFINE A == {i \in 0 .. nd(b)-1 : DraftOf(b, i).d = Best(DraftOf(b, i).t)}
             r == RejectedAt(b, A)
             token == IF r = nd(b) THEN batch.bonus ELSE Best(DraftOf(b, r).t)
             row == EmittedRow(b, r, token)
  <2>1. rows' = [rows EXCEPT !["greedy"][b] = IF Takes("greedy", b) THEN row ELSE Blank]
    BY <1>6 DEF SampleGreedy, WriteRow
  <2>2. r \in 0 .. nd(b) /\ r \notin A /\ 0 .. r-1 \subseteq A
    <3>1. A \subseteq 0 .. nd(b)-1
      OBVIOUS
    <3> HIDE DEF A
    <3> QED  BY <3>1, RejectedIs
  <2>3. \A i \in 0 .. r-1 : AcceptsSome("greedy", DraftOf(b, i))
    BY <2>2 DEF AcceptsSome
  <2> HIDE DEF A, r
  <2>4. token \in DraftToken
    <3>1. r # nd(b) => r \in 0 .. nd(b)-1
      BY <1>3, <2>2
    <3>2. r # nd(b) => Best(DraftOf(b, r).t) \in DraftToken
      BY <3>1, <1>4, TargetBest
    <3> QED  BY <3>2, <1>3
  <2>5. IF r = nd(b) THEN token = batch.bonus ELSE Instead("greedy", DraftOf(b, r), token)
    BY DEF Instead
  <2> HIDE DEF token
  <2>6. row \in [0 .. S -> Int]
    BY <1>2, <2>2, <2>4, RowIs
  <2>7. row = EmittedRow(b, r, token)
    OBVIOUS
  <2> HIDE DEF row
  <2>8. CASE Takes("greedy", b)
    BY <1>1, <1>6, <2>1, <2>2, <2>3, <2>4, <2>5, <2>6, <2>7, <2>8 DEF Justified
  <2>9. CASE ~Takes("greedy", b)
    BY <1>1, <1>5, <1>6, <2>1, <2>9
  <2> QED  BY <2>8, <2>9
<1>7. CASE k = "random"
  <2>1. PICK u \in [0 .. nd(b)-1 -> Coin] :
          LET r == RejectedAt(b, {i \in 0 .. nd(b)-1 : AcceptsRandom(DraftOf(b, i), u[i])})
          IN  WriteRow("random", b,
                IF Takes("random", b)
                THEN EmittedRow(b, r, IF r = nd(b) THEN batch.bonus ELSE recovered[cu[b] + r])
                ELSE Blank)
    BY <1>7 DEF SampleRandom
  <2> DEFINE A == {i \in 0 .. nd(b)-1 : AcceptsRandom(DraftOf(b, i), u[i])}
             r == RejectedAt(b, A)
             token == IF r = nd(b) THEN batch.bonus ELSE recovered[cu[b] + r]
             row == EmittedRow(b, r, token)
  <2>2. rows' = [rows EXCEPT !["random"][b] = IF Takes("random", b) THEN row ELSE Blank]
    BY <2>1 DEF WriteRow
  <2>3. r \in 0 .. nd(b) /\ r \notin A /\ 0 .. r-1 \subseteq A
    <3>1. A \subseteq 0 .. nd(b)-1
      OBVIOUS
    <3> HIDE DEF A
    <3> QED  BY <3>1, RejectedIs
  <2>4. \A i \in 0 .. r-1 : AcceptsSome("random", DraftOf(b, i))
    <3>1. ASSUME NEW i \in 0 .. r-1 PROVE AcceptsSome("random", DraftOf(b, i))
      <4>1. i \in A
        BY <2>3
      <4>2. AcceptsRandom(DraftOf(b, i), u[i]) /\ u[i] \in Coin
        BY <4>1
      <4> QED  BY <4>2 DEF AcceptsSome
    <3> QED  BY <3>1
  <2>5. r # nd(b) => /\ RejectsSome("random", DraftOf(b, r)) /\ DraftOf(b, r) \in Pairs
                     /\ \E noise \in Noises : recovered[cu[b] + r] = Draw(DraftOf(b, r), noise)
    <3>1. SUFFICES ASSUME r # nd(b)
                   PROVE  /\ RejectsSome("random", DraftOf(b, r)) /\ DraftOf(b, r) \in Pairs
                          /\ \E noise \in Noises : recovered[cu[b] + r] = Draw(DraftOf(b, r), noise)
      OBVIOUS
    <3>2. r \in 0 .. nd(b)-1
      BY <3>1, <1>3, <2>3
    <3>3. ~AcceptsRandom(DraftOf(b, r), u[r]) /\ u[r] \in Coin
      BY <3>2, <2>3
    <3> HIDE DEF r
    <3>4. RejectsSome("random", DraftOf(b, r))
      BY <3>3 DEF RejectsSome
    <3> QED  BY <3>2, <3>4, <1>2, <1>4
  <2> HIDE DEF A, r
  <2>6. token \in DraftToken
    BY <2>5, <1>3, ResidualIs
  <2>7. IF r = nd(b) THEN token = batch.bonus ELSE Instead("random", DraftOf(b, r), token)
    BY <2>5 DEF Instead
  <2> HIDE DEF token
  <2>8. row \in [0 .. S -> Int]
    BY <1>2, <2>3, <2>6, RowIs
  <2>9. row = EmittedRow(b, r, token)
    OBVIOUS
  <2> HIDE DEF row
  <2>10. CASE Takes("random", b)
    BY <1>1, <1>7, <2>2, <2>3, <2>4, <2>6, <2>7, <2>8, <2>9, <2>10 DEF Justified
  <2>11. CASE ~Takes("random", b)
    BY <1>1, <1>5, <1>7, <2>2, <2>11
  <2> QED  BY <2>10, <2>11
<1> QED  BY <1>6, <1>7

LEMMA SameGiven ==
  ASSUME UNCHANGED given
  PROVE  /\ B' = B /\ S' = S /\ Req' = Req /\ Kernels' = Kernels /\ NDrafts' = NDrafts /\ Pairs' = Pairs
         /\ Blank' = Blank
         /\ \A b : nd(b)' = nd(b)
         /\ \A k, b : Takes(k, b)' = Takes(k, b)
<1>1. batch' = batch /\ cu' = cu /\ is_greedy' = is_greedy
  BY DEF given
<1>2. B' = B /\ S' = S /\ Kernels' = Kernels /\ Pairs' = Pairs
  BY <1>1 DEF B, S, Kernels, Pairs
<1>3. Req' = Req /\ NDrafts' = NDrafts /\ Blank' = Blank
  BY <1>1, <1>2 DEF Req, NDrafts, Blank
<1>4. (\A b : nd(b)' = nd(b)) /\ \A k, b : Takes(k, b)' = Takes(k, b)
  BY <1>1 DEF nd, Takes
<1> QED  BY <1>2, <1>3, <1>4

LEMMA SameReasons ==
  ASSUME UNCHANGED <<given, draft>>, NEW k, NEW b, NEW r, NEW token
  PROVE  EmittedRow(b, r, token)' = EmittedRow(b, r, token) /\ (Justified(k, b, r, token)' <=> Justified(k, b, r, token))
<1>1. batch' = batch /\ no_draft_probs' = no_draft_probs /\ cu' = cu /\ draft' = draft
  BY DEF given
<1>2. EmittedRow(b, r, token)' = EmittedRow(b, r, token)
  BY <1>1 DEF EmittedRow, DraftOf, S
<1>3. Justified(k, b, r, token)' <=> Justified(k, b, r, token)
  BY <1>1 DEF Justified, AcceptsSome, Instead, RejectsSome, AcceptsLinear, AcceptsRandom, Draw, Residual,
              DraftOf, nd
<1> QED  BY <1>2, <1>3

\* What a verifier writes, others leave alone.
LEMMA RowWritten ==
  ASSUME BatchAssumption, GivenInv, ReadInv, RowsInv, stage = "verify", stage' = stage,
         UNCHANGED <<given, draft>>,
         NEW k \in Kernels, NEW b \in Req, NEW row \in [0 .. S -> Int],
         rows' = [rows EXCEPT ![k][b] = row],
         \A c \in Req : c # b => accepted_cnt'[c] = accepted_cnt[c],
         k # "linear" => UNCHANGED accepted_cnt,
         IF k = "linear" \/ Takes(k, b)
         THEN \E r \in 0 .. nd(b), token \in DraftToken :
                row = EmittedRow(b, r, token) /\ Justified(k, b, r, token) /\ (k = "linear" => accepted_cnt'[b] = r)
         ELSE row = Blank
  PROVE  RowsInv'
<1>1. /\ rows \in [Kernel -> [Req -> {<<>>} \cup [0 .. S -> Int]]] /\ k \in Kernel
      /\ \A l \in Kernels, c \in Req :
           rows[l][c] = <<>> \/ IF l = "linear" \/ Takes(l, c) THEN Written(l, c, rows[l][c])
                                ELSE rows[l][c] = Blank
  BY DEF RowsInv, Kernels, Kernel
<1>2. /\ S' = S /\ Req' = Req /\ Kernels' = Kernels /\ Blank' = Blank /\ batch' = batch
      /\ \A c : nd(c)' = nd(c)
      /\ \A l, c : Takes(l, c)' = Takes(l, c)
  BY SameGiven DEF given
<1>3. rows' \in [Kernel -> [Req -> {<<>>} \cup [0 .. S -> Int]]]
  BY <1>1
<1>4. ASSUME NEW l \in Kernels, NEW c \in Req, l # k \/ c # b
      PROVE  rows'[l][c] = rows[l][c]
  BY <1>1, <1>4 DEF Kernels, Kernel
<1>5. rows'[k][b] = row
  BY <1>1
<1>6. ASSUME NEW l \in Kernels, NEW c \in Req, l # k \/ c # b, Written(l, c, rows[l][c])
      PROVE  Written(l, c, rows[l][c])'
  <2>1. PICK r \in 0 .. nd(c), token \in DraftToken :
          /\ rows[l][c] = EmittedRow(c, r, token)
          /\ Justified(l, c, r, token)
          /\ l = "linear" => accepted_cnt[c] = r
    BY <1>6 DEF Written
  <2>2. l = "linear" => accepted_cnt'[c] = r
    BY <2>1, <1>6 DEF Kernels
  <2>3. EmittedRow(c, r, token)' = EmittedRow(c, r, token) /\ Justified(l, c, r, token)'
    BY <2>1, SameReasons
  <2>4. nd(c)' = nd(c) /\ rows'[l][c] = rows[l][c]
    BY <1>2, <1>4, <1>6
  <2> QED  BY <2>1, <2>2, <2>3, <2>4 DEF Written
<1>7. ASSUME k = "linear" \/ Takes(k, b) PROVE Written(k, b, rows[k][b])'
  <2>1. PICK r \in 0 .. nd(b), token \in DraftToken :
          row = EmittedRow(b, r, token) /\ Justified(k, b, r, token) /\ (k = "linear" => accepted_cnt'[b] = r)
    BY <1>7
  <2>2. EmittedRow(b, r, token)' = EmittedRow(b, r, token) /\ Justified(k, b, r, token)'
    BY <2>1, SameReasons
  <2>3. nd(b)' = nd(b)
    BY <1>2
  <2> QED  BY <2>1, <2>2, <2>3, <1>5 DEF Written
<1>8. ASSUME NEW l \in Kernels, NEW c \in Req
      PROVE  rows'[l][c] = <<>> \/ IF l = "linear" \/ Takes(l, c) THEN Written(l, c, rows[l][c])'
                                   ELSE rows'[l][c] = Blank
  <2>1. CASE l = k /\ c = b
    BY <2>1, <1>5, <1>7
  <2>2. CASE l # k \/ c # b
    <3>1. rows'[l][c] = rows[l][c]
      BY <2>2, <1>4
    <3> QED  BY <2>2, <3>1, <1>1, <1>6
  <2> QED  BY <2>1, <2>2
<1> QED  BY <1>2, <1>3, <1>8 DEF RowsInv

\* One sampler takes a request, and the other leaves its row blank.
LEMMA OneTakes ==
  ASSUME BatchAssumption, GivenInv, NEW b \in Req
  PROVE  \E k \in Kernels : /\ k = "linear" \/ Takes(k, b)
                            /\ \A l \in Kernels : l # k => l # "linear" /\ ~Takes(l, b)
                            /\ k = "linear" <=> batch.kind = "linear"
<1>1. batch.kind \in {"linear", "ragged"} /\ is_greedy[b] \in BOOLEAN
  BY BatchIs DEF GivenInv
<1>2. CASE batch.kind = "linear"
  BY <1>2 DEF Kernels
<1>3. CASE batch.kind = "ragged"
  <2>1. Kernels = {"greedy", "random"}
    BY <1>3 DEF Kernels
  <2>2. Takes("greedy", b) <=> is_greedy[b] = TRUE
    BY DEF Takes
  <2>3. Takes("random", b) <=> is_greedy[b] = FALSE
    BY DEF Takes
  <2>4. CASE is_greedy[b] = TRUE
    BY <1>3, <2>1, <2>2, <2>3, <2>4
  <2>5. CASE is_greedy[b] = FALSE
    BY <1>3, <2>1, <2>2, <2>3, <2>5
  <2> QED  BY <1>1, <2>4, <2>5
<1> QED  BY <1>1, <1>2, <1>3

LEMMA RowsAccepted == ASSUME BatchAssumption, GivenInv, ReadInv, RowsInv PROVE AcceptedThenOne
<1> SUFFICES ASSUME stage = "verify", NEW b \in Req
             PROVE  LET written == {k \in Kernels : rows[k][b] \notin {<<>>, Blank}}
                    IN  /\ Cardinality(written) <= 1
                        /\ (\A k \in Kernels : rows[k][b] # <<>>) => written # {}
                        /\ \A k \in written :
                             LET n == Length(rows[k][b]) - 1
                             IN  /\ n \in 0 .. nd(b)
                                 /\ rows[k][b][n] \in DraftToken
                                 /\ \A i \in 0 .. n-1 : rows[k][b][i] = DraftOf(b, i).d
                                 /\ n = nd(b) => rows[k][b][n] = batch.bonus
                                 /\ k = "linear" => accepted_cnt[b] = n
                                 /\ k = "greedy" => \A i \in 0 .. n : i < nd(b) => rows[k][b][i] = Best(DraftOf(b, i).t)
  BY DEF AcceptedThenOne
<1> DEFINE written == {k \in Kernels : rows[k][b] \notin {<<>>, Blank}}
<1>1. PICK k \in Kernels : /\ k = "linear" \/ Takes(k, b)
                           /\ \A l \in Kernels : l # k => l # "linear" /\ ~Takes(l, b)
  BY OneTakes
<1>2. \A l \in Kernels :
        rows[l][b] = <<>> \/ IF l = "linear" \/ Takes(l, b) THEN Written(l, b, rows[l][b])
                             ELSE rows[l][b] = Blank
  BY DEF RowsInv
<1>3. draft \in [0 .. NDrafts-1 -> Pairs]
  BY DEF ReadInv
<1>4. \A l \in written : l = k /\ Written(l, b, rows[l][b])
  BY <1>1, <1>2
<1>5. Cardinality(written) <= 1
  <2>1. written = {} \/ written = {k}
    BY <1>4
  <2>2. Cardinality({}) = 0 /\ Cardinality({k}) = 1
    BY FS_EmptySet, FS_Singleton
  <2> HIDE DEF written
  <2> QED  BY <2>1, <2>2
<1>6. (\A l \in Kernels : rows[l][b] # <<>>) => written # {}
  <2>1. SUFFICES ASSUME rows[k][b] # <<>> PROVE k \in written
    OBVIOUS
  <2>2. Written(k, b, rows[k][b])
    BY <1>1, <1>2, <2>1
  <2>3. rows[k][b] # Blank
    BY <1>3, <2>2, WrittenIs
  <2> QED  BY <2>1, <2>3
<1>7. ASSUME NEW l \in written
      PROVE  LET n == Length(rows[l][b]) - 1
             IN  /\ n \in 0 .. nd(b)
                 /\ rows[l][b][n] \in DraftToken
                 /\ \A i \in 0 .. n-1 : rows[l][b][i] = DraftOf(b, i).d
                 /\ n = nd(b) => rows[l][b][n] = batch.bonus
                 /\ l = "linear" => accepted_cnt[b] = n
                 /\ l = "greedy" => \A i \in 0 .. n : i < nd(b) => rows[l][b][i] = Best(DraftOf(b, i).t)
  <2> DEFINE row == rows[l][b]
             n == Length(row)-1
  <2>1. Written(l, b, row)
    BY <1>4
  <2> HIDE DEF row
  <2>2. PICK m \in 0 .. nd(b) : Reads(l, b, row, m)
    BY <1>3, <2>1, WrittenIs
  <2>4. n = m /\ m \in Nat
    BY <2>2 DEF Reads
  <2>5. /\ n \in 0 .. nd(b) /\ row[n] \in DraftToken
        /\ \A i \in 0 .. n-1 : row[i] = DraftOf(b, i).d /\ AcceptsSome(l, DraftOf(b, i))
        /\ n = nd(b) => row[n] = batch.bonus
        /\ n # nd(b) => n \in 0 .. nd(b)-1 /\ Instead(l, DraftOf(b, n), row[n])
        /\ l = "linear" => accepted_cnt[b] = n
    <3> HIDE DEF n
    <3> QED  BY <2>2, <2>4 DEF Reads
  <2> HIDE DEF n
  <2>3. ASSUME l = "greedy", NEW i \in 0 .. n, i < nd(b) PROVE row[i] = Best(DraftOf(b, i).t)
    <3>1. nd(b) \in Nat
      BY BatchIs
    <3>2. CASE i \in 0 .. n-1
      BY <2>5, <2>3, <3>2 DEF AcceptsSome
    <3>3. CASE i = n
      BY <2>5, <2>3, <3>1, <3>3 DEF Instead
    <3> QED  BY <2>5, <3>1, <3>2, <3>3
  <2> QED  BY <2>3, <2>5 DEF row, n
<1> HIDE DEF written
<1> QED  BY <1>5, <1>6, <1>7 DEF written
-----------------------------------------------------------------------------
(***************************************************************************)
(* What is emitted: the rows the caller goes on with.                      *)
(***************************************************************************)
After == {"compact", "prepare", "meta", "inputs", "expand", "step"}

Emits(b, n) ==
  /\ n \in 1 .. nd(b)+1 /\ Length(draft_out[b]) = n
  /\ \A i \in 0 .. n-1 : draft_out[b][i] \in DraftToken
  /\ \A i \in 0 .. S : i >= n => draft_out[b][i] = Placeholder
  /\ batch.kind = "linear" => accepted_cnt[b] = n-1

OutInv == stage \in After => \A b \in Req : Emits(b, Length(draft_out[b]))

LEMMA Collected ==
  ASSUME BatchAssumption, GivenInv, ReadInv, RowsInv, Collect PROVE OutInv' /\ stage' \in {"compact", "prepare"}
<1>1. /\ stage = "verify" /\ \A k \in Kernels, b \in Req : rows[k][b] # <<>>
      /\ stage' \in {"compact", "prepare"} /\ UNCHANGED <<given, accepted_cnt>>
  BY DEF Collect, Verified
<1>2. draft \in [0 .. NDrafts-1 -> Pairs]
  BY <1>1 DEF ReadInv
<1>3. S' = S /\ Req' = Req /\ batch' = batch /\ \A b : nd(b)' = nd(b)
  BY <1>1, SameGiven DEF given
<1>4. ASSUME NEW b \in Req
      PROVE  LET n == Length(draft_out[b])'
             IN  /\ n \in 1 .. nd(b)+1
                 /\ \A i \in 0 .. n-1 : draft_out'[b][i] \in DraftToken
                 /\ \A i \in 0 .. S : i >= n => draft_out'[b][i] = Placeholder
                 /\ batch.kind = "linear" => accepted_cnt[b] = n-1
  <2>1. PICK k \in Kernels : /\ k = "linear" \/ Takes(k, b)
                             /\ \A l \in Kernels : l # k => l # "linear" /\ ~Takes(l, b)
                             /\ k = "linear" <=> batch.kind = "linear"
    BY OneTakes
  <2>2. \A l \in Kernels :
          IF l = "linear" \/ Takes(l, b) THEN Written(l, b, rows[l][b]) ELSE rows[l][b] = Blank
    BY <1>1 DEF RowsInv
  <2> DEFINE row == rows[k][b]
             n == Length(row)
  <2>3. Written(k, b, row)
    BY <2>1, <2>2
  <2>4. /\ row \in [0 .. S -> Int] /\ n-1 \in 0 .. nd(b)
        /\ \A i \in 0 .. n-1 : row[i] \in DraftToken
        /\ \A i \in 0 .. S : i > n-1 => row[i] = Placeholder
        /\ k = "linear" => accepted_cnt[b] = n-1
    <3> HIDE DEF row, n
    <3>1. PICK m \in 0 .. nd(b) : Reads(k, b, row, m)
      BY <1>2, <2>3, WrittenIs
    <3>2. n = m+1 /\ m \in Nat
      BY <3>1 DEF n, Reads
    <3>3. row \in [0 .. S -> Int]
      BY <1>2, <2>3, WrittenIs
    <3>4. n-1 = m
      BY <3>2
    <3> QED  BY <3>1, <3>3, <3>4 DEF Reads
  <2>5. \A l \in Kernels : l # k => rows[l][b] = Blank
    BY <2>1, <2>2
  <2>6. S \in Nat /\ nd(b) \in 0 .. S /\ DraftToken \subseteq Nat
    BY BatchIs, TokenIs
  <2>7. n \in 1 .. nd(b)+1
    <3>1. n \in Nat
      <4>1. IsFiniteSet(0 .. S)
        BY <2>6, FS_Interval
      <4>2. IsFiniteSet({i \in 0 .. S : row[i] # Placeholder})
        BY <4>1, FS_Subset
      <4> QED  BY <4>2, FS_CardinalityType DEF Length
    <3> HIDE DEF n
    <3> QED  BY <2>4, <2>6, <3>1
  <2>8. \A i \in 0 .. S : row[i] \in Int /\ row[i] >= -1
    <3> HIDE DEF row, n
    <3>1. ASSUME NEW i \in 0 .. S PROVE row[i] \in Int /\ row[i] >= -1
      <4>1. CASE i > n-1
        BY <2>4, <4>1 DEF Placeholder
      <4>2. CASE ~(i > n-1)
        <5>1. i \in 0 .. n-1
          BY <2>6, <2>7, <4>2
        <5>2. row[i] \in Nat
          BY <5>1, <2>4, <2>6
        <5> QED  BY <5>2
      <4> QED  BY <4>1, <4>2
    <3> QED  BY <3>1
  <2>9. \A i \in 0 .. S : draft_out'[b][i] = row[i]
    <3>1. ASSUME NEW i \in 0 .. S PROVE draft_out'[b][i] = row[i]
      <4> DEFINE E1 == {rows[l][b][i] : l \in Kernels}
      <4>1. draft_out'[b][i] = CHOOSE x \in E1 : \A y \in E1 : y <= x
        BY DEF Collect
      <4>2. \A y \in E1 : y = row[i] \/ y = -1
        <5> HIDE DEF row
        <5>1. ASSUME NEW l \in Kernels PROVE rows[l][b][i] = row[i] \/ rows[l][b][i] = -1
          <6>1. CASE l = k
            BY <6>1 DEF row
          <6>2. CASE l # k
            BY <6>2, <2>5 DEF Blank, Placeholder
          <6> QED  BY <6>1, <6>2
        <5> QED  BY <5>1
      <4>3. row[i] \in E1
        OBVIOUS
      <4>4. row[i] \in Int /\ row[i] >= -1
        BY <2>8
      <4> HIDE DEF E1, row
      <4>5. \A y \in E1 : y <= row[i]
        BY <4>2, <4>4
      <4> DEFINE x0 == CHOOSE x \in E1 : \A y \in E1 : y <= x
      <4>6. x0 \in E1 /\ \A y \in E1 : y <= x0
        BY <4>3, <4>5
      <4>7. x0 = row[i]
        <5>1. row[i] <= x0 /\ (x0 = row[i] \/ x0 = -1)
          BY <4>2, <4>3, <4>6
        <5> HIDE DEF x0
        <5> QED  BY <5>1, <4>4
      <4> QED  BY <4>1, <4>7
    <3> QED  BY <3>1
  <2>10. Length(draft_out[b])' = n
    <3>1. {i \in 0 .. S : draft_out'[b][i] # Placeholder} = {i \in 0 .. S : row[i] # Placeholder}
      BY <2>9
    <3> QED  BY <1>3, <3>1 DEF Length
  <2> HIDE DEF row, n
  <2>11. \A i \in 0 .. n-1 : draft_out'[b][i] \in DraftToken
    <3>1. ASSUME NEW i \in 0 .. n-1 PROVE draft_out'[b][i] \in DraftToken
      <4>1. i \in 0 .. S
        BY <2>6, <2>7
      <4> QED  BY <4>1, <2>4, <2>9
    <3> QED  BY <3>1
  <2>12. \A i \in 0 .. S : i >= n => draft_out'[b][i] = Placeholder
    BY <2>4, <2>7, <2>9
  <2> QED  BY <2>1, <2>4, <2>7, <2>10, <2>11, <2>12
<1>5. ASSUME NEW b \in Req PROVE Emits(b, Length(draft_out[b]))'
  BY <1>1, <1>3, <1>4 DEF Emits
<1> QED  BY <1>1, <1>3, <1>5 DEF OutInv
-----------------------------------------------------------------------------
(***************************************************************************)
(* spec_compact.  The tokens of request b go to Upto(b) and on, and what   *)
(* the threads add up in chunks is that.                                   *)
(***************************************************************************)
Upto(b)  == SumFunctionOnSet(vlen, 0 .. b-1)
PerChunk == (B + NThreads-1) \div NThreads
From(th) == IF th * PerChunk < B THEN th * PerChunk ELSE B
Compacts == batch.kind = "linear" /\ stage \in After

LEMMA LengthsAre ==
  ASSUME BatchAssumption, GivenInv, OutInv, Compacts
  PROVE  /\ B \in Nat /\ S \in Nat /\ Req = 0 .. B-1
         /\ \A b \in 0 .. B-1 : /\ vlen[b] = accepted_cnt[b] + 1 /\ vlen[b] \in 1 .. S+1
                                /\ Length(draft_out[b]) = vlen[b]
                                /\ Upto(b+1) = Upto(b) + vlen[b]
                                /\ \A jj \in 0 .. vlen[b]-1 : draft_out[b][jj] \in DraftToken
         /\ Upto(0) = 0 /\ Emitted = Upto(B)
         /\ \A b \in 0 .. B : Upto(b) \in Nat /\ Upto(b) <= b * (S+1)
         /\ \A a \in 0 .. B : \A c \in a .. B :
              /\ Upto(a) <= Upto(c)
              /\ Upto(c) = Upto(a) + SumFunctionOnSet(vlen, a .. c-1)
<1>1. B \in Nat /\ S \in Nat /\ Req = 0 .. B-1
  BY BatchIs DEF Req
<1>2. ASSUME NEW b \in 0 .. B-1
      PROVE  /\ vlen[b] = accepted_cnt[b] + 1 /\ vlen[b] \in 1 .. S+1 /\ Length(draft_out[b]) = vlen[b]
             /\ \A jj \in 0 .. vlen[b]-1 : draft_out[b][jj] \in DraftToken
  <2> DEFINE n == Length(draft_out[b])
  <2>1. b \in Req /\ nd(b) \in 0 .. S
    BY <1>1, BatchIs
  <2>2. n \in 1 .. nd(b)+1 /\ accepted_cnt[b] = n-1 /\ \A jj \in 0 .. n-1 : draft_out[b][jj] \in DraftToken
    BY <2>1 DEF OutInv, Compacts, Emits
  <2>3. vlen[b] = accepted_cnt[b] + 1
    BY <2>1 DEF vlen
  <2> HIDE DEF n
  <2>4. vlen[b] = n
    BY <2>1, <2>2, <2>3
  <2> QED  BY <1>1, <2>1, <2>2, <2>3, <2>4 DEF n
<1>3. \A b \in 0 .. B-1 : vlen[b] \in Nat
  BY <1>1, <1>2
<1>4. /\ \A a \in 0 .. B : SumFunctionOnSet(vlen, 0 .. a-1) \in Nat
      /\ \A a \in 0 .. B : \A c \in a .. B :
              /\ SumFunctionOnSet(vlen, a .. c-1) \in Nat
              /\ SumFunctionOnSet(vlen, 0 .. c-1)
                   = SumFunctionOnSet(vlen, 0 .. a-1) + SumFunctionOnSet(vlen, a .. c-1)
      /\ \A c \in 0 .. B-1 :
              SumFunctionOnSet(vlen, 0 .. c) = SumFunctionOnSet(vlen, 0 .. c-1) + vlen[c]
  <2>1. B \in Nat
    BY <1>1
  <2> QED  BY ONLY <1>3, <2>1, SpanSum
<1>5. \A b \in 0 .. B : Upto(b) \in Nat
  BY <1>4 DEF Upto
<1>6. \A b \in 0 .. B-1 : Upto(b+1) = Upto(b) + vlen[b]
  <2>1. ASSUME NEW b \in 0 .. B-1 PROVE Upto(b+1) = Upto(b) + vlen[b]
    <3>1. b+1-1 = b
      OBVIOUS
    <3> QED  BY <3>1, <1>4 DEF Upto
  <2> QED  BY <2>1
<1>7. Upto(0) = 0 /\ Emitted = Upto(B)
  <2>1. 0 .. 0-1 = {}
    OBVIOUS
  <2> QED  BY <2>1, <1>1, SumEmpty DEF Upto, Emitted
<1>8. \A a \in 0 .. B : \A c \in a .. B :
        /\ Upto(a) <= Upto(c)
        /\ Upto(c) = Upto(a) + SumFunctionOnSet(vlen, a .. c-1)
  <2>1. ASSUME NEW a \in 0 .. B, NEW c \in a .. B
        PROVE  Upto(a) <= Upto(c) /\ Upto(c) = Upto(a) + SumFunctionOnSet(vlen, a .. c-1)
    <3>1. c \in 0 .. B
      BY <1>1
    <3>2. Upto(c) = Upto(a) + SumFunctionOnSet(vlen, a .. c-1) /\ SumFunctionOnSet(vlen, a .. c-1) \in Nat
      BY <1>4 DEF Upto
    <3>3. Upto(a) \in Nat /\ Upto(c) \in Nat
      BY <3>1, <1>5
    <3> QED  BY <3>2, <3>3
  <2> QED  BY <2>1
<1> DEFINE Good == {b \in 0 .. B : Upto(b) <= b * (S+1)}
<1>9. ASSUME NEW b \in 0 .. B, \A k \in 0 .. b-1 : k \in Good PROVE b \in Good
  <2>1. CASE b = 0
    BY <2>1, <1>1, <1>7
  <2>2. CASE b # 0
    <3>1. b-1 \in 0 .. B-1 /\ b-1 \in 0 .. b-1 /\ b-1+1 = b
      BY <2>2, <1>1
    <3>2. Upto(b-1) <= (b-1) * (S+1) /\ Upto(b) = Upto(b-1) + vlen[b-1] /\ vlen[b-1] <= S+1
      BY <3>1, <1>2, <1>6, <1>9
    <3>3. b * (S+1) = (b-1) * (S+1) + (S+1) /\ (b-1) * (S+1) \in Int /\ b * (S+1) \in Int
      BY <1>1
    <3>4. Upto(b-1) \in Nat /\ vlen[b-1] \in Nat
      <4>1. b-1 \in 0 .. B
        BY <3>1, <1>1
      <4> QED  BY <3>1, <4>1, <1>3, <1>5
    <3> QED  BY <3>2, <3>3, <3>4, <1>1
  <2> QED  BY <2>1, <2>2
<1>10. 0 .. B \subseteq Good
  <2> HIDE DEF Good
  <2> QED  BY <1>1, <1>9, IntervalInduction
<1>11. \A b \in 0 .. B : Upto(b) <= b * (S+1)
  BY <1>10
<1> QED  BY <1>1, <1>2, <1>5, <1>6, <1>7, <1>8, <1>11

\* The chunks are consecutive.
LEMMA ChunksAre ==
  ASSUME BatchAssumption, GivenInv
  PROVE  /\ NThreads \in Nat \ {0} /\ PerChunk \in Nat /\ 0 \in Thread
         /\ \A th \in 0 .. NThreads : From(th) \in 0 .. B
         /\ From(0) = 0
         /\ \A th \in Thread : /\ th \in Nat /\ th \in 0 .. NThreads /\ th+1 \in 0 .. NThreads
                               /\ From(th) <= From(th+1)
                               /\ RequestChunk(th) = From(th) .. From(th+1)-1
         /\ \A b \in Req : \E th \in Thread : b \in RequestChunk(th)
         /\ \A th, o \in Thread : th # o => RequestChunk(th) \cap RequestChunk(o) = {}
<1>1. B \in Nat /\ Req = 0 .. B-1 /\ NThreads \in Nat \ {0} /\ Thread = 0 .. NThreads-1
  BY BatchIs, TokenIs DEF Req, Thread
<1> DEFINE c == PerChunk
<1>2. c \in Nat /\ B <= NThreads * c
  <2> DEFINE a == B + NThreads-1
  <2>1. a \in Nat
    BY <1>1
  <2>2. a \div NThreads \in Nat /\ a % NThreads \in 0 .. NThreads-1
        /\ a = NThreads * (a \div NThreads) + (a % NThreads)
    <3> HIDE DEF a
    <3> QED  BY <1>1, <2>1, Division
  <2>3. c = a \div NThreads
    BY DEF PerChunk
  <2> HIDE DEF c
  <2>4. NThreads * c \in Int
    BY <1>1, <2>2, <2>3
  <2> QED  BY <1>1, <2>2, <2>3, <2>4
<1>3. \A th \in Nat : th * c \in Nat /\ (th+1) * c = th * c + c
  <2> HIDE DEF c
  <2> QED  BY <1>2
<1>4. \A th \in 0 .. NThreads : From(th) \in 0 .. B
  <2>1. \A th \in 0 .. NThreads : th * c \in Nat
    <3>1. 0 .. NThreads \subseteq Nat
      BY <1>1
    <3> HIDE DEF c
    <3> QED  BY <3>1, <1>3
  <2> QED  BY <1>1, <2>1 DEF From
<1>5. From(0) = 0
  BY <1>1, <1>2 DEF From
<1>6. ASSUME NEW th \in Thread
      PROVE  /\ th \in Nat /\ th \in 0 .. NThreads /\ th+1 \in 0 .. NThreads
             /\ From(th) <= From(th+1) /\ RequestChunk(th) = From(th) .. From(th+1)-1
  <2>1. th \in Nat /\ th \in 0 .. NThreads /\ th+1 \in 0 .. NThreads
    BY <1>1
  <2>2. th * c \in Nat /\ (th+1) * c = th * c + c
    BY <2>1, <1>3
  <2>3. RequestChunk(th) = {b \in Req : th * c <= b /\ b < th * c + c}
    BY DEF RequestChunk, PerChunk
  <2>4. /\ From(th) = (IF th * c < B THEN th * c ELSE B)
        /\ From(th+1) = (IF (th+1) * c < B THEN (th+1) * c ELSE B)
    BY DEF From
  <2> HIDE DEF c
  <2> DEFINE x == th * c
  <2>5. /\ x \in Nat /\ (th+1) * c = x + c /\ RequestChunk(th) = {b \in Req : x <= b /\ b < x + c}
        /\ From(th) = (IF x < B THEN x ELSE B) /\ From(th+1) = (IF x + c < B THEN x + c ELSE B)
    BY <2>2, <2>3, <2>4
  <2> HIDE DEF x
  <2>6. From(th) <= From(th+1)
    BY <2>5, <1>1, <1>2
  <2>7. RequestChunk(th) = From(th) .. From(th+1)-1
    BY <2>5, <1>1, <1>2
  <2> QED  BY <2>1, <2>6, <2>7
<1>7. ASSUME NEW b \in Req PROVE \E th \in Thread : b \in RequestChunk(th)
  <2>1. c # 0
    <3> HIDE DEF c
    <3>1. c = 0 => NThreads * c = 0
      BY <1>1
    <3> QED  BY <3>1, <1>1, <1>2
  <2> HIDE DEF c
  <2> DEFINE th == b \div c
  <2>2. b \in Nat /\ c \in Nat \ {0} /\ b < NThreads * c
    BY <2>1, <1>1, <1>2
  <2>3. b \in 0 .. NThreads * c - 1
    BY <2>2, <1>1
  <2>4. th \in 0 .. NThreads-1 /\ b % c \in 0 .. c-1 /\ b = th * c + (b % c)
    BY <2>2, <2>3, <1>1, RowAndColumn
  <2> HIDE DEF th
  <2>5. th \in Thread /\ th * c \in Nat
    BY <2>4, <1>1, <1>3
  <2>6. th * c <= b /\ b < th * c + c
    BY <2>4, <2>5, <2>2
  <2>7. b \in RequestChunk(th)
    BY <2>6 DEF RequestChunk, c, PerChunk
  <2> QED  BY <2>5, <2>7
<1>8. ASSUME NEW th \in Thread, NEW o \in Thread, th # o PROVE RequestChunk(th) \cap RequestChunk(o) = {}
  <2>1. ASSUME NEW b \in RequestChunk(th), b \in RequestChunk(o) PROVE FALSE
    <3>1. b \in Req /\ th * c <= b /\ b < th * c + c /\ o * c <= b /\ b < o * c + c
      BY <2>1 DEF RequestChunk, PerChunk
    <3> HIDE DEF c
    <3>2. c \in Nat \ {0} /\ b \in Nat
      <4>1. th * c \in Nat /\ b \in Nat
        BY <1>1, <1>3, <3>1
      <4> QED  BY <4>1, <3>1, <1>2
    <3>3. ASSUME NEW x \in Thread, x * c <= b, b < x * c + c PROVE c * x + (b - x * c) = b /\ b - x * c \in 0 .. c-1
      <4>1. x * c \in Nat /\ c * x = x * c
        BY <1>1, <1>3, <3>2
      <4> QED  BY <4>1, <3>2, <3>3
    <3>4. c * th + (b - th * c) = c * o + (b - o * c) /\ b - th * c \in 0 .. c-1 /\ b - o * c \in 0 .. c-1
      BY <3>1, <3>3
    <3>5. th \in Int /\ o \in Int
      BY <1>1
    <3>6. th = o
      BY <3>2, <3>4, <3>5, DivisionUnique
    <3> QED  BY <3>6, <1>8
  <2> QED  BY <2>1
<1> QED  BY <1>1, <1>2, <1>4, <1>5, <1>6, <1>7, <1>8

\* What a thread adds up for a request of its chunk.
LEMMA RunIs ==
  ASSUME BatchAssumption, GivenInv, OutInv, Compacts, NEW th \in Thread, NEW b \in RequestChunk(th)
  PROVE  b \in 0 .. B-1 /\ Run(th, b) = Upto(b)
<1>1. /\ B \in Nat /\ \A x \in 0 .. B-1 : vlen[x] \in Nat
      /\ \A a \in 0 .. B : \A c \in a .. B : Upto(c) = Upto(a) + SumFunctionOnSet(vlen, a .. c-1)
      /\ \A a \in 0 .. B : Upto(a) \in Nat
  BY LengthsAre
<1>2. /\ NThreads \in Nat \ {0} /\ From(0) = 0 /\ th \in Nat
      /\ \A o \in 0 .. NThreads : From(o) \in 0 .. B
      /\ \A o \in Thread : /\ o \in 0 .. NThreads /\ o+1 \in 0 .. NThreads
                           /\ From(o) <= From(o+1) /\ RequestChunk(o) = From(o) .. From(o+1)-1
  BY ChunksAre
<1>3. Thread = 0 .. NThreads-1
  BY DEF Thread
<1> DEFINE first == [h \in 0 .. th |-> From(h)]
<1>4. \A h \in 0 .. th-1 : h \in Thread
  BY <1>2, <1>3
<1>5. first \in [0 .. th -> 0 .. B] /\ first[0] = 0
  <2>1. \A h \in 0 .. th : h \in 0 .. NThreads
    BY <1>2, <1>3
  <2> QED  BY <2>1, <1>2
<1>6. ASSUME NEW h \in 0 .. th-1
      PROVE  first[h] <= first[h+1] /\ ChunkSums[h] = SumFunctionOnSet(vlen, first[h] .. first[h+1]-1)
  <2>1. h \in Thread /\ first[h] = From(h) /\ first[h+1] = From(h+1)
    BY <1>2, <1>4
  <2>2. From(h) <= From(h+1) /\ RequestChunk(h) = From(h) .. From(h+1)-1
    BY <2>1, <1>2
  <2>3. ChunkSums[h] = SumFunctionOnSet(vlen, RequestChunk(h))
    BY <2>1 DEF ChunkSums
  <2> HIDE DEF first
  <2> QED  BY <2>1, <2>2, <2>3
<1>7. first[th] = From(th)
  BY <1>2
<1> HIDE DEF first
<1>8. Base(th) = Upto(From(th))
  <2>1. SumFunctionOnSet(ChunkSums, 0 .. th-1) = SumFunctionOnSet(vlen, 0 .. first[th]-1)
    <3>1. B \in Nat
      BY <1>1
    <3>4. th \in Nat
      BY <1>2
    <3>5. \A x \in 0 .. B-1 : vlen[x] \in Nat
      BY <1>1
    <3>6. first \in [0 .. th -> 0 .. B]
      BY <1>5
    <3>7. first[0] = 0
      BY <1>5
    <3>2. \A h \in 0 .. th-1 : first[h] <= first[h+1]
      BY <1>6
    <3>3. \A h \in 0 .. th-1 : ChunkSums[h] = SumFunctionOnSet(vlen, first[h] .. first[h+1]-1)
      BY <1>6
    <3>8. AddsSpans(ChunkSums, vlen, B, th, first)
      BY <3>1, <3>2, <3>3, <3>4, <3>5, <3>6, <3>7 DEF AddsSpans
    <3> QED  BY <3>8, SumOfSpans
  <2> QED  BY <2>1, <1>7 DEF Base, Upto
<1>9. b \in From(th) .. From(th+1)-1 /\ b \in 0 .. B-1 /\ From(th) \in 0 .. B /\ b \in From(th) .. B
  <2>1. From(th) \in 0 .. B /\ From(th+1) \in 0 .. B /\ RequestChunk(th) = From(th) .. From(th+1)-1
    BY <1>2
  <2>2. b \in From(th) .. From(th+1)-1 /\ B \in Nat
    BY <2>1, <1>1
  <2> QED  BY <2>1, <2>2
<1>10. {c \in RequestChunk(th) : c < b} = From(th) .. b-1
  <2>1. RequestChunk(th) = From(th) .. From(th+1)-1 /\ From(th+1) \in Int
    BY <1>2, <1>3
  <2>2. From(th) \in Int /\ b \in Int /\ b \in From(th) .. From(th+1)-1
    BY <1>1, <1>9
  <2> QED  BY <2>1, <2>2
<1>11. Upto(b) = Upto(From(th)) + SumFunctionOnSet(vlen, From(th) .. b-1)
  BY <1>1, <1>9
<1> QED  BY <1>8, <1>9, <1>10, <1>11 DEF Run

\* No two tokens share a place, and each place before the end is one's.
LEMMA OnePlace ==
  ASSUME BatchAssumption, GivenInv, OutInv, Compacts
  PROVE  /\ \A b \in 0 .. B-1 : \A jj \in 0 .. vlen[b]-1 :
              Upto(b) + jj \in 0 .. B*(S+1)-1 /\ Upto(b) + jj < Emitted
         /\ \A b, c \in 0 .. B-1 : \A jj \in 0 .. vlen[b]-1, k \in 0 .. vlen[c]-1 :
              Upto(b) + jj = Upto(c) + k => b = c /\ jj = k
         /\ \A i \in 0 .. Emitted-1 : \E b \in 0 .. B-1 : \E jj \in 0 .. vlen[b]-1 : i = Upto(b) + jj
<1>1. /\ B \in Nat /\ S \in Nat /\ Emitted = Upto(B) /\ Upto(0) = 0
      /\ \A b \in 0 .. B-1 : vlen[b] \in 1 .. S+1 /\ Upto(b+1) = Upto(b) + vlen[b]
      /\ \A b \in 0 .. B : Upto(b) \in Nat /\ Upto(b) <= b * (S+1)
      /\ \A a \in 0 .. B : \A c \in a .. B : Upto(a) <= Upto(c)
  BY LengthsAre
<1>2. ASSUME NEW b \in 0 .. B-1, NEW jj \in 0 .. vlen[b]-1
      PROVE  /\ Upto(b) \in Nat /\ jj \in Nat /\ Upto(b+1) \in Nat /\ Upto(b) + jj < Upto(b+1)
             /\ Upto(b) + jj \in 0 .. B*(S+1)-1 /\ Upto(b) + jj < Emitted
  <2>1. b \in 0 .. B /\ b+1 \in 0 .. B /\ B \in b+1 .. B /\ B \in 0 .. B
    BY <1>1
  <2>2. vlen[b] \in Nat /\ Upto(b+1) = Upto(b) + vlen[b]
    BY <1>1
  <2>3. /\ Upto(b) \in Nat /\ Upto(b+1) \in Nat /\ Upto(B) \in Nat
        /\ Upto(b+1) <= Upto(B) /\ Upto(B) <= B * (S+1)
    BY <2>1, <1>1
  <2>4. B * (S+1) \in Int
    BY <1>1
  <2> QED  BY <2>2, <2>3, <2>4, <1>1
<1>3. ASSUME NEW b \in 0 .. B-1, NEW c \in 0 .. B-1, NEW jj \in 0 .. vlen[b]-1, NEW k \in 0 .. vlen[c]-1,
             b < c
      PROVE  Upto(b) + jj # Upto(c) + k
  <2>1. b+1 \in 0 .. B /\ c \in b+1 .. B
    BY <1>1, <1>3
  <2>2. Upto(b+1) <= Upto(c)
    BY <2>1, <1>1
  <2> QED  BY <2>2, <1>2
<1>4. ASSUME NEW b \in 0 .. B-1, NEW c \in 0 .. B-1, NEW jj \in 0 .. vlen[b]-1, NEW k \in 0 .. vlen[c]-1,
             Upto(b) + jj = Upto(c) + k
      PROVE  b = c /\ jj = k
  <2>1. ~(b < c) /\ ~(c < b)
    BY <1>3, <1>4
  <2>2. b = c
    BY <2>1
  <2>3. Upto(b) \in Nat /\ jj \in Nat /\ k \in Nat
    BY <1>2
  <2> QED  BY <1>4, <2>2, <2>3
<1>5. ASSUME NEW i \in 0 .. Emitted-1
      PROVE  \E b \in 0 .. B-1 : \E jj \in 0 .. vlen[b]-1 : i = Upto(b) + jj
  <2> DEFINE L == {b \in 0 .. B : Upto(b) <= i}
  <2>1. B \in 0 .. B /\ 0 \in L /\ Emitted \in Nat /\ i \in Nat /\ i < Upto(B)
    BY <1>1
  <2>2. PICK b \in L : \A c \in L : c <= b
    <3>1. L \subseteq 0 .. B /\ L # {} /\ B \in Nat
      BY <1>1, <2>1
    <3> HIDE DEF L
    <3> QED  BY <3>1, GreatestOf
  <2>3. b \in 0 .. B /\ Upto(b) <= i
    OBVIOUS
  <2>4. b # B
    <3>1. Upto(B) \in Nat
      BY <1>1, <2>1
    <3> QED  BY <2>1, <2>3, <3>1
  <2>5. b \in 0 .. B-1 /\ b+1 \in 0 .. B
    BY <1>1, <2>3, <2>4
  <2>6. ~(Upto(b+1) <= i)
    BY <2>2, <2>5
  <2>7. Upto(b) \in Nat /\ Upto(b+1) = Upto(b) + vlen[b] /\ vlen[b] \in Nat
    BY <1>1, <2>3, <2>5
  <2>8. i - Upto(b) \in 0 .. vlen[b]-1 /\ i = Upto(b) + (i - Upto(b))
    BY <2>1, <2>3, <2>6, <2>7
  <2> QED  BY <2>5, <2>8
<1>6. \A b \in 0 .. B-1 : \A jj \in 0 .. vlen[b]-1 :
        Upto(b) + jj \in 0 .. B*(S+1)-1 /\ Upto(b) + jj < Emitted
  BY <1>2
<1> QED  BY <1>4, <1>5, <1>6

Placed(b) ==
  /\ cu_accepted[b] = Upto(b)
  /\ \A jj \in 0 .. vlen[b]-1 : /\ packed_tokens[Upto(b) + jj] = draft_out[b][jj]
                               /\ packed_pos[Upto(b) + jj] = batch.seq_lens[b] + jj

Packed(th) == (\A b \in RequestChunk(th) : Placed(b)) /\ (th = 0 => cu_accepted[B] = Emitted)

ClearTail(th) == \A i \in DOMAIN packed_tokens : InTail(th, i) => packed_tokens[i] = -1

PackInv ==
  /\ DOMAIN packed_tokens = 0 .. B*(S+1)-1 /\ DOMAIN packed_pos = 0 .. B*(S+1)-1
  /\ accepted_cnt \in [Req -> Int] /\ compact_pc \in [Thread -> {"emit", "fill", "done"}]
  /\ stage = "recover" => batch.kind = "ragged"
  /\ stage = "compact" => batch.kind = "linear"
  /\ stage \in {"recover", "verify"} => \A th \in Thread : compact_pc[th] = "emit"
  /\ Compacts => \A th \in Thread : (compact_pc[th] # "emit" => Packed(th)) /\ (compact_pc[th] = "done" => ClearTail(th))
  /\ Compacts /\ stage # "compact" => \A th \in Thread : compact_pc[th] = "done"

LEMMA EmitIs ==
  ASSUME BatchAssumption, GivenInv, OutInv, Compacts, PackInv, NEW th \in Thread, EmitChunk(th)
  PROVE  /\ \A b \in RequestChunk(th) : \A jj \in 0 .. vlen[b]-1 :
              /\ packed_tokens'[Upto(b) + jj] = draft_out[b][jj]
              /\ packed_pos'[Upto(b) + jj] = batch.seq_lens[b] + jj
         /\ \A i \in 0 .. B*(S+1)-1 :
              (\A b \in RequestChunk(th) : \A jj \in 0 .. vlen[b]-1 : i # Upto(b) + jj)
                => packed_tokens'[i] = packed_tokens[i] /\ packed_pos'[i] = packed_pos[i]
         /\ \A b \in RequestChunk(th) : cu_accepted'[b] = Upto(b)
         /\ \A b \in 0 .. B-1 : b \notin RequestChunk(th) => cu_accepted'[b] = cu_accepted[b]
         /\ cu_accepted'[B] = IF th = 0 THEN Emitted ELSE cu_accepted[B]
         /\ DOMAIN packed_tokens' = DOMAIN packed_tokens /\ DOMAIN packed_pos' = DOMAIN packed_pos
<1>1. /\ B \in Nat /\ S \in Nat /\ RequestChunk(th) \subseteq 0 .. B-1
      /\ DOMAIN packed_tokens = 0 .. B*(S+1)-1 /\ DOMAIN packed_pos = 0 .. B*(S+1)-1
  BY LengthsAre DEF RequestChunk, PackInv
<1>2. /\ \A b \in RequestChunk(th) : Run(th, b) = Upto(b)
      /\ \A b \in RequestChunk(th) : \A jj \in 0 .. vlen[b]-1 : Upto(b) + jj \in 0 .. B*(S+1)-1
      /\ \A b, c \in RequestChunk(th) : \A jj \in 0 .. vlen[b]-1, k \in 0 .. vlen[c]-1 :
              Upto(b) + jj = Upto(c) + k => b = c /\ jj = k
  BY <1>1, OnePlace, RunIs
<1> DEFINE cells == UNION {{<<b, jj>> : jj \in 0 .. vlen[b]-1} : b \in RequestChunk(th)}
           at(i) == {c \in cells : Run(th, c[1]) + c[2] = i}
           of(i) == CHOOSE c \in at(i) : TRUE
<1>3. /\ packed_tokens' = [i \in DOMAIN packed_tokens |->
                             IF at(i) = {} THEN packed_tokens[i] ELSE draft_out[of(i)[1]][of(i)[2]]]
      /\ packed_pos' = [i \in DOMAIN packed_pos |->
                          IF at(i) = {} THEN packed_pos[i] ELSE batch.seq_lens[of(i)[1]] + of(i)[2]]
      /\ cu_accepted' = [b \in 0 .. B |-> IF b \in RequestChunk(th) THEN Run(th, b)
                                          ELSE IF b = B /\ th = 0 THEN Emitted ELSE cu_accepted[b]]
  BY DEF EmitChunk
<1>4. ASSUME NEW i, NEW b \in RequestChunk(th), NEW jj \in 0 .. vlen[b]-1, i = Upto(b) + jj
      PROVE  at(i) # {} /\ of(i) = <<b, jj>>
  <2>1. <<b, jj>> \in cells
    OBVIOUS
  <2>2. <<b, jj>> \in at(i)
    BY <2>1, <1>2, <1>4
  <2>3. ASSUME NEW c \in at(i) PROVE c = <<b, jj>>
    <3>1. PICK d \in RequestChunk(th) : \E k \in 0 .. vlen[d]-1 : c = <<d, k>>
      OBVIOUS
    <3>2. PICK k \in 0 .. vlen[d]-1 : c = <<d, k>>
      BY <3>1
    <3>3. Run(th, d) + k = i
      <4>1. Run(th, c[1]) + c[2] = i
        OBVIOUS
      <4> QED  BY <3>2, <4>1
    <3>4. Upto(d) + k = Upto(b) + jj
      BY <3>3, <1>2, <1>4
    <3> QED  BY <3>2, <3>4, <1>2
  <2> HIDE DEF at
  <2> QED  BY <2>2, <2>3
<1>5. ASSUME NEW i, \A b \in RequestChunk(th) : \A jj \in 0 .. vlen[b]-1 : i # Upto(b) + jj PROVE at(i) = {}
  <2>1. ASSUME NEW c \in at(i) PROVE FALSE
    <3>1. PICK d \in RequestChunk(th) : \E k \in 0 .. vlen[d]-1 : c = <<d, k>>
      OBVIOUS
    <3>2. PICK k \in 0 .. vlen[d]-1 : c = <<d, k>>
      BY <3>1
    <3>3. Run(th, d) + k = i
      <4>1. Run(th, c[1]) + c[2] = i
        OBVIOUS
      <4> QED  BY <3>2, <4>1
    <3> QED  BY <3>3, <1>2, <1>5
  <2> HIDE DEF at
  <2> QED  BY <2>1
<1> HIDE DEF at, of, cells
<1>6. ASSUME NEW b \in RequestChunk(th), NEW jj \in 0 .. vlen[b]-1
      PROVE  /\ packed_tokens'[Upto(b) + jj] = draft_out[b][jj]
             /\ packed_pos'[Upto(b) + jj] = batch.seq_lens[b] + jj
  <2> DEFINE i == Upto(b) + jj
  <2>1. i \in 0 .. B*(S+1)-1
    BY <1>2
  <2>2. at(i) # {} /\ of(i) = <<b, jj>>
    BY <1>4
  <2> HIDE DEF i
  <2>3. of(i)[1] = b /\ of(i)[2] = jj
    BY <2>2
  <2>4. packed_tokens'[i] = draft_out[b][jj] /\ packed_pos'[i] = batch.seq_lens[b] + jj
    BY <2>1, <2>2, <2>3, <1>1, <1>3
  <2> QED  BY <2>4 DEF i
<1>7. ASSUME NEW i \in 0 .. B*(S+1)-1, \A b \in RequestChunk(th) : \A jj \in 0 .. vlen[b]-1 : i # Upto(b) + jj
      PROVE  packed_tokens'[i] = packed_tokens[i] /\ packed_pos'[i] = packed_pos[i]
  BY <1>7, <1>5, <1>1, <1>3
<1>8. \A b \in 0 .. B : cu_accepted'[b] = IF b \in RequestChunk(th) THEN Run(th, b)
                                          ELSE IF b = B /\ th = 0 THEN Emitted ELSE cu_accepted[b]
  BY <1>3
<1>9. \A b \in RequestChunk(th) : cu_accepted'[b] = Upto(b)
  BY <1>1, <1>2, <1>8
<1>10. \A b \in 0 .. B-1 : b \notin RequestChunk(th) => cu_accepted'[b] = cu_accepted[b]
  BY <1>1, <1>8
<1>11. cu_accepted'[B] = IF th = 0 THEN Emitted ELSE cu_accepted[B]
  BY <1>1, <1>8
<1> QED  BY <1>3, <1>6, <1>7, <1>9, <1>10, <1>11

LEMMA SamePlaces ==
  ASSUME UNCHANGED <<given, accepted_cnt>>
  PROVE  /\ B' = B /\ S' = S /\ Req' = Req /\ vlen' = vlen /\ Emitted' = Emitted
         /\ \A b : Upto(b)' = Upto(b)
         /\ \A th : RequestChunk(th)' = RequestChunk(th)
         /\ \A th, i : InTail(th, i)' <=> InTail(th, i)
<1>1. B' = B /\ S' = S /\ Req' = Req
  BY SameGiven
<1>2. vlen' = vlen
  BY <1>1 DEF vlen
<1>3. Emitted' = Emitted /\ \A b : Upto(b)' = Upto(b)
  BY <1>1, <1>2 DEF Emitted, Upto
<1>4. \A th : RequestChunk(th)' = RequestChunk(th)
  BY <1>1 DEF RequestChunk
<1>5. \A th, i : InTail(th, i)' <=> InTail(th, i)
  BY <1>3 DEF InTail
<1> QED  BY <1>1, <1>2, <1>3, <1>4, <1>5

LEMMA EmitKeeps ==
  ASSUME BatchAssumption, GivenInv, OutInv, PackInv, NEW th \in Thread, EmitChunk(th)
  PROVE  PackInv'
<1>1. /\ stage = "compact" /\ stage' = stage /\ compact_pc[th] = "emit" /\ compact_pc' = [compact_pc EXCEPT ![th] = "fill"]
      /\ UNCHANGED <<given, accepted_cnt, draft_out>>
  BY DEF EmitChunk, Advance
<1>2. Compacts /\ batch' = batch /\ batch.kind = "linear"
  BY <1>1 DEF PackInv, Compacts, After, given
<1>3. /\ B' = B /\ S' = S /\ Req' = Req /\ vlen' = vlen /\ Emitted' = Emitted
      /\ \A b : Upto(b)' = Upto(b)
      /\ \A o : RequestChunk(o)' = RequestChunk(o)
      /\ \A o, i : InTail(o, i)' <=> InTail(o, i)
  BY <1>1, SamePlaces
<1>4. /\ \A b \in 0 .. B-1 : \A jj \in 0 .. vlen[b]-1 :
              Upto(b) + jj \in 0 .. B*(S+1)-1 /\ Upto(b) + jj < Emitted
      /\ \A b, c \in 0 .. B-1 : \A jj \in 0 .. vlen[b]-1, k \in 0 .. vlen[c]-1 :
              Upto(b) + jj = Upto(c) + k => b = c /\ jj = k
  BY <1>2, OnePlace
<1>5. /\ \A b \in RequestChunk(th) : \A jj \in 0 .. vlen[b]-1 :
              /\ packed_tokens'[Upto(b) + jj] = draft_out[b][jj]
              /\ packed_pos'[Upto(b) + jj] = batch.seq_lens[b] + jj
      /\ \A i \in 0 .. B*(S+1)-1 :
              (\A b \in RequestChunk(th) : \A jj \in 0 .. vlen[b]-1 : i # Upto(b) + jj)
                => packed_tokens'[i] = packed_tokens[i] /\ packed_pos'[i] = packed_pos[i]
      /\ \A b \in RequestChunk(th) : cu_accepted'[b] = Upto(b)
      /\ \A b \in 0 .. B-1 : b \notin RequestChunk(th) => cu_accepted'[b] = cu_accepted[b]
      /\ cu_accepted'[B] = IF th = 0 THEN Emitted ELSE cu_accepted[B]
      /\ DOMAIN packed_tokens' = DOMAIN packed_tokens /\ DOMAIN packed_pos' = DOMAIN packed_pos
  BY <1>2, EmitIs
<1>6. /\ B \in Nat /\ Req = 0 .. B-1
      /\ \A o \in Thread : RequestChunk(o) \subseteq 0 .. B-1
      /\ \A o \in Thread : th # o => RequestChunk(th) \cap RequestChunk(o) = {}
  <2>1. B \in Nat /\ Req = 0 .. B-1
    BY <1>2, LengthsAre
  <2> QED  BY <2>1, ChunksAre DEF RequestChunk
<1>7. /\ DOMAIN packed_tokens = 0 .. B*(S+1)-1 /\ DOMAIN packed_pos = 0 .. B*(S+1)-1
      /\ accepted_cnt \in [Req -> Int] /\ compact_pc \in [Thread -> {"emit", "fill", "done"}]
      /\ \A o \in Thread : (compact_pc[o] # "emit" => Packed(o)) /\ (compact_pc[o] = "done" => ClearTail(o))
  BY <1>2 DEF PackInv
<1>8. \A b \in RequestChunk(th) : Placed(b)'
  BY <1>1, <1>2, <1>3, <1>5 DEF Placed
<1>9. ASSUME NEW o \in Thread, o # th, compact_pc[o] # "emit" PROVE Packed(o)'
  <2>1. Packed(o)
    BY <1>7, <1>9
  <2>2. ASSUME NEW b \in RequestChunk(o) PROVE Placed(b)'
    <3>1. Placed(b) /\ b \in 0 .. B-1 /\ b \notin RequestChunk(th)
      BY <2>1, <1>6, <1>9 DEF Packed
    <3>2. cu_accepted'[b] = Upto(b)
      BY <3>1, <1>5 DEF Placed
    <3>3. ASSUME NEW jj \in 0 .. vlen[b]-1
          PROVE  packed_tokens'[Upto(b) + jj] = draft_out[b][jj] /\ packed_pos'[Upto(b) + jj] = batch.seq_lens[b] + jj
      <4> DEFINE i == Upto(b) + jj
      <4>1. i \in 0 .. B*(S+1)-1
        BY <3>1, <1>4
      <4>2. \A c \in RequestChunk(th) : \A k \in 0 .. vlen[c]-1 : i # Upto(c) + k
        <5>1. ASSUME NEW c \in RequestChunk(th), NEW k \in 0 .. vlen[c]-1, i = Upto(c) + k PROVE FALSE
          <6>1. c \in 0 .. B-1
            BY <1>6
          <6>2. b = c
            BY <5>1, <6>1, <3>1, <1>4
          <6> QED  BY <6>2, <3>1
        <5> QED  BY <5>1
      <4>3. packed_tokens[i] = draft_out[b][jj] /\ packed_pos[i] = batch.seq_lens[b] + jj
        BY <3>1 DEF Placed
      <4> HIDE DEF i
      <4>4. packed_tokens'[i] = draft_out[b][jj] /\ packed_pos'[i] = batch.seq_lens[b] + jj
        BY <4>1, <4>2, <4>3, <1>5
      <4> QED  BY <4>4 DEF i
    <3> QED  BY <3>2, <3>3, <1>1, <1>2, <1>3 DEF Placed
  <2>3. o = 0 => cu_accepted'[B] = Emitted
    BY <2>1, <1>5, <1>9 DEF Packed
  <2> QED  BY <2>2, <2>3, <1>3 DEF Packed
<1>10. Packed(th)'
  BY <1>3, <1>5, <1>8 DEF Packed
<1>11. ASSUME NEW o \in Thread, compact_pc[o] = "done" PROVE ClearTail(o)'
  <2>1. SUFFICES ASSUME NEW i \in DOMAIN packed_tokens, InTail(o, i) PROVE packed_tokens'[i] = -1
    BY <1>3, <1>5 DEF ClearTail
  <2>2. packed_tokens[i] = -1 /\ i \in 0 .. B*(S+1)-1 /\ i >= Emitted
    BY <2>1, <1>7, <1>11 DEF ClearTail, InTail
  <2>3. \A c \in RequestChunk(th) : \A k \in 0 .. vlen[c]-1 : i # Upto(c) + k
    <3>1. ASSUME NEW c \in RequestChunk(th), NEW k \in 0 .. vlen[c]-1 PROVE i # Upto(c) + k
      <4>1. c \in 0 .. B-1
        BY <1>6
      <4>2. Upto(c) + k < Emitted /\ Upto(c) + k \in Int /\ Emitted \in Int
        <5>1. Emitted \in Int
          BY <1>2, <1>6, LengthsAre
        <5> QED  BY <4>1, <5>1, <1>4
      <4> QED  BY <4>2, <2>2
    <3> QED  BY <3>1
  <2> QED  BY <2>2, <2>3, <1>5
<1>12. ASSUME NEW o \in Thread
       PROVE  (compact_pc'[o] # "emit" => Packed(o)') /\ (compact_pc'[o] = "done" => ClearTail(o)')
  <2>1. compact_pc'[o] = IF o = th THEN "fill" ELSE compact_pc[o]
    BY <1>1, <1>7
  <2> QED  BY <2>1, <1>9, <1>10, <1>11
<1>13. compact_pc' \in [Thread -> {"emit", "fill", "done"}] /\ accepted_cnt' \in [Req -> Int]
  BY <1>1, <1>7
<1> QED  BY <1>1, <1>2, <1>3, <1>5, <1>7, <1>12, <1>13 DEF PackInv

LEMMA FillKeeps ==
  ASSUME BatchAssumption, GivenInv, OutInv, PackInv, NEW th \in Thread, FillUnused(th)
  PROVE  PackInv'
<1>1. /\ stage = "compact" /\ stage' = stage /\ compact_pc[th] = "fill" /\ compact_pc' = [compact_pc EXCEPT ![th] = "done"]
      /\ UNCHANGED <<given, accepted_cnt, draft_out, cu_accepted>>
      /\ packed_tokens' = [i \in DOMAIN packed_tokens |-> IF InTail(th, i) THEN -1 ELSE packed_tokens[i]]
      /\ packed_pos' = [i \in DOMAIN packed_pos |-> IF InTail(th, i) THEN -1 ELSE packed_pos[i]]
  BY DEF FillUnused, Advance
<1>2. Compacts /\ batch' = batch /\ batch.kind = "linear"
  BY <1>1 DEF PackInv, Compacts, After, given
<1>3. /\ B' = B /\ S' = S /\ Req' = Req /\ vlen' = vlen /\ Emitted' = Emitted
      /\ \A b : Upto(b)' = Upto(b)
      /\ \A o : RequestChunk(o)' = RequestChunk(o)
      /\ \A o, i : InTail(o, i)' <=> InTail(o, i)
  BY <1>1, SamePlaces
<1>4. /\ \A b \in 0 .. B-1 : \A jj \in 0 .. vlen[b]-1 :
              Upto(b) + jj \in 0 .. B*(S+1)-1 /\ Upto(b) + jj < Emitted
      /\ Emitted \in Int
      /\ \A o \in Thread : RequestChunk(o) \subseteq 0 .. B-1
  <2>1. B \in Nat /\ Req = 0 .. B-1 /\ Emitted \in Int
    BY <1>2, LengthsAre
  <2> QED  BY <2>1, <1>2, OnePlace DEF RequestChunk
<1>5. /\ DOMAIN packed_tokens = 0 .. B*(S+1)-1 /\ DOMAIN packed_pos = 0 .. B*(S+1)-1
      /\ accepted_cnt \in [Req -> Int] /\ compact_pc \in [Thread -> {"emit", "fill", "done"}]
      /\ \A o \in Thread : (compact_pc[o] # "emit" => Packed(o)) /\ (compact_pc[o] = "done" => ClearTail(o))
  BY <1>2 DEF PackInv
<1>6. ASSUME NEW o \in Thread, compact_pc[o] # "emit" PROVE Packed(o)'
  <2>1. Packed(o)
    BY <1>5, <1>6
  <2>2. ASSUME NEW b \in RequestChunk(o) PROVE Placed(b)'
    <3>1. Placed(b) /\ b \in 0 .. B-1
      BY <2>1, <1>4 DEF Packed
    <3>2. ASSUME NEW jj \in 0 .. vlen[b]-1
          PROVE  packed_tokens'[Upto(b) + jj] = draft_out[b][jj] /\ packed_pos'[Upto(b) + jj] = batch.seq_lens[b] + jj
      <4> DEFINE i == Upto(b) + jj
      <4>1. i \in 0 .. B*(S+1)-1 /\ i < Emitted
        BY <3>1, <1>4
      <4>2. packed_tokens[i] = draft_out[b][jj] /\ packed_pos[i] = batch.seq_lens[b] + jj
        BY <3>1 DEF Placed
      <4> HIDE DEF i
      <4>3. ~InTail(th, i)
        BY <4>1, <1>4 DEF InTail
      <4>4. packed_tokens'[i] = draft_out[b][jj] /\ packed_pos'[i] = batch.seq_lens[b] + jj
        BY <4>1, <4>2, <4>3, <1>1, <1>5
      <4> QED  BY <4>4 DEF i
    <3> QED  BY <3>1, <3>2, <1>1, <1>2, <1>3 DEF Placed
  <2> QED  BY <2>1, <2>2, <1>1, <1>3 DEF Packed
<1>7. ASSUME NEW o \in Thread, compact_pc[o] = "done" \/ o = th PROVE ClearTail(o)'
  <2>1. SUFFICES ASSUME NEW i \in DOMAIN packed_tokens, InTail(o, i) PROVE packed_tokens'[i] = -1
    BY <1>1, <1>3 DEF ClearTail
  <2>2. CASE o = th
    BY <2>1, <2>2, <1>1
  <2>3. CASE compact_pc[o] = "done"
    <3>1. packed_tokens[i] = -1
      BY <2>1, <2>3, <1>5 DEF ClearTail
    <3> QED  BY <3>1, <1>1
  <2> QED  BY <2>2, <2>3, <1>7
<1>8. ASSUME NEW o \in Thread
      PROVE  (compact_pc'[o] # "emit" => Packed(o)') /\ (compact_pc'[o] = "done" => ClearTail(o)')
  <2>1. compact_pc'[o] = (IF o = th THEN "done" ELSE compact_pc[o])
    BY <1>1, <1>5
  <2> QED  BY <2>1, <1>1, <1>6, <1>7
<1>9. compact_pc' \in [Thread -> {"emit", "fill", "done"}] /\ accepted_cnt' \in [Req -> Int]
  BY <1>1, <1>5
<1> QED  BY <1>1, <1>2, <1>3, <1>5, <1>8, <1>9 DEF PackInv

LEMMA PackedWell ==
  ASSUME BatchAssumption, GivenInv, OutInv, PackInv PROVE PackedInOrder
<1> SUFFICES ASSUME batch.kind = "linear", stage = "prepare"
             PROVE  /\ cu_accepted[0] = 0
                    /\ \A b \in Req :
                         /\ cu_accepted[b+1] - cu_accepted[b] = Length(draft_out[b])
                         /\ \A jj \in 0 .. Length(draft_out[b])-1 :
                              /\ packed_tokens[cu_accepted[b] + jj] = draft_out[b][jj]
                              /\ packed_pos[cu_accepted[b] + jj] = batch.seq_lens[b] + jj
                    /\ \A i \in DOMAIN packed_tokens : (packed_tokens[i] = -1) = (i >= cu_accepted[B])
  BY DEF PackedInOrder
<1>1. Compacts /\ \A th \in Thread : compact_pc[th] = "done"
  BY DEF PackInv, Compacts, After
<1>2. \A th \in Thread : Packed(th) /\ ClearTail(th)
  BY <1>1 DEF PackInv
<1>3. /\ B \in Nat /\ Req = 0 .. B-1
      /\ \A b \in 0 .. B-1 : /\ vlen[b] \in 1 .. S+1 /\ Length(draft_out[b]) = vlen[b]
                             /\ Upto(b+1) = Upto(b) + vlen[b]
                             /\ \A jj \in 0 .. vlen[b]-1 : draft_out[b][jj] \in DraftToken
      /\ Upto(0) = 0 /\ Emitted = Upto(B)
      /\ \A b \in 0 .. B : Upto(b) \in Nat
  BY <1>1, LengthsAre
<1>4. /\ 0 \in Thread /\ \A b \in Req : \E th \in Thread : b \in RequestChunk(th)
      /\ NThreads \in Nat \ {0} /\ Thread = 0 .. NThreads-1
  BY ChunksAre DEF Thread
<1>5. cu_accepted[B] = Emitted
  BY <1>2, <1>4 DEF Packed
<1>6. \A b \in Req : Placed(b)
  BY <1>2, <1>4 DEF Packed
<1>7. \A b \in 0 .. B : cu_accepted[b] = Upto(b)
  <2>1. ASSUME NEW b \in 0 .. B PROVE cu_accepted[b] = Upto(b)
    <3>1. b = B \/ b \in Req
      BY <1>3
    <3> QED  BY <3>1, <1>3, <1>5, <1>6 DEF Placed
  <2> QED  BY <2>1
<1>8. ASSUME NEW b \in Req
      PROVE  /\ cu_accepted[b+1] - cu_accepted[b] = Length(draft_out[b])
             /\ \A jj \in 0 .. Length(draft_out[b])-1 :
                  /\ packed_tokens[cu_accepted[b] + jj] = draft_out[b][jj]
                  /\ packed_pos[cu_accepted[b] + jj] = batch.seq_lens[b] + jj
  <2>1. b \in 0 .. B-1 /\ b \in 0 .. B /\ b+1 \in 0 .. B
    BY <1>3
  <2>2. /\ cu_accepted[b] = Upto(b) /\ cu_accepted[b+1] = Upto(b) + vlen[b]
        /\ Length(draft_out[b]) = vlen[b] /\ vlen[b] \in Int /\ Upto(b) \in Nat
    BY <2>1, <1>3, <1>7
  <2>3. Placed(b)
    BY <1>6
  <2> QED  BY <2>2, <2>3 DEF Placed
<1>9. ASSUME NEW i \in DOMAIN packed_tokens PROVE (packed_tokens[i] = -1) = (i >= cu_accepted[B])
  <2>1. i \in 0 .. B*(S+1)-1 /\ i \in Nat /\ Emitted \in Nat
    <3>1. i \in 0 .. B*(S+1)-1
      BY DEF PackInv
    <3> QED  BY <3>1, <1>3
  <2>2. CASE i >= Emitted
    <3>1. i % NThreads \in Thread
      BY <2>1, <1>4, Division
    <3>2. InTail(i % NThreads, i)
      BY <2>2 DEF InTail
    <3>3. packed_tokens[i] = -1
      BY <3>1, <3>2, <1>2 DEF ClearTail
    <3> QED  BY <3>3, <2>2, <1>5
  <2>3. CASE ~(i >= Emitted)
    <3>1. i \in 0 .. Emitted-1
      BY <2>1, <2>3
    <3>2. PICK b \in 0 .. B-1 : \E jj \in 0 .. vlen[b]-1 : i = Upto(b) + jj
      BY <3>1, <1>1, OnePlace
    <3>3. PICK jj \in 0 .. vlen[b]-1 : i = Upto(b) + jj
      BY <3>2
    <3>4. packed_tokens[i] = draft_out[b][jj] /\ draft_out[b][jj] \in DraftToken
      BY <3>3, <1>3, <1>6 DEF Placed
    <3>5. packed_tokens[i] # -1
      BY <3>4, TokenIs
    <3> QED  BY <3>5, <2>3, <1>5
  <2> QED  BY <2>2, <2>3
<1>10. cu_accepted[0] = 0
  <2>1. 0 \in 0 .. B
    BY <1>3
  <2> QED  BY <2>1, <1>3, <1>7
<1> QED  BY <1>8, <1>9, <1>10
-----------------------------------------------------------------------------
(***************************************************************************)
(* The preparation of the next drafts.  Requests that are kept go on from  *)
(* what they emitted, and a draft step writes the position after the last  *)
(* one: the slots written are those of new_seq_lens[b] and on.             *)
(***************************************************************************)
NextInv ==
  stage \in {"meta", "inputs", "expand", "step"} =>
    /\ discard \in [Req -> BOOLEAN]
    /\ \A b \in Req : IF discard[b] THEN valid_count[b] = 0
                      ELSE /\ next_token_ids[b] = draft_out[b][Length(draft_out[b])-1]
                           /\ valid_count[b] = Length(draft_out[b])

LenInv ==
  stage \in {"inputs", "expand", "step"} =>
    \A b \in Req : /\ new_seq_lens[b] \in Nat \ {0}
                   /\ ~discard[b] => new_seq_lens[b] = batch.seq_lens[b] + Length(draft_out[b])

QueryInv ==
  stage = "expand" =>
    \A b \in Req : /\ num_rejected[b] = Rejected(b)
                   /\ token_indices_to_sample[b] = query_start_loc(b+1) - 1 - Rejected(b)

SlotFor(b, p) == IF Exceeds(p) THEN Pad ELSE SlotOf(b, p)

StepInv ==
  IF stage = "step"
  THEN /\ step \in Nat
       /\ \A b \in Req :
            /\ positions[b] = new_seq_lens[b] - 1 + step
            /\ seq_lens[b] = (IF step = 0 THEN new_seq_lens[b]
                              ELSE IF positions[b] < MaxModelLen THEN positions[b] + 1 ELSE 1)
       /\ \A w \in writes : \E b \in Req : \E p \in new_seq_lens[b] .. new_seq_lens[b] + step - 1 :
            w = <<b, p, SlotFor(b, p)>>
  ELSE writes = {} /\ step = 0

PrepInv == NextInv /\ LenInv /\ QueryInv /\ StepInv

LEMMA TableIs ==
  ASSUME TableAssumption, GivenInv
  PROVE  /\ BlockSize \in Nat \ {0} /\ NBlocks \in Nat \ {0} /\ MaxModelLen \in Nat \ {0}
         /\ NSteps \in Nat \ {0} /\ InputBatch \in Nat \ {0}
         /\ MaxModelLen <= NBlocks * BlockSize /\ B <= InputBatch
<1>1. /\ {BlockSize, NBlocks, MaxModelLen, NSteps, InputBatch} \subseteq Nat \ {0}
      /\ MaxModelLen <= NBlocks * BlockSize
      /\ \A x \in Batches : Cardinality(DOMAIN x.num_draft) <= InputBatch
  BY DEF TableAssumption
<1>2. batch \in Batches
  BY DEF GivenInv
<1> QED  BY <1>1, <1>2 DEF B

\* No two positions within the model's length share a slot.
LEMMA SlotsDiffer ==
  ASSUME BatchAssumption, TableAssumption, GivenInv, NEW b \in Req, NEW c \in Req,
         NEW p \in Nat, NEW o \in Nat, p < MaxModelLen, o < MaxModelLen
  PROVE  /\ SlotOf(b, p) \in Nat /\ p \div BlockSize \in 0 .. NBlocks-1
         /\ SlotOf(b, p) = SlotOf(c, o) => b = c /\ p = o
<1>1. /\ BlockSize \in Nat \ {0} /\ NBlocks \in Nat \ {0} /\ MaxModelLen \in Nat \ {0}
      /\ InputBatch \in Nat \ {0} /\ MaxModelLen <= NBlocks * BlockSize /\ B <= InputBatch /\ B \in Nat
  BY TableIs, BatchIs
<1>2. ASSUME NEW a \in Req, NEW x \in Nat, x < MaxModelLen
      PROVE  LET k == x \div BlockSize
             IN  /\ k \in 0 .. NBlocks-1 /\ x % BlockSize \in 0 .. BlockSize-1
                 /\ x = k * BlockSize + (x % BlockSize)
                 /\ SlotOf(a, x) = block_table[a][k] * BlockSize + (x % BlockSize)
                 /\ a \in 0 .. InputBatch-1 /\ block_table[a][k] \in Nat
  <2> DEFINE k == x \div BlockSize  r == x % BlockSize
  <2>1. x \in 0 .. NBlocks * BlockSize - 1
    <3>1. NBlocks * BlockSize \in Nat
      BY <1>1
    <3> QED  BY <3>1, <1>1, <1>2
  <2>2. k \in 0 .. NBlocks-1 /\ r \in 0 .. BlockSize-1 /\ x = k * BlockSize + r
    BY <2>1, <1>1, RowAndColumn
  <2>3. SlotOf(a, x) = block_table[a][k] * BlockSize + r
    BY DEF SlotOf
  <2> HIDE DEF k, r
  <2>4. a \in 0 .. InputBatch-1
    BY <1>1 DEF Req
  <2>5. block_table[a][k] \in Nat
    <3>1. block_table \in [0 .. InputBatch-1 -> [0 .. NBlocks-1 -> Nat]]
      BY DEF TableAssumption
    <3>2. block_table[a] \in [0 .. NBlocks-1 -> Nat]
      BY <3>1, <2>4
    <3> QED  BY <3>2, <2>2
  <2> QED  BY <2>2, <2>3, <2>4, <2>5 DEF k, r
<1>3. SlotOf(b, p) \in Nat
  <2> DEFINE m == block_table[b][p \div BlockSize]  r == p % BlockSize
  <2>1. m \in Nat /\ r \in 0 .. BlockSize-1 /\ SlotOf(b, p) = m * BlockSize + r
    BY <1>2
  <2> HIDE DEF m, r
  <2>2. m * BlockSize \in Nat
    BY <2>1, <1>1
  <2> QED  BY <2>1, <2>2, <1>1
<1>4. ASSUME SlotOf(b, p) = SlotOf(c, o) PROVE b = c /\ p = o
  <2> DEFINE k == p \div BlockSize  r == p % BlockSize
             l == o \div BlockSize  s == o % BlockSize
             m == block_table[b][k]
             n == block_table[c][l]
  <2>1. /\ k \in 0 .. NBlocks-1 /\ r \in 0 .. BlockSize-1 /\ p = k * BlockSize + r
        /\ SlotOf(b, p) = m * BlockSize + r /\ m \in Nat /\ b \in 0 .. InputBatch-1
        /\ l \in 0 .. NBlocks-1 /\ s \in 0 .. BlockSize-1 /\ o = l * BlockSize + s
        /\ SlotOf(c, o) = n * BlockSize + s /\ n \in Nat /\ c \in 0 .. InputBatch-1
    BY <1>2
  <2> HIDE DEF k, r, l, s
  <2>2. m = n /\ r = s
    <3> HIDE DEF m, n
    <3>1. BlockSize * m + r = BlockSize * n + s
      BY <2>1, <1>1, <1>4
    <3> QED  BY <3>1, <2>1, <1>1, DivisionUnique
  <2>3. b = c /\ k = l
    <3>1. \A x, y \in 0 .. InputBatch-1 : \A i, j1 \in 0 .. NBlocks-1 :
            block_table[x][i] = block_table[y][j1] => x = y /\ i = j1
      BY DEF TableAssumption
    <3> QED  BY <3>1, <2>1, <2>2
  <2> QED  BY <2>1, <2>2, <2>3
<1>5. p \div BlockSize \in 0 .. NBlocks-1
  BY <1>2
<1> QED  BY <1>3, <1>4, <1>5

LEMMA OwnSlots == ASSUME BatchAssumption, TableAssumption, GivenInv, LenInv, StepInv PROVE SlotsOwned
<1>1. CASE stage # "step"
  BY <1>1 DEF StepInv, SlotsOwned
<1>2. CASE stage = "step"
  <2>1. /\ step \in Nat
        /\ \A b \in Req :
             /\ positions[b] = new_seq_lens[b] - 1 + step
             /\ seq_lens[b] = (IF step = 0 THEN new_seq_lens[b]
                               ELSE IF positions[b] < MaxModelLen THEN positions[b] + 1 ELSE 1)
        /\ \A w \in writes : \E b \in Req : \E p \in new_seq_lens[b] .. new_seq_lens[b] + step - 1 :
             w = <<b, p, SlotFor(b, p)>>
    BY <1>2 DEF StepInv
  <2>2. \A b \in Req : new_seq_lens[b] \in Nat
    BY <1>2 DEF LenInv
  <2>3. MaxModelLen \in Nat
    BY TableIs
  <2>4. \A b \in Req : \A p \in Nat : p < MaxModelLen => SlotOf(b, p) \in Nat
    BY <2>3, TableIs, SlotsDiffer
  <2>9. \A b, c \in Req : \A p, o \in Nat :
          p < MaxModelLen /\ o < MaxModelLen /\ SlotOf(b, p) = SlotOf(c, o) => b = c /\ p = o
    <3>1. ASSUME NEW b \in Req, NEW c \in Req, NEW p \in Nat, NEW o \in Nat,
                 p < MaxModelLen, o < MaxModelLen, SlotOf(b, p) = SlotOf(c, o)
          PROVE  b = c /\ p = o
      BY <3>1, SlotsDiffer
    <3> QED  BY <3>1
  <2>5. ASSUME NEW w \in writes
        PROVE  /\ w[1] \in Req /\ w[2] \in Nat /\ w[2] >= new_seq_lens[w[1]]
               /\ w = <<w[1], w[2], SlotFor(w[1], w[2])>> /\ w[3] = SlotFor(w[1], w[2])
               /\ w[3] = Pad <=> w[2] >= MaxModelLen
               /\ w[3] # Pad => w[3] = SlotOf(w[1], w[2]) /\ w[2] < MaxModelLen
    <3>1. PICK b \in Req : \E p \in new_seq_lens[b] .. new_seq_lens[b] + step - 1 :
            w = <<b, p, SlotFor(b, p)>>
      BY <2>1
    <3>2. PICK p \in new_seq_lens[b] .. new_seq_lens[b] + step - 1 : w = <<b, p, SlotFor(b, p)>>
      BY <3>1
    <3>3. w[1] = b /\ w[2] = p /\ w[3] = SlotFor(b, p)
      BY <3>2
    <3>4. p \in Nat /\ p >= new_seq_lens[b]
      BY <2>1, <2>2
    <3>5. IF p >= MaxModelLen THEN SlotFor(b, p) = Pad
          ELSE SlotFor(b, p) = SlotOf(b, p) /\ SlotFor(b, p) # Pad
      <4>1. p < MaxModelLen => SlotOf(b, p) \in Nat
        BY <2>4, <3>4
      <4>2. p < MaxModelLen => SlotOf(b, p) # Pad
        BY <4>1 DEF Pad
      <4> QED  BY <4>2, <3>4, <2>3 DEF SlotFor, Exceeds
    <3> QED  BY <3>2, <3>3, <3>4, <3>5, <2>3
  <2>6. ASSUME NEW w \in writes, w[3] # Pad, NEW b \in Req, NEW p \in 0 .. new_seq_lens[b]-1, p < MaxModelLen
        PROVE  w[3] # SlotOf(b, p)
    <3>1. SUFFICES ASSUME w[3] = SlotOf(b, p) PROVE FALSE
      OBVIOUS
    <3>2. w[1] \in Req /\ w[2] \in Nat /\ w[2] < MaxModelLen /\ p \in Nat /\ w[3] = SlotOf(w[1], w[2])
      BY <2>5, <2>6
    <3>3. w[1] = b /\ w[2] = p
      <4> DEFINE x == w[1]  y == w[2]
      <4>1. x \in Req /\ y \in Nat /\ y < MaxModelLen /\ p \in Nat /\ SlotOf(x, y) = SlotOf(b, p)
        BY <3>1, <3>2
      <4> HIDE DEF x, y
      <4>2. x = b /\ y = p
        BY ONLY <4>1, <2>6, <2>9
      <4> QED  BY <4>2 DEF x, y
    <3>4. p >= new_seq_lens[b] /\ new_seq_lens[b] \in Nat
      BY <3>3, <2>2, <2>5
    <3> QED  BY <3>4
  <2>7. ASSUME NEW w \in writes, w[3] # Pad, NEW o \in writes, o[3] = w[3] PROVE o = w
    <3>1. /\ w[1] \in Req /\ w[2] \in Nat /\ w[2] < MaxModelLen /\ w[3] = SlotOf(w[1], w[2])
          /\ o[1] \in Req /\ o[2] \in Nat /\ o[2] < MaxModelLen /\ o[3] = SlotOf(o[1], o[2])
      BY <2>5, <2>7
    <3>2. w[1] = o[1] /\ w[2] = o[2]
      <4> DEFINE x == w[1]  y == w[2]  u == o[1]  v == o[2]
      <4>1. /\ x \in Req /\ y \in Nat /\ y < MaxModelLen /\ u \in Req /\ v \in Nat /\ v < MaxModelLen
            /\ SlotOf(x, y) = SlotOf(u, v)
        BY <3>1, <2>7
      <4> HIDE DEF x, y, u, v
      <4>2. x = u /\ y = v
        BY ONLY <4>1, <2>9
      <4> QED  BY <4>2 DEF x, y, u, v
    <3>3. w = <<w[1], w[2], w[3]>> /\ o = <<o[1], o[2], o[3]>>
      BY <2>5
    <3> QED  BY <3>2, <3>3, <2>7
  <2>8. ASSUME step > 0, NEW b \in Req
        PROVE  seq_lens[b] = (IF positions[b] < MaxModelLen THEN positions[b] + 1 ELSE 1)
    BY <2>1, <2>8
  <2> QED  BY <2>5, <2>6, <2>7, <2>8 DEF SlotsOwned
<1> QED  BY <1>1, <1>2

LEMMA Seeds == ASSUME BatchAssumption, GivenInv, OutInv, NextInv, LenInv, QueryInv PROVE SeedsNextStep
<1> SUFFICES ASSUME stage = "expand", NEW b \in Req, ~discard[b]
             PROVE  LET n == Length(draft_out[b])
                    IN  /\ next_token_ids[b] = draft_out[b][n-1]
                        /\ valid_count[b] = n
                        /\ num_rejected[b] = nd(b) + 1 - n
                        /\ token_indices_to_sample[b] = query_start_loc(b) + n-1
                        /\ token_indices_to_sample[b] < query_start_loc(b+1)
                        /\ new_seq_lens[b] = batch.seq_lens[b] + n
  BY DEF SeedsNextStep
<1> DEFINE n == Length(draft_out[b])
<1>1. n \in 1 .. nd(b)+1
  <2>1. Emits(b, n)
    BY DEF OutInv, After
  <2> HIDE DEF n
  <2> QED  BY <2>1 DEF Emits
<1>2. /\ next_token_ids[b] = draft_out[b][n-1] /\ valid_count[b] = n
      /\ new_seq_lens[b] = batch.seq_lens[b] + n
      /\ num_rejected[b] = Rejected(b)
      /\ token_indices_to_sample[b] = query_start_loc(b+1) - 1 - Rejected(b)
  BY DEF NextInv, LenInv, QueryInv
<1> HIDE DEF n
<1>3. /\ nd(b) \in Nat /\ cu[b+1] = cu[b] + nd(b) /\ cu[b] \in Nat /\ b \in Nat
  <2>1. nd(b) \in Nat /\ cu[b+1] = cu[b] + nd(b) /\ cu \in [0 .. B -> Nat] /\ b \in 0 .. B
    BY BatchIs
  <2> QED  BY <2>1
<1>4. query_start_loc(b+1) = query_start_loc(b) + nd(b) + 1 /\ query_start_loc(b) \in Nat
  BY <1>3 DEF query_start_loc
<1>5. Rejected(b) = nd(b) + 1 - n
  BY <1>1, <1>2, <1>3 DEF Rejected
<1> QED  BY <1>1, <1>2, <1>3, <1>4, <1>5 DEF n
-----------------------------------------------------------------------------
(***************************************************************************)
(* The search of sample_recovered_tokens: a draft's owner is the request   *)
(* whose span holds it, and each draft is in one's.                        *)
(***************************************************************************)
LEMMA OwnerIs ==
  ASSUME BatchAssumption, GivenInv, NEW b \in Req, NEW i \in cu[b] .. cu[b+1]-1
  PROVE  Owner(i) = b
<1>1. /\ B \in Nat /\ b \in 0 .. B /\ b+1 \in 0 .. B /\ cu \in [0 .. B -> Nat]
      /\ \A a \in 0 .. B : \A c \in a .. B : cu[a] <= cu[c]
  BY BatchIs
<1>2. \A d \in 0 .. B : cu[d] <= i <=> d <= b
  <2>1. cu[b] \in Nat /\ cu[b+1] \in Nat /\ i \in Nat /\ cu[b] <= i /\ i < cu[b+1]
    BY <1>1
  <2>2. ASSUME NEW d \in 0 .. B, d <= b PROVE cu[d] <= i
    <3>1. cu[d] <= cu[b] /\ cu[d] \in Nat
      BY <1>1, <2>2
    <3> QED  BY <2>1, <3>1
  <2>3. ASSUME NEW d \in 0 .. B, ~(d <= b) PROVE ~(cu[d] <= i)
    <3>1. cu[b+1] <= cu[d] /\ cu[d] \in Nat
      BY <1>1, <2>3
    <3> QED  BY <2>1, <3>1
  <2> QED  BY <2>2, <2>3
<1> DEFINE Cells == (0 .. B) \X (0 .. B)
           Mid(lo, hi) == (lo + hi + 1) \div 2
           F(s) == [r \in Cells |->
                      IF r[1] >= r[2] THEN r[1]
                      ELSE IF cu[(r[1] + r[2] + 1) \div 2] <= i THEN s[<<(r[1] + r[2] + 1) \div 2, r[2]>>]
                           ELSE s[<<r[1], (r[1] + r[2] + 1) \div 2 - 1>>]]
           R == CHOOSE s : s = F(s)
<1>3. ASSUME NEW lo \in 0 .. B, NEW hi \in 0 .. B, lo < hi
      PROVE  LET mid == (lo + hi + 1) \div 2 IN mid \in 0 .. B /\ mid-1 \in 0 .. B /\ lo < mid /\ mid <= hi
  BY <1>1, <1>3
<1> DEFINE Last(lo, hi) == IF lo >= hi THEN lo ELSE IF b <= lo THEN lo ELSE IF b >= hi THEN hi ELSE b
           G == [r \in Cells |-> Last(r[1], r[2])]
<1>4. G = F(G)
  <2>1. ASSUME NEW lo \in 0 .. B, NEW hi \in 0 .. B, lo < hi
        PROVE  Last(lo, hi) = IF cu[(lo + hi + 1) \div 2] <= i THEN Last((lo + hi + 1) \div 2, hi)
                              ELSE Last(lo, (lo + hi + 1) \div 2 - 1)
    <3> DEFINE mid == (lo + hi + 1) \div 2
    <3>1. mid \in 0 .. B /\ mid-1 \in 0 .. B /\ lo < mid /\ mid <= hi
      BY <1>3, <2>1
    <3>2. cu[mid] <= i <=> mid <= b
      BY <3>1, <1>2
    <3> HIDE DEF mid
    <3>3. CASE mid <= b
      <4>1. Last(lo, hi) = Last(mid, hi)
        BY <3>1, <3>3, <2>1, <1>1
      <4> HIDE DEF Last
      <4> QED  BY <4>1, <3>2, <3>3 DEF mid
    <3>4. CASE ~(mid <= b)
      <4>1. Last(lo, hi) = Last(lo, mid-1)
        BY <3>1, <3>4, <2>1, <1>1
      <4> HIDE DEF Last
      <4> QED  BY <4>1, <3>2, <3>4 DEF mid
    <3> HIDE DEF Last
    <3> QED  BY <3>3, <3>4
  <2>2. ASSUME NEW r \in Cells
        PROVE  G[r] = IF r[1] >= r[2] THEN r[1]
                      ELSE IF cu[(r[1] + r[2] + 1) \div 2] <= i THEN G[<<(r[1] + r[2] + 1) \div 2, r[2]>>]
                           ELSE G[<<r[1], (r[1] + r[2] + 1) \div 2 - 1>>]
    <3> DEFINE mid == (r[1] + r[2] + 1) \div 2
    <3>1. r[1] \in 0 .. B /\ r[2] \in 0 .. B /\ G[r] = Last(r[1], r[2])
      OBVIOUS
    <3>2. CASE r[1] >= r[2]
      BY <3>1, <3>2
    <3>3. CASE r[1] < r[2]
      <4>1. mid \in 0 .. B /\ mid-1 \in 0 .. B
        BY <1>3, <3>1, <3>3
      <4> HIDE DEF Last
      <4>2. Last(r[1], r[2]) = IF cu[mid] <= i THEN Last(mid, r[2]) ELSE Last(r[1], mid-1)
        BY <2>1, <3>1, <3>3
      <4> HIDE DEF mid
      <4>3. G[<<mid, r[2]>>] = Last(mid, r[2]) /\ G[<<r[1], mid-1>>] = Last(r[1], mid-1)
        BY <3>1, <4>1
      <4> HIDE DEF G
      <4> QED  BY <3>1, <3>3, <4>2, <4>3 DEF mid
    <3> HIDE DEF G, mid
    <3> QED  BY <1>1, <3>1, <3>2, <3>3
  <2>3. G = [r \in Cells |-> G[r]]
    OBVIOUS
  <2> HIDE DEF G, Last
  <2> QED  BY <2>2, <2>3
<1>5. R = F(R)
  <2> HIDE DEF F, G
  <2> QED  BY <1>4
<1>6. ASSUME NEW lo \in 0 .. B, NEW hi \in 0 .. B
      PROVE  R[<<lo, hi>>] =
               IF lo >= hi THEN lo
               ELSE IF cu[(lo + hi + 1) \div 2] <= i THEN R[<<(lo + hi + 1) \div 2, hi>>]
                    ELSE R[<<lo, (lo + hi + 1) \div 2 - 1>>]
  <2>1. <<lo, hi>> \in Cells /\ <<lo, hi>>[1] = lo /\ <<lo, hi>>[2] = hi
    OBVIOUS
  <2> HIDE DEF R
  <2> QED  BY <1>5, <2>1
<1>7. R[<<0, B>>] = Owner(i)
  BY DEF Owner
<1> HIDE DEF R
<1> DEFINE T == {n \in 0 .. B : \A lo, hi \in 0 .. B : hi - lo = n /\ lo <= b /\ b <= hi => R[<<lo, hi>>] = b}
<1>8. ASSUME NEW n \in 0 .. B, \A k \in 0 .. n-1 : k \in T PROVE n \in T
  <2>1. SUFFICES ASSUME NEW lo \in 0 .. B, NEW hi \in 0 .. B, hi - lo = n, lo <= b, b <= hi
                 PROVE  R[<<lo, hi>>] = b
    OBVIOUS
  <2>2. CASE n = 0
    <3>1. lo >= hi /\ lo = b
      BY <1>1, <2>1, <2>2
    <3> QED  BY <3>1, <1>6
  <2>3. CASE n # 0
    <3> DEFINE mid == (lo + hi + 1) \div 2
    <3>1. mid \in 0 .. B /\ mid-1 \in 0 .. B /\ lo < mid /\ mid <= hi /\ ~(lo >= hi)
      BY <1>3, <2>1, <2>3
    <3>2. R[<<lo, hi>>] = IF cu[mid] <= i THEN R[<<mid, hi>>] ELSE R[<<lo, mid-1>>]
      BY <3>1, <1>6
    <3> HIDE DEF mid
    <3>3. CASE cu[mid] <= i
      <4>1. mid <= b /\ hi - mid \in 0 .. n-1
        BY <1>2, <2>1, <3>1, <3>3
      <4>2. R[<<mid, hi>>] = b
        BY <4>1, <1>8, <2>1, <3>1
      <4> QED  BY <3>2, <3>3, <4>2
    <3>4. CASE ~(cu[mid] <= i)
      <4>1. b <= mid-1 /\ (mid-1) - lo \in 0 .. n-1
        BY <1>1, <1>2, <2>1, <3>1, <3>4
      <4>2. R[<<lo, mid-1>>] = b
        BY <4>1, <1>8, <2>1, <3>1
      <4> QED  BY <3>2, <3>4, <4>2
    <3> QED  BY <3>3, <3>4
  <2> QED  BY <2>2, <2>3
<1>9. B \in T
  <2> HIDE DEF T
  <2>1. 0 .. B \subseteq T
    BY <1>1, <1>8, IntervalInduction
  <2> QED  BY <1>1, <2>1
<1>10. R[<<0, B>>] = b
  BY <1>1, <1>9
<1> QED  BY <1>7, <1>10

LEMMA OneOwns ==
  ASSUME BatchAssumption, GivenInv, NEW i \in 0 .. NDrafts-1
  PROVE  \E b \in Req : i \in cu[b] .. cu[b+1]-1
<1>1. /\ B \in Nat /\ cu \in [0 .. B -> Nat] /\ cu[0] = 0 /\ NDrafts = cu[B] /\ NDrafts \in Nat
  BY BatchIs DEF NDrafts
<1> DEFINE L == {b \in 0 .. B : cu[b] <= i}
<1>2. PICK b \in L : \A c \in L : c <= b
  <2>1. L \subseteq 0 .. B /\ 0 \in L
    BY <1>1
  <2> HIDE DEF L
  <2> QED  BY <1>1, <2>1, GreatestOf
<1>3. b \in 0 .. B /\ cu[b] <= i /\ b # B
  BY <1>1
<1>4. b+1 \in 0 .. B /\ b \in Req
  BY <1>1, <1>3 DEF Req
<1>5. ~(cu[b+1] <= i)
  BY <1>1, <1>2, <1>4
<1>6. cu[b] \in Nat /\ cu[b+1] \in Nat /\ i \in Nat
  BY <1>1, <1>3, <1>4
<1> QED  BY <1>3, <1>4, <1>5, <1>6
-----------------------------------------------------------------------------
(***************************************************************************)
(* The distribution of what is emitted.  Of all coins, as many accept a    *)
(* token as the smaller of the two probabilities says.                     *)
(***************************************************************************)
LEMMA CoinsBelow ==
  ASSUME BatchAssumption, NEW c \in 0 .. Coins
  PROVE  Cardinality({u \in Coin : u < 2*c}) = c
<1>1. Coins \in Nat
  BY TokenIs
<1> DEFINE T == {u \in Coin : u < 2*c}
           f == [k \in 0 .. c-1 |-> 2*k + 1]
<1>2. f \in [0 .. c-1 -> T]
  <2>1. ASSUME NEW k \in 0 .. c-1 PROVE 2*k + 1 \in T
    <3>1. k \in 0 .. Coins-1 /\ 2*k + 1 < 2*c
      BY <1>1
    <3> QED  BY <3>1 DEF Coin
  <2> HIDE DEF T
  <2> QED  BY <2>1
<1>3. \A a, b \in 0 .. c-1 : f[a] = f[b] => a = b
  OBVIOUS
<1>4. ASSUME NEW u \in T PROVE \E k \in 0 .. c-1 : f[k] = u
  <2>1. PICK k \in 0 .. Coins-1 : u = 2*k + 1
    BY DEF Coin
  <2>2. k \in 0 .. c-1
    BY <1>1, <2>1
  <2> QED  BY <2>1, <2>2
<1> HIDE DEF f, T
<1>5. f \in Bijection(0 .. c-1, T)
  <2>1. DOMAIN f = 0 .. c-1
    BY <1>2
  <2> QED  BY <1>2, <1>3, <1>4, <2>1 DEF Bijection, Injection, Surjection, IsInjective
<1>6. IsFiniteSet(0 .. c-1) /\ Cardinality(0 .. c-1) = c
  BY <1>1, FS_Interval
<1> QED  BY <1>5, <1>6, FS_Bijection DEF ExistsBijection, T

LEMMA Grains ==
  ASSUME NEW q \in Nat \ {0}, NEW C \in Nat \ {0}, NEW m \in Nat, C = q * m, NEW t \in Nat, NEW k \in Nat
  PROVE  /\ m * t \in Nat /\ q * (m * t) = C * t
         /\ (2*k + 1) * q <= 2*C * t <=> k < m * t
<1> DEFINE n == m * t
<1>1. n \in Nat /\ q * n = C * t
  OBVIOUS
<1>2. 2*C * t = q * (2 * n)
  BY <1>1
<1> HIDE DEF n
<1>3. (2*k + 1) * q = q * (2*k + 1)
  OBVIOUS
<1>4. CASE k < n
  <2>1. 2*n - (2*k + 1) \in Nat
    BY <1>1, <1>4
  <2>2. q * (2*n - (2*k + 1)) >= 0
    BY <2>1
  <2>3. q * (2*n - (2*k + 1)) = q * (2*n) - q * (2*k + 1)
    BY <1>1
  <2> QED  BY <1>1, <1>2, <1>3, <1>4, <2>2, <2>3 DEF n
<1>5. CASE ~(k < n)
  <2>1. 2*k + 1 - 2*n \in Int /\ 2*k + 1 - 2*n >= 1
    BY <1>1, <1>5
  <2>2. q * (2*k + 1 - 2*n) >= q
    BY <2>1, Multiple
  <2>3. q * (2*k + 1 - 2*n) = q * (2*k + 1) - q * (2*n)
    BY <1>1
  <2> QED  BY <1>1, <1>2, <1>3, <1>5, <2>2, <2>3 DEF n
<1> QED  BY <1>4, <1>5

LEMMA AcceptCount ==
  ASSUME BatchAssumption, CoinsAssumption, NEW q \in 1 .. Unit, NEW t \in 0 .. Unit
  PROVE  LET n == Cardinality({u \in Coin : u * q <= 2*Coins * t})
         IN  n \in Nat /\ q * n = Coins * (IF t < q THEN t ELSE q)
<1>1. Coins \in Nat \ {0} /\ Unit \in Nat \ {0} /\ q \in Nat \ {0} /\ t \in Nat
  BY TokenIs
<1>2. Coins % q = 0
  BY DEF CoinsAssumption
<1> DEFINE m == Coins \div q
<1>3. m \in Nat /\ Coins = q * m
  BY <1>1, <1>2, Division
<1> HIDE DEF m
<1> DEFINE s == IF t < q THEN t ELSE q
           c == m * s
<1>4. s \in Nat /\ s <= q /\ s <= t
  BY <1>1
<1>5. c \in Nat /\ q * c = Coins * s
  <2> HIDE DEF s
  <2> QED  BY <1>1, <1>3, <1>4, Grains
<1>6. c <= Coins
  <2> HIDE DEF s
  <2>1. m * (q - s) >= 0
    BY <1>1, <1>3, <1>4
  <2>2. m * (q - s) = m * q - m * s
    BY <1>1, <1>3, <1>4
  <2>3. Coins = m * q
    BY <1>1, <1>3
  <2>4. m * q \in Int /\ m * s \in Int
    BY <1>1, <1>3, <1>4
  <2> QED  BY <2>1, <2>2, <2>3, <2>4
<1>7. {u \in Coin : u * q <= 2*Coins * t} = {u \in Coin : u < 2*c}
  <2>1. ASSUME NEW u \in Coin PROVE u * q <= 2*Coins * t <=> u < 2*c
    <3>1. PICK k \in 0 .. Coins-1 : u = 2*k + 1
      BY DEF Coin
    <3>2. u * q <= 2*Coins * t <=> k < m * t
      BY <3>1, <1>1, <1>3, Grains
    <3>3. u < 2*c <=> k < c
      <4> HIDE DEF c
      <4> QED  BY <3>1, <1>1, <1>5
    <3>4. k < m * t <=> k < c
      <4>1. CASE t < q
        BY <4>1
      <4>2. CASE ~(t < q)
        <5>1. s = q
          BY <4>2
        <5>2. c = Coins
          BY <5>1, <1>1, <1>3
        <5>3. m * (t - q) >= 0
          BY <4>2, <1>1, <1>3
        <5>4. m * (t - q) = m * t - m * q /\ m * t \in Int /\ m * q = Coins
          BY <1>1, <1>3
        <5> HIDE DEF c, s
        <5> QED  BY <5>2, <5>3, <5>4, <1>1, <3>1
      <4> QED  BY <4>1, <4>2
    <3> QED  BY <3>2, <3>3, <3>4
  <2> HIDE DEF c
  <2> QED  BY <2>1
<1>8. Cardinality({u \in Coin : u < 2*c}) = c
  <2>1. c \in 0 .. Coins
    BY <1>5, <1>6, <1>1
  <2> HIDE DEF c
  <2> QED  BY <2>1, CoinsBelow
<1> HIDE DEF c
<1> QED  BY <1>5, <1>7, <1>8

\* Accepted or drawn after a rejection, a token has the target's grains.
LEMMA GrainsAddUp ==
  ASSUME BatchAssumption, CoinsAssumption, GivenInv, NEW x \in Pairs, NEW v \in DraftToken
  PROVE  LET y == [x EXCEPT !.d = v]
             accepting == {u \in Coin : IF batch.kind = "linear" THEN AcceptsLinear(y, u) ELSE AcceptsRandom(y, u)}
         IN  Proposal(x)[v] * Cardinality(accepting) + Coins * Residual(x)[v] = Coins * x.t[v]
<1> DEFINE y == [x EXCEPT !.d = v]
           accepting == {u \in Coin : IF batch.kind = "linear" THEN AcceptsLinear(y, u) ELSE AcceptsRandom(y, u)}
           n == Cardinality(accepting)
           q == IF no_draft_probs THEN Unit ELSE x.q[v]
           t == x.t[v]
<1>1. /\ Coins \in Nat \ {0} /\ Unit \in Nat \ {0} /\ x.q[v] \in 0 .. Unit /\ t \in 0 .. Unit
      /\ q \in 0 .. Unit
  <2>1. Coins \in Nat \ {0} /\ Unit \in Nat \ {0} /\ x.q \in [DraftToken -> 0 .. Unit] /\ x.t \in [DraftToken -> 0 .. Unit]
    BY PairIs
  <2> QED  BY <2>1
<1>2. y.d = v /\ y.q = x.q /\ y.t = x.t
  <2>1. PICK w \in DraftToken, p \in batch.pairs : x = [d |-> w, q |-> p.q, t |-> p.t]
    BY DEF Pairs
  <2> QED  BY <2>1
<1>3. n \in Nat
  <2>1. Coin \subseteq 0 .. 2*Coins
    BY <1>1 DEF Coin
  <2>3. accepting \subseteq Coin
    OBVIOUS
  <2>2. accepting \subseteq 0 .. 2*Coins
    BY <2>1, <2>3
  <2>4. IsFiniteSet(0 .. 2*Coins)
    <3>1. 0 \in Int /\ 2*Coins \in Int
      BY <1>1
    <3> QED  BY <3>1, FS_Interval
  <2> HIDE DEF accepting
  <2> QED  BY <2>2, <2>4, FS_Subset, FS_CardinalityType
<1> HIDE DEF y
<1>4. q # 0 => accepting = {u \in Coin : u * q <= 2*Coins * t}
  <2>1. SUFFICES ASSUME q # 0, NEW u \in Coin
                 PROVE  (IF batch.kind = "linear" THEN AcceptsLinear(y, u) ELSE AcceptsRandom(y, u))
                          <=> u * q <= 2*Coins * t
    OBVIOUS
  <2>2. u \in Nat /\ u * q \in Int /\ 2*Coins * t \in Int
    <3>1. u \in Nat
      BY <1>1 DEF Coin
    <3> HIDE DEF q, t
    <3> QED  BY <3>1, <1>1
  <2>3. CASE batch.kind = "linear"
    <3>1. ~no_draft_probs /\ q = x.q[v]
      BY <2>3 DEF GivenInv
    <3>2. AcceptsLinear(y, u) <=> (q = 0 \/ u * q <= 2*Coins * t)
      BY <3>1, <1>2 DEF AcceptsLinear
    <3> HIDE DEF q, t
    <3> QED  BY <3>2, <2>1, <2>3
  <2>4. CASE batch.kind # "linear"
    <3>1. AcceptsRandom(y, u) <=> (q > 0 /\ 2*Coins * t >= u * q)
      BY <1>2 DEF AcceptsRandom
    <3> HIDE DEF q, t
    <3>2. q > 0
      BY <1>1, <2>1
    <3> QED  BY <3>1, <3>2, <2>2, <2>4
  <2> QED  BY <2>3, <2>4
<1>5. q # 0 => q * n = Coins * (IF t < q THEN t ELSE q)
  <2> HIDE DEF q, t, accepting
  <2>1. SUFFICES ASSUME q # 0 PROVE q * n = Coins * (IF t < q THEN t ELSE q)
    OBVIOUS
  <2>2. q \in 1 .. Unit /\ t \in 0 .. Unit
    BY <1>1, <2>1
  <2> QED  BY <2>1, <2>2, <1>4, AcceptCount
<1> HIDE DEF n, accepting
<1>6. CASE ~no_draft_probs
  <2>1. q = x.q[v] /\ Proposal(x)[v] = q /\ Residual(x)[v] = IF t > q THEN t - q ELSE 0
    BY <1>6 DEF Proposal, Residual
  <2> HIDE DEF q, t
  <2>2. q * n + Coins * Residual(x)[v] = Coins * t
    <3>1. CASE q = 0
      BY <3>1, <2>1, <1>1, <1>3
    <3>2. CASE q # 0 /\ t > q
      BY <3>2, <2>1, <1>1, <1>5
    <3>3. CASE q # 0 /\ ~(t > q)
      <4>1. (IF t < q THEN t ELSE q) = t
        BY <3>3, <1>1
      <4>2. Coins * t \in Nat
        BY <1>1
      <4> QED  BY <3>3, <2>1, <1>1, <1>5, <4>1, <4>2
    <3> QED  BY <3>1, <3>2, <3>3
  <2> QED  BY <2>1, <2>2 DEF n, accepting, y, t
<1>7. CASE no_draft_probs
  <2>1. q = Unit /\ q # 0
    BY <1>1, <1>7
  <2>2. Proposal(x)[v] = (IF v = x.d THEN q ELSE 0) /\ Residual(x)[v] = (IF v = x.d THEN 0 ELSE t)
    BY <1>7, <2>1 DEF Proposal, Residual
  <2> HIDE DEF q, t
  <2>3. Proposal(x)[v] * n + Coins * Residual(x)[v] = Coins * t
    <3>1. CASE v = x.d
      <4>1. (IF t < q THEN t ELSE q) = t
        BY <1>1, <2>1
      <4>2. Coins * t \in Nat /\ Coins * 0 = 0
        BY <1>1
      <4> QED  BY <3>1, <2>1, <2>2, <1>5, <4>1, <4>2
    <3>2. CASE v # x.d
      BY <3>2, <2>2, <1>1, <1>3
    <3> QED  BY <3>1, <3>2
  <2> QED  BY <2>3 DEF n, accepting, y, t
<1> QED  BY <1>6, <1>7

\* What is left of the target has weight where a possible draft is rejected.
LEMMA SomethingLeft ==
  ASSUME BatchAssumption, GivenInv, NEW x \in Pairs, NEW k \in Kernels \ {"greedy"},
         RejectsSome(k, x), Proposal(x)[x.d] > 0
  PROVE  \E v \in DraftToken : Residual(x)[v] > 0
<1>1. /\ x.d \in DraftToken /\ IsFiniteSet(DraftToken) /\ Unit \in Nat \ {0} /\ Coins \in Nat \ {0}
      /\ \A v \in DraftToken : x.q[v] \in 0 .. Unit /\ x.t[v] \in 0 .. Unit
      /\ SumFunctionOnSet(x.q, DraftToken) = Unit /\ SumFunctionOnSet(x.t, DraftToken) = Unit
  BY PairIs
<1> DEFINE q == IF no_draft_probs THEN Unit ELSE x.q[x.d]
           t == x.t[x.d]
<1>2. q \in Nat /\ t \in Nat /\ q > 0
  BY <1>1 DEF Proposal
<1>3. PICK u \in Coin : ~(u * q <= 2*Coins * t)
  <2>1. ASSUME NEW u \in Coin PROVE u * q \in Int /\ 2*Coins * t \in Int
    <3>1. u \in Nat
      BY <1>1 DEF Coin
    <3> HIDE DEF q, t
    <3> QED  BY <3>1, <1>1, <1>2
  <2>2. CASE k = "linear"
    <3>1. batch.kind = "linear"
      BY <2>2 DEF Kernels
    <3>2. ~no_draft_probs
      BY <3>1 DEF GivenInv
    <3>3. PICK u \in Coin : ~AcceptsLinear(x, u)
      BY <2>2 DEF RejectsSome
    <3> QED  BY <3>2, <3>3 DEF AcceptsLinear
  <2>3. CASE k # "linear"
    <3>1. PICK u \in Coin : ~AcceptsRandom(x, u)
      BY <2>3 DEF RejectsSome
    <3>2. AcceptsRandom(x, u) <=> (q > 0 /\ 2*Coins * t >= u * q)
      BY DEF AcceptsRandom
    <3> HIDE DEF q, t
    <3> QED  BY <3>1, <3>2, <1>2, <2>1
  <2> QED  BY <2>2, <2>3
<1>4. t < q
  <2>1. u \in Nat /\ u <= 2*Coins
    BY <1>1 DEF Coin
  <2> HIDE DEF q, t
  <2>2. SUFFICES ASSUME ~(t < q) PROVE FALSE
    OBVIOUS
  <2>3. (2*Coins - u) * q >= 0 /\ 2*Coins * (t - q) >= 0
    <3>1. 2*Coins - u \in Nat /\ t - q \in Nat
      BY <1>1, <1>2, <2>1, <2>2
    <3> QED  BY <3>1, <1>1, <1>2
  <2>4. (2*Coins - u) * q = 2*Coins * q - u * q /\ 2*Coins * (t - q) = 2*Coins * t - 2*Coins * q
    BY <1>1, <1>2, <2>1
  <2>5. u * q \in Int /\ 2*Coins * t \in Int /\ 2*Coins * q \in Int
    BY <1>1, <1>2, <2>1
  <2> QED  BY <2>3, <2>4, <2>5, <1>3
<1>5. CASE ~no_draft_probs
  <2>1. SUFFICES ASSUME \A v \in DraftToken : ~(Residual(x)[v] > 0) PROVE FALSE
    OBVIOUS
  <2>2. \A v \in DraftToken : x.t[v] \in Nat /\ x.q[v] \in Nat /\ x.t[v] <= x.q[v]
    <3>1. ASSUME NEW v \in DraftToken PROVE x.t[v] <= x.q[v]
      <4>1. Residual(x)[v] = IF x.t[v] > x.q[v] THEN x.t[v] - x.q[v] ELSE 0
        BY <1>5 DEF Residual
      <4> QED  BY <4>1, <2>1, <1>1
    <3> QED  BY <3>1, <1>1
  <2>3. x.t[x.d] < x.q[x.d]
    BY <1>4, <1>5
  <2> DEFINE f == x.t  g == x.q
  <2>4. SumFunctionOnSet(f, DraftToken) < SumFunctionOnSet(g, DraftToken)
    <3>1. (\A v \in DraftToken : f[v] \in Nat /\ g[v] \in Nat /\ f[v] <= g[v]) /\ \E v \in DraftToken : f[v] < g[v]
      BY <2>2, <2>3, <1>1
    <3> HIDE DEF f, g
    <3> QED  BY <3>1, <1>1, SumLess
  <2> QED  BY <2>4, <1>1
<1>6. CASE no_draft_probs
  <2>1. SUFFICES ASSUME \A v \in DraftToken : ~(Residual(x)[v] > 0) PROVE FALSE
    OBVIOUS
  <2>2. \A v \in DraftToken \ {x.d} : x.t[v] = 0
    <3>1. ASSUME NEW v \in DraftToken \ {x.d} PROVE x.t[v] = 0
      <4>1. Residual(x)[v] = x.t[v]
        BY <1>6 DEF Residual
      <4> QED  BY <4>1, <2>1, <1>1
    <3> QED  BY <3>1
  <2> DEFINE f == x.t  d == x.d
  <2>3. SumFunctionOnSet(f, DraftToken \ {d}) = 0
    <3>1. IsFiniteSet(DraftToken \ {d}) /\ \A v \in DraftToken \ {d} : f[v] = 0
      BY <1>1, <2>2, FS_Subset
    <3> HIDE DEF f, d
    <3> QED  BY <3>1, SumOfZeros
  <2>4. SumFunctionOnSet(f, DraftToken) = f[d] + SumFunctionOnSet(f, DraftToken \ {d})
    <3>1. d \in DraftToken /\ \A v \in DraftToken : f[v] \in Nat
      BY <1>1
    <3> HIDE DEF f, d
    <3> QED  BY <3>1, <1>1, SumRemove
  <2> QED  BY <2>3, <2>4, <1>1, <1>2, <1>4, <1>6
<1> QED  BY <1>5, <1>6

LEMMA TokenFollows ==
  ASSUME BatchAssumption, GivenInv, NEW x \in Pairs, NEW k \in Kernels \ {"greedy"}, NEW token,
         Proposal(x)[x.d] > 0,
         (token = x.d /\ AcceptsSome(k, x)) \/ Instead(k, x, token)
  PROVE  x.t[token] > 0
<1>1. /\ x.d \in DraftToken /\ Unit \in Nat \ {0} /\ Coins \in Nat \ {0}
      /\ \A v \in DraftToken : x.q[v] \in 0 .. Unit /\ x.t[v] \in 0 .. Unit
      /\ k \in {"linear", "random"}
  <2>1. k \in {"linear", "random"}
    BY DEF Kernels
  <2> QED  BY <2>1, PairIs
<1>2. CASE token = x.d /\ AcceptsSome(k, x)
  <2> DEFINE q == IF no_draft_probs THEN Unit ELSE x.q[x.d]
             t == x.t[x.d]
  <2>1. q \in Nat /\ t \in Nat /\ q > 0
    BY <1>1 DEF Proposal
  <2>2. PICK u \in Coin : u * q <= 2*Coins * t
    <3>1. ASSUME NEW u \in Coin PROVE u * q \in Int /\ 2*Coins * t \in Int
      <4>1. u \in Nat
        BY <1>1 DEF Coin
      <4> HIDE DEF q, t
      <4> QED  BY <4>1, <1>1, <2>1
    <3>2. CASE k = "linear"
      <4>1. ~no_draft_probs
        BY <3>2 DEF Kernels, GivenInv
      <4>2. PICK u \in Coin : AcceptsLinear(x, u)
        BY <1>2, <3>2 DEF AcceptsSome
      <4>3. AcceptsLinear(x, u) <=> (q = 0 \/ u * q <= 2*Coins * t)
        BY <4>1 DEF AcceptsLinear
      <4> HIDE DEF q, t
      <4> QED  BY <4>2, <4>3, <2>1
    <3>3. CASE k = "random"
      <4>1. PICK u \in Coin : AcceptsRandom(x, u)
        BY <1>2, <3>3 DEF AcceptsSome
      <4>2. AcceptsRandom(x, u) <=> (q > 0 /\ 2*Coins * t >= u * q)
        BY DEF AcceptsRandom
      <4> HIDE DEF q, t
      <4> QED  BY <3>1, <4>1, <4>2
    <3> QED  BY <1>1, <3>2, <3>3
  <2>3. u \in Nat /\ u >= 1
    BY <1>1 DEF Coin
  <2>4. t # 0
    <3> HIDE DEF q, t
    <3>1. SUFFICES ASSUME t = 0 PROVE FALSE
      OBVIOUS
    <3>2. q * u >= q
      BY <2>1, <2>3, Multiple
    <3>3. q * u = u * q
      BY <2>1, <2>3
    <3>4. 2*Coins * t = 0
      BY <1>1, <3>1
    <3>5. q * u <= 0
      BY <2>2, <3>3, <3>4
    <3> QED  BY <2>1, <2>3, <3>2, <3>5
  <2> QED  BY <1>2, <2>1, <2>4
<1>3. CASE Instead(k, x, token)
  <2>1. RejectsSome(k, x) /\ \E noise \in Noises : token = Draw(x, noise)
    BY <1>1, <1>3 DEF Instead
  <2>2. PICK noise \in Noises : token = Draw(x, noise)
    BY <2>1
  <2>3. PICK v \in DraftToken : Residual(x)[v] > 0
    BY <2>1, SomethingLeft
  <2> DEFINE w == [o \in DraftToken |-> Residual(x)[o] * noise[o]]
  <2>4. \A o \in DraftToken : Residual(x)[o] \in Nat /\ noise[o] \in Nat \ {0} /\ Residual(x)[o] * noise[o] \in Nat
    BY ResidualIs
  <2>5. token = Best(w)
    BY <2>2 DEF Draw
  <2>6. token \in DraftToken /\ \A o \in DraftToken : w[o] <= w[token]
    <3>1. \A o \in DraftToken : w[o] \in Nat
      BY <2>4
    <3> HIDE DEF w
    <3> QED  BY <2>5, <3>1, BestIs
  <2>7. w[v] > 0
    <3> DEFINE r == Residual(x)[v]  m == noise[v]
    <3>1. r \in Nat /\ m \in Nat \ {0} /\ r > 0 /\ w[v] = r * m
      BY <2>3, <2>4
    <3> HIDE DEF r, m, w
    <3>2. m * r >= m
      BY <3>1, Multiple
    <3> QED  BY <3>1, <3>2
  <2>8. Residual(x)[token] # 0
    <3> DEFINE r == Residual(x)[token]  m == noise[token]
    <3>1. r \in Nat /\ m \in Nat \ {0} /\ w[token] = r * m
      BY <2>4, <2>6
    <3>2. w[token] > 0
      <4>1. w[v] \in Nat /\ w[token] \in Nat
        BY <2>4, <2>6
      <4> HIDE DEF w
      <4> QED  BY <2>6, <2>7, <4>1
    <3> HIDE DEF r, m, w
    <3>3. r # 0
      BY <3>1, <3>2
    <3> QED  BY <3>3 DEF r
  <2>9. Residual(x)[token] # 0 => x.t[token] > 0
    BY <2>6, <1>1 DEF Residual
  <2> QED  BY <2>8, <2>9
<1> QED  BY <1>2, <1>3

LEMMA TargetFollowed ==
  ASSUME BatchAssumption, CoinsAssumption, GivenInv, ReadInv, RowsInv
  PROVE  FollowsTarget
<1> SUFFICES ASSUME stage = "verify"
             PROVE  /\ \A b \in Req : \A i \in cu[b] .. cu[b+1]-1 : Owner(i) = b
                    /\ \A i \in DOMAIN draft, v \in DraftToken :
                         LET x == draft[i]
                             y == [x EXCEPT !.d = v]
                             accepting == {u \in Coin : IF batch.kind = "linear" THEN AcceptsLinear(y, u)
                                                        ELSE AcceptsRandom(y, u)}
                         IN  Proposal(x)[v] * Cardinality(accepting) + Coins * Residual(x)[v] = Coins * x.t[v]
                    /\ \A k \in Kernels \ {"greedy"}, b \in Req :
                         rows[k][b] # <<>> =>
                           \A i \in 0 .. nd(b)-1 :
                             rows[k][b][i] # Placeholder /\ Proposal(DraftOf(b, i))[DraftOf(b, i).d] > 0
                               => DraftOf(b, i).t[rows[k][b][i]] > 0
  BY DEF FollowsTarget
<1>1. draft \in [0 .. NDrafts-1 -> Pairs]
  BY DEF ReadInv
<1>2. \A b \in Req : \A i \in cu[b] .. cu[b+1]-1 : Owner(i) = b
  BY OwnerIs
<1>3. ASSUME NEW i \in DOMAIN draft, NEW v \in DraftToken
      PROVE  LET x == draft[i]
                 y == [x EXCEPT !.d = v]
                 accepting == {u \in Coin : IF batch.kind = "linear" THEN AcceptsLinear(y, u)
                                            ELSE AcceptsRandom(y, u)}
             IN  Proposal(x)[v] * Cardinality(accepting) + Coins * Residual(x)[v] = Coins * x.t[v]
  <2> DEFINE x == draft[i]
  <2>1. x \in Pairs
    BY <1>1
  <2> HIDE DEF x
  <2>2. LET y == [x EXCEPT !.d = v]
            accepting == {u \in Coin : IF batch.kind = "linear" THEN AcceptsLinear(y, u)
                                       ELSE AcceptsRandom(y, u)}
        IN  Proposal(x)[v] * Cardinality(accepting) + Coins * Residual(x)[v] = Coins * x.t[v]
    BY <2>1, GrainsAddUp
  <2> QED  BY <2>2 DEF x
<1>4. ASSUME NEW k \in Kernels \ {"greedy"}, NEW b \in Req, rows[k][b] # <<>>, NEW i \in 0 .. nd(b)-1,
             rows[k][b][i] # Placeholder, Proposal(DraftOf(b, i))[DraftOf(b, i).d] > 0
      PROVE  DraftOf(b, i).t[rows[k][b][i]] > 0
  <2> DEFINE row == rows[k][b]
             x == DraftOf(b, i)
  <2>1. S \in Nat /\ nd(b) \in 0 .. S /\ cu[b] + i \in 0 .. NDrafts-1
    BY BatchIs
  <2>2. x \in Pairs
    BY <1>1, <2>1 DEF DraftOf
  <2>3. IF k = "linear" \/ Takes(k, b) THEN Written(k, b, row) ELSE row = Blank
    BY <1>4 DEF RowsInv
  <2>4. row # Blank
    BY <1>4, <2>1 DEF Blank
  <2>5. Written(k, b, row)
    BY <2>3, <2>4
  <2> HIDE DEF row
  <2>6. PICK n \in 0 .. nd(b) : Reads(k, b, row, n)
    BY <1>1, <2>5, WrittenIs
  <2>7. n \in Nat /\ i \in 0 .. S /\ i <= n
    <3>1. i \in 0 .. S /\ n \in Nat
      BY <2>1
    <3>2. ~(i > n)
      BY <1>4, <2>6, <3>1 DEF Reads, row
    <3> QED  BY <3>1, <3>2
  <2>8. (row[i] = x.d /\ AcceptsSome(k, x)) \/ Instead(k, x, row[i])
    <3>1. CASE i \in 0 .. n-1
      BY <3>1, <2>6 DEF Reads
    <3>2. CASE i = n
      <4>1. n # nd(b)
        BY <3>2, <2>1
      <4> QED  BY <3>2, <4>1, <2>6 DEF Reads
    <3> QED  BY <2>7, <3>1, <3>2
  <2> HIDE DEF x
  <2>9. x.t[row[i]] > 0
    <3>1. Proposal(x)[x.d] > 0
      BY <1>4 DEF x
    <3> QED  BY <2>2, <2>8, <3>1, TokenFollows
  <2> QED  BY <2>9 DEF x, row
<1>5. \A k \in Kernels \ {"greedy"}, b \in Req :
        rows[k][b] # <<>> =>
          \A i \in 0 .. nd(b)-1 :
            rows[k][b][i] # Placeholder /\ Proposal(DraftOf(b, i))[DraftOf(b, i).d] > 0
              => DraftOf(b, i).t[rows[k][b][i]] > 0
  BY <1>4
<1> QED  BY <1>2, <1>3, <1>5
-----------------------------------------------------------------------------
(***************************************************************************)
(* The steps.                                                              *)
(***************************************************************************)
LEMMA GivenKept == ASSUME GivenInv, UNCHANGED given PROVE GivenInv'
<1>1. B' = B /\ Req' = Req /\ batch' = batch /\ cu' = cu /\ is_greedy' = is_greedy
      /\ no_draft_probs' = no_draft_probs
  BY SameGiven DEF given
<1> QED  BY <1>1 DEF GivenInv

LEMMA ReadKept ==
  ASSUME ReadInv, UNCHANGED <<given, draft, recovered>>,
         stage' \in {"recover", "verify"} => stage' = stage
  PROVE  ReadInv'
<1>1. NDrafts' = NDrafts /\ Pairs' = Pairs /\ batch' = batch
  BY SameGiven DEF given
<1>2. \A x, noise : Draw(x, noise)' = Draw(x, noise)
  BY DEF Draw, Residual, Best, given
<1> QED  BY <1>1, <1>2 DEF ReadInv

LEMMA RowsKept ==
  ASSUME RowsInv, UNCHANGED <<given, draft, rows, accepted_cnt>>,
         stage' \in {"recover", "verify"} => stage \in {"recover", "verify"}
  PROVE  RowsInv'
<1>1. /\ S' = S /\ Req' = Req /\ Kernels' = Kernels /\ Blank' = Blank
      /\ \A b : nd(b)' = nd(b)
      /\ \A k, b : Takes(k, b)' = Takes(k, b)
  BY SameGiven
<1>2. \A k, b, r, token :
        EmittedRow(b, r, token)' = EmittedRow(b, r, token) /\ (Justified(k, b, r, token)' <=> Justified(k, b, r, token))
  BY SameReasons
<1>3. ASSUME NEW k, NEW b, Written(k, b, rows[k][b]) PROVE Written(k, b, rows[k][b])'
  <2>1. PICK r \in 0 .. nd(b), token \in DraftToken :
          /\ rows[k][b] = EmittedRow(b, r, token) /\ Justified(k, b, r, token)
          /\ k = "linear" => accepted_cnt[b] = r
    BY <1>3 DEF Written
  <2>2. EmittedRow(b, r, token)' = EmittedRow(b, r, token) /\ Justified(k, b, r, token)' /\ nd(b)' = nd(b)
    BY <2>1, <1>1, <1>2
  <2> QED  BY <2>1, <2>2 DEF Written
<1>4. SUFFICES ASSUME stage' \in {"recover", "verify"}
               PROVE  /\ rows' \in [Kernel -> [Req' -> {<<>>} \cup [0 .. S' -> Int]]]
                      /\ \A k \in Kernels', b \in Req' :
                           rows'[k][b] = <<>> \/ IF k = "linear" \/ Takes(k, b)' THEN Written(k, b, rows[k][b])'
                                                 ELSE rows'[k][b] = Blank'
  BY DEF RowsInv
<1>5. /\ rows \in [Kernel -> [Req -> {<<>>} \cup [0 .. S -> Int]]]
      /\ \A k \in Kernels, b \in Req :
           rows[k][b] = <<>> \/ IF k = "linear" \/ Takes(k, b) THEN Written(k, b, rows[k][b])
                                ELSE rows[k][b] = Blank
  BY <1>4 DEF RowsInv
<1>6. ASSUME NEW k \in Kernels, NEW b \in Req
      PROVE  rows'[k][b] = <<>> \/ IF k = "linear" \/ Takes(k, b) THEN Written(k, b, rows[k][b])'
                                   ELSE rows'[k][b] = Blank
  <2>1. rows' = rows
    OBVIOUS
  <2> QED  BY <2>1, <1>3, <1>5
<1> QED  BY <1>1, <1>5, <1>6

LEMMA OutKept ==
  ASSUME OutInv, UNCHANGED <<given, draft_out, accepted_cnt>>, stage' \in After => stage \in After
  PROVE  OutInv'
<1>1. S' = S /\ Req' = Req /\ batch' = batch /\ \A b : nd(b)' = nd(b)
  BY SameGiven DEF given
<1>2. \A row : Length(row)' = Length(row)
  BY <1>1 DEF Length
<1>3. \A b, n : Emits(b, n)' <=> Emits(b, n)
  BY <1>1, <1>2 DEF Emits
<1>4. \A b : Length(draft_out[b])' = Length(draft_out[b])
  BY <1>1 DEF Length
<1>5. ASSUME NEW b, Emits(b, Length(draft_out[b])) PROVE Emits(b, Length(draft_out[b]))'
  <2> DEFINE n == Length(draft_out[b])
  <2>1. n' = n
    BY <1>4
  <2>2. Emits(b, n)
    BY <1>5
  <2> HIDE DEF n
  <2>3. Emits(b, n)'
    BY <2>1, <2>2, <1>1, <1>4 DEF Emits
  <2> QED  BY <2>3 DEF n
<1> QED  BY <1>1, <1>5 DEF OutInv

LEMMA PackKept ==
  ASSUME PackInv, UNCHANGED <<given, draft_out, accepted_cnt, packing>>,
         stage' = "recover" => stage = "recover",
         stage' = "compact" => batch.kind = "linear",
         stage' \in {"recover", "verify"} => stage \in {"recover", "verify"},
         Compacts' => \/ Compacts /\ (stage' # "compact" => \A th \in Thread : compact_pc[th] = "done")
                      \/ stage' = "compact" /\ \A th \in Thread : compact_pc[th] = "emit"
  PROVE  PackInv'
<1>1. /\ B' = B /\ S' = S /\ Req' = Req /\ vlen' = vlen /\ Emitted' = Emitted
      /\ \A b : Upto(b)' = Upto(b)
      /\ \A th : RequestChunk(th)' = RequestChunk(th)
      /\ \A th, i : InTail(th, i)' <=> InTail(th, i)
  BY SamePlaces
<1>2. /\ packed_tokens' = packed_tokens /\ packed_pos' = packed_pos /\ cu_accepted' = cu_accepted
      /\ compact_pc' = compact_pc /\ draft_out' = draft_out /\ accepted_cnt' = accepted_cnt /\ batch' = batch
  BY DEF packing, given
<1>3. ASSUME NEW th, Packed(th) PROVE Packed(th)'
  <2>1. \A b : Placed(b)' <=> Placed(b)
    BY <1>1, <1>2 DEF Placed
  <2> QED  BY <2>1, <1>1, <1>2, <1>3 DEF Packed
<1>4. ASSUME NEW th, ClearTail(th) PROVE ClearTail(th)'
  BY <1>1, <1>2, <1>4 DEF ClearTail
<1>5. ASSUME Compacts', NEW th \in Thread
      PROVE  (compact_pc[th] # "emit" => Packed(th)') /\ (compact_pc[th] = "done" => ClearTail(th)')
  <2>1. CASE compact_pc[th] # "emit"
    <3>1. Compacts
      BY <1>5, <2>1
    <3>2. Packed(th) /\ (compact_pc[th] = "done" => ClearTail(th))
      BY <3>1, <2>1 DEF PackInv
    <3> QED  BY <3>2, <1>3, <1>4
  <2>2. CASE compact_pc[th] = "emit"
    BY <2>2
  <2> QED  BY <2>1, <2>2
<1>6. ASSUME Compacts', stage' # "compact", NEW th \in Thread PROVE compact_pc[th] = "done"
  BY <1>6
<1>7. /\ DOMAIN packed_tokens = 0 .. B*(S+1)-1 /\ DOMAIN packed_pos = 0 .. B*(S+1)-1
      /\ accepted_cnt \in [Req -> Int] /\ compact_pc \in [Thread -> {"emit", "fill", "done"}]
      /\ stage = "recover" => batch.kind = "ragged"
      /\ stage \in {"recover", "verify"} => \A th \in Thread : compact_pc[th] = "emit"
  BY DEF PackInv
<1> QED  BY <1>1, <1>2, <1>5, <1>6, <1>7 DEF PackInv

VerifyInv == GivenInv /\ ReadInv /\ RowsInv /\ OutInv /\ PackInv

\* A verifier writes its request's row.
LEMMA RecoverKeeps == ASSUME BatchAssumption, VerifyInv, Recover PROVE VerifyInv'
<1> USE DEF VerifyInv
<1>1. /\ stage = "recover" /\ stage' = "verify"
      /\ UNCHANGED <<given, draft, rows, accepted_cnt, draft_out, packing>>
  BY DEF Recover
<1>2. batch.kind = "ragged" /\ batch' = batch
  BY <1>1 DEF PackInv, given
<1>3. GivenInv'
  BY <1>1, GivenKept
<1>4. ReadInv'
  <2>1. NDrafts' = NDrafts /\ Pairs' = Pairs /\ \A x, noise : Draw(x, noise)' = Draw(x, noise)
    <3>1. \A x, noise : Draw(x, noise)' = Draw(x, noise)
      BY <1>1 DEF Draw, Residual, Best, given
    <3> QED  BY <1>1, <3>1, SameGiven
  <2>2. PICK inv_q \in [Req -> Noises] : recovered' = [i \in 0 .. NDrafts-1 |-> Draw(draft[i], inv_q[Owner(i)])]
    BY DEF Recover
  <2>3. ASSUME NEW i \in 0 .. NDrafts-1 PROVE \E noise \in Noises : recovered'[i] = Draw(draft[i], noise)
    <3>1. PICK b \in Req : i \in cu[b] .. cu[b+1]-1
      BY OneOwns
    <3>2. Owner(i) = b
      BY <3>1, OwnerIs
    <3>3. inv_q[b] \in Noises /\ recovered'[i] = Draw(draft[i], inv_q[b])
      BY <2>2, <3>2
    <3> QED  BY <3>3
  <2>4. draft \in [0 .. NDrafts-1 -> Pairs] /\ draft' = draft
    BY <1>1 DEF ReadInv
  <2> QED  BY <2>1, <2>3, <2>4, <1>2 DEF ReadInv
<1>5. RowsInv'
  BY <1>1, RowsKept
<1>6. OutInv'
  BY <1>1 DEF OutInv, After
<1>7. PackInv'
  <2>1. ~Compacts'
    BY <1>1 DEF Compacts, After
  <2> QED  BY <2>1, <1>1, PackKept
<1> QED  BY <1>3, <1>4, <1>5, <1>6, <1>7

LEMMA WritesKeep ==
  ASSUME BatchAssumption, VerifyInv, stage = "verify", stage' = stage,
         UNCHANGED <<given, draft, recovered, draft_out, packing>>,
         accepted_cnt' \in [Req -> Int], RowsInv'
  PROVE  VerifyInv'
<1> USE DEF VerifyInv
<1>1. GivenInv' /\ ReadInv'
  BY GivenKept, ReadKept
<1>2. OutInv'
  BY DEF OutInv, After
<1>3. PackInv'
  <2>1. ~Compacts'
    BY DEF Compacts, After
  <2>2. B' = B /\ S' = S /\ Req' = Req
    BY SameGiven
  <2> QED  BY <2>1, <2>2 DEF PackInv, packing
<1> QED  BY <1>1, <1>2, <1>3

LEMMA LinearKeeps == ASSUME BatchAssumption, VerifyInv, NEW b \in Req, VerifyLinear(b) PROVE VerifyInv'
<1> USE DEF VerifyInv
<1>1. /\ Kernels = {"linear"} /\ stage = "verify" /\ stage' = stage
      /\ UNCHANGED <<given, draft, recovered, draft_out, packing>>
  BY LinearWrites
<1>2. PICK row \in [0 .. S -> Int], r \in 0 .. S :
        /\ rows' = [rows EXCEPT !["linear"][b] = row] /\ r \in 0 .. nd(b)
        /\ accepted_cnt' = [accepted_cnt EXCEPT ![b] = r]
        /\ \E token \in DraftToken : row = EmittedRow(b, r, token) /\ Justified("linear", b, r, token)
  BY LinearWrites
<1>3. accepted_cnt \in [Req -> Int] /\ r \in Int
  BY BatchIs DEF PackInv
<1>4. /\ \A c \in Req : c # b => accepted_cnt'[c] = accepted_cnt[c]
      /\ accepted_cnt'[b] = r /\ accepted_cnt' \in [Req -> Int]
  BY <1>2, <1>3
<1>5. RowsInv'
  <2>1. \E s \in 0 .. nd(b), token \in DraftToken :
          row = EmittedRow(b, s, token) /\ Justified("linear", b, s, token) /\ accepted_cnt'[b] = s
    BY <1>2, <1>4
  <2>2. "linear" \in Kernels
    BY <1>1
  <2> QED  BY <1>1, <1>2, <1>4, <2>1, <2>2, RowWritten
<1> QED  BY <1>1, <1>4, <1>5, WritesKeep

LEMMA SamplerKeeps ==
  ASSUME BatchAssumption, VerifyInv, NEW b \in Req, SampleGreedy(b) \/ SampleRandom(b)
  PROVE  VerifyInv'
<1> USE DEF VerifyInv
<1>1. PICK k \in {"greedy", "random"} : IF k = "greedy" THEN SampleGreedy(b) ELSE SampleRandom(b)
  <2>1. CASE SampleGreedy(b)
    <3>1. IF "greedy" = "greedy" THEN SampleGreedy(b) ELSE SampleRandom(b)
      BY <2>1
    <3> QED  BY <3>1
  <2>2. CASE SampleRandom(b)
    <3>1. IF "random" = "greedy" THEN SampleGreedy(b) ELSE SampleRandom(b)
      BY <2>2
    <3> QED  BY <3>1
  <2> QED  BY <2>1, <2>2
<1>2. /\ k \in Kernels /\ stage = "verify" /\ stage' = stage
      /\ UNCHANGED <<given, draft, recovered, draft_out, packing, accepted_cnt>>
      /\ \E row \in [0 .. S -> Int] :
           /\ rows' = [rows EXCEPT ![k][b] = row]
           /\ IF Takes(k, b)
              THEN \E r \in 0 .. nd(b), token \in DraftToken :
                     row = EmittedRow(b, r, token) /\ Justified(k, b, r, token)
              ELSE row = Blank
  BY <1>1, SamplerWrites
<1>3. PICK row \in [0 .. S -> Int] :
        /\ rows' = [rows EXCEPT ![k][b] = row]
        /\ IF Takes(k, b)
           THEN \E r \in 0 .. nd(b), token \in DraftToken :
                  row = EmittedRow(b, r, token) /\ Justified(k, b, r, token)
           ELSE row = Blank
  BY <1>2
<1>4. RowsInv'
  <2>1. k # "linear"
    OBVIOUS
  <2>2. IF k = "linear" \/ Takes(k, b)
        THEN \E r \in 0 .. nd(b), token \in DraftToken :
               row = EmittedRow(b, r, token) /\ Justified(k, b, r, token) /\ (k = "linear" => accepted_cnt'[b] = r)
        ELSE row = Blank
    BY <1>3, <2>1
  <2>3. \A c \in Req : c # b => accepted_cnt'[c] = accepted_cnt[c]
    BY <1>2
  <2> QED  BY <1>2, <1>3, <2>2, <2>3, RowWritten
<1>5. accepted_cnt' \in [Req -> Int]
  BY <1>2 DEF PackInv
<1> QED  BY <1>2, <1>4, <1>5, WritesKeep

LEMMA CollectKeeps == ASSUME BatchAssumption, VerifyInv, Collect PROVE VerifyInv'
<1> USE DEF VerifyInv
<1>1. /\ stage = "verify" /\ stage' = (IF batch.kind = "linear" THEN "compact" ELSE "prepare")
      /\ UNCHANGED <<given, accepted_cnt, packing>>
  BY DEF Collect
<1>2. OutInv' /\ stage' \in {"compact", "prepare"}
  BY Collected
<1>3. GivenInv'
  BY <1>1, GivenKept
<1>4. ReadInv' /\ RowsInv'
  BY <1>2 DEF ReadInv, RowsInv
<1>5. PackInv'
  <2>1. /\ B' = B /\ S' = S /\ Req' = Req /\ batch' = batch
        /\ packed_tokens' = packed_tokens /\ packed_pos' = packed_pos /\ compact_pc' = compact_pc
        /\ accepted_cnt' = accepted_cnt
    BY <1>1, SameGiven DEF given, packing
  <2>2. \A th \in Thread : compact_pc[th] = "emit"
    BY <1>1 DEF PackInv
  <2>3. Compacts' => stage' = "compact"
    BY <1>1, <2>1 DEF Compacts
  <2>4. stage' = "compact" => batch.kind = "linear"
    BY <1>1
  <2> QED  BY <1>2, <2>1, <2>2, <2>3, <2>4 DEF PackInv
<1> QED  BY <1>2, <1>3, <1>4, <1>5

LEMMA DoneKeeps == ASSUME BatchAssumption, VerifyInv, CompactDone PROVE VerifyInv'
<1> USE DEF VerifyInv
<1>1. /\ stage = "compact" /\ stage' = "prepare" /\ \A th \in Thread : compact_pc[th] = "done"
      /\ UNCHANGED <<given, draft, recovered, rows, accepted_cnt, draft_out, packing>>
  BY DEF CompactDone
<1>2. GivenInv' /\ OutInv'
  BY <1>1, GivenKept, OutKept DEF After
<1>3. ReadInv' /\ RowsInv'
  BY <1>1 DEF ReadInv, RowsInv
<1>4. PackInv'
  <2>1. Compacts
    BY <1>1 DEF Compacts, After, PackInv
  <2> QED  BY <2>1, <1>1, PackKept
<1> QED  BY <1>2, <1>3, <1>4

LEMMA ThreadKeeps ==
  ASSUME BatchAssumption, VerifyInv, NEW th \in Thread, EmitChunk(th) \/ FillUnused(th)
  PROVE  VerifyInv'
<1> USE DEF VerifyInv
<1>1. /\ stage = "compact" /\ stage' = stage
      /\ UNCHANGED <<given, draft, recovered, rows, accepted_cnt, draft_out>>
  BY DEF EmitChunk, FillUnused
<1>2. GivenInv' /\ OutInv'
  BY <1>1, GivenKept, OutKept
<1>3. ReadInv' /\ RowsInv'
  BY <1>1 DEF ReadInv, RowsInv
<1>4. PackInv'
  BY EmitKeeps, FillKeeps
<1> QED  BY <1>2, <1>3, <1>4

\* A step that keeps what is verified, in the stages after or not at all.
Late == {"prepare", "meta", "inputs", "expand", "step"}

LEMMA VerifyKept ==
  ASSUME VerifyInv, UNCHANGED Kept, stage' = stage \/ {stage, stage'} \subseteq Late
  PROVE  VerifyInv'
<1> USE DEF VerifyInv
<1>1. UNCHANGED <<given, draft, recovered, rows, accepted_cnt, draft_out, packing>>
  BY DEF Kept
<1>2. /\ stage' \in {"recover", "verify"} => stage' = stage
      /\ stage' = "recover" => stage = "recover"
      /\ stage' = "compact" => stage = "compact"
      /\ stage' \in After => stage \in After
      /\ stage # "compact" \/ stage' = stage
  BY DEF Late, After
<1>3. GivenInv' /\ ReadInv' /\ RowsInv' /\ OutInv'
  <2>1. stage' \in {"recover", "verify"} => stage \in {"recover", "verify"}
    BY <1>2
  <2> QED  BY <1>1, <1>2, <2>1, GivenKept, ReadKept, RowsKept, OutKept
<1>4. PackInv'
  <2>1. Compacts' => Compacts
    BY <1>1, <1>2 DEF Compacts, given
  <2>2. Compacts' /\ stage' # "compact" => \A th \in Thread : compact_pc[th] = "done"
    BY <1>2, <2>1 DEF PackInv
  <2>3. stage' = "compact" => batch.kind = "linear"
    BY <1>2 DEF PackInv
  <2>4. stage' \in {"recover", "verify"} => stage \in {"recover", "verify"}
    BY <1>2
  <2> QED  BY <1>1, <1>2, <2>1, <2>2, <2>3, <2>4, PackKept
<1> QED  BY <1>3, <1>4

LEMMA Started == ASSUME BatchAssumption, DraftInit PROVE VerifyInv /\ PrepInv
<1>1. /\ batch \in Batches
      /\ cu = [b \in 0 .. B |-> SumFunctionOnSet(batch.num_draft, 0 .. b-1)]
      /\ draft \in [0 .. NDrafts-1 -> Pairs]
      /\ batch.kind = "linear" => ~no_draft_probs
      /\ is_greedy \in (IF batch.kind = "linear" THEN {[b \in Req |-> FALSE]} ELSE [Req -> BOOLEAN])
      /\ rows = [k \in {"linear", "greedy", "random"} |-> [b \in Req |-> <<>>]]
      /\ accepted_cnt = [b \in Req |-> DraftGarbage]
      /\ packed_tokens = [i \in 0 .. B*(S+1)-1 |-> DraftGarbage]
      /\ packed_pos = [i \in 0 .. B*(S+1)-1 |-> DraftGarbage]
      /\ compact_pc = [i \in Thread |-> "emit"]
      /\ stage = IF batch.kind = "linear" THEN "verify" ELSE "recover"
  <2>1. VerifyInit
    BY DEF DraftInit
  <2>2. batch.kind = "linear" => ~no_draft_probs
    BY <2>1 DEF VerifyInit
  <2>3. is_greedy \in (IF batch.kind = "linear" THEN {[b \in Req |-> FALSE]} ELSE [Req -> BOOLEAN])
    BY <2>1 DEF VerifyInit
  <2> QED  BY <2>1, <2>2, <2>3 DEF VerifyInit, Pairs
<1>2. batch.kind \in {"linear", "ragged"}
  BY <1>1 DEF BatchAssumption
<1>4. GivenInv
  <2>1. CASE batch.kind = "linear"
    BY <1>1, <2>1 DEF GivenInv
  <2>2. CASE batch.kind # "linear"
    BY <1>1, <2>2 DEF GivenInv
  <2> QED  BY <2>1, <2>2
<1>5. ReadInv
  <2>1. batch.kind = "ragged" => stage # "verify"
    BY <1>1
  <2> QED  BY <1>1, <2>1 DEF ReadInv
<1>6. RowsInv
  <2>1. rows = [k \in Kernel |-> [b \in Req |-> <<>>]]
    BY <1>1 DEF Kernel
  <2>2. Kernels \subseteq Kernel
    BY DEF Kernels, Kernel
  <2>3. rows \in [Kernel -> [Req -> {<<>>} \cup [0 .. S -> Int]]]
    BY <2>1
  <2>4. \A k \in Kernels, b \in Req : rows[k][b] = <<>>
    BY <2>1, <2>2
  <2> QED  BY <2>3, <2>4 DEF RowsInv
<1>7. stage \in {"verify", "recover"} /\ (stage = "recover" <=> batch.kind = "ragged")
  BY <1>1, <1>2
<1>8. OutInv /\ PackInv
  <2>1. accepted_cnt \in [Req -> Int]
    BY <1>1 DEF DraftGarbage
  <2>2. \A th \in Thread : compact_pc[th] = "emit"
    BY <1>1
  <2>3. compact_pc \in [Thread -> {"emit", "fill", "done"}]
    BY <1>1
  <2>4. DOMAIN packed_tokens = 0 .. B*(S+1)-1 /\ DOMAIN packed_pos = 0 .. B*(S+1)-1
    BY <1>1
  <2>5. stage \notin After
    BY <1>7 DEF After
  <2>6. ~Compacts
    BY <2>5 DEF Compacts
  <2> QED  BY <1>7, <2>1, <2>2, <2>3, <2>4, <2>5, <2>6 DEF OutInv, PackInv
<1>9. PrepInv
  BY <1>7 DEF DraftInit, PrepInv, NextInv, LenInv, QueryInv, StepInv
<1> QED  BY <1>4, <1>5, <1>6, <1>8, <1>9 DEF VerifyInv

\* Before the rows are collected, nothing is prepared.
LEMMA VerifyStep ==
  ASSUME BatchAssumption, VerifyInv, PrepInv, Verify
  PROVE  VerifyInv' /\ PrepInv'
<1>1. VerifyNext /\ UNCHANGED stepping
  BY DEF Verify
<1>2. VerifyInv'
  BY <1>1, RecoverKeeps, LinearKeeps, SamplerKeeps, CollectKeeps, ThreadKeeps, DoneKeeps DEF VerifyNext
<1>3. stage \in {"recover", "verify", "compact"} /\ stage' \in {"verify", "compact", "prepare"}
  <2>1. CASE Recover
    BY <2>1 DEF Recover
  <2>2. CASE \E b \in Req : VerifyLinear(b) \/ SampleGreedy(b) \/ SampleRandom(b)
    BY <2>2 DEF VerifyLinear, SampleGreedy, SampleRandom, Verifying, WriteRow
  <2>3. CASE Collect
    BY <2>3 DEF Collect
  <2>4. CASE \E th \in Thread : EmitChunk(th) \/ FillUnused(th)
    BY <2>4 DEF EmitChunk, FillUnused
  <2>5. CASE CompactDone
    BY <2>5 DEF CompactDone
  <2> QED  BY <1>1, <2>1, <2>2, <2>3, <2>4, <2>5 DEF VerifyNext
<1>4. writes' = {} /\ step' = 0
  BY <1>1, <1>3 DEF PrepInv, StepInv, stepping
<1>5. PrepInv'
  BY <1>3, <1>4 DEF PrepInv, NextInv, LenInv, QueryInv, StepInv
<1> QED  BY <1>2, <1>5

LEMMA SamePrep ==
  ASSUME UNCHANGED Kept
  PROVE  /\ Req' = Req /\ draft_out' = draft_out /\ batch' = batch /\ S' = S
         /\ \A row : Length(row)' = Length(row)
         /\ \A b : nd(b)' = nd(b) /\ query_start_loc(b)' = query_start_loc(b)
<1>1. Req' = Req /\ S' = S /\ batch' = batch /\ cu' = cu /\ draft_out' = draft_out /\ \A b : nd(b)' = nd(b)
  BY SameGiven DEF Kept, given
<1>2. \A row : Length(row)' = Length(row)
  BY <1>1 DEF Length
<1>3. \A b : query_start_loc(b)' = query_start_loc(b)
  BY <1>1 DEF query_start_loc
<1> QED  BY <1>1, <1>2, <1>3

\* The valid entries of a row are its tokens, and the last is the last of them.
LEMMA PrepareKeeps ==
  ASSUME BatchAssumption, VerifyInv, PrepInv, PrepareNextToken
  PROVE  VerifyInv' /\ PrepInv'
<1>1. stage = "prepare" /\ stage' = "meta" /\ UNCHANGED <<Kept, stepping>>
  BY DEF PrepareNextToken, At
<1>2. VerifyInv'
  BY <1>1, VerifyKept DEF Late
<1>3. Req' = Req /\ draft_out' = draft_out /\ S' = S /\ \A row : Length(row)' = Length(row)
  BY <1>1, SamePrep
<1> DEFINE valid(b) == {i \in 0 .. S : IsValid(draft_out[b][i])}
           final(b)  == draft_out[b][CHOOSE i \in valid(b) : \A o \in valid(b) : o <= i]
<1>4. PICK mask \in [Req -> BOOLEAN] :
        /\ discard' = mask
        /\ next_token_ids' = [b \in Req |-> IF mask[b] \/ valid(b) = {} THEN Backup ELSE final(b)]
        /\ valid_count' = [b \in Req |-> IF mask[b] THEN 0 ELSE Cardinality(valid(b))]
  BY DEF PrepareNextToken
<1>5. ASSUME NEW b \in Req
      PROVE  LET n == Length(draft_out[b])
             IN  valid(b) # {} /\ Cardinality(valid(b)) = n /\ final(b) = draft_out[b][n-1]
  <2> DEFINE n == Length(draft_out[b])
  <2>1. /\ n \in 1 .. nd(b)+1 /\ \A i \in 0 .. n-1 : draft_out[b][i] \in DraftToken
        /\ \A i \in 0 .. S : i >= n => draft_out[b][i] = Placeholder
    <3>1. Emits(b, n)
      BY <1>1 DEF VerifyInv, OutInv, After
    <3> HIDE DEF n
    <3> QED  BY <3>1 DEF Emits
  <2>2. S \in Nat /\ nd(b) \in 0 .. S /\ V \in Nat
    <3>1. S \in Nat /\ nd(b) \in 0 .. S
      BY BatchIs DEF VerifyInv
    <3> QED  BY <3>1, TokenIs
  <2> HIDE DEF n
  <2>3. valid(b) = 0 .. n-1
    <3>1. ASSUME NEW i \in 0 .. S PROVE IsValid(draft_out[b][i]) <=> i \in 0 .. n-1
      <4>1. CASE i >= n
        BY <2>1, <2>2, <4>1 DEF IsValid, Placeholder
      <4>2. CASE ~(i >= n)
        <5>1. i \in 0 .. n-1
          BY <2>1, <2>2, <4>2
        <5>2. draft_out[b][i] \in 0 .. V-1
          BY <5>1, <2>1 DEF DraftToken
        <5> QED  BY <5>1, <5>2, <2>2 DEF IsValid
      <4> QED  BY <4>1, <4>2
    <3>2. 0 .. n-1 \subseteq 0 .. S
      BY <2>1, <2>2
    <3> QED  BY <3>1, <3>2
  <2> HIDE DEF valid
  <2>4. Cardinality(0 .. n-1) = n /\ 0 .. n-1 # {}
    <3> DEFINE m == n-1
    <3>1. m \in Nat /\ m+1 = n /\ 0 \in 0 .. m
      BY <2>1, <2>2
    <3> HIDE DEF m
    <3>2. Cardinality(0 .. m) = m+1
      BY <3>1, FS_Interval
    <3> QED  BY <3>1, <3>2 DEF m
  <2>5. (CHOOSE i \in 0 .. n-1 : \A o \in 0 .. n-1 : o <= i) = n-1
    <3>1. n-1 \in 0 .. n-1 /\ \A o \in 0 .. n-1 : o <= n-1
      BY <2>1, <2>2
    <3>2. \A i \in 0 .. n-1 : (\A o \in 0 .. n-1 : o <= i) => i = n-1
      BY <2>1, <2>2
    <3> QED  BY <3>1, <3>2
  <2> QED  BY <2>3, <2>4, <2>5 DEF n
<1> HIDE DEF valid, final
<1>6. NextInv'
  <2>1. discard' \in [Req -> BOOLEAN]
    BY <1>4
  <2>2. ASSUME NEW b \in Req
        PROVE  IF discard'[b] THEN valid_count'[b] = 0
               ELSE /\ next_token_ids'[b] = draft_out[b][Length(draft_out[b])-1]
                    /\ valid_count'[b] = Length(draft_out[b])
    BY <1>4, <1>5
  <2>3. \A b : Length(draft_out[b])' = Length(draft_out[b])
    BY <1>3
  <2> QED  BY <1>3, <2>1, <2>2, <2>3 DEF NextInv
<1>7. LenInv' /\ QueryInv' /\ StepInv'
  BY <1>1 DEF LenInv, QueryInv, StepInv, PrepInv, stepping
<1> QED  BY <1>2, <1>6, <1>7 DEF PrepInv

LEMMA NextKept ==
  ASSUME NextInv, UNCHANGED <<Kept, discard, next_token_ids, valid_count>>,
         stage' \in {"meta", "inputs", "expand", "step"} => stage \in {"meta", "inputs", "expand", "step"}
  PROVE  NextInv'
<1>1. Req' = Req /\ draft_out' = draft_out /\ \A row : Length(row)' = Length(row)
  BY SamePrep
<1>2. \A b : Length(draft_out[b])' = Length(draft_out[b])
  BY <1>1 DEF Length, Kept
<1> QED  BY <1>1, <1>2 DEF NextInv

LEMMA LenKept ==
  ASSUME LenInv, UNCHANGED <<Kept, discard, new_seq_lens>>,
         stage' \in {"inputs", "expand", "step"} => stage \in {"inputs", "expand", "step"}
  PROVE  LenInv'
<1>1. Req' = Req /\ draft_out' = draft_out /\ batch' = batch
  BY SamePrep
<1>2. \A b : Length(draft_out[b])' = Length(draft_out[b])
  BY SamePrep DEF Length
<1> QED  BY <1>1, <1>2 DEF LenInv

LEMMA MetaKeeps ==
  ASSUME BatchAssumption, VerifyInv, PrepInv, UpdateKvMeta PROVE VerifyInv' /\ PrepInv'
<1>1. /\ stage = "meta" /\ stage' = "inputs"
      /\ UNCHANGED <<Kept, discard, next_token_ids, valid_count, stepping>>
  BY DEF UpdateKvMeta, At
<1>2. VerifyInv' /\ NextInv'
  BY <1>1, VerifyKept, NextKept DEF Late, PrepInv
<1>3. Req' = Req /\ batch' = batch /\ \A b : Length(draft_out[b])' = Length(draft_out[b])
  BY <1>1, SamePrep DEF Length
<1>4. ASSUME NEW b \in Req
      PROVE  /\ new_seq_lens'[b] \in Nat \ {0}
             /\ ~discard[b] => new_seq_lens'[b] = batch.seq_lens[b] + Length(draft_out[b])
  <2> DEFINE n == Length(draft_out[b])
             newly == IF batch.kind = "linear" THEN accepted_cnt[b] ELSE valid_count[b] - 1
  <2>1. /\ n \in 1 .. nd(b)+1 /\ (batch.kind = "linear" => accepted_cnt[b] = n-1)
    <3>1. Emits(b, n)
      BY <1>1 DEF VerifyInv, OutInv, After
    <3> HIDE DEF n
    <3> QED  BY <3>1 DEF Emits
  <2>2. IF discard[b] THEN valid_count[b] = 0 ELSE valid_count[b] = n
    BY <1>1 DEF PrepInv, NextInv
  <2>3. nd(b) \in Nat /\ batch.seq_lens[b] \in Nat \ {0}
    BY BatchIs DEF VerifyInv
  <2>4. new_seq_lens'[b] = batch.seq_lens[b] + newly + 1
    BY DEF UpdateKvMeta
  <2> HIDE DEF n
  <2>5. newly = n-1 \/ (discard[b] /\ newly = -1)
    BY <2>1, <2>2, <2>3
  <2> HIDE DEF newly
  <2>6. new_seq_lens'[b] \in Nat \ {0} /\ (~discard[b] => new_seq_lens'[b] = batch.seq_lens[b] + n)
    BY <2>1, <2>3, <2>4, <2>5
  <2> QED  BY <2>6 DEF n
<1>5. LenInv'
  BY <1>1, <1>3, <1>4 DEF LenInv
<1>6. QueryInv' /\ StepInv'
  BY <1>1 DEF QueryInv, StepInv, PrepInv, stepping
<1> QED  BY <1>2, <1>5, <1>6 DEF PrepInv

LEMMA InputsKeep ==
  ASSUME BatchAssumption, VerifyInv, PrepInv, PrepareInputs PROVE VerifyInv' /\ PrepInv'
<1>1. /\ stage = "inputs" /\ stage' = "expand"
      /\ UNCHANGED <<Kept, discard, next_token_ids, valid_count, new_seq_lens, stepping>>
  BY DEF PrepareInputs, At
<1>2. VerifyInv' /\ NextInv' /\ LenInv'
  BY <1>1, VerifyKept, NextKept, LenKept DEF Late, PrepInv
<1>3. /\ Req' = Req
      /\ \A b : query_start_loc(b)' = query_start_loc(b) /\ Rejected(b)' = Rejected(b)
  <2>1. Req' = Req /\ \A b : nd(b)' = nd(b) /\ query_start_loc(b)' = query_start_loc(b)
    BY <1>1, SamePrep
  <2> QED  BY <2>1, <1>1 DEF Rejected
<1>4. \A b \in Req : /\ num_rejected'[b] = Rejected(b)
                     /\ token_indices_to_sample'[b] = query_start_loc(b+1) - 1 - Rejected(b)
  BY DEF PrepareInputs
<1>5. QueryInv'
  BY <1>1, <1>3, <1>4 DEF QueryInv
<1>6. StepInv'
  BY <1>1 DEF StepInv, PrepInv, stepping
<1> QED  BY <1>2, <1>5, <1>6 DEF PrepInv

LEMMA ExpandKeeps ==
  ASSUME BatchAssumption, VerifyInv, PrepInv, Expand PROVE VerifyInv' /\ PrepInv'
<1>1. /\ stage = "expand" /\ stage' = "step"
      /\ positions' = [b \in Req |-> new_seq_lens[b] - 1] /\ seq_lens' = new_seq_lens
      /\ UNCHANGED <<Kept, discard, next_token_ids, valid_count, new_seq_lens, writes, step>>
  BY DEF Expand, At
<1>2. VerifyInv' /\ NextInv' /\ LenInv'
  BY <1>1, VerifyKept, NextKept, LenKept DEF Late, PrepInv
<1>3. Req' = Req
  BY <1>1, SamePrep
<1>4. writes = {} /\ step = 0
  BY <1>1 DEF PrepInv, StepInv
<1>5. \A b \in Req : new_seq_lens[b] \in Nat
  BY <1>1 DEF PrepInv, LenInv
<1>6. StepInv'
  <2>1. \A b \in Req : positions'[b] = new_seq_lens'[b] - 1 + step' /\ seq_lens'[b] = new_seq_lens'[b]
    BY <1>1, <1>4, <1>5
  <2> QED  BY <1>1, <1>3, <1>4, <2>1 DEF StepInv
<1>7. QueryInv'
  BY <1>1 DEF QueryInv
<1> QED  BY <1>2, <1>6, <1>7 DEF PrepInv

LEMMA DraftStepKeeps ==
  ASSUME BatchAssumption, TableAssumption, VerifyInv, PrepInv, DraftStep PROVE VerifyInv' /\ PrepInv'
<1> DEFINE new(b) == positions[b] + 1
           clamped(b) == IF Exceeds(new(b)) THEN 0 ELSE new(b)
           block(b) == LET k == clamped(b) \div BlockSize IN IF k < NBlocks THEN k ELSE NBlocks-1
           slot(b) == IF Exceeds(new(b)) THEN Pad
                      ELSE block_table[b][block(b)] * BlockSize + (clamped(b) % BlockSize)
           grown(b) == IF seq_lens[b] + 1 < MaxModelLen THEN seq_lens[b] + 1 ELSE MaxModelLen
<1>1. /\ stage = "step" /\ stage' = stage /\ step' = step + 1
      /\ seq_lens' = [b \in Req |-> IF Exceeds(new(b)) THEN 1 ELSE grown(b)]
      /\ positions' = [b \in Req |-> new(b)]
      /\ writes' = writes \cup {<<b, new(b), slot(b)>> : b \in Req}
      /\ UNCHANGED <<Kept, prepared>>
  BY DEF DraftStep
<1>2. VerifyInv' /\ NextInv' /\ LenInv'
  BY <1>1, VerifyKept, NextKept, LenKept DEF Late, PrepInv, prepared
<1>3. QueryInv'
  BY <1>1 DEF QueryInv
<1>4. Req' = Req /\ new_seq_lens' = new_seq_lens
  BY <1>1, SamePrep DEF prepared
<1>5. /\ step \in Nat
      /\ \A b \in Req :
           /\ positions[b] = new_seq_lens[b] - 1 + step
           /\ seq_lens[b] = (IF step = 0 THEN new_seq_lens[b]
                             ELSE IF positions[b] < MaxModelLen THEN positions[b] + 1 ELSE 1)
      /\ \A w \in writes : \E b \in Req : \E p \in new_seq_lens[b] .. new_seq_lens[b] + step - 1 :
           w = <<b, p, SlotFor(b, p)>>
  BY <1>1 DEF PrepInv, StepInv
<1>6. \A b \in Req : new_seq_lens[b] \in Nat \ {0}
  BY <1>1 DEF PrepInv, LenInv
<1>7. MaxModelLen \in Nat \ {0} /\ BlockSize \in Nat \ {0} /\ NBlocks \in Nat \ {0}
  BY TableIs DEF VerifyInv
<1>8. ASSUME NEW b \in Req
      PROVE  /\ new(b) = new_seq_lens[b] + step /\ new(b) \in Nat
             /\ slot(b) = SlotFor(b, new(b))
             /\ Exceeds(new(b)) <=> new(b) >= MaxModelLen
             /\ ~Exceeds(new(b)) => grown(b) = new(b) + 1
  <2>1. new(b) = new_seq_lens[b] + step /\ new(b) \in Nat
    BY <1>5, <1>6
  <2>2. Exceeds(new(b)) <=> new(b) >= MaxModelLen
    BY DEF Exceeds
  <2>3. ~Exceeds(new(b)) => grown(b) = new(b) + 1
    <3>1. SUFFICES ASSUME new(b) < MaxModelLen PROVE grown(b) = new(b) + 1
      BY <1>7, <2>1, <2>2
    <3>2. seq_lens[b] = new(b)
      BY <1>5, <1>6, <1>7, <2>1, <3>1
    <3> HIDE DEF new
    <3> QED  BY <1>7, <2>1, <3>1, <3>2
  <2>4. slot(b) = SlotFor(b, new(b))
    <3> DEFINE p == new(b)
    <3>1. CASE Exceeds(p)
      BY <3>1 DEF SlotFor
    <3>2. CASE ~Exceeds(p)
      <4>1. p \in Nat /\ p < MaxModelLen
        BY <1>7, <2>1, <2>2, <3>2
      <4>2. clamped(b) = p
        BY <3>2
      <4>3. slot(b) = block_table[b][block(b)] * BlockSize + (clamped(b) % BlockSize)
        BY <3>2
      <4>4. block(b) = p \div BlockSize
        <5>1. block(b) = LET k == clamped(b) \div BlockSize IN IF k < NBlocks THEN k ELSE NBlocks-1
          OBVIOUS
        <5> HIDE DEF block, clamped, p, new
        <5>2. p \div BlockSize \in 0 .. NBlocks-1
          BY <4>1, SlotsDiffer DEF VerifyInv
        <5> QED  BY <4>2, <5>1, <5>2, <1>7
      <4> HIDE DEF slot, block, clamped, p
      <4>5. slot(b) = SlotOf(b, p)
        BY <4>2, <4>3, <4>4 DEF SlotOf
      <4>6. SlotFor(b, p) = SlotOf(b, p)
        BY <3>2 DEF SlotFor
      <4> QED  BY <4>5, <4>6 DEF p
    <3> QED  BY <3>1, <3>2
  <2> QED  BY <2>1, <2>2, <2>3, <2>4
<1> HIDE DEF new, slot, grown, clamped, block
<1>9. ASSUME NEW b \in Req
      PROVE  /\ positions'[b] = new_seq_lens[b] - 1 + step'
             /\ seq_lens'[b] = (IF step' = 0 THEN new_seq_lens[b]
                                ELSE IF positions'[b] < MaxModelLen THEN positions'[b] + 1 ELSE 1)
  <2>1. positions'[b] = new(b) /\ seq_lens'[b] = (IF Exceeds(new(b)) THEN 1 ELSE grown(b))
    BY <1>1
  <2>2. step' # 0
    BY <1>1, <1>5
  <2>3. new(b) = new_seq_lens[b] - 1 + (step + 1)
    BY <1>5, <1>6, <1>8
  <2> QED  BY <2>1, <2>2, <2>3, <1>1, <1>7, <1>8
<1>10. ASSUME NEW w \in writes'
       PROVE  \E b \in Req : \E p \in new_seq_lens[b] .. new_seq_lens[b] + step' - 1 : w = <<b, p, SlotFor(b, p)>>
  <2>1. CASE w \in writes
    <3>1. PICK b \in Req : \E p \in new_seq_lens[b] .. new_seq_lens[b] + step - 1 : w = <<b, p, SlotFor(b, p)>>
      BY <1>5, <2>1
    <3>2. PICK p \in new_seq_lens[b] .. new_seq_lens[b] + step - 1 : w = <<b, p, SlotFor(b, p)>>
      BY <3>1
    <3>3. p \in new_seq_lens[b] .. new_seq_lens[b] + step' - 1
      BY <1>1, <1>5, <1>6
    <3> QED  BY <3>2, <3>3
  <2>2. CASE w \notin writes
    <3>1. PICK b \in Req : w = <<b, new(b), slot(b)>>
      BY <1>1, <2>2
    <3>2. new(b) \in new_seq_lens[b] .. new_seq_lens[b] + step' - 1
      BY <1>1, <1>5, <1>6, <1>8
    <3>3. w = <<b, new(b), SlotFor(b, new(b))>>
      BY <3>1, <1>8
    <3> QED  BY <3>2, <3>3
  <2> QED  BY <2>1, <2>2
<1>11. StepInv'
  <2>1. step' \in Nat /\ stage' = "step"
    BY <1>1, <1>5
  <2> QED  BY <1>4, <1>9, <1>10, <2>1 DEF StepInv, SlotFor, SlotOf, Exceeds
<1> QED  BY <1>2, <1>3, <1>11 DEF PrepInv

LEMMA Stutters == ASSUME VerifyInv, PrepInv, UNCHANGED draftVars PROVE VerifyInv' /\ PrepInv'
<1>1. UNCHANGED Kept /\ stage' = stage /\ UNCHANGED <<prepared, stepping>>
  BY DEF draftVars, verifyVars, Kept
<1>2. VerifyInv' /\ NextInv' /\ LenInv'
  BY <1>1, VerifyKept, NextKept, LenKept DEF PrepInv, prepared
<1>3. QueryInv'
  <2>1. Req' = Req /\ \A b : nd(b)' = nd(b) /\ query_start_loc(b)' = query_start_loc(b)
    BY <1>1, SamePrep
  <2>2. \A b : Rejected(b)' = Rejected(b)
    BY <1>1, <2>1 DEF Rejected, prepared
  <2> QED  BY <1>1, <2>1, <2>2 DEF QueryInv, PrepInv, prepared
<1>4. StepInv'
  <2>1. Req' = Req
    BY <1>1, SamePrep
  <2> QED  BY <1>1, <2>1 DEF StepInv, PrepInv, stepping, prepared, SlotFor, SlotOf, Exceeds
<1> QED  BY <1>2, <1>3, <1>4 DEF PrepInv

LEMMA DraftInvariant ==
  ASSUME BatchAssumption, TableAssumption PROVE DraftSpec => [](VerifyInv /\ PrepInv)
<1>1. DraftInit => VerifyInv /\ PrepInv
  BY Started
<1>2. VerifyInv /\ PrepInv /\ [DraftNext]_draftVars => (VerifyInv /\ PrepInv)'
  <2>1. SUFFICES ASSUME VerifyInv, PrepInv, [DraftNext]_draftVars PROVE VerifyInv' /\ PrepInv'
    OBVIOUS
  <2> QED  BY <2>1, VerifyStep, PrepareKeeps, MetaKeeps, InputsKeep, ExpandKeeps, DraftStepKeeps, Stutters
           DEF DraftNext
<1> QED  BY <1>1, <1>2, PTL DEF DraftSpec

(***************************************************************************)
(* Each row is written by one sampler alone: a prefix of the request's own *)
(* drafts, one token more, and placeholders; a greedy row is what decoding *)
(* with the target would emit.  For every batch, coin and noise.           *)
(***************************************************************************)
THEOREM DraftsAreAPrefix ==
  ASSUME BatchAssumption, TableAssumption PROVE DraftSpec => []AcceptedThenOne
<1>1. VerifyInv => AcceptedThenOne
  BY RowsAccepted DEF VerifyInv
<1> QED  BY <1>1, DraftInvariant, PTL

(***************************************************************************)
(* The tokens follow the target: accepted or drawn after a rejection, each *)
(* has the target's grains, and none is emitted that the target cannot.    *)
(* Coins as fine as the probabilities stand for the uniform numbers of the *)
(* code.                                                                   *)
(***************************************************************************)
THEOREM DraftsFollowTheTarget ==
  ASSUME BatchAssumption, CoinsAssumption, TableAssumption PROVE DraftSpec => []FollowsTarget
<1>1. VerifyInv => FollowsTarget
  BY TargetFollowed DEF VerifyInv
<1> QED  BY <1>1, DraftInvariant, PTL

(***************************************************************************)
(* spec_compact packs the tokens in order, whatever its threads do first:  *)
(* no two of them write one entry, but for the tail.                       *)
(***************************************************************************)
THEOREM CompactionIsInOrder ==
  ASSUME BatchAssumption, TableAssumption PROVE DraftSpec => []PackedInOrder
<1>1. VerifyInv => PackedInOrder
  BY PackedWell DEF VerifyInv
<1> QED  BY <1>1, DraftInvariant, PTL

(***************************************************************************)
(* A request that is kept goes on from the last token it emitted, at the   *)
(* query of its last accepted draft.                                       *)
(***************************************************************************)
THEOREM NextDraftsAreSeeded ==
  ASSUME BatchAssumption, TableAssumption PROVE DraftSpec => []SeedsNextStep
<1>1. VerifyInv /\ PrepInv => SeedsNextStep
  BY Seeds DEF VerifyInv, PrepInv
<1> QED  BY <1>1, DraftInvariant, PTL

(***************************************************************************)
(* No draft step writes a slot of a verified token or one that another     *)
(* step or request has written.                                            *)
(***************************************************************************)
THEOREM DraftSlotsAreOwned ==
  ASSUME BatchAssumption, TableAssumption PROVE DraftSpec => []SlotsOwned
<1>1. VerifyInv /\ PrepInv => SlotsOwned
  BY OwnSlots DEF VerifyInv, PrepInv
<1> QED  BY <1>1, DraftInvariant, PTL

-----------------------------------------------------------------------------
(***************************************************************************)
(* The draft tree: what its kernels' lanes have written between their      *)
(* barriers, and what lane 0 knows on its walk.                            *)
(***************************************************************************)
\* The tree as the parents give it: children in the order of their numbers.
Kids(n)        == {c \in 1 .. TreeNodes-1 : parents[c] = n}
SiblingsAfter(c)       == {d \in c+1 .. TreeNodes-1 : parents[d] = parents[c]}
FirstChild(n)  == Nearest(Kids(n))
NextSibling(c) == IF c = 0 THEN NoNode ELSE Nearest(SiblingsAfter(c))

TreeInputInv ==
  \E x \in TreeInputs : /\ parents = x.parents /\ tree_draft = x.draft
                        /\ prob = x.prob /\ tree_valid = x.tree_valid

(***************************************************************************)
(* What the lanes have written so far: a word is cleared, then written by  *)
(* the one node it belongs to, the first child for its parent's.           *)
(***************************************************************************)
PointerInv ==
  /\ retrieve_next_token \in [Node -> Int] /\ retrieve_next_sibling \in [Node -> Int]
  /\ tree_positions \in [Node -> Int]
  /\ cleared \subseteq Node /\ built \subseteq Node /\ filled \subseteq Node
  /\ built # {} => cleared = Node
  /\ filled # {} => built = Node
  /\ \A c \in cleared :
       /\ retrieve_next_token[c] = IF FirstChild(c) \in built THEN FirstChild(c) ELSE NoNode
       /\ retrieve_next_sibling[c] = IF c \in built THEN NextSibling(c) ELSE NoNode
  /\ \A c \in built : tree_positions[c] = Depth(c)

\* Lane 0 has walked down to `last`, and what is behind is a sentinel.
WalkInv ==
  /\ accept_index \in [Node -> Int] /\ accept_token \in [Node -> Int]
  /\ last \in Node /\ num_acc \in Node /\ j = num_acc + 1
  /\ tree_pc \in {"begin", "walk", "terminal", "done"}
  /\ tree_pc = "begin" =>
       /\ last = 0 /\ num_acc = 0 /\ term = "none"
       /\ \A i \in filled : accept_index[i] = NoNode /\ accept_token[i] = NoNode
  /\ tree_pc # "begin" =>
       /\ filled = Node
       /\ accept_index[0] = 0 /\ accept_index[num_acc] = last
       /\ \A i \in 1 .. num_acc :
            /\ accept_index[i] \in 1 .. TreeNodes-1
            /\ parents[accept_index[i]] = accept_index[i-1]
            /\ accept_token[i-1] = tree_draft[accept_index[i]]
       /\ \A i \in num_acc+1 .. TreeNodes-1 : accept_index[i] = NoNode /\ accept_token[i] = NoNode
  /\ tree_pc \in {"walk", "terminal"} => accept_token[num_acc] = NoNode

\* Why the walk ended, and that the last token is right for the reason.
EndInv ==
  /\ tree_pc = "walk" => tree_valid /\ term = "none"
  /\ tree_pc \in {"terminal", "done"} =>
       \/ term = "none" /\ num_acc = TreeNodes-1
       \/ term = "bonus" /\ (tree_valid => Kids(last) = {})
       \/ /\ term = "residual" /\ tree_valid
          /\ \E coin \in TreeCoin : AcceptedChild(coin) = NoNode
  /\ tree_pc = "done" => accept_num = num_acc /\ CorrectionOfTarget

TreeIInv == TreeInputInv /\ PointerInv /\ WalkInv /\ EndInv
-----------------------------------------------------------------------------
LEMMA TreeSizes ==
  ASSUME TreeAssumption
  PROVE  /\ TreeNodes \in Nat /\ TreeNodes >= 1 /\ Mass \in Nat /\ Mass >= 1 /\ TreeV \in Nat
         /\ 0 \in Node /\ Node \subseteq Nat /\ NoNode \notin Node
         /\ \A c \in Node : c = 0 \/ c \in 1 .. TreeNodes-1
         /\ 1 .. TreeNodes-1 \subseteq Node /\ Node = 0 .. TreeNodes-1
BY DEF TreeAssumption, Node, NoNode

LEMMA InputIs ==
  ASSUME TreeAssumption, TreeInputInv
  PROVE  /\ parents \in [Node -> {NoNode} \cup Node] /\ parents[0] = NoNode
         /\ \A c \in 1 .. TreeNodes-1 : parents[c] \in 0 .. c-1 /\ parents[c] \in Node
         /\ tree_draft \in [1 .. TreeNodes-1 -> TreeToken]
         /\ prob \in [Node -> [TreeToken -> 0 .. Mass]]
         /\ \A n \in Node : SumFunctionOnSet(prob[n], TreeToken) = Mass
         /\ tree_valid \in BOOLEAN
<1>1. PICK x \in TreeInputs : /\ parents = x.parents /\ tree_draft = x.draft
                              /\ prob = x.prob /\ tree_valid = x.tree_valid
  BY DEF TreeInputInv
<1>2. /\ parents \in [Node -> {NoNode} \cup Node] /\ parents[0] = NoNode
      /\ \A c \in 1 .. TreeNodes-1 : parents[c] \in 0 .. c-1
  BY <1>1 DEF TreeAssumption, Topological
<1>3. \A c \in 1 .. TreeNodes-1 : parents[c] \in Node
  BY <1>2, TreeSizes DEF Node
<1> QED  BY <1>1, <1>2, <1>3 DEF TreeAssumption

LEMMA NearestIs ==
  ASSUME NEW Found, Found \subseteq Nat
  PROVE  /\ Found = {} => Nearest(Found) = NoNode
         /\ Found # {} => Nearest(Found) \in Found /\ \A d \in Found : Nearest(Found) <= d
         /\ \A c \in Found : (\A d \in Found : c <= d) => Nearest(Found) = c
<1>1. CASE Found = {}
  BY <1>1 DEF Nearest
<1>2. CASE Found # {}
  <2>1. PICK m \in Found : \A d \in Found : m <= d
    BY <1>2, LeastOf
  <2>2. Nearest(Found) = CHOOSE c \in Found : \A d \in Found : c <= d
    BY <1>2 DEF Nearest
  <2>3. Nearest(Found) \in Found /\ \A d \in Found : Nearest(Found) <= d
    BY <2>1, <2>2
  <2>4. ASSUME NEW c \in Found, \A d \in Found : c <= d PROVE Nearest(Found) = c
    <3>1. Nearest(Found) <= c
      BY <2>3
    <3>2. Nearest(Found) \in Nat /\ c <= Nearest(Found)
      BY <2>3, <2>4
    <3>3. c \in Nat
      OBVIOUS
    <3> QED  BY <3>1, <3>2, <3>3
  <2> QED  BY <1>2, <2>3, <2>4
<1> QED  BY <1>1, <1>2

\* The pointers of the tree.
LEMMA PointersOfTree ==
  ASSUME TreeAssumption, TreeInputInv
  PROVE  /\ \A n \in Node : /\ Kids(n) \subseteq 1 .. TreeNodes-1
                            /\ \A c \in Kids(n) : c > n
                            /\ Kids(n) = {} => FirstChild(n) = NoNode
                            /\ Kids(n) # {} => FirstChild(n) \in Kids(n)
                            /\ \A c \in Kids(n) : FirstChild(n) <= c
         /\ \A c \in 1 .. TreeNodes-1 :
              /\ SiblingsAfter(c) = {} => NextSibling(c) = NoNode
              /\ SiblingsAfter(c) # {} => NextSibling(c) \in SiblingsAfter(c)
              /\ \A d \in SiblingsAfter(c) : NextSibling(c) <= d
              /\ SiblingsAfter(c) = {d \in Kids(parents[c]) : d > c}
<1>1. ASSUME NEW n \in Node
      PROVE  /\ Kids(n) \subseteq 1 .. TreeNodes-1
             /\ \A c \in Kids(n) : c > n
             /\ Kids(n) = {} => FirstChild(n) = NoNode
             /\ Kids(n) # {} => FirstChild(n) \in Kids(n)
             /\ \A c \in Kids(n) : FirstChild(n) <= c
  <2>1. Kids(n) \subseteq 1 .. TreeNodes-1 /\ Kids(n) \subseteq Nat
    BY TreeSizes DEF Kids
  <2>2. \A c \in Kids(n) : c > n
    BY InputIs, TreeSizes DEF Kids
  <2> QED  BY <2>1, <2>2, NearestIs DEF FirstChild
<1>2. ASSUME NEW c \in 1 .. TreeNodes-1
      PROVE  /\ SiblingsAfter(c) = {} => NextSibling(c) = NoNode
             /\ SiblingsAfter(c) # {} => NextSibling(c) \in SiblingsAfter(c)
             /\ \A d \in SiblingsAfter(c) : NextSibling(c) <= d
             /\ SiblingsAfter(c) = {d \in Kids(parents[c]) : d > c}
  <2>1. SiblingsAfter(c) \subseteq Nat
    BY TreeSizes DEF SiblingsAfter
  <2>2. SiblingsAfter(c) = {d \in Kids(parents[c]) : d > c}
    BY TreeSizes DEF SiblingsAfter, Kids
  <2>3. NextSibling(c) = Nearest(SiblingsAfter(c))
    BY TreeSizes DEF NextSibling
  <2> QED  BY <2>1, <2>2, <2>3, NearestIs
<1> QED  BY <1>1, <1>2

\* The depth of a node, by the recursion that goes up.
LEMMA DepthIs ==
  ASSUME TreeAssumption, TreeInputInv
  PROVE  /\ \A c \in Node : Depth(c) \in Nat
         /\ Depth(0) = 0
         /\ \A c \in 1 .. TreeNodes-1 : Depth(c) = 1 + Depth(parents[c])
<1> DEFINE M == TreeNodes-1
           Fun == [0 .. M -> Nat]
           further == [x \in (0 .. M) \X Fun |->
                      IF parents[x[1]] < 0 THEN 0 ELSE 1 + x[2][parents[x[1]]]]
           F(up) == [x \in Node |-> IF parents[x] < 0 THEN 0 ELSE 1 + up[parents[x]]]
           U == CHOOSE up : up = F(up)
<1>1. M \in Nat /\ Node = 0 .. M /\ \A c \in Node : parents[c] \in Int /\ (parents[c] < 0 <=> c = 0)
  BY TreeSizes, InputIs DEF NoNode
<1>2. \A c \in Node : parents[c] >= 0 => parents[c] \in 0 .. c-1 /\ parents[c] \in Node
  BY <1>1, InputIs, TreeSizes
<1>3. \A x \in 0 .. M, h \in Fun :
        further[<<x, h>>] = IF parents[x] < 0 THEN 0 ELSE 1 + h[parents[x]]
  <2>1. ASSUME NEW x \in 0 .. M, NEW h \in Fun
        PROVE  further[<<x, h>>] = IF parents[x] < 0 THEN 0 ELSE 1 + h[parents[x]]
    <3>1. <<x, h>> \in (0 .. M) \X Fun
      OBVIOUS
    <3> HIDE DEF Fun
    <3> QED  BY <3>1
  <2> QED  BY <2>1
<1>4. further \in [(0 .. M) \X Fun -> Nat]
  <2>1. ASSUME NEW x \in (0 .. M) \X Fun
        PROVE  (IF parents[x[1]] < 0 THEN 0 ELSE 1 + x[2][parents[x[1]]]) \in Nat
    <3>1. x[1] \in 0 .. M /\ x[2] \in [0 .. M -> Nat]
      OBVIOUS
    <3>2. parents[x[1]] >= 0 => parents[x[1]] \in 0 .. M
      BY <3>1, <1>1, <1>2
    <3> HIDE DEF Fun
    <3> QED  BY <3>1, <3>2, <1>1
  <2> HIDE DEF Fun
  <2> QED  BY <2>1
<1>5. \A n \in 0 .. M : \A g, h \in Fun :
        (\A m \in 0 .. n-1 : g[m] = h[m]) => further[<<n, g>>] = further[<<n, h>>]
  <2> HIDE DEF further, Fun
  <2> QED  BY <1>1, <1>2, <1>3
<1>6. PICK f \in Fun : \A n \in 0 .. M : f[n] = further[<<n, f>>]
  <2> HIDE DEF further, M
  <2>1. 0 \in Nat
    OBVIOUS
  <2>2. LooksBack(further, M, Nat)
    BY <1>4, <1>5 DEF LooksBack
  <2>3. M \in Nat
    BY <1>1
  <2>4. \E f \in [0 .. M -> Nat] : FollowsHistory(f, M, further)
    BY <2>1, <2>2, <2>3, HistoryExists
  <2> QED  BY <2>4 DEF FollowsHistory
<1>7. f = F(f)
  <2> HIDE DEF further
  <2>1. \A x \in Node : f[x] = IF parents[x] < 0 THEN 0 ELSE 1 + f[parents[x]]
    BY <1>1, <1>3, <1>6
  <2> QED  BY <2>1, <1>1
<1>8. U = F(U)
  <2> HIDE DEF F
  <2> QED  BY <1>7
<1>9. \A c \in Node : Depth(c) = U[c]
  BY DEF Depth
<1> HIDE DEF U
<1>10. \A x \in Node : U[x] = IF parents[x] < 0 THEN 0 ELSE 1 + U[parents[x]]
  BY <1>8
<1> DEFINE Good == {n \in 0 .. M : U[n] \in Nat}
<1>11. ASSUME NEW n \in 0 .. M, \A i \in 0 .. n-1 : i \in Good PROVE n \in Good
  <2>1. U[n] = IF parents[n] < 0 THEN 0 ELSE 1 + U[parents[n]]
    BY <1>1, <1>10
  <2>2. CASE parents[n] < 0
    BY <2>1, <2>2
  <2>3. CASE ~(parents[n] < 0)
    <3>1. parents[n] \in 0 .. n-1
      BY <2>3, <1>1, <1>2
    <3>2. U[parents[n]] \in Nat
      BY <3>1, <1>11
    <3> QED  BY <3>2, <2>1, <2>3
  <2> QED  BY <2>2, <2>3
<1>12. 0 .. M \subseteq Good
  <2> HIDE DEF Good, M
  <2> QED  BY <1>1, <1>11, IntervalInduction
<1>13. \A c \in Node : U[c] \in Nat
  BY <1>1, <1>12
<1>14. U[0] = 0 /\ \A c \in 1 .. TreeNodes-1 : U[c] = 1 + U[parents[c]]
  BY <1>1, <1>10, TreeSizes
<1>15. \A c \in 1 .. TreeNodes-1 : c \in Node /\ parents[c] \in Node
  BY InputIs, TreeSizes
<1> QED  BY <1>9, <1>13, <1>14, <1>15, TreeSizes

LEMMA BuiltPointers ==
  ASSUME TreeAssumption, TreeInputInv, PointerInv, built = Node
  PROVE  \A c \in Node :
           /\ retrieve_next_token[c] = FirstChild(c)
           /\ retrieve_next_sibling[c] = NextSibling(c)
           /\ tree_positions[c] = Depth(c)
           /\ NextSibling(c) = NoNode \/ NextSibling(c) \in c+1 .. TreeNodes-1
<1> SUFFICES ASSUME NEW c \in Node
             PROVE  /\ retrieve_next_token[c] = FirstChild(c)
                    /\ retrieve_next_sibling[c] = NextSibling(c)
                    /\ tree_positions[c] = Depth(c)
                    /\ NextSibling(c) = NoNode \/ NextSibling(c) \in c+1 .. TreeNodes-1
  OBVIOUS
<1>1. c \in cleared /\ c \in built
  BY TreeSizes DEF PointerInv
<1>2. retrieve_next_sibling[c] = NextSibling(c) /\ tree_positions[c] = Depth(c)
  BY <1>1 DEF PointerInv
<1>3. FirstChild(c) \in Node \/ FirstChild(c) = NoNode
  BY PointersOfTree, TreeSizes
<1>4. retrieve_next_token[c] = FirstChild(c)
  BY <1>1, <1>3, TreeSizes DEF PointerInv
<1>5. NextSibling(c) = NoNode \/ NextSibling(c) \in c+1 .. TreeNodes-1
  <2>1. CASE c = 0
    BY <2>1 DEF NextSibling
  <2>2. CASE c # 0
    <3>1. c \in 1 .. TreeNodes-1
      BY <2>2, TreeSizes
    <3>2. NextSibling(c) = NoNode \/ NextSibling(c) \in SiblingsAfter(c)
      BY <3>1, PointersOfTree
    <3> QED  BY <3>2 DEF SiblingsAfter
  <2> QED  BY <2>1, <2>2
<1> QED  BY <1>2, <1>4, <1>5

\* The chain of siblings, by the recursion along the pointers.
LEMMA SiblingsIs ==
  ASSUME TreeAssumption, TreeInputInv, PointerInv, built = Node
  PROVE  /\ Siblings(NoNode) = <<>>
         /\ \A c \in Node : Siblings(c) = <<c>> \o Siblings(NextSibling(c))
<1> DEFINE M == TreeNodes
           X == {NoNode} \cup Node
           sib == retrieve_next_sibling
           Rank(d) == IF d = NoNode THEN 0 ELSE M - d
           SS == Seq(Node)
           Fun == [0 .. M -> SS]
           further == [x \in (0 .. M) \X Fun |->
                      IF x[1] = 0 THEN <<>> ELSE <<M - x[1]>> \o x[2][Rank(sib[M - x[1]])]]
           F(chain) == [d \in X |-> IF d = NoNode THEN <<>> ELSE <<d>> \o chain[sib[d]]]
           C == CHOOSE chain : chain = F(chain)
<1>1. M \in Nat /\ Node = 0 .. M-1 /\ NoNode = -1
  BY TreeSizes DEF NoNode
<1>2. \A d \in Node : sib[d] \in X /\ (sib[d] # NoNode => sib[d] > d) /\ sib[d] = NextSibling(d)
  <2>1. \A d \in Node : sib[d] = NextSibling(d)
    BY BuiltPointers
  <2>2. \A d \in Node : NextSibling(d) = NoNode \/ NextSibling(d) \in d+1 .. TreeNodes-1
    BY BuiltPointers
  <2>3. \A d \in Node : d+1 .. TreeNodes-1 \subseteq Node
    BY <1>1
  <2> HIDE DEF sib
  <2> QED  BY <2>1, <2>2, <2>3, <1>1
<1> HIDE DEF sib
<1>3. \A n \in 1 .. M : M - n \in Node /\ Rank(sib[M - n]) \in 0 .. n-1
  <2>1. ASSUME NEW n \in 1 .. M PROVE M - n \in Node /\ Rank(sib[M - n]) \in 0 .. n-1
    <3>1. M - n \in Node
      BY <1>1
    <3>2. CASE sib[M - n] = NoNode
      BY <3>1, <3>2
    <3>3. CASE sib[M - n] # NoNode
      <4>1. sib[M - n] \in Node /\ sib[M - n] > M - n
        BY <3>1, <3>3, <1>2
      <4> QED  BY <3>1, <3>3, <4>1, <1>1
    <3> QED  BY <3>2, <3>3
  <2> QED  BY <2>1
<1> HIDE DEF Rank
<1>4. \A n \in 0 .. M, h \in Fun :
        further[<<n, h>>] = IF n = 0 THEN <<>> ELSE <<M - n>> \o h[Rank(sib[M - n])]
  <2>1. ASSUME NEW n \in 0 .. M, NEW h \in Fun
        PROVE  further[<<n, h>>] = IF n = 0 THEN <<>> ELSE <<M - n>> \o h[Rank(sib[M - n])]
    <3>1. <<n, h>> \in (0 .. M) \X Fun
      OBVIOUS
    <3> HIDE DEF Fun
    <3> QED  BY <3>1
  <2> QED  BY <2>1
<1>5. further \in [(0 .. M) \X Fun -> SS]
  <2>1. ASSUME NEW x \in (0 .. M) \X Fun
        PROVE  (IF x[1] = 0 THEN <<>> ELSE <<M - x[1]>> \o x[2][Rank(sib[M - x[1]])]) \in SS
    <3>1. x[1] \in 0 .. M /\ x[2] \in [0 .. M -> SS]
      OBVIOUS
    <3>2. CASE x[1] = 0
      BY <3>2
    <3>3. CASE x[1] # 0
      <4>1. M - x[1] \in Node /\ Rank(sib[M - x[1]]) \in 0 .. M
        <5>1. x[1] \in 1 .. M
          BY <3>1, <3>3
        <5> HIDE DEF Fun
        <5> QED  BY <5>1, <1>3, <1>1
      <4>2. x[2][Rank(sib[M - x[1]])] \in SS
        <5> HIDE DEF SS
        <5> QED  BY <3>1, <4>1
      <4>3. <<M - x[1]>> \in SS
        BY <4>1
      <4> HIDE DEF Fun
      <4>4. <<M - x[1]>> \o x[2][Rank(sib[M - x[1]])] \in SS
        BY <4>2, <4>3
      <4> QED  BY <3>3, <4>4
    <3> QED  BY <3>2, <3>3
  <2> HIDE DEF Fun, SS
  <2> QED  BY <2>1
<1> HIDE DEF further
<1>6. LooksBack(further, M, SS)
  <2>1. \A n \in 0 .. M : \A g, h \in Fun :
          (\A m \in 0 .. n-1 : g[m] = h[m]) => further[<<n, g>>] = further[<<n, h>>]
    <3>1. SUFFICES ASSUME NEW n \in 0 .. M, NEW g \in Fun, NEW h \in Fun,
                          \A m \in 0 .. n-1 : g[m] = h[m]
                   PROVE  further[<<n, g>>] = further[<<n, h>>]
      OBVIOUS
    <3>2. CASE n = 0
      BY <3>2, <1>4
    <3>3. CASE n # 0
      <4>1. Rank(sib[M - n]) \in 0 .. n-1
        BY <3>3, <1>3
      <4>2. g[Rank(sib[M - n])] = h[Rank(sib[M - n])]
        BY <3>1, <4>1
      <4>3. /\ further[<<n, g>>] = <<M - n>> \o g[Rank(sib[M - n])]
            /\ further[<<n, h>>] = <<M - n>> \o h[Rank(sib[M - n])]
        <5> HIDE DEF Fun
        <5> QED  BY <3>3, <1>4
      <4> QED  BY <4>2, <4>3
    <3> QED  BY <3>2, <3>3
  <2> HIDE DEF SS
  <2> QED  BY <1>5, <2>1 DEF LooksBack
<1>7. PICK f \in Fun : FollowsHistory(f, M, further)
  <2>1. <<>> \in SS
    OBVIOUS
  <2>2. M \in Nat
    BY <1>1
  <2> HIDE DEF SS
  <2> QED  BY <2>1, <2>2, <1>6, HistoryExists
<1> DEFINE G == [d \in X |-> f[Rank(d)]]
<1>8. G = F(G)
  <2>1. ASSUME NEW d \in X PROVE G[d] = IF d = NoNode THEN <<>> ELSE <<d>> \o G[sib[d]]
    <3>1. G[d] = f[Rank(d)]
      OBVIOUS
    <3>2. CASE d = NoNode
      <4>1. Rank(d) = 0 /\ 0 \in 0 .. M
        BY <3>2, <1>1 DEF Rank
      <4>2. f[0] = further[<<0, f>>]
        BY <4>1, <1>7 DEF FollowsHistory
      <4> HIDE DEF Fun, G
      <4> QED  BY <3>1, <3>2, <4>1, <4>2, <1>4, <1>7
    <3>3. CASE d # NoNode
      <4>1. d \in Node /\ Rank(d) = M - d /\ M - d \in 0 .. M /\ M - d # 0 /\ M - (M - d) = d
        BY <3>3, <1>1 DEF Rank
      <4>2. f[M - d] = further[<<M - d, f>>]
        BY <4>1, <1>7 DEF FollowsHistory
      <4>3. further[<<M - d, f>>] = <<d>> \o f[Rank(sib[d])]
        <5> HIDE DEF Fun
        <5> QED  BY <4>1, <1>4, <1>7
      <4>4. sib[d] \in X
        BY <4>1, <1>2
      <4>5. G[sib[d]] = f[Rank(sib[d])]
        BY <4>4
      <4> HIDE DEF G
      <4> QED  BY <3>1, <3>3, <4>1, <4>2, <4>3, <4>5
    <3> QED  BY <3>2, <3>3
  <2>2. G = [d \in X |-> G[d]]
    OBVIOUS
  <2> HIDE DEF G
  <2> QED  BY <2>1, <2>2
<1>9. C = F(C)
  <2> HIDE DEF F, G
  <2> QED  BY <1>8
<1>10. \A d \in X : Siblings(d) = C[d]
  BY DEF Siblings, sib
<1> HIDE DEF C
<1>11. \A d \in X : C[d] = IF d = NoNode THEN <<>> ELSE <<d>> \o C[sib[d]]
  BY <1>9
<1>12. \A c \in Node : c \in X /\ c # NoNode
  BY <1>1
<1> HIDE DEF F
<1>13. Siblings(NoNode) = <<>>
  BY <1>10, <1>11
<1>14. ASSUME NEW c \in Node PROVE Siblings(c) = <<c>> \o Siblings(NextSibling(c))
  <2>1. c \in X /\ c # NoNode /\ NextSibling(c) \in X /\ sib[c] = NextSibling(c)
    BY <1>2, <1>12
  <2> HIDE DEF X
  <2> QED  BY <2>1, <1>10, <1>11
<1> QED  BY <1>13, <1>14

\* A sequence that lists the members of T, smallest first.
Lists(s, T) ==
  /\ s \in Seq(Node) /\ {s[i] : i \in 1 .. Len(s)} = T
  /\ \A i, k \in 1 .. Len(s) : i < k => s[i] < s[k]

LEMMA Prepend ==
  ASSUME TreeAssumption, NEW c \in Node, NEW s, NEW T, Lists(s, T), \A x \in T : c < x
  PROVE  Lists(<<c>> \o s, {c} \cup T)
<1> DEFINE r == <<c>> \o s
<1>1. /\ s \in Seq(Node) /\ Len(s) \in Nat
      /\ \A i \in 1 .. Len(s) : s[i] \in T /\ s[i] \in Node
      /\ \A x \in T : \E i \in 1 .. Len(s) : s[i] = x
  BY DEF Lists
<1>2. /\ r \in Seq(Node) /\ Len(r) = 1 + Len(s) /\ r[1] = c
      /\ \A i \in 2 .. Len(r) : i-1 \in 1 .. Len(s) /\ r[i] = s[i-1]
      /\ \A i \in 1 .. Len(s) : i+1 \in 1 .. Len(r) /\ r[i+1] = s[i]
  BY <1>1
<1> HIDE DEF r
<1>3. {r[i] : i \in 1 .. Len(r)} = {c} \cup T
  <2>1. \A i \in 1 .. Len(r) : r[i] \in {c} \cup T
    <3>1. ASSUME NEW i \in 1 .. Len(r) PROVE r[i] \in {c} \cup T
      <4>1. i = 1 \/ i \in 2 .. Len(r)
        BY <1>1, <1>2
      <4> QED  BY <4>1, <1>1, <1>2
    <3> QED  BY <3>1
  <2>2. \A x \in T : \E i \in 1 .. Len(r) : r[i] = x
    BY <1>1, <1>2
  <2>3. 1 \in 1 .. Len(r)
    BY <1>1, <1>2
  <2> QED  BY <2>1, <2>2, <2>3, <1>2
<1>4. ASSUME NEW i \in 1 .. Len(r), NEW k \in 1 .. Len(r), i < k PROVE r[i] < r[k]
  <2>1. k \in 2 .. Len(r) /\ k-1 \in 1 .. Len(s) /\ r[k] = s[k-1]
    BY <1>1, <1>2, <1>4
  <2>2. CASE i = 1
    BY <2>1, <2>2, <1>1, <1>2
  <2>3. CASE i # 1
    <3>1. i \in 2 .. Len(r) /\ i-1 \in 1 .. Len(s) /\ r[i] = s[i-1] /\ i-1 < k-1
      BY <2>3, <1>1, <1>2, <1>4
    <3> QED  BY <2>1, <3>1 DEF Lists
  <2> QED  BY <2>2, <2>3
<1> QED  BY <1>2, <1>3, <1>4 DEF Lists, r

\* Following the pointers from the first child visits the children in order.
LEMMA ChildrenListed ==
  ASSUME TreeAssumption, TreeInputInv, PointerInv, built = Node, NEW n \in Node
  PROVE  Lists(Siblings(FirstChild(n)), Kids(n))
<1> DEFINE FromOn(c) == {d \in Kids(parents[c]) : d >= c}
           Good == {m \in 0 .. TreeNodes : \A c \in 1 .. TreeNodes-1 :
                      c = TreeNodes - m => Lists(Siblings(c), FromOn(c))}
<1>1. Lists(<<>>, {})
  BY DEF Lists
<1>2. ASSUME NEW m \in 0 .. TreeNodes, \A i \in 0 .. m-1 : i \in Good PROVE m \in Good
  <2>1. SUFFICES ASSUME NEW c \in 1 .. TreeNodes-1, c = TreeNodes - m
                 PROVE  Lists(Siblings(c), FromOn(c))
    OBVIOUS
  <2>2. /\ c \in Node /\ parents[c] \in Node /\ c \in Nat
        /\ c \in Kids(parents[c]) /\ Kids(parents[c]) \subseteq 1 .. TreeNodes-1
        /\ SiblingsAfter(c) = {d \in Kids(parents[c]) : d > c}
    BY TreeSizes, InputIs, PointersOfTree DEF Kids
  <2>3. FromOn(c) = {c} \cup SiblingsAfter(c)
    BY <2>2
  <2>4. Siblings(c) = <<c>> \o Siblings(NextSibling(c))
    BY <2>2, SiblingsIs
  <2>5. Lists(Siblings(NextSibling(c)), SiblingsAfter(c))
    <3>1. CASE SiblingsAfter(c) = {}
      BY <3>1, <1>1, PointersOfTree, SiblingsIs
    <3>2. CASE SiblingsAfter(c) # {}
      <4> DEFINE d == NextSibling(c)
      <4>1. d \in SiblingsAfter(c) /\ \A x \in SiblingsAfter(c) : d <= x
        BY <3>2, PointersOfTree
      <4>2. d \in 1 .. TreeNodes-1 /\ d > c /\ parents[d] = parents[c]
        BY <4>1, <2>1 DEF SiblingsAfter
      <4>3. TreeNodes - d \in 0 .. m-1
        BY <4>2, <2>1, TreeSizes
      <4> HIDE DEF d
      <4>4. Lists(Siblings(d), FromOn(d))
        <5>1. TreeNodes - d \in Good /\ d = TreeNodes - (TreeNodes - d)
          BY <4>2, <4>3, <1>2, TreeSizes
        <5> HIDE DEF FromOn
        <5> QED  BY <5>1, <4>2
      <4>5. FromOn(d) = SiblingsAfter(c)
        BY <4>1, <4>2, <2>2, TreeSizes
      <4> QED  BY <4>4, <4>5 DEF d
    <3> QED  BY <3>1, <3>2
  <2>6. \A x \in SiblingsAfter(c) : c < x
    BY DEF SiblingsAfter
  <2> HIDE DEF FromOn
  <2> QED  BY <2>2, <2>3, <2>4, <2>5, <2>6, Prepend
<1>3. 0 .. TreeNodes \subseteq Good
  <2>1. TreeNodes \in Nat
    BY TreeSizes
  <2> HIDE DEF Good
  <2> QED  BY <1>2, <2>1, IntervalInduction
<1>4. CASE Kids(n) = {}
  BY <1>1, <1>4, PointersOfTree, SiblingsIs
<1>5. CASE Kids(n) # {}
  <2> DEFINE c == FirstChild(n)
  <2>1. c \in Kids(n) /\ \A x \in Kids(n) : c <= x
    BY <1>5, PointersOfTree
  <2>2. c \in 1 .. TreeNodes-1 /\ parents[c] = n
    BY <2>1 DEF Kids
  <2> HIDE DEF c
  <2>3. Lists(Siblings(c), FromOn(c))
    <3>1. TreeNodes - c \in 0 .. TreeNodes /\ c = TreeNodes - (TreeNodes - c)
      BY <2>2, TreeSizes
    <3>2. TreeNodes - c \in Good
      BY <3>1, <1>3
    <3> HIDE DEF FromOn
    <3> QED  BY <3>1, <3>2, <2>2
  <2>4. FromOn(c) = Kids(n)
    BY <2>1, <2>2, TreeSizes, PointersOfTree
  <2> QED  BY <2>3, <2>4 DEF c
<1> QED  BY <1>4, <1>5

-----------------------------------------------------------------------------
\* What the host has appended once it is done with node m.
KidsTo(n, m) == {c \in Kids(n) : c <= m}

AppendedTo(h, m) ==
  /\ h.tok \in [Node -> Int] /\ h.sib \in [Node -> Int] /\ h.tail \in [Node -> Int]
  /\ \A n \in Node :
       /\ KidsTo(n, m) = {} => h.tok[n] = NoNode /\ h.tail[n] = NoNode
       /\ KidsTo(n, m) # {} => /\ h.tok[n] = FirstChild(n)
                               /\ h.tail[n] \in KidsTo(n, m)
                               /\ \A c \in KidsTo(n, m) : c <= h.tail[n]
       /\ h.sib[n] = IF NextSibling(n) > m THEN NoNode ELSE NextSibling(n)

AddedNode(h, c) ==
  [tok  |-> IF h.tail[parents[c]] < 0 THEN [h.tok EXCEPT ![parents[c]] = c] ELSE h.tok,
   sib  |-> IF h.tail[parents[c]] < 0 THEN h.sib ELSE [h.sib EXCEPT ![h.tail[parents[c]]] = c],
   tail |-> [h.tail EXCEPT ![parents[c]] = c]]

HostState == [tok : [Node -> Int], sib : [Node -> Int], tail : [Node -> Int]]

HostStart == [tok |-> [c \in Node |-> NoNode], sib |-> [c \in Node |-> NoNode],
              tail |-> [c \in Node |-> NoNode]]

LEMMA HostAppends ==
  ASSUME TreeAssumption, TreeInputInv, NEW m \in 1 .. TreeNodes-1, NEW h \in HostState,
         AppendedTo(h, m-1)
  PROVE  AddedNode(h, m) \in HostState /\ AppendedTo(AddedNode(h, m), m)
<1> DEFINE p == parents[m]
           t == h.tail[p]
           r == AddedNode(h, m)
<1>1. m \in Node /\ m \in Nat /\ p \in Node /\ p < m /\ m \in Kids(p) /\ TreeNodes \in Nat
  BY InputIs, TreeSizes DEF Kids
<1>2. h.tok \in [Node -> Int] /\ h.sib \in [Node -> Int] /\ h.tail \in [Node -> Int]
  BY DEF AppendedTo
<1>3. \A n \in Node : Kids(n) \subseteq 1 .. TreeNodes-1 /\ Kids(n) \subseteq Nat
  BY PointersOfTree, TreeSizes
<1>4. \A n \in Node : KidsTo(n, m) = IF n = p THEN KidsTo(n, m-1) \cup {m} ELSE KidsTo(n, m-1)
  <2>1. ASSUME NEW n \in Node
        PROVE  KidsTo(n, m) = IF n = p THEN KidsTo(n, m-1) \cup {m} ELSE KidsTo(n, m-1)
    <3>1. m \in Kids(n) <=> n = p
      BY <1>1 DEF Kids
    <3>2. \A c \in Kids(n) : c <= m <=> c <= m-1 \/ c = m
      BY <1>1, <1>3
    <3> QED  BY <3>1, <3>2 DEF KidsTo
  <2> QED  BY <2>1
<1>5. \A n \in Node : KidsTo(n, m-1) \subseteq Kids(n) /\ \A c \in KidsTo(n, m-1) : c < m /\ c \in Node
  BY <1>1, <1>3, TreeSizes DEF KidsTo
<1>6. t \in Int /\ (t < 0 <=> KidsTo(p, m-1) = {})
  <2>1. /\ KidsTo(p, m-1) = {} => t = NoNode
        /\ KidsTo(p, m-1) # {} => t \in KidsTo(p, m-1)
    BY <1>1 DEF AppendedTo
  <2>2. t \in KidsTo(p, m-1) => t \in Nat
    BY <1>1, <1>3, <1>5
  <2> HIDE DEF t, p
  <2> QED  BY <2>1, <2>2 DEF NoNode
<1>7. \A c \in Node : NextSibling(c) = m => c \in KidsTo(p, m-1)
  <2>1. ASSUME NEW c \in Node, NextSibling(c) = m PROVE c \in KidsTo(p, m-1)
    <3>1. c # 0 /\ c \in 1 .. TreeNodes-1
      BY <2>1, <1>1, TreeSizes DEF NextSibling, NoNode
    <3>2. m \in SiblingsAfter(c)
      BY <3>1, <2>1, <1>1, PointersOfTree DEF NoNode
    <3>3. parents[c] = p /\ c < m
      BY <3>1, <3>2, <1>1 DEF SiblingsAfter
    <3> QED  BY <3>1, <3>3, <1>1 DEF KidsTo, Kids
  <2> QED  BY <2>1
<1>8. \A c \in Node : NextSibling(c) \in Int
  <2>1. ASSUME NEW c \in Node PROVE NextSibling(c) \in Int
    <3>1. CASE c = 0
      BY <3>1 DEF NextSibling, NoNode
    <3>2. CASE c # 0
      BY <3>2, PointersOfTree, TreeSizes DEF SiblingsAfter, NoNode
    <3> QED  BY <3>1, <3>2
  <2> QED  BY <2>1
<1>9. CASE t < 0
  <2>1. r = [tok |-> [h.tok EXCEPT ![p] = m], sib |-> h.sib, tail |-> [h.tail EXCEPT ![p] = m]]
    BY <1>9 DEF AddedNode
  <2>2. r \in HostState
    BY <2>1, <1>1, <1>2 DEF HostState
  <2>3. ASSUME NEW c \in Kids(p) PROVE c \in Nat /\ c >= m
    <3>1. c \in Nat
      BY <1>1, <1>3
    <3>2. c \notin KidsTo(p, m-1)
      BY <1>6, <1>9
    <3>3. ~(c <= m-1)
      BY <3>2 DEF KidsTo
    <3> QED  BY <3>1, <3>3, <1>1
  <2>4. FirstChild(p) = m
    <3>1. Kids(p) # {} /\ FirstChild(p) \in Kids(p) /\ FirstChild(p) <= m
      BY <1>1, PointersOfTree
    <3>2. FirstChild(p) \in Nat /\ FirstChild(p) >= m
      BY <3>1, <2>3
    <3> HIDE DEF p
    <3> QED  BY <3>1, <3>2, <1>1
  <2>5. \A c \in Node : NextSibling(c) # m
    BY <1>6, <1>7, <1>9
  <2>6. ASSUME NEW n \in Node
        PROVE  /\ KidsTo(n, m) = {} => r.tok[n] = NoNode /\ r.tail[n] = NoNode
               /\ KidsTo(n, m) # {} => /\ r.tok[n] = FirstChild(n)
                                       /\ r.tail[n] \in KidsTo(n, m)
                                       /\ \A c \in KidsTo(n, m) : c <= r.tail[n]
               /\ r.sib[n] = IF NextSibling(n) > m THEN NoNode ELSE NextSibling(n)
    <3>1. r.sib[n] = IF NextSibling(n) > m THEN NoNode ELSE NextSibling(n)
      <4>1. h.sib[n] = IF NextSibling(n) > m-1 THEN NoNode ELSE NextSibling(n)
        BY DEF AppendedTo
      <4>2. NextSibling(n) > m-1 <=> NextSibling(n) > m
        BY <2>5, <1>8, <1>1
      <4> QED  BY <4>1, <4>2, <2>1
    <3>2. CASE n = p
      <4>1. KidsTo(n, m) = {m}
        BY <3>2, <1>4, <1>6, <1>9
      <4>2. r.tok[n] = m /\ r.tail[n] = m
        BY <3>2, <2>1, <1>1, <1>2
      <4> QED  BY <3>1, <3>2, <4>1, <4>2, <2>4, <1>1
    <3>3. CASE n # p
      <4>1. KidsTo(n, m) = KidsTo(n, m-1) /\ r.tok[n] = h.tok[n] /\ r.tail[n] = h.tail[n]
        BY <3>3, <2>1, <1>2, <1>4
      <4> QED  BY <3>1, <4>1 DEF AppendedTo
    <3> QED  BY <3>2, <3>3
  <2> QED  BY <2>2, <2>6 DEF AppendedTo, HostState
<1>10. CASE ~(t < 0)
  <2>1. /\ t \in KidsTo(p, m-1) /\ \A c \in KidsTo(p, m-1) : c <= t
        /\ h.tok[p] = FirstChild(p)
    BY <1>6, <1>10, <1>1 DEF AppendedTo
  <2>2. t \in Node /\ t < m /\ t \in 1 .. TreeNodes-1 /\ parents[t] = p
    BY <2>1, <1>1, <1>3, <1>5 DEF Kids
  <2>3. r = [tok |-> h.tok, sib |-> [h.sib EXCEPT ![t] = m], tail |-> [h.tail EXCEPT ![p] = m]]
    BY <1>10 DEF AddedNode
  <2>4. r \in HostState
    BY <2>2, <2>3, <1>1, <1>2 DEF HostState
  <2>5. NextSibling(t) = m
    <3>1. m \in SiblingsAfter(t)
      BY <2>2, <1>1 DEF SiblingsAfter
    <3>2. NextSibling(t) \in SiblingsAfter(t) /\ NextSibling(t) <= m
      BY <3>1, <2>2, PointersOfTree
    <3>3. NextSibling(t) \in Kids(p) /\ NextSibling(t) > t
      BY <3>2, <2>2, PointersOfTree
    <3>4. NextSibling(t) \in Nat /\ t \in Nat
      BY <3>3, <2>2, <1>1, <1>3, TreeSizes
    <3>5. NextSibling(t) \notin KidsTo(p, m-1)
      BY <3>3, <3>4, <2>1
    <3>6. ~(NextSibling(t) <= m-1)
      BY <3>3, <3>5 DEF KidsTo
    <3> HIDE DEF t, p
    <3> QED  BY <3>2, <3>4, <3>6, <1>1
  <2>6. \A c \in Node : c # t => NextSibling(c) # m
    <3>1. SUFFICES ASSUME NEW c \in Node, c # t, NextSibling(c) = m PROVE FALSE
      OBVIOUS
    <3>2. c \in KidsTo(p, m-1)
      BY <3>1, <1>7
    <3>3. c < t /\ c \in 1 .. TreeNodes-1 /\ parents[c] = p
      BY <3>1, <3>2, <2>1, <2>2, <1>1, <1>3 DEF KidsTo, Kids
    <3>4. t \in SiblingsAfter(c)
      BY <3>3, <2>2 DEF SiblingsAfter
    <3>5. NextSibling(c) <= t
      BY <3>3, <3>4, PointersOfTree
    <3> QED  BY <3>1, <3>5, <2>2, <1>1
  <2>7. ASSUME NEW n \in Node
        PROVE  /\ KidsTo(n, m) = {} => r.tok[n] = NoNode /\ r.tail[n] = NoNode
               /\ KidsTo(n, m) # {} => /\ r.tok[n] = FirstChild(n)
                                       /\ r.tail[n] \in KidsTo(n, m)
                                       /\ \A c \in KidsTo(n, m) : c <= r.tail[n]
               /\ r.sib[n] = IF NextSibling(n) > m THEN NoNode ELSE NextSibling(n)
    <3>1. r.sib[n] = IF NextSibling(n) > m THEN NoNode ELSE NextSibling(n)
      <4>1. h.sib[n] = IF NextSibling(n) > m-1 THEN NoNode ELSE NextSibling(n)
        BY DEF AppendedTo
      <4>2. CASE n = t
        <5>1. r.sib[n] = m
          BY <4>2, <2>2, <2>3, <1>2
        <5> QED  BY <5>1, <4>2, <2>5, <1>1
      <4>3. CASE n # t
        <5>1. r.sib[n] = h.sib[n]
          BY <4>3, <2>2, <2>3, <1>2
        <5>2. NextSibling(n) > m-1 <=> NextSibling(n) > m
          BY <4>3, <2>6, <1>8, <1>1
        <5> QED  BY <5>1, <5>2, <4>1
      <4> QED  BY <4>2, <4>3
    <3>2. CASE n = p
      <4>1. KidsTo(n, m) = KidsTo(n, m-1) \cup {m}
        BY <3>2, <1>4
      <4>2. r.tok[n] = FirstChild(n) /\ r.tail[n] = m
        BY <3>2, <2>1, <2>3, <1>1, <1>2
      <4>3. \A c \in KidsTo(n, m) : c <= m
        BY DEF KidsTo
      <4> QED  BY <3>1, <4>1, <4>2, <4>3
    <3>3. CASE n # p
      <4>1. KidsTo(n, m) = KidsTo(n, m-1) /\ r.tok[n] = h.tok[n] /\ r.tail[n] = h.tail[n]
        BY <3>3, <2>3, <1>2, <1>4
      <4> QED  BY <3>1, <4>1 DEF AppendedTo
    <3> QED  BY <3>2, <3>3
  <2> QED  BY <2>4, <2>7 DEF AppendedTo, HostState
<1> QED  BY <1>6, <1>9, <1>10

LEMMA HostBuilds ==
  ASSUME TreeAssumption, TreeInputInv
  PROVE  /\ HostPointers.tok \in [Node -> Int] /\ HostPointers.sib \in [Node -> Int]
         /\ \A n \in Node : /\ HostPointers.tok[n] = FirstChild(n)
                            /\ HostPointers.sib[n] = NextSibling(n)
<1> DEFINE M == TreeNodes-1
           F(build) == [c \in Node |-> IF c = 0 THEN HostStart ELSE AddedNode(build[c-1], c)]
           H == CHOOSE build : build = F(build)
           further == [x \in (1 .. M) \X HostState |-> AddedNode(x[2], x[1])]
<1>1. M \in Nat /\ Node = 0 .. M
  BY TreeSizes
<1>2. HostStart \in HostState
  BY DEF HostStart, HostState, NoNode
<1>3. \A m \in 1 .. M, h \in HostState : AddedNode(h, m) \in HostState
  <2>1. ASSUME NEW m \in 1 .. M, NEW h \in HostState PROVE AddedNode(h, m) \in HostState
    <3>1. parents[m] \in Node /\ h.tail[parents[m]] \in Int /\ m \in Int
      BY InputIs, <1>1 DEF HostState
    <3>2. h.tail[parents[m]] < 0 \/ ~(h.tail[parents[m]] < 0)
      BY <3>1
    <3> QED  BY <3>1, <3>2 DEF HostState, AddedNode
  <2> QED  BY <2>1
<1>4. further \in [(1 .. M) \X HostState -> HostState]
  <2>1. ASSUME NEW x \in (1 .. M) \X HostState PROVE AddedNode(x[2], x[1]) \in HostState
    BY <1>3
  <2> QED  BY <2>1
<1>5. \A m \in 1 .. M, h \in HostState : further[<<m, h>>] = AddedNode(h, m)
  <2>1. ASSUME NEW m \in 1 .. M, NEW h \in HostState PROVE further[<<m, h>>] = AddedNode(h, m)
    <3>1. <<m, h>> \in (1 .. M) \X HostState
      OBVIOUS
    <3> QED  BY <3>1
  <2> QED  BY <2>1
<1> HIDE DEF further
<1>6. PICK f \in [0 .. M -> HostState] : Follows(f, M, HostStart, further)
  BY <1>1, <1>2, <1>4, RecursionExists
<1>7. f = F(f)
  <2>1. ASSUME NEW c \in Node PROVE f[c] = IF c = 0 THEN HostStart ELSE AddedNode(f[c-1], c)
    <3>1. f[c] = IF c = 0 THEN HostStart ELSE further[<<c, f[c-1]>>]
      BY <1>1, <1>6 DEF Follows
    <3>2. CASE c = 0
      BY <3>1, <3>2
    <3>3. CASE c # 0
      <4>1. c \in 1 .. M /\ c-1 \in 0 .. M
        BY <3>3, <1>1
      <4>2. further[<<c, f[c-1]>>] = AddedNode(f[c-1], c)
        BY <4>1, <1>5, <1>6
      <4> QED  BY <3>1, <3>3, <4>2
    <3> QED  BY <3>2, <3>3
  <2>2. f = [c \in Node |-> f[c]]
    BY <1>1, <1>6
  <2> QED  BY <2>1, <2>2
<1>8. H = F(H)
  <2> HIDE DEF F
  <2> QED  BY <1>7
<1>9. HostPointers = H[M]
  BY DEF HostPointers, HostStart, AddedNode
<1> HIDE DEF H
<1>10. H[0] = HostStart /\ \A m \in 1 .. M : H[m] = AddedNode(H[m-1], m)
  <2>1. \A c \in Node : H[c] = IF c = 0 THEN HostStart ELSE AddedNode(H[c-1], c)
    BY <1>8
  <2> QED  BY <2>1, <1>1
<1> DEFINE Good == {m \in 0 .. M : H[m] \in HostState /\ AppendedTo(H[m], m)}
<1>11. ASSUME NEW m \in 0 .. M, \A i \in 0 .. m-1 : i \in Good PROVE m \in Good
  <2>1. CASE m = 0
    <3>1. \A n \in Node : KidsTo(n, 0) = {}
      BY PointersOfTree, TreeSizes DEF KidsTo
    <3>2. \A n \in Node : NextSibling(n) = NoNode \/ NextSibling(n) > 0
      <4>1. ASSUME NEW n \in Node PROVE NextSibling(n) = NoNode \/ NextSibling(n) > 0
        <5>1. CASE n = 0
          BY <5>1 DEF NextSibling
        <5>2. CASE n # 0
          BY <5>2, PointersOfTree, TreeSizes DEF SiblingsAfter
        <5> QED  BY <5>1, <5>2
      <4> QED  BY <4>1
    <3>3. AppendedTo(HostStart, 0)
      BY <3>1, <3>2 DEF AppendedTo, HostStart, NoNode
    <3> QED  BY <2>1, <3>3, <1>2, <1>10
  <2>2. CASE m # 0
    <3>1. m \in 1 .. M /\ m-1 \in 0 .. m-1
      BY <2>2
    <3>2. H[m-1] \in HostState /\ AppendedTo(H[m-1], m-1)
      BY <3>1, <1>11
    <3>3. H[m] = AddedNode(H[m-1], m)
      BY <3>1, <1>10
    <3> QED  BY <3>1, <3>2, <3>3, HostAppends
  <2> QED  BY <2>1, <2>2
<1>12. H[M] \in HostState /\ AppendedTo(H[M], M)
  <2>1. 0 .. M \subseteq Good
    <3> HIDE DEF Good, M
    <3> QED  BY <1>1, <1>11, IntervalInduction
  <2> QED  BY <2>1, <1>1
<1>13. ASSUME NEW n \in Node PROVE H[M].tok[n] = FirstChild(n) /\ H[M].sib[n] = NextSibling(n)
  <2>1. KidsTo(n, M) = Kids(n)
    BY PointersOfTree, TreeSizes DEF KidsTo
  <2>2. H[M].tok[n] = FirstChild(n)
    BY <2>1, <1>12, PointersOfTree DEF AppendedTo
  <2>3. ~(NextSibling(n) > M)
    <3>1. CASE n = 0
      BY <3>1, <1>1 DEF NextSibling, NoNode
    <3>2. CASE n # 0
      BY <3>2, <1>1, PointersOfTree, TreeSizes DEF SiblingsAfter, NoNode
    <3> QED  BY <3>1, <3>2
  <2> QED  BY <2>2, <2>3, <1>12 DEF AppendedTo
<1> QED  BY <1>9, <1>12, <1>13 DEF AppendedTo

LEMMA MatchesHost == ASSUME TreeAssumption, TreeInputInv, PointerInv PROVE PointersMatchHost
<1> SUFFICES ASSUME built = Node
             PROVE  /\ retrieve_next_token = HostPointers.tok
                    /\ retrieve_next_sibling = HostPointers.sib
                    /\ tree_positions[0] = 0
                    /\ \A c \in 1 .. TreeNodes-1 :
                         tree_positions[c] = tree_positions[parents[c]] + 1
  BY DEF PointersMatchHost
<1>1. retrieve_next_token \in [Node -> Int] /\ retrieve_next_sibling \in [Node -> Int]
  BY DEF PointerInv
<1>2. retrieve_next_token = HostPointers.tok /\ retrieve_next_sibling = HostPointers.sib
  BY <1>1, HostBuilds, BuiltPointers
<1>3. tree_positions[0] = 0
  BY BuiltPointers, DepthIs, TreeSizes
<1>4. ASSUME NEW c \in 1 .. TreeNodes-1 PROVE tree_positions[c] = tree_positions[parents[c]] + 1
  <2>1. c \in Node /\ parents[c] \in Node
    BY InputIs, TreeSizes
  <2>2. tree_positions[c] = Depth(c) /\ tree_positions[parents[c]] = Depth(parents[c])
    BY <2>1, BuiltPointers
  <2>3. Depth(c) = 1 + Depth(parents[c]) /\ Depth(parents[c]) \in Nat
    BY <2>1, DepthIs
  <2> QED  BY <2>2, <2>3
<1> QED  BY <1>2, <1>3, <1>4

-----------------------------------------------------------------------------
\* The running sum that AcceptedChild compares with the coin.
Running(s) ==
  LET probAcc[i \in 0 .. Len(s)] ==
        IF i = 0 THEN 0 ELSE probAcc[i-1] + prob[last][tree_draft[s[i]]]
  IN  probAcc

\* The tokens of the first i nodes of a list.
TokensTo(s, i) == {tree_draft[s[h]] : h \in 1 .. i}

LEMMA RunningIs ==
  ASSUME TreeAssumption, TreeInputInv, last \in Node, NEW s, Lists(s, Kids(last))
  PROVE  /\ s \in Seq(Node) /\ Len(s) \in Nat
         /\ \A i \in 1 .. Len(s) : /\ s[i] \in Kids(last) /\ s[i] \in 1 .. TreeNodes-1
                                   /\ tree_draft[s[i]] \in TreeToken
                                   /\ prob[last][tree_draft[s[i]]] \in 0 .. Mass
         /\ Running(s)[0] = 0
         /\ \A i \in 1 .. Len(s) :
              Running(s)[i] = Running(s)[i-1] + prob[last][tree_draft[s[i]]]
         /\ \A i \in 0 .. Len(s) : Running(s)[i] \in Nat
<1>1. s \in Seq(Node) /\ Len(s) \in Nat /\ \A i \in 1 .. Len(s) : s[i] \in Kids(last)
  BY DEF Lists
<1>2. ASSUME NEW i \in 1 .. Len(s)
      PROVE  /\ s[i] \in 1 .. TreeNodes-1 /\ tree_draft[s[i]] \in TreeToken
             /\ prob[last][tree_draft[s[i]]] \in 0 .. Mass
  <2>1. s[i] \in 1 .. TreeNodes-1
    BY <1>1, PointersOfTree
  <2> QED  BY <2>1, InputIs
<1> DEFINE N == Len(s)
           p(i) == prob[last][tree_draft[s[i]]]
           further == [x \in (1 .. N) \X Nat |-> x[2] + p(x[1])]
           F(R) == [i \in 0 .. Len(s) |-> IF i = 0 THEN 0 ELSE R[i-1] + prob[last][tree_draft[s[i]]]]
           P == CHOOSE R : R = F(R)
<1>3. \A i \in 1 .. N : p(i) \in Nat
  BY <1>2, TreeSizes
<1>4. further \in [(1 .. N) \X Nat -> Nat]
  <2> HIDE DEF p
  <2> QED  BY <1>3
<1>5. \A i \in 1 .. N, a \in Nat : further[<<i, a>>] = a + p(i)
  <2>1. ASSUME NEW i \in 1 .. N, NEW a \in Nat PROVE further[<<i, a>>] = a + p(i)
    <3>1. <<i, a>> \in (1 .. N) \X Nat
      OBVIOUS
    <3> HIDE DEF p
    <3> QED  BY <3>1
  <2> QED  BY <2>1
<1> HIDE DEF further
<1>6. PICK f \in [0 .. N -> Nat] : Follows(f, N, 0, further)
  BY <1>1, <1>4, RecursionExists
<1>7. f = F(f)
  <2>1. ASSUME NEW i \in 0 .. N PROVE f[i] = IF i = 0 THEN 0 ELSE f[i-1] + p(i)
    <3>1. f[i] = IF i = 0 THEN 0 ELSE further[<<i, f[i-1]>>]
      BY <1>6 DEF Follows
    <3>2. i # 0 => i \in 1 .. N /\ i-1 \in 0 .. N
      BY <1>1
    <3> HIDE DEF p
    <3> QED  BY <3>1, <3>2, <1>5, <1>6
  <2>2. f = [i \in 0 .. N |-> f[i]]
    BY <1>6
  <2> QED  BY <2>1, <2>2
<1>8. P = F(P)
  <2> HIDE DEF F
  <2> QED  BY <1>7
<1>9. Running(s) = P
  BY DEF Running
<1> HIDE DEF P
<1>10. \A i \in 0 .. N : P[i] = IF i = 0 THEN 0 ELSE P[i-1] + prob[last][tree_draft[s[i]]]
  BY <1>8
<1>11. P[0] = 0 /\ \A i \in 1 .. N : P[i] = P[i-1] + p(i)
  BY <1>1, <1>10
<1>12. \A i \in 0 .. N : P[i] \in Nat
  <2>1. \A i \in 1 .. N : P[i-1] \in Nat => P[i] \in Nat
    <3> HIDE DEF p
    <3> QED  BY <1>3, <1>11
  <2>2. P[0] \in Nat /\ N \in Nat
    BY <1>1, <1>11
  <2> HIDE DEF N
  <2> QED  BY <2>1, <2>2, RecursionTypes
<1> QED  BY <1>1, <1>2, <1>9, <1>11, <1>12

\* Which child a coin accepts.
LEMMA AcceptedIs ==
  ASSUME TreeAssumption, TreeInputInv, PointerInv, built = Node, last \in Node, NEW coin \in TreeCoin,
         NEW s, s = Siblings(FirstChild(last))
  PROVE  /\ Lists(s, Kids(last))
         /\ (\A i \in 1 .. Len(s) : coin > Running(s)[i]) => AcceptedChild(coin) = NoNode
         /\ ~(\A i \in 1 .. Len(s) : coin > Running(s)[i]) => AcceptedChild(coin) \in Kids(last)
         /\ \A i \in 1 .. Len(s) : AcceptedChild(coin) = s[i] <=>
              coin <= Running(s)[i] /\ \A h \in 1 .. i-1 : coin > Running(s)[h]
<1> DEFINE R == Running(s)
           hit == {i \in 1 .. Len(s) : coin <= R[i]}
<1>1. Lists(s, Kids(last))
  BY ChildrenListed
<1>2. /\ s \in Seq(Node) /\ Len(s) \in Nat /\ DOMAIN s = 1 .. Len(s) /\ coin \in Nat
      /\ \A i \in 1 .. Len(s) : R[i] \in Nat /\ s[i] \in Kids(last) /\ s[i] \in Nat /\ s[i] # NoNode
  <2>1. s \in Seq(Node) /\ DOMAIN s = 1 .. Len(s)
    BY <1>1 DEF Lists
  <2>2. \A i \in 1 .. Len(s) : s[i] \in Nat /\ s[i] # NoNode
    BY <1>1, RunningIs, TreeSizes
  <2> QED  BY <2>1, <2>2, <1>1, RunningIs, TreeSizes DEF TreeCoin
<1>3. retrieve_next_token[last] = FirstChild(last)
  BY BuiltPointers
<1>4. AcceptedChild(coin) = IF hit = {} THEN NoNode ELSE s[Nearest(hit)]
  <2>1. s = Siblings(retrieve_next_token[last])
    BY <1>3
  <2>2. hit = {i \in DOMAIN s : coin <= R[i]}
    BY <1>2
  <2> HIDE DEF hit
  <2> QED  BY <2>1, <2>2 DEF AcceptedChild, Running
<1> HIDE DEF R
<1>5. hit \subseteq 1 .. Len(s) /\ hit \subseteq Nat
  BY <1>2
<1>6. \A i \in 1 .. Len(s) : i \in hit <=> ~(coin > R[i])
  BY <1>2
<1>7. CASE hit = {}
  <2>1. AcceptedChild(coin) = NoNode
    BY <1>4, <1>7
  <2>2. \A i \in 1 .. Len(s) : coin > R[i] /\ ~(coin <= R[i])
    BY <1>7, <1>2
  <2> QED  BY <2>1, <2>2, <1>1, <1>2 DEF R
<1>8. CASE hit # {}
  <2> DEFINE m == Nearest(hit)
  <2>1. m \in hit /\ \A d \in hit : m <= d
    BY <1>5, <1>8, NearestIs
  <2>2. AcceptedChild(coin) = s[m] /\ m \in 1 .. Len(s)
    BY <1>4, <1>5, <1>8, <2>1
  <2> HIDE DEF m, hit
  <2>3. \A i, k \in 1 .. Len(s) : s[i] = s[k] => i = k
    <3>1. SUFFICES ASSUME NEW i \in 1 .. Len(s), NEW k \in 1 .. Len(s), s[i] = s[k], i # k
                   PROVE  FALSE
      OBVIOUS
    <3>2. i < k \/ k < i
      BY <3>1, <1>2
    <3>3. s[i] < s[k] \/ s[k] < s[i]
      BY <3>2, <1>1 DEF Lists
    <3> QED  BY <3>1, <3>3, <1>2
  <2>4. ASSUME NEW i \in 1 .. Len(s)
        PROVE  AcceptedChild(coin) = s[i] <=> coin <= R[i] /\ \A h \in 1 .. i-1 : coin > R[h]
    <3>1. AcceptedChild(coin) = s[i] <=> i = m
      BY <2>2, <2>3
    <3>2. ASSUME i = m PROVE coin <= R[i] /\ \A h \in 1 .. i-1 : coin > R[h]
      <4>1. coin <= R[i]
        BY <3>2, <2>1 DEF hit
      <4>2. ASSUME NEW h \in 1 .. i-1 PROVE coin > R[h]
        <5>1. h \in 1 .. Len(s) /\ ~(m <= h)
          BY <3>2, <1>2
        <5> QED  BY <5>1, <2>1, <1>6
      <4> QED  BY <4>1, <4>2
    <3>3. ASSUME coin <= R[i], \A h \in 1 .. i-1 : coin > R[h] PROVE i = m
      <4>1. i \in hit
        BY <3>3 DEF hit
      <4>2. m <= i
        BY <4>1, <2>1
      <4>3. ~(m \in 1 .. i-1)
        BY <3>3, <2>1, <2>2, <1>6
      <4> QED  BY <4>2, <4>3, <2>2, <1>2
    <3> QED  BY <3>1, <3>2, <3>3
  <2>5. ~(\A i \in 1 .. Len(s) : coin > R[i])
    BY <2>1, <2>2, <1>6
  <2> QED  BY <2>2, <2>4, <2>5, <1>1, <1>2 DEF R
<1> QED  BY <1>7, <1>8

\* The running sum counts the tokens' probabilities, some more than once.
LEMMA RunningCounts ==
  ASSUME TreeAssumption, TreeInputInv, last \in Node, NEW s, Lists(s, Kids(last)),
         NEW i \in 0 .. Len(s)
  PROVE  /\ TokensTo(s, i) \subseteq TreeToken
         /\ SumFunctionOnSet(prob[last], TokensTo(s, i)) <= Running(s)[i]
         /\ (\A c, d \in Kids(last) : tree_draft[c] = tree_draft[d] => c = d) =>
              SumFunctionOnSet(prob[last], TokensTo(s, i)) = Running(s)[i]
<1> DEFINE f == prob[last]
           Weight(T) == SumFunctionOnSet(f, T)
           R == Running(s)
           Distinct == \A c, d \in Kids(last) : tree_draft[c] = tree_draft[d] => c = d
           Good == {n \in 0 .. Len(s) : /\ Weight(TokensTo(s, n)) <= R[n]
                                        /\ Distinct => Weight(TokensTo(s, n)) = R[n]}
<1>1. /\ Len(s) \in Nat /\ R[0] = 0 /\ \A n \in 0 .. Len(s) : R[n] \in Nat
      /\ \A n \in 1 .. Len(s) : /\ s[n] \in Kids(last) /\ tree_draft[s[n]] \in TreeToken
                                /\ f[tree_draft[s[n]]] \in Nat
                                /\ R[n] = R[n-1] + f[tree_draft[s[n]]]
  <2>1. /\ Len(s) \in Nat /\ R[0] = 0 /\ \A n \in 0 .. Len(s) : R[n] \in Nat
        /\ \A n \in 1 .. Len(s) : /\ s[n] \in Kids(last) /\ tree_draft[s[n]] \in TreeToken
                                  /\ f[tree_draft[s[n]]] \in 0 .. Mass
                                  /\ R[n] = R[n-1] + f[tree_draft[s[n]]]
    BY RunningIs
  <2>2. 0 .. Mass \subseteq Nat
    BY TreeSizes
  <2> HIDE DEF f, R
  <2> QED  BY <2>1, <2>2
<1>2. \A n \in 0 .. Len(s) : TokensTo(s, n) \subseteq TreeToken
  BY <1>1 DEF TokensTo
<1>3. \A T \in SUBSET TreeToken : IsFiniteSet(T) /\ Weight(T) \in Nat /\ \A x \in T : f[x] \in Nat
  <2>1. IsFiniteSet(TreeToken)
    BY FS_Interval, TreeSizes DEF TreeToken
  <2>2. \A x \in TreeToken : f[x] \in Nat
    BY InputIs, TreeSizes
  <2> HIDE DEF f
  <2>3. \A T \in SUBSET TreeToken : IsFiniteSet(T)
    BY <2>1, FS_Subset
  <2> QED  BY <2>2, <2>3, SumNat
<1> HIDE DEF f, R
<1>4. ASSUME NEW n \in 0 .. Len(s), \A h \in 0 .. n-1 : h \in Good PROVE n \in Good
  <2>1. CASE n = 0
    <3>1. TokensTo(s, 0) = {}
      BY DEF TokensTo
    <3>2. Weight(TokensTo(s, 0)) = 0
      BY <3>1, SumEmpty
    <3> QED  BY <2>1, <3>2, <1>1
  <2>2. CASE n # 0
    <3> DEFINE e == tree_draft[s[n]]
               T == TokensTo(s, n-1)
    <3>1. n \in 1 .. Len(s) /\ n-1 \in 0 .. n-1 /\ n-1 \in 0 .. Len(s)
      BY <2>2, <1>1
    <3>2. TokensTo(s, n) = T \cup {e}
      <4>1. \A h \in 1 .. n : h \in 1 .. n-1 \/ h = n
        BY <3>1
      <4>2. \A h \in 1 .. n-1 : h \in 1 .. n
        BY <3>1
      <4>3. n \in 1 .. n
        BY <3>1
      <4> QED  BY <4>1, <4>2, <4>3 DEF TokensTo
    <3>3. Weight(T) <= R[n-1] /\ (Distinct => Weight(T) = R[n-1])
      BY <3>1, <1>4
    <3>4. Weight(T) \in Nat /\ IsFiniteSet(T) /\ R[n-1] \in Nat /\ f[e] \in Nat /\ R[n] = R[n-1] + f[e]
      BY <3>1, <1>1, <1>2, <1>3
    <3>5. CASE e \in T
      <4>1. Weight(TokensTo(s, n)) = Weight(T)
        <5>1. TokensTo(s, n) = T
          BY <3>2, <3>5
        <5> HIDE DEF T
        <5> QED  BY <5>1
      <4>2. ~Distinct
        <5>1. PICK h \in 1 .. n-1 : tree_draft[s[h]] = e
          BY <3>5 DEF TokensTo
        <5>2. h \in 1 .. Len(s) /\ h < n
          BY <5>1, <3>1, <1>1
        <5>3. s[h] < s[n] /\ s[h] \in Kids(last) /\ s[n] \in Kids(last)
          BY <5>2, <3>1, <1>1 DEF Lists
        <5>4. s[h] # s[n]
          BY <5>3, PointersOfTree
        <5> QED  BY <5>1, <5>3, <5>4
      <4> HIDE DEF Weight, T, e, Distinct
      <4> QED  BY <4>1, <4>2, <3>3, <3>4
    <3>6. CASE e \notin T
      <4>1. \A x \in T \cup {e} : f[x] \in Nat
        BY <3>1, <3>4, <1>2, <1>3
      <4>2. Weight(TokensTo(s, n)) = Weight(T) + f[e]
        <5> HIDE DEF e, T
        <5>1. IsFiniteSet(T)
          BY <3>4
        <5>2. SumFunctionOnSet(f, T \cup {e}) = SumFunctionOnSet(f, T) + f[e]
          BY <5>1, <3>6, <4>1, SumAdd
        <5> QED  BY <3>2, <5>2
      <4> HIDE DEF Weight, T, e, Distinct
      <4> QED  BY <4>2, <3>3, <3>4
    <3> QED  BY <3>5, <3>6
  <2> QED  BY <2>1, <2>2
<1>5. 0 .. Len(s) \subseteq Good
  <2> HIDE DEF Good
  <2> QED  BY <1>1, <1>4, IntervalInduction
<1>6. i \in Good
  BY <1>5
<1> QED  BY <1>2, <1>6 DEF f, R

LEMMA TokenLeft ==
  ASSUME TreeAssumption, TreeInputInv, NEW n \in Node, NEW T \in SUBSET TreeToken
  PROVE  /\ SumFunctionOnSet(prob[n], T) <= Mass
         /\ SumFunctionOnSet(prob[n], T) < Mass => \E t \in TreeToken \ T : prob[n][t] > 0
<1> DEFINE f == prob[n]
           rest == TreeToken \ T
<1>1. IsFiniteSet(TreeToken) /\ \A x \in TreeToken : f[x] \in Nat
  <2>1. IsFiniteSet(TreeToken)
    BY FS_Interval, TreeSizes DEF TreeToken
  <2>2. \A x \in TreeToken : f[x] \in Nat
    BY InputIs, TreeSizes
  <2> QED  BY <2>1, <2>2
<1>2. SumFunctionOnSet(f, TreeToken) = Mass
  BY InputIs
<1> HIDE DEF f
<1>3. IsFiniteSet(T) /\ IsFiniteSet(rest)
  BY <1>1, FS_Subset
<1>4. SumFunctionOnSet(f, T) \in Nat /\ SumFunctionOnSet(f, rest) \in Nat
  BY <1>1, <1>3, SumNat
<1>5. Mass = SumFunctionOnSet(f, T) + SumFunctionOnSet(f, rest)
  BY <1>1, <1>2, SumUnion
<1>6. ASSUME \A t \in rest : ~(f[t] > 0) PROVE SumFunctionOnSet(f, rest) = 0
  <2>1. \A t \in rest : f[t] = 0
    BY <1>1, <1>6
  <2> HIDE DEF rest
  <2> QED  BY <2>1, <1>3, SumOfZeros
<1> HIDE DEF rest
<1>7. SumFunctionOnSet(f, T) <= Mass
  BY <1>4, <1>5
<1>8. SumFunctionOnSet(f, T) < Mass => \E t \in rest : f[t] > 0
  <2>1. SumFunctionOnSet(f, T) < Mass => SumFunctionOnSet(f, rest) # 0
    BY <1>4, <1>5
  <2> QED  BY <2>1, <1>6
<1> QED  BY <1>7, <1>8 DEF f, rest

LEMMA AllTokens ==
  ASSUME NEW s, Lists(s, Kids(last))
  PROVE  TokensTo(s, Len(s)) = {tree_draft[c] : c \in Kids(last)}
BY DEF Lists, TokensTo

\* A coin that no child accepts leaves a token that was not offered.
LEMMA RejectionLeavesToken ==
  ASSUME TreeAssumption, TreeInputInv, PointerInv, built = Node, last \in Node,
         NEW coin \in TreeCoin, AcceptedChild(coin) = NoNode
  PROVE  \E t \in TreeToken \ {tree_draft[c] : c \in Kids(last)} : prob[last][t] > 0
<1> DEFINE s == Siblings(FirstChild(last))
           T == TokensTo(s, Len(s))
<1>1. Lists(s, Kids(last)) /\ \A i \in 1 .. Len(s) : coin > Running(s)[i]
  <2>1. NoNode \notin Kids(last)
    BY PointersOfTree DEF NoNode
  <2>2. /\ Lists(s, Kids(last))
        /\ ~(\A i \in 1 .. Len(s) : coin > Running(s)[i]) => AcceptedChild(coin) \in Kids(last)
    BY AcceptedIs
  <2> HIDE DEF s
  <2> QED  BY <2>1, <2>2
<1> HIDE DEF s
<1>2. /\ Len(s) \in Nat /\ Running(s)[0] = 0 /\ \A i \in 0 .. Len(s) : Running(s)[i] \in Nat
      /\ coin \in 0 .. Mass-1
  BY <1>1, RunningIs DEF TreeCoin
<1>3. Running(s)[Len(s)] < Mass
  <2>1. CASE Len(s) = 0
    BY <2>1, <1>2, TreeSizes
  <2>2. CASE Len(s) # 0
    <3>1. Len(s) \in 1 .. Len(s) /\ Len(s) \in 0 .. Len(s)
      BY <2>2, <1>2
    <3>2. coin > Running(s)[Len(s)] /\ Running(s)[Len(s)] \in Nat
      BY <3>1, <1>1, <1>2
    <3> QED  BY <3>2, <1>2, TreeSizes
  <2> QED  BY <2>1, <2>2
<1>4. T \in SUBSET TreeToken /\ SumFunctionOnSet(prob[last], T) <= Running(s)[Len(s)]
  <2>1. Len(s) \in 0 .. Len(s)
    BY <1>2
  <2> QED  BY <2>1, <1>1, RunningCounts
<1>5. SumFunctionOnSet(prob[last], T) \in Int
  <2>1. IsFiniteSet(TreeToken) /\ \A x \in TreeToken : prob[last][x] \in Nat
    <3>1. IsFiniteSet(TreeToken)
      BY FS_Interval, TreeSizes DEF TreeToken
    <3>2. \A x \in TreeToken : prob[last][x] \in Nat
      BY InputIs, TreeSizes
    <3> QED  BY <3>1, <3>2
  <2>2. IsFiniteSet(T) /\ \A x \in T : prob[last][x] \in Nat
    BY <2>1, <1>4, FS_Subset
  <2>3. SumFunctionOnSet(prob[last], T) \in Nat
    BY <2>2, SumNat
  <2> QED  BY <2>3
<1>6. SumFunctionOnSet(prob[last], T) < Mass
  <2>1. Running(s)[Len(s)] \in Int
    BY <1>2
  <2> QED  BY <2>1, <1>3, <1>4, <1>5, TreeSizes
<1>7. \E t \in TreeToken \ T : prob[last][t] > 0
  BY <1>4, <1>6, TokenLeft
<1> QED  BY <1>1, <1>7, AllTokens

LEMMA RunningGrows ==
  ASSUME TreeAssumption, TreeInputInv, last \in Node, NEW s, Lists(s, Kids(last)),
         NEW i \in 0 .. Len(s), NEW h \in 0 .. i
  PROVE  Running(s)[h] <= Running(s)[i]
<1> DEFINE R == Running(s)
           Good == {n \in 0 .. Len(s) : h <= n => R[h] <= R[n]}
<1>1. /\ Len(s) \in Nat /\ \A n \in 0 .. Len(s) : R[n] \in Nat
      /\ \A n \in 1 .. Len(s) : prob[last][tree_draft[s[n]]] \in 0 .. Mass
      /\ \A n \in 1 .. Len(s) : R[n] = R[n-1] + prob[last][tree_draft[s[n]]]
  BY RunningIs
<1>2. \A n \in 1 .. Len(s) : R[n-1] <= R[n]
  <2>1. ASSUME NEW n \in 1 .. Len(s) PROVE R[n-1] <= R[n]
    <3>1. n-1 \in 0 .. Len(s) /\ n \in 0 .. Len(s)
      BY <1>1
    <3> DEFINE q == prob[last][tree_draft[s[n]]]
    <3>2. R[n] = R[n-1] + q /\ q \in 0 .. Mass
      BY <1>1
    <3> HIDE DEF R, q
    <3>3. q \in Nat /\ R[n-1] \in Nat
      BY <3>1, <3>2, <1>1, TreeSizes
    <3> QED  BY <3>2, <3>3
  <2> QED  BY <2>1
<1> HIDE DEF R
<1>3. ASSUME NEW n \in 0 .. Len(s), \A k \in 0 .. n-1 : k \in Good PROVE n \in Good
  <2>1. CASE n <= h
    BY <2>1, <1>1
  <2>2. CASE ~(n <= h)
    <3>1. n-1 \in 0 .. n-1 /\ n \in 1 .. Len(s) /\ n-1 \in 0 .. Len(s) /\ h <= n-1 /\ h \in 0 .. Len(s)
      BY <2>2, <1>1
    <3>2. R[h] <= R[n-1] /\ R[n-1] <= R[n]
      BY <3>1, <1>2, <1>3
    <3>3. R[h] \in Nat /\ R[n-1] \in Nat /\ R[n] \in Nat
      BY <3>1, <1>1
    <3> QED  BY <3>2, <3>3
  <2> QED  BY <2>1, <2>2
<1>4. 0 .. Len(s) \subseteq Good
  <2> HIDE DEF Good
  <2> QED  BY <1>1, <1>3, IntervalInduction
<1>5. i \in Good /\ h <= i
  BY <1>4
<1> QED  BY <1>5 DEF R

\* A child is accepted for an interval of coins as long as its probability.
LEMMA CoinsOfChild ==
  ASSUME TreeAssumption, TreeInputInv, PointerInv, built = Node, last \in Node,
         \A c, d \in Kids(last) : tree_draft[c] = tree_draft[d] => c = d, NEW c \in Kids(last)
  PROVE  Cardinality({coin \in TreeCoin : AcceptedChild(coin) = c}) - prob[last][tree_draft[c]]
           \in {-1, 0, 1}
<1> DEFINE s == Siblings(FirstChild(last))
           R == Running(s)
           p == prob[last][tree_draft[c]]
<1>1. Lists(s, Kids(last))
  BY ChildrenListed
<1>2. \A coin \in TreeCoin : \A i \in 1 .. Len(s) : AcceptedChild(coin) = s[i] <=>
        coin <= R[i] /\ \A h \in 1 .. i-1 : coin > R[h]
  BY AcceptedIs
<1> HIDE DEF s
<1>3. /\ Len(s) \in Nat /\ R[0] = 0 /\ \A n \in 0 .. Len(s) : R[n] \in Nat
      /\ \A n \in 1 .. Len(s) : /\ prob[last][tree_draft[s[n]]] \in 0 .. Mass
                                /\ R[n] = R[n-1] + prob[last][tree_draft[s[n]]]
  BY <1>1, RunningIs
<1>4. PICK i \in 1 .. Len(s) : s[i] = c
  BY <1>1 DEF Lists
<1> DEFINE lo == IF i = 1 THEN 0 ELSE R[i-1] + 1
           hi == IF R[i] < Mass THEN R[i] ELSE Mass - 1
           A == {coin \in TreeCoin : AcceptedChild(coin) = c}
<1>5. i-1 \in 0 .. Len(s) /\ i \in 0 .. Len(s) /\ i \in Nat
  BY <1>3, <1>4
<1>6. R[i] = R[i-1] + p /\ p \in Nat /\ R[i] \in Nat /\ R[i-1] \in Nat /\ (i = 1 => R[i-1] = 0)
  <2>1. R[i] = R[i-1] + p /\ p \in 0 .. Mass
    BY <1>3, <1>4
  <2>2. p \in Nat
    BY <2>1, TreeSizes
  <2>3. i = 1 => i-1 = 0
    OBVIOUS
  <2> HIDE DEF R, p
  <2> QED  BY <2>1, <2>2, <2>3, <1>3, <1>5
<1>7. R[i] <= Mass
  <2>1. SumFunctionOnSet(prob[last], TokensTo(s, i)) = R[i] /\ TokensTo(s, i) \subseteq TreeToken
    BY <1>1, <1>5, RunningCounts
  <2>2. SumFunctionOnSet(prob[last], TokensTo(s, i)) <= Mass
    BY <2>1, TokenLeft
  <2> QED  BY <2>1, <2>2
<1>8. ASSUME NEW coin \in Nat PROVE (\A h \in 1 .. i-1 : coin > R[h]) <=> (i = 1 \/ coin > R[i-1])
  <2>1. \A h \in 1 .. i-1 : R[h] <= R[i-1] /\ R[h] \in Nat
    <3>1. \A h \in 1 .. i-1 : h \in 0 .. i-1 /\ h \in 0 .. Len(s)
      BY <1>3, <1>5
    <3>2. \A h \in 0 .. i-1 : R[h] <= R[i-1]
      BY <1>1, <1>5, RunningGrows
    <3> HIDE DEF R
    <3> QED  BY <3>1, <3>2, <1>3
  <2>2. i # 1 => i-1 \in 1 .. i-1
    BY <1>5
  <2>3. i = 1 => 1 .. i-1 = {}
    BY <1>5
  <2> HIDE DEF R
  <2> QED  BY <2>1, <2>2, <2>3, <1>6
<1> HIDE DEF R, p
<1>9. A = lo .. hi
  <2>1. ASSUME NEW coin \in TreeCoin PROVE AcceptedChild(coin) = c <=> coin \in lo .. hi
    <3>1. coin \in 0 .. Mass-1 /\ coin \in Nat
      BY TreeSizes DEF TreeCoin
    <3>2. AcceptedChild(coin) = c <=> coin <= R[i] /\ (i = 1 \/ coin > R[i-1])
      BY <3>1, <1>2, <1>4, <1>8
    <3> QED  BY <3>1, <3>2, <1>6, <1>7, TreeSizes
  <2>2. lo .. hi \subseteq TreeCoin
    BY <1>6, <1>7, TreeSizes DEF TreeCoin
  <2> HIDE DEF lo, hi
  <2> QED  BY <2>1, <2>2
<1>10. lo \in Int /\ hi \in Int
  BY <1>6, TreeSizes
<1>11. Cardinality(lo .. hi) = IF lo > hi THEN 0 ELSE hi - lo + 1
  <2> HIDE DEF lo, hi
  <2> QED  BY <1>10, FS_Interval
<1>12. (IF lo > hi THEN 0 ELSE hi - lo + 1) - p \in {-1, 0, 1}
  <2>1. CASE i = 1
    <3>1. lo = 0 /\ R[i] = p
      BY <2>1, <1>6
    <3>2. CASE R[i] < Mass
      BY <3>1, <3>2, <1>6
    <3>3. CASE ~(R[i] < Mass)
      <4>1. p = Mass
        BY <3>1, <3>3, <1>6, <1>7, TreeSizes
      <4> QED  BY <3>1, <3>3, <4>1, TreeSizes
    <3> QED  BY <3>2, <3>3
  <2>2. CASE i # 1
    <3> DEFINE q == R[i-1]
               r == R[i]
    <3>1. q \in Nat /\ p \in Nat /\ Mass \in Nat /\ r = q + p /\ r <= Mass
      BY <1>6, <1>7, TreeSizes
    <3>2. lo = q + 1 /\ hi = IF r < Mass THEN r ELSE Mass - 1
      BY <2>2
    <3> HIDE DEF lo, hi, q, r
    <3>3. r < Mass => hi = q + p
      BY <3>1, <3>2
    <3>4. ~(r < Mass) => hi = q + p - 1
      BY <3>1, <3>2
    <3>5. lo = q + 1
      BY <3>2
    <3>6. CASE hi = q + p
      <4>1. lo > hi => p = 0
        BY <3>1, <3>5, <3>6
      <4>2. ~(lo > hi) => hi - lo + 1 = p
        BY <3>1, <3>5, <3>6
      <4>3. CASE lo > hi
        BY <4>1, <4>3
      <4>4. CASE ~(lo > hi)
        BY <4>2, <4>4, <3>1
      <4> QED  BY <4>3, <4>4
    <3>7. CASE hi = q + p - 1
      <4>1. lo > hi => p = 0 \/ p = 1
        BY <3>1, <3>5, <3>7
      <4>2. ~(lo > hi) => hi - lo + 1 = p - 1
        BY <3>1, <3>5, <3>7
      <4>3. CASE lo > hi
        BY <4>1, <4>3
      <4>4. CASE ~(lo > hi)
        BY <4>2, <4>4, <3>1
      <4> QED  BY <4>3, <4>4
    <3> QED  BY <3>3, <3>4, <3>6, <3>7
  <2> QED  BY <2>1, <2>2
<1> QED  BY <1>9, <1>11, <1>12 DEF p

-----------------------------------------------------------------------------
\* The walk finds the pointers built.
LEMMA BuiltByWalk ==
  ASSUME TreeAssumption, PointerInv, WalkInv, tree_pc # "begin"
  PROVE  built = Node /\ cleared = Node
BY TreeSizes DEF PointerInv, WalkInv

LEMMA AcceptanceHolds ==
  ASSUME TreeAssumption, TreeIInv
  PROVE  AcceptanceOfTarget
<1> SUFFICES ASSUME tree_pc = "walk",
                    \A c, d \in Kids(last) : tree_draft[c] = tree_draft[d] => c = d,
                    NEW c \in Kids(last)
             PROVE  Cardinality({coin \in TreeCoin : AcceptedChild(coin) = c})
                      - prob[last][tree_draft[c]] \in {-1, 0, 1}
  BY DEF AcceptanceOfTarget, Kids
<1>1. built = Node /\ last \in Node
  BY BuiltByWalk DEF TreeIInv, WalkInv
<1> QED  BY <1>1, CoinsOfChild DEF TreeIInv

\* The tree stays as it is while its inputs do.
LEMMA SameTree ==
  ASSUME TreeInputInv, UNCHANGED tree_input
  PROVE  /\ TreeInputInv'
         /\ parents' = parents /\ tree_draft' = tree_draft
         /\ prob' = prob /\ tree_valid' = tree_valid
         /\ \A n \in Int : /\ Kids(n)' = Kids(n) /\ FirstChild(n)' = FirstChild(n)
                           /\ NextSibling(n)' = NextSibling(n) /\ Depth(n)' = Depth(n)
<1>1. parents' = parents /\ tree_draft' = tree_draft /\ prob' = prob /\ tree_valid' = tree_valid
  BY DEF tree_input
<1>2. TreeInputInv'
  BY <1>1 DEF TreeInputInv
<1>3. ASSUME NEW n \in Int
      PROVE  /\ Kids(n)' = Kids(n) /\ FirstChild(n)' = FirstChild(n)
             /\ NextSibling(n)' = NextSibling(n) /\ Depth(n)' = Depth(n)
  <2>1. Kids(n)' = Kids(n)
    BY <1>1 DEF Kids
  <2>2. FirstChild(n)' = FirstChild(n)
    BY <2>1 DEF FirstChild, Nearest
  <2>3. SiblingsAfter(n)' = SiblingsAfter(n)
    BY <1>1 DEF SiblingsAfter
  <2>4. NextSibling(n)' = NextSibling(n)
    BY <2>3 DEF NextSibling, Nearest
  <2>5. Depth(n)' = Depth(n)
    BY <1>1 DEF Depth
  <2> QED  BY <2>1, <2>2, <2>4, <2>5
<1> QED  BY <1>1, <1>2, <1>3

LEMMA SamePointers ==
  ASSUME TreeAssumption, TreeInputInv, PointerInv, UNCHANGED <<tree_input, tree_pointers>>,
         filled' = filled \/ (filled' \subseteq Node /\ built = Node)
  PROVE  TreeInputInv' /\ PointerInv'
<1>1. /\ UNCHANGED tree_input
      /\ UNCHANGED <<retrieve_next_token, retrieve_next_sibling, tree_positions, cleared, built>>
  BY DEF tree_pointers
<1>2. \A n \in Node : /\ FirstChild(n)' = FirstChild(n) /\ NextSibling(n)' = NextSibling(n)
                      /\ Depth(n)' = Depth(n)
  BY <1>1, SameTree, TreeSizes
<1>3. TreeInputInv'
  BY <1>1, SameTree
<1>4. \A c \in cleared : c \in Node
  BY DEF PointerInv
<1> QED  BY <1>1, <1>2, <1>3, <1>4, TreeSizes DEF PointerInv

\* The correction the walk is left with, from its inputs and its outputs.
LEMMA SameEnd ==
  ASSUME UNCHANGED <<tree_input, tree_pointers, last>>
  PROVE  \A coin \in TreeCoin : AcceptedChild(coin)' = AcceptedChild(coin)
<1>1. /\ prob' = prob /\ tree_draft' = tree_draft /\ last' = last
      /\ retrieve_next_token' = retrieve_next_token
      /\ retrieve_next_sibling' = retrieve_next_sibling
  BY DEF tree_input, tree_pointers
<1> QED  BY <1>1 DEF AcceptedChild, Siblings, Nearest

LEMMA TreeInitial == ASSUME TreeAssumption, TreeInit PROVE TreeIInv
<1>1. TreeInputInv
  BY DEF TreeInit, TreeInputInv
<1>2. PointerInv
  BY DEF TreeInit, PointerInv, Unset
<1>3. WalkInv
  BY TreeSizes DEF TreeInit, WalkInv, Unset
<1>4. EndInv
  BY DEF TreeInit, EndInv
<1> QED  BY <1>1, <1>2, <1>3, <1>4 DEF TreeIInv

LEMMA ClearKeeps ==
  ASSUME TreeAssumption, TreeIInv, NEW c \in Node, ClearNode(c)
  PROVE  TreeIInv'
<1>1. /\ c \notin cleared /\ cleared' = cleared \cup {c} /\ c \in Node
      /\ retrieve_next_token' = [retrieve_next_token EXCEPT ![c] = NoNode]
      /\ retrieve_next_sibling' = [retrieve_next_sibling EXCEPT ![c] = NoNode]
      /\ UNCHANGED tree_input
      /\ UNCHANGED <<tree_positions, built, filled, accept_index, accept_token, accept_num,
                     j, last, num_acc, term, tree_pc>>
  BY DEF ClearNode, accepted, walk
<1>2. TreeInputInv /\ PointerInv /\ WalkInv
  BY DEF TreeIInv
<1>3. built = {} /\ filled = {}
  BY <1>1, <1>2, TreeSizes DEF PointerInv
<1>4. tree_pc = "begin"
  BY <1>2, <1>3, TreeSizes DEF WalkInv
<1>5. PointerInv'
  <2>1. \A d \in cleared' : retrieve_next_token[d]' = NoNode /\ retrieve_next_sibling[d]' = NoNode
    BY <1>1, <1>2, <1>3 DEF PointerInv
  <2>2. /\ retrieve_next_token' \in [Node -> Int] /\ retrieve_next_sibling' \in [Node -> Int]
        /\ tree_positions' \in [Node -> Int] /\ cleared' \subseteq Node
    BY <1>1, <1>2 DEF PointerInv, NoNode
  <2>3. built' = {} /\ filled' = {}
    BY <1>1, <1>3
  <2> QED  BY <2>1, <2>2, <2>3 DEF PointerInv
<1>6. TreeInputInv'
  BY <1>1, <1>2, SameTree
<1>7. WalkInv'
  BY <1>1, <1>2, <1>4 DEF WalkInv
<1>8. EndInv'
  BY <1>1, <1>4 DEF EndInv
<1> QED  BY <1>5, <1>6, <1>7, <1>8 DEF TreeIInv

LEMMA BuildKeeps ==
  ASSUME TreeAssumption, TreeIInv, NEW c \in Node, BuildNode(c)
  PROVE  TreeIInv'
<1> DEFINE p == parents[c]
           later == {d \in c+1 .. TreeNodes-1 : parents[d] = p}
           earlier == {d \in 1 .. c-1 : parents[d] = p}
<1>1. /\ cleared = Node /\ c \in cleared \ built /\ built' = built \cup {c}
      /\ tree_positions' = [tree_positions EXCEPT ![c] = Depth(c)]
      /\ p < 0 => UNCHANGED <<retrieve_next_token, retrieve_next_sibling>>
      /\ ~(p < 0) =>
           /\ retrieve_next_sibling' = [retrieve_next_sibling EXCEPT ![c] = Nearest(later)]
           /\ retrieve_next_token' = IF earlier = {} THEN [retrieve_next_token EXCEPT ![p] = c]
                                                     ELSE retrieve_next_token
      /\ UNCHANGED tree_input
      /\ UNCHANGED <<cleared, filled, accept_index, accept_token, accept_num,
                     j, last, num_acc, term, tree_pc>>
  BY DEF BuildNode, AllCleared, accepted, walk
<1> HIDE DEF p, later, earlier
<1>2. TreeInputInv /\ PointerInv /\ WalkInv
  BY DEF TreeIInv
<1>3. filled = {} /\ tree_pc = "begin"
  <2>1. filled = {}
    BY <1>1, <1>2 DEF PointerInv
  <2> QED  BY <2>1, <1>2, TreeSizes DEF WalkInv
<1>4. /\ retrieve_next_token \in [Node -> Int] /\ retrieve_next_sibling \in [Node -> Int]
      /\ tree_positions \in [Node -> Int] /\ built \subseteq Node
      /\ \A d \in Node :
           /\ retrieve_next_token[d] = IF FirstChild(d) \in built THEN FirstChild(d) ELSE NoNode
           /\ retrieve_next_sibling[d] = IF d \in built THEN NextSibling(d) ELSE NoNode
      /\ \A d \in built : tree_positions[d] = Depth(d)
  BY <1>1, <1>2 DEF PointerInv
<1>5. \A d \in Node : /\ FirstChild(d)' = FirstChild(d) /\ NextSibling(d)' = NextSibling(d)
                      /\ Depth(d)' = Depth(d) /\ Depth(d) \in Int
  BY <1>1, <1>2, SameTree, TreeSizes, DepthIs
<1>6. \A d \in Node : FirstChild(d) = NoNode \/ (FirstChild(d) \in Kids(d) /\ FirstChild(d) \in 1 .. TreeNodes-1)
  BY <1>2, PointersOfTree
<1>7. /\ retrieve_next_token' \in [Node -> Int] /\ retrieve_next_sibling' \in [Node -> Int]
      /\ \A d \in Node :
           /\ retrieve_next_token'[d] = IF FirstChild(d) \in built' THEN FirstChild(d) ELSE NoNode
           /\ retrieve_next_sibling'[d] = IF d \in built' THEN NextSibling(d) ELSE NoNode
  <2>1. CASE c = 0
    <3>1. p < 0
      BY <2>1, <1>2, InputIs DEF p, NoNode
    <3>2. \A d \in Node : FirstChild(d) \in built' <=> FirstChild(d) \in built
      BY <2>1, <1>1, <1>6 DEF NoNode
    <3>3. NextSibling(c) = NoNode
      BY <2>1 DEF NextSibling
    <3> QED  BY <3>1, <3>2, <3>3, <1>1, <1>4
  <2>2. CASE c # 0
    <3>1. c \in 1 .. TreeNodes-1 /\ p \in Node /\ ~(p < 0) /\ NextSibling(c) = Nearest(later)
      <4>1. c \in 1 .. TreeNodes-1
        BY <2>2, TreeSizes
      <4>2. p \in Node
        BY <4>1, <1>2, InputIs DEF p
      <4>3. later = SiblingsAfter(c)
        BY DEF later, SiblingsAfter, p
      <4> QED  BY <4>1, <4>2, <4>3, <2>2, TreeSizes DEF NextSibling
    <3>2. earlier = {} <=> FirstChild(p) = c
      <4>1. c \in Kids(p)
        BY <3>1 DEF Kids, p
      <4>2. FirstChild(p) \in Kids(p) /\ \A d \in Kids(p) : FirstChild(p) <= d
        BY <4>1, <3>1, <1>2, PointersOfTree
      <4>3. \A d \in earlier : d \in Kids(p) /\ d < c
        BY <3>1, TreeSizes DEF earlier, Kids
      <4>4. \A d \in Kids(p) : d < c => d \in earlier
        BY <3>1, TreeSizes DEF earlier, Kids
      <4>5. FirstChild(p) \in Int /\ c \in Int /\ FirstChild(p) <= c
        BY <4>1, <4>2, <3>1 DEF Kids
      <4>6. \A d \in Kids(p) : d \in Int
        BY DEF Kids
      <4>7. ASSUME earlier = {} PROVE FirstChild(p) = c
        <5>1. ~(FirstChild(p) < c)
          BY <4>2, <4>4, <4>7
        <5> QED  BY <5>1, <4>5
      <4>8. ASSUME FirstChild(p) = c, NEW d \in earlier PROVE FALSE
        <5>1. c <= d /\ d < c /\ d \in Int
          BY <4>2, <4>3, <4>6, <4>8
        <5> QED  BY <5>1, <4>5
      <4> QED  BY <4>7, <4>8
    <3>3. \A d \in Node : FirstChild(d) = c => d = p
      BY <3>1, <1>6 DEF Kids, p, NoNode
    <3>4. Nearest(later) \in Int
      <4>1. NextSibling(c) = NoNode \/ NextSibling(c) \in SiblingsAfter(c)
        BY <3>1, <1>2, PointersOfTree
      <4> QED  BY <4>1, <3>1 DEF SiblingsAfter, NoNode
    <3>5. retrieve_next_sibling' = [retrieve_next_sibling EXCEPT ![c] = NextSibling(c)]
      BY <3>1, <1>1
    <3>6. \A d \in Node : retrieve_next_sibling'[d] = IF d \in built' THEN NextSibling(d) ELSE NoNode
      BY <3>5, <1>1, <1>4
    <3>7. retrieve_next_sibling' \in [Node -> Int] /\ retrieve_next_token' \in [Node -> Int]
      BY <3>1, <3>4, <3>5, <1>1, <1>4
    <3>8. \A d \in Node :
            retrieve_next_token'[d] = IF FirstChild(d) \in built' THEN FirstChild(d) ELSE NoNode
      <4>1. CASE earlier = {}
        <5>1. retrieve_next_token' = [retrieve_next_token EXCEPT ![p] = c] /\ FirstChild(p) = c
          BY <4>1, <3>1, <3>2, <1>1
        <5> QED  BY <5>1, <3>1, <3>3, <1>1, <1>4
      <4>2. CASE earlier # {}
        <5>1. retrieve_next_token' = retrieve_next_token /\ FirstChild(p) # c
          BY <4>2, <3>1, <3>2, <1>1
        <5> QED  BY <5>1, <3>3, <1>1, <1>4
      <4> QED  BY <4>1, <4>2
    <3> QED  BY <3>6, <3>7, <3>8
  <2> QED  BY <2>1, <2>2
<1>8. tree_positions' \in [Node -> Int] /\ \A d \in built' : tree_positions'[d] = Depth(d)
  <2>1. Depth(c) \in Int
    BY <1>5
  <2>2. \A d \in built' : tree_positions'[d] = Depth(d)
    BY <1>1, <1>4
  <2> QED  BY <2>1, <2>2, <1>1, <1>4
<1>9. PointerInv'
  <2>1. built' \subseteq Node /\ cleared' = Node /\ filled' = {}
    BY <1>1, <1>3, <1>4
  <2> QED  BY <2>1, <1>5, <1>7, <1>8 DEF PointerInv
<1>10. TreeInputInv'
  BY <1>1, <1>2, SameTree
<1>11. WalkInv'
  BY <1>1, <1>2, <1>3 DEF WalkInv
<1>12. EndInv'
  BY <1>1, <1>3 DEF EndInv
<1> QED  BY <1>9, <1>10, <1>11, <1>12 DEF TreeIInv

LEMMA TreeFillKeeps ==
  ASSUME TreeAssumption, TreeIInv, NEW i \in Node, FillOutput(i)
  PROVE  TreeIInv'
<1>1. /\ built = Node /\ i \notin filled /\ filled' = filled \cup {i}
      /\ accept_index' = [accept_index EXCEPT ![i] = NoNode]
      /\ accept_token' = [accept_token EXCEPT ![i] = NoNode]
      /\ UNCHANGED <<tree_input, tree_pointers>>
      /\ UNCHANGED <<accept_num, j, last, num_acc, term, tree_pc>>
  BY DEF FillOutput, walk
<1>2. TreeInputInv /\ PointerInv /\ WalkInv
  BY DEF TreeIInv
<1>3. tree_pc = "begin"
  BY <1>1, <1>2 DEF WalkInv
<1>4. TreeInputInv' /\ PointerInv'
  <2>1. filled' \subseteq Node
    BY <1>1, <1>2 DEF PointerInv
  <2> QED  BY <2>1, <1>1, <1>2, SamePointers
<1>5. WalkInv'
  <2>1. /\ accept_index' \in [Node -> Int] /\ accept_token' \in [Node -> Int]
        /\ \A k \in filled' : accept_index'[k] = NoNode /\ accept_token'[k] = NoNode
    BY <1>1, <1>2, <1>3 DEF WalkInv, PointerInv, NoNode
  <2> QED  BY <2>1, <1>1, <1>2, <1>3 DEF WalkInv
<1>6. EndInv'
  BY <1>1, <1>3 DEF EndInv
<1> QED  BY <1>4, <1>5, <1>6 DEF TreeIInv

LEMMA EnterKeeps ==
  ASSUME TreeAssumption, TreeIInv, EnterRoot
  PROVE  TreeIInv'
<1>1. /\ tree_pc = "begin" /\ filled = Node
      /\ accept_index' = [accept_index EXCEPT ![0] = 0]
      /\ IF tree_valid THEN tree_pc' = "walk" /\ term' = term
                       ELSE tree_pc' = "terminal" /\ term' = "bonus"
      /\ UNCHANGED <<tree_input, tree_pointers>>
      /\ UNCHANGED <<filled, accept_token, accept_num, j, last, num_acc>>
  BY DEF EnterRoot, AllFilled
<1>2. TreeInputInv /\ PointerInv /\ WalkInv
  BY DEF TreeIInv
<1>3. TreeInputInv' /\ PointerInv' /\ tree_valid' = tree_valid
  BY <1>1, <1>2, SamePointers, SameTree
<1>4. /\ last = 0 /\ num_acc = 0 /\ term = "none"
      /\ accept_index \in [Node -> Int] /\ accept_token \in [Node -> Int]
      /\ \A i \in Node : accept_index[i] = NoNode /\ accept_token[i] = NoNode
  BY <1>1, <1>2 DEF WalkInv
<1>5. WalkInv'
  <2>1. accept_index' \in [Node -> Int] /\ accept_index'[0] = 0
    BY <1>1, <1>4, TreeSizes
  <2>2. \A i \in 1 .. TreeNodes-1 : accept_index'[i] = NoNode /\ accept_token'[i] = NoNode
    BY <1>1, <1>4, TreeSizes
  <2>3. accept_token'[0] = NoNode /\ 1 .. 0 = {} /\ 0+1 = 1
    BY <1>1, <1>4, TreeSizes
  <2>4. tree_pc' \in {"walk", "terminal"}
    BY <1>1
  <2> QED  BY <2>1, <2>2, <2>3, <2>4, <1>1, <1>2, <1>4 DEF WalkInv
<1>6. EndInv'
  BY <1>1, <1>3, <1>4 DEF EndInv
<1> QED  BY <1>3, <1>5, <1>6 DEF TreeIInv

LEMMA DescendKeeps ==
  ASSUME TreeAssumption, TreeIInv, Descend
  PROVE  TreeIInv'
<1>1. /\ tree_pc = "walk" /\ j < TreeNodes
      /\ UNCHANGED <<tree_input, tree_pointers>> /\ UNCHANGED filled
  BY DEF Descend
<1>2. TreeInputInv /\ PointerInv /\ WalkInv /\ EndInv
  BY DEF TreeIInv
<1>3. TreeInputInv' /\ PointerInv' /\ \A n \in Int : Kids(n)' = Kids(n)
  BY <1>1, <1>2, SamePointers, SameTree
<1>4. tree_valid /\ term = "none" /\ tree_valid' /\ parents' = parents /\ tree_draft' = tree_draft
  BY <1>1, <1>2, SameTree DEF EndInv
<1>5. /\ built = Node /\ filled = Node /\ last \in Node /\ num_acc \in Node /\ j = num_acc + 1
      /\ accept_index \in [Node -> Int] /\ accept_token \in [Node -> Int]
      /\ accept_index[0] = 0 /\ accept_index[num_acc] = last /\ accept_token[num_acc] = NoNode
      /\ \A i \in 1 .. num_acc :
           /\ accept_index[i] \in 1 .. TreeNodes-1
           /\ parents[accept_index[i]] = accept_index[i-1]
           /\ accept_token[i-1] = tree_draft[accept_index[i]]
      /\ \A i \in num_acc+1 .. TreeNodes-1 : accept_index[i] = NoNode /\ accept_token[i] = NoNode
  BY <1>1, <1>2, BuiltByWalk DEF WalkInv
<1>6. retrieve_next_token[last] = FirstChild(last)
  BY <1>2, <1>5, BuiltPointers
<1>7. CASE retrieve_next_token[last] = NoNode
  <2>1. /\ term' = "bonus" /\ tree_pc' = "terminal"
        /\ UNCHANGED <<accept_index, accept_token, accept_num, j, last, num_acc>>
    BY <1>7 DEF Descend, accepted
  <2>2. Kids(last) = {}
    <3>1. Kids(last) \subseteq Node /\ (Kids(last) # {} => FirstChild(last) \in Kids(last))
      BY <1>2, <1>5, PointersOfTree, TreeSizes
    <3> QED  BY <3>1, <1>6, <1>7, TreeSizes
  <2>3. WalkInv'
    BY <2>1, <1>1, <1>4, <1>5 DEF WalkInv
  <2>4. EndInv'
    <3>1. Kids(last)' = {}
      BY <2>1, <2>2, <1>4 DEF Kids
    <3> QED  BY <3>1, <2>1 DEF EndInv
  <2> QED  BY <2>3, <2>4, <1>3 DEF TreeIInv
<1>8. CASE retrieve_next_token[last] # NoNode
  <2>1. PICK coin \in TreeCoin :
          IF AcceptedChild(coin) = NoNode
          THEN /\ term' = "residual" /\ tree_pc' = "terminal"
               /\ UNCHANGED <<accepted, j, last, num_acc>>
          ELSE /\ accept_token' = [accept_token EXCEPT ![num_acc] = tree_draft[AcceptedChild(coin)]]
               /\ accept_index' = [accept_index EXCEPT ![num_acc + 1] = AcceptedChild(coin)]
               /\ num_acc' = num_acc + 1 /\ last' = AcceptedChild(coin) /\ j' = j + 1
               /\ UNCHANGED <<accept_num, term, tree_pc>>
    BY <1>8 DEF Descend
  <2>2. CASE AcceptedChild(coin) = NoNode
    <3>1. /\ term' = "residual" /\ tree_pc' = "terminal"
          /\ UNCHANGED <<accept_index, accept_token, accept_num, j, last, num_acc>>
      BY <2>1, <2>2 DEF accepted
    <3>2. WalkInv'
      BY <3>1, <1>1, <1>4, <1>5 DEF WalkInv
    <3>3. AcceptedChild(coin)' = NoNode
      BY <3>1, <2>2, <1>1, SameEnd
    <3>4. EndInv'
      BY <3>1, <3>3, <1>4 DEF EndInv
    <3> QED  BY <3>2, <3>4, <1>3 DEF TreeIInv
  <2>3. CASE AcceptedChild(coin) # NoNode
    <3> DEFINE child == AcceptedChild(coin)
               m == num_acc + 1
    <3>1. /\ accept_token' = [accept_token EXCEPT ![num_acc] = tree_draft[child]]
          /\ accept_index' = [accept_index EXCEPT ![m] = child]
          /\ num_acc' = m /\ last' = child /\ j' = m + 1
          /\ UNCHANGED <<accept_num, term, tree_pc>>
      BY <2>1, <2>3, <1>5
    <3>2. child \in Kids(last)
      BY <2>3, <1>2, <1>5, AcceptedIs
    <3>3. /\ child \in 1 .. TreeNodes-1 /\ parents[child] = last /\ child \in Node
          /\ tree_draft[child] \in Int
      <4>1. child \in 1 .. TreeNodes-1 /\ parents[child] = last
        BY <3>2 DEF Kids
      <4>2. tree_draft[child] \in TreeToken
        BY <4>1, <1>2, InputIs
      <4> QED  BY <4>1, <4>2, TreeSizes DEF TreeToken
    <3>4. m \in 1 .. TreeNodes-1 /\ m \in Node /\ num_acc \in Nat /\ m = num_acc + 1
      BY <1>1, <1>5, TreeSizes
    <3> HIDE DEF child, m
    <3>5. accept_index' \in [Node -> Int] /\ accept_token' \in [Node -> Int]
      BY <3>1, <3>3, <3>4, <1>5, TreeSizes
    <3>6. /\ accept_index'[m] = child /\ accept_token'[m-1] = tree_draft[child]
          /\ \A i \in Node : i # m => accept_index'[i] = accept_index[i]
          /\ \A i \in Node : i # num_acc => accept_token'[i] = accept_token[i]
      BY <3>1, <3>4, <1>5
    <3>7. ASSUME NEW i \in 1 .. m
          PROVE  /\ accept_index'[i] \in 1 .. TreeNodes-1
                 /\ parents[accept_index'[i]] = accept_index'[i-1]
                 /\ accept_token'[i-1] = tree_draft[accept_index'[i]]
      <4>1. CASE i = m
        <5>1. accept_index'[i-1] = last
          <6>1. i-1 = num_acc /\ num_acc # m
            BY <4>1, <3>4
          <6> QED  BY <6>1, <3>6, <1>5
        <5> QED  BY <4>1, <5>1, <3>3, <3>6
      <4>2. CASE i # m
        <5>1. i \in 1 .. num_acc /\ i \in Node /\ i-1 \in Node /\ i-1 # m /\ i-1 # num_acc
          BY <4>2, <3>4, TreeSizes
        <5> QED  BY <4>2, <5>1, <3>6, <1>5
      <4> QED  BY <4>1, <4>2
    <3>8. \A i \in m+1 .. TreeNodes-1 : accept_index'[i] = NoNode /\ accept_token'[i] = NoNode
      <4>1. ASSUME NEW i \in m+1 .. TreeNodes-1
            PROVE  i \in num_acc+1 .. TreeNodes-1 /\ i \in Node /\ i # m /\ i # num_acc
        BY <3>4, TreeSizes
      <4> QED  BY <4>1, <3>6, <1>5
    <3>9. accept_index'[0] = 0 /\ accept_token'[m] = NoNode
      <4>1. m # 0 /\ m # num_acc /\ m \in num_acc+1 .. TreeNodes-1
        BY <3>4
      <4> QED  BY <4>1, <3>4, <3>6, <1>5, TreeSizes
    <3>10. WalkInv'
      BY <3>1, <3>3, <3>4, <3>5, <3>6, <3>7, <3>8, <3>9, <1>1, <1>4, <1>5 DEF WalkInv
    <3>11. EndInv'
      BY <3>1, <1>1, <1>4 DEF EndInv
    <3> QED  BY <3>10, <3>11, <1>3 DEF TreeIInv
  <2> QED  BY <2>2, <2>3
<1> QED  BY <1>7, <1>8

LEMMA LeaveKeeps ==
  ASSUME TreeAssumption, TreeIInv, LeaveLoop
  PROVE  TreeIInv'
<1>1. /\ tree_pc = "walk" /\ j >= TreeNodes /\ tree_pc' = "terminal"
      /\ UNCHANGED <<tree_input, tree_pointers>>
      /\ UNCHANGED <<filled, accept_index, accept_token, accept_num, j, last, num_acc, term>>
  BY DEF LeaveLoop, accepted, walk
<1>2. TreeInputInv /\ PointerInv /\ WalkInv /\ EndInv
  BY DEF TreeIInv
<1>3. TreeInputInv' /\ PointerInv' /\ parents' = parents /\ tree_draft' = tree_draft
  BY <1>1, <1>2, SamePointers, SameTree
<1>4. WalkInv'
  BY <1>1, <1>2, <1>3 DEF WalkInv
<1>5. num_acc = TreeNodes-1 /\ term = "none"
  <2>1. num_acc \in Node /\ j = num_acc + 1 /\ term = "none"
    BY <1>1, <1>2 DEF WalkInv, EndInv
  <2> QED  BY <2>1, <1>1, TreeSizes
<1>6. EndInv'
  BY <1>1, <1>5 DEF EndInv
<1> QED  BY <1>3, <1>4, <1>6 DEF TreeIInv

LEMMA TreeEmitKeeps ==
  ASSUME TreeAssumption, TreeIInv, EmitLast
  PROVE  TreeIInv'
<1> DEFINE left == {t \in TreeToken : prob[last][t] > 0} \ Tried
           offered == {tree_draft[c] : c \in Kids(last)}
           tok == accept_token'[num_acc]
<1>1. /\ tree_pc = "terminal" /\ tree_pc' = "done" /\ accept_num' = num_acc
      /\ UNCHANGED <<tree_input, tree_pointers>>
      /\ UNCHANGED <<filled, accept_index, j, last, num_acc, term>>
      /\ IF term = "none" THEN accept_token' = accept_token
         ELSE \E t \in IF left = {} THEN {NoNode} ELSE left :
                accept_token' = [accept_token EXCEPT ![num_acc] = t]
  BY DEF EmitLast, walk
<1>2. TreeInputInv /\ PointerInv /\ WalkInv /\ EndInv
  BY DEF TreeIInv
<1>3. TreeInputInv' /\ PointerInv' /\ parents' = parents /\ tree_draft' = tree_draft
      /\ prob' = prob /\ tree_valid' = tree_valid
  BY <1>1, <1>2, SamePointers, SameTree
<1>4. /\ built = Node /\ filled = Node /\ last \in Node /\ num_acc \in Node /\ j = num_acc + 1
      /\ accept_index \in [Node -> Int] /\ accept_token \in [Node -> Int]
      /\ accept_index[0] = 0 /\ accept_index[num_acc] = last /\ accept_token[num_acc] = NoNode
      /\ \A i \in 1 .. num_acc :
           /\ accept_index[i] \in 1 .. TreeNodes-1
           /\ parents[accept_index[i]] = accept_index[i-1]
           /\ accept_token[i-1] = tree_draft[accept_index[i]]
      /\ \A i \in num_acc+1 .. TreeNodes-1 : accept_index[i] = NoNode /\ accept_token[i] = NoNode
  BY <1>1, <1>2, BuiltByWalk DEF WalkInv
<1>5. \/ term = "none" /\ num_acc = TreeNodes-1
      \/ term = "bonus" /\ (tree_valid => Kids(last) = {})
      \/ term = "residual" /\ tree_valid /\ \E coin \in TreeCoin : AcceptedChild(coin) = NoNode
  BY <1>1, <1>2 DEF EndInv
<1>6. term = "residual" => Tried = offered
  <2> DEFINE s == Siblings(FirstChild(last))
  <2>1. Lists(s, Kids(last)) /\ retrieve_next_token[last] = FirstChild(last)
    BY <1>2, <1>4, ChildrenListed, BuiltPointers
  <2>2. term = "residual" => Tried = {tree_draft[s[i]] : i \in DOMAIN s}
    BY <2>1 DEF Tried
  <2> HIDE DEF s
  <2>3. DOMAIN s = 1 .. Len(s)
    BY <2>1 DEF Lists
  <2>4. TokensTo(s, Len(s)) = offered
    BY <2>1, AllTokens
  <2> QED  BY <2>2, <2>3, <2>4 DEF TokensTo
<1>7. term = "bonus" => Tried = {}
  BY DEF Tried
<1>8. term # "none" => left # {}
  <2>1. CASE term = "bonus"
    <3>1. SumFunctionOnSet(prob[last], {}) < Mass
      BY SumEmpty, TreeSizes
    <3>2. {} \in SUBSET TreeToken
      OBVIOUS
    <3>3. \E t \in TreeToken \ {} : prob[last][t] > 0
      BY <3>1, <3>2, <1>2, <1>4, TokenLeft
    <3> QED  BY <3>3, <2>1, <1>7
  <2>2. CASE term = "residual"
    <3>1. PICK coin \in TreeCoin : AcceptedChild(coin) = NoNode
      BY <2>2, <1>5
    <3>2. \E t \in TreeToken \ offered : prob[last][t] > 0
      BY <3>1, <1>2, <1>4, RejectionLeavesToken
    <3> QED  BY <3>2, <2>2, <1>6
  <2> QED  BY <2>1, <2>2, <1>5
<1>9. term # "none" =>
        \E t \in left : accept_token' = [accept_token EXCEPT ![num_acc] = t]
  <2> HIDE DEF left
  <2> QED  BY <1>1, <1>8
<1>10. term # "none" =>
         /\ tok \in TreeToken /\ prob[last][tok] > 0 /\ (tree_valid => tok \notin offered)
         /\ accept_token' = [accept_token EXCEPT ![num_acc] = tok]
  <2>1. ASSUME term # "none"
        PROVE  /\ tok \in TreeToken /\ prob[last][tok] > 0 /\ (tree_valid => tok \notin offered)
               /\ accept_token' = [accept_token EXCEPT ![num_acc] = tok]
    <3>1. PICK t \in left : accept_token' = [accept_token EXCEPT ![num_acc] = t]
      BY <2>1, <1>9
    <3>2. tok = t
      BY <3>1, <1>4
    <3>3. t \in TreeToken /\ prob[last][t] > 0 /\ t \notin Tried
      OBVIOUS
    <3>4. tree_valid => t \notin offered
      BY <3>3, <2>1, <1>5, <1>6
    <3> QED  BY <3>1, <3>2, <3>3, <3>4
  <2> QED  BY <2>1
<1> HIDE DEF tok, offered, left
<1>11. term = "none" => accept_token' = accept_token
  BY <1>1
<1>12. TreeToken \subseteq Int /\ NoNode \notin TreeToken
  BY TreeSizes DEF TreeToken, NoNode
<1>13. WalkInv'
  <2>1. accept_token' \in [Node -> Int] /\ \A i \in Node : i # num_acc => accept_token'[i] = accept_token[i]
    <3>1. CASE term = "none"
      BY <3>1, <1>4, <1>11
    <3>2. CASE term # "none"
      BY <3>2, <1>4, <1>10, <1>12
    <3> QED  BY <3>1, <3>2
  <2>2. ASSUME NEW i \in 1 .. num_acc PROVE accept_token'[i-1] = tree_draft[accept_index[i]]
    <3>1. i-1 \in Node /\ i-1 # num_acc
      BY <1>4, TreeSizes
    <3> QED  BY <3>1, <2>1, <1>4
  <2>3. ASSUME NEW i \in num_acc+1 .. TreeNodes-1 PROVE accept_token'[i] = NoNode
    <3>1. i \in Node /\ i # num_acc
      BY <1>4, TreeSizes
    <3> QED  BY <3>1, <2>1, <1>4
  <2> QED  BY <2>1, <2>2, <2>3, <1>1, <1>3, <1>4 DEF WalkInv
<1>14. CorrectionOfTarget'
  <2>1. offered = {tree_draft[c] : c \in {d \in 1 .. TreeNodes-1 : parents[d] = last}}
    BY DEF offered, Kids
  <2>2. CASE term = "none"
    <3>1. tok = NoNode /\ num_acc = TreeNodes-1
      BY <2>2, <1>4, <1>5, <1>11 DEF tok
    <3> QED  BY <3>1, <1>1 DEF CorrectionOfTarget, tok
  <2>3. CASE term # "none"
    <3>1. /\ tok # NoNode /\ prob'[accept_index'[accept_num']][tok] > 0
          /\ (tree_valid' => tok \notin offered)
      BY <2>3, <1>1, <1>3, <1>4, <1>10, <1>12
    <3>2. offered = {tree_draft'[c] : c \in {d \in 1 .. TreeNodes-1 : parents'[d] = accept_index'[accept_num']}}
      BY <2>1, <1>1, <1>3, <1>4
    <3> QED  BY <3>1, <3>2, <1>1 DEF CorrectionOfTarget, tok
  <2> QED  BY <2>2, <2>3
<1>15. EndInv'
  <2>1. term' = term /\ num_acc' = num_acc /\ tree_valid' = tree_valid /\ tree_pc' = "done"
        /\ accept_num' = num_acc'
    BY <1>1, <1>3
  <2>2. term = "bonus" => (tree_valid' => Kids(last)' = {})
    BY <1>1, <1>3, <1>5 DEF Kids
  <2>3. \A coin \in TreeCoin : AcceptedChild(coin)' = AcceptedChild(coin)
    BY <1>1, SameEnd
  <2> QED  BY <2>1, <2>2, <2>3, <1>5, <1>14 DEF EndInv
<1> QED  BY <1>3, <1>13, <1>15 DEF TreeIInv

LEMMA TreeStutterKeeps ==
  ASSUME TreeAssumption, TreeIInv, UNCHANGED treeVars
  PROVE  TreeIInv'
<1>1. /\ UNCHANGED <<tree_input, tree_pointers>>
      /\ UNCHANGED <<filled, accept_index, accept_token, accept_num, j, last, num_acc, term, tree_pc>>
  BY DEF treeVars, accepted, walk
<1>2. TreeInputInv /\ PointerInv /\ WalkInv /\ EndInv
  BY DEF TreeIInv
<1>3. TreeInputInv' /\ PointerInv' /\ parents' = parents /\ tree_draft' = tree_draft
      /\ prob' = prob /\ tree_valid' = tree_valid
  BY <1>1, <1>2, SamePointers, SameTree
<1>4. WalkInv'
  BY <1>1, <1>2, <1>3 DEF WalkInv
<1>5. CorrectionOfTarget => CorrectionOfTarget'
  BY <1>1, <1>3 DEF CorrectionOfTarget
<1>6. \A coin \in TreeCoin : AcceptedChild(coin)' = AcceptedChild(coin)
  BY <1>1, SameEnd
<1>7. Kids(last)' = Kids(last)
  BY <1>1, <1>3 DEF Kids
<1>8. EndInv'
  BY <1>1, <1>2, <1>3, <1>5, <1>6, <1>7 DEF EndInv
<1> QED  BY <1>3, <1>4, <1>8 DEF TreeIInv

LEMMA TreeStepKeeps ==
  ASSUME TreeAssumption, TreeIInv, [TreeNext]_treeVars
  PROVE  TreeIInv'
<1>1. CASE \E c \in Node : ClearNode(c)
  BY <1>1, ClearKeeps
<1>2. CASE \E c \in Node : BuildNode(c)
  BY <1>2, BuildKeeps
<1>3. CASE \E c \in Node : FillOutput(c)
  BY <1>3, TreeFillKeeps
<1>4. CASE EnterRoot
  BY <1>4, EnterKeeps
<1>5. CASE Descend
  BY <1>5, DescendKeeps
<1>6. CASE LeaveLoop
  BY <1>6, LeaveKeeps
<1>7. CASE EmitLast
  BY <1>7, TreeEmitKeeps
<1>8. CASE UNCHANGED treeVars
  BY <1>8, TreeStutterKeeps
<1> QED  BY <1>1, <1>2, <1>3, <1>4, <1>5, <1>6, <1>7, <1>8 DEF TreeNext

LEMMA PathHolds ==
  ASSUME TreeAssumption, TreeIInv
  PROVE  AcceptedPath
<1> SUFFICES ASSUME tree_pc = "done"
             PROVE  /\ accept_index[0] = 0
                    /\ \A i \in 1 .. num_acc :
                         /\ accept_index[i] \in 1 .. TreeNodes-1
                         /\ parents[accept_index[i]] = accept_index[i-1]
                         /\ accept_token[i-1] = tree_draft[accept_index[i]]
                    /\ \A i \in num_acc+1 .. TreeNodes-1 :
                         accept_index[i] = NoNode /\ accept_token[i] = NoNode
  BY DEF AcceptedPath, TreeIInv, EndInv
<1> QED  BY DEF TreeIInv, WalkInv

LEMMA TreeInvariant == ASSUME TreeAssumption PROVE TreeSpec => []TreeIInv
<1>1. TreeInit => TreeIInv
  BY TreeInitial
<1>2. TreeIInv /\ [TreeNext]_treeVars => TreeIInv'
  BY TreeStepKeeps
<1> QED  BY <1>1, <1>2, PTL DEF TreeSpec

(***************************************************************************)
(* For every tree: the lanes of build_dynamic_tree, in any order and each  *)
(* looking at the parents alone, leave the pointers and positions that     *)
(* spec_build_tree_pointers builds on the host by appending.               *)
(***************************************************************************)
THEOREM TreePointersAreTheHosts == ASSUME TreeAssumption PROVE TreeSpec => []PointersMatchHost
<1>1. TreeIInv => PointersMatchHost
  BY MatchesHost DEF TreeIInv
<1> QED  BY <1>1, TreeInvariant, PTL

(***************************************************************************)
(* What spec_verify_tree returns is a path of the tree from the root, with *)
(* the drafts along it, and sentinels behind the last token.               *)
(***************************************************************************)
THEOREM AcceptedIsAPath == ASSUME TreeAssumption PROVE TreeSpec => []AcceptedPath
<1>1. TreeIInv => AcceptedPath
  BY PathHolds
<1> QED  BY <1>1, TreeInvariant, PTL

(***************************************************************************)
(* Every child is accepted for as many coins as its token has grains, but  *)
(* for the one by which <= differs from <, and the token after the path is *)
(* one the target gives there and none of the drafts it has rejected.      *)
(***************************************************************************)
THEOREM TreeSamplesTheTarget == ASSUME TreeAssumption PROVE TreeSpec => []TreeFollowsTarget
<1>1. TreeIInv => CorrectionOfTarget
  BY DEF TreeIInv, EndInv, CorrectionOfTarget
<1>2. TreeIInv => TreeFollowsTarget
  BY <1>1, AcceptanceHolds DEF TreeFollowsTarget
<1> QED  BY <1>2, TreeInvariant, PTL
=============================================================================
