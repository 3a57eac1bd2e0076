---------------------------- MODULE KernelProofs ----------------------------
(***************************************************************************)
(* Proofs about the kernels whose threads meet at barriers, and about the  *)
(* padded MoE schedule and what is computed from it.                       *)
(*                                                                         *)
(* ThreadgroupScan, for every number of simdgroups and lanes and every     *)
(* array: what the barriers keep apart, and that every offset and cursor   *)
(* is the exclusive prefix sum.                                            *)
(*                                                                         *)
(* SplitK, for every number of warps, blocks of the contraction, and       *)
(* products: what the epilogue stores is exact.                            *)
(*                                                                         *)
(* VarlenPrefill, for every batch and every number of lanes and threads:   *)
(* the worklist is the host's, and tokens come back as themselves.         *)
(*                                                                         *)
(* MoeMlp, for every number of experts, tokens, choices, threads and rows  *)
(* of a tile, and every order of the threads: the padded schedule is sound, *)
(* each token is combined from the experts chosen for it, and the          *)
(* gradients are exact.                                                    *)
(***************************************************************************)
EXTENDS ThreadgroupScan, SplitK, VarlenPrefill, MoeMlp, Facts, TLAPS

TypeInv ==
  /\ counts \in [Index -> Value]
  /\ offsets \in [0 .. E -> Int]
  /\ cursor \in [Index -> Int]
  /\ sg_sums \in [Simdgroup -> Int]
  /\ running \in Int
  /\ pc \in [Simdgroup -> {"start", "enter", "loop", "sums", "store", "stored",
                           "accumulate", "next", "done"}]
  /\ b \in [Simdgroup -> Nat]
  /\ v \in [Simdgroup -> [Lane -> Nat]]
  /\ total \in [Simdgroup -> Int]

(***************************************************************************)
(* The simdgroups are between the same two barriers, and in one tile; the  *)
(* register b is ahead of the tile from the increment to the barrier.      *)
(***************************************************************************)
Between(label) ==
  IF label \in {"start", "enter"} THEN 0
  ELSE IF label \in {"loop", "sums", "done"} THEN 1
  ELSE IF label \in {"store", "stored"} THEN 2 ELSE 3

TileNow(g) == IF pc[g] = "next" THEN b[g] - NT ELSE b[g]

PhaseInv ==
  /\ \A g, h \in Simdgroup : Between(pc[g]) = Between(pc[h]) /\ TileNow(g) = TileNow(h)
  /\ \A g \in Simdgroup :
       /\ TileNow(g) \in Nat
       /\ pc[g] \in {"start", "enter"} => b[g] = 0
       /\ pc[g] \in {"sums", "store", "stored", "accumulate", "next"} => TileNow(g) < E
       /\ pc[g] = "done" => b[g] >= E

\* The values from n on, and the sum of those below n: nothing beyond the array.
PaddedCount(n) == IF n < E THEN counts[n] ELSE 0
Below(n)  == Prefix[IF n < E THEN n ELSE E]

RunningInv == pc[0] # "start" => running = Below(b[0])

\* What a simdgroup has loaded and published stays until all have used it.
LoadInv ==
  \A g \in Simdgroup : pc[g] \in {"sums", "store", "stored"} =>
    /\ \A l \in Lane : v[g][l] = PaddedCount(b[g] + g*W + l)
    /\ sg_sums[g] = Below(b[g] + (g+1)*W) - Below(b[g] + g*W)

TotalInv ==
  \A g \in Simdgroup : pc[g] \in {"stored", "accumulate"} =>
    total[g] = Below(b[g] + NT) - Below(b[g])

\* Stored are the tiles before, and of this tile what simdgroups have stored.
Written(e) ==
  \/ e < TileNow(0)
  \/ \E g \in Simdgroup : pc[g] \in {"stored", "accumulate", "next"} /\ e - TileNow(g) - g*W \in Lane

StoredInv ==
  /\ \A e \in 0 .. E : offsets[e] \in {Garbage, Prefix[e]}
  /\ \A e \in Index : cursor[e] = offsets[e] /\ (Written(e) => offsets[e] = Prefix[e])
  /\ pc[0] = "done" => offsets[E] = Prefix[E]

ScanIInv == TypeInv /\ PhaseInv /\ RunningInv /\ LoadInv /\ TotalInv /\ StoredInv
-----------------------------------------------------------------------------
LEMMA ScanSizes ==
  ASSUME ScanAssumption
  PROVE  /\ NT \in Nat \ {0} /\ E \in Nat /\ SG \in Nat \ {0} /\ W \in Nat \ {0}
         /\ 0 \in Simdgroup /\ Simdgroup \subseteq Nat /\ Lane \subseteq Nat
         /\ \A g \in Simdgroup : g*W \in Nat /\ (g+1)*W = g*W + W
BY DEF ScanAssumption, NT, Simdgroup, Lane

LEMMA PrefixIs ==
  ASSUME ScanAssumption, counts \in [Index -> Value]
  PROVE  /\ Prefix \in [0 .. E -> Nat] /\ Prefix[0] = 0
         /\ \A e \in 1 .. E : Prefix[e] = Prefix[e-1] + counts[e-1]
<1> DEFINE step == [x \in (1 .. E) \X Nat |-> x[2] + counts[x[1]-1]]
           F(f) == [e \in 0 .. E |-> IF e = 0 THEN 0 ELSE f[e-1] + counts[e-1]]
           P == CHOOSE f : f = F(f)
<1>1. E \in Nat /\ \A e \in 1 .. E : counts[e-1] \in Nat
  <2>1. \A e \in 1 .. E : e-1 \in Index
    BY DEF ScanAssumption, Index
  <2> QED  BY <2>1 DEF ScanAssumption
<1>2. step \in [(1 .. E) \X Nat -> Nat]
  BY <1>1
<1>3. PICK f \in [0 .. E -> Nat] : Follows(f, E, 0, step)
  <2> HIDE DEF step
  <2> QED  BY <1>1, <1>2, RecursionExists
<1>4. f = F(f)
  <2>1. ASSUME NEW e \in 0 .. E PROVE f[e] = IF e = 0 THEN 0 ELSE f[e-1] + counts[e-1]
    <3>1. f[e] = IF e = 0 THEN 0 ELSE step[<<e, f[e-1]>>]
      BY <1>3 DEF Follows
    <3>2. CASE e = 0
      BY <3>1, <3>2
    <3>3. CASE e # 0
      <4>1. e \in 1 .. E /\ e-1 \in 0 .. E
        BY <3>3, <1>1
      <4>2. step[<<e, f[e-1]>>] = f[e-1] + counts[e-1]
        BY <4>1
      <4> HIDE DEF step
      <4> QED  BY <3>1, <3>3, <4>2
    <3> QED  BY <3>2, <3>3
  <2> HIDE DEF step
  <2> QED  BY <2>1
<1>5. P = F(P)
  <2> HIDE DEF F
  <2> QED  BY <1>4
<1>6. P = Prefix
  BY DEF Prefix
<1> HIDE DEF P
<1>7. \A e \in 0 .. E : P[e] = IF e = 0 THEN 0 ELSE P[e-1] + counts[e-1]
  BY <1>5
<1>8. P[0] = 0 /\ \A e \in 1 .. E : P[e] = P[e-1] + counts[e-1]
  BY <1>1, <1>7
<1>9. \A e \in 0 .. E : P[e] \in Nat
  <2>1. ASSUME NEW e \in 1 .. E, P[e-1] \in Nat PROVE P[e] \in Nat
    <3>1. P[e] = P[e-1] + counts[e-1] /\ counts[e-1] \in Nat
      BY <1>1, <1>8
    <3> QED  BY <2>1, <3>1
  <2>2. P[0] \in Nat
    BY <1>8
  <2> QED  BY <1>1, <2>1, <2>2, RecursionTypes
<1>10. P \in [0 .. E -> Nat]
  <2>1. P = [e \in 0 .. E |-> IF e = 0 THEN 0 ELSE P[e-1] + counts[e-1]]
    BY <1>5
  <2> HIDE DEF F
  <2> QED  BY <2>1, <1>9
<1> QED  BY <1>6, <1>8, <1>10

\* Every value adds to what is below it, also beyond the array.
LEMMA BelowGrows ==
  ASSUME ScanAssumption, counts \in [Index -> Value]
  PROVE  /\ Below(0) = 0
         /\ \A n \in Nat : Below(n) \in Nat /\ PaddedCount(n) \in Nat
                           /\ Below(n+1) = Below(n) + PaddedCount(n)
         /\ \A e \in 0 .. E : Below(e) = Prefix[e]
         /\ \A n \in Nat : n >= E => Below(n) = Prefix[E]
<1>1. E \in Nat /\ \A e \in Index : counts[e] \in Nat
  BY DEF ScanAssumption
<1>2. \A e \in 0 .. E : Below(e) = Prefix[e]
  BY <1>1 DEF Below
<1>3. \A n \in Nat : n >= E => Below(n) = Prefix[E]
  BY <1>1 DEF Below
<1>4. ASSUME NEW n \in Nat
      PROVE  Below(n) \in Nat /\ PaddedCount(n) \in Nat /\ Below(n+1) = Below(n) + PaddedCount(n)
  <2>1. CASE n < E
    <3>1. n \in Index /\ n \in 0 .. E /\ n+1 \in 1 .. E /\ (n+1)-1 = n
      BY <2>1, <1>1 DEF Index
    <3>2. Below(n) = Prefix[n] /\ Below(n+1) = Prefix[n+1] /\ PaddedCount(n) = counts[n]
      BY <2>1, <3>1, <1>2 DEF PaddedCount
    <3> QED  BY <3>1, <3>2, <1>1, PrefixIs
  <2>2. CASE n >= E
    <3>1. Below(n) = Prefix[E] /\ Below(n+1) = Prefix[E] /\ PaddedCount(n) = 0 /\ Prefix[E] \in Nat
      BY <2>2, <1>1, <1>3, PrefixIs DEF PaddedCount
    <3> QED  BY <3>1
  <2> QED  BY <2>1, <2>2, <1>1
<1>5. Below(0) = 0
  BY <1>1, <1>2, PrefixIs
<1> HIDE DEF Below, PaddedCount
<1> QED  BY <1>2, <1>3, <1>4, <1>5

\* simd_prefix_inclusive_sum of consecutive values.
LEMMA InclusiveIs ==
  ASSUME ScanAssumption, counts \in [Index -> Value], NEW n \in Nat, NEW u,
         \A l \in Lane : u[l] = PaddedCount(n + l)
  PROVE  \A l \in Lane : Inclusive(u)[l] = Below(n + l + 1) - Below(n)
<1> DEFINE step == [x \in (1 .. W-1) \X Nat |-> x[2] + u[x[1]]]
           F(f) == [l \in Lane |-> IF l = 0 THEN u[0] ELSE f[l-1] + u[l]]
           I == CHOOSE f : f = F(f)
<1>1. W-1 \in Nat /\ Lane = 0 .. W-1 /\ \A l \in Lane : u[l] \in Nat /\ n + l \in Nat
  BY BelowGrows DEF ScanAssumption, Lane
<1>2. step \in [(1 .. W-1) \X Nat -> Nat] /\ u[0] \in Nat
  <2>1. \A l \in 1 .. W-1 : u[l] \in Nat
    BY <1>1
  <2> QED  BY <2>1, <1>1
<1>3. PICK f \in [0 .. W-1 -> Nat] : Follows(f, W-1, u[0], step)
  <2> HIDE DEF step
  <2> QED  BY <1>1, <1>2, RecursionExists
<1>4. f = F(f)
  <2>1. ASSUME NEW l \in 0 .. W-1 PROVE f[l] = IF l = 0 THEN u[0] ELSE f[l-1] + u[l]
    <3>1. f[l] = IF l = 0 THEN u[0] ELSE step[<<l, f[l-1]>>]
      BY <1>3 DEF Follows
    <3>2. CASE l = 0
      BY <3>1, <3>2
    <3>3. CASE l # 0
      <4>1. l \in 1 .. W-1 /\ l-1 \in 0 .. W-1
        BY <3>3, <1>1
      <4>2. step[<<l, f[l-1]>>] = f[l-1] + u[l]
        BY <4>1
      <4> HIDE DEF step
      <4> QED  BY <3>1, <3>3, <4>2
    <3> QED  BY <3>2, <3>3
  <2> HIDE DEF step
  <2> QED  BY <2>1, <1>1
<1>5. I = F(I)
  <2> HIDE DEF F
  <2> QED  BY <1>4
<1>6. I = Inclusive(u)
  BY DEF Inclusive
<1> HIDE DEF I
<1>7. \A l \in Lane : I[l] = IF l = 0 THEN u[0] ELSE I[l-1] + u[l]
  BY <1>5
<1>8. \A l \in Lane : I[l] = Below(n + l + 1) - Below(n)
  <2> DEFINE Good == {l \in 0 .. W-1 : I[l] = Below(n + l + 1) - Below(n)}
  <2>1. ASSUME NEW l \in 0 .. W-1, \A k \in 0 .. l-1 : k \in Good PROVE l \in Good
    <3>1. /\ Below(n + l + 1) = Below(n + l) + PaddedCount(n + l)
          /\ Below(n + l) \in Nat /\ PaddedCount(n + l) \in Nat /\ Below(n) \in Nat
      <4>1. n + l \in Nat /\ n + l + 1 = (n + l) + 1
        OBVIOUS
      <4>2. \A k \in Nat : Below(k) \in Nat /\ PaddedCount(k) \in Nat /\ Below(k+1) = Below(k) + PaddedCount(k)
        BY BelowGrows
      <4> QED  BY <4>1, <4>2
    <3>2. u[l] = PaddedCount(n + l)
      BY <1>1
    <3>3. CASE l = 0
      <4>1. I[l] = u[l] /\ n + l = n
        BY <3>3, <1>1, <1>7
      <4> QED  BY <3>1, <3>2, <4>1
    <3>4. CASE l # 0
      <4>1. l-1 \in 0 .. l-1 /\ n + (l-1) + 1 = n + l
        BY <3>4
      <4>2. I[l-1] = Below(n + l) - Below(n)
        BY <4>1, <2>1
      <4>3. I[l] = I[l-1] + u[l]
        BY <3>4, <1>1, <1>7
      <4> QED  BY <3>1, <3>2, <4>2, <4>3
    <3> QED  BY <3>3, <3>4
  <2>2. 0 .. W-1 \subseteq Good
    <3> HIDE DEF Good
    <3> QED  BY <1>1, <2>1, IntervalInduction
  <2> QED  BY <2>2, <1>1
<1> QED  BY <1>6, <1>8

\* What the lower simdgroups have published is what lies below this one.
LEMMA SumIs ==
  ASSUME ScanAssumption, counts \in [Index -> Value], NEW m \in 0 .. SG, NEW n \in Nat,
         sg_sums \in [Simdgroup -> Int],
         \A g \in Simdgroup : sg_sums[g] = Below(n + (g+1)*W) - Below(n + g*W)
  PROVE  Sum(m) = Below(n + m*W) - Below(n)
<1> DEFINE step == [x \in (1 .. m) \X Int |-> x[2] + sg_sums[x[1]-1]]
           F(f) == [g \in 0 .. m |-> IF g = 0 THEN 0 ELSE f[g-1] + sg_sums[g-1]]
           H == CHOOSE f : f = F(f)
<1>1. m \in Nat /\ W \in Nat /\ \A g \in 1 .. m : g-1 \in Simdgroup /\ sg_sums[g-1] \in Int
  BY DEF ScanAssumption, Simdgroup
<1>2. step \in [(1 .. m) \X Int -> Int] /\ 0 \in Int
  BY <1>1
<1>3. PICK f \in [0 .. m -> Int] : Follows(f, m, 0, step)
  <2> HIDE DEF step
  <2> QED  BY <1>1, <1>2, RecursionExists
<1>4. f = F(f)
  <2>1. ASSUME NEW g \in 0 .. m PROVE f[g] = IF g = 0 THEN 0 ELSE f[g-1] + sg_sums[g-1]
    <3>1. f[g] = IF g = 0 THEN 0 ELSE step[<<g, f[g-1]>>]
      BY <1>3 DEF Follows
    <3>2. CASE g = 0
      BY <3>1, <3>2
    <3>3. CASE g # 0
      <4>1. g \in 1 .. m /\ g-1 \in 0 .. m
        BY <3>3, <1>1
      <4>2. step[<<g, f[g-1]>>] = f[g-1] + sg_sums[g-1]
        BY <4>1
      <4> HIDE DEF step
      <4> QED  BY <3>1, <3>3, <4>2
    <3> QED  BY <3>2, <3>3
  <2> HIDE DEF step
  <2> QED  BY <2>1
<1>5. H = F(H)
  <2> HIDE DEF F
  <2> QED  BY <1>4
<1>6. H[m] = Sum(m)
  BY DEF Sum
<1> HIDE DEF H
<1>7. \A g \in 0 .. m : H[g] = IF g = 0 THEN 0 ELSE H[g-1] + sg_sums[g-1]
  BY <1>5
<1>8. \A g \in 0 .. m : H[g] = Below(n + g*W) - Below(n)
  <2> DEFINE Good == {g \in 0 .. m : H[g] = Below(n + g*W) - Below(n)}
  <2>1. ASSUME NEW g \in 0 .. m, \A k \in 0 .. g-1 : k \in Good PROVE g \in Good
    <3>1. Below(n) \in Nat
      BY BelowGrows
    <3>2. CASE g = 0
      <4>1. H[g] = 0 /\ n + g*W = n
        BY <3>2, <1>1, <1>7
      <4> QED  BY <3>1, <4>1
    <3>3. CASE g # 0
      <4> DEFINE h == g - 1
      <4>1. h \in 0 .. g-1 /\ h \in Simdgroup /\ h + 1 = g
        BY <3>3, <1>1
      <4>2. H[h] = Below(n + h*W) - Below(n)
        BY <4>1, <2>1
      <4>3. H[g] = H[h] + sg_sums[h]
        BY <3>3, <1>1, <1>7
      <4>4. sg_sums[h] = Below(n + g*W) - Below(n + h*W)
        BY <4>1
      <4>5. n + h*W \in Nat /\ n + g*W \in Nat
        <5>1. h \in Nat /\ g \in Nat
          BY <4>1
        <5>2. h*W \in Nat /\ g*W \in Nat
          BY <5>1, <1>1
        <5> QED  BY <5>2
      <4>6. Below(n + h*W) \in Nat /\ Below(n + g*W) \in Nat
        BY <4>5, BelowGrows
      <4> HIDE DEF h
      <4> QED  BY <3>1, <4>2, <4>3, <4>4, <4>6
    <3> QED  BY <3>2, <3>3
  <2>2. 0 .. m \subseteq Good
    <3> HIDE DEF Good
    <3> QED  BY <1>1, <2>1, IntervalInduction
  <2> QED  BY <2>2
<1> QED  BY <1>1, <1>6, <1>8
-----------------------------------------------------------------------------
LEMMA ScanInitially == ASSUME ScanAssumption, Init PROVE ScanIInv
<1>1. TypeInv
  BY ScanSizes DEF Init, TypeInv, Garbage
<1>2. PhaseInv
  BY DEF Init, PhaseInv, TileNow
<1>3. RunningInv /\ LoadInv /\ TotalInv
  BY ScanSizes DEF Init, RunningInv, LoadInv, TotalInv
<1>4. StoredInv
  BY ScanSizes DEF Init, StoredInv, Written, TileNow, Index
<1> QED  BY <1>1, <1>2, <1>3, <1>4 DEF ScanIInv

-----------------------------------------------------------------------------
LEMMA SameCounts ==
  ASSUME [Next]_vars
  PROVE  counts' = counts /\ Prefix' = Prefix /\ \A n : Below(n)' = Below(n) /\ PaddedCount(n)' = PaddedCount(n)
<1>1. counts' = counts
  BY DEF Next, vars, Barrier, shared, Step, Start, Load, Store, Accumulate, Finish
<1>2. Prefix' = Prefix
  BY <1>1 DEF Prefix
<1> QED  BY <1>1, <1>2 DEF Below, PaddedCount

LEMMA ScanPlaces ==
  ASSUME ScanAssumption, NEW n \in Nat, NEW g \in Simdgroup
  PROVE  /\ n + g*W \in Nat /\ n + (g+1)*W \in Nat
         /\ n + (g+1)*W = n + g*W + (W-1) + 1
         /\ W-1 \in Lane
         /\ \A l \in Lane : n + g*W + l \in Nat
<1>1. g \in Nat /\ W \in Nat /\ W # 0
  BY DEF ScanAssumption, Simdgroup
<1>2. g*W \in Nat /\ (g+1)*W = g*W + W
  BY <1>1
<1> DEFINE p == g*W  q == (g+1)*W
<1> HIDE DEF p, q
<1>3. p \in Nat /\ q = p + W
  BY <1>2 DEF p, q
<1>4. n + p \in Nat /\ n + q \in Nat /\ n + q = n + p + (W-1) + 1 /\ \A l \in Lane : n + p + l \in Nat
  BY <1>1, <1>3 DEF Lane
<1>5. W-1 \in Lane
  BY <1>1 DEF Lane
<1> QED  BY <1>4, <1>5 DEF p, q

\* A simdgroup loads the values from its first lane's on, and publishes their sum.
SumOf(g) == Below(b[g] + (g+1)*W) - Below(b[g] + g*W)

LEMMA Loads ==
  ASSUME ScanAssumption, TypeInv, NEW g \in Simdgroup, Load(g)
  PROVE  /\ v' = [v EXCEPT ![g] = v'[g]] /\ v'[g] \in [Lane -> Nat]
         /\ \A l \in Lane : v'[g][l] = PaddedCount(b[g] + g*W + l)
         /\ sg_sums' = [sg_sums EXCEPT ![g] = SumOf(g)] /\ SumOf(g) \in Int
<1> DEFINE val == [l \in Lane |-> LET e == b[g] + g*W + l IN IF e < E THEN counts[e] ELSE 0]
           n == b[g] + g*W
<1>1. counts \in [Index -> Value] /\ b[g] \in Nat /\ v \in [Simdgroup -> [Lane -> Nat]]
  BY DEF TypeInv
<1>2. n \in Nat /\ W-1 \in Lane /\ b[g] + (g+1)*W \in Nat /\ b[g] + (g+1)*W = n + (W-1) + 1
  BY <1>1, ScanPlaces
<1>3. ASSUME NEW l \in Lane PROVE val[l] = PaddedCount(n + l) /\ val[l] \in Nat
  <2>1. n + l \in Nat
    BY <1>1, ScanPlaces
  <2>2. PaddedCount(n + l) \in Nat
    BY <1>1, <2>1, BelowGrows
  <2> QED  BY <2>2 DEF PaddedCount
<1>4. v' = [v EXCEPT ![g] = val] /\ sg_sums' = [sg_sums EXCEPT ![g] = Inclusive(val)[W-1]]
  BY DEF Load
<1>5. val \in [Lane -> Nat]
  BY <1>3
<1> HIDE DEF n, val
<1>6. Inclusive(val)[W-1] = Below(n + (W-1) + 1) - Below(n)
  BY <1>1, <1>2, <1>3, InclusiveIs
<1>7. Inclusive(val)[W-1] = SumOf(g)
  BY <1>2, <1>6 DEF n, SumOf
<1>8. SumOf(g) \in Int
  <2>1. Below(b[g] + (g+1)*W) \in Nat /\ Below(b[g] + g*W) \in Nat
    BY <1>1, <1>2, BelowGrows DEF n
  <2> QED  BY <2>1 DEF SumOf
<1>9. v'[g] = val
  BY <1>1, <1>4
<1> QED  BY <1>3, <1>4, <1>5, <1>7, <1>8, <1>9 DEF n

(***************************************************************************)
(* Between the barriers around the stores every simdgroup has loaded the   *)
(* same tile, and the running prefix is that of the tile.                  *)
(***************************************************************************)
LEMMA Stores ==
  ASSUME ScanAssumption, ScanIInv, NEW g \in Simdgroup, Store(g)
  PROVE  /\ total' = [total EXCEPT ![g] = Below(b[g] + NT) - Below(b[g])]
         /\ Below(b[g] + NT) - Below(b[g]) \in Int
         /\ \A e \in 0 .. E : e - b[g] - g*W \in Lane /\ e \in Index =>
              offsets'[e] = Prefix[e] /\ cursor'[e] = Prefix[e]
         /\ \A e \in 0 .. E : ~(e - b[g] - g*W \in Lane /\ e \in Index) => offsets'[e] = offsets[e]
         /\ \A e \in Index : e - b[g] - g*W \notin Lane => cursor'[e] = cursor[e]
         /\ DOMAIN offsets' = 0 .. E /\ DOMAIN cursor' = Index
<1> DEFINE lane(e) == e - b[g] - g*W
           mine    == {e \in Index : lane(e) \in Lane}
           past(e)  == running + Sum(g) + Inclusive(v[g])[lane(e)] - v[g][lane(e)]
           n == b[g] + g*W
<1>1. TypeInv /\ PhaseInv /\ RunningInv /\ LoadInv /\ counts \in [Index -> Value]
  BY DEF ScanIInv, TypeInv
<1>2. pc[g] = "store" /\ b[g] \in Nat /\ sg_sums \in [Simdgroup -> Int] /\ 0 \in Simdgroup
      /\ E \in Nat /\ SG \in Nat /\ W \in Nat
  BY <1>1, ScanSizes DEF Store, TypeInv
<1>3. \A h \in Simdgroup : pc[h] \in {"store", "stored"} /\ b[h] = b[g]
  BY <1>1, <1>2 DEF PhaseInv, Between, TileNow
<1>4. running = Below(b[g])
  BY <1>1, <1>2, <1>3 DEF RunningInv
<1>5. \A h \in Simdgroup : sg_sums[h] = Below(b[g] + (h+1)*W) - Below(b[g] + h*W)
  BY <1>1, <1>3 DEF LoadInv
<1>6. \A m \in 0 .. SG : Sum(m) = Below(b[g] + m*W) - Below(b[g])
  BY <1>1, <1>2, <1>5, SumIs
<1>7. \A k \in Nat : Below(k) \in Nat /\ PaddedCount(k) \in Nat /\ Below(k+1) = Below(k) + PaddedCount(k)
  BY <1>1, BelowGrows
<1>8. Sum(SG) = Below(b[g] + NT) - Below(b[g]) /\ Below(b[g] + NT) - Below(b[g]) \in Int
  <2>1. SG \in 0 .. SG /\ b[g] + SG*W \in Nat
    BY <1>2
  <2>2. Sum(SG) = Below(b[g] + SG*W) - Below(b[g])
    BY <1>6, <2>1
  <2>3. Below(b[g] + SG*W) - Below(b[g]) \in Int
    BY <1>2, <1>7, <2>1
  <2> QED  BY <2>2, <2>3 DEF NT
<1>9. Sum(g) = Below(n) - Below(b[g]) /\ n \in Nat
  <2>1. g \in 0 .. SG
    BY <1>2 DEF Simdgroup
  <2> QED  BY <1>2, <1>6, <2>1, ScanPlaces
<1>10. \A l \in Lane : v[g][l] = PaddedCount(n + l)
  BY <1>1, <1>2 DEF LoadInv
<1>11. \A l \in Lane : Inclusive(v[g])[l] = Below(n + l + 1) - Below(n)
  <2> DEFINE u == v[g]
  <2>1. \A l \in Lane : u[l] = PaddedCount(n + l)
    BY <1>10
  <2> HIDE DEF u, n
  <2>2. \A l \in Lane : Inclusive(u)[l] = Below(n + l + 1) - Below(n)
    BY <1>1, <1>9, <2>1, InclusiveIs
  <2> QED  BY <2>2 DEF u
<1>12. ASSUME NEW e \in mine PROVE past(e) = Prefix[e]
  <2> DEFINE l == lane(e)
  <2>1. e \in Index /\ l \in Lane
    OBVIOUS
  <2>2. e \in Nat /\ e \in 0 .. E
    BY <1>2, <2>1 DEF Index
  <2>3. n + l = e /\ n + l + 1 = e + 1
    <3> DEFINE p == g*W
    <3>1. p \in Int
      BY <1>2, ScanSizes
    <3>2. l = e - b[g] - p /\ n = b[g] + p
      OBVIOUS
    <3> HIDE DEF p, n, l
    <3> QED  BY <1>2, <2>2, <3>1, <3>2
  <2>4. Inclusive(v[g])[l] = Below(e + 1) - Below(n)
    BY <1>11, <2>1, <2>3
  <2>5. v[g][l] = PaddedCount(e)
    BY <1>10, <2>1, <2>3
  <2>6. past(e) = running + Sum(g) + Inclusive(v[g])[l] - v[g][l]
    OBVIOUS
  <2>7. Below(e) = Prefix[e]
    BY <1>1, <2>2, BelowGrows
  <2>8. Below(e+1) = Below(e) + PaddedCount(e) /\ Below(e) \in Nat /\ PaddedCount(e) \in Nat
        /\ Below(n) \in Nat /\ Below(b[g]) \in Nat
    BY <1>2, <1>7, <1>9, <2>2
  <2> HIDE DEF past, n, l
  <2> QED  BY <1>4, <1>9, <2>4, <2>5, <2>6, <2>7, <2>8
<1>13. /\ total' = [total EXCEPT ![g] = Sum(SG)]
       /\ offsets' = [e \in 0 .. E |-> IF e \in mine THEN past(e) ELSE offsets[e]]
       /\ cursor' = [e \in Index |-> IF e \in mine THEN past(e) ELSE cursor[e]]
  BY DEF Store
<1> HIDE DEF past, n
<1> QED  BY <1>8, <1>12, <1>13
-----------------------------------------------------------------------------
LEMMA TypeKept == ASSUME ScanAssumption, ScanIInv, [Next]_vars PROVE TypeInv'
<1> USE DEF Goto
<1>0. TypeInv /\ PhaseInv
  BY DEF ScanIInv
<1>1. CASE UNCHANGED vars
  BY <1>0, <1>1 DEF TypeInv, vars
<1>2. CASE Barrier
  BY <1>0, <1>2 DEF TypeInv, Barrier, Passed, shared
<1>3. ASSUME NEW g \in Simdgroup, Start(g) PROVE TypeInv'
  BY <1>0, <1>3 DEF TypeInv, Start
<1>4. ASSUME NEW g \in Simdgroup, Load(g) PROVE TypeInv'
  <2>1. v' \in [Simdgroup -> [Lane -> Nat]] /\ sg_sums' \in [Simdgroup -> Int]
    BY <1>0, <1>4, Loads DEF TypeInv
  <2> QED  BY <1>0, <1>4, <2>1 DEF TypeInv, Load
<1>5. ASSUME NEW g \in Simdgroup, Store(g) PROVE TypeInv'
  <2>1. total' \in [Simdgroup -> Int]
    BY <1>0, <1>5, Stores DEF TypeInv
  <2>2. \A e \in 0 .. E : Prefix[e] \in Int
    <3>1. counts \in [Index -> Value]
      BY <1>0 DEF TypeInv
    <3>2. Prefix \in [0 .. E -> Nat]
      BY <3>1, PrefixIs
    <3> QED  BY <3>2
  <2>3. \A e \in Index : e \in 0 .. E
    BY ScanSizes DEF Index
  <2>4. \A e \in 0 .. E : offsets'[e] \in Int
    BY <1>0, <1>5, <2>2, Stores DEF TypeInv
  <2>5. \A e \in Index : cursor'[e] \in Int
    BY <1>0, <1>5, <2>2, <2>3, Stores DEF TypeInv
  <2>6. offsets' \in [0 .. E -> Int] /\ cursor' \in [Index -> Int]
    <3>1. /\ offsets' = [e \in 0 .. E |-> offsets'[e]]
          /\ cursor' = [e \in Index |-> cursor'[e]]
      BY <1>5 DEF Store
    <3> QED  BY <2>4, <2>5, <3>1
  <2> QED  BY <1>0, <1>5, <2>1, <2>6 DEF TypeInv, Store
<1>6. ASSUME NEW g \in Simdgroup, Accumulate(g) PROVE TypeInv'
  <2>1. b[g] \in Nat /\ NT \in Nat /\ running \in Int /\ total[g] \in Int
    BY <1>0, ScanSizes DEF TypeInv
  <2>2. b' \in [Simdgroup -> Nat]
    <3>1. b' = [b EXCEPT ![g] = b[g] + NT] /\ b \in [Simdgroup -> Nat] /\ b[g] + NT \in Nat
      BY <1>0, <1>6, <2>1 DEF TypeInv, Accumulate
    <3> QED  BY <3>1
  <2>3. running' \in Int
    <3>1. running' = (IF g = 0 THEN running + total[g] ELSE running)
      BY <1>6 DEF Accumulate
    <3> QED  BY <2>1, <3>1
  <2> QED  BY <1>0, <1>6, <2>2, <2>3 DEF TypeInv, Accumulate
<1>7. ASSUME NEW g \in Simdgroup, Finish(g) PROVE TypeInv'
  BY <1>0, <1>7 DEF TypeInv, Finish
<1> QED  BY <1>1, <1>2, <1>3, <1>4, <1>5, <1>6, <1>7 DEF Next, Step

\* What the barrier does to a simdgroup's place; the steps between change no tile.
LEMMA BarrierPasses ==
  ASSUME ScanAssumption, TypeInv, PhaseInv, Barrier
  PROVE  /\ UNCHANGED shared
         /\ \E at, to : /\ <<at, to>> \in {<<"enter", "loop">>, <<"sums", "store">>,
                                           <<"stored", "accumulate">>, <<"next", "loop">>}
                        /\ \A g \in Simdgroup : pc[g] = at /\ pc'[g] = to
         /\ \A g, h \in Simdgroup : b[g] = b[h]
<1>1. PICK at, to : /\ <<at, to>> \in {<<"enter", "loop">>, <<"sums", "store">>,
                                       <<"stored", "accumulate">>, <<"next", "loop">>}
                    /\ Passed(at, to)
  BY DEF Barrier
<1>2. \A g \in Simdgroup : pc[g] = at /\ pc'[g] = to
  BY <1>1 DEF Passed
<1>3. \A g, h \in Simdgroup : b[g] = b[h]
  <2> SUFFICES ASSUME NEW g \in Simdgroup, NEW h \in Simdgroup PROVE b[g] = b[h]
    OBVIOUS
  <2>1. TileNow(g) = TileNow(h) /\ b[g] \in Nat /\ b[h] \in Nat /\ NT \in Nat
    BY ScanSizes DEF TypeInv, PhaseInv
  <2> QED  BY <1>2, <2>1 DEF TileNow
<1> QED  BY <1>1, <1>2, <1>3 DEF Barrier

Follow(from, to) ==
  <<from, to>> \in {<<"start", "enter">>, <<"loop", "sums">>, <<"store", "stored">>,
                    <<"accumulate", "next">>, <<"loop", "done">>}

LEMMA StepStays ==
  ASSUME ScanAssumption, TypeInv, NEW g \in Simdgroup, Step(g)
  PROVE  /\ Follow(pc[g], pc'[g])
         /\ pc'[g] = "sums" => b[g] < E
         /\ pc'[g] = "done" => b[g] >= E
         /\ \A h \in Simdgroup : h # g => pc'[h] = pc[h] /\ b'[h] = b[h]
         /\ \A h \in Simdgroup : TileNow(h)' = TileNow(h) /\ Between(pc'[h]) = Between(pc[h])
         /\ \A h \in Simdgroup : pc[h] # "accumulate" => b'[h] = b[h]
<1>1. NT \in Nat /\ b \in [Simdgroup -> Nat] /\ pc \in [Simdgroup -> {"start", "enter", "loop",
        "sums", "store", "stored", "accumulate", "next", "done"}]
  BY ScanSizes DEF TypeInv
<1>2. /\ Follow(pc[g], pc'[g]) /\ pc' = [pc EXCEPT ![g] = pc'[g]]
      /\ b' = IF pc[g] = "accumulate" THEN [b EXCEPT ![g] = @ + NT] ELSE b
      /\ pc'[g] = "sums" => b[g] < E
      /\ pc'[g] = "done" => b[g] >= E
  BY <1>1 DEF Step, Start, Load, Store, Accumulate, Finish, Goto, Follow
<1>3. ASSUME NEW h \in Simdgroup PROVE TileNow(h)' = TileNow(h) /\ Between(pc'[h]) = Between(pc[h])
  <2>1. CASE h = g
    BY <1>1, <1>2, <2>1 DEF TileNow, Between, Follow
  <2>2. CASE h # g
    BY <1>1, <1>2, <2>2 DEF TileNow
  <2> QED  BY <2>1, <2>2
<1> QED  BY <1>1, <1>2, <1>3

LEMMA PhaseKept == ASSUME ScanAssumption, ScanIInv, [Next]_vars PROVE PhaseInv'
<1>0. TypeInv /\ PhaseInv
  BY DEF ScanIInv
<1>1. CASE UNCHANGED vars
  BY <1>0, <1>1 DEF PhaseInv, TileNow, vars
<1>2. CASE Barrier
  <2>1. PICK at, to : /\ <<at, to>> \in {<<"enter", "loop">>, <<"sums", "store">>,
                                         <<"stored", "accumulate">>, <<"next", "loop">>}
                      /\ \A g \in Simdgroup : pc[g] = at /\ pc'[g] = to
    BY <1>0, <1>2, BarrierPasses
  <2>2. \A g, h \in Simdgroup : b'[g] = b[g] /\ b[g] = b[h] /\ b[g] \in Nat
    BY <1>0, <1>2, BarrierPasses DEF shared, TypeInv
  <2>3. \A g \in Simdgroup : TileNow(g)' = b[g]
    BY <2>1, <2>2 DEF TileNow
  <2>4. \A g \in Simdgroup : pc'[g] \in {"store", "accumulate"} => b[g] < E
    BY <1>0, <2>1 DEF PhaseInv, TileNow
  <2> QED  BY <2>1, <2>2, <2>3, <2>4 DEF PhaseInv
<1>3. ASSUME NEW g \in Simdgroup, Step(g) PROVE PhaseInv'
  <2>1. /\ Follow(pc[g], pc'[g])
        /\ pc'[g] = "sums" => b[g] < E
        /\ pc'[g] = "done" => b[g] >= E
        /\ \A h \in Simdgroup : h # g => pc'[h] = pc[h] /\ b'[h] = b[h]
        /\ \A h \in Simdgroup : TileNow(h)' = TileNow(h) /\ Between(pc'[h]) = Between(pc[h])
        /\ \A h \in Simdgroup : pc[h] # "accumulate" => b'[h] = b[h]
    BY <1>0, <1>3, StepStays
  <2>2. pc'[g] = "enter" => b'[g] = 0
    BY <1>0, <2>1 DEF Follow, PhaseInv
  <2>3. pc'[g] = "sums" => TileNow(g)' < E
    BY <2>1 DEF Follow, TileNow
  <2>4. pc'[g] = "done" => b'[g] >= E
    BY <2>1 DEF Follow
  <2>5. pc'[g] \in {"stored", "next"} => TileNow(g)' < E
    BY <1>0, <2>1 DEF Follow, PhaseInv
  <2>6. ASSUME NEW h \in Simdgroup
        PROVE  /\ pc'[h] \in {"start", "enter"} => b'[h] = 0
               /\ pc'[h] \in {"sums", "store", "stored", "accumulate", "next"} => TileNow(h)' < E
               /\ pc'[h] = "done" => b'[h] >= E
    <3>1. CASE h = g
      BY <2>1, <2>2, <2>3, <2>4, <2>5, <3>1 DEF Follow
    <3>2. CASE h # g
      BY <1>0, <2>1, <3>2 DEF PhaseInv
    <3> QED  BY <3>1, <3>2
  <2>7. \A h, k \in Simdgroup : Between(pc'[h]) = Between(pc'[k]) /\ TileNow(h)' = TileNow(k)' /\ TileNow(h)' \in Nat
    <3> HIDE DEF TileNow, Between
    <3> QED  BY <1>0, <2>1 DEF PhaseInv
  <2> QED  BY <2>6, <2>7 DEF PhaseInv
<1> QED  BY <1>1, <1>2, <1>3 DEF Next

LEMMA RunningKept == ASSUME ScanAssumption, ScanIInv, [Next]_vars PROVE RunningInv'
<1>0. TypeInv /\ PhaseInv /\ RunningInv /\ TotalInv /\ 0 \in Simdgroup
  BY ScanSizes DEF ScanIInv
<1>1. \A n : Below(n)' = Below(n)
  BY SameCounts
<1>2. Below(b[0])' = Below(b'[0])
  BY SameCounts DEF Below
<1>3. ASSUME pc[0] # "start", running' = running, b'[0] = b[0] PROVE RunningInv'
  BY <1>0, <1>2, <1>3 DEF RunningInv
<1>4. CASE UNCHANGED vars
  BY <1>0, <1>2, <1>4 DEF RunningInv, vars
<1>5. CASE Barrier
  <2>1. pc[0] # "start"
    BY <1>0, <1>5, BarrierPasses
  <2> QED  BY <1>3, <1>5, <2>1 DEF Barrier, shared
<1>6. ASSUME NEW g \in Simdgroup, Step(g) PROVE RunningInv'
  <2>1. CASE Start(g)
    <3>1. CASE g = 0
      <4>1. b[0] = 0 /\ running' = 0 /\ b'[0] = 0 /\ counts \in [Index -> Value]
        BY <1>0, <2>1, <3>1 DEF Start, PhaseInv, TypeInv
      <4>2. Below(0) = 0
        BY <4>1, BelowGrows
      <4> QED  BY <1>2, <4>1, <4>2, SameCounts DEF RunningInv, Below
    <3>2. CASE g # 0
      <4>1. pc'[0] = pc[0] /\ running' = running /\ b' = b
        BY <1>0, <2>1, <3>2 DEF Start, Goto, TypeInv
      <4> QED  BY <1>0, <1>2, <4>1 DEF RunningInv
    <3> QED  BY <3>1, <3>2
  <2>2. CASE Accumulate(g)
    <3>1. CASE g = 0
      <4>1. /\ running' = running + total[0] /\ b'[0] = b[0] + NT /\ pc[0] = "accumulate"
            /\ b[0] \in Nat /\ NT \in Nat /\ counts \in [Index -> Value]
        BY <1>0, <2>2, <3>1, ScanSizes DEF Accumulate, TypeInv
      <4>2. running = Below(b[0]) /\ total[0] = Below(b[0] + NT) - Below(b[0])
        BY <1>0, <4>1 DEF RunningInv, TotalInv
      <4>3. b[0] + NT \in Nat
        BY <4>1
      <4>4. Below(b[0]) \in Nat /\ Below(b[0] + NT) \in Nat
        BY <4>1, <4>3, BelowGrows
      <4>5. running' = Below(b'[0])
        <5> HIDE DEF Below
        <5> QED  BY <4>1, <4>2, <4>4
      <4> QED  BY <1>2, <4>5, SameCounts DEF RunningInv, Below
    <3>2. CASE g # 0
      <4>1. pc'[0] = pc[0] /\ running' = running /\ b'[0] = b[0]
        BY <1>0, <2>2, <3>2 DEF Accumulate, Goto, TypeInv
      <4> QED  BY <1>0, <1>2, <4>1 DEF RunningInv
    <3> QED  BY <3>1, <3>2
  <2>3. CASE Load(g) \/ Store(g) \/ Finish(g)
    <3>1. running' = running /\ b' = b
      BY <2>3 DEF Load, Store, Finish
    <3>2. pc[0] # "start"
      <4>1. Between(pc[0]) = Between(pc[g]) /\ pc[g] \in {"loop", "store"}
        BY <1>0, <2>3 DEF PhaseInv, Load, Store, Finish
      <4> QED  BY <4>1 DEF Between
    <3> QED  BY <1>3, <3>1, <3>2
  <2> QED  BY <1>6, <2>1, <2>2, <2>3 DEF Step
<1> QED  BY <1>4, <1>5, <1>6 DEF Next

LEMMA LoadKept == ASSUME ScanAssumption, ScanIInv, [Next]_vars PROVE LoadInv'
<1> DEFINE Loaded(h) == /\ \A l \in Lane : v[h][l] = PaddedCount(b[h] + h*W + l)
                        /\ sg_sums[h] = SumOf(h)
<1>0. TypeInv /\ PhaseInv /\ \A h \in Simdgroup : pc[h] \in {"sums", "store", "stored"} => Loaded(h)
  BY DEF ScanIInv, LoadInv, SumOf
<1>1. SUFFICES ASSUME NEW h \in Simdgroup, pc'[h] \in {"sums", "store", "stored"}
               PROVE  Loaded(h)'
  BY DEF LoadInv, SumOf
<1>2. ASSUME v'[h] = v[h], sg_sums'[h] = sg_sums[h], b'[h] = b[h], pc[h] \in {"sums", "store", "stored"}
      PROVE  Loaded(h)'
  <2>1. Loaded(h)
    BY <1>0, <1>2
  <2> QED  BY <1>2, <2>1, SameCounts DEF SumOf, Below, PaddedCount
<1>3. CASE UNCHANGED vars
  BY <1>1, <1>2, <1>3 DEF vars
<1>4. CASE Barrier
  <2>1. pc[h] = "sums"
    BY <1>0, <1>1, <1>4, BarrierPasses
  <2> QED  BY <1>2, <1>4, <2>1 DEF Barrier, shared
<1>5. ASSUME NEW g \in Simdgroup, Step(g) PROVE Loaded(h)'
  <2>1. CASE Load(g) /\ h = g
    <3>1. /\ \A l \in Lane : v'[g][l] = PaddedCount(b[g] + g*W + l)
          /\ sg_sums'[g] = SumOf(g) /\ b' = b
      BY <1>0, <2>1, Loads DEF TypeInv, Load
    <3> QED  BY <2>1, <3>1, SameCounts DEF SumOf, Below, PaddedCount
  <2>2. CASE Load(g) /\ h # g
    <3>1. v'[h] = v[h] /\ sg_sums'[h] = sg_sums[h] /\ b' = b /\ pc'[h] = pc[h]
      <4>1. v' = [v EXCEPT ![g] = v'[g]] /\ sg_sums' = [sg_sums EXCEPT ![g] = SumOf(g)]
        BY <1>0, <2>2, Loads
      <4> QED  BY <1>0, <2>2, <4>1 DEF TypeInv, Load, Goto
    <3> QED  BY <1>1, <1>2, <3>1
  <2>3. CASE ~Load(g)
    <3>1. v' = v /\ sg_sums' = sg_sums
      BY <1>5, <2>3 DEF Step, Start, Store, Accumulate, Finish
    <3>2. pc[h] \in {"sums", "store", "stored"} /\ b'[h] = b[h]
      <4>1. /\ Follow(pc[g], pc'[g])
            /\ \A k \in Simdgroup : k # g => pc'[k] = pc[k] /\ b'[k] = b[k]
            /\ \A k \in Simdgroup : pc[k] # "accumulate" => b'[k] = b[k]
        BY <1>0, <1>5, StepStays
      <4>2. CASE h = g
        <5>1. pc[g] # "loop" \/ pc'[g] = "done"
          BY <1>0, <1>5, <2>3 DEF Step, Start, Store, Accumulate, Finish, Goto, TypeInv
        <5> QED  BY <1>1, <4>1, <4>2, <5>1 DEF Follow
      <4>3. CASE h # g
        BY <1>1, <4>1, <4>3
      <4> QED  BY <4>2, <4>3
    <3> QED  BY <1>2, <3>1, <3>2
  <2> QED  BY <2>1, <2>2, <2>3
<1> QED  BY <1>3, <1>4, <1>5 DEF Next

LEMMA TotalKept == ASSUME ScanAssumption, ScanIInv, [Next]_vars PROVE TotalInv'
<1>0. TypeInv /\ PhaseInv /\ TotalInv
  BY DEF ScanIInv
<1>1. SUFFICES ASSUME NEW h \in Simdgroup, pc'[h] \in {"stored", "accumulate"}
               PROVE  total'[h] = Below(b'[h] + NT) - Below(b'[h])
  BY SameCounts DEF TotalInv, Below
<1>2. ASSUME total'[h] = total[h], b'[h] = b[h], pc[h] \in {"stored", "accumulate"}
      PROVE  total'[h] = Below(b'[h] + NT) - Below(b'[h])
  BY <1>0, <1>2 DEF TotalInv
<1>3. CASE UNCHANGED vars
  BY <1>1, <1>2, <1>3 DEF vars
<1>4. CASE Barrier
  <2>1. pc[h] = "stored"
    BY <1>0, <1>1, <1>4, BarrierPasses
  <2> QED  BY <1>2, <1>4, <2>1 DEF Barrier, shared
<1>5. ASSUME NEW g \in Simdgroup, Step(g) PROVE total'[h] = Below(b'[h] + NT) - Below(b'[h])
  <2>1. /\ Follow(pc[g], pc'[g])
        /\ \A k \in Simdgroup : k # g => pc'[k] = pc[k] /\ b'[k] = b[k]
        /\ \A k \in Simdgroup : pc[k] # "accumulate" => b'[k] = b[k]
    BY <1>0, <1>5, StepStays
  <2>2. CASE h = g
    <3>1. pc[g] = "store"
      BY <1>1, <2>1, <2>2 DEF Follow
    <3>2. Store(g) /\ b' = b
      BY <1>5, <3>1 DEF Step, Start, Load, Store, Accumulate, Finish
    <3>3. total'[g] = Below(b[g] + NT) - Below(b[g])
      <4>1. total' = [total EXCEPT ![g] = Below(b[g] + NT) - Below(b[g])]
        BY <3>2, Stores
      <4> QED  BY <1>0, <4>1 DEF TypeInv
    <3> QED  BY <2>2, <3>2, <3>3
  <2>3. CASE h # g
    <3>1. total'[h] = total[h]
      BY <1>0, <1>5, <2>3 DEF Step, Start, Load, Store, Accumulate, Finish, TypeInv
    <3> QED  BY <1>1, <1>2, <2>1, <2>3, <3>1
  <2> QED  BY <2>2, <2>3
<1> QED  BY <1>3, <1>4, <1>5 DEF Next

(***************************************************************************)
(* The simdgroups' values make up a tile, so when all have stored theirs,  *)
(* everything below the next tile is stored.                               *)
(***************************************************************************)
LEMMA TileIsCovered ==
  ASSUME ScanAssumption, NEW n \in Nat, NEW e \in Nat, n <= e, e < n + NT
  PROVE  \E g \in Simdgroup : e - n - g*W \in Lane
<1> DEFINE s == e - n  q == s \div W  r == s % W
<1>1. W \in Nat \ {0} /\ SG \in Nat /\ NT = SG * W /\ SG * W \in Nat
  BY DEF ScanAssumption, NT
<1>2. s \in 0 .. SG * W - 1
  BY <1>1
<1>3. q \in Simdgroup /\ r \in Lane /\ s = q * W + r
  <2> HIDE DEF s
  <2> QED  BY <1>1, <1>2, RowAndColumn DEF Simdgroup, Lane
<1>4. s - q*W = r
  <2> HIDE DEF q, r
  <2>1. q \in Nat /\ r \in Nat /\ q*W \in Nat
    BY <1>1, <1>3 DEF Simdgroup, Lane
  <2> QED  BY <1>2, <1>3, <2>1
<1> HIDE DEF q, r
<1> QED  BY <1>3, <1>4

LEMMA NothingNewWritten ==
  ASSUME ScanAssumption, ScanIInv, NEW e \in Index, Written(e)',
         Barrier \/ UNCHANGED vars
         \/ \E g \in Simdgroup : Start(g) \/ Load(g) \/ Accumulate(g) \/ Finish(g)
  PROVE  Written(e)
<1>0. TypeInv /\ PhaseInv /\ 0 \in Simdgroup /\ e \in Nat /\ NT \in Nat
  BY ScanSizes DEF ScanIInv, Index
<1>1. CASE UNCHANGED vars
  BY <1>1 DEF Written, TileNow, vars
<1>2. CASE Barrier
  <2>1. PICK at, to : /\ <<at, to>> \in {<<"enter", "loop">>, <<"sums", "store">>,
                                         <<"stored", "accumulate">>, <<"next", "loop">>}
                      /\ \A g \in Simdgroup : pc[g] = at /\ pc'[g] = to
    BY <1>0, <1>2, BarrierPasses
  <2>2. b' = b
    BY <1>2 DEF Barrier, shared
  <2>3. CASE at # "next"
    <3>1. \A g \in Simdgroup : TileNow(g)' = TileNow(g)
      BY <2>1, <2>2, <2>3 DEF TileNow
    <3>2. \A g \in Simdgroup : pc'[g] \in {"stored", "accumulate", "next"}
                               => pc[g] \in {"stored", "accumulate", "next"}
      BY <2>1, <2>3
    <3> HIDE DEF TileNow
    <3> QED  BY <1>0, <3>1, <3>2 DEF Written
  <2>4. CASE at = "next"
    <3>1. TileNow(0) = b[0] - NT /\ TileNow(0)' = b[0] /\ TileNow(0) \in Nat /\ b[0] \in Nat
      BY <1>0, <2>1, <2>2, <2>4 DEF TileNow, PhaseInv, TypeInv
    <3>2. e < b[0]
      BY <1>0, <2>1, <2>4, <3>1 DEF Written
    <3>3. CASE e < TileNow(0)
      BY <3>3 DEF Written
    <3>4. CASE e >= TileNow(0)
      <4>1. e < TileNow(0) + NT
        BY <1>0, <3>1, <3>2
      <4>2. PICK g \in Simdgroup : e - TileNow(0) - g*W \in Lane
        <5> HIDE DEF TileNow
        <5> QED  BY <1>0, <3>1, <3>4, <4>1, TileIsCovered
      <4>3. TileNow(g) = TileNow(0) /\ pc[g] = "next"
        BY <1>0, <2>1, <2>4 DEF PhaseInv
      <4> QED  BY <4>2, <4>3 DEF Written
    <3> QED  BY <1>0, <3>1, <3>3, <3>4
  <2> QED  BY <2>3, <2>4
<1>3. ASSUME NEW g \in Simdgroup, Start(g) \/ Load(g) \/ Accumulate(g) \/ Finish(g)
      PROVE  Written(e)
  <2>1. /\ Follow(pc[g], pc'[g])
        /\ \A h \in Simdgroup : h # g => pc'[h] = pc[h] /\ b'[h] = b[h]
        /\ \A h \in Simdgroup : TileNow(h)' = TileNow(h)
    BY <1>0, <1>3, StepStays DEF Step
  <2>2. pc[g] # "store"
    BY <1>3 DEF Start, Load, Accumulate, Finish
  <2>3. \A h \in Simdgroup : pc'[h] \in {"stored", "accumulate", "next"}
                             => pc[h] \in {"stored", "accumulate", "next"}
    BY <2>1, <2>2 DEF Follow
  <2> QED  BY <1>0, <2>1, <2>3 DEF Written
<1> QED  BY <1>1, <1>2, <1>3

LEMMA StoredKept == ASSUME ScanAssumption, ScanIInv, [Next]_vars PROVE StoredInv'
<1>0. TypeInv /\ PhaseInv /\ RunningInv /\ StoredInv /\ 0 \in Simdgroup /\ E \in Nat
      /\ counts \in [Index -> Value]
  BY ScanSizes DEF ScanIInv, TypeInv
<1>1. Index \subseteq 0 .. E /\ E \notin Index /\ E \in 0 .. E
  BY <1>0 DEF Index
<1>2. ASSUME UNCHANGED <<offsets, cursor>>, \A e \in Index : Written(e)' => Written(e),
             pc'[0] = "done" => pc[0] = "done"
      PROVE  StoredInv'
  BY <1>0, <1>2, SameCounts DEF StoredInv
<1>3. CASE UNCHANGED vars
  <2>1. UNCHANGED <<offsets, cursor, pc>>
    BY <1>3 DEF vars
  <2> QED  BY <1>2, <1>3, <2>1, NothingNewWritten
<1>4. CASE Barrier
  <2>1. UNCHANGED <<offsets, cursor>> /\ pc'[0] # "done"
    BY <1>0, <1>4, BarrierPasses DEF shared
  <2> QED  BY <1>2, <1>4, <2>1, NothingNewWritten
<1>5. ASSUME NEW g \in Simdgroup, Start(g) \/ Load(g) \/ Accumulate(g) PROVE StoredInv'
  <2>1. UNCHANGED <<offsets, cursor>>
    BY <1>5 DEF Start, Load, Accumulate
  <2>2. pc'[0] = "done" => pc[0] = "done"
    BY <1>0, <1>5 DEF Start, Load, Accumulate, Goto, TypeInv
  <2> QED  BY <1>2, <1>5, <2>1, <2>2, NothingNewWritten
<1>6. ASSUME NEW g \in Simdgroup, Finish(g) PROVE StoredInv'
  <2>1. \A e \in Index : Written(e)' => Written(e)
    BY <1>6, NothingNewWritten
  <2>2. CASE g # 0
    <3>1. offsets' = offsets /\ cursor' = cursor /\ pc'[0] = pc[0]
      BY <1>0, <1>6, <2>2 DEF Finish, Goto, TypeInv
    <3> QED  BY <1>2, <2>1, <3>1
  <2>3. CASE g = 0
    <3>1. running = Below(b[0]) /\ b[0] >= E /\ b[0] \in Nat
      BY <1>0, <1>6, <2>3 DEF Finish, RunningInv, TypeInv
    <3>2. running = Prefix[E]
      <4>1. Below(b[0]) = Prefix[E]
        BY <1>0, <3>1, BelowGrows
      <4> QED  BY <3>1, <4>1
    <3>3. offsets' = [offsets EXCEPT ![E] = running] /\ cursor' = cursor
      BY <1>6, <2>3 DEF Finish
    <3>4. offsets'[E] = Prefix[E] /\ \A e \in 0 .. E : e # E => offsets'[e] = offsets[e]
      BY <1>0, <1>1, <3>2, <3>3 DEF TypeInv
    <3>5. \A e \in Index : offsets'[e] = offsets[e]
      BY <1>1, <3>4
    <3>6. \A e \in 0 .. E : offsets'[e] \in {Garbage, Prefix[e]}
      BY <1>0, <3>4 DEF StoredInv
    <3>7. \A e \in Index : cursor'[e] = offsets'[e] /\ (Written(e)' => offsets'[e] = Prefix[e])
      BY <1>0, <2>1, <3>3, <3>5 DEF StoredInv
    <3> QED  BY <3>4, <3>6, <3>7, SameCounts DEF StoredInv
  <2> QED  BY <2>2, <2>3
<1>7. ASSUME NEW g \in Simdgroup, Store(g) PROVE StoredInv'
  <2> DEFINE Mine(e) == e - b[g] - g*W \in Lane
  <2>1. /\ \A e \in 0 .. E : Mine(e) /\ e \in Index => offsets'[e] = Prefix[e] /\ cursor'[e] = Prefix[e]
        /\ \A e \in 0 .. E : ~(Mine(e) /\ e \in Index) => offsets'[e] = offsets[e]
        /\ \A e \in Index : ~Mine(e) => cursor'[e] = cursor[e]
    BY <1>7, Stores
  <2>2. pc' = [pc EXCEPT ![g] = "stored"] /\ pc[g] = "store" /\ b' = b
    BY <1>7 DEF Store, Goto
  <2>3. \A h \in Simdgroup : TileNow(h)' = TileNow(h)
    BY <1>0, <1>7, StepStays DEF Step
  <2>4. TileNow(g) = b[g]
    BY <2>2 DEF TileNow
  <2>5. ASSUME NEW e \in Index, Written(e)' PROVE Written(e) \/ Mine(e)
    <3>1. CASE e < TileNow(0)
      BY <3>1 DEF Written
    <3>2. CASE ~(e < TileNow(0))
      <4>1. ~(e < TileNow(0)')
        BY <1>0, <2>3, <3>2
      <4>2. PICK h \in Simdgroup : /\ pc'[h] \in {"stored", "accumulate", "next"}
                                   /\ e - TileNow(h)' - h*W \in Lane
        BY <2>5, <4>1 DEF Written
      <4>3. CASE h = g
        BY <2>3, <2>4, <4>2, <4>3
      <4>4. CASE h # g
        <5>1. pc[h] = pc'[h]
          BY <1>0, <2>2, <4>4 DEF TypeInv
        <5> QED  BY <2>3, <4>2, <5>1 DEF Written
      <4> QED  BY <4>3, <4>4
    <3> QED  BY <3>1, <3>2
  <2> HIDE DEF Mine
  <2>6. \A e \in 0 .. E : offsets'[e] \in {Garbage, Prefix[e]}
    BY <1>0, <2>1 DEF StoredInv
  <2>7. ASSUME NEW e \in Index
        PROVE  cursor'[e] = offsets'[e] /\ (Written(e)' => offsets'[e] = Prefix[e])
    <3>1. e \in 0 .. E
      BY <1>1
    <3>2. CASE Mine(e)
      BY <2>1, <3>1, <3>2
    <3>3. CASE ~Mine(e)
      BY <1>0, <2>1, <2>5, <3>1, <3>3 DEF StoredInv
    <3> QED  BY <3>2, <3>3
  <2>8. pc'[0] = "done" => offsets'[E] = Prefix[E]
    <3>1. pc'[0] = "done" => pc[0] = "done"
      BY <1>0, <2>2 DEF TypeInv
    <3> QED  BY <1>0, <1>1, <2>1, <3>1 DEF StoredInv
  <2> QED  BY <2>6, <2>7, <2>8, SameCounts DEF StoredInv
<1> QED  BY <1>3, <1>4, <1>5, <1>6, <1>7 DEF Next, Step
-----------------------------------------------------------------------------
LEMMA Kept == ASSUME ScanAssumption, ScanIInv, [Next]_vars PROVE ScanIInv'
BY TypeKept, PhaseKept, RunningKept, LoadKept, TotalKept, StoredKept DEF ScanIInv

LEMMA StoredIsExact == ASSUME ScanAssumption, ScanIInv PROVE StoredOffsetsExact
<1>0. TypeInv /\ PhaseInv /\ StoredInv /\ 0 \in Simdgroup /\ E \in Nat
  BY ScanSizes DEF ScanIInv
<1>1. ASSUME Done PROVE offsets = Prefix
  <2>1. \A g \in Simdgroup : pc[g] = "done"
    BY <1>1 DEF Done
  <2>2. TileNow(0) >= E
    BY <1>0, <2>1 DEF TileNow, PhaseInv
  <2>3. ASSUME NEW e \in 0 .. E PROVE offsets[e] = Prefix[e]
    <3>1. CASE e = E
      BY <1>0, <2>1, <3>1 DEF StoredInv
    <3>2. CASE e # E
      <4>1. e \in Index /\ e < E
        BY <1>0, <3>2 DEF Index
      <4>2. e < TileNow(0)
        <5>1. TileNow(0) \in Nat
          BY <1>0 DEF PhaseInv
        <5> HIDE DEF TileNow
        <5> QED  BY <1>0, <2>2, <4>1, <5>1
      <4> QED  BY <1>0, <4>1, <4>2 DEF StoredInv, Written
    <3> QED  BY <3>1, <3>2
  <2>4. offsets \in [0 .. E -> Int] /\ Prefix \in [0 .. E -> Nat]
    <3>1. counts \in [Index -> Value]
      BY <1>0 DEF TypeInv
    <3> QED  BY <1>0, <3>1, PrefixIs DEF TypeInv
  <2>5. offsets = [e \in 0 .. E |-> offsets[e]] /\ Prefix = [e \in 0 .. E |-> Prefix[e]]
    BY <2>4
  <2>6. [e \in 0 .. E |-> offsets[e]] = [e \in 0 .. E |-> Prefix[e]]
    BY <2>3
  <2> QED  BY <2>5, <2>6
<1> QED  BY <1>0, <1>1 DEF StoredOffsetsExact, StoredInv

LEMMA ScanInvariant == ASSUME ScanAssumption PROVE Spec => []ScanIInv
<1>1. Init => ScanIInv
  BY ScanInitially
<1>2. ScanIInv /\ [Next]_vars => ScanIInv'
  BY Kept
<1> QED  BY <1>1, <1>2, PTL DEF Spec

(***************************************************************************)
(* Whatever moe_scan_offsets has stored at any moment is the exclusive     *)
(* prefix sum of the counts, and everything is stored when it ends, for    *)
(* any number of simdgroups, lanes and experts: the barriers keep the sums *)
(* and the running prefix of one tile from the simdgroups of another.      *)
(***************************************************************************)
THEOREM ScanIsExact == ASSUME ScanAssumption PROVE Spec => []StoredOffsetsExact
<1>1. ScanIInv => StoredOffsetsExact
  BY StoredIsExact
<1> QED  BY <1>1, ScanInvariant, PTL

(***************************************************************************)
(* What the scan leaves behind is what step Scan of module MoePermute      *)
(* takes at once: offsets begin at 0 and grow by the counts, cursor is a   *)
(* copy of them, and the input is not touched.                             *)
(***************************************************************************)
ExclusiveScanWhenDone ==
  Done => /\ offsets[0] = 0
          /\ \A e \in Index : offsets[e+1] = offsets[e] + counts[e] /\ cursor[e] = offsets[e]

THEOREM ScanInOneStep ==
  ASSUME ScanAssumption
  PROVE  Spec => []ExclusiveScanWhenDone /\ [][counts' = counts]_vars
<1>1. ASSUME ScanIInv PROVE ExclusiveScanWhenDone
  <2>1. SUFFICES ASSUME Done PROVE ExclusiveScanWhenDone
    BY DEF ExclusiveScanWhenDone
  <2>2. offsets = Prefix /\ \A e \in Index : cursor[e] = offsets[e]
    BY <1>1, <2>1, StoredIsExact DEF StoredOffsetsExact
  <2>3. counts \in [Index -> Value] /\ E \in Nat
    BY <1>1, ScanSizes DEF ScanIInv, TypeInv
  <2>4. Prefix[0] = 0 /\ \A e \in 1 .. E : Prefix[e] = Prefix[e-1] + counts[e-1]
    BY <2>3, PrefixIs
  <2>5. ASSUME NEW e \in Index PROVE Prefix[e+1] = Prefix[e] + counts[e]
    <3>1. e+1 \in 1 .. E /\ (e+1)-1 = e
      BY <2>3 DEF Index
    <3> QED  BY <2>4, <3>1
  <2> QED  BY <2>2, <2>4, <2>5 DEF ExclusiveScanWhenDone
<1>2. [Next]_vars => [counts' = counts]_vars
  BY SameCounts
<1> QED  BY <1>1, <1>2, ScanInvariant, PTL DEF Spec

-----------------------------------------------------------------------------
(***************************************************************************)
(* SplitK.                                                                 *)
(***************************************************************************)
SplitTypeInv ==
  /\ acc \in [Warp -> [Pass -> [Term -> Int]]]
  /\ kb \in [Warp -> Nat]
  /\ w \in 1 .. WARPS
  /\ pass \in [Warp -> Pass]
  /\ warp_pc \in [Warp -> {"loop", "stage", "staged", "reduce", "reduced", "done"}]
  /\ sAcc \in [Warp \ {0} -> [Term -> Int]]
  /\ out \in [Pass -> [Term -> Int]]

(***************************************************************************)
(* The warps are in one pass, and on one side of the barrier before the    *)
(* reduction.                                                              *)
(***************************************************************************)
Early(x) == warp_pc[x] \in {"loop", "stage", "staged"}

BarrierInv ==
  /\ \A x, y \in Warp : pass[x] = pass[y] /\ (Early(x) <=> Early(y))
  /\ \A x \in Warp : /\ warp_pc[x] = "done" => pass[x] = PASSES
                     /\ warp_pc[x] = "reduced" => pass[x] < PASSES
  /\ Early(0) => w = 1
  /\ warp_pc[0] \in {"reduced", "done"} => w = WARPS

\* A warp is at one of its own blocks, and past them all when it leaves the loop.
LoopInv ==
  \A x \in Warp : kb[x] % WARPS = x /\ (warp_pc[x] # "loop" => kb[x] >= KB)

(***************************************************************************)
(* A warp's product has the blocks it has been to; that of warp 0 also     *)
(* those of the warps whose tiles it has added, all of them in the passes  *)
(* before this one.                                                        *)
(***************************************************************************)
Added(p) == IF p < pass[0] THEN WARPS ELSE IF p = pass[0] THEN w ELSE 1

Has(x, p, k) ==
  \/ k % WARPS = x /\ k < kb[x]
  \/ x = 0 /\ k % WARPS \in 1 .. Added(p) - 1

AccInv ==
  \A x \in Warp : \A p \in Pass : \A t \in Term :
    acc[x][p][t] = IF t[1] = p /\ Has(x, p, t[2]) THEN 1 ELSE 0

\* A staged tile stays until the barrier after the reduction.
StageInv ==
  \A x \in Warp \ {0} : warp_pc[x] \notin {"loop", "stage"} => sAcc[x] = acc[x][pass[x]]

OutInv == warp_pc[0] = "done" => out = acc[0]

SplitIInv == SplitTypeInv /\ BarrierInv /\ LoopInv /\ AccInv /\ StageInv /\ OutInv
-----------------------------------------------------------------------------
LEMMA WarpZero == ASSUME SplitKAssumption PROVE 0 \in Warp /\ Warp \subseteq Nat
BY DEF SplitKAssumption, Warp

LEMMA SplitInitially == ASSUME SplitKAssumption, SplitInit PROVE SplitIInv
<1> USE DEF SplitKAssumption
<1>1. SplitTypeInv
  BY DEF SplitInit, SplitTypeInv, None, UnwrittenTile, Warp, Pass
<1>2. BarrierInv
  BY WarpZero DEF SplitInit, BarrierInv, Early
<1>3. LoopInv
  BY SmallRemainder DEF SplitInit, LoopInv, Warp
<1>4. AccInv
  <2> SUFFICES ASSUME NEW x \in Warp, NEW p \in Pass, NEW t \in Term
               PROVE  acc[x][p][t] = 0 /\ ~Has(x, p, t[2])
    BY DEF AccInv
  <2>1. acc[x][p][t] = 0
    BY DEF SplitInit, None
  <2>2. t[2] \in Nat
    BY DEF Term, Block
  <2>3. ~(t[2] % WARPS = x /\ t[2] < kb[x])
    BY <2>2, SmallRemainder DEF SplitInit, Warp
  <2>4. Added(p) = 1
    BY WarpZero DEF SplitInit, Added, Pass
  <2> QED  BY <2>1, <2>3, <2>4 DEF Has
<1>5. StageInv /\ OutInv
  BY WarpZero DEF SplitInit, StageInv, OutInv
<1> QED  BY <1>1, <1>2, <1>3, <1>4, <1>5 DEF SplitIInv

-----------------------------------------------------------------------------
(* One lemma per action.  WarpGoto leaves the other warps where they are. *)

LEMMA MultiplyKeeps ==
  ASSUME SplitKAssumption, SplitIInv, NEW x \in Warp, Multiply(x) PROVE SplitIInv'
<1> USE DEF SplitKAssumption, SplitIInv
<1>1. kb[x] \in Block /\ WARPS \in Nat \ {0} /\ kb[x] \in Nat /\ kb'[x] = kb[x] + WARPS
  BY DEF Multiply, SplitTypeInv, Block
<1> DEFINE Plus1(p) == PlusBlock(acc[x][p], <<p, kb[x]>>)
<1>0. /\ acc' = [acc EXCEPT ![x] = [p \in Pass |-> Plus1(p)]] /\ warp_pc[x] = "loop"
      /\ kb' = [kb EXCEPT ![x] = kb[x] + WARPS]
      /\ w' = w /\ pass' = pass /\ warp_pc' = warp_pc /\ sAcc' = sAcc /\ out' = out
  BY DEF Multiply, SplitTypeInv
<1>2. SplitTypeInv'
  <2>1. \A p \in Pass : Plus1(p) \in [Term -> Int]
    BY <1>1 DEF SplitTypeInv, Term, PlusBlock
  <2> HIDE DEF Plus1
  <2>2. acc' \in [Warp -> [Pass -> [Term -> Int]]]
    BY <2>1, <1>0 DEF SplitTypeInv
  <2>3. kb' \in [Warp -> Nat]
    BY <1>0, <1>1 DEF SplitTypeInv
  <2> QED  BY <2>2, <2>3, <1>0 DEF SplitTypeInv
<1>3. BarrierInv'
  BY DEF Multiply, BarrierInv, Early
<1>4. LoopInv'
  BY <1>1, NextMember DEF Multiply, LoopInv, SplitTypeInv
<1>5. AccInv'
  <2> SUFFICES ASSUME NEW y \in Warp, NEW p \in Pass, NEW t \in Term
               PROVE  acc'[y][p][t] = IF t[1] = p /\ Has(y, p, t[2])' THEN 1 ELSE 0
    BY DEF AccInv
  <2>1. acc[y][p][t] = IF t[1] = p /\ Has(y, p, t[2]) THEN 1 ELSE 0
    BY DEF AccInv
  <2>2. t[1] \in Pass /\ t[2] \in Nat /\ t = <<t[1], t[2]>>
    BY DEF Term, Block
  <2>3. CASE y # x
    <3>1. acc'[y] = acc[y] /\ kb'[y] = kb[y]
      BY <2>3 DEF Multiply, SplitTypeInv
    <3> QED  BY <2>1, <3>1 DEF Has, Added, Multiply
  <2>4. CASE y = x
    <3>1. acc'[x][p][t] = IF t = <<p, kb[x]>> THEN acc[x][p][t] + 1 ELSE acc[x][p][t]
      <4>1. acc'[x][p] = Plus1(p)
        BY <1>0 DEF SplitTypeInv
      <4>2. acc[x][p] \in [Term -> Int]
        BY DEF SplitTypeInv
      <4> QED  BY <4>1, <4>2 DEF PlusBlock
    <3>2. t = <<p, kb[x]>> <=> t[1] = p /\ t[2] = kb[x]
      BY <2>2
    <3>3. kb[x] % WARPS = x
      BY DEF LoopInv
    <3>4. ASSUME t[2] = kb[x] PROVE ~Has(x, p, t[2]) /\ Has(x, p, t[2])'
      BY <3>3, <3>4, <1>1, WarpZero DEF Has, Multiply
    <3>5. ASSUME t[2] # kb[x] PROVE Has(x, p, t[2])' <=> Has(x, p, t[2])
      <4>1. t[2] % WARPS = x => (t[2] < kb'[x] <=> t[2] < kb[x])
        BY <3>3, <3>5, <1>1, <2>2, NoMemberBetween
      <4> QED  BY <4>1 DEF Has, Added, Multiply
    <3> QED  BY <2>1, <2>4, <3>1, <3>2, <3>4, <3>5
  <2> QED  BY <2>3, <2>4
<1>6. StageInv' /\ OutInv'
  <2>1. \A y \in Warp \ {x} : acc'[y] = acc[y]
    BY <1>0 DEF SplitTypeInv
  <2> QED  BY <2>1, <1>0, WarpZero DEF StageInv, OutInv, SplitTypeInv
<1> QED  BY <1>2, <1>3, <1>4, <1>5, <1>6

LEMMA StageKeeps ==
  ASSUME SplitKAssumption, SplitIInv, NEW x \in Warp, Stage(x) PROVE SplitIInv'
<1> USE DEF SplitKAssumption, SplitIInv
<1>1. SplitTypeInv'
  BY DEF Stage, WarpGoto, SplitTypeInv
<1>2. BarrierInv'
  BY DEF Stage, WarpGoto, BarrierInv, Early, SplitTypeInv
<1>3. LoopInv'
  BY DEF Stage, WarpGoto, LoopInv, SplitTypeInv
<1>4. AccInv'
  BY DEF Stage, AccInv, Has, Added
<1>5. StageInv'
  BY DEF Stage, WarpGoto, StageInv, SplitTypeInv
<1>6. OutInv'
  BY DEF Stage, WarpGoto, OutInv, SplitTypeInv
<1> QED  BY <1>1, <1>2, <1>3, <1>4, <1>5, <1>6

LEMMA ReduceKeeps ==
  ASSUME SplitKAssumption, SplitIInv, Reduce PROVE SplitIInv'
<1> USE DEF SplitKAssumption, SplitIInv
<1> DEFINE q == pass[0]
<1>1. /\ 0 \in Warp /\ w \in Warp \ {0} /\ q \in Pass /\ pass[w] = q
      /\ w \in Nat /\ WARPS \in Nat \ {0} /\ PASSES \in Nat /\ w' = w + 1
  BY WarpZero DEF Reduce, SplitTypeInv, BarrierInv, Warp
<1>2. sAcc[w] = acc[w][q] /\ warp_pc[w] # "loop"
  BY <1>1 DEF Reduce, BarrierInv, Early, StageInv
<1>3. /\ acc' = [acc EXCEPT ![0][q] = Plus(@, sAcc[w])]
      /\ acc[0][q] \in [Term -> Int] /\ sAcc[w] \in [Term -> Int]
  BY <1>1 DEF Reduce, SplitTypeInv
<1>4. SplitTypeInv'
  <2>1. Plus(acc[0][q], sAcc[w]) \in [Term -> Int]
    BY <1>3 DEF Plus
  <2>2. acc' \in [Warp -> [Pass -> [Term -> Int]]]
    BY <2>1, <1>1, <1>3 DEF SplitTypeInv
  <2>3. w' \in 1 .. WARPS
    BY <1>1 DEF Warp
  <2> QED  BY <2>2, <2>3 DEF Reduce, SplitTypeInv
<1>5. BarrierInv'
  BY <1>1 DEF Reduce, BarrierInv, Early
<1>6. LoopInv'
  BY DEF Reduce, LoopInv
<1>7. AccInv'
  <2> SUFFICES ASSUME NEW y \in Warp, NEW p \in Pass, NEW t \in Term
               PROVE  acc'[y][p][t] = IF t[1] = p /\ Has(y, p, t[2])' THEN 1 ELSE 0
    BY DEF AccInv
  <2>1. acc[y][p][t] = IF t[1] = p /\ Has(y, p, t[2]) THEN 1 ELSE 0
    BY DEF AccInv
  <2>0. t[2] \in Nat /\ t[2] < KB
    BY DEF Term, Block
  <2>2. t[2] \in Nat /\ t[2] < KB /\ t[2] % WARPS \in 0 .. WARPS-1
    BY <2>0, <1>1, Division
  <2>3. CASE y # 0 \/ p # q
    <3>1. acc'[y][p] = acc[y][p]
      BY <2>3, <1>1, <1>3 DEF SplitTypeInv
    <3>2. Has(y, p, t[2])' <=> Has(y, p, t[2])
      BY <2>3, <1>1 DEF Has, Added, Reduce
    <3> QED  BY <2>1, <3>1, <3>2
  <2>4. CASE y = 0 /\ p = q
    <3>0. p \in Pass /\ p = pass[0] /\ pass' = pass /\ kb' = kb
      BY <2>4 DEF Reduce
    <3>1. acc'[0][p][t] = acc[0][p][t] + acc[w][p][t]
      BY <2>4, <1>1, <1>2, <1>3 DEF Plus, SplitTypeInv
    <3>2. acc[w][p][t] = IF t[1] = p /\ t[2] % WARPS = w THEN 1 ELSE 0
      <4>1. kb[w] \in Nat /\ kb[w] >= KB
        BY <1>1, <1>2 DEF LoopInv, SplitTypeInv
      <4> QED  BY <4>1, <1>1, <2>2 DEF AccInv, Has
    <3>3. Added(p) = w /\ Added(p)' = w + 1
      BY <3>0, <1>1 DEF Added, Pass
    <3>4. Has(0, p, t[2])' <=> Has(0, p, t[2]) \/ t[2] % WARPS = w
      BY <1>1, <2>2, <3>0, <3>3 DEF Has
    <3>5. t[2] % WARPS = w => ~Has(0, p, t[2])
      BY <1>1, <3>3 DEF Has
    <3>6. acc[0][p][t] = IF t[1] = p /\ Has(0, p, t[2]) THEN 1 ELSE 0
      BY <1>1 DEF AccInv
    <3>7. acc'[0][p][t] = IF t[1] = p /\ Has(0, p, t[2])' THEN 1 ELSE 0
      BY <3>1, <3>2, <3>4, <3>5, <3>6
    <3> QED  BY <2>4, <3>7 DEF Has, Added
  <2> QED  BY <2>3, <2>4
<1>8. StageInv' /\ OutInv'
  BY <1>1, <1>3 DEF Reduce, StageInv, OutInv, SplitTypeInv
<1> QED  BY <1>4, <1>5, <1>6, <1>7, <1>8

LEMMA ReducedKeeps ==
  ASSUME SplitKAssumption, SplitIInv, NEW x \in Warp, Reduced(x) PROVE SplitIInv'
<1> USE DEF SplitKAssumption, SplitIInv
<1>0. /\ 0 \in Warp /\ warp_pc[x] = "reduce" /\ pass[x] \in Pass /\ (x = 0 => w = WARPS)
      /\ \/ pass[x] < PASSES /\ warp_pc' = [warp_pc EXCEPT ![x] = "reduced"] /\ out' = out
         \/ /\ pass[x] = PASSES /\ warp_pc' = [warp_pc EXCEPT ![x] = "done"]
            /\ out' = IF x = 0 THEN acc[0] ELSE out
      /\ acc' = acc /\ kb' = kb /\ w' = w /\ pass' = pass /\ sAcc' = sAcc
  BY WarpZero DEF Reduced, WarpGoto, SplitTypeInv, Pass
<1>1. SplitTypeInv'
  <2>1. acc[0] \in [Pass -> [Term -> Int]]
    BY <1>0 DEF SplitTypeInv
  <2>2. out' \in [Pass -> [Term -> Int]]
    BY <1>0, <2>1 DEF SplitTypeInv
  <2>3. warp_pc' \in [Warp -> {"loop", "stage", "staged", "reduce", "reduced", "done"}]
    BY <1>0 DEF SplitTypeInv
  <2> QED  BY <1>0, <2>2, <2>3 DEF SplitTypeInv
<1>2. BarrierInv'
  <2>1. \A y \in Warp : Early(y)' <=> Early(y)
    BY <1>0 DEF Early, SplitTypeInv
  <2>2. \A y \in Warp : /\ warp_pc'[y] = "done" => pass[y] = PASSES
                        /\ warp_pc'[y] = "reduced" => pass[y] < PASSES
    BY <1>0 DEF BarrierInv, SplitTypeInv
  <2>3. warp_pc'[0] \in {"reduced", "done"} => w = WARPS
    BY <1>0 DEF BarrierInv, SplitTypeInv
  <2> QED  BY <1>0, <2>1, <2>2, <2>3 DEF BarrierInv
<1>3. LoopInv'
  BY DEF Reduced, WarpGoto, LoopInv, SplitTypeInv
<1>4. AccInv'
  BY DEF Reduced, AccInv, Has, Added
<1>5. StageInv'
  BY DEF Reduced, WarpGoto, StageInv, SplitTypeInv
<1>6. OutInv'
  BY <1>0 DEF OutInv, SplitTypeInv
<1> QED  BY <1>1, <1>2, <1>3, <1>4, <1>5, <1>6

LEMMA BarrierKeeps ==
  ASSUME SplitKAssumption, SplitIInv, SplitBarrier PROVE SplitIInv'
<1> USE DEF SplitKAssumption, SplitIInv
<1>1. CASE /\ \A x \in Warp : warp_pc[x] = "staged"
           /\ warp_pc' = [x \in Warp |-> "reduce"] /\ UNCHANGED <<pass, w>>
  <2>1. SplitTypeInv' /\ BarrierInv' /\ LoopInv'
    BY <1>1, WarpZero DEF SplitBarrier, SplitTypeInv, BarrierInv, Early, LoopInv
  <2>2. AccInv'
    BY <1>1 DEF SplitBarrier, AccInv, Has, Added
  <2>3. StageInv' /\ OutInv'
    BY <1>1, WarpZero DEF SplitBarrier, StageInv, OutInv
  <2> QED  BY <2>1, <2>2, <2>3
<1>2. CASE /\ \A x \in Warp : warp_pc[x] = "reduced"
           /\ warp_pc' = [x \in Warp |-> "stage"]
           /\ pass' = [x \in Warp |-> pass[x] + 1] /\ w' = 1
  <2>1. /\ 0 \in Warp /\ warp_pc[0] = "reduced" /\ w = WARPS /\ pass'[0] = pass[0] + 1
        /\ \A x \in Warp : pass[x] \in Pass /\ pass[x] < PASSES
    BY <1>2, WarpZero DEF BarrierInv, SplitTypeInv
  <2>2. SplitTypeInv' /\ BarrierInv' /\ LoopInv'
    BY <1>2, <2>1 DEF SplitBarrier, SplitTypeInv, BarrierInv, Early, LoopInv, Pass
  <2>3. AccInv'
    <3>1. \A p \in Pass : Added(p)' = Added(p)
      BY <1>2, <2>1 DEF Added, Pass
    <3> QED  BY <3>1, <1>2 DEF SplitBarrier, AccInv, Has
  <2>4. StageInv' /\ OutInv'
    BY <1>2, <2>1 DEF SplitBarrier, StageInv, OutInv
  <2> QED  BY <2>2, <2>3, <2>4
<1> QED  BY <1>1, <1>2 DEF SplitBarrier
-----------------------------------------------------------------------------
LEMMA Exactly == ASSUME SplitKAssumption, SplitIInv PROVE EveryBlockOnce
<1> USE DEF SplitKAssumption, SplitIInv
<1> SUFFICES ASSUME warp_pc[0] = "done" PROVE out = [p \in Pass |-> Exact(p)]
  BY DEF EveryBlockOnce
<1>1. 0 \in Warp /\ out = acc[0] /\ w = WARPS /\ pass[0] = PASSES /\ kb[0] >= KB /\ kb[0] \in Nat
  BY WarpZero DEF OutInv, BarrierInv, LoopInv, SplitTypeInv
<1>2. \A p \in Pass : Added(p) = WARPS
  BY <1>1 DEF Added, Pass
<1>3. ASSUME NEW p \in Pass, NEW t \in Term PROVE acc[0][p][t] = Exact(p)[t]
  <2>0. t[2] \in Nat /\ t[2] < KB
    BY DEF Term, Block
  <2>1. t[2] \in Nat /\ t[2] < KB /\ t[2] % WARPS \in 0 .. WARPS-1
    BY <2>0, Division
  <2>2. Has(0, p, t[2])
    BY <2>1, <1>1, <1>2 DEF Has
  <2> QED  BY <2>2, <1>1 DEF AccInv, Exact
<1>4. \A p \in Pass : acc[0][p] = Exact(p)
  BY <1>1, <1>3 DEF SplitTypeInv, Exact
<1> QED  BY <1>1, <1>4 DEF SplitTypeInv

LEMMA SplitIInvHolds == ASSUME SplitKAssumption PROVE SplitSpec => []SplitIInv
<1>1. SplitInit => SplitIInv
  BY SplitInitially
<1>2. SplitIInv /\ [SplitNext]_splitVars => SplitIInv'
  <2> SUFFICES ASSUME SplitIInv, [SplitNext]_splitVars PROVE SplitIInv'
    OBVIOUS
  <2>1. CASE SplitBarrier
    BY <2>1, BarrierKeeps
  <2>2. CASE Reduce
    BY <2>2, ReduceKeeps
  <2>3. CASE \E x \in Warp : Multiply(x) \/ Stage(x) \/ Reduced(x)
    BY <2>3, MultiplyKeeps, StageKeeps, ReducedKeeps
  <2>4. CASE UNCHANGED splitVars
    BY <2>4 DEF splitVars, SplitIInv, SplitTypeInv, BarrierInv, Early, LoopInv, AccInv, Has, Added, StageInv,
                OutInv
  <2> QED  BY <2>1, <2>2, <2>3, <2>4 DEF SplitNext
<1> QED  BY <1>1, <1>2, PTL DEF SplitSpec

(***************************************************************************)
(* moe_grouped_gemm_swiglu_q and moe_grouped_gemm_rect_q: however many     *)
(* warps split the contraction, and however they interleave between the    *)
(* barriers, every product that is stored has every block once.            *)
(***************************************************************************)
THEOREM ProductIsExact == ASSUME SplitKAssumption PROVE SplitSpec => []EveryBlockOnce
<1>1. SplitIInv => EveryBlockOnce
  BY Exactly
<1> QED  BY <1>1, SplitIInvHolds, PTL

-----------------------------------------------------------------------------
(***************************************************************************)
(* Variable-length prefill: sums over a simdgroup's sequences as           *)
(* differences of sums over prefixes, and what each dispatch has left.     *)
(***************************************************************************)
TilesTo(s) == Tiles(0 .. s-1)
PadsTo(s)  == Pads(0 .. s-1)

\* The first sequence of a simdgroup.
ChunkSize   == (NumSeqs + nthreads-1) \div nthreads
FirstSeq(g) == LET x == g * (SeqLanes * ChunkSize) IN IF x > NumSeqs THEN NumSeqs ELSE x

BatchInv ==
  \E len \in SeqLengths : cu_seqlens = [s \in 0 .. NumSeqs |-> SumFunctionOnSet(len, 0 .. s-1)]

\* Between which barriers a simdgroup is.
PhaseOf(label) ==
  IF label \in {"count", "counted"} THEN "first count"
  ELSE IF label \in {"sum tiles", "summed"} THEN "first sum"
  ELSE IF label \in {"publish", "published"} THEN "second count" ELSE "second sum"

PlanTypeInv ==
  /\ qlens \in [Seqs -> Int] /\ pad_off \in [0 .. NumSeqs -> Int]
  /\ tile_seq \in [WorkTile -> Int] /\ tile_local0 \in [WorkTile -> Int]
  /\ varlen_pc \in [SeqSimdgroup -> {"count", "counted", "sum tiles", "summed", "publish",
                                     "published", "sum pads", "emit", "fill", "done"}]
  /\ varlen_sums \in [SeqSimdgroup -> Int]
  /\ base_tile \in [SeqSimdgroup -> Int] /\ base_pad \in [SeqSimdgroup -> Int]
  /\ total_tiles \in [SeqSimdgroup -> Int]

TogetherInv == \A g, h \in SeqSimdgroup : PhaseOf(varlen_pc[g]) = PhaseOf(varlen_pc[h])

\* The sums that simdgroups publish, and the bases they make of them.
PlanScanInv ==
  \A g \in SeqSimdgroup :
    /\ varlen_pc[g] \in {"counted", "sum tiles", "summed", "publish"} =>
         varlen_sums[g] = Tiles(Chunks(g))
    /\ varlen_pc[g] \in {"published", "sum pads", "emit", "fill", "done"} =>
         varlen_sums[g] = Pads(Chunks(g))
    /\ varlen_pc[g] \notin {"count", "counted", "sum tiles"} =>
         base_tile[g] = TilesTo(FirstSeq(g)) /\ total_tiles[g] = TilesTo(NumSeqs)
    /\ varlen_pc[g] \in {"emit", "fill", "done"} => base_pad[g] = PadsTo(FirstSeq(g))

\* What simdgroups have stored: lengths, totals, tiles, and the tail.
PlanInv ==
  \A g \in SeqSimdgroup :
    /\ varlen_pc[g] # "count" => \A s \in Chunks(g) : qlens[s] = qlen(s)
    /\ g = 0 /\ varlen_pc[g] \in {"emit", "fill", "done"} =>
         pad_off[NumSeqs] = PadsTo(NumSeqs) /\ n_tiles = TilesTo(NumSeqs)
    /\ varlen_pc[g] \in {"fill", "done"} =>
         \A s \in Chunks(g) :
           /\ pad_off[s] = PadsTo(s)
           /\ \A i \in TilesTo(s) .. TilesTo(s+1)-1 :
                tile_seq[i] = s /\ tile_local0[i] = (i - TilesTo(s)) * SeqTile
    /\ varlen_pc[g] = "done" =>
         \A i \in WorkTile : i >= TilesTo(NumSeqs) /\ i % nthreads \in LanesOf(g) =>
           tile_seq[i] = -1 /\ tile_local0[i] = 0

\* What the three later dispatches write.
PaddedQueries ==
  [p \in 0 .. PadsTo(NumSeqs)-1 |->
     LET s == SequenceAt(pad_off, p)
         i == p - pad_off[s]
     IN  IF i < qlen(s) THEN <<"q", cu_seqlens[s] + i>> ELSE <<"zero">>]

TileResults ==
  [p \in DOMAIN q_hm |->
     LET gx == p \div SeqTile
     IN  IF tile_seq[gx] < 0 THEN <<"undef">>
         ELSE <<tile_seq[gx], tile_local0[gx] + (p % SeqTile), q_hm[p]>>]

PackedResults ==
  [t \in 0 .. cu_seqlens[NumSeqs]-1 |->
     LET s == SequenceAt(cu_seqlens, t) IN o_hm[pad_off[s] + (t - cu_seqlens[s])]]

PrefillInv ==
  /\ q_hm # <<>> => Built /\ q_hm = PaddedQueries
  /\ o_hm # <<>> => q_hm # <<>> /\ o_hm = TileResults
  /\ o_packed # <<>> => o_hm # <<>> /\ o_packed = PackedResults

VarlenIInv == BatchInv /\ PlanTypeInv /\ TogetherInv /\ PlanScanInv /\ PlanInv /\ PrefillInv
-----------------------------------------------------------------------------
Groups == nthreads \div SeqLanes

\* The threads are whole simdgroups, and their chunks reach all sequences.
LEMMA PlanSizes ==
  ASSUME VarlenAssumption
  PROVE  /\ NumSeqs \in Nat /\ NumSeqs >= 1 /\ SeqTile \in Nat /\ SeqTile >= 1
         /\ SeqLanes \in Nat /\ SeqLanes >= 1 /\ nthreads \in Nat /\ nthreads >= 1
         /\ Groups \in Nat /\ Groups >= 1 /\ nthreads = Groups * SeqLanes
         /\ SeqSimdgroup = 0 .. Groups-1 /\ Seqs = 0 .. NumSeqs-1
         /\ ChunkSize \in Nat /\ ChunkSize >= 1
         /\ SeqLanes * ChunkSize \in Nat /\ Groups * (SeqLanes * ChunkSize) >= NumSeqs
<1> DEFINE L == SeqLanes
           c == ChunkSize
           n == nthreads
<1>1. /\ NumSeqs \in Nat /\ NumSeqs >= 1 /\ SeqTile \in Nat /\ SeqTile >= 1
      /\ L \in Nat \ {0} /\ L >= 1 /\ SeqThreads \in Nat \ {0} /\ SeqThreads % L = 0
  BY DEF VarlenAssumption
<1>2. \E k \in Nat : k >= 1 /\ n = k * L
  <2> DEFINE q == (NumSeqs + L-1) \div L
             m == SeqThreads \div L
  <2>1. /\ q \in Nat /\ (NumSeqs + L-1) % L \in 0 .. L-1
        /\ NumSeqs + L-1 = L * q + ((NumSeqs + L-1) % L)
    <3>1. NumSeqs + L-1 \in Nat
      BY <1>1
    <3> QED  BY <3>1, <1>1, Division
  <2>2. m \in Nat /\ SeqThreads = L * m + (SeqThreads % L)
    BY <1>1, Division
  <2>3. n = IF q * L > SeqThreads THEN SeqThreads ELSE q * L
    BY DEF nthreads
  <2> HIDE DEF q, m, n, L
  <2>4. q >= 1
    <3>1. L * q >= NumSeqs
      BY <2>1, <1>1
    <3>2. q = 0 => L * q = 0
      BY <1>1
    <3> QED  BY <2>1, <3>1, <3>2, <1>1
  <2>5. SeqThreads = L * m /\ m >= 1
    <3>1. SeqThreads = L * m
      BY <2>2, <1>1
    <3>2. m = 0 => L * m = 0
      BY <1>1
    <3> QED  BY <2>2, <3>1, <3>2, <1>1
  <2>6. L * m = m * L
    BY <1>1, <2>2
  <2> QED  BY <2>1, <2>2, <2>3, <2>4, <2>5, <2>6
<1>3. PICK k \in Nat : k >= 1 /\ n = k * L
  BY <1>2
<1> HIDE DEF n, L
<1>4. n \in Nat /\ n >= 1 /\ n \div L = k
  <2>1. 0 \in 0 .. L-1 /\ k \in 0 .. (k+1)-1 /\ k * L + 0 = n
    BY <1>1, <1>3
  <2>2. n \div L = k
    BY <2>1, <1>1, <1>3, RowMajor
  <2>3. n >= 1 /\ n \in Nat
    BY <1>1, <1>3
  <2> QED  BY <2>2, <2>3
<1>5. Groups = k
  BY <1>4 DEF Groups, n, L
<1>6. c \in Nat /\ n * c >= NumSeqs
  <2> DEFINE x == NumSeqs + n-1
  <2>1. x \in Nat /\ n \in Nat \ {0}
    BY <1>1, <1>4
  <2>2. x \div n \in Nat /\ x % n \in 0 .. n-1 /\ x = n * (x \div n) + (x % n)
    BY <2>1, Division
  <2>3. c = x \div n
    BY DEF ChunkSize, n
  <2> HIDE DEF c
  <2> QED  BY <2>2, <2>3, <1>1, <1>4
<1> HIDE DEF c
<1>7. c >= 1
  <2>1. c = 0 => n * c = 0
    BY <1>4
  <2> QED  BY <2>1, <1>1, <1>6
<1>8. L * c \in Nat /\ k * (L * c) = n * c
  BY <1>1, <1>3, <1>6
<1>9. k * (L * c) >= NumSeqs
  BY <1>6, <1>8
<1> QED  BY <1>1, <1>3, <1>4, <1>5, <1>6, <1>7, <1>8, <1>9 DEF n, L, c, SeqSimdgroup, Groups, Seqs

LEMMA FirstSeqs ==
  ASSUME VarlenAssumption
  PROVE  /\ FirstSeq(0) = 0 /\ FirstSeq(Groups) = NumSeqs
         /\ \A g \in 0 .. Groups : FirstSeq(g) \in 0 .. NumSeqs
         /\ \A g \in SeqSimdgroup : FirstSeq(g) <= FirstSeq(g+1) /\ g+1 \in 0 .. Groups
<1> DEFINE M == SeqLanes * ChunkSize
<1>1. /\ NumSeqs \in Nat /\ Groups \in Nat /\ M \in Nat /\ Groups * M >= NumSeqs
      /\ SeqSimdgroup = 0 .. Groups-1
  BY PlanSizes
<1>2. \A g : FirstSeq(g) = IF g * M > NumSeqs THEN NumSeqs ELSE g * M
  BY DEF FirstSeq
<1> HIDE DEF M
<1>3. 0 * M = 0
  BY <1>1
<1>4. \A g \in 0 .. Groups : g * M \in Nat
  BY <1>1
<1>5. \A g \in SeqSimdgroup : (g+1) * M = g * M + M /\ g+1 \in 0 .. Groups /\ g \in 0 .. Groups
  BY <1>1
<1>6. FirstSeq(0) = 0 /\ FirstSeq(Groups) = NumSeqs
  <2>1. Groups * M \in Nat
    BY <1>1
  <2> QED  BY <2>1, <1>1, <1>2, <1>3
<1>7. \A g \in 0 .. Groups : FirstSeq(g) \in 0 .. NumSeqs
  BY <1>1, <1>2, <1>4
<1>8. ASSUME NEW g \in SeqSimdgroup PROVE FirstSeq(g) <= FirstSeq(g+1)
  <2> DEFINE x == g * M
             y == (g+1) * M
  <2>1. x \in Nat /\ y = x + M
    BY <1>4, <1>5
  <2>2. FirstSeq(g) = (IF x > NumSeqs THEN NumSeqs ELSE x) /\ FirstSeq(g+1) = IF y > NumSeqs THEN NumSeqs ELSE y
    BY <1>2
  <2> HIDE DEF x, y
  <2> QED  BY <2>1, <2>2, <1>1
<1> QED  BY <1>5, <1>6, <1>7, <1>8

\* The sequences of a simdgroup's threads are consecutive.
LEMMA ChunksAre ==
  ASSUME VarlenAssumption, NEW g \in SeqSimdgroup
  PROVE  Chunks(g) = FirstSeq(g) .. FirstSeq(g+1)-1
<1> DEFINE L == SeqLanes
           c == ChunkSize
           M == L * c
           lo == g * M
           hi == (g+1) * M
<1>1. /\ NumSeqs \in Nat /\ L \in Nat /\ L >= 1 /\ c \in Nat /\ c >= 1 /\ M \in Nat
      /\ g \in Nat
  BY PlanSizes
<1>2. /\ FirstSeq(g) = IF lo > NumSeqs THEN NumSeqs ELSE lo
      /\ FirstSeq(g+1) = IF hi > NumSeqs THEN NumSeqs ELSE hi
  BY DEF FirstSeq
<1>3. \A t : Chunk(t) = t*c .. (IF t*c + c > NumSeqs THEN NumSeqs ELSE t*c + c) - 1
  BY DEF Chunk, ChunkSize
<1>4. Chunks(g) = UNION {Chunk(t) : t \in g*L .. g*L + L-1}
  BY DEF Chunks, LanesOf
<1> HIDE DEF c, L
<1>5. lo \in Nat /\ hi = lo + M /\ M = L * c /\ g*L \in Nat
  <2>1. lo \in Nat /\ hi = lo + M
    <3> HIDE DEF M
    <3> QED  BY <1>1
  <2> QED  BY <2>1, <1>1
<1>6. \A k \in 0 .. L-1 : /\ (g*L + k) * c = lo + k * c /\ k * c \in Nat /\ k * c + c <= M
  <2>1. ASSUME NEW k \in 0 .. L-1
        PROVE  (g*L + k) * c = lo + k * c /\ k * c \in Nat /\ k * c + c <= M
    <3>1. (g*L + k) * c = lo + k * c /\ k * c \in Nat
      BY <1>1
    <3>2. PICK d \in Nat : k + 1 + d = L
      <4>1. L - (k+1) \in Nat
        BY <1>1
      <4> QED  BY <4>1, <1>1
    <3>3. L * c = k * c + c + d * c /\ d * c \in Nat
      BY <3>2, <1>1
    <3> QED  BY <3>1, <3>3, <1>1
  <2> QED  BY <2>1
<1> HIDE DEF M, lo, hi
<1>7. ASSUME NEW s \in Chunks(g) PROVE s \in FirstSeq(g) .. FirstSeq(g+1)-1
  <2>1. PICK t \in g*L .. g*L + L-1 : s \in Chunk(t)
    BY <1>4
  <2>2. PICK k \in 0 .. L-1 : t = g*L + k
    <3>1. t - g*L \in 0 .. L-1 /\ t = g*L + (t - g*L)
      BY <1>1, <1>5
    <3> QED  BY <3>1
  <2> DEFINE x == k * c
  <2>3. t * c = lo + x /\ x \in Nat /\ x + c <= M
    BY <1>6, <2>2
  <2>4. s \in lo + x .. (IF lo + x + c > NumSeqs THEN NumSeqs ELSE lo + x + c) - 1
    BY <2>1, <2>3, <1>3
  <2> HIDE DEF x
  <2>5. s \in Int /\ s >= lo /\ s < NumSeqs /\ s < hi
    BY <2>3, <2>4, <1>1, <1>5
  <2> QED  BY <2>5, <1>1, <1>2, <1>5
<1>8. ASSUME NEW s \in FirstSeq(g) .. FirstSeq(g+1)-1 PROVE s \in Chunks(g)
  <2>1. s \in Nat /\ s >= lo /\ s < NumSeqs /\ s < hi
    BY <1>1, <1>2, <1>5
  <2> DEFINE x == s - lo
             k == x \div c
  <2>2. x \in 0 .. L * c - 1 /\ c \in Nat \ {0}
    BY <2>1, <1>1, <1>5
  <2>3. k \in 0 .. L-1 /\ x % c \in 0 .. c-1 /\ x = k * c + (x % c)
    <3> HIDE DEF x
    <3> QED  BY <2>2, <1>1, RowAndColumn
  <2> DEFINE y == k * c
             t == g*L + k
  <2>4. t \in g*L .. g*L + L-1 /\ t * c = lo + y /\ y \in Nat
    <3>1. t \in g*L .. g*L + L-1
      <4> HIDE DEF k
      <4> QED  BY <2>3, <1>1, <1>5
    <3> HIDE DEF k
    <3> QED  BY <3>1, <2>3, <1>6
  <2>5. y <= s - lo /\ s - lo < y + c
    <3> HIDE DEF k
    <3>1. x = y + (x % c)
      BY <2>3
    <3> HIDE DEF y
    <3> QED  BY <3>1, <2>3, <2>4, <1>1, <2>1, <1>5
  <2> HIDE DEF y, t, k, x
  <2>6. s \in lo + y .. (IF lo + y + c > NumSeqs THEN NumSeqs ELSE lo + y + c) - 1
    BY <2>1, <2>4, <2>5, <1>1, <1>5
  <2>7. s \in Chunk(t)
    BY <2>4, <2>6, <1>3
  <2> QED  BY <2>4, <2>7, <1>4
<1> QED  BY <1>7, <1>8

LEMMA SumOfGroups ==
  ASSUME VarlenAssumption, NEW f, \A s \in Seqs : f[s] \in Nat, NEW sums, NEW G \in 0 .. Groups,
         \A h \in 0 .. G-1 : sums[h] = SumFunctionOnSet(f, Chunks(h))
  PROVE  SumFunctionOnSet(sums, 0 .. G-1) = SumFunctionOnSet(f, 0 .. FirstSeq(G)-1)
<1> DEFINE Good == {m \in 0 .. G :
             SumFunctionOnSet(sums, 0 .. m-1) = SumFunctionOnSet(f, 0 .. FirstSeq(m)-1)}
<1>1. /\ Groups \in Nat /\ NumSeqs \in Nat /\ G \in Nat /\ SeqSimdgroup = 0 .. Groups-1
      /\ \A s \in 0 .. NumSeqs-1 : f[s] \in Nat
  BY PlanSizes
<1>2. \A h \in 0 .. G-1 : /\ h \in SeqSimdgroup /\ h \in 0 .. Groups /\ h+1 \in 0 .. Groups
                          /\ FirstSeq(h) \in 0 .. NumSeqs /\ FirstSeq(h+1) \in FirstSeq(h) .. NumSeqs
                          /\ sums[h] = SumFunctionOnSet(f, FirstSeq(h) .. FirstSeq(h+1)-1)
                          /\ sums[h] \in Nat
  <2>1. ASSUME NEW h \in 0 .. G-1
        PROVE  /\ h \in SeqSimdgroup /\ h \in 0 .. Groups /\ h+1 \in 0 .. Groups
               /\ FirstSeq(h) \in 0 .. NumSeqs /\ FirstSeq(h+1) \in FirstSeq(h) .. NumSeqs
               /\ sums[h] = SumFunctionOnSet(f, FirstSeq(h) .. FirstSeq(h+1)-1)
               /\ sums[h] \in Nat
    <3>1. h \in SeqSimdgroup /\ h \in 0 .. Groups /\ h+1 \in 0 .. Groups
      BY <1>1
    <3>2. FirstSeq(h) \in 0 .. NumSeqs /\ FirstSeq(h+1) \in FirstSeq(h) .. NumSeqs
      BY <3>1, <1>1, FirstSeqs
    <3>3. sums[h] = SumFunctionOnSet(f, FirstSeq(h) .. FirstSeq(h+1)-1)
      BY <3>1, ChunksAre
    <3>4. SumFunctionOnSet(f, FirstSeq(h) .. FirstSeq(h+1)-1) \in Nat
      BY <3>2, <1>1, SpanSum
    <3> QED  BY <3>1, <3>2, <3>3, <3>4
  <2> QED  BY <2>1
<1>3. \A a \in 0 .. NumSeqs : \A c \in a .. NumSeqs :
        /\ SumFunctionOnSet(f, a .. c-1) \in Nat
        /\ SumFunctionOnSet(f, 0 .. c-1)
             = SumFunctionOnSet(f, 0 .. a-1) + SumFunctionOnSet(f, a .. c-1)
  BY <1>1, SpanSum
<1>4. ASSUME NEW m \in 0 .. G, \A k \in 0 .. m-1 : k \in Good PROVE m \in Good
  <2>1. CASE m = 0
    <3>1. 0 .. m-1 = {} /\ 0 .. FirstSeq(m)-1 = {}
      BY <2>1, FirstSeqs
    <3> QED  BY <3>1, SumEmpty
  <2>2. CASE m # 0
    <3> DEFINE h == m-1
    <3>1. h \in 0 .. m-1 /\ h \in 0 .. G-1 /\ m = h+1 /\ h \in 0 .. G
      BY <2>2, <1>1
    <3> HIDE DEF h
    <3>2. SumFunctionOnSet(sums, 0 .. h) = SumFunctionOnSet(sums, 0 .. h-1) + sums[h]
      <4>1. \A x \in 0 .. G-1 : sums[x] \in Nat
        BY <1>2
      <4> QED  BY <4>1, <3>1, <1>1, SpanSum
    <3>3. SumFunctionOnSet(sums, 0 .. h-1) = SumFunctionOnSet(f, 0 .. FirstSeq(h)-1)
      BY <3>1, <1>4
    <3>4. SumFunctionOnSet(f, 0 .. FirstSeq(m)-1)
            = SumFunctionOnSet(f, 0 .. FirstSeq(h)-1) + SumFunctionOnSet(f, FirstSeq(h) .. FirstSeq(m)-1)
      <4>1. FirstSeq(h) \in 0 .. NumSeqs /\ FirstSeq(m) \in FirstSeq(h) .. NumSeqs
        BY <3>1, <1>2
      <4> QED  BY <4>1, <1>3
    <3>5. sums[h] = SumFunctionOnSet(f, FirstSeq(h) .. FirstSeq(m)-1) /\ m-1 = h
      BY <3>1, <1>1, <1>2
    <3> QED  BY <3>2, <3>3, <3>4, <3>5
  <2> QED  BY <2>1, <2>2
<1>5. 0 .. G \subseteq Good
  <2> HIDE DEF Good
  <2> QED  BY <1>1, <1>4, IntervalInduction
<1> QED  BY <1>1, <1>5

\* Lengths and tiles of the sequences.
LEMMA LengthsAre ==
  ASSUME VarlenAssumption, BatchInv
  PROVE  /\ \A s \in Seqs : /\ qlen(s) \in Nat /\ nt(s) \in Nat /\ nt(s) * SeqTile \in Nat
                            /\ qlen(s) <= nt(s) * SeqTile
                            /\ s \in 0 .. NumSeqs /\ s+1 \in 0 .. NumSeqs
                            /\ cu_seqlens[s+1] = cu_seqlens[s] + qlen(s)
         /\ cu_seqlens \in [0 .. NumSeqs -> Nat] /\ cu_seqlens[0] = 0
         /\ \A a \in 0 .. NumSeqs : \A c \in a .. NumSeqs : cu_seqlens[a] <= cu_seqlens[c]
         /\ TilesTo(NumSeqs) <= SeqTiles
<1>1. PICK len \in SeqLengths :
        cu_seqlens = [s \in 0 .. NumSeqs |-> SumFunctionOnSet(len, 0 .. s-1)]
  BY DEF BatchInv
<1>2. /\ len \in [Seqs -> Nat]
      /\ SumFunctionOnSet([s \in Seqs |-> (len[s] + SeqTile-1) \div SeqTile], Seqs) <= SeqTiles
  BY DEF VarlenAssumption
<1>3. NumSeqs \in Nat /\ Seqs = 0 .. NumSeqs-1 /\ SeqTile \in Nat \ {0}
  BY PlanSizes
<1>4. \A s \in Seqs : s \in 0 .. NumSeqs /\ s+1 \in 0 .. NumSeqs
  BY <1>3
<1>5. \A s \in 0 .. NumSeqs : SumFunctionOnSet(len, 0 .. s-1) \in Nat
  <2>1. ASSUME NEW s \in 0 .. NumSeqs PROVE SumFunctionOnSet(len, 0 .. s-1) \in Nat
    <3>1. \A x \in 0 .. NumSeqs-1 : len[x] \in Nat
      BY <1>2, <1>3
    <3> QED  BY <3>1, <1>3, SpanSum
  <2> QED  BY <2>1
<1>6. cu_seqlens \in [0 .. NumSeqs -> Nat] /\ cu_seqlens[0] = 0
  <2>1. 0 \in 0 .. NumSeqs /\ 0 .. 0-1 = {}
    BY <1>3
  <2> QED  BY <2>1, <1>1, <1>5, SumEmpty
<1>7. ASSUME NEW s \in Seqs PROVE cu_seqlens[s+1] = cu_seqlens[s] + len[s] /\ qlen(s) = len[s]
  <2>1. SumFunctionOnSet(len, 0 .. s) = SumFunctionOnSet(len, 0 .. s-1) + len[s]
    <3>1. \A x \in 0 .. NumSeqs-1 : len[x] \in Nat
      BY <1>2, <1>3
    <3> QED  BY <3>1, <1>3, SpanSum
  <2>2. (s+1)-1 = s
    BY <1>3
  <2>3. cu_seqlens[s+1] = cu_seqlens[s] + len[s]
    BY <2>1, <2>2, <1>1, <1>4
  <2>4. cu_seqlens[s] \in Nat /\ len[s] \in Nat
    BY <1>2, <1>4, <1>6
  <2> QED  BY <2>3, <2>4 DEF qlen
<1>8. ASSUME NEW s \in Seqs
      PROVE nt(s) \in Nat /\ nt(s) * SeqTile \in Nat /\ len[s] <= nt(s) * SeqTile
  <2> DEFINE x == len[s] + SeqTile-1
             y == x \div SeqTile
  <2>1. x \in Nat
    BY <1>2, <1>3
  <2>2. y \in Nat /\ x % SeqTile \in 0 .. SeqTile-1 /\ x = SeqTile * y + (x % SeqTile)
    <3> HIDE DEF x
    <3> QED  BY <2>1, <1>3, Division
  <2>3. nt(s) = y
    BY <1>7 DEF nt
  <2> HIDE DEF y
  <2>4. SeqTile * y = y * SeqTile /\ y * SeqTile \in Nat
    BY <2>2, <1>3
  <2> QED  BY <2>2, <2>3, <2>4, <1>2, <1>3
<1>9. TilesTo(NumSeqs) <= SeqTiles
  <2>1. \A s \in Seqs : nt(s) = (len[s] + SeqTile-1) \div SeqTile
    BY <1>7 DEF nt
  <2>2. [s \in Seqs |-> nt(s)] = [s \in Seqs |-> (len[s] + SeqTile-1) \div SeqTile]
    BY <2>1
  <2> QED  BY <2>2, <1>2, <1>3 DEF TilesTo, Tiles
<1>10. \A s \in Seqs : len[s] \in Nat
  BY <1>2
<1>11. ASSUME NEW a \in 0 .. NumSeqs, NEW c \in a .. NumSeqs PROVE cu_seqlens[a] <= cu_seqlens[c]
  <2>1. \A x \in 0 .. NumSeqs-1 : len[x] \in Nat
    BY <1>2, <1>3
  <2>2. \A x \in 0 .. NumSeqs : \A y \in x .. NumSeqs :
          /\ SumFunctionOnSet(len, x .. y-1) \in Nat
          /\ SumFunctionOnSet(len, 0 .. y-1)
               = SumFunctionOnSet(len, 0 .. x-1) + SumFunctionOnSet(len, x .. y-1)
    BY <2>1, <1>3, SpanSum
  <2>3. c \in 0 .. NumSeqs
    BY <1>3
  <2> QED  BY <2>2, <2>3, <1>1, <1>5
<1> QED  BY <1>4, <1>6, <1>7, <1>8, <1>9, <1>10, <1>11

LEMMA TilesAre ==
  ASSUME VarlenAssumption, BatchInv
  PROVE  /\ TilesTo(0) = 0 /\ PadsTo(0) = 0
         /\ \A s \in Seqs : /\ TilesTo(s+1) = TilesTo(s) + nt(s)
                            /\ PadsTo(s+1) = PadsTo(s) + nt(s) * SeqTile
         /\ \A s \in 0 .. NumSeqs : /\ TilesTo(s) \in Nat /\ PadsTo(s) \in Nat
                                    /\ PadsTo(s) = SeqTile * TilesTo(s)
         /\ \A a \in 0 .. NumSeqs : \A c \in a .. NumSeqs :
              /\ TilesTo(a) <= TilesTo(c) /\ PadsTo(a) <= PadsTo(c)
              /\ TilesTo(a) + Tiles(a .. c-1) = TilesTo(c)
              /\ PadsTo(a) + Pads(a .. c-1) = PadsTo(c)
<1> DEFINE f == [s \in Seqs |-> nt(s)]
           p == [s \in Seqs |-> nt(s) * SeqTile]
<1>1. NumSeqs \in Nat /\ Seqs = 0 .. NumSeqs-1 /\ SeqTile \in Nat
  BY PlanSizes
<1>2. (\A s \in 0 .. NumSeqs-1 : f[s] \in Nat) /\ (\A s \in 0 .. NumSeqs-1 : p[s] \in Nat)
      /\ \A s \in Seqs : f[s] = nt(s) /\ p[s] = nt(s) * SeqTile
  BY <1>1, LengthsAre
<1>3. \A S : Tiles(S) = SumFunctionOnSet(f, S) /\ Pads(S) = SumFunctionOnSet(p, S)
  BY DEF Tiles, Pads
<1> HIDE DEF f, p
<1>4. TilesTo(0) = 0 /\ PadsTo(0) = 0
  <2>1. 0 .. 0-1 = {}
    OBVIOUS
  <2> QED  BY <2>1, <1>3, SumEmpty DEF TilesTo, PadsTo
<1>5. \A s : TilesTo(s) = SumFunctionOnSet(f, 0 .. s-1) /\ PadsTo(s) = SumFunctionOnSet(p, 0 .. s-1)
  BY <1>3 DEF TilesTo, PadsTo
<1>6. ASSUME NEW a \in 0 .. NumSeqs, NEW c \in a .. NumSeqs
      PROVE  /\ TilesTo(a) \in Nat /\ PadsTo(a) \in Nat
             /\ TilesTo(a) <= TilesTo(c) /\ PadsTo(a) <= PadsTo(c)
             /\ TilesTo(a) + Tiles(a .. c-1) = TilesTo(c)
             /\ PadsTo(a) + Pads(a .. c-1) = PadsTo(c)
  <2>1. \A x \in 0 .. NumSeqs : \A y \in x .. NumSeqs :
        /\ SumFunctionOnSet(f, x .. y-1) \in Nat
        /\ SumFunctionOnSet(f, 0 .. y-1)
             = SumFunctionOnSet(f, 0 .. x-1) + SumFunctionOnSet(f, x .. y-1)
    BY <1>1, <1>2, SpanSum
  <2>2. \A x \in 0 .. NumSeqs : \A y \in x .. NumSeqs :
        /\ SumFunctionOnSet(p, x .. y-1) \in Nat
        /\ SumFunctionOnSet(p, 0 .. y-1)
             = SumFunctionOnSet(p, 0 .. x-1) + SumFunctionOnSet(p, x .. y-1)
    BY <1>1, <1>2, SpanSum
  <2>3. \A x \in 0 .. NumSeqs : SumFunctionOnSet(f, 0 .. x-1) \in Nat /\ SumFunctionOnSet(p, 0 .. x-1) \in Nat
    BY <1>1, <1>2, SpanSum
  <2>4. /\ TilesTo(a) \in Nat /\ PadsTo(a) \in Nat /\ Tiles(a .. c-1) \in Nat
        /\ Pads(a .. c-1) \in Nat
        /\ TilesTo(a) + Tiles(a .. c-1) = TilesTo(c)
        /\ PadsTo(a) + Pads(a .. c-1) = PadsTo(c)
    BY <2>1, <2>2, <2>3, <1>3, <1>5
  <2> QED  BY <2>4
<1>7. ASSUME NEW s \in Seqs
      PROVE  TilesTo(s+1) = TilesTo(s) + nt(s) /\ PadsTo(s+1) = PadsTo(s) + nt(s) * SeqTile
  <2>1. s \in 0 .. NumSeqs-1 /\ (s+1)-1 = s
    BY <1>1
  <2>2. /\ SumFunctionOnSet(f, 0 .. s) = SumFunctionOnSet(f, 0 .. s-1) + f[s]
        /\ SumFunctionOnSet(p, 0 .. s) = SumFunctionOnSet(p, 0 .. s-1) + p[s]
    BY <2>1, <1>1, <1>2, SpanSum
  <2> QED  BY <2>1, <2>2, <1>2, <1>5
<1>8. \A s \in 0 .. NumSeqs : TilesTo(s) \in Nat /\ PadsTo(s) \in Nat
  <2>1. \A s \in 0 .. NumSeqs : s \in s .. NumSeqs
    BY <1>1
  <2> QED  BY <2>1, <1>6
<1>9. \A s \in 0 .. NumSeqs : PadsTo(s) = SeqTile * TilesTo(s)
  <2> DEFINE Good == {s \in 0 .. NumSeqs : PadsTo(s) = SeqTile * TilesTo(s)}
  <2>1. ASSUME NEW m \in 0 .. NumSeqs, \A k \in 0 .. m-1 : k \in Good PROVE m \in Good
    <3>1. CASE m = 0
      BY <3>1, <1>1, <1>4
    <3>2. CASE m # 0
      <4> DEFINE s == m-1
      <4>1. s \in 0 .. m-1 /\ s \in Seqs /\ s \in 0 .. NumSeqs /\ m = s+1
        BY <3>2, <1>1
      <4> HIDE DEF s
      <4> DEFINE x == TilesTo(s)
                 y == nt(s)
      <4>2. x \in Nat /\ y \in Nat
        BY <4>1, <1>8, LengthsAre
      <4>3. PadsTo(s) = SeqTile * x /\ TilesTo(m) = x + y /\ PadsTo(m) = PadsTo(s) + y * SeqTile
        BY <4>1, <1>7, <2>1
      <4> HIDE DEF x, y
      <4>4. SeqTile * (x + y) = SeqTile * x + y * SeqTile
        BY <4>2, <1>1
      <4> QED  BY <4>3, <4>4
    <3> QED  BY <3>1, <3>2
  <2>2. 0 .. NumSeqs \subseteq Good
    <3> HIDE DEF Good
    <3> QED  BY <2>1, <1>1, IntervalInduction
  <2> QED  BY <2>2
<1> QED  BY <1>4, <1>6, <1>7, <1>8, <1>9

\* Offsets that do not decrease have one sequence for each position.
LEMMA SequenceAtIs ==
  ASSUME VarlenAssumption, NEW off, off \in [0 .. NumSeqs -> Int],
         \A a \in 0 .. NumSeqs : \A c \in a .. NumSeqs : off[a] <= off[c],
         NEW s \in Seqs, NEW i \in off[s] .. off[s+1]-1
  PROVE  SequenceAt(off, i) = s
<1> DEFINE hit == {k \in Seqs : i < off[k+1]}
<1>1. NumSeqs \in Nat /\ Seqs = 0 .. NumSeqs-1 /\ off[s] \in Int /\ off[s+1] \in Int
  <2>1. NumSeqs \in Nat /\ Seqs = 0 .. NumSeqs-1
    BY PlanSizes
  <2>2. s \in 0 .. NumSeqs /\ s+1 \in 0 .. NumSeqs
    BY <2>1
  <2> QED  BY <2>1, <2>2
<1>2. s \in hit
  BY <1>1
<1>3. \A d \in hit : s <= d
  <2>1. ASSUME NEW d \in hit, ~(s <= d) PROVE FALSE
    <3>1. d+1 \in 0 .. NumSeqs /\ s \in d+1 .. NumSeqs /\ i < off[d+1]
      BY <2>1, <1>1
    <3>2. off[d+1] <= off[s] /\ off[d+1] \in Int
      BY <3>1
    <3> QED  BY <3>1, <3>2, <1>1
  <2> QED  BY <2>1
<1>4. SequenceAt(off, i) = CHOOSE k \in hit : \A d \in hit : k <= d
  BY <1>2 DEF SequenceAt
<1>5. hit \subseteq Int /\ s \in Int
  BY <1>1
<1> DEFINE k0 == CHOOSE k \in hit : \A d \in hit : k <= d
<1>6. k0 \in hit /\ \A d \in hit : k0 <= d
  <2> HIDE DEF hit
  <2> QED  BY <1>2, <1>3
<1>7. k0 = s
  <2> HIDE DEF hit, k0
  <2>1. k0 <= s /\ s <= k0 /\ k0 \in Int
    BY <1>2, <1>3, <1>5, <1>6
  <2> QED  BY <2>1, <1>5
<1> QED  BY <1>4, <1>7

LEMMA PadOwner ==
  ASSUME VarlenAssumption, BatchInv, NEW i \in 0 .. TilesTo(NumSeqs)-1
  PROVE  \E s \in Seqs : i \in TilesTo(s) .. TilesTo(s+1)-1
<1> DEFINE after == {k \in 0 .. NumSeqs : i < TilesTo(k)}
<1>1. NumSeqs \in Nat /\ Seqs = 0 .. NumSeqs-1 /\ TilesTo(0) = 0
      /\ (\A k \in 0 .. NumSeqs : TilesTo(k) \in Nat)
  BY PlanSizes, TilesAre
<1>2. NumSeqs \in after /\ after \subseteq Nat
  BY <1>1
<1>3. PICK m \in after : \A k \in after : m <= k
  <2> HIDE DEF after
  <2> QED  BY <1>2, LeastOf
<1>4. m # 0 /\ m-1 \in Seqs /\ m-1 \in 0 .. NumSeqs /\ (m-1)+1 = m
  BY <1>1
<1>5. m-1 \notin after
  BY <1>3, <1>4
<1>6. i \in TilesTo(m-1) .. TilesTo(m)-1
  BY <1>1, <1>4, <1>5
<1> QED  BY <1>4, <1>6

\* A concatenation, element by element.
LEMMA ConcatIs ==
  ASSUME NEW S, NEW q \in Seq(S), NEW r \in Seq(S)
  PROVE  /\ q \o r \in Seq(S) /\ Len(q \o r) = Len(q) + Len(r)
         /\ \A x \in 1 .. Len(q) : (q \o r)[x] = q[x]
         /\ \A x \in Len(q)+1 .. Len(q) + Len(r) : (q \o r)[x] = r[x - Len(q)]
OBVIOUS

\* The host's plan, by its recursion over the sequences.
LEMMA HostPlan ==
  ASSUME VarlenAssumption, BatchInv
  PROVE  /\ Len(HostWorklist) = TilesTo(NumSeqs)
         /\ \A s \in Seqs : \A i \in TilesTo(s) .. TilesTo(s+1)-1 :
              HostWorklist[i+1] = <<s, (i - TilesTo(s)) * SeqTile>>
<1> DEFINE N == NumSeqs
           SS == Seq(Int \X Int)
           own(s) == [t \in 1 .. nt(s-1) |-> <<s-1, (t-1) * SeqTile>>]
           step == [x \in (1 .. N) \X SS |-> x[2] \o own(x[1])]
           F(tiles) == [s \in 0 .. NumSeqs |->
                          IF s = 0 THEN <<>>
                          ELSE tiles[s-1] \o [t \in 1 .. nt(s-1) |-> <<s-1, (t-1) * SeqTile>>]]
           H == CHOOSE tiles : tiles = F(tiles)
           Upto(s) == TilesTo(s)
<1>1. N \in Nat /\ Seqs = 0 .. N-1 /\ SeqTile \in Nat
  BY PlanSizes
<1>2. \A s \in 1 .. N : s-1 \in Seqs /\ s-1 \in 0 .. N /\ nt(s-1) \in Nat /\ Upto(s) = Upto(s-1) + nt(s-1)
  <2>1. \A s \in 1 .. N : s-1 \in Seqs /\ s-1 \in 0 .. N /\ (s-1)+1 = s
    BY <1>1
  <2> QED  BY <2>1, LengthsAre, TilesAre
<1>3. ASSUME NEW s \in 1 .. N
      PROVE  /\ own(s) \in SS /\ Len(own(s)) = nt(s-1)
             /\ \A t \in 1 .. nt(s-1) : own(s)[t] = <<s-1, (t-1) * SeqTile>>
  <2>1. nt(s-1) \in Nat /\ s-1 \in Int
    BY <1>2
  <2>2. \A t \in 1 .. nt(s-1) : <<s-1, (t-1) * SeqTile>> \in Int \X Int
    BY <2>1, <1>1
  <2> QED  BY <2>1, <2>2
<1> HIDE DEF own
<1>4. step \in [(1 .. N) \X SS -> SS] /\ <<>> \in SS
  BY <1>3
<1>5. \A s \in 1 .. N : \A q \in SS : step[<<s, q>>] = q \o own(s)
  OBVIOUS
<1> HIDE DEF step
<1>6. PICK f \in [0 .. N -> SS] : Follows(f, N, <<>>, step)
  <2> HIDE DEF SS
  <2> QED  BY <1>1, <1>4, RecursionExists
<1>7. f = F(f)
  <2>1. ASSUME NEW s \in 0 .. N PROVE f[s] = IF s = 0 THEN <<>> ELSE f[s-1] \o own(s)
    <3>1. f[s] = IF s = 0 THEN <<>> ELSE step[<<s, f[s-1]>>]
      BY <1>6 DEF Follows
    <3>2. s # 0 => s \in 1 .. N /\ s-1 \in 0 .. N
      BY <1>1
    <3> HIDE DEF SS
    <3> QED  BY <3>1, <3>2, <1>5, <1>6
  <2>2. f = [s \in 0 .. N |-> f[s]]
    BY <1>6
  <2> QED  BY <2>1, <2>2 DEF own
<1>8. H = F(H)
  <2> HIDE DEF F
  <2> QED  BY <1>7
<1>9. HostWorklist = H[N]
  BY DEF HostWorklist
<1> HIDE DEF H
<1>10. \A s \in 0 .. N : H[s] = IF s = 0 THEN <<>> ELSE H[s-1] \o own(s)
  BY <1>8 DEF own
<1>11. H[0] = <<>> /\ \A s \in 1 .. N : H[s] = H[s-1] \o own(s)
  <2>1. 0 \in 0 .. N
    BY <1>1
  <2>2. \A s \in 1 .. N : s \in 0 .. N /\ s # 0
    BY <1>1
  <2> HIDE DEF F
  <2> QED  BY <2>1, <2>2, <1>10
<1> HIDE DEF F, SS
<1> DEFINE Good == {m \in 0 .. N :
             /\ H[m] \in SS /\ Len(H[m]) = Upto(m)
             /\ \A s \in 0 .. m-1 : \A i \in Upto(s) .. Upto(s+1)-1 :
                  H[m][i+1] = <<s, (i - Upto(s)) * SeqTile>>}
<1>12. \A s \in 0 .. N : Upto(s) \in Nat
  BY TilesAre
<1>13. \A a \in 0 .. N : \A c \in a .. N : Upto(a) <= Upto(c)
  BY TilesAre
<1>14. Upto(0) = 0
  BY TilesAre
<1> HIDE DEF Upto
<1>15. ASSUME NEW m \in 0 .. N, \A k \in 0 .. m-1 : k \in Good PROVE m \in Good
  <2>1. CASE m = 0
    BY <2>1, <1>4, <1>11, <1>14
  <2>2. CASE m # 0
    <3> DEFINE q == H[m-1]
               r == own(m)
    <3>1. m-1 \in 0 .. m-1 /\ m \in 1 .. N /\ m-1 \in 0 .. N /\ (m-1)+1 = m
      BY <2>2, <1>1
    <3>2. /\ q \in SS /\ Len(q) = Upto(m-1)
          /\ \A s \in 0 .. (m-1)-1 : \A i \in Upto(s) .. Upto(s+1)-1 : q[i+1] = <<s, (i - Upto(s)) * SeqTile>>
      BY <3>1, <1>15
    <3>3. /\ r \in SS /\ Len(r) = nt(m-1)
          /\ \A t \in 1 .. nt(m-1) : r[t] = <<m-1, (t-1) * SeqTile>>
      BY <3>1, <1>3
    <3>4. H[m] = q \o r
      BY <3>1, <1>11
    <3>5. Upto(m-1) \in Nat /\ nt(m-1) \in Nat /\ Upto(m) = Upto(m-1) + nt(m-1)
      BY <3>1, <1>2, <1>12
    <3> HIDE DEF q, r
    <3>6. /\ q \o r \in SS /\ Len(q \o r) = Len(q) + Len(r)
          /\ \A x \in 1 .. Len(q) : (q \o r)[x] = q[x]
          /\ \A x \in Len(q)+1 .. Len(q) + Len(r) : (q \o r)[x] = r[x - Len(q)]
      BY <3>2, <3>3, ConcatIs DEF SS
    <3>7. /\ Len(q \o r) = Upto(m)
          /\ \A x \in 1 .. Upto(m-1) : (q \o r)[x] = q[x]
          /\ \A x \in Upto(m-1)+1 .. Upto(m) : (q \o r)[x] = r[x - Upto(m-1)]
      BY <3>2, <3>3, <3>5, <3>6
    <3>8. ASSUME NEW s \in 0 .. m-1, NEW i \in Upto(s) .. Upto(s+1)-1
          PROVE  (q \o r)[i+1] = <<s, (i - Upto(s)) * SeqTile>>
      <4>1. CASE s = m-1
        <5>1. i+1 \in Upto(m-1)+1 .. Upto(m) /\ (i+1) - Upto(m-1) \in 1 .. nt(m-1)
              /\ ((i+1) - Upto(m-1)) - 1 = i - Upto(m-1)
          BY <4>1, <3>1, <3>5
        <5> QED  BY <4>1, <5>1, <3>3, <3>7
      <4>2. CASE s # m-1
        <5>1. s \in 0 .. (m-1)-1 /\ s+1 \in 0 .. N /\ s \in 0 .. N /\ m-1 \in s+1 .. N
          BY <4>2, <3>1, <1>1
        <5>2. Upto(s) \in Nat /\ Upto(s+1) \in Nat /\ Upto(s+1) <= Upto(m-1)
          BY <5>1, <1>12, <1>13
        <5>3. i+1 \in 1 .. Upto(m-1)
          BY <5>2, <3>5
        <5> QED  BY <5>1, <5>3, <3>2, <3>7
      <4> QED  BY <4>1, <4>2
    <3> QED  BY <3>4, <3>6, <3>7, <3>8
  <2> QED  BY <2>1, <2>2
<1>16. N \in Good
  <2>1. 0 .. N \subseteq Good
    <3> HIDE DEF Good
    <3> QED  BY <1>1, <1>15, IntervalInduction
  <2> QED  BY <2>1, <1>1
<1> QED  BY <1>1, <1>9, <1>16 DEF Upto

\* While the batch stays, so do the sums over it.
LEMMA SameBatch ==
  ASSUME UNCHANGED cu_seqlens
  PROVE  /\ BatchInv => BatchInv'
         /\ \A s : /\ qlen(s)' = qlen(s) /\ nt(s)' = nt(s)
                   /\ TilesTo(s)' = TilesTo(s) /\ PadsTo(s)' = PadsTo(s)
         /\ \A S : Tiles(S)' = Tiles(S) /\ Pads(S)' = Pads(S)
<1>1. BatchInv => BatchInv'
  BY DEF BatchInv
<1>2. \A s : qlen(s)' = qlen(s) /\ nt(s)' = nt(s)
  BY DEF qlen, nt
<1>3. \A S : Tiles(S)' = Tiles(S) /\ Pads(S)' = Pads(S)
  BY DEF Tiles, Pads, qlen, nt
<1>4. \A s : TilesTo(s)' = TilesTo(s) /\ PadsTo(s)' = PadsTo(s)
  BY DEF TilesTo, PadsTo, Tiles, Pads, qlen, nt
<1> QED  BY <1>1, <1>2, <1>3, <1>4

\* A simdgroup that is not done keeps the later dispatches from starting.
LEMMA NotYet ==
  ASSUME PrefillInv, NEW g \in SeqSimdgroup, varlen_pc[g] # "done", UNCHANGED tensors
  PROVE  PrefillInv'
BY DEF PrefillInv, Built, tensors

LEMMA PlanPhaseKept ==
  ASSUME PlanTypeInv, TogetherInv, NEW g \in SeqSimdgroup, NEW label,
         PhaseOf(label) = PhaseOf(varlen_pc[g]), GoOn(g, label)
  PROVE  TogetherInv'
<1>1. varlen_pc' = [varlen_pc EXCEPT ![g] = label] /\ DOMAIN varlen_pc = SeqSimdgroup
  BY DEF GoOn, PlanTypeInv
<1>2. \A h \in SeqSimdgroup : PhaseOf(varlen_pc'[h]) = PhaseOf(varlen_pc[h])
  BY <1>1
<1> QED  BY <1>2 DEF TogetherInv

\* What all simdgroups have published, and the sums each takes of it.
LEMMA SumsAre ==
  ASSUME VarlenAssumption, NEW f, \A s \in Seqs : f[s] \in Nat,
         \A h \in SeqSimdgroup : varlen_sums[h] = SumFunctionOnSet(f, Chunks(h))
  PROVE  /\ SumAll = SumFunctionOnSet(f, 0 .. NumSeqs-1)
         /\ \A g \in SeqSimdgroup : SumBelow(g) = SumFunctionOnSet(f, 0 .. FirstSeq(g)-1)
<1>1. Groups \in Nat /\ Groups >= 1 /\ SeqSimdgroup = 0 .. Groups-1 /\ FirstSeq(Groups) = NumSeqs
  BY PlanSizes, FirstSeqs
<1>2. SumAll = SumFunctionOnSet(f, 0 .. NumSeqs-1)
  <2>1. Groups \in 0 .. Groups
    BY <1>1
  <2>2. SumFunctionOnSet(varlen_sums, 0 .. Groups-1) = SumFunctionOnSet(f, 0 .. FirstSeq(Groups)-1)
    BY <2>1, <1>1, SumOfGroups
  <2> QED  BY <2>2, <1>1 DEF SumAll
<1>3. ASSUME NEW g \in SeqSimdgroup PROVE SumBelow(g) = SumFunctionOnSet(f, 0 .. FirstSeq(g)-1)
  <2>1. g \in 0 .. Groups /\ \A h \in 0 .. g-1 : h \in SeqSimdgroup
    BY <1>1
  <2>2. SumFunctionOnSet(varlen_sums, 0 .. g-1) = SumFunctionOnSet(f, 0 .. FirstSeq(g)-1)
    BY <2>1, SumOfGroups
  <2> QED  BY <2>2 DEF SumBelow
<1> QED  BY <1>2, <1>3

\* A simdgroup's sequences begin where its bases say.
LEMMA RunsAre ==
  ASSUME VarlenAssumption, BatchInv, PlanScanInv, NEW g \in SeqSimdgroup, varlen_pc[g] = "emit",
         NEW s \in Chunks(g)
  PROVE  RunTile(g, s) = TilesTo(s) /\ RunPad(g, s) = PadsTo(s)
<1> DEFINE a == FirstSeq(g)
           before == {d \in Chunks(g) : d < s}
<1>1. NumSeqs \in Nat /\ a \in 0 .. NumSeqs /\ FirstSeq(g+1) \in 0 .. NumSeqs
  <2>1. g \in 0 .. Groups /\ g+1 \in 0 .. Groups
    BY PlanSizes
  <2> QED  BY <2>1, FirstSeqs, PlanSizes
<1>2. Chunks(g) = a .. FirstSeq(g+1)-1
  BY ChunksAre
<1> HIDE DEF a
<1>3. before = a .. s-1 /\ s \in a .. NumSeqs
  BY <1>1, <1>2
<1>4. base_tile[g] = TilesTo(a) /\ base_pad[g] = PadsTo(a)
  BY DEF PlanScanInv, a
<1>5. TilesTo(a) + Tiles(a .. s-1) = TilesTo(s) /\ PadsTo(a) + Pads(a .. s-1) = PadsTo(s)
  BY <1>1, <1>3, TilesAre
<1> QED  BY <1>3, <1>4, <1>5 DEF RunTile, RunPad

LEMMA PlanStarts == ASSUME VarlenAssumption, VarlenInit PROVE VarlenIInv
<1>1. Unwritten \in Int
  BY DEF Unwritten
<1>2. varlen_pc = [g \in SeqSimdgroup |-> "count"] /\ q_hm = <<>> /\ o_hm = <<>> /\ o_packed = <<>>
  BY DEF VarlenInit
<1>3. BatchInv
  BY DEF VarlenInit, BatchInv
<1>4. PlanTypeInv
  BY <1>1, <1>2 DEF VarlenInit, PlanTypeInv
<1>5. TogetherInv
  BY <1>2 DEF TogetherInv
<1>6. PlanScanInv /\ PlanInv /\ PrefillInv
  BY <1>2 DEF PlanScanInv, PlanInv, PrefillInv
<1> QED  BY <1>3, <1>4, <1>5, <1>6 DEF VarlenIInv

\* The phase of one simdgroup bounds where the others are.
LEMMA PhaseLabels ==
  ASSUME PlanTypeInv, TogetherInv, NEW g \in SeqSimdgroup
  PROVE  /\ varlen_pc[g] \in {"sum tiles", "summed"} =>
              \A h \in SeqSimdgroup : varlen_pc[h] \in {"sum tiles", "summed"}
         /\ varlen_pc[g] \in {"sum pads", "emit", "fill", "done"} =>
              \A h \in SeqSimdgroup : varlen_pc[h] \in {"sum pads", "emit", "fill", "done"}
<1>1. ASSUME NEW h \in SeqSimdgroup
      PROVE  /\ PhaseOf(varlen_pc[h]) = PhaseOf(varlen_pc[g])
             /\ PhaseOf(varlen_pc[h]) = "first sum" => varlen_pc[h] \in {"sum tiles", "summed"}
             /\ PhaseOf(varlen_pc[h]) = "second sum" => varlen_pc[h] \in {"sum pads", "emit", "fill", "done"}
  <2>1. varlen_pc[h] \in {"count", "counted", "sum tiles", "summed", "publish",
                          "published", "sum pads", "emit", "fill", "done"}
    BY DEF PlanTypeInv
  <2>2. PhaseOf(varlen_pc[h]) = PhaseOf(varlen_pc[g])
    BY DEF TogetherInv
  <2>3. varlen_pc[h] \in {"count", "counted"} => PhaseOf(varlen_pc[h]) = "first count"
    BY DEF PhaseOf
  <2>4. varlen_pc[h] \in {"sum tiles", "summed"} => PhaseOf(varlen_pc[h]) = "first sum"
    BY DEF PhaseOf
  <2>5. varlen_pc[h] \in {"publish", "published"} => PhaseOf(varlen_pc[h]) = "second count"
    BY DEF PhaseOf
  <2>6. varlen_pc[h] \in {"sum pads", "emit", "fill", "done"} => PhaseOf(varlen_pc[h]) = "second sum"
    BY DEF PhaseOf
  <2> QED  BY <2>1, <2>2, <2>3, <2>4, <2>5, <2>6
<1>2. /\ varlen_pc[g] \in {"sum tiles", "summed"} => PhaseOf(varlen_pc[g]) = "first sum"
      /\ varlen_pc[g] \in {"sum pads", "emit", "fill", "done"} => PhaseOf(varlen_pc[g]) = "second sum"
  BY DEF PhaseOf
<1> QED  BY <1>1, <1>2

\* Sums over all sequences.
LEMMA TilesSummed ==
  ASSUME VarlenAssumption, BatchInv,
         \A h \in SeqSimdgroup : varlen_sums[h] = Tiles(Chunks(h))
  PROVE  SumAll = TilesTo(NumSeqs) /\ \A g \in SeqSimdgroup : SumBelow(g) = TilesTo(FirstSeq(g))
<1> DEFINE f == [s \in Seqs |-> nt(s)]
<1>1. \A s \in Seqs : f[s] \in Nat
  BY LengthsAre
<1>2. \A h \in SeqSimdgroup : varlen_sums[h] = SumFunctionOnSet(f, Chunks(h))
  BY DEF Tiles
<1>3. \A s : TilesTo(s) = SumFunctionOnSet(f, 0 .. s-1)
  BY DEF TilesTo, Tiles
<1> HIDE DEF f
<1> QED  BY <1>1, <1>2, <1>3, SumsAre

LEMMA PadsSummed ==
  ASSUME VarlenAssumption, BatchInv,
         \A h \in SeqSimdgroup : varlen_sums[h] = Pads(Chunks(h))
  PROVE  SumAll = PadsTo(NumSeqs) /\ \A g \in SeqSimdgroup : SumBelow(g) = PadsTo(FirstSeq(g))
<1> DEFINE f == [s \in Seqs |-> nt(s) * SeqTile]
<1>1. \A s \in Seqs : f[s] \in Nat
  BY LengthsAre
<1>2. \A h \in SeqSimdgroup : varlen_sums[h] = SumFunctionOnSet(f, Chunks(h))
  BY DEF Pads
<1>3. \A s : PadsTo(s) = SumFunctionOnSet(f, 0 .. s-1)
  BY DEF PadsTo, Pads
<1> HIDE DEF f
<1> QED  BY <1>1, <1>2, <1>3, SumsAre

\* The sums a simdgroup publishes, and the bounds of what it works on.
LEMMA GroupSums ==
  ASSUME VarlenAssumption, BatchInv, NEW g \in SeqSimdgroup
  PROVE  /\ Tiles(Chunks(g)) \in Int /\ Pads(Chunks(g)) \in Int
         /\ TilesTo(FirstSeq(g)) \in Int /\ PadsTo(FirstSeq(g)) \in Int
         /\ TilesTo(NumSeqs) \in Int /\ PadsTo(NumSeqs) \in Int
         /\ Chunks(g) \subseteq Seqs
<1> DEFINE a == FirstSeq(g)
           c == FirstSeq(g+1)
<1>1. NumSeqs \in Nat /\ a \in 0 .. NumSeqs /\ c \in a .. NumSeqs /\ c \in 0 .. NumSeqs
      /\ NumSeqs \in 0 .. NumSeqs /\ Seqs = 0 .. NumSeqs-1
  <2>1. g \in 0 .. Groups /\ g+1 \in 0 .. Groups
    BY PlanSizes
  <2> QED  BY <2>1, FirstSeqs, PlanSizes
<1>2. Chunks(g) = a .. c-1
  BY ChunksAre
<1> HIDE DEF a, c
<1>3. /\ TilesTo(a) \in Nat /\ PadsTo(a) \in Nat /\ TilesTo(c) \in Nat /\ PadsTo(c) \in Nat
      /\ TilesTo(NumSeqs) \in Nat /\ PadsTo(NumSeqs) \in Nat
  BY <1>1, TilesAre
<1> DEFINE f == [s \in Seqs |-> nt(s)]
           p == [s \in Seqs |-> nt(s) * SeqTile]
<1>4. Tiles(a .. c-1) = SumFunctionOnSet(f, a .. c-1) /\ Pads(a .. c-1) = SumFunctionOnSet(p, a .. c-1)
  BY DEF Tiles, Pads
<1>5. (\A s \in 0 .. NumSeqs-1 : f[s] \in Nat) /\ (\A s \in 0 .. NumSeqs-1 : p[s] \in Nat)
  BY <1>1, LengthsAre
<1> HIDE DEF f, p
<1>6. SumFunctionOnSet(f, a .. c-1) \in Nat
  BY <1>1, <1>5, SpanSum
<1>7. SumFunctionOnSet(p, a .. c-1) \in Nat
  BY <1>1, <1>5, SpanSum
<1>8. Chunks(g) \subseteq Seqs
  BY <1>1, <1>2
<1> QED  BY <1>2, <1>3, <1>4, <1>6, <1>7, <1>8 DEF a

LEMMA CountKeeps ==
  ASSUME VarlenAssumption, VarlenIInv, NEW g \in SeqSimdgroup, Count(g) PROVE VarlenIInv'
<1> USE DEF Count, VarlenIInv, worklist, registers, tensors
<1>1. /\ \A s : /\ qlen(s)' = qlen(s) /\ nt(s)' = nt(s)
                /\ TilesTo(s)' = TilesTo(s) /\ PadsTo(s)' = PadsTo(s)
      /\ \A S : Tiles(S)' = Tiles(S) /\ Pads(S)' = Pads(S)
      /\ BatchInv'
  BY SameBatch
<1>2. TogetherInv'
  <2>1. PhaseOf("counted") = PhaseOf(varlen_pc[g])
    BY DEF PhaseOf
  <2> QED  BY <2>1, PlanPhaseKept
<1>3. PrefillInv'
  BY NotYet
<1>4. varlen_pc' = [varlen_pc EXCEPT ![g] = "counted"] /\ DOMAIN varlen_pc = SeqSimdgroup
      /\ DOMAIN varlen_sums = SeqSimdgroup
  BY DEF GoOn, PlanTypeInv
<1>5. PlanTypeInv'
  <2>1. \A s \in Seqs : qlen(s) \in Int
    BY LengthsAre
  <2>2. Tiles(Chunks(g)) \in Int
    BY GroupSums
  <2> QED  BY <2>1, <2>2, <1>4 DEF PlanTypeInv
<1>6. PlanScanInv'
  BY <1>1, <1>4 DEF PlanScanInv
<1>7. PlanInv'
  <2>1. ASSUME NEW h \in SeqSimdgroup, varlen_pc'[h] # "count", NEW s \in Chunks(h)
        PROVE  qlens'[s] = qlen(s)
    <3>1. s \in Seqs
      BY GroupSums
    <3>2. h # g => qlens[s] = qlen(s)
      BY <2>1, <1>4 DEF PlanInv
    <3> QED  BY <3>1, <3>2
  <2>2. \A h \in SeqSimdgroup : varlen_pc'[h] \in {"emit", "fill", "done"} => varlen_pc'[h] = varlen_pc[h]
    BY <1>4
  <2> QED  BY <2>1, <2>2, <1>1 DEF PlanInv
<1> QED  BY <1>1, <1>2, <1>3, <1>5, <1>6, <1>7

LEMMA SumTilesKeeps ==
  ASSUME VarlenAssumption, VarlenIInv, NEW g \in SeqSimdgroup, SumTiles(g) PROVE VarlenIInv'
<1> USE DEF SumTiles, VarlenIInv, worklist, registers, tensors
<1>1. /\ \A s : /\ qlen(s)' = qlen(s) /\ nt(s)' = nt(s)
                /\ TilesTo(s)' = TilesTo(s) /\ PadsTo(s)' = PadsTo(s)
      /\ \A S : Tiles(S)' = Tiles(S) /\ Pads(S)' = Pads(S)
      /\ BatchInv'
  BY SameBatch
<1>2. TogetherInv'
  <2>1. PhaseOf("summed") = PhaseOf(varlen_pc[g])
    BY DEF PhaseOf
  <2> QED  BY <2>1, PlanPhaseKept
<1>3. PrefillInv'
  BY NotYet
<1>4. /\ varlen_pc' = [varlen_pc EXCEPT ![g] = "summed"] /\ DOMAIN varlen_pc = SeqSimdgroup
      /\ DOMAIN base_tile = SeqSimdgroup /\ DOMAIN total_tiles = SeqSimdgroup
  BY DEF GoOn, PlanTypeInv
<1>5. SumAll = TilesTo(NumSeqs) /\ SumBelow(g) = TilesTo(FirstSeq(g))
  <2>1. \A h \in SeqSimdgroup : varlen_pc[h] \in {"sum tiles", "summed"}
    BY PhaseLabels
  <2>2. \A h \in SeqSimdgroup : varlen_sums[h] = Tiles(Chunks(h))
    BY <2>1 DEF PlanScanInv
  <2> QED  BY <2>2, TilesSummed
<1>6. PlanTypeInv'
  <2>1. TilesTo(NumSeqs) \in Int /\ TilesTo(FirstSeq(g)) \in Int
    BY GroupSums
  <2> QED  BY <2>1, <1>4, <1>5 DEF PlanTypeInv
<1>7. PlanScanInv'
  BY <1>1, <1>4, <1>5 DEF PlanScanInv
<1>8. PlanInv'
  BY <1>1, <1>4 DEF PlanInv
<1> QED  BY <1>1, <1>2, <1>3, <1>6, <1>7, <1>8

LEMMA PublishPadsKeeps ==
  ASSUME VarlenAssumption, VarlenIInv, NEW g \in SeqSimdgroup, PublishPads(g) PROVE VarlenIInv'
<1> USE DEF PublishPads, VarlenIInv, worklist, registers, tensors
<1>1. /\ \A s : /\ qlen(s)' = qlen(s) /\ nt(s)' = nt(s)
                /\ TilesTo(s)' = TilesTo(s) /\ PadsTo(s)' = PadsTo(s)
      /\ \A S : Tiles(S)' = Tiles(S) /\ Pads(S)' = Pads(S)
      /\ BatchInv'
  BY SameBatch
<1>2. TogetherInv'
  <2>1. PhaseOf("published") = PhaseOf(varlen_pc[g])
    BY DEF PhaseOf
  <2> QED  BY <2>1, PlanPhaseKept
<1>3. PrefillInv'
  BY NotYet
<1>4. /\ varlen_pc' = [varlen_pc EXCEPT ![g] = "published"] /\ DOMAIN varlen_pc = SeqSimdgroup
      /\ DOMAIN varlen_sums = SeqSimdgroup
  BY DEF GoOn, PlanTypeInv
<1>5. PlanTypeInv'
  <2>1. Pads(Chunks(g)) \in Int
    BY GroupSums
  <2> QED  BY <2>1, <1>4 DEF PlanTypeInv
<1>6. PlanScanInv'
  BY <1>1, <1>4 DEF PlanScanInv
<1>7. PlanInv'
  BY <1>1, <1>4 DEF PlanInv
<1> QED  BY <1>1, <1>2, <1>3, <1>5, <1>6, <1>7

LEMMA SumPadsKeeps ==
  ASSUME VarlenAssumption, VarlenIInv, NEW g \in SeqSimdgroup, SumPads(g) PROVE VarlenIInv'
<1>0. NumSeqs \in 0 .. NumSeqs /\ \A s \in Seqs : s # NumSeqs /\ s \in 0 .. NumSeqs
  <2>1. NumSeqs \in Nat /\ Seqs = 0 .. NumSeqs-1
    BY PlanSizes
  <2> QED  BY <2>1
<1> USE DEF SumPads, VarlenIInv, worklist, registers, tensors
<1>1. /\ \A s : /\ qlen(s)' = qlen(s) /\ nt(s)' = nt(s)
                /\ TilesTo(s)' = TilesTo(s) /\ PadsTo(s)' = PadsTo(s)
      /\ \A S : Tiles(S)' = Tiles(S) /\ Pads(S)' = Pads(S)
      /\ BatchInv'
  BY SameBatch
<1>2. TogetherInv'
  <2>1. PhaseOf("emit") = PhaseOf(varlen_pc[g])
    BY DEF PhaseOf
  <2> QED  BY <2>1, PlanPhaseKept
<1>3. PrefillInv'
  BY NotYet
<1>4. /\ varlen_pc' = [varlen_pc EXCEPT ![g] = "emit"] /\ DOMAIN varlen_pc = SeqSimdgroup
      /\ DOMAIN base_pad = SeqSimdgroup /\ DOMAIN pad_off = 0 .. NumSeqs
  BY DEF GoOn, PlanTypeInv
<1>5. SumAll = PadsTo(NumSeqs) /\ SumBelow(g) = PadsTo(FirstSeq(g))
  <2>1. \A h \in SeqSimdgroup : varlen_pc[h] \in {"sum pads", "emit", "fill", "done"}
    BY PhaseLabels
  <2>2. \A h \in SeqSimdgroup : varlen_sums[h] = Pads(Chunks(h))
    BY <2>1 DEF PlanScanInv
  <2> QED  BY <2>2, PadsSummed
<1>6. PlanTypeInv'
  <2>1. PadsTo(NumSeqs) \in Int /\ PadsTo(FirstSeq(g)) \in Int
    BY GroupSums
  <2>2. pad_off' \in [0 .. NumSeqs -> Int]
    BY <2>1, <1>4, <1>5 DEF PlanTypeInv
  <2> QED  BY <2>1, <2>2, <1>4, <1>5 DEF PlanTypeInv
<1>7. PlanScanInv'
  BY <1>1, <1>4, <1>5 DEF PlanScanInv
<1>8. /\ g = 0 => pad_off'[NumSeqs] = PadsTo(NumSeqs) /\ n_tiles' = TilesTo(NumSeqs)
      /\ g # 0 => pad_off' = pad_off /\ n_tiles' = n_tiles
      /\ \A s \in Seqs : pad_off'[s] = pad_off[s]
  <2>1. g = 0 => total_tiles[0] = TilesTo(NumSeqs)
    BY DEF PlanScanInv
  <2>2. CASE g = 0
    <3>1. pad_off' = [pad_off EXCEPT ![NumSeqs] = PadsTo(NumSeqs)] /\ n_tiles' = TilesTo(NumSeqs)
      BY <2>1, <2>2, <1>5
    <3> QED  BY <3>1, <1>0, <2>2, <1>4
  <2>3. CASE g # 0
    BY <2>3
  <2> QED  BY <2>2, <2>3
<1>9. \A h \in SeqSimdgroup : Chunks(h) \subseteq Seqs
  BY GroupSums
<1>10. ASSUME NEW h \in SeqSimdgroup
       PROVE  /\ varlen_pc'[h] # "count" => varlen_pc[h] # "count"
              /\ h # g => varlen_pc'[h] = varlen_pc[h]
              /\ varlen_pc'[h] \in {"fill", "done"} => h # g
  BY <1>4
<1>11. PlanInv'
  <2>1. ASSUME NEW h \in SeqSimdgroup, varlen_pc'[h] # "count", NEW s \in Chunks(h)
        PROVE  qlens'[s] = qlen(s)
    BY <2>1, <1>10 DEF PlanInv
  <2>2. ASSUME NEW h \in SeqSimdgroup, varlen_pc'[h] = "done"
        PROVE  \A i \in WorkTile : i >= TilesTo(NumSeqs) /\ i % nthreads \in LanesOf(h) =>
                 tile_seq'[i] = -1 /\ tile_local0'[i] = 0
    BY <2>2, <1>10 DEF PlanInv
  <2>3. ASSUME NEW h \in SeqSimdgroup, h = 0, varlen_pc'[h] \in {"emit", "fill", "done"}
        PROVE  pad_off'[NumSeqs] = PadsTo(NumSeqs) /\ n_tiles' = TilesTo(NumSeqs)
    BY <2>3, <1>8, <1>10 DEF PlanInv
  <2>4. ASSUME NEW h \in SeqSimdgroup, varlen_pc'[h] \in {"fill", "done"}, NEW s \in Chunks(h)
        PROVE  /\ pad_off'[s] = PadsTo(s)
               /\ \A i \in TilesTo(s) .. TilesTo(s+1)-1 :
                    tile_seq'[i] = s /\ tile_local0'[i] = (i - TilesTo(s)) * SeqTile
    <3>1. varlen_pc[h] \in {"fill", "done"} /\ s \in Seqs
      BY <2>4, <1>9, <1>10
    <3> QED  BY <3>1, <1>8 DEF PlanInv
  <2> HIDE DEF SumPads, VarlenIInv
  <2> QED  BY <2>1, <2>2, <2>3, <2>4, <1>1 DEF PlanInv
<1> QED  BY <1>1, <1>2, <1>3, <1>6, <1>7, <1>11

\* A tile belongs to one sequence, and to none past the last.
LEMMA OneOwner ==
  ASSUME VarlenAssumption, BatchInv, NEW s \in Seqs, NEW i \in TilesTo(s) .. TilesTo(s+1)-1
  PROVE  /\ i \in WorkTile /\ i < TilesTo(NumSeqs)
         /\ \A d \in Seqs : i \in TilesTo(d) .. TilesTo(d+1)-1 => d = s
<1>1. /\ NumSeqs \in Nat /\ Seqs = 0 .. NumSeqs-1 /\ SeqTiles \in Nat
      /\ \A k \in 0 .. NumSeqs : TilesTo(k) \in Nat
      /\ TilesTo(NumSeqs) <= SeqTiles
  BY PlanSizes, TilesAre, LengthsAre DEF VarlenAssumption
<1>2. \A a \in 0 .. NumSeqs : \A c \in a .. NumSeqs : TilesTo(a) <= TilesTo(c)
  BY TilesAre
<1>3. s \in 0 .. NumSeqs /\ s+1 \in 0 .. NumSeqs /\ NumSeqs \in s+1 .. NumSeqs /\ NumSeqs \in 0 .. NumSeqs
  BY <1>1
<1>4. TilesTo(s) \in Nat /\ TilesTo(s+1) \in Nat /\ TilesTo(NumSeqs) \in Nat
      /\ TilesTo(s+1) <= TilesTo(NumSeqs)
  BY <1>1, <1>2, <1>3
<1>5. i \in WorkTile /\ i < TilesTo(NumSeqs)
  BY <1>1, <1>4 DEF WorkTile
<1>6. ASSUME NEW d \in Seqs, i \in TilesTo(d) .. TilesTo(d+1)-1, d # s PROVE FALSE
  <2>1. d \in 0 .. NumSeqs /\ d+1 \in 0 .. NumSeqs
    BY <1>1
  <2>2. TilesTo(d) \in Nat /\ TilesTo(d+1) \in Nat
    BY <2>1, <1>1
  <2>3. CASE d < s
    <3>1. s \in d+1 .. NumSeqs
      BY <2>3, <1>1
    <3>2. TilesTo(d+1) <= TilesTo(s)
      BY <3>1, <2>1, <1>2
    <3> QED  BY <3>2, <2>2, <1>4, <1>6
  <2>4. CASE s < d
    <3>1. d \in s+1 .. NumSeqs
      BY <2>4, <1>1
    <3>2. TilesTo(s+1) <= TilesTo(d)
      BY <3>1, <1>3, <1>2
    <3> QED  BY <3>2, <2>2, <1>4, <1>6
  <2> QED  BY <2>3, <2>4, <1>1, <1>6
<1> QED  BY <1>5, <1>6

\* What a simdgroup emits depends on the sequence alone.
LEMMA EmitIs ==
  ASSUME VarlenAssumption, BatchInv, PlanScanInv, PlanTypeInv, NEW g \in SeqSimdgroup, Emit(g)
  PROVE  /\ \A s \in Chunks(g) : \A i \in TilesTo(s) .. TilesTo(s+1)-1 :
              tile_seq'[i] = s /\ tile_local0'[i] = (i - TilesTo(s)) * SeqTile
         /\ \A i \in WorkTile : (\A s \in Chunks(g) : i \notin TilesTo(s) .. TilesTo(s+1)-1) =>
              tile_seq'[i] = tile_seq[i] /\ tile_local0'[i] = tile_local0[i]
         /\ \A s \in 0 .. NumSeqs :
              pad_off'[s] = IF s \in Chunks(g) THEN PadsTo(s) ELSE pad_off[s]
         /\ tile_seq' \in [WorkTile -> Int] /\ tile_local0' \in [WorkTile -> Int]
         /\ pad_off' \in [0 .. NumSeqs -> Int]
<1> DEFINE owner(i) == {s \in Chunks(g) : i \in RunTile(g, s) .. RunTile(g, s) + nt(s)-1}
           seqOf(i) == CHOOSE s \in owner(i) : TRUE
<1>1. /\ varlen_pc[g] = "emit"
      /\ tile_seq' = [i \in WorkTile |-> IF owner(i) = {} THEN tile_seq[i] ELSE seqOf(i)]
      /\ tile_local0' = [i \in WorkTile |-> IF owner(i) = {} THEN tile_local0[i]
                                            ELSE (i - RunTile(g, seqOf(i))) * SeqTile]
      /\ pad_off' = [s \in 0 .. NumSeqs |-> IF s \in Chunks(g) THEN RunPad(g, s) ELSE pad_off[s]]
  BY DEF Emit
<1>2. \A s \in Chunks(g) : /\ s \in Seqs /\ RunTile(g, s) = TilesTo(s) /\ RunPad(g, s) = PadsTo(s)
                           /\ TilesTo(s+1) = TilesTo(s) + nt(s)
  <2>1. Chunks(g) \subseteq Seqs
    BY GroupSums
  <2> QED  BY <2>1, <1>1, RunsAre, TilesAre
<1>3. \A i : owner(i) = {s \in Chunks(g) : i \in TilesTo(s) .. TilesTo(s+1)-1}
  <2>1. ASSUME NEW s \in Chunks(g)
        PROVE  RunTile(g, s) .. RunTile(g, s) + nt(s)-1 = TilesTo(s) .. TilesTo(s+1)-1
    <3>1. RunTile(g, s) = TilesTo(s) /\ TilesTo(s+1) = TilesTo(s) + nt(s)
      BY <1>2
    <3>2. TilesTo(s) \in Nat /\ nt(s) \in Nat
      BY <1>2, TilesAre, LengthsAre
    <3>3. RunTile(g, s) + nt(s)-1 = TilesTo(s+1)-1
      BY <3>1, <3>2
    <3> QED  BY <3>1, <3>3
  <2> QED  BY <2>1
<1>4. \A i : owner(i) # {} => seqOf(i) \in owner(i)
  OBVIOUS
<1> HIDE DEF owner, seqOf
<1>5. ASSUME NEW s \in Chunks(g), NEW i \in TilesTo(s) .. TilesTo(s+1)-1
      PROVE  tile_seq'[i] = s /\ tile_local0'[i] = (i - TilesTo(s)) * SeqTile
  <2>1. i \in WorkTile /\ \A d \in Seqs : i \in TilesTo(d) .. TilesTo(d+1)-1 => d = s
    BY <1>2, OneOwner
  <2>2. s \in owner(i)
    BY <1>3
  <2>3. seqOf(i) \in Chunks(g) /\ i \in TilesTo(seqOf(i)) .. TilesTo(seqOf(i)+1)-1
    BY <2>2, <1>3, <1>4
  <2>4. seqOf(i) = s
    BY <2>1, <2>3, <1>2
  <2> QED  BY <2>1, <2>2, <2>4, <1>1, <1>2
<1>6. ASSUME NEW i \in WorkTile, \A s \in Chunks(g) : i \notin TilesTo(s) .. TilesTo(s+1)-1
      PROVE  tile_seq'[i] = tile_seq[i] /\ tile_local0'[i] = tile_local0[i]
  <2>1. owner(i) = {}
    BY <1>3, <1>6
  <2> QED  BY <2>1, <1>1
<1>7. \A s \in 0 .. NumSeqs : pad_off'[s] = IF s \in Chunks(g) THEN PadsTo(s) ELSE pad_off[s]
  BY <1>1, <1>2
<1>8. \A s \in 0 .. NumSeqs : TilesTo(s) \in Int /\ PadsTo(s) \in Int
  BY TilesAre
<1>9. Seqs \subseteq 0 .. NumSeqs /\ Seqs \subseteq Int /\ SeqTile \in Int /\ WorkTile \subseteq Int
  <2>1. NumSeqs \in Nat /\ Seqs = 0 .. NumSeqs-1 /\ SeqTile \in Nat /\ SeqTiles \in Nat
    BY PlanSizes DEF VarlenAssumption
  <2> QED  BY <2>1 DEF WorkTile
<1>10. pad_off' \in [0 .. NumSeqs -> Int]
  <2>1. \A s \in 0 .. NumSeqs : (IF s \in Chunks(g) THEN RunPad(g, s) ELSE pad_off[s]) \in Int
    BY <1>2, <1>8 DEF PlanTypeInv
  <2> QED  BY <2>1, <1>1
<1>11. ASSUME NEW i \in WorkTile, owner(i) # {}
       PROVE  seqOf(i) \in Int /\ (i - RunTile(g, seqOf(i))) * SeqTile \in Int
  <2> DEFINE d == seqOf(i)
  <2>1. d \in Chunks(g)
    BY <1>3, <1>4, <1>11
  <2>2. d \in Int /\ RunTile(g, d) \in Int
    BY <2>1, <1>2, <1>8, <1>9
  <2> HIDE DEF d
  <2> QED  BY <2>2, <1>9 DEF d
<1>12. tile_seq' \in [WorkTile -> Int]
  <2>1. \A i \in WorkTile : (IF owner(i) = {} THEN tile_seq[i] ELSE seqOf(i)) \in Int
    BY <1>11 DEF PlanTypeInv
  <2> QED  BY <2>1, <1>1
<1>13. tile_local0' \in [WorkTile -> Int]
  <2>1. \A i \in WorkTile : (IF owner(i) = {} THEN tile_local0[i]
                             ELSE (i - RunTile(g, seqOf(i))) * SeqTile) \in Int
    BY <1>11 DEF PlanTypeInv
  <2> QED  BY <2>1, <1>1
<1> QED  BY <1>5, <1>6, <1>7, <1>10, <1>12, <1>13

LEMMA EmitTilesPlan ==
  ASSUME VarlenAssumption, VarlenIInv, NEW g \in SeqSimdgroup, Emit(g) PROVE PlanInv'
<1>1. /\ \A s \in Chunks(g) : \A i \in TilesTo(s) .. TilesTo(s+1)-1 :
           tile_seq'[i] = s /\ tile_local0'[i] = (i - TilesTo(s)) * SeqTile
      /\ \A i \in WorkTile : (\A s \in Chunks(g) : i \notin TilesTo(s) .. TilesTo(s+1)-1) =>
           tile_seq'[i] = tile_seq[i] /\ tile_local0'[i] = tile_local0[i]
      /\ \A s \in 0 .. NumSeqs : pad_off'[s] = IF s \in Chunks(g) THEN PadsTo(s) ELSE pad_off[s]
  BY EmitIs DEF VarlenIInv
<1>2. /\ \A s : /\ qlen(s)' = qlen(s) /\ TilesTo(s)' = TilesTo(s) /\ PadsTo(s)' = PadsTo(s)
      /\ qlens' = qlens /\ n_tiles' = n_tiles
  BY SameBatch DEF Emit
<1>3. ASSUME NEW h \in SeqSimdgroup
      PROVE  /\ Chunks(h) \subseteq Seqs
             /\ varlen_pc'[h] # "count" => varlen_pc[h] # "count"
             /\ varlen_pc'[h] = "emit" => varlen_pc[h] = "emit"
             /\ varlen_pc'[h] \in {"emit", "fill", "done"} => varlen_pc[h] \in {"emit", "fill", "done"}
             /\ h # g => varlen_pc'[h] = varlen_pc[h]
             /\ varlen_pc'[h] = "done" => varlen_pc[h] = "done"
  <2>1. varlen_pc[g] = "emit" /\ varlen_pc' = [varlen_pc EXCEPT ![g] = "fill"]
        /\ DOMAIN varlen_pc = SeqSimdgroup
    BY DEF Emit, GoOn, VarlenIInv, PlanTypeInv
  <2>2. Chunks(h) \subseteq Seqs
    BY GroupSums DEF VarlenIInv
  <2> QED  BY <2>1, <2>2
<1>4. NumSeqs \in 0 .. NumSeqs /\ NumSeqs \notin Seqs /\ Seqs \subseteq 0 .. NumSeqs
  <2>1. NumSeqs \in Nat /\ Seqs = 0 .. NumSeqs-1
    BY PlanSizes
  <2> QED  BY <2>1
<1>5. ASSUME NEW h \in SeqSimdgroup, varlen_pc'[h] # "count", NEW s \in Chunks(h)
      PROVE  qlens'[s] = qlen(s)
  BY <1>2, <1>3, <1>5 DEF VarlenIInv, PlanInv
<1>6. ASSUME NEW h \in SeqSimdgroup, h = 0, varlen_pc'[h] \in {"emit", "fill", "done"}
      PROVE  pad_off'[NumSeqs] = PadsTo(NumSeqs) /\ n_tiles' = TilesTo(NumSeqs)
  <2>1. pad_off[NumSeqs] = PadsTo(NumSeqs) /\ n_tiles = TilesTo(NumSeqs)
    BY <1>3, <1>6 DEF VarlenIInv, PlanInv
  <2>2. NumSeqs \notin Chunks(g)
    BY <1>3, <1>4
  <2> QED  BY <2>1, <2>2, <1>1, <1>2, <1>4
<1>7. ASSUME NEW h \in SeqSimdgroup, varlen_pc'[h] \in {"fill", "done"}, NEW s \in Chunks(h)
      PROVE  /\ pad_off'[s] = PadsTo(s)
             /\ \A i \in TilesTo(s) .. TilesTo(s+1)-1 :
                  tile_seq'[i] = s /\ tile_local0'[i] = (i - TilesTo(s)) * SeqTile
  <2>1. CASE s \in Chunks(g)
    BY <2>1, <1>1, <1>3, <1>4
  <2>2. CASE s \notin Chunks(g)
    <3>1. varlen_pc[h] \in {"fill", "done"} /\ s \in Seqs
      BY <2>2, <1>3, <1>7
    <3>2. /\ pad_off[s] = PadsTo(s)
          /\ \A i \in TilesTo(s) .. TilesTo(s+1)-1 :
               tile_seq[i] = s /\ tile_local0[i] = (i - TilesTo(s)) * SeqTile
      BY <3>1 DEF VarlenIInv, PlanInv
    <3>3. ASSUME NEW i \in TilesTo(s) .. TilesTo(s+1)-1
          PROVE  tile_seq'[i] = tile_seq[i] /\ tile_local0'[i] = tile_local0[i]
      <4>1. i \in WorkTile /\ \A d \in Seqs : i \in TilesTo(d) .. TilesTo(d+1)-1 => d = s
        BY <3>1, OneOwner DEF VarlenIInv
      <4>2. \A d \in Chunks(g) : i \notin TilesTo(d) .. TilesTo(d+1)-1
        BY <4>1, <2>2, <1>3
      <4> QED  BY <4>1, <4>2, <1>1
    <3> QED  BY <3>1, <3>2, <3>3, <2>2, <1>1, <1>4
  <2> QED  BY <2>1, <2>2
<1>8. ASSUME NEW h \in SeqSimdgroup, varlen_pc'[h] = "done", NEW i \in WorkTile,
             i >= TilesTo(NumSeqs), i % nthreads \in LanesOf(h)
      PROVE  tile_seq'[i] = -1 /\ tile_local0'[i] = 0
  <2>1. tile_seq[i] = -1 /\ tile_local0[i] = 0
    BY <1>3, <1>8 DEF VarlenIInv, PlanInv
  <2>2. ASSUME NEW d \in Chunks(g), i \in TilesTo(d) .. TilesTo(d+1)-1 PROVE FALSE
    <3>1. d \in Seqs
      BY <1>3
    <3>2. i < TilesTo(NumSeqs)
      BY <2>2, <3>1, OneOwner DEF VarlenIInv
    <3>3. i \in Int /\ TilesTo(NumSeqs) \in Int
      BY <2>2, <3>1, TilesAre, LengthsAre, <1>4 DEF VarlenIInv
    <3> QED  BY <3>2, <3>3, <1>8
  <2> QED  BY <2>1, <2>2, <1>1
<1> QED  BY <1>2, <1>5, <1>6, <1>7, <1>8 DEF PlanInv

LEMMA EmitTilesKeeps ==
  ASSUME VarlenAssumption, VarlenIInv, NEW g \in SeqSimdgroup, Emit(g) PROVE VarlenIInv'
<1> USE DEF VarlenIInv
<1>1. /\ varlen_pc[g] = "emit" /\ GoOn(g, "fill") /\ DOMAIN varlen_pc = SeqSimdgroup
      /\ varlen_pc' = [varlen_pc EXCEPT ![g] = "fill"]
      /\ UNCHANGED <<cu_seqlens, qlens, n_tiles, varlen_sums, registers, tensors>>
  BY DEF Emit, GoOn, PlanTypeInv
<1>2. /\ \A s : TilesTo(s)' = TilesTo(s) /\ PadsTo(s)' = PadsTo(s)
      /\ \A S : Tiles(S)' = Tiles(S) /\ Pads(S)' = Pads(S)
      /\ BatchInv'
  BY <1>1, SameBatch
<1>3. TogetherInv'
  <2>1. PhaseOf("fill") = PhaseOf(varlen_pc[g])
    BY <1>1 DEF PhaseOf
  <2> QED  BY <2>1, <1>1, PlanPhaseKept
<1>4. PrefillInv'
  BY <1>1, NotYet
<1>5. PlanTypeInv'
  <2>1. tile_seq' \in [WorkTile -> Int] /\ tile_local0' \in [WorkTile -> Int]
        /\ pad_off' \in [0 .. NumSeqs -> Int]
    BY EmitIs
  <2> QED  BY <2>1, <1>1 DEF PlanTypeInv, registers
<1>6. PlanScanInv'
  BY <1>1, <1>2 DEF PlanScanInv, registers
<1> QED  BY <1>2, <1>3, <1>4, <1>5, <1>6, EmitTilesPlan

LEMMA FillTailKeeps ==
  ASSUME VarlenAssumption, VarlenIInv, NEW g \in SeqSimdgroup, FillTail(g) PROVE VarlenIInv'
<1> USE DEF VarlenIInv
<1> DEFINE mine == {i \in WorkTile : i >= total_tiles[g] /\ i % nthreads \in LanesOf(g)}
<1>1. /\ varlen_pc[g] = "fill" /\ GoOn(g, "done") /\ DOMAIN varlen_pc = SeqSimdgroup
      /\ varlen_pc' = [varlen_pc EXCEPT ![g] = "done"]
      /\ tile_seq' = [i \in WorkTile |-> IF i \in mine THEN -1 ELSE tile_seq[i]]
      /\ tile_local0' = [i \in WorkTile |-> IF i \in mine THEN 0 ELSE tile_local0[i]]
      /\ UNCHANGED <<cu_seqlens, qlens, pad_off, n_tiles, varlen_sums, registers, tensors>>
  BY DEF FillTail, GoOn, PlanTypeInv
<1>2. /\ \A s : /\ qlen(s)' = qlen(s)
                /\ TilesTo(s)' = TilesTo(s) /\ PadsTo(s)' = PadsTo(s)
      /\ \A S : Tiles(S)' = Tiles(S) /\ Pads(S)' = Pads(S)
      /\ BatchInv'
  BY <1>1, SameBatch
<1>3. TogetherInv'
  <2>1. PhaseOf("done") = PhaseOf(varlen_pc[g])
    BY <1>1 DEF PhaseOf
  <2> QED  BY <2>1, <1>1, PlanPhaseKept
<1>4. PrefillInv'
  BY <1>1, NotYet
<1>5. PlanTypeInv'
  <2>1. tile_seq' \in [WorkTile -> Int] /\ tile_local0' \in [WorkTile -> Int]
    <3>1. tile_seq \in [WorkTile -> Int] /\ tile_local0 \in [WorkTile -> Int]
      BY DEF PlanTypeInv
    <3> HIDE DEF mine
    <3> QED  BY <3>1, <1>1
  <2> QED  BY <2>1, <1>1 DEF PlanTypeInv, registers
<1>6. PlanScanInv'
  BY <1>1, <1>2 DEF PlanScanInv, registers
<1>7. total_tiles[g] = TilesTo(NumSeqs)
  BY <1>1 DEF PlanScanInv
<1>8. ASSUME NEW h \in SeqSimdgroup
      PROVE  /\ Chunks(h) \subseteq Seqs
             /\ varlen_pc'[h] # "count" => varlen_pc[h] # "count"
             /\ varlen_pc'[h] \in {"emit", "fill", "done"} => varlen_pc[h] \in {"emit", "fill", "done"}
             /\ varlen_pc'[h] \in {"fill", "done"} => varlen_pc[h] \in {"fill", "done"}
             /\ h # g => varlen_pc'[h] = varlen_pc[h]
  BY <1>1, GroupSums
<1>9. ASSUME NEW h \in SeqSimdgroup, varlen_pc'[h] \in {"fill", "done"}, NEW s \in Chunks(h),
             NEW i \in TilesTo(s) .. TilesTo(s+1)-1
      PROVE  tile_seq'[i] = s /\ tile_local0'[i] = (i - TilesTo(s)) * SeqTile
  <2>1. s \in Seqs /\ tile_seq[i] = s /\ tile_local0[i] = (i - TilesTo(s)) * SeqTile
    BY <1>8, <1>9 DEF PlanInv
  <2>2. i \in WorkTile /\ i < TilesTo(NumSeqs)
    BY <2>1, OneOwner
  <2>3. i \in Int /\ TilesTo(NumSeqs) \in Int
    BY GroupSums
  <2>4. i \notin mine
    BY <2>2, <2>3, <1>7
  <2> HIDE DEF mine
  <2> QED  BY <2>1, <2>2, <2>4, <1>1
<1>10. ASSUME NEW h \in SeqSimdgroup, varlen_pc'[h] = "done", NEW i \in WorkTile,
              i >= TilesTo(NumSeqs), i % nthreads \in LanesOf(h)
       PROVE  tile_seq'[i] = -1 /\ tile_local0'[i] = 0
  <2>1. CASE i \in mine
    BY <2>1, <1>1
  <2>2. CASE i \notin mine
    <3>1. h # g
      BY <2>2, <1>7, <1>10
    <3>2. tile_seq[i] = -1 /\ tile_local0[i] = 0
      BY <3>1, <1>8, <1>10 DEF PlanInv
    <3> HIDE DEF mine
    <3> QED  BY <3>2, <2>2, <1>1
  <2> QED  BY <2>1, <2>2
<1>11. PlanInv'
  <2>1. ASSUME NEW h \in SeqSimdgroup, varlen_pc'[h] # "count", NEW s \in Chunks(h)
        PROVE  qlens'[s] = qlen(s)
    BY <2>1, <1>1, <1>8 DEF PlanInv
  <2>2. ASSUME NEW h \in SeqSimdgroup, h = 0, varlen_pc'[h] \in {"emit", "fill", "done"}
        PROVE  pad_off'[NumSeqs] = PadsTo(NumSeqs) /\ n_tiles' = TilesTo(NumSeqs)
    BY <2>2, <1>1, <1>8 DEF PlanInv
  <2>3. ASSUME NEW h \in SeqSimdgroup, varlen_pc'[h] \in {"fill", "done"}, NEW s \in Chunks(h)
        PROVE  pad_off'[s] = PadsTo(s)
    BY <2>3, <1>1, <1>8 DEF PlanInv
  <2> HIDE DEF VarlenIInv
  <2> QED  BY <2>1, <2>2, <2>3, <1>2, <1>9, <1>10 DEF PlanInv
<1> QED  BY <1>2, <1>3, <1>4, <1>5, <1>6, <1>11

LEMMA WorklistBarrierKeeps ==
  ASSUME VarlenAssumption, VarlenIInv, WorklistBarrier PROVE VarlenIInv'
<1> USE DEF VarlenIInv
<1>1. UNCHANGED <<cu_seqlens, worklist, varlen_sums, registers, tensors>>
  BY DEF WorklistBarrier
<1>2. PICK from, to :
        /\ \/ from = "counted" /\ to = "sum tiles"
           \/ from = "summed" /\ to = "publish"
           \/ from = "published" /\ to = "sum pads"
        /\ AllPassed(from, to)
  <2>1. CASE AllPassed("counted", "sum tiles")
    BY <2>1
  <2>2. CASE AllPassed("summed", "publish")
    BY <2>2
  <2>3. CASE AllPassed("published", "sum pads")
    BY <2>3
  <2> QED  BY <2>1, <2>2, <2>3 DEF WorklistBarrier
<1>3. /\ \A h \in SeqSimdgroup : varlen_pc[h] = from /\ varlen_pc'[h] = to
      /\ varlen_pc' = [h \in SeqSimdgroup |-> to]
  BY <1>2 DEF AllPassed
<1>4. /\ \A s : /\ qlen(s)' = qlen(s)
                /\ TilesTo(s)' = TilesTo(s) /\ PadsTo(s)' = PadsTo(s)
      /\ \A S : Tiles(S)' = Tiles(S) /\ Pads(S)' = Pads(S)
      /\ BatchInv'
  BY <1>1, SameBatch
<1>5. PrefillInv'
  <2>1. 0 \in SeqSimdgroup
    BY PlanSizes
  <2>2. varlen_pc[0] # "done"
    BY <2>1, <1>2, <1>3
  <2> QED  BY <2>1, <2>2, <1>1, NotYet
<1>6. TogetherInv'
  BY <1>3 DEF TogetherInv
<1>7. PlanTypeInv'
  BY <1>1, <1>2, <1>3 DEF PlanTypeInv, worklist, registers
<1>8. CASE from = "counted" /\ to = "sum tiles"
  <2>1. PlanScanInv'
    BY <1>1, <1>3, <1>4, <1>8 DEF PlanScanInv
  <2>2. PlanInv'
    BY <1>1, <1>3, <1>4, <1>8 DEF PlanInv, worklist
  <2> QED  BY <2>1, <2>2, <1>4, <1>5, <1>6, <1>7
<1>9. CASE from = "summed" /\ to = "publish"
  <2>1. PlanScanInv'
    BY <1>1, <1>3, <1>4, <1>9 DEF PlanScanInv, registers
  <2>2. PlanInv'
    BY <1>1, <1>3, <1>4, <1>9 DEF PlanInv, worklist
  <2> QED  BY <2>1, <2>2, <1>4, <1>5, <1>6, <1>7
<1>10. CASE from = "published" /\ to = "sum pads"
  <2>1. PlanScanInv'
    BY <1>1, <1>3, <1>4, <1>10 DEF PlanScanInv, registers
  <2>2. PlanInv'
    BY <1>1, <1>3, <1>4, <1>10 DEF PlanInv, worklist
  <2> QED  BY <2>1, <2>2, <1>4, <1>5, <1>6, <1>7
<1> QED  BY <1>2, <1>8, <1>9, <1>10

\* The later dispatches, and stuttering, leave the worklist alone.
LEMMA PlanStays ==
  ASSUME VarlenIInv, UNCHANGED <<cu_seqlens, worklist, varlen_sums, varlen_pc, registers>>
  PROVE  BatchInv' /\ PlanTypeInv' /\ TogetherInv' /\ PlanScanInv' /\ PlanInv' /\ (Built => Built')
<1> USE DEF VarlenIInv
<1>1. /\ \A s : /\ qlen(s)' = qlen(s)
                /\ TilesTo(s)' = TilesTo(s) /\ PadsTo(s)' = PadsTo(s)
      /\ \A S : Tiles(S)' = Tiles(S) /\ Pads(S)' = Pads(S)
      /\ BatchInv'
  BY SameBatch
<1>2. PlanTypeInv' /\ TogetherInv' /\ (Built => Built')
  BY DEF PlanTypeInv, TogetherInv, Built, worklist, registers
<1>3. PlanScanInv'
  BY <1>1 DEF PlanScanInv, registers
<1>4. PlanInv'
  BY <1>1 DEF PlanInv, worklist
<1> QED  BY <1>1, <1>2, <1>3, <1>4

LEMMA SameRows ==
  ASSUME UNCHANGED <<cu_seqlens, worklist>>
  PROVE  /\ PaddedQueries' = PaddedQueries
         /\ UNCHANGED q_hm => TileResults' = TileResults
         /\ UNCHANGED o_hm => PackedResults' = PackedResults
<1>1. PaddedQueries' = PaddedQueries
  BY DEF worklist, PaddedQueries, PadsTo, Pads, qlen, nt, SequenceAt
<1>2. UNCHANGED q_hm => TileResults' = TileResults
  BY DEF worklist, TileResults
<1>3. UNCHANGED o_hm => PackedResults' = PackedResults
  BY DEF worklist, PackedResults, SequenceAt
<1> QED  BY <1>1, <1>2, <1>3

LEMMA PadGatherKeeps == ASSUME VarlenAssumption, VarlenIInv, PadGather PROVE VarlenIInv'
<1> USE DEF VarlenIInv
<1>1. /\ Built /\ q_hm = <<>>
      /\ UNCHANGED <<cu_seqlens, worklist, varlen_sums, varlen_pc, registers, o_hm, o_packed>>
  BY DEF PadGather
<1>2. BatchInv' /\ PlanTypeInv' /\ TogetherInv' /\ PlanScanInv' /\ PlanInv' /\ Built'
  BY <1>1, PlanStays
<1>3. pad_off[NumSeqs] = PadsTo(NumSeqs)
  <2>1. 0 \in SeqSimdgroup
    BY PlanSizes
  <2> QED  BY <2>1, <1>1 DEF Built, PlanInv
<1>4. o_hm' = <<>> /\ o_packed' = <<>>
  BY <1>1 DEF PrefillInv
<1>5. q_hm' = PaddedQueries
  BY <1>3 DEF PadGather, PaddedQueries
<1>6. PrefillInv'
  BY <1>1, <1>2, <1>4, <1>5, SameRows DEF PrefillInv
<1> QED  BY <1>2, <1>6

LEMMA AttendKeeps == ASSUME VarlenAssumption, VarlenIInv, Attend PROVE VarlenIInv'
<1> USE DEF VarlenIInv
<1>1. /\ q_hm # <<>> /\ o_hm = <<>> /\ o_hm' = TileResults
      /\ UNCHANGED <<cu_seqlens, worklist, varlen_sums, varlen_pc, registers, q_hm, o_packed>>
  BY DEF Attend, TileResults
<1>2. BatchInv' /\ PlanTypeInv' /\ TogetherInv' /\ PlanScanInv' /\ PlanInv' /\ (Built => Built')
  BY <1>1, PlanStays
<1>3. o_packed' = <<>>
  BY <1>1 DEF PrefillInv
<1>4. PrefillInv'
  BY <1>1, <1>2, <1>3, SameRows DEF PrefillInv
<1> QED  BY <1>2, <1>4

LEMMA RegatherKeeps == ASSUME VarlenAssumption, VarlenIInv, Regather PROVE VarlenIInv'
<1> USE DEF VarlenIInv
<1>1. /\ o_hm # <<>> /\ o_packed' = PackedResults
      /\ UNCHANGED <<cu_seqlens, worklist, varlen_sums, varlen_pc, registers, q_hm, o_hm>>
  BY DEF Regather, PackedResults
<1>2. BatchInv' /\ PlanTypeInv' /\ TogetherInv' /\ PlanScanInv' /\ PlanInv' /\ (Built => Built')
  BY <1>1, PlanStays
<1>3. PrefillInv'
  BY <1>1, <1>2, SameRows DEF PrefillInv
<1> QED  BY <1>2, <1>3

LEMMA PlanStutters == ASSUME VarlenIInv, UNCHANGED varlenVars PROVE VarlenIInv'
<1> USE DEF VarlenIInv, varlenVars
<1>1. BatchInv' /\ PlanTypeInv' /\ TogetherInv' /\ PlanScanInv' /\ PlanInv' /\ (Built => Built')
  BY PlanStays
<1>2. PrefillInv'
  BY <1>1, SameRows DEF PrefillInv, tensors
<1> QED  BY <1>1, <1>2

LEMMA PlanStepKeeps ==
  ASSUME VarlenAssumption, VarlenIInv, [VarlenNext]_varlenVars PROVE VarlenIInv'
<1>1. ASSUME NEW g \in SeqSimdgroup,
             Count(g) \/ SumTiles(g) \/ PublishPads(g) \/ SumPads(g) \/ Emit(g) \/ FillTail(g)
      PROVE  VarlenIInv'
  BY <1>1, CountKeeps, SumTilesKeeps, PublishPadsKeeps, SumPadsKeeps, EmitTilesKeeps, FillTailKeeps
<1>2. CASE PadGather \/ Attend \/ Regather
  BY <1>2, PadGatherKeeps, AttendKeeps, RegatherKeeps
<1> QED  BY <1>1, <1>2, WorklistBarrierKeeps, PlanStutters DEF VarlenNext

\* Every sequence is some simdgroup's, so that a built plan has its tiles.
LEMMA BuiltTiles ==
  ASSUME VarlenAssumption, VarlenIInv, Built, NEW s \in Seqs
  PROVE  /\ qlens[s] = qlen(s) /\ pad_off[s] = PadsTo(s)
         /\ \A i \in TilesTo(s) .. TilesTo(s+1)-1 :
              tile_seq[i] = s /\ tile_local0[i] = (i - TilesTo(s)) * SeqTile
<1>0. /\ NumSeqs \in Nat /\ Seqs = 0 .. NumSeqs-1 /\ Groups \in Nat
      /\ SeqSimdgroup = 0 .. Groups-1
  BY PlanSizes
<1>1. \E g \in SeqSimdgroup : s \in Chunks(g)
  <2> DEFINE after == {k \in 0 .. Groups : s < FirstSeq(k)}
  <2>1. FirstSeq(0) = 0 /\ FirstSeq(Groups) = NumSeqs /\ \A k \in 0 .. Groups : FirstSeq(k) \in 0 .. NumSeqs
    BY FirstSeqs
  <2>2. Groups \in after /\ after \subseteq Nat
    BY <2>1, <1>0
  <2>3. PICK m \in after : \A k \in after : m <= k
    <3> HIDE DEF after
    <3> QED  BY <2>2, LeastOf
  <2>4. m # 0 /\ m-1 \in SeqSimdgroup /\ m-1 \in 0 .. Groups /\ (m-1)+1 = m
    BY <2>1, <1>0
  <2>5. m-1 \notin after
    BY <2>3, <2>4
  <2>6. s \in FirstSeq(m-1) .. FirstSeq(m)-1
    BY <2>1, <2>4, <2>5, <1>0
  <2>7. s \in Chunks(m-1)
    BY <2>4, <2>6, ChunksAre
  <2> QED  BY <2>4, <2>7
<1>2. PICK g \in SeqSimdgroup : s \in Chunks(g)
  BY <1>1
<1>3. varlen_pc[g] = "done"
  BY DEF Built
<1> QED  BY <1>2, <1>3 DEF PlanInv, VarlenIInv

\* A plan that is built is the host's.
LEMMA BuiltPlan == ASSUME VarlenAssumption, VarlenIInv PROVE WorklistMatchesHost
<1> USE DEF VarlenIInv
<1> SUFFICES ASSUME Built
             PROVE  /\ qlens = [s \in Seqs |-> qlen(s)]
                    /\ pad_off = [s \in 0 .. NumSeqs |-> SeqTile * Tiles(0 .. s-1)]
                    /\ n_tiles = Len(HostWorklist)
                    /\ \A i \in WorkTile : <<tile_seq[i], tile_local0[i]>> =
                         IF i < n_tiles THEN HostWorklist[i+1] ELSE <<-1, 0>>
  BY DEF WorklistMatchesHost
<1>0. /\ NumSeqs \in Nat /\ Seqs = 0 .. NumSeqs-1 /\ Groups \in Nat /\ Groups >= 1
      /\ SeqSimdgroup = 0 .. Groups-1 /\ SeqLanes \in Nat \ {0} /\ nthreads \in Nat \ {0}
      /\ nthreads = Groups * SeqLanes /\ SeqTiles \in Nat
  BY PlanSizes DEF VarlenAssumption
<1>3. pad_off[NumSeqs] = PadsTo(NumSeqs) /\ n_tiles = TilesTo(NumSeqs)
  <2>1. 0 \in SeqSimdgroup
    BY <1>0
  <2> QED  BY <2>1 DEF Built, PlanInv
<1>4. qlens = [s \in Seqs |-> qlen(s)]
  <2>1. qlens \in [Seqs -> Int]
    BY DEF PlanTypeInv
  <2> QED  BY <2>1, BuiltTiles
<1>5. pad_off = [s \in 0 .. NumSeqs |-> SeqTile * Tiles(0 .. s-1)]
  <2>1. \A s \in 0 .. NumSeqs : pad_off[s] = PadsTo(s)
    BY <1>0, <1>3, BuiltTiles
  <2>2. \A s \in 0 .. NumSeqs : PadsTo(s) = SeqTile * Tiles(0 .. s-1)
    BY TilesAre DEF TilesTo
  <2>3. pad_off \in [0 .. NumSeqs -> Int]
    BY DEF PlanTypeInv
  <2> QED  BY <2>1, <2>2, <2>3
<1>6. Len(HostWorklist) = TilesTo(NumSeqs)
  BY HostPlan
<1>7. ASSUME NEW i \in WorkTile, i < n_tiles
      PROVE  <<tile_seq[i], tile_local0[i]>> = HostWorklist[i+1]
  <2>1. i \in 0 .. TilesTo(NumSeqs)-1
    <3>1. TilesTo(NumSeqs) \in Nat
      BY <1>0, TilesAre
    <3> QED  BY <3>1, <1>0, <1>3, <1>7 DEF WorkTile
  <2>2. PICK s \in Seqs : i \in TilesTo(s) .. TilesTo(s+1)-1
    BY <2>1, PadOwner
  <2> QED  BY <2>2, BuiltTiles, HostPlan
<1>8. ASSUME NEW i \in WorkTile, ~(i < n_tiles)
      PROVE  tile_seq[i] = -1 /\ tile_local0[i] = 0
  <2> DEFINE x == i % nthreads
             g == x \div SeqLanes
  <2>1. i \in Nat /\ i >= TilesTo(NumSeqs)
    <3>1. TilesTo(NumSeqs) \in Nat
      BY <1>0, TilesAre
    <3> QED  BY <3>1, <1>0, <1>3, <1>8 DEF WorkTile
  <2>2. x \in 0 .. Groups * SeqLanes - 1
    BY <2>1, <1>0, Division
  <2> HIDE DEF x
  <2>3. g \in 0 .. Groups-1 /\ x % SeqLanes \in 0 .. SeqLanes-1 /\ x = g * SeqLanes + (x % SeqLanes)
    BY <2>2, <1>0, RowAndColumn
  <2> HIDE DEF g
  <2>4. g \in SeqSimdgroup /\ x \in LanesOf(g)
    <3> DEFINE lane0 == g * SeqLanes
               e == x % SeqLanes
    <3>1. g \in SeqSimdgroup /\ lane0 \in Nat /\ LanesOf(g) = lane0 .. lane0 + SeqLanes-1
      BY <2>3, <1>0 DEF LanesOf
    <3>2. x = lane0 + e /\ e \in 0 .. SeqLanes-1 /\ SeqLanes \in Nat
      BY <2>3, <1>0
    <3> HIDE DEF lane0, e
    <3>3. x \in lane0 .. lane0 + SeqLanes-1
      BY <3>1, <3>2
    <3> QED  BY <3>1, <3>3
  <2>5. varlen_pc[g] = "done"
    BY <2>4 DEF Built
  <2> QED  BY <2>1, <2>4, <2>5 DEF PlanInv, x
<1> QED  BY <1>3, <1>4, <1>5, <1>6, <1>7, <1>8

\* A built plan places every token in a row of its own sequence.
LEMMA OwnQuery == ASSUME VarlenAssumption, VarlenIInv PROVE AttendsOwnQuery
<1> USE DEF VarlenIInv
<1> SUFFICES ASSUME o_packed # <<>>, NEW s \in Seqs, NEW t \in cu_seqlens[s] .. cu_seqlens[s+1]-1
             PROVE  o_packed[t] = <<s, t - cu_seqlens[s], <<"q", t>>>>
  BY DEF AttendsOwnQuery
<1>1. /\ Built /\ q_hm = PaddedQueries /\ o_hm = TileResults /\ o_packed = PackedResults
  BY DEF PrefillInv
<1>2. /\ NumSeqs \in Nat /\ Seqs = 0 .. NumSeqs-1 /\ SeqTile \in Nat \ {0}
  BY PlanSizes
<1>3. s \in 0 .. NumSeqs /\ s+1 \in 0 .. NumSeqs /\ NumSeqs \in s+1 .. NumSeqs /\ NumSeqs \in 0 .. NumSeqs
  BY <1>2
<1>4. pad_off = [k \in 0 .. NumSeqs |-> PadsTo(k)]
  <2>1. \A k \in 0 .. NumSeqs : PadsTo(k) = SeqTile * Tiles(0 .. k-1)
    BY TilesAre DEF TilesTo
  <2> QED  BY <2>1, <1>1, BuiltPlan DEF WorklistMatchesHost
<1>5. /\ qlen(s) \in Nat /\ nt(s) \in Nat /\ qlen(s) <= nt(s) * SeqTile
      /\ cu_seqlens[s] \in Nat /\ cu_seqlens[NumSeqs] \in Nat
      /\ cu_seqlens[s+1] = cu_seqlens[s] + qlen(s) /\ cu_seqlens[s+1] <= cu_seqlens[NumSeqs]
      /\ cu_seqlens \in [0 .. NumSeqs -> Int]
      /\ \A a \in 0 .. NumSeqs : \A c \in a .. NumSeqs : cu_seqlens[a] <= cu_seqlens[c]
  BY <1>3, LengthsAre
<1> DEFINE place == t - cu_seqlens[s]
<1>6. place \in 0 .. qlen(s)-1 /\ t \in 0 .. cu_seqlens[NumSeqs]-1 /\ t = cu_seqlens[s] + place
  BY <1>5
<1>7. SequenceAt(cu_seqlens, t) = s
  BY <1>5, SequenceAtIs
<1> DEFINE y == TilesTo(s)
           z == PadsTo(s)
           p == z + place
<1>8. /\ y \in Nat /\ z \in Nat /\ z = SeqTile * y /\ TilesTo(s+1) = y + nt(s)
      /\ PadsTo(s+1) = z + nt(s) * SeqTile /\ PadsTo(s+1) <= PadsTo(NumSeqs) /\ PadsTo(NumSeqs) \in Nat
      /\ \A k \in 0 .. NumSeqs : PadsTo(k) \in Nat
      /\ \A a \in 0 .. NumSeqs : \A c \in a .. NumSeqs : PadsTo(a) <= PadsTo(c)
  BY <1>3, TilesAre
<1>9. pad_off[s] = z /\ pad_off[s+1] = PadsTo(s+1)
  BY <1>3, <1>4
<1>10. o_packed[t] = o_hm[p]
  BY <1>1, <1>6, <1>7, <1>9 DEF PackedResults
<1> HIDE DEF place, y, z
<1>11. p \in pad_off[s] .. pad_off[s+1]-1 /\ p \in 0 .. PadsTo(NumSeqs)-1
  <2> DEFINE m == nt(s) * SeqTile
  <2>1. m \in Nat /\ qlen(s) \in Nat /\ qlen(s) <= m
    BY <1>5, <1>2
  <2>2. /\ pad_off[s] = z /\ pad_off[s+1] = z + m /\ z \in Nat
        /\ z + m <= PadsTo(NumSeqs) /\ PadsTo(NumSeqs) \in Nat
    BY <1>8, <1>9
  <2> HIDE DEF m
  <2> QED  BY <2>1, <2>2, <1>6
<1>12. SequenceAt(pad_off, p) = s
  <2>1. pad_off \in [0 .. NumSeqs -> Int]
    BY <1>4, <1>8
  <2>2. \A a \in 0 .. NumSeqs : \A c \in a .. NumSeqs : pad_off[a] <= pad_off[c]
    <3>1. \A a \in 0 .. NumSeqs : \A c \in a .. NumSeqs : c \in 0 .. NumSeqs
      BY <1>2
    <3> QED  BY <3>1, <1>4, <1>8
  <2> QED  BY <2>1, <2>2, <1>11, SequenceAtIs
<1>13. p - pad_off[s] = place
  BY <1>6, <1>8, <1>9
<1>14. DOMAIN q_hm = 0 .. PadsTo(NumSeqs)-1 /\ q_hm[p] = <<"q", t>>
  <2>1. place < qlen(s)
    BY <1>5, <1>6
  <2> QED  BY <2>1, <1>1, <1>6, <1>11, <1>12, <1>13 DEF PaddedQueries
<1> DEFINE k == place \div SeqTile
           r == place % SeqTile
           u == y + k
<1>15. k \in Nat /\ k < nt(s) /\ r \in 0 .. SeqTile-1 /\ place = k * SeqTile + r
  <2>1. place \in 0 .. nt(s) * SeqTile - 1
    <3> DEFINE m == nt(s) * SeqTile
    <3>1. m \in Nat
      BY <1>5, <1>2
    <3> HIDE DEF m
    <3> QED  BY <3>1, <1>5, <1>6 DEF m
  <2> DEFINE n == nt(s)
  <2>2. n \in Nat /\ place \in 0 .. n * SeqTile - 1
    BY <2>1, <1>5
  <2> HIDE DEF n
  <2>3. k \in 0 .. n-1 /\ r \in 0 .. SeqTile-1 /\ place = k * SeqTile + r
    BY <2>2, <1>2, RowAndColumn
  <2> QED  BY <2>2, <2>3 DEF n
<1> HIDE DEF k, r
<1>16. p \div SeqTile = u /\ p % SeqTile = r
  <2>1. p = u * SeqTile + r /\ u \in Nat /\ u \in 0 .. (u+1)-1
    BY <1>2, <1>8, <1>15
  <2> HIDE DEF p, u
  <2> QED  BY <2>1, <1>2, <1>15, RowMajor
<1>17. u \in TilesTo(s) .. TilesTo(s+1)-1 /\ u - TilesTo(s) = k
  BY <1>5, <1>8, <1>15 DEF y
<1>18. tile_seq[u] = s /\ tile_local0[u] = k * SeqTile
  BY <1>1, <1>17, BuiltTiles
<1>19. o_hm[p] = <<s, k * SeqTile + r, <<"q", t>>>>
  <2>1. ~(s < 0)
    BY <1>2
  <2> HIDE DEF p, u
  <2> QED  BY <2>1, <1>1, <1>11, <1>14, <1>16, <1>18 DEF TileResults
<1> QED  BY <1>10, <1>15, <1>19 DEF place

LEMMA VarlenInvariant == ASSUME VarlenAssumption PROVE VarlenSpec => []VarlenIInv
<1>1. VarlenInit => VarlenIInv
  BY PlanStarts
<1>2. VarlenIInv /\ [VarlenNext]_varlenVars => VarlenIInv'
  BY PlanStepKeeps
<1> QED  BY <1>1, <1>2, PTL DEF VarlenSpec

\* The worklist that the simdgroups of one threadgroup emit, each from its own
\* bases of two prefix sums over the same memory, is the plan the host would
\* have made: for every number of sequences, lanes and threads, and all lengths
\* (varlen_build_worklist against _varlen_worklist).
THEOREM WorklistIsTheHosts ==
  ASSUME VarlenAssumption PROVE VarlenSpec => []WorklistMatchesHost
<1>1. VarlenIInv => WorklistMatchesHost
  BY BuiltPlan
<1> QED  BY <1>1, VarlenInvariant, PTL

\* Through the padding, the tiles and back, every token is attended to as the
\* token it is in the packed batch (varlen_q_pad_gather, attn_varlen_prefill,
\* varlen_o_regather).
THEOREM TokensAttendAsThemselves ==
  ASSUME VarlenAssumption PROVE VarlenSpec => []AttendsOwnQuery
<1>1. VarlenIInv => AttendsOwnQuery
  BY OwnQuery
<1> QED  BY <1>1, VarlenInvariant, PTL

-----------------------------------------------------------------------------
(***************************************************************************)
(* The padded MoE schedule.  The invariant says of every dispatch what its *)
(* threads that have run have written.  What is written is told by the     *)
(* place of a routing row in the padded space, PadPos, which the proofs    *)
(* compute from the inputs: the two binary searches of the code find that  *)
(* place, and never another row has it.                                    *)
(***************************************************************************)
\* The stages in their order.
No(s) ==
  IF s = "pad_scan" THEN 0 ELSE IF s = "pad_fill" THEN 1 ELSE IF s = "pad_scatter" THEN 2
  ELSE IF s = "gather" THEN 3 ELSE IF s = "gemm1" THEN 4 ELSE IF s = "gemm2" THEN 5
  ELSE IF s = "finalize" THEN 6 ELSE IF s = "bwd_zero" THEN 7 ELSE IF s = "finalize_bwd" THEN 8
  ELSE IF s = "bwd_gemms" THEN 9 ELSE IF s = "gather_bwd" THEN 10 ELSE 11

Stages ==
  {"pad_scan", "pad_fill", "pad_scatter", "gather", "gemm1", "gemm2", "finalize", "bwd_zero",
   "finalize_bwd", "bwd_gemms", "gather_bwd", "done"}

\* The threads of each.
ThreadsOf(s) ==
  IF s = "pad_scan" THEN {0} ELSE IF s = "pad_fill" THEN 0 .. Threads-1
  ELSE IF s = "pad_scatter" THEN Row ELSE IF s \in {"gather", "bwd_zero"} THEN PadRow
  ELSE IF s \in {"gemm1", "gemm2"} THEN Tile
  ELSE IF s \in {"finalize", "finalize_bwd", "gather_bwd"} THEN Token
  ELSE IF s = "bwd_gemms" THEN (Tile \X {"dx"}) \cup (Expert \X {"dw"}) ELSE {}

RunBy(stage, left, s, x) == No(stage) > No(s) \/ (stage = s /\ x \notin left)
HasRun(s, x) == RunBy(mlp_stage, todo, s, x)

TodoInv == mlp_stage \in Stages /\ todo \subseteq ThreadsOf(mlp_stage)

MlpInputInv ==
  /\ topk_ids \in [Row -> Expert] /\ sorted_row_idx \in [Row -> Row]
  /\ expert_offsets = [e \in 0 .. Experts |-> RowsBelow(topk_ids, e)]
  /\ CompactLayout(topk_ids, sorted_row_idx, expert_offsets)

\* The buffers have the extents they were allocated with.
ExtentInv ==
  /\ DOMAIN expert_of_tile = Tile /\ DOMAIN gather_idx = PadRow /\ DOMAIN inv_pad = Row
  /\ DOMAIN permuted = PadRow /\ DOMAIN inter = PadRow /\ DOMAIN expert_out = PadRow
  /\ DOMAIN mlp_out = Token /\ DOMAIN grad_eo = PadRow /\ DOMAIN dA = PadRow
  /\ DOMAIN dw = Expert /\ DOMAIN dx = Token /\ DOMAIN grad_w = Row
-----------------------------------------------------------------------------
(***************************************************************************)
(* The padded segments, the expert at a place, and its padded place.       *)
(***************************************************************************)
PadLayout ==
  /\ off_pad \in [0 .. Experts -> Nat] /\ off_pad[0] = 0
  /\ \A e \in Expert :
       off_pad[e+1] = off_pad[e] + CeilTile(expert_offsets[e+1] - expert_offsets[e])

ExpertAt(p) == topk_ids[sorted_row_idx[p]]
TokenAt(p)  == sorted_row_idx[p] \div K
PadPos(p)   == off_pad[ExpertAt(p)] + (p - expert_offsets[ExpertAt(p)])
TileOf(p)   == PadPos(p) \div TILE

Hidden(p) == <<"w1", ExpertAt(p), <<"x", TokenAt(p)>>>>
Gradient(r) == <<"g", r>>

ScanInv == HasRun("pad_scan", 0) => PadLayout

TileInv ==
  \A t \in Tile : HasRun("pad_fill", t % Threads) =>
    expert_of_tile[t] =
      IF t*TILE >= off_pad[Experts] THEN -1 ELSE Search(off_pad, t*TILE)

PlaceInv ==
  \A p \in Row : inv_pad[sorted_row_idx[p]] = IF HasRun("pad_scatter", p) THEN PadPos(p) ELSE -2

TokenInv ==
  \A p \in Row : HasRun("pad_scatter", p) => gather_idx[PadPos(p)] = TokenAt(p)

GatherInv ==
  \A p \in Row : HasRun("gather", PadPos(p)) => permuted[PadPos(p)] = <<"x", TokenAt(p)>>

HiddenInv ==
  \A p \in Row : HasRun("gemm1", TileOf(p)) => inter[PadPos(p)] = Hidden(p)

OutputInv ==
  \A p \in Row :
    HasRun("gemm2", TileOf(p)) => expert_out[PadPos(p)] = <<"w2", ExpertAt(p), Hidden(p)>>

\* A padded row that no routing row has keeps the zero.
ZeroInv ==
  \A q \in PadRow :
    HasRun("bwd_zero", q) /\ (\A p \in Row : PadPos(p) = q => ~HasRun("finalize_bwd", TokenAt(p)))
      => grad_eo[q] = ZeroRow

GradientInv ==
  \A p \in Row :
    HasRun("finalize_bwd", TokenAt(p)) => grad_eo[PadPos(p)] = Gradient(sorted_row_idx[p])

SentBackInv ==
  \A p \in Row : HasRun("bwd_gemms", <<TileOf(p), "dx">>) =>
    dA[PadPos(p)] = <<"w2T", ExpertAt(p), Gradient(sorted_row_idx[p])>>

SegmentProducts(e) ==
  [i \in 1 .. off_pad[e+1] - off_pad[e] |-> <<inter[off_pad[e] + i-1], grad_eo[off_pad[e] + i-1]>>]

WeightInv ==
  \A e \in Expert :
    dw[e] = IF HasRun("bwd_gemms", <<e, "dw">>) THEN SegmentProducts(e) ELSE <<>>

MlpIInv ==
  /\ TodoInv /\ MlpInputInv /\ ExtentInv
  /\ ScanInv /\ TileInv /\ PlaceInv /\ TokenInv
  /\ GatherInv /\ HiddenInv /\ OutputInv /\ CombinesItsExperts
  /\ ZeroInv /\ GradientInv /\ SentBackInv /\ WeightInv /\ InputGradient
-----------------------------------------------------------------------------
(***************************************************************************)
(* The sizes.  Every expert may pad its segment by TILE-1 rows.            *)
(***************************************************************************)
LEMMA MlpSizes ==
  ASSUME MlpAssumption
  PROVE  /\ Experts \in Nat \ {0} /\ T \in Nat \ {0} /\ K \in Nat \ {0}
         /\ TILE \in Nat \ {0} /\ Threads \in Nat \ {0} /\ TK \in Nat \ {0}
         /\ MaxTiles \in Nat /\ TotalPadMax = MaxTiles * TILE /\ TotalPadMax \in Nat
         /\ (TILE-1) * Experts \in Nat /\ TK + (TILE-1) * Experts <= TotalPadMax
<1>1. /\ Experts \in Nat \ {0} /\ T \in Nat \ {0} /\ K \in Nat \ {0}
      /\ TILE \in Nat \ {0} /\ Threads \in Nat \ {0}
  BY DEF MlpAssumption
<1>2. TK \in Nat \ {0} /\ (TILE-1) * Experts \in Nat
  BY <1>1 DEF TK
<1> DEFINE a == TK + (TILE-1) * Experts
           X == a + TILE-1
           d == X \div TILE
<1>3. a \in Nat /\ X \in Nat /\ X = a + (TILE-1)
  BY <1>1, <1>2
<1>4. d \in Nat /\ X % TILE \in 0 .. TILE-1 /\ X = TILE * d + (X % TILE)
  <2> HIDE DEF X
  <2> QED  BY <1>1, <1>3, Division
<1>5. TILE * d \in Nat /\ TILE * d = d * TILE /\ a <= d * TILE
  <2> HIDE DEF X, d, a
  <2> QED  BY <1>1, <1>3, <1>4
<1>6. TotalPadMax = d * TILE
  BY DEF TotalPadMax
<1>7. MaxTiles = d
  <2>1. d \in 0 .. (d+1)-1 /\ 0 \in 0 .. TILE-1 /\ d+1 \in Nat
    <3> HIDE DEF d
    <3> QED  BY <1>1, <1>4
  <2>2. (d * TILE + 0) \div TILE = d
    <3> HIDE DEF d
    <3> QED  BY <2>1, <1>1, RowMajor
  <2>3. d * TILE + 0 = d * TILE
    <3> HIDE DEF d
    <3> QED  BY <1>5
  <2> HIDE DEF d
  <2> QED  BY <2>2, <2>3, <1>6 DEF MaxTiles
<1> HIDE DEF d
<1> QED  BY <1>1, <1>2, <1>4, <1>5, <1>6, <1>7

\* A sequence that never falls.
LEMMA Rising ==
  ASSUME NEW N \in Nat, NEW f \in [0 .. N -> Int], \A n \in 0 .. N-1 : f[n] <= f[n+1]
  PROVE  \A d, e \in 0 .. N : d <= e => f[d] <= f[e]
<1> DEFINE S == {e \in 0 .. N : \A d \in 0 .. N : d <= e => f[d] <= f[e]}
<1>1. ASSUME NEW e \in 0 .. N, \A i \in 0 .. e-1 : i \in S PROVE e \in S
  <2>1. SUFFICES ASSUME NEW d \in 0 .. N, d <= e PROVE f[d] <= f[e]
    OBVIOUS
  <2>2. CASE d = e
    BY <2>2
  <2>3. CASE d # e
    <3>1. e-1 \in 0 .. e-1 /\ e-1 \in 0 .. N-1 /\ (e-1)+1 = e /\ d <= e-1
      BY <2>1, <2>3
    <3>2. f[d] <= f[e-1]
      BY <3>1, <1>1
    <3>3. f[e-1] <= f[e]
      BY <3>1
    <3> QED  BY <3>1, <3>2, <3>3
  <2> QED  BY <2>2, <2>3
<1>2. 0 .. N \subseteq S
  <2> HIDE DEF S
  <2> QED  BY <1>1, IntervalInduction
<1> QED  BY <1>2

\* Segments are disjoint.
LEMMA OneSegment ==
  ASSUME NEW N \in Nat, NEW f \in [0 .. N -> Int], \A d, e \in 0 .. N : d <= e => f[d] <= f[e],
         NEW p \in Int, NEW d \in 0 .. N-1, NEW e \in 0 .. N-1,
         f[d] <= p, p < f[d+1], f[e] <= p, p < f[e+1]
  PROVE  d = e
<1>1. ASSUME d < e PROVE FALSE
  <2>1. f[d+1] <= f[e] /\ f[d+1] \in Int /\ f[e] \in Int
    BY <1>1
  <2> QED  BY <2>1
<1>2. ASSUME e < d PROVE FALSE
  <2>1. f[e+1] <= f[d] /\ f[e+1] \in Int /\ f[d] \in Int
    BY <1>2
  <2> QED  BY <2>1
<1> QED  BY <1>1, <1>2
-----------------------------------------------------------------------------
(***************************************************************************)
(* The binary search of moe_pad_offsets and moe_pad_scatter finds the      *)
(* segment that contains p.                                                *)
(***************************************************************************)
LEMMA SearchFinds ==
  ASSUME Experts \in Nat \ {0}, NEW off \in [0 .. Experts -> Int],
         \A d, e \in 0 .. Experts : d <= e => off[d] <= off[e],
         NEW p \in Int, off[0] <= p, p < off[Experts]
  PROVE  LET e == Search(off, p) IN e \in Expert /\ off[e] <= p /\ p < off[e+1]
<1> DEFINE Pairs == (0 .. Experts) \X (0 .. Experts)
           F(s) == [r \in Pairs |->
                      IF r[2] - r[1] <= 1 THEN r[1]
                      ELSE IF off[(r[1] + r[2]) \div 2] <= p THEN s[<<(r[1] + r[2]) \div 2, r[2]>>]
                           ELSE s[<<r[1], (r[1] + r[2]) \div 2>>]]
           R == CHOOSE s : s = F(s)
           At(n) == {d \in 0 .. n : off[d] <= p}
\* The middle is inside.
<1>1. ASSUME NEW lo \in 0 .. Experts, NEW hi \in 0 .. Experts, hi - lo > 1
      PROVE  (lo + hi) \div 2 \in 0 .. Experts /\ lo < (lo + hi) \div 2 /\ (lo + hi) \div 2 < hi
  BY <1>1
\* The last segment that begins at or before p.
<1>2. PICK last \in 0 .. Experts : off[last] <= p /\ \A d \in 0 .. Experts : off[d] <= p => d <= last
  <2>1. 0 \in At(Experts) /\ At(Experts) \subseteq 0 .. Experts
    OBVIOUS
  <2>2. PICK m \in At(Experts) : \A d \in At(Experts) : d <= m
    <3> HIDE DEF At
    <3> QED  BY <2>1, GreatestOf
  <2> QED  BY <2>2
<1>3. \A d \in 0 .. Experts : off[d] <= p <=> d <= last
  BY <1>2
<1> DEFINE Last(lo, hi) == IF hi - lo <= 1 THEN lo
                            ELSE IF last <= lo THEN lo ELSE IF last >= hi-1 THEN hi-1 ELSE last
           G == [r \in Pairs |-> Last(r[1], r[2])]
<1>4. G = F(G)
  <2>1. ASSUME NEW lo \in 0 .. Experts, NEW hi \in 0 .. Experts, hi - lo > 1
        PROVE  Last(lo, hi) = IF off[(lo + hi) \div 2] <= p THEN Last((lo + hi) \div 2, hi)
                              ELSE Last(lo, (lo + hi) \div 2)
    <3> DEFINE mid == (lo + hi) \div 2
    <3>1. mid \in 0 .. Experts /\ lo < mid /\ mid < hi
      BY <1>1, <2>1
    <3>2. off[mid] <= p <=> mid <= last
      BY <3>1, <1>3
    <3> HIDE DEF mid
    <3>3. CASE mid <= last
      <4>1. Last(lo, hi) = Last(mid, hi)
        BY <3>1, <3>3, <2>1
      <4> HIDE DEF Last
      <4> QED  BY <4>1, <3>2, <3>3 DEF mid
    <3>4. CASE ~(mid <= last)
      <4>1. Last(lo, hi) = Last(lo, mid)
        BY <3>1, <3>4, <2>1
      <4> HIDE DEF Last
      <4> QED  BY <4>1, <3>2, <3>4 DEF mid
    <3> HIDE DEF Last
    <3> QED  BY <3>3, <3>4
  <2>2. ASSUME NEW r \in Pairs
        PROVE  G[r] = IF r[2] - r[1] <= 1 THEN r[1]
                      ELSE IF off[(r[1] + r[2]) \div 2] <= p THEN G[<<(r[1] + r[2]) \div 2, r[2]>>]
                           ELSE G[<<r[1], (r[1] + r[2]) \div 2>>]
    <3> DEFINE mid == (r[1] + r[2]) \div 2
    <3>1. r[1] \in 0 .. Experts /\ r[2] \in 0 .. Experts /\ G[r] = Last(r[1], r[2])
      OBVIOUS
    <3>2. CASE r[2] - r[1] <= 1
      BY <3>1, <3>2
    <3>3. CASE r[2] - r[1] > 1
      <4>1. mid \in 0 .. Experts
        BY <1>1, <3>1, <3>3
      <4>2. Last(r[1], r[2]) = IF off[mid] <= p THEN Last(mid, r[2]) ELSE Last(r[1], mid)
        BY <2>1, <3>1, <3>3
      <4> HIDE DEF mid, Last
      <4>3. G[<<mid, r[2]>>] = Last(mid, r[2]) /\ G[<<r[1], mid>>] = Last(r[1], mid)
        BY <3>1, <4>1
      <4> HIDE DEF G
      <4> QED  BY <3>1, <3>3, <4>2, <4>3 DEF mid
    <3> HIDE DEF G, mid
    <3> QED  BY <3>1, <3>2, <3>3
  <2>3. G = [r \in Pairs |-> G[r]]
    OBVIOUS
  <2> HIDE DEF G, Last
  <2> QED  BY <2>2, <2>3
<1>5. R = F(R)
  <2> HIDE DEF F, G
  <2> QED  BY <1>4
<1>6. ASSUME NEW lo \in 0 .. Experts, NEW hi \in 0 .. Experts
      PROVE  R[<<lo, hi>>] =
               IF hi - lo <= 1 THEN lo
               ELSE IF off[(lo + hi) \div 2] <= p THEN R[<<(lo + hi) \div 2, hi>>]
                    ELSE R[<<lo, (lo + hi) \div 2>>]
  <2>1. <<lo, hi>> \in Pairs /\ <<lo, hi>>[1] = lo /\ <<lo, hi>>[2] = hi
    OBVIOUS
  <2> HIDE DEF R
  <2> QED  BY <1>5, <2>1
<1>7. R[<<0, Experts>>] = Search(off, p)
  BY DEF Search
<1> HIDE DEF R
<1> DEFINE Ok(e) == e \in Expert /\ off[e] <= p /\ p < off[e+1]
           S == {n \in 0 .. Experts : \A lo, hi \in 0 .. Experts :
                   hi - lo = n /\ n > 0 /\ off[lo] <= p /\ p < off[hi] => Ok(R[<<lo, hi>>])}
<1>8. ASSUME NEW n \in 0 .. Experts, \A i \in 0 .. n-1 : i \in S PROVE n \in S
  <2>1. SUFFICES ASSUME NEW lo \in 0 .. Experts, NEW hi \in 0 .. Experts,
                        hi - lo = n, n > 0, off[lo] <= p, p < off[hi]
                 PROVE  Ok(R[<<lo, hi>>])
    OBVIOUS
  <2>2. CASE n = 1
    <3>1. hi = lo + 1 /\ lo \in Expert
      BY <2>1, <2>2 DEF Expert
    <3>2. R[<<lo, hi>>] = lo
      <4>1. hi - lo <= 1
        BY <3>1
      <4> HIDE DEF R
      <4> QED  BY <4>1, <1>6
    <3> QED  BY <3>1, <3>2, <2>1
  <2>3. CASE n > 1
    <3> DEFINE mid == (lo + hi) \div 2
    <3>1. mid \in 0 .. Experts /\ lo < mid /\ mid < hi
      BY <1>1, <2>1, <2>3
    <3>2. R[<<lo, hi>>] = IF off[mid] <= p THEN R[<<mid, hi>>] ELSE R[<<lo, mid>>]
      BY <1>6, <2>1, <2>3
    <3> HIDE DEF mid
    <3>3. hi - mid \in 0 .. n-1 /\ hi - mid > 0 /\ mid - lo \in 0 .. n-1 /\ mid - lo > 0
      BY <3>1, <2>1
    <3>4. CASE off[mid] <= p
      <4>1. hi - mid \in S
        BY <3>3, <1>8
      <4>2. Ok(R[<<mid, hi>>])
        BY <4>1, <3>1, <3>3, <3>4, <2>1
      <4> HIDE DEF Ok
      <4> QED  BY <4>2, <3>2, <3>4
    <3>5. CASE ~(off[mid] <= p)
      <4>1. mid - lo \in S
        BY <3>3, <1>8
      <4>0. p < off[mid]
        BY <3>1, <3>5
      <4>2. Ok(R[<<lo, mid>>])
        BY <4>0, <4>1, <3>1, <3>3, <2>1
      <4> HIDE DEF Ok
      <4> QED  BY <4>2, <3>2, <3>5
    <3> QED  BY <3>4, <3>5
  <2> QED  BY <2>1, <2>2, <2>3
<1>9. 0 .. Experts \subseteq S
  <2> HIDE DEF S
  <2> QED  BY <1>8, IntervalInduction
<1>10. Experts \in S /\ 0 \in 0 .. Experts
  <2>1. Experts \in 0 .. Experts /\ 0 \in 0 .. Experts
    OBVIOUS
  <2> HIDE DEF S
  <2> QED  BY <1>9, <2>1
<1>11. Ok(R[<<0, Experts>>])
  BY <1>10
<1> QED  BY <1>7, <1>11
-----------------------------------------------------------------------------
(***************************************************************************)
(* The compact layout: the segments of the experts one after the other,    *)
(* and every place in the segment of its expert.                           *)
(***************************************************************************)
LEMMA Compact ==
  ASSUME MlpAssumption, MlpInputInv
  PROVE  /\ expert_offsets \in [0 .. Experts -> 0 .. TK]
         /\ expert_offsets[0] = 0 /\ expert_offsets[Experts] = TK
         /\ \A d, e \in 0 .. Experts : d <= e => expert_offsets[d] <= expert_offsets[e]
         /\ \A p \in Row : /\ ExpertAt(p) \in Expert /\ sorted_row_idx[p] \in Row
                           /\ expert_offsets[ExpertAt(p)] <= p
                           /\ p < expert_offsets[ExpertAt(p) + 1]
         /\ \A p, q \in Row : sorted_row_idx[p] = sorted_row_idx[q] => p = q
<1> DEFINE Low(e) == {r \in Row : topk_ids[r] < e}
<1>1. IsFiniteSet(Row) /\ Cardinality(Row) = TK
  <2>1. 0 \in Int /\ TK-1 \in Int /\ ~(0 > TK-1) /\ TK-1-0+1 = TK
    BY MlpSizes
  <2> QED  BY <2>1, FS_Interval DEF Row
<1>2. \A e : Low(e) \subseteq Row
  OBVIOUS
<1>3. \A e \in 0 .. Experts : Cardinality(Low(e)) \in 0 .. TK
  <2> HIDE DEF Low
  <2> QED  BY <1>1, <1>2, FS_Subset, FS_CardinalityType
<1>4. expert_offsets = [e \in 0 .. Experts |-> Cardinality(Low(e))]
  BY DEF MlpInputInv, RowsBelow
<1>5. \A r \in Row : topk_ids[r] \in 0 .. Experts-1
  BY DEF MlpInputInv, Expert
<1>6. Low(0) = {} /\ Low(Experts) = Row
  BY <1>5, MlpSizes
<1>7. ASSUME NEW d \in 0 .. Experts, NEW e \in 0 .. Experts, d <= e
      PROVE  Cardinality(Low(d)) <= Cardinality(Low(e))
  <2>1. Low(d) \subseteq Low(e)
    BY <1>5, <1>7
  <2>2. IsFiniteSet(Low(e))
    <3> HIDE DEF Low
    <3> QED  BY <1>1, <1>2, FS_Subset
  <2> HIDE DEF Low
  <2> QED  BY <2>1, <2>2, FS_Subset
<1>8. \A p \in Row : /\ ExpertAt(p) \in Expert /\ sorted_row_idx[p] \in Row
                     /\ expert_offsets[ExpertAt(p)] <= p
                     /\ p < expert_offsets[ExpertAt(p) + 1]
  BY DEF MlpInputInv, CompactLayout, ExpertAt
<1>9. \A p, q \in Row : sorted_row_idx[p] = sorted_row_idx[q] => p = q
  BY DEF MlpInputInv, CompactLayout
<1> HIDE DEF Low
<1>10. expert_offsets[0] = 0 /\ expert_offsets[Experts] = TK
  <2>1. 0 \in 0 .. Experts /\ Experts \in 0 .. Experts
    BY MlpSizes
  <2> QED  BY <2>1, <1>1, <1>4, <1>6, FS_EmptySet
<1>11. \A d, e \in 0 .. Experts : d <= e => expert_offsets[d] <= expert_offsets[e]
  BY <1>4, <1>7
<1>12. expert_offsets \in [0 .. Experts -> 0 .. TK]
  BY <1>3, <1>4
<1> QED  BY <1>8, <1>9, <1>10, <1>11, <1>12

\* Every routing row is somewhere.
LEMMA EveryRowPlaced ==
  ASSUME MlpAssumption, MlpInputInv, NEW r \in Row
  PROVE  \E p \in Row : sorted_row_idx[p] = r
<1>1. IsFiniteSet(Row)
  BY MlpSizes, FS_Interval DEF Row
<1>2. sorted_row_idx \in [Row -> Row]
  BY DEF MlpInputInv
<1>3. sorted_row_idx \in Injection(Row, Row)
  BY <1>2, Compact DEF Injection, IsInjective
<1>4. sorted_row_idx \in Surjection(Row, Row)
  BY <1>1, <1>3, FS_Injection
<1> QED  BY <1>4 DEF Surjection

\* A count rounded up to whole tiles.
LEMMA CeilTileIs ==
  ASSUME MlpAssumption, NEW n \in Nat
  PROVE  /\ CeilTile(n) \in Nat /\ n <= CeilTile(n) /\ CeilTile(n) <= n + (TILE-1)
         /\ \E m \in Nat : CeilTile(n) = m * TILE
<1> DEFINE a == n + TILE-1  d == a \div TILE
<1>1. TILE \in Nat \ {0} /\ a \in Nat
  BY MlpSizes
<1>2. d \in Nat /\ a % TILE \in 0 .. TILE-1 /\ a = TILE * d + (a % TILE)
  <2> HIDE DEF a
  <2> QED  BY <1>1, Division
<1>3. CeilTile(n) = d * TILE
  BY DEF CeilTile
<1>4. d * TILE \in Nat /\ n <= d * TILE /\ d * TILE <= n + (TILE-1)
  <2>1. TILE * d \in Nat /\ TILE * d = d * TILE
    <3> HIDE DEF d
    <3> QED  BY <1>1, <1>2
  <2>2. n + TILE-1 = TILE * d + (a % TILE)
    BY <1>2
  <2> HIDE DEF d, a
  <2> QED  BY <1>1, <1>2, <2>1, <2>2
<1> HIDE DEF d
<1> QED  BY <1>2, <1>3, <1>4

(***************************************************************************)
(* The padded layout: every segment begins with a tile, has room for its   *)
(* rows, and the last one ends within the static size.                     *)
(***************************************************************************)
LEMMA PaddedSegments ==
  ASSUME MlpAssumption, MlpInputInv, PadLayout
  PROVE  /\ \A e \in 0 .. Experts : off_pad[e] \in Nat /\ \E m \in Nat : off_pad[e] = m * TILE
         /\ \A e \in Expert :
              off_pad[e+1] - off_pad[e] >= expert_offsets[e+1] - expert_offsets[e]
         /\ \A d, e \in 0 .. Experts : d <= e => off_pad[d] <= off_pad[e]
         /\ off_pad[Experts] <= TotalPadMax
<1>1. /\ off_pad \in [0 .. Experts -> Nat] /\ off_pad[0] = 0
      /\ \A e \in 0 .. Experts-1 :
           off_pad[e+1] = off_pad[e] + CeilTile(expert_offsets[e+1] - expert_offsets[e])
  BY DEF PadLayout, Expert
<1>2. \A e \in 0 .. Experts-1 :
        /\ expert_offsets[e] \in Nat /\ expert_offsets[e+1] \in Nat
        /\ expert_offsets[e+1] - expert_offsets[e] \in Nat
  <2> SUFFICES ASSUME NEW e \in 0 .. Experts-1
               PROVE  /\ expert_offsets[e] \in Nat /\ expert_offsets[e+1] \in Nat
                      /\ expert_offsets[e+1] - expert_offsets[e] \in Nat
    OBVIOUS
  <2>1. e \in 0 .. Experts /\ e+1 \in 0 .. Experts /\ e <= e+1
    BY MlpSizes
  <2>2. expert_offsets[e] \in Nat /\ expert_offsets[e+1] \in Nat /\ expert_offsets[e] <= expert_offsets[e+1]
    BY <2>1, Compact
  <2> QED  BY <2>2
<1>3. ASSUME NEW e \in 0 .. Experts-1
      PROVE  /\ off_pad[e] \in Nat /\ off_pad[e+1] \in Nat
             /\ off_pad[e+1] >= off_pad[e] + (expert_offsets[e+1] - expert_offsets[e])
             /\ off_pad[e+1] <= off_pad[e] + (expert_offsets[e+1] - expert_offsets[e]) + (TILE-1)
             /\ \E m \in Nat : off_pad[e+1] = off_pad[e] + m * TILE
  <2> DEFINE n == expert_offsets[e+1] - expert_offsets[e]
  <2>1. n \in Nat /\ off_pad[e+1] = off_pad[e] + CeilTile(n)
    BY <1>1, <1>2
  <2>2. e \in 0 .. Experts /\ e+1 \in 0 .. Experts
    BY MlpSizes
  <2>3. off_pad[e] \in Nat /\ off_pad[e+1] \in Nat
    BY <1>1, <2>2
  <2> HIDE DEF n
  <2>4. /\ CeilTile(n) \in Nat /\ n <= CeilTile(n) /\ CeilTile(n) <= n + (TILE-1)
        /\ \E m \in Nat : CeilTile(n) = m * TILE
    BY <2>1, CeilTileIs
  <2>5. TILE \in Nat
    BY MlpSizes
  <2>6. /\ off_pad[e+1] >= off_pad[e] + n
        /\ off_pad[e+1] <= off_pad[e] + n + (TILE-1)
    BY <2>1, <2>3, <2>4, <2>5
  <2>7. \E m \in Nat : off_pad[e+1] = off_pad[e] + m * TILE
    BY <2>1, <2>4
  <2> QED  BY <2>3, <2>6, <2>7 DEF n
<1>4. \A d, e \in 0 .. Experts : d <= e => off_pad[d] <= off_pad[e]
  <2>1. off_pad \in [0 .. Experts -> Int] /\ Experts \in Nat
    BY <1>1, MlpSizes
  <2>2. \A e \in 0 .. Experts-1 : off_pad[e] <= off_pad[e+1]
    BY <1>2, <1>3
  <2> QED  BY <2>1, <2>2, Rising
<1> DEFINE S == {e \in 0 .. Experts :
                   /\ off_pad[e] \in Nat /\ \E m \in Nat : off_pad[e] = m * TILE
                   /\ (TILE-1) * e \in Nat
                   /\ off_pad[e] <= expert_offsets[e] + (TILE-1) * e}
<1>5. ASSUME NEW e \in 0 .. Experts, \A i \in 0 .. e-1 : i \in S PROVE e \in S
  <2>1. CASE e = 0
    <3>1. (TILE-1) * 0 = 0 /\ 0 * TILE = 0 /\ 0 \in Nat
      BY MlpSizes
    <3>2. off_pad[0] = 0 * TILE
      BY <3>1, <1>1
    <3>3. \E m \in Nat : off_pad[e] = m * TILE
      BY <3>1, <3>2, <2>1
    <3> QED  BY <3>1, <3>3, <2>1, <1>1, Compact
  <2>2. CASE e # 0
    <3>1. e-1 \in S /\ e-1 \in 0 .. Experts-1 /\ (e-1)+1 = e /\ TILE-1 \in Nat
      BY <2>2, <1>5, MlpSizes
    <3>2. PICK m \in Nat : off_pad[e-1] = m * TILE
      BY <3>1
    <3>3. PICK n \in Nat : off_pad[e] = off_pad[e-1] + n * TILE
      BY <3>1, <1>3
    <3>4. m * TILE + n * TILE = (m + n) * TILE /\ m + n \in Nat
      BY MlpSizes
    <3>5. \E i \in Nat : off_pad[e] = i * TILE
      BY <3>2, <3>3, <3>4
    <3>6. (TILE-1) * e = (TILE-1) * (e-1) + (TILE-1)
      BY <3>1
    <3>7. (TILE-1) * (e-1) \in Nat /\ off_pad[e-1] <= expert_offsets[e-1] + (TILE-1) * (e-1)
      BY <3>1
    <3>8. /\ off_pad[e] \in Nat /\ off_pad[e-1] \in Nat
          /\ expert_offsets[e-1] \in Nat /\ expert_offsets[e] \in Nat
          /\ off_pad[e] <= off_pad[e-1] + (expert_offsets[e] - expert_offsets[e-1]) + (TILE-1)
      BY <3>1, <1>2, <1>3
    <3>9. (TILE-1) * e \in Nat /\ off_pad[e] <= expert_offsets[e] + (TILE-1) * e
      BY <3>1, <3>6, <3>7, <3>8
    <3> QED  BY <3>5, <3>8, <3>9
  <2> QED  BY <2>1, <2>2
<1>6. 0 .. Experts \subseteq S
  <2>1. Experts \in Nat
    BY MlpSizes
  <2> HIDE DEF S
  <2> QED  BY <1>5, <2>1, IntervalInduction
<1>7. off_pad[Experts] <= TotalPadMax
  <2>1. Experts \in 0 .. Experts
    BY MlpSizes
  <2>2. off_pad[Experts] \in Nat /\ off_pad[Experts] <= TK + (TILE-1) * Experts
    BY <2>1, <1>6, Compact
  <2> QED  BY <2>2, MlpSizes
<1>8. \A e \in Expert : off_pad[e+1] - off_pad[e] >= expert_offsets[e+1] - expert_offsets[e]
  <2> SUFFICES ASSUME NEW e \in 0 .. Experts-1
               PROVE  off_pad[e+1] - off_pad[e] >= expert_offsets[e+1] - expert_offsets[e]
    BY DEF Expert
  <2> QED  BY <1>2, <1>3
<1> QED  BY <1>4, <1>6, <1>7, <1>8
-----------------------------------------------------------------------------
(***************************************************************************)
(* Where the routing row at compact place p goes: within the segment of    *)
(* its expert, in a tile that begins there, and to a place of its own.     *)
(***************************************************************************)
LEMMA MlpPlaces ==
  ASSUME MlpAssumption, MlpInputInv, PadLayout, NEW p \in Row
  PROVE  /\ ExpertAt(p) \in Expert /\ sorted_row_idx[p] \in Row
         /\ Search(expert_offsets, p) = ExpertAt(p)
         /\ PadPos(p) \in PadRow
         /\ off_pad[ExpertAt(p)] <= PadPos(p) /\ PadPos(p) < off_pad[ExpertAt(p) + 1]
         /\ TileOf(p) \in Tile /\ \A t \in Tile : PadPos(p) \in RowsOfTile(t) <=> t = TileOf(p)
         /\ TileOf(p) * TILE \in Nat /\ TileOf(p) * TILE < off_pad[Experts]
         /\ Search(off_pad, TileOf(p) * TILE) = ExpertAt(p)
<1> DEFINE e == ExpertAt(p)  pos == PadPos(p)  t == TileOf(p)
<1>1. /\ e \in Expert /\ sorted_row_idx[p] \in Row
      /\ expert_offsets[e] <= p /\ p < expert_offsets[e+1]
  BY Compact
<1>2. /\ Experts \in Nat \ {0} /\ TILE \in Nat \ {0} /\ MaxTiles \in Nat
      /\ TotalPadMax = MaxTiles * TILE /\ TotalPadMax \in Nat /\ TK \in Nat \ {0}
  BY MlpSizes
<1>3. pos = off_pad[e] + (p - expert_offsets[e])
  BY DEF PadPos
<1>4. t = pos \div TILE
  BY DEF TileOf
<1> HIDE DEF e, pos, t
<1>5. e \in 0 .. Experts /\ e+1 \in 0 .. Experts /\ e \in 0 .. Experts-1 /\ p \in Nat /\ p < TK
  BY <1>1, <1>2 DEF Expert, Row
<1>6. /\ expert_offsets[e] \in Nat /\ expert_offsets[e+1] \in Nat
      /\ off_pad[e] \in Nat /\ off_pad[e+1] \in Nat /\ off_pad[Experts] \in Nat
  <2>1. expert_offsets \in [0 .. Experts -> 0 .. TK]
    BY Compact
  <2>2. Experts \in 0 .. Experts
    BY <1>2
  <2> QED  BY <2>1, <2>2, <1>2, <1>5, PaddedSegments
<1>7. off_pad[e] <= pos /\ pos < off_pad[e+1]
  <2>1. off_pad[e+1] - off_pad[e] >= expert_offsets[e+1] - expert_offsets[e]
    BY <1>1, PaddedSegments
  <2> QED  BY <2>1, <1>1, <1>3, <1>5, <1>6
<1>8. pos \in Nat /\ pos < TotalPadMax /\ pos < off_pad[Experts]
  <2>1. off_pad[e+1] <= off_pad[Experts] /\ off_pad[Experts] <= TotalPadMax
    <3>1. Experts \in 0 .. Experts /\ e+1 <= Experts
      BY <1>2, <1>5
    <3> QED  BY <3>1, <1>5, PaddedSegments
  <2> QED  BY <2>1, <1>2, <1>3, <1>5, <1>6, <1>7
<1>9. pos \in PadRow
  BY <1>2, <1>8 DEF PadRow
<1>10. /\ t \in 0 .. MaxTiles-1 /\ pos % TILE \in 0 .. TILE-1
       /\ pos = t * TILE + (pos % TILE)
  <2>1. pos \in 0 .. MaxTiles * TILE - 1
    BY <1>2, <1>8
  <2> QED  BY <2>1, <1>2, <1>4, RowAndColumn
<1>11. t \in Nat /\ t * TILE \in Nat /\ t * TILE = TILE * t
  BY <1>2, <1>10
<1>12. ASSUME NEW u \in Tile PROVE pos \in RowsOfTile(u) <=> u = t
  <2>1. u \in Nat /\ u * TILE \in Nat /\ u * TILE = TILE * u
    BY <1>2 DEF Tile
  <2>2. ASSUME pos \in RowsOfTile(u) PROVE u = t
    <3>1. pos - u * TILE \in 0 .. TILE-1
      BY <2>1, <2>2, <1>2, <1>8 DEF RowsOfTile
    <3>2. TILE * u + (pos - u * TILE) = TILE * t + (pos % TILE)
      BY <3>1, <2>1, <1>2, <1>8, <1>10, <1>11
    <3> DEFINE r == pos - u * TILE  r2 == pos % TILE
    <3>3. r \in 0 .. TILE-1 /\ r2 \in 0 .. TILE-1 /\ TILE * u + r = TILE * t + r2
      BY <3>1, <3>2, <1>10
    <3>4. u \in Int /\ t \in Int /\ TILE \in Nat \ {0}
      BY <2>1, <1>2, <1>11
    <3> HIDE DEF r, r2
    <3> QED  BY <3>3, <3>4, DivisionUnique
  <2>3. ASSUME u = t PROVE pos \in RowsOfTile(u)
    BY <2>3, <1>2, <1>8, <1>10, <1>11 DEF RowsOfTile
  <2> QED  BY <2>2, <2>3
\* The tile begins within the segment.
<1>13. off_pad[e] <= t * TILE
  <2>1. PICK m \in Nat : off_pad[e] = m * TILE
    BY <1>5, PaddedSegments
  <2>2. m * TILE \in Nat /\ TILE * (m - t) = m * TILE - t * TILE
        /\ TILE * (t - m) = t * TILE - m * TILE
    BY <1>2, <1>11
  <2>3. CASE m <= t
    <3>1. CASE m = t
      BY <3>1, <2>1, <1>11
    <3>2. CASE m # t
      <4>1. t - m \in Int /\ t - m >= 1
        BY <2>3, <3>2, <1>11
      <4>2. TILE * (t - m) >= TILE
        BY <4>1, <1>2, Multiple
      <4> QED  BY <4>2, <2>1, <2>2, <1>2, <1>11
    <3> QED  BY <3>1, <3>2
  <2>4. CASE ~(m <= t)
    <3>1. m - t \in Int /\ m - t >= 1
      BY <2>4, <1>11
    <3>2. TILE * (m - t) >= TILE
      BY <3>1, <1>2, Multiple
    <3>3. m * TILE - t * TILE >= TILE
      BY <3>2, <2>2
    <3>4. pos < m * TILE
      BY <3>3, <2>2, <1>2, <1>8, <1>10, <1>11
    <3> QED  BY <3>4, <2>1, <2>2, <1>7, <1>8
  <2> QED  BY <2>3, <2>4
<1>14. t * TILE <= pos
  BY <1>2, <1>8, <1>10, <1>11
<1>15. t * TILE < off_pad[e+1] /\ t * TILE < off_pad[Experts]
  BY <1>6, <1>7, <1>8, <1>11, <1>14
\* Both searches.
<1>16. Search(expert_offsets, p) = e
  <2>1. /\ expert_offsets \in [0 .. Experts -> Int] /\ p \in Int
        /\ \A c, d \in 0 .. Experts : c <= d => expert_offsets[c] <= expert_offsets[d]
        /\ expert_offsets[0] <= p /\ p < expert_offsets[Experts]
    <3>1. expert_offsets \in [0 .. Experts -> 0 .. TK]
      BY Compact
    <3>2. expert_offsets \in [0 .. Experts -> Int]
      BY <3>1, <1>2
    <3> QED  BY <3>2, <1>5, Compact
  <2> DEFINE f == Search(expert_offsets, p)
  <2>2. f \in Expert /\ expert_offsets[f] <= p /\ p < expert_offsets[f+1]
    BY <2>1, <1>2, SearchFinds
  <2> HIDE DEF f
  <2>3. f = e
    <3>1. f \in 0 .. Experts-1
      BY <2>2 DEF Expert
    <3> QED  BY <3>1, <2>1, <2>2, <1>1, <1>2, <1>5, OneSegment
  <2> QED  BY <2>3 DEF f
<1>17. Search(off_pad, t * TILE) = e
  <2>1. /\ off_pad \in [0 .. Experts -> Int] /\ t * TILE \in Int
        /\ \A c, d \in 0 .. Experts : c <= d => off_pad[c] <= off_pad[d]
        /\ off_pad[0] <= t * TILE /\ t * TILE < off_pad[Experts]
    <3>1. off_pad \in [0 .. Experts -> Nat] /\ off_pad[0] = 0
      BY DEF PadLayout
    <3>2. off_pad \in [0 .. Experts -> Int]
      BY <3>1
    <3> QED  BY <3>1, <3>2, <1>11, <1>15, PaddedSegments
  <2> DEFINE f == Search(off_pad, t * TILE)
  <2>2. f \in Expert /\ off_pad[f] <= t * TILE /\ t * TILE < off_pad[f+1]
    <3> DEFINE x == t * TILE
    <3> HIDE DEF x
    <3> QED  BY <2>1, <1>2, SearchFinds DEF x
  <2> HIDE DEF f
  <2>3. f = e
    <3>1. f \in 0 .. Experts-1
      BY <2>2 DEF Expert
    <3> QED  BY <3>1, <2>1, <2>2, <1>2, <1>5, <1>13, <1>15, OneSegment
  <2> QED  BY <2>3 DEF f
<1>18. t \in Tile
  BY <1>10 DEF Tile
<1> QED  BY <1>1, <1>7, <1>9, <1>11, <1>12, <1>15, <1>16, <1>17, <1>18 DEF e, pos, t

\* Two routing rows never share a padded row.
LEMMA PlacesDiffer ==
  ASSUME MlpAssumption, MlpInputInv, PadLayout, NEW p \in Row, NEW q \in Row, PadPos(p) = PadPos(q)
  PROVE  p = q
<1>1. /\ \A d, e \in 0 .. Experts : d <= e => off_pad[d] <= off_pad[e]
      /\ off_pad \in [0 .. Experts -> Int] /\ Experts \in Nat
  <2>1. off_pad \in [0 .. Experts -> Nat]
    BY DEF PadLayout
  <2>2. off_pad \in [0 .. Experts -> Int]
    BY <2>1
  <2> QED  BY <2>2, PaddedSegments, MlpSizes
<1>2. /\ ExpertAt(p) \in 0 .. Experts-1 /\ off_pad[ExpertAt(p)] <= PadPos(p)
      /\ PadPos(p) < off_pad[ExpertAt(p) + 1]
      /\ ExpertAt(q) \in 0 .. Experts-1 /\ off_pad[ExpertAt(q)] <= PadPos(p)
      /\ PadPos(p) < off_pad[ExpertAt(q) + 1] /\ PadPos(p) \in Int
  BY MlpPlaces DEF Expert, PadRow
<1>3. ExpertAt(p) = ExpertAt(q)
  BY <1>1, <1>2, OneSegment
<1>4. off_pad[ExpertAt(p)] \in Int /\ expert_offsets[ExpertAt(p)] \in Int /\ p \in Int /\ q \in Int
  <2>1. expert_offsets \in [0 .. Experts -> 0 .. TK]
    BY Compact
  <2>2. ExpertAt(p) \in 0 .. Experts
    BY <1>1, <1>2
  <2> QED  BY <2>1, <2>2, <1>1 DEF Row
<1>5. off_pad[ExpertAt(p)] + (p - expert_offsets[ExpertAt(p)])
        = off_pad[ExpertAt(p)] + (q - expert_offsets[ExpertAt(p)])
  BY <1>3 DEF PadPos
<1>6. \A start, first, m, n \in Int : start + (m - first) = start + (n - first) => m = n
  OBVIOUS
<1> QED  BY <1>4, <1>5, <1>6
-----------------------------------------------------------------------------
(***************************************************************************)
(* One more thread has run, and no other.                                  *)
(***************************************************************************)
LEMMA OneMoreRun ==
  ASSUME TodoInv, NEW s \in Stages, NEW x, NEW next \in Stages, No(next) = No(s) + 1,
         Ran(s, x, next, ThreadsOf(next))
  PROVE  /\ TodoInv' /\ mlp_stage = s /\ ~HasRun(s, x) /\ x \in ThreadsOf(s)
         /\ \A u \in Stages : \A y \in ThreadsOf(u) :
              RunBy(mlp_stage', todo', u, y) <=> HasRun(u, y) \/ (u = s /\ y = x)
<1>1. \A u, z \in Stages : No(u) \in Nat /\ (No(u) = No(z) => u = z)
  BY DEF Stages, No
<1>2. mlp_stage = s /\ x \in todo /\ todo \subseteq ThreadsOf(s)
  BY DEF Ran, TodoInv
<1>3. ~HasRun(s, x)
  BY <1>1, <1>2 DEF HasRun, RunBy
<1>4. CASE todo = {x}
  <2>1. mlp_stage' = next /\ todo' = ThreadsOf(next)
    BY <1>4 DEF Ran
  <2>2. TodoInv'
    BY <2>1 DEF TodoInv, ThreadsOf
  <2>3. ASSUME NEW u \in Stages, NEW y \in ThreadsOf(u)
        PROVE  RunBy(mlp_stage', todo', u, y) <=> HasRun(u, y) \/ (u = s /\ y = x)
    <3>1. RunBy(mlp_stage', todo', u, y) <=> No(next) > No(u) \/ (next = u /\ y \notin ThreadsOf(next))
      BY <2>1 DEF HasRun, RunBy, No
    <3>2. HasRun(u, y) <=> No(s) > No(u) \/ (s = u /\ y \notin {x})
      BY <1>2, <1>4 DEF HasRun, RunBy
    <3>3. next = u => y \in ThreadsOf(next)
      OBVIOUS
    <3>4. /\ No(u) \in Nat /\ No(s) \in Nat /\ No(next) = No(s) + 1
          /\ No(u) = No(s) <=> u = s
      BY <1>1
    <3> QED  BY <3>1, <3>2, <3>3, <3>4
  <2> QED  BY <2>2, <2>3, <1>2, <1>3
<1>5. CASE todo # {x}
  <2>1. mlp_stage' = s /\ todo' = todo \ {x}
    BY <1>2, <1>5 DEF Ran
  <2>2. TodoInv'
    BY <2>1, <1>2 DEF TodoInv, ThreadsOf
  <2>3. ASSUME NEW u \in Stages, NEW y \in ThreadsOf(u)
        PROVE  RunBy(mlp_stage', todo', u, y) <=> HasRun(u, y) \/ (u = s /\ y = x)
    BY <2>1, <1>2 DEF HasRun, RunBy, No
  <2> QED  BY <2>2, <2>3, <1>2, <1>3
<1> QED  BY <1>4, <1>5
-----------------------------------------------------------------------------
(***************************************************************************)
(* The threads a thread depends on or is compared with are threads.        *)
(***************************************************************************)
LEMMA AreThreads ==
  ASSUME MlpAssumption, MlpInputInv
  PROVE  /\ \A t \in Tile : t % Threads \in ThreadsOf("pad_fill") /\ t \in Nat
         /\ \A q \in PadRow : q % Threads \in ThreadsOf("pad_fill") /\ q \in Nat
         /\ \A p \in Row : p \in ThreadsOf("pad_scatter") /\ p \in Nat
         /\ \A r \in Row : r \div K \in Token /\ r = (r \div K) * K + (r % K) /\ r % K \in 0 .. K-1
         /\ \A p \in Row : sorted_row_idx[p] \in Row /\ TokenAt(p) \in Token
         /\ ThreadsOf("gather") = PadRow /\ ThreadsOf("bwd_zero") = PadRow
         /\ ThreadsOf("gemm1") = Tile /\ ThreadsOf("gemm2") = Tile
         /\ ThreadsOf("finalize") = Token /\ ThreadsOf("finalize_bwd") = Token
         /\ ThreadsOf("gather_bwd") = Token
         /\ \A t \in Tile : <<t, "dx">> \in ThreadsOf("bwd_gemms")
         /\ \A e \in Expert : <<e, "dw">> \in ThreadsOf("bwd_gemms")
<1>1. /\ Threads \in Nat \ {0} /\ K \in Nat \ {0} /\ T \in Nat /\ TK = T * K
      /\ MaxTiles \in Nat /\ TotalPadMax \in Nat
  BY MlpSizes DEF TK
<1>2. /\ ThreadsOf("pad_fill") = 0 .. Threads-1 /\ ThreadsOf("pad_scatter") = Row
      /\ ThreadsOf("gather") = PadRow /\ ThreadsOf("bwd_zero") = PadRow
      /\ ThreadsOf("gemm1") = Tile /\ ThreadsOf("gemm2") = Tile
      /\ ThreadsOf("finalize") = Token /\ ThreadsOf("finalize_bwd") = Token
      /\ ThreadsOf("gather_bwd") = Token
      /\ ThreadsOf("bwd_gemms") = (Tile \X {"dx"}) \cup (Expert \X {"dw"})
  BY DEF ThreadsOf
<1>3. ASSUME NEW r \in Row
      PROVE  r \div K \in Token /\ r = (r \div K) * K + (r % K) /\ r % K \in 0 .. K-1
  <2>1. r \in 0 .. T*K-1
    BY <1>1 DEF Row
  <2> QED  BY <1>1, <2>1, RowAndColumn DEF Token
<1>4. \A p \in Row : sorted_row_idx[p] \in Row /\ TokenAt(p) \in Token
  BY <1>3 DEF MlpInputInv, TokenAt
<1>5. \A a \in Nat : a % Threads \in 0 .. Threads-1
  BY <1>1, Division
<1>6. Tile \subseteq Nat /\ PadRow \subseteq Nat /\ Row \subseteq Nat
  BY <1>1 DEF Tile, PadRow, Row
<1> QED  BY <1>2, <1>3, <1>4, <1>5, <1>6

(***************************************************************************)
(* What a thread of stage s leaves as it was, unless it writes there.      *)
(***************************************************************************)
LEMMA PlacesStay ==
  ASSUME UNCHANGED <<inputs, off_pad>>
  PROVE  /\ MlpInputInv => MlpInputInv'
         /\ PadLayout => PadLayout'
         /\ \A p \in Row : /\ PadPos(p)' = PadPos(p) /\ TileOf(p)' = TileOf(p)
                           /\ ExpertAt(p)' = ExpertAt(p) /\ TokenAt(p)' = TokenAt(p)
                           /\ Hidden(p)' = Hidden(p)
<1> USE DEF inputs
<1>1. MlpInputInv => MlpInputInv'
  BY DEF MlpInputInv, CompactLayout, RowsBelow
<1>2. PadLayout => PadLayout'
  BY DEF PadLayout, CeilTile
<1> QED  BY <1>1, <1>2 DEF PadPos, TileOf, ExpertAt, TokenAt, Hidden

LEMMA Frame ==
  ASSUME MlpAssumption, MlpIInv, UNCHANGED <<inputs, off_pad>>,
         NEW s \in Stages \ {"pad_scan"}, NEW x, mlp_stage = s,
         \A u \in Stages : \A y \in ThreadsOf(u) : RunBy(mlp_stage', todo', u, y) <=> HasRun(u, y) \/ (u = s /\ y = x)
  PROVE  /\ PadLayout /\ PadLayout' /\ MlpInputInv' /\ ScanInv'
         /\ s # "pad_fill" /\ expert_of_tile' = expert_of_tile => TileInv'
         /\ s # "pad_scatter" /\ inv_pad' = inv_pad => PlaceInv'
         /\ s # "pad_scatter" /\ gather_idx' = gather_idx => TokenInv'
         /\ s # "gather" /\ permuted' = permuted => GatherInv'
         /\ s # "gemm1" /\ inter' = inter => HiddenInv'
         /\ s # "gemm2" /\ expert_out' = expert_out => OutputInv'
         /\ mlp_out' = mlp_out => CombinesItsExperts'
         /\ s \notin {"bwd_zero", "finalize_bwd"} /\ grad_eo' = grad_eo => ZeroInv'
         /\ s # "finalize_bwd" /\ grad_eo' = grad_eo => GradientInv'
         /\ s # "bwd_gemms" /\ dA' = dA => SentBackInv'
         /\ s # "bwd_gemms" /\ dw' = dw /\ (No(s) < 9 \/ UNCHANGED <<inter, grad_eo>>) => WeightInv'
         /\ grad_w' = grad_w /\ dx' = dx => InputGradient'
<1> DEFINE Same(u, y) == RunBy(mlp_stage', todo', u, y) <=> RunBy(mlp_stage, todo, u, y)
<1>1. PadLayout /\ HasRun("pad_scan", 0)
  BY DEF MlpIInv, ScanInv, HasRun, RunBy, No, Stages
<1>2. MlpInputInv /\ MlpInputInv' /\ PadLayout'
  BY <1>1, PlacesStay DEF MlpIInv
<1>3. \A p \in Row : /\ PadPos(p)' = PadPos(p) /\ TileOf(p)' = TileOf(p)
                     /\ ExpertAt(p)' = ExpertAt(p) /\ TokenAt(p)' = TokenAt(p)
                     /\ Hidden(p)' = Hidden(p) /\ sorted_row_idx'[p] = sorted_row_idx[p]
  BY PlacesStay DEF inputs
<1>4. \A p \in Row : PadPos(p) \in PadRow /\ TileOf(p) \in Tile
  BY <1>1, <1>2, MlpPlaces
<1>5. \A u \in Stages : u # s => \A y \in ThreadsOf(u) : Same(u, y)
  BY DEF HasRun
<1>6. \A u \in {"pad_fill", "pad_scatter", "gather", "gemm1", "gemm2", "finalize_bwd", "bwd_zero",
                "bwd_gemms"} : u \in Stages
  BY DEF Stages
<1>7. ScanInv'
  BY <1>2 DEF ScanInv
<1>8. ASSUME s # "pad_fill", expert_of_tile' = expert_of_tile PROVE TileInv'
  <2>1. \A t \in Tile : Same("pad_fill", t % Threads)
    BY <1>2, <1>5, <1>6, <1>8, AreThreads
  <2>2. \A t \in Tile : Search(off_pad, t*TILE)' = Search(off_pad, t*TILE)
    BY DEF Search
  <2> QED  BY <1>8, <2>1, <2>2 DEF MlpIInv, HasRun, TileInv
<1>9. ASSUME s # "pad_scatter" PROVE \A p \in Row : Same("pad_scatter", p)
  BY <1>2, <1>5, <1>6, <1>9, AreThreads
<1>10. ASSUME s # "pad_scatter", inv_pad' = inv_pad PROVE PlaceInv'
  BY <1>3, <1>9, <1>10 DEF MlpIInv, HasRun, PlaceInv
<1>11. ASSUME s # "pad_scatter", gather_idx' = gather_idx PROVE TokenInv'
  BY <1>3, <1>9, <1>11 DEF MlpIInv, HasRun, TokenInv
<1>12. ASSUME s # "gather", permuted' = permuted PROVE GatherInv'
  <2>1. \A p \in Row : Same("gather", PadPos(p))
    BY <1>2, <1>4, <1>5, <1>6, <1>12, AreThreads
  <2> QED  BY <1>3, <1>12, <2>1 DEF MlpIInv, HasRun, GatherInv
<1>13. ASSUME s # "gemm1", inter' = inter PROVE HiddenInv'
  <2>1. \A p \in Row : Same("gemm1", TileOf(p))
    BY <1>2, <1>4, <1>5, <1>6, <1>13, AreThreads
  <2> QED  BY <1>3, <1>13, <2>1 DEF MlpIInv, HasRun, HiddenInv
<1>14. ASSUME s # "gemm2", expert_out' = expert_out PROVE OutputInv'
  <2>1. \A p \in Row : Same("gemm2", TileOf(p))
    BY <1>2, <1>4, <1>5, <1>6, <1>14, AreThreads
  <2> QED  BY <1>3, <1>14, <2>1 DEF MlpIInv, HasRun, OutputInv
<1>15. ASSUME mlp_out' = mlp_out PROVE CombinesItsExperts'
  BY <1>15 DEF MlpIInv, CombinesItsExperts, inputs
<1>16. ASSUME s # "finalize_bwd" PROVE \A p \in Row : Same("finalize_bwd", TokenAt(p))
  BY <1>2, <1>5, <1>6, <1>16, AreThreads
<1>17. ASSUME s \notin {"bwd_zero", "finalize_bwd"}, grad_eo' = grad_eo PROVE ZeroInv'
  <2>1. \A q \in PadRow : Same("bwd_zero", q)
    BY <1>2, <1>5, <1>6, <1>17, AreThreads
  <2> QED  BY <1>3, <1>16, <1>17, <2>1 DEF MlpIInv, HasRun, ZeroInv
<1>18. ASSUME s # "finalize_bwd", grad_eo' = grad_eo PROVE GradientInv'
  BY <1>3, <1>16, <1>18 DEF MlpIInv, HasRun, GradientInv, Gradient
<1>19. ASSUME s # "bwd_gemms", dA' = dA PROVE SentBackInv'
  <2>1. \A p \in Row : Same("bwd_gemms", <<TileOf(p), "dx">>)
    BY <1>2, <1>4, <1>5, <1>6, <1>19, AreThreads
  <2> QED  BY <1>3, <1>19, <2>1 DEF MlpIInv, HasRun, SentBackInv, Gradient
<1>20. ASSUME s # "bwd_gemms", dw' = dw, No(s) < 9 \/ UNCHANGED <<inter, grad_eo>> PROVE WeightInv'
  <2>1. \A e \in Expert : Same("bwd_gemms", <<e, "dw">>)
    BY <1>2, <1>5, <1>6, <1>20, AreThreads
  <2>2. CASE UNCHANGED <<inter, grad_eo>>
    BY <1>20, <2>1, <2>2 DEF MlpIInv, HasRun, WeightInv, SegmentProducts
  <2>3. CASE No(s) < 9
    <3>1. \A e \in Expert : ~HasRun("bwd_gemms", <<e, "dw">>)
      BY <1>20, <2>3 DEF HasRun, RunBy, No, Stages
    <3> QED  BY <1>20, <2>1, <3>1 DEF MlpIInv, HasRun, WeightInv
  <2> QED  BY <1>20, <2>2, <2>3
<1>21. ASSUME grad_w' = grad_w, dx' = dx PROVE InputGradient'
  BY <1>21 DEF MlpIInv, InputGradient, inputs
<1> QED  BY <1>1, <1>2, <1>7, <1>8, <1>10, <1>11, <1>12, <1>13, <1>14, <1>15, <1>17, <1>18, <1>19,
            <1>20, <1>21
-----------------------------------------------------------------------------
(***************************************************************************)
(* The dispatches, one by one: what a thread of each writes is what the    *)
(* invariant says of the threads that have run.                            *)
(***************************************************************************)
LEMMA TileOfExpert ==
  ASSUME MlpAssumption, MlpIInv, mlp_stage \notin {"pad_scan", "pad_fill"}
  PROVE  /\ PadLayout /\ MlpInputInv
         /\ \A p \in Row : /\ PadPos(p) \in PadRow /\ TileOf(p) \in Tile
                           /\ ExpertAt(p) \in Expert /\ expert_of_tile[TileOf(p)] = ExpertAt(p)
<1>1. MlpInputInv /\ TileInv /\ mlp_stage \in Stages
  BY DEF MlpIInv, TodoInv
<1>2. PadLayout
  BY <1>1 DEF MlpIInv, ScanInv, HasRun, RunBy, No, Stages
<1>3. ASSUME NEW p \in Row
      PROVE  /\ PadPos(p) \in PadRow /\ TileOf(p) \in Tile
             /\ ExpertAt(p) \in Expert /\ expert_of_tile[TileOf(p)] = ExpertAt(p)
  <2>1. /\ PadPos(p) \in PadRow /\ TileOf(p) \in Tile /\ ExpertAt(p) \in Expert
        /\ TileOf(p) * TILE \in Nat /\ TileOf(p) * TILE < off_pad[Experts]
        /\ Search(off_pad, TileOf(p) * TILE) = ExpertAt(p)
    BY <1>1, <1>2, MlpPlaces
  <2>2. HasRun("pad_fill", TileOf(p) % Threads)
    BY <1>1 DEF HasRun, RunBy, No, Stages
  <2>3. off_pad[Experts] \in Nat
    BY <1>2, MlpSizes DEF PadLayout
  <2>4. ~(TileOf(p) * TILE >= off_pad[Experts])
    <3> DEFINE a == TileOf(p) * TILE
    <3> HIDE DEF a
    <3> QED  BY <2>1, <2>3 DEF a
  <2> QED  BY <1>1, <2>1, <2>2, <2>4 DEF TileInv
<1> QED  BY <1>1, <1>2, <1>3

\* A grouped GEMM multiplies the rows of its tile by its expert's weights.
LEMMA GemmRows ==
  ASSUME MlpAssumption, MlpIInv, mlp_stage \notin {"pad_scan", "pad_fill"},
         NEW B, NEW C, NEW weights, NEW t \in Tile, NEW p \in Row
  PROVE  GroupedGemm(B, C, weights, t)[PadPos(p)] =
           IF t = TileOf(p) THEN <<weights, ExpertAt(p), B[PadPos(p)]>> ELSE C[PadPos(p)]
<1>1. /\ PadLayout /\ MlpInputInv /\ PadPos(p) \in PadRow
      /\ ExpertAt(p) \in Expert /\ expert_of_tile[TileOf(p)] = ExpertAt(p)
  BY TileOfExpert
<1>2. PadPos(p) \in RowsOfTile(t) <=> t = TileOf(p)
  BY <1>1, MlpPlaces
<1>3. ExpertAt(p) >= 0
  BY <1>1, MlpSizes DEF Expert
<1> QED  BY <1>1, <1>2, <1>3 DEF GroupedGemm

LEMMA PadFillRuns ==
  ASSUME MlpAssumption, MlpIInv, NEW i \in 0 .. Threads-1, PadFill(i)
  PROVE  MlpIInv'
<1> DEFINE s == "pad_fill"
<1>1. TodoInv' /\ mlp_stage = s /\ \A u \in Stages : \A y \in ThreadsOf(u) :
        RunBy(mlp_stage', todo', u, y) <=> HasRun(u, y) \/ (u = s /\ y = i)
  <2>1. Ran(s, i, "pad_scatter", ThreadsOf("pad_scatter")) /\ TodoInv
    BY DEF PadFill, ThreadsOf, MlpIInv
  <2> QED  BY <2>1, OneMoreRun DEF Stages, No
<1>2. UNCHANGED <<inputs, off_pad, inv_pad, forward, backward>>
  BY DEF PadFill
<1>3. /\ PadLayout /\ MlpInputInv' /\ ScanInv' /\ PlaceInv' /\ GatherInv' /\ HiddenInv' /\ OutputInv'
      /\ CombinesItsExperts' /\ ZeroInv' /\ GradientInv' /\ SentBackInv' /\ WeightInv'
      /\ InputGradient'
  <2>1. s \in Stages \ {"pad_scan"} /\ (No(s) < 9 \/ s \in {"bwd_gemms", "gather_bwd"})
    BY DEF Stages, No
  <2> QED  BY <1>1, <1>2, <2>1, Frame DEF forward, backward
<1>4. TileInv'
  <2>0. \A t \in Tile : Search(off_pad, t*TILE)' = Search(off_pad, t*TILE)
    BY <1>2 DEF Search
  <2>1. SUFFICES ASSUME NEW t \in Tile, RunBy(mlp_stage', todo', s, t % Threads)
                 PROVE  expert_of_tile'[t] =
                          IF t*TILE >= off_pad[Experts] THEN -1 ELSE Search(off_pad, t*TILE)
    BY <1>2, <2>0 DEF TileInv, HasRun
  <2>2. HasRun(s, t % Threads) \/ t % Threads = i
    BY <1>1, <2>1, AreThreads DEF MlpIInv, Stages
  <2> QED  BY <2>2 DEF PadFill, MlpIInv, TileInv
<1>5. TokenInv'
  <2>1. \A p \in Row : ~RunBy(mlp_stage', todo', "pad_scatter", p)
    BY <1>1, AreThreads DEF MlpIInv, Stages, HasRun, RunBy, No
  <2> QED  BY <2>1 DEF TokenInv, HasRun
<1>6. ExtentInv'
  BY <1>2 DEF MlpIInv, ExtentInv, PadFill, forward, backward
<1> QED  BY <1>1, <1>3, <1>4, <1>5, <1>6 DEF MlpIInv

LEMMA PadScatterRuns ==
  ASSUME MlpAssumption, MlpIInv, NEW p \in Row, PadScatter(p)
  PROVE  MlpIInv'
<1> DEFINE s == "pad_scatter"
<1>1. TodoInv' /\ mlp_stage = s /\ \A u \in Stages : \A y \in ThreadsOf(u) :
        RunBy(mlp_stage', todo', u, y) <=> HasRun(u, y) \/ (u = s /\ y = p)
  <2>1. Ran(s, p, "gather", ThreadsOf("gather")) /\ TodoInv
    BY DEF PadScatter, ThreadsOf, MlpIInv
  <2> QED  BY <2>1, OneMoreRun DEF Stages, No
<1>2. UNCHANGED <<inputs, off_pad, expert_of_tile, forward, backward>>
  BY DEF PadScatter
<1>3. /\ PadLayout /\ MlpInputInv' /\ ScanInv' /\ TileInv' /\ GatherInv' /\ HiddenInv' /\ OutputInv'
      /\ CombinesItsExperts' /\ ZeroInv' /\ GradientInv' /\ SentBackInv' /\ WeightInv'
      /\ InputGradient'
  <2>1. s \in Stages \ {"pad_scan"} /\ (No(s) < 9 \/ s \in {"bwd_gemms", "gather_bwd"})
    BY DEF Stages, No
  <2> QED  BY <1>1, <1>2, <2>1, Frame DEF forward, backward
<1>4. MlpInputInv /\ ExtentInv /\ PlaceInv /\ TokenInv
  BY DEF MlpIInv
<1>5. /\ gather_idx' = [gather_idx EXCEPT ![PadPos(p)] = TokenAt(p)]
      /\ inv_pad' = [inv_pad EXCEPT ![sorted_row_idx[p]] = PadPos(p)]
  <2>1. Search(expert_offsets, p) = ExpertAt(p)
    BY <1>3, <1>4, MlpPlaces
  <2> QED  BY <2>1 DEF PadScatter, PadPos, TokenAt
<1>6. \A q \in Row : /\ PadPos(q)' = PadPos(q) /\ TokenAt(q)' = TokenAt(q)
                     /\ sorted_row_idx'[q] = sorted_row_idx[q]
                     /\ PadPos(q) \in PadRow /\ sorted_row_idx[q] \in Row
  BY <1>2, <1>3, <1>4, PlacesStay, MlpPlaces DEF inputs
<1>7. \A q \in Row : /\ PadPos(q) = PadPos(p) => q = p
                     /\ sorted_row_idx[q] = sorted_row_idx[p] => q = p
  BY <1>3, <1>4, PlacesDiffer, Compact
<1>8. \A q \in Row : RunBy(mlp_stage', todo', s, q) <=> HasRun(s, q) \/ q = p
  BY <1>1, <1>4, AreThreads DEF Stages
<1>9. PlaceInv'
  <2> SUFFICES ASSUME NEW q \in Row
               PROVE  inv_pad'[sorted_row_idx[q]] =
                        IF RunBy(mlp_stage', todo', s, q) THEN PadPos(q) ELSE -2
    BY <1>6 DEF PlaceInv, HasRun
  <2> QED  BY <1>4, <1>5, <1>6, <1>7, <1>8 DEF PlaceInv, ExtentInv
<1>10. TokenInv'
  <2> SUFFICES ASSUME NEW q \in Row, RunBy(mlp_stage', todo', s, q)
               PROVE  gather_idx'[PadPos(q)] = TokenAt(q)
    BY <1>6 DEF TokenInv, HasRun
  <2> QED  BY <1>4, <1>5, <1>6, <1>7, <1>8 DEF TokenInv, ExtentInv
<1>11. ExtentInv'
  BY <1>2, <1>4, <1>5 DEF ExtentInv, forward, backward
<1> QED  BY <1>1, <1>3, <1>9, <1>10, <1>11 DEF MlpIInv

LEMMA GatherRuns ==
  ASSUME MlpAssumption, MlpIInv, NEW y \in PadRow, Gather(y)
  PROVE  MlpIInv'
<1> DEFINE s == "gather"
<1>1. TodoInv' /\ mlp_stage = s /\ \A u \in Stages : \A z \in ThreadsOf(u) :
        RunBy(mlp_stage', todo', u, z) <=> HasRun(u, z) \/ (u = s /\ z = y)
  <2>1. Ran(s, y, "gemm1", ThreadsOf("gemm1")) /\ TodoInv
    BY DEF Gather, ThreadsOf, MlpIInv
  <2> QED  BY <2>1, OneMoreRun DEF Stages, No
<1>2. UNCHANGED <<inputs, schedule, inter, expert_out, mlp_out, backward>>
  BY DEF Gather
<1>3. /\ PadLayout /\ MlpInputInv' /\ ScanInv' /\ TileInv' /\ PlaceInv' /\ TokenInv' /\ HiddenInv'
      /\ OutputInv' /\ CombinesItsExperts' /\ ZeroInv' /\ GradientInv' /\ SentBackInv'
      /\ WeightInv' /\ InputGradient'
  <2>1. s \in Stages \ {"pad_scan"} /\ (No(s) < 9 \/ s \in {"bwd_gemms", "gather_bwd"})
    BY DEF Stages, No
  <2> QED  BY <1>1, <1>2, <2>1, Frame DEF schedule, backward
<1>4. MlpInputInv /\ ExtentInv /\ TokenInv /\ GatherInv
  BY DEF MlpIInv
<1>5. GatherInv'
  <2>1. \A p \in Row : /\ PadPos(p)' = PadPos(p) /\ TokenAt(p)' = TokenAt(p)
                       /\ PadPos(p) \in PadRow
    BY <1>2, <1>3, <1>4, PlacesStay, MlpPlaces DEF schedule
  <2>2. SUFFICES ASSUME NEW p \in Row, RunBy(mlp_stage', todo', s, PadPos(p))
                 PROVE  permuted'[PadPos(p)] = <<"x", TokenAt(p)>>
    BY <2>1 DEF GatherInv, HasRun
  <2>3. HasRun(s, PadPos(p)) \/ PadPos(p) = y
    BY <1>1, <1>4, <2>1, <2>2, AreThreads DEF Stages
  <2>4. gather_idx[PadPos(p)] = TokenAt(p)
    BY <1>1, <1>4 DEF TokenInv, HasRun, RunBy, No
  <2>5. ~(TokenAt(p) < 0)
    <3>1. TokenAt(p) \in Token
      BY <1>4, AreThreads
    <3> QED  BY <3>1, MlpSizes DEF Token
  <2> QED  BY <1>4, <2>1, <2>3, <2>4, <2>5 DEF GatherInv, ExtentInv, Gather
<1>6. ExtentInv'
  BY <1>2, <1>4 DEF ExtentInv, Gather, schedule, backward
<1> QED  BY <1>1, <1>3, <1>5, <1>6 DEF MlpIInv

LEMMA GemmSwigluRuns ==
  ASSUME MlpAssumption, MlpIInv, NEW t \in Tile, GemmSwiglu(t)
  PROVE  MlpIInv'
<1> DEFINE s == "gemm1"
<1>1. TodoInv' /\ mlp_stage = s /\ \A u \in Stages : \A y \in ThreadsOf(u) :
        RunBy(mlp_stage', todo', u, y) <=> HasRun(u, y) \/ (u = s /\ y = t)
  <2>1. Ran(s, t, "gemm2", ThreadsOf("gemm2")) /\ TodoInv
    BY DEF GemmSwiglu, ThreadsOf, MlpIInv
  <2> QED  BY <2>1, OneMoreRun DEF Stages, No
<1>2. UNCHANGED <<inputs, schedule, permuted, expert_out, mlp_out, backward>>
  BY DEF GemmSwiglu
<1>3. /\ PadLayout /\ MlpInputInv' /\ ScanInv' /\ TileInv' /\ PlaceInv' /\ TokenInv' /\ GatherInv'
      /\ OutputInv' /\ CombinesItsExperts' /\ ZeroInv' /\ GradientInv' /\ SentBackInv'
      /\ WeightInv' /\ InputGradient'
  <2>1. s \in Stages \ {"pad_scan"} /\ (No(s) < 9 \/ s \in {"bwd_gemms", "gather_bwd"})
    BY DEF Stages, No
  <2> QED  BY <1>1, <1>2, <2>1, Frame DEF schedule, backward
<1>4. MlpInputInv /\ ExtentInv /\ GatherInv /\ HiddenInv
  BY DEF MlpIInv
<1>5. HiddenInv'
  <2>1. \A p \in Row : /\ PadPos(p)' = PadPos(p) /\ TileOf(p)' = TileOf(p)
                       /\ Hidden(p)' = Hidden(p)
    BY <1>2, PlacesStay DEF schedule
  <2>2. SUFFICES ASSUME NEW p \in Row, RunBy(mlp_stage', todo', s, TileOf(p))
                 PROVE  inter'[PadPos(p)] = Hidden(p)
    BY <2>1 DEF HiddenInv, HasRun
  <2>3. HasRun(s, TileOf(p)) \/ t = TileOf(p)
    BY <1>1, <1>3, <1>4, <2>2, MlpPlaces, AreThreads DEF Stages
  <2>4. permuted[PadPos(p)] = <<"x", TokenAt(p)>>
    BY <1>1, <1>4 DEF GatherInv, HasRun, RunBy, No
  <2>5. inter'[PadPos(p)] = IF t = TileOf(p) THEN <<"w1", ExpertAt(p), permuted[PadPos(p)]>>
                                             ELSE inter[PadPos(p)]
    BY <1>1, GemmRows DEF GemmSwiglu
  <2> QED  BY <1>4, <2>3, <2>4, <2>5 DEF HiddenInv, Hidden
<1>6. ExtentInv'
  BY <1>2, <1>4 DEF ExtentInv, GemmSwiglu, GroupedGemm, schedule, backward
<1> QED  BY <1>1, <1>3, <1>5, <1>6 DEF MlpIInv

LEMMA GemmRectRuns ==
  ASSUME MlpAssumption, MlpIInv, NEW t \in Tile, GemmRect(t)
  PROVE  MlpIInv'
<1> DEFINE s == "gemm2"
<1>1. TodoInv' /\ mlp_stage = s /\ \A u \in Stages : \A y \in ThreadsOf(u) :
        RunBy(mlp_stage', todo', u, y) <=> HasRun(u, y) \/ (u = s /\ y = t)
  <2>1. Ran(s, t, "finalize", ThreadsOf("finalize")) /\ TodoInv
    BY DEF GemmRect, ThreadsOf, MlpIInv
  <2> QED  BY <2>1, OneMoreRun DEF Stages, No
<1>2. UNCHANGED <<inputs, schedule, permuted, inter, mlp_out, backward>>
  BY DEF GemmRect
<1>3. /\ PadLayout /\ MlpInputInv' /\ ScanInv' /\ TileInv' /\ PlaceInv' /\ TokenInv' /\ GatherInv'
      /\ HiddenInv' /\ CombinesItsExperts' /\ ZeroInv' /\ GradientInv' /\ SentBackInv'
      /\ WeightInv' /\ InputGradient'
  <2>1. s \in Stages \ {"pad_scan"} /\ (No(s) < 9 \/ s \in {"bwd_gemms", "gather_bwd"})
    BY DEF Stages, No
  <2> QED  BY <1>1, <1>2, <2>1, Frame DEF schedule, backward
<1>4. MlpInputInv /\ ExtentInv /\ HiddenInv /\ OutputInv
  BY DEF MlpIInv
<1>5. OutputInv'
  <2>1. \A p \in Row : /\ PadPos(p)' = PadPos(p) /\ TileOf(p)' = TileOf(p)
                       /\ Hidden(p)' = Hidden(p) /\ ExpertAt(p)' = ExpertAt(p)
    BY <1>2, PlacesStay DEF schedule
  <2>2. SUFFICES ASSUME NEW p \in Row, RunBy(mlp_stage', todo', s, TileOf(p))
                 PROVE  expert_out'[PadPos(p)] = <<"w2", ExpertAt(p), Hidden(p)>>
    BY <2>1 DEF OutputInv, HasRun
  <2>3. HasRun(s, TileOf(p)) \/ t = TileOf(p)
    BY <1>1, <1>3, <1>4, <2>2, MlpPlaces, AreThreads DEF Stages
  <2>4. inter[PadPos(p)] = Hidden(p)
    BY <1>1, <1>4 DEF HiddenInv, HasRun, RunBy, No
  <2>5. expert_out'[PadPos(p)] = IF t = TileOf(p) THEN <<"w2", ExpertAt(p), inter[PadPos(p)]>>
                                                  ELSE expert_out[PadPos(p)]
    BY <1>1, GemmRows DEF GemmRect
  <2> QED  BY <1>4, <2>3, <2>4, <2>5 DEF OutputInv
<1>6. ExtentInv'
  BY <1>2, <1>4 DEF ExtentInv, GemmRect, GroupedGemm, schedule, backward
<1> QED  BY <1>1, <1>3, <1>5, <1>6 DEF MlpIInv

\* The rows of the choices of a token, in terms of the places.
LEMMA ChoiceRows ==
  ASSUME MlpAssumption, MlpInputInv, PlaceInv, PadLayout, No(mlp_stage) > 2, mlp_stage \in Stages,
         NEW tau \in Token, NEW k \in 1 .. K
  PROVE  LET r == tau*K + k-1
         IN  r \in Row /\ r \div K = tau
             /\ \E p \in Row : sorted_row_idx[p] = r /\ inv_pad[r] = PadPos(p)
<1> DEFINE r == tau*K + k-1
<1>1. K \in Nat \ {0} /\ T \in Nat /\ TK = T*K /\ tau \in 0 .. T-1 /\ k-1 \in 0 .. K-1
  BY MlpSizes DEF TK, Token
<1>2. r \in Row /\ r \div K = tau
  <2>1. tau*K + (k-1) \in 0 .. T*K-1 /\ (tau*K + (k-1)) \div K = tau
    BY <1>1, RowMajor
  <2>2. r = tau*K + (k-1)
    <3>1. tau*K \in Int
      BY <1>1
    <3> QED  BY <3>1
  <2> QED  BY <1>1, <2>1, <2>2 DEF Row
<1>3. PICK p \in Row : sorted_row_idx[p] = r
  BY <1>2, EveryRowPlaced
<1>4. inv_pad[r] = PadPos(p)
  BY <1>3 DEF PlaceInv, HasRun, RunBy, No
<1> QED  BY <1>2, <1>3, <1>4

LEMMA FinalizeRuns ==
  ASSUME MlpAssumption, MlpIInv, NEW tau \in Token, Finalize(tau)
  PROVE  MlpIInv'
<1> DEFINE s == "finalize"
<1>1. TodoInv' /\ mlp_stage = s /\ \A u \in Stages : \A y \in ThreadsOf(u) :
        RunBy(mlp_stage', todo', u, y) <=> HasRun(u, y) \/ (u = s /\ y = tau)
  <2>1. Ran(s, tau, "bwd_zero", ThreadsOf("bwd_zero")) /\ TodoInv
    BY DEF Finalize, ThreadsOf, MlpIInv
  <2> QED  BY <2>1, OneMoreRun DEF Stages, No
<1>2. UNCHANGED <<inputs, schedule, permuted, inter, expert_out, backward>>
  BY DEF Finalize
<1>3. /\ PadLayout /\ MlpInputInv' /\ ScanInv' /\ TileInv' /\ PlaceInv' /\ TokenInv' /\ GatherInv'
      /\ HiddenInv' /\ OutputInv' /\ ZeroInv' /\ GradientInv' /\ SentBackInv'
      /\ WeightInv' /\ InputGradient'
  <2>1. s \in Stages \ {"pad_scan"} /\ (No(s) < 9 \/ s \in {"bwd_gemms", "gather_bwd"})
    BY DEF Stages, No
  <2> QED  BY <1>1, <1>2, <2>1, Frame DEF schedule, backward
<1>4. MlpInputInv /\ ExtentInv /\ OutputInv /\ PlaceInv /\ CombinesItsExperts
  BY DEF MlpIInv
<1>5. CombinesItsExperts'
  <2>1. ASSUME NEW k \in 1 .. K
        PROVE  LET e == topk_ids[tau*K + k-1]
               IN  Choices(tau, expert_out)[k] = <<"w2", e, <<"w1", e, <<"x", tau>>>>>>
    <3> DEFINE r == tau*K + k-1
    <3>1. PICK p \in Row : sorted_row_idx[p] = r /\ inv_pad[r] = PadPos(p) /\ r \div K = tau
      BY <1>1, <1>3, <1>4, ChoiceRows DEF No, Stages
    <3>2. expert_out[PadPos(p)] = <<"w2", ExpertAt(p), Hidden(p)>>
      BY <1>1, <1>4 DEF OutputInv, HasRun, RunBy, No
    <3>3. ExpertAt(p) = topk_ids[r] /\ TokenAt(p) = tau
      BY <3>1 DEF ExpertAt, TokenAt
    <3> HIDE DEF r
    <3>4. Choices(tau, expert_out)[k] = expert_out[inv_pad[r]]
      BY DEF Choices, r
    <3> QED  BY <3>1, <3>2, <3>3, <3>4 DEF Hidden, r
  <2>2. Choices(tau, expert_out)
          = [k \in 1 .. K |-> LET e == topk_ids[tau*K + k-1]
                              IN  <<"w2", e, <<"w1", e, <<"x", tau>>>>>>]
    <3>1. Choices(tau, expert_out) = [k \in 1 .. K |-> Choices(tau, expert_out)[k]]
      BY DEF Choices
    <3> QED  BY <2>1, <3>1
  <2>3. mlp_out' = [mlp_out EXCEPT ![tau] = Choices(tau, expert_out)]
    BY DEF Finalize
  <2>4. ASSUME NEW sigma \in Token, mlp_out'[sigma] # Undef
        PROVE  mlp_out'[sigma] = [k \in 1 .. K |-> LET e == topk_ids[sigma*K + k-1]
                                            IN  <<"w2", e, <<"w1", e, <<"x", sigma>>>>>>]
    <3>1. CASE sigma = tau
      BY <3>1, <2>2, <2>3, <1>4 DEF ExtentInv
    <3>2. CASE sigma # tau
      BY <3>2, <2>3, <2>4, <1>4 DEF ExtentInv, CombinesItsExperts
    <3> QED  BY <3>1, <3>2
  <2> QED  BY <2>4, <1>2 DEF CombinesItsExperts, inputs
<1>6. ExtentInv'
  BY <1>2, <1>4 DEF ExtentInv, Finalize, schedule, backward
<1> QED  BY <1>1, <1>3, <1>5, <1>6 DEF MlpIInv

LEMMA BwdZeroRuns ==
  ASSUME MlpAssumption, MlpIInv, NEW y \in PadRow, BwdZero(y)
  PROVE  MlpIInv'
<1> DEFINE s == "bwd_zero"
<1>1. TodoInv' /\ mlp_stage = s /\ \A u \in Stages : \A z \in ThreadsOf(u) :
        RunBy(mlp_stage', todo', u, z) <=> HasRun(u, z) \/ (u = s /\ z = y)
  <2>1. Ran(s, y, "finalize_bwd", ThreadsOf("finalize_bwd")) /\ TodoInv
    BY DEF BwdZero, ThreadsOf, MlpIInv
  <2> QED  BY <2>1, OneMoreRun DEF Stages, No
<1>2. UNCHANGED <<inputs, schedule, forward, dA, dw, dx, grad_w>>
  BY DEF BwdZero
<1>3. /\ PadLayout /\ MlpInputInv' /\ ScanInv' /\ TileInv' /\ PlaceInv' /\ TokenInv' /\ GatherInv'
      /\ HiddenInv' /\ OutputInv' /\ CombinesItsExperts' /\ SentBackInv' /\ InputGradient'
  <2>1. s \in Stages \ {"pad_scan"} /\ UNCHANGED <<inputs, off_pad>> /\ mlp_stage = s
    BY <1>1, <1>2 DEF Stages, schedule
  <2>2. /\ expert_of_tile' = expert_of_tile /\ inv_pad' = inv_pad /\ gather_idx' = gather_idx
        /\ permuted' = permuted /\ inter' = inter /\ expert_out' = expert_out /\ mlp_out' = mlp_out
        /\ dA' = dA /\ dx' = dx /\ grad_w' = grad_w
    BY <1>2 DEF schedule, forward
  <2> QED  BY <1>1, <2>1, <2>2, Frame
<1>4. MlpInputInv /\ ExtentInv /\ ZeroInv /\ WeightInv
  BY DEF MlpIInv
<1>5. \A p \in Row : /\ PadPos(p)' = PadPos(p) /\ TokenAt(p)' = TokenAt(p)
                     /\ ~RunBy(mlp_stage, todo, "finalize_bwd", TokenAt(p))
                     /\ ~RunBy(mlp_stage', todo', "finalize_bwd", TokenAt(p))
  <2>1. \A p \in Row : PadPos(p)' = PadPos(p) /\ TokenAt(p)' = TokenAt(p)
    BY <1>2, PlacesStay DEF schedule
  <2>2. \A p \in Row : ~RunBy(mlp_stage, todo, "finalize_bwd", TokenAt(p))
    BY <1>1 DEF RunBy, No
  <2> QED  BY <1>1, <1>4, <2>1, <2>2, AreThreads DEF Stages, HasRun
<1>6. ZeroInv'
  <2> SUFFICES ASSUME NEW q \in PadRow, RunBy(mlp_stage', todo', s, q)
               PROVE  grad_eo'[q] = ZeroRow
    BY DEF ZeroInv, HasRun
  <2>1. HasRun(s, q) \/ q = y
    BY <1>1, <1>4, AreThreads DEF Stages
  <2> QED  BY <1>4, <1>5, <2>1 DEF ZeroInv, ExtentInv, BwdZero, HasRun
<1>7. GradientInv'
  BY <1>5 DEF GradientInv, HasRun
<1>8. WeightInv'
  <2>1. \A e \in Expert : /\ ~RunBy(mlp_stage, todo, "bwd_gemms", <<e, "dw">>)
                          /\ ~RunBy(mlp_stage', todo', "bwd_gemms", <<e, "dw">>)
    <3>1. \A e \in Expert : ~RunBy(mlp_stage, todo, "bwd_gemms", <<e, "dw">>)
      BY <1>1 DEF RunBy, No
    <3> QED  BY <1>1, <1>4, <3>1, AreThreads DEF Stages, HasRun
  <2> QED  BY <1>2, <1>4, <2>1 DEF WeightInv, HasRun
<1>9. ExtentInv'
  BY <1>2, <1>4 DEF ExtentInv, BwdZero, schedule, forward
<1> QED  BY <1>1, <1>3, <1>6, <1>7, <1>8, <1>9 DEF MlpIInv

LEMMA FinalizeBwdRuns ==
  ASSUME MlpAssumption, MlpIInv, NEW tau \in Token, FinalizeBwd(tau)
  PROVE  MlpIInv'
<1> DEFINE s == "finalize_bwd"
           gemms == "bwd_gemms"
<1>1. TodoInv' /\ mlp_stage = s /\ \A u \in Stages : \A y \in ThreadsOf(u) :
        RunBy(mlp_stage', todo', u, y) <=> HasRun(u, y) \/ (u = s /\ y = tau)
  <2>1. Ran(s, tau, gemms, ThreadsOf(gemms)) /\ TodoInv
    BY DEF FinalizeBwd, ThreadsOf, MlpIInv
  <2> QED  BY <2>1, OneMoreRun DEF Stages, No
<1>2. UNCHANGED <<inputs, schedule, forward, dA, dw, dx>>
  BY DEF FinalizeBwd
<1>3. /\ PadLayout /\ MlpInputInv' /\ ScanInv' /\ TileInv' /\ PlaceInv' /\ TokenInv' /\ GatherInv'
      /\ HiddenInv' /\ OutputInv' /\ CombinesItsExperts' /\ SentBackInv'
  <2>1. s \in Stages \ {"pad_scan"} /\ (No(s) < 9 \/ s \in {"bwd_gemms", "gather_bwd"})
    BY DEF Stages, No
  <2> QED  BY <1>1, <1>2, <2>1, Frame DEF schedule, forward
<1>4. MlpInputInv /\ ExtentInv /\ PlaceInv /\ ZeroInv /\ GradientInv /\ WeightInv /\ InputGradient
      /\ OutputInv
  BY DEF MlpIInv
<1>5. \A p \in Row : /\ PadPos(p)' = PadPos(p) /\ TokenAt(p)' = TokenAt(p)
                     /\ sorted_row_idx'[p] = sorted_row_idx[p]
                     /\ RunBy(mlp_stage', todo', s, TokenAt(p))
                          <=> HasRun(s, TokenAt(p)) \/ TokenAt(p) = tau
                     /\ inv_pad[sorted_row_idx[p]] = PadPos(p)
                     /\ PadPos(p) \in PadRow
  <2>1. \A p \in Row : PadPos(p)' = PadPos(p) /\ TokenAt(p)' = TokenAt(p)
    BY <1>2, PlacesStay DEF schedule
  <2>2. \A p \in Row : inv_pad[sorted_row_idx[p]] = PadPos(p)
    BY <1>1, <1>4 DEF PlaceInv, HasRun, RunBy, No
  <2> QED  BY <1>1, <1>2, <1>3, <1>4, <2>1, <2>2, MlpPlaces, AreThreads DEF Stages, inputs
\* The padded rows of the token's choices are its own.
<1>6. ASSUME NEW r \in tau*K .. tau*K + K-1
      PROVE  /\ r \in Row /\ r \div K = tau
             /\ \A p \in Row : inv_pad[r] = PadPos(p) => sorted_row_idx[p] = r
  <2>1. tau*K \in Int /\ K \in Nat
    BY MlpSizes DEF Token
  <2>2. r - tau*K + 1 \in 1 .. K /\ tau*K + (r - tau*K + 1) - 1 = r
    BY <2>1
  <2> DEFINE k == r - tau*K + 1
  <2>3. /\ tau*K + k - 1 \in Row /\ (tau*K + k - 1) \div K = tau
        /\ \E p \in Row : sorted_row_idx[p] = tau*K + k-1 /\ inv_pad[tau*K + k-1] = PadPos(p)
    <3>1. k \in 1 .. K
      BY <2>2
    <3> HIDE DEF k
    <3> QED  BY <3>1, <1>1, <1>3, <1>4, ChoiceRows DEF No, Stages
  <2>4. tau*K + k - 1 = r
    BY <2>2
  <2> HIDE DEF k
  <2>5. PICK p \in Row : sorted_row_idx[p] = r /\ inv_pad[r] = PadPos(p)
    BY <2>3, <2>4
  <2>6. \A q \in Row : PadPos(q) = PadPos(p) => q = p
    BY <1>3, <1>4, PlacesDiffer
  <2> QED  BY <2>3, <2>4, <2>5, <2>6
<1>7. ASSUME NEW p \in Row
      PROVE  (\E k \in 0 .. K-1 : inv_pad[tau*K + k] = PadPos(p)) <=> TokenAt(p) = tau
  <2>1. K \in Nat \ {0} /\ tau*K \in Int
    BY MlpSizes DEF Token
  <2>2. ASSUME NEW k \in 0 .. K-1, inv_pad[tau*K + k] = PadPos(p) PROVE TokenAt(p) = tau
    <3>1. tau*K + k \in tau*K .. tau*K + K-1
      BY <2>1
    <3> QED  BY <3>1, <2>2, <1>6 DEF TokenAt
  <2>3. ASSUME TokenAt(p) = tau PROVE \E k \in 0 .. K-1 : inv_pad[tau*K + k] = PadPos(p)
    <3> DEFINE r == sorted_row_idx[p]
    <3>1. r \in Row /\ r = tau*K + (r % K) /\ r % K \in 0 .. K-1
      BY <1>4, <2>3, AreThreads DEF TokenAt
    <3> QED  BY <1>5, <3>1
  <2> QED  BY <2>2, <2>3
<1>8. \A q \in PadRow :
        grad_eo'[q] = IF \E k \in 0 .. K-1 : inv_pad[tau*K + k] = q
                      THEN Gradient(CHOOSE r \in tau*K .. tau*K + K-1 : inv_pad[r] = q)
                      ELSE grad_eo[q]
  BY DEF FinalizeBwd, Gradient
<1>9. ZeroInv'
  <2>1. SUFFICES ASSUME NEW q \in PadRow,
                        \A p \in Row : PadPos(p) = q => ~RunBy(mlp_stage', todo', s, TokenAt(p)),
                        RunBy(mlp_stage', todo', "bwd_zero", q)
                 PROVE  grad_eo'[q] = ZeroRow
    BY <1>5 DEF ZeroInv, HasRun
  <2>2. \A p \in Row : PadPos(p) = q => ~HasRun(s, TokenAt(p)) /\ TokenAt(p) # tau
    BY <1>5, <2>1
  <2>3. ~\E k \in 0 .. K-1 : inv_pad[tau*K + k] = q
    <3>1. SUFFICES ASSUME NEW k \in 0 .. K-1, inv_pad[tau*K + k] = q PROVE FALSE
      OBVIOUS
    <3>2. tau*K + k \in tau*K .. tau*K + K-1
      BY MlpSizes DEF Token
    <3>3. tau*K + k \in Row
      BY <3>2, <1>6
    <3>4. PICK p \in Row : sorted_row_idx[p] = tau*K + k
      BY <3>3, <1>4, EveryRowPlaced
    <3>5. PadPos(p) = q /\ TokenAt(p) = tau
      BY <3>1, <3>2, <3>4, <1>5, <1>6 DEF TokenAt
    <3> QED  BY <3>5, <2>2
  <2>4. HasRun("bwd_zero", q)
    BY <1>1 DEF HasRun, RunBy, No
  <2> QED  BY <1>4, <1>8, <2>2, <2>3, <2>4 DEF ZeroInv
<1>10. GradientInv'
  <2>1. SUFFICES ASSUME NEW p \in Row, RunBy(mlp_stage', todo', s, TokenAt(p))
                 PROVE  grad_eo'[PadPos(p)] = Gradient(sorted_row_idx[p])
    BY <1>5 DEF GradientInv, HasRun, Gradient
  <2>2. CASE TokenAt(p) = tau
    <3> DEFINE r == sorted_row_idx[p]
    <3>1. r \in Row /\ r = tau*K + (r % K) /\ r % K \in 0 .. K-1
      BY <1>4, <2>2, AreThreads DEF TokenAt
    <3>2. r \in tau*K .. tau*K + K-1
      <4> DEFINE d == r % K
      <4>1. r = tau*K + d /\ d \in 0 .. K-1
        BY <3>1
      <4> HIDE DEF r, d
      <4> QED  BY <4>1, MlpSizes DEF Token
    <3>3. (CHOOSE q \in tau*K .. tau*K + K-1 : inv_pad[q] = PadPos(p)) = r
      BY <3>2, <1>5, <1>6
    <3> QED  BY <3>3, <2>2, <1>5, <1>7, <1>8
  <2>3. CASE TokenAt(p) # tau
    BY <2>1, <2>3, <1>4, <1>5, <1>7, <1>8 DEF GradientInv
  <2> QED  BY <2>2, <2>3
<1>11. WeightInv'
  <2>1. \A e \in Expert : /\ ~RunBy(mlp_stage, todo, gemms, <<e, "dw">>)
                          /\ ~RunBy(mlp_stage', todo', gemms, <<e, "dw">>)
    <3>1. \A e \in Expert : ~RunBy(mlp_stage, todo, gemms, <<e, "dw">>)
      BY <1>1 DEF RunBy, No
    <3> QED  BY <1>1, <1>4, <3>1, AreThreads DEF Stages, HasRun
  <2> QED  BY <1>2, <1>4, <2>1 DEF WeightInv, HasRun
<1>12. InputGradient'
  <2>1. ASSUME NEW r \in Row, r \div K = tau
        PROVE  expert_out[inv_pad[r]]
                 = <<"w2", topk_ids[r], <<"w1", topk_ids[r], <<"x", r \div K>>>>>>
    <3>1. PICK p \in Row : sorted_row_idx[p] = r
      BY <1>4, EveryRowPlaced
    <3>2. expert_out[PadPos(p)] = <<"w2", ExpertAt(p), Hidden(p)>>
      BY <1>1, <1>4 DEF OutputInv, HasRun, RunBy, No
    <3> QED  BY <3>1, <3>2, <1>5 DEF Hidden, ExpertAt, TokenAt
  <2>2. ASSUME NEW r \in Row, grad_w'[r] # Undef
        PROVE  LET e == topk_ids[r]
               IN  grad_w'[r] = <<<<"w2", e, <<"w1", e, <<"x", r \div K>>>>>>, r \div K>>
    <3>1. grad_w'[r] = IF r \div K = tau THEN <<expert_out[inv_pad[r]], tau>> ELSE grad_w[r]
      BY DEF FinalizeBwd
    <3> QED  BY <2>1, <2>2, <3>1, <1>4 DEF InputGradient
  <2> QED  BY <2>2, <1>2, <1>4 DEF InputGradient, inputs
<1>13. ExtentInv'
  BY <1>2, <1>4 DEF ExtentInv, FinalizeBwd, schedule, forward
<1> QED  BY <1>1, <1>3, <1>9, <1>10, <1>11, <1>12, <1>13 DEF MlpIInv

LEMMA BwdDxRuns ==
  ASSUME MlpAssumption, MlpIInv, NEW t \in Tile, BwdDx(t)
  PROVE  MlpIInv'
<1> DEFINE s == "bwd_gemms"
<1>1. TodoInv' /\ mlp_stage = s /\ \A u \in Stages : \A y \in ThreadsOf(u) :
        RunBy(mlp_stage', todo', u, y) <=> HasRun(u, y) \/ (u = s /\ y = <<t, "dx">>)
  <2>1. Ran(s, <<t, "dx">>, "gather_bwd", ThreadsOf("gather_bwd")) /\ TodoInv
    BY DEF BwdDx, ThreadsOf, MlpIInv
  <2> QED  BY <2>1, OneMoreRun DEF Stages, No
<1>2. UNCHANGED <<inputs, schedule, forward, grad_eo, dw, dx, grad_w>>
  BY DEF BwdDx
<1>3. /\ PadLayout /\ MlpInputInv' /\ ScanInv' /\ TileInv' /\ PlaceInv' /\ TokenInv' /\ GatherInv'
      /\ HiddenInv' /\ OutputInv' /\ CombinesItsExperts' /\ ZeroInv' /\ GradientInv'
      /\ InputGradient'
  <2> DEFINE x == <<t, "dx">>
  <2>1. \A u \in Stages : \A y \in ThreadsOf(u) :
          RunBy(mlp_stage', todo', u, y) <=> HasRun(u, y) \/ (u = s /\ y = x)
    BY <1>1
  <2>2. s \in Stages \ {"pad_scan"}
    BY DEF Stages
  <2> HIDE DEF x
  <2> QED  BY <1>1, <1>2, <2>1, <2>2, Frame DEF schedule, forward
<1>4. MlpInputInv /\ ExtentInv /\ GradientInv /\ SentBackInv /\ WeightInv
  BY DEF MlpIInv
<1>5. SentBackInv'
  <2>1. \A p \in Row : /\ PadPos(p)' = PadPos(p) /\ TileOf(p)' = TileOf(p)
                       /\ ExpertAt(p)' = ExpertAt(p) /\ sorted_row_idx'[p] = sorted_row_idx[p]
    BY <1>2, PlacesStay DEF schedule, inputs
  <2>2. SUFFICES ASSUME NEW p \in Row, RunBy(mlp_stage', todo', s, <<TileOf(p), "dx">>)
                 PROVE  dA'[PadPos(p)] = <<"w2T", ExpertAt(p), Gradient(sorted_row_idx[p])>>
    BY <2>1 DEF SentBackInv, HasRun, Gradient
  <2>3. HasRun(s, <<TileOf(p), "dx">>) \/ t = TileOf(p)
    <3>1. <<TileOf(p), "dx">> \in ThreadsOf(s)
      BY <1>3, <1>4, MlpPlaces, AreThreads
    <3> QED  BY <3>1, <1>1, <2>2 DEF Stages
  <2>4. grad_eo[PadPos(p)] = Gradient(sorted_row_idx[p])
    BY <1>1, <1>4 DEF GradientInv, HasRun, RunBy, No
  <2>5. dA'[PadPos(p)] = IF t = TileOf(p) THEN <<"w2T", ExpertAt(p), grad_eo[PadPos(p)]>>
                                          ELSE dA[PadPos(p)]
    BY <1>1, GemmRows DEF BwdDx
  <2> QED  BY <1>4, <2>3, <2>4, <2>5 DEF SentBackInv
<1>6. WeightInv'
  <2>1. \A e \in Expert : RunBy(mlp_stage', todo', s, <<e, "dw">>) <=> HasRun(s, <<e, "dw">>)
    <3>1. \A e \in Expert : <<e, "dw">> \in ThreadsOf(s) /\ <<e, "dw">> # <<t, "dx">>
      BY <1>4, AreThreads
    <3> QED  BY <3>1, <1>1 DEF Stages
  <2> QED  BY <1>2, <1>4, <2>1 DEF WeightInv, SegmentProducts, HasRun, schedule, forward
<1>7. ExtentInv'
  BY <1>2, <1>4 DEF ExtentInv, BwdDx, GroupedGemm, schedule, forward
<1> QED  BY <1>1, <1>3, <1>5, <1>6, <1>7 DEF MlpIInv

LEMMA BwdDwRuns ==
  ASSUME MlpAssumption, MlpIInv, NEW e \in Expert, BwdDw(e)
  PROVE  MlpIInv'
<1> DEFINE s == "bwd_gemms"
<1>1. TodoInv' /\ mlp_stage = s /\ \A u \in Stages : \A y \in ThreadsOf(u) :
        RunBy(mlp_stage', todo', u, y) <=> HasRun(u, y) \/ (u = s /\ y = <<e, "dw">>)
  <2>1. Ran(s, <<e, "dw">>, "gather_bwd", ThreadsOf("gather_bwd")) /\ TodoInv
    BY DEF BwdDw, ThreadsOf, MlpIInv
  <2> QED  BY <2>1, OneMoreRun DEF Stages, No
<1>2. UNCHANGED <<inputs, schedule, forward, grad_eo, dA, dx, grad_w>>
  BY DEF BwdDw
<1>3. /\ PadLayout /\ MlpInputInv' /\ ScanInv' /\ TileInv' /\ PlaceInv' /\ TokenInv' /\ GatherInv'
      /\ HiddenInv' /\ OutputInv' /\ CombinesItsExperts' /\ ZeroInv' /\ GradientInv'
      /\ InputGradient'
  <2> DEFINE x == <<e, "dw">>
  <2>1. \A u \in Stages : \A y \in ThreadsOf(u) :
          RunBy(mlp_stage', todo', u, y) <=> HasRun(u, y) \/ (u = s /\ y = x)
    BY <1>1
  <2>2. s \in Stages \ {"pad_scan"}
    BY DEF Stages
  <2> HIDE DEF x
  <2> QED  BY <1>1, <1>2, <2>1, <2>2, Frame DEF schedule, forward
<1>4. MlpInputInv /\ ExtentInv /\ SentBackInv /\ WeightInv
  BY DEF MlpIInv
<1>5. SentBackInv'
  <2>1. \A p \in Row : /\ PadPos(p)' = PadPos(p) /\ TileOf(p)' = TileOf(p)
                       /\ ExpertAt(p)' = ExpertAt(p) /\ sorted_row_idx'[p] = sorted_row_idx[p]
    BY <1>2, PlacesStay DEF schedule, inputs
  <2>2. \A p \in Row : RunBy(mlp_stage', todo', s, <<TileOf(p), "dx">>)
                         <=> HasRun(s, <<TileOf(p), "dx">>)
    <3>1. \A p \in Row : <<TileOf(p), "dx">> \in ThreadsOf(s) /\ <<TileOf(p), "dx">> # <<e, "dw">>
      BY <1>3, <1>4, MlpPlaces, AreThreads
    <3> QED  BY <3>1, <1>1 DEF Stages
  <2> QED  BY <1>2, <1>4, <2>1, <2>2 DEF SentBackInv, HasRun, Gradient
<1>6. WeightInv'
  <2>1. \A d \in Expert : RunBy(mlp_stage', todo', s, <<d, "dw">>)
                            <=> HasRun(s, <<d, "dw">>) \/ d = e
    <3>1. \A d \in Expert : <<d, "dw">> \in ThreadsOf(s)
      BY <1>4, AreThreads
    <3> QED  BY <3>1, <1>1 DEF Stages
  <2>2. dw' = [dw EXCEPT ![e] = SegmentProducts(e)]
    BY DEF BwdDw, SegmentProducts
  <2>3. \A d \in Expert : SegmentProducts(d)' = SegmentProducts(d)
    BY <1>2 DEF SegmentProducts, schedule, forward
  <2> SUFFICES ASSUME NEW d \in Expert
               PROVE  dw'[d] = IF RunBy(mlp_stage', todo', s, <<d, "dw">>)
                               THEN SegmentProducts(d) ELSE <<>>
    BY <2>3 DEF WeightInv, HasRun
  <2> QED  BY <1>4, <2>1, <2>2 DEF WeightInv, ExtentInv
<1>7. ExtentInv'
  BY <1>2, <1>4 DEF ExtentInv, BwdDw, schedule, forward
<1> QED  BY <1>1, <1>3, <1>5, <1>6, <1>7 DEF MlpIInv

LEMMA GatherBwdRuns ==
  ASSUME MlpAssumption, MlpIInv, NEW tau \in Token, GatherBwd(tau)
  PROVE  MlpIInv'
<1> DEFINE s == "gather_bwd"
<1>1. TodoInv' /\ mlp_stage = s /\ \A u \in Stages : \A y \in ThreadsOf(u) :
        RunBy(mlp_stage', todo', u, y) <=> HasRun(u, y) \/ (u = s /\ y = tau)
  <2>1. Ran(s, tau, "done", ThreadsOf("done")) /\ TodoInv
    BY DEF GatherBwd, ThreadsOf, MlpIInv
  <2> QED  BY <2>1, OneMoreRun DEF Stages, No
<1>2. UNCHANGED <<inputs, schedule, forward, grad_eo, dA, dw, grad_w>>
  BY DEF GatherBwd
<1>3. /\ PadLayout /\ MlpInputInv' /\ ScanInv' /\ TileInv' /\ PlaceInv' /\ TokenInv' /\ GatherInv'
      /\ HiddenInv' /\ OutputInv' /\ CombinesItsExperts' /\ ZeroInv' /\ GradientInv'
      /\ SentBackInv' /\ WeightInv'
  <2>1. s \in Stages \ {"pad_scan"} /\ (No(s) < 9 \/ s \in {"bwd_gemms", "gather_bwd"})
    BY DEF Stages, No
  <2> QED  BY <1>1, <1>2, <2>1, Frame DEF schedule, forward
<1>4. MlpInputInv /\ ExtentInv /\ SentBackInv /\ PlaceInv /\ InputGradient
  BY DEF MlpIInv
<1>5. InputGradient'
  <2>1. ASSUME NEW k \in 1 .. K
        PROVE  Choices(tau, dA)[k] = <<"w2T", topk_ids[tau*K + k-1], <<"g", tau*K + k-1>>>>
    <3> DEFINE r == tau*K + k-1
    <3>1. PICK p \in Row : sorted_row_idx[p] = r /\ inv_pad[r] = PadPos(p)
      BY <1>1, <1>3, <1>4, ChoiceRows DEF No, Stages
    <3>2. dA[PadPos(p)] = <<"w2T", ExpertAt(p), Gradient(sorted_row_idx[p])>>
      BY <1>1, <1>4 DEF SentBackInv, HasRun, RunBy, No
    <3>3. ExpertAt(p) = topk_ids[r]
      BY <3>1 DEF ExpertAt
    <3> HIDE DEF r
    <3>4. Choices(tau, dA)[k] = dA[inv_pad[r]]
      BY DEF Choices, r
    <3> QED  BY <3>1, <3>2, <3>3, <3>4 DEF Gradient, r
  <2>2. Choices(tau, dA)
          = [k \in 1 .. K |-> <<"w2T", topk_ids[tau*K + k-1], <<"g", tau*K + k-1>>>>]
    <3>1. Choices(tau, dA) = [k \in 1 .. K |-> Choices(tau, dA)[k]]
      BY DEF Choices
    <3> QED  BY <2>1, <3>1
  <2>3. dx' = [dx EXCEPT ![tau] = Choices(tau, dA)]
    BY DEF GatherBwd
  <2>4. ASSUME NEW sigma \in Token, dx'[sigma] # Undef
        PROVE  dx'[sigma] =
                 [k \in 1 .. K |-> <<"w2T", topk_ids[sigma*K + k-1], <<"g", sigma*K + k-1>>>>]
    <3>1. CASE sigma = tau
      BY <3>1, <2>2, <2>3, <1>4 DEF ExtentInv
    <3>2. CASE sigma # tau
      BY <3>2, <2>3, <2>4, <1>4 DEF ExtentInv, InputGradient
    <3> QED  BY <3>1, <3>2
  <2> QED  BY <2>4, <1>2, <1>4 DEF InputGradient, inputs
<1>6. ExtentInv'
  BY <1>2, <1>4 DEF ExtentInv, GatherBwd, schedule, forward
<1> QED  BY <1>1, <1>3, <1>5, <1>6 DEF MlpIInv

LEMMA PadScanRuns ==
  ASSUME MlpAssumption, MlpIInv, PadScan
  PROVE  MlpIInv'
<1> DEFINE pad(e) == CeilTile(expert_offsets[e] - expert_offsets[e-1])
           step == [x \in (1 .. Experts) \X Nat |-> x[2] + pad(x[1])]
           F(f) == [e \in 0 .. Experts |-> IF e = 0 THEN 0 ELSE f[e-1] + pad(e)]
           P == CHOOSE f : f = F(f)
<1>1. MlpInputInv /\ ExtentInv /\ PlaceInv /\ CombinesItsExperts /\ WeightInv /\ InputGradient
  BY DEF MlpIInv
<1>2. mlp_stage = "pad_scan" /\ mlp_stage' = "pad_fill" /\ todo' = 0 .. Threads-1
  BY DEF PadScan, Ran, MlpIInv, TodoInv, ThreadsOf
<1>3. UNCHANGED <<inputs, expert_of_tile, gather_idx, inv_pad, forward, backward>>
  BY DEF PadScan
<1>4. Experts \in Nat /\ \A e \in 1 .. Experts : pad(e) \in Nat
  <2>1. SUFFICES ASSUME NEW e \in 1 .. Experts PROVE pad(e) \in Nat
    BY MlpSizes
  <2>2. e-1 \in 0 .. Experts /\ e \in 0 .. Experts /\ e-1 <= e
    BY MlpSizes
  <2>3. /\ expert_offsets \in [0 .. Experts -> 0 .. TK] /\ TK \in Nat
        /\ \A c, d \in 0 .. Experts : c <= d => expert_offsets[c] <= expert_offsets[d]
    BY <1>1, Compact, MlpSizes
  <2>4. expert_offsets[e-1] <= expert_offsets[e]
    BY <2>2, <2>3
  <2>5. expert_offsets[e] - expert_offsets[e-1] \in Nat
    BY <2>2, <2>3, <2>4
  <2> QED  BY <2>5, CeilTileIs
<1>5. step \in [(1 .. Experts) \X Nat -> Nat]
  <2> HIDE DEF pad
  <2> QED  BY <1>4
<1>6. PICK f \in [0 .. Experts -> Nat] : Follows(f, Experts, 0, step)
  <2> HIDE DEF step
  <2> QED  BY <1>4, <1>5, RecursionExists
<1>7. f = F(f)
  <2>1. ASSUME NEW e \in 0 .. Experts PROVE f[e] = IF e = 0 THEN 0 ELSE f[e-1] + pad(e)
    <3>1. f[e] = IF e = 0 THEN 0 ELSE step[<<e, f[e-1]>>]
      BY <1>6 DEF Follows
    <3>2. CASE e = 0
      BY <3>1, <3>2
    <3>3. CASE e # 0
      <4>1. e \in 1 .. Experts /\ e-1 \in 0 .. Experts
        BY <3>3, <1>4
      <4> HIDE DEF pad
      <4>2. step[<<e, f[e-1]>>] = f[e-1] + pad(e)
        BY <4>1
      <4> HIDE DEF step
      <4> QED  BY <3>1, <3>3, <4>2
    <3> QED  BY <3>2, <3>3
  <2> HIDE DEF step, pad
  <2> QED  BY <2>1
<1>8. P = F(P)
  <2> HIDE DEF F
  <2> QED  BY <1>7
<1>9. off_pad' = P
  BY DEF PadScan
<1> HIDE DEF P, pad
<1>10. P[0] = 0 /\ \A e \in 1 .. Experts : P[e] = P[e-1] + pad(e)
  <2>1. \A e \in 0 .. Experts : P[e] = IF e = 0 THEN 0 ELSE P[e-1] + pad(e)
    BY <1>8
  <2> QED  BY <1>4, <2>1
<1>11. P \in [0 .. Experts -> Nat]
  <2>1. \A e \in 1 .. Experts : P[e-1] \in Nat => P[e] \in Nat
    BY <1>4, <1>10
  <2>0. P[0] \in Nat /\ Experts \in Nat
    BY <1>4, <1>10
  <2>2. \A e \in 0 .. Experts : P[e] \in Nat
    BY <2>0, <2>1, RecursionTypes
  <2>3. P = [e \in 0 .. Experts |-> IF e = 0 THEN 0 ELSE P[e-1] + pad(e)]
    BY <1>8
  <2> HIDE DEF F
  <2> QED  BY <2>2, <2>3
<1>12. PadLayout'
  <2>1. ASSUME NEW e \in Expert
        PROVE  P[e+1] = P[e] + CeilTile(expert_offsets[e+1] - expert_offsets[e])
    <3>1. e+1 \in 1 .. Experts /\ (e+1)-1 = e
      BY MlpSizes DEF Expert
    <3>2. P[e+1] = P[e] + pad(e+1)
      BY <3>1, <1>10
    <3> QED  BY <3>1, <3>2 DEF pad
  <2>2. \A e \in Expert : CeilTile(expert_offsets[e+1] - expert_offsets[e])'
                            = CeilTile(expert_offsets[e+1] - expert_offsets[e])
    BY <1>3 DEF CeilTile, inputs
  <2> QED  BY <1>9, <1>10, <1>11, <2>1, <2>2 DEF PadLayout
<1>13. /\ MlpInputInv' /\ ExtentInv' /\ CombinesItsExperts' /\ InputGradient'
  <2>1. MlpInputInv'
    BY <1>1, <1>3 DEF MlpInputInv, CompactLayout, RowsBelow, inputs
  <2>2. ExtentInv'
    BY <1>1, <1>3 DEF ExtentInv, forward, backward
  <2>3. CombinesItsExperts' /\ InputGradient'
    BY <1>1, <1>3 DEF CombinesItsExperts, InputGradient, inputs, forward, backward
  <2> QED  BY <2>1, <2>2, <2>3
\* No other dispatch has begun.
<1>14. \A u \in Stages : \A y : u \notin {"pad_scan", "pad_fill"} =>
         ~RunBy(mlp_stage, todo, u, y) /\ ~RunBy(mlp_stage', todo', u, y)
  BY <1>2 DEF RunBy, Stages, No
<1>15. \A i \in ThreadsOf("pad_fill") : ~RunBy(mlp_stage', todo', "pad_fill", i)
  BY <1>2 DEF RunBy, No, ThreadsOf
<1>16. TodoInv' /\ ScanInv'
  BY <1>2, <1>12 DEF TodoInv, Stages, ThreadsOf, ScanInv
<1>17. TileInv'
  BY <1>1, <1>15, AreThreads DEF TileInv, HasRun
<1>18. PlaceInv' /\ TokenInv'
  BY <1>1, <1>3, <1>14 DEF PlaceInv, TokenInv, HasRun, Stages, inputs
<1>19. GatherInv' /\ HiddenInv' /\ OutputInv'
  BY <1>14 DEF GatherInv, HiddenInv, OutputInv, HasRun, Stages
<1>20. ZeroInv' /\ GradientInv' /\ SentBackInv'
  BY <1>14 DEF ZeroInv, GradientInv, SentBackInv, HasRun, Stages
<1>21. WeightInv'
  BY <1>1, <1>3, <1>14 DEF WeightInv, HasRun, Stages, backward
<1> QED  BY <1>12, <1>13, <1>16, <1>17, <1>18, <1>19, <1>20, <1>21 DEF MlpIInv

LEMMA MlpInitially == ASSUME MlpAssumption, MlpInit PROVE MlpIInv
<1>1. mlp_stage = "pad_scan" /\ todo = {0}
  BY DEF MlpInit
<1>2. \A u \in Stages : \A y : u # "pad_scan" => ~HasRun(u, y)
  BY <1>1 DEF HasRun, RunBy, No, Stages
<1>3. ~HasRun("pad_scan", 0)
  BY <1>1 DEF HasRun, RunBy, No
<1>4. TodoInv
  BY <1>1 DEF TodoInv, Stages, ThreadsOf
<1>5. MlpInputInv
  BY DEF MlpInit, MlpInputInv
<1>6. ExtentInv
  BY DEF MlpInit, ExtentInv
<1>7. ScanInv /\ TileInv
  BY <1>2, <1>3 DEF ScanInv, TileInv, Stages
<1>8. PlaceInv /\ TokenInv
  <2>1. \A p \in Row : sorted_row_idx[p] \in Row
    BY <1>5 DEF MlpInputInv
  <2>2. inv_pad = [r \in Row |-> -2]
    BY DEF MlpInit
  <2> QED  BY <2>1, <2>2, <1>2 DEF PlaceInv, TokenInv, Stages
<1>9. GatherInv /\ HiddenInv /\ OutputInv
  BY <1>2 DEF GatherInv, HiddenInv, OutputInv, Stages
<1>10. ZeroInv /\ GradientInv /\ SentBackInv
  BY <1>2 DEF ZeroInv, GradientInv, SentBackInv, Stages
<1>11. WeightInv
  BY <1>2 DEF MlpInit, WeightInv, Stages
<1>12. CombinesItsExperts /\ InputGradient
  BY DEF MlpInit, CombinesItsExperts, InputGradient
<1> QED  BY <1>4, <1>5, <1>6, <1>7, <1>8, <1>9, <1>10, <1>11, <1>12 DEF MlpIInv

LEMMA StutterKeeps == ASSUME MlpIInv, UNCHANGED mlpVars PROVE MlpIInv'
<1> USE DEF mlpVars, inputs, schedule, forward, backward
<1>1. TodoInv' /\ MlpInputInv' /\ ExtentInv'
  BY DEF MlpIInv, TodoInv, MlpInputInv, CompactLayout, RowsBelow, ExtentInv
<1>2. TileInv'
  <2>1. \A t \in Tile : Search(off_pad, t*TILE)' = Search(off_pad, t*TILE)
    BY DEF Search
  <2> QED  BY <2>1 DEF MlpIInv, TileInv, HasRun
<1>3. ScanInv' /\ PlaceInv' /\ TokenInv'
  BY DEF MlpIInv, ScanInv, PadLayout, CeilTile, PlaceInv, TokenInv, HasRun, RunBy, PadPos, TokenAt,
         ExpertAt
<1>4. GatherInv' /\ HiddenInv' /\ OutputInv' /\ CombinesItsExperts'
  BY DEF MlpIInv, GatherInv, HiddenInv, OutputInv, CombinesItsExperts, HasRun, RunBy, PadPos, TileOf,
         Hidden, TokenAt, ExpertAt
<1>5. ZeroInv' /\ GradientInv' /\ SentBackInv' /\ WeightInv' /\ InputGradient'
  BY DEF MlpIInv, ZeroInv, GradientInv, SentBackInv, WeightInv, InputGradient, HasRun, RunBy, PadPos,
         TileOf, TokenAt, ExpertAt, Gradient, SegmentProducts
<1> QED  BY <1>1, <1>2, <1>3, <1>4, <1>5 DEF MlpIInv

LEMMA MlpIInvHolds == ASSUME MlpAssumption PROVE MlpSpec => []MlpIInv
<1>1. MlpInit => MlpIInv
  BY MlpInitially
<1>2. MlpIInv /\ [MlpNext]_mlpVars => MlpIInv'
  <2> SUFFICES ASSUME MlpIInv, [MlpNext]_mlpVars PROVE MlpIInv'
    OBVIOUS
  <2>1. CASE PadScan
    BY <2>1, PadScanRuns
  <2>2. ASSUME NEW i \in 0 .. Threads-1, PadFill(i) PROVE MlpIInv'
    BY <2>2, PadFillRuns
  <2>3. ASSUME NEW p \in Row, PadScatter(p) PROVE MlpIInv'
    BY <2>3, PadScatterRuns
  <2>4. ASSUME NEW p \in PadRow, Gather(p) \/ BwdZero(p) PROVE MlpIInv'
    BY <2>4, GatherRuns, BwdZeroRuns
  <2>5. ASSUME NEW t \in Tile, GemmSwiglu(t) \/ GemmRect(t) \/ BwdDx(t) PROVE MlpIInv'
    BY <2>5, GemmSwigluRuns, GemmRectRuns, BwdDxRuns
  <2>6. ASSUME NEW e \in Expert, BwdDw(e) PROVE MlpIInv'
    BY <2>6, BwdDwRuns
  <2>7. ASSUME NEW tau \in Token, Finalize(tau) \/ FinalizeBwd(tau) \/ GatherBwd(tau) PROVE MlpIInv'
    BY <2>7, FinalizeRuns, FinalizeBwdRuns, GatherBwdRuns
  <2>8. CASE UNCHANGED mlpVars
    BY <2>8, StutterKeeps
  <2> QED  BY <2>1, <2>2, <2>3, <2>4, <2>5, <2>6, <2>7, <2>8 DEF MlpNext
<1> QED  BY <1>1, <1>2, PTL DEF MlpSpec
-----------------------------------------------------------------------------
LEMMA PlacedRows ==
  ASSUME MlpAssumption, MlpIInv, NEW r \in Placed
  PROVE  /\ mlp_stage \notin {"pad_scan", "pad_fill"}
         /\ \E p \in Row : sorted_row_idx[p] = r /\ HasRun("pad_scatter", p) /\ inv_pad[r] = PadPos(p)
<1>1. PICK p \in Row : sorted_row_idx[p] = r
  BY EveryRowPlaced DEF MlpIInv, Placed
<1>2. HasRun("pad_scatter", p) /\ inv_pad[r] = PadPos(p)
  BY <1>1 DEF MlpIInv, PlaceInv, Placed
<1>3. mlp_stage \notin {"pad_scan", "pad_fill"}
  BY <1>2 DEF HasRun, RunBy, No
<1> QED  BY <1>1, <1>2, <1>3

(***************************************************************************)
(* ScheduleSound, for every size: whatever the threads of moe_pad_offsets  *)
(* and moe_pad_scatter do first, every row that is placed has a padded row *)
(* of its own within the static size of the padded space, fed by its own   *)
(* token, in a tile that belongs to its expert.                            *)
(***************************************************************************)
THEOREM PaddedScheduleIsSound == ASSUME MlpAssumption PROVE MlpSpec => []ScheduleSound
<1>1. ASSUME MlpIInv PROVE ScheduleSound
  <2>1. ASSUME NEW r \in Placed
        PROVE  /\ inv_pad[r] \in PadRow
               /\ expert_of_tile[inv_pad[r] \div TILE] = topk_ids[r]
               /\ gather_idx[inv_pad[r]] = r \div K
    <3>1. PICK p \in Row :
            sorted_row_idx[p] = r /\ HasRun("pad_scatter", p) /\ inv_pad[r] = PadPos(p)
      BY <1>1, <2>1, PlacedRows
    <3>2. PadPos(p) \in PadRow /\ expert_of_tile[TileOf(p)] = ExpertAt(p)
      BY <1>1, <2>1, PlacedRows, TileOfExpert
    <3>3. gather_idx[PadPos(p)] = TokenAt(p)
      BY <1>1, <3>1 DEF MlpIInv, TokenInv
    <3> QED  BY <3>1, <3>2, <3>3 DEF TileOf, ExpertAt, TokenAt
  <2>2. ASSUME NEW r \in Placed, NEW q \in Placed, inv_pad[r] = inv_pad[q] PROVE r = q
    <3>1. PadLayout /\ MlpInputInv
      BY <1>1, <2>2, PlacedRows, TileOfExpert
    <3>2. PICK p \in Row : sorted_row_idx[p] = r /\ inv_pad[r] = PadPos(p)
      BY <1>1, <2>2, PlacedRows
    <3>3. PICK o \in Row : sorted_row_idx[o] = q /\ inv_pad[q] = PadPos(o)
      BY <1>1, <2>2, PlacedRows
    <3> QED  BY <2>2, <3>1, <3>2, <3>3, PlacesDiffer
  <2> QED  BY <2>1, <2>2 DEF ScheduleSound
<1> QED  BY <1>1, MlpIInvHolds, PTL

(***************************************************************************)
(* CombinesItsExperts, for every size and every order of threads, rows and *)
(* tiles: moe_finalize sums, choice by choice, both GEMMs of the chosen    *)
(* experts applied to the token's own activation.                          *)
(***************************************************************************)
THEOREM TokensCombineTheirExperts == ASSUME MlpAssumption PROVE MlpSpec => []CombinesItsExperts
<1>1. MlpIInv => CombinesItsExperts
  BY DEF MlpIInv
<1> QED  BY <1>1, MlpIInvHolds, PTL

\* What the weight gradient of an expert reads at a row of its segment.
LEMMA SegmentRow ==
  ASSUME MlpAssumption, MlpIInv, PadLayout, No(mlp_stage) > 8,
         NEW e \in Expert, NEW q \in PadRow, off_pad[e] <= q, q < off_pad[e+1]
  PROVE  \/ grad_eo[q] = ZeroRow
         \/ \E r \in Row : /\ topk_ids[r] = e /\ grad_eo[q] = Gradient(r)
                           /\ inter[q] = <<"w1", e, <<"x", r \div K>>>>
<1>1. MlpInputInv /\ HiddenInv /\ ZeroInv /\ GradientInv
  BY DEF MlpIInv
<1>2. \A s \in {"gemm1", "bwd_zero", "finalize_bwd"} : \A y : HasRun(s, y)
  <2>1. No(mlp_stage) \in Nat
    BY DEF No
  <2> QED  BY <2>1 DEF HasRun, RunBy, No
<1>3. CASE \E p \in Row : PadPos(p) = q
  <2>1. PICK p \in Row : PadPos(p) = q
    BY <1>3
  <2>2. /\ ExpertAt(p) \in 0 .. Experts-1 /\ sorted_row_idx[p] \in Row
        /\ off_pad[ExpertAt(p)] <= q /\ q < off_pad[ExpertAt(p) + 1]
    BY <1>1, <2>1, MlpPlaces DEF Expert
  <2>3. ExpertAt(p) = e
    <3>1. /\ Experts \in Nat /\ off_pad \in [0 .. Experts -> Nat]
          /\ \A c, d \in 0 .. Experts : c <= d => off_pad[c] <= off_pad[d]
      BY <1>1, PaddedSegments, MlpSizes DEF PadLayout
    <3>2. off_pad \in [0 .. Experts -> Int] /\ q \in Int /\ e \in 0 .. Experts-1
      BY <3>1 DEF PadRow, Expert
    <3> QED  BY <2>2, <3>1, <3>2, OneSegment
  <2>4. grad_eo[q] = Gradient(sorted_row_idx[p]) /\ inter[q] = Hidden(p)
    BY <1>1, <1>2, <2>1 DEF GradientInv, HiddenInv
  <2> QED  BY <2>2, <2>3, <2>4 DEF ExpertAt, Hidden, TokenAt
<1>4. CASE ~\E p \in Row : PadPos(p) = q
  BY <1>1, <1>2, <1>4 DEF ZeroInv
<1> QED  BY <1>3, <1>4

(***************************************************************************)
(* GradientsExact, for every size and every order: the weight gradient of  *)
(* an expert reduces over each of its rows exactly once and over zeros for *)
(* the padding, which relies on the zero-fill of MoeFinalizeBwd; and the   *)
(* gradients of tokens and routing weights are those of their choices.     *)
(***************************************************************************)
THEOREM BackwardIsExact == ASSUME MlpAssumption PROVE MlpSpec => []GradientsExact
<1>1. ASSUME MlpIInv PROVE WeightGradient
  <2>1. SUFFICES ASSUME NEW e \in Expert, NEW i \in 1 .. Len(dw[e])
                 PROVE  LET h == dw[e][i][1]
                            g == dw[e][i][2]
                            rows(j) == {r \in Row : topk_ids[r] = e /\ dw[e][j][2] = <<"g", r>>}
                        IN  /\ \/ g = ZeroRow
                               \/ \E r \in rows(i) : h = <<"w1", e, <<"x", r \div K>>>>
                            /\ Cardinality(UNION {rows(j) : j \in 1 .. Len(dw[e])})
                                 = Cardinality({r \in Row : topk_ids[r] = e})
    BY DEF WeightGradient
  <2>2. HasRun("bwd_gemms", <<e, "dw">>)
    <3>1. SUFFICES ASSUME dw[e] = <<>> PROVE FALSE
      BY <1>1 DEF MlpIInv, WeightInv
    <3>2. Len(dw[e]) = 0
      BY <3>1
    <3> QED  BY <3>2
  <2>3. No(mlp_stage) > 8 /\ mlp_stage \notin {"pad_scan", "pad_fill"}
    BY <2>2 DEF HasRun, RunBy, No
  <2>4. /\ PadLayout /\ MlpInputInv /\ GradientInv
        /\ \A p \in Row : PadPos(p) \in PadRow /\ HasRun("finalize_bwd", TokenAt(p))
    <3>1. \A p \in Row : HasRun("finalize_bwd", TokenAt(p))
      BY <2>3 DEF HasRun, RunBy, No
    <3> QED  BY <1>1, <2>3, <3>1, TileOfExpert DEF MlpIInv
  <2> DEFINE a == off_pad[e]
             end == off_pad[e+1]
  <2>5. a \in Nat /\ end \in Nat /\ a <= end /\ end <= TotalPadMax /\ TotalPadMax \in Nat
    <3>1. e \in 0 .. Experts /\ e+1 \in 0 .. Experts /\ Experts \in 0 .. Experts
          /\ e <= e+1 /\ e+1 <= Experts
      <4>1. e \in 0 .. Experts-1 /\ Experts \in Nat
        BY MlpSizes DEF Expert
      <4> QED  BY <4>1
    <3>2. /\ \A d \in 0 .. Experts : off_pad[d] \in Nat
          /\ \A c, d \in 0 .. Experts : c <= d => off_pad[c] <= off_pad[d]
          /\ off_pad[Experts] <= TotalPadMax /\ TotalPadMax \in Nat
      BY <2>4, PaddedSegments, MlpSizes
    <3> QED  BY <3>1, <3>2
  <2> HIDE DEF a, end
  <2>6. dw[e] = [j \in 1 .. end - a |-> <<inter[a + j-1], grad_eo[a + j-1]>>]
    BY <1>1, <2>2 DEF MlpIInv, WeightInv, SegmentProducts, a, end
  <2>7. Len(dw[e]) = end - a /\ \A j \in 1 .. end - a :
          dw[e][j][1] = inter[a + j-1] /\ dw[e][j][2] = grad_eo[a + j-1]
    <3>1. end - a \in Nat
      BY <2>5
    <3> DEFINE m == end - a
    <3>2. dw[e] = [j \in 1 .. m |-> <<inter[a + j-1], grad_eo[a + j-1]>>] /\ m \in Nat
      BY <2>6, <3>1
    <3> HIDE DEF m
    <3>3. Len(dw[e]) = m
      BY <3>2
    <3>4. \A j \in 1 .. m : dw[e][j] = <<inter[a + j-1], grad_eo[a + j-1]>>
      BY <3>2
    <3> QED  BY <3>3, <3>4 DEF m
  <2> DEFINE rows(j) == {r \in Row : topk_ids[r] = e /\ dw[e][j][2] = <<"g", r>>}
  <2>8. \/ dw[e][i][2] = ZeroRow
        \/ \E r \in rows(i) : dw[e][i][1] = <<"w1", e, <<"x", r \div K>>>>
    <3> DEFINE q == a + i-1
    <3>1. q \in PadRow /\ a <= q /\ q < end /\ i \in 1 .. end - a
      BY <2>1, <2>5, <2>7 DEF PadRow
    <3> HIDE DEF q
    <3>2. \/ grad_eo[q] = ZeroRow
          \/ \E r \in Row : /\ topk_ids[r] = e /\ grad_eo[q] = Gradient(r)
                            /\ inter[q] = <<"w1", e, <<"x", r \div K>>>>
      BY <1>1, <2>3, <2>4, <3>1, SegmentRow DEF a, end
    <3>3. dw[e][i][1] = inter[q] /\ dw[e][i][2] = grad_eo[q]
      BY <2>7, <3>1 DEF q
    <3> QED  BY <3>2, <3>3 DEF Gradient
  <2>9. UNION {rows(j) : j \in 1 .. Len(dw[e])} = {r \in Row : topk_ids[r] = e}
    <3>1. ASSUME NEW r \in Row, topk_ids[r] = e PROVE \E j \in 1 .. Len(dw[e]) : r \in rows(j)
      <4>1. PICK p \in Row : sorted_row_idx[p] = r
        BY <2>4, EveryRowPlaced
      <4>2. ExpertAt(p) = e
        BY <3>1, <4>1 DEF ExpertAt
      <4>3. a <= PadPos(p) /\ PadPos(p) < end /\ PadPos(p) \in Nat
        BY <2>4, <2>5, <4>2, MlpPlaces DEF a, end, PadRow
      <4> DEFINE j == PadPos(p) - a + 1
      <4>4. j \in 1 .. end - a /\ a + j-1 = PadPos(p)
        BY <2>5, <4>3
      <4> HIDE DEF j
      <4>5. dw[e][j][2] = grad_eo[PadPos(p)]
        BY <2>7, <4>4
      <4>6. grad_eo[PadPos(p)] = <<"g", r>>
        BY <2>4, <4>1 DEF GradientInv, Gradient
      <4> QED  BY <2>7, <3>1, <4>4, <4>5, <4>6
    <3>2. \A j : rows(j) \subseteq {r \in Row : topk_ids[r] = e}
      OBVIOUS
    <3>3. \A r \in {o \in Row : topk_ids[o] = e} : \E j \in 1 .. Len(dw[e]) : r \in rows(j)
      <4> HIDE DEF rows
      <4> QED  BY <3>1
    <3> HIDE DEF rows
    <3> QED  BY <3>2, <3>3
  <2> QED  BY <2>8, <2>9
<1>2. MlpIInv => GradientsExact
  BY <1>1 DEF MlpIInv, GradientsExact
<1> QED  BY <1>2, MlpIInvHolds, PTL
=============================================================================
