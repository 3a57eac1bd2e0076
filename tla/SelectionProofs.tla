-------------------------- MODULE SelectionProofs --------------------------
(***************************************************************************)
(* Proofs about the selections of a decode step, from the bottom:          *)
(*   - TopK: the reduction over the lanes of a simdgroup, and the rounds   *)
(*     built on it;                                                        *)
(*   - MoeRoute: the ids and weights a token is given;                     *)
(*   - BeamKv: whatever parents are chosen, a beam comes to hold its       *)
(*     parent's history, whether blocks are copied or tables remapped;     *)
(*   - BeamAdvance: the lists of the lanes, their merge, the selection;    *)
(*   - BeamStep: a step of beam search from logits to cache.               *)
(*                                                                         *)
(* They hold for every value of the constants that satisfies the           *)
(* assumptions of these modules.                                           *)
(***************************************************************************)
EXTENDS BeamStep, MoeRoute, Facts, TLAPS

-----------------------------------------------------------------------------
(***************************************************************************)
(* The helpers of TopK: first the butterfly.                               *)
(***************************************************************************)
Pair == [v : Int, id : Int]

LEMMA Powers ==
  ASSUME TopKAssumption
  PROVE  /\ LogW \in Nat /\ Pow2[0] = 1
         /\ \A n \in 1 .. LogW : Pow2[n] = 2 * Pow2[n-1]
         /\ \A n \in 0 .. LogW : Pow2[n] \in Nat \ {0}
         /\ W \in Nat \ {0} /\ 0 \in Lane /\ Lane \subseteq Nat
<1> DEFINE step == [x \in (1 .. LogW) \X Nat |-> 2 * x[2]]
           F(f) == [n \in 0 .. LogW |-> IF n = 0 THEN 1 ELSE 2 * f[n-1]]
           P == CHOOSE f : f = F(f)
<1>1. LogW \in Nat
  BY DEF TopKAssumption
<1>2. step \in [(1 .. LogW) \X Nat -> Nat]
  OBVIOUS
<1>3. PICK f \in [0 .. LogW -> Nat] : Follows(f, LogW, 1, step)
  <2> HIDE DEF step
  <2> QED  BY <1>1, <1>2, RecursionExists
<1>4. f = F(f)
  <2>1. ASSUME NEW n \in 0 .. LogW PROVE f[n] = IF n = 0 THEN 1 ELSE 2 * f[n-1]
    <3>1. f[n] = IF n = 0 THEN 1 ELSE step[<<n, f[n-1]>>]
      BY <1>3 DEF Follows
    <3>2. CASE n # 0
      <4>1. n \in 1 .. LogW /\ n-1 \in 0 .. LogW
        BY <3>2, <1>1
      <4>2. step[<<n, f[n-1]>>] = 2 * f[n-1]
        BY <4>1
      <4> HIDE DEF step
      <4> QED  BY <3>1, <3>2, <4>2
    <3> QED  BY <3>1, <3>2
  <2> HIDE DEF step
  <2> QED  BY <2>1
<1>5. P = F(P)
  <2> HIDE DEF F
  <2> QED  BY <1>4
<1>6. P = Pow2
  BY DEF Pow2
<1> HIDE DEF P
<1>7. \A n \in 0 .. LogW : P[n] = IF n = 0 THEN 1 ELSE 2 * P[n-1]
  BY <1>5
<1>8. P[0] = 1 /\ \A n \in 1 .. LogW : P[n] = 2 * P[n-1]
  BY <1>1, <1>7
<1>9. \A n \in 0 .. LogW : P[n] \in Nat \ {0}
  <2>1. ASSUME NEW n \in 1 .. LogW, P[n-1] \in Nat \ {0} PROVE P[n] \in Nat \ {0}
    BY <1>8, <2>1
  <2> DEFINE Positive == Nat \ {0}
  <2>2. P[0] \in Positive /\ \A n \in 1 .. LogW : P[n-1] \in Positive => P[n] \in Positive
    BY <1>8, <2>1
  <2>3. \A n \in 0 .. LogW : P[n] \in Positive
    <3> HIDE DEF Positive
    <3> QED  BY <1>1, <2>2, RecursionTypes
  <2> QED  BY <2>3
<1>10. W \in Nat \ {0}
  BY <1>1, <1>6, <1>9 DEF W
<1> QED  BY <1>1, <1>6, <1>8, <1>9, <1>10 DEF Lane

\* A power of two and what is left of the lanes make them up.
LEMMA PowersDivide ==
  ASSUME TopKAssumption, NEW n \in 0 .. LogW
  PROVE  W = Pow2[LogW - n] * Pow2[n]
<1> DEFINE Good == {m \in 0 .. LogW : Pow2[LogW - m] * Pow2[m] = W}
<1>1. ASSUME NEW m \in 0 .. LogW, \A k \in 0 .. m-1 : k \in Good PROVE m \in Good
  <2>1. CASE m = 0
    BY <2>1, Powers DEF W
  <2>2. CASE m # 0
    <3>1. m \in 1 .. LogW /\ m-1 \in 0 .. m-1 /\ LogW - m + 1 \in 1 .. LogW
          /\ LogW - (m-1) = LogW - m + 1 /\ LogW - m \in 0 .. LogW /\ m-1 \in 0 .. LogW
      BY <2>2, Powers
    <3>2. Pow2[LogW - m + 1] * Pow2[m-1] = W
      BY <3>1, <1>1
    <3>3. Pow2[LogW - m + 1] = 2 * Pow2[LogW - m] /\ Pow2[m] = 2 * Pow2[m-1]
      <4>1. LogW - m + 1 - 1 = LogW - m
        BY Powers
      <4> QED  BY <3>1, <4>1, Powers
    <3>4. Pow2[LogW - m] \in Nat /\ Pow2[m-1] \in Nat
      BY <3>1, Powers
    <3>5. \A a, b \in Nat : (2 * a) * b = a * (2 * b)
      OBVIOUS
    <3> QED  BY <3>2, <3>3, <3>4, <3>5
  <2> QED  BY <2>1, <2>2
<1>2. 0 .. LogW \subseteq Good
  <2> HIDE DEF Good
  <2> QED  BY <1>1, IntervalInduction, Powers
<1> QED  BY <1>2

\* Remainders by d and by 2*d.
LEMMA HalfRemainder ==
  ASSUME NEW d \in Nat \ {0}, NEW a \in Nat
  PROVE  LET r == a % (2*d)
         IN  /\ r \in 0 .. 2*d - 1
             /\ r < d => a % d = r /\ (a \div d) % 2 = 0
             /\ r >= d => a % d = r - d /\ (a \div d) % 2 = 1
<1> DEFINE r == a % (2*d)
           c == a \div (2*d)
<1>1. 2*d \in Nat \ {0}
  OBVIOUS
<1>2. c \in Nat /\ r \in 0 .. 2*d - 1 /\ a = (2*d) * c + r
  BY <1>1, Division
<1>3. a \div d \in Nat /\ a % d \in 0 .. d-1 /\ a = d * (a \div d) + (a % d)
  BY Division
<1> HIDE DEF c, r
<1>4. CASE r < d
  <2>1. a = d * (2*c) + r
    BY <1>2
  <2>2. a \div d = 2*c /\ a % d = r
    <3>1. 2*c \in Int /\ a \div d \in Int /\ r \in 0 .. d-1
      BY <1>2, <1>3, <1>4
    <3>2. d * (a \div d) + (a % d) = d * (2*c) + r
      BY <2>1, <1>3
    <3> QED  BY <3>1, <3>2, <1>3, DivisionUnique
  <2> QED  BY <2>2, <1>2, <1>4 DEF r
<1>5. CASE r >= d
  <2>1. a = d * (2*c + 1) + (r - d)
    BY <1>2
  <2>2. a \div d = 2*c + 1 /\ a % d = r - d
    <3>1. 2*c + 1 \in Int /\ a \div d \in Int /\ r - d \in 0 .. d-1
      BY <1>2, <1>3, <1>5
    <3>2. d * (a \div d) + (a % d) = d * (2*c + 1) + (r - d)
      BY <2>1, <1>3
    <3> DEFINE p == 2*c + 1
               s == r - d
    <3>3. p \in Int /\ s \in 0 .. d-1 /\ d * (a \div d) + (a % d) = d * p + s
      BY <3>1, <3>2
    <3>4. a \div d = p /\ a % d = s
      <4> HIDE DEF p, s
      <4> QED  BY <3>1, <3>3, <1>3, DivisionUnique
    <3> QED  BY <3>4
  <2> QED  BY <2>2, <1>2, <1>5 DEF r
<1> QED  BY <1>2, <1>4, <1>5 DEF r

\* The lanes that agree modulo d are those that agree modulo 2*d with one of
\* two lanes that exchange.
LEMMA PartnersSplit ==
  ASSUME TopKAssumption, NEW d \in Nat \ {0}, NEW q \in Nat, W = (2*d) * q, NEW l \in Lane
  PROVE  /\ Xor(l, d) \in Lane
         /\ \A m \in Lane : m % d = l % d <=>
              m % (2*d) = l % (2*d) \/ m % (2*d) = Xor(l, d) % (2*d)
<1> DEFINE r(m) == m % (2*d)
           c == l \div (2*d)
           o == Xor(l, d)
<1>1. l \in Nat /\ l < W /\ 2*d \in Nat \ {0} /\ W \in Nat
  BY Powers DEF Lane
<1>2. c \in Nat /\ r(l) \in 0 .. 2*d-1 /\ l = (2*d) * c + r(l)
  BY <1>1, Division
<1>3. (2*d) * c + 2*d <= W
  <2> HIDE DEF c
  <2>1. c < q
    <3>1. CASE c >= q
      <4>1. c - q \in Nat /\ (2*d) * c = (2*d) * q + (2*d) * (c - q)
        BY <3>1, <1>2
      <4>2. (2*d) * (c - q) >= 0
        <5>1. c - q = 0 \/ c - q >= 1
          BY <4>1
        <5>2. CASE c - q >= 1
          BY <5>2, <4>1, <1>1, Multiple
        <5> QED  BY <5>1, <5>2
      <4>3. (2*d) * c >= W /\ (2*d) * c \in Int
        BY <4>1, <4>2, <1>1, <1>2
      <4> QED  BY <4>3, <1>1, <1>2
    <3> QED  BY <3>1, <1>2
  <2>2. (2*d) * (q - c) >= 2*d
    BY <2>1, <1>1, <1>2, Multiple
  <2>3. (2*d) * q = (2*d) * c + (2*d) * (q - c)
    BY <1>2
  <2> QED  BY <2>2, <2>3, <1>2
<1>4. /\ r(l) < d => o = l + d /\ r(o) = r(l) + d
      /\ r(l) >= d => o = l - d /\ r(o) = r(l) - d
      /\ o \in Lane
  <2>1. o = IF (l \div d) % 2 = 0 THEN l + d ELSE l - d
    BY DEF Xor
  <2>2. /\ r(l) < d => (l \div d) % 2 = 0
        /\ r(l) >= d => (l \div d) % 2 = 1
    BY <1>1, HalfRemainder
  <2> HIDE DEF o, c
  <2>3. ASSUME NEW s \in 0 .. 2*d-1, NEW a \in Nat, a = (2*d) * c + s PROVE r(a) = s
    <3>1. a \div (2*d) \in Nat /\ r(a) \in 0 .. 2*d-1 /\ a = (2*d) * (a \div (2*d)) + r(a)
      BY <1>1, Division
    <3> DEFINE e == a \div (2*d)
               N == 2*d
               t == r(a)
    <3>2. N * e + t = N * c + s /\ N \in Nat \ {0} /\ e \in Int /\ c \in Int
          /\ t \in 0 .. N-1 /\ s \in 0 .. N-1
      BY <3>1, <2>3, <1>1, <1>2
    <3>3. t = s
      <4> HIDE DEF e, N, t
      <4> QED  BY <3>2, DivisionUnique
    <3> QED  BY <3>3
  <2>4. CASE r(l) < d
    <3>1. o = l + d
      BY <2>4, <2>1, <2>2
    <3>2. o \in Nat /\ o = (2*d) * c + (r(l) + d) /\ r(l) + d \in 0 .. 2*d-1
      BY <3>1, <1>1, <1>2, <2>4
    <3>3. r(o) = r(l) + d
      <4> HIDE DEF r
      <4> QED  BY <3>2, <2>3
    <3>4. o < W
      BY <3>2, <1>3, <1>1, <1>2
    <3> QED  BY <2>4, <3>1, <3>2, <3>3, <3>4, <1>2 DEF Lane
  <2>5. CASE r(l) >= d
    <3>1. o = l - d
      BY <2>5, <2>1, <2>2
    <3>2. o \in Nat /\ o = (2*d) * c + (r(l) - d) /\ r(l) - d \in 0 .. 2*d-1
      BY <3>1, <1>1, <1>2, <2>5
    <3>3. r(o) = r(l) - d
      <4> HIDE DEF r
      <4> QED  BY <3>2, <2>3
    <3>4. o < W
      BY <3>1, <3>2, <1>1
    <3> QED  BY <2>5, <3>1, <3>2, <3>3, <3>4, <1>2 DEF Lane
  <2> QED  BY <2>4, <2>5, <1>2
<1>5. ASSUME NEW m \in Lane
      PROVE  m % d = l % d <=> r(m) = r(l) \/ r(m) = r(o)
  <2>1. m \in Nat
    BY Powers
  <2>2. /\ r(m) \in 0 .. 2*d-1
        /\ r(m) < d => m % d = r(m)
        /\ r(m) >= d => m % d = r(m) - d
    BY <2>1, HalfRemainder
  <2>3. /\ r(l) < d => l % d = r(l)
        /\ r(l) >= d => l % d = r(l) - d
    BY <1>1, HalfRemainder
  <2> HIDE DEF r, o
  <2>4. CASE r(l) < d
    <3>1. l % d = r(l) /\ r(o) = r(l) + d
      BY <2>3, <2>4, <1>4
    <3> QED  BY <2>2, <2>4, <3>1, <1>2
  <2>5. CASE r(l) >= d
    <3>1. l % d = r(l) - d /\ r(o) = r(l) - d
      BY <2>3, <2>5, <1>4
    <3> QED  BY <2>2, <2>5, <3>1, <1>2
  <2> QED  BY <2>4, <2>5, <1>2
<1> QED  BY <1>4, <1>5

\* Winning is a strict order of the pairs.
LEMMA WinsOrder ==
  ASSUME NEW x \in Pair, NEW y \in Pair, NEW z \in Pair
  PROVE  /\ ~Wins(x, x)
         /\ ~Wins(x, y) /\ ~Wins(y, z) => ~Wins(x, z)
         /\ Wins(x, y) => ~Wins(y, x)
         /\ ~Wins(x, y) /\ ~Wins(y, x) => x = y
BY DEF Wins, Pair

\* y holds in every lane the best pair of the lanes that agree with it modulo d.
BestModulo(x, y, d) ==
  \A l \in Lane : \E m \in Lane :
    /\ m % d = l % d /\ y[l] = x[m]
    /\ \A k \in Lane : k % d = l % d => ~Wins(x[k], x[m])

LEMMA ExchangeBest ==
  ASSUME TopKAssumption, NEW x \in [Lane -> Pair], NEW y \in [Lane -> Pair],
         NEW d \in Nat \ {0}, NEW q \in Nat, W = (2*d) * q, BestModulo(x, y, 2*d)
  PROVE  Exchange(y, d) \in [Lane -> Pair] /\ BestModulo(x, Exchange(y, d), d)
<1>1. ASSUME NEW l \in Lane
      PROVE  /\ Exchange(y, d)[l] \in Pair
             /\ \E m \in Lane :
                  /\ m % d = l % d /\ Exchange(y, d)[l] = x[m]
                  /\ \A k \in Lane : k % d = l % d => ~Wins(x[k], x[m])
  <2> DEFINE o == Xor(l, d)
  <2>1. o \in Lane /\ \A k \in Lane : k % d = l % d <=> k % (2*d) = l % (2*d) \/ k % (2*d) = o % (2*d)
    BY PartnersSplit
  <2> HIDE DEF o
  <2>2. PICK m \in Lane : /\ m % (2*d) = l % (2*d) /\ y[l] = x[m]
                          /\ \A k \in Lane : k % (2*d) = l % (2*d) => ~Wins(x[k], x[m])
    BY DEF BestModulo
  <2>3. PICK n \in Lane : /\ n % (2*d) = o % (2*d) /\ y[o] = x[n]
                          /\ \A k \in Lane : k % (2*d) = o % (2*d) => ~Wins(x[k], x[n])
    BY <2>1 DEF BestModulo
  <2>4. Exchange(y, d)[l] = IF Wins(y[o], y[l]) THEN y[o] ELSE y[l]
    BY DEF Exchange, o
  <2>5. x[m] \in Pair /\ x[n] \in Pair /\ \A k \in Lane : x[k] \in Pair
    OBVIOUS
  <2>6. m % d = l % d /\ n % d = l % d
    BY <2>1, <2>2, <2>3
  <2>7. CASE Wins(x[n], x[m])
    <3>1. Exchange(y, d)[l] = x[n]
      BY <2>2, <2>3, <2>4, <2>7
    <3>2. ASSUME NEW k \in Lane, k % d = l % d PROVE ~Wins(x[k], x[n])
      <4>1. CASE k % (2*d) = o % (2*d)
        BY <4>1, <2>3
      <4>2. CASE k % (2*d) = l % (2*d)
        <5>1. ~Wins(x[k], x[m]) /\ ~Wins(x[m], x[n])
          BY <4>2, <2>2, <2>5, <2>7, WinsOrder
        <5> QED  BY <5>1, <2>5, WinsOrder
      <4> QED  BY <2>1, <3>2, <4>1, <4>2
    <3> QED  BY <2>5, <2>6, <3>1, <3>2
  <2>8. CASE ~Wins(x[n], x[m])
    <3>1. Exchange(y, d)[l] = x[m]
      BY <2>2, <2>3, <2>4, <2>8
    <3>2. ASSUME NEW k \in Lane, k % d = l % d PROVE ~Wins(x[k], x[m])
      <4>1. CASE k % (2*d) = l % (2*d)
        BY <4>1, <2>2
      <4>2. CASE k % (2*d) = o % (2*d)
        <5>1. ~Wins(x[k], x[n])
          BY <4>2, <2>3
        <5> QED  BY <5>1, <2>5, <2>8, WinsOrder
      <4> QED  BY <2>1, <3>2, <4>1, <4>2
    <3> QED  BY <2>5, <2>6, <3>1, <3>2
  <2> QED  BY <2>7, <2>8
<1>2. Exchange(y, d) = [l \in Lane |-> Exchange(y, d)[l]]
  BY DEF Exchange
<1>3. Exchange(y, d) \in [Lane -> Pair]
  BY <1>1, <1>2
<1> QED  BY <1>1, <1>3 DEF BestModulo

\* The butterfly leaves the best pair of all lanes in every lane.
LEMMA ArgmaxBest ==
  ASSUME TopKAssumption, NEW x \in [Lane -> Pair], NEW l \in Lane
  PROVE  \E m \in Lane : Argmax(x)[l] = x[m] /\ \A k \in Lane : ~Wins(x[k], x[m])
<1> DEFINE S == [Lane -> Pair]
           off(n) == Pow2[LogW - n]
           next(y, n) == IF Exchange(y, off(n)) \in S THEN Exchange(y, off(n)) ELSE x
           step == [p \in (1 .. LogW) \X S |-> next(p[2], p[1])]
           F(f) == [n \in 0 .. LogW |-> IF n = 0 THEN x ELSE Exchange(f[n-1], off(n))]
           P == CHOOSE f : f = F(f)
<1>1. LogW \in Nat /\ x \in S
  BY Powers
<1>2. step \in [(1 .. LogW) \X S -> S]
  <2>1. \A p \in (1 .. LogW) \X S : next(p[2], p[1]) \in S
    <3> HIDE DEF S
    <3> QED  BY <1>1
  <2> HIDE DEF S, next
  <2> QED  BY <2>1
<1>3. PICK f \in [0 .. LogW -> S] : Follows(f, LogW, x, step)
  <2> HIDE DEF step, S
  <2> QED  BY <1>1, <1>2, RecursionExists
<1> HIDE DEF S
<1>4. f[0] = x /\ \A n \in 1 .. LogW : f[n] = next(f[n-1], n)
  <2>1. f[0] = x
    <3>1. 0 \in 0 .. LogW
      BY <1>1
    <3> HIDE DEF step
    <3> QED  BY <3>1, <1>3 DEF Follows
  <2>2. ASSUME NEW n \in 1 .. LogW PROVE f[n] = next(f[n-1], n)
    <3>1. n \in 0 .. LogW /\ n # 0 /\ n-1 \in 0 .. LogW
      BY <1>1
    <3>2. f[n] = step[<<n, f[n-1]>>]
      <4> HIDE DEF step, next
      <4> QED  BY <3>1, <1>3 DEF Follows
    <3>3. <<n, f[n-1]>> \in (1 .. LogW) \X S
      BY <3>1, <1>3
    <3> HIDE DEF next
    <3> QED  BY <3>2, <3>3
  <2> HIDE DEF next, step
  <2> QED  BY <2>1, <2>2
<1> HIDE DEF step
<1> DEFINE d(n) == Pow2[LogW - n]
           Good == {n \in 0 .. LogW : BestModulo(x, f[n], d(n))}
\* What each step does to the lanes that a lane has heard of.
<1>5. ASSUME NEW n \in 1 .. LogW, n-1 \in Good
      PROVE  BestModulo(x, f[n], d(n)) /\ f[n] = Exchange(f[n-1], off(n))
  <2>1. n-1 \in 0 .. LogW /\ LogW - n \in 0 .. LogW /\ LogW - (n-1) \in 1 .. LogW
        /\ LogW - (n-1) - 1 = LogW - n
    BY <1>1
  <2>2. d(n-1) = 2 * d(n) /\ d(n) \in Nat \ {0}
    BY <2>1, Powers
  <2>3. W = d(n-1) * Pow2[n-1] /\ Pow2[n-1] \in Nat
    BY <2>1, PowersDivide, Powers
  <2>4. BestModulo(x, f[n-1], 2 * d(n)) /\ f[n-1] \in [Lane -> Pair]
    BY <1>5, <2>1, <2>2, <1>3 DEF S
  <2>5. Exchange(f[n-1], d(n)) \in [Lane -> Pair] /\ BestModulo(x, Exchange(f[n-1], d(n)), d(n))
    <3> HIDE DEF d
    <3> QED  BY <2>2, <2>3, <2>4, ExchangeBest
  <2> QED  BY <1>4, <2>5 DEF S
<1>6. 0 .. LogW \subseteq Good
  <2>1. ASSUME NEW n \in 0 .. LogW, \A k \in 0 .. n-1 : k \in Good PROVE n \in Good
    <3>1. CASE n = 0
      <4>1. d(n) = W
        BY <3>1, <1>1 DEF W
      <4>2. \A m \in Lane : m % W = m
        <5>1. W \in Nat \ {0} /\ Lane = 0 .. W-1
          BY Powers DEF Lane
        <5> QED  BY <5>1, SmallRemainder
      <4>3. \A m \in Lane : ~Wins(x[m], x[m])
        <5>1. \A m \in Lane : x[m] \in Pair
          OBVIOUS
        <5> QED  BY <5>1, WinsOrder
      <4>4. BestModulo(x, x, W)
        BY <4>2, <4>3 DEF BestModulo
      <4> HIDE DEF d
      <4> QED  BY <3>1, <4>1, <4>4, <1>4
    <3>2. CASE n # 0
      <4>1. n \in 1 .. LogW /\ n-1 \in 0 .. n-1
        BY <3>2
      <4> HIDE DEF d
      <4>2. n-1 \in Good
        BY <4>1, <2>1
      <4> HIDE DEF off, Good
      <4>3. BestModulo(x, f[n], d(n))
        BY <4>1, <4>2, <1>5
      <4> QED  BY <4>3 DEF Good
    <3> QED  BY <3>1, <3>2
  <2> HIDE DEF Good
  <2> QED  BY <2>1, <1>1, IntervalInduction
<1>7. f = F(f)
  <2>1. ASSUME NEW n \in 0 .. LogW PROVE f[n] = IF n = 0 THEN x ELSE Exchange(f[n-1], off(n))
    <3>1. CASE n = 0
      BY <3>1, <1>4
    <3>2. CASE n # 0
      <4>1. n \in 1 .. LogW /\ n-1 \in 0 .. LogW
        BY <3>2, <1>1
      <4>2. n-1 \in Good
        BY <4>1, <1>6
      <4> HIDE DEF off, d, Good
      <4> QED  BY <3>2, <4>1, <4>2, <1>5
    <3> QED  BY <3>1, <3>2
  <2> HIDE DEF off
  <2> QED  BY <2>1
<1>8. P = F(P)
  <2> HIDE DEF F
  <2> QED  BY <1>7
\* The two agree, as they satisfy the same recursion.
<1>9. P[LogW] = f[LogW]
  <2> DEFINE Same == {n \in 0 .. LogW : P[n] = f[n]}
  <2> HIDE DEF P
  <2>1. \A n \in 0 .. LogW : /\ P[n] = IF n = 0 THEN x ELSE Exchange(P[n-1], off(n))
                             /\ f[n] = IF n = 0 THEN x ELSE Exchange(f[n-1], off(n))
    <3> HIDE DEF off
    <3> QED  BY <1>7, <1>8
  <2>2. ASSUME NEW n \in 0 .. LogW, \A k \in 0 .. n-1 : k \in Same PROVE n \in Same
    <3> HIDE DEF off, F
    <3>1. CASE n = 0
      BY <3>1, <2>1
    <3>2. CASE n # 0
      <4>1. n-1 \in 0 .. n-1
        BY <3>2
      <4>2. P[n-1] = f[n-1]
        BY <4>1, <2>2
      <4> QED  BY <3>2, <4>2, <2>1
    <3> QED  BY <3>1, <3>2
  <2>3. 0 .. LogW \subseteq Same
    <3> HIDE DEF Same
    <3> QED  BY <2>2, <1>1, IntervalInduction
  <2> QED  BY <2>3, <1>1
<1>10. Argmax(x) = P[LogW]
  BY DEF Argmax
<1>11. BestModulo(x, f[LogW], 1)
  <2>1. LogW \in 0 .. LogW /\ LogW - LogW = 0
    BY <1>1
  <2>2. d(LogW) = 1
    BY <2>1, Powers
  <2>3. LogW \in Good
    BY <2>1, <1>6
  <2> HIDE DEF d
  <2> QED  BY <2>2, <2>3
<1>12. \A m \in Lane : m % 1 = 0
  <2>1. Lane \subseteq Nat
    BY Powers
  <2> QED  BY <2>1
<1> HIDE DEF P, F
<1>13. PICK m \in Lane : f[LogW][l] = x[m] /\ \A k \in Lane : k % 1 = l % 1 => ~Wins(x[k], x[m])
  BY <1>11 DEF BestModulo
<1> QED  BY <1>9, <1>10, <1>12, <1>13

LEMMA ArgmaxAgrees ==
  ASSUME TopKAssumption, NEW x \in [Lane -> Pair], NEW l \in Lane, NEW k \in Lane
  PROVE  Argmax(x)[l] = Argmax(x)[k]
<1>1. PICK m \in Lane : Argmax(x)[l] = x[m] /\ \A i \in Lane : ~Wins(x[i], x[m])
  BY ArgmaxBest
<1>2. PICK n \in Lane : Argmax(x)[k] = x[n] /\ \A i \in Lane : ~Wins(x[i], x[n])
  BY ArgmaxBest
<1>3. x[m] \in Pair /\ x[n] \in Pair /\ ~Wins(x[n], x[m]) /\ ~Wins(x[m], x[n])
  BY <1>1, <1>2
<1> QED  BY <1>1, <1>2, <1>3, WinsOrder

-----------------------------------------------------------------------------
(***************************************************************************)
(* A round of masked_topk.  Candidate i of cand has the id i.              *)
(***************************************************************************)
CandPair(cand, i) == [v |-> cand[i].v, id |-> i]

Candidates(cand, n) ==
  \A i \in 0 .. n-1 : cand[i].id = i /\ cand[i].v \in Int /\ cand[i].valid \in BOOLEAN

\* Those that may be chosen.
Open(cand, n, taken) == {i \in (0 .. n-1) \ taken : cand[i].valid /\ cand[i].v > NegInf}

NoPair == [v |-> NegInf, id |-> NoId]

\* b is the best of the candidates S, or no candidate.
BestAmong(cand, S, b) ==
  IF S = {} THEN b = NoPair
  ELSE \E i \in S : b = CandPair(cand, i) /\ \A k \in S : ~Wins(CandPair(cand, k), b)

LEMMA LaneBestIs ==
  ASSUME TopKAssumption, NEW n \in Nat, NEW cand, Candidates(cand, n), NEW taken, NEW l \in Lane
  PROVE  BestAmong(cand, {i \in Open(cand, n, taken) : i % W = l}, LaneBest(cand, n, taken, l))
<1> DEFINE Visit(b, i) ==
             IF /\ (i-1) % W = l
                /\ cand[i-1].valid /\ cand[i-1].id \notin taken
                /\ Wins(cand[i-1], b)
             THEN [v |-> cand[i-1].v, id |-> cand[i-1].id] ELSE b
           F(f) == [i \in 0 .. n |-> IF i = 0 THEN NoPair ELSE Visit(f[i-1], i)]
           P == CHOOSE f : f = F(f)
           step == [p \in (1 .. n) \X Pair |-> Visit(p[2], p[1])]
<1>1. NoPair \in Pair
  BY DEF NoPair, Pair, NegInf, NoId
<1>2. \A i \in 1 .. n : i-1 \in 0 .. n-1 /\ cand[i-1].id = i-1 /\ cand[i-1].v \in Int
  BY DEF Candidates
<1>3. \A b \in Pair, i \in 1 .. n : Visit(b, i) \in Pair
  BY <1>2 DEF Pair
<1>4. step \in [(1 .. n) \X Pair -> Pair]
  <2> HIDE DEF Visit
  <2> QED  BY <1>3
<1>5. PICK f \in [0 .. n -> Pair] : Follows(f, n, NoPair, step)
  <2> HIDE DEF step
  <2> QED  BY <1>1, <1>4, RecursionExists
<1>6. f = F(f)
  <2>1. ASSUME NEW i \in 0 .. n PROVE f[i] = IF i = 0 THEN NoPair ELSE Visit(f[i-1], i)
    <3>1. f[i] = IF i = 0 THEN NoPair ELSE step[<<i, f[i-1]>>]
      <4> HIDE DEF step
      <4> QED  BY <1>5 DEF Follows
    <3>2. CASE i # 0
      <4>1. i \in 1 .. n /\ i-1 \in 0 .. n
        BY <3>2
      <4>2. <<i, f[i-1]>> \in (1 .. n) \X Pair
        BY <4>1, <1>5
      <4>3. step[<<i, f[i-1]>>] = Visit(f[i-1], i)
        <5> HIDE DEF Visit
        <5> QED  BY <4>2
      <4> HIDE DEF step, Visit
      <4> QED  BY <3>1, <3>2, <4>3
    <3> HIDE DEF step, Visit
    <3> QED  BY <3>1, <3>2
  <2> HIDE DEF step, Visit
  <2> QED  BY <2>1
<1>7. P = F(P)
  <2> HIDE DEF F
  <2> QED  BY <1>6
<1>8. LaneBest(cand, n, taken, l) = P[n]
  BY DEF LaneBest, NoPair
<1> HIDE DEF P
<1> DEFINE Seen(i) == {k \in Open(cand, n, taken) : k < i /\ k % W = l}
           Good == {i \in 0 .. n : BestAmong(cand, Seen(i), P[i])}
<1>9. P[0] = NoPair /\ \A i \in 1 .. n : P[i] = Visit(P[i-1], i)
  <2> HIDE DEF Visit
  <2>1. \A i \in 0 .. n : P[i] = IF i = 0 THEN NoPair ELSE Visit(P[i-1], i)
    BY <1>7
  <2> QED  BY <2>1
<1>10. \A k \in Open(cand, n, taken) :
         /\ k \in 0 .. n-1 /\ cand[k].v \in Int /\ cand[k].v > NegInf /\ cand[k].valid
         /\ CandPair(cand, k) \in Pair
  BY DEF Candidates, Open, CandPair, Pair
<1>11. 0 .. n \subseteq Good
  <2>1. ASSUME NEW i \in 0 .. n, \A k \in 0 .. i-1 : k \in Good PROVE i \in Good
    <3>1. CASE i = 0
      <4>1. Seen(0) = {}
        BY <1>10
      <4> HIDE DEF Seen
      <4> QED  BY <3>1, <4>1, <1>9 DEF BestAmong
    <3>2. CASE i # 0
      <4> DEFINE m == i-1
      <4>1. i \in 1 .. n /\ m \in 0 .. i-1 /\ m \in 0 .. n-1 /\ m + 1 = i
        BY <3>2
      <4> HIDE DEF Seen
      <4>2. BestAmong(cand, Seen(m), P[m])
        BY <4>1, <2>1
      <4> USE DEF Seen
      <4>3. /\ cand[m].id = m /\ cand[m].v \in Int
            /\ P[i] = IF m % W = l /\ cand[m].valid /\ m \notin taken /\ Wins(cand[m], P[m])
                      THEN CandPair(cand, m) ELSE P[m]
        BY <4>1, <1>2, <1>9 DEF CandPair
      <4> HIDE DEF m
      <4>4. \A k \in Seen(m) : CandPair(cand, k) \in Pair
        BY <1>10
      <4>5. Wins(cand[m], P[m]) <=> Wins(CandPair(cand, m), P[m])
        BY <4>3 DEF Wins, CandPair
      <4>6. CandPair(cand, m) \in Pair
        BY <4>3, <4>1 DEF CandPair, Pair
      <4>7. Wins(CandPair(cand, m), NoPair) <=> cand[m].v > NegInf
        BY <4>3, <4>1 DEF Wins, CandPair, NoPair, NegInf, NoId
      <4>8. CASE m % W = l /\ m \in Open(cand, n, taken)
        <5>1. Seen(i) = Seen(m) \cup {m}
          BY <4>8, <4>1, <1>10
        <5>2. cand[m].valid /\ m \notin taken /\ cand[m].v > NegInf
          BY <4>8 DEF Open
        <5> HIDE DEF Seen
        <5>3. CASE Seen(m) = {}
          <6>1. P[m] = NoPair
            BY <5>3, <4>2 DEF BestAmong
          <6>2. P[i] = CandPair(cand, m)
            BY <6>1, <4>3, <4>5, <4>7, <4>8, <5>2
          <6>3. ~Wins(CandPair(cand, m), CandPair(cand, m))
            BY <4>6, WinsOrder
          <6>4. Seen(i) = {m}
            BY <5>1, <5>3
          <6> QED  BY <6>2, <6>3, <6>4 DEF BestAmong
        <5>4. CASE Seen(m) # {}
          <6>1. PICK j \in Seen(m) : P[m] = CandPair(cand, j)
                       /\ \A k \in Seen(m) : ~Wins(CandPair(cand, k), P[m])
            BY <5>4, <4>2 DEF BestAmong
          <6>2. P[m] \in Pair
            BY <6>1, <4>4
          <6>3. CASE Wins(CandPair(cand, m), P[m])
            <7>1. P[i] = CandPair(cand, m)
              BY <6>3, <4>3, <4>5, <4>8, <5>2
            <7>2. ~Wins(P[m], CandPair(cand, m)) /\ ~Wins(CandPair(cand, m), CandPair(cand, m))
              BY <6>3, <6>2, <4>6, WinsOrder
            <7>3. \A k \in Seen(m) : ~Wins(CandPair(cand, k), CandPair(cand, m))
              BY <6>1, <6>2, <4>4, <4>6, <7>2, WinsOrder
            <7> QED  BY <7>1, <7>2, <7>3, <5>1 DEF BestAmong
          <6>4. CASE ~Wins(CandPair(cand, m), P[m])
            <7>1. P[i] = P[m]
              BY <6>4, <4>3, <4>5
            <7> QED  BY <7>1, <6>1, <6>4, <5>1 DEF BestAmong
          <6> QED  BY <6>3, <6>4
        <5>5. BestAmong(cand, Seen(i), P[i])
          BY <5>3, <5>4
        <5> QED  BY <5>5
      <4>9. CASE ~(m % W = l /\ m \in Open(cand, n, taken))
        <5>1. Seen(i) = Seen(m)
          BY <4>9, <4>1, <1>10
        <5>2. P[i] = P[m]
          <6>1. SUFFICES ASSUME m % W = l, cand[m].valid, m \notin taken PROVE ~Wins(cand[m], P[m])
            BY <4>3
          <6>2. ~(cand[m].v > NegInf)
            BY <6>1, <4>9, <4>1 DEF Open
          <6>3. CASE Seen(m) = {}
            <7>1. P[m] = NoPair
              <8> HIDE DEF Seen
              <8> QED  BY <6>3, <4>2 DEF BestAmong
            <7> QED  BY <7>1, <6>2, <4>5, <4>7
          <6>4. CASE Seen(m) # {}
            <7>1. PICK j \in Seen(m) : P[m] = CandPair(cand, j)
              <8> HIDE DEF Seen
              <8> QED  BY <6>4, <4>2 DEF BestAmong
            <7>2. P[m].v \in Int /\ P[m].v > NegInf
              BY <7>1, <1>10 DEF CandPair
            <7> QED  BY <7>2, <6>2, <4>3 DEF Wins, NegInf
          <6> QED  BY <6>3, <6>4
        <5> HIDE DEF Seen
        <5> QED  BY <5>1, <5>2, <4>2
      <4> QED  BY <4>8, <4>9
    <3> QED  BY <3>1, <3>2
  <2> HIDE DEF Good
  <2> QED  BY <2>1, IntervalInduction
<1>12. Seen(n) = {i \in Open(cand, n, taken) : i % W = l}
  BY <1>10
<1>13. BestAmong(cand, Seen(n), P[n])
  <2> HIDE DEF Seen
  <2> QED  BY <1>11
<1> HIDE DEF Seen
<1> QED  BY <1>8, <1>12, <1>13

\* A round adds the best of what is left, in all lanes alike.
AllTaking(s, b) == [l \in Lane |-> Append(s, b)]

LEMMA RoundBest ==
  ASSUME TopKAssumption, NEW n \in Nat, NEW cand, Candidates(cand, n), NEW s,
         NEW held, \A l \in Lane : held[l] = s
  PROVE  \E b : /\ BestAmong(cand, Open(cand, n, IdsOf(s)), b)
                /\ Round(cand, n, held) = AllTaking(s, b)
<1> DEFINE S == Open(cand, n, IdsOf(s))
           Of(l) == {i \in S : i % W = l}
           lane(l) == LaneBest(cand, n, IdsOf(held[l]), l)
           local == [l \in Lane |-> [lane(l) EXCEPT !.id = IF @ < 0 THEN MaxId ELSE @]]
           Last == [v |-> NegInf, id |-> MaxId]
<1>1. \A i \in S : /\ i \in Nat /\ cand[i].v \in Int /\ cand[i].v > NegInf
                   /\ CandPair(cand, i) \in Pair /\ i % W \in Lane
  <2>1. ASSUME NEW i \in S PROVE i \in Nat /\ cand[i].v \in Int /\ cand[i].v > NegInf
    BY DEF Candidates, Open
  <2>2. \A i \in S : CandPair(cand, i) \in Pair
    BY <2>1 DEF CandPair, Pair
  <2>3. \A i \in S : i % W \in Lane
    BY <2>1, Powers, Division DEF Lane
  <2> QED  BY <2>1, <2>2, <2>3
<1>2. ASSUME NEW l \in Lane
      PROVE  /\ local[l] \in Pair
             /\ Of(l) = {} => local[l] = Last
             /\ Of(l) # {} => \E i \in Of(l) : /\ local[l] = CandPair(cand, i)
                                 /\ \A k \in Of(l) : ~Wins(CandPair(cand, k), local[l])
  <2>1. BestAmong(cand, Of(l), lane(l))
    <3>1. held[l] = s
      OBVIOUS
    <3> QED  BY <3>1, LaneBestIs
  <2>2. local[l] = [lane(l) EXCEPT !.id = IF @ < 0 THEN MaxId ELSE @]
    OBVIOUS
  <2> HIDE DEF lane, local, Of
  <2>3. CASE Of(l) = {}
    <3>1. lane(l) = NoPair
      BY <2>1, <2>3 DEF BestAmong
    <3>2. local[l] = Last
      BY <3>1, <2>2 DEF NoPair, NoId
    <3> QED  BY <2>3, <3>2 DEF Pair, NegInf, MaxId
  <2>4. CASE Of(l) # {}
    <3>1. PICK i \in Of(l) : lane(l) = CandPair(cand, i) /\ \A k \in Of(l) : ~Wins(CandPair(cand, k), lane(l))
      BY <2>1, <2>4 DEF BestAmong
    <3>2. i \in Nat /\ CandPair(cand, i) \in Pair
      BY <3>1, <1>1 DEF Of
    <3>3. local[l] = lane(l)
      BY <3>1, <3>2, <2>2 DEF CandPair
    <3> QED  BY <2>4, <3>1, <3>2, <3>3
  <2> QED  BY <2>3, <2>4
<1>3. local \in [Lane -> Pair]
  <2>1. local = [l \in Lane |-> local[l]]
    OBVIOUS
  <2> HIDE DEF local
  <2> QED  BY <1>2, <2>1
<1> DEFINE win == Argmax(local)
           b == Emitted(win[0])
<1>4. 0 \in Lane
  BY Powers
<1> HIDE DEF local
<1>5. \A l \in Lane : win[l] = win[0]
  BY <1>3, <1>4, ArgmaxAgrees
<1>6. PICK m \in Lane : win[0] = local[m] /\ \A k \in Lane : ~Wins(local[k], local[m])
  BY <1>3, <1>4, ArgmaxBest
<1> HIDE DEF win
<1>7. BestAmong(cand, S, b)
  <2>1. CASE S = {}
    <3>1. Of(m) = {}
      BY <2>1
    <3>2. win[0] = Last
      <4> HIDE DEF Of
      <4> QED  BY <3>1, <1>2, <1>6
    <3>3. b = NoPair
      BY <3>2 DEF Emitted, NoPair
    <3> QED  BY <2>1, <3>3 DEF BestAmong
  <2>2. CASE S # {}
    <3>1. ASSUME NEW k \in S
          PROVE  k % W \in Lane /\ local[k % W].v > NegInf /\ local[k % W].v \in Int
                 /\ ~Wins(CandPair(cand, k), local[k % W]) /\ CandPair(cand, k) \in Pair
      <4>1. k % W \in Lane /\ k \in Of(k % W)
        BY <1>1
      <4>2. PICK i \in Of(k % W) : /\ local[k % W] = CandPair(cand, i)
                                   /\ \A j \in Of(k % W) : ~Wins(CandPair(cand, j), local[k % W])
        <5> HIDE DEF Of
        <5> QED  BY <4>1, <1>2
      <4>3. cand[i].v \in Int /\ cand[i].v > NegInf
        BY <1>1
      <4> QED  BY <4>1, <4>2, <4>3, <1>1 DEF CandPair
    <3>2. local[m] \in Pair
      BY <1>2
    <3>3. local[m].v > NegInf
      <4>1. PICK k \in S : TRUE
        BY <2>2
      <4>2. ~Wins(local[k % W], local[m]) /\ local[k % W].v > NegInf /\ local[k % W].v \in Int
        BY <3>1, <1>6
      <4> QED  BY <4>2, <3>2 DEF Wins, Pair, NegInf
    <3>4. Of(m) # {}
      <4> HIDE DEF Of
      <4>1. CASE Of(m) = {}
        <5>1. local[m].v = NegInf
          BY <4>1, <1>2
        <5> QED  BY <5>1, <3>3 DEF NegInf
      <4> QED  BY <4>1
    <3>5. PICK i \in Of(m) : local[m] = CandPair(cand, i)
      <4> HIDE DEF Of
      <4> QED  BY <3>4, <1>2
    <3>6. i \in S /\ b = local[m]
      <4>1. win[0].v # NegInf
        BY <1>6, <3>3, <3>2 DEF Pair, NegInf
      <4>2. b = [v |-> win[0].v, id |-> win[0].id]
        BY <4>1 DEF Emitted
      <4> QED  BY <4>2, <1>6, <3>5 DEF CandPair
    <3>7. ASSUME NEW k \in S PROVE ~Wins(CandPair(cand, k), b)
      <4>1. /\ ~Wins(CandPair(cand, k), local[k % W]) /\ ~Wins(local[k % W], local[m])
            /\ CandPair(cand, k) \in Pair /\ local[k % W] \in Pair
        BY <3>1, <1>6, <1>2
      <4> QED  BY <4>1, <3>2, <3>6, WinsOrder
    <3> HIDE DEF S, b
    <3> QED  BY <2>2, <3>5, <3>6, <3>7 DEF BestAmong
  <2> QED  BY <2>1, <2>2
<1>8. Round(cand, n, held) = [l \in Lane |-> Append(s, b)]
  <2>1. Round(cand, n, held) = [l \in Lane |-> Append(held[l], Emitted(Argmax(local)[l]))]
    BY DEF Round, local
  <2>2. \A l \in Lane : Append(held[l], Emitted(Argmax(local)[l])) = Append(s, b)
    BY <1>5 DEF win
  <2> HIDE DEF b
  <2> QED  BY <2>1, <2>2
<1> HIDE DEF S, b
<1> QED  BY <1>7, <1>8 DEF S, AllTaking

(***************************************************************************)
(* What the rounds have chosen so far: each entry is beaten by those       *)
(* before it and no other candidate, or there are no more candidates.      *)
(***************************************************************************)
Before(s, k) == {s[j].id : j \in 1 .. k-1}

Ranked(cand, S, s) ==
  \A k \in 1 .. Len(s) :
    IF S \subseteq Before(s, k) THEN s[k] = NoPair
    ELSE /\ s[k].id \in S /\ s[k] = CandPair(cand, s[k].id)
         /\ {j \in S : Wins(CandPair(cand, j), s[k])} = Before(s, k)

LEMMA RankedStep ==
  ASSUME NEW cand, NEW S, \A i \in S : CandPair(cand, i) \in Pair,
         NEW s \in Seq(Pair), Ranked(cand, S, s), NEW b, BestAmong(cand, S \ IdsOf(s), b), NoPair \in Pair
  PROVE  Append(s, b) \in Seq(Pair) /\ Ranked(cand, S, Append(s, b))
<1> DEFINE t == Append(s, b)
           n == Len(s)
<1>1. n \in Nat /\ b \in Pair
  BY DEF BestAmong
<1>2. t \in Seq(Pair) /\ Len(t) = n + 1 /\ t[n+1] = b /\ \A j \in 1 .. n : t[j] = s[j]
  BY <1>1
<1> HIDE DEF t
<1>3. \A k \in 1 .. n+1 : Before(t, k) = Before(s, k)
  <2>1. ASSUME NEW k \in 1 .. n+1 PROVE Before(t, k) = Before(s, k)
    <3>1. \A j \in 1 .. k-1 : t[j] = s[j]
      BY <1>1, <1>2
    <3> QED  BY <3>1 DEF Before
  <2> QED  BY <2>1
<1>4. Before(s, n+1) = IdsOf(s)
  BY <1>1 DEF Before, IdsOf
<1>5. ASSUME S \subseteq IdsOf(s) PROVE b = NoPair
  BY <1>5 DEF BestAmong
<1>6. ASSUME ~(S \subseteq IdsOf(s))
      PROVE  /\ b.id \in S /\ b = CandPair(cand, b.id)
             /\ {j \in S : Wins(CandPair(cand, j), b)} = IdsOf(s)
  <2>1. PICK i \in S \ IdsOf(s) : b = CandPair(cand, i) /\ \A k \in S \ IdsOf(s) : ~Wins(CandPair(cand, k), b)
    BY <1>6 DEF BestAmong
  <2>2. b.id = i
    BY <2>1 DEF CandPair
  <2>3. ASSUME NEW j \in IdsOf(s) PROVE j \in S /\ Wins(CandPair(cand, j), b)
    <3>1. PICK k \in 1 .. n : s[k].id = j
      BY DEF IdsOf
    <3>2. Before(s, k) \subseteq IdsOf(s)
      BY <1>1 DEF Before, IdsOf
    <3>3. ~(S \subseteq Before(s, k))
      BY <2>1, <3>2
    <3>4. /\ j \in S /\ s[k] = CandPair(cand, j)
          /\ {m \in S : Wins(CandPair(cand, m), s[k])} = Before(s, k)
      BY <3>1, <3>3 DEF Ranked
    <3>5. ~Wins(b, CandPair(cand, j))
      BY <3>2, <3>4, <2>1
    <3>6. CandPair(cand, j) # b
      BY <2>1, <2>2 DEF CandPair
    <3>7. CandPair(cand, j) \in Pair
      BY <3>4
    <3> QED  BY <3>4, <3>5, <3>6, <3>7, <1>1, WinsOrder
  <2> QED  BY <2>1, <2>2, <2>3
<1>7. ASSUME NEW k \in 1 .. n+1
      PROVE  IF S \subseteq Before(t, k) THEN t[k] = NoPair
             ELSE /\ t[k].id \in S /\ t[k] = CandPair(cand, t[k].id)
                  /\ {j \in S : Wins(CandPair(cand, j), t[k])} = Before(t, k)
  <2>1. CASE k = n+1
    BY <2>1, <1>2, <1>3, <1>4, <1>5, <1>6
  <2>2. CASE k # n+1
    <3>1. k \in 1 .. n /\ t[k] = s[k] /\ Before(t, k) = Before(s, k)
      BY <2>2, <1>1, <1>2, <1>3
    <3> QED  BY <3>1 DEF Ranked
  <2> QED  BY <2>1, <2>2
<1>8. Ranked(cand, S, t)
  BY <1>2, <1>7 DEF Ranked
<1> QED  BY <1>2, <1>8 DEF t

LEMMA RankedCounts ==
  ASSUME NEW cand, NEW S, IsFiniteSet(S), \A i \in S : CandPair(cand, i) \in Pair,
         NEW s \in Seq(Pair), Ranked(cand, S, s)
  PROVE  /\ \A k \in 1 .. Len(s) :
              IF k <= Cardinality(S)
              THEN /\ s[k].id \in S /\ s[k] = CandPair(cand, s[k].id)
                   /\ Cardinality({j \in S : Wins(CandPair(cand, j), s[k])}) = k-1
              ELSE s[k] = NoPair
         /\ Len(s) <= Cardinality(S) => IdsOf(s) \subseteq S /\ Cardinality(IdsOf(s)) = Len(s)
<1> DEFINE n == Len(s)
           c == Cardinality(S)
           At(k) == IF S \subseteq Before(s, k) THEN s[k] = NoPair
                    ELSE /\ s[k].id \in S /\ s[k] = CandPair(cand, s[k].id)
                         /\ {j \in S : Wins(CandPair(cand, j), s[k])} = Before(s, k)
           Good == {m \in 0 .. n :
                      /\ IsFiniteSet(Before(s, m+1))
                      /\ m <= c => Before(s, m+1) \subseteq S /\ Cardinality(Before(s, m+1)) = m
                      /\ m >= c => S \subseteq Before(s, m+1)}
<1>1. n \in Nat /\ c \in Nat
  BY FS_CardinalityType
<1>2. \A k \in 1 .. n : At(k)
  BY DEF Ranked
<1>3. ASSUME NEW m \in 0 .. n, \A k \in 0 .. m-1 : k \in Good PROVE m \in Good
  <2>1. CASE m = 0
    <3>1. Before(s, 1) = {}
      BY DEF Before
    <3>2. c = 0 => S = {}
      BY FS_EmptySet
    <3> QED  BY <2>1, <3>1, <3>2, <1>1, FS_EmptySet
  <2>2. CASE m # 0
    <3>1. m \in 1 .. n /\ m-1 \in 0 .. m-1 /\ m-1+1 = m
      BY <2>2, <1>1
    <3>2. /\ IsFiniteSet(Before(s, m))
          /\ m-1 <= c => Before(s, m) \subseteq S /\ Cardinality(Before(s, m)) = m-1
          /\ m-1 >= c => S \subseteq Before(s, m)
      BY <3>1, <1>3
    <3>3. Before(s, m+1) = Before(s, m) \cup {s[m].id}
      <4>1. 1 .. m+1-1 = (1 .. m-1) \cup {m}
        BY <3>1
      <4> QED  BY <4>1 DEF Before
    <3>4. IsFiniteSet(Before(s, m+1))
      <4>1. IsFiniteSet(Before(s, m))
        BY <3>2
      <4>2. IsFiniteSet(Before(s, m) \cup {s[m].id})
        BY <4>1, FS_AddElement
      <4> QED  BY <3>3, <4>2
    <3>5. CASE m <= c
      <4>1. Before(s, m) \subseteq S /\ Cardinality(Before(s, m)) = m-1
        BY <3>5, <3>1, <3>2, <1>1
      <4>2. ~(S \subseteq Before(s, m))
        <5>1. CASE S = Before(s, m)
          BY <5>1, <4>1, <3>5, <3>1, <1>1
        <5> QED  BY <5>1, <4>1
      <4>3. s[m].id \in S /\ s[m] = CandPair(cand, s[m].id)
            /\ {j \in S : Wins(CandPair(cand, j), s[m])} = Before(s, m)
        BY <4>2, <3>1, <1>2
      <4>4. s[m].id \notin Before(s, m)
        <5>1. ~Wins(s[m], s[m])
          <6>1. s[m] \in Pair
            BY <4>3
          <6> QED  BY <6>1, WinsOrder
        <5> QED  BY <5>1, <4>3
      <4>5. Cardinality(Before(s, m+1)) = m
        BY <4>4, <4>1, <3>2, <3>3, <3>1, FS_AddElement
      <4>6. Before(s, m+1) \subseteq S
        BY <4>1, <4>3, <3>3
      <4>7. m >= c => S = Before(s, m+1)
        <5>1. m >= c => m = c
          BY <3>5, <3>1, <1>1
        <5> QED  BY <5>1, <4>5, <4>6, FS_Subset
      <4> QED  BY <3>4, <4>5, <4>6, <4>7
    <3>6. CASE ~(m <= c)
      <4>1. m-1 >= c
        BY <3>6, <3>1, <1>1
      <4> QED  BY <4>1, <3>6, <3>2, <3>3, <3>4
    <3> QED  BY <3>5, <3>6
  <2> QED  BY <2>1, <2>2
<1>4. 0 .. n \subseteq Good
  <2> HIDE DEF Good
  <2> QED  BY <1>1, <1>3, IntervalInduction
<1>5. ASSUME NEW k \in 1 .. n
      PROVE  IF k <= c
             THEN /\ s[k].id \in S /\ s[k] = CandPair(cand, s[k].id)
                  /\ Cardinality({j \in S : Wins(CandPair(cand, j), s[k])}) = k-1
             ELSE s[k] = NoPair
  <2>1. k-1 \in 0 .. n /\ k-1+1 = k
    BY <1>1
  <2>2. /\ k-1 <= c => Before(s, k) \subseteq S /\ Cardinality(Before(s, k)) = k-1
        /\ k-1 >= c => S \subseteq Before(s, k)
    BY <1>4, <2>1
  <2>3. CASE k <= c
    <3>1. Before(s, k) \subseteq S /\ Cardinality(Before(s, k)) = k-1 /\ k-1 # c
      BY <2>2, <2>3, <1>1
    <3>2. ~(S \subseteq Before(s, k))
      <4>1. CASE S = Before(s, k)
        BY <4>1, <3>1
      <4> QED  BY <4>1, <3>1
    <3> QED  BY <2>3, <3>1, <3>2, <1>2
  <2>4. CASE ~(k <= c)
    <3>1. S \subseteq Before(s, k)
      BY <2>2, <2>4, <1>1
    <3> QED  BY <2>4, <3>1, <1>2
  <2> QED  BY <2>3, <2>4
<1>6. Before(s, n+1) = IdsOf(s)
  BY <1>1 DEF Before, IdsOf
<1>7. n <= c => IdsOf(s) \subseteq S /\ Cardinality(IdsOf(s)) = n
  <2>1. n \in Good
    BY <1>1, <1>4
  <2> QED  BY <2>1, <1>6
<1> QED  BY <1>5, <1>7

-----------------------------------------------------------------------------
(***************************************************************************)
(* The router.                                                             *)
(***************************************************************************)
RouteAssumed == TopKAssumption /\ RouteAssumption

Groups == 0 .. n_group-1

ArgsInv ==
  /\ n_group \in 1 .. E /\ E % n_group = 0
  /\ topk_group \in 1 .. n_group
  /\ K \in Ks
  /\ biased \in [Expert -> Int]
  /\ \A e, d \in Expert : biased[e] > NegInf /\ biased[e] + biased[d] > NegInf

LEMMA GroupSizes ==
  ASSUME RouteAssumed, ArgsInv
  PROVE  /\ n_group \in Nat \ {0} /\ epg \in Nat \ {0} /\ E \in Nat /\ E = n_group * epg
         /\ topk_group \in Nat \ {0} /\ K \in Nat \ {0}
         /\ \A e \in Expert : e \div epg \in Groups
         /\ \A g \in Groups : \A j \in 0 .. epg-1 : g * epg + j \in Expert
<1>1. E \in Nat \ {0} /\ n_group \in Nat \ {0} /\ E % n_group = 0 /\ Ks \subseteq 1 .. E
  BY DEF RouteAssumed, RouteAssumption, ArgsInv
<1>2. epg \in Nat /\ E = n_group * epg
  <2>1. E \div n_group \in Nat /\ E = n_group * (E \div n_group) + (E % n_group)
    BY <1>1, Division
  <2> QED  BY <2>1, <1>1 DEF epg
<1>3. epg \in Nat \ {0}
  BY <1>1, <1>2
<1> HIDE DEF epg
<1>4. \A e \in Expert : e \div epg \in Groups
  BY <1>1, <1>2, <1>3, RowAndColumn DEF Expert, Groups
<1>5. \A g \in Groups : \A j \in 0 .. epg-1 : g * epg + j \in Expert
  BY <1>1, <1>2, <1>3, RowMajor DEF Expert, Groups
<1> QED  BY <1>1, <1>2, <1>3, <1>4, <1>5 DEF ArgsInv

\* The running pair t holds the best two of the first j values.
BestTwo(val, j, t) ==
  \/ j = 0 /\ t = <<NegInf, NegInf>>
  \/ \E p \in 1 .. j :
       /\ t[1] = val[p] /\ \A i \in 1 .. j : val[i] <= t[1]
       /\ \/ j = 1 /\ t[2] = NegInf
          \/ \E q \in (1 .. j) \ {p} : t[2] = val[q] /\ \A i \in (1 .. j) \ {p} : val[i] <= t[2]

LEMMA BestTwoStep ==
  ASSUME NEW n \in Nat, NEW val \in [1 .. n -> Int], \A i \in 1 .. n : val[i] > NegInf,
         NEW j \in 1 .. n, NEW t \in Int \X Int, BestTwo(val, j-1, t)
  PROVE  BestTwo(val, j, IF val[j] > t[1] THEN <<val[j], t[1]>>
                         ELSE IF val[j] > t[2] THEN <<t[1], val[j]>> ELSE t)
<1> DEFINE v == val[j]
           u == IF v > t[1] THEN <<v, t[1]>> ELSE IF v > t[2] THEN <<t[1], v>> ELSE t
<1>1. v \in Int /\ v > NegInf /\ NegInf \in Int /\ t[1] \in Int /\ t[2] \in Int
      /\ t = <<t[1], t[2]>> /\ \A i \in 1 .. n : val[i] \in Int
  BY DEF NegInf
<1>2. CASE j = 1
  <2>1. t[1] = NegInf
    BY <1>2 DEF BestTwo
  <2>2. u = <<v, NegInf>>
    BY <2>1, <1>1
  <2> QED  BY <1>1, <1>2, <2>2 DEF BestTwo
<1>3. CASE j # 1
  <2> DEFINE m == j-1
  <2>1. m \in 1 .. n /\ j = m + 1 /\ m # 0 /\ 1 .. j = (1 .. m) \cup {j} /\ j \notin 1 .. m
    BY <1>3
  <2> HIDE DEF m
  <2>2. PICK p \in 1 .. m :
          /\ t[1] = val[p] /\ \A i \in 1 .. m : val[i] <= t[1]
          /\ \/ m = 1 /\ t[2] = NegInf
             \/ \E q \in (1 .. m) \ {p} : t[2] = val[q] /\ \A i \in (1 .. m) \ {p} : val[i] <= t[2]
    <3>1. BestTwo(val, m, t)
      BY DEF m
    <3> QED  BY <3>1, <2>1 DEF BestTwo
  <2>3. p \in 1 .. j /\ p # j
    BY <2>1
  <2>4. CASE v > t[1]
    <3>1. u = <<v, t[1]>>
      BY <2>4
    <3>2. \A i \in (1 .. j) \ {j} : val[i] <= t[1]
      BY <2>1, <2>2
    <3>3. \A i \in 1 .. j : val[i] <= v
      <4>1. ASSUME NEW i \in 1 .. m PROVE val[i] <= v
        <5>1. val[i] <= t[1] /\ val[i] \in Int
          BY <2>2, <2>1, <1>1
        <5> QED  BY <5>1, <2>4, <1>1
      <4> QED  BY <4>1, <2>1, <1>1
    <3>4. j \in 1 .. j /\ p \in (1 .. j) \ {j} /\ u[1] = val[j] /\ u[2] = val[p]
      BY <2>2, <2>3, <3>1
    <3> HIDE DEF u, v
    <3>5. BestTwo(val, j, u)
      BY <3>1, <3>2, <3>3, <3>4 DEF BestTwo
    <3> QED  BY <3>5 DEF u, v
  <2>5. CASE ~(v > t[1]) /\ v > t[2]
    <3>1. u = <<t[1], v>>
      BY <2>5
    <3>2. \A i \in 1 .. j : val[i] <= t[1]
      BY <2>1, <2>2, <2>5, <1>1
    <3>3. ASSUME NEW i \in (1 .. j) \ {p} PROVE val[i] <= v
      <4>1. CASE i = j
        BY <4>1, <1>1
      <4>2. CASE i # j
        <5>1. i \in (1 .. m) \ {p}
          BY <4>2, <2>1
        <5>2. m # 1
          BY <5>1, <2>2
        <5>3. val[i] <= t[2] /\ val[i] \in Int
          BY <5>1, <5>2, <2>1, <2>2, <1>1
        <5> QED  BY <5>3, <2>5, <1>1
      <4> QED  BY <4>1, <4>2
    <3>4. j \in (1 .. j) \ {p} /\ u[1] = val[p] /\ u[2] = val[j]
      BY <2>2, <2>3, <3>1
    <3> HIDE DEF u, v
    <3>5. BestTwo(val, j, u)
      BY <2>3, <3>1, <3>2, <3>3, <3>4 DEF BestTwo, v
    <3> QED  BY <3>5 DEF u, v
  <2>6. CASE ~(v > t[1]) /\ ~(v > t[2])
    <3>1. u = t
      BY <2>6
    <3>2. \A i \in 1 .. j : val[i] <= t[1]
      BY <2>1, <2>2, <2>6, <1>1
    <3>3. PICK q \in (1 .. m) \ {p} : t[2] = val[q] /\ \A i \in (1 .. m) \ {p} : val[i] <= t[2]
      BY <2>2, <2>6, <1>1
    <3>4. q \in (1 .. j) \ {p} /\ \A i \in (1 .. j) \ {p} : val[i] <= t[2]
      BY <3>3, <2>1, <2>6, <1>1
    <3> HIDE DEF u, v
    <3>5. BestTwo(val, j, t)
      BY <2>2, <2>3, <3>2, <3>3, <3>4 DEF BestTwo
    <3>6. BestTwo(val, j, u)
      BY <3>1, <3>5
    <3> QED  BY <3>6 DEF u, v
  <2> QED  BY <2>4, <2>5, <2>6
<1> QED  BY <1>2, <1>3

LEMMA TopTwoIs ==
  ASSUME RouteAssumed, ArgsInv, NEW g \in Groups
  PROVE  LET val == [j \in 1 .. epg |-> biased[g*epg + j - 1]]
         IN  /\ val \in [1 .. epg -> Int] /\ \A i \in 1 .. epg : val[i] > NegInf
             /\ TopTwo(g) \in Int \X Int /\ BestTwo(val, epg, TopTwo(g))
<1> DEFINE val == [j \in 1 .. epg |-> biased[g*epg + j - 1]]
           S == Int \X Int
           Taking(t, v) == IF v > t[1] THEN <<v, t[1]>> ELSE IF v > t[2] THEN <<t[1], v>> ELSE t
           F(f) == [j \in 0 .. epg |-> IF j = 0 THEN <<NegInf, NegInf>>
                                       ELSE Taking(f[j-1], biased[g*epg + j - 1])]
           P == CHOOSE f : f = F(f)
           step == [x \in (1 .. epg) \X S |-> Taking(x[2], val[x[1]])]
<1>1. epg \in Nat
  BY GroupSizes
<1>2. \A j \in 1 .. epg : /\ val[j] = biased[g*epg + j - 1]
                          /\ val[j] \in Int /\ val[j] > NegInf
  <2>1. ASSUME NEW j \in 1 .. epg PROVE g*epg + j - 1 \in Expert
    <3>1. j-1 \in 0 .. epg-1
      BY <1>1
    <3>2. g*epg + (j-1) \in Expert
      BY <3>1, GroupSizes
    <3>3. g*epg \in Int /\ j \in Int
      BY <1>1 DEF Groups
    <3>4. g*epg + j - 1 = g*epg + (j-1)
      BY <3>3
    <3> QED  BY <3>2, <3>4
  <2> QED  BY <2>1 DEF ArgsInv
<1>3. \A t \in S, v \in Int : Taking(t, v) \in S
  OBVIOUS
<1>4. <<NegInf, NegInf>> \in S
  BY DEF NegInf
<1>5. step \in [(1 .. epg) \X S -> S]
  <2>1. \A x \in (1 .. epg) \X S : Taking(x[2], val[x[1]]) \in S
    <3> HIDE DEF S, val, Taking
    <3> QED  BY <1>2, <1>3
  <2> HIDE DEF S, val, Taking
  <2> QED  BY <2>1
<1>6. PICK f \in [0 .. epg -> S] : Follows(f, epg, <<NegInf, NegInf>>, step)
  <2> HIDE DEF step, S
  <2> QED  BY <1>1, <1>4, <1>5, RecursionExists
<1>7. \A j \in 0 .. epg : f[j] = IF j = 0 THEN <<NegInf, NegInf>> ELSE Taking(f[j-1], val[j])
  <2>1. ASSUME NEW j \in 0 .. epg
        PROVE  f[j] = IF j = 0 THEN <<NegInf, NegInf>> ELSE Taking(f[j-1], val[j])
    <3>1. f[j] = IF j = 0 THEN <<NegInf, NegInf>> ELSE step[<<j, f[j-1]>>]
      <4> HIDE DEF step
      <4> QED  BY <1>6 DEF Follows
    <3>2. CASE j # 0
      <4>1. j \in 1 .. epg /\ j-1 \in 0 .. epg
        BY <3>2, <1>1
      <4>2. <<j, f[j-1]>> \in (1 .. epg) \X S
        BY <4>1, <1>6
      <4>3. step[<<j, f[j-1]>>] = Taking(f[j-1], val[j])
        <5> HIDE DEF Taking, S, val
        <5> QED  BY <4>2
      <4> HIDE DEF step, Taking
      <4> QED  BY <3>1, <3>2, <4>3
    <3> HIDE DEF step, Taking
    <3> QED  BY <3>1, <3>2
  <2> HIDE DEF Taking
  <2> QED  BY <2>1
<1> HIDE DEF step, S
<1>8. f = F(f)
  <2>1. \A j \in 0 .. epg : f[j] = IF j = 0 THEN <<NegInf, NegInf>> ELSE Taking(f[j-1], biased[g*epg + j - 1])
    <3>1. ASSUME NEW j \in 0 .. epg
          PROVE  f[j] = IF j = 0 THEN <<NegInf, NegInf>> ELSE Taking(f[j-1], biased[g*epg + j - 1])
      <4>1. j # 0 => j \in 1 .. epg
        BY <1>1
      <4>2. j # 0 => val[j] = biased[g*epg + j - 1]
        BY <4>1, <1>2
      <4> HIDE DEF Taking, val
      <4> QED  BY <4>2, <1>7
    <3> HIDE DEF Taking
    <3> QED  BY <3>1
  <2> HIDE DEF Taking
  <2> QED  BY <2>1, <1>6
<1>9. P = F(P)
  <2> HIDE DEF F
  <2> QED  BY <1>8
<1>10. TopTwo(g) = P[epg]
  BY DEF TopTwo
<1> HIDE DEF P
<1> DEFINE Good == {j \in 0 .. epg : P[j] \in Int \X Int /\ BestTwo(val, j, P[j])}
<1>11. 0 .. epg \subseteq Good
  <2>1. ASSUME NEW j \in 0 .. epg, \A k \in 0 .. j-1 : k \in Good PROVE j \in Good
    <3>1. P[j] = IF j = 0 THEN <<NegInf, NegInf>> ELSE Taking(P[j-1], biased[g*epg + j - 1])
      <4> HIDE DEF Taking
      <4> QED  BY <1>9
    <3>2. CASE j = 0
      <4>1. P[0] = <<NegInf, NegInf>>
        <5> HIDE DEF Taking
        <5> QED  BY <3>1, <3>2
      <4>2. <<NegInf, NegInf>> \in Int \X Int
        BY DEF NegInf
      <4>3. BestTwo(val, 0, <<NegInf, NegInf>>)
        <5> HIDE DEF val
        <5> QED  BY DEF BestTwo
      <4>4. j = 0 /\ 0 \in 0 .. epg
        BY <3>2, <1>1
      <4> HIDE DEF val
      <4> QED  BY <4>1, <4>2, <4>3, <4>4
    <3>3. CASE j # 0
      <4>1. j \in 1 .. epg /\ j-1 \in 0 .. j-1
        BY <3>3, <1>1
      <4>2. P[j-1] \in Int \X Int /\ BestTwo(val, j-1, P[j-1])
        <5> HIDE DEF val
        <5> QED  BY <4>1, <2>1
      <4>3. val[j] = biased[g*epg + j - 1] /\ val[j] \in Int
        <5> HIDE DEF val
        <5> QED  BY <4>1, <1>2
      <4>4. P[j] = Taking(P[j-1], val[j])
        <5> HIDE DEF Taking, val
        <5> QED  BY <3>1, <3>3, <4>3
      <4>5. val \in [1 .. epg -> Int] /\ \A i \in 1 .. epg : val[i] > NegInf
        <5>1. val = [i \in 1 .. epg |-> val[i]]
          OBVIOUS
        <5> HIDE DEF val
        <5> QED  BY <5>1, <1>2
      <4> HIDE DEF val
      <4>6. BestTwo(val, j, Taking(P[j-1], val[j]))
        BY <4>1, <4>2, <4>5, <1>1, BestTwoStep
      <4>7. Taking(P[j-1], val[j]) \in Int \X Int
        BY <4>2, <4>3
      <4> HIDE DEF Taking
      <4> QED  BY <4>4, <4>6, <4>7
    <3> QED  BY <3>2, <3>3
  <2> HIDE DEF Good
  <2> QED  BY <2>1, <1>1, IntervalInduction
<1>12. P[epg] \in Int \X Int /\ BestTwo(val, epg, P[epg])
  <2> HIDE DEF val
  <2> QED  BY <1>11, <1>1
<1>13. val \in [1 .. epg -> Int] /\ \A i \in 1 .. epg : val[i] > NegInf
  <2>1. val = [i \in 1 .. epg |-> val[i]]
    OBVIOUS
  <2> HIDE DEF val
  <2> QED  BY <2>1, <1>2
<1> HIDE DEF val
<1>14. TopTwo(g) \in Int \X Int /\ BestTwo(val, epg, TopTwo(g))
  BY <1>10, <1>12
<1> QED  BY <1>13, <1>14 DEF val

LEMMA RankIsWorth ==
  ASSUME RouteAssumed, ArgsInv, NEW g \in Groups
  PROVE  TopTwo(g)[1] + (IF epg > 1 THEN TopTwo(g)[2] ELSE 0) = Worth[g]
<1> DEFINE val == [j \in 1 .. epg |-> biased[g*epg + j - 1]]
           t == TopTwo(g)
<1>1. /\ val \in [1 .. epg -> Int] /\ t \in Int \X Int /\ BestTwo(val, epg, t)
  BY TopTwoIs
<1>2. epg \in Nat \ {0} /\ g \in Nat /\ g*epg \in Nat
  <2>1. epg \in Nat \ {0} /\ g \in Nat
    BY GroupSizes DEF Groups
  <2> QED  BY <2>1
<1>3. \A j \in 1 .. epg : val[j] = biased[g*epg + j - 1]
  OBVIOUS
<1> HIDE DEF val, t
<1>4. PICK p \in 1 .. epg :
        /\ t[1] = val[p] /\ \A i \in 1 .. epg : val[i] <= t[1]
        /\ \/ epg = 1 /\ t[2] = NegInf
           \/ \E q \in (1 .. epg) \ {p} : t[2] = val[q] /\ \A i \in (1 .. epg) \ {p} : val[i] <= t[2]
  BY <1>1, <1>2 DEF BestTwo
<1> DEFINE Sums == {biased[x[1]] + biased[x[2]] :
                      x \in {y \in Members(g) \X Members(g) : y[1] # y[2]}}
<1>5. Worth[g] = IF epg = 1 THEN biased[g] ELSE Max(Sums)
  BY DEF Worth, Groups
<1>6. t[1] \in Int /\ t[2] \in Int
  BY <1>1
<1>7. CASE epg = 1
  <2>1. p = 1 /\ t[1] = val[1]
    BY <1>4, <1>7
  <2>2. val[1] = biased[g*epg + 1 - 1] /\ g*epg + 1 - 1 = g
    BY <1>2, <1>3, <1>7
  <2> HIDE DEF Sums
  <2>3. t[1] + (IF epg > 1 THEN t[2] ELSE 0) = biased[g]
    BY <1>6, <1>7, <2>1, <2>2
  <2> QED  BY <1>5, <1>7, <2>3 DEF t
<1>8. CASE epg # 1
  <2>1. PICK q \in (1 .. epg) \ {p} : t[2] = val[q] /\ \A i \in (1 .. epg) \ {p} : val[i] <= t[2]
    BY <1>4, <1>8
  <2>2. ASSUME NEW e \in Members(g)
        PROVE  e - g*epg + 1 \in 1 .. epg /\ val[e - g*epg + 1] = biased[e] /\ biased[e] \in Int
    <3>1. e \in g*epg .. g*epg + epg-1
      BY DEF Members
    <3>2. e - g*epg + 1 \in 1 .. epg /\ g*epg + (e - g*epg + 1) - 1 = e
      BY <3>1, <1>2
    <3>3. val[e - g*epg + 1] = biased[g*epg + (e - g*epg + 1) - 1]
      BY <3>2, <1>3
    <3>4. val[e - g*epg + 1] \in Int
      BY <3>2, <1>1
    <3> QED  BY <3>2, <3>3, <3>4
  <2>3. ASSUME NEW i \in 1 .. epg PROVE g*epg + i - 1 \in Members(g)
    BY <1>2 DEF Members
  <2>4. t[1] + t[2] \in Sums
    <3> DEFINE x == <<g*epg + p - 1, g*epg + q - 1>>
    <3>1. x \in {y \in Members(g) \X Members(g) : y[1] # y[2]}
      <4>1. g*epg + p - 1 # g*epg + q - 1
        BY <1>2
      <4> QED  BY <4>1, <2>3
    <3>2. t[1] + t[2] = biased[x[1]] + biased[x[2]]
      BY <1>3, <1>4, <2>1
    <3> HIDE DEF x
    <3> QED  BY <3>1, <3>2
  <2>5. ASSUME NEW z \in Sums PROVE t[1] + t[2] >= z /\ z \in Int
    <3>1. PICK y \in Members(g) \X Members(g) : y[1] # y[2] /\ z = biased[y[1]] + biased[y[2]]
      OBVIOUS
    <3> DEFINE d == y[1]
               e == y[2]
               i == d - g*epg + 1
               k == e - g*epg + 1
    <3>2. d \in Members(g) /\ e \in Members(g) /\ d # e /\ z = biased[d] + biased[e]
      BY <3>1
    <3>3. /\ i \in 1 .. epg /\ val[i] = biased[d] /\ biased[d] \in Int
          /\ k \in 1 .. epg /\ val[k] = biased[e] /\ biased[e] \in Int
      <4> HIDE DEF d, e
      <4> QED  BY <3>2, <2>2
    <3>4. i # k
      <4>1. d \in Int /\ e \in Int
        <5> HIDE DEF d, e
        <5> QED  BY <3>2, <1>2 DEF Members
      <4> HIDE DEF d, e
      <4> QED  BY <4>1, <3>2, <1>2
    <3> HIDE DEF d, e, i, k, Sums
    <3>5. CASE i = p
      <4>1. val[i] <= t[1] /\ val[k] <= t[2]
        BY <3>3, <3>4, <3>5, <1>4, <2>1
      <4> QED  BY <4>1, <3>2, <3>3, <1>6
    <3>6. CASE i # p
      <4>1. val[i] <= t[2] /\ val[k] <= t[1]
        BY <3>3, <3>6, <1>4, <2>1
      <4> QED  BY <4>1, <3>2, <3>3, <1>6
    <3> QED  BY <3>5, <3>6
  <2> HIDE DEF Sums
  <2>6. Max(Sums) \in Sums /\ \A z \in Sums : Max(Sums) >= z
    <3>1. \E m \in Sums : \A z \in Sums : m >= z
      BY <2>4, <2>5
    <3> QED  BY <3>1 DEF Max
  <2>7. Max(Sums) = t[1] + t[2]
    <3>1. t[1] + t[2] >= Max(Sums) /\ Max(Sums) \in Int /\ Max(Sums) >= t[1] + t[2]
      BY <2>4, <2>5, <2>6
    <3>2. \A a, b \in Int : a >= b /\ b >= a => a = b
      OBVIOUS
    <3>3. t[1] + t[2] \in Int
      BY <1>6
    <3> QED  BY <3>1, <3>2, <3>3
  <2>8. epg > 1
    BY <1>2, <1>8
  <2>9. t[1] + (IF epg > 1 THEN t[2] ELSE 0) = t[1] + t[2]
    BY <2>8
  <2> QED  BY <1>5, <1>8, <2>7, <2>9 DEF t
<1> QED  BY <1>7, <1>8

\* What a group is worth is no sentinel.
LEMMA WorthIs ==
  ASSUME RouteAssumed, ArgsInv
  PROVE  /\ \A g \in Groups : Worth[g] \in Int /\ Worth[g] > NegInf
         /\ Worth = [g \in Groups |-> Worth[g]]
<1>1. ASSUME NEW g \in Groups PROVE Worth[g] \in Int /\ Worth[g] > NegInf
  <2> DEFINE val == [j \in 1 .. epg |-> biased[g*epg + j - 1]]
             t == TopTwo(g)
  <2>1. /\ val \in [1 .. epg -> Int] /\ \A i \in 1 .. epg : val[i] > NegInf
        /\ t \in Int \X Int /\ BestTwo(val, epg, t)
    BY TopTwoIs
  <2>2. Worth[g] = t[1] + (IF epg > 1 THEN t[2] ELSE 0)
    BY RankIsWorth
  <2>3. epg \in Nat \ {0}
    BY GroupSizes
  <2>4. ASSUME NEW i \in 1 .. epg
        PROVE  g*epg + i - 1 \in Expert /\ val[i] = biased[g*epg + i - 1]
    <3>1. i-1 \in 0 .. epg-1
      BY <2>3
    <3>2. g*epg + (i-1) \in Expert
      BY <3>1, GroupSizes
    <3>3. g*epg \in Int /\ i \in Int
      BY <2>3 DEF Groups
    <3>4. g*epg + i - 1 = g*epg + (i-1)
      BY <3>3
    <3> QED  BY <3>2, <3>4
  <2> HIDE DEF val, t
  <2>5. PICK p \in 1 .. epg :
          /\ t[1] = val[p]
          /\ \/ epg = 1
             \/ \E q \in (1 .. epg) \ {p} : t[2] = val[q]
    BY <2>1, <2>3 DEF BestTwo
  <2>6. CASE epg = 1
    <3>1. Worth[g] = t[1]
      BY <2>1, <2>2, <2>6
    <3> QED  BY <3>1, <2>1, <2>5
  <2>7. CASE epg # 1
    <3>1. PICK q \in (1 .. epg) \ {p} : t[2] = val[q]
      BY <2>5, <2>7
    <3>2. Worth[g] = val[p] + val[q]
      BY <3>1, <2>2, <2>3, <2>5, <2>7
    <3>3. biased[g*epg + p - 1] + biased[g*epg + q - 1] > NegInf
      BY <2>4 DEF ArgsInv
    <3>4. val[p] \in Int /\ val[q] \in Int
      BY <2>1
    <3> QED  BY <3>2, <3>3, <3>4, <2>4
  <2> QED  BY <2>6, <2>7
<1> QED  BY <1>1 DEF Worth, Groups

\* Candidates of the two selections.
GroupCand == [g \in 0 .. n_group-1 |-> [id |-> g, v |-> group_scores[g], valid |-> TRUE]]
ExpertCand == [e \in Expert |-> [id |-> e, v |-> biased[e], valid |-> Surviving(e \div epg)]]

SelectInv ==
  /\ gsel = [l \in Lane |-> gsel[0]] /\ gsel[0] \in Seq(Pair)
  /\ stage = "rank" => gsel[0] = <<>>
  /\ stage # "rank" /\ Grouped => group_scores = Worth
  /\ stage = "groups" => Grouped /\ Len(gsel[0]) < topk_group
  /\ stage \notin {"rank", "groups"} /\ Grouped => Len(gsel[0]) = topk_group
  /\ Ranked(GroupCand, Groups, gsel[0])

ChooseInv ==
  /\ routed = [l \in Lane |-> routed[0]] /\ routed[0] \in Seq(Pair)
  /\ stage \in {"rank", "groups"} => routed[0] = <<>>
  /\ stage = "experts" => Len(routed[0]) < K
  /\ stage \in {"emit", "done"} => Len(routed[0]) = K
  /\ Ranked(ExpertCand, Eligible, routed[0])

WrittenInv ==
  stage = "done" => \A k \in 1 .. K :
    /\ topk_ids[k] = routed[0][k].id
    /\ topk_weights[k][1] = IF topk_ids[k] >= 0 THEN scored[topk_ids[k]] ELSE 0

RouteInv ==
  /\ ArgsInv
  /\ stage \in {"rank", "groups", "experts", "emit", "done"}
  /\ SelectInv /\ ChooseInv /\ WrittenInv

LEMMA RankedNone == ASSUME NEW cand, NEW S PROVE Ranked(cand, S, <<>>)
BY DEF Ranked

\* Ranking goes by ids and values.
LEMMA RankedSame ==
  ASSUME NEW cand, NEW other, NEW S, \A i \in S : CandPair(cand, i) = CandPair(other, i),
         NEW s, Ranked(cand, S, s)
  PROVE  Ranked(other, S, s)
BY DEF Ranked

LEMMA NoPairIsPair == NoPair \in Pair
BY DEF NoPair, Pair, NegInf, NoId

LEMMA RouteInitInv == ASSUME RouteAssumed, RouteInit PROVE RouteInv
<1>1. ArgsInv
  <2>1. PICK b \in [Expert -> Bias] : biased = [e \in Expert |-> scored[e] + b[e]]
    BY DEF RouteInit
  <2>2. scored \in [Expert -> Score]
    BY DEF RouteInit
  <2>3. ASSUME NEW e \in Expert
        PROVE  /\ biased[e] = scored[e] + b[e] /\ scored[e] \in Score /\ b[e] \in Bias
               /\ scored[e] \in Int /\ b[e] \in Int
    <3>1. biased[e] = scored[e] + b[e] /\ scored[e] \in Score /\ b[e] \in Bias
      BY <2>1, <2>2
    <3>2. scored[e] \in Nat /\ b[e] \in Int
      BY <3>1 DEF RouteAssumed, RouteAssumption
    <3>3. scored[e] \in Int
      BY <3>2
    <3> QED  BY <3>1, <3>2, <3>3
  <2>4. biased \in [Expert -> Int]
    BY <2>1, <2>3
  <2>5. ASSUME NEW e \in Expert, NEW d \in Expert
        PROVE  biased[e] > NegInf /\ biased[e] + biased[d] > NegInf
    <3>1. scored[e] + b[e] > NegInf /\ scored[e] + b[e] + scored[d] + b[d] > NegInf
      BY <2>3 DEF RouteAssumed, RouteAssumption
    <3>2. biased[e] + biased[d] = scored[e] + b[e] + scored[d] + b[d]
      BY <2>3
    <3> QED  BY <2>3, <3>1, <3>2
  <2> QED  BY <2>4, <2>5 DEF ArgsInv, RouteInit
<1>2. 0 \in Lane
  BY Powers DEF RouteAssumed
<1>3. gsel[0] = <<>> /\ routed[0] = <<>>
  BY <1>2 DEF RouteInit
<1>4. <<>> \in Seq(Pair)
  OBVIOUS
<1> QED  BY <1>1, <1>3, <1>4, RankedNone DEF RouteInit, RouteInv, SelectInv, ChooseInv, WrittenInv

\* Once topk_group groups have been chosen, they are those that fewer beat.
LEMMA SurvivorsAre ==
  ASSUME RouteAssumed, RouteInv, stage \notin {"rank", "groups"}, Grouped, NEW g \in Groups
  PROVE  Surviving(g) <=>
           Cardinality({h \in 0 .. n_group-1 : Beats(Worth, h, g)}) < topk_group
<1> DEFINE s == gsel[0]
           T == IdsOf(s)
           beating(x) == {h \in Groups : Wins(CandPair(GroupCand, h), CandPair(GroupCand, x))}
<1>1. ArgsInv /\ s \in Seq(Pair) /\ Len(s) = topk_group /\ group_scores = Worth
      /\ Ranked(GroupCand, Groups, s)
  BY DEF RouteInv, SelectInv
<1>2. \A h \in Groups : /\ CandPair(GroupCand, h) = [v |-> Worth[h], id |-> h]
                        /\ Worth[h] \in Int /\ CandPair(GroupCand, h) \in Pair
  <2>1. \A h \in Groups : GroupCand[h].v = Worth[h] /\ Worth[h] \in Int /\ h \in Int
    BY <1>1, WorthIs DEF GroupCand, Groups
  <2> QED  BY <2>1 DEF CandPair, Pair
<1>3. beating(g) = {h \in 0 .. n_group-1 : Beats(Worth, h, g)}
  BY <1>2 DEF Beats, Wins, Groups
<1>4. IsFiniteSet(Groups) /\ Cardinality(Groups) = n_group
      /\ n_group \in Nat \ {0} /\ topk_group \in Nat \ {0} /\ topk_group <= n_group
  <2>1. n_group \in Nat \ {0} /\ topk_group \in Nat \ {0} /\ topk_group <= n_group
    BY <1>1, GroupSizes DEF ArgsInv
  <2> QED  BY <2>1, FS_Interval DEF Groups
<1> HIDE DEF s
<1>5. /\ \A k \in 1 .. Len(s) :
           /\ s[k].id \in Groups /\ s[k] = CandPair(GroupCand, s[k].id)
           /\ Cardinality({j \in Groups : Wins(CandPair(GroupCand, j), s[k])}) = k-1
      /\ T \subseteq Groups /\ Cardinality(T) = topk_group
  <2>1. Len(s) <= Cardinality(Groups) /\ \A k \in 1 .. Len(s) : k <= Cardinality(Groups)
    BY <1>1, <1>4
  <2>2. \A i \in Groups : CandPair(GroupCand, i) \in Pair
    BY <1>2
  <2>3. /\ \A k \in 1 .. Len(s) :
              IF k <= Cardinality(Groups)
              THEN /\ s[k].id \in Groups /\ s[k] = CandPair(GroupCand, s[k].id)
                   /\ Cardinality({j \in Groups : Wins(CandPair(GroupCand, j), s[k])}) = k-1
              ELSE s[k] = NoPair
        /\ Len(s) <= Cardinality(Groups) => IdsOf(s) \subseteq Groups /\ Cardinality(IdsOf(s)) = Len(s)
    BY <2>2, <1>1, <1>4, RankedCounts
  <2> QED  BY <2>1, <2>3, <1>1
<1>6. IsFiniteSet(beating(g)) /\ Cardinality(beating(g)) \in Nat
  <2>1. beating(g) \in SUBSET Groups
    OBVIOUS
  <2> QED  BY <2>1, <1>4, FS_Subset, FS_CardinalityType
<1>7. CASE g \in T
  <2>1. PICK k \in 1 .. Len(s) : s[k].id = g
    BY <1>7, <1>1 DEF IdsOf
  <2>2. Cardinality(beating(g)) = k-1
    BY <2>1, <1>5
  <2>3. Cardinality(beating(g)) < topk_group
    BY <2>2, <1>1, <1>4
  <2> QED  BY <2>3, <1>3, <1>7 DEF Surviving, s
<1>8. CASE g \notin T
  <2>1. ASSUME NEW h \in T PROVE h \in beating(g)
    <3>1. PICK k \in 1 .. Len(s) : s[k].id = h
      BY <1>1 DEF IdsOf
    <3>2. Before(s, k) \subseteq T
      BY <1>1 DEF Before, IdsOf
    <3>3. /\ h \in Groups /\ s[k] = CandPair(GroupCand, h)
          /\ {j \in Groups : Wins(CandPair(GroupCand, j), s[k])} = Before(s, k)
      BY <3>1, <3>2, <1>1, <1>8 DEF Ranked
    <3>4. ~Wins(CandPair(GroupCand, g), CandPair(GroupCand, h))
      BY <3>2, <3>3, <1>8
    <3>5. CandPair(GroupCand, g) # CandPair(GroupCand, h)
      BY <1>8 DEF CandPair
    <3>6. CandPair(GroupCand, g) \in Pair /\ CandPair(GroupCand, h) \in Pair
      BY <3>3, <1>2
    <3> QED  BY <3>3, <3>4, <3>5, <3>6, WinsOrder
  <2>2. Cardinality(T) <= Cardinality(beating(g))
    <3>1. T \in SUBSET beating(g)
      BY <2>1
    <3> HIDE DEF T, beating
    <3> QED  BY <3>1, <1>6, FS_Subset
  <2>3. ~(Cardinality(beating(g)) < topk_group)
    BY <2>2, <1>5, <1>6, <1>4
  <2> QED  BY <2>3, <1>3, <1>8 DEF Surviving, s
<1> QED  BY <1>7, <1>8

LEMMA EligibleAre ==
  ASSUME RouteAssumed, RouteInv, stage \notin {"rank", "groups"}
  PROVE  /\ \A e \in Expert : e \in Eligible <=> Surviving(e \div epg)
         /\ Eligible \subseteq Expert
<1>1. ASSUME NEW e \in Expert PROVE e \in Eligible <=> Surviving(e \div epg)
  <2>1. e \div epg \in Groups
    BY GroupSizes DEF RouteInv
  <2>2. CASE Grouped
    BY <2>1, <2>2, SurvivorsAre DEF Eligible
  <2>3. CASE ~Grouped
    BY <2>3 DEF Eligible, Surviving
  <2> QED  BY <2>2, <2>3
<1> QED  BY <1>1 DEF Eligible

LEMMA ExpertPairs ==
  ASSUME RouteAssumed, RouteInv
  PROVE  /\ \A e \in Expert : /\ CandPair(ExpertCand, e) = [v |-> biased[e], id |-> e]
                              /\ CandPair(ExpertCand, e) \in Pair
                              /\ biased[e] \in Int /\ biased[e] > NegInf
         /\ IsFiniteSet(Eligible) /\ Eligible \subseteq Expert
<1>1. \A e \in Expert : biased[e] \in Int /\ biased[e] > NegInf /\ e \in Int
  BY DEF RouteInv, ArgsInv, Expert
<1>2. \A e \in Expert : CandPair(ExpertCand, e) = [v |-> biased[e], id |-> e]
  BY DEF CandPair, ExpertCand
<1>3. IsFiniteSet(Expert)
  <2>1. E \in Nat
    BY DEF RouteAssumed, RouteAssumption
  <2> QED  BY <2>1, FS_Interval DEF Expert
<1>4. Eligible \in SUBSET Expert
  BY DEF Eligible
<1> QED  BY <1>1, <1>2, <1>3, <1>4, FS_Subset DEF Pair

LEMMA RankGroupsStep ==
  ASSUME RouteAssumed, RouteInv, RankGroups
  PROVE  RouteInv'
<1>1. stage = "rank" /\ gsel[0] = <<>> /\ routed[0] = <<>>
  BY DEF RankGroups, RouteInv, SelectInv, ChooseInv
<1>2. UNCHANGED args /\ gsel' = gsel /\ routed' = routed
  BY DEF RankGroups
<1>3. ArgsInv' /\ (Grouped <=> Grouped') /\ Worth' = Worth
  BY <1>2 DEF args, RouteInv, ArgsInv, Grouped, Worth, Members, epg
<1>4. stage' \in {"groups", "experts"} /\ (stage' = "groups" <=> Grouped)
  BY <1>1 DEF RankGroups
<1>5. Grouped => group_scores' = Worth
  <2>1. \A g \in 0 .. n_group-1 : TopTwo(g)[1] + (IF epg > 1 THEN TopTwo(g)[2] ELSE 0) = Worth[g]
    BY RankIsWorth DEF RouteInv, Groups
  <2>2. Worth = [g \in 0 .. n_group-1 |-> Worth[g]]
    BY WorthIs DEF RouteInv, Groups
  <2>3. Grouped => group_scores' = [g \in 0 .. n_group-1 |->
                                      TopTwo(g)[1] + IF epg > 1 THEN TopTwo(g)[2] ELSE 0]
    BY DEF RankGroups
  <2> QED  BY <2>1, <2>2, <2>3
<1>6. topk_group \in Nat \ {0} /\ topk_group' = topk_group
      /\ K \in Nat \ {0} /\ K' = K
  BY <1>2, GroupSizes DEF RouteInv, args
<1>7. Len(<<>>) = 0
  OBVIOUS
<1>8. SelectInv'
  <2>1. gsel'[0] = <<>>
    BY <1>1, <1>2
  <2>2. gsel' = [l \in Lane |-> gsel'[0]] /\ gsel'[0] \in Seq(Pair)
    BY <1>2 DEF RouteInv, SelectInv
  <2>3. Grouped' => group_scores' = Worth'
    BY <1>3, <1>5
  <2>4. stage' = "groups" => Grouped' /\ Len(gsel'[0]) < topk_group'
    BY <1>3, <1>4, <1>6, <1>7, <2>1
  <2>5. stage' \notin {"rank", "groups"} => ~Grouped'
    BY <1>3, <1>4
  <2> QED  BY <1>4, <2>1, <2>2, <2>3, <2>4, <2>5, RankedNone DEF SelectInv
<1>9. ChooseInv'
  <2>1. routed'[0] = <<>> /\ routed' = [l \in Lane |-> routed'[0]] /\ routed'[0] \in Seq(Pair)
    BY <1>1, <1>2 DEF RouteInv, ChooseInv
  <2> QED  BY <1>4, <1>6, <1>7, <2>1, RankedNone DEF ChooseInv
<1> QED  BY <1>3, <1>4, <1>8, <1>9 DEF RouteInv, WrittenInv

LEMMA SelectGroupStep ==
  ASSUME RouteAssumed, RouteInv, SelectGroup
  PROVE  RouteInv'
<1> DEFINE s == gsel[0]
<1>1. /\ stage = "groups" /\ Grouped /\ s \in Seq(Pair) /\ Len(s) < topk_group
      /\ gsel = [l \in Lane |-> s] /\ Ranked(GroupCand, Groups, s)
      /\ group_scores = Worth /\ ArgsInv
  BY DEF SelectGroup, RouteInv, SelectInv
<1>2. UNCHANGED args /\ group_scores' = group_scores /\ routed' = routed
  BY DEF SelectGroup
<1>3. ArgsInv' /\ Grouped' /\ Worth' = Worth /\ Groups' = Groups /\ GroupCand' = GroupCand
  BY <1>1, <1>2 DEF args, RouteInv, ArgsInv, Grouped, Worth, Members, epg, Groups, GroupCand
<1>4. n_group \in Nat \ {0} /\ topk_group \in Nat \ {0} /\ topk_group' = topk_group /\ K' = K
  BY <1>1, <1>2, GroupSizes DEF args
<1>5. \A g \in Groups : GroupCand[g].id = g /\ GroupCand[g].v = Worth[g] /\ GroupCand[g].valid = TRUE
                        /\ Worth[g] \in Int /\ Worth[g] > NegInf /\ g \in Int
  BY <1>1, WorthIs DEF GroupCand, Groups
<1>6. Candidates(GroupCand, n_group)
  BY <1>5 DEF Candidates, Groups
<1>7. \A g \in Groups : CandPair(GroupCand, g) \in Pair
  BY <1>5 DEF CandPair, Pair
<1>8. PICK b : /\ BestAmong(GroupCand, Open(GroupCand, n_group, IdsOf(s)), b)
               /\ Round(GroupCand, n_group, gsel) = AllTaking(s, b)
  <2>1. \A l \in Lane : gsel[l] = s
    BY <1>1
  <2>2. TopKAssumption
    BY DEF RouteAssumed
  <2>3. n_group \in Nat
    BY <1>4
  <2>4. ASSUME NEW n \in Nat, n = n_group, NEW cand, cand = GroupCand, NEW t, t = s
        PROVE  \E b : /\ BestAmong(cand, Open(cand, n, IdsOf(t)), b)
                      /\ Round(cand, n, gsel) = AllTaking(t, b)
    <3>1. Candidates(cand, n) /\ \A l \in Lane : gsel[l] = t
      BY <1>6, <2>1, <2>4
    <3> HIDE DEF s
    <3> QED  BY <2>2, <3>1, RoundBest
  <2> HIDE DEF s
  <2> QED  BY <2>3, <2>4
<1>9. Open(GroupCand, n_group, IdsOf(s)) = Groups \ IdsOf(s)
  BY <1>5 DEF Open, Groups
<1>10. gsel' = [l \in Lane |-> Append(s, b)]
  <2>1. gsel' = Round(GroupCand, n_group, gsel)
    BY DEF SelectGroup, GroupCand
  <2> QED  BY <1>8, <2>1 DEF AllTaking
<1>11. gsel'[0] = Append(s, b)
  BY <1>10, Powers DEF RouteAssumed
<1>12. Append(s, b) \in Seq(Pair) /\ Ranked(GroupCand, Groups, Append(s, b))
       /\ Len(Append(s, b)) = Len(s) + 1
  <2>1. Append(s, b) \in Seq(Pair) /\ Ranked(GroupCand, Groups, Append(s, b))
    <3> HIDE DEF s
    <3> QED  BY <1>1, <1>7, <1>8, <1>9, NoPairIsPair, RankedStep
  <2> HIDE DEF s
  <2> QED  BY <2>1, <1>1
<1>13. stage' = IF Len(gsel'[0]) = topk_group THEN "experts" ELSE "groups"
  BY <1>1 DEF SelectGroup
<1>14. Len(s) \in Nat
  BY <1>1
<1>15. SelectInv'
  <2>1. gsel' = [l \in Lane |-> gsel'[0]]
    BY <1>10, <1>11
  <2>2. stage' = "groups" => Len(gsel'[0]) < topk_group
    <3> HIDE DEF s
    <3> QED  BY <1>1, <1>4, <1>11, <1>12, <1>13, <1>14
  <2>3. stage' # "groups" => stage' = "experts" /\ Len(gsel'[0]) = topk_group
    BY <1>13
  <2>4. gsel'[0] \in Seq(Pair) /\ Ranked(GroupCand', Groups', gsel'[0])
    <3> HIDE DEF s
    <3> QED  BY <1>3, <1>11, <1>12
  <2>5. stage' # "rank" /\ group_scores' = Worth'
    BY <1>1, <1>2, <1>3, <1>13
  <2> QED  BY <1>3, <1>4, <2>1, <2>2, <2>3, <2>4, <2>5 DEF SelectInv
<1>16. ChooseInv'
  <2>1. routed[0] = <<>> /\ routed = [l \in Lane |-> routed[0]] /\ routed[0] \in Seq(Pair)
    BY <1>1 DEF RouteInv, ChooseInv
  <2>2. K \in Nat \ {0} /\ Len(<<>>) = 0
    BY <1>1, GroupSizes
  <2>3. stage' \in {"groups", "experts"}
    BY <1>13
  <2> QED  BY <1>2, <1>4, <2>1, <2>2, <2>3, RankedNone DEF ChooseInv
<1> QED  BY <1>3, <1>13, <1>15, <1>16 DEF RouteInv, WrittenInv

\* What the choice is made from depends on the arguments and the groups chosen.
LEMMA ArgumentsKept ==
  ASSUME UNCHANGED args, group_scores' = group_scores, gsel' = gsel
  PROVE  /\ ArgsInv => ArgsInv'
         /\ (Grouped <=> Grouped') /\ Worth' = Worth /\ Groups' = Groups
         /\ GroupCand' = GroupCand /\ ExpertCand' = ExpertCand /\ Eligible' = Eligible
<1>1. epg' = epg /\ (Grouped <=> Grouped')
  BY DEF args, epg, Grouped
<1>2. Worth' = Worth
  BY <1>1 DEF args, Worth, Members
<1>3. (ArgsInv => ArgsInv') /\ Groups' = Groups /\ GroupCand' = GroupCand
  BY DEF args, ArgsInv, Groups, GroupCand
<1>4. ExpertCand' = ExpertCand
  BY <1>1 DEF args, ExpertCand, Surviving
<1>5. Eligible' = Eligible
  BY <1>1, <1>2 DEF args, Eligible, Beats
<1> QED  BY <1>1, <1>2, <1>3, <1>4, <1>5

LEMMA SelectExpertStep ==
  ASSUME RouteAssumed, RouteInv, SelectExpert
  PROVE  RouteInv'
<1> DEFINE s == routed[0]
<1>1. /\ stage = "experts" /\ s \in Seq(Pair) /\ Len(s) < K
      /\ routed = [l \in Lane |-> s] /\ Ranked(ExpertCand, Eligible, s) /\ ArgsInv
  BY DEF SelectExpert, RouteInv, ChooseInv
<1>2. UNCHANGED args /\ group_scores' = group_scores /\ gsel' = gsel
  BY DEF SelectExpert
<1>3. /\ ArgsInv' /\ (Grouped <=> Grouped') /\ Worth' = Worth /\ Groups' = Groups
      /\ GroupCand' = GroupCand /\ ExpertCand' = ExpertCand /\ Eligible' = Eligible
  BY <1>1, <1>2, ArgumentsKept
<1>4. K \in Nat \ {0} /\ K' = K /\ topk_group' = topk_group /\ E \in Nat
  BY <1>1, <1>2, GroupSizes DEF args
<1>5. \A e \in Expert : /\ ExpertCand[e].id = e /\ ExpertCand[e].v = biased[e]
                        /\ ExpertCand[e].valid = (e \in Eligible)
                        /\ biased[e] \in Int /\ biased[e] > NegInf
                        /\ CandPair(ExpertCand, e) \in Pair
  <2>1. \A e \in Expert : /\ ExpertCand[e].id = e /\ ExpertCand[e].v = biased[e]
                          /\ ExpertCand[e].valid = Surviving(e \div epg)
    BY DEF ExpertCand
  <2>2. \A e \in Expert : Surviving(e \div epg) = (e \in Eligible)
    <3>1. \A e \in Expert : e \in Eligible <=> Surviving(e \div epg)
      BY <1>1, EligibleAre
    <3>2. \A e \in Expert : Surviving(e \div epg) \in BOOLEAN
      BY DEF Surviving
    <3> QED  BY <3>1, <3>2
  <2> QED  BY <2>1, <2>2, ExpertPairs
<1>6. Candidates(ExpertCand, E)
  <2>1. \A e \in Expert : ExpertCand[e].valid \in BOOLEAN
    BY DEF ExpertCand, Surviving
  <2> QED  BY <1>5, <2>1 DEF Candidates, Expert
<1>7. PICK b : /\ BestAmong(ExpertCand, Open(ExpertCand, E, IdsOf(s)), b)
               /\ Round(ExpertCand, E, routed) = AllTaking(s, b)
  <2>1. \A l \in Lane : routed[l] = s
    BY <1>1
  <2>2. TopKAssumption /\ E \in Nat
    BY <1>4 DEF RouteAssumed
  <2> HIDE DEF s
  <2>3. s \in Seq(Pair)
    BY <1>1
  <2> QED  BY <1>6, <2>1, <2>2, <2>3, RoundBest
<1>8. Open(ExpertCand, E, IdsOf(s)) = Eligible \ IdsOf(s)
  <2>1. Eligible \subseteq Expert
    BY ExpertPairs
  <2> QED  BY <1>5, <2>1 DEF Open, Expert
<1>9. routed' = [l \in Lane |-> Append(s, b)]
  <2>1. routed' = Round(ExpertCand, E, routed)
    BY DEF SelectExpert, ExpertCand
  <2> QED  BY <1>7, <2>1 DEF AllTaking
<1>10. routed'[0] = Append(s, b)
  BY <1>9, Powers DEF RouteAssumed
<1>11. Append(s, b) \in Seq(Pair) /\ Ranked(ExpertCand, Eligible, Append(s, b))
       /\ Len(Append(s, b)) = Len(s) + 1
  <2>1. \A e \in Eligible : CandPair(ExpertCand, e) \in Pair
    BY <1>5, ExpertPairs
  <2>2. Append(s, b) \in Seq(Pair) /\ Ranked(ExpertCand, Eligible, Append(s, b))
    <3> HIDE DEF s
    <3> QED  BY <1>1, <1>7, <1>8, <2>1, NoPairIsPair, RankedStep
  <2> HIDE DEF s
  <2> QED  BY <2>2, <1>1
<1>12. stage' = IF Len(routed'[0]) = K THEN "emit" ELSE "experts"
  BY <1>1 DEF SelectExpert
<1>13. SelectInv'
  <2>1. SelectInv
    BY DEF RouteInv
  <2>2. stage' \notin {"rank", "groups"}
    BY <1>12
  <2> QED  BY <1>1, <1>2, <1>3, <1>4, <2>1, <2>2 DEF SelectInv
<1>14. ChooseInv'
  <2>1. routed' = [l \in Lane |-> routed'[0]]
    BY <1>9, <1>10
  <2>2. stage' = "experts" => Len(routed'[0]) < K
    <3>1. Len(s) \in Nat
      BY <1>1
    <3> HIDE DEF s
    <3> QED  BY <1>1, <1>4, <1>10, <1>11, <1>12, <3>1
  <2>3. stage' # "experts" => stage' = "emit" /\ Len(routed'[0]) = K
    BY <1>12
  <2>4. routed'[0] \in Seq(Pair) /\ Ranked(ExpertCand', Eligible', routed'[0])
    <3> HIDE DEF s
    <3> QED  BY <1>3, <1>10, <1>11
  <2>5. stage' \notin {"rank", "groups"}
    BY <1>12
  <2> QED  BY <1>4, <2>1, <2>2, <2>3, <2>4, <2>5 DEF ChooseInv
<1> QED  BY <1>3, <1>12, <1>13, <1>14 DEF RouteInv, WrittenInv

\* Nothing but the outputs and the stage changes.
LEMMA ChoicesKept ==
  ASSUME RouteInv, UNCHANGED args, group_scores' = group_scores, gsel' = gsel, routed' = routed,
         \/ stage' = stage
         \/ stage = "emit" /\ stage' = "done"
  PROVE  ArgsInv' /\ stage' \in {"rank", "groups", "experts", "emit", "done"}
         /\ SelectInv' /\ ChooseInv'
<1>1. /\ ArgsInv' /\ (Grouped <=> Grouped') /\ Worth' = Worth /\ Groups' = Groups
      /\ GroupCand' = GroupCand /\ ExpertCand' = ExpertCand /\ Eligible' = Eligible
  BY ArgumentsKept DEF RouteInv
<1>2. K' = K /\ topk_group' = topk_group
  BY DEF args
<1>3. SelectInv'
  BY <1>1, <1>2 DEF RouteInv, SelectInv
<1>4. ChooseInv'
  BY <1>1, <1>2 DEF RouteInv, ChooseInv
<1> QED  BY <1>1, <1>3, <1>4 DEF RouteInv

LEMMA EmitExpertsStep ==
  ASSUME RouteInv, EmitExperts
  PROVE  RouteInv'
<1>1. UNCHANGED args /\ group_scores' = group_scores /\ gsel' = gsel /\ routed' = routed
      /\ stage = "emit" /\ stage' = "done"
  BY DEF EmitExperts
<1>2. ArgsInv' /\ SelectInv' /\ ChooseInv'
  BY <1>1, ChoicesKept
<1>3. K' = K /\ scored' = scored
  BY <1>1 DEF args
<1>4. WrittenInv'
  <2>1. PICK den :
          /\ topk_ids' = [k \in 1 .. K |-> routed[0][k].id]
          /\ topk_weights' = [k \in 1 .. K |->
               <<IF [i \in 1 .. K |-> routed[0][i].id][k] >= 0
                 THEN scored[[i \in 1 .. K |-> routed[0][i].id][k]] ELSE 0, den>>]
    BY DEF EmitExperts
  <2>2. ASSUME NEW k \in 1 .. K
        PROVE  /\ topk_ids'[k] = routed[0][k].id
               /\ topk_weights'[k][1] = IF topk_ids'[k] >= 0 THEN scored[topk_ids'[k]] ELSE 0
    BY <2>1
  <2> QED  BY <1>1, <1>3, <2>2 DEF WrittenInv
<1> QED  BY <1>1, <1>2, <1>4 DEF RouteInv

LEMMA RouteInvBest == ASSUME RouteAssumed, RouteInv PROVE RoutesBest
<1> DEFINE s == routed[0]
           n == Cardinality(Eligible)
           over(k) == {j \in Eligible : Wins(CandPair(ExpertCand, j), s[k])}
<1>1. ASSUME NEW l \in Lane PROVE gsel[l] = gsel[0] /\ routed[l] = routed[0]
  <2>1. gsel = [m \in Lane |-> gsel[0]] /\ routed = [m \in Lane |-> routed[0]]
    BY DEF RouteInv, SelectInv, ChooseInv
  <2> QED  BY <2>1
<1>2. ASSUME stage = "done", NEW k \in 1 .. K
      PROVE  IF k <= n
             THEN /\ topk_ids[k] \in Eligible
                  /\ Cardinality({e \in Eligible : Beats(biased, e, topk_ids[k])}) = k-1
                  /\ topk_weights[k][1] = scored[topk_ids[k]]
             ELSE topk_ids[k] = NoId /\ topk_weights[k][1] = 0
  <2>1. s \in Seq(Pair) /\ Len(s) = K /\ Ranked(ExpertCand, Eligible, s)
    BY <1>2 DEF RouteInv, ChooseInv
  <2>2. /\ \A i \in Eligible : CandPair(ExpertCand, i) \in Pair
        /\ \A i \in Eligible : CandPair(ExpertCand, i) = [v |-> biased[i], id |-> i]
        /\ IsFiniteSet(Eligible) /\ Eligible \subseteq Expert
    BY ExpertPairs
  <2>3. topk_ids[k] = s[k].id
        /\ topk_weights[k][1] = IF topk_ids[k] >= 0 THEN scored[topk_ids[k]] ELSE 0
    BY <1>2 DEF RouteInv, WrittenInv
  <2>4. IF k <= n
        THEN s[k].id \in Eligible /\ s[k] = CandPair(ExpertCand, s[k].id)
             /\ Cardinality(over(k)) = k-1
        ELSE s[k] = NoPair
    <3> HIDE DEF s
    <3> QED  BY <2>1, <2>2, RankedCounts
  <2>5. CASE k <= n
    <3>1. s[k].id \in Eligible /\ s[k] = CandPair(ExpertCand, s[k].id)
          /\ Cardinality(over(k)) = k-1
      BY <2>4, <2>5
    <3>2. over(k) = {e \in Eligible : Beats(biased, e, s[k].id)}
      <4>1. s[k] = [v |-> biased[s[k].id], id |-> s[k].id]
        BY <3>1, <2>2
      <4> DEFINE d == s[k].id
      <4>2. s[k].v = biased[d]
        BY <4>1
      <4> HIDE DEF d
      <4>3. \A e \in Eligible : Wins(CandPair(ExpertCand, e), s[k]) <=> Beats(biased, e, d)
        BY <2>2, <4>2 DEF Beats, Wins, d
      <4> QED  BY <4>3 DEF d
    <3>3. s[k].id >= 0
      <4>1. E \in Nat /\ s[k].id \in Expert
        BY <3>1, <2>2 DEF RouteAssumed, RouteAssumption
      <4> HIDE DEF s
      <4> QED  BY <4>1 DEF Expert
    <3> HIDE DEF s, over
    <3> QED  BY <2>3, <2>5, <3>1, <3>2, <3>3
  <2>6. CASE ~(k <= n)
    <3>1. s[k].id = NoId /\ ~(NoId >= 0)
      BY <2>4, <2>6 DEF NoPair, NoId
    <3> HIDE DEF s, n
    <3> QED  BY <2>3, <2>6, <3>1
  <2> QED  BY <2>5, <2>6
<1> QED  BY <1>1, <1>2 DEF RoutesBest

(***************************************************************************)
(* For any number of experts, of lanes (a power of two) and of groups that *)
(* divides the experts, and any scores and biases above the sentinel: the  *)
(* ids are the K highest experts of the topk_group highest groups, the     *)
(* lower index first among equals, each weighted by its own score, and     *)
(* every lane has made the same choice after every round.                  *)
(***************************************************************************)
THEOREM RoutesTheBest == RouteAssumed => (RouteSpec => []RoutesBest)
<1> SUFFICES ASSUME RouteAssumed PROVE RouteSpec => []RoutesBest
  OBVIOUS
<1>1. RouteInit => RouteInv
  BY RouteInitInv
<1>2. RouteInv /\ [RouteNext]_routeVars => RouteInv'
  <2> SUFFICES ASSUME RouteInv, [RouteNext]_routeVars PROVE RouteInv'
    OBVIOUS
  <2>1. CASE RankGroups
    BY <2>1, RankGroupsStep
  <2>2. CASE SelectGroup
    BY <2>2, SelectGroupStep
  <2>3. CASE SelectExpert
    BY <2>3, SelectExpertStep
  <2>4. CASE EmitExperts
    BY <2>4, EmitExpertsStep
  <2>5. CASE UNCHANGED routeVars
    <3>1. UNCHANGED args /\ group_scores' = group_scores /\ gsel' = gsel /\ routed' = routed
          /\ stage' = stage /\ topk_ids' = topk_ids /\ topk_weights' = topk_weights
      BY <2>5 DEF routeVars
    <3>2. K' = K /\ scored' = scored
      BY <3>1 DEF args
    <3>3. WrittenInv'
      BY <3>1, <3>2 DEF RouteInv, WrittenInv
    <3> QED  BY <3>1, <3>3, ChoicesKept DEF RouteInv
  <2> QED  BY <2>1, <2>2, <2>3, <2>4, <2>5 DEF RouteNext
<1>3. RouteInv => RoutesBest
  BY RouteInvBest
<1> QED  BY <1>1, <1>2, <1>3, PTL DEF RouteSpec
-----------------------------------------------------------------------------
Assumed == WidthAssumption /\ KvAssumption

\* The cache by itself, with any parents.
KvSpec ==
  KvInit /\ [][KvNext \/ \E p \in [Row -> Beam] : Receive(p)]_kvVars

TypeInv ==
  /\ KvStep => /\ block_table \in Tables /\ parents \in [Row -> Beam]
               /\ seq_lens \in SeqLens /\ seq_lens \in [Row -> Nat]
  /\ key_cache \in [Cell -> Int]
  /\ key_out \in [Cell -> Int]
  /\ pairs \in [Slot -> {<<>>} \cup (Int \X Int)]
  /\ zeroed \subseteq Thread /\ cloned \subseteq Thread
  /\ scattered \subseteq Row
  /\ copied \subseteq Slot \X (0 .. BlockSize-1)

(***************************************************************************)
(* The dispatches come one after the other: nothing is moved before the    *)
(* cache is filled, and nothing fills it after.                            *)
(***************************************************************************)
StageInv ==
  /\ ~KvStep => zeroed = {} /\ scattered = {}
  /\ scattered # {} => zeroed = Thread
  /\ ~Filled => cloned = {} /\ copied = {} /\ \A s \in Slot : pairs[s] = <<>>
  /\ copied # {} => MayCopy

PairInv == \A s \in Slot : pairs[s] \in {<<>>, PairOf(s)}

\* Cell i of the block that slot s is copied to.
To(s, i)   == pairs[s][2] * BlockSize + i
From(s, i) == pairs[s][1] * BlockSize + i

CopiedInv ==
  \A s \in Slot, i \in 0 .. BlockSize-1 : <<s, i>> \in copied =>
    pairs[s][1] >= 0 /\ pairs[s][2] >= 0 /\ key_out[To(s, i)] = key_cache[From(s, i)]

\* What has not been copied to is as it was cloned.
CloneInv ==
  \A t \in cloned : \A i \in Cell :
    /\ i \in t .. t+Vec-1
    /\ \A s \in Slot, j \in 0 .. BlockSize-1 : <<s, j>> \in copied => To(s, j) # i
    => key_out[i] = key_cache[i]

IInv == TypeInv /\ StageInv /\ PairInv /\ CopiedInv /\ CloneInv
-----------------------------------------------------------------------------
LEMMA Sizes ==
  ASSUME Assumed
  PROVE  /\ BM \in Nat \ {0} /\ B \in Nat \ {0} /\ MaxBlocks \in Nat \ {0}
         /\ BlockSize \in Nat \ {0} /\ NumBlocks \in Nat \ {0}
         /\ B*BM \in Nat \ {0} /\ NSlots = (B*BM) * MaxBlocks
         /\ NumBlocks * BlockSize \in Nat /\ Row # {} /\ Row \subseteq Nat
<1>1. /\ BM \in Nat \ {0} /\ B \in Nat \ {0} /\ MaxBlocks \in Nat \ {0}
      /\ BlockSize \in Nat \ {0} /\ NumBlocks \in Nat \ {0}
  BY DEF Assumed, WidthAssumption, KvAssumption
<1>2. B*BM \in Nat /\ B*BM >= B
  BY <1>1, Multiple
<1>3. 0 \in Row /\ Row \subseteq Nat
  BY <1>1, <1>2 DEF Row
<1> QED  BY <1>1, <1>2, <1>3 DEF NSlots

\* A table has a row for every beam, a step has been received, and no two places share a block.
LEMMA Tabled ==
  ASSUME Assumed, NEW bt \in Tables
  PROVE  /\ bt \in [Row -> [Col -> Blk \cup {-1}]] /\ bt # <<>>
         /\ \A r, q \in Row : \A c, d \in Col :
              bt[r][c] = bt[q][d] /\ bt[r][c] >= 0 => r = q /\ c = d
<1>1. bt \in [Row -> [Col -> Blk \cup {-1}]]
  BY DEF Assumed, KvAssumption
<1>2. bt # <<>>
  <2>1. 0 \in Row
    BY Sizes DEF Row
  <2> QED  BY <1>1, <2>1
<1> QED  BY <1>1, <1>2 DEF Assumed, KvAssumption

\* A slot is a row and a column of the table.
LEMMA SlotPlace ==
  ASSUME Assumed, NEW s \in Slot
  PROVE  s \div MaxBlocks \in Row /\ s % MaxBlocks \in Col
         /\ s = (s \div MaxBlocks) * MaxBlocks + (s % MaxBlocks)
BY Sizes, RowAndColumn DEF Slot, Row, Col

LEMMA PlaceSlot ==
  ASSUME Assumed, NEW r \in Row, NEW c \in Col
  PROVE  /\ r * MaxBlocks + c \in Slot
         /\ (r * MaxBlocks + c) \div MaxBlocks = r /\ (r * MaxBlocks + c) % MaxBlocks = c
BY Sizes, RowMajor DEF Slot, Row, Col

\* Cells of different blocks, or different cells of a block, are different.
LEMMA CellsDiffer ==
  ASSUME Assumed, NEW a \in Nat, NEW b \in Nat,
         NEW i \in 0 .. BlockSize-1, NEW j \in 0 .. BlockSize-1,
         a * BlockSize + i = b * BlockSize + j
  PROVE  a = b /\ i = j
<1>1. BlockSize * a + i = BlockSize * b + j
  BY Sizes
<1> QED  BY <1>1, Sizes, DivisionUnique

LEMMA BlockCell ==
  ASSUME Assumed, NEW b \in Blk, NEW i \in 0 .. BlockSize-1
  PROVE  b * BlockSize + i \in Cell
BY Sizes, RowMajor DEF Blk, Cell

\* Every cell has a thread of the clone.
LEMMA CellThread ==
  ASSUME Assumed, NEW i \in Cell
  PROVE  \E t \in Thread : i \in t .. t+Vec-1
<1> DEFINE t == i - (i % Vec)
<1>1. i \in Nat /\ i < NumBlocks * BlockSize /\ NumBlocks * BlockSize \in Nat
  BY Sizes DEF Cell
<1>2. t \in Nat /\ t <= i /\ i <= t + 3 /\ t % 4 = 0
  BY <1>1 DEF Vec
<1>3. t \in Thread
  BY <1>1, <1>2 DEF Thread, Cell, Vec
<1> QED  BY <1>1, <1>2, <1>3 DEF Vec

\* The parent of a beam is a row of the same entry; the beam itself if it is its own parent.
LEMMA ParentIsRow ==
  ASSUME Assumed, IInv, KvStep, NEW r \in Row
  PROVE  ParentRow(r) \in Row /\ (parents[r] = r % BM => ParentRow(r) = r)
<1>1. r \in 0 .. B * BM - 1 /\ parents[r] \in 0 .. BM-1
  BY DEF IInv, TypeInv, Row, Beam
<1>2. r \div BM \in 0 .. B-1 /\ r = (r \div BM) * BM + (r % BM)
  BY <1>1, Sizes, RowAndColumn
<1>3. (r \div BM) * BM + parents[r] \in 0 .. B * BM - 1
  BY <1>1, <1>2, Sizes, RowMajor
<1> QED  BY <1>2, <1>3 DEF ParentRow, Row

(***************************************************************************)
(* A pair is the sentinel, or the blocks of the parent and of the row.     *)
(***************************************************************************)
Dst(s) == block_table[s \div MaxBlocks][s % MaxBlocks]
Src(s) == block_table[ParentRow(s \div MaxBlocks)][s % MaxBlocks]

LEMMA PairKinds ==
  ASSUME Assumed, IInv, KvStep, NEW s \in Slot
  PROVE  /\ Dst(s) \in Blk \cup {-1} /\ Src(s) \in Blk \cup {-1}
         /\ \/ PairOf(s) = Sentinel
            \/ PairOf(s) = <<Src(s), Dst(s)>> /\ Src(s) \in Blk /\ Dst(s) \in Blk
<1>1. /\ s \div MaxBlocks \in Row /\ s % MaxBlocks \in Col
      /\ ParentRow(s \div MaxBlocks) \in Row
  BY SlotPlace, ParentIsRow
<1>2. block_table \in [Row -> [Col -> Blk \cup {-1}]]
  BY Tabled DEF IInv, TypeInv
<1>3. Dst(s) \in Blk \cup {-1} /\ Src(s) \in Blk \cup {-1}
  BY <1>1, <1>2 DEF Dst, Src
<1>4. PairOf(s) \in {Sentinel, <<Src(s), Dst(s)>>}
  BY DEF PairOf, Src, Dst
<1>5. PairOf(s) # Sentinel => Src(s) >= 0 /\ Dst(s) >= 0
  BY DEF PairOf, Src, Dst
<1>6. \A b \in Blk \cup {-1} : b >= 0 => b \in Blk
  OBVIOUS
<1> QED  BY <1>3, <1>4, <1>5, <1>6

\* Slots whose pairs have the same destination are the same.
LEMMA DstOnce ==
  ASSUME Assumed, IInv, KvStep, NEW s \in Slot, NEW u \in Slot, Dst(s) = Dst(u), Dst(s) >= 0
  PROVE  s = u
<1>1. s \div MaxBlocks = u \div MaxBlocks /\ s % MaxBlocks = u % MaxBlocks
  BY SlotPlace, Tabled DEF Dst, IInv, TypeInv
<1> QED  BY <1>1, SlotPlace
-----------------------------------------------------------------------------
LEMMA Initially == ASSUME Assumed, KvInit PROVE IInv
BY Sizes DEF KvInit, IInv, TypeInv, StageInv, PairInv, CopiedInv, CloneInv, KvStep, Filled, Garbage

\* Before the cache is filled nothing is moved, and a fill does not matter to what moves.
LEMMA NotMoved ==
  ASSUME Assumed, IInv, ~Filled
  PROVE  cloned = {} /\ copied = {} /\ \A s \in Slot : pairs[s] = <<>>
BY DEF IInv, StageInv

LEMMA ReceiveKeeps ==
  ASSUME Assumed, IInv, NEW p \in [Row -> Beam], Receive(p) PROVE IInv'
<1>1. ~Filled /\ zeroed = {} /\ scattered = {}
  BY DEF Receive, Filled, IInv, StageInv
<1>2. cloned = {} /\ copied = {} /\ \A s \in Slot : pairs[s] = <<>>
  BY <1>1, NotMoved
<1>3. seq_lens' \in [Row -> Nat]
  <2>1. MaxBlocks * BlockSize \in Nat
    BY Sizes
  <2> QED  BY <2>1 DEF Receive, Assumed, KvAssumption
<1>4. TypeInv'
  BY <1>3 DEF Receive, filled, moved, IInv, TypeInv
<1>5. StageInv'
  BY <1>1, <1>2, Sizes DEF Receive, filled, moved, StageInv, Filled
<1>6. PairInv' /\ CopiedInv' /\ CloneInv'
  BY <1>2 DEF Receive, moved, PairInv, CopiedInv, CloneInv
<1> QED  BY <1>4, <1>5, <1>6 DEF IInv

LEMMA ZeroKeeps ==
  ASSUME Assumed, IInv, NEW t \in Thread, Zero(t) PROVE IInv'
<1>1. scattered = {} /\ ~Filled
  BY Sizes DEF Zero, Filled, IInv, StageInv
<1>2. cloned = {} /\ copied = {} /\ \A s \in Slot : pairs[s] = <<>>
  BY <1>1, NotMoved
<1>3. TypeInv'
  BY DEF Zero, input, moved, IInv, TypeInv, KvStep
<1>4. StageInv'
  BY <1>1, <1>2, Sizes DEF Zero, input, moved, StageInv, Filled, KvStep
<1>5. PairInv' /\ CopiedInv' /\ CloneInv'
  BY <1>2 DEF Zero, moved, PairInv, CopiedInv, CloneInv
<1> QED  BY <1>3, <1>4, <1>5 DEF IInv

LEMMA ScatterKeeps ==
  ASSUME Assumed, IInv, NEW r \in Row, Scatter(r) PROVE IInv'
<1>1. ~Filled /\ zeroed = Thread /\ KvStep
  BY DEF Scatter, MayScatter, Filled
<1>2. cloned = {} /\ copied = {} /\ \A s \in Slot : pairs[s] = <<>>
  BY <1>1, NotMoved
<1>3. TypeInv'
  <2>1. seq_lens[r] \in Nat /\ r \in Nat /\ MaxBlocks * BlockSize \in Nat
    BY <1>1, Sizes DEF IInv, TypeInv
  <2>2. \A p \in 0 .. seq_lens[r]-1 : Content(r, p) \in Int
    BY <2>1 DEF Content
  <2>3. key_cache' \in [Cell -> Int]
    BY <2>2 DEF Scatter, IInv, TypeInv
  <2> QED  BY <2>3 DEF Scatter, input, moved, IInv, TypeInv, KvStep
<1>4. StageInv'
  BY <1>1, <1>2 DEF Scatter, input, moved, StageInv, KvStep
<1>5. PairInv' /\ CopiedInv' /\ CloneInv'
  BY <1>2 DEF Scatter, moved, PairInv, CopiedInv, CloneInv
<1> QED  BY <1>3, <1>4, <1>5 DEF IInv

LEMMA BuildPairKeeps ==
  ASSUME Assumed, IInv, NEW s \in Slot, BuildPair(s) PROVE IInv'
<1>1. KvStep /\ Filled /\ copied = {}
  BY DEF BuildPair, Filled, MayCopy, IInv, StageInv
<1>2. PairOf(s) \in Int \X Int
  BY <1>1, PairKinds DEF Sentinel, Blk
<1>3. TypeInv'
  BY <1>2 DEF BuildPair, input, filled, IInv, TypeInv, KvStep
<1>4. StageInv'
  BY <1>1 DEF BuildPair, input, filled, IInv, StageInv, Filled, KvStep
<1>5. PairInv'
  <2>1. \A u \in Slot : PairOf(u)' = PairOf(u)
    BY DEF BuildPair, input, PairOf, ParentRow
  <2> QED  BY <2>1 DEF BuildPair, IInv, PairInv, TypeInv
<1>6. CopiedInv' /\ CloneInv'
  BY <1>1 DEF BuildPair, filled, IInv, CopiedInv, CloneInv
<1> QED  BY <1>3, <1>4, <1>5, <1>6 DEF IInv

LEMMA CloneKeeps ==
  ASSUME Assumed, IInv, NEW t \in Thread, Clone(t) PROVE IInv'
<1>1. Filled /\ copied = {}
  BY DEF Clone, MayCopy, IInv, StageInv
<1>2. TypeInv'
  BY DEF Clone, input, filled, IInv, TypeInv, KvStep
<1>3. StageInv'
  BY <1>1 DEF Clone, input, filled, IInv, StageInv, Filled, KvStep
<1>4. PairInv'
  BY DEF Clone, input, IInv, PairInv, PairOf, ParentRow
<1>5. CopiedInv'
  BY <1>1 DEF Clone, CopiedInv
<1>6. CloneInv'
  BY <1>1 DEF Clone, filled, IInv, CloneInv, TypeInv
<1> QED  BY <1>2, <1>3, <1>4, <1>5, <1>6 DEF IInv

\* What a thread of the copy reads and writes are cells, of the blocks in its pair.
LEMMA CopyCells ==
  ASSUME Assumed, IInv, Filled, NEW s \in Slot, NEW i \in 0 .. BlockSize-1,
         pairs[s] # <<>>, pairs[s][1] >= 0
  PROVE  /\ pairs[s] = PairOf(s) /\ pairs[s][2] = Dst(s) /\ Dst(s) \in Blk
         /\ To(s, i) \in Cell /\ From(s, i) \in Cell
<1>1. KvStep /\ pairs[s] = PairOf(s)
  BY DEF Filled, IInv, PairInv
<1>2. pairs[s] = <<Src(s), Dst(s)>> /\ Src(s) \in Blk /\ Dst(s) \in Blk
  BY <1>1, PairKinds DEF Sentinel
<1> QED  BY <1>1, <1>2, BlockCell DEF To, From

\* No two threads of the copy write one cell.
LEMMA CopiesApart ==
  ASSUME Assumed, IInv, Filled, NEW s \in Slot, NEW u \in Slot,
         NEW i \in 0 .. BlockSize-1, NEW j \in 0 .. BlockSize-1,
         pairs[s] # <<>>, pairs[s][1] >= 0, pairs[u] # <<>>, pairs[u][1] >= 0, To(s, i) = To(u, j)
  PROVE  s = u /\ i = j
<1>1. KvStep
  BY DEF Filled
<1>2. pairs[s][2] = Dst(s) /\ Dst(s) \in Blk /\ pairs[u][2] = Dst(u) /\ Dst(u) \in Blk
  BY CopyCells
<1>3. Dst(s) = Dst(u) /\ i = j
  BY <1>2, CellsDiffer DEF To, Blk
<1> QED  BY <1>1, <1>2, <1>3, DstOnce DEF Blk

LEMMA CopyKeeps ==
  ASSUME Assumed, IInv, Filled, NEW s \in Slot, NEW i \in 0 .. BlockSize-1, Copy(s, i) PROVE IInv'
<1>1. /\ MayCopy /\ pairs[s] # <<>> /\ pairs[s][1] >= 0 /\ pairs[s][2] >= 0
      /\ copied' = copied \cup {<<s, i>>}
      /\ key_out' = [key_out EXCEPT ![To(s, i)] = key_cache[From(s, i)]]
      /\ UNCHANGED <<input, filled, pairs, cloned, read>>
  BY DEF Copy, MayCopy, To, From
<1>2. To(s, i) \in Cell /\ From(s, i) \in Cell
  BY <1>1, CopyCells
<1>3. TypeInv'
  BY <1>1, <1>2 DEF input, filled, IInv, TypeInv, KvStep
<1>4. StageInv'
  BY <1>1 DEF input, filled, IInv, StageInv, Filled, KvStep, MayCopy
<1>5. PairInv'
  BY <1>1 DEF input, IInv, PairInv, PairOf, ParentRow
<1>6. CopiedInv'
  <2> SUFFICES ASSUME NEW u \in Slot, NEW j \in 0 .. BlockSize-1, <<u, j>> \in copied'
               PROVE  /\ pairs[u][1] >= 0 /\ pairs[u][2] >= 0
                      /\ key_out'[To(u, j)] = key_cache[From(u, j)]
    BY <1>1 DEF CopiedInv, To, From, filled
  <2>1. CASE u = s /\ j = i
    BY <2>1, <1>1, <1>2 DEF IInv, TypeInv
  <2>2. CASE ~(u = s /\ j = i)
    <3>1. <<u, j>> \in copied
      BY <2>2, <1>1
    <3>2. /\ pairs[u][1] >= 0 /\ pairs[u][2] >= 0 /\ pairs[u] # <<>>
          /\ key_out[To(u, j)] = key_cache[From(u, j)]
      BY <3>1, <1>1 DEF IInv, CopiedInv, MayCopy
    <3>3. To(u, j) # To(s, i) /\ To(u, j) \in Cell
      BY <2>2, <3>2, <1>1, CopiesApart, CopyCells
    <3> QED  BY <3>2, <3>3, <1>1 DEF IInv, TypeInv
  <2> QED  BY <2>1, <2>2
<1>7. CloneInv'
  <2> SUFFICES ASSUME NEW t \in cloned, NEW k \in Cell, k \in t .. t+Vec-1,
                      \A u \in Slot, j \in 0 .. BlockSize-1 : <<u, j>> \in copied' => To(u, j) # k
               PROVE  key_out'[k] = key_cache[k]
    BY <1>1 DEF CloneInv, To, filled
  <2>1. To(s, i) # k
    BY <1>1
  <2>2. key_out[k] = key_cache[k]
    BY <1>1 DEF IInv, CloneInv
  <2> QED  BY <2>1, <2>2, <1>1 DEF IInv, TypeInv
<1> QED  BY <1>3, <1>4, <1>5, <1>6, <1>7 DEF IInv

LEMMA GatherKeeps ==
  ASSUME Assumed, IInv, UNCHANGED <<input, filled, moved>> PROVE IInv'
BY DEF input, filled, moved, IInv, TypeInv, StageInv, PairInv, CopiedInv, CloneInv, KvStep, Filled,
       MayCopy, PairOf, ParentRow, To, From
-----------------------------------------------------------------------------
LEMMA Holds == ASSUME Assumed, IInv PROVE HoldsParentHistory
<1> SUFFICES ASSUME Reordered PROVE HoldsParentHistory
  BY DEF HoldsParentHistory
<1>0. /\ KvStep /\ Filled /\ cloned = Thread
      /\ \A s \in Slot : pairs[s] = PairOf(s) /\ pairs[s] # <<>>
      /\ \A s \in Slot : pairs[s] # Sentinel => \A i \in 0 .. BlockSize-1 : <<s, i>> \in copied
  BY DEF Reordered, Filled, MayCopy, IInv, PairInv
\* A cell that no pair has for destination holds what it held.
<1>1. ASSUME NEW b \in Blk, NEW i \in 0 .. BlockSize-1,
             \A s \in Slot : pairs[s] # Sentinel => Dst(s) # b
      PROVE  key_out[b * BlockSize + i] = key_cache[b * BlockSize + i]
  <2>1. b * BlockSize + i \in Cell
    BY BlockCell
  <2>2. PICK t \in cloned : b * BlockSize + i \in t .. t+Vec-1
    BY <2>1, <1>0, CellThread
  <2>3. ASSUME NEW s \in Slot, NEW j \in 0 .. BlockSize-1, <<s, j>> \in copied
        PROVE  To(s, j) # b * BlockSize + i
    <3>1. pairs[s][1] >= 0
      BY <2>3 DEF IInv, CopiedInv
    <3>2. pairs[s][2] = Dst(s) /\ Dst(s) \in Blk /\ pairs[s] # Sentinel
      BY <3>1, <1>0, CopyCells DEF Sentinel
    <3>3. Dst(s) # b
      BY <3>2, <1>1
    <3> QED  BY <3>2, <3>3, CellsDiffer DEF To, Blk
  <2> QED  BY <2>1, <2>2, <2>3 DEF IInv, CloneInv
<1>2. ASSUME NEW r \in Row, NEW c \in Col, block_table[r][c] >= 0, NEW i \in 0 .. BlockSize-1
      PROVE  key_out[block_table[r][c] * BlockSize + i] =
               key_cache[block_table[IF Moves(r, c) THEN ParentRow(r) ELSE r][c] * BlockSize + i]
  <2> DEFINE s == r * MaxBlocks + c
  <2>1. s \in Slot /\ s \div MaxBlocks = r /\ s % MaxBlocks = c
    BY PlaceSlot
  <2> HIDE DEF s
  <2>2. Dst(s) = block_table[r][c] /\ Src(s) = block_table[ParentRow(r)][c]
    BY <2>1 DEF Dst, Src
  <2>3. PairOf(s) = IF parents[r] # r % BM /\ Moves(r, c) THEN <<Src(s), Dst(s)>> ELSE Sentinel
    BY <2>1, <2>2 DEF PairOf, Moves
  <2>4. Dst(s) \in Blk
    BY <2>1, <2>2, <1>0, <1>2, PairKinds DEF Blk
  <2>5. CASE parents[r] # r % BM /\ Moves(r, c)
    <3>1. pairs[s] = <<Src(s), Dst(s)>> /\ Dst(s) >= 0
      BY <2>1, <2>3, <2>4, <2>5, <1>0 DEF Blk
    <3>2. pairs[s] # Sentinel
      BY <3>1 DEF Sentinel
    <3>3. key_out[To(s, i)] = key_cache[From(s, i)]
      BY <3>2, <2>1, <1>0 DEF IInv, CopiedInv
    <3> QED  BY <3>1, <3>3, <2>2, <2>5 DEF To, From
  <2>6. CASE ~(parents[r] # r % BM /\ Moves(r, c))
    <3>1. pairs[s] = Sentinel
      BY <2>1, <2>3, <2>6, <1>0
    <3>2. \A u \in Slot : pairs[u] # Sentinel => Dst(u) # Dst(s)
      BY <3>1, <2>1, <2>2, <1>0, <1>2, DstOnce
    <3>3. key_out[Dst(s) * BlockSize + i] = key_cache[Dst(s) * BlockSize + i]
      BY <3>2, <2>4, <1>1
    <3>4. ParentRow(r) = r \/ ~Moves(r, c)
      BY <2>6, <1>0, ParentIsRow
    <3> QED  BY <3>3, <3>4, <2>2
  <2> QED  BY <2>5, <2>6
<1>3. ASSUME NEW b \in Blk \ ({block_table[r][c] : r \in Row, c \in Col} \cap Blk),
             NEW i \in 0 .. BlockSize-1
      PROVE  key_out[b * BlockSize + i] = key_cache[b * BlockSize + i]
  <2>1. \A s \in Slot : Dst(s) # b
    BY <1>3, SlotPlace DEF Dst
  <2> QED  BY <2>1, <1>1
<1> QED  BY <1>2, <1>3 DEF HoldsParentHistory

LEMMA HoldsAt ==
  ASSUME Assumed, IInv, Reordered, NEW r \in Row, NEW c \in Col, block_table[r][c] >= 0,
         Moves(r, c), NEW i \in 0 .. BlockSize-1
  PROVE  key_out[block_table[r][c] * BlockSize + i] =
           key_cache[block_table[ParentRow(r)][c] * BlockSize + i]
<1> DEFINE block(cache, b) == [k \in 0 .. BlockSize-1 |-> cache[b * BlockSize + k]]
<1>1. block(key_out, block_table[r][c]) =
        block(key_cache, block_table[IF Moves(r, c) THEN ParentRow(r) ELSE r][c])
  BY Holds DEF HoldsParentHistory
<1>2. block(key_out, block_table[r][c])[i] = block(key_cache, block_table[ParentRow(r)][c])[i]
  BY <1>1
<1> QED  BY <1>2

LEMMA StepKeeps ==
  ASSUME Assumed, IInv, [KvNext \/ \E p \in [Row -> Beam] : Receive(p)]_kvVars PROVE IInv'
<1>1. CASE \E p \in [Row -> Beam] : Receive(p)
  BY <1>1, ReceiveKeeps
<1>2. CASE \E t \in Thread : Zero(t)
  BY <1>2, ZeroKeeps
<1>3. CASE \E r \in Row : Scatter(r)
  BY <1>3, ScatterKeeps
<1>4. CASE \E s \in Slot : BuildPair(s)
  BY <1>4, BuildPairKeeps
<1>5. CASE \E t \in Thread : Clone(t)
  BY <1>5, CloneKeeps
<1>6. CASE \E s \in Slot : \E i \in 0 .. BlockSize-1 : Copy(s, i)
  <2>1. PICK s \in Slot, i \in 0 .. BlockSize-1 : Copy(s, i)
    BY <1>6
  <2>2. pairs[s] # <<>>
    BY <2>1 DEF Copy, MayCopy
  <2>3. Filled
    BY <2>2, NotMoved
  <2> QED  BY <2>1, <2>3, CopyKeeps
<1>7. CASE Gather \/ GatherRemapped \/ UNCHANGED kvVars
  BY <1>7, GatherKeeps DEF Gather, GatherRemapped, kvVars
<1> QED  BY <1>1, <1>2, <1>3, <1>4, <1>5, <1>6, <1>7 DEF KvNext

(***************************************************************************)
(* beam_reorder_kv, on a cache that kv_cache_zero and kv_cache_scatter     *)
(* filled: whatever the parents, and in whatever order the threads of the  *)
(* four dispatches run, a beam's blocks come to hold what its parent's     *)
(* held, and every other block stays as it was.                            *)
(***************************************************************************)
THEOREM ReorderHoldsHistory == ASSUME Assumed PROVE KvSpec => []HoldsParentHistory
<1>1. KvInit => IInv
  BY Initially
<1>2. ASSUME IInv, [KvNext \/ \E p \in [Row -> Beam] : Receive(p)]_kvVars PROVE IInv'
  BY <1>2, StepKeeps
<1>3. IInv => HoldsParentHistory
  BY Holds
<1> QED  BY <1>1, <1>2, <1>3, PTL DEF KvSpec
-----------------------------------------------------------------------------
(***************************************************************************)
(* The cache as kv_cache_scatter fills it, and what the two gathers read.  *)
(***************************************************************************)
ContentInv ==
  \A r \in scattered : \A p \in 0 .. seq_lens[r]-1 :
    SlotMapping(r, p) >= 0 => key_cache[SlotMapping(r, p)] = Content(r, p)

ReadInv ==
  /\ gathered # <<>> => Reordered /\ gathered = Gathered(key_out, block_table)
  /\ remapped # <<>> => Reordered /\ remapped = Gathered(key_cache, Remap)

AgreeInv == IInv /\ ContentInv /\ ReadInv

\* A token of a row lies in a column of the table.
LEMMA TokenColumn ==
  ASSUME Assumed, IInv, KvStep, NEW r \in Row, NEW p \in 0 .. seq_lens[r]-1
  PROVE  /\ p \div BlockSize \in Col /\ p % BlockSize \in 0 .. BlockSize-1
         /\ p = (p \div BlockSize) * BlockSize + (p % BlockSize)
         /\ p \div BlockSize < NumBlk(seq_lens[r])
<1>1. seq_lens[r] \in 0 .. MaxBlocks * BlockSize
  BY DEF IInv, TypeInv, Assumed, KvAssumption
<1>2. BlockSize \in Nat \ {0} /\ MaxBlocks \in Nat /\ MaxBlocks * BlockSize \in Nat
  BY Sizes
<1>3. p \in 0 .. MaxBlocks * BlockSize - 1
  BY <1>1, <1>2
<1>4. /\ p \div BlockSize \in 0 .. MaxBlocks-1 /\ p % BlockSize \in 0 .. BlockSize-1
      /\ p = (p \div BlockSize) * BlockSize + (p % BlockSize)
  BY <1>2, <1>3, RowAndColumn
<1>5. p \div BlockSize < NumBlk(seq_lens[r])
  <2> DEFINE q == p \div BlockSize  n == seq_lens[r] + BlockSize - 1  m == n \div BlockSize
  <2>1. q \in Nat /\ BlockSize * q <= p /\ p < seq_lens[r] /\ n \in Nat
    BY <1>1, <1>2, <1>4
  <2>2. m \in Nat /\ n % BlockSize \in 0 .. BlockSize-1 /\ n = BlockSize * m + (n % BlockSize)
    BY <1>2, <2>1, Division
  <2> HIDE DEF q, m
  <2>3. ~(q - m >= 0)
    <3>1. q - m >= 0 => BlockSize * (q - m) >= 0
      BY <1>2, <2>1, <2>2
    <3>2. BlockSize * (q - m) < 0
      <4>1. BlockSize * m >= seq_lens[r] /\ BlockSize * q < seq_lens[r]
        BY <1>1, <1>2, <2>1, <2>2
      <4>2. BlockSize * (q - m) = BlockSize * q - BlockSize * m
        BY <1>2, <2>1, <2>2
      <4> QED  BY <4>1, <4>2, <1>1, <1>2, <2>1, <2>2
    <3> QED  BY <3>1, <3>2, <1>2, <2>1, <2>2
  <2>4. q < m
    BY <2>1, <2>2, <2>3
  <2> QED  BY <2>4 DEF NumBlk, q, m
<1> QED  BY <1>4, <1>5 DEF Col

LEMMA SlotCell ==
  ASSUME Assumed, IInv, KvStep, NEW r \in Row, NEW p \in 0 .. seq_lens[r]-1
  PROVE  LET block == block_table[r][p \div BlockSize]
         IN  \/ /\ block \in Blk /\ block >= 0
                /\ SlotMapping(r, p) = block * BlockSize + (p % BlockSize)
                /\ SlotMapping(r, p) \in Cell /\ SlotMapping(r, p) >= 0
             \/ block = -1 /\ SlotMapping(r, p) = -1
<1> DEFINE block == block_table[r][p \div BlockSize]
<1>1. block_table[r][p \div BlockSize] \in Blk \cup {-1}
  BY TokenColumn, Tabled DEF IInv, TypeInv
<1>2. CASE block \in Blk
  <2>1. block \in Nat /\ ~(block < 0)
    BY <1>2, Sizes DEF Blk
  <2>2. block * BlockSize + (p % BlockSize) \in Cell
    BY <1>2, TokenColumn, BlockCell
  <2>3. \A i \in Cell : i >= 0
    BY Sizes DEF Cell
  <2>4. SlotMapping(r, p) = block * BlockSize + (p % BlockSize)
    BY <2>1 DEF SlotMapping
  <2> QED  BY <1>2, <2>1, <2>2, <2>3, <2>4
<1>3. CASE block = -1
  BY <1>3 DEF SlotMapping
<1> QED  BY <1>1, <1>2, <1>3

\* No two tokens share a slot.
LEMMA SlotsApart ==
  ASSUME Assumed, IInv, KvStep, NEW r \in Row, NEW p \in 0 .. seq_lens[r]-1,
         NEW q \in Row, NEW u \in 0 .. seq_lens[q]-1,
         SlotMapping(r, p) = SlotMapping(q, u), SlotMapping(r, p) >= 0
  PROVE  r = q /\ p = u
<1> DEFINE c == p \div BlockSize  d == u \div BlockSize
           x == block_table[r][c]  y == block_table[q][d]
<1>1. /\ x \in Blk /\ SlotMapping(r, p) = x * BlockSize + (p % BlockSize)
      /\ y \in Blk /\ SlotMapping(q, u) = y * BlockSize + (u % BlockSize)
  BY SlotCell DEF Blk
<1>2. /\ c \in Col /\ p % BlockSize \in 0 .. BlockSize-1 /\ p = c * BlockSize + (p % BlockSize)
      /\ d \in Col /\ u % BlockSize \in 0 .. BlockSize-1 /\ u = d * BlockSize + (u % BlockSize)
  BY TokenColumn
<1>3. x = y /\ p % BlockSize = u % BlockSize
  <2> DEFINE i == p % BlockSize  k == u % BlockSize
  <2>1. /\ x \in Nat /\ y \in Nat /\ i \in 0 .. BlockSize-1 /\ k \in 0 .. BlockSize-1
        /\ x * BlockSize + i = y * BlockSize + k
    <3>1. \A n \in Blk : n \in Nat
      BY Sizes DEF Blk
    <3> HIDE DEF x, y
    <3> QED  BY <3>1, <1>1, <1>2
  <2> HIDE DEF x, y, i, k
  <2>2. x = y /\ i = k
    BY <2>1, CellsDiffer
  <2> QED  BY <2>2 DEF i, k
<1>4. r = q /\ c = d
  BY <1>1, <1>2, <1>3, Tabled DEF IInv, TypeInv, Blk
<1> QED  BY <1>2, <1>3, <1>4

LEMMA ScatterContent ==
  ASSUME Assumed, AgreeInv, NEW r \in Row, Scatter(r) PROVE ContentInv'
<1>1. /\ KvStep /\ scattered' = scattered \cup {r} /\ UNCHANGED input
      /\ key_cache' = [i \in Cell |->
           LET here == {p \in 0 .. seq_lens[r]-1 : SlotMapping(r, p) = i}
           IN  IF here = {} THEN key_cache[i] ELSE Content(r, CHOOSE p \in here : TRUE)]
  BY DEF Scatter, MayScatter
<1>2. \A q, p : SlotMapping(q, p)' = SlotMapping(q, p)
  BY <1>1 DEF SlotMapping, input
<1> SUFFICES ASSUME NEW q \in scattered', NEW u \in 0 .. seq_lens[q]-1, SlotMapping(q, u) >= 0
             PROVE  key_cache'[SlotMapping(q, u)] = Content(q, u)
  <2>1. seq_lens' = seq_lens /\ \A q, u : Content(q, u)' = Content(q, u)
    BY <1>1 DEF input, Content
  <2>2. ContentInv' <=> \A q \in scattered' : \A u \in 0 .. seq_lens'[q]-1 :
          SlotMapping(q, u)' >= 0 => key_cache'[SlotMapping(q, u)'] = Content(q, u)'
    BY DEF ContentInv
  <2> QED  BY <1>2, <2>1, <2>2
<1>3. q \in Row /\ SlotMapping(q, u) \in Cell
  <2>1. q \in Row
    BY <1>1 DEF AgreeInv, IInv, TypeInv
  <2> QED  BY <2>1, <1>1, SlotCell DEF AgreeInv
<1> DEFINE here == {p \in 0 .. seq_lens[r]-1 : SlotMapping(r, p) = SlotMapping(q, u)}
<1>4. key_cache'[SlotMapping(q, u)] =
        IF here = {} THEN key_cache[SlotMapping(q, u)] ELSE Content(r, CHOOSE p \in here : TRUE)
  BY <1>1, <1>3
<1>5. \A p \in here : r = q /\ p = u
  BY <1>1, <1>3, SlotsApart DEF AgreeInv
<1>6. CASE q = r
  <2>1. here = {u}
    BY <1>5, <1>6
  <2> QED  BY <2>1, <1>4, <1>6
<1>7. CASE q # r
  <2>1. here = {} /\ q \in scattered
    BY <1>1, <1>5, <1>7
  <2> QED  BY <2>1, <1>4 DEF AgreeInv, ContentInv
<1> QED  BY <1>6, <1>7

(***************************************************************************)
(* What has been gathered stays true: nothing moves after Reordered.       *)
(***************************************************************************)
LEMMA NothingMovesAfter ==
  ASSUME Assumed, IInv, Reordered
  PROVE  /\ KvStep
         /\ \A t \in Thread : ~Zero(t) /\ ~Clone(t)
         /\ \A r \in Row : ~Scatter(r)
         /\ \A s \in Slot : ~BuildPair(s)
         /\ \A s \in Slot, i \in 0 .. BlockSize-1 : ~Copy(s, i)
<1>1. /\ KvStep /\ scattered = Row /\ cloned = Thread /\ Row # {}
      /\ \A s \in Slot : pairs[s] # <<>>
  BY Sizes DEF Reordered, Filled, MayCopy
<1>2. zeroed = Thread
  BY <1>1 DEF IInv, StageInv
<1>3. \A s \in Slot, i \in 0 .. BlockSize-1 : ~Copy(s, i)
  <2> SUFFICES ASSUME NEW s \in Slot, NEW i \in 0 .. BlockSize-1, Copy(s, i)
               PROVE  FALSE
    OBVIOUS
  <2>1. pairs[s] # Sentinel /\ <<s, i>> \notin copied
    BY DEF Copy, Sentinel
  <2> QED  BY <2>1 DEF Reordered
<1> QED  BY <1>1, <1>2, <1>3 DEF Zero, Clone, Scatter, BuildPair

\* Gathered as a function of the prefix sums, and these as a function of the lengths.
SumsOf(lens) == [r \in 0 .. B*BM |-> SumFunctionOnSet(lens, 0 .. r-1)]

BatchIn(cu, tok) ==
  LET search[bounds \in (0 .. B*BM) \X (0 .. B*BM)] ==
        LET lo  == bounds[1]
            hi  == bounds[2]
            mid == (lo + hi + 1) \div 2
        IN  IF lo = hi THEN lo
            ELSE IF cu[mid] <= tok THEN search[<<mid, hi>>] ELSE search[<<lo, mid-1>>]
  IN  search[<<0, B*BM>>]

GatheredOf(cu, cache, table) ==
  [tok \in 0 .. cu[B*BM]-1 |->
     LET r     == BatchIn(cu, tok)
         local == tok - cu[r]
         block == table[r][local \div BlockSize]
     IN  IF block < 0 THEN 0 ELSE cache[block * BlockSize + (local % BlockSize)]]

LEMMA CuIsSums == CuSeqLens = SumsOf(seq_lens)
BY DEF CuSeqLens, SumsOf, SumFunctionOnSet, FoldFunctionOnSet, MapThenFoldSet

ReadBySums ==
  /\ CuSeqLens = SumsOf(seq_lens)
  /\ Gathered(key_out, block_table) = GatheredOf(CuSeqLens, key_out, block_table)
  /\ Gathered(key_cache, Remap) = GatheredOf(CuSeqLens, key_cache, Remap)

LEMMA GatheredBySums == ReadBySums
BY CuIsSums DEF ReadBySums, Gathered, GatheredOf, BatchOf, BatchIn

LEMMA ReadKeeps ==
  ASSUME Assumed, AgreeInv, [KvNext \/ \E p \in [Row -> Beam] : Receive(p)]_kvVars
  PROVE  ReadInv'
<1>1. CASE ~Reordered
  <2>1. gathered = <<>> /\ remapped = <<>>
    BY <1>1 DEF AgreeInv, ReadInv
  <2>2. ~Gather /\ ~GatherRemapped
    BY <1>1 DEF Gather, GatherRemapped
  <2>3. UNCHANGED read
    BY <2>2 DEF KvNext, Receive, Zero, Scatter, BuildPair, Clone, Copy, kvVars
  <2> QED  BY <2>1, <2>3 DEF ReadInv, read
<1>2. CASE Reordered
  <2>1. Gather \/ GatherRemapped \/ UNCHANGED kvVars
    BY <1>2, NothingMovesAfter DEF KvNext, Receive, AgreeInv
  <2>2. UNCHANGED <<input, filled, moved>>
    BY <2>1 DEF Gather, GatherRemapped, kvVars
  <2>3. Reordered'
    BY <1>2, <2>2 DEF Reordered, Filled, KvStep, MayCopy, input, filled, moved
  <2>4. /\ Gathered(key_out, block_table)' = Gathered(key_out, block_table)
        /\ Gathered(key_cache, Remap)' = Gathered(key_cache, Remap)
    <3>1. /\ Gathered(key_out, block_table)' = GatheredOf(CuSeqLens', key_out', block_table')
          /\ Gathered(key_cache, Remap)' = GatheredOf(CuSeqLens', key_cache', Remap')
          /\ CuSeqLens' = SumsOf(seq_lens')
      <4>1. ReadBySums'
        BY GatheredBySums, PTL
      <4> QED  BY <4>1 DEF ReadBySums
    <3>2. Remap' = Remap
      BY <2>2 DEF Remap, ParentRow, input
    <3> QED  BY <2>2, <3>1, <3>2, GatheredBySums DEF input, filled, moved, ReadBySums
  <2> QED  BY <2>1, <2>3, <2>4 DEF Gather, GatherRemapped, kvVars, read, AgreeInv, ReadInv
<1> QED  BY <1>1, <1>2

LEMMA ContentKeeps ==
  ASSUME Assumed, AgreeInv, [KvNext \/ \E p \in [Row -> Beam] : Receive(p)]_kvVars
  PROVE  ContentInv'
<1>1. CASE \E r \in Row : Scatter(r)
  BY <1>1, ScatterContent
<1>2. CASE (\E p \in [Row -> Beam] : Receive(p)) \/ (\E t \in Thread : Zero(t))
  <2>1. scattered = {}
    BY <1>2, Sizes DEF Receive, Zero, AgreeInv, IInv, StageInv
  <2> QED  BY <1>2, <2>1 DEF Receive, Zero, filled, ContentInv
<1>3. CASE UNCHANGED <<input, filled>>
  BY <1>3 DEF input, filled, AgreeInv, ContentInv, SlotMapping
<1> QED  BY <1>1, <1>2, <1>3 DEF KvNext, BuildPair, Clone, Copy, Gather, GatherRemapped, kvVars
-----------------------------------------------------------------------------
(***************************************************************************)
(* The search of kv_cache_gather finds the sequence of a token, empty      *)
(* sequences before and after it notwithstanding.                          *)
(***************************************************************************)
LEMMA CuFacts ==
  ASSUME Assumed, IInv, KvStep
  PROVE  /\ \A n \in 0 .. B*BM : CuSeqLens[n] \in Nat
         /\ \A r \in Row : CuSeqLens[r+1] = CuSeqLens[r] + seq_lens[r]
         /\ \A n \in 0 .. B*BM : \A m \in 0 .. n : CuSeqLens[m] <= CuSeqLens[n]
<1>1. /\ B*BM \in Nat /\ Row = 0 .. B*BM-1 /\ \A r \in Row : seq_lens[r] \in Nat
      /\ \A n \in 0 .. B*BM : CuSeqLens[n] = SumFunctionOnSet(seq_lens, 0 .. n-1)
  BY Sizes, CuIsSums DEF SumsOf, IInv, TypeInv, Row
<1>2. ASSUME NEW n \in 0 .. B*BM
      PROVE  IsFiniteSet(0 .. n-1) /\ \A x \in 0 .. n-1 : seq_lens[x] \in Nat
  BY <1>1, FS_Interval
<1>3. \A n \in 0 .. B*BM : CuSeqLens[n] \in Nat
  BY <1>1, <1>2, SumNat
<1>4. ASSUME NEW r \in Row PROVE CuSeqLens[r+1] = CuSeqLens[r] + seq_lens[r]
  <2> DEFINE S == 0 .. r-1
  <2>1. /\ r \in 0 .. B*BM /\ r+1 \in 0 .. B*BM /\ r \notin S
        /\ 0 .. (r+1)-1 = S \cup {r}
    BY <1>1
  <2>2. IsFiniteSet(S) /\ \A x \in S \cup {r} : seq_lens[x] \in Nat
    BY <1>2, <2>1
  <2>3. SumFunctionOnSet(seq_lens, S \cup {r}) = SumFunctionOnSet(seq_lens, S) + seq_lens[r]
    <3> HIDE DEF S
    <3> QED  BY <2>1, <2>2, SumAdd
  <2>4. CuSeqLens[r+1] = SumFunctionOnSet(seq_lens, S \cup {r})
    <3>1. CuSeqLens[r+1] = SumFunctionOnSet(seq_lens, 0 .. (r+1)-1)
      BY <1>1, <2>1
    <3> QED  BY <3>1, <2>1
  <2>5. CuSeqLens[r] = SumFunctionOnSet(seq_lens, S)
    BY <1>1, <2>1
  <2> QED  BY <2>3, <2>4, <2>5
<1>5. ASSUME NEW n \in 0 .. B*BM, NEW m \in 0 .. n PROVE CuSeqLens[m] <= CuSeqLens[n]
  <2> DEFINE S == 0 .. n-1  T == 0 .. m-1
  <2>1. m \in 0 .. B*BM /\ T \in SUBSET S /\ IsFiniteSet(S)
        /\ \A x \in S : seq_lens[x] \in Nat
    BY <1>1, <1>2
  <2>2. CuSeqLens[n] = SumFunctionOnSet(seq_lens, S) /\ CuSeqLens[m] = SumFunctionOnSet(seq_lens, T)
    BY <1>1, <2>1
  <2> HIDE DEF S, T
  <2>3. /\ SumFunctionOnSet(seq_lens, S) =
             SumFunctionOnSet(seq_lens, T) + SumFunctionOnSet(seq_lens, S \ T)
        /\ IsFiniteSet(S \ T)
    BY <2>1, SumUnion, FS_Subset
  <2>4. SumFunctionOnSet(seq_lens, S \ T) \in Nat
    BY <2>1, <2>3, SumNat
  <2>5. CuSeqLens[m] \in Nat
    BY <1>3, <2>1
  <2> QED  BY <2>2, <2>3, <2>4, <2>5
<1> QED  BY <1>3, <1>4, <1>5

\* Where the search goes on from the bounds lo and hi, in steps of f.
Bounds == (0 .. B*BM) \X (0 .. B*BM)

Halve(f, tok, lo, hi) ==
  LET mid == (lo + hi + 1) \div 2
  IN  IF lo = hi THEN lo
      ELSE IF CuSeqLens[mid] <= tok THEN f[<<mid, hi>>] ELSE f[<<lo, mid-1>>]

Halving(f, tok) == f = [x \in Bounds |-> Halve(f, tok, x[1], x[2])]

LEMMA BatchIsHalving == \A tok : BatchOf(tok) = (CHOOSE f : Halving(f, tok))[<<0, B*BM>>]
BY DEF BatchOf, Halving, Halve, Bounds

LEMMA Middle ==
  ASSUME NEW lo \in Nat, NEW hi \in Nat, lo # hi
  PROVE  LET mid == (lo + hi + 1) \div 2
         IN  /\ mid \in Nat /\ mid >= 1 /\ (mid <= lo \/ mid <= hi)
             /\ lo < hi => lo < mid /\ mid <= hi
             /\ lo > hi => hi < mid /\ mid <= lo
OBVIOUS

LEMMA BatchFound ==
  ASSUME Assumed, IInv, KvStep, NEW r \in Row, NEW tok \in Nat,
         CuSeqLens[r] <= tok, tok < CuSeqLens[r+1]
  PROVE  BatchOf(tok) = r
<1> DEFINE N == B*BM
<1>1. N \in Nat /\ r \in 0 .. N-1 /\ r \in Nat
  BY Sizes DEF Row
<1>2. ASSUME NEW x \in 0 .. N PROVE CuSeqLens[x] <= tok <=> x <= r
  <2>1. CuSeqLens[x] \in Nat /\ CuSeqLens[r] \in Nat /\ CuSeqLens[r+1] \in Nat
    BY <1>1, CuFacts
  <2>2. CASE x <= r
    <3>1. CuSeqLens[x] <= CuSeqLens[r]
      BY <2>2, <1>1, CuFacts
    <3> QED  BY <3>1, <2>1, <2>2
  <2>3. CASE ~(x <= r)
    <3>1. CuSeqLens[r+1] <= CuSeqLens[x]
      <4>1. r+1 \in 0 .. x
        BY <2>3, <1>1
      <4> QED  BY <4>1, CuFacts
    <3> QED  BY <3>1, <2>1, <2>3
  <2> QED  BY <2>2, <2>3
<1> HIDE DEF N
<1> DEFINE Mid(f, lo, hi, mid) ==
             /\ mid \in 0 .. N /\ mid - 1 \in 0 .. N
             /\ lo < hi => lo < mid /\ mid <= hi
             /\ lo > hi => hi < mid /\ mid <= lo
             /\ Halve(f, tok, lo, hi) = IF mid <= r THEN f[<<mid, hi>>] ELSE f[<<lo, mid-1>>]
<1>3. ASSUME NEW f, NEW lo \in 0 .. N, NEW hi \in 0 .. N, lo # hi
      PROVE  \E mid : Mid(f, lo, hi, mid)
  <2> DEFINE mid == (lo + hi + 1) \div 2
  <2>1. /\ mid \in 0 .. N /\ mid - 1 \in 0 .. N
        /\ lo < hi => lo < mid /\ mid <= hi
        /\ lo > hi => hi < mid /\ mid <= lo
    BY <1>1, <1>3, Middle
  <2>2. Halve(f, tok, lo, hi) = IF CuSeqLens[mid] <= tok THEN f[<<mid, hi>>] ELSE f[<<lo, mid-1>>]
    BY <1>3 DEF Halve
  <2> HIDE DEF mid
  <2>3. Mid(f, lo, hi, mid)
    BY <2>1, <2>2, <1>2
  <2> HIDE DEF Mid
  <2> QED  BY <2>3
<1> HIDE DEF Mid
\* The answer, r as far as the bounds allow.
<1> DEFINE Clamp(lo, hi) == IF lo > hi THEN 0 ELSE IF r < lo THEN lo ELSE IF r > hi THEN hi ELSE r
<1>4. \E f : Halving(f, tok)
  <2> DEFINE f == [x \in Bounds |-> Clamp(x[1], x[2])]
  <2>1. \A lo, hi \in 0 .. N : f[<<lo, hi>>] = Clamp(lo, hi)
    <3> HIDE DEF Clamp
    <3> QED  BY DEF Bounds, N
  <2> HIDE DEF f
  <2>2. ASSUME NEW lo \in 0 .. N, NEW hi \in 0 .. N
        PROVE  Halve(f, tok, lo, hi) = Clamp(lo, hi)
    <3>1. CASE lo = hi
      BY <3>1, <1>1 DEF Halve
    <3>2. CASE lo # hi
      <4>0. PICK mid : Mid(f, lo, hi, mid)
        BY <3>2, <1>3
      <4>1. /\ mid \in 0 .. N /\ mid - 1 \in 0 .. N
            /\ lo < hi => lo < mid /\ mid <= hi
            /\ lo > hi => hi < mid /\ mid <= lo
            /\ Halve(f, tok, lo, hi) = IF mid <= r THEN f[<<mid, hi>>] ELSE f[<<lo, mid-1>>]
        BY <4>0 DEF Mid
      <4>2. CASE mid <= r
        <5>1. Halve(f, tok, lo, hi) = Clamp(mid, hi)
          BY <4>1, <4>2, <2>1
        <5> QED  BY <5>1, <4>1, <4>2, <3>2, <1>1
      <4>3. CASE ~(mid <= r)
        <5>1. Halve(f, tok, lo, hi) = Clamp(lo, mid-1)
          BY <4>1, <4>3, <2>1
        <5> QED  BY <5>1, <4>1, <4>3, <3>2, <1>1
      <4> QED  BY <4>2, <4>3
    <3> QED  BY <3>1, <3>2
  <2>3. f = [x \in Bounds |-> Clamp(x[1], x[2])]
    BY DEF f
  <2>4. \A x \in Bounds : Clamp(x[1], x[2]) = Halve(f, tok, x[1], x[2])
    <3> HIDE DEF Clamp
    <3> QED  BY <2>2 DEF Bounds, N
  <2>5. Halving(f, tok)
    <3> HIDE DEF Clamp
    <3> QED  BY <2>3, <2>4 DEF Halving
  <2> QED  BY <2>5
<1>5. PICK f : Halving(f, tok) /\ BatchOf(tok) = f[<<0, N>>]
  <2>1. Halving(CHOOSE f : Halving(f, tok), tok)
    BY <1>4
  <2> QED  BY <2>1, BatchIsHalving DEF N
<1>6. ASSUME NEW lo \in 0 .. N, NEW hi \in 0 .. N
      PROVE  f[<<lo, hi>>] = Halve(f, tok, lo, hi)
  BY <1>5 DEF Halving, Bounds, N
<1> DEFINE S == {n \in 0 .. N : \A lo, hi \in 0 .. N :
                   lo <= r /\ r <= hi /\ hi - lo = n => f[<<lo, hi>>] = r}
<1>7. ASSUME NEW n \in 0 .. N, \A k \in 0 .. n-1 : k \in S PROVE n \in S
  <2> SUFFICES ASSUME NEW lo \in 0 .. N, NEW hi \in 0 .. N, lo <= r, r <= hi, hi - lo = n
               PROVE  f[<<lo, hi>>] = r
    OBVIOUS
  <2>1. CASE lo = hi
    <3>1. lo = r /\ Halve(f, tok, lo, hi) = lo
      BY <2>1, <1>1 DEF Halve
    <3> QED  BY <3>1, <1>6
  <2>2. CASE lo # hi
    <3>0. PICK mid : Mid(f, lo, hi, mid)
      BY <2>2, <1>3
    <3>1. /\ mid \in 0 .. N /\ mid - 1 \in 0 .. N
          /\ lo < hi => lo < mid /\ mid <= hi
          /\ Halve(f, tok, lo, hi) = IF mid <= r THEN f[<<mid, hi>>] ELSE f[<<lo, mid-1>>]
      BY <3>0 DEF Mid
    <3>2. lo < mid /\ mid <= hi
      BY <3>1, <2>2, <1>1
    <3>3. CASE mid <= r
      <4>1. hi - mid \in 0 .. n-1
        BY <3>1, <3>2
      <4>2. f[<<mid, hi>>] = r
        BY <4>1, <3>1, <3>3, <1>7
      <4> QED  BY <3>1, <3>3, <4>2, <1>6
    <3>4. CASE ~(mid <= r)
      <4>1. mid - 1 - lo \in 0 .. n-1 /\ r <= mid - 1
        BY <3>1, <3>2, <3>4, <1>1
      <4>2. f[<<lo, mid - 1>>] = r
        BY <4>1, <3>1, <3>4, <1>7
      <4> QED  BY <3>1, <3>4, <4>2, <1>6
    <3> QED  BY <3>3, <3>4
  <2> QED  BY <2>1, <2>2
<1>8. N \in S
  <2> HIDE DEF S
  <2>1. 0 .. N \subseteq S
    BY <1>1, <1>7, IntervalInduction
  <2> QED  BY <2>1, <1>1
<1>9. f[<<0, N>>] = r
  BY <1>1, <1>8
<1> QED  BY <1>5, <1>9
-----------------------------------------------------------------------------
\* What a gather writes for token p of row r.
LEMMA GatheredAt ==
  ASSUME Assumed, IInv, KvStep, NEW r \in Row, NEW p \in 0 .. seq_lens[r]-1,
         NEW cache, NEW table
  PROVE  LET block == table[r][p \div BlockSize]
         IN  Gathered(cache, table)[CuSeqLens[r] + p] =
               IF block < 0 THEN 0 ELSE cache[block * BlockSize + (p % BlockSize)]
<1> DEFINE tok == CuSeqLens[r] + p  N == B*BM
<1>1. /\ N \in Nat /\ r \in 0 .. N-1 /\ seq_lens[r] \in Nat
  BY Sizes DEF IInv, TypeInv, Row
<1>2. /\ CuSeqLens[r] \in Nat /\ CuSeqLens[r+1] = CuSeqLens[r] + seq_lens[r]
      /\ CuSeqLens[N] \in Nat /\ CuSeqLens[r+1] <= CuSeqLens[N]
  <2>1. r+1 \in 0 .. N /\ N \in 0 .. N
    BY <1>1
  <2> QED  BY <2>1, <1>1, CuFacts DEF Row
<1>3. tok \in 0 .. CuSeqLens[N] - 1 /\ CuSeqLens[r] <= tok /\ tok < CuSeqLens[r+1] /\ tok \in Nat
      /\ tok - CuSeqLens[r] = p
  BY <1>1, <1>2
<1>4. BatchOf(tok) = r
  <2> HIDE DEF tok
  <2> QED  BY <1>3, BatchFound
<1> HIDE DEF tok
<1>5. Gathered(cache, table)[tok] =
        LET s     == BatchOf(tok)
            local == tok - CuSeqLens[s]
            block == table[s][local \div BlockSize]
        IN  IF block < 0 THEN 0 ELSE cache[block * BlockSize + (local % BlockSize)]
  BY <1>3 DEF Gathered
<1> QED  BY <1>3, <1>4, <1>5 DEF tok

LEMMA Agrees == ASSUME Assumed, AgreeInv PROVE CopyAgreesWithRemap
<1> SUFFICES ASSUME Filled, NEW r \in Row, NEW p \in 0 .. seq_lens[r]-1
             PROVE  LET plain == /\ \A x, q \in Row : seq_lens[x] = seq_lens[q]
                                 /\ \A x \in Row, c \in Col :
                                      c < NumBlk(seq_lens[x]) => block_table[x][c] >= 0
                        slot == SlotMapping(r, p)
                        tok  == CuSeqLens[r] + p
                    IN  /\ slot >= 0 => key_cache[slot] = Content(r, p)
                        /\ gathered # <<>> => gathered[tok] = (IF slot < 0 THEN 0 ELSE key_out[slot])
                        /\ plain => \A found \in {gathered, remapped} \ {<<>>} :
                                      found[tok] = Content(ParentRow(r), p)
  BY DEF CopyAgreesWithRemap
<1> DEFINE slot == SlotMapping(r, p)
           tok  == CuSeqLens[r] + p
           c    == p \div BlockSize
           i    == p % BlockSize
           m    == ParentRow(r)
<1>1. KvStep /\ IInv /\ scattered = Row
  BY DEF Filled, AgreeInv
<1>2. /\ c \in Col /\ i \in 0 .. BlockSize-1 /\ c < NumBlk(seq_lens[r]) /\ m \in Row
  BY <1>1, TokenColumn, ParentIsRow
<1>3. \/ /\ block_table[r][c] \in Blk /\ block_table[r][c] >= 0 /\ ~(block_table[r][c] < 0)
         /\ slot = block_table[r][c] * BlockSize + i /\ ~(slot < 0)
      \/ block_table[r][c] < 0 /\ ~(block_table[r][c] >= 0) /\ slot < 0
  <2>1. \A b \in Blk : b \in Int
    BY Sizes DEF Blk
  <2>2. \A b \in Cell : b \in Int
    BY Sizes DEF Cell
  <2> QED  BY <1>1, <2>1, <2>2, SlotCell
<1>4. slot >= 0 => key_cache[slot] = Content(r, p)
  BY <1>1 DEF AgreeInv, ContentInv
<1>5. gathered # <<>> => gathered[tok] = (IF slot < 0 THEN 0 ELSE key_out[slot])
  <2>1. SUFFICES ASSUME gathered # <<>>
                 PROVE  gathered[tok] = (IF slot < 0 THEN 0 ELSE key_out[slot])
    OBVIOUS
  <2>2. gathered = Gathered(key_out, block_table)
    BY <2>1 DEF AgreeInv, ReadInv
  <2>3. gathered[tok] = IF block_table[r][c] < 0 THEN 0 ELSE key_out[block_table[r][c] * BlockSize + i]
    BY <1>1, <2>2, GatheredAt
  <2> QED  BY <2>3, <1>3
<1>6. ASSUME /\ \A x, q \in Row : seq_lens[x] = seq_lens[q]
             /\ \A x \in Row, d \in Col : d < NumBlk(seq_lens[x]) => block_table[x][d] >= 0,
             NEW found \in {gathered, remapped} \ {<<>>}
      PROVE  found[tok] = Content(m, p)
  <2>1. p \in 0 .. seq_lens[m]-1 /\ block_table[r][c] >= 0 /\ block_table[m][c] >= 0
    BY <1>2, <1>6
  <2>2. /\ block_table[m][c] \in Blk /\ ~(block_table[m][c] < 0)
        /\ SlotMapping(m, p) = block_table[m][c] * BlockSize + i /\ SlotMapping(m, p) >= 0
    <3>1. \A b \in Blk : b \in Int
      BY Sizes DEF Blk
    <3> QED  BY <1>1, <1>2, <2>1, <3>1, SlotCell
  <2>3. key_cache[block_table[m][c] * BlockSize + i] = Content(m, p)
    BY <1>1, <1>2, <2>1, <2>2 DEF AgreeInv, ContentInv
  <2>4. CASE found = gathered
    <3>1. Reordered /\ gathered # <<>>
      BY <2>4, <1>6 DEF AgreeInv, ReadInv
    <3>2. Moves(r, c)
      BY <1>2, <2>1 DEF Moves
    <3>3. key_out[block_table[r][c] * BlockSize + i] = key_cache[block_table[m][c] * BlockSize + i]
      BY <1>1, <1>2, <2>1, <3>1, <3>2, HoldsAt
    <3>4. slot = block_table[r][c] * BlockSize + i /\ ~(slot < 0)
      BY <1>3, <2>1
    <3>5. gathered[tok] = key_out[slot]
      BY <1>5, <3>1, <3>4
    <3> QED  BY <2>3, <2>4, <3>3, <3>4, <3>5
  <2>5. CASE found = remapped
    <3>1. remapped = Gathered(key_cache, Remap)
      BY <2>5, <1>6 DEF AgreeInv, ReadInv
    <3>2. remapped[tok] = IF Remap[r][c] < 0 THEN 0 ELSE key_cache[Remap[r][c] * BlockSize + i]
      BY <1>1, <3>1, GatheredAt
    <3>3. Remap[r] = block_table[m]
      BY DEF Remap
    <3> QED  BY <2>2, <2>3, <2>5, <3>2, <3>3
  <2> QED  BY <1>6, <2>4, <2>5
<1> QED  BY <1>4, <1>5, <1>6

(***************************************************************************)
(* beam_reorder_kv and beam_remap_block_table are interchangeable: every   *)
(* token of the filled cache is in its slot, whatever has been gathered is *)
(* what the slots hold, and for beams of one length whose blocks are       *)
(* allocated both gathers read the parents' tokens.                        *)
(***************************************************************************)
THEOREM CopyIsRemap == ASSUME Assumed PROVE KvSpec => []CopyAgreesWithRemap
<1>1. KvInit => AgreeInv
  BY Initially DEF KvInit, AgreeInv, ContentInv, ReadInv
<1>2. ASSUME AgreeInv, [KvNext \/ \E p \in [Row -> Beam] : Receive(p)]_kvVars PROVE AgreeInv'
  BY <1>2, StepKeeps, ContentKeeps, ReadKeeps DEF AgreeInv
<1>3. AgreeInv => CopyAgreesWithRemap
  BY Agrees
<1> QED  BY <1>1, <1>2, <1>3, PTL DEF KvSpec
-----------------------------------------------------------------------------
(***************************************************************************)
(* Beam search: one pass of each lane over its slice of a row.             *)
(***************************************************************************)
AdvanceAssumed == TopKAssumption /\ WidthAssumption /\ BeamAssumption

LEMMA AdvanceSizes ==
  ASSUME AdvanceAssumed
  PROVE  /\ BM \in Nat \ {0} /\ Slots \in Nat \ {0} /\ V \in Nat \ {0}
         /\ BM <= Slots /\ Slots <= V /\ 0 \in Beam
BY DEF AdvanceAssumed, WidthAssumption, BeamAssumption, Beam

Finite(row) == \A t \in Token : row[t] \in Int /\ row[t] > NegInf

Place == 1 .. Slots

(***************************************************************************)
(* After i tokens lane l keeps, of those of its slice, Slots that none of  *)
(* the others exceeds.                                                     *)
(***************************************************************************)
KeepsBest(row, l, i, kept) ==
  /\ kept \in [Place -> Pair]
  /\ \A j \in Place : \/ kept[j] = NoPair
                      \/ /\ kept[j].id \in 0 .. i-1 /\ kept[j].id % W = l
                         /\ kept[j].v = row[kept[j].id]
  /\ \A j, k \in Place : kept[j].id = kept[k].id /\ kept[j].id # NoId => j = k
  /\ \A t \in 0 .. i-1 : t % W = l =>
       \/ \E j \in Place : kept[j].id = t
       \/ \A j \in Place : kept[j].v >= row[t]

LEMMA WeakestIs ==
  ASSUME AdvanceAssumed, NEW kept \in [Place -> Pair]
  PROVE  Weakest(kept) \in Place /\ \A q \in Place : kept[Weakest(kept)].v <= kept[q].v
<1> DEFINE under(p, q) == kept[p].v < kept[q].v \/ (kept[p].v = kept[q].v /\ p <= q)
           Good == {n \in 0 .. Slots : n = 0 \/ \E p \in 1 .. n : \A q \in 1 .. n : under(p, q)}
<1>1. Slots \in Nat \ {0}
  BY AdvanceSizes
<1>2. \A q \in Place : kept[q].v \in Int
  BY DEF Pair
<1>3. ASSUME NEW n \in 0 .. Slots, \A k \in 0 .. n-1 : k \in Good PROVE n \in Good
  <2>1. CASE n = 0
    BY <2>1
  <2>2. CASE n # 0
    <3>1. n-1 \in Good /\ n \in Place /\ 1 .. n \subseteq Place /\ n \in 1 .. n
      <4>1. n-1 \in 0 .. n-1 /\ n \in Place /\ 1 .. n \subseteq Place /\ n \in 1 .. n
        BY <2>2, <1>1 DEF Place
      <4> HIDE DEF Good
      <4> QED  BY <4>1, <1>3
    <3>2. CASE n = 1
      BY <3>1, <3>2, <1>2
    <3>3. CASE n # 1
      <4>1. PICK p \in 1 .. n-1 : \A q \in 1 .. n-1 : under(p, q)
        BY <3>1, <3>3
      <4>2. p \in 1 .. n /\ p \in Place /\ kept[p].v \in Int /\ kept[n].v \in Int
        BY <3>1, <4>1, <1>2
      <4>3. CASE kept[n].v < kept[p].v
        <5>1. \A q \in 1 .. n : under(n, q)
          <6>1. ASSUME NEW q \in 1 .. n PROVE under(n, q)
            <7>1. CASE q = n
              BY <7>1, <4>2
            <7>2. CASE q # n
              <8>1. q \in 1 .. n-1 /\ kept[q].v \in Int
                BY <7>2, <3>1, <1>2
              <8> QED  BY <8>1, <4>1, <4>2, <4>3
            <7> QED  BY <7>1, <7>2
          <6> QED  BY <6>1
        <5> HIDE DEF under
        <5> QED  BY <5>1, <3>1
      <4>4. CASE ~(kept[n].v < kept[p].v)
        <5>1. \A q \in 1 .. n : under(p, q)
          <6>1. ASSUME NEW q \in 1 .. n PROVE under(p, q)
            <7>1. CASE q = n
              BY <7>1, <4>1, <4>2, <4>4
            <7>2. CASE q # n
              <8>1. q \in 1 .. n-1
                BY <7>2
              <8> QED  BY <8>1, <4>1
            <7> QED  BY <7>1, <7>2
          <6> QED  BY <6>1
        <5> HIDE DEF under
        <5> QED  BY <5>1, <4>2
      <4> QED  BY <4>3, <4>4
    <3> QED  BY <3>2, <3>3
  <2> QED  BY <2>1, <2>2
<1>4. \E p \in Place : \A q \in Place : under(p, q)
  <2> HIDE DEF Good
  <2>1. Slots \in Good
    BY <1>1, <1>3, IntervalInduction
  <2> USE DEF Good
  <2> HIDE DEF under
  <2> QED  BY <2>1, <1>1 DEF Place
<1>5. Weakest(kept) = CHOOSE p \in Place : \A q \in Place : under(p, q)
  BY DEF Weakest
<1>6. Weakest(kept) \in Place /\ \A q \in Place : under(Weakest(kept), q)
  <2> HIDE DEF under
  <2> QED  BY <1>4, <1>5
<1> QED  BY <1>6, <1>2

Replacing(row, l, kept, i) ==
  IF (i-1) % W = l /\ row[i-1] > kept[Weakest(kept)].v
  THEN [kept EXCEPT ![Weakest(kept)] = [v |-> row[i-1], id |-> i-1]] ELSE kept

LEMMA KeptStep ==
  ASSUME AdvanceAssumed, NEW row, Finite(row), NEW l \in Lane, NEW i \in 1 .. V,
         NEW kept, KeepsBest(row, l, i-1, kept)
  PROVE  KeepsBest(row, l, i, Replacing(row, l, kept, i))
<1> DEFINE p == Weakest(kept)
           u == i-1
           new == [kept EXCEPT ![p] = [v |-> row[u], id |-> u]]
<1>1. i \in Nat /\ u \in Token /\ u \in 0 .. i-1 /\ u \in Nat /\ row[u] \in Int /\ row[u] > NegInf
  BY AdvanceSizes DEF Finite, Token
<1>2. /\ kept \in [Place -> Pair] /\ p \in Place /\ \A q \in Place : kept[p].v <= kept[q].v
      /\ \A q \in Place : kept[q].v \in Int /\ kept[q].id \in Int
  BY WeakestIs DEF KeepsBest, Pair
<1>3. \A t \in 0 .. u-1 : t \in 0 .. i-1 /\ t # u /\ row[t] \in Int /\ row[t] > NegInf
  <2>1. \A t \in 0 .. u-1 : t \in 0 .. i-1 /\ t # u /\ t \in Token
    BY <1>1, AdvanceSizes DEF Token
  <2> HIDE DEF u
  <2> QED  BY <2>1 DEF Finite
<1>4. \A t \in 0 .. i-1 : t = u \/ t \in 0 .. u-1
  BY <1>1
<1>5. \A q \in Place : kept[q].id # u
  BY <1>1 DEF KeepsBest, NoPair, NoId
<1>6. CASE u % W = l /\ row[u] > kept[p].v
  <2>1. Replacing(row, l, kept, i) = new
    BY <1>6 DEF Replacing
  <2>2. /\ new \in [Place -> Pair]
        /\ new[p] = [v |-> row[u], id |-> u]
        /\ \A q \in Place \ {p} : new[q] = kept[q]
    BY <1>1, <1>2 DEF Pair
  <2> HIDE DEF p, u, new
  <2>3. \A j \in Place : \/ new[j] = NoPair
                         \/ /\ new[j].id \in 0 .. i-1 /\ new[j].id % W = l
                            /\ new[j].v = row[new[j].id]
    <3>1. ASSUME NEW j \in Place, j # p
          PROVE  new[j] = NoPair \/ (new[j].id \in 0 .. i-1 /\ new[j].id % W = l
                                     /\ new[j].v = row[new[j].id])
      BY <3>1, <2>2, <1>3 DEF KeepsBest, u
    <3> QED  BY <3>1, <2>2, <1>1, <1>6
  <2>4. \A j, k \in Place : new[j].id = new[k].id /\ new[j].id # NoId => j = k
    BY <2>2, <1>5 DEF KeepsBest
  <2>5. ASSUME NEW t \in 0 .. i-1, t % W = l, \A j \in Place : new[j].id # t
        PROVE  \A j \in Place : new[j].v >= row[t]
    <3>1. t # u /\ t \in 0 .. u-1 /\ row[t] \in Int
      BY <2>2, <2>5, <1>2, <1>3, <1>4
    <3>2. CASE kept[p].id = t
      <4>1. kept[p].v = row[t]
        BY <3>1, <3>2, <1>2 DEF KeepsBest, NoPair, NoId
      <4> QED  BY <4>1, <3>1, <2>2, <1>1, <1>2, <1>6
    <3>3. CASE kept[p].id # t
      <4>1. \A j \in Place : kept[j].id # t
        BY <3>3, <2>2, <2>5
      <4>2. \A j \in Place : kept[j].v >= row[t]
        BY <4>1, <3>1, <2>5 DEF KeepsBest, u
      <4> QED  BY <4>2, <3>1, <2>2, <1>1, <1>2, <1>6
    <3> QED  BY <3>2, <3>3
  <2> QED  BY <2>1, <2>2, <2>3, <2>4, <2>5 DEF KeepsBest
<1>7. CASE ~(u % W = l /\ row[u] > kept[p].v)
  <2>1. Replacing(row, l, kept, i) = kept
    BY <1>7 DEF Replacing
  <2> HIDE DEF p, u
  <2>2. \A j \in Place : \/ kept[j] = NoPair
                         \/ /\ kept[j].id \in 0 .. i-1 /\ kept[j].id % W = l
                            /\ kept[j].v = row[kept[j].id]
    BY <1>3 DEF KeepsBest, u
  <2>3. ASSUME NEW t \in 0 .. i-1, t % W = l, \A j \in Place : kept[j].id # t
        PROVE  \A j \in Place : kept[j].v >= row[t]
    <3>1. CASE t = u
      BY <3>1, <2>3, <1>1, <1>2, <1>7
    <3>2. CASE t # u
      BY <3>2, <2>3, <1>4 DEF KeepsBest, u
    <3> QED  BY <3>1, <3>2
  <2> QED  BY <2>1, <2>2, <2>3, <1>2 DEF KeepsBest
<1> QED  BY <1>6, <1>7

LEMMA KeptSteps ==
  ASSUME AdvanceAssumed, NEW row, Finite(row), NEW l \in Lane,
         NEW f, f[0] = [j \in Place |-> NoPair],
         \A i \in 1 .. V : KeepsBest(row, l, i-1, f[i-1]) => f[i] = Replacing(row, l, f[i-1], i)
  PROVE  \A i \in 0 .. V : KeepsBest(row, l, i, f[i])
<1> DEFINE none == [j \in Place |-> NoPair]
           Good == {i \in 0 .. V : KeepsBest(row, l, i, f[i])}
<1>1. V \in Nat /\ none \in [Place -> Pair]
  BY AdvanceSizes, NoPairIsPair
<1>2. ASSUME NEW i \in 0 .. V, \A k \in 0 .. i-1 : k \in Good PROVE i \in Good
  <2>1. CASE i = 0
    <3>1. KeepsBest(row, l, 0, none)
      BY <1>1 DEF KeepsBest, NoPair, NoId
    <3> QED  BY <2>1, <3>1
  <2>2. CASE i # 0
    <3>1. i \in 1 .. V /\ i-1 \in Good
      BY <2>2, <1>2
    <3>2. KeepsBest(row, l, i-1, f[i-1])
      BY <3>1
    <3> QED  BY <3>1, <3>2, KeptStep
  <2> QED  BY <2>1, <2>2
<1> HIDE DEF Good
<1>3. 0 .. V \subseteq Good
  BY <1>1, <1>2, IntervalInduction
<1> QED  BY <1>3 DEF Good

LEMMA KeptIs ==
  ASSUME AdvanceAssumed, NEW row, Finite(row), NEW l \in Lane
  PROVE  KeepsBest(row, l, V, Kept(row, l))
<1> DEFINE L == [Place -> Pair]
           none == [j \in Place |-> NoPair]
           next(kept, i) == IF Replacing(row, l, kept, i) \in L THEN Replacing(row, l, kept, i) ELSE none
           step == [x \in (1 .. V) \X L |-> next(x[2], x[1])]
           F(f) == [i \in 0 .. V |-> IF i = 0 THEN none ELSE Replacing(row, l, f[i-1], i)]
           P == CHOOSE f : f = F(f)
<1>1. V \in Nat /\ none \in L
  BY AdvanceSizes, NoPairIsPair
<1>2. step \in [(1 .. V) \X L -> L]
  <2>1. \A x \in (1 .. V) \X L : next(x[2], x[1]) \in L
    <3> HIDE DEF L, none
    <3> QED  BY <1>1
  <2> HIDE DEF next
  <2> QED  BY <2>1
<1>3. PICK f \in [0 .. V -> L] : Follows(f, V, none, step)
  <2> HIDE DEF step, L, none
  <2> QED  BY <1>1, <1>2, RecursionExists
<1>4. ASSUME NEW i \in 1 .. V PROVE f[i] = next(f[i-1], i)
  <2>1. f[i] = step[<<i, f[i-1]>>]
    <3> HIDE DEF step, L, none
    <3> QED  BY <1>3 DEF Follows
  <2>2. <<i, f[i-1]>> \in (1 .. V) \X L
    <3>1. i-1 \in 0 .. V
      BY <1>1
    <3> HIDE DEF L
    <3> QED  BY <3>1, <1>3
  <2> HIDE DEF L, next
  <2> QED  BY <2>1, <2>2
<1>5. ASSUME NEW i \in 1 .. V, KeepsBest(row, l, i-1, f[i-1]) PROVE f[i] = Replacing(row, l, f[i-1], i)
  <2>1. Replacing(row, l, f[i-1], i) \in L
    BY <1>5, KeptStep DEF KeepsBest
  <2> HIDE DEF L, none
  <2> QED  BY <1>4, <2>1
<1>6. f[0] = none
  <2>1. 0 \in 0 .. V
    BY <1>1
  <2> HIDE DEF step, L, none
  <2> QED  BY <2>1, <1>3 DEF Follows
<1>7. \A i \in 1 .. V : f[i] = Replacing(row, l, f[i-1], i)
  <2>1. \A i \in 0 .. V : KeepsBest(row, l, i, f[i])
    BY <1>5, <1>6, KeptSteps
  <2> QED  BY <2>1, <1>1, <1>5
<1>8. P = F(P)
  <2>1. f = F(f)
    <3> HIDE DEF L, none
    <3> QED  BY <1>3, <1>6, <1>7
  <2> HIDE DEF F
  <2> QED  BY <2>1
<1>9. Kept(row, l) = P[V]
  BY DEF Kept, Replacing, NoPair, Place
<1> HIDE DEF P
<1>10. P[0] = none /\ \A i \in 1 .. V : P[i] = Replacing(row, l, P[i-1], i)
  <2>1. \A i \in 0 .. V : P[i] = IF i = 0 THEN none ELSE Replacing(row, l, P[i-1], i)
    <3> HIDE DEF none
    <3> QED  BY <1>8
  <2> HIDE DEF none
  <2> QED  BY <2>1, <1>1
<1>11. \A i \in 0 .. V : KeepsBest(row, l, i, P[i])
  BY <1>10, KeptSteps
<1> QED  BY <1>1, <1>9, <1>11

(***************************************************************************)
(* The slot that a lane brings to a round: the best of those not in gone.  *)
(***************************************************************************)
NoSlot == [v |-> NegInf, id |-> NoId, slot |-> 0]

SlotBest(kept, gone, n, r) ==
  \/ r = NoSlot /\ \A j \in (1 .. n) \ gone : kept[j] = NoPair
  \/ /\ r.slot \in (1 .. n) \ gone /\ kept[r.slot] # NoPair
     /\ r = [v |-> kept[r.slot].v, id |-> kept[r.slot].id, slot |-> r.slot]
     /\ \A j \in (1 .. n) \ gone : ~Wins(kept[j], kept[r.slot])

LEMMA LocalBestIs ==
  ASSUME AdvanceAssumed, NEW gone, NEW kept \in [Place -> Pair],
         \A j \in Place : kept[j] = NoPair \/ kept[j].v > NegInf
  PROVE  SlotBest(kept, gone, Slots, LocalBest(kept, gone))
<1> DEFINE T == [v : Int, id : Int, slot : Int]
           Visit(r, j) == IF j \notin gone /\ Wins(kept[j], r)
                          THEN [v |-> kept[j].v, id |-> kept[j].id, slot |-> j] ELSE r
           F(f) == [j \in 0 .. Slots |-> IF j = 0 THEN NoSlot ELSE Visit(f[j-1], j)]
           P == CHOOSE f : f = F(f)
           step == [x \in (1 .. Slots) \X T |-> Visit(x[2], x[1])]
<1>1. Slots \in Nat /\ NoSlot \in T /\ Len(kept) = Slots
  <2>1. Slots \in Nat /\ NoSlot \in T
    BY AdvanceSizes DEF NoSlot, NegInf, NoId
  <2> QED  BY <2>1 DEF Place
<1>2. \A j \in 1 .. Slots : j \in Place /\ kept[j] \in Pair /\ kept[j].v \in Int /\ kept[j].id \in Int
  BY DEF Place, Pair
<1>3. \A r \in T, j \in 1 .. Slots : Visit(r, j) \in T
  BY <1>2
<1>4. step \in [(1 .. Slots) \X T -> T]
  <2> HIDE DEF Visit
  <2> QED  BY <1>3
<1>5. PICK f \in [0 .. Slots -> T] : Follows(f, Slots, NoSlot, step)
  <2> HIDE DEF step, T
  <2> QED  BY <1>1, <1>4, RecursionExists
<1>6. f = F(f)
  <2>1. ASSUME NEW j \in 0 .. Slots PROVE f[j] = IF j = 0 THEN NoSlot ELSE Visit(f[j-1], j)
    <3>1. f[j] = IF j = 0 THEN NoSlot ELSE step[<<j, f[j-1]>>]
      <4> HIDE DEF step, T
      <4> QED  BY <1>5 DEF Follows
    <3>2. CASE j # 0
      <4>1. <<j, f[j-1]>> \in (1 .. Slots) \X T
        <5>1. j \in 1 .. Slots /\ j-1 \in 0 .. Slots
          BY <3>2, <1>1
        <5> HIDE DEF T
        <5> QED  BY <5>1, <1>5
      <4>2. step[<<j, f[j-1]>>] = Visit(f[j-1], j)
        <5> HIDE DEF Visit, T
        <5> QED  BY <4>1
      <4> HIDE DEF step, Visit, T
      <4> QED  BY <3>1, <3>2, <4>2
    <3> HIDE DEF step, Visit, T
    <3> QED  BY <3>1, <3>2
  <2> HIDE DEF step, Visit, T
  <2> QED  BY <2>1, <1>5
<1>7. P = F(P)
  <2> HIDE DEF F
  <2> QED  BY <1>6
<1>8. LocalBest(kept, gone) = P[Slots]
  BY <1>1 DEF LocalBest, NoSlot
<1> HIDE DEF P
<1>9. P[0] = NoSlot /\ \A j \in 1 .. Slots : P[j] = Visit(P[j-1], j)
  <2> HIDE DEF Visit
  <2>1. \A j \in 0 .. Slots : P[j] = IF j = 0 THEN NoSlot ELSE Visit(P[j-1], j)
    BY <1>7
  <2> QED  BY <2>1, <1>1
<1> DEFINE Good == {n \in 0 .. Slots : SlotBest(kept, gone, n, P[n])}
<1>10. ASSUME NEW n \in 0 .. Slots, \A k \in 0 .. n-1 : k \in Good PROVE n \in Good
  <2>1. CASE n = 0
    BY <2>1, <1>9 DEF SlotBest
  <2>2. CASE n # 0
    <3> DEFINE m == n-1
               r == P[m]
    <3>1. n \in 1 .. Slots /\ m \in Good /\ 1 .. n = (1 .. m) \cup {n} /\ 1 .. m \subseteq Place
      <4>1. n \in 1 .. Slots /\ m \in 0 .. n-1 /\ n = m + 1
        BY <2>2, <1>1
      <4>2. 1 .. n = (1 .. m) \cup {n}
        BY <4>1
      <4>3. 1 .. m \subseteq Place
        BY <4>1, <1>1 DEF Place
      <4> HIDE DEF Good, m
      <4> QED  BY <4>1, <4>2, <4>3, <1>10
    <3>2. SlotBest(kept, gone, m, r) /\ P[n] = Visit(r, n)
      <4>1. P[n] = Visit(r, n)
        <5> HIDE DEF Visit
        <5> QED  BY <3>1, <1>9
      <4> HIDE DEF Visit
      <4> QED  BY <3>1, <4>1
    <3> HIDE DEF m, r
    <3>3. kept[n] \in Pair /\ (kept[n] = NoPair \/ kept[n].v > NegInf) /\ n \in Nat \ {0}
          /\ kept[n].v \in Int /\ kept[n].id \in Int
      BY <3>1, <1>2
    <3>4. CASE n \in gone
      <4>1. P[n] = r /\ (1 .. n) \ gone = (1 .. m) \ gone
        BY <3>1, <3>2, <3>4
      <4> QED  BY <4>1, <3>2 DEF SlotBest
    <3>5. CASE n \notin gone
      <4>1. (1 .. n) \ gone = ((1 .. m) \ gone) \cup {n}
        BY <3>1, <3>5
      <4>2. CASE r = NoSlot /\ \A j \in (1 .. m) \ gone : kept[j] = NoPair
        <5>1. Wins(kept[n], r) <=> kept[n] # NoPair
          BY <4>2, <3>3 DEF Wins, NoPair, NoSlot, NegInf, NoId
        <5>2. CASE kept[n] = NoPair
          <6>1. P[n] = NoSlot
            BY <5>1, <5>2, <3>2, <4>2
          <6> QED  BY <6>1, <5>2, <4>1, <4>2 DEF SlotBest
        <5>3. CASE kept[n] # NoPair
          <6>1. P[n] = [v |-> kept[n].v, id |-> kept[n].id, slot |-> n]
            BY <5>1, <5>3, <3>2, <3>5
          <6>2. ~Wins(NoPair, kept[n]) /\ ~Wins(kept[n], kept[n])
            BY <5>3, <3>3 DEF Wins, NoPair, NegInf
          <6>3. \A j \in (1 .. n) \ gone : ~Wins(kept[j], kept[n])
            BY <6>2, <4>1, <4>2
          <6> QED  BY <6>1, <6>3, <5>3, <4>1 DEF SlotBest
        <5> QED  BY <5>2, <5>3
      <4>3. CASE /\ r.slot \in (1 .. m) \ gone /\ kept[r.slot] # NoPair
                 /\ r = [v |-> kept[r.slot].v, id |-> kept[r.slot].id, slot |-> r.slot]
                 /\ \A j \in (1 .. m) \ gone : ~Wins(kept[j], kept[r.slot])
        <5>1. Wins(kept[n], r) <=> Wins(kept[n], kept[r.slot])
          BY <4>3 DEF Wins
        <5>2. \A j \in (1 .. m) : kept[j] \in Pair
          BY <3>1, <1>2 DEF Place
        <5>3. CASE Wins(kept[n], kept[r.slot])
          <6>1. P[n] = [v |-> kept[n].v, id |-> kept[n].id, slot |-> n]
            BY <5>1, <5>3, <3>2, <3>5
          <6>2. ~Wins(kept[r.slot], kept[n]) /\ ~Wins(kept[n], kept[n])
            BY <5>2, <5>3, <3>3, <4>3, WinsOrder
          <6>3. \A j \in (1 .. n) \ gone : ~Wins(kept[j], kept[n])
            BY <6>2, <4>1, <4>3, <5>2, <3>3, WinsOrder
          <6>4. kept[n] # NoPair
            <7>1. kept[r.slot].v > NegInf /\ kept[r.slot].v \in Int
              BY <4>3, <5>2, <3>1 DEF Pair
            <7>2. kept[n].v >= kept[r.slot].v
              BY <7>1, <5>3, <3>3 DEF Wins
            <7> QED  BY <7>1, <7>2, <3>3 DEF NoPair, NegInf
          <6> QED  BY <6>1, <6>3, <6>4, <4>1 DEF SlotBest
        <5>4. CASE ~Wins(kept[n], kept[r.slot])
          <6>1. P[n] = r
            BY <5>1, <5>4, <3>2
          <6> QED  BY <6>1, <5>4, <4>1, <4>3 DEF SlotBest
        <5> QED  BY <5>3, <5>4
      <4> QED  BY <4>2, <4>3, <3>2 DEF SlotBest
    <3> QED  BY <3>4, <3>5
  <2> QED  BY <2>1, <2>2
<1>11. Slots \in Good
  <2> HIDE DEF Good
  <2>1. 0 .. Slots \subseteq Good
    BY <1>1, <1>10, IntervalInduction
  <2> QED  BY <2>1, <1>1
<1> QED  BY <1>8, <1>11

\* Fewer than Slots tokens leave one to take.
LEMMA TokenLeft ==
  ASSUME AdvanceAssumed, NEW Em \in SUBSET Token, Cardinality(Em) < Slots
  PROVE  IsFiniteSet(Em) /\ Cardinality(Em) \in Nat /\ \E t \in Token : t \notin Em
<1>1. IsFiniteSet(Token) /\ Cardinality(Token) = V
  <2>1. 0 \in Int /\ V-1 \in Int /\ ~(0 > V-1) /\ V-1 - 0 + 1 = V
    BY AdvanceSizes
  <2> QED  BY <2>1, FS_Interval DEF Token
<1>2. IsFiniteSet(Em) /\ Cardinality(Em) \in Nat
  BY <1>1, FS_Subset, FS_CardinalityType
<1>3. Em # Token
  BY <1>1, <1>2, AdvanceSizes
<1> QED  BY <1>2, <1>3

(***************************************************************************)
(* A round over the lists of the lanes, after the tokens Em: the winner is *)
(* a new token and no other new token exceeds it, kept or not.             *)
(***************************************************************************)
TakesBest(row, lists, Em, d, r) ==
  /\ r.win[0] = [v |-> row[d], id |-> d]
  /\ \A t \in Token \ Em : row[t] <= row[d]
  /\ r.used = [l \in Lane |-> {j \in Place : lists[l][j].id \in Em \cup {d}}]

LEMMA LocalRoundIs ==
  ASSUME AdvanceAssumed, NEW row, Finite(row),
         NEW lists, \A l \in Lane : KeepsBest(row, l, V, lists[l]),
         NEW Em \in SUBSET Token, Cardinality(Em) < Slots,
         NEW gone, \A l \in Lane : gone[l] = {j \in Place : lists[l][j].id \in Em}
  PROVE  \E d \in Token \ Em : TakesBest(row, lists, Em, d, LocalRound(lists, gone))
<1> DEFINE best == [l \in Lane |-> LocalBest(lists[l], gone[l])]
           x == [l \in Lane |-> [v |-> best[l].v, id |-> IF best[l].id < 0 THEN MaxId ELSE best[l].id]]
           win == Argmax(x)
           here(l, j) == lists[l][j]
<1>1. /\ V \in Nat \ {0} /\ Slots \in Nat \ {0} /\ 0 \in Lane /\ W \in Nat \ {0} /\ TopKAssumption
      /\ Lane = 0 .. W-1
  BY AdvanceSizes, Powers DEF AdvanceAssumed, Lane
<1>2. ASSUME NEW l \in Lane, NEW j \in Place
      PROVE  /\ here(l, j) \in Pair
             /\ \/ here(l, j) = NoPair /\ here(l, j).id = NoId
                \/ /\ here(l, j).id \in Token /\ here(l, j).id % W = l /\ here(l, j).id >= 0
                   /\ here(l, j).v = row[here(l, j).id] /\ here(l, j).v > NegInf
                   /\ here(l, j) # NoPair
             /\ here(l, j).v \in Int /\ here(l, j).id \in Int
  <2>1. KeepsBest(row, l, V, lists[l])
    OBVIOUS
  <2>2. here(l, j) \in Pair
    BY <2>1 DEF KeepsBest
  <2>3. CASE here(l, j) = NoPair
    BY <2>2, <2>3 DEF NoPair, Pair
  <2>4. CASE here(l, j) # NoPair
    <3>1. /\ here(l, j).id \in 0 .. V-1 /\ here(l, j).id % W = l
          /\ here(l, j).v = row[here(l, j).id]
      BY <2>1, <2>4 DEF KeepsBest
    <3> HIDE DEF here
    <3> QED  BY <3>1, <2>2, <2>4, <1>1 DEF Token, Finite, Pair
  <2> HIDE DEF here
  <2> QED  BY <2>3, <2>4
<1>3. ASSUME NEW l \in Lane, NEW j \in Place, NEW k \in Place, here(l, j).id = here(l, k).id,
             here(l, j).id # NoId
      PROVE  j = k
  BY <1>3 DEF KeepsBest
<1>4. ASSUME NEW l \in Lane PROVE SlotBest(lists[l], gone[l], Slots, best[l])
  <2>1. lists[l] \in [Place -> Pair]
    BY DEF KeepsBest
  <2>2. \A j \in Place : lists[l][j] = NoPair \/ lists[l][j].v > NegInf
    BY <1>2
  <2>3. best[l] = LocalBest(lists[l], gone[l])
    OBVIOUS
  <2> HIDE DEF best
  <2> QED  BY <2>1, <2>2, <2>3, LocalBestIs
<1> HIDE DEF best
<1>5. ASSUME NEW l \in Lane
      PROVE  \/ /\ best[l] = NoSlot /\ x[l] = [v |-> NegInf, id |-> MaxId]
                /\ \A j \in Place \ gone[l] : here(l, j) = NoPair
             \/ /\ best[l].slot \in Place \ gone[l]
                /\ best[l].slot > 0
                /\ here(l, best[l].slot) # NoPair
                /\ best[l].id = here(l, best[l].slot).id
                /\ x[l] = here(l, best[l].slot)
                /\ \A j \in Place \ gone[l] : here(l, j).v <= x[l].v
  <2>1. CASE best[l] = NoSlot /\ \A j \in (1 .. Slots) \ gone[l] : here(l, j) = NoPair
    <3>1. best[l].v = NegInf /\ best[l].id < 0
      BY <2>1 DEF NoSlot, NoId
    <3> HIDE DEF here
    <3> QED  BY <2>1, <3>1 DEF Place
  <2>2. CASE /\ best[l].slot \in (1 .. Slots) \ gone[l] /\ here(l, best[l].slot) # NoPair
             /\ best[l] = [v |-> here(l, best[l].slot).v, id |-> here(l, best[l].slot).id,
                            slot |-> best[l].slot]
             /\ \A j \in (1 .. Slots) \ gone[l] : ~Wins(here(l, j), here(l, best[l].slot))
    <3> DEFINE p == best[l].slot
    <3>1. p \in Place /\ p \notin gone[l] /\ p > 0
      BY <2>2 DEF Place
    <3>2. best[l].v = here(l, p).v /\ best[l].id = here(l, p).id
      BY <2>2
    <3> HIDE DEF p
    <3>3. here(l, p) \in Pair /\ here(l, p).id >= 0 /\ here(l, p).v \in Int /\ here(l, p).id \in Int
      <4>1. here(l, p) # NoPair
        BY <2>2 DEF p
      <4> HIDE DEF here
      <4> QED  BY <1>2, <3>1, <4>1
    <3>4. x[l] = [v |-> here(l, p).v, id |-> here(l, p).id]
      BY <3>2, <3>3
    <3>5. x[l] = here(l, p)
      <4> HIDE DEF here, x
      <4> QED  BY <3>3, <3>4 DEF Pair
    <3>6. ASSUME NEW j \in Place \ gone[l] PROVE here(l, j).v <= x[l].v
      <4>1. ~Wins(here(l, j), here(l, p))
        BY <2>2 DEF Place, p
      <4>2. here(l, j).v \in Int
        BY <1>2
      <4> HIDE DEF here, x
      <4> QED  BY <4>1, <4>2, <3>3, <3>5 DEF Wins
    <3> HIDE DEF here, x
    <3> QED  BY <3>1, <3>2, <3>5, <3>6, <2>2 DEF p
  <2> HIDE DEF x
  <2> QED  BY <1>4, <2>1, <2>2 DEF SlotBest
<1>6. x \in [Lane -> Pair]
  <2>1. \A l \in Lane : x[l] \in Pair
    <3>1. [v |-> NegInf, id |-> MaxId] \in Pair
      BY DEF Pair, NegInf, MaxId
    <3> HIDE DEF x, here
    <3> QED  BY <1>2, <1>5, <3>1
  <2>2. x = [l \in Lane |-> x[l]]
    OBVIOUS
  <2> HIDE DEF x
  <2> QED  BY <2>1, <2>2
<1>7. PICK m \in Lane : win[0] = x[m] /\ \A k \in Lane : ~Wins(x[k], x[m])
  <2>1. TopKAssumption
    BY <1>1
  <2>2. 0 \in Lane
    BY <1>1
  <2> HIDE DEF x
  <2> QED  BY <2>1, <2>2, <1>6, ArgmaxBest
<1>8. \A l \in Lane : win[l] = win[0]
  <2>1. TopKAssumption
    BY <1>1
  <2>2. 0 \in Lane
    BY <1>1
  <2> HIDE DEF x
  <2> QED  BY <2>1, <2>2, <1>6, ArgmaxAgrees
<1>9. LocalRound(lists, gone) =
        [win |-> win,
         used |-> [l \in Lane |-> IF best[l].slot > 0 /\ best[l].id = win[l].id
                                   THEN gone[l] \cup {best[l].slot} ELSE gone[l]]]
  BY DEF LocalRound, best
<1> HIDE DEF x, win
<1>10. \A k \in Lane : x[k].v <= x[m].v /\ x[k].v \in Int
  BY <1>6, <1>7 DEF Wins, Pair
<1>11. ASSUME NEW t \in Token, t \notin Em
       PROVE  \E l \in Lane, j \in Place : j \notin gone[l] /\ here(l, j) # NoPair /\ here(l, j).v >= row[t]
  <2> DEFINE l == t % W
  <2>1. l \in Lane /\ KeepsBest(row, l, V, lists[l]) /\ row[t] \in Int /\ row[t] > NegInf /\ t >= 0
    <3>1. l \in Lane
      BY <1>1, Division DEF Token
    <3> HIDE DEF l
    <3> QED  BY <3>1 DEF Finite, Token
  <2> HIDE DEF l
  <2>2. CASE \E j \in Place : here(l, j).id = t
    <3>1. PICK j \in Place : here(l, j).id = t
      BY <2>2
    <3>2. j \notin gone[l]
      BY <3>1, <2>1, <1>11
    <3>3. here(l, j) # NoPair
      <4> HIDE DEF here
      <4> QED  BY <3>1, <2>1 DEF NoPair, NoId
    <3>4. here(l, j).v = row[t]
      <4> HIDE DEF here
      <4> QED  BY <3>1, <3>3, <2>1, <1>2
    <3> HIDE DEF here
    <3> QED  BY <3>2, <3>3, <3>4, <2>1
  <2>3. CASE \A j \in Place : here(l, j).v >= row[t]
    <3>1. \A j \in Place : here(l, j) # NoPair /\ here(l, j).id # NoId
      <4> HIDE DEF here
      <4> QED  BY <2>1, <2>3, <1>2 DEF NoPair, NegInf, NoId
    <3>2. PICK j \in Place : here(l, j).id \notin Em
      <4>1. SUFFICES ASSUME \A j \in Place : here(l, j).id \in Em PROVE FALSE
        OBVIOUS
      <4> DEFINE f == [j \in Place |-> here(l, j).id]
      <4>2. f \in [Place -> Em] /\ \A j \in Place : f[j] = here(l, j).id
        BY <4>1
      <4>3. IsFiniteSet(Place) /\ Cardinality(Place) = Slots
        BY <1>1, FS_Interval DEF Place
      <4>4. PICK j, k \in Place : j # k /\ f[j] = f[k]
        <5> HIDE DEF f
        <5> QED  BY <4>2, <4>3, TokenLeft, FS_PigeonHole
      <4> HIDE DEF f, here
      <4> QED  BY <4>2, <4>4, <3>1, <2>1, <1>3
    <3>3. j \notin gone[l]
      BY <3>2, <2>1
    <3> HIDE DEF here
    <3> QED  BY <3>1, <3>3, <2>1, <2>3
  <2>4. t \in 0 .. V-1 /\ t % W = l
    BY DEF Token, l
  <2> QED  BY <2>1, <2>2, <2>3, <2>4 DEF KeepsBest
<1>12. ASSUME NEW l \in Lane, NEW j \in Place, j \notin gone[l], here(l, j) # NoPair
       PROVE  here(l, j).v <= x[m].v
  <2>1. here(l, j).v <= x[l].v /\ here(l, j).v \in Int
    <3> HIDE DEF here
    <3> QED  BY <1>2, <1>5, <1>12
  <2> HIDE DEF here
  <2> QED  BY <2>1, <1>10
<1>13. \A t \in Token \ Em : row[t] <= x[m].v
  <2>1. ASSUME NEW t \in Token \ Em PROVE row[t] <= x[m].v
    <3>1. PICK l \in Lane, j \in Place : j \notin gone[l] /\ here(l, j) # NoPair /\ here(l, j).v >= row[t]
      BY <1>11
    <3>2. here(l, j).v <= x[m].v /\ here(l, j).v \in Int /\ row[t] \in Int
      <4> HIDE DEF here
      <4> QED  BY <3>1, <1>2, <1>12 DEF Finite
    <3> HIDE DEF here
    <3> QED  BY <3>1, <3>2, <1>10
  <2> QED  BY <2>1
<1> DEFINE p == best[m].slot
           d == here(m, p).id
<1>14. /\ p \in Place /\ p \notin gone[m] /\ p > 0 /\ here(m, p) # NoPair
       /\ best[m].id = d /\ x[m] = here(m, p)
  <2>1. PICK t \in Token : t \notin Em
    BY TokenLeft
  <2>2. row[t] <= x[m].v /\ row[t] \in Int /\ row[t] > NegInf /\ x[m].v \in Int
    BY <2>1, <1>10, <1>13 DEF Finite
  <2>3. x[m] # [v |-> NegInf, id |-> MaxId]
    BY <2>2 DEF NegInf
  <2> HIDE DEF here
  <2> QED  BY <2>3, <1>5
<1> HIDE DEF p
<1>15. d \in Token /\ d \notin Em /\ d % W = m /\ d # NoId /\ x[m] = [v |-> row[d], id |-> d]
  <2>1. /\ here(m, p) \in Pair /\ here(m, p).id \in Token /\ here(m, p).id % W = m
        /\ here(m, p).v = row[here(m, p).id] /\ here(m, p).id >= 0
    <3> HIDE DEF here
    <3> QED  BY <1>14, <1>2
  <2>2. here(m, p).id \notin Em
    BY <1>14
  <2>3. here(m, p) = [v |-> here(m, p).v, id |-> here(m, p).id]
    <3> HIDE DEF here
    <3> QED  BY <2>1 DEF Pair
  <2> HIDE DEF here
  <2> QED  BY <2>1, <2>2, <2>3, <1>14 DEF NoId
<1>16. \A l \in Lane : win[l].id = d
  BY <1>7, <1>8, <1>15
<1> HIDE DEF d
<1>17. ASSUME NEW l \in Lane
       PROVE  (IF best[l].slot > 0 /\ best[l].id = win[l].id
               THEN gone[l] \cup {best[l].slot} ELSE gone[l])
                = {j \in Place : lists[l][j].id \in Em \cup {d}}
  <2>1. CASE l = m
    <3>1. best[l].slot > 0 /\ best[l].id = win[l].id /\ best[l].slot = p
      BY <2>1, <1>14, <1>16 DEF p
    <3>2. \A j \in Place : lists[l][j].id = d <=> j = p
      <4>1. lists[m][p].id = d
        BY DEF d
      <4>2. \A j \in Place : lists[m][j].id = d => j = p
        <5>1. \A j, k \in Place : lists[m][j].id = lists[m][k].id /\ lists[m][j].id # NoId => j = k
          <6>1. KeepsBest(row, m, V, lists[m])
            OBVIOUS
          <6> QED  BY <6>1 DEF KeepsBest
        <5>2. p \in Place /\ d # NoId
          BY <1>14, <1>15
        <5> QED  BY <4>1, <5>1, <5>2
      <4> QED  BY <4>1, <4>2, <2>1
    <3>3. gone[l] \cup {p} = {j \in Place : lists[l][j].id \in Em \cup {d}}
      BY <3>2, <1>14
    <3> QED  BY <3>1, <3>3
  <2>2. CASE l # m
    <3>1. \A j \in Place : lists[l][j].id # d
      BY <2>2, <1>2, <1>15
    <3>2. ~(best[l].slot > 0 /\ best[l].id = win[l].id)
      <4>1. SUFFICES ASSUME best[l].slot > 0, best[l].id = d PROVE FALSE
        BY <1>16
      <4>2. best[l] # NoSlot
        BY <4>1 DEF NoSlot
      <4>3. best[l].slot \in Place /\ best[l].id = lists[l][best[l].slot].id
        BY <4>2, <1>5
      <4> QED  BY <4>1, <4>3, <3>1
    <3>3. gone[l] = {j \in Place : lists[l][j].id \in Em \cup {d}}
      BY <3>1
    <3> QED  BY <3>2, <3>3
  <2> QED  BY <2>1, <2>2
<1>18. LocalRound(lists, gone).win[0] = [v |-> row[d], id |-> d]
  <2>1. LocalRound(lists, gone).win[0] = x[m]
    BY <1>7, <1>9
  <2> QED  BY <2>1, <1>15
<1>19. LocalRound(lists, gone).used = [l \in Lane |-> {j \in Place : lists[l][j].id \in Em \cup {d}}]
  BY <1>9, <1>17
<1>20. \A t \in Token \ Em : row[t] <= row[d]
  BY <1>13, <1>15
<1> QED  BY <1>15, <1>18, <1>19, <1>20 DEF TakesBest

-----------------------------------------------------------------------------
\* The first k of a list.
FirstOf(s, k) == {s[j] : j \in 1 .. k}

(***************************************************************************)
(* The list made for a beam, of logits row and score c, holds its best     *)
(* tokens so far, in order; the lanes have cleared their slots.            *)
(***************************************************************************)
ListsBest(row, c, lanes, gone, toks, scores) ==
  /\ toks \in Seq(Token) /\ scores \in Seq(Int)
  /\ Len(scores) = Len(toks) /\ Len(toks) <= Slots
  /\ \A k \in 1 .. Len(toks) :
       /\ scores[k] = Plus(c, row[toks[k]])
       /\ toks[k] \notin FirstOf(toks, k-1)
       /\ \A t \in Token \ FirstOf(toks, k-1) : row[t] <= row[toks[k]]
  /\ lanes = <<>> => toks = <<>> /\ gone = [l \in Lane |-> {}]
  /\ lanes # <<>> =>
       /\ lanes = [l \in Lane |-> Kept(row, l)]
       /\ gone = [l \in Lane |-> {j \in Place : Kept(row, l)[j].id \in FirstOf(toks, Len(toks))}]

LEMMA FirstCounts ==
  ASSUME NEW s \in Seq(Token), Len(s) <= Slots, AdvanceAssumed
  PROVE  /\ FirstOf(s, Len(s)) \in SUBSET Token /\ IsFiniteSet(FirstOf(s, Len(s)))
         /\ Cardinality(FirstOf(s, Len(s))) \in Nat /\ Cardinality(FirstOf(s, Len(s))) <= Len(s)
<1> DEFINE n == Len(s)
           Em == FirstOf(s, n)
           f == [j \in 1 .. n |-> s[j]]
<1>1. n \in Nat /\ \A j \in 1 .. n : s[j] \in Token
  OBVIOUS
<1> HIDE DEF n
<1>2. Em \in SUBSET Token
  BY <1>1 DEF FirstOf
<1>3. f \in Surjection(1 .. n, Em)
  <2>1. Em = {f[j] : j \in 1 .. n}
    BY DEF FirstOf
  <2> HIDE DEF Em
  <2> QED  BY <2>1 DEF Surjection
<1>4. IsFiniteSet(1 .. n) /\ Cardinality(1 .. n) = n
  BY <1>1, FS_Interval
<1>5. IsFiniteSet(Em) /\ Cardinality(Em) <= n
  <2> HIDE DEF f, Em
  <2> QED  BY <1>3, <1>4, FS_Surjection
<1>6. Cardinality(Em) \in Nat
  <2> HIDE DEF Em
  <2> QED  BY <1>5, FS_CardinalityType
<1> QED  BY <1>2, <1>5, <1>6 DEF n

LEMMA FirstNext ==
  ASSUME NEW s \in Seq(Token), NEW d \in Token
  PROVE  /\ \A k \in 0 .. Len(s) : FirstOf(Append(s, d), k) = FirstOf(s, k)
         /\ FirstOf(Append(s, d), Len(s)+1) = FirstOf(s, Len(s)) \cup {d}
<1> DEFINE t == Append(s, d)
           n == Len(s)
<1>1. n \in Nat /\ t[n+1] = d /\ \A j \in 1 .. n : t[j] = s[j]
  OBVIOUS
<1> HIDE DEF t, n
<1>2. \A k \in 0 .. n : FirstOf(t, k) = FirstOf(s, k)
  <2>1. ASSUME NEW k \in 0 .. n PROVE FirstOf(t, k) = FirstOf(s, k)
    <3>1. \A j \in 1 .. k : t[j] = s[j]
      BY <1>1
    <3> QED  BY <3>1 DEF FirstOf
  <2> QED  BY <2>1
<1>3. FirstOf(t, n+1) = FirstOf(s, n) \cup {d}
  <2>1. 1 .. n+1 = (1 .. n) \cup {n+1}
    BY <1>1
  <2> QED  BY <1>1, <2>1 DEF FirstOf
<1> QED  BY <1>2, <1>3 DEF t, n

\* What a round of the merge adds.
LEMMA ListGrows ==
  ASSUME AdvanceAssumed, NEW row, Finite(row), NEW c, \A t \in Token : Plus(c, row[t]) \in Int,
         NEW lanes, NEW gone, NEW toks, NEW scores, ListsBest(row, c, lanes, gone, toks, scores),
         lanes # <<>>, Len(toks) < Slots,
         NEW r, r = LocalRound(lanes, gone)
  PROVE  ListsBest(row, c, lanes, r.used, Append(toks, r.win[0].id),
                   Append(scores, Plus(c, r.win[0].v)))
<1> DEFINE n == Len(toks)
           Em == FirstOf(toks, n)
<1>1. /\ toks \in Seq(Token) /\ scores \in Seq(Int) /\ Len(scores) = n /\ n \in Nat
      /\ lanes = [l \in Lane |-> Kept(row, l)]
      /\ gone = [l \in Lane |-> {j \in Place : Kept(row, l)[j].id \in Em}]
  BY DEF ListsBest
<1>2. Em \in SUBSET Token /\ Cardinality(Em) < Slots
  <2>1. Em \in SUBSET Token /\ Cardinality(Em) \in Nat /\ Cardinality(Em) <= n
    BY <1>1, FirstCounts, AdvanceSizes
  <2> HIDE DEF Em, n
  <2> QED  BY <2>1, <1>1, AdvanceSizes DEF n
<1>3. PICK d \in Token \ Em : TakesBest(row, lanes, Em, d, r)
  <2>1. \A l \in Lane : /\ KeepsBest(row, l, V, lanes[l])
                        /\ gone[l] = {j \in Place : lanes[l][j].id \in Em}
    <3>1. ASSUME NEW l \in Lane PROVE KeepsBest(row, l, V, lanes[l])
      BY <1>1, KeptIs
    <3>2. ASSUME NEW l \in Lane PROVE gone[l] = {j \in Place : lanes[l][j].id \in Em}
      <4> HIDE DEF Em
      <4> QED  BY <1>1
    <3> QED  BY <3>1, <3>2
  <2> HIDE DEF Em
  <2> QED  BY <1>2, <2>1, LocalRoundIs
<1> DEFINE v == Plus(c, row[d])
           t == Append(toks, d)
           w == Append(scores, v)
<1>4. r.win[0].id = d /\ r.win[0].v = row[d] /\ v \in Int
  BY <1>3 DEF TakesBest
<1>5. t \in Seq(Token) /\ Len(t) = n+1 /\ t[n+1] = d /\ \A j \in 1 .. n : t[j] = toks[j]
  BY <1>1
<1>6. w \in Seq(Int) /\ Len(w) = n+1 /\ w[n+1] = v /\ \A j \in 1 .. n : w[j] = scores[j]
  <2> HIDE DEF v
  <2> QED  BY <1>1, <1>4
<1>7. (\A k \in 0 .. n : FirstOf(t, k) = FirstOf(toks, k)) /\ FirstOf(t, n+1) = Em \cup {d}
  BY <1>1, FirstNext
<1> HIDE DEF t, w
<1>8. ASSUME NEW k \in 1 .. n+1
      PROVE  /\ w[k] = Plus(c, row[t[k]]) /\ t[k] \notin FirstOf(t, k-1)
             /\ \A u \in Token \ FirstOf(t, k-1) : row[u] <= row[t[k]]
  <2>1. CASE k = n+1
    <3>1. t[k] = d /\ w[k] = v /\ FirstOf(t, k-1) = Em
      <4>1. k-1 = n /\ n \in 0 .. n
        BY <2>1, <1>1
      <4> HIDE DEF n, v
      <4> QED  BY <2>1, <4>1, <1>5, <1>6, <1>7
    <3> HIDE DEF Em, n
    <3> QED  BY <3>1, <1>3 DEF TakesBest
  <2>2. CASE k # n+1
    <3>1. k \in 1 .. n /\ k-1 \in 0 .. n
      <4>1. n \in Nat
        BY <1>1
      <4> HIDE DEF n
      <4> QED  BY <2>2, <4>1
    <3>2. t[k] = toks[k] /\ w[k] = scores[k] /\ FirstOf(t, k-1) = FirstOf(toks, k-1)
      BY <3>1, <1>5, <1>6, <1>7
    <3>3. /\ scores[k] = Plus(c, row[toks[k]]) /\ toks[k] \notin FirstOf(toks, k-1)
          /\ \A u \in Token \ FirstOf(toks, k-1) : row[u] <= row[toks[k]]
      BY <3>1 DEF ListsBest
    <3> QED  BY <3>2, <3>3
  <2> QED  BY <2>1, <2>2
<1>9. r.used = [l \in Lane |-> {j \in Place : Kept(row, l)[j].id \in FirstOf(t, Len(t))}]
  <2>1. \A l \in Lane : lanes[l] = Kept(row, l)
    BY <1>1
  <2>2. FirstOf(t, Len(t)) = Em \cup {d}
    BY <1>5, <1>7
  <2> HIDE DEF Em
  <2> QED  BY <2>1, <2>2, <1>3 DEF TakesBest
<1>10. ListsBest(row, c, lanes, r.used, t, w)
  <2>1. Len(t) <= Slots
    BY <1>1, <1>5, AdvanceSizes
  <2> HIDE DEF Em
  <2> QED  BY <2>1, <1>1, <1>5, <1>6, <1>8, <1>9 DEF ListsBest
<1> QED  BY <1>4, <1>10 DEF t, w
-----------------------------------------------------------------------------
ListInv(b) == ListsBest(logits[b], cum[b], mine[b], used[b], cand_token[b], cand_score[b])

NFlat == BM*Slots

FlatCand == [c \in 0 .. NFlat-1 |->
  [id |-> c, valid |-> TRUE, v |-> cand_score[c \div Slots][(c % Slots) + 1]]]

\* The candidates of beams that are alive.
Live == {c \in 0 .. NFlat-1 : cum[c \div Slots] # MinusInf}

ChosenInv ==
  /\ chosen = [l \in Lane |-> chosen[0]] /\ chosen[0] \in Seq(Pair)
  /\ Len(chosen[0]) <= BM /\ (chosen[0] # <<>> => Listed)
  /\ Ranked(FlatCand, Live, chosen[0])

OutputInv ==
  IF next_token = <<>> THEN parent_beam = <<>>
  ELSE /\ Len(chosen[0]) = BM
       /\ parent_beam = [k \in 1 .. BM |-> chosen[0][k].id \div Slots]
       /\ \A k \in 1 .. BM :
            /\ next_token[k] = cand_token[parent_beam[k]][(chosen[0][k].id % Slots) + 1]
            /\ new_cum[k] = chosen[0][k].v

AdvanceInv ==
  /\ logits \in Logits /\ cum \in Cums
  /\ mine = [b \in Beam |-> mine[b]] /\ used = [b \in Beam |-> used[b]]
  /\ cand_token = [b \in Beam |-> cand_token[b]] /\ cand_score = [b \in Beam |-> cand_score[b]]
  /\ \A b \in Beam : ListInv(b)
  /\ ChosenInv /\ OutputInv

LEMMA AdvanceInitInv == ASSUME AdvanceAssumed, AdvanceInit PROVE AdvanceInv
<1>1. 0 \in Lane
  BY Powers DEF AdvanceAssumed
<1>2. /\ chosen = [l \in Lane |-> chosen[0]] /\ chosen[0] = <<>> /\ <<>> \in Seq(Pair) /\ Len(<<>>) = 0
      /\ <<>> \in Seq(Token) /\ <<>> \in Seq(Int)
  BY <1>1 DEF AdvanceInit
<1>3. ChosenInv
  <2>1. Ranked(FlatCand, Live, chosen[0])
    BY <1>2, RankedNone
  <2>2. chosen[0] \in Seq(Pair) /\ Len(chosen[0]) <= BM /\ ~(chosen[0] # <<>>)
    <3>1. Len(chosen[0]) = 0 /\ BM \in Nat
      BY <1>2, AdvanceSizes
    <3>2. chosen[0] \in Seq(Pair) /\ chosen[0] = <<>>
      BY <1>2
    <3> QED  BY <3>1, <3>2
  <2> QED  BY <1>2, <2>1, <2>2 DEF ChosenInv
<1>4. ASSUME NEW b \in Beam PROVE ListInv(b)
  <2>1. mine[b] = <<>> /\ used[b] = [l \in Lane |-> {}] /\ cand_token[b] = <<>> /\ cand_score[b] = <<>>
    BY DEF AdvanceInit
  <2> QED  BY <1>2, <2>1, AdvanceSizes DEF ListInv, ListsBest
<1> QED  BY <1>3, <1>4 DEF AdvanceInit, AdvanceInv, OutputInv

\* Logits are above the sentinel, and so are the scores of a beam that is alive.
LEMMA ScoreIs ==
  ASSUME AdvanceAssumed, AdvanceInv, NEW b \in Beam
  PROVE  /\ Finite(logits[b])
         /\ \A t \in Token : /\ Plus(cum[b], logits[b][t]) \in Int
                             /\ cum[b] # MinusInf <=> Plus(cum[b], logits[b][t]) > NegInf
                             /\ cum[b] # MinusInf =>
                                  cum[b] \in Int /\ Plus(cum[b], logits[b][t]) = cum[b] + logits[b][t]
<1>1. Finite(logits[b])
  BY DEF AdvanceAssumed, BeamAssumption, AdvanceInv, Finite
<1>2. cum[b] # MinusInf => cum[b] \in Int /\ \A t \in Token : cum[b] + logits[b][t] > NegInf
  BY DEF AdvanceAssumed, BeamAssumption, AdvanceInv
<1>3. MinusInf \in Int /\ ~(MinusInf > NegInf)
  BY DEF MinusInf, NegInf
<1> QED  BY <1>1, <1>2, <1>3 DEF Finite, Plus

\* A candidate is a beam and a place of its list.
LEMMA FlatIs ==
  ASSUME AdvanceAssumed, AdvanceInv, Listed, NEW c \in 0 .. NFlat-1
  PROVE  /\ c \div Slots \in Beam /\ (c % Slots) + 1 \in Place
         /\ cand_token[c \div Slots][(c % Slots) + 1] \in Token
         /\ FlatCand[c].id = c /\ FlatCand[c].valid = TRUE
         /\ FlatCand[c].v = Plus(cum[c \div Slots],
                                 logits[c \div Slots][cand_token[c \div Slots][(c % Slots) + 1]])
         /\ FlatCand[c].v \in Int /\ (c \in Live <=> FlatCand[c].v > NegInf)
         /\ CandPair(FlatCand, c) \in Pair
<1> DEFINE b == c \div Slots
           k == (c % Slots) + 1
<1>1. b \in Beam /\ k \in Place
  <2>1. c \div Slots \in 0 .. BM-1 /\ c % Slots \in 0 .. Slots-1
    BY AdvanceSizes, RowAndColumn DEF NFlat
  <2> QED  BY <2>1, AdvanceSizes DEF Beam, Place
<1>2. FlatCand[c] = [id |-> c, valid |-> TRUE, v |-> cand_score[b][k]]
  BY DEF FlatCand
<1>3. c \in Live <=> cum[b] # MinusInf
  BY DEF Live
<1> HIDE DEF b, k
<1>4. Len(cand_token[b]) = Slots /\ ListInv(b)
  BY <1>1 DEF Listed, AdvanceInv
<1>5. cand_token[b][k] \in Token /\ cand_score[b][k] = Plus(cum[b], logits[b][cand_token[b][k]])
  <2>1. k \in 1 .. Len(cand_token[b])
    BY <1>1, <1>4 DEF Place
  <2> QED  BY <2>1, <1>4 DEF ListInv, ListsBest
<1>6. /\ FlatCand[c].v \in Int /\ (c \in Live <=> FlatCand[c].v > NegInf)
  BY <1>1, <1>2, <1>3, <1>5, ScoreIs
<1>7. CandPair(FlatCand, c) \in Pair
  BY <1>6 DEF CandPair, Pair
<1> QED  BY <1>1, <1>2, <1>5, <1>6, <1>7 DEF b, k

LEMMA ScanRowStep ==
  ASSUME AdvanceAssumed, AdvanceInv, NEW b \in Beam, ScanRow(b)
  PROVE  AdvanceInv'
<1>1. /\ UNCHANGED <<logits, cum, used, cand_score, cand_token, chosen, next_token, parent_beam, new_cum>>
      /\ mine[b] = <<>> /\ mine' = [mine EXCEPT ![b] = [l \in Lane |-> Kept(logits[b], l)]]
  BY DEF ScanRow
<1>2. mine' = [a \in Beam |-> mine'[a]] /\ mine'[b] = [l \in Lane |-> Kept(logits[b], l)]
      /\ \A a \in Beam \ {b} : mine'[a] = mine[a]
  BY <1>1 DEF AdvanceInv
<1>3. ASSUME NEW a \in Beam PROVE ListInv(a)'
  <2>1. ListInv(a)
    BY DEF AdvanceInv
  <2>2. CASE a # b
    BY <2>1, <2>2, <1>1, <1>2 DEF ListInv
  <2>3. CASE a = b
    <3> DEFINE row == logits[b]
               lanes == [l \in Lane |-> Kept(row, l)]
               toks == cand_token[b]
    <3>1. lanes # <<>>
      <4>1. 0 \in Lane
        BY Powers DEF AdvanceAssumed
      <4>2. DOMAIN lanes = Lane /\ DOMAIN <<>> = {}
        OBVIOUS
      <4> QED  BY <4>1, <4>2
    <3>2. ListsBest(row, cum[b], <<>>, used[b], toks, cand_score[b])
      BY <2>1, <2>3, <1>1 DEF ListInv
    <3>3. toks = <<>> /\ used[b] = [l \in Lane |-> {}]
      BY <3>2 DEF ListsBest
    <3>4. FirstOf(toks, Len(toks)) = {}
      BY <3>3 DEF FirstOf
    <3>5. ListsBest(row, cum[b], lanes, used[b], toks, cand_score[b])
      <4> HIDE DEF row, toks
      <4> QED  BY <3>1, <3>2, <3>3, <3>4 DEF ListsBest
    <3> QED  BY <2>3, <3>5, <1>1, <1>2 DEF ListInv
  <2> QED  BY <2>2, <2>3
<1>4. ChosenInv'
  BY <1>1 DEF AdvanceInv, ChosenInv, Listed, FlatCand, Live
<1>5. OutputInv'
  BY <1>1 DEF AdvanceInv, OutputInv
<1> QED  BY <1>1, <1>2, <1>3, <1>4, <1>5 DEF AdvanceInv

LEMMA MergeRoundStep ==
  ASSUME AdvanceAssumed, AdvanceInv, NEW b \in Beam, MergeRound(b)
  PROVE  AdvanceInv'
<1>1. PICK r \in {LocalRound(mine[b], used[b])} :
        /\ used' = [used EXCEPT ![b] = r.used]
        /\ cand_token' = [cand_token EXCEPT ![b] = Append(@, r.win[0].id)]
        /\ cand_score' = [cand_score EXCEPT ![b] = Append(@, Plus(cum[b], r.win[0].v))]
  BY DEF MergeRound
<1>2. /\ UNCHANGED <<logits, cum, mine, chosen, next_token, parent_beam, new_cum>>
      /\ mine[b] # <<>> /\ Len(cand_token[b]) < Slots
  BY DEF MergeRound
<1> DEFINE t == Append(cand_token[b], r.win[0].id)
           w == Append(cand_score[b], Plus(cum[b], r.win[0].v))
<1>3. ListsBest(logits[b], cum[b], mine[b], r.used, t, w)
  <2>1. ListsBest(logits[b], cum[b], mine[b], used[b], cand_token[b], cand_score[b])
    BY DEF AdvanceInv, ListInv
  <2>2. Finite(logits[b]) /\ \A u \in Token : Plus(cum[b], logits[b][u]) \in Int
    BY ScoreIs
  <2> QED  BY <2>1, <2>2, <1>1, <1>2, ListGrows
<1>4. /\ cand_token' = [a \in Beam |-> cand_token'[a]] /\ cand_token'[b] = t
      /\ cand_score' = [a \in Beam |-> cand_score'[a]] /\ cand_score'[b] = w
      /\ used' = [a \in Beam |-> used'[a]] /\ used'[b] = r.used
      /\ \A a \in Beam \ {b} : /\ cand_token'[a] = cand_token[a] /\ cand_score'[a] = cand_score[a]
                              /\ used'[a] = used[a]
  BY <1>1 DEF AdvanceInv
<1> HIDE DEF t, w
<1>5. ASSUME NEW a \in Beam PROVE ListInv(a)'
  <2>1. CASE a # b
    <3>1. ListInv(a) /\ a \in Beam \ {b}
      BY <2>1 DEF AdvanceInv
    <3> QED  BY <3>1, <1>2, <1>4 DEF ListInv
  <2>2. CASE a = b
    BY <2>2, <1>2, <1>3, <1>4 DEF ListInv
  <2> QED  BY <2>1, <2>2
<1>6. chosen[0] = <<>>
  <2>1. ListInv(b)
    BY DEF AdvanceInv
  <2>2. Len(cand_token[b]) # Slots
    BY <2>1, <1>2, AdvanceSizes DEF ListInv, ListsBest
  <2> QED  BY <2>2 DEF AdvanceInv, ChosenInv, Listed
<1>7. ChosenInv'
  <2>1. chosen'[0] = <<>> /\ chosen' = [l \in Lane |-> chosen'[0]] /\ chosen'[0] \in Seq(Pair)
        /\ Len(chosen'[0]) <= BM
    BY <1>2, <1>6 DEF AdvanceInv, ChosenInv
  <2>2. Ranked(FlatCand', Live', <<>>)
    BY RankedNone
  <2> QED  BY <2>1, <2>2 DEF ChosenInv
<1>8. OutputInv'
  <2>1. next_token = <<>>
    <3>1. Len(chosen[0]) = 0
      BY <1>6
    <3> QED  BY <3>1, AdvanceSizes DEF AdvanceInv, OutputInv
  <2> QED  BY <2>1, <1>2 DEF AdvanceInv, OutputInv
<1> QED  BY <1>2, <1>4, <1>5, <1>7, <1>8 DEF AdvanceInv

\* Beams and places of a candidate, once all lists are there.
LEMMA ListedIs ==
  ASSUME AdvanceAssumed, AdvanceInv, Listed
  PROVE  /\ Candidates(FlatCand, NFlat)
         /\ \A T : Open(FlatCand, NFlat, T) = Live \ T
         /\ \A c \in Live : CandPair(FlatCand, c) \in Pair
<1>1. \A c \in 0 .. NFlat-1 : /\ FlatCand[c].id = c /\ FlatCand[c].valid = TRUE
                              /\ FlatCand[c].v \in Int /\ (c \in Live <=> FlatCand[c].v > NegInf)
                              /\ CandPair(FlatCand, c) \in Pair
  BY FlatIs
<1>2. Live \subseteq 0 .. NFlat-1
  BY DEF Live
<1>3. Candidates(FlatCand, NFlat)
  <2>1. \A c \in 0 .. NFlat-1 : FlatCand[c].valid \in BOOLEAN
    BY <1>1
  <2> QED  BY <1>1, <2>1 DEF Candidates
<1>4. ASSUME NEW T PROVE Open(FlatCand, NFlat, T) = Live \ T
  <2>1. \A c : c \in Open(FlatCand, NFlat, T) <=>
               c \in 0 .. NFlat-1 /\ c \notin T /\ FlatCand[c].valid /\ FlatCand[c].v > NegInf
    BY DEF Open
  <2>2. \A c : c \in Open(FlatCand, NFlat, T) <=> c \in Live \ T
    BY <1>1, <1>2, <2>1
  <2> QED  BY <2>2
<1> QED  BY <1>1, <1>2, <1>3, <1>4

LEMMA ChooseStep ==
  ASSUME AdvanceAssumed, AdvanceInv, Choose
  PROVE  AdvanceInv'
<1> DEFINE s == chosen[0]
<1>1. /\ UNCHANGED <<logits, cum, mine, used, cand_score, cand_token, next_token, parent_beam, new_cum>>
      /\ Listed /\ Len(s) < BM /\ chosen' = Round(FlatCand, NFlat, chosen)
  BY DEF Choose, FlatCand, NFlat
<1>2. s \in Seq(Pair) /\ (\A l \in Lane : chosen[l] = s) /\ Ranked(FlatCand, Live, s)
  BY DEF AdvanceInv, ChosenInv
<1>3. PICK b : BestAmong(FlatCand, Open(FlatCand, NFlat, IdsOf(s)), b) /\ chosen' = AllTaking(s, b)
  <2>1. TopKAssumption /\ NFlat \in Nat
    BY AdvanceSizes DEF AdvanceAssumed, NFlat
  <2>2. Candidates(FlatCand, NFlat)
    BY <1>1, ListedIs
  <2> HIDE DEF s
  <2>3. \E b : /\ BestAmong(FlatCand, Open(FlatCand, NFlat, IdsOf(s)), b)
               /\ Round(FlatCand, NFlat, chosen) = AllTaking(s, b)
    <3>1. \A l \in Lane : chosen[l] = s
      BY <1>2
    <3>2. TopKAssumption
      BY <2>1
    <3>3. NFlat \in Nat
      BY <2>1
    <3> QED  BY <2>2, <3>1, <3>2, <3>3, RoundBest
  <2> QED  BY <1>1, <2>3
<1>4. Append(s, b) \in Seq(Pair) /\ Ranked(FlatCand, Live, Append(s, b))
  <2>1. BestAmong(FlatCand, Live \ IdsOf(s), b)
    BY <1>1, <1>3, ListedIs
  <2> HIDE DEF s
  <2> QED  BY <1>1, <1>2, <2>1, ListedIs, NoPairIsPair, RankedStep
<1>5. 0 \in Lane
  BY Powers DEF AdvanceAssumed
<1>6. chosen' = [l \in Lane |-> chosen'[0]] /\ chosen'[0] = Append(s, b)
  <2> HIDE DEF s
  <2> QED  BY <1>3, <1>5 DEF AllTaking
<1>7. FlatCand' = FlatCand /\ Live' = Live /\ (Listed' <=> Listed)
  BY <1>1 DEF FlatCand, Live, Listed
<1>8. ChosenInv'
  <2>1. Len(chosen'[0]) <= BM /\ chosen'[0] \in Seq(Pair)
    <3>1. Len(Append(s, b)) = Len(s) + 1 /\ Len(s) \in Nat
      <4> HIDE DEF s
      <4> QED  BY <1>2, <1>4
    <3> HIDE DEF s
    <3> QED  BY <1>1, <1>4, <1>6, <3>1, AdvanceSizes
  <2>2. Ranked(FlatCand', Live', chosen'[0])
    BY <1>4, <1>6, <1>7
  <2> QED  BY <2>1, <2>2, <1>1, <1>6, <1>7 DEF ChosenInv
<1>9. \A b_1 \in Beam : ListInv(b_1)'
  BY <1>1 DEF AdvanceInv, ListInv
<1>10. OutputInv'
  <2>1. next_token = <<>>
    BY <1>1, <1>2, AdvanceSizes DEF AdvanceInv, OutputInv
  <2> QED  BY <2>1, <1>1 DEF AdvanceInv, OutputInv
<1> QED  BY <1>1, <1>8, <1>9, <1>10 DEF AdvanceInv

LEMMA EmitStep ==
  ASSUME AdvanceAssumed, AdvanceInv, Emit
  PROVE  AdvanceInv'
<1>1. /\ UNCHANGED <<logits, cum, mine, used, cand_score, cand_token, chosen>>
      /\ Len(chosen[0]) = BM
      /\ next_token' = [k \in 1 .. BM |->
           cand_token[chosen[0][k].id \div Slots][(chosen[0][k].id % Slots) + 1]]
      /\ parent_beam' = [k \in 1 .. BM |-> chosen[0][k].id \div Slots]
      /\ new_cum' = [k \in 1 .. BM |-> chosen[0][k].v]
  BY DEF Emit
<1>2. OutputInv'
  <2>1. next_token' # <<>>
    <3>1. DOMAIN next_token' = 1 .. BM /\ DOMAIN <<>> = {} /\ 1 \in 1 .. BM
      BY <1>1, AdvanceSizes
    <3> QED  BY <3>1
  <2> QED  BY <2>1, <1>1 DEF OutputInv
<1>3. ChosenInv'
  BY <1>1 DEF AdvanceInv, ChosenInv, Listed, FlatCand, Live
<1>4. \A b \in Beam : ListInv(b)'
  BY <1>1 DEF AdvanceInv, ListInv
<1> QED  BY <1>1, <1>2, <1>3, <1>4 DEF AdvanceInv

LEMMA AdvanceStepInv ==
  ASSUME AdvanceAssumed, AdvanceInv, AdvanceNext \/ UNCHANGED advanceVars
  PROVE  AdvanceInv'
<1>1. CASE UNCHANGED advanceVars
  <2>1. UNCHANGED <<logits, cum, mine, used, cand_score, cand_token, chosen, next_token, parent_beam, new_cum>>
    BY <1>1 DEF advanceVars
  <2>2. ChosenInv'
    BY <2>1 DEF AdvanceInv, ChosenInv, Listed, FlatCand, Live
  <2>3. (\A b \in Beam : ListInv(b)') /\ OutputInv'
    BY <2>1 DEF AdvanceInv, ListInv, OutputInv
  <2> QED  BY <2>1, <2>2, <2>3 DEF AdvanceInv
<1> QED  BY <1>1, ScanRowStep, MergeRoundStep, ChooseStep, EmitStep DEF AdvanceNext
-----------------------------------------------------------------------------
\* The candidate at place j of the list of beam b.
LEMMA PlaceOf ==
  ASSUME AdvanceAssumed, NEW b \in Beam, NEW j \in Place
  PROVE  /\ b*Slots + (j-1) \in 0 .. NFlat-1
         /\ (b*Slots + (j-1)) \div Slots = b /\ ((b*Slots + (j-1)) % Slots) + 1 = j
<1>1. Slots \in Nat \ {0} /\ BM \in Nat /\ b \in 0 .. BM-1 /\ j-1 \in 0 .. Slots-1 /\ j \in Int
  BY AdvanceSizes DEF Beam, Place
<1>2. /\ b*Slots + (j-1) \in 0 .. BM*Slots - 1
      /\ (b*Slots + (j-1)) \div Slots = b /\ (b*Slots + (j-1)) % Slots = j-1
  BY <1>1, RowMajor
<1>3. j-1 + 1 = j
  BY <1>1
<1> QED  BY <1>2, <1>3 DEF NFlat

\* Of a live beam's candidates one is not among fewer than Slots.
LEMMA LivePlace ==
  ASSUME AdvanceAssumed, NEW b \in Beam, cum[b] # MinusInf,
         NEW T, IsFiniteSet(T), Cardinality(T) < Slots
  PROVE  \E j \in Place : b*Slots + (j-1) \in Live \ T
<1> DEFINE f == [j \in Place |-> b*Slots + (j-1)]
<1>1. \A j \in Place : f[j] \in Live
  <2>1. ASSUME NEW j \in Place PROVE b*Slots + (j-1) \in Live
    BY PlaceOf DEF Live
  <2> QED  BY <2>1
<1>2. SUFFICES ASSUME \A j \in Place : f[j] \in T PROVE FALSE
  BY <1>1
<1>3. f \in [Place -> T] /\ \A j \in Place : f[j] = b*Slots + (j-1)
  BY <1>2
<1> HIDE DEF f
<1>4. IsFiniteSet(Place) /\ Cardinality(Place) = Slots
  BY AdvanceSizes, FS_Interval DEF Place
<1>5. PICK i, j \in Place : i # j /\ f[i] = f[j]
  BY <1>3, <1>4, FS_PigeonHole
<1>6. ((f[i] % Slots) + 1 = i) /\ ((f[j] % Slots) + 1 = j)
  BY <1>3, PlaceOf
<1> QED  BY <1>5, <1>6

\* A beam is alive, so that there is something for every round to choose.
LEMMA LiveEnough ==
  ASSUME AdvanceAssumed, AdvanceInv
  PROVE  IsFiniteSet(Live) /\ Cardinality(Live) \in Nat /\ BM <= Cardinality(Live)
<1>1. IsFiniteSet(Live) /\ Cardinality(Live) \in Nat
  <2>1. 0 \in Int /\ NFlat-1 \in Int
    BY AdvanceSizes DEF NFlat
  <2>2. IsFiniteSet(0 .. NFlat-1)
    BY <2>1, FS_Interval
  <2>3. Live \subseteq 0 .. NFlat-1
    BY DEF Live
  <2> QED  BY <2>2, <2>3, FS_Subset, FS_CardinalityType
<1>2. PICK b \in Beam : cum[b] # MinusInf
  BY DEF AdvanceAssumed, BeamAssumption, AdvanceInv
<1>3. ~(Cardinality(Live) < Slots)
  <2>1. SUFFICES ASSUME Cardinality(Live) < Slots PROVE FALSE
    OBVIOUS
  <2>2. \E j \in Place : b*Slots + (j-1) \in Live \ Live
    BY <1>1, <1>2, <2>1, LivePlace
  <2> QED  BY <2>2
<1> QED  BY <1>1, <1>3, AdvanceSizes

\* What a round has chosen, and what it left.
LEMMA ChosenAre ==
  ASSUME AdvanceAssumed, AdvanceInv, Listed, NEW s, s = chosen[0], Len(s) = BM, NEW k \in 1 .. BM
  PROVE  /\ s[k].id \in Live /\ s[k].v = FlatCand[s[k].id].v /\ s[k].v \in Int /\ s[k].v > NegInf
         /\ s[k].id \notin Before(s, k)
         /\ IsFiniteSet(Before(s, k)) /\ Cardinality(Before(s, k)) = k-1
         /\ \A c \in Live \ Before(s, k) : FlatCand[c].v <= s[k].v
<1>1. s \in Seq(Pair) /\ Ranked(FlatCand, Live, s) /\ k \in 1 .. Len(s)
  BY DEF AdvanceInv, ChosenInv
<1>2. \A c \in Live : CandPair(FlatCand, c) \in Pair
  BY ListedIs
<1>3. IsFiniteSet(Live) /\ k <= Cardinality(Live) /\ k \in Nat
  BY LiveEnough, AdvanceSizes
<1>4. /\ s[k].id \in Live /\ s[k] = CandPair(FlatCand, s[k].id)
      /\ Cardinality({j \in Live : Wins(CandPair(FlatCand, j), s[k])}) = k-1
  <2> DEFINE n == Cardinality(Live)
             over(m) == {j \in Live : Wins(CandPair(FlatCand, j), s[m])}
  <2>1. IF k <= n
        THEN s[k].id \in Live /\ s[k] = CandPair(FlatCand, s[k].id) /\ Cardinality(over(k)) = k-1
        ELSE s[k] = NoPair
    <3>1. s \in Seq(Pair)
      BY <1>1
    <3>2. Ranked(FlatCand, Live, s)
      BY <1>1
    <3>3. k \in 1 .. Len(s)
      BY <1>1
    <3>4. IsFiniteSet(Live)
      BY <1>3
    <3>5. \A m \in 1 .. Len(s) :
            IF m <= Cardinality(Live)
            THEN /\ s[m].id \in Live /\ s[m] = CandPair(FlatCand, s[m].id)
                 /\ Cardinality({j \in Live : Wins(CandPair(FlatCand, j), s[m])}) = m-1
            ELSE s[m] = NoPair
      BY <1>2, <3>1, <3>2, <3>4, RankedCounts
    <3> QED  BY <3>3, <3>5
  <2> HIDE DEF over
  <2>2. s[k].id \in Live /\ s[k] = CandPair(FlatCand, s[k].id) /\ Cardinality(over(k)) = k-1
    BY <2>1, <1>3
  <2> QED  BY <2>2 DEF over
<1>5. {j \in Live : Wins(CandPair(FlatCand, j), s[k])} = Before(s, k)
  <2>1. s[k] # NoPair
    <3>1. NoPair.id \notin Live
      BY DEF NoPair, NoId, Live
    <3> QED  BY <3>1, <1>4
  <2> QED  BY <2>1, <1>1 DEF Ranked
<1>6. s[k].v = FlatCand[s[k].id].v /\ s[k].v \in Int /\ s[k].v > NegInf
  <2>1. s[k].id \in 0 .. NFlat-1
    BY <1>4 DEF Live
  <2>2. FlatCand[s[k].id].v \in Int /\ FlatCand[s[k].id].v > NegInf
    BY <1>4, <2>1, FlatIs
  <2>3. s[k].v = FlatCand[s[k].id].v
    BY <1>4 DEF CandPair
  <2> QED  BY <2>2, <2>3
<1>7. s[k].id \notin Before(s, k)
  <2>1. ~Wins(s[k], s[k])
    <3>1. s[k].id \in Int
      BY <1>4 DEF Live
    <3> QED  BY <1>6, <3>1 DEF Wins
  <2> QED  BY <2>1, <1>4, <1>5
<1>8. IsFiniteSet(Before(s, k))
  BY <1>3, <1>5, FS_Subset
<1>9. ASSUME NEW c \in Live \ Before(s, k) PROVE FlatCand[c].v <= s[k].v
  <2>1. ~Wins(CandPair(FlatCand, c), s[k])
    BY <1>5
  <2>2. FlatCand[c].v \in Int
    BY FlatIs DEF Live
  <2> QED  BY <2>1, <2>2, <1>6 DEF Wins, CandPair
<1> QED  BY <1>4, <1>5, <1>6, <1>7, <1>8, <1>9

LEMMA AdvanceInvBest == ASSUME AdvanceAssumed, AdvanceInv PROVE AdvancesBest
<1> SUFFICES ASSUME next_token # <<>>
             PROVE  LET pair(k) == <<parent_beam[k], next_token[k]>>
                        taken   == {pair(k) : k \in 1 .. BM}
                    IN  /\ Cardinality(taken) = BM
                        /\ \A k \in 1 .. BM :
                             /\ cum[parent_beam[k]] # MinusInf
                             /\ new_cum[k] = cum[parent_beam[k]] + logits[parent_beam[k]][next_token[k]]
                             /\ k > 1 => new_cum[k-1] >= new_cum[k]
                        /\ \A p \in (Beam \X Token) \ taken :
                             Plus(cum[p[1]], logits[p[1]][p[2]]) <= new_cum[BM]
  BY DEF AdvancesBest
<1> DEFINE pair(k) == <<parent_beam[k], next_token[k]>>
           taken == {pair(k) : k \in 1 .. BM}
           s == chosen[0]
           at(k) == s[k].id
           place(k) == (s[k].id % Slots) + 1
<1>1. /\ Len(s) = BM /\ Listed
      /\ \A k \in 1 .. BM : /\ parent_beam[k] = at(k) \div Slots
                            /\ next_token[k] = cand_token[parent_beam[k]][place(k)]
                            /\ new_cum[k] = s[k].v
  <2>1. /\ Len(s) = BM
        /\ \A k \in 1 .. BM : /\ parent_beam[k] = at(k) \div Slots
                              /\ next_token[k] = cand_token[parent_beam[k]][place(k)]
                              /\ new_cum[k] = s[k].v
    BY DEF AdvanceInv, OutputInv
  <2>2. s # <<>>
    <3>1. Len(s) # 0
      BY <2>1, AdvanceSizes
    <3> QED  BY <3>1
  <2>3. Listed
    BY <2>2 DEF AdvanceInv, ChosenInv
  <2> QED  BY <2>1, <2>3
<1> HIDE DEF s
<1>2. ASSUME NEW k \in 1 .. BM
      PROVE  /\ at(k) \in Live /\ new_cum[k] = FlatCand[at(k)].v /\ new_cum[k] \in Int
             /\ new_cum[k] > NegInf
             /\ at(k) \notin Before(s, k) /\ IsFiniteSet(Before(s, k))
             /\ Cardinality(Before(s, k)) = k-1
             /\ \A c \in Live \ Before(s, k) : FlatCand[c].v <= new_cum[k]
  BY <1>1, ChosenAre DEF s
<1>3. ASSUME NEW k \in 1 .. BM
      PROVE  /\ parent_beam[k] \in Beam /\ place(k) \in Place /\ next_token[k] \in Token
             /\ cum[parent_beam[k]] # MinusInf
             /\ new_cum[k] = cum[parent_beam[k]] + logits[parent_beam[k]][next_token[k]]
             /\ at(k) = parent_beam[k] * Slots + (place(k) - 1)
  <2>1. at(k) \in 0 .. NFlat-1 /\ cum[parent_beam[k]] # MinusInf
    BY <1>1, <1>2 DEF Live
  <2>2. /\ parent_beam[k] \in Beam /\ place(k) \in Place /\ next_token[k] \in Token
        /\ new_cum[k] = Plus(cum[parent_beam[k]], logits[parent_beam[k]][next_token[k]])
    <3> DEFINE c == s[k].id
    <3>1. c \in 0 .. NFlat-1 /\ parent_beam[k] = c \div Slots
          /\ next_token[k] = cand_token[c \div Slots][(c % Slots) + 1] /\ new_cum[k] = FlatCand[c].v
      BY <1>1, <1>2, <2>1
    <3> HIDE DEF c
    <3>2. /\ parent_beam[k] \in Beam /\ (c % Slots) + 1 \in Place /\ next_token[k] \in Token
          /\ new_cum[k] = Plus(cum[parent_beam[k]], logits[parent_beam[k]][next_token[k]])
      <4>1. /\ c \div Slots \in Beam /\ (c % Slots) + 1 \in Place
            /\ cand_token[c \div Slots][(c % Slots) + 1] \in Token
            /\ FlatCand[c].v = Plus(cum[c \div Slots],
                                    logits[c \div Slots][cand_token[c \div Slots][(c % Slots) + 1]])
        BY <1>1, <3>1, FlatIs
      <4> QED  BY <4>1, <3>1
    <3> QED  BY <3>2 DEF c
  <2>3. at(k) = parent_beam[k] * Slots + (place(k) - 1)
    <3> DEFINE c == s[k].id
    <3>1. c \in 0 .. BM*Slots - 1 /\ parent_beam[k] = c \div Slots
      BY <1>1, <2>1 DEF NFlat
    <3> HIDE DEF c
    <3>2. c = (c \div Slots) * Slots + (c % Slots) /\ c % Slots \in 0 .. Slots-1
      BY <3>1, AdvanceSizes, RowAndColumn
    <3>3. c = parent_beam[k] * Slots + (((c % Slots) + 1) - 1)
      BY <3>1, <3>2, AdvanceSizes
    <3> QED  BY <3>3 DEF c
  <2> HIDE DEF place, at
  <2> QED  BY <2>1, <2>2, <2>3, ScoreIs
<1>4. \A k, m \in 1 .. BM : m < k => at(m) \in Before(s, k) /\ at(k) # at(m)
  <2>1. ASSUME NEW k \in 1 .. BM, NEW m \in 1 .. BM, m < k PROVE at(m) \in Before(s, k)
    <3>1. m \in 1 .. k-1
      BY <2>1
    <3> QED  BY <3>1 DEF Before
  <2> HIDE DEF at
  <2> QED  BY <2>1, <1>2
<1>5. ASSUME NEW k \in 1 .. BM, k > 1 PROVE new_cum[k-1] >= new_cum[k]
  <2>1. k-1 \in 1 .. BM
    BY <1>5, AdvanceSizes
  <2>2. at(k) \notin Before(s, k-1)
    <3>1. Before(s, k-1) \subseteq Before(s, k)
      BY DEF Before
    <3> QED  BY <3>1, <1>2
  <2> HIDE DEF at
  <2> QED  BY <2>1, <2>2, <1>2
\* Different candidates are different continuations.
<1>6. ASSUME NEW k \in 1 .. BM, NEW b \in Beam, NEW j \in Place, pair(k) = <<b, cand_token[b][j]>>
      PROVE  at(k) = b*Slots + (j-1)
  <2> DEFINE toks == cand_token[b]
             i == place(k)
  <2>1. parent_beam[k] = b /\ toks[i] = toks[j]
    BY <1>6, <1>1
  <2>2. ListsBest(logits[b], cum[b], mine[b], used[b], toks, cand_score[b]) /\ Len(toks) = Slots
    BY <1>1 DEF AdvanceInv, ListInv, Listed
  <2>3. \A n \in Place : toks[n] \notin FirstOf(toks, n-1)
    BY <2>2 DEF ListsBest, Place
  <2>4. i \in Place
    BY <1>3
  <2> HIDE DEF i, toks
  <2>5. ~(i < j)
    <3>1. i < j => i \in 1 .. j-1
      BY <2>4, AdvanceSizes DEF Place
    <3> QED  BY <3>1, <2>1, <2>3 DEF FirstOf
  <2>6. ~(j < i)
    <3>1. j < i => j \in 1 .. i-1
      BY <2>4, AdvanceSizes DEF Place
    <3> QED  BY <3>1, <2>1, <2>3, <2>4 DEF FirstOf
  <2>7. i = j
    BY <2>4, <2>5, <2>6, AdvanceSizes DEF Place
  <2> HIDE DEF at
  <2> QED  BY <2>1, <2>7, <1>3 DEF i
<1>7. Cardinality(taken) = BM
  <2> DEFINE f == [k \in 1 .. BM |-> pair(k)]
  <2>1. ASSUME NEW k \in 1 .. BM, NEW m \in 1 .. BM, pair(k) = pair(m) PROVE k = m
    <3>1. pair(m) = <<parent_beam[m], cand_token[parent_beam[m]][place(m)]>>
      BY <1>1
    <3>2. at(k) = at(m)
      <4> HIDE DEF pair, at, place
      <4> QED  BY <3>1, <2>1, <1>3, <1>6
    <3> HIDE DEF at
    <3> QED  BY <3>2, <1>4
  <2>2. f \in Bijection(1 .. BM, taken)
    <3>1. taken = {f[k] : k \in 1 .. BM} /\ \A k \in 1 .. BM : f[k] = pair(k)
      OBVIOUS
    <3> HIDE DEF taken, f, pair
    <3>2. f = [k \in 1 .. BM |-> f[k]]
      BY DEF f
    <3>3. f \in [1 .. BM -> taken]
      BY <3>1, <3>2
    <3> QED  BY <3>1, <3>3, <2>1 DEF Bijection, Injection, Surjection, IsInjective
  <2>3. IsFiniteSet(1 .. BM) /\ Cardinality(1 .. BM) = BM
    BY AdvanceSizes, FS_Interval
  <2> HIDE DEF f, taken
  <2> QED  BY <2>2, <2>3, FS_Bijection DEF ExistsBijection
<1>8. ASSUME NEW b \in Beam, NEW t \in Token, <<b, t>> \notin taken
      PROVE  Plus(cum[b], logits[b][t]) <= new_cum[BM]
  <2> DEFINE toks == cand_token[b]
  <2>1. BM \in 1 .. BM
    BY AdvanceSizes
  <2>2. CASE cum[b] = MinusInf
    <3>1. Plus(cum[b], logits[b][t]) = MinusInf
      BY <2>2 DEF Plus
    <3> QED  BY <3>1, <2>1, <1>2 DEF MinusInf, NegInf
  <2>3. CASE cum[b] # MinusInf
    <3>1. ListsBest(logits[b], cum[b], mine[b], used[b], toks, cand_score[b]) /\ Len(toks) = Slots
      BY <1>1 DEF AdvanceInv, ListInv, Listed
    <3>2. ASSUME NEW j \in Place, b*Slots + (j-1) \notin Before(s, BM)
          PROVE  Plus(cum[b], logits[b][toks[j]]) <= new_cum[BM] /\ toks[j] \in Token
      <4> DEFINE c == b*Slots + (j-1)
      <4>1. c \in 0 .. NFlat-1 /\ c \div Slots = b /\ (c % Slots) + 1 = j
        BY PlaceOf
      <4>2. c \notin Before(s, BM)
        BY <3>2
      <4> HIDE DEF c
      <4>3. c \in Live
        BY <4>1, <2>3 DEF Live
      <4>4. FlatCand[c].v = Plus(cum[b], logits[b][toks[j]]) /\ toks[j] \in Token
        BY <4>1, <1>1, FlatIs
      <4>5. FlatCand[c].v <= new_cum[BM]
        BY <4>2, <4>3, <2>1, <1>2
      <4> QED  BY <4>4, <4>5
    <3>3. CASE \E j \in Place : toks[j] = t
      <4>1. PICK j \in Place : toks[j] = t
        BY <3>3
      <4>2. b*Slots + (j-1) \notin Before(s, BM)
        <5>1. SUFFICES ASSUME b*Slots + (j-1) \in Before(s, BM) PROVE FALSE
          OBVIOUS
        <5>2. PICK k \in 1 .. BM-1 : b*Slots + (j-1) = at(k)
          BY <5>1 DEF Before
        <5>3. k \in 1 .. BM
          BY <5>2, <2>1
        <5>4. parent_beam[k] = b /\ place(k) = j
          <6>1. at(k) \div Slots = b /\ (at(k) % Slots) + 1 = j
            BY <5>2, PlaceOf
          <6> QED  BY <6>1, <5>3, <1>1
        <5>5. pair(k) = <<b, t>>
          BY <5>3, <5>4, <4>1, <1>1
        <5> QED  BY <5>3, <5>5, <1>8
      <4> QED  BY <4>1, <4>2, <3>2
    <3>4. CASE ~ \E j \in Place : toks[j] = t
      <4>1. PICK j \in Place : b*Slots + (j-1) \in Live \ Before(s, BM)
        <5>1. IsFiniteSet(Before(s, BM)) /\ Cardinality(Before(s, BM)) < Slots
          BY <2>1, <1>2, AdvanceSizes
        <5> QED  BY <5>1, <2>3, LivePlace
      <4>2. Plus(cum[b], logits[b][toks[j]]) <= new_cum[BM] /\ toks[j] \in Token
        BY <4>1, <3>2
      <4>3. logits[b][t] <= logits[b][toks[j]]
        <5>1. j \in 1 .. Len(toks)
          BY <3>1 DEF Place
        <5>2. t \notin FirstOf(toks, j-1)
          <6>1. SUFFICES ASSUME t \in FirstOf(toks, j-1) PROVE FALSE
            OBVIOUS
          <6>2. PICK i \in 1 .. j-1 : t = toks[i]
            BY <6>1 DEF FirstOf
          <6>3. i \in Place
            BY <6>2, AdvanceSizes DEF Place
          <6> QED  BY <6>2, <6>3, <3>4
        <5> HIDE DEF toks
        <5> QED  BY <5>1, <5>2, <3>1 DEF ListsBest
      <4>4. /\ Plus(cum[b], logits[b][t]) = cum[b] + logits[b][t] /\ cum[b] \in Int
            /\ Plus(cum[b], logits[b][toks[j]]) = cum[b] + logits[b][toks[j]]
            /\ logits[b][t] \in Int /\ logits[b][toks[j]] \in Int
        BY <2>3, <4>2, ScoreIs DEF Finite
      <4>5. new_cum[BM] \in Int
        BY <2>1, <1>2
      <4> HIDE DEF toks
      <4> QED  BY <4>2, <4>3, <4>4, <4>5
    <3> QED  BY <3>3, <3>4
  <2> QED  BY <2>2, <2>3
<1>9. \A p \in (Beam \X Token) \ taken : Plus(cum[p[1]], logits[p[1]][p[2]]) <= new_cum[BM]
  <2> HIDE DEF taken
  <2> QED  BY <1>8
<1> HIDE DEF taken
<1>10. /\ Cardinality(taken) = BM
       /\ \A k \in 1 .. BM :
            /\ cum[parent_beam[k]] # MinusInf
            /\ new_cum[k] = cum[parent_beam[k]] + logits[parent_beam[k]][next_token[k]]
            /\ k > 1 => new_cum[k-1] >= new_cum[k]
       /\ \A p \in (Beam \X Token) \ taken :
            Plus(cum[p[1]], logits[p[1]][p[2]]) <= new_cum[BM]
  BY <1>3, <1>5, <1>7, <1>9
<1> QED  BY <1>10 DEF taken, pair
-----------------------------------------------------------------------------
\* The parents the cache may be given.
KvStepNext == KvNext \/ \E p \in [Row -> Beam] : Receive(p)

StepAssumed == AdvanceAssumed /\ Assumed

LEMMA ParentsAreBeams ==
  ASSUME AdvanceAssumed, AdvanceInv, parent_beam # <<>>
  PROVE  \A k \in 1 .. BM : parent_beam[k] \in Beam
<1> DEFINE s == chosen[0]
<1>1. /\ Len(s) = BM /\ parent_beam = [k \in 1 .. BM |-> s[k].id \div Slots]
  BY DEF AdvanceInv, OutputInv
<1>2. Listed
  <2>1. s # <<>>
    <3>1. Len(s) # 0
      BY <1>1, AdvanceSizes
    <3> QED  BY <3>1
  <2> QED  BY <2>1 DEF AdvanceInv, ChosenInv
<1> HIDE DEF s
<1>3. ASSUME NEW k \in 1 .. BM PROVE parent_beam[k] \in Beam
  <2>1. s[k].id \in 0 .. NFlat-1
    BY <1>1, <1>2, ChosenAre DEF s, Live
  <2>2. s[k].id \div Slots \in Beam
    BY <2>1, <1>2, FlatIs
  <2> QED  BY <2>2, <1>1
<1> QED  BY <1>3

(***************************************************************************)
(* The outputs are exact until the cache has taken the parents over, and   *)
(* released afterwards.                                                    *)
(***************************************************************************)
StepInv == IF KvStep THEN next_token = <<>> ELSE AdvanceInv

LEMMA StepInitInv == ASSUME StepAssumed, StepInit PROVE StepInv /\ KvInit
BY AdvanceInitInv DEF StepAssumed, StepInit, KvInit, KvStep, StepInv

LEMMA ReorderReceives ==
  ASSUME StepAssumed, StepInv, Reorder
  PROVE  StepInv' /\ \E p \in [Row -> Beam] : Receive(p)
<1>1. PICK others \in [Row -> Beam] :
        Receive([r \in Row |-> IF r < BM THEN parent_beam[r+1] ELSE others[r]])
  BY DEF Reorder
<1> DEFINE p == [r \in Row |-> IF r < BM THEN parent_beam[r+1] ELSE others[r]]
<1>2. ~KvStep /\ block_table' \in Tables
  BY <1>1 DEF Receive
<1>3. \A k \in 1 .. BM : parent_beam[k] \in Beam
  BY <1>2, ParentsAreBeams DEF StepAssumed, StepInv, Reorder
<1>4. p \in [Row -> Beam]
  <2>1. ASSUME NEW r \in Row PROVE (IF r < BM THEN parent_beam[r+1] ELSE others[r]) \in Beam
    <3>1. r < BM => r+1 \in 1 .. BM
      BY Sizes DEF StepAssumed
    <3> QED  BY <3>1, <1>3
  <2> QED  BY <2>1
<1>5. KvStep'
  <2>1. block_table' \in [Row -> [Col -> Blk \cup {-1}]] /\ Row # {}
    BY <1>2, Sizes DEF StepAssumed, Assumed, KvAssumption
  <2>2. block_table' # <<>>
    <3>1. DOMAIN block_table' = Row /\ DOMAIN <<>> = {}
      BY <2>1
    <3> QED  BY <2>1, <3>1
  <2> QED  BY <2>2 DEF KvStep
<1> QED  BY <1>1, <1>4, <1>5 DEF Reorder, StepInv

LEMMA StepNextKeeps ==
  ASSUME StepAssumed, StepInv, [StepNext]_stepVars
  PROVE  StepInv' /\ [KvStepNext]_kvVars
<1>1. CASE AdvanceStep
  <2>1. ~KvStep /\ AdvanceNext /\ UNCHANGED kvVars
    BY <1>1 DEF AdvanceStep
  <2>2. ~KvStep'
    BY <2>1 DEF KvStep, kvVars, input
  <2> QED  BY <2>1, <2>2, AdvanceStepInv DEF StepAssumed, StepInv
<1>2. CASE Reorder
  BY <1>2, ReorderReceives DEF KvStepNext
<1>3. CASE KvMove \/ UNCHANGED stepVars
  <2>1. UNCHANGED advanceVars /\ [KvStepNext]_kvVars
    BY <1>3 DEF KvMove, stepVars, KvStepNext
  <2>2. UNCHANGED input
    BY <1>3 DEF KvMove, stepVars, KvNext, Zero, Scatter, BuildPair, Clone, Copy, Gather,
                GatherRemapped, kvVars
  <2>3. KvStep' <=> KvStep
    BY <2>2 DEF KvStep, input
  <2>4. next_token' = next_token
    BY <2>1 DEF advanceVars
  <2> QED  BY <2>1, <2>3, <2>4, AdvanceStepInv DEF StepAssumed, StepInv
<1> QED  BY <1>1, <1>2, <1>3 DEF StepNext

(***************************************************************************)
(* A step of beam search is exact, for any width, vocabulary, number of    *)
(* lanes and length of the lists, any logits and scores with a beam alive: *)
(* the continuations it emits are distinct, in order, each with its parent *)
(* and score, and no other continuation of any beam is better, whether a   *)
(* lane has dropped it, a list has left it out or the last selection has.  *)
(***************************************************************************)
THEOREM StepIsExact == ASSUME StepAssumed PROVE StepSpec => []AdvancesBest
<1>1. StepInit => StepInv
  BY StepInitInv
<1>2. StepInv /\ [StepNext]_stepVars => StepInv'
  BY StepNextKeeps
<1>3. StepInv => AdvancesBest
  BY AdvanceInvBest DEF StepAssumed, StepInv, AdvancesBest
<1> QED  BY <1>1, <1>2, <1>3, PTL DEF StepSpec

(***************************************************************************)
(* From logits to cache: the parents that beam_select emits are rows of    *)
(* the batch entry, so that the cache of a step is one with some family of *)
(* parents; the beams then hold their parents' histories, by copy or by    *)
(* remapping.                                                              *)
(***************************************************************************)
THEOREM StepMovesHistory ==
  ASSUME StepAssumed PROVE StepSpec => [](HoldsParentHistory /\ CopyAgreesWithRemap)
<1>1. StepInit => StepInv /\ KvInit
  BY StepInitInv
<1>2. StepInv /\ [StepNext]_stepVars => StepInv' /\ [KvStepNext]_kvVars
  BY StepNextKeeps
<1>3. KvSpec => []HoldsParentHistory
  BY ReorderHoldsHistory DEF StepAssumed
<1>4. KvSpec => []CopyAgreesWithRemap
  BY CopyIsRemap DEF StepAssumed
<1> QED  BY <1>1, <1>2, <1>3, <1>4, PTL DEF StepSpec, KvSpec, KvStepNext
=============================================================================
