------------------------------- MODULE Facts --------------------------------
(***************************************************************************)
(* Facts the proofs share.  First division with remainder, where SplitK    *)
(* says who owns a block and BeamKv lays out block tables and caches.      *)
(* Then induction: the library's induction theorems have an operator for a *)
(* parameter, which the provers here cannot instantiate, but the subset    *)
(* order on finite sets is well founded, and from that follow least and    *)
(* greatest members, induction with a set in place of the operator, that   *)
(* recursive functions exist, and what a sum over a finite set is.         *)
(***************************************************************************)
EXTENDS Integers, Folds, FiniteSetTheorems, WellFoundedInduction, TLAPS

LEMMA Division ==
  ASSUME NEW N \in Nat \ {0}, NEW a \in Nat
  PROVE  a \div N \in Nat /\ a % N \in 0 .. N-1 /\ a = N * (a \div N) + (a % N)
OBVIOUS

LEMMA SmallRemainder == ASSUME NEW N \in Nat \ {0}, NEW a \in 0 .. N-1 PROVE a % N = a
OBVIOUS

LEMMA Multiple ==
  ASSUME NEW N \in Nat \ {0}, NEW d \in Int, d >= 1 PROVE N * d >= N
<1>1. d = 1 + (d - 1) /\ d - 1 \in Nat
  OBVIOUS
<1>2. N * d = N + N * (d - 1)
  BY <1>1
<1>3. N * (d - 1) >= 0
  BY <1>1
<1> QED  BY <1>2, <1>3

LEMMA DivisionUnique ==
  ASSUME NEW N \in Nat \ {0}, NEW q \in Int, NEW p \in Int,
         NEW r \in 0 .. N-1, NEW s \in 0 .. N-1, N * q + r = N * p + s
  PROVE  q = p /\ r = s
<1>1. N * (q - p) = s - r
  OBVIOUS
<1>2. ~(q - p >= 1)
  BY <1>1, Multiple
<1>3. N * (p - q) = r - s
  OBVIOUS
<1>4. ~(p - q >= 1)
  BY <1>3, Multiple
<1> QED  BY <1>2, <1>4

\* The members of a residue class are N apart.
LEMMA NextMember ==
  ASSUME NEW N \in Nat \ {0}, NEW a \in Nat PROVE (a + N) % N = a % N
<1> DEFINE q == a \div N  r == a % N  p == (a + N) \div N  s == (a + N) % N
<1>1. a = N * q + r /\ q \in Nat /\ r \in 0 .. N-1
  BY Division
<1>2. a + N \in Nat
  OBVIOUS
<1>3. a + N = N * p + s /\ p \in Nat /\ s \in 0 .. N-1
  BY <1>2, Division
<1> HIDE DEF q, r, p, s
<1>4. N * (q + 1) + r = N * p + s
  BY <1>1, <1>3
<1>5. r = s
  BY <1>1, <1>3, <1>4, DivisionUnique
<1> QED  BY <1>5 DEF r, s

LEMMA NoMemberBetween ==
  ASSUME NEW N \in Nat \ {0}, NEW a \in Nat, NEW b \in Nat, a % N = b % N, a <= b, b < a + N
  PROVE  a = b
<1> DEFINE q == a \div N  r == a % N  p == b \div N
<1>1. a = N * q + r /\ q \in Nat /\ r \in 0 .. N-1
  BY Division
<1>2. b = N * p + r /\ p \in Nat
  BY Division
<1> HIDE DEF q, r, p
<1>3. N * (p - q) = b - a /\ b - a < N /\ b - a >= 0
  BY <1>1, <1>2
<1>4. ~(p - q >= 1)
  BY <1>1, <1>2, <1>3, Multiple
<1>5. ~(q - p >= 1)
  <2>1. N * (q - p) = a - b
    BY <1>1, <1>2
  <2> QED  BY <2>1, <1>1, <1>2, <1>3, Multiple
<1>6. p = q
  BY <1>1, <1>2, <1>4, <1>5
<1> QED  BY <1>1, <1>2, <1>6

(***************************************************************************)
(* Rows of M elements each, laid out one after the other.                  *)
(***************************************************************************)
LEMMA RowMajor ==
  ASSUME NEW M \in Nat \ {0}, NEW R \in Nat, NEW r \in 0 .. R-1, NEW c \in 0 .. M-1
  PROVE  r * M + c \in 0 .. R * M - 1 /\ (r * M + c) \div M = r /\ (r * M + c) % M = c
<1> DEFINE s == r * M + c
<1>1. s \in Nat /\ r * M \in Nat
  OBVIOUS
<1>2. s < R * M
  <2>1. M * (R - r) >= M
    BY Multiple
  <2>2. M * (R - r) = R * M - r * M
    OBVIOUS
  <2> QED  BY <1>1, <2>1, <2>2
<1>3. s \div M \in Nat /\ s % M \in 0 .. M-1 /\ s = M * (s \div M) + (s % M)
  BY <1>1, Division
<1>4. s = M * r + c
  OBVIOUS
<1> HIDE DEF s
<1>5. s \div M = r /\ s % M = c
  <2> DEFINE q == s \div M  d == s % M
  <2>1. q \in Nat /\ d \in 0 .. M-1 /\ M * q + d = M * r + c
    BY <1>3, <1>4
  <2> HIDE DEF q, d
  <2>2. q = r /\ d = c
    BY <2>1, DivisionUnique
  <2> QED  BY <2>2 DEF q, d
<1>6. R * M \in Int
  OBVIOUS
<1> QED  BY <1>1, <1>2, <1>5, <1>6 DEF s

LEMMA RowAndColumn ==
  ASSUME NEW M \in Nat \ {0}, NEW R \in Nat, NEW s \in 0 .. R * M - 1
  PROVE  s \div M \in 0 .. R-1 /\ s % M \in 0 .. M-1 /\ s = (s \div M) * M + (s % M)
<1> DEFINE q == s \div M  d == s % M
<1>1. s \in Nat /\ s < R * M
  OBVIOUS
<1>2. q \in Nat /\ d \in 0 .. M-1 /\ s = M * q + d
  BY <1>1, Division
<1> HIDE DEF q, d
<1>3. ~(q - R >= 0)
  <2> SUFFICES ASSUME q - R >= 0 PROVE FALSE
    OBVIOUS
  <2>1. q - R \in Nat
    BY <1>2
  <2>2. M * (q - R) >= 0
    BY <2>1
  <2>3. M * (q - R) = M * q - R * M
    BY <1>2
  <2> QED  BY <1>1, <1>2, <2>2, <2>3
<1>4. q \in 0 .. R-1 /\ s = q * M + d
  BY <1>2, <1>3
<1> QED  BY <1>2, <1>4 DEF q, d
-----------------------------------------------------------------------------
\* A family of finite sets has a minimal member.
LEMMA MinimalSet ==
  ASSUME NEW S, NEW C, \A T \in C : T \subseteq S /\ IsFiniteSet(T), C # {}
  PROVE  \E T \in C : \A U \in C : U \subseteq T => U = T
<1>1. C \subseteq FiniteSubsetsOf(S)
  BY DEF FiniteSubsetsOf
<1>2. IsWellFoundedOn(StrictSubsetOrdering(S), FiniteSubsetsOf(S))
  BY FS_StrictSubsetOrderingWellFounded
<1>3. PICK T \in C : \A U \in C : ~(<<U, T>> \in StrictSubsetOrdering(S))
  BY <1>1, <1>2, WFMin
<1>4. ASSUME NEW U \in C, U \subseteq T PROVE U = T
  BY <1>3, <1>4 DEF StrictSubsetOrdering
<1> QED  BY <1>4

\* The same for the subsets of a finite set.
LEMMA MinimalSubset ==
  ASSUME NEW S, IsFiniteSet(S), NEW C, C \subseteq SUBSET S, C # {}
  PROVE  \E T \in C : \A U \in C : U \subseteq T => U = T
<1>1. C \subseteq FiniteSubsetsOf(S)
  BY FS_Subset DEF FiniteSubsetsOf
<1>2. PICK T \in C : \A U \in C : ~(<<U, T>> \in StrictSubsetOrdering(S))
  BY <1>1, FS_StrictSubsetOrderingWellFounded, WFMin
<1>3. ASSUME NEW U \in C, U \subseteq T PROVE U = T
  BY <1>2, <1>3 DEF StrictSubsetOrdering
<1> QED  BY <1>3

LEMMA LeastOf ==
  ASSUME NEW S, S \subseteq Nat, S # {}
  PROVE  \E m \in S : \A k \in S : m <= k
<1> DEFINE C == {0 .. n : n \in S}
<1>1. \A T \in C : T \subseteq Nat /\ IsFiniteSet(T)
  <2>1. ASSUME NEW n \in S PROVE 0 .. n \subseteq Nat /\ IsFiniteSet(0 .. n)
    BY FS_Interval
  <2> QED  BY <2>1
<1>2. \E T \in C : \A U \in C : U \subseteq T => U = T
  <2>1. C # {}
    OBVIOUS
  <2> HIDE DEF C
  <2> QED  BY <1>1, <2>1, MinimalSet
<1>3. PICK m \in S : \A U \in C : U \subseteq 0 .. m => U = 0 .. m
  BY <1>2
<1>4. ASSUME NEW k \in S PROVE m <= k
  <2>1. SUFFICES ASSUME k < m PROVE FALSE
    OBVIOUS
  <2>2. 0 .. k \in C /\ 0 .. k \subseteq 0 .. m
    BY <2>1
  <2>3. m \in 0 .. m /\ m \notin 0 .. k
    BY <2>1
  <2> QED  BY <1>3, <2>2, <2>3
<1> QED  BY <1>4

LEMMA NatInductionSet ==
  ASSUME NEW S, 0 \in S, \A n \in Nat : n \in S => n+1 \in S
  PROVE  Nat \subseteq S
<1>1. SUFFICES ASSUME Nat \ S # {} PROVE FALSE
  OBVIOUS
<1>2. PICK m \in Nat \ S : \A k \in Nat \ S : m <= k
  <2> DEFINE T == Nat \ S
  <2>1. T \subseteq Nat /\ T # {}
    BY <1>1
  <2> HIDE DEF T
  <2>2. \E m \in T : \A k \in T : m <= k
    BY <2>1, LeastOf
  <2> QED  BY <2>2 DEF T
<1>3. m # 0 /\ m - 1 \in Nat
  BY <1>2
<1>4. m - 1 \in S
  BY <1>2, <1>3
<1> QED  BY <1>3, <1>4, <1>2

LEMMA GreatestOf ==
  ASSUME NEW S, NEW N \in Nat, S \subseteq 0 .. N, S # {}
  PROVE  \E m \in S : \A k \in S : k <= m
<1> DEFINE T == {N - k : k \in S}
<1>1. T \subseteq Nat /\ T # {}
  <2>1. \A k \in S : k \in 0 .. N /\ N - k \in Nat
    OBVIOUS
  <2>2. T # {}
    OBVIOUS
  <2> QED  BY <2>1, <2>2
<1>2. \E m \in T : \A k \in T : m <= k
  <2> HIDE DEF T
  <2> QED  BY <1>1, LeastOf
<1>3. PICK m \in S : \A k \in T : N - m <= k
  BY <1>2
<1>4. \A k \in S : N - m <= N - k
  BY <1>3
<1> QED  BY <1>4

LEMMA FiniteGreatest ==
  ASSUME NEW S, S \subseteq Nat, IsFiniteSet(S), S # {}
  PROVE  \E m \in S : \A k \in S : k <= m
<1> DEFINE From(n) == {k \in S : k >= n}
           C == {From(n) : n \in S}
<1>1. \A T \in C : T \subseteq S /\ IsFiniteSet(T)
  BY FS_Subset
<1>2. \E T \in C : \A U \in C : U \subseteq T => U = T
  <2>1. C # {}
    OBVIOUS
  <2> HIDE DEF C
  <2> QED  BY <1>1, <2>1, MinimalSet
<1>3. PICK m \in S : \A U \in C : U \subseteq From(m) => U = From(m)
  BY <1>2
<1>4. ASSUME NEW k \in S PROVE k <= m
  <2> SUFFICES ASSUME m < k PROVE FALSE
    OBVIOUS
  <2>1. From(k) \in C /\ From(k) \subseteq From(m)
    <3>1. From(k) \subseteq From(m)
      <4>1. \A l \in S : l >= k => l >= m
        OBVIOUS
      <4> QED  BY <4>1
    <3>2. From(k) \in C
      <4> HIDE DEF From
      <4> QED  OBVIOUS
    <3> QED  BY <3>1, <3>2
  <2>2. m \in From(m) /\ m \notin From(k)
    OBVIOUS
  <2> QED  BY <1>3, <2>1, <2>2
<1> QED  BY <1>4

\* Strong induction, upwards.
LEMMA IntervalInduction ==
  ASSUME NEW N \in Nat, NEW S, \A n \in 0 .. N : (\A k \in 0 .. n-1 : k \in S) => n \in S
  PROVE  0 .. N \subseteq S
<1> DEFINE T == {n \in 0 .. N : n \notin S}
<1>1. SUFFICES ASSUME T # {} PROVE FALSE
  OBVIOUS
<1>2. PICK m \in T : \A k \in T : m <= k
  <2>1. T \subseteq Nat
    OBVIOUS
  <2> HIDE DEF T
  <2> QED  BY <1>1, <2>1, LeastOf
<1>3. \A k \in 0 .. m-1 : k \in S
  BY <1>2
<1> QED  BY <1>2, <1>3

\* A function that is defined from what it is below exists, and has its type.
Follows(f, N, e, step) == \A n \in 0 .. N : f[n] = IF n = 0 THEN e ELSE step[<<n, f[n-1]>>]

LEMMA RecursionExists ==
  ASSUME NEW N \in Nat, NEW S, NEW e \in S, NEW step \in [(1 .. N) \X S -> S]
  PROVE  \E f \in [0 .. N -> S] : Follows(f, N, e, step)
<1> DEFINE Good == {m \in Nat : m <= N => \E f \in [0 .. m -> S] :
                       /\ f[0] = e
                       /\ \A n \in 1 .. m : f[n] = step[<<n, f[n-1]>>]}
<1>1. 0 \in Good
  <2> DEFINE f == [n \in 0 .. 0 |-> e]
  <2>1. f \in [0 .. 0 -> S] /\ f[0] = e /\ \A n \in 1 .. 0 : f[n] = step[<<n, f[n-1]>>]
    OBVIOUS
  <2> HIDE DEF f
  <2> QED  BY <2>1
<1>2. ASSUME NEW m \in Nat, m \in Good PROVE m+1 \in Good
  <2>1. SUFFICES ASSUME m+1 <= N
                 PROVE  \E f \in [0 .. m+1 -> S] :
                          f[0] = e /\ \A n \in 1 .. m+1 : f[n] = step[<<n, f[n-1]>>]
    OBVIOUS
  <2>2. PICK h \in [0 .. m -> S] :
           /\ h[0] = e
           /\ \A n \in 1 .. m : h[n] = step[<<n, h[n-1]>>]
    BY <1>2, <2>1
  <2> DEFINE f == [n \in 0 .. m+1 |-> IF n <= m THEN h[n] ELSE step[<<m+1, h[m]>>]]
  <2>3. <<m+1, h[m]>> \in (1 .. N) \X S
    BY <2>1, <2>2
  <2>4. step[<<m+1, h[m]>>] \in S
    BY <2>3
  <2>5. f \in [0 .. m+1 -> S]
    BY <2>4, <2>2
  <2>6. f[0] = e
    BY <2>2
  <2>7. ASSUME NEW n \in 1 .. m+1 PROVE f[n] = step[<<n, f[n-1]>>]
    <3>1. n-1 \in 0 .. m+1 /\ n-1 <= m /\ f[n-1] = h[n-1]
      OBVIOUS
    <3>2. CASE n <= m
      BY <3>1, <3>2, <2>2
    <3>3. CASE n = m+1
      BY <3>1, <3>3
    <3> QED  BY <3>2, <3>3
  <2> HIDE DEF f
  <2> QED  BY <2>5, <2>6, <2>7
<1>3. N \in Good
  <2> HIDE DEF Good
  <2> QED  BY <1>1, <1>2, NatInductionSet
<1>4. PICK f \in [0 .. N -> S] : f[0] = e /\ \A n \in 1 .. N : f[n] = step[<<n, f[n-1]>>]
  BY <1>3
<1>5. Follows(f, N, e, step)
  BY <1>4 DEF Follows
<1> QED  BY <1>5

LEMMA RecursionTypes ==
  ASSUME NEW N \in Nat, NEW S, NEW f, f[0] \in S, \A n \in 1 .. N : f[n-1] \in S => f[n] \in S
  PROVE  \A n \in 0 .. N : f[n] \in S
<1> DEFINE Good == {n \in 0 .. N : f[n] \in S}
<1>1. ASSUME NEW n \in 0 .. N, \A k \in 0 .. n-1 : k \in Good PROVE n \in Good
  <2>1. CASE n = 0
    BY <2>1
  <2>2. CASE n # 0
    <3>1. n \in 1 .. N /\ n-1 \in 0 .. n-1
      BY <2>2
    <3>2. f[n-1] \in S
      BY <3>1, <1>1
    <3> QED  BY <3>1, <3>2
  <2> QED  BY <2>1, <2>2
<1>2. 0 .. N \subseteq Good
  <2> HIDE DEF Good
  <2> QED  BY <1>1, IntervalInduction
<1> QED  BY <1>2

\* So does one that is defined from any of its earlier values.
FollowsHistory(f, N, step) == \A n \in 0 .. N : f[n] = step[<<n, f>>]

LooksBack(step, N, S) ==
  /\ step \in [(0 .. N) \X [0 .. N -> S] -> S]
  /\ \A n \in 0 .. N : \A g, h \in [0 .. N -> S] :
       (\A m \in 0 .. n-1 : g[m] = h[m]) => step[<<n, g>>] = step[<<n, h>>]

LEMMA HistoryExists ==
  ASSUME NEW N \in Nat, NEW S, NEW e \in S, NEW step, LooksBack(step, N, S)
  PROVE  \E f \in [0 .. N -> S] : FollowsHistory(f, N, step)
<1> DEFINE SS == [0 .. N -> S]
           stepH == [x \in (1 .. N+1) \X SS |-> [x[2] EXCEPT ![x[1]-1] = step[<<x[1]-1, x[2]>>]]]
           start == [n \in 0 .. N |-> e]
<1>1. start \in SS
  OBVIOUS
<1>2. \A n \in 0 .. N, h \in SS : step[<<n, h>>] \in S
  BY DEF LooksBack
<1>3. stepH \in [(1 .. N+1) \X SS -> SS]
  BY <1>2
<1>4. \A n \in 0 .. N, h \in SS : stepH[<<n+1, h>>] = [h EXCEPT ![n] = step[<<n, h>>]]
  <2>1. ASSUME NEW n \in 0 .. N, NEW h \in SS
        PROVE  stepH[<<n+1, h>>] = [h EXCEPT ![n] = step[<<n, h>>]]
    <3> DEFINE x == <<n+1, h>>
    <3>1. x \in (1 .. N+1) \X SS /\ x[1] - 1 = n /\ x[2] = h
      OBVIOUS
    <3> HIDE DEF SS, x
    <3>2. stepH[x] = [x[2] EXCEPT ![x[1]-1] = step[<<x[1]-1, x[2]>>]]
      BY <3>1
    <3>3. stepH[x] = [h EXCEPT ![n] = step[<<n, h>>]]
      BY <3>1, <3>2
    <3> QED  BY <3>3 DEF x
  <2> QED  BY <2>1
<1> HIDE DEF stepH, SS, start
<1>5. PICK H \in [0 .. N+1 -> SS] : Follows(H, N+1, start, stepH)
  <2>1. N+1 \in Nat
    OBVIOUS
  <2> QED  BY <2>1, <1>1, <1>3, RecursionExists
<1>6. \A n \in 0 .. N : H[n] \in SS /\ H[n+1] = [H[n] EXCEPT ![n] = step[<<n, H[n]>>]]
  <2>1. ASSUME NEW n \in 0 .. N
        PROVE  H[n] \in SS /\ H[n+1] = [H[n] EXCEPT ![n] = step[<<n, H[n]>>]]
    <3>1. n+1 \in 0 .. N+1 /\ n+1 # 0 /\ n+1-1 = n /\ n \in 0 .. N+1
      OBVIOUS
    <3>2. H[n+1] = stepH[<<n+1, H[n]>>]
      BY <3>1, <1>5 DEF Follows
    <3> QED  BY <3>1, <3>2, <1>4, <1>5
  <2> QED  BY <2>1
<1> DEFINE f == [m \in 0 .. N |-> H[m+1][m]]
           Good == {n \in 0 .. N : \A m \in 0 .. n-1 : H[n][m] = f[m]}
<1>7. ASSUME NEW n \in 0 .. N, \A k \in 0 .. n-1 : k \in Good PROVE n \in Good
  <2>1. SUFFICES ASSUME NEW m \in 0 .. n-1 PROVE H[n][m] = f[m]
    BY DEF Good
  <2>2. n-1 \in 0 .. N /\ n-1 \in 0 .. n-1 /\ n-1+1 = n /\ m \in 0 .. N
    OBVIOUS
  <2>3. H[n-1] \in [0 .. N -> S] /\ H[n] = [H[n-1] EXCEPT ![n-1] = step[<<n-1, H[n-1]>>]]
    BY <2>2, <1>6 DEF SS
  <2>4. CASE m = n-1
    BY <2>2, <2>4
  <2>5. CASE m # n-1
    <3>1. m \in 0 .. n-1-1
      BY <2>5
    <3>2. H[n-1][m] = f[m]
      <4>1. n-1 \in Good
        BY <2>2, <1>7
      <4> HIDE DEF f
      <4> QED  BY <4>1, <3>1
    <3>3. H[n][m] = H[n-1][m]
      BY <2>2, <2>3, <2>5
    <3> QED  BY <3>2, <3>3
  <2> QED  BY <2>4, <2>5
<1>8. 0 .. N \subseteq Good
  <2> HIDE DEF Good
  <2> QED  BY <1>7, IntervalInduction
<1>9. f \in [0 .. N -> S]
  <2>1. ASSUME NEW m \in 0 .. N PROVE H[m+1][m] \in S
    <3>1. H[m] \in [0 .. N -> S] /\ H[m+1] = [H[m] EXCEPT ![m] = step[<<m, H[m]>>]]
      BY <1>6 DEF SS
    <3>2. step[<<m, H[m]>>] \in S
      BY <3>1, <1>2 DEF SS
    <3> QED  BY <3>1, <3>2
  <2> QED  BY <2>1
<1>10. ASSUME NEW n \in 0 .. N PROVE f[n] = step[<<n, f>>]
  <2>1. H[n] \in [0 .. N -> S] /\ H[n+1] = [H[n] EXCEPT ![n] = step[<<n, H[n]>>]]
    BY <1>6 DEF SS
  <2>2. f[n] = step[<<n, H[n]>>]
    BY <2>1
  <2>3. \A m \in 0 .. n-1 : H[n][m] = f[m]
    <3>1. n \in Good
      BY <1>8
    <3> HIDE DEF f
    <3> QED  BY <3>1
  <2> HIDE DEF f
  <2>4. step[<<n, H[n]>>] = step[<<n, f>>]
    BY <2>1, <2>3, <1>9 DEF LooksBack
  <2> QED  BY <2>2, <2>4
<1> HIDE DEF f
<1> QED  BY <1>9, <1>10 DEF FollowsHistory

\* A set that is defined from what it has above exists.
LEMMA ReachExists ==
  ASSUME NEW N \in Nat, NEW root, NEW E
  PROVE  \E W \in SUBSET (1 .. N) : \A n \in 1 .. N :
           n \in W <=> n = root \/ \E m \in 1 .. N : m > n /\ m \in W /\ <<m, n>> \in E
<1> DEFINE Closed(T) == \A n \in 1 .. N :
             (n = root \/ \E m \in 1 .. N : m > n /\ m \in T /\ <<m, n>> \in E) => n \in T
           W == {n \in 1 .. N : \A T \in SUBSET (1 .. N) : Closed(T) => n \in T}
<1>1. Closed(W)
  OBVIOUS
<1>2. ASSUME NEW n \in W, n # root, ~ \E m \in 1 .. N : m > n /\ m \in W /\ <<m, n>> \in E
      PROVE  FALSE
  <2>1. Closed(W \ {n})
    BY <1>1, <1>2
  <2> QED  BY <2>1
<1>3. W \in SUBSET (1 .. N)
  OBVIOUS
<1> HIDE DEF W
<1> QED  BY <1>1, <1>2, <1>3
\* A set all of which is reached is part of every set that is closed.
ReachedBy(W, N, root, E) ==
  W \subseteq 1 .. N /\ \A n \in W : n = root \/ \E m \in W : m > n /\ <<m, n>> \in E

ClosedUnder(V, N, root, E) ==
  \A n \in 1 .. N : (n = root \/ \E m \in V : m > n /\ <<m, n>> \in E) => n \in V

LEMMA ReachedInClosed ==
  ASSUME NEW N \in Nat, NEW root, NEW E, NEW W, NEW V,
         ReachedBy(W, N, root, E), ClosedUnder(V, N, root, E)
  PROVE  W \subseteq V
<1> USE DEF ReachedBy, ClosedUnder
<1> DEFINE B == W \ V
<1>1. SUFFICES ASSUME B # {} PROVE FALSE
  OBVIOUS
<1>2. PICK n \in B : \A k \in B : k <= n
  <2>1. B \subseteq 0 .. N
    <3>1. 1 .. N \subseteq 0 .. N
      OBVIOUS
    <3> HIDE DEF ClosedUnder
    <3> QED  BY <3>1
  <2> HIDE DEF B
  <2> QED  BY <1>1, <2>1, GreatestOf
<1>3. n \in W /\ n \notin V /\ n \in 1 .. N
  OBVIOUS
<1>4. n # root
  BY <1>3
<1>5. PICK m \in W : m > n /\ <<m, n>> \in E
  BY <1>3, <1>4
<1>6. m \in V
  <2>1. ~(m <= n)
    BY <1>3, <1>5
  <2> QED  BY <1>2, <2>1
<1> QED  BY <1>3, <1>5, <1>6
-----------------------------------------------------------------------------
(***************************************************************************)
(* Sums over finite sets of natural numbers.  SumFunctionOnSet is a fold,  *)
(* that is, a recursive function on the subsets of the set.                *)
(***************************************************************************)
Some(s) == CHOOSE x \in s : TRUE
SumsUp(f, S, h) == h = [s \in SUBSET S |-> IF s = {} THEN 0 ELSE f[Some(s)] + h[s \ {Some(s)}]]

LEMMA SumDef ==
  ASSUME NEW f, NEW S
  PROVE  SumFunctionOnSet(f, S) = (CHOOSE h : SumsUp(f, S, h))[S]
BY DEF SumFunctionOnSet, FoldFunctionOnSet, MapThenFoldSet, SumsUp, Some

LEMMA SumExists ==
  ASSUME NEW S, IsFiniteSet(S), NEW f, \A x \in S : f[x] \in Nat
  PROVE  \E h \in [SUBSET S -> Nat] : SumsUp(f, S, h)
<1> DEFINE Next(h, s) == IF s = {} THEN 0 ELSE f[Some(s)] + h[s \ {Some(s)}]
           Good == {n \in Nat : \E h \in [SUBSET S -> Nat] :
                      \A s \in SUBSET S : Cardinality(s) <= n => h[s] = Next(h, s)}
<1>1. \A s \in SUBSET S : IsFiniteSet(s) /\ Cardinality(s) \in Nat /\ Cardinality(s) <= Cardinality(S)
  BY FS_Subset, FS_CardinalityType
<1>2. \A s \in SUBSET S : s # {} =>
         /\ Some(s) \in s /\ s \ {Some(s)} \in SUBSET S
         /\ Cardinality(s \ {Some(s)}) = Cardinality(s) - 1
  <2> SUFFICES ASSUME NEW s \in SUBSET S, s # {}
               PROVE  Some(s) \in s /\ Cardinality(s \ {Some(s)}) = Cardinality(s) - 1
    OBVIOUS
  <2>1. Some(s) \in s
    BY DEF Some
  <2> QED  BY <1>1, <2>1, FS_RemoveElement
<1>3. \A h \in [SUBSET S -> Nat], s \in SUBSET S : Next(h, s) \in Nat
  <2> SUFFICES ASSUME NEW h \in [SUBSET S -> Nat], NEW s \in SUBSET S, s # {}
               PROVE  f[Some(s)] + h[s \ {Some(s)}] \in Nat
    OBVIOUS
  <2>1. f[Some(s)] \in Nat /\ h[s \ {Some(s)}] \in Nat
    BY <1>2
  <2> QED  BY <2>1
<1>4. 0 \in Good
  <2> DEFINE h == [s \in SUBSET S |-> 0]
  <2>1. h \in [SUBSET S -> Nat]
    OBVIOUS
  <2>2. ASSUME NEW s \in SUBSET S, Cardinality(s) <= 0 PROVE h[s] = Next(h, s)
    <3>1. s = {}
      BY <1>1, <2>2, FS_EmptySet
    <3> QED  BY <3>1
  <2> HIDE DEF h, Next
  <2> QED  BY <2>1, <2>2
<1>5. ASSUME NEW n \in Nat, n \in Good PROVE n+1 \in Good
  <2>1. PICK h \in [SUBSET S -> Nat] :
           \A s \in SUBSET S : Cardinality(s) <= n => h[s] = Next(h, s)
    BY <1>5
  <2> DEFINE g == [s \in SUBSET S |-> Next(h, s)]
  <2>2. g \in [SUBSET S -> Nat]
    <3> HIDE DEF Next
    <3> QED  BY <1>3
  <2>3. ASSUME NEW s \in SUBSET S, Cardinality(s) <= n+1 PROVE g[s] = Next(g, s)
    <3>1. CASE s = {}
      BY <3>1
    <3>2. CASE s # {}
      <4> DEFINE r == s \ {Some(s)}
      <4>1. r \in SUBSET S /\ Cardinality(r) <= n
        BY <1>1, <1>2, <2>3, <3>2
      <4>2. h[r] = Next(h, r) /\ g[r] = Next(h, r)
        <5> HIDE DEF Next, r
        <5> QED  BY <2>1, <4>1
      <4> QED  BY <3>2, <4>2
    <3> QED  BY <3>1, <3>2
  <2> HIDE DEF g, Next
  <2> QED  BY <2>2, <2>3
<1>6. Cardinality(S) \in Good
  <2>1. Nat \subseteq Good
    <3> HIDE DEF Good
    <3> QED  BY <1>4, <1>5, NatInductionSet
  <2> QED  BY <1>1, <2>1
<1>7. PICK h \in [SUBSET S -> Nat] :
         \A s \in SUBSET S : Cardinality(s) <= Cardinality(S) => h[s] = Next(h, s)
  BY <1>6
<1>8. h = [s \in SUBSET S |-> Next(h, s)]
  <2> HIDE DEF Next
  <2> QED  BY <1>1, <1>7
<1> QED  BY <1>8 DEF SumsUp

LEMMA SumUnique ==
  ASSUME NEW S, IsFiniteSet(S), NEW T \in SUBSET S, NEW f, NEW g, NEW h, SumsUp(f, S, g), SumsUp(f, T, h)
  PROVE  g[T] = h[T]
<1> DEFINE C == {s \in SUBSET T : g[s] # h[s]}
<1>1. SUFFICES ASSUME C # {} PROVE FALSE
  OBVIOUS
<1>2. PICK s \in C : \A r \in C : r \subseteq s => r = s
  <2>1. C \subseteq SUBSET S /\ C # {}
    BY <1>1
  <2> HIDE DEF C
  <2> QED  BY <2>1, MinimalSubset
<1>3. s \in SUBSET T /\ s \in SUBSET S /\ g[s] # h[s]
  OBVIOUS
<1>4. /\ g[s] = IF s = {} THEN 0 ELSE f[Some(s)] + g[s \ {Some(s)}]
      /\ h[s] = IF s = {} THEN 0 ELSE f[Some(s)] + h[s \ {Some(s)}]
  BY <1>3 DEF SumsUp
<1>5. s # {} /\ Some(s) \in s
  BY <1>3, <1>4 DEF Some
<1>6. s \ {Some(s)} \notin C
  BY <1>2, <1>5
<1>7. g[s \ {Some(s)}] = h[s \ {Some(s)}]
  BY <1>3, <1>6
<1> QED  BY <1>3, <1>4, <1>7

LEMMA SumOne ==
  ASSUME NEW S, IsFiniteSet(S), NEW f, \A x \in S : f[x] \in Nat
  PROVE  /\ SumFunctionOnSet(f, S) \in Nat
         /\ S = {} => SumFunctionOnSet(f, S) = 0
         /\ S # {} => /\ Some(S) \in S
                      /\ SumFunctionOnSet(f, S) = f[Some(S)] + SumFunctionOnSet(f, S \ {Some(S)})
<1> DEFINE h == CHOOSE h : SumsUp(f, S, h)
<1>1. SumsUp(f, S, h)
  BY SumExists
<1>2. PICK g \in [SUBSET S -> Nat] : SumsUp(f, S, g)
  BY SumExists
<1>3. SumFunctionOnSet(f, S) = h[S]
  BY SumDef
<1> HIDE DEF h
<1>4. h[S] = g[S] /\ g[S] \in Nat
  BY <1>1, <1>2, SumUnique
<1>5. ASSUME S # {} PROVE Some(S) \in S /\ h[S] = f[Some(S)] + SumFunctionOnSet(f, S \ {Some(S)})
  <2> DEFINE T == S \ {Some(S)}
             k == CHOOSE k : SumsUp(f, T, k)
  <2>1. Some(S) \in S
    BY <1>5 DEF Some
  <2>2. T \in SUBSET S /\ IsFiniteSet(T) /\ \A x \in T : f[x] \in Nat
    BY FS_Subset
  <2>3. SumsUp(f, T, k) /\ SumFunctionOnSet(f, T) = k[T]
    <3> HIDE DEF T
    <3>1. \E e : SumsUp(f, T, e)
      BY <2>2, SumExists
    <3> QED  BY <3>1, SumDef
  <2>4. h[T] = k[T]
    <3> HIDE DEF T, k
    <3> QED  BY <1>1, <2>2, <2>3, SumUnique
  <2>5. h[S] = f[Some(S)] + h[T]
    BY <1>1, <1>5 DEF SumsUp
  <2> QED  BY <2>1, <2>3, <2>4, <2>5
<1>6. S = {} => h[S] = 0
  BY <1>1 DEF SumsUp
<1> QED  BY <1>3, <1>4, <1>5, <1>6

\* Any element may be taken out first.
LEMMA SumRemove ==
  ASSUME NEW S, IsFiniteSet(S), NEW f, \A x \in S : f[x] \in Nat, NEW x \in S
  PROVE  SumFunctionOnSet(f, S) = f[x] + SumFunctionOnSet(f, S \ {x})
<1> DEFINE Sum(T) == SumFunctionOnSet(f, T)
           C == {T \in SUBSET S : \E y \in T : Sum(T) # f[y] + Sum(T \ {y})}
<1>1. SUFFICES ASSUME C # {} PROVE FALSE
  OBVIOUS
<1>2. PICK T \in C : \A U \in C : U \subseteq T => U = T
  <2>1. C \subseteq SUBSET S /\ C # {}
    BY <1>1
  <2> HIDE DEF C
  <2> QED  BY <2>1, MinimalSubset
<1>3. PICK y \in T : Sum(T) # f[y] + Sum(T \ {y})
  BY <1>2
<1>4. \A U \in SUBSET S : /\ IsFiniteSet(U) /\ Sum(U) \in Nat
                          /\ U # {} => Some(U) \in U /\ Sum(U) = f[Some(U)] + Sum(U \ {Some(U)})
  <2> SUFFICES ASSUME NEW U \in SUBSET S
               PROVE  /\ IsFiniteSet(U) /\ Sum(U) \in Nat
                      /\ U # {} => Some(U) \in U /\ Sum(U) = f[Some(U)] + Sum(U \ {Some(U)})
    OBVIOUS
  <2>1. IsFiniteSet(U) /\ \A z \in U : f[z] \in Nat
    BY FS_Subset
  <2> QED  BY <2>1, SumOne
<1>5. \A U \in SUBSET T : U # T => \A z \in U : Sum(U) = f[z] + Sum(U \ {z})
  <2> SUFFICES ASSUME NEW U \in SUBSET T, U # T PROVE \A z \in U : Sum(U) = f[z] + Sum(U \ {z})
    OBVIOUS
  <2>1. U \notin C
    BY <1>2
  <2> HIDE DEF Sum
  <2> QED  BY <2>1
<1> DEFINE p == Some(T)
<1>6. T \in SUBSET S /\ p \in T /\ Sum(T) = f[p] + Sum(T \ {p})
  BY <1>2, <1>3, <1>4
<1>7. p # y
  BY <1>3, <1>6
<1> HIDE DEF C, p, Sum
<1>8. Sum(T \ {p}) = f[y] + Sum((T \ {p}) \ {y})
  BY <1>5, <1>6, <1>7
<1>9. Sum(T \ {y}) = f[p] + Sum((T \ {y}) \ {p})
  BY <1>5, <1>6, <1>7
<1>10. (T \ {p}) \ {y} = (T \ {y}) \ {p}
  OBVIOUS
<1>11. f[p] \in Nat /\ f[y] \in Nat /\ Sum((T \ {p}) \ {y}) \in Nat
  BY <1>4, <1>6
<1>12. f[p] + (f[y] + Sum((T \ {p}) \ {y})) = f[y] + (f[p] + Sum((T \ {p}) \ {y}))
  BY <1>11
<1>13. Sum(T) = f[y] + Sum(T \ {y})
  BY <1>6, <1>8, <1>9, <1>10, <1>12
<1> QED  BY <1>3, <1>13 DEF Sum

\* What the proofs use.
LEMMA SumEmpty == ASSUME NEW f PROVE SumFunctionOnSet(f, {}) = 0
BY SumOne, FS_EmptySet

LEMMA SumNat ==
  ASSUME NEW S, IsFiniteSet(S), NEW f, \A x \in S : f[x] \in Nat
  PROVE  SumFunctionOnSet(f, S) \in Nat
BY SumOne

LEMMA SumAdd ==
  ASSUME NEW S, IsFiniteSet(S), NEW f, NEW e, e \notin S, \A x \in S \cup {e} : f[x] \in Nat
  PROVE  SumFunctionOnSet(f, S \cup {e}) = SumFunctionOnSet(f, S) + f[e]
<1>1. IsFiniteSet(S \cup {e}) /\ (S \cup {e}) \ {e} = S
  BY FS_AddElement
<1>2. SumFunctionOnSet(f, S \cup {e}) = f[e] + SumFunctionOnSet(f, (S \cup {e}) \ {e})
  BY <1>1, SumRemove
<1>3. SumFunctionOnSet(f, S) \in Nat /\ f[e] \in Nat
  BY SumNat
<1> QED  BY <1>1, <1>2, <1>3

LEMMA SumSame ==
  ASSUME NEW S, IsFiniteSet(S), NEW f, NEW g, \A x \in S : f[x] \in Nat /\ f[x] = g[x]
  PROVE  SumFunctionOnSet(f, S) = SumFunctionOnSet(g, S)
<1> DEFINE C == {T \in SUBSET S : SumFunctionOnSet(f, T) # SumFunctionOnSet(g, T)}
<1>1. SUFFICES ASSUME C # {} PROVE FALSE
  OBVIOUS
<1>2. PICK T \in C : \A U \in C : U \subseteq T => U = T
  <2>1. C \subseteq SUBSET S /\ C # {}
    BY <1>1
  <2> HIDE DEF C
  <2> QED  BY <2>1, MinimalSubset
<1>3. T \in SUBSET S /\ IsFiniteSet(T) /\ SumFunctionOnSet(f, T) # SumFunctionOnSet(g, T)
  BY FS_Subset
<1>4. T # {}
  BY <1>3, SumEmpty
<1>5. PICK x \in T : TRUE
  BY <1>4
<1>6. \A y \in T : f[y] \in Nat /\ g[y] \in Nat
  BY <1>3
<1>7. SumFunctionOnSet(f, T) = f[x] + SumFunctionOnSet(f, T \ {x})
  BY <1>3, <1>6, SumRemove
<1>8. SumFunctionOnSet(g, T) = g[x] + SumFunctionOnSet(g, T \ {x})
  BY <1>3, <1>6, SumRemove
<1>9. T \ {x} \notin C
  BY <1>2, <1>5
<1>10. SumFunctionOnSet(f, T \ {x}) = SumFunctionOnSet(g, T \ {x})
  BY <1>3, <1>9
<1> QED  BY <1>3, <1>5, <1>7, <1>8, <1>10

LEMMA SumUnion ==
  ASSUME NEW S, IsFiniteSet(S), NEW T \in SUBSET S, NEW f, \A x \in S : f[x] \in Nat
  PROVE  SumFunctionOnSet(f, S) = SumFunctionOnSet(f, T) + SumFunctionOnSet(f, S \ T)
<1> DEFINE C == {U \in SUBSET T : SumFunctionOnSet(f, S) # SumFunctionOnSet(f, U) + SumFunctionOnSet(f, S \ U)}
<1>1. \A U \in SUBSET S : /\ IsFiniteSet(U) /\ \A x \in U : f[x] \in Nat
                          /\ SumFunctionOnSet(f, U) \in Nat
  <2> SUFFICES ASSUME NEW U \in SUBSET S PROVE IsFiniteSet(U) /\ SumFunctionOnSet(f, U) \in Nat
    OBVIOUS
  <2>1. IsFiniteSet(U)
    BY FS_Subset
  <2> QED  BY <2>1, SumNat
<1>2. SUFFICES ASSUME C # {} PROVE FALSE
  OBVIOUS
<1>3. PICK U \in C : \A V \in C : V \subseteq U => V = U
  <2>1. C \subseteq SUBSET S /\ C # {}
    BY <1>2
  <2> HIDE DEF C
  <2> QED  BY <2>1, MinimalSubset
<1>4. /\ U \in SUBSET T /\ U \in SUBSET S
      /\ SumFunctionOnSet(f, S) # SumFunctionOnSet(f, U) + SumFunctionOnSet(f, S \ U)
  OBVIOUS
<1>5. U # {}
  <2> SUFFICES ASSUME U = {} PROVE FALSE
    OBVIOUS
  <2>1. S \ U = S /\ SumFunctionOnSet(f, U) = 0 /\ SumFunctionOnSet(f, S) \in Nat
    BY SumEmpty, SumNat
  <2> QED  BY <1>4, <2>1
<1>6. PICK x \in U : TRUE
  BY <1>5
<1>7. U \ {x} \notin C /\ U \ {x} \in SUBSET T
  BY <1>3, <1>4, <1>6
<1>8. SumFunctionOnSet(f, S) = SumFunctionOnSet(f, U \ {x}) + SumFunctionOnSet(f, S \ (U \ {x}))
  BY <1>7
<1>9. SumFunctionOnSet(f, U) = f[x] + SumFunctionOnSet(f, U \ {x})
  BY <1>1, <1>4, SumRemove
<1>10. SumFunctionOnSet(f, S \ (U \ {x})) = f[x] + SumFunctionOnSet(f, S \ U)
  <2> DEFINE V == S \ (U \ {x})
  <2>1. V \in SUBSET S /\ x \in V /\ V \ {x} = S \ U
    BY <1>4
  <2> HIDE DEF V
  <2>2. SumFunctionOnSet(f, V) = f[x] + SumFunctionOnSet(f, V \ {x})
    BY <1>1, <2>1, SumRemove
  <2> QED  BY <2>1, <2>2 DEF V
<1>11. /\ f[x] \in Nat /\ SumFunctionOnSet(f, U \ {x}) \in Nat /\ SumFunctionOnSet(f, S \ U) \in Nat
  <2>1. U \ {x} \in SUBSET S /\ S \ U \in SUBSET S /\ x \in S
    BY <1>4
  <2> QED  BY <1>1, <2>1
<1> QED  BY <1>4, <1>8, <1>9, <1>10, <1>11

LEMMA SumOfZeros ==
  ASSUME NEW U, IsFiniteSet(U), NEW f, \A x \in U : f[x] = 0
  PROVE  SumFunctionOnSet(f, U) = 0
<1> DEFINE Bad == {T \in SUBSET U : SumFunctionOnSet(f, T) # 0}
<1>1. Bad = {}
  <2>1. SUFFICES ASSUME Bad # {} PROVE FALSE
    OBVIOUS
  <2>2. PICK T \in Bad : \A V1 \in Bad : V1 \subseteq T => V1 = T
    <3>1. Bad \subseteq SUBSET U
      OBVIOUS
    <3> HIDE DEF Bad
    <3> QED  BY <2>1, <3>1, MinimalSubset
  <2>3. T \in SUBSET U /\ SumFunctionOnSet(f, T) # 0 /\ IsFiniteSet(T)
    BY FS_Subset
  <2>4. PICK x \in T : TRUE
    BY <2>3, SumEmpty
  <2>5. SumFunctionOnSet(f, T \ {x}) = 0
    BY <2>2, <2>3, <2>4
  <2>6. SumFunctionOnSet(f, T) = f[x] + SumFunctionOnSet(f, T \ {x})
    BY <2>3, SumRemove
  <2> QED  BY <2>3, <2>5, <2>6
<1> QED  BY <1>1

\* Sums over consecutive sequences, and over those of consecutive simdgroups.
LEMMA SpanSum ==
  ASSUME NEW N \in Nat, NEW f, \A x \in 0 .. N-1 : f[x] \in Nat
  PROVE  /\ \A a \in 0 .. N : SumFunctionOnSet(f, 0 .. a-1) \in Nat
         /\ \A a \in 0 .. N : \A c \in a .. N :
              /\ SumFunctionOnSet(f, a .. c-1) \in Nat
              /\ SumFunctionOnSet(f, 0 .. c-1)
                   = SumFunctionOnSet(f, 0 .. a-1) + SumFunctionOnSet(f, a .. c-1)
         /\ \A c \in 0 .. N-1 :
              SumFunctionOnSet(f, 0 .. c) = SumFunctionOnSet(f, 0 .. c-1) + f[c]
<1>1. ASSUME NEW a \in 0 .. N, NEW c \in a .. N
      PROVE  /\ SumFunctionOnSet(f, 0 .. a-1) \in Nat /\ SumFunctionOnSet(f, a .. c-1) \in Nat
             /\ SumFunctionOnSet(f, 0 .. c-1)
                  = SumFunctionOnSet(f, 0 .. a-1) + SumFunctionOnSet(f, a .. c-1)
  <2> DEFINE S == 0 .. c-1
             T == 0 .. a-1
             U == a .. c-1
  <2>1. IsFiniteSet(S) /\ IsFiniteSet(T) /\ IsFiniteSet(U)
    BY FS_Interval
  <2>2. T \in SUBSET S /\ S \ T = U /\ S \subseteq 0 .. N-1
    OBVIOUS
  <2>3. (\A x \in S : f[x] \in Nat) /\ (\A x \in T : f[x] \in Nat) /\ \A x \in U : f[x] \in Nat
    BY <2>2
  <2> HIDE DEF S, T, U
  <2>4. SumFunctionOnSet(f, T) \in Nat /\ SumFunctionOnSet(f, U) \in Nat
    BY <2>1, <2>3, SumNat
  <2>5. SumFunctionOnSet(f, S) = SumFunctionOnSet(f, T) + SumFunctionOnSet(f, U)
    BY <2>1, <2>2, <2>3, SumUnion
  <2> QED  BY <2>4, <2>5 DEF S, T, U
<1>2. ASSUME NEW c \in 0 .. N-1
      PROVE  SumFunctionOnSet(f, 0 .. c) = SumFunctionOnSet(f, 0 .. c-1) + f[c]
  <2> DEFINE S == 0 .. c-1
  <2>1. IsFiniteSet(S)
    BY FS_Interval
  <2>2. c \notin S /\ 0 .. c = S \cup {c} /\ S \cup {c} \subseteq 0 .. N-1
    OBVIOUS
  <2>3. \A x \in S \cup {c} : f[x] \in Nat
    BY <2>2
  <2> HIDE DEF S
  <2>4. SumFunctionOnSet(f, S \cup {c}) = SumFunctionOnSet(f, S) + f[c]
    BY <2>1, <2>2, <2>3, SumAdd
  <2> QED  BY <2>2, <2>4 DEF S
<1>3. \A a \in 0 .. N : a \in a .. N
  OBVIOUS
<1> QED  BY <1>1, <1>2, <1>3

\* Sums over consecutive spans, of the sums over each of them.
AddsSpans(sums, f, N, G, first) ==
  /\ N \in Nat /\ \A x \in 0 .. N-1 : f[x] \in Nat
  /\ G \in Nat /\ first \in [0 .. G -> 0 .. N] /\ first[0] = 0
  /\ \A h \in 0 .. G-1 : first[h] <= first[h+1]
  /\ \A h \in 0 .. G-1 : sums[h] = SumFunctionOnSet(f, first[h] .. first[h+1]-1)

LEMMA SumOfSpans ==
  ASSUME NEW sums, NEW f, NEW N, NEW G, NEW first, AddsSpans(sums, f, N, G, first)
  PROVE  SumFunctionOnSet(sums, 0 .. G-1) = SumFunctionOnSet(f, 0 .. first[G]-1)
<1> USE DEF AddsSpans
<1> DEFINE Good == {m \in 0 .. G : SumFunctionOnSet(sums, 0 .. m-1) = SumFunctionOnSet(f, 0 .. first[m]-1)}
<1>1. \A a \in 0 .. N : \A c \in a .. N :
        /\ SumFunctionOnSet(f, a .. c-1) \in Nat
        /\ SumFunctionOnSet(f, 0 .. c-1)
             = SumFunctionOnSet(f, 0 .. a-1) + SumFunctionOnSet(f, a .. c-1)
  BY ONLY N \in Nat, \A x \in 0 .. N-1 : f[x] \in Nat, SpanSum
<1>2. \A h \in 0 .. G-1 : first[h] \in 0 .. N /\ first[h+1] \in first[h] .. N
  <2>1. ASSUME NEW h \in 0 .. G-1 PROVE first[h] \in 0 .. N /\ first[h+1] \in first[h] .. N
    <3>1. h \in 0 .. G /\ h+1 \in 0 .. G
      OBVIOUS
    <3> QED  BY <3>1
  <2> QED  BY <2>1
<1>3. \A h \in 0 .. G-1 : sums[h] \in Nat
  BY <1>1, <1>2
<1>4. ASSUME NEW m \in 0 .. G, \A k \in 0 .. m-1 : k \in Good PROVE m \in Good
  <2>1. CASE m = 0
    <3>1. 0 .. m-1 = {} /\ 0 .. first[m]-1 = {}
      BY <2>1
    <3> QED  BY <3>1, SumEmpty
  <2>2. CASE m # 0
    <3> DEFINE h == m-1
    <3>1. h \in 0 .. m-1 /\ h \in 0 .. G-1 /\ m = h+1
      BY <2>2
    <3> HIDE DEF h
    <3>2. SumFunctionOnSet(sums, 0 .. h) = SumFunctionOnSet(sums, 0 .. h-1) + sums[h]
      BY <3>1, <1>3, SpanSum
    <3>3. SumFunctionOnSet(sums, 0 .. h-1) = SumFunctionOnSet(f, 0 .. first[h]-1)
      BY <3>1, <1>4
    <3>4. SumFunctionOnSet(f, 0 .. first[m]-1)
            = SumFunctionOnSet(f, 0 .. first[h]-1) + SumFunctionOnSet(f, first[h] .. first[m]-1)
      BY <3>1, <1>1, <1>2
    <3>5. sums[h] = SumFunctionOnSet(f, first[h] .. first[m]-1) /\ m-1 = h
      BY <3>1
    <3> QED  BY <3>2, <3>3, <3>4, <3>5
  <2> QED  BY <2>1, <2>2
<1>5. 0 .. G \subseteq Good
  <2> HIDE DEF Good
  <2> QED  BY <1>4, IntervalInduction
<1> QED  BY <1>5

\* Of two functions with the same sum, neither is below the other.
LEMMA SumLess ==
  ASSUME NEW U, IsFiniteSet(U), NEW f, NEW g, \A x \in U : f[x] \in Nat /\ g[x] \in Nat /\ f[x] <= g[x]
  PROVE  /\ SumFunctionOnSet(f, U) \in Nat /\ SumFunctionOnSet(g, U) \in Nat
         /\ SumFunctionOnSet(f, U) <= SumFunctionOnSet(g, U)
         /\ (\E x \in U : f[x] < g[x]) => SumFunctionOnSet(f, U) < SumFunctionOnSet(g, U)
<1> DEFINE Bad == {T \in SUBSET U : ~(SumFunctionOnSet(f, T) <= SumFunctionOnSet(g, T))}
<1>1. \A T \in SUBSET U : /\ IsFiniteSet(T) /\ \A x \in T : f[x] \in Nat /\ g[x] \in Nat
                          /\ SumFunctionOnSet(f, T) \in Nat /\ SumFunctionOnSet(g, T) \in Nat
  BY FS_Subset, SumNat
<1>2. \A T \in SUBSET U : \A x \in T :
        /\ SumFunctionOnSet(f, T) = f[x] + SumFunctionOnSet(f, T \ {x})
        /\ SumFunctionOnSet(g, T) = g[x] + SumFunctionOnSet(g, T \ {x})
        /\ T \ {x} \in SUBSET U /\ x \in U
  BY <1>1, SumRemove
<1>3. Bad = {}
  <2>1. SUFFICES ASSUME Bad # {} PROVE FALSE
    OBVIOUS
  <2>2. PICK T \in Bad : \A V1 \in Bad : V1 \subseteq T => V1 = T
    <3>1. Bad \subseteq SUBSET U
      OBVIOUS
    <3> HIDE DEF Bad
    <3> QED  BY <2>1, <3>1, MinimalSubset
  <2>3. T \in SUBSET U /\ ~(SumFunctionOnSet(f, T) <= SumFunctionOnSet(g, T))
    OBVIOUS
  <2>4. T # {}
    BY <2>3, SumEmpty
  <2>5. PICK x \in T : TRUE
    BY <2>4
  <2>6. T \ {x} \notin Bad
    BY <2>2, <2>5
  <2>7. SumFunctionOnSet(f, T \ {x}) <= SumFunctionOnSet(g, T \ {x}) /\ T \ {x} \in SUBSET U
    BY <2>3, <2>6
  <2>8. f[x] \in Nat /\ g[x] \in Nat /\ f[x] <= g[x]
    BY <2>3
  <2> QED  BY <1>1, <1>2, <2>3, <2>7, <2>8
<1>4. \A T \in SUBSET U : SumFunctionOnSet(f, T) <= SumFunctionOnSet(g, T)
  BY <1>3
<1>5. ASSUME NEW x \in U, f[x] < g[x] PROVE SumFunctionOnSet(f, U) < SumFunctionOnSet(g, U)
  <2>1. U \in SUBSET U /\ U \ {x} \in SUBSET U
    OBVIOUS
  <2>2. SumFunctionOnSet(f, U \ {x}) <= SumFunctionOnSet(g, U \ {x})
    BY <2>1, <1>4
  <2>3. f[x] \in Nat /\ g[x] \in Nat
    OBVIOUS
  <2> QED  BY <1>1, <1>2, <1>5, <2>1, <2>2, <2>3
<1>6. U \in SUBSET U
  OBVIOUS
<1> QED  BY <1>1, <1>4, <1>5, <1>6
=============================================================================
