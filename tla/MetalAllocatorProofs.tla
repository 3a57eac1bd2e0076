------------------------ MODULE MetalAllocatorProofs ------------------------
(***************************************************************************)
(* Proofs about MetalAllocator, for every set of threads, sizes, buffers   *)
(* and limits: the books are right whatever the cache does, what is wired  *)
(* fits unless a resize was disturbed, and the limit holds up to what is   *)
(* asked of the device meanwhile.                                          *)
(***************************************************************************)
EXTENDS MetalAllocator, SequenceTheorems, Facts

(***************************************************************************)
(* A cache is sound when the list has no buffer twice, every buffer of the *)
(* list has one holder in the pool, under its length, and the size is what *)
(* they amount to.                                                         *)
(***************************************************************************)
Entry == Nat \X (Buf \cup {NoBuf})

PoolOf(pool, B, len) ==
  /\ pool \in Seq(Entry)
  /\ \A j, k \in DOMAIN pool : Live(pool[j]) /\ pool[j][2] = pool[k][2] => j = k
  /\ \A k \in DOMAIN pool : Live(pool[k]) => pool[k][2] \in B /\ pool[k][1] = len[pool[k][2]]
  /\ \A b \in B : \E k \in DOMAIN pool : Live(pool[k]) /\ pool[k][2] = b

ListOf(lru, B) ==
  /\ lru \in Seq(Buf)
  /\ \A j, k \in DOMAIN lru : lru[j] = lru[k] => j = k
  /\ B = ToSet(lru)

Sound(c, len) ==
  LET B == ToSet(c.lru)
  IN  /\ c \in [pool : Seq(Entry), lru : Seq(Buf), size : Nat]
      /\ PoolOf(c.pool, B, len) /\ ListOf(c.lru, B)
      /\ \A b \in B : len[b] \in Nat
      /\ c.size = SumFunctionOnSet(len, B)
-----------------------------------------------------------------------------
(* Sequences with a piece cut out or an element put in. *)

IsCut(t, s, S, from, to) ==
  /\ t \in Seq(S)
  /\ \A k \in DOMAIN t : /\ k < from => k \in DOMAIN s /\ t[k] = s[k]
                         /\ k >= from => k + (to - from) \in DOMAIN s /\ t[k] = s[k + (to - from)]
  /\ \A k \in DOMAIN s : /\ k < from => k \in DOMAIN t /\ t[k] = s[k]
                         /\ k >= to => k - (to - from) \in DOMAIN t /\ t[k - (to - from)] = s[k]

IsInsert(t, s, S, i, e) ==
  /\ t \in Seq(S) /\ i \in DOMAIN t /\ t[i] = e
  /\ \A k \in DOMAIN t : /\ k < i => k \in DOMAIN s /\ t[k] = s[k]
                         /\ k > i => k - 1 \in DOMAIN s /\ t[k] = s[k - 1]
  /\ \A k \in DOMAIN s : /\ k < i => k \in DOMAIN t /\ t[k] = s[k]
                         /\ k >= i => k + 1 \in DOMAIN t /\ t[k + 1] = s[k]

LEMMA Piece ==
  ASSUME NEW S, NEW s \in Seq(S), NEW m \in 1 .. Len(s) + 1, NEW n \in m - 1 .. Len(s), NEW p, p = SubSeq(s, m, n)
  PROVE  p \in Seq(S) /\ Len(p) = n - m + 1 /\ \A k \in 1 .. n - m + 1 : p[k] = s[m + k - 1]
OBVIOUS

LEMMA CutOut ==
  ASSUME NEW S, NEW s \in Seq(S), NEW N \in Nat, Len(s) = N, NEW from \in 1 .. N + 1, NEW to \in from .. N + 1
  PROVE  LET t == SubSeq(s, 1, from - 1) \o SubSeq(s, to, Len(s))
         IN  /\ t \in Seq(S) /\ DOMAIN t = 1 .. N - (to - from)
             /\ \A k \in 1 .. N - (to - from) : t[k] = IF k < from THEN s[k] ELSE s[k + (to - from)]
<1>1. PICK l : l = SubSeq(s, 1, from - 1)
  OBVIOUS
<1>2. PICK r : r = SubSeq(s, to, Len(s))
  OBVIOUS
<1>3. PICK t : t = l \o r
  OBVIOUS
<1>4. l \in Seq(S) /\ Len(l) = from - 1 /\ \A k \in 1 .. from - 1 : l[k] = s[k]
  BY <1>1, Piece
<1>5. r \in Seq(S) /\ Len(r) = N - to + 1 /\ \A k \in 1 .. N - to + 1 : r[k] = s[to + k - 1]
  BY <1>2, Piece
<1>6. /\ t \in Seq(S) /\ DOMAIN t = 1 .. Len(l) + Len(r)
      /\ \A k \in 1 .. Len(l) + Len(r) : t[k] = IF k <= Len(l) THEN l[k] ELSE r[k - Len(l)]
  <2>1. /\ l \o r \in Seq(S) /\ Len(l \o r) = Len(l) + Len(r)
        /\ \A k \in 1 .. Len(l) + Len(r) : (l \o r)[k] = IF k <= Len(l) THEN l[k] ELSE r[k - Len(l)]
    BY <1>4, <1>5, ConcatProperties
  <2> QED  BY <1>3, <2>1, LenProperties, Zenon
<1>7. DOMAIN t = 1 .. N - (to - from)
  BY <1>4, <1>5, <1>6
<1>8. ASSUME NEW k \in 1 .. N - (to - from) PROVE t[k] = IF k < from THEN s[k] ELSE s[k + (to - from)]
  <2>1. k \in 1 .. Len(l) + Len(r)
    BY <1>4, <1>5
  <2>2. CASE k < from
    BY <1>4, <1>6, <2>1, <2>2
  <2>3. CASE k >= from
    <3>1. k - (from - 1) \in 1 .. N - to + 1 /\ to + (k - (from - 1)) - 1 = k + (to - from)
      BY <2>3
    <3>2. t[k] = r[k - (from - 1)]
      BY <1>4, <1>6, <2>1, <2>3
    <3>3. r[k - (from - 1)] = s[to + (k - (from - 1)) - 1]
      BY <1>5, <3>1
    <3> QED  BY <2>3, <3>1, <3>2, <3>3
  <2> QED  BY <2>2, <2>3
<1> QED  BY <1>1, <1>2, <1>3, <1>6, <1>7, <1>8, Zenon

LEMMA CutFacts ==
  ASSUME NEW S, NEW s \in Seq(S), NEW N \in Nat, Len(s) = N, NEW from \in 1 .. N + 1, NEW to \in from .. N + 1
  PROVE  IsCut(SubSeq(s, 1, from - 1) \o SubSeq(s, to, Len(s)), s, S, from, to)
<1>1. PICK t : t = SubSeq(s, 1, from - 1) \o SubSeq(s, to, Len(s))
  OBVIOUS
<1>2. /\ t \in Seq(S) /\ DOMAIN t = 1 .. N - (to - from)
      /\ \A k \in 1 .. N - (to - from) : t[k] = IF k < from THEN s[k] ELSE s[k + (to - from)]
  BY <1>1, CutOut
<1>3. DOMAIN s = 1 .. N
  BY LenProperties
<1>4. ASSUME NEW k \in DOMAIN t
      PROVE  /\ k < from => k \in DOMAIN s /\ t[k] = s[k]
             /\ k >= from => k + (to - from) \in DOMAIN s /\ t[k] = s[k + (to - from)]
  BY <1>2, <1>3
<1>5. ASSUME NEW k \in DOMAIN s
      PROVE  /\ k < from => k \in DOMAIN t /\ t[k] = s[k]
             /\ k >= to => k - (to - from) \in DOMAIN t /\ t[k - (to - from)] = s[k]
  <2>1. k < from => k \in 1 .. N - (to - from)
    BY <1>3
  <2>2. k >= to => k - (to - from) \in 1 .. N - (to - from) /\ (k - (to - from)) + (to - from) = k
                   /\ ~(k - (to - from) < from)
    BY <1>3
  <2> QED  BY <1>2, <2>1, <2>2
<1>6. IsCut(t, s, S, from, to)
  BY <1>2, <1>4, <1>5, Zenon DEF IsCut
<1> QED  BY <1>1, <1>6, Zenon

\* The same, by the place in t.
Shifted(t, s, S, i, e) ==
  /\ t \in Seq(S) /\ DOMAIN t = 1 .. Len(s) + 1
  /\ \A k \in 1 .. Len(s) + 1 : t[k] = IF k < i THEN s[k] ELSE IF k = i THEN e ELSE s[k - 1]

LEMMA InsertOne ==
  ASSUME NEW S, NEW s \in Seq(S), NEW i \in 1 .. Len(s) + 1, NEW e \in S
  PROVE  Shifted(InsertAt(s, i, e), s, S, i, e)
<1>0. PICK N \in Nat : N = Len(s) /\ i \in 1 .. N + 1
  BY LenProperties
<1>1. PICK l : l = SubSeq(s, 1, i - 1)
  OBVIOUS
<1>2. PICK r : r = SubSeq(s, i, Len(s))
  OBVIOUS
<1>3. PICK m : m = <<e>>
  OBVIOUS
<1>4. PICK u : u = l \o m
  OBVIOUS
<1>5. PICK t : t = u \o r
  OBVIOUS
<1>6. l \in Seq(S) /\ Len(l) = i - 1 /\ \A k \in 1 .. i - 1 : l[k] = s[k]
  BY <1>0, <1>1, Piece
<1>7. r \in Seq(S) /\ Len(r) = N - i + 1 /\ \A k \in 1 .. N - i + 1 : r[k] = s[i + k - 1]
  BY <1>0, <1>2, Piece
<1>8. m \in Seq(S) /\ Len(m) = 1 /\ m[1] = e
  BY <1>3
<1>9. u \in Seq(S) /\ Len(u) = i /\ \A k \in 1 .. i : u[k] = IF k < i THEN s[k] ELSE e
  <2>1. /\ u \in Seq(S) /\ Len(u) = Len(l) + Len(m)
        /\ \A k \in 1 .. Len(l) + Len(m) : u[k] = IF k <= Len(l) THEN l[k] ELSE m[k - Len(l)]
    BY <1>4, <1>6, <1>8, ConcatProperties, Zenon
  <2> QED  BY <1>0, <1>6, <1>8, <2>1
<1>10. /\ t \in Seq(S) /\ DOMAIN t = 1 .. N + 1
       /\ \A k \in 1 .. N + 1 : t[k] = IF k <= i THEN u[k] ELSE r[k - i]
  <2>1. /\ t \in Seq(S) /\ DOMAIN t = 1 .. Len(u) + Len(r)
        /\ \A k \in 1 .. Len(u) + Len(r) : t[k] = IF k <= Len(u) THEN u[k] ELSE r[k - Len(u)]
    <3>1. /\ u \o r \in Seq(S) /\ Len(u \o r) = Len(u) + Len(r)
          /\ \A k \in 1 .. Len(u) + Len(r) : (u \o r)[k] = IF k <= Len(u) THEN u[k] ELSE r[k - Len(u)]
      BY <1>7, <1>9, ConcatProperties, Zenon
    <3> QED  BY <1>5, <3>1, LenProperties, Zenon
  <2> QED  BY <1>0, <1>7, <1>9, <2>1
<1>11. ASSUME NEW k \in 1 .. N + 1 PROVE t[k] = IF k < i THEN s[k] ELSE IF k = i THEN e ELSE s[k - 1]
  <2>1. CASE k <= i
    <3>1. k \in 1 .. i
      BY <1>0, <2>1
    <3> QED  BY <1>0, <1>9, <1>10, <2>1, <3>1
  <2>2. CASE k > i
    <3>1. k - i \in 1 .. N - i + 1 /\ i + (k - i) - 1 = k - 1
      BY <1>0, <2>2
    <3>2. t[k] = r[k - i] /\ r[k - i] = s[i + (k - i) - 1]
      BY <1>0, <1>7, <1>10, <2>2, <3>1
    <3> QED  BY <1>0, <2>2, <3>1, <3>2
  <2> QED  BY <1>0, <2>1, <2>2
<1>12. t = InsertAt(s, i, e)
  BY <1>1, <1>2, <1>3, <1>4, <1>5, Zenon DEF InsertAt
<1>13. Shifted(t, s, S, i, e)
  BY <1>0, <1>10, <1>11, Zenon DEF Shifted
<1> QED  BY <1>12, <1>13, Zenon

LEMMA InsertFacts ==
  ASSUME NEW S, NEW s \in Seq(S), NEW i \in 1 .. Len(s) + 1, NEW e \in S
  PROVE  IsInsert(InsertAt(s, i, e), s, S, i, e)
<1>1. PICK t : t = InsertAt(s, i, e)
  OBVIOUS
<1>2. Shifted(t, s, S, i, e)
  BY <1>1, InsertOne, Zenon
<1>3. /\ t \in Seq(S) /\ DOMAIN t = 1 .. Len(s) + 1
      /\ \A k \in 1 .. Len(s) + 1 : t[k] = IF k < i THEN s[k] ELSE IF k = i THEN e ELSE s[k - 1]
  BY <1>2 DEF Shifted
<1>4. PICK N \in Nat : N = Len(s)
  BY LenProperties
<1>5. DOMAIN s = 1 .. N
  BY <1>4, LenProperties
<1>6. ASSUME NEW k \in DOMAIN t
      PROVE  /\ k < i => k \in DOMAIN s /\ t[k] = s[k]
             /\ k > i => k - 1 \in DOMAIN s /\ t[k] = s[k - 1]
  BY <1>3, <1>4, <1>5
<1>7. ASSUME NEW k \in DOMAIN s
      PROVE  /\ k < i => k \in DOMAIN t /\ t[k] = s[k]
             /\ k >= i => k + 1 \in DOMAIN t /\ t[k + 1] = s[k]
  BY <1>3, <1>4, <1>5
<1>8. i \in DOMAIN t /\ t[i] = e
  BY <1>3, <1>4
<1>9. IsInsert(t, s, S, i, e)
  BY <1>3, <1>6, <1>7, <1>8, Zenon DEF IsInsert
<1> QED  BY <1>1, <1>9, Zenon
-----------------------------------------------------------------------------
(* The pool and the list under these changes. *)

\* A pool has what another has at given places, each once.
LEMMA PoolFrom ==
  ASSUME NEW P, NEW B, NEW len, PoolOf(P, B, len), NEW Q \in Seq(Entry), NEW C \in SUBSET B, NEW m,
         \A k \in DOMAIN Q : Live(Q[k]) => m[k] \in DOMAIN P /\ Q[k] = P[m[k]] /\ Q[k][2] \in C,
         \A j, k \in DOMAIN Q : m[j] = m[k] => j = k,
         \A b \in C : \E k \in DOMAIN Q : Live(Q[k]) /\ Q[k][2] = b
  PROVE  PoolOf(Q, C, len)
<1>1. \A k \in DOMAIN Q : Live(Q[k]) => Q[k][2] \in C /\ Q[k][1] = len[Q[k][2]]
  BY DEF PoolOf
<1>2. ASSUME NEW j \in DOMAIN Q, NEW k \in DOMAIN Q, Live(Q[j]), Q[j][2] = Q[k][2] PROVE j = k
  <2>1. Live(Q[k])
    BY <1>2 DEF Live
  <2>2. m[j] \in DOMAIN P /\ m[k] \in DOMAIN P /\ Q[j] = P[m[j]] /\ Q[k] = P[m[k]]
    BY <1>2, <2>1
  <2>3. m[j] = m[k]
    BY <1>2, <2>2 DEF PoolOf
  <2> QED  BY <2>3
<1> QED  BY <1>1, <1>2 DEF PoolOf

LEMMA PoolCut ==
  ASSUME NEW P, NEW B, NEW len, PoolOf(P, B, len), NEW from \in 1 .. Len(P) + 1, NEW to \in from .. Len(P) + 1,
         NEW D \in SUBSET B,
         \A k \in from .. to - 1 : Live(P[k]) => P[k][2] \in D,
         \A b \in D : \E k \in from .. to - 1 : Live(P[k]) /\ P[k][2] = b
  PROVE  PoolOf(SubSeq(P, 1, from - 1) \o SubSeq(P, to, Len(P)), B \ D, len)
<1>1. P \in Seq(Entry)
  BY DEF PoolOf
<1>2. PICK N \in Nat : N = Len(P) /\ DOMAIN P = 1 .. N /\ from \in 1 .. N + 1 /\ to \in from .. N + 1
  BY <1>1, LenProperties
<1>3. PICK Q : Q = SubSeq(P, 1, from - 1) \o SubSeq(P, to, Len(P))
  OBVIOUS
<1>4. /\ Q \in Seq(Entry)
      /\ \A k \in DOMAIN Q : /\ k < from => k \in DOMAIN P /\ Q[k] = P[k]
                             /\ k >= from => k + (to - from) \in DOMAIN P /\ Q[k] = P[k + (to - from)]
      /\ \A k \in DOMAIN P : /\ k < from => k \in DOMAIN Q /\ Q[k] = P[k]
                             /\ k >= to => k - (to - from) \in DOMAIN Q /\ Q[k - (to - from)] = P[k]
  <2>1. IsCut(Q, P, Entry, from, to)
    BY <1>1, <1>2, <1>3, CutFacts
  <2> QED  BY <2>1, Zenon DEF IsCut
<1>5. DOMAIN Q \subseteq Nat
  BY <1>4, LenProperties
<1>6. PICK m : m = [k \in DOMAIN Q |-> IF k < from THEN k ELSE k + (to - from)]
  OBVIOUS
<1>7. ASSUME NEW k \in DOMAIN Q
      PROVE  m[k] \in DOMAIN P /\ m[k] \notin from .. to - 1 /\ Q[k] = P[m[k]]
  <2>1. CASE k < from
    BY <1>2, <1>4, <1>5, <1>6, <2>1
  <2>2. CASE k >= from
    BY <1>2, <1>4, <1>5, <1>6, <2>2
  <2> QED  BY <1>2, <1>5, <2>1, <2>2
<1>8. \A j, k \in DOMAIN Q : m[j] = m[k] => j = k
  BY <1>2, <1>5, <1>6
<1>9. ASSUME NEW k \in DOMAIN Q, Live(Q[k]) PROVE Q[k][2] \in B \ D
  <2>1. Q[k][2] \in B
    BY <1>7, <1>9 DEF PoolOf
  <2>2. ASSUME NEW j \in from .. to - 1, Live(P[j]), P[j][2] = Q[k][2] PROVE FALSE
    <3>1. j \in DOMAIN P
      BY <1>2
    <3>2. j = m[k]
      BY <1>7, <2>2, <3>1 DEF PoolOf
    <3> QED  BY <1>7, <3>2
  <2> QED  BY <2>1, <2>2
<1>10. ASSUME NEW b \in B \ D PROVE \E k \in DOMAIN Q : Live(Q[k]) /\ Q[k][2] = b
  <2>1. PICK k \in DOMAIN P : Live(P[k]) /\ P[k][2] = b
    BY DEF PoolOf
  <2>2. k < from \/ k >= to
    BY <1>2, <2>1
  <2> QED  BY <1>4, <2>1, <2>2
<1>11. PoolOf(Q, B \ D, len)
  BY <1>4, <1>7, <1>8, <1>9, <1>10, PoolFrom
<1> QED  BY <1>3, <1>11, Zenon

LEMMA PoolInsert ==
  ASSUME NEW P, NEW B, NEW len, PoolOf(P, B, len), NEW i \in 1 .. Len(P) + 1,
         NEW b \in Buf, b \notin B, b # NoBuf, len[b] \in Nat
  PROVE  PoolOf(InsertAt(P, i, <<len[b], b>>), B \cup {b}, len)
<1>1. P \in Seq(Entry)
  BY DEF PoolOf
<1>2. PICK e : e = <<len[b], b>>
  OBVIOUS
<1>3. e \in Entry /\ Live(e) /\ e[1] = len[b] /\ e[2] = b
  BY <1>2 DEF Entry, Live
<1>4. PICK Q : Q = InsertAt(P, i, e)
  OBVIOUS
<1>5. /\ Q \in Seq(Entry) /\ i \in DOMAIN Q /\ Q[i] = e
      /\ \A k \in DOMAIN Q : /\ k < i => k \in DOMAIN P /\ Q[k] = P[k]
                             /\ k > i => k - 1 \in DOMAIN P /\ Q[k] = P[k - 1]
      /\ \A k \in DOMAIN P : /\ k < i => k \in DOMAIN Q /\ Q[k] = P[k]
                             /\ k >= i => k + 1 \in DOMAIN Q /\ Q[k + 1] = P[k]
  <2>1. IsInsert(Q, P, Entry, i, e)
    BY <1>1, <1>3, <1>4, InsertFacts
  <2> QED  BY <2>1, Zenon DEF IsInsert
<1>6. DOMAIN P \subseteq Nat /\ DOMAIN Q \subseteq Nat /\ i \in Nat
  BY <1>1, <1>5, LenProperties
<1> DEFINE M(k) == IF k < i THEN k ELSE k - 1
<1>7. ASSUME NEW k \in DOMAIN Q, k # i PROVE M(k) \in DOMAIN P /\ Q[k] = P[M(k)]
  BY <1>5, <1>6, <1>7
<1>8. \A j, k \in DOMAIN Q : j # i /\ k # i /\ M(j) = M(k) => j = k
  BY <1>6
<1> HIDE DEF M
<1>9. ASSUME NEW k \in DOMAIN Q, k # i, Live(Q[k])
      PROVE  Q[k][2] \in B /\ Q[k][2] # b /\ Q[k][1] = len[Q[k][2]]
  BY <1>7, <1>9 DEF PoolOf
<1>10. ASSUME NEW j \in DOMAIN Q, NEW k \in DOMAIN Q, Live(Q[j]), Q[j][2] = Q[k][2] PROVE j = k
  <2>1. Live(Q[k])
    BY <1>10 DEF Live
  <2>2. CASE j = i
    BY <1>3, <1>5, <1>9, <1>10, <2>1, <2>2
  <2>3. CASE k = i
    BY <1>3, <1>5, <1>9, <1>10, <2>1, <2>3
  <2>4. CASE j # i /\ k # i
    <3>1. M(j) = M(k)
      BY <1>7, <1>10, <2>4 DEF PoolOf
    <3> QED  BY <1>8, <2>4, <3>1
  <2> QED  BY <2>2, <2>3, <2>4
<1>11. ASSUME NEW c \in B \cup {b} PROVE \E k \in DOMAIN Q : Live(Q[k]) /\ Q[k][2] = c
  <2>1. CASE c = b
    BY <1>3, <1>5, <2>1
  <2>2. CASE c \in B
    <3>1. PICK k \in DOMAIN P : Live(P[k]) /\ P[k][2] = c
      BY <2>2 DEF PoolOf
    <3> QED  BY <1>5, <1>6, <3>1
  <2> QED  BY <2>1, <2>2
<1>12. \A k \in DOMAIN Q : Live(Q[k]) => Q[k][2] \in B \cup {b} /\ Q[k][1] = len[Q[k][2]]
  BY <1>3, <1>5, <1>9
<1>13. PoolOf(Q, B \cup {b}, len)
  BY <1>5, <1>10, <1>11, <1>12 DEF PoolOf
<1> QED  BY <1>2, <1>4, <1>13

LEMMA PoolKill ==
  ASSUME NEW P, NEW B, NEW len, PoolOf(P, B, len), NEW D \in SUBSET B
  PROVE  PoolOf([k \in DOMAIN P |-> IF P[k][2] \in D THEN <<P[k][1], NoBuf>> ELSE P[k]], B \ D, len)
<1>0. PICK Q : Q = [k \in DOMAIN P |-> IF P[k][2] \in D THEN <<P[k][1], NoBuf>> ELSE P[k]]
  OBVIOUS
<1>1. P \in Seq(Entry)
  BY DEF PoolOf
<1>2. PICK N \in Nat : N = Len(P) /\ DOMAIN P = 1 .. N
  BY <1>1, LenProperties
<1>3. \A k \in 1 .. N : P[k] \in Entry
  BY <1>1, <1>2, ElementOfSeq
<1>4. DOMAIN Q = 1 .. N /\ \A k \in 1 .. N : Q[k] = IF P[k][2] \in D THEN <<P[k][1], NoBuf>> ELSE P[k]
  BY <1>0, <1>2
<1>5. ASSUME NEW k \in 1 .. N
      PROVE  Q[k] \in Entry /\ (Live(Q[k]) => Q[k] = P[k] /\ P[k][2] \notin D)
  BY <1>3, <1>4 DEF Entry, Live
<1>6. Q \in Seq(Entry)
  <2>1. Q \in [1 .. N -> Entry]
    BY <1>0, <1>2, <1>5
  <2> QED  BY <2>1
<1>7. PICK m : m = [k \in 1 .. N |-> k]
  OBVIOUS
<1>8. \A k \in DOMAIN Q : Live(Q[k]) => m[k] \in DOMAIN P /\ Q[k] = P[m[k]] /\ Q[k][2] \in B \ D
  BY <1>2, <1>4, <1>5, <1>7 DEF PoolOf
<1>9. \A j, k \in DOMAIN Q : m[j] = m[k] => j = k
  BY <1>4, <1>7
<1>10. ASSUME NEW b \in B \ D PROVE \E k \in DOMAIN Q : Live(Q[k]) /\ Q[k][2] = b
  <2>1. PICK k \in DOMAIN P : Live(P[k]) /\ P[k][2] = b
    BY DEF PoolOf
  <2> QED  BY <1>2, <1>4, <2>1
<1>11. B \ D \in SUBSET B
  OBVIOUS
<1>12. PoolOf(Q, B \ D, len)
  BY <1>6, <1>8, <1>9, <1>10, <1>11, PoolFrom
<1> QED  BY <1>0, <1>12, Zenon

LEMMA ListCut ==
  ASSUME NEW L, NEW B, ListOf(L, B), NEW p \in DOMAIN L PROVE ListOf(RemoveAt(L, p), B \ {L[p]})
<1>1. L \in Seq(Buf)
  BY DEF ListOf
<1>2. PICK N \in Nat : N = Len(L) /\ DOMAIN L = 1 .. N /\ p \in 1 .. N + 1 /\ p + 1 \in p .. N + 1
  BY <1>1, LenProperties
<1>3. PICK Q : Q = SubSeq(L, 1, p - 1) \o SubSeq(L, p + 1, Len(L))
  OBVIOUS
<1>4. IsCut(Q, L, Buf, p, p + 1)
  BY <1>1, <1>2, <1>3, CutFacts
<1>5. /\ Q \in Seq(Buf) /\ DOMAIN Q \subseteq Nat /\ (p + 1) - p = 1
      /\ \A k \in DOMAIN Q : /\ k < p => k \in DOMAIN L /\ Q[k] = L[k]
                             /\ k >= p => k + 1 \in DOMAIN L /\ Q[k] = L[k + 1]
      /\ \A k \in DOMAIN L : /\ k < p => k \in DOMAIN Q /\ Q[k] = L[k]
                             /\ k >= p + 1 => k - 1 \in DOMAIN Q /\ Q[k - 1] = L[k]
  <2>1. (p + 1) - p = 1
    BY <1>2
  <2>2. Q \in Seq(Buf)
    BY <1>4 DEF IsCut
  <2> QED  BY <1>4, <2>1, <2>2, LenProperties DEF IsCut
<1> DEFINE M(k) == IF k < p THEN k ELSE k + 1
<1>6. ASSUME NEW k \in DOMAIN Q PROVE M(k) \in DOMAIN L /\ M(k) # p /\ Q[k] = L[M(k)]
  BY <1>2, <1>5
<1>7. \A j, k \in DOMAIN Q : M(j) = M(k) => j = k
  BY <1>2, <1>5
<1> HIDE DEF M
<1>8. ASSUME NEW j \in DOMAIN Q, NEW k \in DOMAIN Q, Q[j] = Q[k] PROVE j = k
  BY <1>6, <1>7, <1>8 DEF ListOf
<1>9. B \ {L[p]} = ToSet(Q)
  <2>1. ASSUME NEW k \in DOMAIN Q PROVE Q[k] \in B \ {L[p]}
    BY <1>6 DEF ListOf, ToSet
  <2>2. ASSUME NEW b \in B \ {L[p]} PROVE \E k \in DOMAIN Q : Q[k] = b
    <3>1. PICK k \in DOMAIN L : L[k] = b
      BY DEF ListOf, ToSet
    <3>2. k < p \/ k >= p + 1
      BY <1>2, <3>1
    <3> QED  BY <1>5, <3>1, <3>2
  <2> QED  BY <2>1, <2>2 DEF ToSet
<1>10. ListOf(Q, B \ {L[p]})
  BY <1>5, <1>8, <1>9 DEF ListOf
<1> QED  BY <1>3, <1>10, Zenon DEF RemoveAt

LEMMA ListCons ==
  ASSUME NEW L, NEW B, ListOf(L, B), NEW b \in Buf \ B PROVE ListOf(<<b>> \o L, B \cup {b})
<1>1. L \in Seq(Buf)
  BY DEF ListOf
<1>2. PICK N \in Nat : N = Len(L) /\ DOMAIN L = 1 .. N
  BY <1>1, LenProperties
<1>3. PICK m : m = <<b>>
  OBVIOUS
<1>4. PICK Q : Q = m \o L
  OBVIOUS
<1>5. m \in Seq(Buf) /\ Len(m) = 1 /\ m[1] = b
  BY <1>3
<1>6. /\ Q \in Seq(Buf) /\ Len(Q) = Len(m) + Len(L)
      /\ \A k \in 1 .. Len(m) + Len(L) : Q[k] = IF k <= Len(m) THEN m[k] ELSE L[k - Len(m)]
  BY <1>1, <1>4, <1>5, ConcatProperties, Zenon
<1>7. DOMAIN Q = 1 .. 1 + N
  BY <1>2, <1>5, <1>6, LenProperties
<1>8. Q[1] = b /\ \A k \in 2 .. 1 + N : k - 1 \in 1 .. N /\ Q[k] = L[k - 1]
  BY <1>2, <1>5, <1>6
<1>9. ASSUME NEW j \in DOMAIN Q, NEW k \in DOMAIN Q, Q[j] = Q[k] PROVE j = k
  <2>1. \A i \in 2 .. 1 + N : Q[i] \in B /\ Q[i] # b
    BY <1>2, <1>8 DEF ListOf, ToSet
  <2>2. CASE j = 1 \/ k = 1
    BY <1>7, <1>8, <1>9, <2>1, <2>2
  <2>3. CASE j # 1 /\ k # 1
    BY <1>2, <1>7, <1>8, <1>9, <2>3 DEF ListOf
  <2> QED  BY <2>2, <2>3
<1>10. B \cup {b} = ToSet(Q)
  <2>1. ASSUME NEW k \in DOMAIN Q PROVE Q[k] \in B \cup {b}
    BY <1>2, <1>7, <1>8 DEF ListOf, ToSet
  <2>2. ASSUME NEW c \in B PROVE \E k \in DOMAIN Q : Q[k] = c
    <3>1. PICK k \in DOMAIN L : L[k] = c
      BY DEF ListOf, ToSet
    <3>2. k + 1 \in 2 .. 1 + N /\ (k + 1) - 1 = k
      BY <1>2
    <3>3. k + 1 \in DOMAIN Q /\ Q[k + 1] = c
      BY <1>2, <1>7, <1>8, <3>1, <3>2
    <3> QED  BY <3>3
  <2>3. \E k \in DOMAIN Q : Q[k] = b
    BY <1>7, <1>8
  <2> QED  BY <2>1, <2>2, <2>3 DEF ToSet
<1>11. ListOf(Q, B \cup {b})
  BY <1>6, <1>9, <1>10 DEF ListOf
<1> QED  BY <1>3, <1>4, <1>11, Zenon

LEMMA ListBack ==
  ASSUME NEW L, NEW B, ListOf(L, B), NEW n \in 0 .. Len(L)
  PROVE  ToSet(SubSeq(L, Len(L) - n + 1, Len(L))) \subseteq B
<1>1. L \in Seq(Buf)
  BY DEF ListOf
<1>2. PICK N \in Nat : N = Len(L) /\ DOMAIN L = 1 .. N /\ n \in 0 .. N
  BY <1>1, LenProperties
<1>3. PICK R : R = SubSeq(L, N - n + 1, N)
  OBVIOUS
<1>4. N - n + 1 \in 1 .. Len(L) + 1 /\ N \in (N - n + 1) - 1 .. Len(L)
  BY <1>2
<1>5. /\ R \in Seq(Buf) /\ Len(R) = N - (N - n + 1) + 1
      /\ \A k \in 1 .. N - (N - n + 1) + 1 : R[k] = L[(N - n + 1) + k - 1]
  BY <1>1, <1>3, <1>4, Piece
<1>6. DOMAIN R = 1 .. n
  BY <1>2, <1>5, LenProperties
<1>7. \A k \in DOMAIN R : R[k] \in B
  BY <1>2, <1>5, <1>6 DEF ListOf, ToSet
<1> QED  BY <1>2, <1>3, <1>7 DEF ToSet

LEMMA ListFront ==
  ASSUME NEW L, NEW B, ListOf(L, B), NEW n \in 0 .. Len(L), NEW D, D = ToSet(SubSeq(L, Len(L) - n + 1, Len(L)))
  PROVE  D \subseteq B /\ ListOf(SubSeq(L, 1, Len(L) - n), B \ D)
<1>1. L \in Seq(Buf)
  BY DEF ListOf
<1>2. PICK N \in Nat : N = Len(L) /\ DOMAIN L = 1 .. N /\ n \in 0 .. N
  BY <1>1, LenProperties
<1>3. PICK Q : Q = SubSeq(L, 1, N - n)
  OBVIOUS
<1>4. PICK R : R = SubSeq(L, N - n + 1, N)
  OBVIOUS
<1>5. Q \in Seq(Buf) /\ DOMAIN Q = 1 .. N - n /\ \A k \in 1 .. N - n : Q[k] = L[k]
  <2>1. 1 \in 1 .. Len(L) + 1 /\ N - n \in 1 - 1 .. Len(L)
    BY <1>2
  <2>2. Q \in Seq(Buf) /\ Len(Q) = N - n - 1 + 1 /\ \A k \in 1 .. N - n - 1 + 1 : Q[k] = L[1 + k - 1]
    BY <1>1, <1>3, <2>1, Piece
  <2> QED  BY <1>2, <2>2, LenProperties
<1>6. DOMAIN R = 1 .. n /\ \A k \in 1 .. n : R[k] = L[N - n + k]
  <2>1. N - n + 1 \in 1 .. Len(L) + 1 /\ N \in (N - n + 1) - 1 .. Len(L)
    BY <1>2
  <2>2. /\ R \in Seq(Buf) /\ Len(R) = N - (N - n + 1) + 1
        /\ \A k \in 1 .. N - (N - n + 1) + 1 : R[k] = L[(N - n + 1) + k - 1]
    BY <1>1, <1>4, <2>1, Piece
  <2>3. N - (N - n + 1) + 1 = n /\ \A k \in 1 .. n : (N - n + 1) + k - 1 = N - n + k
    BY <1>2
  <2>4. DOMAIN R = 1 .. n
    BY <2>2, <2>3, LenProperties
  <2> QED  BY <2>2, <2>3, <2>4
<1>7. D = {L[N - n + k] : k \in 1 .. n}
  BY <1>2, <1>4, <1>6 DEF ToSet
<1>8. \A j, k \in DOMAIN Q : Q[j] = Q[k] => j = k
  BY <1>2, <1>5 DEF ListOf
<1>9. D \subseteq B
  BY <1>2, <1>7 DEF ListOf, ToSet
<1>10. B \ D = ToSet(Q)
  <2>1. ASSUME NEW k \in DOMAIN Q PROVE Q[k] \in B \ D
    <3>1. Q[k] \in B
      BY <1>2, <1>5 DEF ListOf, ToSet
    <3>2. ASSUME NEW j \in 1 .. n, L[N - n + j] = L[k] PROVE FALSE
      <4>1. N - n + j \in DOMAIN L /\ k \in DOMAIN L /\ N - n + j # k
        BY <1>2, <1>5
      <4> QED  BY <3>2, <4>1 DEF ListOf
    <3> QED  BY <1>5, <1>7, <3>1, <3>2
  <2>2. ASSUME NEW b \in B \ D PROVE \E k \in DOMAIN Q : Q[k] = b
    <3>1. PICK k \in DOMAIN L : L[k] = b
      BY DEF ListOf, ToSet
    <3>2. ASSUME k > N - n PROVE FALSE
      <4>1. k - (N - n) \in 1 .. n /\ N - n + (k - (N - n)) = k
        BY <1>2, <3>2
      <4> QED  BY <1>7, <3>1, <4>1
    <3>3. k \in 1 .. N - n
      BY <1>2, <3>2
    <3> QED  BY <1>5, <3>1, <3>3
  <2> QED  BY <2>1, <2>2 DEF ToSet
<1>11. ListOf(Q, B \ D)
  BY <1>5, <1>8, <1>10 DEF ListOf
<1> QED  BY <1>2, <1>3, <1>9, <1>11

\* A list has as many buffers as places.
LEMMA ListSize ==
  ASSUME NEW L, NEW B, ListOf(L, B) PROVE IsFiniteSet(B) /\ B \subseteq Buf /\ Cardinality(B) = Len(L)
<1>1. L \in Seq(Buf)
  BY DEF ListOf
<1>2. PICK N \in Nat : N = Len(L) /\ DOMAIN L = 1 .. N /\ L \in [1 .. N -> Buf]
  BY <1>1, LenProperties
<1>3. B = {L[k] : k \in 1 .. N} /\ B \subseteq Buf /\ L \in [1 .. N -> B]
  BY <1>2 DEF ListOf, ToSet
<1>4. L \in Surjection(1 .. N, B) /\ L \in Injection(1 .. N, B)
  BY <1>2, <1>3 DEF ListOf, Surjection, Injection, IsInjective
<1>5. IsFiniteSet(1 .. N) /\ Cardinality(1 .. N) = N
  BY FS_Interval
<1>6. IsFiniteSet(B) /\ Cardinality(B) = Cardinality(1 .. N)
  BY <1>4, <1>5, FS_Surjection
<1> QED  BY <1>2, <1>3, <1>5, <1>6
-----------------------------------------------------------------------------
(* The operations of the cache keep it sound. *)

LEMMA SoundParts ==
  ASSUME NEW c, NEW len, Sound(c, len), NEW B, B = ToSet(c.lru)
  PROVE  /\ c.pool \in Seq(Entry) /\ PoolOf(c.pool, B, len) /\ ListOf(c.lru, B)
         /\ IsFiniteSet(B) /\ B \subseteq Buf /\ NoBuf \notin B /\ \A b \in B : len[b] \in Nat
         /\ c.size \in Nat /\ c.size = SumFunctionOnSet(len, B)
<1>1. PoolOf(c.pool, B, len) /\ ListOf(c.lru, B) /\ \A b \in B : len[b] \in Nat
  BY DEF Sound
<1>2. c.size \in Nat /\ c.size = SumFunctionOnSet(len, B)
  BY DEF Sound
<1>3. c.pool \in Seq(Entry)
  BY <1>1 DEF PoolOf
<1> QED  BY <1>1, <1>2, <1>3, ListSize, AllocatorAssumption DEF AllocatorAssumption

LEMMA SoundMake ==
  ASSUME NEW P, NEW L, NEW z, NEW len, NEW B, PoolOf(P, B, len), ListOf(L, B),
         \A b \in B : len[b] \in Nat, z = SumFunctionOnSet(len, B)
  PROVE  /\ Sound([pool |-> P, lru |-> L, size |-> z], len) /\ ToSet(L) = B
<1>1. P \in Seq(Entry) /\ L \in Seq(Buf) /\ B = ToSet(L)
  BY DEF PoolOf, ListOf
<1>2. z \in Nat
  BY ListSize, SumNat
<1> QED  BY <1>1, <1>2 DEF Sound

\* It matters only how long the cache's buffers are.
LEMMA SoundSame ==
  ASSUME NEW c, NEW len, Sound(c, len), NEW g, \A b \in ToSet(c.lru) : g[b] = len[b]
  PROVE  Sound(c, g)
<1>1. PICK B : B = ToSet(c.lru)
  OBVIOUS
<1>2. /\ c.pool \in Seq(Entry) /\ PoolOf(c.pool, B, len) /\ ListOf(c.lru, B)
      /\ IsFiniteSet(B) /\ \A b \in B : len[b] \in Nat
      /\ c.size = SumFunctionOnSet(len, B)
  BY <1>1, SoundParts
<1>3. \A b \in B : g[b] = len[b] /\ g[b] \in Nat
  BY <1>1, <1>2
<1>4. c.size = SumFunctionOnSet(g, B)
  BY <1>2, <1>3, SumSame
<1>5. PoolOf(c.pool, B, g)
  BY <1>2, <1>3 DEF PoolOf
<1> QED  BY <1>1, <1>2, <1>3, <1>4, <1>5 DEF Sound

LEMMA EmptySound ==
  ASSUME NEW len PROVE Sound(EmptyCache, len) /\ ToSet(EmptyCache.lru) = {} /\ EmptyCache.size = 0
<1>1. PoolOf(<<>>, {}, len) /\ ListOf(<<>>, {})
  BY DEF PoolOf, ListOf, ToSet
<1>2. SumFunctionOnSet(len, {}) = 0
  BY SumEmpty
<1> QED  BY <1>1, <1>2, SoundMake DEF EmptyCache

LEMMA BoundPlace ==
  ASSUME NEW P \in Seq(Entry), NEW x \in Int, NEW y \in Int, x <= y
  PROVE  /\ LowerBound(P, x) \in 1 .. Len(P) + 1 /\ LowerBound(P, y) \in 1 .. Len(P) + 1
         /\ LowerBound(P, x) <= LowerBound(P, y)
<1>1. PICK N \in Nat : N = Len(P) /\ DOMAIN P = 1 .. N
  BY LenProperties
<1>2. \A k \in 1 .. N : P[k][1] \in Nat
  BY <1>1, ElementOfSeq DEF Entry
<1> DEFINE X == {k \in DOMAIN P : P[k][1] < x}
           Y == {k \in DOMAIN P : P[k][1] < y}
<1>3. IsFiniteSet(1 .. N) /\ Cardinality(1 .. N) = N
  BY FS_Interval
<1>4. IsFiniteSet(Y) /\ Cardinality(Y) <= N
  BY <1>1, <1>3, FS_Subset
<1>5. X \subseteq Y
  BY <1>1, <1>2
<1>6. IsFiniteSet(X) /\ Cardinality(X) <= Cardinality(Y)
  BY <1>4, <1>5, FS_Subset
<1>7. Cardinality(X) \in Nat /\ Cardinality(Y) \in Nat
  BY <1>4, <1>6, FS_CardinalityType
<1>8. LowerBound(P, x) = Cardinality(X) + 1 /\ LowerBound(P, y) = Cardinality(Y) + 1
  BY DEF LowerBound
<1> HIDE DEF X, Y
<1> QED  BY <1>1, <1>4, <1>6, <1>7, <1>8

\* d is what is left of the cache when b is taken out of it.
Taken(c, b, d, len) ==
  /\ b \in ToSet(c.lru) /\ Sound(d, len) /\ ToSet(d.lru) = ToSet(c.lru) \ {b}
  /\ c.size = len[b] + d.size

LEMMA ReuseSound ==
  ASSUME NEW c, NEW len, Sound(c, len), NEW z \in Nat, NEW r, r = Reuse(c, z)
  PROVE  /\ r.buf = NoBuf => /\ Sound(r.cache, len) /\ ToSet(r.cache.lru) = ToSet(c.lru)
                             /\ r.cache.size = c.size
         /\ r.buf # NoBuf => Taken(c, r.buf, r.cache, len)
<1>1. PICK P : P = c.pool
  OBVIOUS
<1>2. PICK L : L = c.lru
  OBVIOUS
<1>3. PICK B : B = ToSet(L)
  OBVIOUS
<1>4. /\ P \in Seq(Entry) /\ PoolOf(P, B, len) /\ ListOf(L, B)
      /\ IsFiniteSet(B) /\ B \subseteq Buf /\ NoBuf \notin B /\ \A b \in B : len[b] \in Nat
      /\ c.size \in Nat /\ c.size = SumFunctionOnSet(len, B)
  BY <1>1, <1>2, <1>3, SoundParts
<1>5. c = [pool |-> P, lru |-> L, size |-> c.size]
  BY <1>1, <1>2 DEF Sound
<1>6. PICK from : from = LowerBound(P, z)
  OBVIOUS
<1>7. PICK end : end = LowerBound(P, Less(2 * z, z + 2 * Page))
  OBVIOUS
<1>8. PICK N \in Nat : N = Len(P) /\ DOMAIN P = 1 .. N
  BY <1>4, LenProperties
<1>9. from \in 1 .. N + 1 /\ end \in from .. N + 1
  <2>1. Less(2 * z, z + 2 * Page) \in Int /\ z <= Less(2 * z, z + 2 * Page)
    BY AllocatorAssumption DEF AllocatorAssumption, Less
  <2>2. from \in 1 .. Len(P) + 1 /\ end \in 1 .. Len(P) + 1 /\ from <= end
    BY <1>4, <1>6, <1>7, <2>1, BoundPlace
  <2> QED  BY <1>8, <2>2
<1>10. PICK found : found = {k \in from .. end - 1 : Live(P[k])}
  OBVIOUS
<1> DEFINE Left(k) == SubSeq(P, 1, from - 1) \o SubSeq(P, k, Len(P))
           first == Min(found)
           place == CHOOSE j \in DOMAIN L : L[j] = P[first][2]
<1>11. r = IF found = {} THEN [buf |-> NoBuf, cache |-> [c EXCEPT !.pool = Left(end)]]
           ELSE [buf   |-> P[first][2],
                 cache |-> [pool |-> Left(first + 1), lru |-> RemoveAt(L, place), size |-> c.size - P[first][1]]]
  BY <1>1, <1>2, <1>6, <1>7, <1>10 DEF Reuse
<1>12. CASE found = {}
  <2>1. PICK Q : Q = Left(end)
    OBVIOUS
  <2>2. PoolOf(Q, B \ {}, len)
    <3>1. \A k \in from .. end - 1 : Live(P[k]) => P[k][2] \in {}
      BY <1>10, <1>12
    <3>2. {} \in SUBSET B /\ from \in 1 .. Len(P) + 1 /\ end \in from .. Len(P) + 1
      BY <1>8, <1>9
    <3> QED  BY <1>4, <2>1, <3>1, <3>2, PoolCut
  <2>3. B \ {} = B
    OBVIOUS
  <2>4. Sound([pool |-> Q, lru |-> L, size |-> c.size], len)
    BY <1>4, <2>2, <2>3, SoundMake
  <2>5. r = [buf |-> NoBuf, cache |-> [pool |-> Q, lru |-> L, size |-> c.size]]
    <3>1. [c EXCEPT !.pool = Q] = [pool |-> Q, lru |-> L, size |-> c.size]
      BY <1>5
    <3>2. r = [buf |-> NoBuf, cache |-> [c EXCEPT !.pool = Q]]
      <4> HIDE DEF Left, first, place
      <4> QED  BY <1>11, <1>12, <2>1
    <3> QED  BY <3>1, <3>2
  <2> QED  BY <1>2, <2>4, <2>5
<1>13. CASE found # {}
  <2> HIDE DEF first, place
  <2>1. first \in found /\ \A k \in found : first <= k
    <3>1. found \subseteq Nat
      BY <1>9, <1>10
    <3>2. \E m \in found : \A k \in found : m <= k
      BY <1>13, <3>1, LeastOf
    <3> QED  BY <3>2 DEF first, Min
  <2>2. PICK b : b = P[first][2]
    OBVIOUS
  <2>3. first \in 1 .. N /\ first \in from .. end - 1 /\ Live(P[first])
    BY <1>9, <1>10, <2>1
  <2>4. b \in B /\ P[first][1] = len[b]
    BY <1>4, <1>8, <2>2, <2>3 DEF PoolOf
  <2>5. place \in DOMAIN L /\ L[place] = b
    <3>1. \E j \in DOMAIN L : L[j] = P[first][2]
      BY <1>3, <2>2, <2>4 DEF ToSet
    <3> QED  BY <2>2, <3>1 DEF place
  <2>6. PICK K : K = RemoveAt(L, place)
    OBVIOUS
  <2>7. ListOf(K, B \ {b})
    BY <1>4, <2>5, <2>6, ListCut
  <2>8. PICK Q : Q = Left(first + 1)
    OBVIOUS
  <2>9. PoolOf(Q, B \ {b}, len)
    <3>1. \A k \in from .. (first + 1) - 1 : Live(P[k]) => P[k][2] \in {b}
      BY <1>9, <1>10, <2>1, <2>2, <2>3
    <3>2. {b} \in SUBSET B /\ from \in 1 .. Len(P) + 1 /\ first + 1 \in from .. Len(P) + 1
      BY <1>8, <1>9, <2>3, <2>4
    <3>3. \A d \in {b} : \E k \in from .. (first + 1) - 1 : Live(P[k]) /\ P[k][2] = d
      BY <1>9, <2>2, <2>3
    <3> QED  BY <1>4, <2>8, <3>1, <3>2, <3>3, PoolCut
  <2>10. c.size = len[b] + SumFunctionOnSet(len, B \ {b})
    BY <1>4, <2>4, SumRemove
  <2>11. SumFunctionOnSet(len, B \ {b}) \in Nat
    <3>1. IsFiniteSet(B \ {b})
      BY <1>4, FS_RemoveElement
    <3> QED  BY <1>4, <3>1, SumNat
  <2>12. c.size - len[b] = SumFunctionOnSet(len, B \ {b})
    BY <1>4, <2>4, <2>10, <2>11
  <2>13. /\ Sound([pool |-> Q, lru |-> K, size |-> c.size - len[b]], len)
         /\ ToSet(K) = B \ {b}
    BY <1>4, <2>7, <2>9, <2>12, SoundMake
  <2>14. r = [buf |-> b, cache |-> [pool |-> Q, lru |-> K, size |-> c.size - len[b]]]
    BY <1>11, <1>13, <2>2, <2>4, <2>6, <2>8
  <2>15. r.buf = b /\ b # NoBuf
    BY <1>4, <2>4, <2>14
  <2> QED  BY <1>2, <1>3, <1>4, <2>4, <2>10, <2>12, <2>13, <2>14, <2>15 DEF Taken
<1> QED  BY <1>12, <1>13

LEMMA RecycleSound ==
  ASSUME NEW c, NEW len, Sound(c, len), NEW b \in Buf \ ToSet(c.lru), len[b] \in Nat
  PROVE  LET d == Recycle(c, b, len[b])
         IN  Sound(d, len) /\ ToSet(d.lru) = ToSet(c.lru) \cup {b} /\ d.size = c.size + len[b]
<1>1. PICK P : P = c.pool
  OBVIOUS
<1>2. PICK L : L = c.lru
  OBVIOUS
<1>3. PICK B : B = ToSet(L)
  OBVIOUS
<1>4. /\ P \in Seq(Entry) /\ PoolOf(P, B, len) /\ ListOf(L, B)
      /\ IsFiniteSet(B) /\ \A a \in B : len[a] \in Nat
      /\ c.size \in Nat /\ c.size = SumFunctionOnSet(len, B)
  BY <1>1, <1>2, <1>3, SoundParts
<1>5. PICK i : i = LowerBound(P, len[b] + 1)
  OBVIOUS
<1>6. i \in 1 .. Len(P) + 1
  <2>1. len[b] + 1 \in Int /\ len[b] + 1 <= len[b] + 1
    OBVIOUS
  <2> QED  BY <1>4, <1>5, <2>1, BoundPlace
<1>7. b \in Buf /\ b \notin B /\ b # NoBuf
  BY <1>2, <1>3, AllocatorAssumption DEF AllocatorAssumption
<1>8. PICK Q : Q = InsertAt(P, i, <<len[b], b>>)
  OBVIOUS
<1>9. PoolOf(Q, B \cup {b}, len)
  BY <1>4, <1>6, <1>7, <1>8, PoolInsert
<1>10. PICK K : K = <<b>> \o L
  OBVIOUS
<1>11. ListOf(K, B \cup {b})
  BY <1>4, <1>7, <1>10, ListCons
<1>12. SumFunctionOnSet(len, B \cup {b}) = c.size + len[b]
  <2>1. \A a \in B \cup {b} : len[a] \in Nat
    BY <1>4
  <2>2. SumFunctionOnSet(len, B \cup {b}) = SumFunctionOnSet(len, B) + len[b]
    <3>1. IsFiniteSet(B) /\ b \notin B
      BY <1>4, <1>7
    <3> QED  BY <2>1, <3>1, SumAdd
  <2> QED  BY <1>4, <2>2
<1>13. /\ Sound([pool |-> Q, lru |-> K, size |-> c.size + len[b]], len)
       /\ ToSet(K) = B \cup {b}
  <2>1. \A a \in B \cup {b} : len[a] \in Nat
    BY <1>4
  <2> QED  BY <1>9, <1>11, <1>12, <2>1, SoundMake
<1>14. Recycle(c, b, len[b]) = [pool |-> Q, lru |-> K, size |-> c.size + len[b]]
  BY <1>1, <1>2, <1>5, <1>8, <1>10, Zenon DEF Recycle
<1> QED  BY <1>2, <1>3, <1>13, <1>14

\* The pool tells how long a buffer of the list is.
LEMMA LenOfCached ==
  ASSUME NEW c, NEW len, Sound(c, len), NEW b \in ToSet(c.lru) PROVE LenOf(c, b) = len[b]
<1>1. PICK B : B = ToSet(c.lru)
  OBVIOUS
<1>2. PoolOf(c.pool, B, len) /\ b # NoBuf
  BY <1>1, SoundParts
<1>3. \E e \in ToSet(c.pool) : e[2] = b
  <2>1. PICK k \in DOMAIN c.pool : c.pool[k][2] = b
    BY <1>1, <1>2 DEF PoolOf
  <2> QED  BY <2>1 DEF ToSet
<1>4. \A e \in ToSet(c.pool) : e[2] = b => e[1] = len[b]
  BY <1>2 DEF PoolOf, ToSet, Live
<1>5. PICK e : e = CHOOSE x \in ToSet(c.pool) : x[2] = b
  OBVIOUS
<1>6. e \in ToSet(c.pool) /\ e[2] = b
  BY <1>3, <1>5
<1> QED  BY <1>4, <1>5, <1>6 DEF LenOf

LEMMA BytesOfOldest ==
  ASSUME NEW c, NEW len, Sound(c, len), NEW n \in 0 .. Len(c.lru)
  PROVE  /\ Oldest(c, n) \subseteq ToSet(c.lru)
         /\ Bytes(c, n) = SumFunctionOnSet(len, Oldest(c, n))
         /\ Bytes(c, n) \in Nat
<1>1. PICK B : B = ToSet(c.lru)
  OBVIOUS
<1>2. PICK D : D = Oldest(c, n)
  OBVIOUS
<1>3. ListOf(c.lru, B) /\ IsFiniteSet(B) /\ \A b \in B : len[b] \in Nat
  BY <1>1, SoundParts
<1>4. D \subseteq B
  <2>1. PICK L : L = c.lru
    OBVIOUS
  <2>2. D = ToSet(SubSeq(L, Len(L) - n + 1, Len(L)))
    BY <1>2, <2>1 DEF Oldest
  <2>3. n \in 0 .. Len(L) /\ ListOf(L, B)
    BY <1>3, <2>1
  <2> QED  BY <2>2, <2>3, ListBack
<1>5. IsFiniteSet(D) /\ \A b \in D : len[b] \in Nat
  BY <1>3, <1>4, FS_Subset
<1>6. PICK g : g = [b \in D |-> LenOf(c, b)]
  OBVIOUS
<1>7. \A b \in D : len[b] \in Nat /\ len[b] = g[b]
  BY <1>1, <1>4, <1>5, <1>6, LenOfCached
<1>8. SumFunctionOnSet(len, D) = SumFunctionOnSet(g, D)
  BY <1>5, <1>7, SumSame
<1>9. Bytes(c, n) = SumFunctionOnSet(g, D)
  BY <1>2, <1>6 DEF Bytes
<1> QED  BY <1>1, <1>2, <1>4, <1>5, <1>8, <1>9, SumNat

\* d is what is left of the cache when some buffers are dropped from it.
Shrunk(c, d, len) == Sound(d, len) /\ ToSet(d.lru) \subseteq ToSet(c.lru) /\ d.size <= c.size

LEMMA WithoutSound ==
  ASSUME NEW c, NEW len, Sound(c, len), NEW n \in 0 .. Len(c.lru), NEW d, d = Without(c, n)
  PROVE  Shrunk(c, d, len)
<1>1. PICK P : P = c.pool
  OBVIOUS
<1>2. PICK L : L = c.lru
  OBVIOUS
<1>3. PICK B : B = ToSet(L)
  OBVIOUS
<1>4. PICK D : D = Oldest(c, n)
  OBVIOUS
<1>5. /\ P \in Seq(Entry) /\ PoolOf(P, B, len) /\ ListOf(L, B)
      /\ IsFiniteSet(B) /\ \A a \in B : len[a] \in Nat
      /\ c.size \in Nat /\ c.size = SumFunctionOnSet(len, B)
  BY <1>1, <1>2, <1>3, SoundParts
<1>6. D \subseteq B /\ Bytes(c, n) = SumFunctionOnSet(len, D) /\ Bytes(c, n) \in Nat
  BY <1>2, <1>3, <1>4, BytesOfOldest
<1>7. PICK Q : Q = [k \in DOMAIN P |-> IF P[k][2] \in D THEN <<P[k][1], NoBuf>> ELSE P[k]]
  OBVIOUS
<1>8. PoolOf(Q, B \ D, len)
  BY <1>5, <1>6, <1>7, PoolKill
<1>9. PICK K : K = SubSeq(L, 1, Len(L) - n)
  OBVIOUS
<1>10. ListOf(K, B \ D)
  <2>1. D = ToSet(SubSeq(L, Len(L) - n + 1, Len(L))) /\ n \in 0 .. Len(L)
    BY <1>2, <1>4 DEF Oldest
  <2> QED  BY <1>5, <1>9, <2>1, ListFront
<1>11. c.size = SumFunctionOnSet(len, D) + SumFunctionOnSet(len, B \ D)
  BY <1>5, <1>6, SumUnion
<1>12. SumFunctionOnSet(len, B \ D) \in Nat
  <2>1. IsFiniteSet(B \ D)
    BY <1>5, FS_Subset
  <2> QED  BY <1>5, <2>1, SumNat
<1>13. c.size - Bytes(c, n) = SumFunctionOnSet(len, B \ D) /\ c.size - Bytes(c, n) <= c.size
  BY <1>5, <1>6, <1>11, <1>12
<1>14. /\ Sound([pool |-> Q, lru |-> K, size |-> c.size - Bytes(c, n)], len)
       /\ ToSet(K) = B \ D
  BY <1>5, <1>8, <1>10, <1>13, SoundMake
<1>15. d = [pool |-> Q, lru |-> K, size |-> c.size - Bytes(c, n)]
  BY <1>1, <1>2, <1>4, <1>7, <1>9, Zenon DEF Without
<1> QED  BY <1>2, <1>3, <1>13, <1>14, <1>15 DEF Shrunk

\* All the buffers of the list are enough, unless more is asked for than there is.
LEMMA ReleaseSound ==
  ASSUME NEW c, NEW len, Sound(c, len), NEW min \in Nat, NEW d, d = Release(c, min)
  PROVE  Shrunk(c, d, len)
<1>1. c.size \in Nat
  BY SoundParts
<1>2. CASE 10 * min >= 9 * c.size
  <2>1. d = EmptyCache
    BY <1>2 DEF Release
  <2> QED  BY <1>1, <2>1, EmptySound DEF Shrunk
<1>3. CASE ~(10 * min >= 9 * c.size)
  <2>1. d = Without(c, Enough(c, min))
    BY <1>3 DEF Release
  <2>2. PICK L : L = c.lru
    OBVIOUS
  <2>3. PICK B : B = ToSet(L)
    OBVIOUS
  <2>4. ListOf(L, B) /\ c.size = SumFunctionOnSet(len, B)
    BY <2>2, <2>3, SoundParts
  <2>5. PICK N \in Nat : N = Len(L) /\ DOMAIN L = 1 .. N
    BY <2>4, LenProperties DEF ListOf
  <2>6. Oldest(c, N) = B
    <3>1. SubSeq(L, Len(L) - N + 1, Len(L)) = L
      <4>1. Len(L) - N + 1 = 1
        BY <2>5
      <4> QED  BY <2>4, <4>1, SubSeqFull DEF ListOf
    <3> QED  BY <2>2, <2>3, <3>1 DEF Oldest
  <2>7. Bytes(c, N) = c.size
    BY <2>2, <2>4, <2>5, <2>6, BytesOfOldest
  <2> DEFINE G == {n \in 0 .. Len(c.lru) : Bytes(c, n) >= min}
  <2>8. N \in G
    BY <1>1, <1>3, <2>2, <2>5, <2>7
  <2>9. G \subseteq 0 .. N /\ G \subseteq Nat
    BY <2>2, <2>5
  <2>10. Enough(c, min) \in G
    <3> HIDE DEF G
    <3>1. \E m \in G : \A k \in G : m <= k
      BY <2>8, <2>9, LeastOf
    <3>2. Enough(c, min) = CHOOSE m \in G : \A k \in G : m <= k
      BY DEF Enough, Min, G
    <3> QED  BY <3>1, <3>2
  <2>11. Enough(c, min) \in 0 .. Len(c.lru)
    BY <2>10
  <2> QED  BY <2>1, <2>11, WithoutSound
<1> QED  BY <1>2, <1>3
-----------------------------------------------------------------------------
(* The inductive invariant. *)

Places == {"idle", "malloc", "new", "check", "wait", "asleep", "got", "error"}

MemoryType ==
  /\ DOMAIN length \in SUBSET Buf /\ IsFiniteSet(DOMAIN length) /\ length \in [DOMAIN length -> Nat]
  /\ cache \in [pool : Seq(Entry), lru : Seq(Buf), size : Nat] /\ active \in Nat
  /\ wired \in SUBSET Buf /\ unwired \in SUBSET Buf /\ todo \in SUBSET Buf /\ torn \in BOOLEAN
  /\ resizing \in {"no", "read", "grow", "shrink"} /\ current \in Int

ThreadType ==
  /\ pc \in [Thread -> Places] /\ size \in [Thread -> Sizes \cup {0}]
  /\ swap \in [Thread -> BOOLEAN] /\ old \in [Thread -> Int] /\ buf \in [Thread -> Buf \cup {NoBuf}]

TypeOK ==
  /\ MemoryType /\ ThreadType
  /\ onGpu \in [Thread -> BOOLEAN] /\ relaxed \in BOOLEAN
  /\ maxPool \in Nat /\ capacity \in Nat /\ n_active \in Int
  /\ held \in SUBSET Buf /\ handled \in SUBSET Buf /\ inflight \in Seq(SUBSET Buf)
  /\ tasks \in Nat /\ calls \in Nat

\* The members of a queue of sets have nothing in common, nor with the set h.
Apart(q, h) ==
  /\ \A j, k \in DOMAIN q : j # k => q[j] \cap q[k] = {}
  /\ \A k \in DOMAIN q : q[k] \cap h = {}

(***************************************************************************)
(* A thread has a buffer between malloc and the end of its task, and has   *)
(* it alone.  A request is known from malloc on.  No two handlers have the *)
(* same buffer.                                                            *)
(***************************************************************************)
Owners ==
  /\ \A t \in Thread : buf[t] # NoBuf <=> pc[t] = "got"
  /\ \A t \in Thread : buf[t] # NoBuf => buf[t] \notin held \cup Captured
  /\ \A t, u \in Thread : buf[t] = buf[u] /\ buf[t] # NoBuf => t = u
  /\ \A t \in Thread : pc[t] \in {"malloc", "new", "check", "wait", "asleep"} => size[t] \in Sizes
  /\ Apart(inflight, handled)

Books ==
  /\ Sound(cache, length)
  /\ DOMAIN length = InUse \cup ToSet(cache.lru) /\ InUse \cap ToSet(cache.lru) = {}
  /\ active = Sum(InUse)

\* Threads that have been promised a buffer the device is to make.
Asking == {t \in Thread : pc[t] = "new"}

Room == Limit + (Cardinality(Thread) - 1) * Largest

\* One of them was promised what still fitted, the others at most the largest request.
Bounded ==
  ~relaxed =>
    IF Asking = {} THEN active + cache.size < Room
    ELSE \E u \in Asking : active + cache.size + size[u] + (Cardinality(Asking) - 1) * Largest < Room

(***************************************************************************)
(* As long as no malloc or free has disturbed a resize, the sets have what *)
(* is in use, between calls what is wired fits, and in a call current says *)
(* how much is wired.  One that shrinks has all that is wired left to      *)
(* visit, so that it never ends with too much.                             *)
(***************************************************************************)
ResidentInv ==
  ~torn =>
    /\ wired \cup unwired = InUse /\ wired \cap unwired = {}
    /\ resizing = "no" => Sum(wired) <= capacity
    /\ resizing = "grow" => current = Sum(wired) /\ current <= capacity /\ todo \subseteq unwired
    /\ resizing = "shrink" => current = Sum(wired) /\ todo = wired

Memory == MemoryType /\ Books /\ ResidentInv

IInv == TypeOK /\ Owners /\ Books /\ ResidentInv /\ Bounded
-----------------------------------------------------------------------------
(* What the steps do to memory. *)

LEMMA InUseFacts ==
  ASSUME MemoryType, Books
  PROVE  /\ InUse \subseteq DOMAIN length /\ IsFiniteSet(InUse) /\ InUse \subseteq Buf
         /\ \A d \in DOMAIN length : length[d] \in Nat
         /\ \A B \in SUBSET InUse : IsFiniteSet(B) /\ Sum(B) \in Nat
<1>1. InUse \subseteq DOMAIN length /\ InUse \subseteq Buf /\ \A d \in DOMAIN length : length[d] \in Nat
  BY DEF MemoryType, Books
<1>2. IsFiniteSet(InUse)
  BY <1>1, FS_Subset DEF MemoryType
<1>3. ASSUME NEW B \in SUBSET InUse PROVE IsFiniteSet(B) /\ Sum(B) \in Nat
  <2>1. IsFiniteSet(B) /\ \A d \in B : length[d] \in Nat
    BY <1>1, <1>2, FS_Subset
  <2> QED  BY <2>1, SumNat DEF Sum
<1> QED  BY <1>1, <1>2, <1>3

LEMMA AllocatedFacts ==
  ASSUME MemoryType
  PROVE  /\ \A B : Allocated(B) \in Nat
         /\ \A B \in SUBSET DOMAIN length : Allocated(B) = Sum(B)
         /\ \A b \in DOMAIN length : Allocated({b}) = length[b]
<1>1. IsFiniteSet(DOMAIN length) /\ \A d \in DOMAIN length : length[d] \in Nat
  BY DEF MemoryType
<1>2. ASSUME NEW B PROVE Allocated(B) \in Nat
  <2>1. IsFiniteSet(B \cap DOMAIN length) /\ \A d \in B \cap DOMAIN length : length[d] \in Nat
    BY <1>1, FS_Subset
  <2> QED  BY <2>1, SumNat DEF Allocated, Sum
<1>3. ASSUME NEW B \in SUBSET DOMAIN length PROVE Allocated(B) = Sum(B)
  <2>1. B \cap DOMAIN length = B
    OBVIOUS
  <2> QED  BY <2>1 DEF Allocated
<1>4. ASSUME NEW b \in DOMAIN length PROVE Allocated({b}) = length[b]
  <2>1. SumFunctionOnSet(length, {b}) = length[b] + SumFunctionOnSet(length, {b} \ {b})
    <3>1. IsFiniteSet({b})
      BY FS_Singleton
    <3> QED  BY <1>1, <3>1, SumRemove
  <2>2. {b} \ {b} = {} /\ length[b] \in Nat
    BY <1>1
  <2>3. SumFunctionOnSet(length, {b}) = length[b]
    BY <2>1, <2>2, SumEmpty
  <2> QED  BY <1>3, <2>3 DEF Sum
<1> QED  BY <1>2, <1>3, <1>4

LEMMA MemoryUnchanged ==
  ASSUME Memory, UNCHANGED memory, InUse' = InUse, UNCHANGED <<capacity, resizing, current>>
  PROVE  Memory' /\ active' + cache'.size = active + cache.size
<1>1. MemoryType'
  BY DEF Memory, memory, residency, MemoryType
<1>2. Books'
  BY DEF Memory, memory, Books, Sum
<1>3. ResidentInv'
  BY DEF Memory, memory, residency, ResidentInv, Sum
<1> QED  BY <1>1, <1>2, <1>3 DEF Memory, memory

LEMMA TrimmedSound ==
  ASSUME NEW c, NEW len, Sound(c, len), maxPool \in Nat, NEW d, d = Trimmed(c)
  PROVE  Shrunk(c, d, len)
<1>1. c.size \in Nat
  BY SoundParts
<1>2. CASE c.size >= maxPool
  <2>1. c.size - maxPool \in Nat /\ d = Release(c, c.size - maxPool)
    BY <1>1, <1>2 DEF Trimmed
  <2> QED  BY <2>1, ReleaseSound
<1>3. CASE ~(c.size >= maxPool)
  BY <1>1, <1>3 DEF Trimmed, Shrunk
<1> QED  BY <1>2, <1>3

\* Buffers that leave the cache are released, no others.
LEMMA KeepFacts ==
  ASSUME NEW made, NEW from, Keep(made, from), NEW U, U \cap ToSet(from.lru) = {},
         DOMAIN made = U \cup ToSet(from.lru), DOMAIN made \in SUBSET Buf, IsFiniteSet(DOMAIN made),
         made \in [DOMAIN made -> Nat], Sound(cache', made), ToSet(cache'.lru) \subseteq ToSet(from.lru)
  PROVE  /\ DOMAIN length' = U \cup ToSet(cache'.lru) /\ U \cap ToSet(cache'.lru) = {}
         /\ DOMAIN length' \in SUBSET Buf /\ IsFiniteSet(DOMAIN length')
         /\ length' \in [DOMAIN length' -> Nat]
         /\ \A d \in DOMAIN length' : length'[d] = made[d]
         /\ Sound(cache', length')
<1>1. PICK l, c : l = length' /\ c = cache'
  OBVIOUS
<1>2. PICK S : S = DOMAIN made \ (ToSet(from.lru) \ ToSet(c.lru))
  OBVIOUS
<1>3. l = [d \in S |-> made[d]]
  BY <1>1, <1>2 DEF Keep, Restrict
<1>4. S = U \cup ToSet(c.lru) /\ U \cap ToSet(c.lru) = {} /\ S \subseteq DOMAIN made
  BY <1>1, <1>2
<1>5. DOMAIN l = S /\ (\A d \in S : l[d] = made[d]) /\ l \in [S -> Nat]
  BY <1>3, <1>4
<1>6. IsFiniteSet(S)
  BY <1>4, FS_Subset
<1>7. Sound(c, l)
  <2>1. \A d \in ToSet(c.lru) : l[d] = made[d]
    BY <1>4, <1>5
  <2> QED  BY <1>1, <2>1, SoundSame
<1> QED  BY <1>1, <1>4, <1>5, <1>6, <1>7

LEMMA GotMemory ==
  ASSUME Memory, maxPool \in Nat, capacity \in Nat, NEW t, NEW b \in Buf \ InUse, NEW n \in Nat, NEW made, NEW c,
         Got(t, b, n, made, c), InUse' = InUse \cup {b}, UNCHANGED <<capacity, resizing, current>>,
         Sound(c, made), InUse \cap ToSet(c.lru) = {}, b \notin ToSet(c.lru),
         DOMAIN made = (InUse \cup {b}) \cup ToSet(c.lru), made \in [DOMAIN made -> Nat],
         made[b] = n, \A d \in InUse : made[d] = length[d]
  PROVE  Memory' /\ active' = active + n /\ cache'.size <= c.size
<1> USE DEF Memory
<1>1. PICK U : U = InUse
  OBVIOUS
<1>2. PICK l, l1, c1 : l = length /\ l1 = length' /\ c1 = cache'
  OBVIOUS
<1>3. PICK w, w1, v, v1 : w = wired /\ w1 = wired' /\ v = unwired /\ v1 = unwired'
  OBVIOUS
<1>4. /\ IsFiniteSet(U) /\ U \subseteq Buf /\ (\A d \in U : l[d] \in Nat)
      /\ active = SumFunctionOnSet(l, U) /\ SumFunctionOnSet(l, U) \in Nat
      /\ \A B \in SUBSET U : IsFiniteSet(B) /\ SumFunctionOnSet(l, B) \in Nat
  BY <1>1, <1>2, InUseFacts DEF Books, Sum
<1>5. Sound(c1, made) /\ ToSet(c1.lru) \subseteq ToSet(c.lru) /\ c1.size <= c.size
  <2>1. c1 = Trimmed(c)
    BY <1>2 DEF Got
  <2>2. Shrunk(c, c1, made)
    BY <2>1, TrimmedSound
  <2> QED  BY <2>2 DEF Shrunk
<1>6. /\ DOMAIN l1 = (U \cup {b}) \cup ToSet(c1.lru) /\ (U \cup {b}) \cap ToSet(c1.lru) = {}
      /\ DOMAIN l1 \in SUBSET Buf /\ IsFiniteSet(DOMAIN l1) /\ l1 \in [DOMAIN l1 -> Nat]
      /\ (\A d \in DOMAIN l1 : l1[d] = made[d]) /\ Sound(c1, l1)
  <2>1. Keep(made, c)
    BY DEF Got
  <2>2. ToSet(c.lru) \subseteq Buf /\ IsFiniteSet(ToSet(c.lru))
    BY SoundParts
  <2>3. DOMAIN made \in SUBSET Buf
    BY <1>1, <1>4, <2>2
  <2>4. IsFiniteSet(DOMAIN made)
    <3>1. IsFiniteSet(U \cup {b})
      BY <1>4, FS_AddElement
    <3>2. IsFiniteSet((U \cup {b}) \cup ToSet(c.lru))
      BY <2>2, <3>1, FS_Union
    <3> QED  BY <1>1, <3>2
  <2> QED  BY <1>1, <1>2, <1>5, <2>1, <2>3, <2>4, KeepFacts
<1>7. b \notin U /\ l1[b] = n /\ \A d \in U : l1[d] = l[d] /\ l1[d] \in Nat
  BY <1>1, <1>2, <1>4, <1>6
<1>8. \A B \in SUBSET U : SumFunctionOnSet(l1, B) = SumFunctionOnSet(l, B)
  BY <1>4, <1>7, SumSame
<1>9. SumFunctionOnSet(l1, U \cup {b}) = SumFunctionOnSet(l, U) + n
  <2>1. IsFiniteSet(U) /\ b \notin U /\ \A d \in U \cup {b} : l1[d] \in Nat
    BY <1>4, <1>7
  <2>2. SumFunctionOnSet(l1, U \cup {b}) = SumFunctionOnSet(l1, U) + l1[b]
    BY <2>1, SumAdd
  <2> QED  BY <1>7, <1>8, <2>2
<1>10. ASSUME NEW B \in SUBSET U PROVE b \notin B /\ SumFunctionOnSet(l1, B \cup {b}) = SumFunctionOnSet(l, B) + n
  <2>1. b \notin B /\ IsFiniteSet(B) /\ \A d \in B \cup {b} : l1[d] \in Nat
    BY <1>4, <1>7
  <2>2. SumFunctionOnSet(l1, B \cup {b}) = SumFunctionOnSet(l1, B) + l1[b]
    BY <2>1, SumAdd
  <2> QED  BY <1>7, <1>8, <2>1, <2>2
<1>11. active' = active + n
  BY DEF Got
<1>12. Books'
  <2>1. Sum(InUse)' = SumFunctionOnSet(l1, U \cup {b})
    BY <1>1, <1>2 DEF Sum
  <2> QED  BY <1>1, <1>2, <1>4, <1>6, <1>9, <1>11, <2>1 DEF Books
<1>13. wired' \subseteq Buf /\ unwired' \subseteq Buf /\ todo' \subseteq Buf /\ torn' = (torn \/ Moving)
  <2>1. Wire(b, n)
    BY DEF Got
  <2>2. wired \subseteq Buf /\ unwired \subseteq Buf /\ todo \subseteq Buf
    BY DEF MemoryType
  <2>3. wired' \subseteq wired \cup {b} /\ unwired' \subseteq unwired \cup {b} /\ torn' = (torn \/ Moving)
    BY <2>1 DEF Wire
  <2>4. todo' \subseteq todo \cup {b}
    BY <2>1 DEF Wire
  <2> QED  BY <2>2, <2>3, <2>4
<1>14. ASSUME ~torn'
       PROVE  /\ w1 \cup v1 = U \cup {b} /\ w1 \cap v1 = {}
              /\ resizing' = "no" => SumFunctionOnSet(l1, w1) <= capacity
              /\ resizing' \in {"no", "read"}
  <2>1. ~torn /\ resizing \in {"no", "read"} /\ resizing' = resizing
    BY <1>13, <1>14 DEF Moving, MemoryType
  <2>2. w \cup v = U /\ w \cap v = {} /\ (resizing = "no" => SumFunctionOnSet(l, w) <= capacity)
    BY <1>1, <1>2, <1>3, <2>1 DEF ResidentInv, Sum
  <2>3. Allocated(wired) = SumFunctionOnSet(l, w)
    <3>1. w \subseteq DOMAIN length
      BY <1>1, <2>2 DEF Books
    <3> QED  BY <1>2, <1>3, <3>1, AllocatedFacts DEF Sum
  <2>4. IF SumFunctionOnSet(l, w) + n <= capacity THEN w1 = w \cup {b} /\ v1 = v ELSE w1 = w /\ v1 = v \cup {b}
    <3>1. Wire(b, n)
      BY DEF Got
    <3> QED  BY <1>3, <2>3, <3>1 DEF Wire
  <2>5. /\ w \subseteq U /\ b \notin w /\ b \notin v /\ SumFunctionOnSet(l1, w) = SumFunctionOnSet(l, w)
        /\ SumFunctionOnSet(l1, w \cup {b}) = SumFunctionOnSet(l, w) + n
    BY <1>7, <1>8, <1>10, <2>2
  <2>6. CASE SumFunctionOnSet(l, w) + n <= capacity
    BY <2>1, <2>2, <2>4, <2>5, <2>6
  <2>7. CASE ~(SumFunctionOnSet(l, w) + n <= capacity)
    BY <2>1, <2>2, <2>4, <2>5, <2>7
  <2> QED  BY <2>6, <2>7
<1>15. ResidentInv'
  BY <1>1, <1>2, <1>3, <1>14 DEF ResidentInv, Sum
<1>16. MemoryType'
  <2>1. cache' \in [pool : Seq(Entry), lru : Seq(Buf), size : Nat]
    BY <1>2, <1>6 DEF Sound
  <2>2. active' \in Nat
    BY <1>4, <1>11
  <2> QED  BY <1>2, <1>6, <1>13, <2>1, <2>2 DEF MemoryType
<1> QED  BY <1>2, <1>5, <1>11, <1>12, <1>15, <1>16

LEMMA FreeMemory ==
  ASSUME Memory, maxPool \in Nat, capacity \in Nat, NEW b \in InUse, Free(b),
         InUse' = InUse \ {b}, UNCHANGED <<capacity, resizing, current>>
  PROVE  Memory' /\ active' + cache'.size <= active + cache.size
<1> USE DEF Memory
<1>1. PICK U : U = InUse
  OBVIOUS
<1>2. PICK l, l1, c, c1 : l = length /\ l1 = length' /\ c = cache /\ c1 = cache'
  OBVIOUS
<1>3. PICK w, w1, v, v1 : w = wired /\ w1 = wired' /\ v = unwired /\ v1 = unwired'
  OBVIOUS
<1>4. /\ IsFiniteSet(U) /\ U \subseteq Buf /\ (\A d \in U : l[d] \in Nat)
      /\ active = SumFunctionOnSet(l, U) /\ SumFunctionOnSet(l, U) \in Nat
      /\ \A B \in SUBSET U : IsFiniteSet(B) /\ SumFunctionOnSet(l, B) \in Nat
  BY <1>1, <1>2, InUseFacts DEF Books, Sum
<1>5. /\ Sound(c, l) /\ DOMAIN l = U \cup ToSet(c.lru) /\ U \cap ToSet(c.lru) = {}
      /\ DOMAIN l \in SUBSET Buf /\ IsFiniteSet(DOMAIN l) /\ l \in [DOMAIN l -> Nat] /\ c.size \in Nat
      /\ b \in U /\ b \in Buf /\ b \notin ToSet(c.lru)
  BY <1>1, <1>2, <1>4, SoundParts DEF Books, MemoryType
<1>6. SumFunctionOnSet(l, U) = l[b] + SumFunctionOnSet(l, U \ {b}) /\ SumFunctionOnSet(l, U \ {b}) \in Nat
  <2>1. IsFiniteSet(U \ {b})
    BY <1>4, FS_RemoveElement
  <2> QED  BY <1>4, <1>5, <2>1, SumRemove, SumNat
<1>7. active' = active - l[b] /\ active' = SumFunctionOnSet(l, U \ {b}) /\ active' + l[b] = active
  BY <1>2, <1>4, <1>5, <1>6 DEF Free
<1>8. /\ Sound(c1, l1) /\ DOMAIN l1 = (U \ {b}) \cup ToSet(c1.lru) /\ (U \ {b}) \cap ToSet(c1.lru) = {}
      /\ DOMAIN l1 \in SUBSET Buf /\ IsFiniteSet(DOMAIN l1) /\ l1 \in [DOMAIN l1 -> Nat]
      /\ (\A d \in U \ {b} : l1[d] = l[d]) /\ c1.size <= c.size + l[b]
  <2>1. CASE c.size < maxPool
    <3>1. c1 = Recycle(c, b, l[b]) /\ l1 = l
      BY <1>2, <2>1 DEF Free
    <3>2. Sound(c1, l) /\ ToSet(c1.lru) = ToSet(c.lru) \cup {b} /\ c1.size = c.size + l[b]
      <4>1. b \in Buf \ ToSet(c.lru) /\ l[b] \in Nat
        BY <1>4, <1>5
      <4>2. Sound(Recycle(c, b, l[b]), l)
        BY <1>5, <4>1, RecycleSound
      <4>3. ToSet(Recycle(c, b, l[b]).lru) = ToSet(c.lru) \cup {b}
        BY <1>5, <4>1, RecycleSound
      <4>4. Recycle(c, b, l[b]).size = c.size + l[b]
        BY <1>5, <4>1, RecycleSound
      <4> QED  BY <3>1, <4>2, <4>3, <4>4
    <3> QED  BY <1>4, <1>5, <3>1, <3>2
  <2>2. CASE ~(c.size < maxPool)
    <3>1. PICK S : S = DOMAIN l \ {b}
      OBVIOUS
    <3>2. c1 = c /\ l1 = [d \in S |-> l[d]]
      BY <1>2, <2>2, <3>1 DEF Free, Restrict
    <3>3. S \subseteq DOMAIN l /\ S = (U \ {b}) \cup ToSet(c.lru)
      BY <1>5, <3>1
    <3>4. DOMAIN l1 = S /\ (\A d \in S : l1[d] = l[d]) /\ l1 \in [S -> Nat]
      BY <1>5, <3>2, <3>3
    <3>5. IsFiniteSet(S)
      BY <1>5, <3>3, FS_Subset
    <3>6. Sound(c, l1)
      <4>1. \A d \in ToSet(c.lru) : l1[d] = l[d]
        BY <3>3, <3>4
      <4> QED  BY <1>5, <4>1, SoundSame
    <3> QED  BY <1>4, <1>5, <3>2, <3>3, <3>4, <3>5, <3>6
  <2> QED  BY <2>1, <2>2
<1>9. SumFunctionOnSet(l1, U \ {b}) = SumFunctionOnSet(l, U \ {b})
  <2>1. IsFiniteSet(U \ {b}) /\ \A d \in U \ {b} : l[d] \in Nat /\ l[d] = l1[d]
    BY <1>4, <1>8, FS_RemoveElement
  <2> QED  BY <2>1, SumSame
<1>10. Books'
  BY <1>1, <1>2, <1>7, <1>8, <1>9 DEF Books, Sum
<1>11. wired' \subseteq Buf /\ unwired' \subseteq Buf /\ todo' \subseteq Buf /\ torn' = (torn \/ Moving)
  <2>1. Unwire(b)
    BY DEF Free
  <2> QED  BY <2>1 DEF Unwire, MemoryType
<1>12. ASSUME ~torn'
       PROVE  /\ w1 \cup v1 = U \ {b} /\ w1 \cap v1 = {}
              /\ resizing' = "no" => SumFunctionOnSet(l1, w1) <= capacity
              /\ resizing' \in {"no", "read"}
  <2>1. ~torn /\ resizing \in {"no", "read"} /\ resizing' = resizing
    BY <1>11, <1>12 DEF Moving, MemoryType
  <2>2. w \cup v = U /\ w \cap v = {} /\ (resizing = "no" => SumFunctionOnSet(l, w) <= capacity)
    BY <1>1, <1>2, <1>3, <2>1 DEF ResidentInv, Sum
  <2>3. w1 = w \ {b} /\ v1 = v \ {b}
    <3>1. Unwire(b)
      BY DEF Free
    <3> QED  BY <1>3, <2>2, <3>1 DEF Unwire
  <2>4. IsFiniteSet(w1) /\ SumFunctionOnSet(l1, w1) = SumFunctionOnSet(l, w1) /\ SumFunctionOnSet(l, w1) \in Nat
    <3>1. IsFiniteSet(w1) /\ SumFunctionOnSet(l, w1) \in Nat /\ \A d \in w1 : l[d] \in Nat /\ l[d] = l1[d]
      BY <1>4, <1>8, <2>2, <2>3
    <3> QED  BY <3>1, SumSame
  <2>5. SumFunctionOnSet(l, w1) <= SumFunctionOnSet(l, w) /\ SumFunctionOnSet(l, w) \in Nat
    <3>1. IsFiniteSet(w) /\ (\A d \in w : l[d] \in Nat) /\ SumFunctionOnSet(l, w) \in Nat
      BY <1>4, <2>2
    <3>2. CASE b \in w
      <4>1. SumFunctionOnSet(l, w) = l[b] + SumFunctionOnSet(l, w1)
        BY <2>3, <3>1, <3>2, SumRemove
      <4> QED  BY <2>4, <3>1, <3>2, <4>1
    <3>3. CASE b \notin w
      <4>1. w1 = w
        BY <2>3, <3>3
      <4> QED  BY <3>1, <4>1
    <3> QED  BY <3>2, <3>3
  <2> QED  BY <2>1, <2>2, <2>3, <2>4, <2>5
<1>13. ResidentInv'
  BY <1>1, <1>2, <1>3, <1>12 DEF ResidentInv, Sum
<1>14. MemoryType'
  <2>1. cache' \in [pool : Seq(Entry), lru : Seq(Buf), size : Nat]
    BY <1>2, <1>8 DEF Sound
  <2>2. active' \in Nat
    BY <1>6, <1>7
  <2> QED  BY <1>2, <1>8, <1>11, <2>1, <2>2 DEF MemoryType
<1>15. active' + cache'.size <= active + cache.size
  <2>1. active' \in Nat /\ c1.size \in Nat /\ l[b] \in Nat
    BY <1>2, <1>4, <1>5, <1>14 DEF MemoryType
  <2> QED  BY <1>2, <1>5, <1>7, <1>8, <2>1
<1> QED  BY <1>10, <1>13, <1>14, <1>15

\* The cache changes, and what leaves it is released.
LEMMA CacheMemory ==
  ASSUME Memory, InUse' = InUse, UNCHANGED <<capacity, resizing, current>>, UNCHANGED <<active, residency>>,
         DOMAIN length' = InUse \cup ToSet(cache'.lru), InUse \cap ToSet(cache'.lru) = {},
         DOMAIN length' \in SUBSET Buf, IsFiniteSet(DOMAIN length'), length' \in [DOMAIN length' -> Nat],
         \A d \in InUse : length'[d] = length[d], Sound(cache', length')
  PROVE  Memory'
<1> USE DEF Memory
<1>1. PICK U : U = InUse
  OBVIOUS
<1>2. PICK l, l1 : l = length /\ l1 = length'
  OBVIOUS
<1>3. /\ active = SumFunctionOnSet(l, U)
      /\ \A B \in SUBSET U : IsFiniteSet(B) /\ \A d \in B : l[d] \in Nat /\ l[d] = l1[d]
  BY <1>1, <1>2, InUseFacts DEF Books, Sum
<1>4. \A B \in SUBSET U : SumFunctionOnSet(l1, B) = SumFunctionOnSet(l, B)
  BY <1>3, SumSame
<1>5. UNCHANGED <<wired, unwired, todo, torn>>
  BY DEF residency
<1>6. Books'
  BY <1>1, <1>2, <1>3, <1>4 DEF Books, Sum
<1>7. ResidentInv'
  <2>1. ~torn => wired \in SUBSET U
    BY <1>1 DEF ResidentInv
  <2>2. ~torn => Sum(wired)' = Sum(wired)
    BY <1>2, <1>4, <1>5, <2>1 DEF Sum
  <2> QED  BY <1>5, <2>2 DEF ResidentInv
<1>8. MemoryType'
  BY <1>5 DEF MemoryType, Sound
<1> QED  BY <1>6, <1>7, <1>8
-----------------------------------------------------------------------------
(* Threads and the limit. *)

LEMMA RoomFacts ==
  /\ Largest \in Nat /\ (\A x \in Sizes : x \in Nat /\ x <= Largest)
  /\ IsFiniteSet(Thread) /\ Cardinality(Thread) \in Nat /\ Cardinality(Thread) >= 1
  /\ Room \in Int /\ 0 < Limit /\ Limit \in Nat /\ Limit <= Room
<1>1. Sizes \subseteq Nat /\ IsFiniteSet(Sizes) /\ Sizes # {} /\ IsFiniteSet(Thread) /\ Thread # {}
      /\ Limit \in Nat /\ 0 < Limit
  BY AllocatorAssumption DEF AllocatorAssumption
<1>2. Largest \in Sizes /\ \A x \in Sizes : Largest >= x
  <2>1. \E m \in Sizes : \A x \in Sizes : x <= m
    BY <1>1, FiniteGreatest
  <2>2. \E m \in Sizes : \A x \in Sizes : m >= x
    BY <1>1, <2>1
  <2> QED  BY <2>2 DEF Largest, Max
<1>3. Cardinality(Thread) \in Nat /\ Cardinality(Thread) >= 1
  BY <1>1, FS_CardinalityType, FS_EmptySet
<1>4. (Cardinality(Thread) - 1) * Largest \in Nat
  BY <1>1, <1>2, <1>3
<1>5. Room \in Int /\ Limit <= Room
  BY <1>1, <1>4 DEF Room
<1> QED  BY <1>1, <1>2, <1>3, <1>5

LEMMA AskingFacts ==
  ASSUME TypeOK
  PROVE  /\ IsFiniteSet(Asking) /\ Cardinality(Asking) \in Nat /\ Cardinality(Asking) <= Cardinality(Thread)
         /\ Cardinality(Asking) * Largest \in Int /\ (Cardinality(Asking) - 1) * Largest \in Int
         /\ active \in Nat /\ cache.size \in Nat /\ \A u \in Thread : size[u] \in Nat
<1>1. IsFiniteSet(Asking) /\ Cardinality(Asking) \in Nat /\ Cardinality(Asking) <= Cardinality(Thread)
  BY RoomFacts, FS_Subset, FS_CardinalityType DEF Asking
<1>2. Cardinality(Asking) * Largest \in Int /\ (Cardinality(Asking) - 1) * Largest \in Int
  BY <1>1, RoomFacts
<1>3. active \in Nat /\ cache.size \in Nat /\ \A u \in Thread : size[u] \in Nat
  BY RoomFacts DEF TypeOK, MemoryType, ThreadType
<1> QED  BY <1>1, <1>2, <1>3

LEMMA StillBounded ==
  ASSUME TypeOK, TypeOK', Bounded, relaxed' = relaxed, Asking' = Asking,
         \A u \in Asking : size'[u] = size[u], active' + cache'.size <= active + cache.size
  PROVE  Bounded'
<1>1. PICK A : A = Asking
  OBVIOUS
<1>2. PICK x : x = (Cardinality(A) - 1) * Largest
  OBVIOUS
<1>3. x \in Int /\ active \in Nat /\ cache.size \in Nat /\ \A u \in Thread : size[u] \in Nat
  BY <1>1, <1>2, AskingFacts
<1>4. active' \in Nat /\ cache'.size \in Nat
  BY DEF TypeOK, MemoryType
<1>5. PICK r \in Int : r = Room
  BY RoomFacts
<1>6. A \subseteq Thread
  BY <1>1 DEF Asking
<1>7. ~relaxed => IF A = {} THEN active + cache.size < r
                  ELSE \E u \in A : active + cache.size + size[u] + x < r
  BY <1>1, <1>2, <1>5 DEF Bounded
<1>8. ~relaxed => IF A = {} THEN active' + cache'.size < r
                  ELSE \E u \in A : active' + cache'.size + size'[u] + x < r
  <2>1. CASE A = {}
    BY <1>3, <1>4, <1>7, <2>1
  <2>2. ASSUME ~relaxed, A # {} PROVE \E u \in A : active' + cache'.size + size'[u] + x < r
    <3>1. PICK u \in A : active + cache.size + size[u] + x < r
      BY <1>7, <2>2
    <3>2. size'[u] = size[u] /\ size[u] \in Nat
      BY <1>1, <1>3, <1>6
    <3>3. active' + cache'.size + size'[u] + x < r
      BY <1>3, <1>4, <3>1, <3>2
    <3> QED  BY <3>3
  <2> QED  BY <2>1, <2>2
<1> QED  BY <1>1, <1>2, <1>5, <1>8 DEF Bounded, Room

LEMMA ThreadMoves ==
  ASSUME TypeOK, Owners, UNCHANGED <<held, inflight, handled, buf>>,
         NEW t \in Thread, NEW p \in Places \ {"got"}, pc[t] # "got", Goto(t, p),
         size'[t] \in Sizes \/ p \in {"idle", "error"}, \A u \in Thread \ {t} : size'[u] = size[u]
  PROVE  Owners' /\ InUse' = InUse
<1>1. \A u \in Thread : pc'[u] = IF u = t THEN p ELSE pc[u]
  BY DEF TypeOK, ThreadType, Goto
<1>2. InUse' = InUse /\ Captured' = Captured
  BY DEF InUse, Captured
<1>3. \A u \in Thread : buf'[u] # NoBuf <=> pc'[u] = "got"
  BY <1>1 DEF Owners
<1>4. \A u \in Thread : pc'[u] \in {"malloc", "new", "check", "wait", "asleep"} => size'[u] \in Sizes
  BY <1>1 DEF Owners
<1> QED  BY <1>2, <1>3, <1>4 DEF Owners

LEMMA NobodyAsks ==
  ASSUME TypeOK, NEW t \in Thread, pc[t] # "new", NEW p \in Places \ {"new"}, Goto(t, p)
  PROVE  Asking' = Asking /\ t \notin Asking
BY DEF TypeOK, ThreadType, Goto, Asking
-----------------------------------------------------------------------------
(* Each step preserves the invariant. *)

\* A thread moves on, and memory is as it was.
LEMMA MoveStep ==
  ASSUME IInv, TypeOK', UNCHANGED memory, UNCHANGED <<capacity, resizing, current>>, relaxed' = relaxed,
         UNCHANGED <<held, inflight, handled, buf>>,
         NEW t \in Thread, NEW p \in Places \ {"got", "new"}, pc[t] \notin {"got", "new"}, Goto(t, p),
         size'[t] \in Sizes \/ p \in {"idle", "error"}, \A u \in Thread \ {t} : size'[u] = size[u]
  PROVE  IInv'
<1>1. Owners' /\ InUse' = InUse
  BY ThreadMoves DEF IInv
<1>2. Memory' /\ active' + cache'.size = active + cache.size
  <2>1. Memory
    BY DEF IInv, TypeOK, Memory
  <2> QED  BY <1>1, <2>1, MemoryUnchanged
<1>3. Asking' = Asking /\ t \notin Asking
  BY NobodyAsks DEF IInv
<1>4. \A u \in Asking : size'[u] = size[u]
  BY <1>3 DEF Asking
<1>5. active' + cache'.size <= active + cache.size
  BY <1>2, AskingFacts DEF IInv
<1>6. Bounded'
  BY <1>3, <1>4, <1>5, StillBounded DEF IInv
<1> QED  BY <1>1, <1>2, <1>6 DEF IInv, Memory

LEMMA BeginStep == ASSUME IInv, NEW t \in Thread, Begin(t) PROVE IInv'
<1>1. PICK x \in Sizes : size' = [size EXCEPT ![t] = x]
  BY DEF Begin
<1>2. TypeOK'
  <2>1. MemoryType'
    BY DEF IInv, TypeOK, MemoryType, Begin, memory, residency, limits
  <2>2. ThreadType'
    BY <1>1 DEF IInv, TypeOK, ThreadType, Begin, Goto, Places
  <2> QED  BY <2>1, <2>2 DEF IInv, TypeOK, Begin, limits, gpu
<1>3. size'[t] \in Sizes /\ \A u \in Thread \ {t} : size'[u] = size[u]
  BY <1>1 DEF IInv, TypeOK, ThreadType
<1> QED  BY <1>2, <1>3, MoveStep DEF Begin, At, Places, limits, gpu

LEMMA CheckStep == ASSUME IInv, NEW t \in Thread, Check(t) PROVE IInv'
<1>1. TypeOK'
  <2>1. MemoryType'
    BY DEF IInv, TypeOK, MemoryType, Check, memory, residency, limits
  <2>2. ThreadType'
    BY DEF IInv, TypeOK, ThreadType, Check, Goto, Places
  <2> QED  BY <2>1, <2>2 DEF IInv, TypeOK, Check, limits, gpu
<1>2. size'[t] \in Sizes /\ \A u \in Thread \ {t} : size'[u] = size[u]
  BY DEF IInv, Owners, Check, At
<1>3. CASE SomeActive
  BY <1>1, <1>2, <1>3, MoveStep DEF Check, At, Places, limits, gpu
<1>4. CASE ~SomeActive
  BY <1>1, <1>2, <1>4, MoveStep DEF Check, At, Places, limits, gpu
<1> QED  BY <1>3, <1>4

LEMMA WaitStep == ASSUME IInv, NEW t \in Thread, WaitForOne(t) PROVE IInv'
<1>1. TypeOK'
  <2>1. MemoryType'
    BY DEF IInv, TypeOK, MemoryType, WaitForOne, memory, residency, limits
  <2>2. ThreadType'
    BY DEF IInv, TypeOK, ThreadType, WaitForOne, Goto, Places
  <2> QED  BY <2>1, <2>2 DEF IInv, TypeOK, WaitForOne, limits, gpu
<1>2. size'[t] \in Sizes /\ \A u \in Thread \ {t} : size'[u] = size[u]
  BY DEF IInv, Owners, WaitForOne, At
<1>3. CASE n_active > 1
  BY <1>1, <1>2, <1>3, MoveStep DEF WaitForOne, At, Places, limits, gpu
<1>4. CASE ~(n_active > 1)
  BY <1>1, <1>2, <1>4, MoveStep DEF WaitForOne, At, Places, limits, gpu
<1> QED  BY <1>3, <1>4

LEMMA WakeStep == ASSUME IInv, NEW t \in Thread, Wake(t) PROVE IInv'
<1>1. TypeOK'
  <2>1. MemoryType'
    BY DEF IInv, TypeOK, MemoryType, Wake, memory, residency, limits
  <2>2. ThreadType'
    BY DEF IInv, TypeOK, ThreadType, Wake, Goto, Places
  <2> QED  BY <2>1, <2>2 DEF IInv, TypeOK, Wake, limits, gpu
<1>2. size'[t] \in Sizes /\ \A u \in Thread \ {t} : size'[u] = size[u]
  BY DEF IInv, Owners, Wake, At
<1> QED  BY <1>1, <1>2, MoveStep DEF Wake, At, Places, limits, gpu

LEMMA BlockedStep == ASSUME IInv, NEW t \in Thread, MallocBlocked(t) PROVE IInv'
<1>1. PICK r : r = Reuse(cache, size[t])
  OBVIOUS
<1>2. PICK p : p = IF swap[t] THEN "error" ELSE "check"
  OBVIOUS
<1>3. p \in Places \ {"got", "new"} /\ Goto(t, p) /\ pc[t] = "malloc" /\ r.buf = NoBuf /\ cache' = r.cache
  BY <1>1, <1>2 DEF MallocBlocked, At, Places
<1>4. size[t] \in Sizes /\ size' = size
  BY <1>3 DEF IInv, Owners, MallocBlocked
<1>5. Owners' /\ InUse' = InUse
  BY <1>3, <1>4, ThreadMoves DEF IInv, MallocBlocked, gpu
<1>6. Sound(cache', length) /\ ToSet(cache'.lru) = ToSet(cache.lru) /\ cache'.size = cache.size
  <2>1. size[t] \in Nat /\ Sound(cache, length)
    BY <1>4, RoomFacts DEF IInv, Books
  <2> QED  BY <1>1, <1>3, <2>1, ReuseSound
<1>7. Memory /\ length' = length /\ UNCHANGED <<active, residency>> /\ UNCHANGED <<capacity, resizing, current>>
  BY DEF IInv, TypeOK, Memory, MallocBlocked, limits
<1>8. Memory'
  <2>1. /\ DOMAIN length' = InUse \cup ToSet(cache'.lru) /\ InUse \cap ToSet(cache'.lru) = {}
        /\ DOMAIN length' \in SUBSET Buf /\ IsFiniteSet(DOMAIN length') /\ length' \in [DOMAIN length' -> Nat]
        /\ (\A d \in InUse : length'[d] = length[d]) /\ Sound(cache', length')
    BY <1>6, <1>7 DEF Memory, Books, MemoryType
  <2> QED  BY <1>5, <1>7, <2>1, CacheMemory
<1>9. TypeOK'
  <2>1. ThreadType'
    BY <1>3 DEF IInv, TypeOK, ThreadType, MallocBlocked, Goto
  <2> QED  BY <1>8, <2>1 DEF IInv, TypeOK, Memory, MallocBlocked, limits, gpu
<1>10. Bounded'
  <2>1. Asking' = Asking /\ \A u \in Asking : size'[u] = size[u]
    BY <1>3, <1>4, NobodyAsks DEF IInv
  <2>2. active' + cache'.size <= active + cache.size
    BY <1>6, <1>7, AskingFacts DEF IInv
  <2> QED  BY <1>9, <2>1, <2>2, StillBounded DEF IInv, MallocBlocked, limits
<1> QED  BY <1>5, <1>8, <1>9, <1>10 DEF IInv, Memory

LEMMA NewStep == ASSUME IInv, NEW t \in Thread, MallocNew(t) PROVE IInv'
<1>1. PICK r : r = Reuse(cache, size[t])
  OBVIOUS
<1>2. /\ Goto(t, "new") /\ pc[t] = "malloc" /\ r.buf = NoBuf /\ ~Blocked(t)
      /\ cache' = IF Required(t) >= GcLimit THEN Release(r.cache, Required(t) - GcLimit) ELSE r.cache
      /\ Keep(length, cache) /\ UNCHANGED <<active, residency>>
  BY <1>1 DEF MallocNew, At
<1>3. size[t] \in Sizes /\ size[t] \in Nat /\ size' = size
  BY <1>2, RoomFacts DEF IInv, Owners, MallocNew
<1>4. Owners' /\ InUse' = InUse
  BY <1>2, <1>3, ThreadMoves DEF IInv, MallocNew, gpu, Places
<1>5. /\ Memory /\ UNCHANGED <<capacity, resizing, current>> /\ active \in Nat /\ cache.size \in Nat /\ Sound(cache, length)
      /\ Required(t) = active + cache.size + size[t] /\ Required(t) \in Nat
  <2>1. Memory /\ active \in Nat /\ cache.size \in Nat /\ Sound(cache, length)
    BY DEF IInv, TypeOK, Memory, MemoryType, Books
  <2>2. UNCHANGED <<capacity, resizing, current>>
    BY DEF MallocNew, limits
  <2>3. Required(t) = active + cache.size + size[t]
    BY DEF Required
  <2> QED  BY <1>3, <2>1, <2>2, <2>3
<1>6. Sound(r.cache, length) /\ ToSet(r.cache.lru) = ToSet(cache.lru) /\ r.cache.size = cache.size
  BY <1>1, <1>2, <1>3, <1>5, ReuseSound
<1>7. Sound(cache', length) /\ ToSet(cache'.lru) \subseteq ToSet(cache.lru) /\ cache'.size <= cache.size
  <2>1. CASE Required(t) >= GcLimit
    <3>1. Required(t) - GcLimit \in Nat
      BY <1>5, <2>1, AllocatorAssumption DEF AllocatorAssumption
    <3>2. PICK c : c = r.cache
      OBVIOUS
    <3>3. cache' = Release(c, Required(t) - GcLimit)
      BY <1>2, <2>1, <3>2
    <3>4. Sound(c, length) /\ ToSet(c.lru) = ToSet(cache.lru) /\ c.size = cache.size
      BY <1>6, <3>2
    <3>5. Shrunk(c, cache', length)
      BY <3>1, <3>3, <3>4, ReleaseSound
    <3> QED  BY <3>4, <3>5 DEF Shrunk
  <2>2. CASE ~(Required(t) >= GcLimit)
    BY <1>2, <1>5, <1>6, <2>2
  <2> QED  BY <2>1, <2>2
<1>8. Memory'
  <2>1. /\ InUse \cap ToSet(cache.lru) = {} /\ DOMAIN length = InUse \cup ToSet(cache.lru)
        /\ DOMAIN length \in SUBSET Buf /\ IsFiniteSet(DOMAIN length) /\ length \in [DOMAIN length -> Nat]
    BY <1>5 DEF Memory, Books, MemoryType
  <2>2. /\ DOMAIN length' = InUse \cup ToSet(cache'.lru) /\ InUse \cap ToSet(cache'.lru) = {}
        /\ DOMAIN length' \in SUBSET Buf /\ IsFiniteSet(DOMAIN length') /\ length' \in [DOMAIN length' -> Nat]
        /\ (\A d \in DOMAIN length' : length'[d] = length[d]) /\ Sound(cache', length')
    BY <1>2, <1>7, <2>1, KeepFacts
  <2> QED  BY <1>2, <1>4, <1>5, <2>2, CacheMemory
<1>9. TypeOK'
  <2>1. ThreadType'
    BY <1>2 DEF IInv, TypeOK, ThreadType, MallocNew, Goto, Places
  <2> QED  BY <1>8, <2>1 DEF IInv, TypeOK, Memory, MallocNew, limits, gpu
<1>10. Bounded'
  <2> SUFFICES ASSUME ~relaxed
               PROVE  active' + cache'.size + size'[t] + (Cardinality(Asking') - 1) * Largest < Room /\ t \in Asking'
    BY DEF Bounded, Room, MallocNew, limits
  <2>1. t \in Asking'
    BY <1>2 DEF IInv, TypeOK, ThreadType, Goto, Asking
  <2>2. active + cache.size + size[t] < Limit
    BY <1>2, <1>5, RoomFacts DEF Blocked
  <2>3. PICK n \in Nat, m \in Nat : n = Cardinality(Asking') /\ m = Cardinality(Thread) /\ n <= m
    <3>1. Asking' \subseteq Thread
      BY DEF Asking
    <3> QED  BY <3>1, RoomFacts, FS_Subset, FS_CardinalityType
  <2>4. (n - 1) * Largest <= (m - 1) * Largest /\ (n - 1) * Largest \in Int /\ (m - 1) * Largest \in Int
    <3>1. (m - n) * Largest \in Nat /\ (m - 1) * Largest = (n - 1) * Largest + (m - n) * Largest
      BY <2>3, RoomFacts
    <3> QED  BY <2>3, <3>1, RoomFacts
  <2>5. Room = Limit + (m - 1) * Largest
    BY <2>3 DEF Room
  <2>6. active' = active /\ size'[t] = size[t] /\ cache'.size \in Nat
    BY <1>2, <1>3, <1>9 DEF TypeOK, MemoryType
  <2> QED  BY <1>3, <1>5, <1>7, <2>1, <2>2, <2>3, <2>4, <2>5, <2>6, RoomFacts
<1> QED  BY <1>4, <1>8, <1>9, <1>10 DEF IInv, Memory

LEMMA GotOwners ==
  ASSUME TypeOK, Owners, NEW t \in Thread, pc[t] \in {"malloc", "new"}, NEW b \in Buf \ InUse, Goto(t, "got"),
         buf' = [buf EXCEPT ![t] = b], UNCHANGED <<held, inflight, handled, size, swap, old>>
  PROVE  Owners' /\ InUse' = InUse \cup {b} /\ ThreadType'
<1>1. \A u \in Thread : pc'[u] = IF u = t THEN "got" ELSE pc[u]
  BY DEF TypeOK, ThreadType, Goto
<1>2. \A u \in Thread : buf'[u] = IF u = t THEN b ELSE buf[u]
  BY DEF TypeOK, ThreadType
<1>3. buf[t] = NoBuf /\ b # NoBuf /\ b \in Buf
  BY AllocatorAssumption DEF AllocatorAssumption, Owners
<1>4. Captured' = Captured /\ held' = held
  BY DEF Captured
<1>5. {buf'[u] : u \in Thread} \ {NoBuf} = ({buf[u] : u \in Thread} \ {NoBuf}) \cup {b}
  <2>1. ASSUME NEW u \in Thread, buf'[u] # NoBuf PROVE buf'[u] \in ({buf[v] : v \in Thread} \ {NoBuf}) \cup {b}
    BY <1>2, <2>1
  <2>2. ASSUME NEW u \in Thread, buf[u] # NoBuf PROVE buf[u] \in {buf'[v] : v \in Thread} \ {NoBuf}
    <3>1. u # t /\ buf'[u] = buf[u]
      BY <1>2, <1>3, <2>2
    <3> QED  BY <2>2, <3>1
  <2>3. b \in {buf'[v] : v \in Thread} \ {NoBuf}
    <3>1. buf'[t] = b
      BY <1>2
    <3> QED  BY <1>3, <3>1
  <2> QED  BY <2>1, <2>2, <2>3
<1>6. InUse' = InUse \cup {b}
  BY <1>4, <1>5 DEF InUse
<1>7. b \notin held \cup Captured /\ \A u \in Thread : buf[u] # b
  BY <1>3 DEF InUse
<1>8. Owners'
  <2>1. \A u \in Thread : buf'[u] # NoBuf <=> pc'[u] = "got"
    BY <1>1, <1>2, <1>3 DEF Owners
  <2>2. \A u \in Thread : buf'[u] # NoBuf => buf'[u] \notin held' \cup Captured'
    BY <1>2, <1>4, <1>7 DEF Owners
  <2>3. \A u, v \in Thread : buf'[u] = buf'[v] /\ buf'[u] # NoBuf => u = v
    BY <1>2, <1>7 DEF Owners
  <2>4. \A u \in Thread : pc'[u] \in {"malloc", "new", "check", "wait", "asleep"} => size'[u] \in Sizes
    BY <1>1 DEF Owners
  <2> QED  BY <2>1, <2>2, <2>3, <2>4 DEF Owners
<1>9. ThreadType'
  BY <1>3 DEF TypeOK, ThreadType, Goto, Places
<1> QED  BY <1>6, <1>8, <1>9

LEMMA CachedStep == ASSUME IInv, NEW t \in Thread, MallocCached(t) PROVE IInv'
<1>1. PICK r : r = Reuse(cache, size[t])
  OBVIOUS
<1>2. PICK b : b = r.buf
  OBVIOUS
<1>3. PICK l : l = length
  OBVIOUS
<1>4. PICK c : c = r.cache
  OBVIOUS
<1>5. b # NoBuf /\ Got(t, b, l[b], l, c) /\ pc[t] = "malloc"
  BY <1>1, <1>2, <1>3, <1>4 DEF MallocCached, At
<1>6. size[t] \in Nat
  BY <1>5, RoomFacts DEF IInv, Owners
<1>7. /\ Memory /\ Sound(cache, l) /\ DOMAIN l = InUse \cup ToSet(cache.lru) /\ InUse \cap ToSet(cache.lru) = {}
      /\ DOMAIN l \in SUBSET Buf /\ l \in [DOMAIN l -> Nat] /\ maxPool \in Nat /\ capacity \in Nat
      /\ cache.size \in Nat
  BY <1>3 DEF IInv, TypeOK, Memory, MemoryType, Books
<1>8. /\ b \in ToSet(cache.lru) /\ Sound(c, l) /\ ToSet(c.lru) = ToSet(cache.lru) \ {b}
      /\ cache.size = l[b] + c.size
  <2>1. r.buf # NoBuf
    BY <1>2, <1>5
  <2>2. Sound(cache, l)
    BY <1>7
  <2>3. Taken(cache, r.buf, r.cache, l)
    BY <1>1, <1>6, <2>1, <2>2, ReuseSound
  <2> QED  BY <1>2, <1>4, <2>3 DEF Taken
<1>9. b \in Buf \ InUse /\ l[b] \in Nat /\ b \notin ToSet(c.lru) /\ InUse \cap ToSet(c.lru) = {}
      /\ DOMAIN l = (InUse \cup {b}) \cup ToSet(c.lru)
  BY <1>7, <1>8
<1>10. c.size \in Nat
  BY <1>8, SoundParts
<1>11. Owners' /\ InUse' = InUse \cup {b} /\ ThreadType'
  BY <1>5, <1>9, GotOwners DEF IInv, Got, MallocCached, gpu
<1>12. Memory' /\ active' = active + l[b] /\ cache'.size <= c.size
  <2>1. UNCHANGED <<capacity, resizing, current>> /\ \A d \in InUse : l[d] = length[d]
    BY <1>3 DEF MallocCached, limits
  <2> QED  BY <1>5, <1>7, <1>8, <1>9, <1>11, <2>1, GotMemory
<1>13. TypeOK'
  BY <1>11, <1>12 DEF IInv, TypeOK, Memory, MallocCached, limits, gpu
<1>14. Bounded'
  <2>1. Asking' = Asking
    BY <1>5, NobodyAsks DEF IInv, Got, Places
  <2>2. active' + cache'.size <= active + cache.size
    <3>1. active \in Nat /\ cache'.size \in Nat
      BY <1>7, <1>12 DEF Memory, MemoryType
    <3> QED  BY <1>7, <1>8, <1>9, <1>10, <1>12, <3>1
  <2> QED  BY <1>13, <2>1, <2>2, StillBounded DEF IInv, MallocCached, limits
<1> QED  BY <1>11, <1>12, <1>13, <1>14 DEF IInv, Memory

LEMMA MadeStep == ASSUME IInv, NEW t \in Thread, MallocMade(t) PROVE IInv'
<1>1. PICK b : b = Min(Buf \ DOMAIN length)
  OBVIOUS
<1>2. PICK made : made = [d \in DOMAIN length \cup {b} |-> IF d = b THEN size[t] ELSE length[d]]
  OBVIOUS
<1>3. PICK n : n = size[t]
  OBVIOUS
<1>4. PICK c : c = cache
  OBVIOUS
<1>5. Got(t, b, n, made, c) /\ pc[t] = "new" /\ Buf \ DOMAIN length # {}
  BY <1>1, <1>2, <1>3, <1>4 DEF MallocMade, At
<1>6. n \in Sizes /\ n \in Nat /\ n <= Largest
  BY <1>3, <1>5, RoomFacts DEF IInv, Owners
<1>7. /\ Memory /\ Sound(c, length) /\ DOMAIN length = InUse \cup ToSet(c.lru) /\ InUse \cap ToSet(c.lru) = {}
      /\ DOMAIN length \in SUBSET Buf /\ length \in [DOMAIN length -> Nat] /\ maxPool \in Nat /\ capacity \in Nat
      /\ c.size \in Nat
  BY <1>4 DEF IInv, TypeOK, Memory, MemoryType, Books
<1>8. b \in Buf \ DOMAIN length
  <2>1. PICK F : F = Buf \ DOMAIN length
    OBVIOUS
  <2>2. F \subseteq Nat /\ F # {}
    BY <1>5, <2>1, AllocatorAssumption DEF AllocatorAssumption
  <2>3. \E m \in F : \A k \in F : m <= k
    BY <2>2, LeastOf
  <2>4. b \in F
    BY <1>1, <2>1, <2>3 DEF Min
  <2> QED  BY <2>1, <2>4
<1>9. /\ b \in Buf \ InUse /\ b \notin ToSet(c.lru) /\ made[b] = n /\ (\A d \in InUse : made[d] = length[d])
      /\ (\A d \in ToSet(c.lru) : made[d] = length[d])
      /\ DOMAIN made = (InUse \cup {b}) \cup ToSet(c.lru)
  BY <1>2, <1>3, <1>7, <1>8
<1>10. made \in [DOMAIN made -> Nat]
  BY <1>2, <1>3, <1>6, <1>7
<1>11. Sound(c, made)
  BY <1>7, <1>9, SoundSame
<1>12. Owners' /\ InUse' = InUse \cup {b} /\ ThreadType'
  BY <1>5, <1>9, GotOwners DEF IInv, Got, MallocMade, gpu
<1>13. Memory' /\ active' = active + n /\ cache'.size <= c.size
  <2>1. UNCHANGED <<capacity, resizing, current>>
    BY DEF MallocMade, limits
  <2> QED  BY <1>5, <1>6, <1>7, <1>9, <1>10, <1>11, <1>12, <2>1, GotMemory
<1>14. TypeOK'
  BY <1>12, <1>13 DEF IInv, TypeOK, Memory, MallocMade, limits, gpu
<1>15. Bounded'
  <2>1. PICK A, A1 : A = Asking /\ A1 = Asking'
    OBVIOUS
  <2>2. A1 = A \ {t} /\ t \in A /\ A \subseteq Thread
    BY <1>5, <2>1 DEF IInv, TypeOK, ThreadType, Got, Goto, Asking
  <2>3. IsFiniteSet(A) /\ Cardinality(A) \in Nat
    BY <2>1, AskingFacts DEF IInv
  <2>4. Cardinality(A1) = Cardinality(A) - 1 /\ IsFiniteSet(A1) /\ Cardinality(A1) \in Nat
    BY <2>2, <2>3, FS_RemoveElement, FS_CardinalityType
  <2>5. PICK k \in Nat : k = Cardinality(A1)
    BY <2>4
  <2>6. PICK x \in Int, y \in Int : x = k * Largest /\ y = (k - 1) * Largest /\ x = y + Largest
    <3>1. k * Largest \in Int /\ (k - 1) * Largest \in Int /\ k * Largest = (k - 1) * Largest + Largest
      BY RoomFacts
    <3> QED  BY <3>1
  <2>7. Cardinality(A) - 1 = k
    BY <2>3, <2>4, <2>5
  <2>8. PICK r \in Int : r = Room
    BY RoomFacts
  <2>9. PICK a \in Nat, a1 \in Nat, s1 \in Nat : a = active /\ a1 = active' /\ s1 = cache'.size
    BY <1>7, <1>13 DEF Memory, MemoryType
  <2>10. a1 = a + n /\ s1 <= c.size /\ c.size \in Nat
    BY <1>7, <1>13, <2>9
  <2>11. \A u \in Thread : size'[u] = size[u] /\ size[u] \in Nat
    BY AskingFacts DEF IInv, MallocMade
  <2> SUFFICES ASSUME ~relaxed
               PROVE  IF A1 = {} THEN a1 + s1 < r ELSE \E u \in A1 : a1 + s1 + size'[u] + y < r
    BY <2>1, <2>5, <2>6, <2>8, <2>9 DEF Bounded, Room, MallocMade, limits
  <2>12. PICK v \in A : a + c.size + size[v] + x < r
    BY <1>4, <2>1, <2>2, <2>6, <2>7, <2>8, <2>9 DEF IInv, Bounded
  <2>13. CASE A1 = {}
    <3>1. v = t /\ k = 0
      BY <2>2, <2>4, <2>5, <2>13, FS_EmptySet
    <3>2. x = 0
      BY <2>6, <3>1, RoomFacts
    <3> QED  BY <1>3, <1>6, <2>10, <2>12, <2>13, <3>1, <3>2
  <2>14. CASE A1 # {}
    <3>1. PICK u \in A1 : (v # t => u = v)
      BY <2>2, <2>14
    <3>2. u \in Thread /\ size[u] \in Nat /\ size[u] <= Largest /\ v \in Thread /\ size[v] \in Nat
      <4>1. u \in Thread /\ v \in Thread /\ pc[u] = "new"
        BY <2>1, <2>2, <3>1 DEF Asking
      <4>2. size[u] \in Sizes
        BY <4>1 DEF IInv, Owners
      <4> QED  BY <2>11, <4>1, <4>2, RoomFacts
    <3>3. CASE v = t
      <4>1. a1 + s1 + size[u] + y < r
        BY <1>3, <1>6, <2>6, <2>10, <2>12, <3>2, <3>3, RoomFacts
      <4> QED  BY <2>11, <2>14, <3>1, <3>2, <4>1
    <3>4. CASE v # t
      <4>1. a1 + s1 + size[u] + y < r
        BY <1>6, <2>6, <2>10, <2>12, <3>1, <3>2, <3>4, RoomFacts
      <4> QED  BY <2>11, <2>14, <3>1, <3>2, <4>1
    <3> QED  BY <3>3, <3>4
  <2> QED  BY <2>13, <2>14
<1> QED  BY <1>12, <1>13, <1>14, <1>15 DEF IInv, Memory

\* A queue of sets, one more at its end or one less at its front.
LEMMA QueuePut ==
  ASSUME NEW q \in Seq(SUBSET Buf), NEW X \in SUBSET Buf
  PROVE  LET p == Append(q, X)
         IN  /\ p \in Seq(SUBSET Buf) /\ UNION ToSet(p) = (UNION ToSet(q)) \cup X
             /\ \A j \in DOMAIN p : p[j] = X \/ (j \in DOMAIN q /\ p[j] = q[j])
             /\ \A j \in DOMAIN p : j \notin DOMAIN q => j = Len(q) + 1 /\ p[j] = X
<1>1. PICK p : p = Append(q, X)
  OBVIOUS
<1>2. PICK N \in Nat : N = Len(q) /\ DOMAIN q = 1 .. N
  BY LenProperties
<1>3. /\ p \in Seq(SUBSET Buf) /\ DOMAIN p = 1 .. N + 1 /\ p[N + 1] = X
      /\ \A j \in 1 .. N : p[j] = q[j]
  BY <1>1, <1>2, AppendProperties, LenProperties
<1>4. ASSUME NEW d PROVE d \in UNION ToSet(p) <=> d \in (UNION ToSet(q)) \cup X
  <2>1. d \in UNION ToSet(p) <=> \E j \in 1 .. N + 1 : d \in p[j]
    BY <1>3 DEF ToSet
  <2>2. d \in UNION ToSet(q) <=> \E j \in 1 .. N : d \in q[j]
    BY <1>2 DEF ToSet
  <2>3. (\E j \in 1 .. N + 1 : d \in p[j]) <=> (\E j \in 1 .. N : d \in p[j]) \/ d \in p[N + 1]
    <3>1. \A j \in 1 .. N + 1 : j \in 1 .. N \/ j = N + 1
      OBVIOUS
    <3>2. N + 1 \in 1 .. N + 1 /\ \A j \in 1 .. N : j \in 1 .. N + 1
      OBVIOUS
    <3> QED  BY <3>1, <3>2
  <2> QED  BY <1>3, <2>1, <2>2, <2>3
<1>5. \A j \in 1 .. N + 1 : j \in 1 .. N \/ j = N + 1
  OBVIOUS
<1> QED  BY <1>1, <1>2, <1>3, <1>4, <1>5

LEMMA QueueTake ==
  ASSUME NEW q \in Seq(SUBSET Buf), q # <<>>
  PROVE  /\ Head(q) \in SUBSET Buf /\ Tail(q) \in Seq(SUBSET Buf) /\ 1 \in DOMAIN q /\ q[1] = Head(q)
         /\ UNION ToSet(q) = Head(q) \cup UNION ToSet(Tail(q))
         /\ \A j \in DOMAIN Tail(q) : j + 1 \in DOMAIN q /\ j + 1 # 1 /\ j \in Nat /\ Tail(q)[j] = q[j + 1]
<1>1. PICK p : p = Tail(q)
  OBVIOUS
<1>2. PICK N \in Nat : N + 1 = Len(q) /\ DOMAIN q = 1 .. N + 1
  <2>1. Len(q) \in Nat /\ Len(q) # 0 /\ DOMAIN q = 1 .. Len(q)
    BY LenProperties, EmptySeq
  <2>2. Len(q) - 1 \in Nat /\ (Len(q) - 1) + 1 = Len(q)
    BY <2>1
  <2> QED  BY <2>1, <2>2
<1>3. /\ p \in Seq(SUBSET Buf) /\ DOMAIN p = 1 .. N /\ Head(q) = q[1] /\ Head(q) \in SUBSET Buf
      /\ \A j \in 1 .. N : p[j] = q[j + 1]
  BY <1>1, <1>2, HeadTailProperties, LenProperties
<1>4. ASSUME NEW d PROVE d \in UNION ToSet(q) <=> d \in Head(q) \cup UNION ToSet(p)
  <2>1. d \in UNION ToSet(q) <=> \E j \in 1 .. N + 1 : d \in q[j]
    BY <1>2 DEF ToSet
  <2>2. d \in UNION ToSet(p) <=> \E j \in 1 .. N : d \in p[j]
    BY <1>3 DEF ToSet
  <2>3. (\E j \in 1 .. N + 1 : d \in q[j]) <=> d \in q[1] \/ \E j \in 1 .. N : d \in q[j + 1]
    <3>1. \A j \in 1 .. N + 1 : j = 1 \/ (j - 1 \in 1 .. N /\ (j - 1) + 1 = j)
      OBVIOUS
    <3>2. 1 \in 1 .. N + 1 /\ \A j \in 1 .. N : j + 1 \in 1 .. N + 1
      OBVIOUS
    <3> QED  BY <3>1, <3>2
  <2> QED  BY <1>3, <2>1, <2>2, <2>3
<1> QED  BY <1>1, <1>2, <1>3, <1>4

LEMMA ApartPut ==
  ASSUME NEW q \in Seq(SUBSET Buf), NEW X \in SUBSET Buf, NEW h, Apart(q, h),
         X \cap ((UNION ToSet(q)) \cup h) = {}
  PROVE  Apart(Append(q, X), h)
<1>1. PICK p : p = Append(q, X)
  OBVIOUS
<1>2. /\ \A j \in DOMAIN p : p[j] = X \/ (j \in DOMAIN q /\ p[j] = q[j])
      /\ \A j \in DOMAIN p : j \notin DOMAIN q => j = Len(q) + 1 /\ p[j] = X
  BY <1>1, QueuePut
<1>3. PICK n : n = Len(q) + 1
  OBVIOUS
<1>4. n \notin DOMAIN q
  BY <1>3, LenProperties
<1>5. \A j \in DOMAIN p : IF j = n THEN p[j] = X ELSE j \in DOMAIN q /\ p[j] = q[j]
  <2>1. TAKE j \in DOMAIN p
  <2>2. CASE j \in DOMAIN q
    <3>1. j # n
      BY <1>4, <2>2
    <3>2. p[j] = q[j]
      BY <1>1, <2>2, AppendProperties, LenProperties
    <3> QED  BY <2>2, <3>1, <3>2
  <2>3. CASE j \notin DOMAIN q
    BY <1>2, <1>3, <2>3
  <2> QED  BY <2>2, <2>3
<1>6. \A j \in DOMAIN q : X \cap q[j] = {}
  BY DEF ToSet
<1> QED  BY <1>1, <1>5, <1>6 DEF Apart

LEMMA ApartTake ==
  ASSUME NEW q \in Seq(SUBSET Buf), q # <<>>, NEW h, Apart(q, h)
  PROVE  Apart(Tail(q), h \cup Head(q))
<1>1. PICK p : p = Tail(q)
  OBVIOUS
<1>2. /\ 1 \in DOMAIN q /\ q[1] = Head(q)
      /\ \A j \in DOMAIN p : j + 1 \in DOMAIN q /\ j + 1 # 1 /\ j \in Nat /\ p[j] = q[j + 1]
  BY <1>1, QueueTake
<1>3. \A j, k \in DOMAIN p : j # k => p[j] \cap p[k] = {}
  BY <1>2 DEF Apart
<1>4. \A j \in DOMAIN p : p[j] \cap (h \cup Head(q)) = {}
  BY <1>2 DEF Apart
<1> QED  BY <1>1, <1>3, <1>4 DEF Apart

LEMMA FinishStep == ASSUME IInv, NEW t \in Thread, Finish(t) PROVE IInv'
<1>1. PICK b : b = buf[t]
  OBVIOUS
<1>2. PICK q, q1 : q = inflight /\ q1 = inflight'
  OBVIOUS
<1>3. /\ b \in Buf /\ b # NoBuf /\ b \notin held /\ b \notin Captured /\ pc[t] = "got"
      /\ q \in Seq(SUBSET Buf) /\ Apart(q, handled) /\ handled \in SUBSET Buf
  BY <1>1, <1>2 DEF IInv, TypeOK, ThreadType, Owners, Finish, At
<1>4. /\ \A u \in Thread : pc'[u] = IF u = t THEN "idle" ELSE pc[u]
      /\ \A u \in Thread : buf'[u] = IF u = t THEN NoBuf ELSE buf[u]
      /\ \A u \in Thread : size'[u] = IF u = t THEN 0 ELSE size[u]
  BY DEF IInv, TypeOK, ThreadType, Finish, Goto
<1>5. Captured = (UNION ToSet(q)) \cup handled /\ Captured' = (UNION ToSet(q1)) \cup handled
  BY <1>2 DEF Captured, Finish
<1>6. /\ q1 \in Seq(SUBSET Buf) /\ Apart(q1, handled)
      /\ Captured \subseteq Captured' /\ Captured' \subseteq Captured \cup {b}
  <2>1. CASE onGpu[t]
    <3>1. q1 = Append(q, {b})
      BY <1>1, <1>2, <2>1 DEF Finish
    <3>2. {b} \in SUBSET Buf /\ {b} \cap ((UNION ToSet(q)) \cup handled) = {}
      BY <1>3, <1>5
    <3>3. Apart(q1, handled)
      BY <1>3, <3>1, <3>2, ApartPut
    <3>4. q1 \in Seq(SUBSET Buf) /\ UNION ToSet(q1) = (UNION ToSet(q)) \cup {b}
      BY <1>3, <3>1, <3>2, QueuePut
    <3> QED  BY <1>5, <3>3, <3>4
  <2>2. CASE ~onGpu[t]
    BY <1>2, <1>3, <1>5, <2>2 DEF Finish
  <2> QED  BY <2>1, <2>2
<1>7. InUse' = InUse
  <2>1. PICK T, T1 : T = {buf[u] : u \in Thread} \ {NoBuf} /\ T1 = {buf'[u] : u \in Thread} \ {NoBuf}
    OBVIOUS
  <2>2. T = T1 \cup {b}
    <3>1. ASSUME NEW d \in T PROVE d \in T1 \cup {b}
      <4>1. PICK u \in Thread : d = buf[u] /\ d # NoBuf
        BY <2>1
      <4>2. CASE u = t
        BY <1>1, <4>1, <4>2
      <4>3. CASE u # t
        <5>1. d = buf'[u]
          BY <1>4, <4>1, <4>3
        <5> QED  BY <2>1, <4>1, <5>1
      <4> QED  BY <4>2, <4>3
    <3>2. ASSUME NEW d \in T1 PROVE d \in T
      <4>1. PICK u \in Thread : d = buf'[u] /\ d # NoBuf
        BY <2>1
      <4>2. d = buf[u]
        BY <1>4, <4>1
      <4> QED  BY <2>1, <4>1, <4>2
    <3>3. b \in T
      BY <1>1, <1>3, <2>1
    <3> QED  BY <3>1, <3>2, <3>3
  <2>3. held' = held \cup {b} /\ InUse = held \cup Captured \cup T /\ InUse' = held' \cup Captured' \cup T1
    BY <1>1, <2>1 DEF Finish, InUse
  <2> QED  BY <1>6, <2>2, <2>3
<1>8. Owners'
  <2>1. \A u \in Thread : buf'[u] # NoBuf <=> pc'[u] = "got"
    BY <1>4 DEF IInv, Owners
  <2>2. ASSUME NEW u \in Thread, buf'[u] # NoBuf PROVE buf'[u] \notin held' \cup Captured'
    <3>1. u # t /\ buf'[u] = buf[u]
      BY <1>4, <2>2
    <3>2. buf[u] # b /\ buf[u] \notin held \cup Captured
      BY <1>1, <1>3, <2>2, <3>1 DEF IInv, Owners
    <3> QED  BY <1>1, <1>6, <3>1, <3>2 DEF Finish
  <2>3. \A u, v \in Thread : buf'[u] = buf'[v] /\ buf'[u] # NoBuf => u = v
    BY <1>4 DEF IInv, Owners
  <2>4. \A u \in Thread : pc'[u] \in {"malloc", "new", "check", "wait", "asleep"} => size'[u] \in Sizes
    BY <1>4 DEF IInv, Owners
  <2>5. Apart(q1, handled')
    BY <1>6 DEF Finish
  <2> QED  BY <1>2, <2>1, <2>2, <2>3, <2>4, <2>5 DEF Owners
<1>9. Memory' /\ active' + cache'.size = active + cache.size
  <2>1. Memory /\ UNCHANGED memory /\ UNCHANGED <<capacity, resizing, current>>
    BY DEF IInv, TypeOK, Memory, Finish, limits
  <2> QED  BY <1>7, <2>1, MemoryUnchanged
<1>10. TypeOK'
  <2>1. ThreadType'
    BY DEF IInv, TypeOK, ThreadType, Finish, Goto, Places
  <2>2. held' \in SUBSET Buf /\ inflight' \in Seq(SUBSET Buf)
    BY <1>1, <1>2, <1>3, <1>6 DEF IInv, TypeOK, Finish
  <2> QED  BY <1>9, <2>1, <2>2 DEF IInv, TypeOK, Memory, Finish, limits
<1>11. Bounded'
  <2>1. Asking' = Asking /\ t \notin Asking
    BY <1>3, NobodyAsks DEF IInv, Finish, Places
  <2>2. \A u \in Asking : size'[u] = size[u]
    BY <1>4, <2>1 DEF Asking
  <2>3. active' + cache'.size <= active + cache.size
    BY <1>9, AskingFacts DEF IInv
  <2> QED  BY <1>10, <2>1, <2>2, <2>3, StillBounded DEF IInv, Finish, limits
<1> QED  BY <1>8, <1>9, <1>10, <1>11 DEF IInv, Memory

\* Nobody moves, and memory is as it was or loses a buffer that was in use.
LEMMA RestStep ==
  ASSUME IInv, TypeOK', Owners', Memory', UNCHANGED thread, relaxed' = relaxed,
         active' + cache'.size <= active + cache.size
  PROVE  IInv'
<1>1. Asking' = Asking /\ \A u \in Asking : size'[u] = size[u]
  BY DEF thread, Asking
<1>2. Bounded'
  BY <1>1, StillBounded DEF IInv
<1> QED  BY <1>2 DEF IInv, Memory

LEMMA NotifyStep == ASSUME IInv, Notify PROVE IInv'
<1>1. PICK q, h : q = inflight /\ h = handled
  OBVIOUS
<1>2. /\ q \in Seq(SUBSET Buf) /\ q # <<>> /\ Apart(q, h) /\ h \in SUBSET Buf
      /\ inflight' = Tail(q) /\ handled' = h \cup Head(q)
  BY <1>1 DEF IInv, TypeOK, Owners, Notify
<1>3. Head(q) \in SUBSET Buf /\ Tail(q) \in Seq(SUBSET Buf) /\ UNION ToSet(q) = Head(q) \cup UNION ToSet(Tail(q))
  BY <1>2, QueueTake
<1>4. Captured' = Captured
  BY <1>1, <1>2, <1>3 DEF Captured
<1>5. InUse' = InUse
  BY <1>4 DEF InUse, Notify, thread
<1>6. Owners'
  <2>1. Apart(inflight', handled')
    BY <1>2, ApartTake
  <2> QED  BY <1>4, <2>1 DEF IInv, Owners, Notify, thread
<1>7. Memory' /\ active' + cache'.size = active + cache.size
  <2>1. Memory /\ UNCHANGED memory /\ UNCHANGED <<capacity, resizing, current>>
    BY DEF IInv, TypeOK, Memory, Notify, limits
  <2> QED  BY <1>5, <2>1, MemoryUnchanged
<1>8. TypeOK'
  <2>1. handled' \in SUBSET Buf /\ inflight' \in Seq(SUBSET Buf)
    BY <1>2, <1>3
  <2> QED  BY <1>7, <2>1 DEF IInv, TypeOK, ThreadType, Memory, Notify, limits, thread
<1>9. active' + cache'.size <= active + cache.size
  BY <1>7, AskingFacts DEF IInv
<1> QED  BY <1>6, <1>7, <1>8, <1>9, RestStep DEF Notify, limits

LEMMA DropStep == ASSUME IInv, NEW b \in Buf, Drop(b) PROVE IInv'
<1>1. b \in held /\ held' = held \ {b} /\ Captured' = Captured
  BY DEF Drop, gpu, Captured
<1>2. PICK T : T = {buf[u] : u \in Thread} \ {NoBuf}
  OBVIOUS
<1>3. b \notin T
  BY <1>1, <1>2 DEF IInv, Owners
<1>4. InUse = held \cup Captured \cup T /\ InUse' = held' \cup Captured' \cup T
  BY <1>2 DEF InUse, Drop, thread
<1>5. Owners'
  BY <1>1 DEF IInv, Owners, Drop, thread, gpu
<1>6. Memory /\ UNCHANGED <<capacity, resizing, current>> /\ capacity \in Nat /\ maxPool \in Nat
  BY DEF IInv, TypeOK, Memory, Drop, limits
<1>7. Memory' /\ active' + cache'.size <= active + cache.size
  <2>1. CASE b \in Captured
    <3>1. InUse' = InUse /\ UNCHANGED memory
      BY <1>1, <1>4, <2>1 DEF Drop
    <3>2. Memory' /\ active' + cache'.size = active + cache.size
      BY <1>6, <3>1, MemoryUnchanged
    <3> QED  BY <3>2, AskingFacts DEF IInv
  <2>2. CASE b \notin Captured
    <3>1. b \in InUse /\ InUse' = InUse \ {b} /\ Free(b)
      BY <1>1, <1>3, <1>4, <2>2 DEF Drop
    <3> QED  BY <1>6, <3>1, FreeMemory
  <2> QED  BY <2>1, <2>2
<1>8. TypeOK'
  BY <1>1, <1>7 DEF IInv, TypeOK, ThreadType, Memory, Drop, limits, thread, gpu
<1> QED  BY <1>5, <1>7, <1>8, RestStep DEF Drop, limits

LEMMA DestroyStep == ASSUME IInv, NEW b \in Buf, Destroy(b) PROVE IInv'
<1>1. b \in handled /\ handled' = handled \ {b} /\ UNCHANGED <<held, inflight, thread>>
  BY DEF Destroy
<1>2. PICK Q : Q = UNION ToSet(inflight)
  OBVIOUS
<1>3. b \notin Q
  BY <1>1, <1>2 DEF IInv, Owners, Apart, ToSet
<1>4. Captured = Q \cup handled /\ Captured' = Q \cup (handled \ {b})
  BY <1>1, <1>2 DEF Captured
<1>5. PICK T : T = {buf[u] : u \in Thread} \ {NoBuf}
  OBVIOUS
<1>6. b \notin T
  BY <1>1, <1>4, <1>5 DEF IInv, Owners
<1>7. InUse = held \cup Captured \cup T /\ InUse' = held \cup Captured' \cup T
  BY <1>1, <1>5 DEF InUse, thread
<1>8. Owners'
  <2>1. Apart(inflight', handled')
    BY <1>1 DEF IInv, Owners, Apart
  <2>2. Captured' \subseteq Captured
    BY <1>4
  <2> QED  BY <1>1, <2>1, <2>2 DEF IInv, Owners, thread
<1>9. Memory /\ UNCHANGED <<capacity, resizing, current>> /\ capacity \in Nat /\ maxPool \in Nat
  BY DEF IInv, TypeOK, Memory, Destroy, limits
<1>10. Memory' /\ active' + cache'.size <= active + cache.size
  <2>1. CASE b \in held
    <3>1. InUse' = InUse /\ UNCHANGED memory
      BY <1>4, <1>7, <2>1 DEF Destroy
    <3>2. Memory' /\ active' + cache'.size = active + cache.size
      BY <1>9, <3>1, MemoryUnchanged
    <3> QED  BY <3>2, AskingFacts DEF IInv
  <2>2. CASE b \notin held
    <3>1. b \in InUse /\ InUse' = InUse \ {b} /\ Free(b)
      BY <1>1, <1>3, <1>4, <1>6, <1>7, <2>2 DEF Destroy
    <3> QED  BY <1>9, <3>1, FreeMemory
  <2> QED  BY <2>1, <2>2
<1>11. TypeOK'
  BY <1>1, <1>10 DEF IInv, TypeOK, ThreadType, Memory, Destroy, limits, thread
<1> QED  BY <1>1, <1>8, <1>10, <1>11, RestStep DEF Destroy, limits

LEMMA CacheLimitStep ==
  ASSUME Memory, maxPool \in Nat, InUse' = InUse, SetCacheLimit
  PROVE  Memory' /\ maxPool' \in Nat /\ UNCHANGED <<relaxed, capacity, active, cache>>
<1>1. maxPool' \in Nat /\ UNCHANGED <<relaxed, capacity, resizing, current, memory>>
  BY AllocatorAssumption DEF AllocatorAssumption, SetCacheLimit
<1> QED  BY <1>1, MemoryUnchanged DEF memory

LEMMA ClearStep ==
  ASSUME Memory, InUse' = InUse, ClearCache
  PROVE  Memory' /\ cache'.size = 0 /\ UNCHANGED <<relaxed, maxPool, capacity, active>>
<1>1. /\ cache' = EmptyCache /\ Keep(length, cache)
      /\ UNCHANGED <<relaxed, maxPool, capacity, resizing, current, active, residency>>
  BY DEF ClearCache, limits
<1>2. Sound(cache', length) /\ ToSet(cache'.lru) = {} /\ cache'.size = 0
  BY <1>1, EmptySound
<1>3. /\ InUse \cap ToSet(cache.lru) = {} /\ DOMAIN length = InUse \cup ToSet(cache.lru)
      /\ DOMAIN length \in SUBSET Buf /\ IsFiniteSet(DOMAIN length) /\ length \in [DOMAIN length -> Nat]
  BY DEF Memory, Books, MemoryType
<1>4. ToSet(cache'.lru) \subseteq ToSet(cache.lru)
  BY <1>2
<1>5. /\ DOMAIN length' = InUse \cup ToSet(cache'.lru) /\ InUse \cap ToSet(cache'.lru) = {}
      /\ DOMAIN length' \in SUBSET Buf /\ IsFiniteSet(DOMAIN length') /\ length' \in [DOMAIN length' -> Nat]
      /\ (\A d \in DOMAIN length' : length'[d] = length[d]) /\ Sound(cache', length')
  BY <1>1, <1>2, <1>3, <1>4, KeepFacts
<1>6. \A d \in InUse : length'[d] = length[d]
  BY <1>5
<1>7. Memory'
  BY <1>1, <1>5, <1>6, CacheMemory
<1> QED  BY <1>1, <1>2, <1>7

LEMMA WiredLimitStep ==
  ASSUME Memory, InUse' = InUse, resizing = "no", SetWiredLimit
  PROVE  Memory' /\ capacity' \in Nat /\ UNCHANGED <<relaxed, maxPool, active, cache>>
<1>1. capacity' \in Nat /\ resizing' = "read" /\ UNCHANGED <<relaxed, maxPool, current, memory>>
  BY AllocatorAssumption DEF AllocatorAssumption, SetWiredLimit
<1>2. UNCHANGED <<length, cache, active, wired, unwired, todo, torn>>
  BY <1>1 DEF memory, residency
<1>3. Books'
  BY <1>2 DEF Memory, Books, Sum
<1>4. ResidentInv'
  BY <1>1, <1>2 DEF Memory, ResidentInv
<1>5. MemoryType'
  BY <1>1, <1>2 DEF Memory, MemoryType
<1> QED  BY <1>1, <1>2, <1>3, <1>4, <1>5 DEF Memory

LEMMA HostStep == ASSUME IInv, HostCall PROVE IInv'
<1>1. /\ calls \in Nat /\ calls > 0 /\ calls' = calls - 1 /\ UNCHANGED <<onGpu, gpu, thread, n_active, held, tasks>>
      /\ resizing = "no" /\ Memory /\ maxPool \in Nat /\ active \in Nat /\ cache.size \in Nat
  BY DEF IInv, TypeOK, Memory, MemoryType, HostCall
<1>2. InUse' = InUse /\ Captured' = Captured
  BY <1>1 DEF InUse, Captured, gpu, thread
<1>3. Owners'
  BY <1>1, <1>2 DEF IInv, Owners, gpu, thread
<1>4. /\ Memory' /\ maxPool' \in Nat /\ capacity' \in Nat /\ relaxed' = relaxed
      /\ active' + cache'.size <= active + cache.size
  <2>1. CASE SetCacheLimit
    <3>1. Memory' /\ maxPool' \in Nat /\ UNCHANGED <<relaxed, capacity, active, cache>>
      BY <1>1, <1>2, <2>1, CacheLimitStep
    <3> QED  BY <1>1, <3>1 DEF IInv, TypeOK
  <2>2. CASE ClearCache
    <3>1. Memory' /\ cache'.size = 0 /\ UNCHANGED <<relaxed, maxPool, capacity, active>>
      BY <1>1, <1>2, <2>2, ClearStep
    <3> QED  BY <1>1, <3>1 DEF IInv, TypeOK
  <2>3. CASE SetWiredLimit
    <3>1. Memory' /\ capacity' \in Nat /\ UNCHANGED <<relaxed, maxPool, active, cache>>
      BY <1>1, <1>2, <2>3, WiredLimitStep
    <3> QED  BY <1>1, <3>1
  <2> QED  BY <2>1, <2>2, <2>3 DEF HostCall
<1>5. TypeOK'
  BY <1>1, <1>4 DEF IInv, TypeOK, ThreadType, Memory, gpu, thread
<1> QED  BY <1>1, <1>3, <1>4, <1>5, RestStep

\* A step of a resize moves at most one allocation between the two sets.
LEMMA ResizeMemory ==
  ASSUME Memory, InUse' = InUse, capacity \in Nat, Resize
  PROVE  Memory' /\ UNCHANGED <<active, cache>>
<1> USE DEF Memory
<1>1. UNCHANGED <<capacity, length, cache, active, torn>>
  BY DEF Resize
<1>2. PICK l, w, v, w1, v1 : l = length /\ w = wired /\ v = unwired /\ w1 = wired' /\ v1 = unwired'
  OBVIOUS
<1>3. \A b : Allocated({b}) \in Nat /\ Allocated(wired) \in Nat
  BY AllocatedFacts
<1>4. ResizeRead \/ ResizeEnd \/ \E b \in todo : ResizeGrow(b) \/ ResizeShrink(b)
  BY DEF Resize
<1>5. MemoryType'
  <2>1. w1 \subseteq Buf /\ v1 \subseteq Buf /\ todo' \subseteq Buf
    <3>1. w \subseteq Buf /\ v \subseteq Buf /\ todo \subseteq Buf
      BY <1>2 DEF MemoryType
    <3>2. CASE ResizeRead \/ ResizeEnd
      BY <1>2, <3>1, <3>2 DEF ResizeRead, ResizeEnd, Resized
    <3>3. ASSUME NEW b \in todo, ResizeGrow(b) \/ ResizeShrink(b) PROVE w1 \subseteq Buf /\ v1 \subseteq Buf /\ todo' \subseteq Buf
      <4>1. b \in Buf
        BY <3>1
      <4> QED  BY <1>2, <3>1, <3>3, <4>1 DEF ResizeGrow, ResizeShrink
    <3> QED  BY <1>4, <3>2, <3>3
  <2>2. resizing' \in {"no", "read", "grow", "shrink"}
    BY <1>4 DEF ResizeRead, ResizeEnd, ResizeGrow, ResizeShrink, Resized
  <2>3. current' \in Int
    <3>1. PICK now : now = Allocated(wired)
      OBVIOUS
    <3>2. now \in Nat /\ current \in Int
      BY <1>3, <3>1 DEF MemoryType
    <3>3. CASE ResizeRead \/ ResizeEnd
      <4>1. current' = now \/ current' = 0
        BY <3>1, <3>3 DEF ResizeRead, ResizeEnd, Resized
      <4> QED  BY <3>2, <4>1
    <3>4. ASSUME NEW b \in todo, ResizeGrow(b) \/ ResizeShrink(b) PROVE current' \in Int
      <4>1. PICK n \in Nat : n = Allocated({b})
        BY <1>3
      <4>2. current' = current \/ current' = current + n \/ current' = current - n
        BY <3>4, <4>1 DEF ResizeGrow, ResizeShrink
      <4> QED  BY <3>2, <4>1, <4>2
    <3> QED  BY <1>4, <3>3, <3>4
  <2>4. torn \in BOOLEAN
    BY DEF MemoryType
  <2> QED  BY <1>1, <1>2, <2>1, <2>2, <2>3, <2>4 DEF MemoryType
<1>6. Books'
  BY <1>1 DEF Books, Sum
<1>7. ASSUME ~torn
      PROVE  /\ w1 \cup v1 = InUse /\ w1 \cap v1 = {}
             /\ resizing' = "no" => SumFunctionOnSet(l, w1) <= capacity
             /\ resizing' = "grow" => current' = SumFunctionOnSet(l, w1) /\ current' <= capacity /\ todo' \subseteq v1
             /\ resizing' = "shrink" => current' = SumFunctionOnSet(l, w1) /\ todo' = w1
  <2>1. /\ w \cup v = InUse /\ w \cap v = {} /\ InUse \subseteq DOMAIN l
        /\ (\A d \in DOMAIN l : l[d] \in Nat) /\ IsFiniteSet(w) /\ SumFunctionOnSet(l, w) \in Nat
        /\ resizing = "grow" => current = SumFunctionOnSet(l, w) /\ current <= capacity /\ todo \subseteq v
        /\ resizing = "shrink" => current = SumFunctionOnSet(l, w) /\ todo = w
    BY <1>2, <1>7, InUseFacts DEF ResidentInv, Sum
  <2>2. CASE ResizeRead
    <3>1. Allocated(wired) = SumFunctionOnSet(l, w)
      BY <1>2, <2>1, AllocatedFacts DEF Sum
    <3>2. CASE /\ SumFunctionOnSet(l, w) < capacity /\ resizing' = "grow" /\ current' = SumFunctionOnSet(l, w)
               /\ todo' = v /\ w1 = w /\ v1 = v
      BY <2>1, <3>2
    <3>3. CASE resizing' = "shrink" /\ current' = SumFunctionOnSet(l, w) /\ todo' = w /\ w1 = w /\ v1 = v
      BY <2>1, <3>3
    <3>4. CASE SumFunctionOnSet(l, w) = capacity /\ resizing' = "no" /\ w1 = w /\ v1 = v
      BY <2>1, <3>4
    <3> QED  BY <1>2, <2>2, <3>1, <3>2, <3>3, <3>4 DEF ResizeRead, Resized
  <2>3. CASE ResizeEnd
    <3>1. resizing' = "no" /\ w1 = w /\ v1 = v
      BY <1>2, <2>3 DEF ResizeEnd, Resized
    <3>2. SumFunctionOnSet(l, w) <= capacity
      <4>1. CASE resizing = "grow"
        BY <2>1, <4>1
      <4>2. CASE resizing = "shrink" /\ current <= capacity
        BY <2>1, <4>2
      <4>3. CASE resizing = "shrink" /\ todo = {}
        BY <2>1, <4>3, SumEmpty
      <4> QED  BY <2>3, <4>1, <4>2, <4>3 DEF ResizeEnd, Moving
    <3> QED  BY <2>1, <3>1, <3>2
  <2>4. ASSUME NEW b \in todo, b \in DOMAIN l
        PROVE  /\ Allocated({b}) = l[b] /\ l[b] \in Nat
               /\ b \notin w => SumFunctionOnSet(l, w \cup {b}) = SumFunctionOnSet(l, w) + l[b]
               /\ b \in w => SumFunctionOnSet(l, w \ {b}) = SumFunctionOnSet(l, w) - l[b]
    <3>1. Allocated({b}) = l[b] /\ l[b] \in Nat
      BY <1>2, <2>1, <2>4, AllocatedFacts
    <3>2. w \subseteq DOMAIN l /\ IsFiniteSet(w) /\ \A d \in w \cup {b} : l[d] \in Nat
      BY <2>1, <2>4
    <3>3. b \notin w => SumFunctionOnSet(l, w \cup {b}) = SumFunctionOnSet(l, w) + l[b]
      BY <3>2, SumAdd
    <3>4. ASSUME b \in w PROVE SumFunctionOnSet(l, w \ {b}) = SumFunctionOnSet(l, w) - l[b]
      <4>1. SumFunctionOnSet(l, w) = l[b] + SumFunctionOnSet(l, w \ {b})
        BY <3>2, <3>4, SumRemove
      <4>2. SumFunctionOnSet(l, w \ {b}) \in Nat
        <5>1. IsFiniteSet(w \ {b}) /\ \A d \in w \ {b} : l[d] \in Nat
          BY <3>2, FS_RemoveElement
        <5> QED  BY <5>1, SumNat
      <4> QED  BY <3>1, <4>1, <4>2
    <3> QED  BY <3>1, <3>3, <3>4
  <2>5. ASSUME NEW b \in todo, ResizeGrow(b)
        PROVE  /\ w1 \cup v1 = InUse /\ w1 \cap v1 = {} /\ resizing' = "grow"
               /\ current' = SumFunctionOnSet(l, w1) /\ current' <= capacity /\ todo' \subseteq v1
    <3>1. /\ resizing = "grow" /\ resizing' = "grow" /\ todo' = todo \ {b}
          /\ b \in v /\ b \notin w /\ b \in DOMAIN l /\ todo \subseteq v
          /\ current = SumFunctionOnSet(l, w) /\ current <= capacity
      BY <2>1, <2>5 DEF ResizeGrow
    <3>2. Allocated({b}) = l[b] /\ l[b] \in Nat /\ SumFunctionOnSet(l, w \cup {b}) = SumFunctionOnSet(l, w) + l[b]
      BY <2>4, <3>1
    <3>3. CASE current + l[b] > capacity
      <4>1. current' = current /\ w1 = w /\ v1 = v
        BY <1>2, <2>5, <3>2, <3>3 DEF ResizeGrow
      <4> QED  BY <2>1, <3>1, <4>1
    <3>4. CASE ~(current + l[b] > capacity)
      <4>1. current' = current + l[b] /\ w1 = w \cup {b} /\ v1 = v \ {b}
        BY <1>2, <2>5, <3>2, <3>4 DEF ResizeGrow
      <4>2. current' = SumFunctionOnSet(l, w1) /\ current' <= capacity
        BY <2>1, <3>1, <3>2, <3>4, <4>1
      <4>3. w1 \cup v1 = InUse /\ w1 \cap v1 = {} /\ todo' \subseteq v1
        BY <2>1, <3>1, <4>1
      <4> QED  BY <3>1, <4>2, <4>3
    <3> QED  BY <3>3, <3>4
  <2>6. ASSUME NEW b \in todo, ResizeShrink(b)
        PROVE  /\ w1 \cup v1 = InUse /\ w1 \cap v1 = {} /\ resizing' = "shrink"
               /\ current' = SumFunctionOnSet(l, w1) /\ todo' = w1
    <3>1. /\ resizing = "shrink" /\ resizing' = "shrink" /\ todo' = todo \ {b} /\ b \in w /\ b \in DOMAIN l
          /\ current = SumFunctionOnSet(l, w) /\ todo = w /\ w1 = w \ {b} /\ v1 = v \cup {b}
      BY <1>2, <2>1, <2>6 DEF ResizeShrink
    <3>2. current' = SumFunctionOnSet(l, w \ {b})
      <4>1. current' = current - Allocated({b})
        BY <2>6 DEF ResizeShrink
      <4> QED  BY <2>4, <3>1, <4>1
    <3>3. w1 \cup v1 = InUse /\ w1 \cap v1 = {}
      BY <2>1, <3>1
    <3> QED  BY <3>1, <3>2, <3>3
  <2> QED  BY <1>4, <2>2, <2>3, <2>5, <2>6
<1>8. ResidentInv'
  BY <1>1, <1>2, <1>7 DEF ResidentInv, Sum
<1> QED  BY <1>1, <1>5, <1>6, <1>8

LEMMA ResizeStep == ASSUME IInv, Resize PROVE IInv'
<1>1. UNCHANGED <<onGpu, maxPool, capacity, relaxed, gpu, thread, n_active, held, tasks, calls>>
  BY DEF Resize
<1>2. InUse' = InUse /\ Captured' = Captured
  BY <1>1 DEF InUse, Captured, gpu, thread
<1>3. Owners'
  BY <1>1, <1>2 DEF IInv, Owners, gpu, thread
<1>4. Memory' /\ UNCHANGED <<active, cache>>
  BY <1>2, ResizeMemory DEF IInv, TypeOK, Memory
<1>5. TypeOK'
  BY <1>1, <1>4 DEF IInv, TypeOK, ThreadType, Memory, gpu, thread
<1>6. active' + cache'.size <= active + cache.size
  BY <1>4, AskingFacts DEF IInv
<1> QED  BY <1>1, <1>3, <1>4, <1>5, <1>6, RestStep

LEMMA InitIInv == ASSUME Init PROVE IInv
<1>1. TypeOK
  <2>1. PICK x \in Settings : onGpu = x.onGpu /\ relaxed = x.relaxed /\ tasks = x.tasks /\ calls = x.calls
    BY DEF Init
  <2>2. x \in [onGpu : [Thread -> BOOLEAN], relaxed : BOOLEAN, tasks : Nat, calls : Nat]
    BY AllocatorAssumption DEF AllocatorAssumption
  <2>3. onGpu \in [Thread -> BOOLEAN] /\ relaxed \in BOOLEAN /\ tasks \in Nat /\ calls \in Nat
    BY <2>1, <2>2
  <2>4. ThreadType
    BY DEF Init, ThreadType, Places
  <2>5. MemoryType
    <3>1. DOMAIN length = {} /\ length \in [{} -> Nat]
      BY DEF Init
    <3>2. DOMAIN length \in SUBSET Buf /\ IsFiniteSet(DOMAIN length) /\ length \in [DOMAIN length -> Nat]
      BY <3>1, FS_EmptySet
    <3>3. cache \in [pool : Seq(Entry), lru : Seq(Buf), size : Nat]
      <4>1. Sound(EmptyCache, length)
        BY EmptySound
      <4> QED  BY <4>1 DEF Init, Sound
    <3>4. current \in Int /\ todo \in SUBSET Buf /\ resizing = "no"
      BY DEF Init
    <3>5. wired \in SUBSET Buf /\ unwired \in SUBSET Buf /\ active \in Nat
      BY DEF Init
    <3>6. torn \in BOOLEAN
      BY Zenon DEF Init
    <3> QED  BY <3>2, <3>3, <3>4, <3>5, <3>6 DEF MemoryType
  <2>6. maxPool \in Nat /\ capacity \in Nat /\ inflight \in Seq(SUBSET Buf)
    BY RoomFacts DEF Init
  <2> QED  BY <2>3, <2>4, <2>5, <2>6 DEF Init, TypeOK
<1>2. Captured = {} /\ InUse = {}
  BY DEF Init, Captured, InUse, ToSet
<1>3. Owners
  <2>1. Apart(inflight, handled)
    BY DEF Init, Apart
  <2> QED  BY <2>1 DEF Init, Owners
<1>4. Books
  <2>1. Sound(cache, length) /\ ToSet(cache.lru) = {}
    BY EmptySound DEF Init
  <2>2. DOMAIN length = {} /\ active = Sum({})
    BY SumEmpty DEF Init, Sum
  <2> QED  BY <1>2, <2>1, <2>2 DEF Books
<1>5. ResidentInv
  <2>1. Sum(wired) = 0
    BY SumEmpty DEF Init, Sum
  <2> QED  BY <1>2, <2>1 DEF Init, ResidentInv
<1>6. Bounded
  <2>1. Asking = {} /\ active = 0 /\ cache.size = 0
    BY EmptySound DEF Init, Asking
  <2> QED  BY <2>1, RoomFacts DEF Bounded
<1> QED  BY <1>1, <1>3, <1>4, <1>5, <1>6 DEF IInv

LEMMA RunStep == ASSUME IInv, NEW t \in Thread, Run(t) PROVE IInv'
<1>1. CASE Begin(t)
  BY <1>1, BeginStep
<1>2. CASE Malloc(t)
  BY <1>2, CachedStep, BlockedStep, NewStep, MadeStep DEF Malloc
<1>3. CASE Check(t) \/ WaitForOne(t) \/ Wake(t)
  BY <1>3, CheckStep, WaitStep, WakeStep
<1>4. CASE Finish(t)
  BY <1>4, FinishStep
<1> QED  BY <1>1, <1>2, <1>3, <1>4 DEF Run

LEMMA NextIInv == ASSUME IInv, [Next]_vars PROVE IInv'
<1>1. ASSUME NEW t \in Thread, Run(t) PROVE IInv'
  BY <1>1, RunStep
<1>2. ASSUME NEW b \in Buf, Drop(b) \/ Destroy(b) PROVE IInv'
  BY <1>2, DropStep, DestroyStep
<1>3. CASE Notify
  BY <1>3, NotifyStep
<1>4. CASE HostCall
  BY <1>4, HostStep
<1>5. CASE Resize
  BY <1>5, ResizeStep
<1>6. CASE UNCHANGED vars
  <2>1. UNCHANGED <<onGpu, limits, memory, gpu, thread, n_active, held, tasks, calls>>
    BY <1>6 DEF vars
  <2>2. InUse' = InUse /\ Captured' = Captured
    BY <2>1 DEF InUse, Captured, gpu, thread
  <2>3. Owners'
    BY <2>1, <2>2 DEF IInv, Owners, gpu, thread
  <2>4. Memory' /\ active' + cache'.size = active + cache.size
    <3>1. Memory /\ UNCHANGED memory /\ UNCHANGED <<capacity, resizing, current>>
      BY <2>1 DEF IInv, TypeOK, Memory, limits
    <3> QED  BY <2>2, <3>1, MemoryUnchanged
  <2>5. TypeOK'
    BY <2>1, <2>4 DEF IInv, TypeOK, ThreadType, Memory, limits, gpu, thread
  <2>6. active' + cache'.size <= active + cache.size
    BY <2>4, AskingFacts DEF IInv
  <2> QED  BY <2>1, <2>3, <2>4, <2>5, <2>6, RestStep DEF limits
<1> QED  BY <1>1, <1>2, <1>3, <1>4, <1>5, <1>6 DEF Next
-----------------------------------------------------------------------------
(* The theorems. *)

LEMMA AlwaysIInv == Spec => []IInv
<1>1. Init => IInv
  BY InitIInv
<1>2. IInv /\ [Next]_vars => IInv'
  BY NextIInv
<1> QED  BY <1>1, <1>2, PTL DEF Spec

(***************************************************************************)
(* The state of the allocator, of the threads and of the GPU's queue stays *)
(* of its type, whatever the sizes, the limits and the number of threads.  *)
(***************************************************************************)
THEOREM TypeCorrect == Spec => []TypeOK
<1>1. IInv => TypeOK
  BY DEF IInv
<1> QED  BY <1>1, AlwaysIInv, PTL

(***************************************************************************)
(* Every buffer made is in use or in the cache, never both, and the two    *)
(* counters that malloc compares with the limits say how much is in each:  *)
(* for any mix of reuse, eviction, clearing and freeing.                   *)
(***************************************************************************)
THEOREM AlwaysAccounted == Spec => []Accounted
<1>1. ASSUME IInv PROVE Accounted
  <2>1. PICK C : C = ToSet(cache.lru)
    OBVIOUS
  <2>2. /\ Sound(cache, length) /\ DOMAIN length = InUse \cup C /\ InUse \cap C = {} /\ active = Sum(InUse)
    BY <1>1, <2>1 DEF IInv, Books
  <2>3. PoolOf(cache.pool, C, length) /\ ListOf(cache.lru, C) /\ cache.size = Sum(C)
    BY <2>1, <2>2, SoundParts DEF Sum
  <2>4. Len(cache.lru) = Cardinality(C)
    BY <2>3, ListSize
  <2>5. {e[2] : e \in {e \in ToSet(cache.pool) : Live(e)}} = C
    <3>1. ASSUME NEW e \in ToSet(cache.pool), Live(e) PROVE e[2] \in C
      BY <2>3, <3>1 DEF PoolOf, ToSet
    <3>2. ASSUME NEW b \in C PROVE \E e \in ToSet(cache.pool) : Live(e) /\ e[2] = b
      BY <2>3 DEF PoolOf, ToSet
    <3> QED  BY <3>1, <3>2
  <2> QED  BY <2>1, <2>2, <2>3, <2>4, <2>5 DEF Accounted
<1> QED  BY <1>1, AlwaysIInv, PTL

(***************************************************************************)
(* Just what is in use is in the residency sets, once, and what is wired   *)
(* fits the capacity, whatever it is changed to, if no malloc or free came *)
(* while a resize moved allocations by the size it had read.               *)
(***************************************************************************)
THEOREM AlwaysResident == Spec => []Resident
<1>1. ASSUME IInv PROVE Resident
  <2>1. MemoryType /\ Books /\ ResidentInv
    BY <1>1 DEF IInv, TypeOK
  <2>2. ~torn => wired \in SUBSET DOMAIN length
    BY <2>1 DEF ResidentInv, Books
  <2>3. ~torn => Allocated(wired) = Sum(wired)
    BY <2>1, <2>2, AllocatedFacts
  <2> QED  BY <2>1, <2>3 DEF Resident, ResidentInv
<1> QED  BY <1>1, AlwaysIInv, PTL

(***************************************************************************)
(* An unrelaxed block_limit_ is exceeded by less than one largest request  *)
(* for every other thread: what they may be asking the device for while    *)
(* malloc has let go of the mutex.                                         *)
(***************************************************************************)
THEOREM AlwaysLimitHolds == Spec => []LimitHolds
<1>1. ASSUME IInv PROVE LimitHolds
  <2> SUFFICES ASSUME ~relaxed PROVE active + cache.size < Room
    BY DEF LimitHolds, Room
  <2>1. active \in Nat /\ cache.size \in Nat
    BY <1>1, AskingFacts DEF IInv
  <2>2. CASE Asking = {}
    BY <1>1, <2>2 DEF IInv, Bounded
  <2>3. CASE Asking # {}
    <3>1. PICK u \in Asking : active + cache.size + size[u] + (Cardinality(Asking) - 1) * Largest < Room
      BY <1>1, <2>3 DEF IInv, Bounded
    <3>2. u \in Thread /\ size[u] \in Nat
      BY <1>1, AskingFacts DEF IInv, Asking
    <3>3. (Cardinality(Asking) - 1) * Largest \in Nat
      <4>1. IsFiniteSet(Asking) /\ Cardinality(Asking) \in Nat /\ Cardinality(Asking) # 0
        BY <1>1, <2>3, AskingFacts, FS_EmptySet DEF IInv
      <4> QED  BY <4>1, RoomFacts
    <3>4. PICK x \in Nat : x = (Cardinality(Asking) - 1) * Largest
      BY <3>3
    <3> QED  BY <2>1, <3>1, <3>2, <3>4, RoomFacts
  <2> QED  BY <2>2, <2>3
<1> QED  BY <1>1, AlwaysIInv, PTL
=============================================================================
