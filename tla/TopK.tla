-------------------------------- MODULE TopK --------------------------------
(***************************************************************************)
(* Top-k selection in one simdgroup: the helpers that routing, sampling    *)
(* and beam search share.  The lanes run in lockstep.  Each one searches   *)
(* the candidates it is responsible for, and a butterfly all-reduce, in    *)
(* which a lane exchanges with the lane whose number differs in one bit,   *)
(* spreads the winner to all of them.  Every lane keeps its own copy of    *)
(* what has been chosen, and masks it in the next round.                   *)
(*                                                                         *)
(* A candidate is a record: its id, its value v, and whether it            *)
(* participates (valid).                                                   *)
(***************************************************************************)
EXTENDS Integers, Sequences

CONSTANT LogW   \* log2 of the lanes of a simdgroup (5 in the code)

TopKAssumption == LogW \in Nat

\* The callers' sentinel, the lowest finite float, with -2^15 for it.
NegInf == -32768

\* 2^n, for the distances of the exchanges.
Pow2[n \in 0 .. LogW] == IF n = 0 THEN 1 ELSE 2 * Pow2[n-1]

W    == Pow2[LogW]
Lane == 0 .. W-1

NoId  == -1
MaxId == 2147483647

\* o takes the place of m.
Wins(o, m) == o.v > m.v \/ (o.v = m.v /\ o.id < m.id)

Xor(l, off) == IF (l \div off) % 2 = 0 THEN l + off ELSE l - off

\* Every lane takes the better of its own pair and that of the lane at off.
Exchange(y, off) == [l \in Lane |-> IF Wins(y[Xor(l, off)], y[l]) THEN y[Xor(l, off)] ELSE y[l]]

(***************************************************************************)
(* simd_argmax on the (value, id) pair of every lane: exchanges at         *)
(* distances W/2, ..., 2, 1; ties go to the smaller id.                    *)
(***************************************************************************)
Argmax(x) ==
  LET step[n \in 0 .. LogW] == IF n = 0 THEN x ELSE Exchange(step[n-1], Pow2[LogW - n])
  IN  step[LogW]

(***************************************************************************)
(* The strided scan of one lane over candidates 0 .. n-1: the best one     *)
(* that participates and that this lane has not seen chosen.               *)
(***************************************************************************)
LaneBest(cand, n, taken, lane) ==
  LET best[i \in 0 .. n] ==
        IF i = 0 THEN [v |-> NegInf, id |-> NoId]
        ELSE LET c == cand[i-1]
                 b == best[i-1]
             IN  IF /\ (i-1) % W = lane
                    /\ c.valid /\ c.id \notin taken
                    /\ Wins(c, b)
                 THEN [v |-> c.v, id |-> c.id] ELSE b
  IN  best[n]

\* The winner of a round as masked_topk records it.
Emitted(win) == [v |-> win.v, id |-> IF win.v = NegInf THEN NoId ELSE win.id]

IdsOf(s) == {s[i].id : i \in DOMAIN s}

(***************************************************************************)
(* One round of masked_topk.  chosen[l] is what lane l holds of the rounds *)
(* before; the result is what it holds after this one.                     *)
(***************************************************************************)
Round(cand, n, chosen) ==
  LET local == [l \in Lane |->
                  LET b == LaneBest(cand, n, IdsOf(chosen[l]), l)
                  IN  [b EXCEPT !.id = IF @ < 0 THEN MaxId ELSE @]]
      win == Argmax(local)
  IN  [l \in Lane |-> Append(chosen[l], Emitted(win[l]))]

(***************************************************************************)
(* The best slot of one lane's own list in masked_topk_local, 0 if none    *)
(* is left.  used is the set of slots cleared in earlier rounds.           *)
(***************************************************************************)
LocalBest(mine, used) ==
  LET best[j \in 0 .. Len(mine)] ==
        IF j = 0 THEN [v |-> NegInf, id |-> NoId, slot |-> 0]
        ELSE LET b == best[j-1]
             IN  IF /\ j \notin used
                    /\ Wins(mine[j], b)
                 THEN [v |-> mine[j].v, id |-> mine[j].id, slot |-> j] ELSE b
  IN  best[Len(mine)]

(***************************************************************************)
(* One round of masked_topk_local: the lane whose slot won clears it.  The *)
(* result is what every lane emits and the slots each has cleared.         *)
(***************************************************************************)
LocalRound(mine, used) ==
  LET best == [l \in Lane |-> LocalBest(mine[l], used[l])]
      win  == Argmax([l \in Lane |->
                [v |-> best[l].v, id |-> IF best[l].id < 0 THEN MaxId ELSE best[l].id]])
  IN  [win  |-> win,
       used |-> [l \in Lane |-> IF best[l].slot > 0 /\ best[l].id = win[l].id
                                THEN used[l] \cup {best[l].slot} ELSE used[l]]]
=============================================================================
