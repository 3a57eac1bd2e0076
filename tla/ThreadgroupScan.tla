--------------------------- MODULE ThreadgroupScan --------------------------
(***************************************************************************)
(* The scan of moe_scan_offsets, one step of module MoePermute, at the     *)
(* grain of its simdgroups and barriers: threadgroup_exclusive_scan_i32    *)
(* under a loop over tiles with a running prefix.                          *)
(*                                                                         *)
(* The lanes of a simdgroup run in lockstep, so a simdgroup is one         *)
(* process; the simdgroups of the threadgroup interleave freely between    *)
(* barriers.  A step touches the threadgroup memory (sg_sums, running)     *)
(* once, and a barrier is passed by all simdgroups together.               *)
(*                                                                         *)
(* moe_pad_offsets runs the same loop over counts rounded up to tiles.     *)
(***************************************************************************)
EXTENDS Integers

CONSTANTS
  SG,       \* simdgroups of the threadgroup (8 in the code)
  W,        \* lanes of a simdgroup (32 in the code)
  E,        \* length of the array to scan
  Value     \* the values scanned

ScanAssumption ==
  /\ SG \in Nat \ {0} /\ W \in Nat \ {0} /\ E \in Nat
  /\ Value \subseteq Nat

NT        == SG * W
Simdgroup == 0 .. SG-1
Lane      == 0 .. W-1
Index     == 0 .. E-1

VARIABLES
  counts,    \* input, in device memory
  offsets,   \* output, in device memory
  cursor,    \* output, in device memory
  sg_sums,   \* threadgroup memory: the sum of each simdgroup
  running,   \* threadgroup memory: the sum of the tiles before this one
  pc,        \* what each simdgroup does next
  b,         \* register: first index of the tile
  v,         \* register of each lane: the value it loaded
  total      \* register: the sum of the tile

vars == <<counts, offsets, cursor, sg_sums, running, pc, b, v, total>>

\* What an unwritten word holds.
Garbage == -1

Init ==
  /\ counts \in [Index -> Value]
  /\ offsets = [e \in 0 .. E |-> Garbage]
  /\ cursor = [e \in Index |-> Garbage]
  /\ sg_sums = [g \in Simdgroup |-> Garbage]
  /\ running = Garbage
  /\ pc = [g \in Simdgroup |-> "start"]
  /\ b = [g \in Simdgroup |-> 0]
  /\ v = [g \in Simdgroup |-> [l \in Lane |-> 0]]
  /\ total = [g \in Simdgroup |-> 0]

(***************************************************************************)
(* simd_prefix_inclusive_sum over the lanes of a simdgroup.                *)
(***************************************************************************)
Inclusive(w) ==
  LET f[l \in Lane] == IF l = 0 THEN w[0] ELSE f[l-1] + w[l] IN f

Sum(n) ==
  LET f[g \in 0 .. n] == IF g = 0 THEN 0 ELSE f[g-1] + sg_sums[g-1] IN f[n]

Goto(g, label) == pc' = [pc EXCEPT ![g] = label]

\* Thread 0 clears the running prefix.
Start(g) ==
  /\ pc[g] = "start"
  /\ running' = IF g = 0 THEN 0 ELSE running
  /\ Goto(g, "enter")
  /\ UNCHANGED <<counts, offsets, cursor, sg_sums, b, v, total>>

(***************************************************************************)
(* Each lane loads its value, zero beyond the array; the last lane         *)
(* publishes the simdgroup's sum.                                          *)
(***************************************************************************)
Load(g) ==
  /\ pc[g] = "loop" /\ b[g] < E
  /\ LET val == [l \in Lane |-> LET e == b[g] + g*W + l
                                IN  IF e < E THEN counts[e] ELSE 0]
     IN  /\ v' = [v EXCEPT ![g] = val]
         /\ sg_sums' = [sg_sums EXCEPT ![g] = Inclusive(val)[W-1]]
  /\ Goto(g, "sums")
  /\ UNCHANGED <<counts, offsets, cursor, running, b, total>>

\* Faulty variant: simdgroups beyond the array leave before the barriers.
StoreOrLeave(g) ==
  /\ pc[g] = "store"
  /\ total' = [total EXCEPT ![g] = Sum(SG)]
  /\ LET lane(e) == e - b[g] - g*W
         mine    == {e \in Index : lane(e) \in Lane}
         out(e)  == running + Sum(g) + Inclusive(v[g])[lane(e)] - v[g][lane(e)]
     IN  /\ offsets' = [e \in 0 .. E |-> IF e \in mine THEN out(e) ELSE offsets[e]]
         /\ cursor' = [e \in Index |-> IF e \in mine THEN out(e) ELSE cursor[e]]
         /\ Goto(g, IF mine = {} THEN "done" ELSE "stored")
  /\ UNCHANGED <<counts, sg_sums, running, b, v>>

(***************************************************************************)
(* After the barrier of the scan: each lane adds up the sums of the lower  *)
(* simdgroups and of all of them, and stores its offset and cursor.        *)
(***************************************************************************)
Store(g) ==
  /\ pc[g] = "store"
  /\ total' = [total EXCEPT ![g] = Sum(SG)]
  /\ LET lane(e) == e - b[g] - g*W
         mine    == {e \in Index : lane(e) \in Lane}
         out(e)  == running + Sum(g) + Inclusive(v[g])[lane(e)] - v[g][lane(e)]
     IN  /\ offsets' = [e \in 0 .. E |-> IF e \in mine THEN out(e) ELSE offsets[e]]
         /\ cursor' = [e \in Index |-> IF e \in mine THEN out(e) ELSE cursor[e]]
  /\ Goto(g, "stored")
  /\ UNCHANGED <<counts, sg_sums, running, b, v>>

(***************************************************************************)
(* Between the two barriers thread 0 adds the tile to the running prefix.  *)
(* The step ends with the increment of the loop, a register's.             *)
(***************************************************************************)
Accumulate(g) ==
  /\ pc[g] = "accumulate"
  /\ running' = IF g = 0 THEN running + total[g] ELSE running
  /\ b' = [b EXCEPT ![g] = @ + NT]
  /\ Goto(g, "next")
  /\ UNCHANGED <<counts, offsets, cursor, sg_sums, v, total>>

\* After the loop thread 0 stores the total.
Finish(g) ==
  /\ pc[g] = "loop" /\ b[g] >= E
  /\ offsets' = IF g = 0 THEN [offsets EXCEPT ![E] = running] ELSE offsets
  /\ Goto(g, "done")
  /\ UNCHANGED <<counts, cursor, sg_sums, running, b, v, total>>

\* threadgroup_barrier: all simdgroups have arrived, and go on.
Passed(at, to) ==
  /\ \A g \in Simdgroup : pc[g] = at
  /\ pc' = [g \in Simdgroup |-> to]

\* What a simdgroup would do where a barrier is missing.
PassedAlone(at, to) == \E g \in Simdgroup : pc[g] = at /\ Goto(g, to)

shared == <<counts, offsets, cursor, sg_sums, running, b, v, total>>

\* Faulty variant: the barrier after the stores is missing.
BarrierNotAfterStore ==
  /\ \/ Passed("enter", "loop") \/ Passed("sums", "store")
     \/ PassedAlone("stored", "accumulate") \/ Passed("next", "loop")
  /\ UNCHANGED shared

(***************************************************************************)
(* The barrier before the loop, the one in the scan, and the two that keep *)
(* the stores, the running prefix and the next tile apart.                 *)
(***************************************************************************)
Barrier ==
  /\ \/ Passed("enter", "loop")
     \/ Passed("sums", "store")
     \/ Passed("stored", "accumulate")
     \/ Passed("next", "loop")
  /\ UNCHANGED shared

Step(g) == Start(g) \/ Load(g) \/ Store(g) \/ Accumulate(g) \/ Finish(g)

Done == \A g \in Simdgroup : pc[g] = "done"

Next == Barrier \/ (\E g \in Simdgroup : Step(g)) \/ (Done /\ UNCHANGED vars)

(***************************************************************************)
(* The simdgroups of a threadgroup are resident together and each makes    *)
(* progress; the hardware releases a barrier all of them have reached.     *)
(***************************************************************************)
Fairness == WF_vars(Barrier) /\ \A g \in Simdgroup : WF_vars(Step(g))

Spec == Init /\ [][Next]_vars /\ Fairness
-----------------------------------------------------------------------------
(***************************************************************************)
(* Whatever has been stored is the exclusive prefix sum, in offsets and    *)
(* in cursor alike: no simdgroup reads the running prefix or a neighbour's *)
(* sum of another tile.  At the end everything is stored.                  *)
(***************************************************************************)
Prefix ==
  LET f[e \in 0 .. E] == IF e = 0 THEN 0 ELSE f[e-1] + counts[e-1] IN f

StoredOffsetsExact ==
  /\ \A e \in 0 .. E : offsets[e] \in {Garbage, Prefix[e]}
  /\ \A e \in Index : cursor[e] = offsets[e]
  /\ Done => offsets = Prefix

(***************************************************************************)
(* No simdgroup is left at a barrier the others never reach: the kernel    *)
(* ends.                                                                   *)
(***************************************************************************)
Terminates == <>Done
=============================================================================
