-------------------------- MODULE MCMetalAllocator --------------------------
(***************************************************************************)
(* MetalAllocator with two threads: a few allocations, and fewer with      *)
(* calls of the host in between.                                           *)
(***************************************************************************)
EXTENDS MetalAllocator

CONSTANTS t1, t2

Setting(gpus, r, n, m) ==
  [onGpu |-> [t \in Thread |-> t \in gpus], relaxed |-> r, tasks |-> n, calls |-> m]

WithGpu ==
  {Setting({t1, t2}, TRUE, 4, 0), Setting({t1, t2}, FALSE, 3, 0), Setting({t1}, FALSE, 4, 0)}
    \cup {Setting(gpus, TRUE, 2, 2) : gpus \in {{t1}, {t1, t2}}}

CpuOnly == {Setting({}, TRUE, 3, 0)}
=============================================================================
