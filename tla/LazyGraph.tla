------------------------------ MODULE LazyGraph ------------------------------
(***************************************************************************)
(* What lazy evaluation promises to the program that builds a graph: what  *)
(* it asks for is computed, inputs before what uses them, and it never     *)
(* sees an array that has not been computed.                               *)
(***************************************************************************)
CONSTANT Node   \* the nodes of the largest graph

VARIABLES
  Inputs,    \* the nodes each node uses
  wanted,    \* nodes that have been scheduled
  computed,  \* nodes that have been computed
  seen       \* nodes of which the program holds a readable output

vars == <<Inputs, wanted, computed, seen>>

Init ==
  /\ Inputs \in [Node -> SUBSET Node]
  /\ wanted = {} /\ computed = {} /\ seen = {}

Want(n) ==
  /\ n \notin wanted
  /\ Inputs[n] \subseteq wanted
  /\ wanted' = wanted \cup {n}
  /\ UNCHANGED <<Inputs, computed, seen>>

Compute(n) ==
  /\ n \in wanted \ computed
  /\ Inputs[n] \subseteq computed
  /\ computed' = computed \cup {n}
  /\ UNCHANGED <<Inputs, wanted, seen>>

See(N) ==
  /\ N \subseteq computed
  /\ seen' = seen \cup N
  /\ UNCHANGED <<Inputs, wanted, computed>>

Next ==
  \/ \E n \in Node : Want(n) \/ Compute(n)
  \/ \E N \in SUBSET computed : See(N)

Spec == Init /\ [][Next]_vars
=============================================================================
