-------------------------- MODULE MCCommandEncoder --------------------------
(***************************************************************************)
(* CommandEncoder on every program of MaxLen dispatches that read at most  *)
(* one buffer and write one, and keep to WritesFollowReads.                *)
(***************************************************************************)
EXTENDS CommandEncoder

CONSTANT MaxLen

SmallDispatch == [in : {{}} \cup {{b} : b \in Buffer}, out : {{b} : b \in Buffer}]

SmallPrograms == {p \in [1 .. MaxLen -> SmallDispatch] : WritesFollowReads(p)}
=============================================================================
