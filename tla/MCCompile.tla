------------------------------ MODULE MCCompile ------------------------------
(* Compile on traced functions that are larger than those of MCGraphs. *)
EXTENDS Compile, TracedFunctions
=============================================================================
