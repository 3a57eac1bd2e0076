------------------------------ MODULE MCGraphs ------------------------------
(***************************************************************************)
(* Graphs evaluated and graphs compiled, which share no state: a behaviour *)
(* is a program of the host that GraphEval evaluates, or a traced function *)
(* that Compile compiles while the host has nothing to evaluate.           *)
(***************************************************************************)
EXTENDS MCGraphEval, TracedFunctions

VARIABLES
  function, phase_of, calls,
  nodes, ins, parents, on_tape, outputs,
  new_tape, next, pass, stack, visited, order, out_map, fused, real

Compiler == INSTANCE Compile WITH
  Programs <- SmallFunctions, Fusable <- {"f", "g"}, MaxDepth <- 3, Passes <- 3,
  prog <- function, pc <- phase_of, call <- calls, tape <- on_tape, cache <- visited

compileVars == <<function, phase_of, calls, nodes, ins, parents, on_tape, outputs,
                 new_tape, next, pass, stack, visited, order, out_map, fused, real>>

\* A host that evaluates nothing.
Idle == [prims |-> <<>>, calls |-> <<>>]

ProgramsOrIdle == SmallPrograms \cup {Idle}

NoFunction ==
  /\ function = 0 /\ phase_of = "idle" /\ calls = 0
  /\ nodes = 0 /\ ins = 0 /\ parents = 0 /\ on_tape = 0 /\ outputs = 0
  /\ new_tape = 0 /\ next = 0 /\ pass = 0 /\ stack = 0 /\ visited = 0
  /\ order = 0 /\ out_map = 0 /\ fused = 0 /\ real = 0

GraphsInit == Init /\ IF prog = Idle THEN Compiler!Init ELSE NoFunction

GraphsNext ==
  \/ prog # Idle /\ Next /\ UNCHANGED compileVars
  \/ prog = Idle /\ Compiler!Next /\ UNCHANGED vars

GraphsSpec == GraphsInit /\ [][GraphsNext]_<<vars, compileVars>> /\ Fairness
-----------------------------------------------------------------------------
\* compile: the compiled function computes what the traced one does, in both calls.
SameOutput == Compiler!SameOutput

\* compile_simplify: the map of parents that fusion goes by knows every use.
UsersKnown == Compiler!UsersKnown

\* compile_simplify: equivalent primitives are merged.
MergedOnce == Compiler!MergedOnce
=============================================================================
