------------------------------- MODULE Compile -------------------------------
(***************************************************************************)
(* The compilation of a traced graph: a tape in depth first order and a    *)
(* map from arrays to their parents, the places that use them; merging of  *)
(* equal constants and of equivalent primitives; fusion of regions into    *)
(* one primitive; and the tape replayed on real inputs, in this call and   *)
(* in later ones.                                                          *)
(*                                                                         *)
(* Every phase keeps the graph, the tape and the map by hand: arrays are   *)
(* orphaned rather than removed, siblings share a place on the tape, and   *)
(* what is left out of the map will not stop a later merge or fusion.      *)
(*                                                                         *)
(* An array is an output <<n, k>> of node n.  What it computes is a term   *)
(* over the inputs and constants.  All primitives are on one stream.       *)
(***************************************************************************)
EXTENDS Integers, Sequences, FiniteSets, SequencesExt, FiniteSetsExt

CONSTANTS
  Programs,   \* traced functions: nodes in the order they were built, and outputs
  Fusable,    \* the operations that can be fused
  MaxDepth,   \* max_compile_depth
  Passes      \* of the simplification

VARIABLES
  prog,        \* the traced function
  pc,          \* the phase
  call,        \* calls of the compiled function so far
  nodes,       \* the nodes, with the compiled ones at the end
  ins,         \* the inputs of every array
  parents,     \* parents_map: the places <<array, input>> that use an array
  tape,        \* the tape
  outputs,     \* the outputs of the function
  new_tape,    \* the tape under construction
  next,           \* the place on the tape
  pass,        \* passes done
  stack,       \* calls of the recursion under way
  cache,       \* arrays the recursion has been to
  order,       \* tape_order
  out_map,     \* output_map, what replaces each output
  fused,       \* global_cache, arrays inside compiled nodes
  real         \* trace_to_real, as terms

graph == <<nodes, ins, parents, tape, outputs>>
work  == <<new_tape, next, pass, stack, cache, order, out_map, fused>>
vars  == <<prog, pc, call, graph, work, real>>

None == <<>>

Op(a)       == nodes[a[1]].op
Outs(a)     == {<<a[1], j>> : j \in 1 .. nodes[a[1]].outs}
Shape(a)    == nodes[a[1]].shape
Input(a)    == Op(a) = "input"
Const(a)    == Op(a) = "const"
HasPrimitive(a) == ~Input(a) /\ ~Const(a)
Inputs      == {a \in DOMAIN ins : Input(a)}
Arrays(ns)  == UNION {{<<n, j>> : j \in 1 .. ns[n].outs} : n \in DOMAIN ns}

Init ==
  /\ prog \in Programs
  /\ pc = "dfs" /\ call = 1
  /\ nodes = prog.nodes
  /\ ins = [a \in Arrays(prog.nodes) |-> prog.nodes[a[1]].ins]
  /\ outputs = prog.outs
  /\ parents = None /\ tape = <<>>
  /\ new_tape = <<>> /\ next = 1 /\ pass = 0 /\ stack = <<>> /\ cache = {}
  /\ order = None /\ out_map = None /\ fused = {} /\ real = None

\* What operator[] of a map returns for a key, and the map with the key.
At(map, a)      == IF a \in DOMAIN map THEN map[a] ELSE <<>>
Put(map, a, v)  == [b \in DOMAIN map \cup {a} |-> IF b = a THEN v ELSE map[b]]
Without(map, a) == [b \in DOMAIN map \ {a} |-> map[b]]
-----------------------------------------------------------------------------
(* compile_dfs *)

\* The places that use an input: in the array, and in its siblings.
UsesOf(a, j) == <<<<a, j>>>> \o SetToSeq({<<s, j>> : s \in Outs(a) \ {a}})

DfsOutput ==
  /\ pc = "dfs" /\ stack = <<>> /\ next <= Len(outputs)
  /\ stack' = IF outputs[next] \in cache THEN <<>> ELSE <<<<outputs[next], 1>>>>
  /\ next' = next + 1
  /\ UNCHANGED <<prog, pc, call, graph, new_tape, pass, cache, order, out_map, fused, real>>

DfsVisit ==
  /\ pc = "dfs" /\ stack # <<>>
  /\ LET a == Last(stack)[1]  j == Last(stack)[2]
     IN  IF j <= Len(ins[a])
         THEN LET in == ins[a][j]
              IN  /\ parents' = Put(parents, in, At(parents, in) \o UsesOf(a, j))
                  /\ stack' = Front(stack) \o <<<<a, j + 1>>>>
                                \o IF in \in cache THEN <<>> ELSE <<<<in, 1>>>>
                  /\ UNCHANGED <<tape, cache>>
         ELSE /\ cache' = cache \cup Outs(a)
              /\ tape' = Append(tape, a)
              /\ stack' = Front(stack)
              /\ UNCHANGED parents
  /\ UNCHANGED <<prog, pc, call, nodes, ins, outputs, new_tape, next, pass, order, out_map,
                 fused, real>>

DfsDone ==
  /\ pc = "dfs" /\ stack = <<>> /\ next > Len(outputs)
  /\ pc' = "scalars" /\ next' = 1 /\ cache' = {}
  /\ UNCHANGED <<prog, call, graph, new_tape, pass, stack, order, out_map, fused, real>>
-----------------------------------------------------------------------------
(* compile_simplify *)

\* Faulty variant: the places of the source are forgotten.
MergeOneForgets(g, dst, src) ==
  IF src \notin DOMAIN g.parents THEN g
  ELSE [ins |-> [a \in DOMAIN g.ins |-> [j \in DOMAIN g.ins[a] |->
                   IF <<a, j>> \in ToSet(g.parents[src]) THEN dst ELSE g.ins[a][j]]],
        parents |-> Without(g.parents, src)]

\* The parents of the source use the destination instead.
MergeOne(g, dst, src) ==
  IF src \notin DOMAIN g.parents THEN g
  ELSE [ins |-> [a \in DOMAIN g.ins |-> [j \in DOMAIN g.ins[a] |->
                   IF <<a, j>> \in ToSet(g.parents[src]) THEN dst ELSE g.ins[a][j]]],
        parents |-> Without(Put(g.parents, dst, At(g.parents, dst) \o g.parents[src]), src)]

\* Equivalent primitives: their outputs are merged in the order of the outputs.
Merge(g, dst, src) ==
  FoldLeftDomain(LAMBDA h, j : MergeOne(h, <<dst[1], j>>, <<src[1], j>>), g,
                 [j \in 1 .. Cardinality(Outs(src)) |-> j])

Graph == [ins |-> ins, parents |-> parents]

FirstScalar(a) == SelectSeq(tape, LAMBDA b : Const(b) /\ nodes[b[1]].val = nodes[a[1]].val)[1]

Scalar ==
  /\ pc = "scalars" /\ next <= Len(tape)
  /\ LET a == tape[next]
         g == IF Const(a) THEN Merge(Graph, FirstScalar(a), a) ELSE Graph
     IN  IF Const(a) /\ FirstScalar(a) # a
         THEN ins' = g.ins /\ parents' = g.parents /\ new_tape' = new_tape
         ELSE new_tape' = Append(new_tape, a) /\ UNCHANGED <<ins, parents>>
  /\ next' = next + 1
  /\ UNCHANGED <<prog, pc, call, nodes, tape, outputs, pass, stack, cache, order, out_map,
                 fused, real>>

ScalarsDone ==
  /\ pc = "scalars" /\ next > Len(tape)
  /\ tape' = new_tape /\ new_tape' = <<>>
  /\ order' = [a \in ToSet(new_tape) |-> CHOOSE j \in DOMAIN new_tape : new_tape[j] = a]
  /\ pc' = "simplify" /\ next' = 1
  /\ UNCHANGED <<prog, call, nodes, ins, parents, outputs, pass, stack, cache, out_map,
                 fused, real>>

\* array_equivalent.
Equivalent(g, a, b) ==
  /\ HasPrimitive(a) /\ HasPrimitive(b) /\ a[1] # b[1] /\ Op(a) = Op(b)
  /\ g.ins[a] = g.ins[b]

\* An array that is not on the tape itself, a sibling of one, is first.
Place(a) == IF a \in DOMAIN order THEN order[a] ELSE 1

(***************************************************************************)
(* Two parents of one array: merge the later into the earlier, unless it   *)
(* is an output of the function, and mask its entry.                       *)
(***************************************************************************)
MergePair(g, a, p, q) ==
  LET ps  == g.parents[a]
      src == IF Place(ps[q][1]) < Place(ps[p][1]) THEN p ELSE q
      dst == IF src = p THEN q ELSE p
      h   == Merge(g, ps[dst][1], ps[src][1])
  IN  IF ps[src][1] # ps[dst][1] /\ Equivalent(g, ps[src][1], ps[dst][1])
           /\ ps[src][1] \notin ToSet(outputs)
      THEN [ins |-> h.ins, parents |-> h.parents, mask |-> g.mask \cup {src}]
      ELSE g

\* Faulty variant: a parent is compared with the next one only.
MergeWithNext(g, a, p, n) ==
  IF p \in g.mask \/ p = n \/ p + 1 \in g.mask THEN g ELSE MergePair(g, a, p, p + 1)

\* The pairs of parents in the order of the loops, of which the outer checks once.
MergeWith(g, a, p, n) ==
  IF p \in g.mask THEN g
  ELSE FoldLeft(LAMBDA h, q : IF q > p /\ q \notin h.mask THEN MergePair(h, a, p, q) ELSE h,
                g, [q \in 1 .. n |-> q])

MergeParents(g, a) ==
  IF a \notin DOMAIN g.parents THEN g
  ELSE LET n == Len(g.parents[a])
           h == FoldLeft(LAMBDA f, p : MergeWith(f, a, p, n),
                         [ins |-> g.ins, parents |-> g.parents, mask |-> {}], [p \in 1 .. n |-> p])
           kept == FoldLeft(LAMBDA s, p : IF p \in h.mask THEN s ELSE Append(s, h.parents[a][p]),
                            <<>>, [p \in 1 .. n |-> p])
       IN  [ins |-> h.ins, parents |-> Put(h.parents, a, kept)]

\* An array and its siblings go if nothing uses them and none is an output.
Simplify ==
  /\ pc = "simplify" /\ next <= Len(tape)
  /\ LET arrs == <<tape[next]>> \o SetToSeq(Outs(tape[next]) \ {tape[next]})
         g == FoldLeft(MergeParents, Graph, arrs)
         discard == \A a \in ToSet(arrs) : a \notin DOMAIN g.parents /\ a \notin ToSet(outputs)
     IN  /\ ins' = g.ins /\ parents' = g.parents
         /\ new_tape' = IF discard THEN new_tape ELSE Append(new_tape, tape[next])
  /\ next' = next + 1
  /\ UNCHANGED <<prog, pc, call, nodes, tape, outputs, pass, stack, cache, order, out_map,
                 fused, real>>

PassDone ==
  /\ pc = "simplify" /\ next > Len(tape)
  /\ tape' = new_tape /\ new_tape' = <<>>
  /\ pass' = pass + 1
  /\ IF pass + 1 < Passes
     THEN pc' = pc /\ next' = 1 /\ out_map' = out_map
     ELSE pc' = "fuse" /\ next' = Len(new_tape) /\ out_map' = [o \in ToSet(outputs) |-> o]
  /\ UNCHANGED <<prog, call, nodes, ins, parents, outputs, stack, cache, order, fused, real>>
-----------------------------------------------------------------------------
(* compile_fuse, from the end of the tape *)

Arr == tape[next]

\* A primitive starts a region, anything else stays on the tape.
FuseStart ==
  /\ pc = "fuse" /\ next > 0
  /\ IF Arr \in fused
     THEN next' = next - 1 /\ UNCHANGED <<pc, stack>>
     ELSE /\ pc' = "region" /\ next' = next
          /\ stack' = IF HasPrimitive(Arr) THEN <<<<Arr, 0>>>> ELSE <<>>
  /\ cache' = {}
  /\ UNCHANGED <<prog, call, graph, new_tape, pass, order, out_map, fused, real>>

CanFuse(a, depth) ==
  /\ depth < MaxDepth /\ HasPrimitive(a) /\ Op(a) \in Fusable
  /\ a \in DOMAIN out_map => Shape(a) = Shape(Arr)

\* Faulty variant: one parent inside the region is enough.
SomeParentIn(a) == \E u \in ToSet(parents[a]) : u[1] \in cache

AllParentsIn(a) == \A u \in ToSet(parents[a]) : u[1] \in cache

(***************************************************************************)
(* The first recursion collects the region, in preorder.  An array that is *)
(* missing in the map of parents ends the compilation with an exception.   *)
(***************************************************************************)
FuseVisit ==
  /\ pc = "region" /\ stack # <<>>
  /\ LET a == Head(stack)[1]  depth == Head(stack)[2]
     IN  IF a \in cache \/ ~CanFuse(a, depth)
         THEN stack' = Tail(stack) /\ UNCHANGED <<pc, cache>>
         ELSE IF depth > 0 /\ a \notin DOMAIN parents
         THEN pc' = "thrown" /\ stack' = <<>> /\ cache' = {}
         ELSE IF depth > 0 /\ ~AllParentsIn(a)
         THEN stack' = Tail(stack) /\ UNCHANGED <<pc, cache>>
         ELSE /\ cache' = cache \cup {a} /\ pc' = pc
              /\ stack' = [j \in DOMAIN ins[a] |-> <<ins[a][j], depth + 1>>] \o Tail(stack)
  /\ UNCHANGED <<prog, call, graph, new_tape, next, pass, order, out_map, fused, real>>

FuseNothing ==
  /\ pc = "region" /\ stack = <<>> /\ Cardinality(cache) <= 1
  /\ new_tape' = <<Arr>> \o new_tape
  /\ pc' = "fuse" /\ next' = next - 1
  /\ UNCHANGED <<prog, call, graph, pass, stack, cache, order, out_map, fused, real>>

\* Parents outside of the region.
Outside(ps) == SelectSeq(ps, LAMBDA u : u[1] \notin cache)

(***************************************************************************)
(* Replace a region by a compiled node.  Its outputs are the array at the  *)
(* top and those that are outputs of the function; arrays inside leave the *)
(* map of parents; what it uses is used by the outputs of the new node.    *)
(***************************************************************************)
FuseRegion ==
  /\ pc = "region" /\ stack = <<>> /\ Cardinality(cache) > 1
  /\ LET inside == cache \ {Arr}
         olds == SetToSeq({f \in inside : f \in DOMAIN out_map}) \o <<Arr>>
         used == SetToSeq(UNION {ToSet(ins[a]) : a \in cache} \ cache)
         n    == Len(nodes) + 1
         node == [op |-> "compiled", outs |-> Len(olds), shape |-> Shape(Arr), body |-> cache,
                  used |-> used, olds |-> olds]
         ins1 == [a \in DOMAIN ins \cup {<<n, o>> : o \in DOMAIN olds} |->
                    IF a[1] = n THEN used ELSE ins[a]]
         left == [a \in (DOMAIN parents \cup (ToSet(olds) \ {Arr}) \cup ToSet(used))
                          \ (inside \ DOMAIN out_map) |->
                    IF a \in ToSet(used)
                    THEN Outside(At(parents, a)) \o
                         [o \in DOMAIN olds |-> <<<<n, o>>, CHOOSE j \in DOMAIN used : used[j] = a>>]
                    ELSE IF a \in inside THEN Outside(At(parents, a)) ELSE At(parents, a)]
         g == FoldLeftDomain(LAMBDA h, o : MergeOne(h, <<n, o>>, olds[o]),
                             [ins |-> ins1, parents |-> left], olds)
     IN  /\ nodes' = Append(nodes, node)
         /\ ins' = g.ins /\ parents' = g.parents
         /\ new_tape' = <<<<n, Len(olds)>>>> \o new_tape
         /\ fused' = fused \cup inside
         /\ out_map' = [o \in DOMAIN out_map |->
                          IF o \in ToSet(olds) THEN <<n, CHOOSE j \in DOMAIN olds : olds[j] = o>>
                          ELSE out_map[o]]
  /\ pc' = "fuse" /\ next' = next - 1
  /\ UNCHANGED <<prog, call, tape, outputs, pass, stack, cache, order, real>>

FuseDone ==
  /\ pc = "fuse" /\ next = 0
  /\ tape' = new_tape
  /\ outputs' = [o \in DOMAIN outputs |-> out_map[outputs[o]]]
  /\ pc' = "replace" /\ next' = 1 /\ new_tape' = <<>> /\ cache' = {}
  /\ UNCHANGED <<prog, call, nodes, ins, parents, pass, stack, order, out_map, fused, real>>
-----------------------------------------------------------------------------
(* compile_replace, and what the arrays compute *)

\* The terms of a compiled node: those of its body over the terms it uses.
InBody(node, args) ==
  LET term[a \in node.body \cup ToSet(node.used)] ==
        IF a \in node.body
        THEN <<Op(a), a[2], [j \in DOMAIN ins[a] |-> term[ins[a][j]]]>>
        ELSE args[CHOOSE j \in DOMAIN node.used : node.used[j] = a]
  IN  term

Leaf(a) == <<Op(a), IF Const(a) THEN nodes[a[1]].val ELSE a[1]>>

TermOf(a, args) ==
  IF Op(a) = "compiled"
  THEN InBody(nodes[a[1]], args)[nodes[a[1]].olds[a[2]]]
  ELSE <<Op(a), a[2], args>>

RealInputs == [a \in Inputs |-> Leaf(a)]
Real       == IF next = 1 THEN RealInputs ELSE real

\* A lookup that fails ends the call with an exception.
Replace ==
  /\ pc = "replace" /\ next <= Len(tape)
  /\ LET a == tape[next]
     IN  IF ~HasPrimitive(a)
         THEN pc' = pc /\ real' = Put(Real, a, Leaf(a))
         ELSE IF ToSet(ins[a]) \subseteq DOMAIN Real
         THEN LET args == [j \in DOMAIN ins[a] |-> Real[ins[a][j]]]
              IN  /\ pc' = pc
                  /\ real' = [b \in DOMAIN Real \cup Outs(a) |->
                                IF b \in Outs(a) THEN TermOf(b, args) ELSE Real[b]]
         ELSE pc' = "thrown" /\ real' = real
  /\ next' = next + 1
  /\ UNCHANGED <<prog, call, graph, new_tape, pass, stack, cache, order, out_map, fused>>

ReplaceDone ==
  /\ pc = "replace" /\ next > Len(tape)
  /\ pc' = IF ToSet(outputs) \subseteq DOMAIN Real THEN "returned" ELSE "thrown"
  /\ real' = Real
  /\ UNCHANGED <<prog, call, graph, work>>

\* A second call finds the entry, as it was left, and replays its tape.
CallAgain ==
  /\ pc \in {"returned", "thrown"} /\ call = 1
  /\ call' = 2 /\ pc' = "replace" /\ next' = 1 /\ real' = None
  /\ UNCHANGED <<prog, graph, new_tape, pass, stack, cache, order, out_map, fused>>

Done == pc \in {"returned", "thrown"} /\ call = 2

Next ==
  \/ DfsOutput \/ DfsVisit \/ DfsDone
  \/ Scalar \/ ScalarsDone \/ Simplify \/ PassDone
  \/ FuseStart \/ FuseVisit \/ FuseNothing \/ FuseRegion \/ FuseDone
  \/ Replace \/ ReplaceDone \/ CallAgain
  \/ Done /\ UNCHANGED vars

Spec == Init /\ [][Next]_vars
-----------------------------------------------------------------------------
\* What the traced function computes.
Traced ==
  LET ns == prog.nodes
      term[a \in Arrays(ns)] ==
        LET node == ns[a[1]]
        IN  IF node.op \in {"input", "const"}
            THEN <<node.op, IF node.op = "const" THEN node.val ELSE a[1]>>
            ELSE <<node.op, a[2], [j \in DOMAIN node.ins |-> term[node.ins[j]]]>>
  IN  term

(***************************************************************************)
(* python/src/transforms.cpp: compile "returns a compiled function which   *)
(* produces the same output" as the function.  Neither the first call nor  *)
(* one that finds the entry throws, and they return what the function      *)
(* computes.                                                               *)
(***************************************************************************)
SameOutput ==
  /\ pc # "thrown"
  /\ pc = "returned" =>
       \A o \in DOMAIN outputs : real[outputs[o]] = Traced[prog.outs[o]]

(***************************************************************************)
(* When regions are formed, the map of parents has every place on the tape *)
(* that uses an array: fusing an array takes it away from whoever is not   *)
(* in the map.                                                             *)
(***************************************************************************)
UsersKnown ==
  pc = "fuse" /\ fused = {} =>
    \A t \in ToSet(tape) : \A j \in DOMAIN ins[t] :
      \E u \in ToSet(At(parents, ins[t][j])) : u[1] \in Outs(t) /\ u[2] = j

(***************************************************************************)
(* Work that is merged is done once: after the passes, no two primitives   *)
(* on the tape that are not outputs are equivalent.                        *)
(***************************************************************************)
MergedOnce ==
  pc = "fuse" /\ fused = {} =>
    \A s, t \in ToSet(tape) :
      (Outs(s) \cup Outs(t)) \cap ToSet(outputs) = {} => ~Equivalent(Graph, s, t)
=============================================================================
