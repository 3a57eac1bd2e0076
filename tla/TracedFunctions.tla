--------------------------- MODULE TracedFunctions ---------------------------
(***************************************************************************)
(* Small traced functions of one input, x, and constants of the same       *)
(* value: f, h and e are unary, g is binary, r is unary and cannot be      *)
(* fused, and m, which cannot either, has two outputs.                     *)
(***************************************************************************)
EXTENDS Integers, Sequences

N(op, args, outs) ==
  [op |-> op, ins |-> args, outs |-> outs, val |-> 0, shape |-> IF op = "r" THEN "s" ELSE "v"]
X == N("input", <<>>, 1)
C == N("const", <<>>, 1)

ArraysOf(ns) == UNION {{<<n, j>> : j \in 1 .. ns[n].outs} : n \in DOMAIN ns}

\* The nodes that can be added to some, fusable ones and all.
AddedFusable(ns) ==
  {N("f", <<a>>, 1) : a \in ArraysOf(ns)}
   \cup {N("g", <<a, b>>, 1) : a \in ArraysOf(ns), b \in ArraysOf(ns)}
AddedAny(ns) ==
  AddedFusable(ns) \cup {N("r", <<a>>, 1) : a \in ArraysOf(ns)}
   \cup {N("m", <<a>>, 2) : a \in ArraysOf(ns)}

RECURSIVE Grown(_, _, _)
Grown(Added(_), ns, n) ==
  IF n = 0 THEN {ns} ELSE UNION {Grown(Added, Append(ns, d), n - 1) : d \in Added(ns)}

\* The functions that return their last array, and those that return an earlier one before it.
Plain(ns)    == [nodes |-> ns, outs |-> <<<<Len(ns), 1>>>>]
TwoOuts(ns)  ==
  {[nodes |-> ns, outs |-> <<a, <<Len(ns), 1>>>>] : a \in ArraysOf(ns) \ {<<Len(ns), 1>>}}

\* Functions of three primitives, of four fusable ones, and of two and two constants.
SmallFunctions ==
  LET shapes == Grown(AddedAny, <<X>>, 3) \cup Grown(AddedAny, <<X, C, C>>, 2)
  IN  {Plain(ns) : ns \in shapes \cup Grown(AddedFusable, <<X>>, 4)}
        \cup UNION {TwoOuts(ns) : ns \in shapes}

(***************************************************************************)
(* With d = f(x), s = f(x) and P = h(d), the function                      *)
(* g(g(e(d), h(s)), P), r(h(s)), whose h(s) are two primitives.  Merging s *)
(* into d gives d three parents h, and a loop that has masked one goes on  *)
(* to merge with it.                                                       *)
(***************************************************************************)
MaskedParent ==
  [nodes |-> <<X, N("f", <<<<1, 1>>>>, 1), N("f", <<<<1, 1>>>>, 1), N("e", <<<<2, 1>>>>, 1),
               N("h", <<<<3, 1>>>>, 1), N("g", <<<<4, 1>>, <<5, 1>>>>, 1), N("h", <<<<2, 1>>>>, 1),
               N("g", <<<<6, 1>>, <<7, 1>>>>, 1), N("h", <<<<3, 1>>>>, 1), N("r", <<<<9, 1>>>>, 1)>>,
   outs |-> <<<<8, 1>>, <<10, 1>>>>]

(***************************************************************************)
(* With A = m(x) and B = m(x), a function that reaches A by its first      *)
(* output and B by its second: f(A[0]), r(B[1]), B[0].                     *)
(***************************************************************************)
SiblingOrder(i, j, o) ==
  [nodes |-> <<X, N("m", <<<<1, 1>>>>, 2), N("m", <<<<1, 1>>>>, 2), N("f", <<<<2, i>>>>, 1),
               N("r", <<<<3, j>>>>, 1)>>,
   outs |-> <<<<4, 1>>, <<5, 1>>, <<3, o>>>>]

UncommonFunctions == {MaskedParent} \cup {SiblingOrder(i, j, o) : i, j, o \in 1 .. 2}
=============================================================================
