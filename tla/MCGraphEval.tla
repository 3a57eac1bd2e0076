---------------------------- MODULE MCGraphEval -----------------------------
(***************************************************************************)
(* GraphEval on small graphs over a CPU stream and two of the GPU.         *)
(***************************************************************************)
EXTENDS GraphEval

CONSTANTS cpu, gpu1, gpu2

P(args, s, n) == [ins |-> args, stream |-> s, outs |-> n]
Do(op, on, s) == [op |-> op, on |-> on, stream |-> s]
A(n) == <<n, 1>>

\* Streams of n nodes, up to the names of the two of the GPU.
Assigned(n) ==
  {s \in [1 .. n -> Stream] : \A k \in 1 .. n : s[k] = gpu2 => \E j \in 1 .. k : s[j] = gpu1}

\* A chain or a fork, evaluated in one or two calls.
Short ==
  {[prims |-> <<P(<<>>, s[1], 1), P(<<A(1)>>, s[2], 1), P(<<A(n)>>, s[3], 1)>>,
    calls |-> cs] :
     s \in Assigned(3), n \in {1, 2},
     cs \in {<<Do("async", <<A(2)>>, cpu), Do("eval", <<A(3), A(2)>>, cpu)>>,
             <<Do("async", <<A(3), A(2)>>, cpu), Do("sync", <<>>, gpu1), Do("eval", <<A(2)>>, cpu)>>}}

\* A diamond under a node of two outputs, of which the paths use the first and r.
Diamond(s, r, top) ==
  [prims |-> <<P(<<>>, s[1], 2), P(<<A(1)>>, s[2], 1), P(<<r>>, s[3], 1), P(top, s[4], 1)>>,
   calls |-> <<Do("eval", <<A(4)>>, cpu)>>]

Tops == {<<A(2), A(3)>>, <<A(3), A(2)>>, <<A(3), A(2), A(3)>>}

\* If both outputs are used, then both on the stream of their node or neither.
Diamonds ==
  {Diamond(s, A(1), top) : s \in Assigned(4), top \in Tops}
    \cup {Diamond(s, <<1, 2>>, top) :
            s \in {s \in Assigned(4) : (s[2] = s[1]) = (s[3] = s[1])}, top \in Tops}

SmallPrograms == Short \cup Diamonds

\* One output is used on the stream of its node, the other on another stream.
Split == {Diamond([n \in 1 .. 4 |-> IF n = 3 THEN cpu ELSE gpu1], <<1, 2>>, top) : top \in Tops}
=============================================================================
