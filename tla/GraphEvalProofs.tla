-------------------------- MODULE GraphEvalProofs ---------------------------
(***************************************************************************)
(* Proofs about GraphEval, for every set of programs, streams, width of    *)
(* the tape and size of the command buffers.                               *)
(***************************************************************************)
EXTENDS GraphEval, SequenceTheorems, Facts

Status == {"unscheduled", "scheduled", "evaluated", "available"}
Event  == (Call \X Stream \X Nat) \cup {NoEvent}
Tasks  == [arr : Array, signal : BOOLEAN] \cup {SyncTask}
Buffers == [nodes : Seq(Node), event : Event, counted : BOOLEAN]
Places == Array \X (Nat \ {0})

\* What every variable is; a program counter past the calls is at "call".
HostTypes ==
  /\ prog \in Programs
  /\ call \in Nat \ {0} /\ (pc # "call" => call \in Call)
  /\ pc \in {"call", "walked", "tape", "dispatch", "wait", "promise"}
  /\ syncStream \in [Call -> Stream]

TapeTypes ==
  /\ tape \in Seq(Array) /\ i \in Nat
  /\ dfs \in Seq(Places)
  /\ cur # NotOn => cur \in Places

ArrayTypes ==
  /\ status \in [Array -> Status]
  /\ event \in [Array -> Event]
  /\ waiting \in Seq(Array)
  /\ counter \in [Stream -> Nat]

QueueTypes ==
  /\ queue \in [Stream -> Seq(Tasks)]
  /\ phase \in [Stream -> {"idle", "active", "computed"}]

BufferTypes ==
  /\ buffer \in [Stream -> Seq(Node)] /\ ops \in [Stream -> Nat]
  /\ committed \in [Stream -> Seq(Buffers)]
  /\ handlers \in [Stream -> Nat]

ResultTypes ==
  n_active \in Int /\ computed \in SUBSET Node /\ signaled \in [Call \X Stream -> Nat]

TypeOK ==
  HostTypes /\ TapeTypes /\ ArrayTypes /\ QueueTypes /\ BufferTypes /\ ResultTypes

\* The outputs of a node are scheduled together.
Shared == \A a, b \in Array : a[1] = b[1] => (Unscheduled(a) <=> Unscheduled(b))

\* The synchronizer of a call is scheduled when its tape is dispatched.
SyncsAhead ==
  \A c \in Call : c > call \/ (c = call /\ pc \in {"call", "walked", "tape"})
                    => Unscheduled(<<Sync(c), 1>>)

\* What is on a queue or waited for has been scheduled.
OnceScheduled ==
  /\ \A s \in Stream : \A k \in DOMAIN queue[s] :
       queue[s][k] # SyncTask => ~Unscheduled(queue[s][k].arr)
  /\ \A k \in DOMAIN waiting : ~Unscheduled(waiting[k])

\* While the host waits for its promise it puts nothing on a queue.
Promised ==
  \A s \in Stream : \A k \in DOMAIN queue[s] :
    queue[s][k] = SyncTask =>
      pc = "promise" /\ s = prog.calls[call].stream /\ k = Len(queue[s])

(***************************************************************************)
(* The breadth first walk has met a use when its node is walked and the    *)
(* place of the input is before the one the node was left at.              *)
(***************************************************************************)
Root     == Sync(call)
Input(u) == Ins(u[1])[u[2]]
Met(u)   == /\ \E k \in 1 .. i : tape[k][1] = u[1]
            /\ cur # NotOn /\ cur[1][1] = u[1] => u[2] < cur[2]
            /\ \A m \in DOMAIN dfs : dfs[m][1][1] = u[1] => u[2] < dfs[m][2]
Pending  == {u \in Uses(Root) : ~Met(u)}
Left(n)  == {u \in Pending : Input(u)[1] = n}
OnTape(n) == \E k \in DOMAIN tape : tape[k][1] = n

TapeShape ==
  /\ tape # <<>> /\ tape[1] = <<Root, 1>> /\ i <= Len(tape)
  /\ \A k \in DOMAIN tape : tape[k][1] \in Walked(Root)
  /\ \A j, k \in DOMAIN tape : j < k => tape[j][1] # tape[k][1]

\* A node is left at one place, the current one or one on the stack.
OpenShape ==
  /\ cur # NotOn => \E k \in 1 .. i : tape[k] = cur[1]
  /\ \A m \in DOMAIN dfs :
       /\ \E k \in 1 .. i : tape[k] = dfs[m][1]
       /\ cur # NotOn => dfs[m][1][1] # cur[1][1]
       /\ \A l \in 1 .. m-1 : dfs[l][1][1] # dfs[m][1][1]

\* The cache counts the uses the walk has yet to meet.
CacheCounts ==
  /\ DOMAIN cache = {a \in Array : Left(a[1]) # {}}
  /\ \A a \in DOMAIN cache : cache[a] = Cardinality(Left(a[1]))

\* A node is laid on the tape with its last use.
LaidWithLastUse ==
  \A n \in Walked(Root) \ {Root} : OnTape(n) <=> Left(n) = {}

InputsAfter ==
  \A j, k \in DOMAIN tape : j < k =>
    \A a \in ToSet(Ins(tape[k][1])) : a[1] # tape[j][1]

TapeInv ==
  pc = "tape" => TapeShape /\ OpenShape /\ CacheCounts /\ LaidWithLastUse /\ InputsAfter

ToDispatchInv ==
  pc = "dispatch" =>
    /\ {a[1] : a \in ToSet(tape)} = {n \in Walked(Root) : Unscheduled(<<n, 1>>)}
    /\ \A j, k \in DOMAIN tape : j < k => tape[j][1] # tape[k][1]
    /\ InputsAfter

Inv ==
  /\ TypeOK /\ Shared /\ SyncsAhead /\ OnceScheduled /\ Promised
  /\ TapeInv /\ ToDispatchInv
-----------------------------------------------------------------------------
(* The graph of a program. *)

LEMMA ArrayShape ==
  \A n \in Node : \A k \in 1 .. IF n \in Prim THEN prog.prims[n].outs ELSE 1 : <<n, k>> \in Array
<1> SUFFICES ASSUME NEW n \in Node, NEW k \in 1 .. IF n \in Prim THEN prog.prims[n].outs ELSE 1
             PROVE  <<n, k>> \in Array
  OBVIOUS
<1>1. <<n, k>> \in Outputs(n)
  BY DEF Outputs
<1> QED  BY <1>1 DEF Array

LEMMA NodeShape ==
  ASSUME Len(prog.prims) \in Nat, Len(prog.calls) \in Nat
  PROVE  /\ Prim \subseteq Node
         /\ \A n \in Node : n \in Nat \ {0}
         /\ \A n \in Node \ Prim : /\ n - Len(prog.prims) \in Call
                                   /\ Sync(n - Len(prog.prims)) = n
                                   /\ \A m \in Prim : m < n
         /\ \A c \in Call : Sync(c) \in Node \ Prim
         /\ \A c, d \in Call : Sync(c) = Sync(d) => c = d
         /\ Prim \in SUBSET Nat /\ Call \in SUBSET Nat
         /\ \E N \in Nat : Node = 1 .. N
<1> DEFINE P == Len(prog.prims)  C == Len(prog.calls)
<1>1. P \in Nat /\ C \in Nat /\ Prim = 1 .. P /\ Call = 1 .. C /\ Node = 1 .. P + C
  BY DEF Prim, Call, Node
<1>2. \A c : Sync(c) = P + c
  BY DEF Sync
<1>3. SUFFICES /\ Prim \subseteq Node
               /\ \A n \in Node : n \in Nat \ {0}
               /\ \A n \in Node \ Prim : n - P \in Call /\ Sync(n - P) = n /\ \A m \in Prim : m < n
               /\ \A c \in Call : Sync(c) \in Node \ Prim
               /\ \A c, d \in Call : Sync(c) = Sync(d) => c = d
               /\ Prim \in SUBSET Nat /\ Call \in SUBSET Nat
               /\ \E N \in Nat : Node = 1 .. N
  OBVIOUS
<1> HIDE DEF P, C
<1>4. Prim \subseteq Node /\ \A n \in Node : n \in Nat \ {0}
  BY <1>1
<1>5. \A n \in Node \ Prim : n - P \in Call /\ Sync(n - P) = n /\ \A m \in Prim : m < n
  BY <1>1, <1>2
<1>6. /\ \A c \in Call : Sync(c) \in Node \ Prim
      /\ \A c, d \in Call : Sync(c) = Sync(d) => c = d
  BY <1>1, <1>2
<1>7. P + C \in Nat /\ Node = 1 .. P + C /\ Prim \in SUBSET Nat /\ Call \in SUBSET Nat
  BY <1>1
<1> QED  BY <1>4, <1>5, <1>6, <1>7

LEMMA GraphFacts ==
  ASSUME prog \in Programs
  PROVE  /\ Len(prog.prims) \in Nat /\ Len(prog.calls) \in Nat
         /\ \A n \in Node : Ins(n) \in Seq(Nat \X Nat)
         /\ \A n \in Node : \A j \in DOMAIN Ins(n) :
              Ins(n)[j] \in Array /\ Ins(n)[j][1] \in Prim /\ Ins(n)[j][1] < n
         /\ \A n \in Prim : prog.prims[n].outs \in Nat \ {0} /\ prog.prims[n].stream \in Stream
         /\ \A c \in Call : prog.calls[c].op \in {"eval", "async", "sync"}
                              /\ prog.calls[c].stream \in Stream
<1>1. /\ prog.prims \in Seq([ins : Seq(Nat \X Nat), stream : Stream, outs : Nat \ {0}])
      /\ prog.calls \in Seq([op : {"eval", "async", "sync"}, on : Seq(Nat \X Nat), stream : Stream])
  BY EvalAssumption DEF EvalAssumption, ProgramsAssumption
<1>2. Len(prog.prims) \in Nat /\ Len(prog.calls) \in Nat
  BY <1>1, LenProperties
<1>3. Prim = DOMAIN prog.prims /\ Call = DOMAIN prog.calls
  BY <1>1, LenProperties DEF Prim, Call
<1>p. \A n \in Prim : \A a \in ToSet(prog.prims[n].ins) :
         a[1] \in 1 .. n-1 /\ a[2] \in 1 .. prog.prims[a[1]].outs
  BY <1>3, EvalAssumption DEF EvalAssumption, ProgramsAssumption
<1>c. \A c \in Call : \A a \in ToSet(prog.calls[c].on) :
         a[1] \in Prim /\ a[2] \in 1 .. prog.prims[a[1]].outs
  BY <1>3, EvalAssumption DEF EvalAssumption, ProgramsAssumption
<1>4. \A n \in Prim : /\ prog.prims[n].ins \in Seq(Nat \X Nat)
                      /\ prog.prims[n].outs \in Nat \ {0} /\ prog.prims[n].stream \in Stream
  <2> SUFFICES ASSUME NEW n \in Prim
               PROVE  prog.prims[n] \in [ins : Seq(Nat \X Nat), stream : Stream, outs : Nat \ {0}]
    OBVIOUS
  <2> QED  BY <1>1, ElementOfSeq DEF Prim
<1>5. \A c \in Call : /\ prog.calls[c].on \in Seq(Nat \X Nat)
                      /\ prog.calls[c].op \in {"eval", "async", "sync"}
                      /\ prog.calls[c].stream \in Stream
  <2> SUFFICES ASSUME NEW c \in Call
               PROVE  prog.calls[c] \in [op : {"eval", "async", "sync"},
                                         on : Seq(Nat \X Nat), stream : Stream]
    OBVIOUS
  <2> QED  BY <1>1, ElementOfSeq DEF Call
<1>6. \A m \in Prim : \A k \in 1 .. prog.prims[m].outs : <<m, k>> \in Array
  BY <1>2, NodeShape, ArrayShape
<1>7. ASSUME NEW n \in Node
      PROVE  /\ Ins(n) \in Seq(Nat \X Nat)
             /\ \A j \in DOMAIN Ins(n) :
                  Ins(n)[j] \in Array /\ Ins(n)[j][1] \in Prim /\ Ins(n)[j][1] < n
  <2>1. CASE n \in Prim
    <3>1. Ins(n) = prog.prims[n].ins
      BY <2>1 DEF Ins
    <3>2. ASSUME NEW j \in DOMAIN Ins(n)
          PROVE  Ins(n)[j] \in Array /\ Ins(n)[j][1] \in Prim /\ Ins(n)[j][1] < n
      <4> DEFINE a == Ins(n)[j]
      <4>1. a \in Nat \X Nat /\ a \in ToSet(prog.prims[n].ins)
        BY <1>4, <2>1, <3>1 DEF ToSet
      <4>2. a[1] \in 1 .. n-1 /\ a[2] \in 1 .. prog.prims[a[1]].outs
        BY <1>p, <2>1, <4>1
      <4>3. a[1] \in Prim /\ a[1] < n
        <5> HIDE DEF a
        <5> QED  BY <1>2, <2>1, <4>2 DEF Prim
      <4>4. a = <<a[1], a[2]>>
        BY <4>1
      <4> QED  BY <1>6, <4>2, <4>3, <4>4
    <3> QED  BY <1>4, <2>1, <3>1, <3>2
  <2>2. CASE n \notin Prim
    <3> DEFINE c == n - Len(prog.prims)
    <3>1. c \in Call /\ Ins(n) = prog.calls[c].on /\ \A m \in Prim : m < n
      BY <1>2, <2>2, NodeShape DEF Ins
    <3>2. ASSUME NEW j \in DOMAIN Ins(n)
          PROVE  Ins(n)[j] \in Array /\ Ins(n)[j][1] \in Prim /\ Ins(n)[j][1] < n
      <4> DEFINE a == Ins(n)[j]
      <4>1. a \in Nat \X Nat /\ a \in ToSet(prog.calls[c].on)
        BY <1>5, <3>1 DEF ToSet
      <4>2. a[1] \in Prim /\ a[2] \in 1 .. prog.prims[a[1]].outs
        BY <1>c, <3>1, <4>1
      <4>3. a = <<a[1], a[2]>>
        BY <4>1
      <4> QED  BY <1>6, <3>1, <4>2, <4>3
    <3> QED  BY <1>5, <3>1, <3>2
  <2> QED  BY <2>1, <2>2
<1> QED  BY <1>2, <1>4, <1>5, <1>7

LEMMA ArrayFacts ==
  ASSUME prog \in Programs
  PROVE  /\ \A a \in Array : a[1] \in Node /\ a[2] \in Nat /\ a = <<a[1], a[2]>>
         /\ \A a, b \in Array : a \in Siblings(b) <=> a[1] = b[1]
         /\ \A a \in Array : Siblings(a) \subseteq Array /\ a \in Siblings(a)
         /\ \A n \in Node : <<n, 1>> \in Array
         /\ \A c \in Call : Sync(c) \in Node \ Prim
         /\ \A n \in Node : n \in Nat \ {0}
         /\ Prim \subseteq Node
<1>1. Len(prog.prims) \in Nat /\ Len(prog.calls) \in Nat
  BY GraphFacts
<1>2. \A n \in Prim : prog.prims[n].outs \in Nat \ {0}
  BY GraphFacts
<1>3. Prim \subseteq Node /\ \A n \in Node : n \in Nat \ {0}
  BY <1>1, NodeShape
<1>4. \A c \in Call : Sync(c) \in Node \ Prim
  BY <1>1, NodeShape
<1> DEFINE Outs(n) == 1 .. IF n \in Prim THEN prog.prims[n].outs ELSE 1
<1>5. \A n \in Node : 1 \in Outs(n) /\ Outs(n) \subseteq Nat
  BY <1>2, <1>3
<1>6. \A n \in Node : Outputs(n) = {<<n, k>> : k \in Outs(n)}
  BY DEF Outputs
<1> HIDE DEF Outs
<1>7. \A a : a \in Array <=> \E n \in Node : \E k \in Outs(n) : a = <<n, k>>
  BY <1>6 DEF Array
<1>8. \A a \in Array : a[1] \in Node /\ a[2] \in Outs(a[1]) /\ a = <<a[1], a[2]>>
  BY <1>7
<1>9. \A n \in Node : \A a : a \in Outputs(n) <=> a \in Array /\ a[1] = n
  BY <1>6, <1>7, <1>8
<1>10. \A n \in Node : <<n, 1>> \in Array
  BY <1>5, <1>7
<1> QED  BY <1>3, <1>4, <1>5, <1>8, <1>9, <1>10 DEF Siblings

\* The walk that counts: an array is met from a node met before it.
LEMMA WalkedFacts ==
  ASSUME prog \in Programs, NEW sync \in Node
  PROVE  /\ Walked(sync) \subseteq Node
         /\ \A n \in Node : n \in Walked(sync) <=>
              n = sync \/ \E m \in Node : /\ m > n /\ m \in Walked(sync)
                                          /\ \E a \in ToSet(Ins(m)) : a[1] = n /\ Unscheduled(a)
<1> DEFINE Edge == {e \in Node \X Node : \E a \in ToSet(Ins(e[1])) : a[1] = e[2] /\ Unscheduled(a)}
           Rec(f) == [n \in Node |->
                        \/ n = sync
                        \/ \E m \in Node : /\ m > n /\ f[m]
                                           /\ \E a \in ToSet(Ins(m)) : a[1] = n /\ Unscheduled(a)]
           walked == CHOOSE f : f = Rec(f)
<1>1. PICK N \in Nat : Node = 1 .. N
  BY GraphFacts, NodeShape
<1>2. PICK W \in SUBSET Node : \A n \in Node :
         n \in W <=> n = sync \/ \E m \in Node : m > n /\ m \in W /\ <<m, n>> \in Edge
  <2> HIDE DEF Edge
  <2> QED  BY <1>1, ReachExists
<1>3. \A m, n \in Node :
         <<m, n>> \in Edge <=> \E a \in ToSet(Ins(m)) : a[1] = n /\ Unscheduled(a)
  OBVIOUS
<1>4. \E f : f = Rec(f)
  <2> DEFINE f == [n \in Node |-> n \in W]
             E(m, n) == \E a \in ToSet(Ins(m)) : a[1] = n /\ Unscheduled(a)
             B(n) == \/ n = sync
                     \/ \E m \in Node : m > n /\ f[m] /\ E(m, n)
  <2>1. \A m \in Node : f[m] <=> m \in W
    OBVIOUS
  <2>2. ASSUME NEW n \in Node PROVE  (n \in W) <=> B(n)
    <3> HIDE DEF f, Edge
    <3> QED  BY <1>2, <1>3, <2>1
  <2>3. f = Rec(f)
    <3>1. \A n \in Node : (n \in W) = B(n)
      <4> HIDE DEF B, f
      <4>1. \A n \in Node : B(n) \in BOOLEAN
        <5> USE DEF B
        <5> QED  OBVIOUS
      <4> QED  BY <2>2, <4>1
    <3>2. f = [n \in Node |-> B(n)]
      <4> HIDE DEF B
      <4> QED  BY <3>1, Zenon
    <3>3. Rec(f) = [n \in Node |-> B(n)]
      OBVIOUS
    <3> HIDE DEF f, Rec, B
    <3> QED  BY <3>2, <3>3
  <2> HIDE DEF f, Rec
  <2> QED  BY <2>3
<1>5. walked = Rec(walked)
  <2> HIDE DEF Rec
  <2> QED  BY <1>4
<1>6. Walked(sync) = {n \in Node : walked[n]}
  BY DEF Walked
<1> HIDE DEF walked
<1> QED  BY <1>5, <1>6
LEMMA StreamOfFacts ==
  ASSUME prog \in Programs, syncStream \in [Call -> Stream]
  PROVE  \A n \in Node : StreamOf(n) \in Stream
<1> SUFFICES ASSUME NEW n \in Node PROVE StreamOf(n) \in Stream
  OBVIOUS
<1>1. CASE n \in Prim
  BY <1>1, GraphFacts DEF StreamOf
<1>2. CASE n \notin Prim
  BY <1>2, GraphFacts, NodeShape DEF StreamOf
<1> QED  BY <1>1, <1>2

LEMMA SameGraph ==
  ASSUME prog' = prog
  PROVE  /\ Node' = Node /\ Prim' = Prim /\ Call' = Call /\ Array' = Array
         /\ \A n : Ins(n)' = Ins(n) /\ Outputs(n)' = Outputs(n)
         /\ \A a : Siblings(a)' = Siblings(a)
         /\ \A c : Sync(c)' = Sync(c)
         /\ Event' = Event /\ Tasks' = Tasks /\ Buffers' = Buffers /\ Places' = Places
BY DEF Node, Prim, Call, Array, Ins, Outputs, Siblings, Sync, Event, Tasks, Buffers, Places

\* The nodes that are walked have not been scheduled.
LEMMA WalkedUnscheduled ==
  ASSUME prog \in Programs, Shared, NEW sync \in Node, Unscheduled(<<sync, 1>>)
  PROVE  \A n \in Walked(sync) : Unscheduled(<<n, 1>>)
<1> SUFFICES ASSUME NEW n \in Walked(sync), n # sync PROVE Unscheduled(<<n, 1>>)
  OBVIOUS
<1>1. n \in Node
  BY WalkedFacts
<1>2. PICK m \in Node : \E a \in ToSet(Ins(m)) : a[1] = n /\ Unscheduled(a)
  BY <1>1, WalkedFacts
<1>3. PICK j \in DOMAIN Ins(m) : Ins(m)[j][1] = n /\ Unscheduled(Ins(m)[j])
  BY <1>2 DEF ToSet
<1>4. Ins(m)[j] \in Array /\ <<n, 1>> \in Array /\ <<n, 1>>[1] = n
  BY <1>1, GraphFacts, ArrayFacts
<1> QED  BY <1>3, <1>4 DEF Shared

LEMMA UsesFacts ==
  ASSUME prog \in Programs, NEW sync \in Node
  PROVE  /\ \A n, j : <<n, j>> \in Uses(sync) <=>
              n \in Walked(sync) /\ j \in DOMAIN Ins(n) /\ Unscheduled(Ins(n)[j])
         /\ \A u \in Uses(sync) :
              /\ u = <<u[1], u[2]>> /\ u[1] \in Walked(sync) /\ u[1] \in Node
              /\ u[2] \in DOMAIN Ins(u[1]) /\ u[2] \in Nat \ {0} /\ Unscheduled(Input(u))
              /\ Input(u) \in Array /\ Input(u)[1] \in Walked(sync)
              /\ Input(u)[1] \in Prim /\ Input(u)[1] < u[1]
         /\ IsFiniteSet(Uses(sync))
<1> DEFINE All == UNION {{n} \X DOMAIN Ins(n) : n \in Walked(sync)}
<1>1. \A u : u \in All <=> \E n \in Walked(sync) : u \in {n} \X DOMAIN Ins(n)
  OBVIOUS
<1>2. \A u : u \in Uses(sync) <=> u \in All /\ Unscheduled(Ins(u[1])[u[2]])
  BY DEF Uses
<1>3. \A n, j : <<n, j>> \in All <=> n \in Walked(sync) /\ j \in DOMAIN Ins(n)
  <2> HIDE DEF All
  <2> QED  BY <1>1
<1>4. \A u \in All : u = <<u[1], u[2]>>
  <2> HIDE DEF All
  <2> QED  BY <1>1
<1> HIDE DEF All
<1>5. \A n, j : <<n, j>> \in Uses(sync) <=>
              n \in Walked(sync) /\ j \in DOMAIN Ins(n) /\ Unscheduled(Ins(n)[j])
  <2> TAKE n, j
  <2>1. <<n, j>> \in Uses(sync) <=>
          <<n, j>> \in All /\ Unscheduled(Ins(<<n, j>>[1])[<<n, j>>[2]])
    BY <1>2
  <2>2. <<n, j>>[1] = n /\ <<n, j>>[2] = j
    OBVIOUS
  <2> QED  BY <1>3, <2>1, <2>2
<1>6. ASSUME NEW u \in Uses(sync)
      PROVE  /\ u = <<u[1], u[2]>> /\ u[1] \in Walked(sync) /\ u[1] \in Node
             /\ u[2] \in DOMAIN Ins(u[1]) /\ u[2] \in Nat \ {0} /\ Unscheduled(Input(u))
             /\ Input(u) \in Array /\ Input(u)[1] \in Walked(sync)
             /\ Input(u)[1] \in Prim /\ Input(u)[1] < u[1]
  <2> DEFINE n == u[1]  j == u[2]
  <2>1. u = <<n, j>> /\ n \in Walked(sync) /\ j \in DOMAIN Ins(n) /\ Unscheduled(Ins(n)[j])
    BY <1>2, <1>4, <1>5
  <2> HIDE DEF n, j
  <2>2. n \in Node
    BY <2>1, WalkedFacts
  <2>3. Ins(n)[j] \in Array /\ Ins(n)[j][1] \in Prim /\ Ins(n)[j][1] < n
    BY <2>1, <2>2, GraphFacts
  <2>4. j \in Nat \ {0}
    BY <2>1, <2>2, GraphFacts, LenProperties
  <2>5. Ins(n)[j] \in ToSet(Ins(n))
    BY <2>1 DEF ToSet
  <2>6. Ins(n)[j][1] \in Node /\ n > Ins(n)[j][1]
    BY <2>2, <2>3, ArrayFacts
  <2>7. Ins(n)[j][1] \in Walked(sync)
    BY <2>1, <2>2, <2>5, <2>6, WalkedFacts
  <2> QED  BY <2>1, <2>2, <2>3, <2>4, <2>7 DEF Input, n, j
<1>7. IsFiniteSet(Uses(sync))
  <2> DEFINE Rows == {{n} \X DOMAIN Ins(n) : n \in Walked(sync)}
  <2>1. IsFiniteSet(Walked(sync))
    <3>1. PICK N \in Nat : Node = 1 .. N
      BY GraphFacts, NodeShape
    <3>2. IsFiniteSet(Node)
      BY <3>1, FS_Interval
    <3> QED  BY <3>2, WalkedFacts, FS_Subset
  <2>2. \A T \in Rows : IsFiniteSet(T)
    <3> SUFFICES ASSUME NEW n \in Walked(sync) PROVE IsFiniteSet({n} \X DOMAIN Ins(n))
      OBVIOUS
    <3>1. Ins(n) \in Seq(Nat \X Nat)
      BY WalkedFacts, GraphFacts
    <3>2. Len(Ins(n)) \in Nat /\ DOMAIN Ins(n) = 1 .. Len(Ins(n))
      BY <3>1, LenProperties
    <3>3. IsFiniteSet({n})
      BY FS_Singleton
    <3>4. IsFiniteSet(DOMAIN Ins(n))
      <4>1. \A l \in Nat : IsFiniteSet(1 .. l)
        BY FS_Interval
      <4> QED  BY <3>2, <4>1
    <3> QED  BY <3>3, <3>4, FS_Product
  <2>3. IsFiniteSet(Rows)
    <3> DEFINE f == [n \in Walked(sync) |-> {n} \X DOMAIN Ins(n)]
    <3>1. f \in Surjection(Walked(sync), Rows)
      BY DEF Surjection
    <3> HIDE DEF f, Rows
    <3> QED  BY <2>1, <3>1, FS_Surjection
  <2>4. IsFiniteSet(All)
    <3>1. All = UNION Rows
      BY DEF All
    <3> HIDE DEF Rows, All
    <3> QED  BY <2>2, <2>3, <3>1, FS_UNION
  <2>5. Uses(sync) \in SUBSET All
    BY <1>2
  <2> QED  BY <2>4, <2>5, FS_Subset
<1> QED  BY <1>5, <1>6, <1>7

\* Every node that is walked but the first has a use.
LEMMA WalkedUsed ==
  ASSUME prog \in Programs, NEW sync \in Node, NEW n \in Walked(sync), n # sync
  PROVE  \E u \in Uses(sync) : Input(u)[1] = n
<1>1. n \in Node
  BY WalkedFacts
<1>2. PICK m \in Node : /\ m \in Walked(sync)
                        /\ \E a \in ToSet(Ins(m)) : a[1] = n /\ Unscheduled(a)
  BY <1>1, WalkedFacts
<1>3. PICK j \in DOMAIN Ins(m) : Ins(m)[j][1] = n /\ Unscheduled(Ins(m)[j])
  BY <1>2 DEF ToSet
<1>4. <<m, j>> \in Uses(sync)
  BY <1>2, <1>3, UsesFacts
<1>5. Input(<<m, j>>)[1] = n
  BY <1>3 DEF Input
<1> QED  BY <1>4, <1>5
-----------------------------------------------------------------------------
(* Types. *)

LEMMA SeqFacts ==
  ASSUME NEW S, NEW s \in Seq(S)
  PROVE  /\ \A e \in S : Append(s, e) \in Seq(S)
         /\ Len(s) \in Nat /\ DOMAIN s = 1 .. Len(s)
         /\ \A k \in DOMAIN s : s[k] \in S
         /\ s # <<>> => /\ Head(s) \in S /\ Tail(s) \in Seq(S)
                        /\ Last(s) \in S /\ Front(s) \in Seq(S) /\ Len(s) \in DOMAIN s
<1>1. ASSUME s # <<>>
      PROVE  /\ Head(s) \in S /\ Tail(s) \in Seq(S)
             /\ Last(s) \in S /\ Front(s) \in Seq(S) /\ Len(s) \in DOMAIN s
  <2>1. Len(s) \in Nat \ {0}
    BY <1>1, EmptySeq
  <2>2. Front(s) \in Seq(S)
    <3>1. \A k \in 1 .. Len(s)-1 : s[k] \in S
      BY <2>1, ElementOfSeq
    <3> QED  BY <2>1, <3>1, SubSeqProperties DEF Front
  <2> QED  BY <1>1, <2>1, <2>2, HeadTailProperties, ElementOfSeq DEF Last
<1> QED  BY <1>1

LEMMA TypeInit == Init => TypeOK
<1> SUFFICES ASSUME Init PROVE TypeOK
  OBVIOUS
<1> USE DEF Init, TapeInit
<1>1. prog \in Programs
  OBVIOUS
<1>2. syncStream \in [Call -> Stream]
  <2>1. CASE Call = {}
    BY <2>1 DEF Streamless
  <2>2. CASE Call # {}
    <3>1. \E s \in Stream : TRUE
      BY <1>1, <2>2, GraphFacts
    <3> QED  BY <3>1 DEF Streamless
  <2> QED  BY <2>1, <2>2
<1>3. HostTypes
  BY <1>1, <1>2 DEF HostTypes
<1>4. TapeTypes
  BY DEF TapeTypes, NotOn
<1>5. ArrayTypes
  BY DEF ArrayTypes, Status, Event, NoEvent
<1>6. QueueTypes
  BY DEF QueueTypes
<1>7. BufferTypes
  BY DEF BufferTypes
<1>8. ResultTypes
  BY DEF ResultTypes
<1> QED  BY <1>3, <1>4, <1>5, <1>6, <1>7, <1>8 DEF TypeOK

\* The program never changes.
LEMMA SameProg == ASSUME [Next]_vars PROVE prog' = prog
BY DEF Next, vars, hostVars, threads, tapeVars, Host, BuildNext, BuildTape, Walk, Count, TakeNext,
       NextInput, TapeDone, NothingToDo, Dispatch, Dispatched, Wait, Synchronize, Return, Thread,
       CpuStart, CpuCompute, CpuPublish, GpuEncode, SyncCommit, SyncReturn, GpuStep, GpuRun,
       GpuFinish, Handler

LEMMA TypeFrames ==
  ASSUME TypeOK, prog' = prog
  PROVE  /\ UNCHANGED <<call, pc, syncStream>> => HostTypes'
         /\ UNCHANGED <<tape, i, dfs, cur>> => TapeTypes'
         /\ UNCHANGED <<status, event, waiting, counter>> => ArrayTypes'
         /\ UNCHANGED <<queue, phase>> => QueueTypes'
         /\ UNCHANGED <<buffer, ops, committed, handlers>> => BufferTypes'
         /\ UNCHANGED <<n_active, computed, signaled>> => ResultTypes'
<1>g. /\ Node' = Node /\ Call' = Call /\ Array' = Array /\ Event' = Event /\ Tasks' = Tasks
      /\ Buffers' = Buffers /\ Places' = Places
  BY SameGraph
<1> USE <1>g DEF TypeOK
<1>1. UNCHANGED <<call, pc, syncStream>> => HostTypes'
  BY DEF HostTypes
<1>2. UNCHANGED <<tape, i, dfs, cur>> => TapeTypes'
  BY DEF TapeTypes
<1>3. UNCHANGED <<status, event, waiting, counter>> => ArrayTypes'
  BY DEF ArrayTypes
<1>4. UNCHANGED <<queue, phase>> => QueueTypes'
  BY DEF QueueTypes
<1>5. UNCHANGED <<buffer, ops, committed, handlers>> => BufferTypes'
  BY DEF BufferTypes
<1>6. UNCHANGED <<n_active, computed, signaled>> => ResultTypes'
  BY DEF ResultTypes
<1> QED  BY <1>1, <1>2, <1>3, <1>4, <1>5, <1>6

\* Facts about the graph, from the types.
LEMMA Graph ==
  ASSUME TypeOK
  PROVE  /\ prog \in Programs
         /\ \A n \in Node : <<n, 1>> \in Array /\ StreamOf(n) \in Stream
         /\ \A n \in Node : Ins(n) \in Seq(Array)
         /\ \A n \in Node : \A j \in DOMAIN Ins(n) :
              Ins(n)[j] \in Array /\ Ins(n)[j][1] \in Prim /\ Ins(n)[j][1] < n
         /\ \A c \in Call : Sync(c) \in Node \ Prim /\ prog.calls[c].on = Ins(Sync(c))
         /\ \A c \in Call : prog.calls[c].stream \in Stream
         /\ \A a \in Array : /\ a[1] \in Node /\ a \in Siblings(a) /\ StreamOf(a[1]) \in Stream
                             /\ a = <<a[1], a[2]>> /\ a[2] \in Nat
<1>1. prog \in Programs /\ syncStream \in [Call -> Stream]
  BY DEF TypeOK, HostTypes
<1>2. ASSUME NEW n \in Node PROVE Ins(n) \in Seq(Array)
  <2>1. Ins(n) \in Seq(Nat \X Nat) /\ \A j \in DOMAIN Ins(n) : Ins(n)[j] \in Array
    BY <1>1, GraphFacts
  <2>2. Len(Ins(n)) \in Nat /\ DOMAIN Ins(n) = 1 .. Len(Ins(n)) /\ Ins(n) = SubSeq(Ins(n), 1, Len(Ins(n)))
    BY <2>1, LenProperties, SubSeqFull
  <2>3. \A j \in 1 .. Len(Ins(n)) : Ins(n)[j] \in Array
    BY <2>1, <2>2
  <2> QED  BY <2>2, <2>3, SubSeqProperties
<1>3. ASSUME NEW c \in Call PROVE Sync(c) \in Node \ Prim /\ prog.calls[c].on = Ins(Sync(c))
  <2>1. Sync(c) \in Node \ Prim
    BY <1>1, GraphFacts, NodeShape
  <2>2. Ins(Sync(c)) = prog.calls[Sync(c) - Len(prog.prims)].on
    BY <2>1 DEF Ins
  <2>3. Sync(c) - Len(prog.prims) = c
    <3>1. Sync(Sync(c) - Len(prog.prims)) = Sync(c) /\ Sync(c) - Len(prog.prims) \in Call
      BY <1>1, <2>1, GraphFacts, NodeShape
    <3> QED  BY <1>1, <3>1, GraphFacts, NodeShape
  <2> QED  BY <2>1, <2>2, <2>3
<1> QED  BY <1>1, <1>2, <1>3, GraphFacts, ArrayFacts, StreamOfFacts

LEMMA TypeStep ==
  ASSUME TypeOK, Promised, [Next]_vars
  PROVE  TypeOK'
<1>p. prog' = prog
  BY SameProg
<1>g. /\ Node' = Node /\ Call' = Call /\ Array' = Array /\ Event' = Event /\ Tasks' = Tasks
      /\ Buffers' = Buffers /\ Places' = Places
  BY <1>p, SameGraph
<1>f. /\ UNCHANGED <<call, pc, syncStream>> => HostTypes'
      /\ UNCHANGED <<tape, i, dfs, cur>> => TapeTypes'
      /\ UNCHANGED <<status, event, waiting, counter>> => ArrayTypes'
      /\ UNCHANGED <<queue, phase>> => QueueTypes'
      /\ UNCHANGED <<buffer, ops, committed, handlers>> => BufferTypes'
      /\ UNCHANGED <<n_active, computed, signaled>> => ResultTypes'
  BY <1>p, TypeFrames
<1> USE DEF vars, hostVars, tapeVars, threads
<1>1. ASSUME Walk, BuildNext PROVE TypeOK'
  <2>1. PICK k \in DOMAIN On :
           Unscheduled(On[k]) /\ \A l \in 1 .. k-1 : ~Unscheduled(On[l])
    <3>1. On = Ins(Sync(call)) /\ On \in Seq(Array)
      BY <1>1, Graph DEF Walk, On
    <3>2. DOMAIN On = 1 .. Len(On) /\ Len(On) \in Nat
      BY <3>1, SeqFacts
    <3> DEFINE K == {k \in DOMAIN On : Unscheduled(On[k])}
    <3>3. K \subseteq Nat /\ K # {}
      BY <1>1, <3>2 DEF Walk, ToSet
    <3> HIDE DEF K
    <3>4. PICK k \in K : \A l \in K : k <= l
      BY <3>3, LeastOf
    <3>5. k \in DOMAIN On /\ Unscheduled(On[k])
      BY DEF K
    <3>6. ASSUME NEW l \in 1 .. k-1 PROVE ~Unscheduled(On[l])
      <4>1. l \in DOMAIN On /\ ~(k <= l)
        BY <3>2, <3>5
      <4> QED  BY <3>4, <4>1 DEF K
    <3> QED  BY <3>5, <3>6
  <2>2. PICK first \in DOMAIN On :
           syncStream' = [syncStream EXCEPT ![call] = StreamOf(On[first][1])]
    BY <1>1, <2>1 DEF Walk
  <2>3. StreamOf(On[first][1]) \in Stream
    <3>1. On \in Seq(Array)
      BY <1>1, Graph DEF Walk, On
    <3>2. On[first] \in Array
      BY <3>1, SeqFacts
    <3> QED  BY <3>2, Graph
  <2>4. HostTypes'
    BY <1>1, <1>p, <1>g, <2>2, <2>3 DEF Walk, HostTypes, TypeOK
  <2>5. ArrayTypes'
    BY <1>1, <1>f DEF Walk, BuildNext
  <2> QED  BY <1>1, <1>f, <2>4, <2>5 DEF Walk, BuildNext, TypeOK
<1>2. ASSUME Count, BuildNext PROVE TypeOK'
  <2>1. HostTypes'
    BY <1>2, <1>p, <1>g DEF Count, HostTypes, TypeOK
  <2>2. TapeTypes'
    <3>1. <<Sync(call), 1>> \in Array
      BY <1>2, Graph DEF Count, HostTypes, TypeOK
    <3> QED  BY <1>2, <1>p, <1>g, <3>1 DEF Count, TapeTypes, TypeOK
  <2>3. ArrayTypes'
    BY <1>2, <1>p, <1>g DEF Count, BuildNext, ArrayTypes, TypeOK
  <2> QED  BY <1>2, <1>f, <2>1, <2>2, <2>3 DEF Count, BuildNext, TypeOK
<1>3. ASSUME TakeNext, BuildNext PROVE TypeOK'
  <2>1. TapeTypes'
    <3>1. CASE i < Len(tape)
      <4>1. tape \in Seq(Array) /\ i \in Nat /\ dfs \in Seq(Places)
        BY DEF TypeOK, TapeTypes
      <4>2. tape[i + 1] \in Array
        BY <3>1, <4>1
      <4>3. <<tape[i + 1], 1>> \in Places
        BY <4>2 DEF Places
      <4> QED  BY <1>3, <1>g, <3>1, <4>1, <4>3 DEF TakeNext, TapeTypes
    <3>2. CASE ~(i < Len(tape))
      <4>1. tape \in Seq(Array) /\ i \in Nat /\ dfs \in Seq(Places)
        BY DEF TypeOK, TapeTypes
      <4>2. dfs # <<>> => Last(dfs) \in Places /\ Front(dfs) \in Seq(Places)
        BY <4>1, SeqFacts
      <4> QED  BY <1>3, <1>g, <3>2, <4>1, <4>2 DEF TakeNext, TapeTypes
    <3> QED  BY <3>1, <3>2
  <2>2. ArrayTypes'
    BY <1>3, <1>f DEF TakeNext, BuildNext
  <2> QED  BY <1>3, <1>f, <2>1, <2>2 DEF TakeNext, BuildNext, TypeOK
<1>4. ASSUME NextInput, BuildNext PROVE TypeOK'
  <2> DEFINE a == cur[1]  j == cur[2]
  <2>1. TapeTypes'
    <3>1. a \in Array /\ j \in Nat \ {0} /\ a[1] \in Node /\ <<a, j>> = cur
      BY <1>4, Graph DEF NextInput, TypeOK, TapeTypes, Places
    <3>2. \/ tape' = tape
          \/ tape' = Append(tape, Ins(a[1])[j]) /\ j \in DOMAIN Ins(a[1])
      <4>1. j \in DOMAIN Ins(a[1]) \/ j > Len(Ins(a[1]))
        <5>1. Ins(a[1]) \in Seq(Array) /\ j \in Nat \ {0}
          BY <3>1, Graph
        <5> QED  BY <5>1, SeqFacts
      <4> QED  BY <1>4, <4>1 DEF NextInput
    <3>3. dfs' = dfs \/ dfs' = Append(dfs, <<a, j>>)
      BY <1>4 DEF NextInput, PutOff
    <3>4. cur' = NotOn \/ cur' = <<a, j + 1>>
      BY <1>4 DEF NextInput
    <3>5. tape' \in Seq(Array)
      <4>1. tape \in Seq(Array) /\ (j \in DOMAIN Ins(a[1]) => Ins(a[1])[j] \in Array)
        BY <3>1, Graph DEF TypeOK, TapeTypes
      <4> HIDE DEF a, j
      <4> QED  BY <3>2, <4>1
    <3>6. dfs' \in Seq(Places)
      <4>1. dfs \in Seq(Places) /\ <<a, j>> \in Places
        BY <3>1 DEF TypeOK, TapeTypes, Places
      <4> HIDE DEF a, j
      <4> QED  BY <3>3, <4>1
    <3>7. cur' # NotOn => cur' \in Places
      BY <3>1, <3>4 DEF Places
    <3> QED  BY <1>4, <1>g, <3>5, <3>6, <3>7 DEF NextInput, TypeOK, TapeTypes
  <2>2. ArrayTypes'
    BY <1>4, <1>f DEF NextInput, BuildNext
  <2> QED  BY <1>4, <1>f, <2>1, <2>2 DEF NextInput, BuildNext, TypeOK
<1>5. ASSUME TapeDone, BuildNext PROVE TypeOK'
  <2>1. HostTypes'
    BY <1>5, <1>p, <1>g DEF TapeDone, HostTypes, TypeOK
  <2>2. ArrayTypes'
    BY <1>5, <1>f DEF TapeDone, BuildNext
  <2> QED  BY <1>5, <1>f, <2>1, <2>2 DEF TapeDone, BuildNext, TypeOK
<1>6. ASSUME NothingToDo PROVE TypeOK'
  <2>1. HostTypes'
    BY <1>6, <1>p, <1>g DEF NothingToDo, HostTypes, TypeOK
  <2>2. ArrayTypes'
    <3>1. On \in Seq(Array)
      BY <1>6, Graph DEF NothingToDo, On
    <3> QED  BY <1>6, <1>p, <1>g, <3>1 DEF NothingToDo, ArrayTypes, TypeOK
  <2> QED  BY <1>6, <1>f, <2>1, <2>2 DEF NothingToDo, TypeOK
<1>7. ASSUME Dispatch PROVE TypeOK'
  <2> DEFINE arr == Last(tape)  s == StreamOf(arr[1])
             task == [arr |-> arr, signal |-> arr \in needs_signal]
  <2>1. arr \in Array /\ Front(tape) \in Seq(Array) /\ s \in Stream
    BY <1>7, SeqFacts, Graph DEF Dispatch, TypeOK, TapeTypes
  <2>2. TapeTypes'
    BY <1>7, <1>g, <2>1 DEF Dispatch, TypeOK, TapeTypes
  <2>3. QueueTypes'
    <3>1. task \in Tasks
      BY <2>1 DEF Tasks
    <3>2. queue' = [queue EXCEPT ![s] = Append(@, task)] /\ phase' = phase
      BY <1>7 DEF Dispatch
    <3> HIDE DEF task, s
    <3> QED  BY <1>g, <2>1, <3>1, <3>2 DEF QueueTypes, TypeOK
  <2>4. ArrayTypes'
    <3>1. /\ counter' = [counter EXCEPT ![s] = @ + 1]
          /\ event' = Attach(arr, <<call, s, counter'[s]>>)
          /\ status' = [a \in Array |-> IF a \in Siblings(arr) THEN "scheduled" ELSE status[a]]
          /\ waiting' = waiting /\ call \in Call
      BY <1>7 DEF Dispatch, TypeOK, HostTypes
    <3> HIDE DEF arr, s
    <3>2. counter' \in [Stream -> Nat]
      BY <2>1, <3>1 DEF TypeOK, ArrayTypes
    <3>3. <<call, s, counter'[s]>> \in Event
      BY <2>1, <3>1, <3>2 DEF Event
    <3>4. event' \in [Array -> Event]
      BY <3>1, <3>3 DEF Attach, TypeOK, ArrayTypes
    <3> QED  BY <1>g, <3>1, <3>2, <3>4 DEF TypeOK, ArrayTypes, Status
  <2> QED  BY <1>7, <1>f, <2>2, <2>3, <2>4 DEF Dispatch, TypeOK
<1>8. ASSUME Dispatched PROVE TypeOK'
  <2>1. HostTypes'
    BY <1>8, <1>p, <1>g DEF Dispatched, HostTypes, TypeOK
  <2>2. ArrayTypes'
    <3>1. <<Sync(call), 1>> \in Array
      BY <1>8, Graph DEF Dispatched, HostTypes, TypeOK
    <3> QED  BY <1>8, <1>p, <1>g, <3>1 DEF Dispatched, ArrayTypes, TypeOK
  <2> QED  BY <1>8, <1>f, <2>1, <2>2 DEF Dispatched, TypeOK
<1>9. ASSUME Wait PROVE TypeOK'
  <2>1. ArrayTypes'
    BY <1>9, <1>p, <1>g, SeqFacts DEF Wait, ArrayTypes, TypeOK, Status
  <2> QED  BY <1>9, <1>f, <2>1 DEF Wait, TypeOK
<1>10. ASSUME Synchronize PROVE TypeOK'
  <2>1. HostTypes'
    BY <1>10, <1>p, <1>g DEF Synchronize, HostTypes, TypeOK
  <2>2. QueueTypes'
    <3>1. prog.calls[call].stream \in Stream /\ SyncTask \in Tasks
      BY <1>10, Graph DEF Synchronize, Tasks
    <3> QED  BY <1>10, <1>p, <1>g, <3>1 DEF Synchronize, QueueTypes, TypeOK
  <2> QED  BY <1>10, <1>f, <2>1, <2>2 DEF Synchronize, TypeOK
<1>11. ASSUME Return PROVE TypeOK'
  <2>1. HostTypes'
    BY <1>11, <1>p, <1>g DEF Return, HostTypes, TypeOK
  <2> QED  BY <1>11, <1>f, <2>1 DEF Return, TypeOK
<1>12. ASSUME NEW s \in Stream, CpuStart(s) PROVE TypeOK'
  <2>1. QueueTypes'
    BY <1>12, <1>p, <1>g DEF CpuStart, QueueTypes, TypeOK
  <2>2. ResultTypes'
    BY <1>12, <1>p, <1>g DEF CpuStart, ResultTypes, TypeOK
  <2> QED  BY <1>12, <1>f, <2>1, <2>2 DEF CpuStart, TypeOK
<1>t. ASSUME NEW s \in Stream, queue[s] # <<>>
      PROVE  /\ queue[s] \in Seq(Tasks) /\ Task(s) \in Tasks /\ Tail(queue[s]) \in Seq(Tasks)
             /\ Task(s) # SyncTask => Task(s).arr \in Array /\ Task(s).arr[1] \in Node
  <2>1. queue[s] \in Seq(Tasks)
    BY DEF TypeOK, QueueTypes
  <2>2. Task(s) \in Tasks /\ Tail(queue[s]) \in Seq(Tasks)
    BY <1>t, <2>1, SeqFacts DEF Task
  <2>3. Task(s) # SyncTask => Task(s).arr \in Array
    BY <2>2 DEF Tasks
  <2> QED  BY <2>1, <2>2, <2>3, Graph
<1>13. ASSUME NEW s \in Stream, CpuCompute(s) PROVE TypeOK'
  <2>1. QueueTypes'
    BY <1>13, <1>p, <1>g DEF CpuCompute, QueueTypes, TypeOK
  <2>2. ResultTypes'
    BY <1>13, <1>t, <1>p, <1>g DEF CpuCompute, Runs, ResultTypes, TypeOK
  <2> QED  BY <1>13, <1>f, <2>1, <2>2 DEF CpuCompute, TypeOK
<1>e. ASSUME NEW e \in Event PROVE e[3] \in Nat
  BY DEF Event, NoEvent
<1>s. ASSUME NEW e \in Event, Signal(e) \/ UNCHANGED signaled
      PROVE  signaled' \in [Call \X Stream -> Nat]
  BY <1>e, <1>s DEF Signal, TypeOK, ResultTypes
<1>c. ASSUME NEW s \in Stream, NEW nodes \in Seq(Node), NEW e \in Event, NEW counted \in BOOLEAN,
             Commit(s, nodes, e, counted), handlers' = handlers
      PROVE  BufferTypes'
  <2> DEFINE cb == [nodes |-> nodes, event |-> e, counted |-> counted]
  <2>1. cb \in Buffers
    BY DEF Buffers
  <2>2. /\ committed' = [committed EXCEPT ![s] = Append(@, cb)]
        /\ buffer' = [buffer EXCEPT ![s] = <<>>] /\ ops' = [ops EXCEPT ![s] = 0]
    BY <1>c DEF Commit
  <2> HIDE DEF cb
  <2> QED  BY <1>c, <1>g, <2>1, <2>2 DEF TypeOK, BufferTypes
<1>14. ASSUME NEW s \in Stream, CpuPublish(s) PROVE TypeOK'
  <2>1. queue[s] # <<>> /\ Task(s) # SyncTask
    BY <1>14 DEF CpuPublish, Runs
  <2>2. QueueTypes'
    BY <1>14, <1>g, <1>t, <2>1 DEF CpuPublish, Pop, QueueTypes, TypeOK
  <2>3. ArrayTypes'
    BY <1>14, <1>g DEF CpuPublish, hostVars, ArrayTypes, TypeOK, Status
  <2>4. ResultTypes'
    <3>1. event[Task(s).arr] \in Event
      BY <1>t, <2>1 DEF TypeOK, ArrayTypes
    <3>2. signaled' \in [Call \X Stream -> Nat]
      BY <1>14, <1>s, <3>1 DEF CpuPublish
    <3> QED  BY <1>14, <1>g, <3>2 DEF CpuPublish, ResultTypes, TypeOK
  <2> QED  BY <1>14, <1>f, <2>2, <2>3, <2>4 DEF CpuPublish, TypeOK
<1>15. ASSUME NEW s \in Stream, GpuEncode(s) PROVE TypeOK'
  <2> DEFINE task == Task(s)  nodes == Append(buffer[s], task.arr[1])
             e == IF task.signal THEN event[task.arr] ELSE NoEvent
  <2>1. queue[s] # <<>> /\ Task(s) # SyncTask
    BY <1>15 DEF GpuEncode, Runs
  <2>2. task.arr \in Array /\ task.arr[1] \in Node
    BY <1>t, <2>1
  <2>3. nodes \in Seq(Node) /\ e \in Event
    BY <2>2 DEF TypeOK, BufferTypes, ArrayTypes, Event
  <2>4. QueueTypes'
    BY <1>15, <1>g, <1>t, <2>1 DEF GpuEncode, Pop, QueueTypes, TypeOK
  <2>5. ArrayTypes'
    BY <1>15, <1>g DEF GpuEncode, hostVars, ArrayTypes, TypeOK, Status
  <2>6. BufferTypes' /\ ResultTypes'
    <3>1. CASE Commits(s, task)
      <4>1. Commit(s, nodes, e, TRUE) /\ n_active' = n_active + 1 /\ UNCHANGED <<handlers, computed, signaled>>
        BY <1>15, <3>1 DEF GpuEncode
      <4> HIDE DEF nodes, e, task
      <4>2. BufferTypes'
        BY <1>c, <2>3, <4>1
      <4>3. ResultTypes'
        BY <1>g, <4>1 DEF ResultTypes, TypeOK
      <4> QED  BY <4>2, <4>3
    <3>2. CASE ~Commits(s, task)
      <4>1. /\ buffer' = [buffer EXCEPT ![s] = nodes]
            /\ ops' = [ops EXCEPT ![s] = @ + 1]
            /\ UNCHANGED <<committed, n_active, handlers, computed, signaled>>
        BY <1>15, <3>2 DEF GpuEncode
      <4> HIDE DEF nodes, e, task
      <4>2. BufferTypes'
        BY <1>g, <2>3, <4>1 DEF BufferTypes, TypeOK
      <4> QED  BY <1>f, <4>1, <4>2
    <3> QED  BY <3>1, <3>2
  <2> QED  BY <1>15, <1>f, <2>4, <2>5, <2>6 DEF GpuEncode, TypeOK
<1>16. ASSUME NEW s \in Stream, SyncCommit(s) PROVE TypeOK'
  <2>1. BufferTypes'
    <3>1. buffer[s] \in Seq(Node) /\ NoEvent \in Event
      BY DEF TypeOK, BufferTypes, Event
    <3> QED  BY <1>16, <1>c, <3>1 DEF SyncCommit
  <2>2. QueueTypes'
    BY <1>16, <1>g DEF SyncCommit, QueueTypes, TypeOK
  <2> QED  BY <1>16, <1>f, <2>1, <2>2 DEF SyncCommit, TypeOK
<1>17. ASSUME NEW s \in Stream, SyncReturn(s), pc = "promise" PROVE TypeOK'
  <2>1. HostTypes'
    BY <1>17, <1>p, <1>g DEF SyncReturn, HostTypes, TypeOK
  <2>2. QueueTypes'
    BY <1>17, <1>g, <1>t DEF SyncReturn, Pop, QueueTypes, TypeOK
  <2> QED  BY <1>17, <1>f, <2>1, <2>2 DEF SyncReturn, TypeOK
<1>r. ASSUME NEW s \in Stream, committed[s] # <<>>
      PROVE  /\ Head(committed[s]) \in Buffers
             /\ Tail(committed[s]) \in Seq(Buffers)
             /\ committed[s][1] = Head(committed[s])
  <2>1. committed[s] \in Seq(Buffers)
    BY DEF TypeOK, BufferTypes
  <2> QED  BY <1>r, <2>1, SeqFacts
<1>18. ASSUME NEW s \in Stream, GpuRun(s) PROVE TypeOK'
  <2> DEFINE cb == Head(committed[s])  rest == Tail(committed[s])
  <2>1. /\ cb \in Buffers /\ rest \in Seq(Buffers) /\ cb.nodes # <<>>
        /\ computed' = computed \cup {Head(cb.nodes)}
        /\ committed' = [committed EXCEPT ![s] = <<[cb EXCEPT !.nodes = Tail(cb.nodes)]>> \o rest]
    BY <1>18, <1>r DEF GpuRun
  <2>2. Head(cb.nodes) \in Node /\ Tail(cb.nodes) \in Seq(Node)
    BY <2>1, SeqFacts DEF Buffers
  <2>3. <<[cb EXCEPT !.nodes = Tail(cb.nodes)]>> \o rest \in Seq(Buffers)
    <3> HIDE DEF cb, rest
    <3>1. [cb EXCEPT !.nodes = Tail(cb.nodes)] \in Buffers
      BY <2>1, <2>2 DEF Buffers
    <3> QED  BY <2>1, <3>1
  <2>4. BufferTypes'
    <3> HIDE DEF cb, rest
    <3> QED  BY <1>18, <1>g, <2>1, <2>3 DEF GpuRun, BufferTypes, TypeOK
  <2>5. ResultTypes'
    <3> HIDE DEF cb
    <3> QED  BY <1>18, <1>g, <2>1, <2>2 DEF GpuRun, ResultTypes, TypeOK
  <2> QED  BY <1>18, <1>f, <2>4, <2>5 DEF GpuRun, TypeOK
<1>19. ASSUME NEW s \in Stream, GpuFinish(s) PROVE TypeOK'
  <2>1. /\ Head(committed[s]).event \in Event
        /\ Tail(committed[s]) \in Seq(Buffers)
    BY <1>19, <1>r DEF GpuFinish, Buffers
  <2>2. BufferTypes'
    <3>1. handlers' \in [Stream -> Nat]
      BY <1>19 DEF GpuFinish, BufferTypes, TypeOK
    <3> QED  BY <1>19, <1>g, <2>1, <3>1 DEF GpuFinish, BufferTypes, TypeOK
  <2>3. signaled' \in [Call \X Stream -> Nat]
    BY <1>19, <1>s, <2>1 DEF GpuFinish
  <2>4. ResultTypes'
    BY <1>19, <1>g, <2>3 DEF GpuFinish, ResultTypes, TypeOK
  <2> QED  BY <1>19, <1>f, <2>2, <2>4 DEF GpuFinish, TypeOK
<1>20. ASSUME NEW s \in Stream, Handler(s) PROVE TypeOK'
  <2>1. BufferTypes'
    <3>1. handlers' \in [Stream -> Nat]
      BY <1>20 DEF Handler, BufferTypes, TypeOK
    <3> QED  BY <1>20, <1>g, <3>1 DEF Handler, BufferTypes, TypeOK
  <2>2. ResultTypes'
    BY <1>20, <1>g DEF Handler, ResultTypes, TypeOK
  <2> QED  BY <1>20, <1>f, <2>1, <2>2 DEF Handler, TypeOK
<1>21. ASSUME UNCHANGED vars PROVE TypeOK'
  BY <1>21, <1>f DEF TypeOK
<1>22. ASSUME NEW s \in Stream, SyncReturn(s) PROVE pc = "promise"
  <2>1. queue[s] \in Seq(Tasks) /\ queue[s] # <<>> /\ queue[s][1] = SyncTask
    BY <1>22 DEF SyncReturn, Task, TypeOK, QueueTypes
  <2>2. 1 \in DOMAIN queue[s]
    BY <2>1
  <2> QED  BY <2>1, <2>2 DEF Promised
<1> HIDE DEF vars, hostVars, tapeVars, threads
<1>23. CASE BuildNext
  BY <1>23, <1>1, <1>2, <1>3, <1>4, <1>5 DEF BuildNext, BuildTape
<1>24. CASE \E s \in Stream : Thread(s) \/ GpuStep(s) \/ Handler(s)
  BY <1>24, <1>12, <1>13, <1>14, <1>15, <1>16, <1>17, <1>18, <1>19, <1>20, <1>22 DEF Thread, GpuStep
<1> QED  BY <1>6, <1>7, <1>8, <1>9, <1>10, <1>11, <1>21, <1>23, <1>24 DEF Next, Host
-----------------------------------------------------------------------------
(* Who is scheduled when. *)

\* Only Dispatch schedules anything, and it schedules one node.
LEMMA ScheduleStep ==
  ASSUME TypeOK, Shared, OnceScheduled, [Next]_vars
  PROVE  \/ Dispatch /\ \A a \in Array : Unscheduled(a)' <=> Unscheduled(a) /\ a[1] # Last(tape)[1]
         \/ ~Dispatch /\ \A a \in Array : Unscheduled(a)' <=> Unscheduled(a)
<1>0. ASSUME UNCHANGED status PROVE \A a \in Array : Unscheduled(a)' <=> Unscheduled(a)
  BY <1>0 DEF Unscheduled
<1>1. CASE Dispatch
  <2>1. Last(tape) \in Array
    BY <1>1, SeqFacts DEF Dispatch, TypeOK, TapeTypes
  <2>2. \A a \in Array : a \in Siblings(Last(tape)) <=> a[1] = Last(tape)[1]
    BY <2>1, ArrayFacts DEF TypeOK, HostTypes
  <2>3. status' = [a \in Array |-> IF a \in Siblings(Last(tape)) THEN "scheduled" ELSE status[a]]
    BY <1>1 DEF Dispatch
  <2> QED  BY <1>1, <2>2, <2>3 DEF Unscheduled
<1>2. ASSUME Wait PROVE \A a \in Array : Unscheduled(a)' <=> Unscheduled(a)
  <2>1. waiting \in Seq(Array) /\ waiting # <<>> /\ status \in [Array -> Status]
    BY <1>2 DEF Wait, TypeOK, ArrayTypes
  <2>2. 1 \in DOMAIN waiting /\ Head(waiting) = waiting[1] /\ Head(waiting) \in Array
    BY <2>1
  <2>3. ~Unscheduled(Head(waiting))
    BY <2>2 DEF OnceScheduled
  <2> QED  BY <1>2, <2>1, <2>2, <2>3 DEF Wait, Unscheduled
<1>3. ASSUME NEW s \in Stream, Runs(s, "idle") \/ Runs(s, "computed"), NEW to \in {"available", "evaluated"},
             status' = [a \in Array |-> IF a \in Siblings(Task(s).arr) THEN to ELSE status[a]]
      PROVE  \A a \in Array : Unscheduled(a)' <=> Unscheduled(a)
  <2>1. queue[s] \in Seq(Tasks) /\ queue[s] # <<>> /\ Task(s) # SyncTask
    BY <1>3 DEF Runs, TypeOK, QueueTypes
  <2>2. 1 \in DOMAIN queue[s] /\ Task(s) = queue[s][1] /\ Task(s) \in Tasks
    BY <2>1 DEF Task
  <2>3. ~Unscheduled(Task(s).arr) /\ Task(s).arr \in Array
    BY <2>1, <2>2 DEF OnceScheduled, Tasks
  <2>4. \A a \in Array : a \in Siblings(Task(s).arr) <=> a[1] = Task(s).arr[1]
    BY <2>3, ArrayFacts DEF TypeOK, HostTypes
  <2> QED  BY <1>3, <2>3, <2>4 DEF Unscheduled, Shared
<1>4. \/ Dispatch \/ Wait \/ UNCHANGED status
      \/ \E s \in Stream : CpuPublish(s) \/ GpuEncode(s)
  BY DEF Next, vars, hostVars, threads, tapeVars, Host, BuildNext, BuildTape, Walk, Count, TakeNext,
         NextInput, TapeDone, NothingToDo, Dispatched, Synchronize, Return, Thread, CpuStart,
         CpuCompute, SyncCommit, SyncReturn, GpuStep, GpuRun, GpuFinish, Handler
<1>5. ASSUME NEW s \in Stream, CpuPublish(s) \/ GpuEncode(s)
      PROVE  \A a \in Array : Unscheduled(a)' <=> Unscheduled(a)
  <2>1. CASE CpuPublish(s)
    BY <1>3, <2>1 DEF CpuPublish
  <2>2. CASE GpuEncode(s)
    BY <1>3, <2>2 DEF GpuEncode
  <2> QED  BY <1>5, <2>1, <2>2
<1> QED  BY <1>0, <1>1, <1>2, <1>4, <1>5
LEMMA SharedStep ==
  ASSUME TypeOK, Shared, OnceScheduled, [Next]_vars
  PROVE  Shared'
<1>1. Array' = Array
  BY SameProg, SameGraph
<1> QED  BY <1>1, ScheduleStep DEF Shared

\* What is dispatched is a primitive or the call's synchronizer.
LEMMA DispatchedNode ==
  ASSUME TypeOK, ToDispatchInv, Dispatch
  PROVE  /\ Last(tape) \in Array /\ Last(tape)[1] \in Walked(Root) /\ Unscheduled(<<Last(tape)[1], 1>>)
         /\ Last(tape)[1] \in Prim \cup {Root}
<1>1. call \in Call /\ Root \in Node /\ prog \in Programs
  BY Graph DEF Dispatch, TypeOK, HostTypes, Root
<1>2. tape \in Seq(Array) /\ Len(tape) \in DOMAIN tape /\ Last(tape) \in Array
  BY SeqFacts DEF Dispatch, TypeOK, TapeTypes
<1>3. Last(tape)[1] \in {a[1] : a \in ToSet(tape)}
  BY <1>2 DEF ToSet, Last
<1>4. Last(tape)[1] \in Walked(Root) /\ Unscheduled(<<Last(tape)[1], 1>>)
  BY <1>3 DEF ToDispatchInv, Dispatch
<1>5. ASSUME Last(tape)[1] # Root PROVE Last(tape)[1] \in Prim
  <2>1. PICK u \in Uses(Root) : Input(u)[1] = Last(tape)[1]
    BY <1>1, <1>4, <1>5, WalkedUsed
  <2> QED  BY <1>1, <2>1, UsesFacts
<1> QED  BY <1>2, <1>4, <1>5

LEMMA SyncsAheadStep ==
  ASSUME TypeOK, Shared, OnceScheduled, SyncsAhead, ToDispatchInv, [Next]_vars
  PROVE  SyncsAhead'
<1> SUFFICES ASSUME NEW c \in Call,
                    c > call' \/ (c = call' /\ pc' \in {"call", "walked", "tape"})
             PROVE  status'[<<Sync(c), 1>>] = "unscheduled"
  <2>1. Call' = Call /\ \A c : Sync(c)' = Sync(c)
    BY SameProg, SameGraph
  <2>2. (\A c \in Call : c > call' \/ (c = call' /\ pc' \in {"call", "walked", "tape"})
                           => status'[<<Sync(c), 1>>] = "unscheduled") => SyncsAhead'
    BY <2>1 DEF SyncsAhead, Unscheduled
  <2> QED  BY <2>2
<1>1. call \in Nat /\ c \in Nat /\ Call \subseteq Nat
  BY GraphFacts, NodeShape DEF TypeOK, HostTypes
<1>d. Dispatch => call' = call /\ pc' = "dispatch"
  BY DEF Dispatch
<1>2. \/ call' = call + 1
      \/ call' = call /\ (pc' \in {"call", "walked", "tape"} => pc \in {"call", "walked", "tape"})
  BY DEF Next, vars, hostVars, threads, tapeVars, Host, BuildNext, BuildTape, Walk, Count, TakeNext,
         NextInput, TapeDone, NothingToDo, Dispatch, Dispatched, Wait, Synchronize, Return, Thread,
         CpuStart, CpuCompute, CpuPublish, GpuEncode, SyncCommit, SyncReturn, GpuStep, GpuRun,
         GpuFinish, Handler
<1>3. Unscheduled(<<Sync(c), 1>>)
  BY <1>1, <1>2 DEF SyncsAhead
<1>4. <<Sync(c), 1>> \in Array /\ Sync(c) \notin Prim
  BY Graph
<1>5. ASSUME Dispatch PROVE Sync(c) # Last(tape)[1]
  <2>1. c # call /\ call \in Call
    BY <1>1, <1>d, <1>5 DEF Dispatch, TypeOK, HostTypes
  <2>2. Sync(c) # Root
    BY <2>1, GraphFacts, NodeShape DEF Root, TypeOK, HostTypes
  <2> QED  BY <1>4, <1>5, <2>2, DispatchedNode
<1> QED  BY <1>3, <1>4, <1>5, ScheduleStep DEF Unscheduled

LEMMA OnceScheduledStep ==
  ASSUME TypeOK, Shared, OnceScheduled, ToDispatchInv, [Next]_vars
  PROVE  OnceScheduled'
<1>1. \A a \in Array : status[a] # "unscheduled" => status'[a] # "unscheduled"
  BY ScheduleStep DEF Unscheduled
<1>2. ASSUME NEW s \in Stream, NEW k \in DOMAIN queue'[s], queue'[s][k] # SyncTask
      PROVE  status'[queue'[s][k].arr] # "unscheduled"
  <2>1. queue[s] \in Seq(Tasks)
    BY DEF TypeOK, QueueTypes
  <2>2. ASSUME NEW l \in DOMAIN queue[s], queue[s][l] = queue'[s][k]
        PROVE  status'[queue'[s][k].arr] # "unscheduled"
    <3>1. queue[s][l].arr \in Array /\ ~Unscheduled(queue[s][l].arr)
      BY <1>2, <2>1, <2>2 DEF OnceScheduled, Tasks
    <3> QED  BY <1>1, <2>2, <3>1 DEF Unscheduled
  <2>3. ASSUME NEW task, queue'[s] = Append(queue[s], task) 
        PROVE  (k \in DOMAIN queue[s] /\ queue'[s][k] = queue[s][k]) \/ queue'[s][k] = task
    BY <2>1, <2>3
  <2>4. ASSUME queue'[s] = Tail(queue[s]), queue[s] # <<>> PROVE k + 1 \in DOMAIN queue[s] /\ queue'[s][k] = queue[s][k + 1]
    BY <2>1, <2>4
  <2>5. ASSUME Dispatch PROVE status'[queue'[s][k].arr] # "unscheduled"
    <3> DEFINE t == StreamOf(Last(tape)[1])
               task == [arr |-> Last(tape), signal |-> Last(tape) \in needs_signal]
    <3>1. queue' = [queue EXCEPT ![t] = Append(@, task)]
      BY <2>5 DEF Dispatch
    <3>2. queue'[s] = queue[s] \/ queue'[s] = Append(queue[s], task)
      BY <3>1 DEF TypeOK, QueueTypes
    <3>3. status'[Last(tape)] # "unscheduled" /\ task.arr = Last(tape)
      BY <2>5, DispatchedNode, ScheduleStep DEF Unscheduled
    <3> HIDE DEF task
    <3> QED  BY <2>2, <2>3, <3>2, <3>3
  <2>6. ASSUME Synchronize PROVE status'[queue'[s][k].arr] # "unscheduled"
    <3>1. queue'[s] = queue[s] \/ queue'[s] = Append(queue[s], SyncTask)
      BY <2>6 DEF Synchronize, TypeOK, QueueTypes
    <3> QED  BY <1>2, <2>2, <2>3, <3>1
  <2>7. \/ Dispatch \/ Synchronize \/ queue' = queue
        \/ \E t \in Stream : queue[t] # <<>> /\ Pop(t)
    BY DEF Next, vars, hostVars, threads, tapeVars, Host, BuildNext, BuildTape, Walk, Count, TakeNext,
         NextInput, TapeDone, NothingToDo, Dispatched, Wait, Return, Thread, Runs,
         CpuStart, CpuCompute, CpuPublish, GpuEncode, SyncCommit, SyncReturn, GpuStep, GpuRun,
         GpuFinish, Handler
  <2>8. ASSUME NEW t \in Stream, queue[t] # <<>>, Pop(t) PROVE status'[queue'[s][k].arr] # "unscheduled"
    <3>1. queue'[s] = queue[s] \/ (queue[s] # <<>> /\ queue'[s] = Tail(queue[s]))
      BY <2>8 DEF Pop, TypeOK, QueueTypes
    <3> QED  BY <2>2, <2>4, <3>1
  <2> QED  BY <2>2, <2>5, <2>6, <2>7, <2>8
<1>3. ASSUME NEW k \in DOMAIN waiting' PROVE status'[waiting'[k]] # "unscheduled"
  <2>1. waiting \in Seq(Array)
    BY DEF TypeOK, ArrayTypes
  <2>2. ASSUME UNCHANGED waiting PROVE status'[waiting'[k]] # "unscheduled"
    BY <1>1, <2>1, <2>2 DEF OnceScheduled, Unscheduled
  <2>3. ASSUME Wait PROVE status'[waiting'[k]] # "unscheduled"
    <3>1. waiting' = Tail(waiting) /\ waiting # <<>>
      BY <2>3 DEF Wait
    <3>2. k + 1 \in DOMAIN waiting /\ waiting'[k] = waiting[k + 1]
      BY <2>1, <3>1
    <3> QED  BY <1>1, <2>1, <3>2 DEF OnceScheduled, Unscheduled
  <2>4. ASSUME NothingToDo PROVE status'[waiting'[k]] # "unscheduled"
    <3>1. waiting' = On \/ waiting' = <<>>
      BY <2>4 DEF NothingToDo
    <3>2. On \in Seq(Array) /\ \A l \in DOMAIN On : ~Unscheduled(On[l])
      BY <2>4, Graph DEF NothingToDo, On, ToSet
    <3> QED  BY <1>1, <3>1, <3>2 DEF Unscheduled
  <2>5. ASSUME Dispatched PROVE status'[waiting'[k]] # "unscheduled"
    <3>1. waiting'[k] = <<Root, 1>>
      BY <2>5 DEF Dispatched, Root
    <3>2. Root \in Node /\ <<Root, 1>> \in Array /\ prog \in Programs
      BY <2>5, Graph DEF Dispatched, TypeOK, HostTypes, Root
    <3>3. Root \in Walked(Root)
      BY <3>2, WalkedFacts
    <3>4. {a[1] : a \in ToSet(tape)} = {}
      BY <2>5 DEF Dispatched, ToSet
    <3>5. ~Unscheduled(<<Root, 1>>)
      BY <2>5, <3>3, <3>4 DEF ToDispatchInv, Dispatched
    <3> QED  BY <1>1, <3>1, <3>2, <3>5 DEF Unscheduled
  <2>6. NothingToDo \/ Dispatched \/ Wait \/ UNCHANGED waiting
    BY DEF Next, vars, hostVars, threads, tapeVars, Host, BuildNext, BuildTape, Walk, Count, TakeNext,
         NextInput, TapeDone, Dispatch, Synchronize, Return, Thread,
         CpuStart, CpuCompute, CpuPublish, GpuEncode, SyncCommit, SyncReturn, GpuStep, GpuRun,
         GpuFinish, Handler
  <2> QED  BY <2>2, <2>3, <2>4, <2>5, <2>6
<1> QED  BY <1>2, <1>3 DEF OnceScheduled, Unscheduled

LEMMA PromisedStep ==
  ASSUME TypeOK, Promised, [Next]_vars
  PROVE  Promised'
<1> SUFFICES ASSUME NEW s \in Stream, NEW k \in DOMAIN queue'[s], queue'[s][k] = SyncTask
             PROVE  pc' = "promise" /\ s = prog.calls[call'].stream /\ k = Len(queue'[s])
  BY SameProg DEF Promised
<1>1. queue[s] \in Seq(Tasks)
  BY DEF TypeOK, QueueTypes
<1>2. ASSUME Synchronize PROVE pc' = "promise" /\ s = prog.calls[call'].stream /\ k = Len(queue'[s])
  <2>1. queue'[s] = IF s = prog.calls[call].stream THEN Append(queue[s], SyncTask) ELSE queue[s]
    BY <1>2 DEF Synchronize, TypeOK, QueueTypes
  <2>2. \A l \in DOMAIN queue[s] : queue[s][l] # SyncTask
    BY <1>2 DEF Promised, Synchronize
  <2> QED  BY <1>1, <1>2, <2>1, <2>2 DEF Synchronize
<1>3. ASSUME Dispatch PROVE FALSE
  <2> DEFINE t == StreamOf(Last(tape)[1])
             task == [arr |-> Last(tape), signal |-> Last(tape) \in needs_signal]
  <2>1. Last(tape) \in Array
    BY <1>3, SeqFacts DEF Dispatch, TypeOK, TapeTypes
  <2>2. Last(tape) # <<0, 0>>
    BY <2>1, ArrayFacts DEF TypeOK, HostTypes
  <2>3. task # SyncTask
    BY <2>2 DEF SyncTask
  <2>4. queue' = [queue EXCEPT ![t] = Append(@, task)]
    BY <1>3 DEF Dispatch
  <2>5. \A l \in DOMAIN queue[s] : queue[s][l] # SyncTask
    BY <1>3 DEF Promised, Dispatch
  <2> HIDE DEF task, t
  <2>6. queue'[s] = queue[s] \/ queue'[s] = Append(queue[s], task)
    BY <2>4 DEF TypeOK, QueueTypes
  <2> QED  BY <1>1, <2>3, <2>5, <2>6
<1>4. ASSUME NEW t \in Stream, queue[t] # <<>>, Pop(t), call' = call,
             (Task(t) = SyncTask) \/ pc' = pc
      PROVE  pc' = "promise" /\ s = prog.calls[call'].stream /\ k = Len(queue'[s])
  <2>1. CASE t = s
    <3>1. queue'[s] = Tail(queue[s]) /\ queue[s] # <<>>
      BY <1>4, <2>1 DEF Pop, TypeOK, QueueTypes
    <3>2. k + 1 \in DOMAIN queue[s] /\ queue[s][k + 1] = SyncTask /\ Len(queue'[s]) = Len(queue[s]) - 1
      BY <1>1, <3>1
    <3>3. k + 1 = Len(queue[s]) /\ pc = "promise" /\ s = prog.calls[call].stream
      BY <3>2 DEF Promised
    <3>4. Task(t) # SyncTask
      <4>1. 1 \in DOMAIN queue[s] /\ Task(t) = queue[s][1] /\ 1 # Len(queue[s])
        BY <1>1, <2>1, <3>1, <3>2, <3>3 DEF Task
      <4> QED  BY <4>1 DEF Promised
    <3> QED  BY <1>1, <1>4, <3>2, <3>3, <3>4
  <2>2. CASE t # s
    <3>1. queue'[s] = queue[s]
      BY <1>4, <2>2 DEF Pop, TypeOK, QueueTypes
    <3>2. pc = "promise" /\ s = prog.calls[call].stream /\ k = Len(queue[s])
      BY <3>1 DEF Promised
    <3>3. Task(t) # SyncTask
      <4>1. queue[t] \in Seq(Tasks)
        BY DEF TypeOK, QueueTypes
      <4>2. 1 \in DOMAIN queue[t] /\ Task(t) = queue[t][1]
        BY <1>4, <4>1 DEF Task
      <4> QED  BY <2>2, <3>2, <4>2 DEF Promised
    <3> QED  BY <1>4, <3>1, <3>2, <3>3
  <2> QED  BY <2>1, <2>2
<1>5. ASSUME queue' = queue, call' = call, pc' = pc \/ pc # "promise"
      PROVE  pc' = "promise" /\ s = prog.calls[call'].stream /\ k = Len(queue'[s])
  BY <1>5 DEF Promised
<1>6. ASSUME queue' = queue, pc # "promise" PROVE FALSE
  BY <1>6 DEF Promised
<1>7. \/ Dispatch \/ Synchronize
      \/ queue' = queue /\ ((call' = call /\ pc' = pc) \/ pc # "promise")
      \/ \E t \in Stream : /\ queue[t] # <<>> /\ Pop(t) /\ call' = call
                           /\ (Task(t) = SyncTask) \/ pc' = pc
  BY DEF Next, vars, hostVars, threads, tapeVars, Host, BuildNext, BuildTape, Walk, Count, TakeNext,
         NextInput, TapeDone, NothingToDo, Dispatched, Wait, Return, Thread, Runs,
         CpuStart, CpuCompute, CpuPublish, GpuEncode, SyncCommit, SyncReturn, GpuStep, GpuRun,
         GpuFinish, Handler
<1> QED  BY <1>2, <1>3, <1>4, <1>5, <1>6, <1>7
-----------------------------------------------------------------------------
(* The tape. *)

\* What defines the walk that counts, in every state.
WalkDefined ==
  prog \in Programs =>
    \A r \in Node :
      /\ Walked(r) \subseteq Node
      /\ \A n \in Node : n \in Walked(r) <=>
           n = r \/ \E m \in Node : /\ m > n /\ m \in Walked(r)
                                    /\ \E a \in ToSet(Ins(m)) : a[1] = n /\ Unscheduled(a)

LEMMA WalkedAlways == WalkDefined
BY WalkedFacts DEF WalkDefined

LEMMA WalkedNext ==
  ASSUME prog \in Programs, prog' = prog
  PROVE  \A r \in Node :
           /\ Walked(r)' \subseteq Node
           /\ \A n \in Node : n \in Walked(r)' <=>
                n = r \/ \E m \in Node : /\ m > n /\ m \in Walked(r)'
                                         /\ \E a \in ToSet(Ins(m)) : a[1] = n /\ status'[a] = "unscheduled"
<1>1. Node' = Node /\ \A n : Ins(n)' = Ins(n)
  BY SameGraph
<1>2. WalkDefined'
  BY WalkedAlways, PTL
<1> QED  BY <1>1, <1>2 DEF WalkDefined, Unscheduled

\* The walk shrinks with the arrays that are to be scheduled.
LEMMA WalkShrinks ==
  ASSUME prog \in Programs, prog' = prog, NEW r \in Node,
         \A a \in Array : status'[a] = "unscheduled" => status[a] = "unscheduled"
  PROVE  Walked(r)' \subseteq Walked(r)
<1> DEFINE E == {e \in Node \X Node : \E a \in ToSet(Ins(e[1])) : a[1] = e[2] /\ status'[a] = "unscheduled"}
           F == {e \in Node \X Node : \E a \in ToSet(Ins(e[1])) : a[1] = e[2] /\ Unscheduled(a)}
           V == Walked(r)'
<1>1. PICK N \in Nat : Node = 1 .. N
  BY GraphFacts, NodeShape
<1>2. \A m, n \in Node : <<m, n>> \in E <=> \E a \in ToSet(Ins(m)) : a[1] = n /\ status'[a] = "unscheduled"
  OBVIOUS
<1>3. \A m, n \in Node : <<m, n>> \in F <=> \E a \in ToSet(Ins(m)) : a[1] = n /\ Unscheduled(a)
  OBVIOUS
<1>4. \A m, n \in Node : <<m, n>> \in E => <<m, n>> \in F
  <2> SUFFICES ASSUME NEW m \in Node, NEW a \in ToSet(Ins(m)), status'[a] = "unscheduled"
               PROVE  Unscheduled(a)
    BY <1>2, <1>3
  <2>1. a \in Array
    BY GraphFacts DEF ToSet
  <2> QED  BY <2>1 DEF Unscheduled
<1> HIDE DEF E, F
<1>5. V \subseteq Node /\ \A n \in V : n = r \/ \E m \in V : m > n /\ <<m, n>> \in E
  BY <1>2, WalkedNext
<1>6. \A n \in Node : (n = r \/ \E m \in Walked(r) : m > n /\ <<m, n>> \in F) => n \in Walked(r)
  BY <1>3, WalkedFacts
<1>7. V \subseteq Walked(r)
  <2> HIDE DEF V
  <2>1. ReachedBy(V, N, r, E)
    BY <1>1, <1>5 DEF ReachedBy
  <2>2. ClosedUnder(Walked(r), N, r, E)
    BY <1>1, <1>4, <1>6, WalkedFacts DEF ClosedUnder
  <2> QED  BY <2>1, <2>2, ReachedInClosed
<1> QED  BY <1>7

\* Nothing of a walk changes when nothing is scheduled.
LEMMA SameWalk ==
  ASSUME prog \in Programs, prog' = prog, NEW r \in Node,
         \A a \in Array : Unscheduled(a)' <=> Unscheduled(a)
  PROVE  Walked(r)' = Walked(r) /\ Uses(r)' = Uses(r)
<1> DEFINE E == {e \in Node \X Node : \E a \in ToSet(Ins(e[1])) : a[1] = e[2] /\ Unscheduled(a)}
           V == Walked(r)'
<1>1. PICK N \in Nat : Node = 1 .. N
  BY GraphFacts, NodeShape
<1>2. \A m, n \in Node : <<m, n>> \in E <=> \E a \in ToSet(Ins(m)) : a[1] = n /\ Unscheduled(a)
  OBVIOUS
<1>3. \A m \in Node : \A a \in ToSet(Ins(m)) : a \in Array /\ (Unscheduled(a) <=> status'[a] = "unscheduled")
  <2> SUFFICES ASSUME NEW m \in Node, NEW a \in ToSet(Ins(m)) PROVE a \in Array
    BY DEF Unscheduled
  <2> QED  BY GraphFacts DEF ToSet
<1> HIDE DEF E
<1>4. Walked(r) \subseteq Node /\ \A n \in Walked(r) : n = r \/ \E m \in Walked(r) : m > n /\ <<m, n>> \in E
  BY <1>2, WalkedFacts
<1>5. \A n \in Node : (n = r \/ \E m \in V : m > n /\ <<m, n>> \in E) => n \in V
  <2>1. V \subseteq Node
    BY WalkedNext
  <2>2. \A n \in Node : (n = r \/ \E m \in Node : /\ m > n /\ m \in V
                            /\ \E a \in ToSet(Ins(m)) : a[1] = n /\ status'[a] = "unscheduled") => n \in V
    BY WalkedNext
  <2> HIDE DEF V
  <2>3. ASSUME NEW n \in Node, NEW m \in V, m > n, <<m, n>> \in E PROVE n \in V
    BY <1>2, <1>3, <2>1, <2>2, <2>3
  <2> QED  BY <2>2, <2>3
<1>6. Walked(r) \subseteq V
  <2> HIDE DEF V
  <2>1. ReachedBy(Walked(r), N, r, E)
    BY <1>1, <1>4 DEF ReachedBy
  <2>2. ClosedUnder(V, N, r, E)
    BY <1>1, <1>5 DEF ClosedUnder
  <2> QED  BY <2>1, <2>2, ReachedInClosed
<1>7. V \subseteq Walked(r)
  BY WalkShrinks DEF Unscheduled
<1>8. V = Walked(r)
  BY <1>6, <1>7
<1>9. Uses(r)' = Uses(r)
  <2>1. \A n : Ins(n)' = Ins(n)
    BY SameGraph
  <2>2. \A u \in UNION {{n} \X DOMAIN Ins(n) : n \in Walked(r)} :
           status'[Ins(u[1])[u[2]]] = "unscheduled" <=> Unscheduled(Ins(u[1])[u[2]])
    <3> SUFFICES ASSUME NEW n \in Walked(r), NEW j \in DOMAIN Ins(n)
                 PROVE  status'[Ins(n)[j]] = "unscheduled" <=> Unscheduled(Ins(n)[j])
      OBVIOUS
    <3> QED  BY <1>3, <1>4 DEF ToSet
  <2> QED  BY <1>8, <2>1, <2>2 DEF Uses, Unscheduled
<1> QED  BY <1>8, <1>9
\* While nothing is scheduled the walk of a call is the same.
LEMMA SameRoot ==
  ASSUME TypeOK, call \in Call, prog' = prog, call' = call,
         \A a \in Array : Unscheduled(a)' <=> Unscheduled(a)
  PROVE  /\ Root' = Root /\ Root \in Node \ Prim
         /\ Walked(Root)' = Walked(Root) /\ Uses(Root)' = Uses(Root)
         /\ \A u : Input(u)' = Input(u)
<1>1. Root' = Root /\ Root \in Node \ Prim /\ prog \in Programs
  BY Graph DEF Root, Sync
<1>2. PICK r \in Node : r = Root /\ r = Root'
  BY <1>1
<1>3. Walked(r)' = Walked(r) /\ Uses(r)' = Uses(r)
  BY <1>1, SameWalk
<1>4. Walked(Root)' = Walked(r)' /\ Uses(Root)' = Uses(r)'
  BY <1>2
<1> QED  BY <1>1, <1>2, <1>3, <1>4, SameGraph DEF Input
LEMMA PlaceFacts ==
  /\ \A p \in Places : p # NotOn /\ p[1] \in Array /\ p[2] \in Nat \ {0} /\ p = <<p[1], p[2]>>
  /\ \A a \in Array : \A j \in Nat \ {0} : <<a, j>> \in Places
BY DEF Places, NotOn

\* What the steps of the walk that lays the tape have in common.
LEMMA TapeFacts ==
  ASSUME TypeOK, Shared, SyncsAhead, pc \in {"walked", "tape"}
  PROVE  /\ prog \in Programs /\ call \in Call /\ Root \in Node \ Prim
         /\ Unscheduled(<<Root, 1>>)
         /\ Walked(Root) \subseteq Node /\ Root \in Walked(Root)
         /\ \A n \in Walked(Root) : Unscheduled(<<n, 1>>)
         /\ tape \in Seq(Array) /\ Len(tape) \in Nat /\ DOMAIN tape = 1 .. Len(tape)
         /\ \A k \in DOMAIN tape : tape[k] \in Array
         /\ i \in Nat /\ dfs \in Seq(Places) /\ DOMAIN dfs = 1 .. Len(dfs) /\ Len(dfs) \in Nat
         /\ \A m \in DOMAIN dfs : dfs[m] \in Places
         /\ cur # NotOn => cur \in Places
<1>1. prog \in Programs /\ call \in Call
  BY DEF TypeOK, HostTypes
<1>2. Root \in Node \ Prim
  BY <1>1, Graph DEF Root
<1>3. Unscheduled(<<Root, 1>>)
  BY <1>1 DEF SyncsAhead, Root
<1>4. Walked(Root) \subseteq Node /\ Root \in Walked(Root)
  BY <1>1, <1>2, WalkedFacts
<1>5. \A n \in Walked(Root) : Unscheduled(<<n, 1>>)
  BY <1>1, <1>2, <1>3, WalkedUnscheduled
<1>6. tape \in Seq(Array) /\ dfs \in Seq(Places) /\ i \in Nat /\ (cur # NotOn => cur \in Places)
  BY DEF TypeOK, TapeTypes
<1> QED  BY <1>1, <1>2, <1>3, <1>4, <1>5, <1>6, SeqFacts

LEMMA SamePending ==
  ASSUME TapeInv, pc = "tape", tape' = tape, cache' = cache, Pending' = Pending,
         Root' = Root, Walked(Root)' = Walked(Root), \A u : Input(u)' = Input(u), prog' = prog
  PROVE  CacheCounts' /\ LaidWithLastUse' /\ InputsAfter'
<1>1. \A n : Left(n)' = Left(n)
  BY DEF Left
<1>2. Array' = Array /\ \A n : Ins(n)' = Ins(n)
  BY SameGraph
<1>3. CacheCounts'
  BY <1>1, <1>2 DEF CacheCounts, TapeInv
<1>4. LaidWithLastUse'
  BY <1>1 DEF LaidWithLastUse, TapeInv, OnTape
<1>5. InputsAfter'
  BY <1>2 DEF InputsAfter, TapeInv
<1> QED  BY <1>3, <1>4, <1>5

\* Threads leave the tape alone.
LEMMA TapeStays ==
  ASSUME TypeOK, TapeInv, pc = "tape", prog' = prog, call' = call, UNCHANGED tapeVars,
         \A a \in Array : Unscheduled(a)' <=> Unscheduled(a)
  PROVE  TapeInv'
<1>1. call \in Call
  BY DEF TypeOK, HostTypes
<1>2. /\ Root' = Root /\ Walked(Root)' = Walked(Root) /\ Uses(Root)' = Uses(Root)
      /\ \A u : Input(u)' = Input(u)
  BY <1>1, SameRoot
<1> USE DEF tapeVars
<1>3. \A u : Met(u)' <=> Met(u)
  BY DEF Met
<1>4. Pending' = Pending
  BY <1>2, <1>3 DEF Pending
<1>5. CacheCounts' /\ LaidWithLastUse' /\ InputsAfter'
  BY <1>2, <1>4, SamePending
<1>6. TapeShape' /\ OpenShape'
  BY <1>2 DEF TapeShape, OpenShape, TapeInv
<1> QED  BY <1>5, <1>6 DEF TapeInv

LEMMA TapeBegins ==
  ASSUME TypeOK, Shared, SyncsAhead, Count
  PROVE  TapeInv'
<1>1. /\ prog \in Programs /\ call \in Call /\ Root \in Node \ Prim
      /\ Walked(Root) \subseteq Node /\ Root \in Walked(Root)
  BY TapeFacts DEF Count
<1>2. /\ Root' = Root /\ Walked(Root)' = Walked(Root) /\ Uses(Root)' = Uses(Root)
      /\ \A u : Input(u)' = Input(u)
  BY <1>1, SameRoot DEF Count, Unscheduled
<1>3. /\ tape' = <<<<Root, 1>>>> /\ i' = 0 /\ dfs' = <<>> /\ cur' = NotOn
      /\ prog' = prog /\ cache' = Degrees(Root)
  BY DEF Count, Root
<1>4. Array' = Array /\ \A n : Ins(n)' = Ins(n)
  BY <1>3, SameGraph
<1>5. TapeShape' /\ OpenShape' /\ InputsAfter'
  BY <1>1, <1>2, <1>3, <1>4 DEF TapeShape, OpenShape, InputsAfter
<1>6. Pending' = Uses(Root)
  BY <1>2, <1>3 DEF Pending, Met
<1>7. \A n : Left(n)' = {u \in Uses(Root) : Input(u)[1] = n}
  BY <1>2, <1>6 DEF Left
<1>8. CacheCounts'
  <2>1. \A a \in Array : \A u \in Uses(Root) : Input(u) \in Siblings(a) <=> Input(u)[1] = a[1]
    BY <1>1, ArrayFacts, UsesFacts
  <2>2. \A a \in Array : {u \in Uses(Root) : Ins(u[1])[u[2]] \in Siblings(a)} = Left(a[1])'
    BY <1>7, <2>1 DEF Input
  <2>3. \A a \in Array : (\E u \in Uses(Root) : Ins(u[1])[u[2]] \in Siblings(a)) <=> Left(a[1])' # {}
    BY <2>2
  <2> DEFINE used == {a \in Array : \E u \in Uses(Root) : Ins(u[1])[u[2]] \in Siblings(a)}
  <2>4. Degrees(Root) = [a \in used |->
           Cardinality({u \in Uses(Root) : Ins(u[1])[u[2]] \in Siblings(a)})]
    BY DEF Degrees
  <2>5. used = {a \in Array : Left(a[1])' # {}}
    BY <2>3
  <2> HIDE DEF used
  <2>6. \A a \in used : cache'[a] = Cardinality(Left(a[1])') /\ DOMAIN cache' = used
    BY <1>3, <2>2, <2>4, <2>5
  <2>7. DOMAIN cache' = used
    BY <1>3, <2>4
  <2> QED  BY <1>4, <2>5, <2>6, <2>7 DEF CacheCounts
<1>9. LaidWithLastUse'
  <2> SUFFICES ASSUME NEW n \in Walked(Root), n # Root
               PROVE  Left(n)' # {} /\ ~OnTape(n)'
    BY <1>2 DEF LaidWithLastUse
  <2>1. Left(n)' # {}
    BY <1>1, <1>7, WalkedUsed
  <2>2. ~OnTape(n)'
    BY <1>3 DEF OnTape
  <2> QED  BY <2>1, <2>2
<1> QED  BY <1>5, <1>8, <1>9 DEF TapeInv

\* The steps of the host that lay the tape have this in common.
LEMMA TapeStep ==
  ASSUME TypeOK, TapeInv, pc = "tape", prog' = prog, call' = call, status' = status
  PROVE  /\ Root' = Root /\ Walked(Root)' = Walked(Root) /\ Uses(Root)' = Uses(Root)
         /\ \A u : Input(u)' = Input(u)
         /\ TapeShape /\ OpenShape /\ CacheCounts /\ LaidWithLastUse /\ InputsAfter
<1>1. call \in Call
  BY DEF TypeOK, HostTypes
<1>2. \A a \in Array : Unscheduled(a)' <=> Unscheduled(a)
  BY DEF Unscheduled
<1>3. /\ Root' = Root /\ Walked(Root)' = Walked(Root) /\ Uses(Root)' = Uses(Root)
      /\ \A u : Input(u)' = Input(u)
  BY <1>1, <1>2, SameRoot
<1> QED  BY <1>3 DEF TapeInv

LEMMA TapeTakes ==
  ASSUME TypeOK, Shared, SyncsAhead, TapeInv, TakeNext
  PROVE  TapeInv'
<1>0. pc = "tape" /\ pc' = "tape" /\ cur = NotOn /\ UNCHANGED <<prog, call, status, cache, tape>>
  BY DEF TakeNext
<1>1. /\ Root' = Root /\ Walked(Root)' = Walked(Root) /\ Uses(Root)' = Uses(Root)
      /\ \A u : Input(u)' = Input(u)
      /\ TapeShape /\ OpenShape
  BY <1>0, TapeStep
<1>2. /\ prog \in Programs /\ Root \in Node
      /\ tape \in Seq(Array) /\ Len(tape) \in Nat /\ DOMAIN tape = 1 .. Len(tape)
      /\ \A k \in DOMAIN tape : tape[k] \in Array
      /\ i \in Nat /\ dfs \in Seq(Places) /\ DOMAIN dfs = 1 .. Len(dfs) /\ Len(dfs) \in Nat
      /\ \A m \in DOMAIN dfs : dfs[m] \in Places
  BY <1>0, TapeFacts
<1>3. \A u \in Uses(Root) : u[2] \in Nat \ {0}
  BY <1>2, UsesFacts
<1>4. CASE i < Len(tape)
  <2>1. i' = i + 1 /\ cur' = <<tape[i + 1], 1>> /\ dfs' = dfs
    BY <1>4 DEF TakeNext
  <2>2. i + 1 \in DOMAIN tape /\ cur' # NotOn /\ cur'[1] = tape[i + 1] /\ cur'[2] = 1
    BY <1>2, <1>4, <2>1 DEF NotOn
  <2>3. \A k \in 1 .. i : k \in DOMAIN tape /\ tape[k][1] # tape[i + 1][1]
    BY <1>1, <1>2, <1>4 DEF TapeShape
  <2>4. \A u \in Uses(Root) : Met(u)' <=> Met(u)
    <3> SUFFICES ASSUME NEW u \in Uses(Root) PROVE Met(u)' <=> Met(u)
      OBVIOUS
    <3>1. Met(u)' <=> /\ \E k \in 1 .. i+1 : tape[k][1] = u[1]
                      /\ tape[i + 1][1] = u[1] => u[2] < 1
                      /\ \A m \in DOMAIN dfs : dfs[m][1][1] = u[1] => u[2] < dfs[m][2]
      BY <1>0, <2>1, <2>2 DEF Met
    <3>2. Met(u) <=> /\ \E k \in 1 .. i : tape[k][1] = u[1]
                     /\ \A m \in DOMAIN dfs : dfs[m][1][1] = u[1] => u[2] < dfs[m][2]
      BY <1>0 DEF Met
    <3>3. ~(u[2] < 1) /\ 1 .. i+1 = (1 .. i) \cup {i+1}
      BY <1>2, <1>3
    <3> QED  BY <2>3, <3>1, <3>2, <3>3
  <2>5. TapeShape'
    BY <1>0, <1>1, <1>2, <1>4, <2>1 DEF TapeShape
  <2>6. OpenShape'
    <3>1. \E k \in 1 .. i' : tape'[k] = cur'[1]
      BY <1>0, <1>2, <2>1, <2>2
    <3>2. ASSUME NEW m \in DOMAIN dfs
          PROVE  /\ \E k \in 1 .. i' : tape'[k] = dfs'[m][1]
                 /\ dfs'[m][1][1] # cur'[1][1]
                 /\ \A l \in 1 .. m-1 : dfs'[l][1][1] # dfs'[m][1][1]
      <4>1. PICK k \in 1 .. i : tape[k] = dfs[m][1]
        BY <1>1 DEF OpenShape
      <4>2. k \in 1 .. i+1
        BY <1>2, <4>1
      <4> QED  BY <1>0, <1>1, <2>1, <2>2, <2>3, <4>1, <4>2 DEF OpenShape
    <3> QED  BY <2>1, <3>1, <3>2 DEF OpenShape
  <2>7. Pending' = Pending
    BY <1>1, <2>4 DEF Pending
  <2> QED  BY <1>0, <1>1, <2>5, <2>6, <2>7, SamePending DEF TapeInv
<1>5. CASE ~(i < Len(tape))
  <2>1. dfs # <<>> /\ i' = i /\ cur' = Last(dfs) /\ dfs' = Front(dfs)
    BY <1>5 DEF TakeNext
  <2> DEFINE d == Len(dfs)
  <2>2. d \in DOMAIN dfs /\ cur' = dfs[d] /\ cur' # NotOn
    BY <1>2, <2>1, SeqFacts, PlaceFacts DEF Last
  <2>3. DOMAIN dfs' = 1 .. d-1 /\ \A m \in 1 .. d-1 : dfs'[m] = dfs[m]
    BY <1>2, <2>1, <2>2, SubSeqProperties DEF Front
  <2>4. \A m : m \in DOMAIN dfs <=> m = d \/ m \in 1 .. d-1
    BY <1>2, <2>2
  <2> HIDE DEF d
  <2>5. \A u : Met(u)' <=> Met(u)
    <3> TAKE u
    <3>1. Met(u)' <=> /\ \E k \in 1 .. i : tape[k][1] = u[1]
                      /\ dfs[d][1][1] = u[1] => u[2] < dfs[d][2]
                      /\ \A m \in 1 .. d-1 : dfs[m][1][1] = u[1] => u[2] < dfs[m][2]
      BY <1>0, <2>1, <2>2, <2>3 DEF Met
    <3>2. Met(u) <=> /\ \E k \in 1 .. i : tape[k][1] = u[1]
                     /\ \A m \in DOMAIN dfs : dfs[m][1][1] = u[1] => u[2] < dfs[m][2]
      BY <1>0 DEF Met
    <3> QED  BY <2>4, <3>1, <3>2
  <2>6. TapeShape'
    BY <1>0, <1>1, <2>1 DEF TapeShape
  <2>7. OpenShape'
    <3>1. \E k \in 1 .. i' : tape'[k] = cur'[1]
      BY <1>0, <1>1, <2>1, <2>2 DEF OpenShape
    <3>2. ASSUME NEW m \in 1 .. d-1
          PROVE  /\ \E k \in 1 .. i' : tape'[k] = dfs'[m][1]
                 /\ dfs'[m][1][1] # cur'[1][1]
                 /\ \A l \in 1 .. m-1 : dfs'[l][1][1] # dfs'[m][1][1]
      <4>1. m \in DOMAIN dfs /\ dfs'[m] = dfs[m] /\ \A l \in 1 .. m-1 : l \in 1 .. d-1 /\ dfs'[l] = dfs[l]
        BY <1>2, <2>3, <2>4 DEF d
      <4> QED  BY <1>0, <1>1, <2>1, <2>2, <4>1 DEF OpenShape
    <3> QED  BY <2>3, <3>1, <3>2 DEF OpenShape
  <2>8. Pending' = Pending
    BY <1>1, <2>5 DEF Pending
  <2> QED  BY <1>0, <1>1, <2>6, <2>7, <2>8, SamePending DEF TapeInv
<1> QED  BY <1>4, <1>5

\* Meeting a use counts down, and the last use lays the node on the tape.
LEMMA TapeMeets ==
  ASSUME TypeOK, Shared, SyncsAhead, TapeInv, NextInput
  PROVE  TapeInv'
<1> DEFINE a == cur[1]  n == a[1]  j == cur[2]  in == Ins(n)[j]
<1>0. /\ pc = "tape" /\ pc' = "tape" /\ cur # NotOn /\ i' = i
      /\ prog' = prog /\ call' = call /\ status' = status
  BY DEF NextInput
<1>1. /\ Root' = Root /\ Walked(Root)' = Walked(Root) /\ Uses(Root)' = Uses(Root)
      /\ \A u : Input(u)' = Input(u)
      /\ TapeShape /\ OpenShape /\ CacheCounts /\ LaidWithLastUse /\ InputsAfter
  BY <1>0, TapeStep
<1>2. /\ prog \in Programs /\ Root \in Node \ Prim /\ Walked(Root) \subseteq Node
      /\ \A m \in Walked(Root) : Unscheduled(<<m, 1>>)
      /\ tape \in Seq(Array) /\ Len(tape) \in Nat /\ DOMAIN tape = 1 .. Len(tape)
      /\ \A k \in DOMAIN tape : tape[k] \in Array
      /\ i \in Nat /\ dfs \in Seq(Places) /\ DOMAIN dfs = 1 .. Len(dfs) /\ Len(dfs) \in Nat
      /\ \A m \in DOMAIN dfs : dfs[m] \in Places
      /\ cur \in Places
  BY <1>0, TapeFacts
<1>3. a \in Array /\ n \in Node /\ j \in Nat \ {0} /\ cur = <<a, j>>
  BY <1>2, PlaceFacts, ArrayFacts
<1>4. PICK k0 \in 1 .. i : tape[k0] = a
  BY <1>0, <1>1 DEF OpenShape
<1>5. k0 \in DOMAIN tape /\ n \in Walked(Root) /\ i <= Len(tape)
  BY <1>1, <1>2, <1>4 DEF TapeShape
<1>6. \A m \in DOMAIN dfs : dfs[m][1][1] # n
  BY <1>0, <1>1 DEF OpenShape
<1>7. Array' = Array /\ (\A x : Ins(x)' = Ins(x)) /\ \A x : Siblings(x)' = Siblings(x)
  BY <1>0, SameGraph
<1>8. /\ Ins(n) \in Seq(Nat \X Nat) /\ Len(Ins(n)) \in Nat /\ DOMAIN Ins(n) = 1 .. Len(Ins(n))
  BY <1>2, <1>3, GraphFacts, LenProperties
<1>9. \A u \in Uses(Root) : /\ u = <<u[1], u[2]>> /\ u[2] \in DOMAIN Ins(u[1]) /\ u[2] \in Nat
                            /\ Unscheduled(Ins(u[1])[u[2]])
  BY <1>2, UsesFacts DEF Input
<1>10. \A u : Met(u) <=> /\ \E k \in 1 .. i : tape[k][1] = u[1]
                         /\ n = u[1] => u[2] < j
                         /\ \A m \in DOMAIN dfs : dfs[m][1][1] = u[1] => u[2] < dfs[m][2]
  BY <1>0 DEF Met
<1>st. /\ tape' = tape \/ tape' = Append(tape, in)
       /\ cur' = NotOn \/ cur' = <<a, j + 1>>
  BY DEF NextInput
<1>o. ASSUME dfs' = dfs, \A k \in 1 .. i : tape'[k] = tape[k]
      PROVE  OpenShape'
  <2>1. cur' # NotOn => cur'[1] = a
    BY <1>st
  <2> HIDE DEF a, j, in
  <2> QED  BY <1>0, <1>1, <1>4, <1>6, <1>o, <2>1 DEF OpenShape, n
<1> HIDE DEF a, j, in, n
<1>11. CASE j > Len(Ins(n))
  <2>1. cur' = NotOn /\ UNCHANGED <<cache, tape, dfs>>
    BY <1>11 DEF NextInput, a, n, j
  <2>2. \A u \in Uses(Root) : Met(u)' <=> Met(u)
    <3> SUFFICES ASSUME NEW u \in Uses(Root) PROVE Met(u)' <=> Met(u)
      OBVIOUS
    <3>1. n = u[1] => u[2] < j
      BY <1>3, <1>8, <1>9, <1>11
    <3> QED  BY <1>0, <1>10, <2>1, <3>1 DEF Met
  <2>3. Pending' = Pending
    BY <1>1, <2>2 DEF Pending
  <2>4. TapeShape' /\ OpenShape'
    BY <1>0, <1>1, <1>o, <2>1 DEF TapeShape
  <2> QED  BY <1>0, <1>1, <2>1, <2>3, <2>4, SamePending DEF TapeInv
<1>12. CASE j <= Len(Ins(n)) /\ ~Unscheduled(in)
  <2>0. ~(j > Len(Ins(n)))
    BY <1>3, <1>8, <1>12
  <2>1. cur' = <<a, j + 1>> /\ UNCHANGED <<cache, tape, dfs>>
    BY <1>12, <2>0 DEF NextInput, a, n, j, in
  <2>2. \A u \in Uses(Root) : Met(u)' <=> Met(u)
    <3> SUFFICES ASSUME NEW u \in Uses(Root) PROVE Met(u)' <=> Met(u)
      OBVIOUS
    <3>1. ~(n = u[1] /\ u[2] = j)
      BY <1>9, <1>12 DEF in
    <3>2. n = u[1] => (u[2] < j <=> u[2] < j + 1)
      BY <1>3, <1>9, <3>1
    <3>3. Met(u)' <=> /\ \E k \in 1 .. i : tape[k][1] = u[1]
                      /\ n = u[1] => u[2] < j + 1
                      /\ \A m \in DOMAIN dfs : dfs[m][1][1] = u[1] => u[2] < dfs[m][2]
      BY <1>0, <2>1 DEF Met, n, NotOn
    <3> QED  BY <1>10, <3>2, <3>3
  <2>3. Pending' = Pending
    BY <1>1, <2>2 DEF Pending
  <2>4. TapeShape' /\ OpenShape'
    BY <1>0, <1>1, <1>o, <2>1 DEF TapeShape
  <2> QED  BY <1>0, <1>1, <2>1, <2>3, <2>4, SamePending DEF TapeInv
<1>13. CASE j <= Len(Ins(n)) /\ Unscheduled(in) /\ Len(tape) - i >= MaxWidth
  <2>0. ~(j > Len(Ins(n)))
    BY <1>3, <1>8, <1>13
  <2>1. dfs' = Append(dfs, <<a, j>>) /\ cur' = NotOn /\ UNCHANGED <<cache, tape>>
    BY <1>13, <2>0 DEF NextInput, PutOff, a, n, j, in
  <2> DEFINE d == Len(dfs) + 1
  <2>2. /\ DOMAIN dfs' = 1 .. d /\ d \in Nat /\ dfs'[d] = <<a, j>>
        /\ \A m \in DOMAIN dfs : dfs'[m] = dfs[m]
        /\ \A m : m \in DOMAIN dfs' <=> m = d \/ m \in DOMAIN dfs
    <3>1. <<a, j>> \in Places
      BY <1>3, PlaceFacts
    <3>2. /\ Len(dfs') = d /\ dfs'[d] = <<a, j>> /\ dfs' \in Seq(Places)
          /\ \A m \in 1 .. Len(dfs) : dfs'[m] = dfs[m]
      BY <1>2, <2>1, <3>1, AppendProperties
    <3>3. DOMAIN dfs' = 1 .. d
      BY <3>2, LenProperties
    <3> QED  BY <1>2, <3>2, <3>3
  <2>3. dfs'[d][1][1] = n /\ dfs'[d][1] = a /\ dfs'[d][2] = j
    BY <2>2 DEF n
  <2>4. \A m \in DOMAIN dfs : m < d /\ m # d
    BY <1>2
  <2> HIDE DEF d
  <2>5. \A u : Met(u)' <=> Met(u)
    <3> TAKE u
    <3>1. Met(u)' <=> /\ \E k \in 1 .. i : tape[k][1] = u[1]
                      /\ \A m \in DOMAIN dfs' : dfs'[m][1][1] = u[1] => u[2] < dfs'[m][2]
      BY <1>0, <2>1 DEF Met
    <3> QED  BY <1>10, <2>2, <2>3, <3>1
  <2>6. OpenShape'
    <3>1. ASSUME NEW m \in DOMAIN dfs
          PROVE  /\ \E k \in 1 .. i' : tape'[k] = dfs'[m][1]
                 /\ \A l \in 1 .. m-1 : dfs'[l][1][1] # dfs'[m][1][1]
      <4>1. dfs'[m] = dfs[m] /\ \A l \in 1 .. m-1 : l \in DOMAIN dfs /\ dfs'[l] = dfs[l]
        BY <1>2, <2>2
      <4> QED  BY <1>0, <1>1, <2>1, <4>1 DEF OpenShape
    <3>2. /\ \E k \in 1 .. i' : tape'[k] = dfs'[d][1]
          /\ \A l \in 1 .. d-1 : dfs'[l][1][1] # dfs'[d][1][1]
      <4>1. \A l \in 1 .. d-1 : l \in DOMAIN dfs
        BY <1>2 DEF d
      <4> QED  BY <1>0, <1>4, <1>6, <2>1, <2>2, <2>3, <4>1
    <3> QED  BY <2>1, <2>2, <3>1, <3>2 DEF OpenShape
  <2>7. TapeShape'
    BY <1>0, <1>1, <2>1 DEF TapeShape
  <2>8. Pending' = Pending
    BY <1>1, <2>5 DEF Pending
  <2> QED  BY <1>0, <1>1, <2>1, <2>6, <2>7, <2>8, SamePending DEF TapeInv
<1>14. CASE j <= Len(Ins(n)) /\ Unscheduled(in) /\ ~(Len(tape) - i >= MaxWidth)
  <2>0. ~(j > Len(Ins(n))) /\ j \in DOMAIN Ins(n)
    BY <1>3, <1>8, <1>14
  <2> DEFINE u0 == <<n, j>>
  <2>m. PICK m : m = in[1]
    OBVIOUS
  <2>1. /\ in \in DOMAIN cache
        /\ cur' = <<a, j + 1>> /\ dfs' = dfs
        /\ IF Used(in)[in] # 0
           THEN cache' = Used(in) /\ tape' = tape
           ELSE /\ cache' = [b \in DOMAIN cache \ Siblings(in) |-> cache[b]]
                /\ tape' = Append(tape, in)
    BY <1>14, <2>0 DEF NextInput, a, n, j, in
  <2>2. u0 \in Uses(Root)
    BY <1>2, <1>5, <1>14, <2>0, UsesFacts DEF in
  <2>3. Input(u0) = in
    BY DEF Input, in
  <2>4. in \in Array /\ m \in Walked(Root) /\ m \in Prim /\ m # Root /\ m \in Node
    BY <1>2, <2>m, <2>2, <2>3, UsesFacts, ArrayFacts
  <2>5. \A k \in 1 .. i : tape'[k] = tape[k]
    <3>1. Append(tape, in) \in Seq(Array) /\ \A k \in 1 .. Len(tape) : Append(tape, in)[k] = tape[k]
      BY <1>2, <2>4, AppendProperties
    <3>2. \A k \in 1 .. i : k \in 1 .. Len(tape)
      BY <1>2, <1>5
    <3> QED  BY <1>st, <3>1, <3>2
  <2>6. \A u \in Uses(Root) : Met(u)' <=> Met(u) \/ u = u0
    <3> SUFFICES ASSUME NEW u \in Uses(Root) PROVE Met(u)' <=> Met(u) \/ u = u0
      OBVIOUS
    <3>1. Met(u)' <=> /\ \E k \in 1 .. i : tape[k][1] = u[1]
                      /\ n = u[1] => u[2] < j + 1
                      /\ \A l \in DOMAIN dfs : dfs[l][1][1] = u[1] => u[2] < dfs[l][2]
      BY <1>0, <2>1, <2>5 DEF Met, n, NotOn
    <3>2. u = u0 <=> u[1] = n /\ u[2] = j
      BY <1>9
    <3>3. u[2] \in Nat
      BY <1>9
    <3>4. CASE u = u0
      <4>1. \E k \in 1 .. i : tape[k][1] = u[1]
        BY <1>4, <3>2, <3>4 DEF n
      <4>2. \A l \in DOMAIN dfs : dfs[l][1][1] # u[1]
        BY <1>6, <3>2, <3>4
      <4>3. u[2] < j + 1
        BY <1>3, <3>2, <3>4
      <4> HIDE DEF u0
      <4> QED  BY <3>1, <3>4, <4>1, <4>2, <4>3
    <3>5. CASE u # u0
      <4>1. n = u[1] => (u[2] < j + 1 <=> u[2] < j)
        BY <1>3, <3>2, <3>3, <3>5
      <4> HIDE DEF u0
      <4> QED  BY <1>10, <3>1, <3>5, <4>1
    <3> QED  BY <3>4, <3>5
  <2>7. u0 \in Pending
    <3>1. ~Met(u0)
      BY <1>3, <1>10
    <3> HIDE DEF u0
    <3> QED  BY <2>2, <3>1 DEF Pending
  <2> HIDE DEF u0
  <2>8. Pending' = Pending \ {u0}
    BY <1>1, <2>6 DEF Pending
  <2>9. \A x : Left(x)' = IF x = m THEN Left(m) \ {u0} ELSE Left(x)
    BY <1>1, <2>m, <2>3, <2>8 DEF Left
  <2>10. u0 \in Left(m) /\ IsFiniteSet(Left(m))
    <3>1. Left(m) \in SUBSET Uses(Root) /\ IsFiniteSet(Uses(Root))
      BY <1>2, UsesFacts DEF Left, Pending
    <3>2. IsFiniteSet(Left(m))
      BY <3>1, FS_Subset
    <3> QED  BY <2>m, <2>3, <2>7, <3>2 DEF Left
  <2>11. /\ Cardinality(Left(m) \ {u0}) = Cardinality(Left(m)) - 1
         /\ Cardinality(Left(m)) \in Nat
         /\ Cardinality(Left(m) \ {u0}) = 0 <=> Left(m) \ {u0} = {}
    <3>1. IsFiniteSet(Left(m) \ {u0}) /\ Cardinality(Left(m) \ {u0}) = Cardinality(Left(m)) - 1
      BY <2>10, FS_RemoveElement
    <3>2. Cardinality(Left(m)) \in Nat
      BY <2>10, FS_CardinalityType
    <3> QED  BY <3>1, <3>2, FS_EmptySet
  <2>12. ~OnTape(m)
    BY <1>1, <2>4, <2>10 DEF LaidWithLastUse
  <2>13. /\ \A b \in Array : b \in Siblings(in) <=> b[1] = m
         /\ \A b \in Array : b \in DOMAIN cache <=> Left(b[1]) # {}
         /\ \A b \in DOMAIN cache : b \in Array /\ cache[b] = Cardinality(Left(b[1]))
    BY <1>1, <1>2, <2>m, <2>4, ArrayFacts DEF CacheCounts
  <2>14. Used(in) = [b \in DOMAIN cache |-> IF b[1] = m THEN cache[b] - 1 ELSE cache[b]]
    BY <2>13 DEF Used
  <2>15. Used(in)[in] = Cardinality(Left(m) \ {u0})
    BY <2>m, <2>1, <2>11, <2>13, <2>14
  <2>16. OpenShape'
    BY <1>o, <2>1, <2>5
  <2>17. CASE Used(in)[in] # 0
    <3>1. cache' = Used(in) /\ tape' = tape
      BY <2>1, <2>17
    <3>2. Left(m) \ {u0} # {}
      BY <2>11, <2>15, <2>17
    <3>3. \A x : Left(x)' # {} <=> Left(x) # {}
      BY <2>9, <2>10, <3>2
    <3>4. CacheCounts'
      <4>1. DOMAIN cache' = DOMAIN cache
        BY <2>14, <3>1
      <4>2. DOMAIN cache' = {b \in Array : Left(b[1])' # {}}
        BY <2>13, <3>3, <4>1
      <4>3. ASSUME NEW b \in DOMAIN cache PROVE cache'[b] = Cardinality(Left(b[1])')
        BY <2>9, <2>11, <2>13, <2>14, <3>1
      <4> QED  BY <1>7, <4>1, <4>2, <4>3 DEF CacheCounts
    <3>5. LaidWithLastUse'
      BY <1>1, <3>1, <3>3 DEF LaidWithLastUse, OnTape
    <3>6. TapeShape' /\ InputsAfter'
      BY <1>0, <1>1, <1>7, <3>1 DEF TapeShape, InputsAfter
    <3> QED  BY <1>0, <2>16, <3>4, <3>5, <3>6 DEF TapeInv
  <2>18. CASE Used(in)[in] = 0
    <3> DEFINE t == Len(tape) + 1
    <3>1. /\ cache' = [b \in DOMAIN cache \ Siblings(in) |-> cache[b]]
          /\ tape' = Append(tape, in)
      BY <2>1, <2>18
    <3>2. Left(m)' = {}
      BY <2>9, <2>11, <2>15, <2>18
    <3>3. /\ tape' \in Seq(Array) /\ Len(tape') = t /\ DOMAIN tape' = 1 .. t
          /\ tape'[t] = in /\ tape'[t][1] = m /\ t \in Nat
          /\ \A k \in DOMAIN tape : tape'[k] = tape[k] /\ k < t
          /\ \A k : k \in DOMAIN tape' <=> k = t \/ k \in DOMAIN tape
      <4>1. /\ tape' \in Seq(Array) /\ Len(tape') = t /\ tape'[t] = in
            /\ \A k \in 1 .. Len(tape) : tape'[k] = tape[k]
        BY <1>2, <2>4, <3>1, AppendProperties
      <4>2. DOMAIN tape' = 1 .. t
        BY <4>1, LenProperties
      <4> QED  BY <1>2, <2>m, <4>1, <4>2
    <3> HIDE DEF t
    <3>4. \A x : OnTape(x)' <=> OnTape(x) \/ x = m
      BY <3>3 DEF OnTape
    <3>5. CacheCounts'
      <4>1. \A b : b \in DOMAIN cache' <=> b \in Array /\ b[1] # m /\ Left(b[1]) # {}
        BY <2>13, <3>1
      <4>2. DOMAIN cache' = {b \in Array : Left(b[1])' # {}}
        BY <2>9, <3>2, <4>1
      <4>3. ASSUME NEW b \in DOMAIN cache' PROVE cache'[b] = Cardinality(Left(b[1])')
        BY <2>9, <2>13, <3>1, <4>1
      <4> QED  BY <1>7, <4>2, <4>3 DEF CacheCounts
    <3>6. LaidWithLastUse'
      BY <1>1, <2>9, <3>2, <3>4 DEF LaidWithLastUse
    <3>7. TapeShape'
      <4>1. tape' # <<>> /\ tape'[1] = <<Root, 1>> /\ i' <= Len(tape')
        <5>1. 1 \in DOMAIN tape
          BY <1>1, <1>2 DEF TapeShape
        <5> QED  BY <1>0, <1>1, <1>2, <1>5, <3>3, <5>1 DEF TapeShape, t
      <4>2. \A k \in DOMAIN tape' : tape'[k][1] \in Walked(Root)
        BY <1>1, <2>4, <3>3 DEF TapeShape
      <4>3. ASSUME NEW k \in DOMAIN tape', NEW l \in DOMAIN tape', k < l
            PROVE  tape'[k][1] # tape'[l][1]
        <5>1. k \in DOMAIN tape
          BY <1>2, <3>3, <4>3 DEF t
        <5>2. CASE l = t
          BY <2>12, <3>3, <5>1, <5>2 DEF OnTape
        <5>3. CASE l # t
          BY <1>1, <3>3, <4>3, <5>1, <5>3 DEF TapeShape
        <5> QED  BY <5>2, <5>3
      <4> QED  BY <1>1, <4>1, <4>2, <4>3 DEF TapeShape
    <3>8. InputsAfter'
      <4> SUFFICES ASSUME NEW k \in DOMAIN tape', NEW l \in DOMAIN tape', k < l,
                          NEW x \in ToSet(Ins(tape'[l][1])), x[1] = tape'[k][1]
                   PROVE  FALSE
        BY <1>7 DEF InputsAfter
      <4>1. k \in DOMAIN tape /\ tape'[k] = tape[k]
        BY <1>2, <3>3 DEF t
      <4>2. CASE l # t
        BY <1>1, <3>3, <4>1, <4>2 DEF InputsAfter
      <4>3. CASE l = t
        <5> DEFINE y == x[1]
        <5>1. PICK p \in DOMAIN Ins(m) : Ins(m)[p] = x
          BY <3>3, <4>3 DEF ToSet
        <5>2. x \in Array /\ y \in Prim
          BY <1>2, <2>4, <5>1, GraphFacts
        <5>3. y \in Walked(Root) /\ y # Root /\ OnTape(y)
          BY <1>1, <1>2, <4>1, <5>2 DEF TapeShape, OnTape
        <5>4. Unscheduled(x)
          <6>1. <<y, 1>> \in Array /\ Unscheduled(<<y, 1>>)
            BY <1>2, <5>3, ArrayFacts
          <6> QED  BY <5>2, <6>1 DEF Shared
        <5>5. <<m, p>> \in Uses(Root) /\ Input(<<m, p>>)[1] = y
          BY <1>2, <2>4, <5>1, <5>4, UsesFacts DEF Input
        <5>6. <<m, p>> \notin Pending
          BY <1>1, <5>3, <5>5 DEF LaidWithLastUse, Left
        <5>7. Met(<<m, p>>)
          BY <5>5, <5>6 DEF Pending
        <5>8. PICK q \in 1 .. i : tape[q][1] = m
          BY <5>7 DEF Met
        <5>9. q \in DOMAIN tape
          BY <1>2, <1>5, <5>8
        <5> QED  BY <2>12, <5>8, <5>9 DEF OnTape
      <4> QED  BY <4>2, <4>3
    <3> QED  BY <1>0, <2>16, <3>5, <3>6, <3>7, <3>8 DEF TapeInv
  <2> QED  BY <2>17, <2>18
<1>15. j <= Len(Ins(n)) \/ j > Len(Ins(n))
  BY <1>3, <1>8
<1> QED  BY <1>11, <1>12, <1>13, <1>14, <1>15

\* When the walk is over, every node it is to lay on the tape is there.
LEMMA TapeEnds ==
  ASSUME TypeOK, Shared, SyncsAhead, TapeInv, TapeDone
  PROVE  ToDispatchInv'
<1>0. /\ pc = "tape" /\ cur = NotOn /\ UNCHANGED <<prog, call, status, tape>>
  BY DEF TapeDone, tapeVars
<1>1. /\ Root' = Root /\ Walked(Root)' = Walked(Root)
      /\ TapeShape /\ OpenShape /\ CacheCounts /\ LaidWithLastUse /\ InputsAfter
  BY <1>0, TapeStep
<1>2. /\ prog \in Programs /\ Root \in Node
      /\ Walked(Root) \subseteq Node
      /\ \A n \in Walked(Root) : Unscheduled(<<n, 1>>)
      /\ tape \in Seq(Array) /\ DOMAIN tape = 1 .. Len(tape) /\ Len(tape) \in Nat
  BY <1>0, TapeFacts
<1>3. /\ \A n \in Node : <<n, 1>> \in Array /\ n \in Nat
      /\ \E N \in Nat : Node = 1 .. N
  BY <1>2, ArrayFacts, GraphFacts, NodeShape
<1>4. OnTape(Root)
  BY <1>1, <1>2 DEF TapeShape, OnTape
<1>5. \A n \in Walked(Root) : OnTape(n)
  <2>1. CASE DOMAIN cache = {}
    <3> SUFFICES ASSUME NEW n \in Walked(Root), n # Root PROVE Left(n) = {}
      BY <1>1, <1>4 DEF LaidWithLastUse
    <3>1. <<n, 1>> \in Array /\ <<n, 1>>[1] = n
      BY <1>2, <1>3
    <3> QED  BY <1>1, <2>1, <3>1 DEF CacheCounts
  <2>2. CASE i = Len(tape) /\ dfs = <<>>
    <3> DEFINE B == {n \in Walked(Root) : ~OnTape(n)}
    <3>1. SUFFICES ASSUME B # {} PROVE FALSE
      OBVIOUS
    <3>2. PICK N \in Nat : Node = 1 .. N
      BY <1>3
    <3>3. B \subseteq 0 .. N
      BY <1>2, <3>2
    <3>4. PICK n \in B : \A k \in B : k <= n
      <4> HIDE DEF B
      <4> QED  BY <3>1, <3>2, <3>3, GreatestOf
    <3>5. n # Root /\ Left(n) # {}
      BY <1>1, <1>4 DEF LaidWithLastUse
    <3>6. PICK u \in Uses(Root) : Input(u)[1] = n /\ ~Met(u)
      BY <3>5 DEF Left, Pending
    <3>7. u[1] \in Walked(Root) /\ n < u[1] /\ u[1] \in Nat /\ n \in Nat
      BY <1>2, <1>3, <3>6, UsesFacts
    <3>8. ~OnTape(u[1])
      BY <1>0, <1>2, <2>2, <3>6 DEF Met, OnTape
    <3> QED  BY <3>4, <3>7, <3>8
  <2> QED  BY <2>1, <2>2 DEF TapeDone
<1>6. {a[1] : a \in ToSet(tape)} = {n \in Walked(Root) : Unscheduled(<<n, 1>>)}
  <2>1. \A n : n \in {a[1] : a \in ToSet(tape)} <=> OnTape(n)
    BY DEF ToSet, OnTape
  <2>2. \A n : OnTape(n) => n \in Walked(Root)
    BY <1>1 DEF OnTape, TapeShape
  <2> QED  BY <1>2, <1>5, <2>1, <2>2
<1>7. InputsAfter'
  BY <1>0, <1>1, SameGraph DEF InputsAfter
<1> QED  BY <1>0, <1>1, <1>6, <1>7 DEF ToDispatchInv, TapeShape, Unscheduled

(***************************************************************************)
(* Dispatching the last node on the tape shrinks the walk to what is left  *)
(* of the tape: a node is reached from nodes before it on the tape.        *)
(***************************************************************************)
LEMMA TapeShrinks ==
  ASSUME TypeOK, Shared, OnceScheduled, ToDispatchInv, Dispatch
  PROVE  ToDispatchInv'
<1>0. /\ pc = "dispatch" /\ pc' = "dispatch" /\ tape # <<>> /\ tape' = Front(tape)
      /\ prog' = prog /\ call' = call
  BY DEF Dispatch
<1>1. /\ prog \in Programs /\ call \in Call /\ tape \in Seq(Array)
  BY <1>0 DEF TypeOK, HostTypes, TapeTypes
<1>2. Root' = Root
  BY <1>0 DEF Root, Sync
<1>3. PICK r \in Node : r = Root /\ r = Root'
  BY <1>1, <1>2, Graph DEF Root
<1>4. PICK l \in DOMAIN tape : l = Len(tape) /\ l \in Nat
  BY <1>0, <1>1, SeqFacts
<1>5. PICK d \in Nat : d = tape[l][1]
  BY <1>1, <1>4, SeqFacts, ArrayFacts
<1>6. /\ DOMAIN tape = 1 .. l /\ DOMAIN tape' = 1 .. l-1
      /\ \A k \in 1 .. l-1 : k \in DOMAIN tape /\ k < l /\ tape'[k] = tape[k]
  BY <1>0, <1>1, <1>4, SubSeqProperties, SeqFacts DEF Front
<1>7. \A a \in Array : status'[a] = "unscheduled" <=> Unscheduled(a) /\ a[1] # d
  <2>1. \A a \in Array : Unscheduled(a)' <=> Unscheduled(a) /\ a[1] # Last(tape)[1]
    BY ScheduleStep DEF Next, Host
  <2> QED  BY <1>4, <1>5, <2>1 DEF Last, Unscheduled
<1> DEFINE T == {a[1] : a \in ToSet(tape)}
           V == Walked(r)'
           F == {e \in Node \X Node : \E a \in ToSet(Ins(e[1])) : a[1] = e[2] /\ status'[a] = "unscheduled"}
<1>8. \A n : n \in T <=> \E k \in 1 .. l : tape[k][1] = n
  BY <1>6 DEF ToSet
<1>9. \A j, k \in DOMAIN tape : j < k => tape[j][1] # tape[k][1]
  BY <1>0 DEF ToDispatchInv
<1>10. \A n : n \in {a[1] : a \in ToSet(tape)}' <=> n \in T /\ n # d
  <2>1. \A n : n \in {a[1] : a \in ToSet(tape)}' <=> \E k \in 1 .. l-1 : tape[k][1] = n
    BY <1>6 DEF ToSet
  <2>2. \A k : k \in 1 .. l <=> k = l \/ k \in 1 .. l-1
    BY <1>4, <1>6
  <2>3. \A k \in 1 .. l-1 : tape[k][1] # d
    BY <1>4, <1>5, <1>6, <1>9
  <2>4. \A n : (\E k \in 1 .. l-1 : tape[k][1] = n) <=> (\E k \in 1 .. l : tape[k][1] = n) /\ n # d
    BY <1>5, <2>2, <2>3
  <2> HIDE DEF T
  <2> QED  BY <1>8, <2>1, <2>4
<1>11. T = {n \in Walked(r) : Unscheduled(<<n, 1>>)}
  BY <1>0, <1>3 DEF ToDispatchInv
<1>12. \A m, n \in Node : <<m, n>> \in F <=> \E a \in ToSet(Ins(m)) : a[1] = n /\ status'[a] = "unscheduled"
  OBVIOUS
<1>13. V \subseteq Walked(r)
  BY <1>0, <1>1, <1>7, WalkShrinks DEF Unscheduled
<1>14. Walked(r) \subseteq Node /\ \A n \in Node : <<n, 1>> \in Array /\ <<n, 1>>[1] = n
  BY <1>1, WalkedFacts, ArrayFacts
<1> HIDE DEF T, V, F
<1>15. (T \ {d}) \cup {r} \subseteq V
  <2> DEFINE U == (T \ {d}) \cup {r}
  <2>1. PICK N \in Nat : Node = 1 .. N
    BY <1>1, GraphFacts, NodeShape
  <2>2. ASSUME NEW n \in T, n # d, n # r PROVE \E m \in U : m > n /\ <<m, n>> \in F
    <3>1. n \in Walked(r) /\ n \in Node
      BY <1>11, <1>14
    <3>2. PICK m \in Node : m > n /\ m \in Walked(r) /\ \E a \in ToSet(Ins(m)) : a[1] = n /\ Unscheduled(a)
      BY <1>1, <2>2, <3>1, WalkedFacts
    <3>3. PICK a \in ToSet(Ins(m)) : a[1] = n /\ Unscheduled(a)
      BY <3>2
    <3>4. a \in Array
      BY <1>1, <3>2, GraphFacts DEF ToSet
    <3>5. <<m, n>> \in F
      BY <1>7, <1>12, <2>2, <3>1, <3>2, <3>3, <3>4
    <3>6. m = r \/ m \in T
      <4> SUFFICES ASSUME m # r PROVE m \in T
        OBVIOUS
      <4>1. PICK p \in Node : \E b \in ToSet(Ins(p)) : b[1] = m /\ Unscheduled(b)
        BY <1>1, <3>2, WalkedFacts
      <4>2. PICK b \in ToSet(Ins(p)) : b[1] = m /\ Unscheduled(b)
        BY <4>1
      <4>3. b \in Array /\ <<m, 1>> \in Array /\ <<m, 1>>[1] = m
        BY <1>1, <1>14, <3>2, <4>1, GraphFacts DEF ToSet
      <4>4. Unscheduled(<<m, 1>>)
        BY <4>2, <4>3 DEF Shared
      <4> QED  BY <1>11, <3>2, <4>4
    <3>7. m # d
      <4>1. PICK k \in 1 .. l-1 : tape[k][1] = n
        <5>1. PICK k \in 1 .. l : tape[k][1] = n
          BY <1>8, <2>2
        <5>2. k \in 1 .. l-1
          BY <1>4, <1>5, <2>2, <5>1
        <5> QED  BY <5>1, <5>2
      <4>2. \A b \in ToSet(Ins(d)) : b[1] # n
        BY <1>0, <1>4, <1>5, <1>6, <4>1 DEF ToDispatchInv, InputsAfter
      <4> QED  BY <3>3, <4>2
    <3> QED  BY <3>2, <3>5, <3>6, <3>7
  <2>3. ReachedBy(U, N, r, F)
    BY <1>11, <1>14, <2>1, <2>2 DEF ReachedBy
  <2>4. ClosedUnder(V, N, r, F)
    <3>1. V \subseteq Node /\ \A n \in Node : n \in V <=>
                n = r \/ \E m \in Node : /\ m > n /\ m \in V
                                         /\ \E a \in ToSet(Ins(m)) : a[1] = n /\ status'[a] = "unscheduled"
      BY <1>0, <1>1, WalkedNext DEF V
    <3> QED  BY <1>12, <2>1, <3>1 DEF ClosedUnder
  <2> QED  BY <2>1, <2>3, <2>4, ReachedInClosed
<1>16. \A n : n \in T /\ n # d <=> n \in V /\ status'[<<n, 1>>] = "unscheduled"
  BY <1>7, <1>11, <1>13, <1>14, <1>15
<1>17. {a[1] : a \in ToSet(tape)}' = {n \in Walked(Root) : Unscheduled(<<n, 1>>)}'
  <2>1. Walked(Root)' = V
    BY <1>3 DEF V
  <2> QED  BY <1>10, <1>16, <2>1 DEF Unscheduled
<1>18. \A j, k \in DOMAIN tape' : j < k => tape'[j][1] # tape'[k][1]
  BY <1>6, <1>9
<1>19. InputsAfter'
  <2>1. InputsAfter /\ \A n : Ins(n)' = Ins(n)
    BY <1>0, SameGraph DEF ToDispatchInv
  <2> QED  BY <1>6, <2>1 DEF InputsAfter
<1> QED  BY <1>17, <1>18, <1>19 DEF ToDispatchInv

LEMMA TapeInvStep ==
  ASSUME TypeOK, Shared, SyncsAhead, OnceScheduled, TapeInv, [Next]_vars
  PROVE  TapeInv'
<1>1. ASSUME pc = "tape", call' = call, UNCHANGED tapeVars, ~Dispatch PROVE TapeInv'
  BY <1>1, TapeStays, ScheduleStep, SameProg
<1>2. \/ pc' # "tape" \/ Count \/ TakeNext \/ NextInput
      \/ pc = "tape" /\ call' = call /\ UNCHANGED tapeVars /\ ~Dispatch
  BY DEF Next, vars, hostVars, threads, Host, BuildNext, BuildTape, Walk, Count, TakeNext,
         NextInput, TapeDone, NothingToDo, Dispatch, Dispatched, Wait, Synchronize, Return, Thread,
         CpuStart, CpuCompute, CpuPublish, GpuEncode, SyncCommit, SyncReturn, GpuStep, GpuRun,
         GpuFinish, Handler
<1>3. pc' # "tape" => TapeInv'
  BY DEF TapeInv
<1> QED  BY <1>1, <1>2, <1>3, TapeBegins, TapeTakes, TapeMeets

LEMMA ToDispatchStep ==
  ASSUME TypeOK, Shared, SyncsAhead, OnceScheduled, TapeInv, ToDispatchInv, [Next]_vars
  PROVE  ToDispatchInv'
<1>1. ASSUME pc = "dispatch", call' = call, tape' = tape, ~Dispatch PROVE ToDispatchInv'
  <2>1. call \in Call /\ prog' = prog
    BY <1>1, SameProg DEF TypeOK, HostTypes
  <2>2. \A a \in Array : Unscheduled(a)' <=> Unscheduled(a)
    BY <1>1, ScheduleStep
  <2>3. Walked(Root)' = Walked(Root) /\ \A n : Ins(n)' = Ins(n)
    BY <1>1, <2>1, <2>2, SameRoot, SameGraph
  <2>4. \A n \in Walked(Root) : Unscheduled(<<n, 1>>)' <=> Unscheduled(<<n, 1>>)
    <3>1. Walked(Root) \subseteq Node
      BY <2>1, Graph, WalkedFacts DEF Root
    <3> QED  BY <2>2, <3>1, Graph
  <2>5. {n \in Walked(Root) : Unscheduled(<<n, 1>>)}' = {n \in Walked(Root) : Unscheduled(<<n, 1>>)}
    BY <2>3, <2>4
  <2>6. InputsAfter' <=> InputsAfter
    BY <1>1, <2>3 DEF InputsAfter
  <2> QED  BY <1>1, <2>5, <2>6 DEF ToDispatchInv
<1>2. \/ pc' # "dispatch" \/ TapeDone \/ Dispatch
      \/ pc = "dispatch" /\ call' = call /\ tape' = tape /\ ~Dispatch
  BY DEF Next, vars, hostVars, threads, tapeVars, Host, BuildNext, BuildTape, Walk, Count, TakeNext,
         NextInput, TapeDone, NothingToDo, Dispatched, Wait, Synchronize, Return, Thread,
         CpuStart, CpuCompute, CpuPublish, GpuEncode, SyncCommit, SyncReturn, GpuStep, GpuRun,
         GpuFinish, Handler
<1>3. pc' # "dispatch" => ToDispatchInv'
  BY DEF ToDispatchInv
<1> QED  BY <1>1, <1>2, <1>3, TapeEnds, TapeShrinks
-----------------------------------------------------------------------------
(* The theorems. *)

LEMMA InvInit == Init => Inv
<1> SUFFICES ASSUME Init PROVE Inv
  OBVIOUS
<1>1. TypeOK
  BY TypeInit
<1>2. \A a \in Array : Unscheduled(a)
  BY DEF Init, TapeInit, Unscheduled
<1>3. Shared /\ TapeInv /\ ToDispatchInv
  BY <1>2 DEF Shared, TapeInv, ToDispatchInv, Init, TapeInit
<1>4. SyncsAhead
  BY <1>1, <1>2, Graph DEF SyncsAhead
<1>5. OnceScheduled /\ Promised
  BY DEF OnceScheduled, Promised, Init
<1> QED  BY <1>1, <1>3, <1>4, <1>5 DEF Inv

LEMMA InvStep == Inv /\ [Next]_vars => Inv'
<1> SUFFICES ASSUME Inv, [Next]_vars PROVE Inv'
  OBVIOUS
<1> USE DEF Inv
<1>1. TypeOK' /\ Shared' /\ SyncsAhead' /\ OnceScheduled' /\ Promised'
  BY TypeStep, SharedStep, SyncsAheadStep, OnceScheduledStep, PromisedStep
<1>2. TapeInv' /\ ToDispatchInv'
  BY TapeInvStep, ToDispatchStep
<1> QED  BY <1>1, <1>2

LEMMA Invariance == Spec => []Inv
BY InvInit, InvStep, PTL DEF Spec

(***************************************************************************)
(* TypeCorrect: every variable of the host, of the stream threads and of   *)
(* the GPU keeps its type, whatever the programs and the streams are.      *)
(***************************************************************************)
THEOREM TypeCorrect == Spec => []TypeOK
BY Invariance, PTL DEF Inv

(***************************************************************************)
(* TapeIsSound: eval_impl's walk never looks up an input that its cache    *)
(* has lost, and the tape it leaves holds every node to be evaluated once, *)
(* after all the nodes that use it, up to the last one dispatched.         *)
(***************************************************************************)
THEOREM TapeIsSound == Spec => []TapeSound
<1>1. Inv => TapeSound
  <2> SUFFICES ASSUME Inv PROVE TapeSound
    OBVIOUS
  <2> USE DEF Inv
  <2>1. ASSUME pc = "tape", cur # NotOn, cur[2] <= Len(Ins(cur[1][1])),
               Unscheduled(Ins(cur[1][1])[cur[2]])
        PROVE  Ins(cur[1][1])[cur[2]] \in DOMAIN cache
    <3> DEFINE n == cur[1][1]  j == cur[2]  in == Ins(n)[j]
    <3>1. TapeShape /\ OpenShape /\ CacheCounts
      BY <2>1 DEF TapeInv
    <3>2. /\ prog \in Programs /\ Root \in Node /\ cur \in Places
          /\ i \in Nat /\ DOMAIN tape = 1 .. Len(tape) /\ Len(tape) \in Nat
      BY <2>1, TapeFacts
    <3>3. n \in Node /\ j \in Nat \ {0}
      BY <3>2, PlaceFacts, ArrayFacts
    <3>4. PICK k \in 1 .. i : tape[k] = cur[1]
      BY <2>1, <3>1 DEF OpenShape
    <3>5. n \in Walked(Root)
      BY <3>1, <3>2, <3>4 DEF TapeShape
    <3>6. j \in DOMAIN Ins(n)
      BY <2>1, <3>2, <3>3, GraphFacts, LenProperties
    <3>7. <<n, j>> \in Uses(Root) /\ in \in Array
      BY <2>1, <3>2, <3>3, <3>5, <3>6, UsesFacts, GraphFacts
    <3>8. ~Met(<<n, j>>) /\ Input(<<n, j>>) = in
      BY <2>1, <3>3 DEF Met, Input
    <3>9. <<n, j>> \in Left(in[1])
      <4> HIDE DEF n, j, in
      <4> QED  BY <3>7, <3>8 DEF Left, Pending
    <3> HIDE DEF in
    <3>10. in \in DOMAIN cache
      BY <3>1, <3>7, <3>9 DEF CacheCounts
    <3> QED  BY <3>10 DEF in
  <2>2. ASSUME pc = "dispatch"
        PROVE  /\ {a[1] : a \in ToSet(tape)} = {n \in Walked(Sync(call)) : Unscheduled(<<n, 1>>)}
               /\ \A j, k \in DOMAIN tape : j < k =>
                    /\ tape[j][1] # tape[k][1]
                    /\ \A a \in ToSet(Ins(tape[k][1])) : a[1] # tape[j][1]
    BY <2>2 DEF ToDispatchInv, InputsAfter, Root
  <2> QED  BY <2>1, <2>2 DEF TapeSound
<1> QED  BY <1>1, Invariance, PTL
-----------------------------------------------------------------------------
(***************************************************************************)
(* GraphEval implements LazyGraph: nodes are scheduled after the nodes     *)
(* they use and computed after them, whatever streams they run on, and     *)
(* what is_available reports as available has been computed.  This holds   *)
(* for all programs, also for those whose waits never return because no    *)
(* task signals their event.                                               *)
(***************************************************************************)

(***************************************************************************)
(* The nodes that a call dispatches to a stream share an event and have    *)
(* consecutive values of it, so the events order the nodes of a stream.    *)
(***************************************************************************)
Ev(n) == event[<<n, 1>>]
Earlier(e, f) == e[1] < f[1] \/ (e[1] = f[1] /\ e[3] < f[3])
Given(s) == {n \in Scheduled : Ev(n)[2] = s}

Stamps ==
  \A a \in Array : ~Unscheduled(a) =>
    /\ event[a] = Ev(a[1])
    /\ Ev(a[1]) \in Call \X {StreamOf(a[1])} \X Nat
    /\ Ev(a[1])[1] <= call
    /\ Ev(a[1])[1] = call => /\ pc \in {"dispatch", "wait", "promise"}
                             /\ pc = "dispatch" => Ev(a[1])[3] <= counter[Ev(a[1])[2]]

\* A node comes after its inputs: they are scheduled, on its stream before it.
InputsEarlier ==
  \A n \in Scheduled : \A a \in ToSet(Ins(n)) :
    /\ ~Unscheduled(a)
    /\ Ev(a[1])[2] = Ev(n)[2] => Earlier(Ev(a[1]), Ev(n))

\* The places of the tasks on a queue, and the nodes that are encoded: the
\* command buffers handed to the GPU, then the one that is being filled.
TasksOn(s)  == {k \in DOMAIN queue[s] : queue[s][k] # SyncTask}
Encoded(s)  == [b \in 1 .. Len(committed[s]) + 1 |->
                  IF b <= Len(committed[s]) THEN committed[s][b].nodes ELSE buffer[s]]
QueuedOn(s) == {queue[s][k].arr[1] : k \in TasksOn(s)}
EncodedOn(s, from) == {n \in Node : \E b \in DOMAIN Encoded(s) :
                                      b >= from /\ \E j \in DOMAIN Encoded(s)[b] : Encoded(s)[b][j] = n}

\* What is scheduled on a stream and not computed is in its queue or encoded.
Held(s) ==
  /\ QueuedOn(s) \cup EncodedOn(s, 1) \subseteq Given(s)
  /\ Given(s) \ computed \subseteq QueuedOn(s) \cup EncodedOn(s, 1)
  /\ s \notin Gpu => committed[s] = <<>> /\ buffer[s] = <<>>

\* All of it in the order of the events, what is encoded before what is queued.
Ordered(s) ==
  /\ \A j, k \in TasksOn(s) : j < k => Earlier(Ev(queue[s][j].arr[1]), Ev(queue[s][k].arr[1]))
  /\ \A b, d \in DOMAIN Encoded(s) : \A j \in DOMAIN Encoded(s)[b], k \in DOMAIN Encoded(s)[d] :
       b < d \/ (b = d /\ j < k) => Earlier(Ev(Encoded(s)[b][j]), Ev(Encoded(s)[d][k]))
  /\ \A m \in EncodedOn(s, 1), n \in QueuedOn(s) : Earlier(Ev(m), Ev(n))

\* The inputs from other streams have been computed when a node is encoded, or
\* when its CPU task has waited for them.
InputsComputed(s, n) == \A a \in ToSet(Ins(n)) : Ev(a[1])[2] = s \/ a[1] \in computed

Waited(s) ==
  /\ \A n \in EncodedOn(s, 1) : InputsComputed(s, n)
  /\ phase[s] # "idle" => queue[s] # <<>>
  /\ phase[s] = "active" /\ Task(s) # SyncTask => InputsComputed(s, Task(s).arr[1])
  /\ phase[s] = "computed" => Task(s) # SyncTask /\ Task(s).arr[1] \in computed
  /\ \A k \in TasksOn(s) : queue[s][k].arr[1] \in computed => phase[s] = "computed" /\ k = 1

\* The value a buffer signals: that of its last node, which is still to be
\* computed if buffers come before it, and before what comes after the buffer.
SignalsLast(s) ==
  \A b \in DOMAIN committed[s] :
    LET e == committed[s][b].event
    IN  e # NoEvent =>
          /\ e[2] = s /\ signaled[<<e[1], s>>] < e[3]
          /\ e \in {Ev(n) : n \in Given(s)}
          /\ b > 1 => e \in {Ev(n) : n \in ToSet(committed[s][b].nodes)}
          /\ \A n \in QueuedOn(s) \cup EncodedOn(s, b+1) : Earlier(e, Ev(n))

\* What an event has reached has been computed, and it has only been set to the
\* values of nodes.
Reached(s) ==
  /\ \A c \in Call : signaled[<<c, s>>] # 0 =>
       <<c, s, signaled[<<c, s>>]>> \in {Ev(n) : n \in Given(s)}
  /\ \A n \in Given(s) : Ev(n)[3] <= signaled[<<Ev(n)[1], s>>] => n \in computed
  /\ \A n \in QueuedOn(s) : signaled[<<Ev(n)[1], s>>] < Ev(n)[3]

Line(s) == Held(s) /\ Ordered(s) /\ Waited(s) /\ SignalsLast(s) /\ Reached(s)

Available ==
  /\ computed \subseteq Scheduled
  /\ \A a \in Array : status[a] = "available" => a[1] \in computed

LazyInv == Inv /\ Stamps /\ InputsEarlier /\ Available /\ \A s \in Stream : Line(s)
-----------------------------------------------------------------------------
(* Streams and nodes. *)

LEMMA LineTypes ==
  ASSUME TypeOK, NEW s \in Stream
  PROVE  /\ queue[s] \in Seq(Tasks) /\ Len(queue[s]) \in Nat /\ DOMAIN queue[s] = 1 .. Len(queue[s])
         /\ \A k \in TasksOn(s) : /\ k \in 1 .. Len(queue[s]) /\ queue[s][k] # SyncTask
                                 /\ queue[s][k].arr \in Array /\ queue[s][k].arr[1] \in Node
         /\ queue[s] # <<>> => 1 \in DOMAIN queue[s] /\ Task(s) = queue[s][1]
         /\ buffer[s] \in Seq(Node)
         /\ committed[s] \in Seq(Buffers) /\ Len(committed[s]) \in Nat
         /\ DOMAIN committed[s] = 1 .. Len(committed[s])
         /\ \A b \in DOMAIN committed[s] : committed[s][b] \in Buffers
         /\ DOMAIN Encoded(s) = 1 .. Len(committed[s]) + 1
         /\ \A b \in DOMAIN committed[s] : Encoded(s)[b] = committed[s][b].nodes
         /\ Encoded(s)[Len(committed[s]) + 1] = buffer[s]
         /\ \A b \in DOMAIN Encoded(s) : /\ Encoded(s)[b] \in Seq(Node)
                                        /\ DOMAIN Encoded(s)[b] = 1 .. Len(Encoded(s)[b])
                                        /\ Len(Encoded(s)[b]) \in Nat
                                        /\ \A j \in DOMAIN Encoded(s)[b] : Encoded(s)[b][j] \in Node
<1>1. queue[s] \in Seq(Tasks) /\ buffer[s] \in Seq(Node) /\ committed[s] \in Seq(Buffers)
  BY DEF TypeOK, QueueTypes, BufferTypes
<1>2. ASSUME NEW k \in TasksOn(s)
      PROVE  /\ k \in 1 .. Len(queue[s]) /\ queue[s][k] # SyncTask
             /\ queue[s][k].arr \in Array /\ queue[s][k].arr[1] \in Node
  <2>1. k \in DOMAIN queue[s] /\ queue[s][k] # SyncTask /\ queue[s][k] \in Tasks
    BY <1>1 DEF TasksOn
  <2>2. queue[s][k].arr \in Array
    BY <2>1 DEF Tasks
  <2> QED  BY <1>1, <2>1, <2>2, ArrayFacts DEF TypeOK, HostTypes
<1>3. queue[s] # <<>> => 1 \in DOMAIN queue[s] /\ Task(s) = queue[s][1]
  BY <1>1 DEF Task
<1>4. \A b \in DOMAIN committed[s] : committed[s][b] \in Buffers
  BY <1>1
<1>5. /\ Len(committed[s]) \in Nat
      /\ DOMAIN committed[s] = 1 .. Len(committed[s])
      /\ DOMAIN Encoded(s) = 1 .. Len(committed[s]) + 1
      /\ \A b \in DOMAIN committed[s] : Encoded(s)[b] = committed[s][b].nodes
      /\ Encoded(s)[Len(committed[s]) + 1] = buffer[s]
  BY <1>1 DEF Encoded
<1>6. ASSUME NEW b \in DOMAIN Encoded(s)
      PROVE  /\ Encoded(s)[b] \in Seq(Node)
             /\ DOMAIN Encoded(s)[b] = 1 .. Len(Encoded(s)[b])
             /\ Len(Encoded(s)[b]) \in Nat
             /\ \A j \in DOMAIN Encoded(s)[b] : Encoded(s)[b][j] \in Node
  <2>1. Encoded(s)[b] \in Seq(Node)
    <3>1. CASE b = Len(committed[s]) + 1
      BY <1>1, <1>5, <3>1
    <3>2. CASE b # Len(committed[s]) + 1
      <4>1. b \in DOMAIN committed[s]
        BY <1>5, <3>2
      <4> QED  BY <1>4, <1>5, <4>1 DEF Buffers
    <3> QED  BY <3>1, <3>2
  <2> QED  BY <2>1, SeqFacts
<1> QED  BY <1>1, <1>2, <1>3, <1>4, <1>5, <1>6, SeqFacts

LEMMA EncodedLater ==
  ASSUME TypeOK, NEW s \in Stream, NEW f \in Nat
  PROVE  EncodedOn(s, f+1) \subseteq EncodedOn(s, 1)
<1>1. DOMAIN Encoded(s) = 1 .. Len(committed[s]) + 1 /\ Len(committed[s]) \in Nat
  BY LineTypes
<1>2. \A b \in DOMAIN Encoded(s) : b >= 1
  BY <1>1
<1> QED  BY <1>2 DEF EncodedOn

LEMMA ScheduledFacts ==
  ASSUME TypeOK, Shared
  PROVE  /\ Scheduled \subseteq Node
         /\ \A a \in Array : Unscheduled(a) <=> a[1] \notin Scheduled
         /\ \A s : Given(s) \subseteq Scheduled /\ \A n \in Given(s) : Ev(n)[2] = s
         /\ \A n \in Node : \A a \in ToSet(Ins(n)) : a \in Array /\ a[1] < n
<1>1. \A a \in Array : a[1] \in Node /\ <<a[1], 1>> \in Array /\ <<a[1], 1>>[1] = a[1]
  BY ArrayFacts DEF TypeOK, HostTypes
<1>2. \A a \in Array : Unscheduled(a) <=> a[1] \notin Scheduled
  BY <1>1 DEF Shared, Scheduled
<1>3. \A n \in Node : \A a \in ToSet(Ins(n)) : a \in Array /\ a[1] < n
  BY Graph DEF ToSet
<1> QED  BY <1>2, <1>3 DEF Scheduled, Given

LEMMA StampFacts ==
  ASSUME TypeOK, Shared, Stamps
  PROVE  /\ \A n \in Scheduled : /\ Ev(n)[1] \in Call /\ Ev(n)[2] = StreamOf(n) /\ Ev(n)[2] \in Stream
                                /\ Ev(n)[3] \in Nat /\ Ev(n)[1] \in Nat
                                /\ Ev(n) = <<Ev(n)[1], Ev(n)[2], Ev(n)[3]>>
         /\ \A a \in Array : ~Unscheduled(a) => event[a] = Ev(a[1]) /\ a[1] \in Scheduled
<1>1. ASSUME NEW n \in Scheduled
      PROVE  /\ Ev(n)[1] \in Call /\ Ev(n)[2] = StreamOf(n) /\ Ev(n)[2] \in Stream
             /\ Ev(n)[3] \in Nat /\ Ev(n)[1] \in Nat
             /\ Ev(n) = <<Ev(n)[1], Ev(n)[2], Ev(n)[3]>>
  <2>1. n \in Node /\ <<n, 1>> \in Array /\ <<n, 1>>[1] = n /\ ~Unscheduled(<<n, 1>>)
    BY Graph DEF Scheduled
  <2>2. Ev(n) \in Call \X {StreamOf(n)} \X Nat
    BY <2>1 DEF Stamps
  <2>3. StreamOf(n) \in Stream /\ Call \subseteq Nat
    BY <2>1, Graph, GraphFacts, NodeShape
  <2> QED  BY <2>2, <2>3
<1> QED  BY <1>1, ScheduledFacts DEF Stamps

\* Events are attached when nodes are dispatched.
LEMMA SameEvents ==
  ASSUME TypeOK, Shared, OnceScheduled, [Next]_vars, ~Dispatch
  PROVE  /\ event' = event /\ Scheduled' = Scheduled
         /\ \A n : Ev(n)' = Ev(n)
         /\ \A s : Given(s)' = Given(s)
<1>1. event' = event
  BY DEF Next, vars, hostVars, threads, tapeVars, Host, BuildNext, BuildTape, Walk, Count, TakeNext,
         NextInput, TapeDone, NothingToDo, Dispatched, Wait, Synchronize, Return, Thread,
         CpuStart, CpuCompute, CpuPublish, GpuEncode, SyncCommit, SyncReturn, GpuStep, GpuRun,
         GpuFinish, Handler
<1>2. \A n \in Node : Unscheduled(<<n, 1>>)' <=> Unscheduled(<<n, 1>>)
  BY ScheduleStep, Graph
<1>3. Node' = Node
  BY SameProg, SameGraph
<1>4. Scheduled' = Scheduled
  BY <1>2, <1>3 DEF Scheduled
<1> QED  BY <1>1, <1>4 DEF Ev, Given

(***************************************************************************)
(* A task has what it waited for: the inputs of other streams that have    *)
(* been signaled have been computed.                                       *)
(***************************************************************************)
LEMMA ReadyComputed ==
  ASSUME LazyInv, NEW s \in Stream, NEW arr \in Array, arr[1] \in Given(s), InputsReady(arr)
  PROVE  InputsComputed(s, arr[1])
<1> DEFINE n == arr[1]
<1> USE DEF LazyInv, Inv
<1> SUFFICES ASSUME NEW a \in ToSet(Ins(n)), Ev(a[1])[2] # s PROVE a[1] \in computed
  BY DEF InputsComputed
<1>1. n \in Scheduled /\ Ev(n)[2] = s /\ n \in Node /\ StreamOf(n) = s
  BY ScheduledFacts, StampFacts
<1>2. a \in Array /\ ~Unscheduled(a)
  BY <1>1, ScheduledFacts DEF InputsEarlier
<1>3. event[a] = Ev(a[1]) /\ a[1] \in Scheduled
  BY <1>2, StampFacts
<1> DEFINE t == Ev(a[1])[2]
<1>4. t \in Stream /\ a[1] \in Given(t) /\ Ev(a[1])[3] \in Nat /\ Ev(a[1])[1] \in Call
  BY <1>3, StampFacts DEF Given
<1>5. signaled[<<Ev(a[1])[1], t>>] >= Ev(a[1])[3]
  BY <1>1, <1>3 DEF InputsReady, Signaled
<1>6. signaled[<<Ev(a[1])[1], t>>] \in Nat
  BY <1>4 DEF TypeOK, ResultTypes
<1> HIDE DEF t
<1>7. Ev(a[1])[3] <= signaled[<<Ev(a[1])[1], t>>]
  BY <1>4, <1>5, <1>6
<1> QED  BY <1>4, <1>7 DEF Line, Reached

LEMMA EarlierFacts ==
  ASSUME TypeOK, Shared, Stamps
  PROVE  \A m, n \in Scheduled : Earlier(Ev(m), Ev(n)) => ~Earlier(Ev(n), Ev(m)) /\ m # n
<1> TAKE m, n \in Scheduled
<1>1. Ev(m)[1] \in Nat /\ Ev(m)[3] \in Nat /\ Ev(n)[1] \in Nat /\ Ev(n)[3] \in Nat
  BY StampFacts
<1> QED  BY <1>1 DEF Earlier

\* A stream that a step leaves alone.
LEMMA LineFrame ==
  ASSUME TypeOK, Shared, Stamps, InputsEarlier, prog' = prog, NEW s \in Stream, Line(s),
         queue'[s] = queue[s], phase'[s] = phase[s], buffer'[s] = buffer[s],
         committed'[s] = committed[s],
         \A c \in Call : signaled'[<<c, s>>] = signaled[<<c, s>>],
         Given(s)' = Given(s), \A n \in Scheduled : Ev(n)' = Ev(n),
         computed \subseteq computed', \A n \in computed' : n \in computed \/ n \notin QueuedOn(s)
  PROVE  Line(s)'
<1>1. /\ TasksOn(s)' = TasksOn(s) /\ Encoded(s)' = Encoded(s) /\ QueuedOn(s)' = QueuedOn(s)
      /\ Task(s)' = Task(s)
  BY DEF TasksOn, Encoded, QueuedOn, Task
<1>2. /\ Node' = Node /\ Call' = Call /\ \A n : Ins(n)' = Ins(n)
  BY SameGraph
<1>3. \A f : EncodedOn(s, f)' = EncodedOn(s, f)
  BY <1>1, <1>2 DEF EncodedOn
<1>4. /\ Given(s) \subseteq Scheduled /\ QueuedOn(s) \cup EncodedOn(s, 1) \subseteq Given(s)
  BY ScheduledFacts DEF Line, Held
<1>5. /\ \A k \in TasksOn(s) : queue[s][k].arr[1] \in QueuedOn(s)
      /\ \A b \in DOMAIN Encoded(s) : \A j \in DOMAIN Encoded(s)[b] : Encoded(s)[b][j] \in EncodedOn(s, 1)
  <2>1. DOMAIN Encoded(s) = 1 .. Len(committed[s]) + 1
    BY LineTypes
  <2>2. \A b \in DOMAIN Encoded(s) : \A j \in DOMAIN Encoded(s)[b] : Encoded(s)[b][j] \in Node /\ b >= 1
    BY LineTypes
  <2> QED  BY <2>2 DEF QueuedOn, EncodedOn
<1>6. Held(s)'
  BY <1>1, <1>3 DEF Line, Held
<1>7. Ordered(s)'
  <2>1. /\ \A j, k \in TasksOn(s) : j < k => Earlier(Ev(queue[s][j].arr[1]), Ev(queue[s][k].arr[1]))
        /\ \A b, d \in DOMAIN Encoded(s) : \A j \in DOMAIN Encoded(s)[b], k \in DOMAIN Encoded(s)[d] :
             b < d \/ (b = d /\ j < k) => Earlier(Ev(Encoded(s)[b][j]), Ev(Encoded(s)[d][k]))
        /\ \A m \in EncodedOn(s, 1), n \in QueuedOn(s) : Earlier(Ev(m), Ev(n))
    BY DEF Line, Ordered
  <2>2. \A j, k \in TasksOn(s) : j < k => Earlier(Ev(queue[s][j].arr[1])', Ev(queue[s][k].arr[1])')
    BY <1>4, <1>5, <2>1
  <2>3. \A b, d \in DOMAIN Encoded(s) : \A j \in DOMAIN Encoded(s)[b], k \in DOMAIN Encoded(s)[d] :
             b < d \/ (b = d /\ j < k) => Earlier(Ev(Encoded(s)[b][j])', Ev(Encoded(s)[d][k])')
    <3> SUFFICES ASSUME NEW b \in DOMAIN Encoded(s), NEW d \in DOMAIN Encoded(s),
                        NEW j \in DOMAIN Encoded(s)[b], NEW k \in DOMAIN Encoded(s)[d],
                        b < d \/ (b = d /\ j < k)
                 PROVE  Earlier(Ev(Encoded(s)[b][j])', Ev(Encoded(s)[d][k])')
      OBVIOUS
    <3>1. PICK m \in Scheduled, n \in Scheduled : m = Encoded(s)[b][j] /\ n = Encoded(s)[d][k]
      BY <1>4, <1>5
    <3>2. Earlier(Ev(m), Ev(n)) /\ Ev(m)' = Ev(m) /\ Ev(n)' = Ev(n)
      BY <2>1, <3>1
    <3>3. Encoded(s)'[b][j] = m /\ Encoded(s)'[d][k] = n
      BY <1>1, <3>1
    <3> QED  BY <3>2, <3>3
  <2>4. \A m \in EncodedOn(s, 1), n \in QueuedOn(s) : Earlier(Ev(m)', Ev(n)')
    BY <1>4, <2>1
  <2> QED  BY <1>1, <1>3, <2>2, <2>3, <2>4 DEF Ordered
<1>8. ASSUME NEW n \in Given(s), InputsComputed(s, n) PROVE InputsComputed(s, n)'
  <2> SUFFICES ASSUME NEW a \in ToSet(Ins(n)) PROVE Ev(a[1])'[2] = s \/ a[1] \in computed'
    BY <1>2 DEF InputsComputed
  <2>1. a \in Array /\ ~Unscheduled(a) /\ a[1] \in Scheduled
    BY <1>4, ScheduledFacts DEF InputsEarlier
  <2> QED  BY <1>8, <2>1 DEF InputsComputed
<1>9. Waited(s)'
  <2>1. Waited(s)
    BY DEF Line
  <2>2. \A n \in EncodedOn(s, 1)' : InputsComputed(s, n)'
    BY <1>3, <1>4, <1>8, <2>1 DEF Waited
  <2>3. ASSUME phase[s] = "active", Task(s) # SyncTask PROVE InputsComputed(s, Task(s).arr[1])'
    <3>1. 1 \in TasksOn(s) /\ Task(s) = queue[s][1]
      BY <2>1, <2>3, LineTypes DEF Waited, TasksOn
    <3>2. Task(s).arr[1] \in Given(s)
      BY <1>4, <1>5, <3>1
    <3>3. PICK n \in Given(s) : n = Task(s).arr[1]
      BY <3>2
    <3>4. InputsComputed(s, n)'
      BY <1>8, <2>1, <2>3, <3>3 DEF Waited
    <3>5. Task(s)'.arr[1] = n
      BY <1>1, <3>3
    <3> QED  BY <3>3, <3>4, <1>1
  <2>4. \A k \in TasksOn(s) : queue[s][k].arr[1] \in computed' => queue[s][k].arr[1] \in computed
    BY <1>5
  <2> QED  BY <1>1, <2>1, <2>2, <2>3, <2>4 DEF Waited
<1>10. SignalsLast(s)'
  <2> SUFFICES ASSUME NEW b \in DOMAIN committed[s], committed[s][b].event # NoEvent
               PROVE  LET e == committed[s][b].event IN
                        /\ e[2] = s /\ signaled'[<<e[1], s>>] < e[3]
                        /\ e \in {Ev(n)' : n \in Given(s)}
                        /\ b > 1 => e \in {Ev(n)' : n \in ToSet(committed[s][b].nodes)}
                        /\ \A n \in QueuedOn(s) \cup EncodedOn(s, b+1) : Earlier(e, Ev(n)')
    BY <1>1, <1>3 DEF SignalsLast
  <2> DEFINE e == committed[s][b].event
  <2>1. /\ e[2] = s /\ signaled[<<e[1], s>>] < e[3]
        /\ e \in {Ev(n) : n \in Given(s)}
        /\ b > 1 => e \in {Ev(n) : n \in ToSet(committed[s][b].nodes)}
        /\ \A n \in QueuedOn(s) \cup EncodedOn(s, b+1) : Earlier(e, Ev(n))
    BY DEF Line, SignalsLast
  <2>2. e[1] \in Call
    <3>1. \A n \in Given(s) : Ev(n)[1] \in Call
      BY <1>4, StampFacts
    <3> QED  BY <2>1, <3>1
  <2>3. b \in DOMAIN Encoded(s) /\ Encoded(s)[b] = committed[s][b].nodes /\ b \in Nat
    BY LineTypes
  <2>4. ToSet(committed[s][b].nodes) \subseteq Scheduled
    BY <1>4, <1>5, <2>3 DEF ToSet
  <2>5. EncodedOn(s, b+1) \subseteq EncodedOn(s, 1)
    BY <2>3, EncodedLater
  <2>6. \A n \in QueuedOn(s) \cup EncodedOn(s, b+1) : Earlier(e, Ev(n)')
    BY <1>4, <2>1, <2>5
  <2>7. e \in {Ev(n)' : n \in Given(s)}
    BY <1>4, <2>1
  <2>8. b > 1 => e \in {Ev(n)' : n \in ToSet(committed[s][b].nodes)}
    BY <2>1, <2>4
  <2> QED  BY <2>1, <2>2, <2>6, <2>7, <2>8
<1>11. Reached(s)'
  <2>1. Reached(s)
    BY DEF Line
  <2>2. \A n \in Given(s) : Ev(n)' = Ev(n) /\ Ev(n)[1] \in Call
    BY <1>4, StampFacts
  <2>3. {Ev(n) : n \in Given(s)}' = {Ev(n) : n \in Given(s)}
    BY <2>2
  <2> QED  BY <1>1, <1>2, <1>4, <2>1, <2>2, <2>3 DEF Reached
<1> QED  BY <1>6, <1>7, <1>9, <1>10, <1>11 DEF Line

LEMMA Places1 ==
  ASSUME TypeOK, NEW s \in Stream
  PROVE  /\ \A k \in TasksOn(s) : queue[s][k].arr[1] \in QueuedOn(s)
         /\ \A b \in DOMAIN Encoded(s) : \A j \in DOMAIN Encoded(s)[b] :
              Encoded(s)[b][j] \in EncodedOn(s, 1) /\ Encoded(s)[b][j] \in EncodedOn(s, b)
<1>1. DOMAIN Encoded(s) = 1 .. Len(committed[s]) + 1 /\ Len(committed[s]) \in Nat
  BY LineTypes
<1>2. \A b \in DOMAIN Encoded(s) : \A j \in DOMAIN Encoded(s)[b] :
        Encoded(s)[b][j] \in Node /\ b >= 1 /\ b >= b
  BY <1>1, LineTypes
<1> QED  BY <1>2 DEF QueuedOn, EncodedOn

\* What is left when the first task is taken from a queue.
LEMMA Popped ==
  ASSUME TypeOK, prog' = prog, NEW s \in Stream, Ordered(s), queue[s] # <<>>, queue'[s] = Tail(queue[s])
  PROVE  /\ \A k \in TasksOn(s)' : k + 1 \in TasksOn(s) /\ queue'[s][k] = queue[s][k + 1] /\ k \in Nat \ {0}
         /\ QueuedOn(s)' \subseteq QueuedOn(s)
         /\ Task(s) # SyncTask => /\ Task(s) = queue[s][1] /\ 1 \in TasksOn(s)
                                 /\ Task(s).arr \in Array /\ Task(s).arr[1] \in QueuedOn(s)
                                 /\ QueuedOn(s) = QueuedOn(s)' \cup {Task(s).arr[1]}
                                 /\ \A n \in QueuedOn(s)' : Earlier(Ev(Task(s).arr[1]), Ev(n))
         /\ Task(s) = SyncTask => QueuedOn(s)' = QueuedOn(s)
         /\ \A j, k \in TasksOn(s)' : j < k =>
              Earlier(Ev(queue'[s][j].arr[1]), Ev(queue'[s][k].arr[1]))
<1> DEFINE L == Len(queue[s])
<1>1. /\ queue[s] \in Seq(Tasks) /\ L \in Nat /\ DOMAIN queue[s] = 1 .. L
      /\ 1 \in DOMAIN queue[s] /\ Task(s) = queue[s][1]
  BY LineTypes
<1>2. DOMAIN queue'[s] = 1 .. L-1 /\ \A k \in 1 .. L-1 : queue'[s][k] = queue[s][k + 1]
  BY <1>1
<1> HIDE DEF L
<1>3. \A k : k \in TasksOn(s) <=> k \in 1 .. L /\ queue[s][k] # SyncTask
  BY <1>1 DEF TasksOn
<1>4. \A k : k \in TasksOn(s)' <=> k \in 1 .. L-1 /\ queue'[s][k] # SyncTask
  BY <1>2 DEF TasksOn, SyncTask
<1>5. \A k \in TasksOn(s)' : k + 1 \in TasksOn(s) /\ queue'[s][k] = queue[s][k + 1] /\ k \in Nat \ {0}
  BY <1>1, <1>2, <1>3, <1>4
<1>6. \A k \in TasksOn(s) : k = 1 \/ (k - 1 \in TasksOn(s)' /\ queue[s][k] = queue'[s][k - 1])
  <2> SUFFICES ASSUME NEW k \in TasksOn(s), k # 1
               PROVE  k - 1 \in TasksOn(s)' /\ queue[s][k] = queue'[s][k - 1]
    OBVIOUS
  <2>1. k \in 1 .. L /\ queue[s][k] # SyncTask /\ k - 1 \in 1 .. L-1 /\ (k - 1) + 1 = k
    BY <1>1, <1>3
  <2> QED  BY <1>2, <1>4, <2>1
<1>7. \A n : n \in QueuedOn(s) <=> \E k \in TasksOn(s) : queue[s][k].arr[1] = n
  BY DEF QueuedOn
<1>8. \A n : n \in QueuedOn(s)' <=> \E k \in TasksOn(s)' : queue'[s][k].arr[1] = n
  BY DEF QueuedOn
<1>9. QueuedOn(s)' \subseteq QueuedOn(s)
  <2> SUFFICES ASSUME NEW n, n \in QueuedOn(s)' PROVE n \in QueuedOn(s)
    OBVIOUS
  <2>1. PICK k : k \in TasksOn(s)' /\ queue'[s][k].arr[1] = n
    BY <1>8
  <2>2. k + 1 \in TasksOn(s) /\ queue'[s][k] = queue[s][k + 1]
    BY <1>5, <2>1
  <2> QED  BY <1>7, <2>1, <2>2
<1>s. \A n \in QueuedOn(s) : n \in QueuedOn(s)' \/ (1 \in TasksOn(s) /\ n = queue[s][1].arr[1])
  <2> SUFFICES ASSUME NEW n \in QueuedOn(s), n \notin QueuedOn(s)'
               PROVE  1 \in TasksOn(s) /\ n = queue[s][1].arr[1]
    OBVIOUS
  <2>1. PICK k \in TasksOn(s) : queue[s][k].arr[1] = n
    BY <1>7
  <2>2. k = 1 \/ (k - 1 \in TasksOn(s)' /\ queue[s][k] = queue'[s][k - 1])
    BY <1>6
  <2> QED  BY <1>8, <2>1, <2>2
<1>10. \A j, k \in TasksOn(s) : j < k => Earlier(Ev(queue[s][j].arr[1]), Ev(queue[s][k].arr[1]))
  BY DEF Ordered
<1>11. ASSUME Task(s) # SyncTask
       PROVE  /\ Task(s) = queue[s][1] /\ 1 \in TasksOn(s)
              /\ Task(s).arr \in Array /\ Task(s).arr[1] \in QueuedOn(s)
              /\ QueuedOn(s) = QueuedOn(s)' \cup {Task(s).arr[1]}
              /\ \A n \in QueuedOn(s)' : Earlier(Ev(Task(s).arr[1]), Ev(n))
  <2>1. 1 \in TasksOn(s) /\ Task(s) = queue[s][1]
    BY <1>1, <1>3, <1>11
  <2>2. Task(s).arr \in Array /\ Task(s).arr[1] \in QueuedOn(s)
    BY <1>7, <2>1, LineTypes
  <2>3. \A n \in QueuedOn(s)' : Earlier(Ev(Task(s).arr[1]), Ev(n))
    <3> SUFFICES ASSUME NEW k \in TasksOn(s)' PROVE Earlier(Ev(Task(s).arr[1]), Ev(queue'[s][k].arr[1]))
      BY <1>8
    <3>1. k + 1 \in TasksOn(s) /\ k \in Nat \ {0} /\ queue'[s][k] = queue[s][k + 1]
      BY <1>5
    <3>2. 1 < k + 1
      BY <3>1
    <3> QED  BY <1>10, <2>1, <3>1, <3>2
  <2>4. QueuedOn(s) = QueuedOn(s)' \cup {Task(s).arr[1]}
    BY <1>9, <1>s, <2>1, <2>2
  <2> QED  BY <2>1, <2>2, <2>3, <2>4
<1>12. ASSUME Task(s) = SyncTask PROVE QueuedOn(s)' = QueuedOn(s)
  BY <1>1, <1>3, <1>9, <1>s, <1>12
<1>13. \A j, k \in TasksOn(s)' : j < k => Earlier(Ev(queue'[s][j].arr[1]), Ev(queue'[s][k].arr[1]))
  <2> SUFFICES ASSUME NEW j \in TasksOn(s)', NEW k \in TasksOn(s)', j < k
               PROVE  Earlier(Ev(queue'[s][j].arr[1]), Ev(queue'[s][k].arr[1]))
    OBVIOUS
  <2>1. j + 1 < k + 1 /\ j + 1 \in TasksOn(s) /\ k + 1 \in TasksOn(s)
    BY <1>5
  <2> QED  BY <1>5, <1>10, <2>1
<1> QED  BY <1>5, <1>9, <1>11, <1>12, <1>13
-----------------------------------------------------------------------------
(* The streams, step by step. *)

\* The inputs of a node stay computed when no node is dispatched.
LEMMA StillComputed ==
  ASSUME prog' = prog, \A n : Ev(n)' = Ev(n), computed \subseteq computed',
         NEW s, NEW n, InputsComputed(s, n)
  PROVE  InputsComputed(s, n)'
BY SameGraph DEF InputsComputed

LEMMA GpuEncodeLine ==
  ASSUME LazyInv, [Next]_vars, ~Dispatch, NEW s \in Stream, GpuEncode(s)
  PROVE  Line(s)'
<1> USE DEF LazyInv, Inv
<1>1. /\ event' = event /\ Scheduled' = Scheduled /\ prog' = prog
      /\ \A n : Ev(n)' = Ev(n)
      /\ Given(s)' = Given(s)
  BY SameEvents, SameProg
<1>2. /\ s \in Gpu /\ queue[s] # <<>> /\ Task(s) # SyncTask /\ phase[s] = "idle"
      /\ UNCHANGED <<phase, computed, signaled>>
      /\ InputsReady(Task(s).arr)
  BY DEF GpuEncode, Runs
<1>3. queue'[s] = Tail(queue[s])
  BY DEF GpuEncode, Pop, TypeOK, QueueTypes
<1>4. Held(s) /\ Ordered(s) /\ Waited(s) /\ SignalsLast(s) /\ Reached(s)
  BY DEF Line
<1>5. PICK h : h = Task(s).arr[1]
  OBVIOUS
<1>6. /\ \A k \in TasksOn(s)' : k + 1 \in TasksOn(s) /\ queue'[s][k] = queue[s][k + 1] /\ k \in Nat \ {0}
      /\ QueuedOn(s)' \subseteq QueuedOn(s)
      /\ Task(s) = queue[s][1] /\ 1 \in TasksOn(s)
      /\ Task(s).arr \in Array /\ h \in QueuedOn(s)
      /\ QueuedOn(s) = QueuedOn(s)' \cup {h}
      /\ \A n \in QueuedOn(s)' : Earlier(Ev(h), Ev(n))
      /\ \A j, k \in TasksOn(s)' : j < k =>
              Earlier(Ev(queue'[s][j].arr[1]), Ev(queue'[s][k].arr[1]))
  BY <1>1, <1>2, <1>3, <1>4, <1>5, Popped
<1>7. h \in Given(s) /\ h \in Scheduled /\ h \in Node
  BY <1>4, <1>6, ScheduledFacts DEF Held
<1>8. InputsComputed(s, h)
  BY <1>2, <1>5, <1>6, <1>7, ReadyComputed
<1>9. PICK L \in Nat : L = Len(committed[s])
  BY LineTypes
<1>10. /\ DOMAIN committed[s] = 1 .. L
       /\ DOMAIN Encoded(s) = 1 .. L+1
       /\ \A b \in 1 .. L : committed[s][b] \in Buffers /\ Encoded(s)[b] = committed[s][b].nodes
       /\ Encoded(s)[L+1] = buffer[s] /\ buffer[s] \in Seq(Node) /\ committed[s] \in Seq(Buffers)
       /\ \A b \in DOMAIN Encoded(s) : /\ Encoded(s)[b] \in Seq(Node)
                                      /\ DOMAIN Encoded(s)[b] = 1 .. Len(Encoded(s)[b])
                                      /\ Len(Encoded(s)[b]) \in Nat
                                      /\ \A j \in DOMAIN Encoded(s)[b] : Encoded(s)[b][j] \in Node
  BY <1>9, LineTypes
<1> DEFINE e == IF Task(s).signal THEN event[Task(s).arr] ELSE NoEvent
           cb == [nodes |-> Append(buffer[s], h), event |-> e, counted |-> TRUE]
<1>11. \/ committed'[s] = committed[s] /\ buffer'[s] = Append(buffer[s], h)
       \/ committed'[s] = Append(committed[s], cb) /\ buffer'[s] = <<>>
  BY <1>5 DEF GpuEncode, Commit, TypeOK, BufferTypes
<1>12. \A n \in Given(s) : InputsComputed(s, n) => InputsComputed(s, n)'
  BY <1>1, <1>2, StillComputed
<1> HIDE DEF cb, e
\* The node comes after what is encoded, in a buffer of its own or in the last one.
<1>13. /\ \A b \in 1 .. L : Encoded(s)'[b] = Encoded(s)[b]
       /\ Encoded(s)'[L+1] = Append(buffer[s], h)
       /\ DOMAIN Encoded(s)' = 1 .. L+1 \/ (DOMAIN Encoded(s)' = 1 .. L+2 /\ Encoded(s)'[L+2] = <<>>)
  <2>1. CASE committed'[s] = committed[s] /\ buffer'[s] = Append(buffer[s], h)
    BY <1>9, <1>10, <2>1 DEF Encoded
  <2>2. CASE committed'[s] = Append(committed[s], cb) /\ buffer'[s] = <<>>
    <3>1. /\ Len(committed'[s]) = L+1 /\ committed'[s][L+1].nodes = Append(buffer[s], h)
          /\ \A b \in 1 .. L : committed'[s][b] = committed[s][b]
      BY <1>9, <1>10, <2>2 DEF cb
    <3>2. Encoded(s)' = [b \in 1 .. (L+1) + 1 |-> IF b <= L+1 THEN committed'[s][b].nodes ELSE <<>>]
      BY <2>2, <3>1 DEF Encoded
    <3> QED  BY <1>10, <3>1, <3>2
  <2> QED  BY <1>11, <2>1, <2>2
<1> DEFINE l == Len(buffer[s]) + 1
<1>14. /\ l \in Nat \ {0} /\ DOMAIN buffer[s] = 1 .. l-1
       /\ DOMAIN Encoded(s)'[L+1] = 1 .. l /\ Encoded(s)'[L+1][l] = h
       /\ \A j \in 1 .. l-1 : Encoded(s)'[L+1][j] = buffer[s][j]
  BY <1>7, <1>10, <1>13
<1> HIDE DEF l
\* A place after the step is a place before it, or that of the node.
<1>15. \A b \in DOMAIN Encoded(s)' : \A j \in DOMAIN Encoded(s)'[b] :
         \/ /\ b \in DOMAIN Encoded(s) /\ j \in DOMAIN Encoded(s)[b]
            /\ Encoded(s)'[b][j] = Encoded(s)[b][j] /\ (b < L+1 \/ (b = L+1 /\ j < l))
         \/ b = L+1 /\ j = l /\ Encoded(s)'[b][j] = h
  <2> SUFFICES ASSUME NEW b \in DOMAIN Encoded(s)', NEW j \in DOMAIN Encoded(s)'[b]
               PROVE  \/ /\ b \in DOMAIN Encoded(s) /\ j \in DOMAIN Encoded(s)[b]
                         /\ Encoded(s)'[b][j] = Encoded(s)[b][j] /\ (b < L+1 \/ (b = L+1 /\ j < l))
                      \/ b = L+1 /\ j = l /\ Encoded(s)'[b][j] = h
    OBVIOUS
  <2>1. CASE b \in 1 .. L
    BY <1>9, <1>10, <1>13, <2>1
  <2>2. CASE b = L+1
    <3>1. j \in 1 .. l
      BY <1>14, <2>2
    <3> QED  BY <1>10, <1>14, <2>2, <3>1
  <2>3. CASE b = L+2
    BY <1>13, <2>3
  <2> QED  BY <1>9, <1>13, <2>1, <2>2, <2>3
<1>16. \A f \in Nat : \A n \in EncodedOn(s, f)' : n \in EncodedOn(s, f) \/ (n = h /\ f <= L+1)
  BY <1>1, <1>15, SameGraph DEF EncodedOn
<1>17. \A n \in EncodedOn(s, 1) : n \in EncodedOn(s, 1)'
  <2> SUFFICES ASSUME NEW b \in DOMAIN Encoded(s), NEW j \in DOMAIN Encoded(s)[b]
               PROVE  Encoded(s)[b][j] \in EncodedOn(s, 1)'
    BY DEF EncodedOn
  <2>1. Encoded(s)[b][j] \in Node /\ b >= 1 /\ Node' = Node
    BY <1>1, <1>10, SameGraph
  <2>2. b \in DOMAIN Encoded(s)' /\ j \in DOMAIN Encoded(s)'[b] /\ Encoded(s)'[b][j] = Encoded(s)[b][j]
    <3>1. CASE b \in 1 .. L
      BY <1>9, <1>13, <3>1
    <3>2. CASE b = L+1
      <4>1. j \in 1 .. l-1 /\ j \in 1 .. l /\ Encoded(s)[b][j] = buffer[s][j]
        BY <1>10, <1>14, <3>2
      <4>2. b \in DOMAIN Encoded(s)'
        BY <1>9, <1>13, <3>2
      <4> QED  BY <1>14, <3>2, <4>1, <4>2
    <3> QED  BY <1>9, <1>10, <3>1, <3>2
  <2> QED  BY <2>1, <2>2 DEF EncodedOn
<1>18. h \in EncodedOn(s, 1)'
  <2>1. L+1 \in DOMAIN Encoded(s)' /\ l \in DOMAIN Encoded(s)'[L+1] /\ L+1 >= 1 /\ h \in Node'
    BY <1>1, <1>7, <1>9, <1>13, <1>14, SameGraph
  <2> QED  BY <1>14, <2>1 DEF EncodedOn
<1>19. Held(s)'
  BY <1>1, <1>2, <1>4, <1>6, <1>7, <1>16, <1>17, <1>18 DEF Held
<1>20. Ordered(s)'
  <2>1. \A n \in EncodedOn(s, 1) : Earlier(Ev(n), Ev(h))
    BY <1>4, <1>6 DEF Ordered
  <2>2. ASSUME NEW b \in DOMAIN Encoded(s)', NEW d \in DOMAIN Encoded(s)',
               NEW j \in DOMAIN Encoded(s)'[b], NEW k \in DOMAIN Encoded(s)'[d],
               b < d \/ (b = d /\ j < k)
        PROVE  Earlier(Ev(Encoded(s)'[b][j]), Ev(Encoded(s)'[d][k]))
    <3>1. CASE d = L+1 /\ k = l
      <4>1. ~(b = L+1 /\ j = l)
        BY <1>9, <1>14, <2>2, <3>1
      <4>2. Encoded(s)'[b][j] \in EncodedOn(s, 1)
        BY <1>15, <4>1, Places1
      <4> QED  BY <1>14, <2>1, <3>1, <4>2
    <3>2. CASE ~(d = L+1 /\ k = l)
      <4>1. /\ d \in DOMAIN Encoded(s) /\ k \in DOMAIN Encoded(s)[d]
            /\ Encoded(s)'[d][k] = Encoded(s)[d][k] /\ (d < L+1 \/ (d = L+1 /\ k < l))
        BY <1>15, <3>2
      <4>2. ~(b = L+1 /\ j = l)
        BY <1>9, <1>10, <1>14, <2>2, <4>1
      <4>3. /\ b \in DOMAIN Encoded(s) /\ j \in DOMAIN Encoded(s)[b]
            /\ Encoded(s)'[b][j] = Encoded(s)[b][j]
        BY <1>15, <4>2
      <4> QED  BY <1>4, <2>2, <4>1, <4>3 DEF Ordered
    <3> QED  BY <3>1, <3>2
  <2>3. ASSUME NEW m \in EncodedOn(s, 1)', NEW n \in QueuedOn(s)' PROVE Earlier(Ev(m), Ev(n))
    BY <1>4, <1>6, <1>16 DEF Ordered
  <2> QED  BY <1>1, <1>6, <2>2, <2>3 DEF Ordered
<1>21. Waited(s)'
  <2>1. \A n \in EncodedOn(s, 1)' : InputsComputed(s, n)'
    BY <1>4, <1>7, <1>8, <1>12, <1>16 DEF Waited, Held
  <2>2. \A k \in TasksOn(s)' : queue'[s][k].arr[1] \notin computed'
    BY <1>2, <1>4, <1>6 DEF Waited
  <2> QED  BY <1>2, <2>1, <2>2 DEF Waited
<1>22. SignalsLast(s)'
  <2> SUFFICES ASSUME NEW b \in DOMAIN committed'[s], committed'[s][b].event # NoEvent
               PROVE  LET f == committed'[s][b].event IN
                        /\ f[2] = s /\ signaled[<<f[1], s>>] < f[3]
                        /\ f \in {Ev(n) : n \in Given(s)}
                        /\ b > 1 => f \in {Ev(n) : n \in ToSet(committed'[s][b].nodes)}
                        /\ \A n \in QueuedOn(s)' \cup EncodedOn(s, b+1)' : Earlier(f, Ev(n))
    BY <1>1, <1>2 DEF SignalsLast, NoEvent
  <2>1. CASE b \in 1 .. L
    <3> DEFINE f == committed[s][b].event
    <3>1. committed'[s][b] = committed[s][b]
      BY <1>9, <1>10, <1>11, <2>1
    <3>2. /\ f[2] = s /\ signaled[<<f[1], s>>] < f[3]
          /\ f \in {Ev(n) : n \in Given(s)}
          /\ b > 1 => f \in {Ev(n) : n \in ToSet(committed[s][b].nodes)}
          /\ \A n \in QueuedOn(s) \cup EncodedOn(s, b+1) : Earlier(f, Ev(n))
      BY <1>4, <1>10, <2>1, <3>1 DEF SignalsLast
    <3>3. \A n \in EncodedOn(s, b+1)' : n \in EncodedOn(s, b+1) \/ n \in QueuedOn(s)
      BY <1>6, <1>9, <1>16, <2>1
    <3> HIDE DEF f
    <3>4. \A n \in QueuedOn(s)' \cup EncodedOn(s, b+1)' : Earlier(f, Ev(n))
      BY <1>6, <3>2, <3>3
    <3> QED  BY <3>1, <3>2, <3>4 DEF f
  <2>2. CASE b \notin 1 .. L
    <3>1. committed'[s] = Append(committed[s], cb) /\ b = L+1 /\ committed'[s][b] = cb
      BY <1>9, <1>10, <1>11, <2>2
    <3>2. e # NoEvent /\ e = Ev(h)
      <4>1. ~Unscheduled(Task(s).arr)
        BY <1>5, <1>6, <1>7, ScheduledFacts
      <4>2. event[Task(s).arr] = Ev(h)
        BY <1>5, <1>6, <4>1, StampFacts
      <4> QED  BY <3>1, <4>2 DEF cb, e
    <3>3. e[2] = s /\ signaled[<<e[1], s>>] < e[3] /\ e \in {Ev(n) : n \in Given(s)}
      BY <1>4, <1>6, <1>7, <3>2, ScheduledFacts DEF Reached
    <3>4. h \in ToSet(committed'[s][b].nodes)
      <4>1. committed'[s][b].nodes = Append(buffer[s], h) /\ h \in Node
        BY <1>7, <3>1 DEF cb
      <4>2. l \in DOMAIN Append(buffer[s], h) /\ Append(buffer[s], h)[l] = h
        BY <1>13, <1>14
      <4>3. h \in ToSet(Append(buffer[s], h))
        BY <4>2 DEF ToSet
      <4> QED  BY <4>1, <4>3
    <3>5. \A n \in EncodedOn(s, b+1)' : FALSE
      BY <1>9, <1>10, <1>15, <3>1 DEF EncodedOn
    <3>6. committed'[s][b].event = e
      BY <3>1 DEF cb
    <3>7. e \in {Ev(n) : n \in ToSet(committed'[s][b].nodes)}
      BY <3>2, <3>4
    <3>8. \A n \in QueuedOn(s)' \cup EncodedOn(s, b+1)' : Earlier(e, Ev(n))
      BY <1>6, <3>2, <3>5
    <3> QED  BY <3>3, <3>6, <3>7, <3>8
  <2> QED  BY <2>1, <2>2
<1>23. Reached(s)'
  BY <1>1, <1>2, <1>4, <1>6, SameGraph DEF Reached
<1> QED  BY <1>19, <1>20, <1>21, <1>22, <1>23 DEF Line

LEMMA SyncCommitLine ==
  ASSUME LazyInv, [Next]_vars, ~Dispatch, NEW s \in Stream, SyncCommit(s)
  PROVE  Line(s)'
<1> USE DEF LazyInv, Inv
<1>1. /\ event' = event /\ Scheduled' = Scheduled /\ prog' = prog
      /\ \A n : Ev(n)' = Ev(n)
      /\ Given(s)' = Given(s)
  BY SameEvents, SameProg
<1>2. /\ s \in Gpu /\ queue[s] # <<>> /\ Task(s) = SyncTask /\ phase[s] = "idle"
      /\ UNCHANGED <<queue, computed, signaled>> /\ phase'[s] = "active"
  BY DEF SyncCommit, TypeOK, QueueTypes
<1>3. Held(s) /\ Ordered(s) /\ Waited(s) /\ SignalsLast(s) /\ Reached(s)
  BY DEF Line
<1>4. TasksOn(s)' = TasksOn(s) /\ QueuedOn(s)' = QueuedOn(s) /\ Task(s)' = Task(s)
  BY <1>2 DEF TasksOn, QueuedOn, Task, SyncTask
<1>5. PICK L \in Nat : L = Len(committed[s])
  BY LineTypes
<1>6. /\ DOMAIN committed[s] = 1 .. L /\ committed[s] \in Seq(Buffers)
      /\ DOMAIN Encoded(s) = 1 .. L+1
      /\ \A b \in 1 .. L : Encoded(s)[b] = committed[s][b].nodes
      /\ Encoded(s)[L+1] = buffer[s]
  BY <1>5, LineTypes
<1> DEFINE cb == [nodes |-> buffer[s], event |-> NoEvent, counted |-> FALSE]
<1>7. committed'[s] = Append(committed[s], cb) /\ buffer'[s] = <<>>
  BY DEF SyncCommit, Commit, TypeOK, BufferTypes
<1>8. /\ DOMAIN committed'[s] = 1 .. L+1 /\ Len(committed'[s]) = L+1 /\ committed'[s][L+1] = cb
      /\ \A b \in 1 .. L : committed'[s][b] = committed[s][b]
  BY <1>5, <1>6, <1>7
<1>9. DOMAIN Encoded(s)' = 1 .. L+2 /\ Encoded(s)'[L+2] = <<>> /\ \A b \in 1 .. L+1 : Encoded(s)'[b] = Encoded(s)[b]
  BY <1>6, <1>7, <1>8 DEF Encoded
<1> HIDE DEF cb
<1>10. \A b \in DOMAIN Encoded(s)' : \A j \in DOMAIN Encoded(s)'[b] :
         b \in DOMAIN Encoded(s) /\ j \in DOMAIN Encoded(s)[b] /\ Encoded(s)'[b][j] = Encoded(s)[b][j]
  <2> SUFFICES ASSUME NEW b \in DOMAIN Encoded(s)', NEW j \in DOMAIN Encoded(s)'[b]
               PROVE  b \in DOMAIN Encoded(s) /\ Encoded(s)'[b] = Encoded(s)[b]
    OBVIOUS
  <2>1. b # L+2
    BY <1>9
  <2> QED  BY <1>6, <1>9, <2>1
<1>11. \A f : EncodedOn(s, f)' = EncodedOn(s, f)
  BY <1>1, <1>6, <1>9, <1>10, SameGraph DEF EncodedOn
<1>12. Held(s)'
  BY <1>1, <1>2, <1>3, <1>4, <1>11 DEF Held
<1>13. Ordered(s)'
  <2>1. \A b, d \in DOMAIN Encoded(s)' : \A j \in DOMAIN Encoded(s)'[b], k \in DOMAIN Encoded(s)'[d] :
          b < d \/ (b = d /\ j < k) => Earlier(Ev(Encoded(s)'[b][j]), Ev(Encoded(s)'[d][k]))
    BY <1>3, <1>10 DEF Ordered
  <2> QED  BY <1>1, <1>2, <1>3, <1>4, <1>11, <2>1 DEF Ordered
<1>14. Waited(s)'
  <2>1. \A n \in EncodedOn(s, 1)' : InputsComputed(s, n)'
    BY <1>1, <1>2, <1>3, <1>11, StillComputed DEF Waited
  <2> QED  BY <1>2, <1>3, <1>4, <2>1 DEF Waited, SyncTask
<1>15. SignalsLast(s)'
  <2> SUFFICES ASSUME NEW b \in DOMAIN committed'[s], committed'[s][b].event # NoEvent
               PROVE  LET f == committed'[s][b].event IN
                        /\ f[2] = s /\ signaled[<<f[1], s>>] < f[3]
                        /\ f \in {Ev(n) : n \in Given(s)}
                        /\ b > 1 => f \in {Ev(n) : n \in ToSet(committed'[s][b].nodes)}
                        /\ \A n \in QueuedOn(s)' \cup EncodedOn(s, b+1)' : Earlier(f, Ev(n))
    BY <1>1, <1>2 DEF SignalsLast, NoEvent
  <2>1. b # L+1
    BY <1>8 DEF cb
  <2>2. b \in DOMAIN committed[s] /\ committed'[s][b] = committed[s][b]
    BY <1>5, <1>6, <1>8, <2>1
  <2> QED  BY <1>3, <1>4, <1>11, <2>2 DEF SignalsLast
<1>16. Reached(s)'
  BY <1>1, <1>2, <1>3, <1>4, SameGraph DEF Reached
<1> QED  BY <1>12, <1>13, <1>14, <1>15, <1>16 DEF Line

LEMMA SyncReturnLine ==
  ASSUME LazyInv, [Next]_vars, ~Dispatch, NEW s \in Stream, SyncReturn(s)
  PROVE  Line(s)'
<1> USE DEF LazyInv, Inv
<1>1. /\ event' = event /\ Scheduled' = Scheduled /\ prog' = prog
      /\ \A n : Ev(n)' = Ev(n)
      /\ Given(s)' = Given(s)
  BY SameEvents, SameProg
<1>2. /\ queue[s] # <<>> /\ Task(s) = SyncTask /\ phase'[s] = "idle"
      /\ UNCHANGED <<committed, buffer, computed, signaled>>
  BY DEF SyncReturn, TypeOK, QueueTypes
<1>3. queue'[s] = Tail(queue[s])
  BY DEF SyncReturn, Pop, TypeOK, QueueTypes
<1>4. Held(s) /\ Ordered(s) /\ Waited(s) /\ SignalsLast(s) /\ Reached(s)
  BY DEF Line
<1>5. /\ \A k \in TasksOn(s)' : k + 1 \in TasksOn(s) /\ queue'[s][k] = queue[s][k + 1] /\ k \in Nat \ {0}
      /\ QueuedOn(s)' = QueuedOn(s)
      /\ \A j, k \in TasksOn(s)' : j < k =>
              Earlier(Ev(queue'[s][j].arr[1]), Ev(queue'[s][k].arr[1]))
  BY <1>1, <1>2, <1>3, <1>4, Popped
<1>6. Encoded(s)' = Encoded(s)
  BY <1>2 DEF Encoded
<1>7. \A f : EncodedOn(s, f)' = EncodedOn(s, f)
  BY <1>1, <1>6, SameGraph DEF EncodedOn
<1>8. Held(s)'
  BY <1>1, <1>2, <1>4, <1>5, <1>7 DEF Held
<1>9. Ordered(s)'
  BY <1>1, <1>4, <1>5, <1>6, <1>7 DEF Ordered
<1>10. Waited(s)'
  <2>1. \A n \in EncodedOn(s, 1)' : InputsComputed(s, n)'
    BY <1>1, <1>2, <1>4, <1>7, StillComputed DEF Waited
  <2>2. \A k \in TasksOn(s)' : queue'[s][k].arr[1] \notin computed'
    BY <1>2, <1>4, <1>5 DEF Waited
  <2> QED  BY <1>2, <2>1, <2>2 DEF Waited
<1>11. SignalsLast(s)'
  BY <1>1, <1>2, <1>4, <1>5, <1>7 DEF SignalsLast, NoEvent
<1>12. Reached(s)'
  BY <1>1, <1>2, <1>4, <1>5, SameGraph DEF Reached
<1> QED  BY <1>8, <1>9, <1>10, <1>11, <1>12 DEF Line

LEMMA GpuRunLine ==
  ASSUME LazyInv, [Next]_vars, ~Dispatch, NEW s \in Stream, GpuRun(s)
  PROVE  /\ Line(s)'
         /\ \E n \in EncodedOn(s, 1) :
              /\ computed' = computed \cup {n}
              /\ InputsComputed(s, n)
              /\ \A m \in QueuedOn(s) \cup EncodedOn(s, 1) : m = n \/ Earlier(Ev(n), Ev(m))
<1> USE DEF LazyInv, Inv
<1>1. /\ event' = event /\ Scheduled' = Scheduled /\ prog' = prog
      /\ \A n : Ev(n)' = Ev(n)
      /\ Given(s)' = Given(s)
  BY SameEvents, SameProg
<1>2. /\ UNCHANGED <<queue, phase, buffer, signaled>>
      /\ committed[s] # <<>> /\ Head(committed[s]).nodes # <<>>
  BY DEF GpuRun
<1>3. Held(s) /\ Ordered(s) /\ Waited(s) /\ SignalsLast(s) /\ Reached(s)
  BY DEF Line
<1>4. TasksOn(s)' = TasksOn(s) /\ QueuedOn(s)' = QueuedOn(s) /\ Task(s)' = Task(s)
  BY <1>2 DEF TasksOn, QueuedOn, Task, SyncTask
<1>5. PICK L \in Nat : L = Len(committed[s])
  BY LineTypes
<1>6. /\ DOMAIN committed[s] = 1 .. L /\ committed[s] \in Seq(Buffers)
      /\ DOMAIN Encoded(s) = 1 .. L+1
      /\ \A b \in 1 .. L : Encoded(s)[b] = committed[s][b].nodes /\ committed[s][b] \in Buffers
      /\ Encoded(s)[L+1] = buffer[s]
      /\ \A b \in DOMAIN Encoded(s) : /\ Encoded(s)[b] \in Seq(Node)
                                     /\ DOMAIN Encoded(s)[b] = 1 .. Len(Encoded(s)[b])
                                     /\ Len(Encoded(s)[b]) \in Nat
                                     /\ \A j \in DOMAIN Encoded(s)[b] : Encoded(s)[b][j] \in Node
  BY <1>5, LineTypes
<1>7. PICK cb \in Buffers : cb = committed[s][1] /\ cb = Head(committed[s]) /\ 1 \in 1 .. L
  BY <1>2, <1>5, <1>6
<1>8. /\ cb.nodes = Encoded(s)[1] /\ cb.nodes \in Seq(Node) /\ cb.nodes # <<>>
      /\ 1 \in DOMAIN Encoded(s)[1] /\ 1 \in DOMAIN Encoded(s)
  BY <1>2, <1>6, <1>7
<1>9. PICK n \in Node : n = Encoded(s)[1][1]
  BY <1>6, <1>8
<1>10. computed' = computed \cup {n}
  BY <1>7, <1>8, <1>9 DEF GpuRun
<1>11. committed'[s] = <<[cb EXCEPT !.nodes = Tail(cb.nodes)]>> \o Tail(committed[s])
  BY <1>7 DEF GpuRun, TypeOK, BufferTypes
<1>12. /\ DOMAIN committed'[s] = 1 .. L /\ Len(committed'[s]) = L
       /\ committed'[s][1] = [cb EXCEPT !.nodes = Tail(cb.nodes)]
       /\ \A b \in 2 .. L : committed'[s][b] = committed[s][b]
  BY <1>5, <1>6, <1>7, <1>11
<1>13. \A b \in 1 .. L : committed'[s][b].event = committed[s][b].event
  <2>1. committed'[s][1].event = cb.event
    BY <1>12 DEF Buffers
  <2>2. \A b \in 1 .. L : b = 1 \/ b \in 2 .. L
    BY <1>5
  <2>3. \A b \in 2 .. L : committed'[s][b].event = committed[s][b].event
    BY <1>12
  <2> QED  BY <1>7, <2>1, <2>2, <2>3
<1>14. /\ DOMAIN Encoded(s)' = DOMAIN Encoded(s)
       /\ Encoded(s)'[1] = Tail(Encoded(s)[1])
       /\ \A b \in DOMAIN Encoded(s) : b # 1 => Encoded(s)'[b] = Encoded(s)[b]
  <2>1. Encoded(s)' = [b \in 1 .. L+1 |-> IF b <= L THEN committed'[s][b].nodes ELSE buffer[s]]
    BY <1>2, <1>12 DEF Encoded
  <2>2. committed'[s][1].nodes = Tail(cb.nodes)
    BY <1>12 DEF Buffers
  <2>3. Encoded(s)'[1] = Tail(Encoded(s)[1])
    <3>1. 1 \in 1 .. L+1 /\ 1 <= L
      BY <1>5, <1>7
    <3>2. Encoded(s)'[1] = committed'[s][1].nodes
      BY <2>1, <3>1
    <3> QED  BY <1>8, <2>2, <3>2
  <2>4. \A b \in 1 .. L+1 : b # 1 => Encoded(s)'[b] = Encoded(s)[b]
    <3> SUFFICES ASSUME NEW b \in 1 .. L+1, b # 1 PROVE Encoded(s)'[b] = Encoded(s)[b]
      OBVIOUS
    <3>1. CASE b = L+1
      BY <1>5, <1>6, <2>1, <3>1
    <3>2. CASE b # L+1
      <4>1. b \in 1 .. L /\ b \in 2 .. L /\ b <= L
        BY <1>5, <3>2
      <4> QED  BY <1>6, <1>12, <2>1, <4>1
    <3> QED  BY <3>1, <3>2
  <2>5. DOMAIN Encoded(s)' = DOMAIN Encoded(s)
    BY <1>6, <2>1
  <2> QED  BY <1>6, <2>3, <2>4, <2>5
<1>15. \A b \in DOMAIN Encoded(s)' : \A j \in DOMAIN Encoded(s)'[b] :
         IF b = 1 THEN j + 1 \in DOMAIN Encoded(s)[1] /\ Encoded(s)'[1][j] = Encoded(s)[1][j + 1] /\ j \in Nat
         ELSE b \in DOMAIN Encoded(s) /\ j \in DOMAIN Encoded(s)[b] /\ Encoded(s)'[b][j] = Encoded(s)[b][j]
  BY <1>6, <1>8, <1>14
<1>16. \A f \in Nat : EncodedOn(s, f)' \subseteq EncodedOn(s, f)
  <2> SUFFICES ASSUME NEW f \in Nat, NEW m, m \in EncodedOn(s, f)' PROVE m \in EncodedOn(s, f)
    OBVIOUS
  <2>1. PICK b \in DOMAIN Encoded(s)' : b >= f /\ \E j \in DOMAIN Encoded(s)'[b] : Encoded(s)'[b][j] = m
    BY DEF EncodedOn
  <2>2. m \in Node
    BY <1>1, SameGraph DEF EncodedOn
  <2>3. \E k \in DOMAIN Encoded(s)[b] : Encoded(s)[b][k] = m
    BY <1>15, <2>1
  <2> QED  BY <1>14, <2>1, <2>2, <2>3 DEF EncodedOn
<1>17. \A m \in EncodedOn(s, 1) : m = n \/ (m \in EncodedOn(s, 1)' /\ Earlier(Ev(n), Ev(m)))
  <2> SUFFICES ASSUME NEW b \in DOMAIN Encoded(s), NEW j \in DOMAIN Encoded(s)[b], ~(b = 1 /\ j = 1)
               PROVE  Encoded(s)[b][j] \in EncodedOn(s, 1)' /\ Earlier(Ev(n), Ev(Encoded(s)[b][j]))
    BY <1>9 DEF EncodedOn
  <2>1. Encoded(s)[b][j] \in Node' /\ b >= 1 /\ b \in DOMAIN Encoded(s)' /\ b \in Nat /\ j \in Nat /\ j >= 1
    BY <1>1, <1>6, <1>14, SameGraph
  <2>2. Earlier(Ev(n), Ev(Encoded(s)[b][j]))
    BY <1>3, <1>8, <1>9, <2>1 DEF Ordered
  <2>3. CASE b = 1
    <3>1. j - 1 \in DOMAIN Encoded(s)'[1] /\ Encoded(s)'[1][j - 1] = Encoded(s)[1][j]
      BY <1>6, <1>8, <1>14, <2>1, <2>3
    <3> QED  BY <2>1, <2>2, <2>3, <3>1 DEF EncodedOn
  <2>4. CASE b # 1
    <3>1. Encoded(s)'[b] = Encoded(s)[b]
      BY <1>14, <2>4
    <3> QED  BY <2>1, <2>2, <3>1 DEF EncodedOn
  <2> QED  BY <2>3, <2>4
<1>18. n \in EncodedOn(s, 1) /\ n \in Given(s) /\ InputsComputed(s, n)
  BY <1>3, <1>8, <1>9, Places1 DEF Held, Waited
<1>19. \A m \in QueuedOn(s) : Earlier(Ev(n), Ev(m)) /\ m # n
  BY <1>3, <1>18, EarlierFacts, ScheduledFacts DEF Ordered, Held
<1>20. Held(s)'
  BY <1>1, <1>2, <1>3, <1>4, <1>7, <1>10, <1>16, <1>17 DEF Held
<1>21. Ordered(s)'
  <2>1. ASSUME NEW b \in DOMAIN Encoded(s)', NEW d \in DOMAIN Encoded(s)',
               NEW j \in DOMAIN Encoded(s)'[b], NEW k \in DOMAIN Encoded(s)'[d],
               b < d \/ (b = d /\ j < k)
        PROVE  Earlier(Ev(Encoded(s)'[b][j]), Ev(Encoded(s)'[d][k]))
    <3>1. PICK p \in DOMAIN Encoded(s)[b] : /\ Encoded(s)'[b][j] = Encoded(s)[b][p]
                                            /\ p = IF b = 1 THEN j + 1 ELSE j
      BY <1>15
    <3>2. PICK q \in DOMAIN Encoded(s)[d] : /\ Encoded(s)'[d][k] = Encoded(s)[d][q]
                                            /\ q = IF d = 1 THEN k + 1 ELSE k
      BY <1>15
    <3>3. b < d \/ (b = d /\ p < q)
      <4>1. b = 1 => j \in Nat
        BY <1>15
      <4>2. d = 1 => k \in Nat
        BY <1>15
      <4> QED  BY <2>1, <3>1, <3>2, <4>1, <4>2
    <3> QED  BY <1>3, <1>14, <3>1, <3>2, <3>3 DEF Ordered
  <2>2. \A m \in EncodedOn(s, 1)', q \in QueuedOn(s)' : Earlier(Ev(m), Ev(q))
    BY <1>3, <1>4, <1>16 DEF Ordered
  <2> QED  BY <1>1, <1>2, <1>3, <1>4, <2>1, <2>2 DEF Ordered
<1>22. Waited(s)'
  <2>1. \A m \in EncodedOn(s, 1)' : InputsComputed(s, m)'
    BY <1>1, <1>3, <1>10, <1>16, StillComputed DEF Waited
  <2>2. phase[s] = "active" /\ Task(s) # SyncTask => InputsComputed(s, Task(s).arr[1])'
    BY <1>1, <1>3, <1>4, <1>10 DEF Waited, InputsComputed, Ins, Prim
  <2>3. \A k \in TasksOn(s) : queue[s][k].arr[1] # n
    BY <1>19, Places1
  <2> QED  BY <1>2, <1>3, <1>4, <1>10, <2>1, <2>2, <2>3 DEF Waited, SyncTask
<1>23. SignalsLast(s)'
  <2> SUFFICES ASSUME NEW b \in DOMAIN committed'[s], committed'[s][b].event # NoEvent
               PROVE  LET f == committed'[s][b].event IN
                        /\ f[2] = s /\ signaled[<<f[1], s>>] < f[3]
                        /\ f \in {Ev(m) : m \in Given(s)}
                        /\ b > 1 => f \in {Ev(m) : m \in ToSet(committed'[s][b].nodes)}
                        /\ \A m \in QueuedOn(s)' \cup EncodedOn(s, b+1)' : Earlier(f, Ev(m))
    BY <1>1, <1>2 DEF SignalsLast, NoEvent
  <2>1. b \in DOMAIN committed[s] /\ committed'[s][b].event = committed[s][b].event /\ b + 1 \in Nat
    BY <1>6, <1>12, <1>13
  <2>2. b > 1 => committed'[s][b] = committed[s][b]
    BY <1>6, <1>12, <2>1
  <2>3. EncodedOn(s, b+1)' \subseteq EncodedOn(s, b+1)
    BY <1>16, <2>1
  <2> QED  BY <1>3, <1>4, <2>1, <2>2, <2>3 DEF SignalsLast
<1>24. Reached(s)'
  BY <1>1, <1>2, <1>3, <1>4, <1>10, SameGraph DEF Reached
<1> QED  BY <1>10, <1>17, <1>18, <1>19, <1>20, <1>21, <1>22, <1>23, <1>24 DEF Line

LEMMA GpuFinishLine ==
  ASSUME LazyInv, [Next]_vars, ~Dispatch, NEW s \in Stream, GpuFinish(s)
  PROVE  /\ Line(s)'
         /\ \A c \in Call : signaled[<<c, s>>] <= signaled'[<<c, s>>]
         /\ \A c \in Call, t \in Stream : t # s => signaled'[<<c, t>>] = signaled[<<c, t>>]
<1> USE DEF LazyInv, Inv
<1>1. /\ event' = event /\ Scheduled' = Scheduled /\ prog' = prog
      /\ \A n : Ev(n)' = Ev(n)
      /\ Given(s)' = Given(s) /\ Call' = Call
  BY SameEvents, SameProg, SameGraph
<1>2. /\ UNCHANGED <<queue, phase, buffer, computed>>
      /\ committed[s] # <<>> /\ Head(committed[s]).nodes = <<>>
  BY DEF GpuFinish
<1>3. Held(s) /\ Ordered(s) /\ Waited(s) /\ SignalsLast(s) /\ Reached(s)
  BY DEF Line
<1>4. TasksOn(s)' = TasksOn(s) /\ QueuedOn(s)' = QueuedOn(s) /\ Task(s)' = Task(s)
  BY <1>2 DEF TasksOn, QueuedOn, Task, SyncTask
<1>5. PICK L \in Nat : L = Len(committed[s])
  BY LineTypes
<1>6. /\ DOMAIN committed[s] = 1 .. L /\ committed[s] \in Seq(Buffers)
      /\ DOMAIN Encoded(s) = 1 .. L+1
      /\ \A b \in 1 .. L : Encoded(s)[b] = committed[s][b].nodes /\ committed[s][b] \in Buffers
      /\ Encoded(s)[L+1] = buffer[s]
  BY <1>5, LineTypes
<1>7. PICK e : e = committed[s][1].event
  OBVIOUS
<1>8. 1 \in 1 .. L /\ Head(committed[s]) = committed[s][1] /\ Encoded(s)[1] = <<>> /\ L-1 \in Nat
  <2>1. 1 \in 1 .. L /\ Head(committed[s]) = committed[s][1] /\ L-1 \in Nat
    BY <1>2, <1>5, <1>6
  <2> QED  BY <1>2, <1>6, <2>1
<1>9. signaled' = IF e # NoEvent THEN [signaled EXCEPT ![<<e[1], e[2]>>] = e[3]] ELSE signaled
  BY <1>7, <1>8 DEF GpuFinish, Signal
<1>10. committed'[s] = Tail(committed[s])
  BY DEF GpuFinish, TypeOK, BufferTypes
<1>11. /\ DOMAIN committed'[s] = 1 .. L-1 /\ Len(committed'[s]) = L-1
       /\ \A b \in 1 .. L-1 : committed'[s][b] = committed[s][b + 1]
  BY <1>2, <1>5, <1>6, <1>10
<1>12. DOMAIN Encoded(s)' = 1 .. L /\ \A b \in 1 .. L : Encoded(s)'[b] = Encoded(s)[b + 1]
  <2>1. Encoded(s)' = [b \in 1 .. L |-> IF b <= L-1 THEN committed'[s][b].nodes ELSE buffer[s]]
    BY <1>2, <1>5, <1>11 DEF Encoded
  <2>2. ASSUME NEW b \in 1 .. L PROVE Encoded(s)'[b] = Encoded(s)[b + 1]
    <3>1. CASE b = L
      BY <1>5, <1>6, <1>8, <2>1, <3>1
    <3>2. CASE b # L
      <4>1. b \in 1 .. L-1 /\ b <= L-1 /\ b+1 \in 1 .. L
        BY <1>5, <3>2
      <4> QED  BY <1>6, <1>11, <2>1, <4>1
    <3> QED  BY <3>1, <3>2
  <2> QED  BY <2>1, <2>2
<1>13. \A f \in Nat : EncodedOn(s, f)' = EncodedOn(s, f + 1)
  <2> TAKE f \in Nat
  <2>1. ASSUME NEW n \in EncodedOn(s, f)' PROVE n \in EncodedOn(s, f + 1)
    <3>1. PICK b \in DOMAIN Encoded(s)' : b >= f /\ \E j \in DOMAIN Encoded(s)'[b] : Encoded(s)'[b][j] = n
      BY DEF EncodedOn
    <3>2. n \in Node
      BY <1>1, SameGraph DEF EncodedOn
    <3>3. b+1 \in DOMAIN Encoded(s) /\ b+1 >= f+1 /\ Encoded(s)'[b] = Encoded(s)[b + 1]
      BY <1>5, <1>6, <1>12, <3>1
    <3> QED  BY <3>1, <3>2, <3>3 DEF EncodedOn
  <2>2. ASSUME NEW n \in EncodedOn(s, f + 1) PROVE n \in EncodedOn(s, f)'
    <3>1. PICK b \in DOMAIN Encoded(s) : b >= f+1 /\ \E j \in DOMAIN Encoded(s)[b] : Encoded(s)[b][j] = n
      BY DEF EncodedOn
    <3>2. n \in Node'
      BY <1>1, SameGraph DEF EncodedOn
    <3>3. b # 1
      BY <1>8, <3>1
    <3>4. b-1 \in 1 .. L /\ b-1 >= f /\ (b-1) + 1 = b
      BY <1>5, <1>6, <3>1, <3>3
    <3>5. b-1 \in DOMAIN Encoded(s)' /\ Encoded(s)'[b - 1] = Encoded(s)[b]
      BY <1>12, <3>4
    <3> QED  BY <3>1, <3>2, <3>4, <3>5 DEF EncodedOn
  <2> QED  BY <2>1, <2>2
<1>14. EncodedOn(s, 1) = EncodedOn(s, 2)
  <2>1. EncodedOn(s, 2) \subseteq EncodedOn(s, 1)
    BY EncodedLater
  <2>2. ASSUME NEW n \in EncodedOn(s, 1) PROVE n \in EncodedOn(s, 2)
    <3>1. PICK b \in DOMAIN Encoded(s) : n \in Node /\ \E j \in DOMAIN Encoded(s)[b] : Encoded(s)[b][j] = n
      BY DEF EncodedOn
    <3>2. b >= 2
      BY <1>6, <1>8, <3>1
    <3> QED  BY <3>1, <3>2 DEF EncodedOn
  <2> QED  BY <2>1, <2>2
<1>15. EncodedOn(s, 1)' = EncodedOn(s, 1)
  BY <1>13, <1>14
\* What the buffer signals: a value of this stream, before all that is not computed.
<1>16. e # NoEvent => /\ e[2] = s /\ e[1] \in Call /\ e[1] \in Nat /\ e[3] \in Nat /\ e = <<e[1], s, e[3]>>
                      /\ e \in {Ev(n) : n \in Given(s)}
                      /\ signaled[<<e[1], s>>] < e[3]
                      /\ \A n \in QueuedOn(s) \cup EncodedOn(s, 1) : Earlier(e, Ev(n))
  <2> SUFFICES ASSUME e # NoEvent
               PROVE  /\ e[2] = s /\ e[1] \in Call /\ e[1] \in Nat /\ e[3] \in Nat /\ e = <<e[1], s, e[3]>>
                      /\ e \in {Ev(n) : n \in Given(s)}
                      /\ signaled[<<e[1], s>>] < e[3]
                      /\ \A n \in QueuedOn(s) \cup EncodedOn(s, 1) : Earlier(e, Ev(n))
    OBVIOUS
  <2>1. /\ e[2] = s /\ signaled[<<e[1], s>>] < e[3]
        /\ e \in {Ev(n) : n \in Given(s)}
        /\ \A n \in QueuedOn(s) \cup EncodedOn(s, 1 + 1) : Earlier(e, Ev(n))
    BY <1>3, <1>6, <1>7, <1>8 DEF SignalsLast
  <2>2. PICK n \in Given(s) : e = Ev(n)
    BY <2>1
  <2>3. e[1] \in Call /\ e[1] \in Nat /\ e[3] \in Nat /\ e = <<e[1], s, e[3]>>
    BY <2>1, <2>2, ScheduledFacts, StampFacts
  <2> QED  BY <1>14, <2>1, <2>3
<1>17. /\ \A c \in Call : signaled'[<<c, s>>] = IF e # NoEvent /\ e[1] = c THEN e[3] ELSE signaled[<<c, s>>]
       /\ \A c \in Call, t \in Stream : t # s => signaled'[<<c, t>>] = signaled[<<c, t>>]
       /\ \A c \in Call : signaled[<<c, s>>] \in Nat
  <2>1. signaled \in [Call \X Stream -> Nat]
    BY DEF TypeOK, ResultTypes
  <2> QED  BY <1>9, <1>16, <2>1
<1>18. \A c \in Call : signaled[<<c, s>>] <= signaled'[<<c, s>>]
  BY <1>16, <1>17
<1>19. \A n \in QueuedOn(s) \cup EncodedOn(s, 1) : n \in Given(s) /\ Ev(n)[1] \in Call /\ Ev(n)[3] \in Nat
  BY <1>3, ScheduledFacts, StampFacts DEF Held
\* What is after the event of the buffer is after what has been signaled.
<1>20. \A f : e # NoEvent /\ Earlier(e, f) /\ f[1] \in Nat /\ f[3] \in Nat /\ f[1] = e[1] => e[3] < f[3]
  BY <1>16 DEF Earlier
<1>21. Held(s)'
  <2>1. s \notin Gpu => committed[s] = <<>>
    BY <1>3 DEF Held
  <2> QED  BY <1>1, <1>2, <1>3, <1>4, <1>15, <2>1 DEF Held
<1>22. Ordered(s)'
  <2>1. ASSUME NEW b \in DOMAIN Encoded(s)', NEW d \in DOMAIN Encoded(s)',
               NEW j \in DOMAIN Encoded(s)'[b], NEW k \in DOMAIN Encoded(s)'[d],
               b < d \/ (b = d /\ j < k)
        PROVE  Earlier(Ev(Encoded(s)'[b][j]), Ev(Encoded(s)'[d][k]))
    <3>1. /\ b+1 \in DOMAIN Encoded(s) /\ d+1 \in DOMAIN Encoded(s)
          /\ Encoded(s)'[b] = Encoded(s)[b + 1] /\ Encoded(s)'[d] = Encoded(s)[d + 1]
          /\ b+1 < d+1 \/ (b+1 = d+1 /\ j < k)
      BY <1>5, <1>6, <1>12, <2>1
    <3> QED  BY <1>3, <3>1 DEF Ordered
  <2> QED  BY <1>1, <1>2, <1>3, <1>4, <1>15, <2>1 DEF Ordered
<1>23. Waited(s)'
  <2>1. \A n \in EncodedOn(s, 1)' : InputsComputed(s, n)'
    BY <1>1, <1>2, <1>3, <1>15, StillComputed DEF Waited
  <2>2. phase[s] = "active" /\ Task(s) # SyncTask => InputsComputed(s, Task(s).arr[1])'
    BY <1>1, <1>2, <1>3, <1>4 DEF Waited, InputsComputed, Ins, Prim
  <2> QED  BY <1>2, <1>3, <1>4, <2>1, <2>2 DEF Waited, SyncTask
<1>24. SignalsLast(s)'
  <2> SUFFICES ASSUME NEW b \in DOMAIN committed'[s], committed'[s][b].event # NoEvent
               PROVE  LET f == committed'[s][b].event IN
                        /\ f[2] = s /\ signaled'[<<f[1], s>>] < f[3]
                        /\ f \in {Ev(m) : m \in Given(s)}
                        /\ b > 1 => f \in {Ev(m) : m \in ToSet(committed'[s][b].nodes)}
                        /\ \A m \in QueuedOn(s)' \cup EncodedOn(s, b+1)' : Earlier(f, Ev(m))
    BY <1>1, <1>2 DEF SignalsLast, NoEvent
  <2>1. b + 1 \in DOMAIN committed[s] /\ committed'[s][b] = committed[s][b + 1] /\ b \in Nat /\ b+1 > 1
    BY <1>5, <1>6, <1>11
  <2>2. PICK f : f = committed[s][b + 1].event /\ f = committed'[s][b].event
    BY <2>1
  <2>3. /\ f[2] = s /\ signaled[<<f[1], s>>] < f[3]
        /\ f \in {Ev(m) : m \in Given(s)}
        /\ f \in {Ev(m) : m \in ToSet(committed[s][b + 1].nodes)}
        /\ \A m \in QueuedOn(s) \cup EncodedOn(s, (b+1)+1) : Earlier(f, Ev(m))
    BY <1>3, <2>1, <2>2 DEF SignalsLast
  <2>4. EncodedOn(s, b+1)' = EncodedOn(s, (b+1)+1)
    BY <1>13, <2>1
  <2>5. PICK m \in ToSet(committed[s][b + 1].nodes) : f = Ev(m)
    BY <2>3
  <2>6. m \in EncodedOn(s, 1)
    <3>1. Encoded(s)[b + 1] = committed[s][b + 1].nodes /\ b+1 \in DOMAIN Encoded(s)
      BY <1>5, <1>6, <2>1
    <3>2. PICK j \in DOMAIN Encoded(s)[b + 1] : Encoded(s)[b + 1][j] = m
      BY <2>5, <3>1 DEF ToSet
    <3> QED  BY <3>1, <3>2, Places1
  <2>7. f[1] \in Call /\ f[3] \in Nat /\ f[1] \in Nat
    BY <1>19, <2>5, <2>6, ScheduledFacts, StampFacts
  <2>8. signaled'[<<f[1], s>>] < f[3]
    <3>1. CASE e # NoEvent /\ e[1] = f[1]
      BY <1>16, <1>17, <1>20, <2>5, <2>6, <2>7, <3>1
    <3>2. CASE ~(e # NoEvent /\ e[1] = f[1])
      BY <1>17, <2>3, <2>7, <3>2
    <3> QED  BY <3>1, <3>2
  <2> QED  BY <1>4, <2>1, <2>2, <2>3, <2>4, <2>8
<1>25. Reached(s)'
  <2>1. ASSUME NEW c \in Call, signaled'[<<c, s>>] # 0
        PROVE  <<c, s, signaled'[<<c, s>>]>> \in {Ev(n) : n \in Given(s)}
    <3>1. CASE e # NoEvent /\ e[1] = c
      BY <1>16, <1>17, <3>1
    <3>2. CASE ~(e # NoEvent /\ e[1] = c)
      BY <1>3, <1>17, <2>1, <3>2 DEF Reached
    <3> QED  BY <3>1, <3>2
  <2>2. ASSUME NEW n \in QueuedOn(s) \cup EncodedOn(s, 1),
               signaled[<<Ev(n)[1], s>>] < Ev(n)[3]
        PROVE  signaled'[<<Ev(n)[1], s>>] < Ev(n)[3]
    <3>1. CASE e # NoEvent /\ e[1] = Ev(n)[1]
      BY <1>16, <1>17, <1>19, <1>20, <3>1
    <3>2. CASE ~(e # NoEvent /\ e[1] = Ev(n)[1])
      BY <1>17, <1>19, <2>2, <3>2
    <3> QED  BY <3>1, <3>2
  <2>3. ASSUME NEW n \in Given(s), n \notin computed, Ev(n)[3] <= signaled'[<<Ev(n)[1], s>>]
        PROVE  FALSE
    <3>1. n \in QueuedOn(s) \cup EncodedOn(s, 1)
      BY <1>3, <2>3 DEF Held
    <3>2. Ev(n)[1] \in Call /\ Ev(n)[3] \in Nat /\ signaled[<<Ev(n)[1], s>>] \in Nat
      BY <1>17, <1>19, <3>1
    <3>3. signaled[<<Ev(n)[1], s>>] < Ev(n)[3]
      BY <1>3, <2>3, <3>2 DEF Reached
    <3>4. signaled'[<<Ev(n)[1], s>>] < Ev(n)[3]
      BY <2>2, <3>1, <3>3
    <3>5. signaled'[<<Ev(n)[1], s>>] \in Nat
      BY <1>16, <1>17, <3>2
    <3> QED  BY <2>3, <3>2, <3>4, <3>5
  <2>4. \A n \in QueuedOn(s) : signaled'[<<Ev(n)[1], s>>] < Ev(n)[3]
    BY <1>3, <2>2 DEF Reached
  <2> QED  BY <1>1, <1>2, <1>4, <2>1, <2>3, <2>4 DEF Reached
<1> QED  BY <1>17, <1>18, <1>21, <1>22, <1>23, <1>24, <1>25 DEF Line

\* A CPU stream encodes nothing.
LEMMA NothingEncoded ==
  ASSUME TypeOK, NEW s \in Stream, Held(s), s \notin Gpu
  PROVE  /\ committed[s] = <<>> /\ buffer[s] = <<>>
         /\ \A b \in DOMAIN Encoded(s) : Encoded(s)[b] = <<>>
         /\ \A f : EncodedOn(s, f) = {}
<1>1. committed[s] = <<>> /\ buffer[s] = <<>>
  BY DEF Held
<1>2. \A b \in DOMAIN Encoded(s) : Encoded(s)[b] = <<>>
  BY <1>1 DEF Encoded
<1> QED  BY <1>1, <1>2 DEF EncodedOn

LEMMA CpuStartLine ==
  ASSUME LazyInv, [Next]_vars, ~Dispatch, NEW s \in Stream, CpuStart(s)
  PROVE  Line(s)'
<1> USE DEF LazyInv, Inv
<1>1. /\ event' = event /\ Scheduled' = Scheduled /\ prog' = prog
      /\ \A n : Ev(n)' = Ev(n)
      /\ Given(s)' = Given(s) /\ Call' = Call
  BY SameEvents, SameProg, SameGraph
<1>2. /\ UNCHANGED <<queue, buffer, committed, computed, signaled>> /\ phase'[s] = "active"
      /\ queue[s] # <<>> /\ Task(s) # SyncTask /\ phase[s] = "idle" /\ InputsReady(Task(s).arr)
  BY DEF CpuStart, Runs, TypeOK, QueueTypes
<1>3. Held(s) /\ Ordered(s) /\ Waited(s) /\ SignalsLast(s) /\ Reached(s)
  BY DEF Line
<1>4. /\ TasksOn(s)' = TasksOn(s) /\ QueuedOn(s)' = QueuedOn(s) /\ Task(s)' = Task(s)
      /\ Encoded(s)' = Encoded(s)
  BY <1>2 DEF TasksOn, QueuedOn, Task, SyncTask, Encoded
<1>5. \A f : EncodedOn(s, f)' = EncodedOn(s, f)
  BY <1>1, <1>4, SameGraph DEF EncodedOn
<1>6. Held(s)'
  BY <1>1, <1>2, <1>3, <1>4, <1>5 DEF Held
<1>7. Ordered(s)'
  BY <1>1, <1>2, <1>3, <1>4, <1>5 DEF Ordered
<1>8. Waited(s)'
  <2>1. \A n \in EncodedOn(s, 1)' : InputsComputed(s, n)'
    BY <1>1, <1>2, <1>3, <1>5, StillComputed DEF Waited
  <2>2. InputsComputed(s, Task(s).arr[1])'
    <3>1. 1 \in TasksOn(s) /\ Task(s) = queue[s][1]
      BY <1>2, LineTypes DEF TasksOn
    <3>2. Task(s).arr \in Array /\ Task(s).arr[1] \in Given(s)
      BY <1>3, <3>1, LineTypes, Places1 DEF Held
    <3>3. InputsComputed(s, Task(s).arr[1])
      BY <1>2, <3>2, ReadyComputed
    <3> QED  BY <1>1, <1>2, <1>4, <3>3 DEF InputsComputed, Ins, Prim
  <2>3. \A k \in TasksOn(s) : queue[s][k].arr[1] \notin computed
    BY <1>2, <1>3 DEF Waited
  <2> QED  BY <1>2, <1>4, <2>1, <2>2, <2>3 DEF Waited, SyncTask
<1>9. SignalsLast(s)'
  BY <1>1, <1>2, <1>3, <1>4, <1>5 DEF SignalsLast, NoEvent
<1>10. Reached(s)'
  BY <1>1, <1>2, <1>3, <1>4 DEF Reached
<1> QED  BY <1>6, <1>7, <1>8, <1>9, <1>10 DEF Line

LEMMA CpuComputeLine ==
  ASSUME LazyInv, [Next]_vars, ~Dispatch, NEW s \in Stream, CpuCompute(s)
  PROVE  /\ Line(s)'
         /\ \E n \in QueuedOn(s) :
              /\ computed' = computed \cup {n}
              /\ InputsComputed(s, n)
              /\ \A m \in QueuedOn(s) \cup EncodedOn(s, 1) : m = n \/ Earlier(Ev(n), Ev(m))
<1> USE DEF LazyInv, Inv
<1>1. /\ event' = event /\ Scheduled' = Scheduled /\ prog' = prog
      /\ \A n : Ev(n)' = Ev(n)
      /\ Given(s)' = Given(s) /\ Call' = Call
  BY SameEvents, SameProg, SameGraph
<1>2. /\ UNCHANGED <<queue, buffer, committed, signaled>> /\ phase'[s] = "computed"
      /\ queue[s] # <<>> /\ Task(s) # SyncTask /\ phase[s] = "active" /\ s \notin Gpu
  BY DEF CpuCompute, Runs, TypeOK, QueueTypes
<1>3. Held(s) /\ Ordered(s) /\ Waited(s) /\ SignalsLast(s) /\ Reached(s)
  BY DEF Line
<1>4. /\ TasksOn(s)' = TasksOn(s) /\ QueuedOn(s)' = QueuedOn(s) /\ Task(s)' = Task(s)
      /\ Encoded(s)' = Encoded(s)
  BY <1>2 DEF TasksOn, QueuedOn, Task, SyncTask, Encoded
<1>5. \A f : EncodedOn(s, f)' = EncodedOn(s, f)
  BY <1>1, <1>4, SameGraph DEF EncodedOn
<1>6. \A f : EncodedOn(s, f) = {}
  BY <1>2, <1>3, NothingEncoded
<1>7. PICK n : n = Task(s).arr[1]
  OBVIOUS
<1>8. /\ 1 \in TasksOn(s) /\ Task(s) = queue[s][1] /\ n \in QueuedOn(s) /\ n \in Given(s)
      /\ TasksOn(s) \subseteq 1 .. Len(queue[s]) /\ Len(queue[s]) \in Nat
  <2>1. 1 \in TasksOn(s) /\ Task(s) = queue[s][1]
    BY <1>2, LineTypes DEF TasksOn
  <2> QED  BY <1>3, <1>7, <2>1, LineTypes, Places1 DEF Held
<1>9. computed' = computed \cup {n} /\ InputsComputed(s, n)
  BY <1>2, <1>3, <1>7 DEF CpuCompute, Waited
<1>10. \A k \in TasksOn(s) : k = 1 \/ Earlier(Ev(n), Ev(queue[s][k].arr[1]))
  BY <1>3, <1>7, <1>8 DEF Ordered
<1>11. \A m \in QueuedOn(s) : m = n \/ Earlier(Ev(n), Ev(m))
  BY <1>7, <1>8, <1>10 DEF QueuedOn
<1>12. \A k \in TasksOn(s) : k = 1 \/ queue[s][k].arr[1] # n
  BY <1>3, <1>8, <1>10, ScheduledFacts, EarlierFacts DEF Held
<1>13. Held(s)'
  BY <1>1, <1>2, <1>3, <1>4, <1>5, <1>9 DEF Held
<1>14. Ordered(s)'
  BY <1>1, <1>2, <1>3, <1>4, <1>5 DEF Ordered
<1>15. Waited(s)'
  <2>1. \A k \in TasksOn(s) : queue[s][k].arr[1] \notin computed
    BY <1>2, <1>3 DEF Waited
  <2>2. \A k \in TasksOn(s) : queue[s][k].arr[1] \in computed' => k = 1
    BY <1>9, <1>12, <2>1
  <2> QED  BY <1>2, <1>4, <1>5, <1>6, <1>7, <1>9, <2>2 DEF Waited, SyncTask
<1>16. SignalsLast(s)'
  BY <1>2, <1>3, NothingEncoded DEF SignalsLast
<1>17. Reached(s)'
  BY <1>1, <1>2, <1>3, <1>4, <1>9 DEF Reached
<1> QED  BY <1>6, <1>8, <1>9, <1>11, <1>13, <1>14, <1>15, <1>16, <1>17 DEF Line

LEMMA CpuPublishLine ==
  ASSUME LazyInv, [Next]_vars, ~Dispatch, NEW s \in Stream, CpuPublish(s)
  PROVE  /\ Line(s)'
         /\ \A c \in Call : signaled[<<c, s>>] <= signaled'[<<c, s>>]
         /\ \A c \in Call, t \in Stream : t # s => signaled'[<<c, t>>] = signaled[<<c, t>>]
<1> USE DEF LazyInv, Inv
<1>1. /\ event' = event /\ Scheduled' = Scheduled /\ prog' = prog
      /\ \A n : Ev(n)' = Ev(n)
      /\ Given(s)' = Given(s) /\ Call' = Call
  BY SameEvents, SameProg, SameGraph
<1>2. /\ UNCHANGED <<buffer, committed, computed>> /\ phase'[s] = "idle"
      /\ queue[s] # <<>> /\ Task(s) # SyncTask /\ phase[s] = "computed" /\ s \notin Gpu
  BY DEF CpuPublish, Runs, TypeOK, QueueTypes
<1>3. queue'[s] = Tail(queue[s])
  BY DEF CpuPublish, Pop, TypeOK, QueueTypes
<1>4. Held(s) /\ Ordered(s) /\ Waited(s) /\ SignalsLast(s) /\ Reached(s)
  BY DEF Line
<1>5. PICK h : h = Task(s).arr[1]
  OBVIOUS
<1>6. /\ \A k \in TasksOn(s)' : k + 1 \in TasksOn(s) /\ queue'[s][k] = queue[s][k + 1] /\ k \in Nat \ {0}
      /\ QueuedOn(s)' \subseteq QueuedOn(s)
      /\ Task(s) = queue[s][1] /\ 1 \in TasksOn(s)
      /\ Task(s).arr \in Array /\ h \in QueuedOn(s)
      /\ QueuedOn(s) = QueuedOn(s)' \cup {h}
      /\ \A n \in QueuedOn(s)' : Earlier(Ev(h), Ev(n))
      /\ \A j, k \in TasksOn(s)' : j < k =>
              Earlier(Ev(queue'[s][j].arr[1]), Ev(queue'[s][k].arr[1]))
  BY <1>1, <1>2, <1>3, <1>4, <1>5, Popped
<1>7. /\ h \in Given(s) /\ h \in Scheduled /\ h \in computed
      /\ Ev(h)[1] \in Call /\ Ev(h)[1] \in Nat /\ Ev(h)[3] \in Nat /\ Ev(h) = <<Ev(h)[1], s, Ev(h)[3]>>
      /\ Ev(h)[2] = s
  BY <1>2, <1>4, <1>5, <1>6, ScheduledFacts, StampFacts DEF Held, Waited
<1>8. event[Task(s).arr] = Ev(h)
  BY <1>5, <1>6, <1>7, ScheduledFacts, StampFacts
<1>9. /\ Encoded(s)' = Encoded(s)
      /\ \A f : EncodedOn(s, f) = {}
      /\ \A b \in DOMAIN Encoded(s) : DOMAIN Encoded(s)[b] = {}
  BY <1>2, <1>4, NothingEncoded DEF Encoded
<1>10. \A f : EncodedOn(s, f)' = {}
  BY <1>1, <1>9, SameGraph DEF EncodedOn
<1>11. /\ \A c \in Call : signaled'[<<c, s>>] = IF Task(s).signal /\ Ev(h)[1] = c THEN Ev(h)[3] ELSE signaled[<<c, s>>]
       /\ \A c \in Call, t \in Stream : t # s => signaled'[<<c, t>>] = signaled[<<c, t>>]
       /\ \A c \in Call : signaled[<<c, s>>] \in Nat
  <2>1. signaled \in [Call \X Stream -> Nat]
    BY DEF TypeOK, ResultTypes
  <2>2. signaled' = IF Task(s).signal THEN [signaled EXCEPT ![<<Ev(h)[1], s>>] = Ev(h)[3]] ELSE signaled
    BY <1>7, <1>8 DEF CpuPublish, Signal
  <2>3. <<Ev(h)[1], s>> \in Call \X Stream
    BY <1>7
  <2> QED  BY <2>1, <2>2, <2>3
<1>12. signaled[<<Ev(h)[1], s>>] < Ev(h)[3]
  BY <1>4, <1>6 DEF Reached
<1>13. \A c \in Call : signaled[<<c, s>>] <= signaled'[<<c, s>>]
  BY <1>7, <1>11, <1>12
<1>14. Held(s)'
  <2>1. Given(s) \ computed \subseteq QueuedOn(s)' /\ QueuedOn(s)' \subseteq Given(s)
    BY <1>4, <1>6, <1>7, <1>9 DEF Held
  <2> QED  BY <1>1, <1>2, <1>4, <1>10, <2>1 DEF Held
<1>15. Ordered(s)'
  BY <1>1, <1>6, <1>9, <1>10 DEF Ordered
<1>16. Waited(s)'
  <2>1. \A k \in TasksOn(s)' : queue'[s][k].arr[1] \notin computed'
    <3> SUFFICES ASSUME NEW k \in TasksOn(s)', queue'[s][k].arr[1] \in computed PROVE FALSE
      BY <1>2
    <3>1. k + 1 = 1 /\ k \in Nat \ {0}
      BY <1>4, <1>6 DEF Waited
    <3> QED  BY <3>1
  <2> QED  BY <1>2, <1>10, <2>1 DEF Waited
<1>17. SignalsLast(s)'
  BY <1>2, <1>4, NothingEncoded DEF SignalsLast
<1>18. Reached(s)'
  <2>1. ASSUME NEW c \in Call, signaled'[<<c, s>>] # 0
        PROVE  <<c, s, signaled'[<<c, s>>]>> \in {Ev(n) : n \in Given(s)}
    <3>1. CASE Task(s).signal /\ Ev(h)[1] = c
      BY <1>7, <1>11, <3>1
    <3>2. CASE ~(Task(s).signal /\ Ev(h)[1] = c)
      BY <1>4, <1>11, <2>1, <3>2 DEF Reached
    <3> QED  BY <3>1, <3>2
  <2>2. ASSUME NEW n \in QueuedOn(s)' PROVE signaled'[<<Ev(n)[1], s>>] < Ev(n)[3]
    <3>1. Ev(n)[1] \in Call /\ Ev(n)[3] \in Nat /\ Ev(n)[1] \in Nat
      BY <1>4, <1>6, ScheduledFacts, StampFacts DEF Held
    <3>2. Earlier(Ev(h), Ev(n)) /\ signaled[<<Ev(n)[1], s>>] < Ev(n)[3]
      BY <1>4, <1>6 DEF Reached
    <3>3. CASE Ev(h)[1] = Ev(n)[1]
      <4>1. Ev(h)[3] < Ev(n)[3]
        BY <1>7, <3>1, <3>2, <3>3 DEF Earlier
      <4> QED  BY <1>11, <3>1, <3>2, <3>3, <4>1
    <3>4. CASE Ev(h)[1] # Ev(n)[1]
      BY <1>11, <3>1, <3>2, <3>4
    <3> QED  BY <3>3, <3>4
  <2>3. ASSUME NEW n \in Given(s), n \notin computed, Ev(n)[3] <= signaled'[<<Ev(n)[1], s>>]
        PROVE  FALSE
    <3>1. n \in QueuedOn(s)'
      BY <1>4, <1>6, <1>7, <1>9, <2>3 DEF Held
    <3>2. Ev(n)[1] \in Call /\ Ev(n)[3] \in Nat
      BY ScheduledFacts, StampFacts
    <3>3. signaled'[<<Ev(n)[1], s>>] \in Nat
      BY <1>7, <1>11, <3>2
    <3> QED  BY <2>2, <2>3, <3>1, <3>2, <3>3
  <2> QED  BY <1>1, <1>2, <2>1, <2>2, <2>3 DEF Reached
<1> QED  BY <1>11, <1>13, <1>14, <1>15, <1>16, <1>17, <1>18 DEF Line

LEMMA SynchronizeLine ==
  ASSUME LazyInv, [Next]_vars, ~Dispatch, Synchronize, NEW s \in Stream
  PROVE  Line(s)'
<1> USE DEF LazyInv, Inv
<1>1. /\ event' = event /\ Scheduled' = Scheduled /\ prog' = prog
      /\ \A n : Ev(n)' = Ev(n)
      /\ Given(s)' = Given(s) /\ Call' = Call
  BY SameEvents, SameProg, SameGraph
<1>2. UNCHANGED <<phase, buffer, committed, computed, signaled>>
  BY DEF Synchronize
<1>3. Held(s) /\ Ordered(s) /\ Waited(s) /\ SignalsLast(s) /\ Reached(s)
  BY DEF Line
<1>4. queue'[s] = queue[s] \/ queue'[s] = Append(queue[s], SyncTask)
  BY DEF Synchronize, TypeOK, QueueTypes
<1>5. queue[s] \in Seq(Tasks) /\ Len(queue[s]) \in Nat /\ DOMAIN queue[s] = 1 .. Len(queue[s])
  BY LineTypes
<1>6. \A k : k \in TasksOn(s)' <=> k \in TasksOn(s)
  <2>1. CASE queue'[s] = queue[s]
    BY <2>1 DEF TasksOn, SyncTask
  <2>2. CASE queue'[s] = Append(queue[s], SyncTask)
    <3>1. /\ DOMAIN queue'[s] = 1 .. Len(queue[s]) + 1
          /\ \A k \in 1 .. Len(queue[s]) : queue'[s][k] = queue[s][k]
          /\ queue'[s][Len(queue[s]) + 1] = SyncTask
      BY <1>5, <2>2
    <3>2. \A k : k \in TasksOn(s)' <=> k \in DOMAIN queue'[s] /\ queue'[s][k] # SyncTask
      BY DEF TasksOn, SyncTask
    <3>3. \A k : k \in TasksOn(s) <=> k \in DOMAIN queue[s] /\ queue[s][k] # SyncTask
      BY DEF TasksOn
    <3> QED  BY <1>5, <3>1, <3>2, <3>3
  <2> QED  BY <1>4, <2>1, <2>2
<1>7. /\ \A k \in TasksOn(s) : queue'[s][k] = queue[s][k]
      /\ queue[s] # <<>> => Task(s)' = Task(s) /\ queue'[s] # <<>>
  <2>1. CASE queue'[s] = queue[s]
    BY <2>1 DEF Task
  <2>2. CASE queue'[s] = Append(queue[s], SyncTask)
    BY <1>5, <2>2 DEF Task, TasksOn
  <2> QED  BY <1>4, <2>1, <2>2
<1>8. TasksOn(s)' = TasksOn(s)
  BY <1>6
<1>9. QueuedOn(s)' = QueuedOn(s) /\ Encoded(s)' = Encoded(s)
  BY <1>2, <1>7, <1>8 DEF QueuedOn, Encoded
<1>10. \A f : EncodedOn(s, f)' = EncodedOn(s, f)
  BY <1>1, <1>9, SameGraph DEF EncodedOn
<1>11. Held(s)'
  BY <1>1, <1>2, <1>3, <1>9, <1>10 DEF Held
<1>12. Ordered(s)'
  BY <1>1, <1>3, <1>7, <1>8, <1>9, <1>10 DEF Ordered
<1>13. Waited(s)'
  <2>1. \A n \in EncodedOn(s, 1)' : InputsComputed(s, n)'
    BY <1>1, <1>2, <1>3, <1>10, StillComputed DEF Waited
  <2>p. PICK n : n = Task(s).arr[1]
    OBVIOUS
  <2>2. phase[s] = "active" /\ Task(s) # SyncTask => InputsComputed(s, n)'
    BY <1>1, <1>2, <1>3, <2>p, StillComputed DEF Waited
  <2>3. phase[s] # "idle" => queue'[s] # <<>> /\ Task(s)' = Task(s)
    BY <1>3, <1>7 DEF Waited
  <2>4. phase[s] = "active" /\ Task(s)' # SyncTask => InputsComputed(s, Task(s).arr[1])'
    <3> SUFFICES ASSUME phase[s] = "active", Task(s)' # SyncTask PROVE InputsComputed(s, Task(s).arr[1])'
      OBVIOUS
    <3>1. InputsComputed(s, n)' /\ n = Task(s)'.arr[1]
      BY <2>2, <2>3, <2>p
    <3> QED  BY <3>1 DEF InputsComputed
  <2>5. phase[s] = "computed" => Task(s)' # SyncTask /\ Task(s)'.arr[1] \in computed
    BY <1>3, <2>3 DEF Waited
  <2>6. \A k \in TasksOn(s)' : queue'[s][k].arr[1] \in computed => phase[s] = "computed" /\ k = 1
    BY <1>3, <1>7, <1>8 DEF Waited
  <2> QED  BY <1>2, <2>1, <2>3, <2>4, <2>5, <2>6 DEF Waited, SyncTask
<1>14. SignalsLast(s)'
  BY <1>1, <1>2, <1>3, <1>9, <1>10 DEF SignalsLast, NoEvent
<1>15. Reached(s)'
  BY <1>1, <1>2, <1>3, <1>9 DEF Reached
<1> QED  BY <1>11, <1>12, <1>13, <1>14, <1>15 DEF Line

(***************************************************************************)
(* What a dispatch does: the inputs of the node are scheduled, since those *)
(* that still have to be evaluated would be on the tape after it, and its  *)
(* event comes after those of all the nodes its stream was given.          *)
(***************************************************************************)
Dispatches(n, s) ==
  /\ n \notin Scheduled /\ n \notin computed /\ s = StreamOf(n)
  /\ \A a \in ToSet(Ins(n)) : ~Unscheduled(a)
  /\ pc = "dispatch" /\ pc' = "dispatch" /\ call' = call /\ call \in Call /\ call \in Nat
  /\ counter \in [Stream -> Nat] /\ counter' = [counter EXCEPT ![s] = @ + 1]
  /\ \A a \in Array : event'[a] = IF a[1] = n THEN <<call, s, counter[s] + 1>> ELSE event[a]
  /\ \A a \in Array : Unscheduled(a)' <=> Unscheduled(a) /\ a[1] # n
  /\ Scheduled' = Scheduled \cup {n}
  /\ Ev(n)' = <<call, s, counter[s] + 1>>
  /\ \A m \in Scheduled : Ev(m)' = Ev(m) /\ (Ev(m)[2] = s => Earlier(Ev(m), Ev(n)'))
  /\ Given(s)' = Given(s) \cup {n}
  /\ \A t : t # s => Given(t)' = Given(t)
  /\ \E arr \in Array : arr[1] = n /\ \E b \in BOOLEAN :
       queue' = [queue EXCEPT ![s] = Append(@, [arr |-> arr, signal |-> b])]

LEMMA DispatchFacts ==
  ASSUME LazyInv, [Next]_vars, Dispatch
  PROVE  \E n \in Node, s \in Stream : Dispatches(n, s)
<1> USE DEF LazyInv, Inv
<1>1. /\ pc = "dispatch" /\ pc' = "dispatch" /\ tape # <<>> /\ prog' = prog /\ call' = call
      /\ syncStream' = syncStream
  BY DEF Dispatch
<1>2. call \in Call /\ call \in Nat /\ counter \in [Stream -> Nat] /\ tape \in Seq(Array)
  BY <1>1 DEF TypeOK, HostTypes, ArrayTypes, TapeTypes
<1>3. PICK arr \in Array : arr = Last(tape)
  BY DispatchedNode
<1>4. PICK n \in Node : n = arr[1]
  BY Graph
<1>5. PICK s \in Stream : s = StreamOf(n)
  BY Graph
<1>6. n \in Walked(Root) /\ Unscheduled(<<n, 1>>)
  BY <1>3, <1>4, DispatchedNode
<1>7. n \notin Scheduled /\ n \notin computed
  BY <1>6 DEF Scheduled, Available
<1>8. \A a \in Array : a \in Siblings(arr) <=> a[1] = n
  BY <1>3, <1>4, ArrayFacts DEF TypeOK, HostTypes
<1>9. \A a \in Array : Unscheduled(a)' <=> Unscheduled(a) /\ a[1] # n
  BY <1>3, <1>4, ScheduleStep
<1>10. counter' = [counter EXCEPT ![s] = counter[s] + 1]
  BY <1>3, <1>4, <1>5 DEF Dispatch
<1>11. event' = [a \in Array |-> IF a \in Siblings(arr) THEN <<call, s, counter[s] + 1>> ELSE event[a]]
  <2>1. counter'[s] = counter[s] + 1
    BY <1>2, <1>10
  <2>2. event' = Attach(arr, <<call, s, counter'[s]>>)
    BY <1>3, <1>4, <1>5 DEF Dispatch
  <2> QED  BY <2>1, <2>2 DEF Attach
<1>12. \A a \in Array : event'[a] = IF a[1] = n THEN <<call, s, counter[s] + 1>> ELSE event[a]
  BY <1>8, <1>11
<1>13. \A m \in Node : <<m, 1>> \in Array /\ <<m, 1>>[1] = m
  BY Graph
<1>14. Scheduled' = Scheduled \cup {n}
  <2>1. Node' = Node
    BY <1>1, SameGraph
  <2> QED  BY <1>9, <1>13, <2>1 DEF Scheduled
<1>15. Ev(n)' = <<call, s, counter[s] + 1>>
  BY <1>12, <1>13 DEF Ev
<1>16. \A m \in Scheduled : m \in Node /\ Ev(m)' = Ev(m)
  BY <1>7, <1>12, <1>13 DEF Ev, Scheduled
<1>17. ASSUME NEW m \in Scheduled, Ev(m)[2] = s PROVE Earlier(Ev(m), Ev(n)')
  <2>1. <<m, 1>> \in Array /\ ~Unscheduled(<<m, 1>>) /\ <<m, 1>>[1] = m
    BY <1>13, <1>16 DEF Scheduled
  <2>2. Ev(m)[1] <= call /\ (Ev(m)[1] = call => Ev(m)[3] <= counter[s])
    BY <1>1, <1>17, <2>1 DEF Stamps
  <2>3. Ev(m)[1] \in Nat /\ Ev(m)[3] \in Nat /\ counter[s] \in Nat
    BY <1>2, StampFacts
  <2>4. Ev(m)[1] < call \/ (Ev(m)[1] = call /\ Ev(m)[3] < counter[s] + 1)
    BY <1>2, <2>2, <2>3
  <2> QED  BY <1>15, <2>4 DEF Earlier
<1>18. \A t : Given(t)' = {m \in Scheduled \cup {n} : Ev(m)'[2] = t}
  BY <1>14 DEF Given
<1>19. Given(s)' = Given(s) \cup {n} /\ \A t : t # s => Given(t)' = Given(t)
  <2>1. Ev(n)'[2] = s
    BY <1>15
  <2>2. Given(s)' = Given(s) \cup {n}
    BY <1>7, <1>16, <1>18, <2>1 DEF Given
  <2>3. ASSUME NEW t, t # s PROVE Given(t)' = Given(t)
    BY <1>7, <1>16, <1>18, <2>1, <2>3 DEF Given
  <2> QED  BY <2>2, <2>3
<1>20. ASSUME NEW a \in ToSet(Ins(n)) PROVE ~Unscheduled(a)
  <2> SUFFICES ASSUME Unscheduled(a) PROVE FALSE
    OBVIOUS
  <2>1. PICK l \in DOMAIN tape : l = Len(tape) /\ tape[l] = arr
    BY <1>1, <1>2, <1>3, SeqFacts DEF Last
  <2>2. a \in Array /\ a[1] \in Node /\ n > a[1]
    BY ScheduledFacts, Graph, GraphFacts DEF ToSet
  <2>3. a[1] \in Walked(Root)
    <3>1. Root \in Node /\ prog \in Programs
      BY <1>2, Graph DEF Root
    <3> QED  BY <1>6, <2>2, <3>1, WalkedFacts
  <2>4. Unscheduled(<<a[1], 1>>)
    BY <1>13, <2>2 DEF Shared
  <2>5. PICK j \in DOMAIN tape : tape[j][1] = a[1]
    <3>1. a[1] \in {b[1] : b \in ToSet(tape)}
      BY <1>1, <2>3, <2>4 DEF ToDispatchInv
    <3> QED  BY <3>1 DEF ToSet
  <2>6. a[1] # n /\ j # l
    <3>1. a[1] \in Nat /\ n \in Nat
      BY <2>2, GraphFacts, NodeShape DEF TypeOK, HostTypes
    <3> QED  BY <1>4, <2>1, <2>2, <2>5, <3>1
  <2>7. j < l
    BY <1>2, <2>1, <2>6, SeqFacts
  <2> QED  BY <1>1, <1>4, <2>1, <2>5, <2>7 DEF ToDispatchInv, InputsAfter
<1>21. \E b \in BOOLEAN : queue' = [queue EXCEPT ![s] = Append(@, [arr |-> arr, signal |-> b])]
  <2>1. queue' = [queue EXCEPT ![s] = Append(@, [arr |-> arr, signal |-> arr \in needs_signal])]
    BY <1>3, <1>4, <1>5 DEF Dispatch
  <2>2. (arr \in needs_signal) \in BOOLEAN
    OBVIOUS
  <2> QED  BY <2>1, <2>2
<1>22. Dispatches(n, s)
  BY <1>1, <1>2, <1>4, <1>5, <1>7, <1>9, <1>10, <1>12, <1>14, <1>15, <1>16, <1>17, <1>19, <1>20, <1>21
     DEF Dispatches
<1> QED  BY <1>22

LEMMA DispatchLine ==
  ASSUME LazyInv, [Next]_vars, Dispatch, NEW n \in Node, NEW s \in Stream, Dispatches(n, s)
  PROVE  Line(s)'
<1> USE DEF LazyInv, Inv
<1>1. /\ n \notin Scheduled /\ n \notin computed /\ call \in Call /\ call \in Nat /\ counter[s] \in Nat
      /\ Ev(n)' = <<call, s, counter[s] + 1>>
      /\ \A m \in Scheduled : Ev(m)' = Ev(m) /\ (Ev(m)[2] = s => Earlier(Ev(m), Ev(n)'))
      /\ Given(s)' = Given(s) \cup {n}
      /\ \A a \in ToSet(Ins(n)) : ~Unscheduled(a)
  BY DEF Dispatches
<1>2. /\ UNCHANGED <<phase, buffer, committed, computed, signaled>> /\ prog' = prog
  BY DEF Dispatch
<1>3. Held(s) /\ Ordered(s) /\ Waited(s) /\ SignalsLast(s) /\ Reached(s)
  BY DEF Line
<1>4. PICK arr \in Array, b \in BOOLEAN :
         arr[1] = n /\ queue' = [queue EXCEPT ![s] = Append(@, [arr |-> arr, signal |-> b])]
  BY DEF Dispatches
<1>5. PICK task : task = [arr |-> arr, signal |-> b]
  OBVIOUS
<1>6. queue[s] \in Seq(Tasks) /\ Len(queue[s]) \in Nat /\ DOMAIN queue[s] = 1 .. Len(queue[s])
  BY LineTypes
<1>7. PICK L \in Nat : L = Len(queue[s])
  BY <1>6
<1>8. /\ DOMAIN queue'[s] = 1 .. L+1 /\ queue'[s][L + 1] = task
      /\ \A k \in 1 .. L : queue'[s][k] = queue[s][k]
      /\ queue'[s] # <<>>
  <2>1. queue'[s] = Append(queue[s], task)
    BY <1>4, <1>5 DEF TypeOK, QueueTypes
  <2> QED  BY <1>6, <1>7, <2>1
<1>9. task # SyncTask /\ task.arr[1] = n
  <2>1. arr # <<0, 0>>
    <3>1. n \in Nat \ {0}
      BY ArrayFacts DEF TypeOK, HostTypes
    <3>2. arr[1] # 0
      BY <1>4, <3>1
    <3> QED  BY <3>2
  <2> QED  BY <1>4, <1>5, <2>1 DEF SyncTask
<1>10. \A k : k \in TasksOn(s)' <=> k \in TasksOn(s) \/ k = L+1
  <2>1. \A k : k \in TasksOn(s)' <=> k \in 1 .. L+1 /\ queue'[s][k] # SyncTask
    BY <1>8 DEF TasksOn, SyncTask
  <2>2. \A k : k \in TasksOn(s) <=> k \in 1 .. L /\ queue[s][k] # SyncTask
    BY <1>6, <1>7 DEF TasksOn
  <2> QED  BY <1>7, <1>8, <1>9, <2>1, <2>2
<1>11. \A k \in TasksOn(s) : queue'[s][k] = queue[s][k] /\ k \in 1 .. L /\ k < L+1
  BY <1>6, <1>7, <1>8 DEF TasksOn
<1>12. QueuedOn(s)' = QueuedOn(s) \cup {n}
  <2>1. \A m : m \in QueuedOn(s)' <=> \E k \in TasksOn(s)' : queue'[s][k].arr[1] = m
    BY DEF QueuedOn
  <2>2. \A m : m \in QueuedOn(s) <=> \E k \in TasksOn(s) : queue[s][k].arr[1] = m
    BY DEF QueuedOn
  <2>3. \A m : m \in QueuedOn(s)' <=> m \in QueuedOn(s) \/ m = n
    BY <1>8, <1>9, <1>10, <1>11, <2>1, <2>2
  <2> QED  BY <2>3
<1>13. queue[s] # <<>> => Task(s)' = Task(s)
  BY <1>6, <1>7, <1>8 DEF Task
<1>14. Encoded(s)' = Encoded(s)
  BY <1>2 DEF Encoded
<1>15. \A f : EncodedOn(s, f)' = EncodedOn(s, f)
  BY <1>2, <1>14, SameGraph DEF EncodedOn
<1>16. /\ QueuedOn(s) \cup EncodedOn(s, 1) \subseteq Given(s) /\ Given(s) \subseteq Scheduled
       /\ \A m \in Given(s) : Ev(m)' = Ev(m) /\ Earlier(Ev(m), Ev(n)') /\ Ev(m)[2] = s /\ m # n
  BY <1>1, <1>3, ScheduledFacts DEF Held
<1>17. Held(s)'
  BY <1>1, <1>2, <1>3, <1>12, <1>15 DEF Held
<1>18. Ordered(s)'
  <2>0. PICK ev : ev = event' /\ \A m : Ev(m)' = ev[<<m, 1>>]
    BY DEF Ev
  <2>1. ASSUME NEW j \in TasksOn(s)', NEW k \in TasksOn(s)', j < k
        PROVE  Earlier(ev[<<queue'[s][j].arr[1], 1>>], ev[<<queue'[s][k].arr[1], 1>>])
    <3>1. j \in TasksOn(s)
      BY <1>7, <1>10, <1>11, <2>1
    <3>2. PICK p \in Given(s) : p = queue[s][j].arr[1] /\ p = queue'[s][j].arr[1]
      BY <1>11, <1>16, <3>1, Places1
    <3>3. CASE k \in TasksOn(s)
      <4>1. PICK q \in Given(s) : q = queue[s][k].arr[1] /\ q = queue'[s][k].arr[1]
        BY <1>11, <1>16, <3>3, Places1
      <4>2. Earlier(Ev(p), Ev(q))
        BY <1>3, <2>1, <3>1, <3>2, <3>3, <4>1 DEF Ordered
      <4>3. Earlier(Ev(p)', Ev(q)')
        BY <1>16, <4>2
      <4> QED  BY <2>0, <3>2, <4>1, <4>3
    <3>4. CASE k = L+1
      <4>1. Earlier(Ev(p)', Ev(n)')
        BY <1>16
      <4> QED  BY <1>8, <1>9, <2>0, <3>2, <3>4, <4>1
    <3> QED  BY <1>10, <3>3, <3>4
  <2>2. ASSUME NEW c \in DOMAIN Encoded(s), NEW d \in DOMAIN Encoded(s),
               NEW j \in DOMAIN Encoded(s)[c], NEW k \in DOMAIN Encoded(s)[d],
               c < d \/ (c = d /\ j < k)
        PROVE  Earlier(ev[<<Encoded(s)'[c][j], 1>>], ev[<<Encoded(s)'[d][k], 1>>])
    <3>1. PICK p \in Given(s), q \in Given(s) : p = Encoded(s)[c][j] /\ q = Encoded(s)[d][k]
      BY <1>16, Places1
    <3>2. Earlier(Ev(p), Ev(q))
      BY <1>3, <2>2, <3>1 DEF Ordered
    <3>3. Earlier(Ev(p)', Ev(q)')
      BY <1>16, <3>2
    <3>4. p = Encoded(s)'[c][j] /\ q = Encoded(s)'[d][k]
      BY <1>14, <3>1
    <3> QED  BY <2>0, <3>3, <3>4
  <2>3. ASSUME NEW m \in EncodedOn(s, 1), NEW q \in QueuedOn(s)' PROVE Earlier(Ev(m)', Ev(q)')
    <3>1. m \in Given(s)
      BY <1>16
    <3>2. CASE q \in QueuedOn(s)
      BY <1>3, <1>16, <3>1, <3>2 DEF Ordered
    <3>3. CASE q = n
      BY <1>16, <3>1, <3>3
    <3> QED  BY <1>12, <3>2, <3>3
  <2> QED  BY <1>14, <1>15, <2>0, <2>1, <2>2, <2>3 DEF Ordered, Ev
<1>19. ASSUME NEW m \in Given(s), InputsComputed(s, m) PROVE InputsComputed(s, m)'
  <2> SUFFICES ASSUME NEW a \in ToSet(Ins(m)) PROVE Ev(a[1])'[2] = s \/ a[1] \in computed'
    BY <1>2, SameGraph DEF InputsComputed
  <2>1. a \in Array /\ ~Unscheduled(a) /\ a[1] \in Scheduled
    BY <1>16, ScheduledFacts DEF InputsEarlier
  <2> QED  BY <1>1, <1>2, <1>19, <2>1 DEF InputsComputed
<1>20. Waited(s)'
  <2>1. \A m \in EncodedOn(s, 1)' : InputsComputed(s, m)'
    BY <1>3, <1>15, <1>16, <1>19 DEF Waited
  <2>2. ASSUME phase[s] = "active", Task(s)' # SyncTask PROVE InputsComputed(s, Task(s).arr[1])'
    <3>1. queue[s] # <<>> /\ Task(s)' = Task(s)
      BY <1>3, <1>13, <2>2 DEF Waited
    <3>2. 1 \in TasksOn(s) /\ Task(s) = queue[s][1]
      BY <2>2, <3>1, LineTypes DEF TasksOn
    <3>3. PICK m \in Given(s) : m = Task(s).arr[1]
      BY <1>16, <3>2, Places1
    <3>4. InputsComputed(s, m)'
      BY <1>3, <1>19, <2>2, <3>1, <3>3 DEF Waited
    <3>5. Task(s)'.arr[1] = m
      BY <3>1, <3>3
    <3> QED  BY <3>4, <3>5 DEF InputsComputed
  <2>3. phase[s] = "computed" => Task(s)' # SyncTask /\ Task(s)'.arr[1] \in computed
    BY <1>3, <1>13 DEF Waited
  <2>4. \A k \in TasksOn(s)' : queue'[s][k].arr[1] \in computed => phase[s] = "computed" /\ k = 1
    BY <1>1, <1>3, <1>8, <1>9, <1>10, <1>11 DEF Waited
  <2> QED  BY <1>2, <1>8, <2>1, <2>2, <2>3, <2>4 DEF Waited, SyncTask
<1>21. SignalsLast(s)'
  <2> SUFFICES ASSUME NEW c \in DOMAIN committed[s], committed[s][c].event # NoEvent
               PROVE  LET e == committed[s][c].event IN
                        /\ e[2] = s /\ signaled[<<e[1], s>>] < e[3]
                        /\ e \in {Ev(m)' : m \in Given(s)'}
                        /\ c > 1 => e \in {Ev(m)' : m \in ToSet(committed[s][c].nodes)}
                        /\ \A m \in QueuedOn(s)' \cup EncodedOn(s, c+1)' : Earlier(e, Ev(m)')
    BY <1>2 DEF SignalsLast, NoEvent
  <2>1. PICK e : e = committed[s][c].event
    OBVIOUS
  <2>2. /\ e[2] = s /\ signaled[<<e[1], s>>] < e[3]
        /\ e \in {Ev(m) : m \in Given(s)}
        /\ c > 1 => e \in {Ev(m) : m \in ToSet(committed[s][c].nodes)}
        /\ \A m \in QueuedOn(s) \cup EncodedOn(s, c+1) : Earlier(e, Ev(m))
    BY <1>3, <2>1 DEF SignalsLast
  <2>3. c \in DOMAIN Encoded(s) /\ Encoded(s)[c] = committed[s][c].nodes /\ c \in Nat
    BY LineTypes
  <2>4. ToSet(committed[s][c].nodes) \subseteq Given(s)
    BY <1>16, <2>3, Places1 DEF ToSet
  <2>5. EncodedOn(s, c+1) \subseteq EncodedOn(s, 1)
    BY <2>3, EncodedLater
  <2>6. \A m \in QueuedOn(s)' \cup EncodedOn(s, c+1)' : Earlier(e, Ev(m)')
    <3>1. \A m \in QueuedOn(s) \cup EncodedOn(s, c+1) : Earlier(e, Ev(m)')
      BY <1>16, <2>2, <2>5
    <3>2. Earlier(e, Ev(n)')
      BY <1>16, <2>2
    <3> QED  BY <1>12, <1>15, <3>1, <3>2
  <2>7. e \in {Ev(m)' : m \in Given(s)'}
    BY <1>1, <1>16, <2>2
  <2>8. c > 1 => e \in {Ev(m)' : m \in ToSet(committed[s][c].nodes)}
    BY <1>16, <2>2, <2>4
  <2> QED  BY <2>1, <2>2, <2>6, <2>7, <2>8
<1>22. Reached(s)'
  <2>1. ASSUME NEW c \in Call, signaled[<<c, s>>] # 0
        PROVE  <<c, s, signaled[<<c, s>>]>> \in {Ev(m)' : m \in Given(s)'}
    <3>1. PICK m \in Given(s) : <<c, s, signaled[<<c, s>>]>> = Ev(m)
      BY <1>3, <2>1 DEF Reached
    <3> QED  BY <1>1, <1>16, <3>1
  <2>2. signaled[<<call, s>>] < counter[s] + 1
    <3>1. signaled[<<call, s>>] \in Nat
      BY <1>1 DEF TypeOK, ResultTypes
    <3>2. CASE signaled[<<call, s>>] = 0
      BY <1>1, <3>2
    <3>3. CASE signaled[<<call, s>>] # 0
      <4>1. PICK m \in Given(s) : <<call, s, signaled[<<call, s>>]>> = Ev(m)
        BY <1>1, <1>3, <3>3 DEF Reached
      <4>2. Earlier(Ev(m), Ev(n)')
        BY <1>16
      <4> QED  BY <1>1, <3>1, <4>1, <4>2 DEF Earlier
    <3> QED  BY <3>2, <3>3
  <2>3. signaled[<<Ev(n)'[1], s>>] < Ev(n)'[3]
    BY <1>1, <2>2
  <2>4. \A m \in Given(s)' : Ev(m)'[3] <= signaled[<<Ev(m)'[1], s>>] => m \in computed
    <3>1. signaled[<<call, s>>] \in Nat
      BY <1>1 DEF TypeOK, ResultTypes
    <3>2. ~(Ev(n)'[3] <= signaled[<<Ev(n)'[1], s>>])
      BY <1>1, <2>2, <3>1
    <3> QED  BY <1>1, <1>3, <1>16, <3>2 DEF Reached
  <2>5. \A m \in QueuedOn(s)' : signaled[<<Ev(m)'[1], s>>] < Ev(m)'[3]
    BY <1>3, <1>12, <1>16, <2>3 DEF Reached
  <2>6. Call' = Call
    BY <1>2, SameGraph
  <2> QED  BY <1>2, <2>1, <2>4, <2>5, <2>6 DEF Reached
<1> QED  BY <1>17, <1>18, <1>20, <1>21, <1>22 DEF Line

\* A thread, the GPU and its handlers change their stream only.
LEMMA OtherStreams ==
  ASSUME TypeOK, NEW s \in Stream, NEW t \in Stream, s # t, Thread(t) \/ GpuStep(t) \/ Handler(t)
  PROVE  /\ queue'[s] = queue[s] /\ phase'[s] = phase[s]
         /\ buffer'[s] = buffer[s] /\ committed'[s] = committed[s]
<1>1. /\ queue \in [Stream -> Seq(Tasks)] /\ phase \in [Stream -> {"idle", "active", "computed"}]
      /\ buffer \in [Stream -> Seq(Node)] /\ committed \in [Stream -> Seq(Buffers)]
  BY DEF TypeOK, QueueTypes, BufferTypes
<1>2. CASE CpuStart(t) \/ CpuCompute(t) \/ CpuPublish(t)
  BY <1>1, <1>2 DEF CpuStart, CpuCompute, CpuPublish, Pop
<1>3. CASE GpuEncode(t)
  BY <1>1, <1>3 DEF GpuEncode, Pop, Commit
<1>4. CASE SyncCommit(t) \/ SyncReturn(t)
  BY <1>1, <1>4 DEF SyncCommit, SyncReturn, Pop, Commit
<1>5. CASE GpuRun(t) \/ GpuFinish(t) \/ Handler(t)
  BY <1>1, <1>5 DEF GpuRun, GpuFinish, Handler
<1> QED  BY <1>2, <1>3, <1>4, <1>5 DEF Thread, GpuStep

\* Nothing is computed or signaled but by the three steps that do.
LEMMA Computes ==
  ASSUME [Next]_vars
  PROVE  /\ computed' = computed \/ \E t \in Stream : CpuCompute(t) \/ GpuRun(t)
         /\ signaled' = signaled \/ \E t \in Stream : CpuPublish(t) \/ GpuFinish(t)
         /\ UNCHANGED <<queue, phase, buffer, committed>> \/ Dispatch \/ Synchronize
              \/ \E t \in Stream : Thread(t) \/ GpuStep(t) \/ Handler(t)
BY DEF Next, vars, hostVars, threads, tapeVars, Host, BuildNext, BuildTape, Walk, Count, TakeNext,
       NextInput, TapeDone, NothingToDo, Dispatch, Dispatched, Wait, Synchronize, Return, Thread,
       CpuStart, CpuCompute, CpuPublish, GpuEncode, SyncCommit, SyncReturn, GpuStep, GpuRun,
       GpuFinish, Handler

LEMMA DispatchKeeps ==
  ASSUME [Next]_vars, Dispatch
  PROVE  UNCHANGED <<prog, phase, buffer, committed, computed, signaled>>
BY DEF Dispatch

\* The first of all that a stream holds is computed next.
FirstOn(s, n) ==
  /\ n \in QueuedOn(s) \cup EncodedOn(s, 1)
  /\ InputsComputed(s, n)
  /\ \A m \in QueuedOn(s) \cup EncodedOn(s, 1) : m = n \/ Earlier(Ev(n), Ev(m))

LEMMA ComputeStep ==
  ASSUME LazyInv, [Next]_vars
  PROVE  computed' = computed \/ \E s \in Stream : \E n \in Given(s) :
           FirstOn(s, n) /\ computed' = computed \cup {n}
<1> SUFFICES ASSUME computed' # computed
             PROVE  \E s \in Stream : \E n \in Given(s) : FirstOn(s, n) /\ computed' = computed \cup {n}
  OBVIOUS
<1>1. ~Dispatch
  BY DispatchKeeps
<1>2. PICK s \in Stream : CpuCompute(s) \/ GpuRun(s)
  BY Computes
<1>3. PICK n \in QueuedOn(s) \cup EncodedOn(s, 1) :
        /\ computed' = computed \cup {n}
        /\ InputsComputed(s, n)
        /\ \A m \in QueuedOn(s) \cup EncodedOn(s, 1) : m = n \/ Earlier(Ev(n), Ev(m))
  BY <1>1, <1>2, CpuComputeLine, GpuRunLine
<1>4. n \in Given(s)
  BY <1>3 DEF LazyInv, Line, Held
<1> QED  BY <1>3, <1>4 DEF FirstOn

LEMMA SignalStep ==
  ASSUME LazyInv, [Next]_vars
  PROVE  /\ \A c \in Call, s \in Stream : signaled[<<c, s>>] <= signaled'[<<c, s>>]
         /\ \A s \in Stream : \/ CpuPublish(s) \/ GpuFinish(s)
                              \/ \A c \in Call : signaled'[<<c, s>>] = signaled[<<c, s>>]
<1>1. \A c \in Call, s \in Stream : signaled[<<c, s>>] \in Nat
  BY DEF LazyInv, Inv, TypeOK, ResultTypes
<1>2. CASE signaled' = signaled
  BY <1>1, <1>2
<1>3. CASE signaled' # signaled
  <2>1. PICK t \in Stream : CpuPublish(t) \/ GpuFinish(t)
    BY <1>3, Computes
  <2>2. ~Dispatch
    BY <1>3, DispatchKeeps
  <2>3. /\ \A c \in Call : signaled[<<c, t>>] <= signaled'[<<c, t>>]
        /\ \A c \in Call, s \in Stream : s # t => signaled'[<<c, s>>] = signaled[<<c, s>>]
    BY <2>1, <2>2, CpuPublishLine, GpuFinishLine
  <2>4. ASSUME NEW c \in Call, NEW s \in Stream PROVE signaled[<<c, s>>] <= signaled'[<<c, s>>]
    <3>1. CASE s = t
      BY <2>3, <3>1
    <3>2. CASE s # t
      <4>1. signaled'[<<c, s>>] = signaled[<<c, s>>] /\ signaled[<<c, s>>] \in Nat
        BY <1>1, <2>3, <3>2
      <4> QED  BY <4>1
    <3> QED  BY <3>1, <3>2
  <2> QED  BY <2>1, <2>3, <2>4
<1> QED  BY <1>2, <1>3

LEMMA LineStep ==
  ASSUME LazyInv, [Next]_vars, NEW s \in Stream
  PROVE  Line(s)'
<1> USE DEF LazyInv, Inv
<1>1. computed \subseteq computed'
  BY ComputeStep
<1>2. Line(s) /\ prog' = prog
  BY SameProg
\* What another stream computes it was given, so that it is not on this one.
<1>3. ASSUME \A t \in Stream : (CpuCompute(t) \/ GpuRun(t)) => t # s
      PROVE  \A n \in computed' : n \in computed \/ n \notin QueuedOn(s)
  <2>1. CASE computed' = computed
    BY <2>1
  <2>2. CASE computed' # computed
    <3>1. ~Dispatch
      BY <2>2, DispatchKeeps
    <3>2. PICK t \in Stream : CpuCompute(t) \/ GpuRun(t)
      BY <2>2, Computes
    <3>3. PICK n \in QueuedOn(t) \cup EncodedOn(t, 1) : computed' = computed \cup {n}
      BY <3>1, <3>2, CpuComputeLine, GpuRunLine
    <3>4. Ev(n)[2] = t /\ t # s
      BY <1>3, <3>2, <3>3, ScheduledFacts DEF Line, Held
    <3>5. n \notin QueuedOn(s)
      BY <3>4, ScheduledFacts DEF Line, Held
    <3> QED  BY <3>3, <3>5
  <2> QED  BY <2>1, <2>2
<1>4. CASE Dispatch
  <2>1. PICK n \in Node, t \in Stream : Dispatches(n, t)
    BY <1>4, DispatchFacts
  <2>2. CASE t = s
    BY <1>4, <2>1, <2>2, DispatchLine
  <2>3. CASE t # s
    <3>1. queue'[s] = queue[s]
      BY <2>1, <2>3 DEF Dispatches, TypeOK, QueueTypes
    <3>2. Given(s)' = Given(s) /\ \A m \in Scheduled : Ev(m)' = Ev(m)
      BY <2>1, <2>3 DEF Dispatches
    <3> QED  BY <1>2, <1>4, <3>1, <3>2, DispatchKeeps, LineFrame
  <2> QED  BY <2>2, <2>3
<1>5. CASE ~Dispatch
  <2>1. Given(s)' = Given(s) /\ \A n : Ev(n)' = Ev(n)
    BY <1>5, SameEvents
  <2>2. ASSUME queue'[s] = queue[s], phase'[s] = phase[s], buffer'[s] = buffer[s],
               committed'[s] = committed[s], ~CpuPublish(s), ~GpuFinish(s), ~CpuCompute(s), ~GpuRun(s)
        PROVE  Line(s)'
    <3>1. \A c \in Call : signaled'[<<c, s>>] = signaled[<<c, s>>]
      BY <2>2, SignalStep
    <3>2. \A n \in computed' : n \in computed \/ n \notin QueuedOn(s)
      BY <1>3, <2>2
    <3> QED  BY <1>1, <1>2, <2>1, <2>2, <3>1, <3>2, LineFrame
  <2>3. CASE Synchronize
    BY <1>5, <2>3, SynchronizeLine
  <2>4. CASE CpuStart(s)
    BY <1>5, <2>4, CpuStartLine
  <2>5. CASE CpuCompute(s)
    BY <1>5, <2>5, CpuComputeLine
  <2>6. CASE CpuPublish(s)
    BY <1>5, <2>6, CpuPublishLine
  <2>7. CASE GpuEncode(s)
    BY <1>5, <2>7, GpuEncodeLine
  <2>8. CASE SyncCommit(s)
    BY <1>5, <2>8, SyncCommitLine
  <2>9. CASE SyncReturn(s)
    BY <1>5, <2>9, SyncReturnLine
  <2>10. CASE GpuRun(s)
    BY <1>5, <2>10, GpuRunLine
  <2>11. CASE GpuFinish(s)
    BY <1>5, <2>11, GpuFinishLine
  <2>12. CASE ~Synchronize /\ ~Thread(s) /\ ~GpuStep(s)
    <3>1. /\ queue'[s] = queue[s] /\ phase'[s] = phase[s] /\ buffer'[s] = buffer[s]
          /\ committed'[s] = committed[s]
      <4>1. CASE UNCHANGED <<queue, phase, buffer, committed>>
        BY <4>1
      <4>2. CASE \E t \in Stream : Thread(t) \/ GpuStep(t) \/ Handler(t)
        <5>1. PICK t \in Stream : Thread(t) \/ GpuStep(t) \/ Handler(t)
          BY <4>2
        <5>2. CASE t = s
          BY <2>12, <5>1, <5>2 DEF Handler
        <5>3. CASE t # s
          BY <5>1, <5>3, OtherStreams
        <5> QED  BY <5>2, <5>3
      <4> QED  BY <1>5, <2>12, <4>1, <4>2, Computes
    <3> QED  BY <2>2, <2>12, <3>1 DEF Thread, GpuStep
  <2> QED  BY <2>3, <2>4, <2>5, <2>6, <2>7, <2>8, <2>9, <2>10, <2>11, <2>12 DEF Thread, GpuStep
<1> QED  BY <1>4, <1>5
-----------------------------------------------------------------------------
(* The rest of the invariant. *)

LEMMA StampsStep ==
  ASSUME LazyInv, [Next]_vars
  PROVE  Stamps'
<1> USE DEF LazyInv, Inv
<1>1. /\ prog' = prog /\ Array' = Array /\ Call' = Call /\ Prim' = Prim
  BY SameProg, SameGraph
<1>2. call \in Nat /\ call \in Nat \ {0} /\ Call \subseteq Nat
  BY GraphFacts, NodeShape DEF TypeOK, HostTypes
<1>3. \A a \in Array : a[1] \in Node /\ <<a[1], 1>> \in Array /\ <<a[1], 1>>[1] = a[1]
  BY Graph
<1> SUFFICES ASSUME NEW a \in Array, ~Unscheduled(a)'
             PROVE  /\ event'[a] = Ev(a[1])'
                    /\ Ev(a[1])' \in Call \X {StreamOf(a[1])'} \X Nat
                    /\ Ev(a[1])'[1] <= call'
                    /\ Ev(a[1])'[1] = call' =>
                         /\ pc' \in {"dispatch", "wait", "promise"}
                         /\ pc' = "dispatch" => Ev(a[1])'[3] <= counter'[Ev(a[1])'[2]]
  BY <1>1 DEF Stamps
<1>4. CASE Dispatch
  <2>1. PICK n \in Node, s \in Stream : Dispatches(n, s)
    BY <1>4, DispatchFacts
  <2>2. /\ pc' = "dispatch" /\ call' = call /\ call \in Call /\ pc = "dispatch" /\ s = StreamOf(n)
        /\ Ev(n)' = <<call, s, counter[s] + 1>>
        /\ counter \in [Stream -> Nat] /\ counter' = [counter EXCEPT ![s] = @ + 1]
        /\ \A b \in Array : event'[b] = IF b[1] = n THEN <<call, s, counter[s] + 1>> ELSE event[b]
        /\ \A b \in Array : Unscheduled(b)' <=> Unscheduled(b) /\ b[1] # n
    BY <2>1 DEF Dispatches
  <2>3. StreamOf(a[1])' = StreamOf(a[1])
    BY <1>1, <1>4 DEF StreamOf, Dispatch
  <2>4. CASE a[1] = n
    <3>1. event'[a] = Ev(n)'
      BY <2>2, <2>4
    <3>2. <<call, s, counter[s] + 1>> \in Call \X {s} \X Nat /\ counter'[s] = counter[s] + 1
      BY <2>2
    <3>3. StreamOf(n)' = s
      BY <2>2, <2>3, <2>4
    <3>4. /\ Ev(n)' \in Call \X {StreamOf(n)'} \X Nat
          /\ Ev(n)'[1] <= call' /\ Ev(n)'[3] <= counter'[Ev(n)'[2]]
      BY <1>2, <2>2, <3>2, <3>3
    <3> QED  BY <2>2, <2>4, <3>1, <3>4
  <2>5. CASE a[1] # n
    <3>1. ~Unscheduled(a) /\ event'[a] = event[a] /\ Ev(a[1])' = Ev(a[1])
      BY <1>3, <2>2, <2>5 DEF Ev
    <3>2. PICK e \in Call \X {StreamOf(a[1])} \X Nat : e = Ev(a[1]) /\ e = event[a]
      BY <3>1 DEF Stamps
    <3>3. e[1] <= call /\ (e[1] = call => e[3] <= counter[e[2]]) /\ e[2] \in Stream /\ e[3] \in Nat
      BY <1>3, <2>2, <3>1, <3>2, Graph DEF Stamps
    <3>4. counter[e[2]] <= counter'[e[2]] /\ counter[e[2]] \in Nat /\ counter'[e[2]] \in Nat
      BY <2>2, <3>3
    <3> QED  BY <2>2, <2>3, <3>1, <3>2, <3>3, <3>4
  <2> QED  BY <2>4, <2>5
<1>5. CASE ~Dispatch
  <2>1. event' = event /\ ~Unscheduled(a) /\ Ev(a[1])' = Ev(a[1])
    BY <1>5, SameEvents, ScheduleStep
  <2>2. PICK e \in Call \X {StreamOf(a[1])} \X Nat : e = Ev(a[1]) /\ e = event[a]
    BY <2>1 DEF Stamps
  <2>3. /\ e[1] <= call /\ e[1] \in Nat
        /\ e[1] = call => /\ pc \in {"dispatch", "wait", "promise"}
                          /\ pc = "dispatch" => e[3] <= counter[e[2]]
    BY <1>2, <2>1, <2>2 DEF Stamps
  <2>4. \/ call' = call + 1 /\ pc' = "call" /\ syncStream' = syncStream
        \/ call' = call /\ syncStream' = syncStream /\ pc' = pc /\ counter' = counter
        \/ call' = call /\ syncStream' = syncStream /\ pc \in {"call", "walked", "tape"}
        \/ call' = call /\ syncStream' = syncStream /\ pc' = "wait" /\ (Dispatched \/ \E s \in Stream : SyncReturn(s))
        \/ call' = call /\ pc = "call" /\ \E s : syncStream' = [syncStream EXCEPT ![call] = s]
    BY <1>5 DEF Next, vars, hostVars, threads, tapeVars, Host, BuildNext, BuildTape, Walk, Count, TakeNext,
         NextInput, TapeDone, NothingToDo, Dispatched, Wait, Synchronize, Return, Thread,
         CpuStart, CpuCompute, CpuPublish, GpuEncode, SyncCommit, SyncReturn, GpuStep, GpuRun,
         GpuFinish, Handler
  <2>5. syncStream' = syncStream => StreamOf(a[1])' = StreamOf(a[1])
    BY <1>1 DEF StreamOf
  <2>6. CASE call' = call + 1 /\ pc' = "call" /\ syncStream' = syncStream
    <3>1. e[1] <= call' /\ e[1] # call'
      BY <1>2, <2>3, <2>6
    <3> QED  BY <2>1, <2>2, <2>5, <2>6, <3>1
  <2>7. CASE call' = call /\ syncStream' = syncStream /\ pc' = pc /\ counter' = counter
    BY <2>1, <2>2, <2>3, <2>5, <2>7
  <2>8. CASE call' = call /\ syncStream' = syncStream /\ pc \in {"call", "walked", "tape"}
    BY <2>1, <2>2, <2>3, <2>5, <2>8
  <2>9. CASE call' = call /\ syncStream' = syncStream /\ pc' = "wait" /\ (Dispatched \/ \E s \in Stream : SyncReturn(s))
    BY <2>1, <2>2, <2>3, <2>5, <2>9
  <2>10. CASE call' = call /\ pc = "call" /\ \E s : syncStream' = [syncStream EXCEPT ![call] = s]
    <3>1. StreamOf(a[1])' = StreamOf(a[1])
      <4>1. CASE a[1] \in Prim
        BY <1>1, <4>1 DEF StreamOf
      <4>2. CASE a[1] \notin Prim
        <5>1. PICK c \in Call : c = a[1] - Len(prog.prims) /\ Sync(c) = a[1]
          BY <1>3, <4>2, GraphFacts, NodeShape DEF TypeOK, HostTypes
        <5>2. c # call
          <6>1. ~Unscheduled(<<Sync(c), 1>>)
            BY <1>3, <2>1, <5>1 DEF Shared
          <6> QED  BY <2>10, <6>1 DEF SyncsAhead
        <5>3. syncStream'[c] = syncStream[c]
          BY <2>10, <5>2 DEF TypeOK, HostTypes
        <5> QED  BY <1>1, <4>2, <5>1, <5>3 DEF StreamOf
      <4> QED  BY <4>1, <4>2
    <3> QED  BY <2>1, <2>2, <2>3, <2>10, <3>1
  <2> QED  BY <2>4, <2>6, <2>7, <2>8, <2>9, <2>10
<1> QED  BY <1>4, <1>5

LEMMA InputsEarlierStep ==
  ASSUME LazyInv, [Next]_vars
  PROVE  InputsEarlier'
<1> USE DEF LazyInv, Inv
<1>1. \A n : Ins(n)' = Ins(n)
  BY SameProg, SameGraph
<1>2. \A m \in Scheduled : \A a \in ToSet(Ins(m)) : a \in Array /\ ~Unscheduled(a) /\ a[1] \in Scheduled
  BY ScheduledFacts DEF InputsEarlier
<1>3. CASE Dispatch
  <2>1. PICK n \in Node, s \in Stream : Dispatches(n, s)
    BY <1>3, DispatchFacts
  <2>2. /\ Scheduled' = Scheduled \cup {n}
        /\ \A a \in Array : Unscheduled(a)' <=> Unscheduled(a) /\ a[1] # n
        /\ \A m \in Scheduled : Ev(m)' = Ev(m) /\ (Ev(m)[2] = s => Earlier(Ev(m), Ev(n)'))
        /\ \A a \in ToSet(Ins(n)) : ~Unscheduled(a)
        /\ Ev(n)' = <<call, s, counter[s] + 1>>
    BY <2>1 DEF Dispatches
  <2>3. ASSUME NEW m \in Scheduled, NEW a \in ToSet(Ins(m))
        PROVE  ~Unscheduled(a)' /\ (Ev(a[1])'[2] = Ev(m)'[2] => Earlier(Ev(a[1])', Ev(m)'))
    BY <1>2, <2>2 DEF InputsEarlier
  <2>4. ASSUME NEW a \in ToSet(Ins(n))
        PROVE  ~Unscheduled(a)' /\ (Ev(a[1])'[2] = Ev(n)'[2] => Earlier(Ev(a[1])', Ev(n)'))
    <3>1. a \in Array /\ a[1] \in Scheduled
      BY <2>2, ScheduledFacts
    <3>2. Ev(n)'[2] = s
      BY <2>2
    <3> QED  BY <2>2, <3>1, <3>2
  <2> QED  BY <1>1, <2>2, <2>3, <2>4 DEF InputsEarlier
<1>4. CASE ~Dispatch
  <2>1. Scheduled' = Scheduled /\ \A n : Ev(n)' = Ev(n)
    BY <1>4, SameEvents
  <2>2. \A a \in Array : Unscheduled(a)' <=> Unscheduled(a)
    BY <1>4, ScheduleStep
  <2> QED  BY <1>1, <1>2, <2>1, <2>2 DEF InputsEarlier
<1> QED  BY <1>3, <1>4

\* An array becomes available when its node has been computed: its CPU task
\* publishes it, or the host has waited for its event.
LEMMA AvailableStep ==
  ASSUME LazyInv, [Next]_vars
  PROVE  Available'
<1> USE DEF LazyInv, Inv
<1>1. Array' = Array
  BY SameProg, SameGraph
<1>2. computed \subseteq computed' /\ computed' \subseteq Scheduled
  <2>1. \A s : Given(s) \subseteq Scheduled
    BY ScheduledFacts
  <2> QED  BY <2>1, ComputeStep DEF Available
<1>3. Scheduled \subseteq Scheduled'
  <2>1. CASE Dispatch
    BY <2>1, DispatchFacts DEF Dispatches
  <2>2. CASE ~Dispatch
    BY <2>2, SameEvents
  <2> QED  BY <2>1, <2>2
<1>4. ASSUME NEW a \in Array, status'[a] = "available", status[a] # "available" PROVE a[1] \in computed
  <2>1. \/ Dispatch \/ Wait \/ UNCHANGED status
        \/ \E s \in Stream : CpuPublish(s) \/ GpuEncode(s)
    BY DEF Next, vars, hostVars, threads, tapeVars, Host, BuildNext, BuildTape, Walk, Count, TakeNext,
         NextInput, TapeDone, NothingToDo, Dispatched, Synchronize, Return, Thread, CpuStart,
         CpuCompute, SyncCommit, SyncReturn, GpuStep, GpuRun, GpuFinish, Handler
  <2>2. ~Dispatch /\ ~UNCHANGED status
    BY <1>4 DEF Dispatch
  <2>3. CASE Wait
    <3>1. waiting \in Seq(Array) /\ waiting # <<>> /\ status \in [Array -> Status]
      BY <2>3 DEF Wait, TypeOK, ArrayTypes
    <3>2. a = Head(waiting) /\ Head(waiting) = waiting[1] /\ 1 \in DOMAIN waiting
      BY <1>4, <2>3, <3>1 DEF Wait
    <3>3. ~Unscheduled(a) /\ Signaled(a)
      BY <1>4, <2>3, <3>2 DEF Wait, OnceScheduled
    <3>4. event[a] = Ev(a[1]) /\ a[1] \in Scheduled
      BY <3>3, StampFacts
    <3>5. PICK s \in Stream : s = Ev(a[1])[2]
      BY <3>4, StampFacts
    <3>6. a[1] \in Given(s) /\ Ev(a[1])[1] \in Call /\ Ev(a[1])[3] \in Nat
      BY <3>4, <3>5, StampFacts DEF Given
    <3>7. signaled[<<Ev(a[1])[1], s>>] >= Ev(a[1])[3] /\ signaled[<<Ev(a[1])[1], s>>] \in Nat
      BY <3>3, <3>4, <3>5, <3>6 DEF Signaled, TypeOK, ResultTypes
    <3>8. Ev(a[1])[3] <= signaled[<<Ev(a[1])[1], s>>]
      BY <3>6, <3>7
    <3> QED  BY <3>6, <3>8 DEF Line, Reached
  <2>4. CASE \E s \in Stream : CpuPublish(s)
    <3>1. PICK s \in Stream : CpuPublish(s)
      BY <2>4
    <3>2. Runs(s, "computed") /\ a \in Siblings(Task(s).arr)
      BY <1>4, <3>1 DEF CpuPublish
    <3>3. Task(s).arr[1] \in computed
      BY <3>2 DEF Runs, Line, Waited
    <3>4. Task(s).arr \in Array
      BY <3>2, LineTypes DEF Runs, TasksOn
    <3>5. a[1] = Task(s).arr[1]
      BY <3>2, <3>4, ArrayFacts DEF TypeOK, HostTypes
    <3> QED  BY <3>3, <3>5
  <2>5. ASSUME NEW s \in Stream, GpuEncode(s) PROVE FALSE
    BY <1>4, <2>5 DEF GpuEncode
  <2> QED  BY <2>1, <2>2, <2>3, <2>4, <2>5
<1> QED  BY <1>1, <1>2, <1>3, <1>4 DEF Available

LEMMA LazyInvInit == Init => LazyInv
<1> SUFFICES ASSUME Init PROVE LazyInv
  OBVIOUS
<1>1. Inv
  BY InvInit
<1>2. \A a \in Array : Unscheduled(a)
  BY DEF Init, TapeInit, Unscheduled
<1>3. Scheduled = {}
  BY <1>1, <1>2, Graph DEF Scheduled, Inv
<1>4. Stamps /\ InputsEarlier
  BY <1>2, <1>3 DEF Stamps, InputsEarlier
<1>5. Available
  BY <1>2 DEF Available, Unscheduled, Init
<1>6. ASSUME NEW s \in Stream PROVE Line(s)
  <2>1. queue[s] = <<>> /\ phase[s] = "idle" /\ buffer[s] = <<>> /\ committed[s] = <<>>
    BY DEF Init
  <2>2. TasksOn(s) = {} /\ QueuedOn(s) = {} /\ Given(s) = {}
    BY <1>3, <2>1 DEF TasksOn, QueuedOn, Given
  <2>3. \A b \in DOMAIN Encoded(s) : Encoded(s)[b] = <<>>
    BY <2>1 DEF Encoded
  <2>4. \A f : EncodedOn(s, f) = {}
    BY <2>3 DEF EncodedOn
  <2>5. Held(s) /\ Ordered(s)
    BY <2>1, <2>2, <2>3, <2>4 DEF Held, Ordered
  <2>6. Waited(s) /\ SignalsLast(s)
    BY <2>1, <2>2, <2>4 DEF Waited, SignalsLast
  <2>7. \A c \in Call : signaled[<<c, s>>] = 0
    BY DEF Init
  <2>8. Reached(s)
    BY <2>2, <2>7 DEF Reached
  <2> QED  BY <2>5, <2>6, <2>8 DEF Line
<1> QED  BY <1>1, <1>4, <1>5, <1>6 DEF LazyInv

LEMMA LazyInvStep == LazyInv /\ [Next]_vars => LazyInv'
<1> SUFFICES ASSUME LazyInv, [Next]_vars PROVE LazyInv'
  OBVIOUS
<1>1. Inv'
  BY InvStep DEF LazyInv
<1>2. Stamps' /\ InputsEarlier' /\ Available'
  BY StampsStep, InputsEarlierStep, AvailableStep
<1>3. \A s \in Stream : Line(s)'
  BY LineStep
<1> QED  BY <1>1, <1>2, <1>3 DEF LazyInv

LEMMA LazyInvariance == Spec => []LazyInv
BY LazyInvInit, LazyInvStep, PTL DEF Spec
-----------------------------------------------------------------------------
(* The refinement. *)

InputsOf == [n \in Nodes |-> IF n \in Node THEN {a[1] : a \in ToSet(Ins(n))} ELSE {}]
Seen  == {n \in Node : \E a \in Outputs(n) : Readable(a)}

LEMMA NodesCover ==
  ASSUME prog \in Programs
  PROVE  Node \subseteq Nodes
<1> DEFINE Sizes == {Len(p.prims) + Len(p.calls) : p \in Programs}
<1>1. IsFiniteSet(Sizes)
  <2> DEFINE f == [p \in Programs |-> Len(p.prims) + Len(p.calls)]
  <2>1. f \in Surjection(Programs, Sizes)
    BY DEF Surjection
  <2> HIDE DEF f, Sizes
  <2> QED  BY <2>1, EvalAssumption, FS_Surjection DEF EvalAssumption, ExistsSurjection
<1>2. Sizes \subseteq Nat
  <2> SUFFICES ASSUME NEW p \in Programs PROVE Len(p.prims) + Len(p.calls) \in Nat
    OBVIOUS
  <2>1. /\ p.prims \in Seq([ins : Seq(Nat \X Nat), stream : Stream, outs : Nat \ {0}])
        /\ p.calls \in Seq([op : {"eval", "async", "sync"}, on : Seq(Nat \X Nat), stream : Stream])
    BY EvalAssumption DEF EvalAssumption, ProgramsAssumption
  <2>2. PICK x \in Nat, y \in Nat : x = Len(p.prims) /\ y = Len(p.calls)
    BY <2>1, LenProperties
  <2>3. x + y \in Nat
    OBVIOUS
  <2> QED  BY <2>2, <2>3
<1>3. Len(prog.prims) + Len(prog.calls) \in Sizes
  OBVIOUS
<1> HIDE DEF Sizes
<1>4. PICK m \in Sizes : \A k \in Sizes : k <= m
  BY <1>1, <1>2, <1>3, FiniteGreatest
<1>5. Max(Sizes) \in Sizes /\ \A k \in Sizes : k <= Max(Sizes)
  <2>1. \A k \in Sizes : m >= k
    BY <1>2, <1>4
  <2>2. Max(Sizes) \in Sizes /\ \A k \in Sizes : Max(Sizes) >= k
    BY <2>1 DEF Max
  <2> QED  BY <1>2, <2>2
<1>6. Nodes = 1 .. Max(Sizes)
  BY DEF Nodes, Sizes
<1>7. PICK N \in Nat : N = Len(prog.prims) + Len(prog.calls) /\ N <= Max(Sizes) /\ Max(Sizes) \in Nat
  BY <1>2, <1>3, <1>5
<1>8. PICK M \in Nat : M = Max(Sizes) /\ N <= M
  BY <1>7
<1>9. \A n \in 1 .. N : n \in 1 .. M
  <2>1. N <= M
    BY <1>8
  <2> QED  BY <2>1
<1> QED  BY <1>6, <1>7, <1>8, <1>9, Zenon DEF Node

\* What is_available reports as available has been computed.
LEMMA ReadableComputed == LazyInv => Seen \subseteq computed
<1> SUFFICES ASSUME LazyInv, NEW n \in Node, NEW a \in Outputs(n), Readable(a) PROVE n \in computed
  BY DEF Seen
<1> USE DEF LazyInv, Inv
<1>1. a \in Array /\ a[1] = n
  <2>1. a[1] = n
    BY DEF Outputs
  <2> QED  BY <2>1 DEF Array
<1>2. CASE status[a] = "available"
  BY <1>1, <1>2 DEF Available
<1>3. CASE status[a] = "evaluated" /\ Signaled(a)
  <2>1. event[a] = Ev(n) /\ n \in Scheduled
    BY <1>1, <1>3, StampFacts DEF Unscheduled
  <2>2. PICK s \in Stream : s = Ev(n)[2]
    BY <2>1, StampFacts
  <2>3. n \in Given(s) /\ Ev(n)[1] \in Call /\ Ev(n)[3] \in Nat
    BY <2>1, <2>2, StampFacts DEF Given
  <2>4. signaled[<<Ev(n)[1], s>>] >= Ev(n)[3] /\ signaled[<<Ev(n)[1], s>>] \in Nat
    BY <1>3, <2>1, <2>2, <2>3 DEF Signaled, TypeOK, ResultTypes
  <2>5. Ev(n)[3] <= signaled[<<Ev(n)[1], s>>]
    BY <2>3, <2>4
  <2> QED  BY <2>3, <2>5 DEF Line, Reached
<1> QED  BY <1>2, <1>3 DEF Readable

\* What is readable stays so: an output is not taken back, since what is
\* encoded has not been computed yet.
LEMMA ReadableStays ==
  ASSUME LazyInv, [Next]_vars, NEW a \in Array, Readable(a)
  PROVE  Readable(a)'
<1> USE DEF LazyInv, Inv
<1>1. a[1] \in Node /\ a \in Outputs(a[1])
  BY Graph DEF Siblings
<1>2. a[1] \in computed /\ a[1] \in Scheduled /\ ~Unscheduled(a)
  <2>1. a[1] \in computed
    BY <1>1, ReadableComputed DEF Seen
  <2> QED  BY <2>1, ScheduledFacts DEF Available
<1>3. \/ Dispatch \/ Wait \/ UNCHANGED status
      \/ \E s \in Stream : CpuPublish(s) \/ GpuEncode(s)
  BY DEF Next, vars, hostVars, threads, tapeVars, Host, BuildNext, BuildTape, Walk, Count, TakeNext,
         NextInput, TapeDone, NothingToDo, Dispatched, Synchronize, Return, Thread, CpuStart,
         CpuCompute, SyncCommit, SyncReturn, GpuStep, GpuRun, GpuFinish, Handler
<1>4. status \in [Array -> Status]
  BY DEF TypeOK, ArrayTypes
<1>5. status'[a] = status[a] \/ status'[a] = "available"
  <2>1. CASE Dispatch
    <3>1. Last(tape) \in Array /\ Unscheduled(<<Last(tape)[1], 1>>)
      BY <2>1, DispatchedNode
    <3>2. a \notin Siblings(Last(tape))
      <4>1. <<Last(tape)[1], 1>> \in Array /\ <<Last(tape)[1], 1>>[1] = Last(tape)[1]
        BY <3>1, Graph
      <4>2. a[1] # Last(tape)[1]
        BY <1>2, <3>1, <4>1 DEF Shared
      <4> QED  BY <3>1, <4>2, ArrayFacts DEF TypeOK, HostTypes
    <3> QED  BY <2>1, <3>2 DEF Dispatch
  <2>2. CASE Wait
    BY <1>4, <2>2 DEF Wait
  <2>3. CASE \E s \in Stream : CpuPublish(s)
    BY <2>3 DEF CpuPublish
  <2>4. ASSUME NEW s \in Stream, GpuEncode(s) PROVE status'[a] = status[a]
    <3>1. Runs(s, "idle")
      BY <2>4 DEF GpuEncode
    <3>2. 1 \in TasksOn(s) /\ Task(s) = queue[s][1] /\ Task(s).arr \in Array
      BY <3>1, LineTypes DEF Runs, TasksOn
    <3>3. Task(s).arr[1] \notin computed
      BY <3>1, <3>2 DEF Runs, Line, Waited
    <3>4. a \notin Siblings(Task(s).arr)
      BY <1>2, <3>2, <3>3, ArrayFacts DEF TypeOK, HostTypes
    <3> QED  BY <2>4, <3>4 DEF GpuEncode
  <2> QED  BY <1>3, <2>1, <2>2, <2>3, <2>4
<1>6. Signaled(a) => Signaled(a)'
  <2>1. event[a] = Ev(a[1]) /\ Ev(a[1])[1] \in Call /\ Ev(a[1])[2] \in Stream /\ Ev(a[1])[3] \in Nat
    BY <1>2, StampFacts
  <2>2. event'[a] = event[a]
    <3>1. CASE Dispatch
      <4>1. PICK n \in Node, s \in Stream : Dispatches(n, s)
        BY <3>1, DispatchFacts
      <4>2. a[1] # n
        BY <1>2, <4>1 DEF Dispatches
      <4> QED  BY <4>1, <4>2 DEF Dispatches
    <3>2. CASE ~Dispatch
      BY <3>2, SameEvents
    <3> QED  BY <3>1, <3>2
  <2>3. PICK key \in Call \X Stream : key = <<event[a][1], event[a][2]>>
    BY <2>1
  <2>4. signaled[key] <= signaled'[key]
    BY <2>1, <2>3, SignalStep
  <2>5. signaled[key] \in Nat /\ signaled'[key] \in Nat
    <3>1. TypeOK' /\ Call' = Call
      BY TypeStep, SameProg, SameGraph
    <3> QED  BY <3>1 DEF TypeOK, ResultTypes
  <2>6. Signaled(a) <=> signaled[key] >= event[a][3]
    BY <2>3 DEF Signaled
  <2>7. Signaled(a)' <=> signaled'[key] >= event[a][3]
    BY <2>2, <2>3 DEF Signaled
  <2> QED  BY <2>1, <2>4, <2>5, <2>6, <2>7
<1> QED  BY <1>5, <1>6 DEF Readable

\* The first of a stream has all its inputs: those of its stream come before it.
LEMMA FirstReady ==
  ASSUME LazyInv, NEW s \in Stream, NEW n \in Given(s), FirstOn(s, n)
  PROVE  \A a \in ToSet(Ins(n)) : a[1] \in computed
<1> USE DEF LazyInv, Inv
<1> SUFFICES ASSUME NEW a \in ToSet(Ins(n)), a[1] \notin computed PROVE FALSE
  OBVIOUS
<1>1. n \in Scheduled /\ Ev(n)[2] = s /\ n \in Node
  BY ScheduledFacts
<1>2. a \in Array /\ ~Unscheduled(a) /\ a[1] \in Scheduled
  BY <1>1, ScheduledFacts DEF InputsEarlier
<1>3. Ev(a[1])[2] = s
  BY DEF FirstOn, InputsComputed
<1>4. Earlier(Ev(a[1]), Ev(n))
  BY <1>1, <1>3 DEF InputsEarlier
<1>5. a[1] \in QueuedOn(s) \cup EncodedOn(s, 1)
  BY <1>2, <1>3 DEF Given, Line, Held
<1>6. a[1] = n \/ Earlier(Ev(n), Ev(a[1]))
  BY <1>5 DEF FirstOn
<1> QED  BY <1>1, <1>2, <1>4, <1>6, EarlierFacts

\* Everything is scheduled with its inputs scheduled, computed with its inputs
\* computed, and what is seen only grows.
LEMMA LazyInit == Init => Lazy!Init
<1> SUFFICES ASSUME Init PROVE Lazy!Init
  OBVIOUS
<1>1. LazyInv
  BY LazyInvInit
<1>2. \A a \in Array : Unscheduled(a)
  BY DEF Init, TapeInit, Unscheduled
<1>3. Scheduled = {}
  BY <1>1, <1>2, Graph DEF Scheduled, LazyInv, Inv
<1>4. computed = {}
  BY DEF Init
<1>5. Seen = {}
  BY <1>1, <1>4, ReadableComputed
<1>6. InputsOf \in [Nodes -> SUBSET Nodes]
  <2>1. prog \in Programs
    BY DEF Init, TapeInit
  <2>2. \A n \in Node : \A a \in ToSet(Ins(n)) : a[1] \in Nodes
    BY <2>1, NodesCover, GraphFacts, ArrayFacts DEF ToSet
  <2> QED  BY <2>2 DEF InputsOf
<1> QED  BY <1>3, <1>4, <1>5, <1>6 DEF Lazy!Init, InputsOf, Seen

\* Nothing becomes readable when a node is scheduled or computed.
LEMMA NothingNew ==
  ASSUME LazyInv, [Next]_vars, Dispatch \/ \E s \in Stream : CpuCompute(s) \/ GpuRun(s)
  PROVE  Seen' = Seen
<1> USE DEF LazyInv, Inv
<1>1. Node' = Node /\ (\A n : Outputs(n)' = Outputs(n)) /\ \A n \in Node : Outputs(n) \subseteq Array
  BY SameProg, SameGraph DEF Array
<1>2. ASSUME NEW a \in Array, Readable(a)' PROVE Readable(a)
  <2>1. CASE Dispatch
    <3>1. PICK n \in Node, s \in Stream : Dispatches(n, s)
      BY <2>1, DispatchFacts
    <3>2. Last(tape) \in Array /\ signaled' = signaled
      BY <2>1, DispatchedNode DEF Dispatch
    <3>3. a \notin Siblings(Last(tape)) /\ status'[a] = status[a]
      BY <1>2, <2>1 DEF Dispatch, Readable
    <3>4. a[1] # n
      <4>1. Last(tape)[1] = n
        <5>1. PICK b \in Array : b = Last(tape)
          BY <3>2
        <5>2. b[1] \notin Scheduled /\ ~Unscheduled(b)'
          <6>1. Unscheduled(<<b[1], 1>>)
            BY <2>1, <5>1, DispatchedNode
          <6>2. status'[b] = "scheduled"
            BY <2>1, <5>1, Graph DEF Dispatch
          <6> QED  BY <6>1, <6>2 DEF Scheduled, Unscheduled
        <5>3. Unscheduled(b)
          BY <5>2, ScheduledFacts
        <5> QED  BY <3>1, <5>1, <5>2, <5>3 DEF Dispatches
      <4> QED  BY <3>2, <3>3, <4>1, ArrayFacts DEF TypeOK, HostTypes
    <3>5. event'[a] = event[a]
      BY <3>1, <3>4 DEF Dispatches
    <3> QED  BY <1>2, <3>2, <3>3, <3>5 DEF Readable, Signaled
  <2>2. CASE \E s \in Stream : CpuCompute(s) \/ GpuRun(s)
    <3>1. UNCHANGED <<status, event, signaled>>
      BY <2>2 DEF CpuCompute, GpuRun, hostVars
    <3> QED  BY <1>2, <3>1 DEF Readable, Signaled
  <2> QED  BY <2>1, <2>2
<1> QED  BY <1>1, <1>2, ReadableStays DEF Seen

LEMMA LazyStep == LazyInv /\ LazyInv' /\ [Next]_vars => [Lazy!Next]_(Lazy!vars)
<1> SUFFICES ASSUME LazyInv, LazyInv', [Next]_vars PROVE Lazy!Next
  OBVIOUS
<1> USE DEF LazyInv, Inv
<1>1. prog' = prog /\ prog \in Programs
  BY SameProg DEF TypeOK, HostTypes
<1>2. InputsOf' = InputsOf
  BY <1>1, SameGraph DEF InputsOf
<1>3. \A n \in Node : InputsOf[n] = {a[1] : a \in ToSet(Ins(n))} /\ n \in Nodes
  BY <1>1, NodesCover DEF InputsOf
<1>4. Seen \subseteq Seen'
  <2>1. \A n \in Node : Outputs(n) \subseteq Array
    BY DEF Array
  <2> QED  BY <1>1, <2>1, ReadableStays, SameGraph DEF Seen
<1>5. Seen' \subseteq computed'
  <2>1. (LazyInv => Seen \subseteq computed)'
    BY ReadableComputed, PTL
  <2> QED  BY <2>1
<1>6. CASE Dispatch
  <2>1. PICK n \in Node, s \in Stream : Dispatches(n, s)
    BY <1>6, DispatchFacts
  <2>2. n \notin Scheduled /\ Scheduled' = Scheduled \cup {n}
    BY <2>1 DEF Dispatches
  <2>3. InputsOf[n] \subseteq Scheduled
    BY <1>3, <2>1, ScheduledFacts DEF Dispatches
  <2>4. computed' = computed
    BY <1>6, DispatchKeeps
  <2>5. Seen' = Seen
    BY <1>6, NothingNew
  <2>6. Lazy!Want(n)
    BY <1>2, <2>2, <2>3, <2>4, <2>5 DEF Lazy!Want, InputsOf, Seen
  <2> QED  BY <1>3, <2>6 DEF Lazy!Next
<1>7. CASE computed' # computed
  <2>1. ~Dispatch
    BY <1>7, DispatchKeeps
  <2>2. PICK s \in Stream, n \in Node : n \in Given(s) /\ FirstOn(s, n) /\ computed' = computed \cup {n}
    BY <1>7, ComputeStep, ScheduledFacts
  <2>3. n \in Scheduled \ computed
    BY <1>7, <2>2, ScheduledFacts
  <2>4. InputsOf[n] \subseteq computed
    BY <1>3, <2>2, FirstReady
  <2>5. Scheduled' = Scheduled
    BY <2>1, SameEvents
  <2>6. Seen' = Seen
    BY <1>7, Computes, NothingNew
  <2>7. Lazy!Compute(n)
    BY <1>2, <2>2, <2>3, <2>4, <2>5, <2>6 DEF Lazy!Compute, InputsOf, Seen
  <2> QED  BY <1>3, <2>7 DEF Lazy!Next
<1>8. CASE ~Dispatch /\ computed' = computed
  <2>1. Scheduled' = Scheduled
    BY <1>8, SameEvents
  <2>2. PICK N \in SUBSET computed : N = Seen'
    BY <1>5, <1>8
  <2>3. Lazy!See(N)
    BY <1>2, <1>4, <1>8, <2>1, <2>2 DEF Lazy!See, InputsOf, Seen
  <2> QED  BY <2>3 DEF Lazy!Next
<1> QED  BY <1>6, <1>7, <1>8

(***************************************************************************)
(* ImplementsLazy: whatever the programs, the streams and the sizes of     *)
(* buffers and tapes, eval schedules a node after its inputs and the       *)
(* threads and the GPU compute it after them, across streams and calls,    *)
(* and what is_available reports as available has been computed and stays  *)
(* available.                                                              *)
(***************************************************************************)
THEOREM ImplementsLazy == Spec => ImplementsLazyGraph
BY LazyInit, LazyStep, LazyInvariance, PTL DEF Spec, ImplementsLazyGraph, Lazy!Spec
=============================================================================
