------------------------------ MODULE EvalTape -------------------------------
(***************************************************************************)
(* How eval orders a graph.  A call adds a node to the graph, the          *)
(* synchronizer, whose inputs are the arrays to evaluate.  A depth first   *)
(* walk counts for every array how often it is used, a breadth first walk  *)
(* lays the nodes on the tape, every node when the last use of one of its  *)
(* outputs is met, and goes depth first for a while when the tape ahead of *)
(* it gets too wide.  The tape is then dispatched from its end.            *)
(*                                                                         *)
(* A node is a primitive, an array one of its outputs; the other outputs   *)
(* are its siblings.  Arrays without a primitive need no evaluation and    *)
(* are left out, and so are tracers.                                       *)
(***************************************************************************)
EXTENDS Integers, Sequences, FiniteSets, SequencesExt

CONSTANTS
  Stream,     \* the streams, CPU and GPU
  Programs,   \* what the host may do: a graph and calls
  MaxWidth    \* bfs_max_width

(***************************************************************************)
(* A primitive has inputs, outputs of primitives before it, a stream, and  *)
(* a number of outputs.  A call evaluates arrays or synchronizes a stream. *)
(***************************************************************************)
ProgramsAssumption ==
  /\ MaxWidth \in Nat \ {0}
  /\ \A p \in Programs :
       /\ p.prims \in Seq([ins : Seq(Nat \X Nat), stream : Stream, outs : Nat \ {0}])
       /\ p.calls \in Seq([op : {"eval", "async", "sync"}, on : Seq(Nat \X Nat), stream : Stream])
       /\ \A n \in DOMAIN p.prims : \A a \in ToSet(p.prims[n].ins) :
            a[1] \in 1 .. n-1 /\ a[2] \in 1 .. p.prims[a[1]].outs
       /\ \A c \in DOMAIN p.calls : \A a \in ToSet(p.calls[c].on) :
            a[1] \in DOMAIN p.prims /\ a[2] \in 1 .. p.prims[a[1]].outs

VARIABLES
  prog,          \* the host's program
  call,          \* the call it is at
  pc,            \* where it is in that call
  syncStream,    \* the stream of each call's synchronizer
  status,        \* of each array
  needs_signal,  \* arrays whose task has to signal its event
  cache,         \* the uses left of the arrays to be evaluated
  tape,          \* one output of each node met, those used last at the front
  i,             \* how many of them have been walked
  dfs,           \* arrays whose inputs were put off, and from which on
  cur            \* the array being walked, and its next input

tapeVars == <<needs_signal, cache, tape, i, dfs, cur>>

(***************************************************************************)
(* The primitives come first, each with inputs that come before it, then   *)
(* the synchronizers of the calls.                                         *)
(***************************************************************************)
Prim     == 1 .. Len(prog.prims)
Call     == 1 .. Len(prog.calls)
Node     == 1 .. Len(prog.prims) + Len(prog.calls)
Sync(c)  == Len(prog.prims) + c
Ins(n)   == IF n \in Prim THEN prog.prims[n].ins ELSE prog.calls[n - Len(prog.prims)].on
StreamOf(n) == IF n \in Prim THEN prog.prims[n].stream ELSE syncStream[n - Len(prog.prims)]
Outputs(n)  == {<<n, k>> : k \in 1 .. IF n \in Prim THEN prog.prims[n].outs ELSE 1}
Array       == UNION {Outputs(n) : n \in Node}
Siblings(a) == Outputs(a[1])

Unscheduled(a) == status[a] = "unscheduled"

(***************************************************************************)
(* The depth first walk.  It follows inputs that are not scheduled yet,    *)
(* and walks a node once, however many of its outputs are used.            *)
(***************************************************************************)
Walked(sync) ==
  LET walked[n \in Node] ==
        \/ n = sync
        \/ \E m \in Node : /\ m > n /\ walked[m]
                           /\ \E a \in ToSet(Ins(m)) : a[1] = n /\ Unscheduled(a)
  IN  {n \in Node : walked[n]}

\* Where an array to be evaluated is used: a node and the place of the input.
Uses(sync) ==
  {u \in UNION {{n} \X DOMAIN Ins(n) : n \in Walked(sync)} : Unscheduled(Ins(u[1])[u[2]])}

\* All siblings have the same degree.
Degrees(sync) ==
  LET used == {a \in Array : \E u \in Uses(sync) : Ins(u[1])[u[2]] \in Siblings(a)}
  IN  [a \in used |-> Cardinality({u \in Uses(sync) : Ins(u[1])[u[2]] \in Siblings(a)})]

\* An array signals when it is used on another stream, and the synchronizer does.
NeedsSignal(sync) ==
  {<<sync, 1>>} \cup
  {Ins(u[1])[u[2]] : u \in {u \in Uses(sync) : StreamOf(Ins(u[1])[u[2]][1]) # StreamOf(u[1])}}

NotOn == <<>>
Streamless == [c \in Call |-> CHOOSE s \in Stream : TRUE]

TapeInit ==
  /\ prog \in Programs
  /\ call = 1 /\ pc = "call"
  /\ syncStream = Streamless
  /\ status = [a \in Array |-> "unscheduled"]
  /\ needs_signal = {} /\ cache = NotOn
  /\ tape = <<>> /\ i = 0 /\ dfs = <<>> /\ cur = NotOn

On == prog.calls[call].on

(***************************************************************************)
(* eval_impl up to the walk that builds the tape.  The synchronizer runs   *)
(* on the stream of the first array that is to be evaluated.               *)
(***************************************************************************)
Walk ==
  /\ pc = "call" /\ call \in Call
  /\ prog.calls[call].op \in {"eval", "async"}
  /\ \E a \in ToSet(On) : Unscheduled(a)
  /\ LET first == CHOOSE k \in DOMAIN On :
                    Unscheduled(On[k]) /\ \A l \in 1 .. k-1 : ~Unscheduled(On[l])
     IN  syncStream' = [syncStream EXCEPT ![call] = StreamOf(On[first][1])]
  /\ pc' = "walked"
  /\ UNCHANGED <<prog, call, status, tapeVars>>

Count ==
  /\ pc = "walked"
  /\ needs_signal' = NeedsSignal(Sync(call))
  /\ cache' = Degrees(Sync(call))
  /\ tape' = <<<<Sync(call), 1>>>>
  /\ i' = 0 /\ dfs' = <<>> /\ cur' = NotOn
  /\ pc' = "tape"
  /\ UNCHANGED <<prog, call, syncStream, status>>

(***************************************************************************)
(* Walk the next array on the tape or, at its end, the last one put off.   *)
(***************************************************************************)
TakeNext ==
  /\ pc = "tape" /\ cur = NotOn
  /\ IF i < Len(tape)
     THEN i' = i + 1 /\ cur' = <<tape[i + 1], 1>> /\ dfs' = dfs
     ELSE dfs # <<>> /\ i' = i /\ cur' = Last(dfs) /\ dfs' = Front(dfs)
  /\ UNCHANGED <<prog, call, pc, syncStream, status, needs_signal, cache, tape>>

\* Too wide: put the array on the stack and go down a level.
PutOff(a, j) == dfs' = Append(dfs, <<a, j>>)

\* Faulty variant: the degree of the siblings stays.
UsedOnce(a) == [cache EXCEPT ![a] = @ - 1]

\* The uses left when one of them has been met.
Used(a) == [b \in DOMAIN cache |-> IF b \in Siblings(a) THEN cache[b] - 1 ELSE cache[b]]

(***************************************************************************)
(* The next input of the array: the last use of a node puts it on the tape *)
(* and takes it and its siblings out of the cache.                         *)
(***************************************************************************)
NextInput ==
  /\ pc = "tape" /\ cur # NotOn
  /\ LET a == cur[1]  j == cur[2]  ins == Ins(a[1])
     IN  IF j > Len(ins)
         THEN cur' = NotOn /\ UNCHANGED <<cache, tape, dfs>>
         ELSE IF ~Unscheduled(ins[j])
         THEN cur' = <<a, j + 1>> /\ UNCHANGED <<cache, tape, dfs>>
         ELSE IF Len(tape) - i >= MaxWidth
         THEN PutOff(a, j) /\ cur' = NotOn /\ UNCHANGED <<cache, tape>>
         ELSE /\ ins[j] \in DOMAIN cache
              /\ cur' = <<a, j + 1>> /\ dfs' = dfs
              /\ IF Used(ins[j])[ins[j]] # 0
                 THEN cache' = Used(ins[j]) /\ tape' = tape
                 ELSE /\ cache' = [b \in DOMAIN cache \ Siblings(ins[j]) |-> cache[b]]
                      /\ tape' = Append(tape, ins[j])
  /\ UNCHANGED <<prog, call, pc, syncStream, status, needs_signal, i>>

TapeDone ==
  /\ pc = "tape" /\ cur = NotOn
  /\ DOMAIN cache = {} \/ (i = Len(tape) /\ dfs = <<>>)
  /\ pc' = "dispatch"
  /\ UNCHANGED <<prog, call, syncStream, status, tapeVars>>

BuildTape == Walk \/ Count \/ TakeNext \/ NextInput \/ TapeDone
-----------------------------------------------------------------------------
(***************************************************************************)
(* The tape never loses a node: an input the walk looks up is in the cache *)
(* (the code dereferences what find returns), and when the tape is done it *)
(* holds one output of every node to be evaluated, and none after an       *)
(* output of a node it uses, so that dispatching it from its end meets     *)
(* inputs first.                                                           *)
(***************************************************************************)
TapeSound ==
  /\ pc = "tape" /\ cur # NotOn /\ cur[2] <= Len(Ins(cur[1][1])) =>
       LET in == Ins(cur[1][1])[cur[2]] IN Unscheduled(in) => in \in DOMAIN cache
  /\ pc = "dispatch" =>
       /\ {a[1] : a \in ToSet(tape)} = {n \in Walked(Sync(call)) : Unscheduled(<<n, 1>>)}
       /\ \A j, k \in DOMAIN tape : j < k =>
            /\ tape[j][1] # tape[k][1]
            /\ \A a \in ToSet(Ins(tape[k][1])) : a[1] # tape[j][1]
=============================================================================
