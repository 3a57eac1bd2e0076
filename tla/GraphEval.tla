------------------------------ MODULE GraphEval ------------------------------
(***************************************************************************)
(* Evaluation of graphs over several streams.  The host builds a tape      *)
(* (EvalTape) and puts one task per node on the queue of its stream.       *)
(* Every stream has a thread that runs its tasks in order.  A task first   *)
(* waits for the inputs of other streams, by the events attached to them;  *)
(* a CPU task then computes, a GPU task encodes into the command buffer of *)
(* the stream, which is committed when the task has to signal, or when the *)
(* buffer is full.  The host waits for what it asked for, or goes on.      *)
(*                                                                         *)
(* An event is shared by the arrays one call dispatches to one stream; an  *)
(* array waits for the value the event had when the array was dispatched.  *)
(***************************************************************************)
EXTENDS EvalTape, FiniteSetsExt

CONSTANTS
  Gpu,      \* the streams of the GPU
  MaxOps    \* max_ops_per_buffer

ASSUME EvalAssumption ==
  ProgramsAssumption /\ IsFiniteSet(Programs) /\ Gpu \subseteq Stream /\ MaxOps \in Nat \ {0}

VARIABLES
  counter,    \* the value of each stream's event in this call
  event,      \* the event of each array: call, stream and value
  signaled,   \* the value each event has reached
  waiting,    \* arrays the host has yet to wait for
  queue,      \* of each stream: tasks, the one its thread runs first
  phase,      \* how far that one is
  buffer,     \* the nodes in the command buffer being filled
  ops,        \* buffer_ops
  committed,  \* command buffers handed to the GPU, oldest first
  handlers,   \* counted buffers whose completion handlers have yet to run
  n_active,   \* n_active_tasks_ of the scheduler
  computed    \* nodes whose outputs have been computed

threads == <<queue, phase, buffer, ops, committed, handlers, n_active, computed, signaled>>
hostVars == <<prog, call, pc, syncStream, tapeVars, counter, event, waiting>>
vars == <<hostVars, status, threads>>

NoEvent == <<0, 0, 0>>
SyncTask == [arr |-> <<0, 0>>, signal |-> FALSE]

Init ==
  /\ TapeInit
  /\ counter = [s \in Stream |-> 0]
  /\ event = [a \in Array |-> NoEvent]
  /\ signaled = [e \in Call \X Stream |-> 0]
  /\ waiting = <<>>
  /\ queue = [s \in Stream |-> <<>>]
  /\ phase = [s \in Stream |-> "idle"]
  /\ buffer = [s \in Stream |-> <<>>]
  /\ ops = [s \in Stream |-> 0]
  /\ committed = [s \in Stream |-> <<>>]
  /\ handlers = [s \in Stream |-> 0]
  /\ n_active = 0
  /\ computed = {}

Signaled(a) == signaled[<<event[a][1], event[a][2]>>] >= event[a][3]
-----------------------------------------------------------------------------
(* The host. *)

BuildNext ==
  /\ BuildTape
  /\ counter' = IF pc = "walked" THEN [s \in Stream |-> 0] ELSE counter
  /\ UNCHANGED <<event, waiting, threads>>

\* A call whose arrays have all been scheduled waits for them, or has no effect.
NothingToDo ==
  /\ pc = "call" /\ call \in Call
  /\ prog.calls[call].op \in {"eval", "async"}
  /\ \A a \in ToSet(On) : ~Unscheduled(a)
  /\ pc' = "wait"
  /\ waiting' = IF prog.calls[call].op = "eval" THEN On ELSE <<>>
  /\ UNCHANGED <<prog, call, syncStream, status, tapeVars, counter, event, threads>>

Attach(arr, e) == [a \in Array |-> IF a \in Siblings(arr) THEN e ELSE event[a]]

Dispatch ==
  /\ pc = "dispatch" /\ tape # <<>>
  /\ LET arr == Last(tape)
         s   == StreamOf(arr[1])
     IN  /\ tape' = Front(tape)
         /\ counter' = [counter EXCEPT ![s] = @ + 1]
         /\ event' = Attach(arr, <<call, s, counter'[s]>>)
         /\ status' = [a \in Array |-> IF a \in Siblings(arr) THEN "scheduled" ELSE status[a]]
         /\ queue' = [queue EXCEPT ![s] =
                        Append(@, [arr |-> arr, signal |-> arr \in needs_signal])]
  /\ UNCHANGED <<prog, call, pc, syncStream, needs_signal, cache, i, dfs, cur, waiting,
                 phase, buffer, ops, committed, handlers, n_active, computed, signaled>>

\* eval waits for the synchronizer, async_eval goes on.
Dispatched ==
  /\ pc = "dispatch" /\ tape = <<>>
  /\ pc' = "wait"
  /\ waiting' = IF prog.calls[call].op = "eval" THEN <<<<Sync(call), 1>>>> ELSE <<>>
  /\ UNCHANGED <<prog, call, syncStream, status, tapeVars, counter, event, threads>>

\* array::wait, which returns at once when the array is available.
Wait ==
  /\ pc = "wait" /\ waiting # <<>>
  /\ status[Head(waiting)] = "available" \/ Signaled(Head(waiting))
  /\ status' = [status EXCEPT ![Head(waiting)] = "available"]
  /\ waiting' = Tail(waiting)
  /\ UNCHANGED <<prog, call, pc, syncStream, tapeVars, counter, event, threads>>

\* synchronize: put a task on the stream, and wait for its promise.
Synchronize ==
  /\ pc = "call" /\ call \in Call
  /\ prog.calls[call].op = "sync"
  /\ queue' = [queue EXCEPT ![prog.calls[call].stream] = Append(@, SyncTask)]
  /\ pc' = "promise"
  /\ UNCHANGED <<prog, call, syncStream, status, tapeVars, counter, event, waiting,
                 phase, buffer, ops, committed, handlers, n_active, computed, signaled>>

Return ==
  /\ pc = "wait" /\ waiting = <<>>
  /\ pc' = "call" /\ call' = call + 1
  /\ UNCHANGED <<prog, syncStream, status, tapeVars, counter, event, waiting, threads>>

HostDone == pc = "call" /\ call \notin Call

Host == BuildNext \/ NothingToDo \/ Dispatch \/ Dispatched \/ Wait \/ Synchronize \/ Return
-----------------------------------------------------------------------------
(* The thread of a stream. *)

Task(s) == Head(queue[s])
Pop(s)  == queue' = [queue EXCEPT ![s] = Tail(@)]

\* Faulty variant: no input is waited for.
InputsIgnored(arr) == TRUE

\* Inputs on the stream of the task come before it in its queue.
InputsReady(arr) ==
  \A a \in ToSet(Ins(arr[1])) : event[a][2] # StreamOf(arr[1]) => Signaled(a)

Runs(s, p) == queue[s] # <<>> /\ Task(s) # SyncTask /\ phase[s] = p

CpuStart(s) ==
  /\ s \notin Gpu /\ Runs(s, "idle")
  /\ InputsReady(Task(s).arr)
  /\ n_active' = n_active + 1
  /\ phase' = [phase EXCEPT ![s] = "active"]
  /\ UNCHANGED <<hostVars, status, queue, buffer, ops, committed, handlers, computed, signaled>>

CpuCompute(s) ==
  /\ s \notin Gpu /\ Runs(s, "active")
  /\ computed' = computed \cup {Task(s).arr[1]}
  /\ phase' = [phase EXCEPT ![s] = "computed"]
  /\ UNCHANGED <<hostVars, status, queue, buffer, ops, committed, handlers, n_active, signaled>>

Signal(e) == signaled' = [signaled EXCEPT ![<<e[1], e[2]>>] = e[3]]

CpuPublish(s) ==
  /\ s \notin Gpu /\ Runs(s, "computed")
  /\ status' = [a \in Array |-> IF a \in Siblings(Task(s).arr) THEN "available" ELSE status[a]]
  /\ IF Task(s).signal THEN Signal(event[Task(s).arr]) ELSE UNCHANGED signaled
  /\ Pop(s)
  /\ n_active' = n_active - 1
  /\ phase' = [phase EXCEPT ![s] = "idle"]
  /\ UNCHANGED <<hostVars, buffer, ops, committed, handlers, computed>>

\* A buffer: its nodes, the event it signals, and whether its completion is counted.
Commit(s, nodes, e, counted) ==
  /\ committed' = [committed EXCEPT ![s] =
                     Append(@, [nodes |-> nodes, event |-> e, counted |-> counted])]
  /\ buffer' = [buffer EXCEPT ![s] = <<>>]
  /\ ops' = [ops EXCEPT ![s] = 0]

\* Faulty variant: a buffer is committed only when it is full.
CommitsWhenFull(s, task) == ops[s] + 1 >= MaxOps

Commits(s, task) == task.signal \/ ops[s] + 1 >= MaxOps

(***************************************************************************)
(* make_task: encode, and commit if the task signals or the buffer is      *)
(* full.                                                                   *)
(***************************************************************************)
GpuEncode(s) ==
  /\ s \in Gpu /\ Runs(s, "idle")
  /\ LET task == Task(s)
         nodes == Append(buffer[s], task.arr[1])
     IN  /\ InputsReady(task.arr)
         /\ status' = [a \in Array |-> IF a \in Siblings(task.arr) THEN "evaluated" ELSE status[a]]
         /\ IF Commits(s, task)
            THEN /\ Commit(s, nodes, IF task.signal THEN event[task.arr] ELSE NoEvent, TRUE)
                 /\ n_active' = n_active + 1
            ELSE /\ buffer' = [buffer EXCEPT ![s] = nodes]
                 /\ ops' = [ops EXCEPT ![s] = @ + 1]
                 /\ UNCHANGED <<committed, n_active>>
  /\ Pop(s)
  /\ UNCHANGED <<hostVars, phase, handlers, computed, signaled>>

(***************************************************************************)
(* The task of synchronize: on the GPU it commits the buffer and waits     *)
(* until everything committed has completed.                               *)
(***************************************************************************)
SyncCommit(s) ==
  /\ s \in Gpu /\ queue[s] # <<>> /\ Task(s) = SyncTask /\ phase[s] = "idle"
  /\ Commit(s, buffer[s], NoEvent, FALSE)
  /\ phase' = [phase EXCEPT ![s] = "active"]
  /\ UNCHANGED <<hostVars, status, queue, handlers, n_active, computed, signaled>>

SyncReturn(s) ==
  /\ queue[s] # <<>> /\ Task(s) = SyncTask
  /\ s \in Gpu => phase[s] = "active" /\ committed[s] = <<>>
  /\ Pop(s)
  /\ phase' = [phase EXCEPT ![s] = "idle"]
  /\ pc' = "wait"
  /\ UNCHANGED <<prog, call, syncStream, tapeVars, counter, event, waiting, status, buffer,
                 ops, committed, handlers, n_active, computed, signaled>>

Thread(s) ==
  \/ CpuStart(s) \/ CpuCompute(s) \/ CpuPublish(s)
  \/ GpuEncode(s) \/ SyncCommit(s) \/ SyncReturn(s)
-----------------------------------------------------------------------------
(* The GPU runs the buffers of a stream in order (see CommandEncoder). *)

GpuRun(s) ==
  /\ committed[s] # <<>> /\ Head(committed[s]).nodes # <<>>
  /\ LET cb == Head(committed[s])
     IN  /\ computed' = computed \cup {Head(cb.nodes)}
         /\ committed' = [committed EXCEPT ![s] =
                            <<[cb EXCEPT !.nodes = Tail(cb.nodes)]>> \o Tail(@)]
  /\ UNCHANGED <<hostVars, status, queue, phase, buffer, ops, handlers, n_active, signaled>>

GpuFinish(s) ==
  /\ committed[s] # <<>> /\ Head(committed[s]).nodes = <<>>
  /\ LET cb == Head(committed[s])
     IN  /\ IF cb.event # NoEvent THEN Signal(cb.event) ELSE UNCHANGED signaled
         /\ handlers' = IF cb.counted THEN [handlers EXCEPT ![s] = @ + 1] ELSE handlers
  /\ committed' = [committed EXCEPT ![s] = Tail(@)]
  /\ UNCHANGED <<hostVars, status, queue, phase, buffer, ops, n_active, computed>>

Handler(s) ==
  /\ handlers[s] > 0
  /\ handlers' = [handlers EXCEPT ![s] = @ - 1]
  /\ n_active' = n_active - 1
  /\ UNCHANGED <<hostVars, status, queue, phase, buffer, ops, committed, computed, signaled>>

GpuStep(s) == GpuRun(s) \/ GpuFinish(s)

Next ==
  \/ Host
  \/ \E s \in Stream : Thread(s) \/ GpuStep(s) \/ Handler(s)
  \/ HostDone /\ UNCHANGED vars

\* Every thread runs, the GPU and its handler thread make progress.
Fairness ==
  /\ WF_vars(Host)
  /\ \A s \in Stream : WF_vars(Thread(s)) /\ WF_vars(GpuStep(s)) /\ WF_vars(Handler(s))

Spec == Init /\ [][Next]_vars /\ Fairness
-----------------------------------------------------------------------------
\* What array::is_available answers.
Readable(a) == status[a] = "available" \/ (status[a] = "evaluated" /\ Signaled(a))

Scheduled == {n \in Node : ~Unscheduled(<<n, 1>>)}

(***************************************************************************)
(* Lazy evaluation: nodes are scheduled and computed after the nodes they  *)
(* use, across streams and calls, and an array that is_available reports   *)
(* as available has been computed.                                         *)
(***************************************************************************)
Nodes == 1 .. Max({Len(p.prims) + Len(p.calls) : p \in Programs})

Lazy == INSTANCE LazyGraph WITH
  Node   <- Nodes,
  Inputs <- [n \in Nodes |-> IF n \in Node THEN {a[1] : a \in ToSet(Ins(n))} ELSE {}],
  wanted <- Scheduled,
  seen   <- {n \in Node : \E a \in Outputs(n) : Readable(a)}

ImplementsLazyGraph == Lazy!Spec

(***************************************************************************)
(* Every call returns, all that was scheduled is computed in the end,      *)
(* though buffers are committed late, and then the scheduler counts no     *)
(* active task and no command buffer is left half filled: what is counted  *)
(* when a buffer is committed is discounted once, whoever committed it.    *)
(***************************************************************************)
Quiesces ==
  <>[](/\ HostDone /\ Scheduled \subseteq computed
       /\ n_active = 0 /\ \A s \in Stream : buffer[s] = <<>>)

(***************************************************************************)
(* array.h: "Wait on the array to be available. After this `is_available`  *)
(* returns `true`."                                                        *)
(***************************************************************************)
WaitReturns == [](pc = "wait" => <>(pc = "call"))
=============================================================================
