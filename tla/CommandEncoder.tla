--------------------------- MODULE CommandEncoder ---------------------------
(***************************************************************************)
(* How dispatches are ordered on the MLX backend.  The GPU runs the        *)
(* dispatches of a command encoder concurrently, up to the memory barriers *)
(* the encoder inserted between them, and whole encoders concurrently, up  *)
(* to the fences they wait for.  The host decides on both from the buffers *)
(* each dispatch binds with in() and out():                                *)
(*                                                                         *)
(*   - within an encoder, a barrier goes before a dispatch that binds an   *)
(*     output of a dispatch since the last barrier (prev_outputs);         *)
(*   - an encoder waits for the fence of the last encoder that wrote a     *)
(*     buffer it binds (outputs of the stream), an entry the completion    *)
(*     handler of that encoder removes.                                    *)
(*                                                                         *)
(* Only reads after writes and writes after writes are tracked.  A write   *)
(* after a read must be ordered by something else: see WritesFollowReads.  *)
(*                                                                         *)
(* The host records a program, a sequence of dispatches, on one stream.    *)
(* It ends the encoder, and commits its command buffer, at any time.       *)
(***************************************************************************)
EXTENDS Integers, Sequences, FiniteSets

CONSTANTS
  Buffer,    \* device buffers
  Programs   \* sequences of dispatches, [in, out : SUBSET Buffer]

Touched(d) == d.in \cup d.out

(***************************************************************************)
(* What the library keeps to: a buffer one dispatch reads is written by a  *)
(* later one only if the later one also binds an output of the reader.     *)
(* A primitive writes buffers it allocated itself, and buffers that are    *)
(* read stay allocated until the command buffer completes.                 *)
(***************************************************************************)
WritesFollowReads(p) ==
  \A i, j \in DOMAIN p :
    i < j /\ p[i].in \cap p[j].out # {} => p[i].out \cap Touched(p[j]) # {}

ASSUME ProgramsAssumption ==
  \A p \in Programs :
    /\ p \in Seq([in : SUBSET Buffer, out : SUBSET Buffer])
    /\ WritesFollowReads(p)

VARIABLES
  prog,           \* the program
  recorded,       \* how many of its dispatches have been recorded
  \* the encoder under way
  enc,            \* its number
  barriers,       \* memory barriers inserted so far
  prev_outputs,   \* outputs a following dispatch needs a barrier for
  all_inputs,     \* buffers bound by its dispatches
  all_outputs,    \* buffers bound as outputs
  \* the stream
  outputs,        \* the encoder whose fence guards a buffer, 0 if none
  \* what was handed to the GPU
  encOf,          \* the encoder of each dispatch, 0 until recorded
  epoch,          \* barriers before it in that encoder
  committed,      \* encoders that are ended and committed
  waits,          \* encoders whose fences each encoder waits for
  handled,        \* encoders whose completion handler has run
  started,        \* dispatches that have started
  finished        \* dispatches that have finished

host  == <<recorded, enc, barriers, prev_outputs, all_inputs, all_outputs,
           encOf, epoch>>
vars  == <<prog, host, outputs, committed, waits, handled, started, finished>>

Dispatch == 1 .. Len(prog)
Recorded == 1 .. recorded
\* An encoder is created for at least one dispatch.
Encoder  == 1 .. Len(prog) + 1
In(d)    == prog[d].in
Out(d)   == prog[d].out
Binds(d) == Touched(prog[d])

InEncoder(e) == {d \in Recorded : encOf[d] = e}
Complete(e)  == InEncoder(e) \subseteq finished
Written(e)   == UNION {Out(d) : d \in InEncoder(e)}

Init ==
  /\ prog \in Programs
  /\ recorded = 0
  /\ enc = 1 /\ barriers = 0
  /\ prev_outputs = {} /\ all_inputs = {} /\ all_outputs = {}
  /\ outputs = [b \in Buffer |-> 0]
  /\ encOf = [d \in Dispatch |-> 0]
  /\ epoch = [d \in Dispatch |-> 0]
  /\ committed = {} /\ handled = {}
  /\ waits = [e \in Encoder |-> {}]
  /\ started = {} /\ finished = {}

\* Faulty variant: outputs are not looked up among the previous outputs.
NeedsBarrierInputsOnly(d) == In(d) \cap prev_outputs # {}

(***************************************************************************)
(* set_input_array and set_output_array: an output is looked up as an      *)
(* input too.                                                              *)
(***************************************************************************)
NeedsBarrier(d) == Binds(d) \cap prev_outputs # {}

(***************************************************************************)
(* Bind and dispatch: maybeInsertBarrier, then dispatch_threadgroups.  The *)
(* outputs of this dispatch (next_outputs) are the previous outputs of the *)
(* next.                                                                   *)
(***************************************************************************)
Record ==
  /\ recorded < Len(prog)
  /\ LET d == recorded + 1
     IN  /\ recorded' = d
         /\ IF NeedsBarrier(d)
            THEN /\ barriers' = barriers + 1
                 /\ prev_outputs' = Out(d)
            ELSE /\ barriers' = barriers
                 /\ prev_outputs' = prev_outputs \cup Out(d)
         /\ all_inputs' = all_inputs \cup Binds(d)
         /\ all_outputs' = all_outputs \cup Out(d)
         /\ encOf' = [encOf EXCEPT ![d] = enc]
         /\ epoch' = [epoch EXCEPT ![d] = barriers']
  /\ UNCHANGED <<prog, enc, outputs, committed, waits, handled, started, finished>>

\* Faulty variant: the fences are looked up after they have been updated.
EndEncodingUpdatesFirst ==
  /\ InEncoder(enc) # {}
  /\ outputs' = [b \in Buffer |-> IF b \in all_outputs THEN enc ELSE outputs[b]]
  /\ waits' = [waits EXCEPT ![enc] = {outputs'[b] : b \in all_inputs} \ {0}]
  /\ committed' = committed \cup {enc}
  /\ enc' = enc + 1 /\ barriers' = 0
  /\ prev_outputs' = {} /\ all_inputs' = {} /\ all_outputs' = {}
  /\ UNCHANGED <<prog, recorded, encOf, epoch, handled, started, finished>>

(***************************************************************************)
(* Device::end_encoding and commit_command_buffer: wait for the fences of  *)
(* the encoders that wrote what this one binds, and become the writer of   *)
(* its outputs.  The next dispatch opens a new encoder.                    *)
(***************************************************************************)
EndEncoding ==
  /\ InEncoder(enc) # {}
  /\ waits' = [waits EXCEPT ![enc] = {outputs[b] : b \in all_inputs} \ {0}]
  /\ outputs' = [b \in Buffer |-> IF b \in all_outputs THEN enc ELSE outputs[b]]
  /\ committed' = committed \cup {enc}
  /\ enc' = enc + 1 /\ barriers' = 0
  /\ prev_outputs' = {} /\ all_inputs' = {} /\ all_outputs' = {}
  /\ UNCHANGED <<prog, recorded, encOf, epoch, handled, started, finished>>

\* Faulty variant: the handler removes an entry without comparing fences.
HandlerForgets(e) ==
  /\ e \in committed \ handled
  /\ Complete(e)
  /\ outputs' = [b \in Buffer |-> IF b \in Written(e) THEN 0 ELSE outputs[b]]
  /\ handled' = handled \cup {e}
  /\ UNCHANGED <<prog, host, committed, waits, started, finished>>

(***************************************************************************)
(* The completion handler, on a thread of its own: under the fence mutex   *)
(* it removes the entries that still hold this encoder's fence.            *)
(***************************************************************************)
Handler(e) ==
  /\ e \in committed \ handled
  /\ Complete(e)
  /\ outputs' = [b \in Buffer |-> IF b \in Written(e) /\ outputs[b] = e
                                  THEN 0 ELSE outputs[b]]
  /\ handled' = handled \cup {e}
  /\ UNCHANGED <<prog, host, committed, waits, started, finished>>

(***************************************************************************)
(* The GPU: a dispatch of a committed encoder may start when the encoders  *)
(* it waits for are complete and the dispatches before its last barrier    *)
(* have finished.                                                          *)
(***************************************************************************)
Start(d) ==
  /\ d \in Recorded \ started
  /\ encOf[d] \in committed
  /\ \A e \in waits[encOf[d]] : Complete(e)
  /\ \A c \in InEncoder(encOf[d]) : epoch[c] < epoch[d] => c \in finished
  /\ started' = started \cup {d}
  /\ UNCHANGED <<prog, host, outputs, committed, waits, handled, finished>>

Finish(d) ==
  /\ d \in started \ finished
  /\ finished' = finished \cup {d}
  /\ UNCHANGED <<prog, host, outputs, committed, waits, handled, started>>

Done == recorded = Len(prog) /\ finished = Dispatch /\ handled = committed

Next ==
  \/ Record \/ EndEncoding
  \/ \E e \in Encoder : Handler(e)
  \/ \E d \in Dispatch : Start(d) \/ Finish(d)
  \/ Done /\ UNCHANGED vars

(***************************************************************************)
(* An evaluation records all of its program and its last task ends the     *)
(* encoder; the GPU runs what may run, and runs the handlers.              *)
(***************************************************************************)
Fairness ==
  /\ WF_vars(Record) /\ WF_vars(EndEncoding)
  /\ WF_vars(\E e \in Encoder : Handler(e))
  /\ WF_vars(\E d \in Dispatch : Start(d))
  /\ WF_vars(\E d \in Dispatch : Finish(d))

Spec == Init /\ [][Next]_vars /\ Fairness
-----------------------------------------------------------------------------
TypeOK ==
  /\ prog \in Programs
  /\ recorded \in 0 .. Len(prog)
  /\ enc \in Encoder
  /\ barriers \in Nat
  /\ prev_outputs \subseteq Buffer
  /\ all_inputs \subseteq Buffer /\ all_outputs \subseteq Buffer
  /\ outputs \in [Buffer -> {0} \cup committed]
  /\ encOf \in [Dispatch -> 0 .. enc]
  /\ epoch \in [Dispatch -> Nat]
  /\ committed = 1 .. enc-1
  /\ waits \in [Encoder -> SUBSET committed]
  /\ \A e \in Encoder : waits[e] \subseteq 1 .. e-1
  /\ handled \subseteq committed
  /\ finished \subseteq started /\ started \subseteq Recorded

(***************************************************************************)
(* Two dispatches of which one writes a buffer the other binds.            *)
(***************************************************************************)
Conflict(c, d) ==
  Out(c) \cap Binds(d) # {} \/ Binds(c) \cap Out(d) # {}

(***************************************************************************)
(* Conflicting dispatches run in program order and never overlap, within   *)
(* an encoder or across encoders, whatever the handlers removed meanwhile: *)
(* every kernel sees the memory a serial execution would show it.          *)
(***************************************************************************)
Serialized ==
  \A c, d \in Recorded :
    c < d /\ Conflict(c, d) /\ d \in started => c \in finished

(***************************************************************************)
(* As long as a committed writer of a buffer is unfinished, the stream     *)
(* remembers an encoder that writes the buffer and is not older.           *)
(***************************************************************************)
WriterRemembered ==
  \A c \in Recorded \ finished : \A b \in Out(c) :
    encOf[c] \in committed => outputs[b] >= encOf[c] /\ b \in Written(outputs[b])

(***************************************************************************)
(* Waiting for fences and barriers never blocks for good.                  *)
(***************************************************************************)
Completes == <>Done
=============================================================================
