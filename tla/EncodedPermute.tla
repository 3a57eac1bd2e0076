--------------------------- MODULE EncodedPermute ---------------------------
(***************************************************************************)
(* MoePermute::eval_gpu as it is executed: its four dispatches are         *)
(* recorded on the encoder of module CommandEncoder, and the threads of a  *)
(* dispatch run while the GPU has it started and not finished.  Nothing    *)
(* but the encoder's barriers and fences orders the dispatches here; that  *)
(* this implements MoePermute, whose guards put them in sequence, is       *)
(* checked.                                                                *)
(***************************************************************************)
EXTENDS MoePermute, Sequences

(***************************************************************************)
(* Which buffers the launchers bind with in() and with out().              *)
(***************************************************************************)
Buffers == {"topk_ids", "counts", "offsets", "cursor", "sorted_row_idx", "inv_idx"}

\* Faulty variant: the cursor, which the scan only seeds, is bound as input.
LaunchesCursorAsInput ==
  << [in |-> {},           out |-> {"counts"}],
     [in |-> {"topk_ids"}, out |-> {"counts"}],
     [in |-> {"counts", "cursor"},   out |-> {"offsets"}],
     [in |-> {"topk_ids"}, out |-> {"cursor", "sorted_row_idx", "inv_idx"}] >>

Launches ==
  << [in |-> {},           out |-> {"counts"}],             \* moe_zero_i32
     [in |-> {"topk_ids"}, out |-> {"counts"}],             \* moe_histogram
     [in |-> {"counts"},   out |-> {"offsets", "cursor"}],  \* moe_scan_offsets
     [in |-> {"topk_ids"}, out |-> {"cursor", "sorted_row_idx", "inv_idx"}] >>

VARIABLES prog, recorded, enc, barriers, prev_outputs, all_inputs, all_outputs,
          outputs, encOf, epoch, committed, waits, handled, started, finished

Encoder == INSTANCE CommandEncoder WITH Buffer <- Buffers, Programs <- {Launches}

encVars == <<prog, recorded, enc, barriers, prev_outputs, all_inputs, all_outputs,
             outputs, encOf, epoch, committed, waits, handled, started, finished>>

EncodedInit == Init /\ Encoder!Init

(***************************************************************************)
(* The host, the handlers, and the GPU starting a dispatch.                *)
(***************************************************************************)
EncoderStep ==
  /\ \/ Encoder!Record \/ Encoder!EndEncoding
     \/ \E e \in Encoder!Encoder : Encoder!Handler(e)
     \/ \E d \in Encoder!Dispatch : Encoder!Start(d)
  /\ UNCHANGED vars

(***************************************************************************)
(* The threads of dispatch d, and whether all of them have ended.          *)
(***************************************************************************)
ThreadOf(d) ==
  \/ d = 1 /\ \E e \in Expert : Zero(e)
  \/ d = 2 /\ \E t \in Row : CountRow(t)
  \/ d = 3 /\ Scan
  \/ d = 4 /\ \E t \in Row : ClaimSlot(t) \/ StoreSorted(t) \/ StoreInv(t)

Ended(d) ==
  CASE d = 1 -> zeroed = Expert
    [] d = 2 -> counted = Row
    [] d = 3 -> scanned
    [] d = 4 -> \A t \in Row : pc[t] = "done"

ThreadStep ==
  /\ \E d \in started \ finished : ThreadOf(d)
  /\ UNCHANGED encVars

(***************************************************************************)
(* A dispatch finishes once its last thread has ended.                     *)
(***************************************************************************)
FinishStep ==
  /\ \E d \in started \ finished : Ended(d) /\ Encoder!Finish(d)
  /\ UNCHANGED vars

EncodedNext == EncoderStep \/ ThreadStep \/ FinishStep

(***************************************************************************)
(* As in CommandEncoder; the threads of a running dispatch make progress.  *)
(***************************************************************************)
EncodedSpec ==
  /\ EncodedInit /\ [][EncodedNext]_<<vars, encVars>>
  /\ WF_<<vars, encVars>>(EncoderStep)
  /\ WF_<<vars, encVars>>(ThreadStep)
  /\ WF_<<vars, encVars>>(FinishStep)
-----------------------------------------------------------------------------
(***************************************************************************)
(* However the dispatches are split over encoders, the encoder's rule      *)
(* yields the sequence of MoePermute.                                      *)
(***************************************************************************)
ImplementsPermute == Spec

(***************************************************************************)
(* The rows are eventually grouped, and stay so.                           *)
(***************************************************************************)
EventuallyGrouped == <>[](Done /\ GroupedPermutation)
=============================================================================
