------------------------------ MODULE DraftPrep ------------------------------
(***************************************************************************)
(* What prepares the next round of drafts from the rows of SpecVerify: the *)
(* EAGLE metadata builders and spec_update_kv_meta.                        *)
(*                                                                         *)
(*   eagle_prepare_next_token_padded   the token to draft from, and how    *)
(*                                     many tokens each request emitted    *)
(*   spec_update_kv_meta               the length of each sequence         *)
(*   eagle_prepare_inputs_padded       the query of the last accepted one  *)
(*   eagle_expand_int32                a value per request, for each draft *)
(*   eagle_step_slot_mapping_metadata  before each further draft token,    *)
(*                                     the cache slot it is written to     *)
(*                                                                         *)
(* One thread per request writes its own entries only, so that a kernel is *)
(* one step.  The caller's part is external: it packs the queries, a       *)
(* request's last token and its drafts, as query_start_loc, and advances   *)
(* the positions between draft steps.                                      *)
(***************************************************************************)
EXTENDS SpecVerify

CONSTANTS
  BlockSize, NBlocks,   \* tokens of a block, blocks of a request
  MaxModelLen,
  NSteps,               \* draft steps after the first
  InputBatch,           \* input_batch_size: requests with padding
  block_table           \* the blocks of every request

Pad    == -1   \* pad_id
Backup == V-1  \* backup_next_token_ids

SlotOf(b, p) == block_table[b][p \div BlockSize] * BlockSize + (p % BlockSize)

\* A request's table covers the longest sequence, and no two requests share a
\* block; no batch is cut off.
TableAssumption ==
  /\ {BlockSize, NBlocks, MaxModelLen, NSteps, InputBatch} \subseteq Nat \ {0}
  /\ MaxModelLen <= NBlocks * BlockSize
  /\ block_table \in [0 .. InputBatch-1 -> [0 .. NBlocks-1 -> Nat]]
  /\ \A b, c \in 0 .. InputBatch-1 : \A j, k \in 0 .. NBlocks-1 :
       block_table[b][j] = block_table[c][k] => b = c /\ j = k
  /\ \A x \in Batches : Cardinality(DOMAIN x.num_draft) <= InputBatch

VARIABLES
  discard,                             \* discard_request_mask
  next_token_ids, valid_count,
  new_seq_lens,                        \* lengths after verification
  token_indices_to_sample, num_rejected,
  expanded,                            \* output of eagle_expand_int32
  positions, seq_lens,                 \* of the draft steps
  out_clamped_pos, out_slot_mapping,
  writes,                              \* history: <<request, position, slot>> of the steps
  step

prepared  == <<discard, next_token_ids, valid_count, new_seq_lens,
               token_indices_to_sample, num_rejected, expanded>>
stepping  == <<positions, seq_lens, out_clamped_pos, out_slot_mapping, writes, step>>
draftVars == <<verifyVars, prepared, stepping>>

DraftInit ==
  /\ VerifyInit
  /\ discard = <<>> /\ next_token_ids = <<>> /\ valid_count = <<>> /\ new_seq_lens = <<>>
  /\ token_indices_to_sample = <<>> /\ num_rejected = <<>> /\ expanded = <<>>
  /\ positions = <<>> /\ seq_lens = <<>> /\ writes = {} /\ step = 0
  /\ out_clamped_pos = <<>> /\ out_slot_mapping = <<>>

At(s, next) == stage = s /\ stage' = next
Verify == VerifyNext /\ UNCHANGED <<prepared, stepping>>
Kept   == <<given, draft, recovered, rows, accepted_cnt, draft_out, packing>>

\* A row's entry counts unless it is a placeholder or outside the vocabulary.
IsValid(token) == token # -1 /\ token < V

PrepareNextToken ==
  LET valid(b) == {i \in 0 .. S : IsValid(draft_out[b][i])}
      last(b)  == draft_out[b][CHOOSE i \in valid(b) : \A o \in valid(b) : o <= i]
  IN  /\ At("prepare", "meta")
      /\ \E mask \in [Req -> BOOLEAN] :
           /\ discard' = mask
           /\ next_token_ids' = [b \in Req |-> IF mask[b] \/ valid(b) = {} THEN Backup ELSE last(b)]
           /\ valid_count' = [b \in Req |-> IF mask[b] THEN 0 ELSE Cardinality(valid(b))]
      /\ UNCHANGED <<Kept, new_seq_lens, token_indices_to_sample, num_rejected, expanded, stepping>>

\* The linear path has counted its accepted drafts; the ragged path's caller
\* takes them from valid_count.
UpdateKvMeta ==
  LET accepted(b) == IF batch.kind = "linear" THEN accepted_cnt[b] ELSE valid_count[b] - 1
  IN  /\ At("meta", "inputs")
      /\ new_seq_lens' = [b \in Req |-> batch.seq_lens[b] + accepted(b) + 1]
      /\ UNCHANGED <<Kept, discard, next_token_ids, valid_count, token_indices_to_sample,
                     num_rejected, expanded, stepping>>

\* The query of request b: its last token and its drafts.
query_start_loc(b) == cu[b] + b

\* Faulty variant: the token that follows the accepted ones is not counted.
RejectedOfDrafts(b) == IF nd(b) > 0 THEN nd(b) - valid_count[b] ELSE 0

Rejected(b) == IF nd(b) > 0 THEN nd(b) + 1 - valid_count[b] ELSE 0

PrepareInputs ==
  /\ At("inputs", "expand")
  /\ num_rejected' = [b \in Req |-> Rejected(b)]
  /\ token_indices_to_sample' = [b \in Req |-> query_start_loc(b+1) - 1 - Rejected(b)]
  /\ UNCHANGED <<Kept, discard, next_token_ids, valid_count, new_seq_lens, expanded, stepping>>

\* The next tokens over the drafts' spans, the backup replaced by 0.
Expand ==
  LET value(b) == IF next_token_ids[b] = Backup THEN 0 ELSE next_token_ids[b]
      spans(i) == {b \in Req : i \in cu[b] .. cu[b+1]-1}
  IN  /\ At("expand", "step")
      /\ expanded' = [i \in 0 .. NDrafts-1 |-> value(CHOOSE b \in spans(i) : TRUE)]
      /\ positions' = [b \in Req |-> new_seq_lens[b] - 1]
      /\ seq_lens' = new_seq_lens
      /\ UNCHANGED <<Kept, discard, next_token_ids, valid_count, new_seq_lens, token_indices_to_sample,
                     num_rejected, out_clamped_pos, out_slot_mapping, writes, step>>

\* Faulty variant: the last position is taken for one more.
ExceedsBeyond(p) == p > MaxModelLen

\* Position p is past the model's length.
Exceeds(p) == p >= MaxModelLen

(***************************************************************************)
(* A draft step.  A request past the model's length writes to the padding  *)
(* slot and is treated as a sequence of one token.                         *)
(***************************************************************************)
DraftStep ==
  LET new(b)     == positions[b] + 1
      clamped(b) == IF Exceeds(new(b)) THEN 0 ELSE new(b)
      block(b)   == LET k == clamped(b) \div BlockSize IN IF k < NBlocks THEN k ELSE NBlocks-1
      slot(b)    == IF Exceeds(new(b)) THEN Pad
                    ELSE block_table[b][block(b)] * BlockSize + (clamped(b) % BlockSize)
      grown(b)   == IF seq_lens[b] + 1 < MaxModelLen THEN seq_lens[b] + 1 ELSE MaxModelLen
  IN  /\ stage = "step" /\ step < NSteps
      /\ out_clamped_pos' = [b \in Req |-> clamped(b)]
      /\ out_slot_mapping' = [b \in 0 .. InputBatch-1 |-> IF b \in Req THEN slot(b) ELSE Pad]
      /\ seq_lens' = [b \in Req |-> IF Exceeds(new(b)) THEN 1 ELSE grown(b)]
      /\ positions' = [b \in Req |-> new(b)]
      /\ writes' = writes \cup {<<b, new(b), slot(b)>> : b \in Req}
      /\ step' = step + 1
      /\ UNCHANGED <<Kept, stage, prepared>>

DraftNext ==
  \/ Verify
  \/ PrepareNextToken
  \/ UpdateKvMeta
  \/ PrepareInputs
  \/ Expand
  \/ DraftStep

DraftSpec == DraftInit /\ [][DraftNext]_draftVars

-----------------------------------------------------------------------------
(***************************************************************************)
(* Whichever path verified it, a request that is kept goes on from the     *)
(* last token it emitted, at the query of its last accepted draft or, with *)
(* none, of its last token, always within its own queries; and its         *)
(* sequence grows by what it emitted.                                      *)
(***************************************************************************)
SeedsNextStep ==
  stage = "expand" =>
    \A b \in {c \in Req : ~discard[c]} :
      LET n == Length(draft_out[b])
      IN  /\ next_token_ids[b] = draft_out[b][n-1]
          /\ valid_count[b] = n
          /\ num_rejected[b] = nd(b) + 1 - n
          /\ token_indices_to_sample[b] = query_start_loc(b) + n-1
          /\ token_indices_to_sample[b] < query_start_loc(b+1)
          /\ new_seq_lens[b] = batch.seq_lens[b] + n

(***************************************************************************)
(* No draft step writes a slot that holds a verified token of any request, *)
(* or one that another step or request has written; and the attention of   *)
(* the step covers the sequence up to the new token and no further.        *)
(***************************************************************************)
SlotsOwned ==
  /\ \A w \in writes :
       /\ w[3] = Pad <=> w[2] >= MaxModelLen
       /\ w[3] # Pad =>
            /\ \A b \in Req : \A p \in 0 .. new_seq_lens[b]-1 :
                 p < MaxModelLen => w[3] # SlotOf(b, p)
            /\ \A o \in writes : o[3] = w[3] => o = w
  /\ step > 0 =>
       \A b \in Req : seq_lens[b] = (IF positions[b] < MaxModelLen THEN positions[b] + 1 ELSE 1)
=============================================================================
