# QuixiCore Metal in TLA+

QuixiCore Metal is a library of GPU kernels for Apple Silicon: Metal kernels
under `kernels/` and `include/metal/`, C++ primitives that allocate buffers and
record dispatches (`kernels/*/*/*.cpp`, `kernels/common/tk_launch.h`), a copy of
MLX that compiles and evaluates graphs of primitives, allocates their memory and
orders their dispatches (`bindings/mlx/mlx/`), and a Python API that composes
primitives (`bindings/python/tk/__init__.py`).

Most of it is arithmetic, which unit tests compare with a reference
implementation. What such tests hardly reach is the rest: threads that race for
slots, simdgroups that share scratch memory between barriers, dispatches that
run concurrently unless a buffer binding says otherwise, worst-case buffer sizes
chosen before the data is known, sentinels, selection with bounded lists, and
compositions in which one kernel relies on a layout that another one promised.
Below the kernels, the host, the threads of streams, the GPU and its completion
handlers share event counters, a count of tasks and a pool of memory.
This directory models that part. The modules are checked with TLC on small
instances; the permutation with its scan and on its encoder, the encoder itself, the
split product, the reordering of the cache, the evaluation of graphs and the allocator
are proved with TLAPS for every instance.

`PROJECT.json` is the index: components, runs, the lines each definition
models, the hazards with the properties that cover them, and the theorems.

## Running

    tlc -config MCEncodedPermute.cfg EncodedPermute      # a run: its cfg and its module
    tlapm MoePermuteProofs.tla                           # a proof module

Runs are listed below. Each module contains a few operators marked "Faulty
variant": a plausible bug in the operator that follows. Substituting the
variant for the operator makes TLC report the property listed with it in
`PROJECT.json`, so each property is known to be sensitive to the code.

## 1. Inventory

The components, the state each keeps, its operations, what is hard about it, and
what makes it correct. Modules are named where they exist; the others are
either planned (section 2) or not modelled (section 8).

### MoE permutation (`kernels/moe/moe/moe.metal:222-278`, `moe.cpp:140-185`)
- State: `counts`, `offsets`, `cursor`, `sorted_row_idx`, `inv_idx`, all
  allocated uninitialised in `MoePermute::eval_gpu`.
- Operations: `moe_zero_i32`, `moe_histogram`, `moe_scan_offsets`,
  `moe_scatter`, four dispatches of one primitive.
- Hard: relaxed atomics from one thread per row; the order of the rows of an
  expert is a race by design; the dispatches communicate through buffers only.
- Correct if: rows get distinct slots in their expert's segment, the two index
  arrays are inverse permutations, nothing recorded is overwritten.
- Modules: `MoeDispatch`, `MoePermute`, `MoePermuteProofs`, `ThreadgroupScan`,
  `KernelProofs`, `EncodedPermute`.

### MoE schedule and MLP (`moe.metal:293-834`, `moe.cpp:196-780`, `tk/__init__.py` `moe_mlp`)
- State: `off_pad`, `expert_of_tile`, `gather_idx`, `inv_pad`, the activations
  and gradients in the padded layout.
- Operations: padding the segments to whole tiles, gathering, two grouped GEMMs,
  combining, and the same backwards.
- Hard: the padded size is fixed before the counts are known; empty experts make
  equal offsets; padding rows take part in GEMMs and in weight gradients; tiles
  beyond the schedule leave rows unwritten.
- Correct if: each row has a padded row of its own in a tile of its expert; each
  token combines its own experts, in order; each routing row contributes once to
  its expert's gradient and padding contributes zero.
- Modules: `MoeMlp`, `KernelProofs`.

### Quantized expert GEMMs (`moe.metal:837-1060`)
- State: registers of four warps, staging tiles in threadgroup memory.
- Hard: two products are reduced one after the other through the same tiles.
- Correct if: what the epilogue stores contains every block of the contraction
  once. Modules: `SplitK`, `KernelProofs`.

### MoE routing (`moe.metal:19-186`, `moe.cpp:43-80`)
- State: scores in threadgroup memory, choices in the registers of each lane.
- Operations: score, rank groups, select groups, select experts, emit.
- Hard: every lane masks by its own copy of what was chosen; ties; sentinels.
- Correct if: lanes agree, the best experts of the best groups are emitted, ids
  are distinct experts. Modules: `TopK`, `MoeRoute`, `SelectionProofs`.

### Group primitives (`include/metal/ops/group/`, `.../register/vec/reductions.metal`)
- `threadgroup_exclusive_scan_i32`, `simd_argmax`, `masked_topk`,
  `masked_topk_local`, atomics. They keep no state of their own, but callers
  have to bring barriers and masks. Modules: `ThreadgroupScan`, `TopK`,
  `KernelProofs`, `SelectionProofs`.

### MLX command encoder (`bindings/mlx/mlx/backend/metal/device.cpp`, `metal.cpp`)
- State: of the encoder (`prev_outputs`, `all_inputs`, `all_outputs`), of the
  stream (`outputs`, a fence per buffer), of the GPU.
- Operations: bind and dispatch, end the encoder and commit, the completion
  handler on another thread.
- Hard: only hazards that the bindings show are ordered; fences are replaced by
  later writers while handlers of earlier ones remove entries; reads before
  writes are not tracked at all.
- Correct if: conflicting dispatches are serialized in program order and nothing
  waits for ever. Modules: `CommandEncoder`, `CommandEncoderProofs`,
  `EncodedPermute`.

### Kernel launchers (`kernels/common/tk_launch.h`)
- No state. What a launcher binds as `in` and `out` is all the encoder knows of
  a kernel; a wrong binding is a data race. `EncodedPermute` models the four
  launchers of the permutation. A comment at `tk_launch.h:667` speaks of a serial
  encoder, which holds for the PyTorch binding; MLX's is concurrent.

### Beam search (`kernels/sampling/sampling/sampling.metal:378-460`, `sampling.cpp`)
- State: a bounded list of candidates per lane, the choices of each lane.
- Hard: one pass over the vocabulary, replacing the weakest of a list; beams
  that do not exist yet have score minus infinity.
- Correct if: the step chooses exactly the best continuations. Modules: `TopK`,
  `Beams`, `BeamAdvance`, `SelectionProofs`, and `BeamStep`, which goes on to the cache.

### Paged KV cache (`kernels/serving/kv_cache/`)
- State: the cache, block tables, sequence lengths.
- Operations: scatter, gather, zero, clone, copying blocks, building copy pairs
  from beam parents, remapping block tables.
- Hard: blocks are sources and destinations of pairs at the same time (chains
  and swaps of beams) and the pairs run in no order; a fresh cache is cleared and
  filled by two dispatches that write the same memory; empty sequences; missing
  blocks.
- Correct if: every token is in its slot, every beam holds its parent's history,
  and the two ways of reordering (copying, remapping) agree. Modules: `BeamKv`,
  `SelectionProofs`, `BeamStep`.

### Speculative decoding (`sampling.metal:460-914`)
- State: the draft tree and its pointers, what has been accepted, registers of
  the walk; the rows of emitted tokens, packed tokens, lengths and positions, and
  the cache slots of the next drafts.
- Operations: building a tree, verifying it; verifying drafts in a row
  (`spec_verify_linear`, or `sample_recovered_tokens` with the two ragged
  samplers); `spec_compact`; `spec_update_kv_meta`; the four EAGLE builders.
- Hard: the tree is built by lanes that look at the parents alone; verification
  mixes phases of one lane with phases of all; the residual is recomputed; the
  acceptance test and the residual draw have to add up to the target; two kernels
  share the requests by a mask; threads write contiguous parts of one buffer; every
  count is off by one from some other (drafts, emitted tokens, queries, rejected).
- Correct if: the output is a path of the tree, or a prefix of the drafts, and one
  token more, emitted with the target's probability; the next drafts start where
  the emitted tokens end and write slots of their own. Modules: `SpecTree`,
  `SpecVerify`, `DraftPrep`, `SpeculativeProofs`.

### Variable-length prefill (`kernels/attention/attn_varlen/`)
- State: `qlens`, `pad_off`, `tile_seq`, `tile_local0`, `n_tiles`, packed and
  padded activations.
- Hard: two scans over the same scratch memory; chunks of sequences per thread;
  a grid sized by an upper bound.
- Correct if: the device builds the host's worklist, and each token's query is
  attended to as its own sequence and place. Modules: `VarlenPrefill`, `KernelProofs`.

### Paged attention, partition and reduce (`kernels/attention/paged_attn_v2/`)
- State: a maximum, a sum and a weighted value per partition of the context.
- Operations: a partition of the paged context, one of a shared prefix, and the
  reduction over all of them.
- Hard: partitions beyond the length, before the window, or of missing blocks
  have no maximum; the sink enters once; several levels of prefixes are merged in
  one reduction; everything is relative to a maximum that is known last.
- Correct if: every visible token counts once. Module: `PagedAttention`.

### MLX graph evaluation and scheduler (`transforms.cpp:70-330`, `scheduler.h`, `backend/metal/metal.cpp`, `event.cpp`)
- State: arrays' status and events, the tape, uses left, arrays to be signaled; the
  queue and thread of each stream; command buffers; `n_active_tasks_`.
- Operations: `eval`, `async_eval`, `array::wait`, `synchronize`, the tasks of CPU
  and GPU streams, completion handlers.
- Hard: the tape is built breadth first with an excursion in depth when it is too
  wide; outputs of one primitive share an event but not a place on the tape;
  buffers are committed late; the count of tasks goes up and down on different threads.
- Correct if: inputs are computed before what uses them, on whatever stream; nothing
  unfinished is taken for available; calls return and nothing is left half done.
  Modules: `LazyGraph`, `EvalTape`, `GraphEval`, `GraphEvalProofs`.

### MLX Metal allocator (`backend/metal/allocator.cpp`, `resident.cpp`, `mlx/allocator.cpp`)
- State: the cache of buffers (a multimap and a list of the same holders), counters
  of bytes, limits, the residency set, the scheduler's count of tasks.
- Operations: `malloc_or_wait`, `malloc`, `free`, `set_cache_limit`,
  `set_wired_limit`, `clear_cache`.
- Hard: the mutex is released around the call of the device, and a change of the wired
  limit does not take it; a thread waits for memory that other tasks may free; holders
  stay in the pool when they are empty.
- Correct if: no buffer is in use twice, every byte is counted once, limits hold,
  and waiting ends. Modules: `BufferCache`, `MetalAllocator`, `MetalAllocatorProofs`.

### MLX compile (`compile.cpp`)
- State: the tape, the map of parents, orphaned nodes, the cache entry.
- Operations: `compile_dfs`, `compile_simplify`, `compile_fuse`, `compile_replace`.
- Hard: three kinds of merges keep a map of users by hand, while loops iterate over
  its entries; siblings share one place on the tape.
- Correct if: the compiled function returns what the traced one does, in this call
  and the next, and equivalent work is done once. Module: `Compile`.

### Not modelled
Token sampling and logit processing, the other attention kernels, linear attention
and state space models, matrix multiplication, quantization, norms, activations,
losses, optimizers, embedding, indexing, pooling, vision, audio, register and shared
tiles, the PyTorch binding, MLX's operations and their gradients, generated
contracts, benchmarks and tests. Section 8 says why.

### How components interact

    Python API ── composes ──> graph of primitives ── compile ──> fewer primitives
     moe_mlp                        │ eval: tape
     beam_reorder_kv                v
     attn_varlen_prefill_device   tasks on streams ── launch ──> command encoder ──> GPU
                                   │ CPU, GPU          in/out     barriers, fences    kernels
                                   v                                                    │
                                  allocator <── count of tasks ── completion handlers   │
                                   cache, limits                            group primitives

    moe_route ──ids──> moe_permute ──offsets, sorted rows──> pad schedule
        ──> gather ──> GEMM ──> GEMM ──> finalize ──> (backward)
    kv_cache_scatter ──cache──┐
    beam_advance ──parent_beam──> beam_reorder_kv | beam_remap_block_table ──> kv_cache_gather
    build_dynamic_tree ──pointers──> spec_verify_tree
    spec_verify_linear ──rows, counts──> spec_compact ──────────────┐
    sample_recovered_tokens ──> rejection_*_sample ──rows────────────┤
        ──> eagle_prepare_next_token ──> spec_update_kv_meta ──> eagle_prepare_inputs
        ──> eagle_step_slot_mapping (for every further draft) ──slots──> KV cache
    varlen_build_worklist ──> pad gather ──> attention ──> regather

There are no messages, files or restarts. Concurrency is that of GPU threads
within a dispatch, of dispatches within an encoder, of encoders, of the host, of
the threads of streams and of completion handlers. They share events, the count of
active tasks, and the allocator.


## 2. Plan

Written in this order, the most important first:

| | module | what | composes | status |
|-|-|-|-|-|
| 1 | `MoeDispatch` | abstract: rows own slots of their expert's segment | | done |
| 2 | `MoePermute` | the four dispatches, thread by thread | refines 1 | done |
| 3 | `CommandEncoder` | barriers, fences, handlers | | done |
| 4 | `EncodedPermute` | the permutation on the encoder | 2 + 3 | done |
| 5 | `MoePermuteProofs`, `CommandEncoderProofs` | theorems | 1, 2, 4; 3 | done |
| 6 | `ThreadgroupScan` | the scan with its barriers | a step of 2 | done |
| 7 | `MoeMlp` | padded schedule, GEMMs, backward | takes 2's results | done |
| 8 | `TopK`, `MoeRoute`, `BeamAdvance` | selection | share `TopK` | done |
| 9 | `SplitK` | partial products | | done |
| 10 | `BeamKv`, `BeamStep` | filling and reordering the cache; a step from logits to cache | 8 + 10 | done |
| 11 | `SpecTree` | trees of drafts | | done |
| 12 | `VarlenPrefill` | prefill without a host loop | | done |
| 13 | `SpecVerify` | linear and ragged verification, compaction | | done |
| 14 | `DraftPrep` | metadata and slots of the next drafts | extends 13 | done |
| 15 | `PagedAttention` | partitions without valid blocks, the reduction over symbolic weights | | done |
| 16 | `LazyGraph` | abstract: what evaluation promises | | done |
| 17 | `EvalTape`, `GraphEval` | the tape; streams, events, command buffers | refines 16 | done |
| 18 | `BufferCache`, `MetalAllocator` | the pool under limits | | done |
| 19 | `Compile` | merging, fusion, replay | | done |
| 20 | `SelectionProofs`, `Facts` | theorems | 8, 10 | done |
| 21 | `GraphEvalProofs` | theorems | 16, 17 | done |
| 22 | `MetalAllocatorProofs` | theorems | 18 | done |
| 23 | `KernelProofs` | theorems | 6, 7, 9, 12 | done |
| 24 | `SpeculativeProofs` | theorems | 11, 13, 14 | done |
| 25 | `DraftPrep` after `SpecTree` | the tree's path handed to the metadata builders | 11 + 14 | planned |
| 26 | `GraphEval` on `MetalAllocator` | tasks that allocate and keep buffers until they complete | 17 + 18 | planned |

`MCKernels`, `MCSelection` and `MCGraphs` put modules that share no variable into one
instance (section 4); the other MC modules supply inputs, and so does
`TracedFunctions`, from which `MCGraphs` and `MCCompile` take the functions to compile.

Abstract specifications: `MoeDispatch` (promised by the permutation), `MoePermute`
itself (promised by its encoded form), and `LazyGraph` (promised by evaluation).
Next: an abstract exclusive scan that `ThreadgroupScan` and the worklist implement,
and an abstract acceptance (a path, then one token) that `SpecTree` and `SpecVerify`
implement.

Theorems worth proving next: `SoftmaxOfContext` of `PagedAttention`, then the invariants
of `Compile`. The modules are written with that in
mind: the only RECURSIVE operator is one of `TracedFunctions`, which enumerates functions, and
parameters are constants with named assumptions.

## 3. Modules and the code

Conventions. Constants are the sizes of the code, made small. A simdgroup, whose
lanes run in lockstep, is one process; where the model needs no lockstep (one
node, one row, one tile per thread) each thread is a process. A barrier is an
action of all processes together. A dispatch begins when the one before it is
over if it binds a buffer the one before it wrote, which is the encoder's rule;
`EncodedPermute` derives this rather than assuming it. Memory that was allocated
and not written holds `Garbage` or `Undef`, values nothing else has. Numbers
that are only added, scaled or multiplied are symbolic terms (`<<"w1", e, v>>` is
expert e's first product applied to v); numbers that are compared are small
integers.

**MoeDispatch.** One variable of interest, the slot each row owns. A step gives a
row a free slot of its expert's segment. The order is left open, as in the code.

**MoePermute.** `Zero`, `CountRow`, `Scan`, `ClaimSlot`, `StoreSorted`,
`StoreInv` are the threads of the four kernels, with the register `pos` that a
thread of `moe_scatter` keeps its slot in. The atomic increments are single
steps; the two stores of `moe_scatter` are separate. `Histogram`, `ScanOffsets`
and `Claim` add the guards that put the dispatches in sequence.

**ThreadgroupScan.** `Scan` of `MoePermute` at the grain of simdgroups: `Start`,
`Load`, `Store`, `Accumulate`, `Finish` and the four barriers of
`moe_scan_offsets`. The barrier at the end of the loop could be removed without
any property failing: the barrier within the scan comes before the next read of
the running prefix. The other three cannot.

**CommandEncoder.** `Record` is a dispatch with its bindings and
`maybeInsertBarrier`; `EndEncoding` is `end_encoding` with the commit; `Handler`
is the completion handler. `Start` and `Finish` are the GPU: a dispatch starts
when the encoders it waits for are complete and the dispatches before its last
barrier have finished. The host may end an encoder after any dispatch. The
fence of an encoder is the encoder's number.

**EncodedPermute.** The permutation's four dispatches as a program of
`CommandEncoder`, with the buffers that `tk_launch.h` binds; a thread may run
while its dispatch is started and not finished. No other guard orders them.

**MoeMlp.** Starts from any result of the permutation. Each dispatch is a
`stage`, each thread or threadgroup of it an element of `todo`, run in any order.
`moe_pad_offsets` is two stages, before and after its barrier.

**TopK.** `Argmax` is the butterfly of `simd_argmax` with its tie break, `Round`
a round of `masked_topk`, `LocalRound` one of `masked_topk_local`; `Wins` is the
comparison they share, ties included, and `Exchange` one exchange of the butterfly. `NegInf`
stands for the code's lowest finite float.

**MoeRoute.** `RankGroups`, `SelectGroup`, `SelectExpert`, `EmitExperts`; arguments are
all those the host lets through. `moe_route_topk` is the case of one group.

**SplitK.** Warps run through `Multiply`, `Stage`, `SplitBarrier`, `Reduce`,
`Reduced`. A product is a bag of terms.

**BeamAdvance.** `ScanRow` and `MergeRound` are `beam_topk_partials`; `Choose`
and `Emit` are `beam_select`. The log-sum-exp shifts a whole row and is counted
into the beam's score. A dead beam has score `MinusInf`, below `NegInf` as minus
infinity is below the lowest float.

**BeamKv.** `Zero` is the threads of `kv_cache_zero`, `Scatter` the threadgroups of
`kv_cache_scatter` for one sequence; both bind the cache as output, so the second
dispatch waits for the first (`MayScatter`). `BuildPair` is a thread of
`beam_build_copy_pairs`, `Clone` one of `kv_cache_clone`, `Copy` one of
`kv_cache_copy_blocks`. The first two share no buffer and run concurrently; the
copy binds what both wrote. It reads the original cache and writes the clone, which
is what makes swaps safe. `GatherRemapped` reads the untouched cache through
`beam_remap_block_table`, and `Gather` the reordered one. How many blocks a beam
takes over is decided by the child's length (`kv_cache.metal:186`), as the property
says. Keys and values are moved alike, so one cell per token stands for both.

**BeamStep.** A whole step: the parents that `BeamAdvance` chose for batch entry 0
are the ones `BeamKv` receives (`Receive`); those of the other entries are arbitrary.
Both extend `Beams`, which declares the beam width. The caller that passes
`parent_beam` on and supplies tables, lengths and slots is not in the repository;
`Reorder` is its part.

**SpecTree.** `ClearNode` and `BuildNode` are the lanes of `build_dynamic_tree`,
a node each; `FillOutput`, `EnterRoot`, `Descend`, `LeaveLoop`, `EmitLast` are
`spec_verify_tree`. Probabilities are grains of a fixed mass and the coin one of
as many values, so that an acceptance probability is a number of coins. The
Gumbel draw is a free choice among tokens with positive probability.

**SpecVerify.** `VerifyLinear` is `spec_verify_linear` for one request; `Recover` is
`sample_recovered_tokens`, `SampleGreedy` and `SampleRandom` a thread each of the
two ragged samplers, which share a batch by the `is_greedy` mask. Each reads inputs
only and writes its own row, so one request is one step, and requests interleave.
`Collect` is the caller, who merges the outputs of the two samplers. `EmitChunk` and
`FillUnused` are the two parts of a thread of `spec_compact` after its scan
(`ThreadgroupScan` models the scan); no barrier lies between them, and threads
interleave. Noise is a factor per token, with the largest product drawn: the
exponential race directly, Gumbel noise through its logarithm.

**DraftPrep.** `PrepareNextToken`, `UpdateKvMeta`, `PrepareInputs`, `Expand` and
`DraftStep` are the kernels of the same names, one thread per request writing its
own entries. The caller supplies `query_start_loc` (a request's last token and its
drafts), block tables that no two requests share, and the positions of successive
draft steps, which it advances itself. `writes` is history: every slot a draft step
chose.

**VarlenPrefill.** `Count` to `FillTail` are the simdgroups of
`varlen_build_worklist` with its two scans; `PadGather`, `Attend`, `Regather` are
one step each, as their threadgroups write rows of their own. What attention
computes is the query together with the sequence and place it is taken for.
The comment above the kernel, "One threadgroup (B <= 256)", is older than the
chunks, which allow any B, as the model has it.

**PagedAttention.** `Attend` is a simdgroup of `paged_attention_partition` or of
`cascade_prefix_partition`, whole, as it writes a partial of its own; `Reduce` is
`paged_attention_reduce`. A sum of exponentials is the sequence of its terms, each a
token with its exponent, so that a token left out, counted twice or scaled wrongly
shows. The partition's division by its sum and the reduction's multiplication by it
cancel and are left out.

**LazyGraph, EvalTape, GraphEval.** `LazyGraph` is the promise: nodes are wanted after
their inputs, computed after them, and seen once they are computed, for good.
`EvalTape` is `eval_impl` up to the tape: `Walk` and `Count` are the depth first
walk, taken as one step because no other thread reads what it fills, `TakeNext` and
`NextInput` the breadth first one, an input at a time, with the stack it puts arrays
off to. `GraphEval` adds the rest: `Dispatch` attaches events and puts a task on a
queue, `Wait` and `Synchronize` are the host's; `CpuStart`, `CpuCompute` and
`CpuPublish` are a CPU task between the points where others look at it; `GpuEncode`
is `make_task`, `SyncCommit` and `SyncReturn` the task of `synchronize`; `GpuRun`,
`GpuFinish` and `Handler` are the GPU. The GPU runs the buffers of one stream in
order, which is what `CommandEncoder` is about. `status` is the array's; an event is
named by call and stream, as it is made anew for each.

**BufferCache, MetalAllocator.** `BufferCache` is the cache as a record with its
operations: `Reuse`, `Recycle`, `Release`. The pool, a multimap, is the sequence of its
entries in order, in which `LowerBound` is a place; the loop of `release_cached_buffers`
is `Without` applied to the least number of buffers that frees enough. `MetalAllocator` cuts `malloc` where the
mutex is released: `MallocCached`, `MallocBlocked` or `MallocNew`, then
`MallocMade`. `Check`, `WaitForOne` and `Wake` are the loop of `malloc_or_wait` with
the scheduler's condition variable. `Begin` and `Finish` stand for a task: on a CPU
stream it is counted between the two, on a GPU stream from the commit. `Drop` is the
host giving up an array; `Notify` and `Destroy` are the completion handler, whose
count goes down before its buffers do. `HostCall` changes limits or clears the cache.
`SetWiredLimit` only stores the capacity: `ResidencySet::resize`, which holds no mutex,
goes on by itself, `ResizeRead`, then `ResizeGrow` or `ResizeShrink` for one allocation
after another, then `ResizeEnd`, and `malloc` and `free` may come between any two of
these. `todo` is what the loop has still to visit: the hash table itself, from which
`free` may take an element and to which `malloc` may add one, before or behind the
iterator; or the copy of the wired set that a resize to less makes. `torn`
remembers that one of them came after the size was read. The host is one thread and
does nothing else until the call returns.

**Compile.** One action per turn of a loop or visit of a recursion. Arrays are pairs
of node and output; `parents` is `parents_map`, in which a lookup with `operator[]`
adds an entry, as in the code. `Merge` and `MergeOne` are the lambdas of the same
names, `Simplify` a turn of the loop over the tape with both loops over parents,
`FuseVisit` a visit of the first recursion and `FuseRegion` what follows it. The
second recursion of `compile_fuse`, which collects the inputs of the region in
order, is the set of arrays it uses: the order has no effect on what is computed.
`Replace` computes terms, and `CallAgain` is a call that finds the entry in the
cache. A lookup that fails throws.

**MCKernels, MCSelection.** A behaviour of one of these is a behaviour of one of the
modules they put together, chosen at the start; the others stay idle, with variables
of 0 or as before a call. `MCKernels` extends `ThreadgroupScan`, `SplitK`, `MoeMlp`,
`SpecTree`, `DraftPrep` and `VarlenPrefill`, and `MCSelection` extends `MoeRoute` and
`BeamStep`: the runs check the very definitions of these modules, which the theorems
are about, and an idle one has stored nothing, so that its properties hold of it.
`MCKernels` instantiates `PagedAttention`.


## 4. Runs

| run | instance | states | shows |
|-|-|-|-|
| `moe_permute` | 3 experts, 3 rows, encoder cut anywhere | 217,497 | rows end up grouped, nothing recorded is overwritten; refines `MoePermute` and `MoeDispatch`; terminates |
| `kernels` | seven modules, below | 620,802 | each kernel, or pipeline of kernels, under every interleaving of its threads |
| `spec_tree_bonus` | the same | | violated: see section 7 |
| `selection` | 4 lanes; routing: 6 experts, 3 chosen, all groupings; beams: 2 batches of 2, 9 tokens, lists of 2; 2 blocks of 2 per beam | 847,226 | routing is exact; one pass over the logits loses no candidate and the step is exact; beams hold their parents' histories and copying agrees with remapping |
| `moe_route_contract` | the same | | violated: see section 7 |
| `command_encoder` | all programs of 4 dispatches on 2 buffers | 526,348 | conflicts are serialized, writers are remembered, everything completes |
| `graphs` | two modules, below | 641,793 | graphs that are evaluated and functions that are compiled |
| `eval_siblings` | a graph left out of `graphs` | | violated: see section 7 |
| `memory` | 2 threads, 2 to 4 allocations, 4 buffers, up to 2 calls that change limits | 294,644 | bytes are counted once, no buffer is in use twice, what is wired fits if no resize was disturbed, the limit holds, GPU threads get an answer |
| `wired_limit` | the same | | violated: see section 7 |
| `malloc_wait` | CPU streams only | | violated: see section 7 |
| `compile_merge` | 9 functions left out of `graphs` | | violated: see section 7 |

The modules of `kernels`:

| module | instance | states | properties |
|-|-|-|-|
| `ThreadgroupScan` | 3 simdgroups of 2 lanes, 8 values: two tiles | 16,384 | `StoredOffsetsExact`, `KernelsTerminate` |
| `SplitK` | 4 warps, 6 blocks, 2 products | 240 | `EveryBlockOnce`, `KernelsTerminate` |
| `MoeMlp` | 3 experts, 2 tokens, 2 choices, tiles of 2 | 250,560 | `ScheduleSound`, `CombinesItsExperts`, `GradientsExact` |
| `VarlenPrefill` | 5 sequences, 2 simdgroups of 2 lanes, tiles of 2 | 7,530 | `WorklistMatchesHost`, `AttendsOwnQuery` |
| `SpecTree` | every tree of 4 nodes, 3 tokens, mass 3 | 169,041 | `PointersMatchHost`, `AcceptedPath`, `TreeFollowsTarget` |
| `PagedAttention` | 3 blocks of a token, partitions of 2, up to 2 prefixes | 51,200 | `SoftmaxOfContext` |
| `DraftPrep` | 3 tokens, 2 grains, 2 coins; up to 3 requests of 0 to 2 drafts; 3 draft steps, model length 7 | 125,847 | `AcceptedThenOne`, `FollowsTarget`, `PackedInOrder`, `SeedsNextStep`, `SlotsOwned` |

The modules of `graphs`, of which a behaviour takes one:

| module | instance | states | properties |
|-|-|-|-|
| `GraphEval` | graphs of 3 and 4 primitives on a CPU and two GPU streams, one or two calls | 97,962 | `TapeSound`, `ImplementsLazyGraph`, `Quiesces`: the tape is sound; evaluation refines `LazyGraph`; every call returns, all that was scheduled is computed and nothing is left half done |
| `Compile` | functions of 3 primitives, of 4 fusable ones, of 2 and 2 constants | 543,831 | `SameOutput`, `UsersKnown`, `MergedOnce`: two calls return what the function computes; users are known when regions form; equivalent work is merged |

Why these bounds are enough to be interesting:

- `moe_permute`: empty experts, all rows on one expert, and all rows apart occur;
  the encoder may be cut between any two dispatches, so that each pair is ordered
  by a barrier in some behaviours and by a fence in others.
- `ThreadgroupScan`: 8 values on 6 threads need two tiles, the second of which
  leaves simdgroups idle at barriers they must still reach.
- `MoeMlp`: with 3 experts and 4 rows there are empty experts, full and partly
  filled tiles, and tiles beyond the schedule; 2 threads stride over 8 rows.
- `SplitK`: 6 blocks are not divisible by 4 warps; 2 passes reuse the tiles.
- `VarlenPrefill`: 5 sequences on 4 threads give chunks of 2 and idle threads;
  lengths are 0, a full tile, and one more, in every combination.
- `SpecTree`: 4 nodes include the chain, the star, and two levels of siblings;
  drafts may repeat among siblings; the target may give them nothing.
- `PagedAttention`: contexts of 0 to 3 tokens and missing blocks leave partitions
  empty; windows cut the first; scores tie or differ; the sink is absent, the largest
  or not; prefixes are absent, longer than a partition, or two, of which one is empty.
- `DraftPrep`: with one request and one draft, every pair of distributions of 2
  grains on 3 tokens, disjoint, equal and overlapping, and every coin; with two
  drafts, every target and the drafts' distributions up to the names of tokens; with
  three requests, every mask and requests without drafts first, between and last. 3
  requests on 2 threads give `spec_compact` a chunk of 2 and one of 1. Sequences start
  2 and more short of the model's length, so that steps stay below, reach it and pass
  it.
- `selection`: 6 experts on 4 lanes give lanes of 2 and of 1; every divisor is a
  number of groups; scores and biases tie; 3 choices exceed the room of one group. A
  beam's list has 2 continuations, not 4 as the code has for 2 beams: of 9 tokens a lane
  has 3 and has to drop one, and the step is exact all the same. Logits of beam 0 are
  arbitrary, those of the other none, one or all high. Beams may tie, lead
  or be dead. Parents may swap, share, or chain; tables are ordered, scattered or have a
  missing block; lengths are equal or 0, 1 and 4.
- `command_encoder`: 4 dispatches suffice for a writer, a newer writer of the same
  buffer, a reader, and a handler that runs in between.
- `graphs`, evaluated: chains, forks and diamonds, with an input used once, twice by two nodes, or
  twice by one; a node of two outputs of which either is used; every assignment of
  streams. Width 2 (100 in the code) makes the walk put off inputs of the diamond; 2
  dispatches fill a command buffer (40 in the code), so that buffers are committed
  full, by a signal, and by `synchronize`. A second call meets arrays that are
  scheduled, evaluated or available.
- `memory`: buffers of 2 and 3 under a limit of 8: two fit, a third may have to wait
  or to be taken from the cache, and the threshold of 5 above which the cache is
  trimmed lies between. Two threads suffice for an allocation during another's call
  of the device, and for one that waits for the other. With capacities of 0 and 4 one
  buffer is wired or two small ones, so that a resize to more adds one and leaves another
  out, and a second resize, to less, takes it away again.
- `graphs`, compiled: three primitives suffice for two equivalent ones below a third, four for
  a region within which one array is used twice; regions are 3 deep (11 in the code).
  More than three equivalent users of one array, and two primitives of two outputs that
  are equivalent, occur in `compile_merge` only.

Deadlock is checked where the code waits: `command_encoder`, `graphs` and
`memory` stutter explicitly when they are done. In `kernels` the waits are at
barriers; there `KernelsTerminate` takes its place. The other models end when their last
thread does.

Types. `TypeOK` is proved for `MoePermute`, `CommandEncoder`, `GraphEval` and
`MetalAllocator` and is not among the properties of a run. In the other modules the exactness properties give the range of
every output, and no separate invariant is kept.


## 5. Fairness

Six specifications state fairness, all of it weak.

- `ThreadgroupScan`, and `SplitK` within `MCKernels`: of every simdgroup and of the
  barrier. The simdgroups of a threadgroup are resident together, and the hardware
  releases a barrier that all have reached. With it, `KernelsTerminate` says that the loops'
  control is uniform.
- `CommandEncoder`: of recording, of ending the encoder, and of the GPU's choices. An
  evaluation records what it was asked to and its last task ends and commits the
  encoder (`metal.cpp:62-90`); the GPU makes progress on what is runnable and runs
  handlers. Nothing is assumed about which of several runnable dispatches starts.
- `EncodedPermute`: the same, and a running dispatch's threads make progress.
- `GraphEval`: of the host, of each stream's thread, of the GPU on each stream, and of
  completion handlers. Each is a thread of its own or the GPU, and each action waits
  for what the code waits for. `Quiesces` rests on it.
- `MetalAllocator`: of the threads and of completion. Nothing makes the host drop an
  array or change a limit, nor a task arrive.

No strong fairness is used, and none of a single thread within a dispatch.


## 6. Proofs

`MoePermuteProofs` holds for every number E of experts and TK of rows
(`PermuteAssumption`: E positive, TK natural, garbage a nonempty set of integers):

- `TypeCorrect`, `SlotsAreExclusive`, `OutputIsGrouped`, `RecordedForGood`:
  `Spec` implies `[]TypeOK`, `[]ExclusiveSlots`, `[]GroupedPermutation` and
  `NeverOverwritten`.
- `Implements`: `Spec` implies `MoeDispatch`'s specification under the mapping
  from a row's register to its slot. Claiming is the abstract step, everything
  else stutters.
- `EncoderSequencesLaunches`, `EncodedOutputIsGrouped`: `EncodedSpec` implies
  `ImplementsPermute`, which is `Spec`, and with it the two invariants.

`ExclusiveSlots` is not inductive: nothing in it says why the next cursor value
lies within the segment. The invariant `IInv` counts. A cleared counter holds the
number of rows counted so far (`CountInv`), so that the scan makes an offset the
number of rows with smaller experts (`OffsetInv`); a cursor is ahead of its offset
by the number of slots claimed (`CursorInv`), claimed slots lie between the two
and differ (`PosInv`), and stores have gone where the register says
(`StoreInvariant`). A thread that claims is a row of its expert not yet counted
as claimed, so the cursor is still below the next offset. That the scan's sums
are cardinalities would be an induction over experts; it is proved by taking the
least expert at which they differ (`LeastElement`, `ScanCounts`), because the
induction theorems take operators as parameters, which the provers cannot
instantiate. That every slot is taken at the end follows from an injection
between finite sets of the same size (`EverySlotTaken`).

On the encoder nothing makes the threads of a launch wait but the encoder. The proof
instantiates `CommandEncoderProofs` with the permutation's launches as the only program
(`LaunchesKeepRule` shows that it satisfies the assumption there). Each launch binds a
buffer the one before it writes, so its invariant gives that a launch which has started
comes after all earlier ones have finished (`LaunchesInSequence`), that is, after their
threads have ended and for good (`LaunchesFinished`, `EndedForGood`). These are the
guards of `MoePermute`, so every thread's step is a step of it (`ThreadsKeepSequence`)
and every step of the encoder a stutter.

The first part of `KernelProofs` holds for every number of simdgroups and lanes, every length
and all natural values (`ScanAssumption`):

- `ScanIsExact`: `Spec` implies `[]StoredOffsetsExact`.
- `ScanInOneStep`: when all simdgroups are done, offsets and cursor are the exclusive
  scan of the counts, and no step changes the counts. That is what step `Scan` of
  `MoePermute` takes at once.

The invariant: all simdgroups are between the same two barriers and in one tile, where
the loop's register runs ahead of the tile from its increment to the barrier
(`PhaseInv`); the running prefix is what lies below thread 0's register (`RunningInv`);
a simdgroup's values and its published sum are those of the tile from the load until the
barrier after the stores (`LoadInv`), and the tile's total until it is added
(`TotalInv`); and stored is everything below the tile and what simdgroups have stored of
it (`StoredInv`). Every sum is a difference of prefixes of the array continued with
zeros (`Below`), which makes the three recursive definitions of the model telescope
(`PrefixIs`, `InclusiveIs`, `SumIs`). That simdgroups cover the tile, so that the next
may begin, is division with remainder (`TileIsCovered`).

The second part holds for every number of warps, blocks and products
(`SplitKAssumption`):

- `ProductIsExact`: `SplitSpec` implies `[]EveryBlockOnce`.

`EveryBlockOnce` says something at the end only. The invariant says at every step
which blocks a warp's product has (`AccInv`): those of its residue class below its
next block and, for warp 0, those of the warps whose tiles it has added, all of them in
earlier passes. It needs that all warps are in one pass, on one side of the barrier
before the reduction (`BarrierInv`), that a warp steps through its residue class
(`LoopInv`), and that a staged tile is what its warp's product was until the barrier
after the reduction (`StageInv`). At the end every block is in the class of some warp.
The facts about division that this takes are proved in `Facts` by products and
comparisons alone.

The third part holds for every number of sequences, lanes, threads in whole simdgroups and
queries of a tile, and every family of lengths, zero among them, whose tiles fit in
`max_tiles` (`VarlenAssumption`):

- `WorklistIsTheHosts`, `TokensAttendAsThemselves`: `VarlenSpec` implies
  `[]WorklistMatchesHost` and `[]AttendsOwnQuery`.

Both properties speak of the end. The invariant says that all simdgroups are between the
same two barriers (`TogetherInv`); that until the barrier between the scans what they
publish is their tiles, and after it their padded lengths, and that each base is the sum
over the sequences before the simdgroup's first (`PlanScanInv`); and what every simdgroup has
stored of lengths, offsets, tiles and tail (`PlanInv`). The chunks of a simdgroup's lanes
are one interval of sequences, and the intervals of successive simdgroups, idle ones
included, meet and end at the last sequence (`ChunksAre`, `FirstSeqs`), so that sums of
sums are sums over prefixes (`SumOfGroups`). What a simdgroup emits is then a function of
the sequence alone (`EmitIs`), tiles of two sequences never share a slot (`OneOwner`), and
the host's plan, which appends sequence after sequence, has the same tile in the same
slot (`HostPlan`). A token's row of the padded layout begins with a multiple of the tile,
so that its tile is one of its sequence's and both searches for a sequence, in the padded
and in the packed offsets, find the owner, also beside empty sequences (`SequenceAtIs`).

The fourth part holds for every number of experts, tokens, choices of a token, threads
and rows of a tile (`MlpAssumption`: all positive), and for every input that the
permutation may have left:

- `PaddedScheduleIsSound`, `TokensCombineTheirExperts`, `BackwardIsExact`: `MlpSpec`
  implies `[]ScheduleSound`, `[]CombinesItsExperts` and `[]GradientsExact`.

Each of the three speaks of what is complete. The invariant says of every dispatch what
those of its threads that have run have written (`HasRun`), in terms of the place of a
routing row in the padded space, which the proofs compute from the inputs (`PadPos`).
Eleven conjuncts have this form, one or two for a buffer: tiles know their experts
(`TileInv`), rows their places and places their tokens (`PlaceInv`, `TokenInv`),
activations and gradients are those of the row at the place (`GatherInv` to
`SentBackInv`), and a padded row that no routing row has keeps the zero of the fill
(`ZeroInv`), without which nothing could be said of what padding adds to a weight
gradient. A step adds one thread to those that have run (`OneMoreRun`) and leaves every
buffer but its own as it was (`Frame`), so that each dispatch has only what it writes to
be proved; a GEMM's tile is shown once for all three (`GemmRows`).

What carries it are facts about the layout. Padded segments begin at multiples of the
tile, do not overlap, are long enough, and end within the size that was fixed before the
counts were known (`PaddedSegments`), by induction over experts with at most `TILE`-1 rows of
padding each. Hence a row's place lies in a tile that begins in the segment of its expert
(`MlpPlaces`), no two rows have one place (`PlacesDiffer`), and the binary search
of both kernels, by induction over the width it halves, finds the segment of a position
and of a tile, also where empty experts make offsets equal (`SearchFinds`). That every
routing row stands somewhere in `sorted_row_idx` follows from the counts
(`EveryRowPlaced`).

`SpeculativeProofs` has two parts. The first is about `SpecVerify` and `DraftPrep`, for
every family of batches, every number of tokens, grains, coins and threads, every mask of
greedy requests and all drafts, coins and noise (`BatchAssumption`, `TableAssumption`:
positive sizes, requests numbered from 0, distributions with all of their grains; block
tables, of which no two requests share a block, that cover the model's length):

- `DraftsAreAPrefix`, `CompactionIsInOrder`, `NextDraftsAreSeeded`, `DraftSlotsAreOwned`:
  `DraftSpec` implies `[]AcceptedThenOne`, `[]PackedInOrder`, `[]SeedsNextStep` and
  `[]SlotsOwned`.
- `DraftsFollowTheTarget`: `DraftSpec` implies `[]FollowsTarget`. It also assumes that the
  coins are as fine as the probabilities (`CoinsAssumption`: every probability of a
  draft divides their number). The code compares a uniform number with a quotient of
  probabilities; with such a grid the share of coins that accept is exactly that
  quotient, without it the equation could hold only up to one coin.

The invariant says of a row that has been written why it is what it is: each accepted
draft passed the test of its kernel with some coin, and the token after it is the bonus,
the target's best, or the one recovered with the request's own noise (`RowsInv`, by
`Justified`); of the rows collected that they are those of the sampler that took the
request, the other's being blank (`OneTakes`, `OutInv`); of a thread of `spec_compact`
that has emitted that each of its requests stands at the sum of the lengths before it
(`PackInv`); and of the metadata what each kernel has computed from the rows (`NextInv`,
`LenInv`, `QueryInv`, `StepInv`).

That acceptance and residual add up to the target is a case distinction: where the draft
gives a token no more than the target, all coins accept, otherwise as many as the ratio
says, which the divisibility makes a whole number of coins (`AcceptCount`,
`GrainsAddUp`). A draft that can be rejected had more grains than the
target gives it, so that some other token has fewer, as both distributions have the same
total; the residual is not empty there and the draw is one of its tokens
(`SomethingLeft`, by `SumLess` of `Facts`). The two-sided search for the owner of a
draft converges on its request by induction over the width (`OwnerIs`, `OneOwns`).

Each thread's base is a sum of sums over the chunks of earlier threads, which are
consecutive and meet, the last ones possibly empty (`ChunksAre`); they telescope to a sum
over the requests before (`SumOfSpans`), hence no two tokens share a place and each place
before the end is one's (`OnePlace`), so that the order of threads does not matter, and
neither does a tail cleared early (`FillKeeps`). Slots of a sequence differ because
positions below the model's length differ in block or offset (`SlotsDiffer`), and those of
two requests because no block is in two tables.

The second part is about `SpecTree` and holds for every number of nodes and tokens, every mass, every tree whose
parents come before their children, all drafts, and every target whose probabilities at a
node are the whole mass (`TreeAssumption`; `spec_verify_tree` is given probabilities):

- `TreePointersAreTheHosts`, `AcceptedIsAPath`, `TreeSamplesTheTarget`: `TreeSpec` implies
  `[]PointersMatchHost`, `[]AcceptedPath` and `[]TreeFollowsTarget`.

The invariant has a part for each of the two dispatches and for the end. A pointer is
cleared, and set as soon as the one node that it belongs to is built: a parent's child
pointer by its first child, a sibling pointer by its own node (`PointerInv`). The same
is true of what the host has built, after every node that it appends, with the last child
so far as the tail (`HostAppends`), so the two agree at the end. The walk has an accepted
path behind it and sentinels ahead (`WalkInv`), and remembers why it ended (`EndInv`).

Following the sibling pointers from a first child visits the children of its parent, each
once and in order (`ChildrenListed`). The running sum that the kernel compares with the
coin is the probability of the set of tokens seen so far, if no two siblings draft one
token, and otherwise no less (`RunningCounts`). A child is therefore
accepted for an interval of coins as long as its token's probability (`CoinsOfChild`);
the grain that may be missing or added is what `<=` makes of a coin at the end of an
interval. If all children are rejected, some coin is above the sum of what was offered,
which is then less than the mass: a token is left that was not offered and that the
target can produce (`RejectionLeavesToken`). That is why the residual is never empty and
the last token is -1 only after a chain accepted in full (finding 2).

`CommandEncoderProofs` holds for every set of buffers and every set of programs
satisfying `ProgramsAssumption`:

- `TypeCorrect`, `ConflictsAreSerialized`, `WritersAreRemembered`: `Spec` implies
  `[]TypeOK`, `[]Serialized` and `[]WriterRemembered`.

The invariant: encoders and epochs partition the program in order (`OrderInv`),
the encoder under way knows its outputs and bindings (`CurrentInv`), barriers
separate a writer from what binds its buffer later in the encoder (`BarrierInv`),
the stream and the committed waits name an encoder that covers every unfinished
writer (`OutputsInv`, `WaitInv`), and therefore tracked conflicts are serialized
(`TrackedInv`). *Covers* means: writes the buffer and is not older. It is needed
because a handler or a later writer may have replaced the entry: waiting for a
later writer is enough, for that one was itself serialized after the earlier.
Conflicts of a write after a read reduce to tracked ones by `WritesFollowReads`.

`WritesFollowReads` is an assumption on programs, not a theorem: a buffer is
written after it was read only by a dispatch that also binds one of the reader's
outputs. The primitives allocate what they write and MLX keeps a buffer that is
read until the command buffer completes: `Accounted` of `MetalAllocator` says that no
buffer is handed out while a command buffer refers to it, but the two modules are not
composed. In `EncodedPermute` TLC evaluates the assumption for the permutation's
program.

`SelectionProofs` has four parts. The first holds for every number of lanes that is a power
of two, of experts and of groups that divides them, all scores and biases whose sums,
of an expert or of two, are above the sentinel, and all arguments that the host lets
through (`TopKAssumption`, `RouteAssumption`):

- `RoutesTheBest`: `RouteSpec` implies `[]RoutesBest`.

It is built on lemmas about the helpers. After the exchange at distance d, a lane holds the
best of the lanes with which it agrees modulo d, since the two that exchange hold what the
halves of such a class have (`BestModulo`, `ExchangeBest`): at distance 1 every lane holds
the best of all, and the same one, as the order has no ties (`ArgmaxBest`,
`ArgmaxAgrees`). A lane scans the candidates congruent to it, hence a round finds the best
of what is not yet chosen, or the sentinel when nothing is left (`LaneBestIs`,
`RoundBest`). The rounds' invariant says so in a form that does not speak of rounds
(`Ranked`): what beats the k-th choice is just what was chosen before, so that k-1
candidates beat it (`RankedCounts`). A running best two in one pass, which
keeps the best it displaces as the second, is the best pair whatever the order of a
group's experts (`BestTwo`, `RankIsWorth`), and the groups the rounds choose are
those that fewer than `topk_group` groups beat (`SurvivorsAre`), hence the experts that
take part are the eligible ones.

The second part holds for every number of beams, batch entries, columns and blocks, every
family of tables and lengths that satisfies `KvAssumption` (blocks of one step are
distinct, padding apart), and every choice of parents (`KvSpec`):

- `ReorderHoldsHistory`, `CopyIsRemap`: `KvSpec` implies `[]HoldsParentHistory` and
  `[]CopyAgreesWithRemap`.

The invariant: pairs are what `beam_build_copy_pairs` computes or not yet written
(`PairInv`); what has been copied holds what its source held (`CopiedInv`); what has
been cloned and not been copied over is unchanged (`CloneInv`); and dispatches that bind
each other's buffers do not overlap (`StageInv`). That two pairs never have one
destination follows from the tables being injective, and that a thread of the clone and
one of the copy name the same cell only if they belong to one block from uniqueness of
quotient and remainder. For `CopyIsRemap` it is added that a row once scattered keeps
its tokens in their slots (`ContentInv`; two tokens never share a slot, `SlotsApart`) and
that what was gathered is what a gather of the present cache gives, as nothing moves
after the reordering (`ReadInv`). The gather finds a token's sequence by halving the
cumulative lengths; that it finds the owner, also beside empty sequences, is an induction
over the width of the search (`BatchFound`).

The third part holds for every width, vocabulary, number of lanes and length of the
lists, with lists no shorter than the width and no longer than the vocabulary, and all
logits and scores with a beam alive, finite where it is (`TopKAssumption`,
`WidthAssumption`, `BeamAssumption`; a logit of minus infinity, which a mask may have put
there, is outside):

- `StepIsExact`: `StepSpec` implies `[]AdvancesBest`.

A lane keeps of its slice of a row as many tokens as a list has, and none of them is
exceeded by one that it dropped (`KeepsBest`), as what it replaces is the weakest
(`WeakestIs`); this is an induction over the row (`KeptIs`). Hence a round over the
lanes' lists finds the best token that is not listed yet, kept or not: if it was dropped,
its lane still has one at least as good, as fewer tokens have been listed than a lane
keeps (`LocalRoundIs`). A list is therefore the row's best tokens in order
(`ListsBest`). The last selection ranks the candidates of live beams (`Ranked` again).
Those that beat its last choice are fewer than a list is long, so that of each live beam
one candidate is not among them (`LivePlace`), and that one is at least as good as all the
beam's list left out.

The fourth part goes from logits to cache:

- `StepMovesHistory`: `StepSpec` implies `[]HoldsParentHistory` and
  `[]CopyAgreesWithRemap`.

What is emitted are beams of the batch entry (`ParentsAreBeams`), since a candidate
chosen is one of a live beam and never the sentinel. The cache of a step is hence a
behaviour of `KvSpec` (`StepNextKeeps`), whose theorems apply.

`GraphEvalProofs` holds for every set of streams, every finite set of programs that
satisfies `ProgramsAssumption` (a primitive uses outputs of primitives before it),
every width of the tape and every size of command buffers:

- `TypeCorrect`, `TapeIsSound`: `Spec` implies `[]TypeOK` and `[]TapeSound`.

`TapeSound` speaks of the moment the dispatch begins. The invariant speaks of every
step of the breadth first walk (`TapeInv`). A use, a node with a place among its inputs,
has been met when the node was walked and left at a later place, whether the node is the
one being walked or waits on `dfs` (`Met`); all others are `Pending`. The cache counts the
pending uses of each array's node and has no entry for the others (`CacheCounts`), and a
node stands on the tape if and only if none of its uses is pending (`LaidWithLastUse`).
A node is therefore laid after everything that uses it, so that no input of a node on the
tape stands before it (`InputsAfter`). When the walk has come to the end of the tape and
`dfs` is empty, a pending use belongs to a node that was never laid, which itself has
a pending use by a node after it: the last node of such a chain does not exist
(`TapeEnds`). `MaxWidth` does not enter, as the invariant leaves the order in which nodes
are walked open. That the cache starts with the number of uses comes from a property of
the depth first walk that holds of any set closed under it (`WalkedFacts`). Around
the walk, outputs of a node are scheduled together (`Shared`), the synchronizers of this
and later calls are not (`SyncsAhead`), what is queued or waited for is
(`OnceScheduled`), and while the tape is dispatched, from its end, it holds the
unscheduled nodes of the walk (`ToDispatchInv`).

Under the same assumptions, in the second half of the module:

- `ImplementsLazy`: `Spec` implies `ImplementsLazyGraph`, that is, `LazyGraph`'s
  specification under the mapping from status, events and results to what is wanted,
  computed and seen.

A GPU task is encoded long before it runs, without a look at its inputs on the same
stream, and the event that makes an array available is one that a later buffer may
signal. That this is sound takes an invariant about each stream (`Line`): what is
scheduled on it and not computed is on its queue or encoded, nothing else is (`Held`); in
the order of its events, the buffers handed over first, then the one being filled, then
the queue (`Ordered`); the inputs from other streams of what is encoded have been
computed (`Waited`); a buffer that signals an event ends with the node that has it
(`SignalsLast`); and an event that has reached a value vouches for every node up to it
(`Reached`). Events order the nodes of a stream because a call gives each stream an
event and counts it up (`Stamps`), and inputs come earlier on their stream because the
tape is dispatched from its end (`InputsEarlier`, from `TapeInv`). The node computed
next is the first of its stream (`FirstReady`), so its inputs there are computed, and
those of other streams have been waited for. The theorem holds also for programs whose
waits never return (finding 3): it says nothing of what happens in the end, which
`Quiesces` does.

`MetalAllocatorProofs` holds for every finite set of threads and of sizes, every set of
buffers, and every limit, limit of collection, limit of the cache and capacity
(`AllocatorAssumption`; sizes are positive, as a request of 0 bytes does not reach the
cache, and so is the limit, a share of the device's memory):

- `TypeCorrect`, `AlwaysAccounted`, `AlwaysResident`, `AlwaysLimitHolds`: `Spec` implies
  `[]TypeOK`, `[]Accounted`, `[]Resident` and `[]LimitHolds`.

A cache is sound (`Sound`) if its list has no buffer twice, each buffer of the list has
one holder in the pool, under its length, other holders are empty, and the size is the
sum of the lengths. Every operation of the cache keeps it so: `ReuseSound`,
`RecycleSound`, `ReleaseSound`. The pool's order does not enter: that a search takes a
buffer of about the length asked for is a matter of waste, not of accounting. `Books` says
that the cache is sound and the counter of active memory is the sum over what is in use.
To see that a step changes that sum by one buffer at most, one has to know who has a
buffer (`Owners`): a thread has its buffer alone, neither the host nor the GPU has it
yet, and no buffer is with two handlers. `Resident` is preserved with the books, as what a
step takes away from the sum of what is wired is the length of a buffer in it.
It speaks of calls that have returned. Within a resize `ResidentInv` says more: as long
as no malloc or free has come between the moves, `current` is the sum of what is wired;
a resize that grows has left to visit only what is not wired, and stays within the
capacity; one that shrinks has left to visit all that is wired, so that it cannot end with
too much (`AllocatedFacts`, `ResizeMemory`). A malloc or free that comes before the size
is read disturbs nothing, as the resize reads what it has done.

`LimitHolds` is not inductive. A thread that was let through has added nothing yet when
the mutex is released, so that another may be let through by the same memory. `Bounded`
says what such threads (`Asking`) may add: for one of them, what is active and cached and
its own request fits the limit, with room for the largest request for each of the
others. The last thread that was let through is the witness: the test it passed
counted its own request, and all others are at most `Cardinality(Thread) - 1`. When it
gets its buffer, its request moves to the counter and any other that waits for the device
takes its place. The bound is hence what is left when all of them have their buffers.

`Facts` holds the lemmas that several proofs share. Induction is available to the
provers in the form of least and greatest elements of sets, which it derives from the
well-foundedness of the subset order on finite sets: least and greatest numbers
(`LeastOf`, `GreatestOf`, `FiniteGreatest`), induction over an interval as a fact
about sets (`IntervalInduction`), the existence and the type of a function defined by
recursion (`RecursionExists`, `RecursionTypes`; `HistoryExists` if it looks back further
than one value), and reachability in a relation with the
closed sets that bound it (`ReachExists`, `ReachedInClosed`). What a sum over a finite set adds up to
(`SumRemove`, `SumAdd`, `SumUnion`) follows from the definition of the library's fold
in the same way: the function that the fold chooses exists and is unique. From it come
sums over consecutive spans and over the sums of those (`SpanSum`, `SumOfSpans`), with
which the scans of `VarlenPrefill` and `spec_compact` are proved, and that functions of
which one is below the other differ in their sums (`SumLess`).

Only model-checked:

- liveness (`KernelsTerminate`, `Completes`, `EventuallyGrouped`, `Quiesces`,
  `GpuMallocReturns`), which the proof system does not reach;
- `SoftmaxOfContext` of `PagedAttention`, whose sums are folds over filtered sequences;
  the library's theorems about folds take operators as parameters;
- `SameOutput`, `UsersKnown` and `MergedOnce` of `Compile`: what a function outputs is a
  term, defined by recursion over its graph, and that merging and fusing preserve it is
  an induction over terms. The induction theorems of the library take operators as
  parameters, which the installed provers cannot instantiate; induction over sets, with
  which `Facts` makes do elsewhere, would need the set of all terms.

## 7. Findings

1. **The router may emit -1** (`moe_route_contract`, `OutputContract`). Above
   `moe_route_grouped` (`moe.metal:71`): "Output contract identical to
   moe_route_topk -> drops into moe_permute/moe_mlp unchanged." If k exceeds the
   experts of the surviving groups, `masked_topk` runs out of candidates and the
   last ids are -1; the host checks only k <= min(16, E). `moe_histogram` would
   index `counts` with it. `RoutesBest` is what holds.
2. **No bonus after a chain accepted in full** (`spec_tree_bonus`, `BonusAtLeaf`).
   Above `spec_verify_tree` (`sampling.metal:530`): "at a leaf, emit the bonus
   token sampled from the full target at the last node". The loop over depths has
   N-1 turns; when the tree is a chain and each turn accepts, it ends before it
   would see the leaf, and `accept_token[accept_num]` keeps its -1.
3. **An event nobody signals** (`eval_siblings`, `WaitReturns`). `eval` notes in
   `needs_signal` the very output that a node on another stream uses
   (`transforms.cpp:107`), but attaches one event to all outputs of a primitive
   (`transforms.cpp:195`) and signals it only if the output on the tape is the one
   noted (`transforms.cpp:206`). If another output of the primitive stands on the tape,
   the task that waits for the event may wait for ever, and so does `eval`, of which the
   header says: "Wait on the array to be available. After this `is_available` returns
   `true`." (`mlx/array.h:371`, on `array::wait`). A later task of the call on the same
   stream would signal a larger value and hide it. The graph of the run has a primitive
   of two outputs on a GPU stream, of which the GPU uses one and the CPU the other.
4. **A CPU task waits for itself** (`malloc_wait`, `MallocReturns`). `malloc_or_wait`
   waits while any task is active (`mlx/allocator.cpp:47`), and a CPU task is counted
   before it runs its primitive, which allocates (`transforms.cpp:221`). With one active
   task `wait_for_one` returns at once and the loop spins; with two that both allocate,
   both sleep until the count changes. The header says: "If there are no more scheduled
   tasks an error will be raised if relaxed is false or memory will be allocated"
   (`mlx/backend/metal/metal.h:40`). `GpuMallocReturns` holds when all threads serve GPU
   streams.
5. **More is wired than the limit** (`wired_limit`, `WiredFits`). `set_wired_limit`
   calls `ResidencySet::resize` without the mutex under which `malloc` and `free` insert
   and erase (`backend/metal/allocator.cpp:171-175`, `:233`, `:249`). The new capacity is
   stored and what is wired is read (`resident.cpp:63`); a malloc that comes next may
   wire its buffer, as it fits the new capacity, and the resize then adds unwired
   buffers by the size it has read. The header says: "The wired limit is the total size
   in bytes of memory that will be kept resident." (`mlx/backend/metal/metal.h:70`). In
   the run 3 pages are unwired under a limit of 0, the limit is set to 4, a malloc wires 2
   pages after the read, and 5 are wired when the call has returned. `Resident` is what
   holds: nothing goes wrong as long as no malloc or free comes between the moves.
6. **Merging loses a node** (`compile_merge`, `SameOutput`). Of `compile` the
   documentation says: "Returns a compiled function which produces the same output as
   ``fun``." (`mlx/python/src/transforms.cpp:1374`). In two kinds of functions a lookup
   throws instead. `tape_order` knows only outputs that stand on the tape, and
   `operator[]` gives a sibling place 0 (`compile.cpp:469`), so that the earlier of two
   equivalent primitives may be merged into the later. And the loop over pairs of
   parents checks once whether the first has been merged away (`compile.cpp:460`); after
   the swap (`compile.cpp:471`) it may be, and others are then merged into a node that is
   no longer on the tape. `MaskedParent` and `SiblingOrder` of `TracedFunctions` are such
   functions.

Smaller observations, without a run: the same comment says that a sibling is
accepted when its cumulative probability "exceeds the coin", and the code accepts
at equality (`sampling.metal:577`), so that coin 0 accepts a draft to which the
target gives nothing; `TreeFollowsTarget` bounds the effect by one grain.
The barrier between filling and overwriting the outputs of `spec_verify_tree`
(`sampling.metal:557`) names threadgroup memory while the outputs are device
memory; the model takes it to order them, as it does in practice within one
simdgroup. `eagle_step_slot_mapping_metadata` is said to compute "new_pos =
min(pos+1, max_len)" (`sampling.metal:872`, and the docstring in `tk/__init__.py`);
the code goes to position 0 and the padding slot instead (`sampling.metal:892`), as
`DraftStep` has it. A caller that fed the returned position back would continue at
position 1. A draft to which its own model gives probability zero is accepted by
`spec_verify_linear` and rejected by `rejection_random_sample`; no draft is sampled
with probability zero, and `FollowsTarget` leaves the case open. The comment on
`launch_spec_compact`, "single threadgroup (B<=256)", is older than the chunks.
What a concurrent `malloc` or `free` and `resize` do to the inside of the hash table of
unwired buffers, and to an iterator into it, is undefined and not followed; in the model
each insertion and each move of an allocation is whole. A buffer that has been released
while a resize still visits it has no size there. `malloc` compares the limit with what is in use and in
the cache before it reclaims from the cache (`allocator.cpp:201-213`), so that a request
may wait or fail which a smaller cache would let through. The count of tasks goes down
before the completion handler lets go of its buffers (`metal.cpp:78`), so that a thread
that wakes may find nothing freed yet; it tries again, and `GpuMallocReturns` covers it.
The compile cache marks an entry as filled before it is (`compile.cpp:832`).
`compile_simplify` keeps an iterator into `parents_map` across merges that may insert
into it (`compile.cpp:455-488`); the model looks the entry up each time.

Left to the caller, and assumed of it in the models: no request has more drafts than
`max_draft` (its bonus would go to the next request's row, `sampling.metal:734`); no
two tokens have one slot in `slot_mapping`; what a discarded request drafts is thrown
away (its sampling index may lie before its own queries, `sampling.metal:839`); a
request's block table covers the model's length (`sampling.metal:894` clamps the
column).


## 8. What is not modelled, and why

- **Floating point.** Attention, normalisation, losses, optimizers, recurrences
  and products are real arithmetic on independent rows or tiles. There is no state
  to interleave, and TLC has no reals. Rounding, overflow and NaN are out of reach;
  in particular a row of NaN logits in the router or the beam search has no
  counterpart in the models.
- **Quantized formats.** Block layouts, code books and their decoding are bit
  manipulation at fixed widths: tests against a reference cover them.
- **Integer width.** Sizes and offsets are 32-bit in the code. The models' sizes
  are far below, and no property is about overflow; the random generator, which
  wraps on purpose, is a free choice.
- **Sampling and logit processing.** Row-local; its selection helpers are `TopK`.
- **`ConcurrentContext` and temporaries of MLX.** No kernel here uses them.
- **The rest of the allocator.** `set_memory_limit` while allocations are under way,
  failures of the device, small buffers from a heap, statistics.
- **The rest of evaluation.** Tracers, exceptions thrown in tasks, the end of the
  process; `vjp`, `jvp` and `vmap`, which build graphs and keep no state.
- **The rest of compilation.** Tracing, the key of the cache, shapeless compilation,
  several streams, and the code generated for a fused region.
- **MLX's operations.** Shapes, broadcasting, gradients and the kernels behind them:
  third party, and without state of their own.
- **The PyTorch binding.** It records on one serial encoder, an order stronger
  than the one modelled.
- **Caches in fp8 and q8_0.** They move codes and scales with the same control. Their
  scales are maxima of floats.
- **`moe_grouped_gemm_swiglu_q_fp8_2w`** and the square `moe_grouped_gemm`: same
  control as the kernels modelled.
- **Paged attention in fp8, and the single pass kernel.** The first decodes and then does
  the same; the second is one partition.
- **Generated contracts, build files, benchmarks, tests.** No logic of the library.

How much of the code this is. The definitions map some 2,650 of about 137,700 lines, two
per cent. More than half of the lines are a bundled header of Apple's API
(`include/MetalSingle.hpp`, 22,848 lines), bindings that convert arguments
(`bindings/python`, `bindings/mlx/python`), and the declarations, shapes and gradients of
MLX's operations; most of the remainder is floating point on independent tiles. What
keeps state, or makes threads, dispatches, streams or buffers meet, is the part listed in
section 1, and that is what the modules cover.
