--------------------------- MODULE MetalAllocator ----------------------------
(***************************************************************************)
(* Allocation of device memory under limits.  The threads of streams call  *)
(* malloc_or_wait: malloc takes a buffer from the cache or, if the limit   *)
(* permits, a new one, which the device makes while the mutex is released. *)
(* When it does not permit, the thread waits as long as tasks are active,  *)
(* then tries once more with the limit relaxed, or gives up.               *)
(*                                                                         *)
(* A CPU task counts as active while it runs.  A GPU task counts from the  *)
(* commit of its command buffer, which keeps the buffers of the task until *)
(* its completion handler is destroyed, after the count went down.         *)
(*                                                                         *)
(* malloc and free hold the mutex of the allocator.  A call that changes   *)
(* the wired limit does not: it is followed one allocation at a time, and  *)
(* malloc and free may come in between.  What they then do to the inside   *)
(* of the hash table that the call walks through is not followed.          *)
(*                                                                         *)
(* Sizes are small numbers of pages.                                       *)
(***************************************************************************)
EXTENDS BufferCache

CONSTANTS
  Thread,        \* threads of streams
  Sizes,         \* what they allocate
  Buf,           \* names of device buffers: 1, 2, ...
  Settings,      \* which threads serve GPU streams, whether the limit is relaxed,
                 \* tasks in all, of one allocation each, and calls of the host
                 \* that change a limit or clear the cache
  Limit,         \* block_limit_
  GcLimit,       \* gc_limit_
  CacheLimits,   \* values max_pool_size_ is set to
  WiredLimits    \* capacities of the residency set

ASSUME AllocatorAssumption ==
  /\ IsFiniteSet(Thread) /\ Thread # {}
  /\ Sizes \subseteq Nat \ {0} /\ IsFiniteSet(Sizes) /\ Sizes # {}
  /\ Buf \subseteq Nat /\ NoBuf \notin Buf
  /\ Limit \in Nat \ {0} /\ GcLimit \in 0 .. Limit /\ Page \in Nat \ {0}
  /\ CacheLimits \subseteq Nat /\ WiredLimits \subseteq Nat
  /\ Settings \subseteq [onGpu : [Thread -> BOOLEAN], relaxed : BOOLEAN, tasks : Nat, calls : Nat]

VARIABLES
  onGpu,      \* whether the stream of a thread is on the GPU
  relaxed,    \* relaxed_
  length,     \* of each buffer the device has made and not released
  cache,      \* buffer_cache_
  active,     \* active_memory_
  maxPool,    \* max_pool_size_
  capacity,   \* of the residency set
  wired,      \* wired_set_
  unwired,    \* unwired_set_
  resizing,   \* where a call of resize is: "no", "read", "grow" or "shrink"
  current,    \* current_size of resize
  todo,       \* allocations resize has still to visit
  torn,       \* whether malloc or free came between the steps of a resize
  n_active,   \* n_active_tasks_
  pc,         \* where each thread is
  size,       \* what it allocates
  swap,       \* whether this call allows swapping
  old,        \* n_tasks_old of wait_for_one
  buf,        \* what it got
  held,       \* buffers that arrays of the host refer to
  inflight,   \* buffers of committed command buffers, oldest first
  handled,    \* those of handlers that have notified and not been destroyed
  tasks,      \* tasks left
  calls       \* calls of the host left

limits    == <<maxPool, capacity, relaxed, resizing, current>>
residency == <<wired, unwired, todo, torn>>
memory    == <<length, cache, active, residency>>
gpu       == <<inflight, handled>>
thread    == <<pc, size, swap, old, buf>>
vars      == <<onGpu, limits, memory, gpu, thread, n_active, held, tasks, calls>>

Init ==
  /\ \E x \in Settings : /\ onGpu = x.onGpu /\ relaxed = x.relaxed
                         /\ tasks = x.tasks /\ calls = x.calls
  /\ length = <<>> /\ cache = EmptyCache /\ active = 0
  /\ maxPool = Limit /\ capacity = 0
  /\ wired = {} /\ unwired = {} /\ n_active = 0
  /\ resizing = "no" /\ current = 0 /\ todo = {} /\ torn = FALSE
  /\ pc = [t \in Thread |-> "idle"]
  /\ size = [t \in Thread |-> 0]
  /\ swap = [t \in Thread |-> FALSE]
  /\ old = [t \in Thread |-> 0]
  /\ buf = [t \in Thread |-> NoBuf]
  /\ held = {} /\ inflight = <<>> /\ handled = {}

At(t, l)   == pc[t] = l
Goto(t, l) == pc' = [pc EXCEPT ![t] = l]

Sum(B)    == SumFunctionOnSet(length, B)
\* Buffers someone has.
Captured  == (UNION ToSet(inflight)) \cup handled
InUse     == held \cup Captured \cup ({buf[t] : t \in Thread} \ {NoBuf})
-----------------------------------------------------------------------------
(* malloc *)

Required(t) == active + cache.size + size[t]

\* Faulty variant: the request does not count.
BlockedWhenFull(t) == ~(swap[t] /\ relaxed) /\ active + cache.size >= Limit

Blocked(t) == ~(swap[t] /\ relaxed) /\ Required(t) >= Limit

\* allocatedSize.  A buffer that has been released counts nothing.
Allocated(B) == Sum(B \cap DOMAIN length)

\* A resize has read what is wired and goes by it.
Moving == resizing \in {"grow", "shrink"}

\* ResidencySet::insert.  A resize that grows may come to the buffer or not.
Wire(b, len) ==
  /\ IF Allocated(wired) + len <= capacity
     THEN wired' = wired \cup {b} /\ unwired' = unwired /\ todo' = todo
     ELSE /\ wired' = wired /\ unwired' = unwired \cup {b}
          /\ todo' \in IF resizing = "grow" THEN {todo, todo \cup {b}} ELSE {todo}
  /\ torn' = (torn \/ Moving)

\* What has left the cache goes back to the device.
Keep(made, from) ==
  length' = Restrict(made, DOMAIN made \ (ToSet(from.lru) \ ToSet(cache'.lru)))

\* Maintain the cache below the requested limit.
Trimmed(c) == IF c.size >= maxPool THEN Release(c, c.size - maxPool) ELSE c

\* The rest of malloc, from when it has a buffer.
Got(t, b, len, made, c) ==
  /\ active' = active + len
  /\ cache' = Trimmed(c)
  /\ Keep(made, c)
  /\ Wire(b, len)
  /\ buf' = [buf EXCEPT ![t] = b]
  /\ Goto(t, "got")

MallocCached(t) ==
  /\ At(t, "malloc")
  /\ LET r == Reuse(cache, size[t])
     IN  r.buf # NoBuf /\ Got(t, r.buf, length[r.buf], length, r.cache)
  /\ UNCHANGED <<onGpu, limits, gpu, size, swap, old, tasks, n_active, held, calls>>

MallocBlocked(t) ==
  /\ At(t, "malloc")
  /\ Reuse(cache, size[t]).buf = NoBuf /\ Blocked(t)
  /\ cache' = Reuse(cache, size[t]).cache
  /\ Goto(t, IF swap[t] THEN "error" ELSE "check")
  /\ UNCHANGED <<onGpu, limits, length, active, residency, gpu, size, swap, old, buf, tasks,
                 n_active, held, calls>>

\* Try to reclaim memory from the cache, and let go of the mutex.
MallocNew(t) ==
  /\ At(t, "malloc")
  /\ Reuse(cache, size[t]).buf = NoBuf /\ ~Blocked(t)
  /\ LET c == Reuse(cache, size[t]).cache
     IN  cache' = IF Required(t) >= GcLimit THEN Release(c, Required(t) - GcLimit) ELSE c
  /\ Keep(length, cache)
  /\ Goto(t, "new")
  /\ UNCHANGED <<onGpu, limits, active, residency, gpu, size, swap, old, buf, tasks,
                 n_active, held, calls>>

\* newBuffer, and the mutex again.
MallocMade(t) ==
  /\ At(t, "new")
  /\ Buf \ DOMAIN length # {}
  /\ LET b == Min(Buf \ DOMAIN length)
     IN  Got(t, b, size[t], [d \in DOMAIN length \cup {b} |-> IF d = b THEN size[t] ELSE length[d]], cache)
  /\ UNCHANGED <<onGpu, limits, gpu, size, swap, old, tasks, n_active, held, calls>>

Malloc(t) == MallocCached(t) \/ MallocBlocked(t) \/ MallocNew(t) \/ MallocMade(t)
-----------------------------------------------------------------------------
(* malloc_or_wait, and the tasks that call it *)

Begin(t) ==
  /\ At(t, "idle") /\ tasks > 0
  /\ \E s \in Sizes : size' = [size EXCEPT ![t] = s]
  /\ n_active' = IF onGpu[t] THEN n_active ELSE n_active + 1
  /\ tasks' = tasks - 1
  /\ Goto(t, "malloc")
  /\ UNCHANGED <<onGpu, limits, memory, gpu, swap, old, buf, held, calls>>

\* Faulty variant: it waits whether or not a task is active.
AlwaysWaits == TRUE

SomeActive == n_active > 0

Check(t) ==
  /\ At(t, "check")
  /\ IF SomeActive
     THEN Goto(t, "wait") /\ swap' = swap
     ELSE Goto(t, "malloc") /\ swap' = [swap EXCEPT ![t] = TRUE]
  /\ UNCHANGED <<onGpu, limits, memory, gpu, size, old, buf, tasks, n_active, held, calls>>

WaitForOne(t) ==
  /\ At(t, "wait")
  /\ old' = [old EXCEPT ![t] = IF n_active > 1 THEN n_active ELSE 0]
  /\ Goto(t, IF n_active > 1 THEN "asleep" ELSE "malloc")
  /\ UNCHANGED <<onGpu, limits, memory, gpu, size, swap, buf, tasks, n_active, held, calls>>

Wake(t) ==
  /\ At(t, "asleep") /\ n_active # old[t]
  /\ old' = [old EXCEPT ![t] = 0]
  /\ Goto(t, "malloc")
  /\ UNCHANGED <<onGpu, limits, memory, gpu, size, swap, buf, tasks, n_active, held, calls>>

\* A GPU task commits its command buffer, which refers to what it bound.
Finish(t) ==
  /\ At(t, "got")
  /\ held' = held \cup {buf[t]}
  /\ inflight' = IF onGpu[t] THEN Append(inflight, {buf[t]}) ELSE inflight
  /\ n_active' = IF onGpu[t] THEN n_active + 1 ELSE n_active - 1
  /\ buf' = [buf EXCEPT ![t] = NoBuf]
  /\ size' = [size EXCEPT ![t] = 0]
  /\ swap' = [swap EXCEPT ![t] = FALSE]
  /\ Goto(t, "idle")
  /\ UNCHANGED <<onGpu, limits, memory, handled, old, tasks, calls>>

Run(t) == Begin(t) \/ Malloc(t) \/ Check(t) \/ WaitForOne(t) \/ Wake(t) \/ Finish(t)
-----------------------------------------------------------------------------
(* free *)

\* Faulty variant: the buffer stays in the residency set.
UnwireLate(b) == UNCHANGED residency

\* ResidencySet::erase.
Unwire(b) ==
  /\ IF b \in unwired
     THEN unwired' = unwired \ {b} /\ wired' = wired
     ELSE wired' = wired \ {b} /\ unwired' = unwired
  /\ todo' = IF resizing = "grow" THEN todo \ {b} ELSE todo
  /\ torn' = (torn \/ Moving)

Free(b) ==
  /\ Unwire(b)
  /\ active' = active - length[b]
  /\ IF cache.size < maxPool
     THEN cache' = Recycle(cache, b, length[b]) /\ length' = length
     ELSE cache' = cache /\ length' = Restrict(length, DOMAIN length \ {b})

\* The host lets go of an array.
Drop(b) ==
  /\ resizing = "no"
  /\ b \in held
  /\ held' = held \ {b}
  /\ IF b \in Captured THEN UNCHANGED memory ELSE Free(b)
  /\ UNCHANGED <<onGpu, limits, gpu, thread, n_active, tasks, calls>>

\* The completion handler counts down, and is then destroyed.
Notify ==
  /\ inflight # <<>>
  /\ n_active' = n_active - 1
  /\ handled' = handled \cup Head(inflight)
  /\ inflight' = Tail(inflight)
  /\ UNCHANGED <<onGpu, limits, memory, thread, held, tasks, calls>>

Destroy(b) ==
  /\ b \in handled
  /\ handled' = handled \ {b}
  /\ IF b \in held THEN UNCHANGED memory ELSE Free(b)
  /\ UNCHANGED <<onGpu, limits, thread, n_active, held, inflight, tasks, calls>>
-----------------------------------------------------------------------------
(* The host changes limits, which take effect with the next allocation. *)

SetCacheLimit ==
  /\ maxPool' \in CacheLimits \ {maxPool}
  /\ UNCHANGED <<relaxed, capacity, resizing, current, memory>>

ClearCache ==
  /\ cache' = EmptyCache
  /\ Keep(length, cache)
  /\ UNCHANGED <<limits, active, residency>>

SetWiredLimit ==
  /\ capacity' \in WiredLimits \ {capacity}
  /\ resizing' = "read"
  /\ UNCHANGED <<relaxed, maxPool, current, memory>>

\* The host is one thread.
HostCall ==
  /\ resizing = "no"
  /\ calls > 0 /\ calls' = calls - 1
  /\ SetCacheLimit \/ ClearCache \/ SetWiredLimit
  /\ UNCHANGED <<onGpu, gpu, thread, n_active, held, tasks>>
-----------------------------------------------------------------------------
(* ResidencySet::resize, without the mutex. *)

Resized == resizing' = "no" /\ current' = 0 /\ todo' = {} /\ UNCHANGED <<wired, unwired>>

ResizeRead ==
  /\ resizing = "read"
  /\ LET now == Allocated(wired)
     IN  \/ /\ now < capacity
            /\ resizing' = "grow" /\ current' = now /\ todo' = unwired
            /\ UNCHANGED <<wired, unwired>>
         \/ /\ now > capacity
            /\ resizing' = "shrink" /\ current' = now /\ todo' = wired
            /\ UNCHANGED <<wired, unwired>>
         \/ now = capacity /\ Resized

\* Allocations are visited in any order.
ResizeGrow(b) ==
  /\ resizing = "grow"
  /\ todo' = todo \ {b}
  /\ IF current + Allocated({b}) > capacity
     THEN UNCHANGED <<current, wired, unwired>>
     ELSE /\ current' = current + Allocated({b})
          /\ wired' = wired \cup {b} /\ unwired' = unwired \ {b}
  /\ resizing' = resizing

ResizeShrink(b) ==
  /\ resizing = "shrink" /\ current > capacity
  /\ todo' = todo \ {b}
  /\ current' = current - Allocated({b})
  /\ wired' = wired \ {b} /\ unwired' = unwired \cup {b}
  /\ resizing' = resizing

ResizeEnd ==
  /\ Moving
  /\ todo = {} \/ (resizing = "shrink" /\ current <= capacity)
  /\ Resized

Resize ==
  /\ ResizeRead \/ ResizeEnd \/ \E b \in todo : ResizeGrow(b) \/ ResizeShrink(b)
  /\ UNCHANGED <<onGpu, maxPool, capacity, relaxed, length, cache, active, torn, gpu, thread,
                 n_active, held, tasks, calls>>
-----------------------------------------------------------------------------
Done ==
  /\ inflight = <<>> /\ handled = {}
  /\ \A t \in Thread : At(t, "error") \/ (At(t, "idle") /\ tasks = 0)

Next ==
  \/ \E t \in Thread : Run(t)
  \/ \E b \in Buf : Drop(b) \/ Destroy(b)
  \/ Notify \/ HostCall \/ Resize
  \/ Done /\ UNCHANGED vars

\* Threads run and the GPU completes its work; nothing makes the host let go.
Fairness ==
  /\ \A t \in Thread : WF_vars(Run(t))
  /\ WF_vars(Notify) /\ \A b \in Buf : WF_vars(Destroy(b))

Spec == Init /\ [][Next]_vars /\ Fairness
-----------------------------------------------------------------------------
(***************************************************************************)
(* A buffer the device has made is either in use or in the cache, never    *)
(* both: no two arrays share memory.  The counters the limits are compared *)
(* with say how much is in use and in the cache, though buffers are        *)
(* dropped from the cache at one end of the list and taken at another.     *)
(***************************************************************************)
Accounted ==
  LET cached == ToSet(cache.lru)
  IN  /\ DOMAIN length = InUse \cup cached /\ InUse \cap cached = {}
      /\ active = Sum(InUse) /\ cache.size = Sum(cached)
      /\ Len(cache.lru) = Cardinality(cached)
      /\ {e[2] : e \in {e \in ToSet(cache.pool) : Live(e)}} = cached

(***************************************************************************)
(* What is in use is in one of the two residency sets, nothing else is,    *)
(* and what is wired fits the limit, whatever it is changed to, as long as *)
(* no malloc or free has come between the steps of a resize that moves     *)
(* allocations by the size it has read.  They may come before it reads.    *)
(***************************************************************************)
Resident ==
  resizing = "no" /\ ~torn =>
    /\ wired \cup unwired = InUse /\ wired \cap unwired = {}
    /\ Allocated(wired) <= capacity

(***************************************************************************)
(* metal.h: "The wired limit is the total size in bytes of memory that     *)
(* will be kept resident", once set_wired_limit has returned.              *)
(***************************************************************************)
WiredFits == resizing = "no" => Allocated(wired) <= capacity

\* The largest request, and what buffers still to be counted amount to.
Largest == Max(Sizes)

(***************************************************************************)
(* A limit that is not relaxed holds up to what the other threads may have *)
(* asked the device for while the mutex was released.                      *)
(***************************************************************************)
LimitHolds ==
  ~relaxed => active + cache.size < Limit + (Cardinality(Thread) - 1) * Largest

\* Every call of malloc_or_wait returns or throws, when only the GPU is used.
GpuMallocReturns ==
  (\A t \in Thread : onGpu[t]) => \A t \in Thread : At(t, "malloc") ~> pc[t] \in {"got", "error"}

(***************************************************************************)
(* metal.h: "Calls to malloc will wait on scheduled tasks if the limit is  *)
(* exceeded.  If there are no more scheduled tasks an error will be raised *)
(* if relaxed is false or memory will be allocated".                       *)
(***************************************************************************)
MallocReturns == \A t \in Thread : At(t, "malloc") ~> pc[t] \in {"got", "error"}
=============================================================================
