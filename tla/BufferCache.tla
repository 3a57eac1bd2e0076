----------------------------- MODULE BufferCache -----------------------------
(***************************************************************************)
(* The cache of freed buffers.  pool is a multimap from lengths to holders *)
(* of buffers, lru a list of the same holders, the most recent first.      *)
(* Dropping the least recently used takes a buffer out of its holder and   *)
(* the holder off the list, but leaves it in the pool until a search comes *)
(* by.  The pool is a sequence sorted by length, equal lengths in the      *)
(* order of insertion, of entries <<length, buffer>>.                      *)
(***************************************************************************)
EXTENDS Integers, Sequences, FiniteSets, SequencesExt, FiniteSetsExt

CONSTANTS
  Page,    \* vm_page_size, in the unit of lengths
  NoBuf    \* the buffer of a holder that has lost its own

EmptyCache == [pool |-> <<>>, lru |-> <<>>, size |-> 0]

Live(e) == e[2] # NoBuf

Less(a, b) == IF a < b THEN a ELSE b

\* multimap::lower_bound: the place of the first entry at least as long.
LowerBound(pool, len) == Cardinality({k \in DOMAIN pool : pool[k][1] < len}) + 1

(***************************************************************************)
(* reuse_from_cache: the first buffer of a length that makes use of most   *)
(* of it.  The empty holders before it, all in reach if there is none,     *)
(* leave the pool.                                                         *)
(***************************************************************************)
Reuse(cache, size) ==
  LET pool  == cache.pool
      from  == LowerBound(pool, size)
      end   == LowerBound(pool, Less(2 * size, size + 2 * Page))
      found == {k \in from .. end - 1 : Live(pool[k])}
      first == Min(found)
      place == CHOOSE j \in DOMAIN cache.lru : cache.lru[j] = pool[first][2]
      Left(k) == SubSeq(pool, 1, from - 1) \o SubSeq(pool, k, Len(pool))
  IN  IF found = {} THEN [buf |-> NoBuf, cache |-> [cache EXCEPT !.pool = Left(end)]]
      ELSE [buf   |-> pool[first][2],
            cache |-> [pool |-> Left(first + 1),
                       lru  |-> RemoveAt(cache.lru, place),
                       size |-> cache.size - pool[first][1]]]

\* recycle_to_cache.
Recycle(cache, buf, len) ==
  [pool |-> InsertAt(cache.pool, LowerBound(cache.pool, len + 1), <<len, buf>>),
   lru  |-> <<buf>> \o cache.lru,
   size |-> cache.size + len]

\* The last n buffers of the list, and their bytes.
Oldest(cache, n) == ToSet(SubSeq(cache.lru, Len(cache.lru) - n + 1, Len(cache.lru)))
LenOf(cache, b)  == (CHOOSE e \in ToSet(cache.pool) : e[2] = b)[1]
Bytes(cache, n)  ==
  LET B == Oldest(cache, n) IN SumFunctionOnSet([b \in B |-> LenOf(cache, b)], B)

\* How many buffers have to go to free so many bytes.
Enough(cache, min) == Min({n \in 0 .. Len(cache.lru) : Bytes(cache, n) >= min})

\* The cache without the last n buffers of the list, whose holders stay in the pool.
Without(cache, n) ==
  LET dropped == Oldest(cache, n)
  IN  [pool |-> [k \in DOMAIN cache.pool |->
                   IF cache.pool[k][2] \in dropped THEN <<cache.pool[k][1], NoBuf>>
                   ELSE cache.pool[k]],
       lru  |-> SubSeq(cache.lru, 1, Len(cache.lru) - n),
       size |-> cache.size - Bytes(cache, n)]

\* Faulty variant: the size is not adjusted.
ReleaseKeepsSize(cache, min) ==
  IF 10 * min >= 9 * cache.size THEN EmptyCache
  ELSE [Without(cache, Enough(cache, min)) EXCEPT !.size = cache.size]

(***************************************************************************)
(* release_cached_buffers: everything, when that is nearly what is asked   *)
(* for, or the least recently used until enough is freed.                  *)
(***************************************************************************)
Release(cache, min) ==
  IF 10 * min >= 9 * cache.size THEN EmptyCache
  ELSE Without(cache, Enough(cache, min))
=============================================================================
