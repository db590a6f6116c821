----------------------------- MODULE LruCache -----------------------------
(***************************************************************************)
(* lrucache: a pool of items, the last used first, and an index of it.     *)
(* Tasks of one loop share the cache; the action that fetches a missing    *)
(* value may suspend its task, and the others use the cache meanwhile.     *)
(***************************************************************************)
EXTENDS Naturals, Sequences, SequencesExt

CONSTANTS
  Key,
  Fetcher,   \* the tasks that get with a fetch action
  None,
  MaxSize    \* the greatest cache size

VARIABLES
  pool,        \* item_pool_: the keys, each with the number of its value
  index,       \* the keys of index_map_
  cache_size,  \* cache_size_
  fetching,    \* the key each task is fetching, or None
  stale        \* the index has had entries of items that are not in the pool

lru_vars == <<pool, index, cache_size, fetching, stale>>

Keys(p) == {p[i][1] : i \in DOMAIN p}

TypeOK ==
  /\ pool \in Seq(Key \X {"empty", "fetched", "put"}) /\ index \subseteq Key
  /\ cache_size \in 0..MaxSize /\ fetching \in [Fetcher -> Key \cup {None}] /\ stale \in BOOLEAN

Init == /\ pool = <<>> /\ index = {} /\ cache_size = MaxSize
        /\ fetching = [t \in Fetcher |-> None] /\ stale = FALSE

Usable == ~stale /\ cache_size > 0  \* with size 0, get returns the end of the index
At(k) == CHOOSE i \in DOMAIN pool : pool[i][1] = k   \* index_map_[k]
Without(k) == IF k \in index THEN RemoveAt(pool, At(k)) ELSE pool
Value(k) == pool[At(k)][2]

\* A new item, in front, for which the last ones are dropped.
Insert(k, v) ==
  LET new == <<<<k, v>>>> \o pool IN
  /\ pool' = (IF Len(new) > cache_size THEN SubSeq(new, 1, cache_size) ELSE new)
  /\ index' = (index \cup {k}) \ {new[i][1] : i \in (cache_size + 1)..Len(new)}

ToFront(k, v) == pool' = <<<<k, v>>>> \o Without(k) /\ UNCHANGED index

\* get without a fetch action, and put, which assigns to what get returns.
Get(k) ==
  /\ Usable
  /\ IF k \in index THEN ToFront(k, Value(k)) ELSE Insert(k, "empty")
  /\ UNCHANGED <<cache_size, fetching, stale>>

Put(k) ==
  /\ Usable
  /\ IF k \in index THEN ToFront(k, "put") ELSE Insert(k, "put")
  /\ UNCHANGED <<cache_size, fetching, stale>>

\* get with a fetch action calls it if the key is not there.
Fetch(t, k) ==
  /\ Usable /\ fetching[t] = None
  /\ IF k \in index THEN ToFront(k, Value(k)) /\ UNCHANGED fetching
     ELSE fetching' = [fetching EXCEPT ![t] = k] /\ UNCHANGED <<pool, index>>
  /\ UNCHANGED <<cache_size, stale>>

\* Mutant: the key is not looked for again.
MutFetched(t) ==
  /\ Usable /\ fetching[t] # None /\ Insert(fetching[t], "fetched")
  /\ fetching' = [fetching EXCEPT ![t] = None] /\ UNCHANGED <<cache_size, stale>>

\* The key is looked for again: "Other task may already set the value".
Fetched(t) ==
  /\ Usable /\ fetching[t] # None
  /\ IF fetching[t] \in index THEN UNCHANGED <<pool, index>> ELSE Insert(fetching[t], "fetched")
  /\ fetching' = [fetching EXCEPT ![t] = None]
  /\ UNCHANGED <<cache_size, stale>>

Erase(k) ==
  /\ ~stale /\ pool' = Without(k) /\ index' = index \ {k}
  /\ UNCHANGED <<cache_size, fetching, stale>>

Clear == ~stale /\ pool' = <<>> /\ index' = {} /\ UNCHANGED <<cache_size, fetching, stale>>

\* The size holds from the next insertion on.
SetCacheSize(n) == cache_size' = n /\ UNCHANGED <<pool, index, fetching, stale>>

\* Assignment from a cache of one item: its items are indexed, but what was indexed before
\* is not forgotten.
Assign(k) ==
  /\ ~stale /\ pool' = <<<<k, "put">>>> /\ index' = index \cup {k} /\ stale' = (index' # {k})
  /\ UNCHANGED <<cache_size, fetching>>

Next ==
  \/ Clear \/ \E n \in 0..MaxSize : SetCacheSize(n)
  \/ \E k \in Key : Get(k) \/ Put(k) \/ Erase(k) \/ Assign(k) \/ \E t \in Fetcher : Fetch(t, k)
  \/ \E t \in Fetcher : Fetched(t)

Spec == Init /\ [][Next]_lru_vars

\* Whatever is done while a value is fetched, no key is in the pool twice, and the index
\* has the keys of the pool, unless a cache that was in use is assigned to.
IndexIsPool == ~stale =>
  /\ index = Keys(pool)
  /\ \A i, j \in DOMAIN pool : i # j => pool[i][1] # pool[j][1]
=============================================================================
