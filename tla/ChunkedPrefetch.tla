-------------------------- MODULE ChunkedPrefetch --------------------------
(***************************************************************************)
(* ChunkedQuerySetIterator of rest_framework_dso/iterators.py: rows are     *)
(* read in chunks, and the related objects of a whole chunk are fetched at  *)
(* once. Objects behind foreign keys are kept in one least-recently-used    *)
(* cache per relation, so that the next chunk need not fetch them again.    *)
(*                                                                          *)
(* A row is what its foreign keys hold. Serving a row whose relation is not *)
(* in memory makes Django run a query for that row alone.                   *)
(***************************************************************************)
EXTENDS Integers, SequencesExt

CONSTANTS
  Fks,        \* the prefetched relations that are foreign keys
  Many,       \* the prefetched relations to many objects
  Values,     \* Values[f]: what foreign key f can hold in a row
  NoKey,      \* NULL in a foreign key
  Objects,    \* Objects[f]: the keys of the objects there are, a subset of Values[f]
  ChunkSize   \* chunk_size, 2000 in the code

ASSUME ChunkAssumption ==
  /\ ChunkSize \in Nat \ {0, 1}
  /\ Fks \cap Many = {}
  /\ \A f \in Fks : Objects[f] \subseteq Values[f] \ {NoKey}

VARIABLES
  chunk,   \* the rows of the chunk, instances in the code
  loaded,  \* loaded[i]: the relations of row i that are in memory
  caches,  \* _fk_caches: per relation its keys, the last used one first
  step,    \* read, restore, prefetch, persist, serve, end
  served   \* the number of rows of the chunk that were handed over

vars == <<chunk, loaded, caches, step, served>>

Lookups == Fks \cup Many
Row == {r \in [Fks -> UNION {Values[g] : g \in Fks}] : \A f \in Fks : r[f] \in Values[f]}

(***************************************************************************)
(* The least-recently-used dict.                                            *)
(***************************************************************************)
Capacity == ChunkSize \div 2

\* The place that a key leaves when it is used: its own, a new one at the end, or
\* that of the key that has to go.
Leaves(cache, key) ==
  IF Contains(cache, key) THEN CHOOSE j \in DOMAIN cache : cache[j] = key
  ELSE IF Len(cache) < Capacity THEN Len(cache) + 1 ELSE Capacity

\* The key comes first; the ones that were before the place it leaves move back.
Used(cache, key) ==
  LET gap == Leaves(cache, key)
  IN  [i \in DOMAIN cache \cup {gap} |->
         IF i = 1 THEN key ELSE IF i <= gap THEN cache[i - 1] ELSE cache[i]]

\* The cache after each of the keys: the ones in the cache are looked up, and
\* those that were found are stored.
Uses(cache, keys, found) ==
  LET after[n \in 0 .. Len(keys)] ==
        IF n = 0 THEN cache
        ELSE IF keys[n] \in found \/ Contains(after[n - 1], keys[n])
             THEN Used(after[n - 1], keys[n])
             ELSE after[n - 1]
  IN  after

UsesAll(cache, keys, found) == Uses(cache, keys, found)[Len(keys)]

KeysOf(f) == [i \in DOMAIN chunk |-> chunk[i][f]]

Init ==
  /\ chunk = <<>>
  /\ loaded = <<>>
  /\ caches = [f \in {} |-> <<>>]
  /\ step = "read"
  /\ served = 0

\* islice() over the rows of the query, and the first line of _add_prefetches.
ReadChunk ==
  /\ step = "read"
  /\ \E n \in 1 .. ChunkSize : chunk' \in [1 .. n -> Row]
  /\ loaded' = [i \in DOMAIN chunk' |-> {}]
  /\ step' = IF DOMAIN caches = {} THEN "prefetch" ELSE "restore"
  /\ UNCHANGED <<caches, served>>

EndRows ==
  /\ step = "read"
  /\ step' = "end"
  /\ UNCHANGED <<chunk, loaded, caches, served>>

\* _restore_caches. Only relations that have a cache by now are looked at.
RestoredFor(i) == {f \in DOMAIN caches : Contains(caches[f], chunk[i][f])}

\* Mutant: the answer of the last row is the answer for the chunk.
AllRestoredLast ==
  \A f \in DOMAIN caches :
    \/ chunk[Len(chunk)][f] = NoKey
    \/ f \in RestoredFor(Len(chunk))

\* Mutant: a row without a reference counts as not restored.
AllRestoredNulls == \A i \in DOMAIN chunk, f \in DOMAIN caches : f \in RestoredFor(i)

AllRestored ==
  \A i \in DOMAIN chunk, f \in DOMAIN caches :
    chunk[i][f] = NoKey \/ f \in RestoredFor(i)

Restore ==
  /\ step = "restore"
  /\ loaded' = [i \in DOMAIN chunk |-> RestoredFor(i)]
  /\ caches' = [f \in DOMAIN caches |-> UsesAll(caches[f], KeysOf(f), {})]
  /\ step' = IF AllRestored THEN "serve" ELSE "prefetch"
  /\ UNCHANGED <<chunk, served>>

\* prefetch_related_objects fetches every relation that a row does not have yet.
Prefetch ==
  /\ step = "prefetch"
  /\ loaded' = [i \in DOMAIN chunk |-> Lookups]
  /\ step' = "persist"
  /\ UNCHANGED <<chunk, caches, served>>

PrefetchFails ==
  /\ step = "prefetch"
  /\ step' = "end"
  /\ UNCHANGED <<chunk, loaded, caches, served>>

\* _persist_prefetch_cache: every object that was found is put in its cache.
Found(f) == {i \in DOMAIN chunk : chunk[i][f] \in Objects[f]}
Cache(f) == IF f \in DOMAIN caches THEN caches[f] ELSE <<>>
Cached == {f \in Fks : Found(f) # {}} \cup DOMAIN caches

\* Mutant: the caches are replaced by what the last row refers to.
PersistLast ==
  /\ step = "persist"
  /\ caches' = [f \in Cached |->
                  IF Len(chunk) \in Found(f) THEN <<chunk[Len(chunk)][f]>> ELSE Cache(f)]
  /\ step' = "serve"
  /\ UNCHANGED <<chunk, loaded, served>>

\* Mutant: references that lead nowhere are cached too.
PersistDangling ==
  /\ step = "persist"
  /\ caches' = [f \in Fks |-> UsesAll(Cache(f), KeysOf(f), Values[f])]
  /\ step' = "serve"
  /\ UNCHANGED <<chunk, loaded, served>>

Persist ==
  /\ step = "persist"
  /\ caches' = [f \in Cached |-> UsesAll(Cache(f), KeysOf(f), Objects[f])]
  /\ step' = "serve"
  /\ UNCHANGED <<chunk, loaded, served>>

\* yield from instances; a shorter chunk was the last one.
Serve ==
  /\ step = "serve"
  /\ served < Len(chunk)
  /\ served' = served + 1
  /\ UNCHANGED <<chunk, loaded, caches, step>>

EndChunk ==
  /\ step = "serve"
  /\ served = Len(chunk)
  /\ chunk' = <<>>
  /\ loaded' = <<>>
  /\ served' = 0
  /\ step' = IF Len(chunk) < ChunkSize THEN "end" ELSE "read"
  /\ UNCHANGED caches

Next ==
  \/ ReadChunk \/ EndRows
  \/ Restore \/ Prefetch \/ PrefetchFails \/ Persist
  \/ Serve \/ EndChunk

Spec == Init /\ [][Next]_vars

(***************************************************************************)
(* Properties.                                                              *)
(***************************************************************************)
\* The relations for which serving row i runs a query of its own.
Lazy(i) == {f \in Fks : f \notin loaded[i] /\ chunk[i][f] # NoKey}
             \cup (Many \ loaded[i])

\* Types; a cache holds no key twice, no more than its size, and only objects
\* that exist.
TypeOK ==
  /\ chunk \in Seq(Row)
  /\ Len(chunk) <= ChunkSize
  /\ loaded \in [DOMAIN chunk -> SUBSET Lookups]
  /\ DOMAIN caches \subseteq Fks
  /\ \A f \in DOMAIN caches :
       /\ caches[f] \in Seq(Objects[f])
       /\ Len(caches[f]) \in 1 .. Capacity
       /\ IsInjective(caches[f])
  /\ step \in {"read", "restore", "prefetch", "persist", "serve", "end"}
  /\ served \in 0 .. ChunkSize

\* A row is never served without an object of a relation that was cached once,
\* whether the chunk was prefetched or restored, and whatever was evicted
\* (_restore_caches decides for the chunk as a whole).
CachedFksLoaded ==
  step = "serve" =>
    \A i \in DOMAIN chunk : Lazy(i) \cap DOMAIN caches = {}

\* Once a chunk is loaded, its objects are in the caches as far as they fit: a
\* next chunk that refers to the same few objects finds all of them there,
\* whatever the chunks before it pushed out
\* (the purpose the class documents: not "prefetching the same records again").
RepeatIsFree ==
  step = "serve" =>
    \A f \in DOMAIN caches :
      LET keys == {chunk[i][f] : i \in DOMAIN chunk} \cap Objects[f]
      IN  Cardinality(keys) <= Capacity => keys \subseteq Range(caches[f])

\* A chunk is only prefetched when one of its references is not in the caches
\* (_restore_caches avoids "unneeded prefetching of the same ForeignKey relation").
NoNeedlessPrefetch ==
  [][Restore /\ step' = "prefetch" =>
       \E i \in DOMAIN chunk, f \in DOMAIN caches :
         chunk[i][f] # NoKey /\ chunk[i][f] \notin Range(caches[f])]_vars
=============================================================================
