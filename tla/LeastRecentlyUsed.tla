------------------------- MODULE LeastRecentlyUsed -------------------------
(***************************************************************************)
(* What the in-memory program cache of a device promises, with no list and *)
(* no iterator: a map of bounded size, and the order in which its keys     *)
(* were last used.  A use is an insertion, an update or a hit; a miss uses *)
(* nothing.  Inserting a new key into a full cache forgets the key that    *)
(* every other key was used after, and no other.                           *)
(*                                                                         *)
(* A cache is a record so that a module holding one cache per device can   *)
(* reuse the operators; the specification at the end has a single cache.   *)
(***************************************************************************)
EXTENDS Naturals, FiniteSets

CONSTANTS
  Keys,       \* cache keys: device hash, source hash and (CUDA, Metal) kernel
  Programs,   \* what is cached: cl_program, CUfunction or MTL pipeline handles
  NoProgram,  \* the null pointer get returns on a miss, not a program
  Capacity    \* ProgramCache::MAX_CACHE_SIZE, at least one

VARIABLES
  store,      \* the cached programs, a function on the cached keys
  older,      \* <<a, b>> when cached key a was last used before cached key b
  result      \* what the last call returned, NoProgram when nothing

lruVars == <<store, older, result>>

----------------------------------------------------------------------------
\* The order after a use of k: every other cached key was used before it.
UsedLast(order, cached, k) ==
  {pair \in order : pair[1] # k /\ pair[2] # k} \cup ((cached \ {k}) \X {k})

\* The order once k is forgotten.
Forgotten(order, k) == {pair \in order : pair[1] # k /\ pair[2] # k}

\* k is the least recently used of the cached keys.
Oldest(order, cached, k) ==
  k \in cached /\ \A other \in cached \ {k} : <<k, other>> \in order

Restricted(f, S) == [x \in S |-> f[x]]
With(f, k, p) == [x \in DOMAIN f \cup {k} |-> IF x = k THEN p ELSE f[x]]

----------------------------------------------------------------------------
LRUInit ==
  /\ store = [k \in {} |-> NoProgram]
  /\ older = {}
  /\ result = NoProgram

LRUUpdate(k, p) ==
  /\ k \in DOMAIN store
  /\ store' = With(store, k, p)
  /\ older' = UsedLast(older, DOMAIN store, k)

LRUInsert(k, p) ==
  /\ k \notin DOMAIN store
  /\ Cardinality(DOMAIN store) < Capacity
  /\ store' = With(store, k, p)
  /\ older' = UsedLast(older, DOMAIN store, k)

LRUReplace(k, p) ==
  /\ k \notin DOMAIN store
  /\ Cardinality(DOMAIN store) >= Capacity
  /\ \E victim \in DOMAIN store :
       LET kept == DOMAIN store \ {victim}
       IN  /\ Oldest(older, DOMAIN store, victim)
           /\ store' = With(Restricted(store, kept), k, p)
           /\ older' = UsedLast(Forgotten(older, victim), kept, k)

LRUPut(k, p) ==
  /\ LRUUpdate(k, p) \/ LRUInsert(k, p) \/ LRUReplace(k, p)
  /\ result' = NoProgram

LRUHit(k) ==
  /\ k \in DOMAIN store
  /\ older' = UsedLast(older, DOMAIN store, k)
  /\ result' = store[k]
  /\ UNCHANGED store

LRUMiss(k) ==
  /\ k \notin DOMAIN store
  /\ result' = NoProgram
  /\ UNCHANGED <<store, older>>

LRUClear ==
  /\ store' = [k \in {} |-> NoProgram]
  /\ older' = {}
  /\ result' = NoProgram

LRUNext ==
  \/ \E k \in Keys, p \in Programs : LRUPut(k, p)
  \/ \E k \in Keys : LRUHit(k) \/ LRUMiss(k)
  \/ LRUClear

LRUSpec == LRUInit /\ [][LRUNext]_lruVars
=============================================================================
