---------------------------- MODULE ProgramCache ----------------------------
(***************************************************************************)
(* cle::ProgramCache (clic/src/cache.cpp): the in-memory cache of compiled *)
(* programs every device owns.  A hash map from key to program is paired   *)
(* with a doubly linked list of keys, least recently used first, and every *)
(* map entry holds an iterator into the list.  An iterator is modelled by  *)
(* the address of the list node it points to: erasing a node frees its     *)
(* address, which the next push_back may be given again.                   *)
(***************************************************************************)
EXTENDS Naturals, Sequences, FiniteSets

CONSTANTS
  Keys,            \* cache keys
  Programs,        \* compiled programs (shared pointers)
  NoProgram,       \* the null pointer get returns on a miss
  MAX_CACHE_SIZE,  \* the bound on the number of cached programs
  Nodes            \* addresses the allocator may give a list node

ASSUME CacheAssumption ==
  /\ MAX_CACHE_SIZE \in Nat \ {0}
  /\ NoProgram \notin Programs

VARIABLES
  cache_,  \* key -> [program, lru_it], a function on the cached keys
  lru_,    \* list of [it, key]: node address and the key the node holds
  result   \* what the last call returned, NoProgram when nothing

cacheVars == <<cache_, lru_, result>>

Entry == [program : Programs, lru_it : Nodes]
ListNode == [it : Nodes, key : Keys]

----------------------------------------------------------------------------
\* Addresses of the nodes of a list.
Live(list) == {list[i].it : i \in 1..Len(list)}

\* list.erase(it): the node at address it is unlinked, the rest keep their
\* order.  Defined only for an iterator into the list.
Erase(list, it) ==
  LET at == CHOOSE i \in 1..Len(list) : list[i].it = it
  IN  SubSeq(list, 1, at - 1) \o SubSeq(list, at + 1, Len(list))

\* push_back(key) gives the new node an address no live node has; the
\* iterator stored with the entry is std::prev(end()), the new node.
PushBack(list, k, n) == Append(list, [it |-> n, key |-> k])

\* Mutant of Store: the iterator of an existing key is not refreshed.
StoreKeepsIterator(c, k, p, n) ==
  [x \in DOMAIN c \cup {k} |->
     IF x # k THEN c[x]
     ELSE IF k \in DOMAIN c THEN [c[k] EXCEPT !.program = p]
     ELSE [program |-> p, lru_it |-> n]]

\* cache_[key] = {program, it}, for a new or an existing key.
Store(c, k, p, n) ==
  [x \in DOMAIN c \cup {k} |->
     IF x = k THEN [program |-> p, lru_it |-> n] ELSE c[x]]

----------------------------------------------------------------------------
Init ==
  /\ cache_ = [k \in {} |-> NoProgram]
  /\ lru_ = <<>>
  /\ result = NoProgram

\* put of a key that is cached: new program, most recently used.
PutExisting(k, p) ==
  /\ k \in DOMAIN cache_
  /\ LET rest == Erase(lru_, cache_[k].lru_it)
     IN  \E n \in Nodes \ Live(rest) :
           /\ lru_' = PushBack(rest, k, n)
           /\ cache_' = Store(cache_, k, p, n)
  /\ result' = NoProgram

\* Mutants of Evicted: one program too many; the newest instead of the oldest.
EvictedLate ==
  IF Cardinality(DOMAIN cache_) > MAX_CACHE_SIZE
  THEN [list |-> Tail(lru_),
        map  |-> [x \in DOMAIN cache_ \ {Head(lru_).key} |-> cache_[x]]]
  ELSE [list |-> lru_, map |-> cache_]
EvictedNewest ==
  IF Cardinality(DOMAIN cache_) >= MAX_CACHE_SIZE
  THEN [list |-> SubSeq(lru_, 1, Len(lru_) - 1),
        map  |-> [x \in DOMAIN cache_ \ {lru_[Len(lru_)].key} |-> cache_[x]]]
  ELSE [list |-> lru_, map |-> cache_]

\* put of a new key: when the map is full the front of the list is evicted
\* from both first.
Evicted ==
  IF Cardinality(DOMAIN cache_) >= MAX_CACHE_SIZE
  THEN [list |-> Tail(lru_),
        map  |-> [x \in DOMAIN cache_ \ {Head(lru_).key} |-> cache_[x]]]
  ELSE [list |-> lru_, map |-> cache_]

PutNew(k, p) ==
  /\ k \notin DOMAIN cache_
  /\ \E n \in Nodes \ Live(Evicted.list) :
       /\ lru_' = PushBack(Evicted.list, k, n)
       /\ cache_' = Store(Evicted.map, k, p, n)
  /\ result' = NoProgram

Put(k, p) == PutExisting(k, p) \/ PutNew(k, p)

\* Mutant of GetHit: a hit is not a use.
GetHitKeepsOrder(k) ==
  /\ k \in DOMAIN cache_
  /\ result' = cache_[k].program
  /\ UNCHANGED <<cache_, lru_>>

\* get of a cached key: the node moves to the back, the program is returned.
GetHit(k) ==
  /\ k \in DOMAIN cache_
  /\ LET rest == Erase(lru_, cache_[k].lru_it)
     IN  \E n \in Nodes \ Live(rest) :
           /\ lru_' = PushBack(rest, k, n)
           /\ cache_' = Store(cache_, k, cache_[k].program, n)
  /\ result' = cache_[k].program

\* Mutant of GetMiss: the look-up is cache_[key], which makes an entry of a null program
\* and an iterator to anywhere.
GetMissInserts(k) ==
  /\ k \notin DOMAIN cache_
  /\ \E n \in Nodes : cache_' = Store(cache_, k, NoProgram, n)
  /\ result' = NoProgram
  /\ UNCHANGED lru_

GetMiss(k) ==
  /\ k \notin DOMAIN cache_
  /\ result' = NoProgram
  /\ UNCHANGED <<cache_, lru_>>

Get(k) == GetHit(k) \/ GetMiss(k)

Clear ==
  /\ cache_' = [k \in {} |-> NoProgram]
  /\ lru_' = <<>>
  /\ result' = NoProgram

Next ==
  \/ \E k \in Keys, p \in Programs : Put(k, p)
  \/ \E k \in Keys : Get(k)
  \/ Clear

Spec == Init /\ [][Next]_cacheVars

----------------------------------------------------------------------------
\* Every variable has the type its declaration in cache.hpp gives it.
TypeOK ==
  /\ DOMAIN cache_ \subseteq Keys
  /\ cache_ \in [DOMAIN cache_ -> Entry]
  /\ lru_ \in Seq(ListNode)
  /\ result \in Programs \cup {NoProgram}

\* The map never holds more than MAX_CACHE_SIZE programs: put evicts before
\* it inserts, and evicts the same key from the map and from the list.
SizeBounded == IsFiniteSet(DOMAIN cache_) /\ Cardinality(DOMAIN cache_) <= MAX_CACHE_SIZE

\* The iterator every entry holds is valid: it points to a live node of the
\* list that holds the entry's own key.  put and get erase through it, so a
\* stale one would unlink another key's node or touch freed memory.
IteratorsValid ==
  \A k \in DOMAIN cache_ :
    \E i \in 1..Len(lru_) : lru_[i] = [it |-> cache_[k].lru_it, key |-> k]

\* The list holds each cached key once and no other key, so the front that
\* put evicts is always a key of the map.
ListMatchesMap ==
  /\ \A i \in 1..Len(lru_) : lru_[i].key \in DOMAIN cache_
  /\ \A i, j \in 1..Len(lru_) : i # j => lru_[i].key # lru_[j].key

\* No two live nodes have the same address.
NodesDistinct == \A i, j \in 1..Len(lru_) : i # j => lru_[i].it # lru_[j].it

MapAndListAgree == IteratorsValid /\ ListMatchesMap /\ NodesDistinct

----------------------------------------------------------------------------
\* The list and the iterators, seen as an order of last use.
StoreView == [k \in DOMAIN cache_ |-> cache_[k].program]
OlderIn(c, l) ==
  {pair \in (DOMAIN c) \X (DOMAIN c) :
     \E i, j \in 1..Len(l) : i < j /\ l[i].key = pair[1] /\ l[j].key = pair[2]}
OlderView == OlderIn(cache_, lru_)

LRU == INSTANCE LeastRecentlyUsed
         WITH Capacity <- MAX_CACHE_SIZE, store <- StoreView, older <- OlderView

\* The list implementation does what a least-recently-used cache promises:
\* every put, hit, miss and clear of the code is that operation there.
ImplementsLRU == LRU!LRUSpec
=============================================================================
