------------------------ MODULE ProgramCache_proofs ------------------------
(***************************************************************************)
(* The map and the list of ProgramCache agree in every reachable state,    *)
(* for every set of keys, programs and node addresses and every            *)
(* MAX_CACHE_SIZE.  The argument: well-formedness of a (map, list) pair is *)
(* preserved by unlinking one node with its map entry, and by pushing a    *)
(* node for a key that is not cached; every operation of the class is a    *)
(* composition of the two.  Two consequences, which rest on how the two    *)
(* change the order of the list: ProgramCache implements the abstract      *)
(* least-recently-used cache, and it retains every program put under a key *)
(* until MAX_CACHE_SIZE other keys were used since the key was.            *)
(***************************************************************************)
EXTENDS ProgramCacheRetention, FiniteSetTheorems, SequenceTheorems, TLAPS

\* The inductive invariant, of any map c and list l.
WellFormed(c, l) ==
  /\ DOMAIN c \subseteq Keys
  /\ c \in [DOMAIN c -> Entry]
  /\ l \in Seq(ListNode)
  /\ IsFiniteSet(DOMAIN c)
  /\ Cardinality(DOMAIN c) = Len(l)
  /\ \A k \in DOMAIN c :
       \E i \in 1..Len(l) : l[i] = [it |-> c[k].lru_it, key |-> k]
  /\ \A i \in 1..Len(l) : l[i].key \in DOMAIN c
  /\ \A i, j \in 1..Len(l) : i # j => l[i].key # l[j].key
  /\ \A i, j \in 1..Len(l) : i # j => l[i].it # l[j].it

\* r is l without the node at position at.
Unlinked(r, l, at) ==
  /\ r \in Seq(ListNode)
  /\ Len(r) = Len(l) - 1
  /\ \A i \in 1..Len(r) : r[i] = IF i < at THEN l[i] ELSE l[i + 1]

Without(c, k) == [x \in DOMAIN c \ {k} |-> c[x]]

IInv ==
  /\ WellFormed(cache_, lru_)
  /\ Len(lru_) <= MAX_CACHE_SIZE
  /\ result \in Programs \cup {NoProgram}

----------------------------------------------------------------------------
\* Unlinking a node and erasing its key keeps the pair well-formed.
LEMMA UnlinkWellFormed ==
  ASSUME NEW c, NEW l, NEW r, NEW at \in 1..Len(l),
         WellFormed(c, l), Unlinked(r, l, at)
  PROVE  WellFormed(Without(c, l[at].key), r)
<1> DEFINE k == l[at].key
           d == Without(c, k)
<1>1. l \in Seq(ListNode) /\ r \in Seq(ListNode) /\ Len(l) \in Nat /\ Len(r) \in Nat
  BY DEF WellFormed, Unlinked
<1>2. /\ DOMAIN d = DOMAIN c \ {k}
      /\ \A x \in DOMAIN d : d[x] = c[x]
  BY DEF Without
<1>3. DOMAIN d \subseteq Keys /\ d \in [DOMAIN d -> Entry]
  BY <1>2 DEF WellFormed, Without
<1>4. IsFiniteSet(DOMAIN d) /\ Cardinality(DOMAIN d) = Len(r)
  <2>1. k \in DOMAIN c /\ IsFiniteSet(DOMAIN c)
    BY DEF WellFormed
  <2>2. /\ IsFiniteSet(DOMAIN c \ {k})
        /\ Cardinality(DOMAIN c \ {k}) = Cardinality(DOMAIN c) - 1
    BY <2>1, FS_RemoveElement
  <2> HIDE DEF d
  <2> QED
    BY <2>2, <1>1, <1>2 DEF WellFormed, Unlinked
<1>5. \A x \in DOMAIN d :
        \E i \in 1..Len(r) : r[i] = [it |-> d[x].lru_it, key |-> x]
  <2> SUFFICES ASSUME NEW x \in DOMAIN d
               PROVE  \E i \in 1..Len(r) : r[i] = [it |-> d[x].lru_it, key |-> x]
    OBVIOUS
  <2>1. PICK i \in 1..Len(l) : l[i] = [it |-> c[x].lru_it, key |-> x]
    BY <1>2 DEF WellFormed
  <2>2. i # at
    BY <2>1, <1>2
  <2>3. CASE i < at
    <3>1. i \in 1..Len(r) /\ r[i] = l[i]
      BY <2>3, <1>1 DEF Unlinked
    <3> QED BY <3>1, <2>1, <1>2
  <2>4. CASE i > at
    <3>1. i - 1 \in 1..Len(r) /\ ~(i - 1 < at) /\ i - 1 + 1 = i
      BY <2>4, <1>1 DEF Unlinked
    <3>2. r[i - 1] = l[i]
      BY <3>1, <1>1 DEF Unlinked
    <3> QED BY <3>1, <3>2, <2>1, <1>2
  <2> QED BY <2>2, <2>3, <2>4, <1>1
<1>6. \A i \in 1..Len(r) : \E m \in 1..Len(l) : /\ m # at
                                              /\ r[i] = l[m]
                                              /\ m = IF i < at THEN i ELSE i + 1
  BY <1>1 DEF Unlinked
<1>7. \A i \in 1..Len(r) : r[i].key \in DOMAIN d
  BY <1>6, <1>2 DEF WellFormed
<1>8. \A i, j \in 1..Len(r) : i # j => r[i].key # r[j].key /\ r[i].it # r[j].it
  <2> SUFFICES ASSUME NEW i \in 1..Len(r), NEW j \in 1..Len(r), i # j
               PROVE  r[i].key # r[j].key /\ r[i].it # r[j].it
    OBVIOUS
  <2>1. PICK m \in 1..Len(l) : r[i] = l[m] /\ m = IF i < at THEN i ELSE i + 1
    BY <1>6
  <2>2. PICK n \in 1..Len(l) : r[j] = l[n] /\ n = IF j < at THEN j ELSE j + 1
    BY <1>6
  <2>3. m # n
    BY <2>1, <2>2, <1>1
  <2> QED BY <2>1, <2>2, <2>3 DEF WellFormed
<1> QED BY <1>1, <1>3, <1>4, <1>5, <1>7, <1>8 DEF WellFormed

\* Pushing a node with a fresh address for a key that is not cached keeps
\* the pair well-formed.
LEMMA PushWellFormed ==
  ASSUME NEW c, NEW l, NEW k \in Keys, NEW p \in Programs, NEW n \in Nodes,
         WellFormed(c, l), k \notin DOMAIN c, n \notin Live(l)
  PROVE  WellFormed(Store(c, k, p, n), PushBack(l, k, n))
<1> DEFINE d == Store(c, k, p, n)
           r == PushBack(l, k, n)
<1>1. /\ DOMAIN d = DOMAIN c \cup {k}
      /\ d[k] = [program |-> p, lru_it |-> n]
      /\ \A x \in DOMAIN c : d[x] = c[x]
  BY DEF Store
<1>2. /\ l \in Seq(ListNode) /\ Len(l) \in Nat
      /\ [it |-> n, key |-> k] \in ListNode
  BY DEF WellFormed, ListNode
<1>3. /\ r \in Seq(ListNode)
      /\ Len(r) = Len(l) + 1
      /\ \A i \in 1..Len(l) : r[i] = l[i]
      /\ r[Len(l) + 1] = [it |-> n, key |-> k]
  BY <1>2 DEF PushBack
<1>4. DOMAIN d \subseteq Keys /\ d \in [DOMAIN d -> Entry]
  BY <1>1 DEF WellFormed, Entry, Store
<1>5. IsFiniteSet(DOMAIN d) /\ Cardinality(DOMAIN d) = Len(r)
  <2>1. IsFiniteSet(DOMAIN c) /\ k \notin DOMAIN c
    BY DEF WellFormed
  <2>2. /\ IsFiniteSet(DOMAIN c \cup {k})
        /\ Cardinality(DOMAIN c \cup {k}) = Cardinality(DOMAIN c) + 1
    BY <2>1, FS_AddElement
  <2> HIDE DEF d, r
  <2> QED
    BY <2>2, <1>1, <1>2, <1>3 DEF WellFormed
<1>6. \A x \in DOMAIN d :
        \E i \in 1..Len(r) : r[i] = [it |-> d[x].lru_it, key |-> x]
  <2> SUFFICES ASSUME NEW x \in DOMAIN d
               PROVE  \E i \in 1..Len(r) : r[i] = [it |-> d[x].lru_it, key |-> x]
    OBVIOUS
  <2>1. CASE x = k
    BY <2>1, <1>1, <1>2, <1>3
  <2>2. CASE x \in DOMAIN c
    <3>1. PICK i \in 1..Len(l) : l[i] = [it |-> c[x].lru_it, key |-> x]
      BY <2>2 DEF WellFormed
    <3>2. i \in 1..Len(r) /\ r[i] = l[i]
      BY <1>2, <1>3
    <3> QED BY <3>1, <3>2, <2>2, <1>1
  <2> QED BY <2>1, <2>2, <1>1
<1>7. \A i \in 1..Len(r) : i \in 1..Len(l) \/ i = Len(l) + 1
  BY <1>2, <1>3
<1>8. \A i \in 1..Len(r) : r[i].key \in DOMAIN d
  BY <1>1, <1>3, <1>7 DEF WellFormed
<1>9. \A i \in 1..Len(l) : l[i].key # k /\ l[i].it # n
  BY DEF WellFormed, Live
<1>10. \A i, j \in 1..Len(r) : i # j => r[i].key # r[j].key /\ r[i].it # r[j].it
  BY <1>3, <1>7, <1>9 DEF WellFormed
<1> QED BY <1>3, <1>4, <1>5, <1>6, <1>8, <1>10 DEF WellFormed

\* Erasing through the iterator of a cached key unlinks exactly the node
\* that holds the key.
LEMMA EraseUnlinks ==
  ASSUME NEW c, NEW l, WellFormed(c, l), NEW k \in DOMAIN c
  PROVE  \E at \in 1..Len(l) : l[at].key = k /\ Unlinked(Erase(l, c[k].lru_it), l, at)
<1> DEFINE at == CHOOSE i \in 1..Len(l) : l[i].it = c[k].lru_it
<1>1. PICK i \in 1..Len(l) : l[i] = [it |-> c[k].lru_it, key |-> k]
  BY DEF WellFormed
<1>2. at \in 1..Len(l) /\ l[at].it = c[k].lru_it
  BY <1>1
<1>3. at = i
  BY <1>1, <1>2 DEF WellFormed
<1>4. l \in Seq(ListNode) /\ Len(l) \in Nat
  BY DEF WellFormed
<1> DEFINE before == SubSeq(l, 1, at - 1)
           after == SubSeq(l, at + 1, Len(l))
<1>5. /\ before \in Seq(ListNode) /\ Len(before) = at - 1
      /\ \A j \in 1..(at - 1) : before[j] = l[j]
  BY <1>2, <1>4
<1>6. /\ after \in Seq(ListNode) /\ Len(after) = Len(l) - at
      /\ \A j \in 1..(Len(l) - at) : after[j] = l[at + j]
  BY <1>2, <1>4
<1>7. Erase(l, c[k].lru_it) = before \o after
  BY DEF Erase
<1> HIDE DEF before, after, at
<1>8. Unlinked(before \o after, l, at)
  <2>1. before \o after \in Seq(ListNode) /\ Len(before \o after) = Len(l) - 1
    <3>1. /\ before \o after \in Seq(ListNode)
          /\ Len(before \o after) = Len(before) + Len(after)
      BY <1>5, <1>6, ConcatProperties
    <3> QED BY <3>1, <1>5, <1>6, <1>2, <1>4
  <2>2. ASSUME NEW j \in 1..(Len(l) - 1)
        PROVE  (before \o after)[j] = IF j < at THEN l[j] ELSE l[j + 1]
    <3>1. CASE j < at
      BY <3>1, <1>2, <1>4, <1>5, <1>6
    <3>2. CASE ~(j < at)
      <4>1. j - (at - 1) \in 1..(Len(l) - at) /\ at + (j - (at - 1)) = j + 1
        BY <3>2, <1>2, <1>4
      <4>2. (before \o after)[j] = after[j - (at - 1)]
        BY <3>2, <1>2, <1>4, <1>5, <1>6
      <4> QED BY <4>1, <4>2, <3>2, <1>6
    <3> QED BY <3>1, <3>2
  <2> QED BY <2>1, <2>2 DEF Unlinked
<1> QED BY <1>1, <1>2, <1>3, <1>7, <1>8

\* Evicting the front unlinks the first node.
LEMMA TailUnlinks ==
  ASSUME NEW c, NEW l, WellFormed(c, l), Len(l) > 0
  PROVE  /\ Unlinked(Tail(l), l, 1)
         /\ Head(l) = l[1]
         /\ 1 \in 1..Len(l)
BY DEF WellFormed, Unlinked
----------------------------------------------------------------------------
\* Moving a cached key to the back, with a possibly new program: what put
\* of a cached key and get of a cached key do.
LEMMA TouchWellFormed ==
  ASSUME NEW c, NEW l, NEW k \in DOMAIN c, NEW p \in Programs, NEW n \in Nodes,
         WellFormed(c, l), n \notin Live(Erase(l, c[k].lru_it))
  PROVE  /\ WellFormed(Store(c, k, p, n), PushBack(Erase(l, c[k].lru_it), k, n))
         /\ Len(PushBack(Erase(l, c[k].lru_it), k, n)) = Len(l)
<1> DEFINE rest == Erase(l, c[k].lru_it)
<1>1. PICK at \in 1..Len(l) : l[at].key = k /\ Unlinked(rest, l, at)
  BY EraseUnlinks
<1>2. WellFormed(Without(c, k), rest)
  BY <1>1, UnlinkWellFormed
<1>3. k \in Keys /\ k \notin DOMAIN Without(c, k)
  BY DEF WellFormed, Without
<1>4. Store(Without(c, k), k, p, n) = Store(c, k, p, n)
  BY DEF Store, Without
<1>5. rest \in Seq(ListNode) /\ Len(rest) = Len(l) - 1 /\ Len(l) \in Nat
  BY <1>1 DEF Unlinked, WellFormed
<1> HIDE DEF rest
<1>6. Len(PushBack(rest, k, n)) = Len(rest) + 1
  BY <1>5 DEF PushBack
<1>7. WellFormed(Store(c, k, p, n), PushBack(rest, k, n))
  BY <1>2, <1>3, <1>4, PushWellFormed DEF rest
<1> QED BY <1>5, <1>6, <1>7 DEF rest

\* The list and the map left by the eviction of PutNew are well-formed, and
\* the list has room for one more node.
LEMMA EvictedWellFormed ==
  ASSUME IInv
  PROVE  /\ WellFormed(Evicted.map, Evicted.list)
         /\ Len(Evicted.list) < MAX_CACHE_SIZE
         /\ DOMAIN Evicted.map \subseteq DOMAIN cache_
<1> USE CacheAssumption
<1>1. Len(lru_) \in Nat /\ Cardinality(DOMAIN cache_) = Len(lru_) /\ MAX_CACHE_SIZE \in Nat
  BY DEF IInv, WellFormed
<1>2. CASE Cardinality(DOMAIN cache_) >= MAX_CACHE_SIZE
  <2>1. Evicted = [list |-> Tail(lru_), map |-> Without(cache_, Head(lru_).key)]
    BY <1>2 DEF Evicted, Without
  <2>2. /\ Unlinked(Tail(lru_), lru_, 1) /\ Head(lru_) = lru_[1] /\ 1 \in 1..Len(lru_)
    BY <1>1, <1>2, TailUnlinks DEF IInv
  <2>3. WellFormed(Without(cache_, lru_[1].key), Tail(lru_))
    BY <2>2, UnlinkWellFormed DEF IInv
  <2>4. Len(Tail(lru_)) = Len(lru_) - 1 /\ Len(lru_) <= MAX_CACHE_SIZE
    BY <2>2 DEF Unlinked, IInv
  <2> QED BY <2>1, <2>2, <2>3, <2>4, <1>1 DEF Without
<1>3. CASE ~(Cardinality(DOMAIN cache_) >= MAX_CACHE_SIZE)
  BY <1>1, <1>3 DEF Evicted, IInv
<1> QED BY <1>2, <1>3

LEMMA InitIInv == Init => IInv
<1> SUFFICES ASSUME Init PROVE IInv
  OBVIOUS
<1>1. DOMAIN cache_ = {} /\ lru_ = <<>> /\ Len(lru_) = 0
  BY DEF Init
<1>2. IsFiniteSet({}) /\ Cardinality({}) = 0
  BY FS_EmptySet
<1>3. cache_ \in [DOMAIN cache_ -> Entry]
  BY DEF Init
<1>4. lru_ \in Seq(ListNode)
  BY <1>1
<1> QED BY <1>1, <1>2, <1>3, <1>4, CacheAssumption DEF Init, IInv, WellFormed

LEMMA NextIInv == IInv /\ [Next]_cacheVars => IInv'
<1> SUFFICES ASSUME IInv, [Next]_cacheVars PROVE IInv'
  OBVIOUS
<1> USE CacheAssumption
<1>0. WellFormed(cache_, lru_) /\ Len(lru_) <= MAX_CACHE_SIZE /\ Len(lru_) \in Nat
  BY DEF IInv, WellFormed
<1>1. ASSUME NEW k \in Keys, NEW p \in Programs, PutExisting(k, p)
      PROVE  IInv'
  <2>1. PICK n \in Nodes \ Live(Erase(lru_, cache_[k].lru_it)) :
          /\ lru_' = PushBack(Erase(lru_, cache_[k].lru_it), k, n)
          /\ cache_' = Store(cache_, k, p, n)
    BY <1>1 DEF PutExisting
  <2>2. WellFormed(cache_', lru_') /\ Len(lru_') = Len(lru_)
    BY <2>1, <1>0, <1>1, TouchWellFormed DEF PutExisting
  <2> QED BY <2>2, <1>0, <1>1 DEF IInv, PutExisting, WellFormed
<1>2. ASSUME NEW k \in Keys, NEW p \in Programs, PutNew(k, p)
      PROVE  IInv'
  <2>1. PICK n \in Nodes \ Live(Evicted.list) :
          /\ lru_' = PushBack(Evicted.list, k, n)
          /\ cache_' = Store(Evicted.map, k, p, n)
    BY <1>2 DEF PutNew
  <2>2. /\ WellFormed(Evicted.map, Evicted.list)
        /\ Len(Evicted.list) < MAX_CACHE_SIZE
        /\ k \notin DOMAIN Evicted.map
    BY EvictedWellFormed, <1>2 DEF PutNew
  <2>3. WellFormed(cache_', lru_')
    BY <2>1, <2>2, PushWellFormed
  <2>4. Len(lru_') = Len(Evicted.list) + 1 /\ Len(Evicted.list) \in Nat
    <3>1. Evicted.list \in Seq(ListNode)
      BY <2>2 DEF WellFormed
    <3> QED BY <3>1, <2>1 DEF PushBack
  <2> QED BY <2>2, <2>3, <2>4, <1>2 DEF IInv, PutNew, WellFormed
<1>3. ASSUME NEW k \in Keys, GetHit(k)
      PROVE  IInv'
  <2>1. PICK n \in Nodes \ Live(Erase(lru_, cache_[k].lru_it)) :
          /\ lru_' = PushBack(Erase(lru_, cache_[k].lru_it), k, n)
          /\ cache_' = Store(cache_, k, cache_[k].program, n)
    BY <1>3 DEF GetHit
  <2>2. k \in DOMAIN cache_ /\ cache_[k].program \in Programs
    BY <1>0, <1>3 DEF GetHit, WellFormed, Entry
  <2>3. WellFormed(cache_', lru_') /\ Len(lru_') = Len(lru_)
    BY <2>1, <2>2, <1>0, TouchWellFormed
  <2> QED BY <2>2, <2>3, <1>0, <1>3 DEF IInv, GetHit, WellFormed
<1>4. ASSUME NEW k \in Keys, GetMiss(k)
      PROVE  IInv'
  BY <1>4, <1>0 DEF IInv, GetMiss
<1>5. CASE Clear
  <2>1. Init'
    BY <1>5 DEF Clear, Init
  <2>2. DOMAIN cache_' = {} /\ lru_' = <<>> /\ Len(lru_') = 0
    BY <2>1 DEF Init
  <2>3. IsFiniteSet({}) /\ Cardinality({}) = 0
    BY FS_EmptySet
  <2>4. cache_' \in [DOMAIN cache_' -> Entry] /\ lru_' \in Seq(ListNode)
    BY <2>1, <2>2 DEF Init
  <2> QED BY <2>1, <2>2, <2>3, <2>4 DEF Init, IInv, WellFormed
<1>6. CASE UNCHANGED cacheVars
  BY <1>6 DEF cacheVars, IInv, WellFormed
<1> QED BY <1>1, <1>2, <1>3, <1>4, <1>5, <1>6 DEF Next, Put, Get

LEMMA IInvImplies == IInv => TypeOK /\ SizeBounded /\ MapAndListAgree
BY CacheAssumption DEF IInv, WellFormed, TypeOK, SizeBounded, MapAndListAgree,
   IteratorsValid, ListMatchesMap, NodesDistinct

LEMMA IInvAlways == Spec => []IInv
BY InitIInv, NextIInv, PTL DEF Spec

----------------------------------------------------------------------------
\* Every variable of ProgramCache keeps its declared type.
THEOREM TypeCorrect == Spec => []TypeOK
BY IInvAlways, IInvImplies, PTL

\* The size check in put bounds the map, whatever sequence of put, get and
\* clear calls is made.
THEOREM SizeIsBounded == Spec => []SizeBounded
BY IInvAlways, IInvImplies, PTL

\* put and get never erase through a stale iterator, and put never evicts a
\* key from the list that the map does not hold.
THEOREM MapAndListAlwaysAgree == Spec => []MapAndListAgree
BY IInvAlways, IInvImplies, PTL

----------------------------------------------------------------------------
(* The order of the list *)

\* Key a comes before key b in list l.
Before(l, a, b) ==
  \E i, j \in 1..Len(l) : i < j /\ l[i].key = a /\ l[j].key = b

----------------------------------------------------------------------------
\* Every cached key is the key of some node.
LEMMA KeyIsListed ==
  ASSUME NEW c, NEW l, WellFormed(c, l), NEW k \in DOMAIN c
  PROVE  \E i \in 1..Len(l) : l[i].key = k
<1>1. PICK i \in 1..Len(l) : l[i] = [it |-> c[k].lru_it, key |-> k]
  BY DEF WellFormed
<1>2. l[i].key = k
  BY <1>1
<1> QED BY <1>2

\* Unlinking a node forgets the pairs its key is in, and no other.
LEMMA UnlinkOrder ==
  ASSUME NEW c, NEW l, NEW r, NEW at \in 1..Len(l),
         WellFormed(c, l), Unlinked(r, l, at), NEW a, NEW b
  PROVE  Before(r, a, b) <=> Before(l, a, b) /\ a # l[at].key /\ b # l[at].key
<1>1. l \in Seq(ListNode) /\ r \in Seq(ListNode) /\ Len(l) \in Nat /\ Len(r) \in Nat
      /\ Len(r) = Len(l) - 1
  BY DEF WellFormed, Unlinked
<1>2. ASSUME Before(r, a, b)
      PROVE  Before(l, a, b) /\ a # l[at].key /\ b # l[at].key
  <2>1. PICK i, j \in 1..Len(r) : i < j /\ r[i].key = a /\ r[j].key = b
    BY <1>2 DEF Before
  <2> DEFINE m == IF i < at THEN i ELSE i + 1
             n == IF j < at THEN j ELSE j + 1
  <2>2. m \in 1..Len(l) /\ n \in 1..Len(l) /\ m < n /\ m # at /\ n # at
    BY <1>1, <2>1
  <2>3. r[i] = l[m] /\ r[j] = l[n]
    BY DEF Unlinked
  <2> HIDE DEF m, n
  <2> QED BY <2>1, <2>2, <2>3 DEF Before, WellFormed
<1>3. ASSUME Before(l, a, b), a # l[at].key, b # l[at].key
      PROVE  Before(r, a, b)
  <2>1. PICK m, n \in 1..Len(l) : m < n /\ l[m].key = a /\ l[n].key = b
    BY <1>3 DEF Before
  <2>2. m # at /\ n # at
    BY <1>3, <2>1
  <2> DEFINE i == IF m < at THEN m ELSE m - 1
             j == IF n < at THEN n ELSE n - 1
  <2>3. i \in 1..Len(r) /\ j \in 1..Len(r) /\ i < j
    BY <1>1, <2>1, <2>2
  <2>4. (i < at => i = m) /\ (~(i < at) => i + 1 = m) /\ (j < at => j = n) /\ (~(j < at) => j + 1 = n)
    BY <1>1, <2>1, <2>2
  <2> HIDE DEF i, j
  <2>5. r[i] = l[m] /\ r[j] = l[n]
    BY <2>3, <2>4 DEF Unlinked
  <2> QED BY <2>1, <2>3, <2>5 DEF Before
<1> QED BY <1>2, <1>3

\* Pushing a node makes its key the last, after every key of the list.
LEMMA PushOrder ==
  ASSUME NEW c, NEW l, WellFormed(c, l), NEW k \in Keys \ DOMAIN c, NEW n \in Nodes,
         NEW a, NEW b
  PROVE  Before(PushBack(l, k, n), a, b) <=>
           Before(l, a, b) \/ (a \in DOMAIN c /\ b = k)
<1> DEFINE r == PushBack(l, k, n)
<1>1. l \in Seq(ListNode) /\ Len(l) \in Nat /\ [it |-> n, key |-> k] \in ListNode
  BY DEF WellFormed, ListNode
<1>2. /\ Len(r) = Len(l) + 1
      /\ \A i \in 1..Len(l) : r[i] = l[i]
      /\ r[Len(l) + 1] = [it |-> n, key |-> k]
  BY <1>1 DEF PushBack
<1> HIDE DEF r
<1>3. ASSUME Before(r, a, b)
      PROVE  Before(l, a, b) \/ (a \in DOMAIN c /\ b = k)
  <2>1. PICK i, j \in 1..Len(r) : i < j /\ r[i].key = a /\ r[j].key = b
    BY <1>3 DEF Before
  <2>2. i \in 1..Len(l) /\ r[i] = l[i] /\ l[i].key \in DOMAIN c
    BY <1>1, <1>2, <2>1 DEF WellFormed
  <2>3. CASE j \in 1..Len(l)
    BY <1>2, <2>1, <2>2, <2>3 DEF Before
  <2>4. CASE j = Len(l) + 1
    BY <1>2, <2>1, <2>2, <2>4
  <2> QED BY <1>1, <1>2, <2>3, <2>4
<1>4. ASSUME Before(l, a, b) PROVE Before(r, a, b)
  <2>1. PICK i, j \in 1..Len(l) : i < j /\ l[i].key = a /\ l[j].key = b
    BY <1>4 DEF Before
  <2>2. i \in 1..Len(r) /\ j \in 1..Len(r) /\ r[i] = l[i] /\ r[j] = l[j]
    BY <1>1, <1>2
  <2> QED BY <2>1, <2>2 DEF Before
<1>5. ASSUME a \in DOMAIN c, b = k PROVE Before(r, a, b)
  <2>1. PICK i \in 1..Len(l) : l[i].key = a
    BY <1>5, KeyIsListed
  <2>2. /\ i \in 1..Len(r) /\ Len(l) + 1 \in 1..Len(r) /\ i < Len(l) + 1
        /\ r[i] = l[i] /\ r[Len(l) + 1].key = k
    BY <1>1, <1>2
  <2> QED BY <1>5, <2>1, <2>2 DEF Before
<1> QED BY <1>3, <1>4, <1>5 DEF r

\* Touching k makes it the last, and keeps the order of the other keys.
LEMMA TouchOrder ==
  ASSUME NEW c, NEW l, WellFormed(c, l), NEW k \in DOMAIN c, NEW n \in Nodes,
         NEW a, NEW b
  PROVE  Before(PushBack(Erase(l, c[k].lru_it), k, n), a, b) <=>
           \/ Before(l, a, b) /\ a # k /\ b # k
           \/ a \in DOMAIN c \ {k} /\ b = k
<1> DEFINE rest == Erase(l, c[k].lru_it)
<1>1. PICK at \in 1..Len(l) : l[at].key = k /\ Unlinked(rest, l, at)
  BY EraseUnlinks
<1>2. WellFormed(Without(c, k), rest)
  BY <1>1, UnlinkWellFormed
<1>3. k \in Keys \ DOMAIN Without(c, k) /\ DOMAIN Without(c, k) = DOMAIN c \ {k}
  BY DEF WellFormed, Without
<1>4. Before(rest, a, b) <=> Before(l, a, b) /\ a # k /\ b # k
  BY <1>1, UnlinkOrder
<1> HIDE DEF rest
<1>5. Before(PushBack(rest, k, n), a, b) <=>
        Before(rest, a, b) \/ (a \in DOMAIN c \ {k} /\ b = k)
  <2>1. Before(PushBack(rest, k, n), a, b) <=>
          Before(rest, a, b) \/ (a \in DOMAIN Without(c, k) /\ b = k)
    BY <1>2, <1>3, PushOrder
  <2> QED BY <2>1, <1>3
<1> QED BY <1>4, <1>5 DEF rest

\* The eviction removes the front key, which precedes every other key, and
\* keeps the order of the others.
LEMMA EvictedOrder ==
  ASSUME IInv, Cardinality(DOMAIN cache_) >= MAX_CACHE_SIZE
  PROVE  LET victim == Head(lru_).key
         IN  /\ victim \in DOMAIN cache_
             /\ Evicted.map = Without(cache_, victim)
             /\ \A k \in DOMAIN cache_ \ {victim} : Before(lru_, victim, k)
             /\ \A a, b : Before(Evicted.list, a, b) <=>
                            Before(lru_, a, b) /\ a # victim /\ b # victim
<1> USE CacheAssumption
<1> DEFINE victim == Head(lru_).key
<1>1. WellFormed(cache_, lru_) /\ Len(lru_) \in Nat /\ Len(lru_) > 0
  BY DEF IInv, WellFormed
<1>2. Evicted.list = Tail(lru_) /\ Evicted.map = Without(cache_, victim)
  BY DEF Evicted, Without
<1>3. Unlinked(Tail(lru_), lru_, 1) /\ victim = lru_[1].key /\ 1 \in 1..Len(lru_)
  BY <1>1, TailUnlinks
<1>4. victim \in DOMAIN cache_
  BY <1>1, <1>3 DEF WellFormed
<1>5. \A k \in DOMAIN cache_ \ {victim} : Before(lru_, victim, k)
  <2> SUFFICES ASSUME NEW k \in DOMAIN cache_ \ {victim} PROVE Before(lru_, victim, k)
    OBVIOUS
  <2>1. PICK j \in 1..Len(lru_) : lru_[j].key = k
    BY <1>1, KeyIsListed
  <2>2. j # 1 /\ 1 < j
    BY <2>1, <1>3, <1>1
  <2> QED BY <2>1, <2>2, <1>3 DEF Before
<1>6. \A a, b : Before(Evicted.list, a, b) <=>
                  Before(lru_, a, b) /\ a # victim /\ b # victim
  BY <1>1, <1>2, <1>3, UnlinkOrder
<1> QED BY <1>2, <1>4, <1>5, <1>6
----------------------------------------------------------------------------
(***************************************************************************)
(* Retention.  For a key that was put and not cleared: while it is cached, *)
(* the keys after it in the list are among those used since; once it is    *)
(* not, at least MAX_CACHE_SIZE keys were.                                 *)
(***************************************************************************)
Retained(k) ==
  /\ k \in DOMAIN cache_ =>
       /\ cache_[k].program = lastPut[k]
       /\ \A b \in Keys : Before(lru_, k, b) => b \in since[k]
  /\ k \notin DOMAIN cache_ => Cardinality(since[k]) >= MAX_CACHE_SIZE

HInv ==
  /\ IInv
  /\ lastPut \in [Keys -> Programs \cup {NoProgram}]
  /\ since \in [Keys -> SUBSET Keys]
  /\ \A k \in Keys : IsFiniteSet(since[k])
  /\ \A k \in Keys : lastPut[k] # NoProgram => Retained(k)

\* Using one more key never shrinks a finite set of used keys.
LEMMA NoteUseGrows ==
  ASSUME HInv, NEW k \in Keys, NoteUse(k), NEW x \in Keys
  PROVE  /\ since'[x] = IF x = k THEN {} ELSE since[x] \cup {k}
         /\ since' \in [Keys -> SUBSET Keys]
         /\ IsFiniteSet(since'[x])
         /\ x # k => Cardinality(since'[x]) >= Cardinality(since[x])
         /\ x # k => Cardinality(since[x]) \in Nat
<1>1. since'[x] = (IF x = k THEN {} ELSE since[x] \cup {k}) /\ IsFiniteSet(since[x])
  BY DEF NoteUse, HInv
<1>2. since' \in [Keys -> SUBSET Keys]
  BY DEF NoteUse, HInv
<1>3. IsFiniteSet({}) /\ IsFiniteSet(since[x] \cup {k})
  BY <1>1, FS_EmptySet, FS_AddElement
<1>4. Cardinality(since[x]) \in Nat
  BY <1>1, FS_CardinalityType
<1>5. Cardinality(since[x] \cup {k}) >= Cardinality(since[x])
  BY <1>1, <1>4, FS_AddElement
<1> QED BY <1>1, <1>2, <1>3, <1>4, <1>5

\* A touch of k, with program p, preserves the history invariant.
LEMMA TouchRetains ==
  ASSUME HInv, NEW k \in DOMAIN cache_, NEW n \in Nodes, NEW p \in Programs, IInv',
         lru_' = PushBack(Erase(lru_, cache_[k].lru_it), k, n),
         cache_' = Store(cache_, k, p, n),
         NoteUse(k),
         lastPut' \in [Keys -> Programs \cup {NoProgram}],
         \A x \in Keys : x # k => lastPut'[x] = lastPut[x],
         lastPut'[k] # NoProgram => lastPut'[k] = p
  PROVE  HInv'
<1>1. WellFormed(cache_, lru_) /\ k \in Keys
  BY DEF HInv, IInv, WellFormed
<1>2. DOMAIN cache_' = DOMAIN cache_ /\ cache_'[k].program = p
      /\ \A x \in DOMAIN cache_ : x # k => cache_'[x] = cache_[x]
  BY DEF Store
<1>3. \A a, b : Before(lru_', a, b) <=>
           \/ Before(lru_, a, b) /\ a # k /\ b # k
           \/ a \in DOMAIN cache_ \ {k} /\ b = k
  BY <1>1, TouchOrder
<1>4. ASSUME NEW x \in Keys, lastPut'[x] # NoProgram
      PROVE  Retained(x)'
  <2>1. CASE x = k
    BY <2>1, <1>2, <1>3, <1>4 DEF Retained
  <2>2. CASE x # k
    <3>1. Retained(x)
      BY <2>2, <1>4 DEF HInv
    <3>2. /\ since'[x] = since[x] \cup {k}
          /\ Cardinality(since'[x]) >= Cardinality(since[x])
          /\ Cardinality(since[x]) \in Nat
      BY <2>2, <1>1, NoteUseGrows
    <3>3. Cardinality(since'[x]) \in Nat
      BY <1>1, NoteUseGrows, FS_CardinalityType
    <3>4. ASSUME x \in DOMAIN cache_' PROVE cache_'[x].program = lastPut'[x]
      BY <2>2, <3>1, <3>4, <1>2 DEF Retained
    <3>5. ASSUME x \in DOMAIN cache_', NEW b \in Keys, Before(lru_', x, b)
          PROVE  b \in since'[x]
      BY <2>2, <3>1, <3>2, <3>5, <1>2, <1>3 DEF Retained
    <3>6. ASSUME x \notin DOMAIN cache_' PROVE Cardinality(since'[x]) >= MAX_CACHE_SIZE
      BY <3>1, <3>2, <3>3, <3>6, <1>2, CacheAssumption DEF Retained
    <3> QED BY <3>4, <3>5, <3>6 DEF Retained
  <2> QED BY <2>1, <2>2
<1>5. since' \in [Keys -> SUBSET Keys] /\ \A x \in Keys : IsFiniteSet(since'[x])
  BY <1>1, NoteUseGrows
<1> QED BY <1>4, <1>5 DEF HInv

\* When the front key is evicted for a new key, MAX_CACHE_SIZE other keys
\* have been used since it was: the rest of the list, and the new key.
LEMMA VictimWasUnused ==
  ASSUME HInv, NEW k \in Keys \ DOMAIN cache_, NoteUse(k),
         NEW victim \in DOMAIN cache_, lastPut[victim] # NoProgram,
         Cardinality(DOMAIN cache_) >= MAX_CACHE_SIZE,
         \A x \in DOMAIN cache_ \ {victim} : Before(lru_, victim, x)
  PROVE  Cardinality(since'[victim]) >= MAX_CACHE_SIZE
<1> DEFINE others == DOMAIN cache_ \ {victim}
<1>1. WellFormed(cache_, lru_) /\ victim \in Keys /\ victim # k
  BY DEF HInv, IInv, WellFormed
<1>2. since'[victim] = since[victim] \cup {k} /\ IsFiniteSet(since'[victim])
  BY <1>1, NoteUseGrows
<1>3. others \subseteq since[victim]
  BY <1>1 DEF HInv, Retained, WellFormed
<1>4. IsFiniteSet(others) /\ Cardinality(others) = Cardinality(DOMAIN cache_) - 1
  BY <1>1, FS_RemoveElement DEF WellFormed
<1>5. IsFiniteSet(others \cup {k}) /\ Cardinality(others \cup {k}) = Cardinality(others) + 1
  BY <1>4, FS_AddElement
<1>6. Cardinality(others \cup {k}) <= Cardinality(since'[victim])
  BY <1>2, <1>3, FS_Subset
<1>7. /\ Cardinality(DOMAIN cache_) \in Nat
      /\ Cardinality(since'[victim]) \in Nat
  BY <1>1, <1>2, FS_CardinalityType DEF WellFormed
<1> QED BY <1>4, <1>5, <1>6, <1>7, CacheAssumption

LEMMA HNextHInv == HInv /\ [HNext]_historyVars => HInv'
<1> SUFFICES ASSUME HInv, [HNext]_historyVars PROVE HInv'
  OBVIOUS
<1> USE CacheAssumption
<1>0. WellFormed(cache_, lru_) /\ DOMAIN cache_ \subseteq Keys
  BY DEF HInv, IInv, WellFormed
<1>a. IInv'
  BY NextIInv DEF HInv, HNext, HPut, HGetHit, HGetMiss, HClear, Next, Get,
     historyVars, cacheVars
<1>1. ASSUME NEW k \in Keys, NEW p \in Programs, HPut(k, p), PutExisting(k, p)
      PROVE  HInv'
  <2>1. PICK n \in Nodes :
          /\ lru_' = PushBack(Erase(lru_, cache_[k].lru_it), k, n)
          /\ cache_' = Store(cache_, k, p, n)
    BY <1>1 DEF PutExisting
  <2>2. k \in DOMAIN cache_ /\ NoteUse(k)
    BY <1>1 DEF PutExisting, HPut
  <2>3. /\ lastPut' \in [Keys -> Programs \cup {NoProgram}]
        /\ \A x \in Keys : x # k => lastPut'[x] = lastPut[x]
        /\ lastPut'[k] = p
    BY <1>1 DEF HPut, HInv
  <2> QED BY <2>1, <2>2, <2>3, <1>a, TouchRetains
<1>2. ASSUME NEW k \in Keys, NEW p \in Programs, HPut(k, p), PutNew(k, p)
      PROVE  HInv'
  <2>1. PICK n \in Nodes \ Live(Evicted.list) :
          /\ lru_' = PushBack(Evicted.list, k, n)
          /\ cache_' = Store(Evicted.map, k, p, n)
    BY <1>2 DEF PutNew
  <2>2. k \in Keys \ DOMAIN cache_ /\ NoteUse(k)
    BY <1>2 DEF PutNew, HPut
  <2>3. /\ lastPut' \in [Keys -> Programs \cup {NoProgram}]
        /\ \A x \in Keys : x # k => lastPut'[x] = lastPut[x]
        /\ lastPut'[k] = p
    BY <1>2 DEF HPut, HInv
  <2>4. /\ WellFormed(Evicted.map, Evicted.list)
        /\ DOMAIN Evicted.map \subseteq DOMAIN cache_
    BY EvictedWellFormed DEF HInv
  <2>5. \A x \in DOMAIN Evicted.map : Evicted.map[x] = cache_[x]
    BY DEF Evicted
  <2>6. \A a, b : Before(Evicted.list, a, b) => Before(lru_, a, b)
    <3>1. CASE Cardinality(DOMAIN cache_) >= MAX_CACHE_SIZE
      BY <3>1, EvictedOrder DEF HInv
    <3>2. CASE ~(Cardinality(DOMAIN cache_) >= MAX_CACHE_SIZE)
      BY <3>2 DEF Evicted
    <3> QED BY <3>1, <3>2
  <2>7. \A a, b : Before(lru_', a, b) <=>
           Before(Evicted.list, a, b) \/ (a \in DOMAIN Evicted.map /\ b = k)
    BY <2>1, <2>2, <2>4, PushOrder
  <2>8. /\ DOMAIN cache_' = DOMAIN Evicted.map \cup {k}
        /\ cache_'[k].program = p
        /\ \A x \in DOMAIN Evicted.map : x # k => cache_'[x] = Evicted.map[x]
    BY <2>1 DEF Store
  <2>9. \A x \in DOMAIN cache_ \ DOMAIN Evicted.map :
          lastPut[x] # NoProgram => Cardinality(since'[x]) >= MAX_CACHE_SIZE
    <3>1. CASE Cardinality(DOMAIN cache_) >= MAX_CACHE_SIZE
      <4> DEFINE victim == Head(lru_).key
      <4>1. /\ victim \in DOMAIN cache_
            /\ DOMAIN Evicted.map = DOMAIN cache_ \ {victim}
            /\ \A x \in DOMAIN cache_ \ {victim} : Before(lru_, victim, x)
        BY <3>1, EvictedOrder DEF HInv, Without
      <4> HIDE DEF victim
      <4>2. lastPut[victim] # NoProgram => Cardinality(since'[victim]) >= MAX_CACHE_SIZE
        BY <4>1, <3>1, <2>2, VictimWasUnused
      <4> QED BY <4>1, <4>2
    <3>2. CASE ~(Cardinality(DOMAIN cache_) >= MAX_CACHE_SIZE)
      BY <3>2 DEF Evicted
    <3> QED BY <3>1, <3>2
  <2>10. ASSUME NEW x \in Keys, lastPut'[x] # NoProgram
         PROVE  Retained(x)'
    <3>1. CASE x = k
      <4>1. x \in DOMAIN cache_' /\ cache_'[x].program = lastPut'[x]
        BY <3>1, <2>3, <2>8
      <4>2. \A b \in Keys : ~ Before(lru_', x, b)
        <5>1. \A b : ~ Before(Evicted.list, k, b)
          <6> SUFFICES ASSUME NEW b, Before(Evicted.list, k, b) PROVE FALSE
            OBVIOUS
          <6>1. PICK i \in 1..Len(Evicted.list) : Evicted.list[i].key = k
            BY DEF Before
          <6> QED BY <6>1, <2>4, <2>2 DEF WellFormed
        <5> QED BY <5>1, <3>1, <2>7, <2>4, <2>2
      <4> QED BY <4>1, <4>2 DEF Retained
    <3>2. CASE x # k
      <4>1. Retained(x) /\ lastPut[x] # NoProgram /\ lastPut'[x] = lastPut[x]
        BY <3>2, <2>3, <2>10 DEF HInv
      <4>2. /\ since'[x] = since[x] \cup {k}
            /\ Cardinality(since'[x]) >= Cardinality(since[x])
            /\ Cardinality(since[x]) \in Nat
            /\ IsFiniteSet(since'[x])
        BY <3>2, <2>2, NoteUseGrows
      <4>3. Cardinality(since'[x]) \in Nat
        BY <4>2, FS_CardinalityType
      <4>4. ASSUME x \in DOMAIN cache_' PROVE cache_'[x].program = lastPut'[x]
        BY <4>4, <3>2, <4>1, <2>4, <2>5, <2>8 DEF Retained
      <4>5. ASSUME x \in DOMAIN cache_', NEW b \in Keys, Before(lru_', x, b)
            PROVE  b \in since'[x]
        BY <4>5, <3>2, <4>1, <4>2, <2>4, <2>6, <2>7, <2>8 DEF Retained
      <4>6. ASSUME x \notin DOMAIN cache_' PROVE Cardinality(since'[x]) >= MAX_CACHE_SIZE
        <5>1. CASE x \in DOMAIN cache_
          BY <5>1, <4>6, <4>1, <2>8, <2>9
        <5>2. CASE x \notin DOMAIN cache_
          BY <5>2, <4>1, <4>2, <4>3 DEF Retained
        <5> QED BY <5>1, <5>2
      <4> QED BY <4>4, <4>5, <4>6 DEF Retained
    <3> QED BY <3>1, <3>2
  <2>11. since' \in [Keys -> SUBSET Keys] /\ \A x \in Keys : IsFiniteSet(since'[x])
    BY <2>2, NoteUseGrows
  <2> QED BY <2>3, <2>10, <2>11, <1>a DEF HInv
<1>3. ASSUME NEW k \in Keys, HGetHit(k)
      PROVE  HInv'
  <2>1. PICK n \in Nodes :
          /\ lru_' = PushBack(Erase(lru_, cache_[k].lru_it), k, n)
          /\ cache_' = Store(cache_, k, cache_[k].program, n)
    BY <1>3 DEF HGetHit, GetHit
  <2>2. k \in DOMAIN cache_ /\ NoteUse(k) /\ lastPut' = lastPut
    BY <1>3 DEF HGetHit, GetHit
  <2>3. cache_[k].program \in Programs
    BY <2>2, <1>0 DEF WellFormed, Entry
  <2>4. lastPut[k] # NoProgram => lastPut[k] = cache_[k].program
    BY <2>2, <1>3 DEF HInv, Retained
  <2> QED BY <2>1, <2>2, <2>3, <2>4, <1>a, TouchRetains DEF HInv
<1>4. ASSUME NEW k \in Keys, HGetMiss(k)
      PROVE  HInv'
  BY <1>4, <1>a DEF HGetMiss, GetMiss, HInv, Retained
<1>5. CASE HClear
  BY <1>5, <1>a, FS_EmptySet DEF HClear, HInv
<1>6. CASE UNCHANGED historyVars
  BY <1>6, <1>a DEF historyVars, HInv, Retained
<1> QED BY <1>1, <1>2, <1>3, <1>4, <1>5, <1>6 DEF HNext, HPut, Put

\* A program put under a key and not cleared stays cached, unchanged, until
\* MAX_CACHE_SIZE other keys have been used after the key.
THEOREM RecentProgramsAreRetained == HSpec => []RecentlyUsedIsRetained
<1>1. HInit => HInv
  BY InitIInv, FS_EmptySet, CacheAssumption DEF HInit, HInv
<1>2. HInv => RecentlyUsedIsRetained
  <2> SUFFICES ASSUME HInv, NEW k \in Keys, lastPut[k] # NoProgram,
                      Cardinality(since[k]) < MAX_CACHE_SIZE
               PROVE  k \in DOMAIN cache_ /\ cache_[k].program = lastPut[k]
    BY DEF RecentlyUsedIsRetained
  <2>1. Retained(k) /\ Cardinality(since[k]) \in Nat
    BY FS_CardinalityType DEF HInv
  <2> QED BY <2>1, CacheAssumption DEF Retained
<1> QED BY <1>1, <1>2, HNextHInv, PTL DEF HSpec
----------------------------------------------------------------------------
(***************************************************************************)
(* Refinement.  The order of the list is the abstract order of last use.   *)
(***************************************************************************)
\* The abstract order relates the cached keys as the list does.
LEMMA OlderIsBefore ==
  ASSUME NEW c, NEW l
  PROVE  /\ \A a, b : <<a, b>> \in OlderIn(c, l) <=>
                        a \in DOMAIN c /\ b \in DOMAIN c /\ Before(l, a, b)
         /\ \A pair \in OlderIn(c, l) : pair = <<pair[1], pair[2]>>
<1>1. ASSUME NEW a, NEW b, <<a, b>> \in OlderIn(c, l)
      PROVE  a \in DOMAIN c /\ b \in DOMAIN c /\ Before(l, a, b)
  BY <1>1 DEF OlderIn, Before
<1>2. ASSUME NEW a, NEW b, a \in DOMAIN c, b \in DOMAIN c, Before(l, a, b)
      PROVE  <<a, b>> \in OlderIn(c, l)
  <2>1. <<a, b>> \in (DOMAIN c) \X (DOMAIN c)
    BY <1>2
  <2>2. PICK i, j \in 1..Len(l) : i < j /\ l[i].key = a /\ l[j].key = b
    BY <1>2 DEF Before
  <2> QED BY <2>1, <2>2 DEF OlderIn
<1>3. \A pair \in OlderIn(c, l) : pair = <<pair[1], pair[2]>>
  BY DEF OlderIn
<1> QED BY <1>1, <1>2, <1>3

\* In a well-formed pair the keys the list orders are cached.
LEMMA BeforeIsCached ==
  ASSUME NEW c, NEW l, WellFormed(c, l), NEW a, NEW b, Before(l, a, b)
  PROVE  a \in DOMAIN c /\ b \in DOMAIN c
BY DEF Before, WellFormed

\* A touch makes the key the last used in the abstract order.
LEMMA TouchRefines ==
  ASSUME IInv, IInv', NEW k \in DOMAIN cache_, NEW n \in Nodes, NEW p \in Programs,
         lru_' = PushBack(Erase(lru_, cache_[k].lru_it), k, n),
         cache_' = Store(cache_, k, p, n)
  PROVE  /\ OlderView' = LRU!UsedLast(OlderView, DOMAIN StoreView, k)
         /\ StoreView' = LRU!With(StoreView, k, p)
         /\ p = cache_[k].program => StoreView' = StoreView
<1>1. /\ DOMAIN cache_' = DOMAIN cache_
      /\ cache_'[k].program = p
      /\ \A x \in DOMAIN cache_ : x # k => cache_'[x] = cache_[x]
      /\ DOMAIN StoreView = DOMAIN cache_
  BY DEF Store, StoreView
<1>2. \A a, b : <<a, b>> \in OlderView <=>
                  a \in DOMAIN cache_ /\ b \in DOMAIN cache_ /\ Before(lru_, a, b)
  BY OlderIsBefore DEF OlderView
<1>3. \A a, b : <<a, b>> \in OlderView' <=>
                  a \in DOMAIN cache_' /\ b \in DOMAIN cache_' /\ Before(lru_', a, b)
  BY OlderIsBefore DEF OlderView
<1>4. \A a, b : Before(lru_', a, b) <=>
           \/ Before(lru_, a, b) /\ a # k /\ b # k
           \/ a \in DOMAIN cache_ \ {k} /\ b = k
  BY TouchOrder DEF IInv
<1>5. \A a, b : <<a, b>> \in OlderView' <=>
                  <<a, b>> \in LRU!UsedLast(OlderView, DOMAIN StoreView, k)
  BY <1>1, <1>2, <1>3, <1>4 DEF LRU!UsedLast
<1>6. OlderView' = LRU!UsedLast(OlderView, DOMAIN StoreView, k)
  <2>1. \A pair \in OlderView' : pair = <<pair[1], pair[2]>>
    BY OlderIsBefore DEF OlderView
  <2>2. \A pair \in LRU!UsedLast(OlderView, DOMAIN StoreView, k) :
          pair = <<pair[1], pair[2]>>
    BY OlderIsBefore DEF LRU!UsedLast, OlderView
  <2> QED BY <2>1, <2>2, <1>5
<1>7. StoreView' = LRU!With(StoreView, k, p)
  BY <1>1 DEF StoreView, LRU!With
<1>8. p = cache_[k].program => StoreView' = StoreView
  BY <1>1 DEF StoreView
<1> QED BY <1>6, <1>7, <1>8

LEMMA PutNewRefines ==
  ASSUME IInv, IInv', NEW k \in Keys, NEW p \in Programs, PutNew(k, p)
  PROVE  LRU!LRUInsert(k, p) \/ LRU!LRUReplace(k, p)
<1> USE CacheAssumption
<1> DEFINE full == Cardinality(DOMAIN cache_) >= MAX_CACHE_SIZE
           victim == Head(lru_).key
<1>1. PICK n \in Nodes \ Live(Evicted.list) :
        /\ lru_' = PushBack(Evicted.list, k, n)
        /\ cache_' = Store(Evicted.map, k, p, n)
  BY DEF PutNew
<1>2. /\ WellFormed(Evicted.map, Evicted.list)
      /\ DOMAIN Evicted.map \subseteq DOMAIN cache_
      /\ k \notin DOMAIN cache_
      /\ DOMAIN StoreView = DOMAIN cache_
      /\ Cardinality(DOMAIN cache_) \in Nat
  BY EvictedWellFormed, FS_CardinalityType DEF PutNew, StoreView, IInv, WellFormed
<1>3. /\ DOMAIN cache_' = DOMAIN Evicted.map \cup {k}
      /\ cache_'[k].program = p
      /\ \A x \in DOMAIN Evicted.map : cache_'[x] = cache_[x]
  BY <1>1, <1>2 DEF Store, Evicted
<1>4. \A a, b : <<a, b>> \in OlderView' <=>
                  Before(Evicted.list, a, b) \/ (a \in DOMAIN Evicted.map /\ b = k)
  <2>1. \A a, b : <<a, b>> \in OlderView' <=>
                    a \in DOMAIN cache_' /\ b \in DOMAIN cache_' /\ Before(lru_', a, b)
    BY OlderIsBefore DEF OlderView
  <2>2. \A a, b : Before(lru_', a, b) <=>
                    Before(Evicted.list, a, b) \/ (a \in DOMAIN Evicted.map /\ b = k)
    BY <1>1, <1>2, PushOrder
  <2>3. \A a, b : Before(Evicted.list, a, b) => a \in DOMAIN Evicted.map /\ b \in DOMAIN Evicted.map
    BY <1>2, BeforeIsCached
  <2> QED BY <2>1, <2>2, <2>3, <1>3
<1>5. \A a, b : <<a, b>> \in OlderView <=> Before(lru_, a, b)
  BY OlderIsBefore, BeforeIsCached DEF IInv, OlderView
<1>6. /\ \A pair \in OlderView' : pair = <<pair[1], pair[2]>>
      /\ \A pair \in OlderView : pair = <<pair[1], pair[2]>>
  BY OlderIsBefore DEF OlderView
<1>7. CASE ~full
  <2>1. Evicted.list = lru_ /\ DOMAIN Evicted.map = DOMAIN cache_
    BY <1>7 DEF Evicted
  <2>2. \A a, b : Before(lru_, a, b) => a # k /\ b # k
    BY <1>2, BeforeIsCached DEF IInv
  <2>3. \A a, b : <<a, b>> \in OlderView' <=>
                    <<a, b>> \in LRU!UsedLast(OlderView, DOMAIN StoreView, k)
    BY <1>2, <1>4, <1>5, <2>1, <2>2 DEF LRU!UsedLast
  <2>4. \A pair \in LRU!UsedLast(OlderView, DOMAIN StoreView, k) :
          pair = <<pair[1], pair[2]>>
    BY <1>6 DEF LRU!UsedLast
  <2>5. OlderView' = LRU!UsedLast(OlderView, DOMAIN StoreView, k)
    BY <1>6, <2>3, <2>4
  <2>6. StoreView' = LRU!With(StoreView, k, p)
    BY <1>2, <1>3, <2>1 DEF StoreView, LRU!With
  <2>7. k \notin DOMAIN StoreView /\ Cardinality(DOMAIN StoreView) < MAX_CACHE_SIZE
    BY <1>2, <1>7
  <2> QED BY <2>5, <2>6, <2>7 DEF LRU!LRUInsert, LRU!Cardinality, Cardinality
<1>8. CASE full
  <2> DEFINE kept == DOMAIN StoreView \ {victim}
  <2>1. /\ victim \in DOMAIN cache_
        /\ Evicted.map = Without(cache_, victim)
        /\ \A x \in DOMAIN cache_ \ {victim} : Before(lru_, victim, x)
        /\ \A a, b : Before(Evicted.list, a, b) <=>
                       Before(lru_, a, b) /\ a # victim /\ b # victim
    BY <1>8, EvictedOrder
  <2>2. DOMAIN Evicted.map = kept
    BY <2>1, <1>2 DEF Without
  <2> HIDE DEF victim
  <2>3. LRU!Oldest(OlderView, DOMAIN StoreView, victim)
    BY <1>2, <1>5, <2>1 DEF LRU!Oldest
  <2>4. StoreView' = LRU!With(LRU!Restricted(StoreView, kept), k, p)
    BY <1>2, <1>3, <2>2 DEF StoreView, LRU!With, LRU!Restricted
  <2>5. \A a, b : Before(lru_, a, b) => a # k /\ b # k
    BY <1>2, BeforeIsCached DEF IInv
  <2>6. \A a, b : <<a, b>> \in OlderView' <=>
          <<a, b>> \in LRU!UsedLast(LRU!Forgotten(OlderView, victim), kept, k)
    BY <1>2, <1>4, <1>5, <2>1, <2>2, <2>5 DEF LRU!UsedLast, LRU!Forgotten
  <2>7. \A pair \in LRU!UsedLast(LRU!Forgotten(OlderView, victim), kept, k) :
          pair = <<pair[1], pair[2]>>
    BY <1>6 DEF LRU!UsedLast, LRU!Forgotten
  <2>8. OlderView' = LRU!UsedLast(LRU!Forgotten(OlderView, victim), kept, k)
    BY <1>6, <2>6, <2>7
  <2>9. /\ k \notin DOMAIN StoreView
        /\ Cardinality(DOMAIN StoreView) >= MAX_CACHE_SIZE
        /\ victim \in DOMAIN StoreView
    BY <1>2, <1>8, <2>1
  <2> QED BY <2>3, <2>4, <2>8, <2>9 DEF LRU!LRUReplace, LRU!Cardinality, Cardinality
<1> QED BY <1>7, <1>8

LEMMA NextRefines == IInv /\ IInv' /\ [Next]_cacheVars => [LRU!LRUNext]_(LRU!lruVars)
<1> SUFFICES ASSUME IInv, IInv', [Next]_cacheVars
             PROVE  LRU!LRUNext \/ UNCHANGED LRU!lruVars
  OBVIOUS
<1>0. DOMAIN StoreView = DOMAIN cache_ /\ WellFormed(cache_, lru_)
  BY DEF StoreView, IInv
<1>1. ASSUME NEW k \in Keys, NEW p \in Programs, PutExisting(k, p)
      PROVE  LRU!LRUPut(k, p)
  <2>1. PICK n \in Nodes :
          /\ lru_' = PushBack(Erase(lru_, cache_[k].lru_it), k, n)
          /\ cache_' = Store(cache_, k, p, n)
    BY <1>1 DEF PutExisting
  <2>2. k \in DOMAIN cache_ /\ result' = NoProgram
    BY <1>1 DEF PutExisting
  <2>3. /\ OlderView' = LRU!UsedLast(OlderView, DOMAIN StoreView, k)
        /\ StoreView' = LRU!With(StoreView, k, p)
    BY <2>1, <2>2, TouchRefines
  <2> QED BY <2>2, <2>3, <1>0 DEF LRU!LRUPut, LRU!LRUUpdate
<1>2. ASSUME NEW k \in Keys, NEW p \in Programs, PutNew(k, p)
      PROVE  LRU!LRUPut(k, p)
  BY <1>2, PutNewRefines DEF LRU!LRUPut, PutNew
<1>3. ASSUME NEW k \in Keys, GetHit(k)
      PROVE  LRU!LRUHit(k)
  <2>1. PICK n \in Nodes :
          /\ lru_' = PushBack(Erase(lru_, cache_[k].lru_it), k, n)
          /\ cache_' = Store(cache_, k, cache_[k].program, n)
    BY <1>3 DEF GetHit
  <2>2. k \in DOMAIN cache_ /\ result' = cache_[k].program
    BY <1>3 DEF GetHit
  <2>3. cache_[k].program \in Programs
    BY <2>2, <1>0 DEF WellFormed, Entry
  <2>4. /\ OlderView' = LRU!UsedLast(OlderView, DOMAIN StoreView, k)
        /\ StoreView' = StoreView
    BY <2>1, <2>2, <2>3, TouchRefines
  <2>5. StoreView[k] = cache_[k].program
    BY <2>2 DEF StoreView
  <2> QED BY <2>2, <2>4, <2>5, <1>0 DEF LRU!LRUHit
<1>4. ASSUME NEW k \in Keys, GetMiss(k)
      PROVE  LRU!LRUMiss(k)
  BY <1>4, <1>0 DEF GetMiss, LRU!LRUMiss, StoreView, OlderView, OlderIn
<1>5. CASE Clear
  <2>1. StoreView' = [k \in {} |-> NoProgram] /\ OlderView' = {} /\ result' = NoProgram
    BY <1>5 DEF Clear, StoreView, OlderView, OlderIn
  <2> QED BY <2>1 DEF LRU!LRUNext, LRU!LRUClear
<1>6. CASE UNCHANGED cacheVars
  BY <1>6 DEF cacheVars, LRU!lruVars, StoreView, OlderView, OlderIn
<1> QED BY <1>1, <1>2, <1>3, <1>4, <1>5, <1>6 DEF Next, Put, Get, LRU!LRUNext

\* The map with its list of iterators implements the least-recently-used
\* cache that LeastRecentlyUsed specifies.
THEOREM CacheImplementsLRU == Spec => ImplementsLRU
<1>1. Init => LRU!LRUInit
  BY DEF Init, LRU!LRUInit, StoreView, OlderView, OlderIn
<1> QED BY <1>1, IInvAlways, NextRefines, PTL DEF Spec, LRU!LRUSpec, ImplementsLRU
=============================================================================
