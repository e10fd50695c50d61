----------------------------- MODULE ArrayStore -----------------------------
(***************************************************************************)
(* What the users of arrays rely on, with no device, queue or address: an  *)
(* array holds a cell of device memory, shared with its views, and every   *)
(* operation on arrays takes effect at once, in the order of the calls.    *)
(***************************************************************************)
CONSTANTS
  Arrays,    \* array handles
  Cells,     \* identities of allocations
  Values,    \* contents of an allocation
  Compute,   \* what the kernel computes from its input
  NoData     \* the handle holds nothing

VARIABLES
  holds,     \* array -> the cell it holds, or NoData
  contents,  \* the cells some array holds -> their value
  seen       \* what the last read returned

storeVars == <<holds, contents, seen>>

Held(h) == {h[a] : a \in Arrays} \ {NoData}

\* The contents once the arrays hold h: cells nobody holds are forgotten.
Kept(h, c) == [cell \in Held(h) |-> c[cell]]

StoreInit ==
  /\ holds = [a \in Arrays |-> NoData]
  /\ contents = [cell \in {} |-> NoData]
  /\ seen \in Values

\* A new allocation holds an arbitrary value.
StoreCreate(a) ==
  /\ holds[a] = NoData
  /\ \E cell \in Cells \ Held(holds), v \in Values :
       /\ holds' = [holds EXCEPT ![a] = cell]
       /\ contents' = [x \in Held(holds) \cup {cell} |-> IF x = cell THEN v ELSE contents[x]]
  /\ UNCHANGED seen

StoreShare(a, b) ==
  /\ holds[a] # NoData /\ holds[b] = NoData
  /\ holds' = [holds EXCEPT ![b] = holds[a]]
  /\ UNCHANGED <<contents, seen>>

StoreDrop(a) ==
  /\ holds' = [holds EXCEPT ![a] = NoData]
  /\ contents' = Kept(holds', contents)
  /\ UNCHANGED seen

StoreSet(a, v) ==
  /\ holds[a] # NoData
  /\ contents' = [contents EXCEPT ![holds[a]] = v]
  /\ UNCHANGED <<holds, seen>>

StoreRead(a) ==
  /\ holds[a] # NoData
  /\ seen' = contents[holds[a]]
  /\ UNCHANGED <<holds, contents>>

\* The device goes away, and every array with it.
StoreClose ==
  /\ holds' = [a \in Arrays |-> NoData]
  /\ contents' = [cell \in {} |-> NoData]
  /\ UNCHANGED seen

StoreNext ==
  \/ \E a \in Arrays : StoreCreate(a) \/ StoreDrop(a) \/ StoreRead(a)
  \/ \E a, b \in Arrays : StoreShare(a, b)
  \/ \E a \in Arrays, v \in Values : StoreSet(a, v)
  \/ \E a, b \in Arrays : holds[a] # NoData /\ StoreSet(b, contents[holds[a]])
  \/ \E a, b \in Arrays : holds[a] # NoData /\ StoreSet(b, Compute[contents[holds[a]]])
  \/ StoreClose

StoreSpec == StoreInit /\ [][StoreNext]_storeVars
=============================================================================
