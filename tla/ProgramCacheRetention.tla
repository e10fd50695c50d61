----------------------- MODULE ProgramCacheRetention -----------------------
(***************************************************************************)
(* ProgramCache with two history variables that remember what the callers  *)
(* did: the program each key was last put with, and the distinct other     *)
(* keys used since the key itself was.  They let the cache's guarantee to  *)
(* its caller, buildKernel, be stated: a program used recently enough is   *)
(* still there, so it is neither recompiled nor reloaded.                  *)
(***************************************************************************)
EXTENDS ProgramCache

VARIABLES
  lastPut,  \* key -> program of its last put since the last clear
  since     \* key -> the other keys used since the key was last used

historyVars == <<cache_, lru_, result, lastPut, since>>

\* k was used: it joins every other key's set and starts an empty one.
NoteUse(k) ==
  since' = [x \in Keys |-> IF x = k THEN {} ELSE since[x] \cup {k}]

HInit ==
  /\ Init
  /\ lastPut = [k \in Keys |-> NoProgram]
  /\ since = [k \in Keys |-> {}]

HPut(k, p) ==
  /\ Put(k, p)
  /\ lastPut' = [lastPut EXCEPT ![k] = p]
  /\ NoteUse(k)

HGetHit(k) == GetHit(k) /\ NoteUse(k) /\ UNCHANGED lastPut

HGetMiss(k) == GetMiss(k) /\ UNCHANGED <<lastPut, since>>

HClear ==
  /\ Clear
  /\ lastPut' = [k \in Keys |-> NoProgram]
  /\ since' = [k \in Keys |-> {}]

HNext ==
  \/ \E k \in Keys, p \in Programs : HPut(k, p)
  \/ \E k \in Keys : HGetHit(k)
  \/ \E k \in Keys : HGetMiss(k)
  \/ HClear

HSpec == HInit /\ [][HNext]_historyVars

\* A program put under k and not cleared is still cached, under k and as it
\* was last put, until MAX_CACHE_SIZE other keys have been used after k: the
\* cache never drops, swaps or serves an outdated program before that.
RecentlyUsedIsRetained ==
  \A k \in Keys :
    /\ lastPut[k] # NoProgram
    /\ Cardinality(since[k]) < MAX_CACHE_SIZE
    => k \in DOMAIN cache_ /\ cache_[k].program = lastPut[k]
=============================================================================
