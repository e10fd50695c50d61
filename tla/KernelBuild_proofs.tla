------------------------- MODULE KernelBuild_proofs -------------------------
(***************************************************************************)
(* The safety properties of buildKernel, for any number of processes,      *)
(* sources, chunks and faults.                                             *)
(*                                                                         *)
(* DamageNeedsAFault: among the processes writing a damaged file there is  *)
(* always one that wrote everything it should have since the file was last *)
(* truncated, namely the last to truncate it; when it is done the file is  *)
(* whole.  Only a fault takes that writer away.                            *)
(*                                                                         *)
(* MemoryIsSound and ServedAsRequested: for OpenCL and CUDA a nonempty     *)
(* file only ever exists for a source that compiles, so a text reaches the *)
(* last step of a call only when the source compiles.                      *)
(*                                                                         *)
(* OpenCLFailsOnlyToSave: a call that ends by an error other than that of  *)
(* saveBinary was for a source the compiler rejects, or for a name the     *)
(* source does not define.                                                 *)
(***************************************************************************)
EXTENDS KernelBuild, WellFoundedInduction, TLAPS

\* A writer of s none of whose chunks has been lost.
IntactWriter(p, s) ==
  /\ pc[p] = "write" /\ request[p].source = s
  /\ 1..cursor[p] \subseteq file[s]

FileInv ==
  /\ file \in [Sources -> SUBSET Whole]
  /\ exists \subseteq Sources
  /\ pc \in [Procs -> Steps]
  /\ request \in [Procs -> Request]
  /\ cursor \in [Procs -> 0..Chunks]
  /\ \A p \in Procs : pc[p] \notin {"read", "write"} => cursor[p] = 0
  /\ \A p \in Procs : pc[p] = "write" => cursor[p] < Chunks
  /\ \A s \in Sources :
       Damaged(s) /\ s \notin faulted => \E p \in Procs : IntactWriter(p, s)

----------------------------------------------------------------------------
\* What processes ask for are requests.
LEMMA RequestsTyped == Requests \subseteq Request
  BY BuildAssumption DEF Request

\* The file size of a set of chunks is its largest chunk.
LEMMA FileSizeIsLast ==
  ASSUME NEW f \in SUBSET Whole
  PROVE  FileSize(f) \in 0..Chunks
<1>0. Chunks \in Nat /\ \A m \in f : m \in Int /\ 1 <= m /\ m <= Chunks
  BY BuildAssumption DEF Whole
<1>1. CASE f = {}
  BY <1>0, <1>1 DEF FileSize
<1>2. CASE f # {}
  <2> DEFINE T == {Chunks - m : m \in f}
  <2>1. T \subseteq Nat /\ T # {}
    <3>1. \A m \in f : Chunks - m \in Nat
      BY <1>0
    <3> QED BY <1>2, <3>1
  <2>2. \E x \in T : \A y \in T : ~ (<<y, x>> \in OpToRel(<, Nat))
    BY <2>1, NatLessThanWellFounded, WFMin
  <2>3. PICK x \in T : \A y \in T : ~ (y < x)
    BY <2>1, <2>2 DEF OpToRel
  <2>4. PICK n \in f : x = Chunks - n
    BY <2>3
  <2>5. \A m \in f : m <= n
    <3> SUFFICES ASSUME NEW m \in f PROVE m <= n
      OBVIOUS
    <3>1. Chunks - m \in T
      OBVIOUS
    <3>2. ~ (Chunks - m < Chunks - n)
      BY <3>1, <2>3, <2>4
    <3> QED BY <3>2, <1>0
  <2>6. FileSize(f) \in f
    BY <1>2, <2>5 DEF FileSize
  <2> QED BY <2>6, <1>0
<1> QED BY <1>1, <1>2

\* A step of process p that writes no file: it leaves every other process
\* alone, and p is no writer, or the file it was writing is faulted.
QuietStep(p) ==
  /\ UNCHANGED <<exists, file>>
  /\ faulted \subseteq faulted'
  /\ pc[p] = "write" => request[p].source \in faulted'
  /\ \A q \in Procs \ {p} :
       pc'[q] = pc[q] /\ request'[q] = request[q] /\ cursor'[q] = cursor[q]
  /\ pc' \in [Procs -> Steps]
  /\ request' \in [Procs -> Request]
  /\ cursor' \in [Procs -> 0..Chunks]
  /\ pc'[p] \notin {"read", "write"} => cursor'[p] = 0
  /\ pc'[p] # "write"

LEMMA QuietStepKeepsInv ==
  ASSUME FileInv, NEW p \in Procs, QuietStep(p)
  PROVE  FileInv'
<1>1. ASSUME NEW s \in Sources, Damaged(s)', s \notin faulted'
      PROVE  \E q \in Procs : IntactWriter(q, s)'
  <2>1. PICK q \in Procs : IntactWriter(q, s)
    BY <1>1 DEF QuietStep, FileInv, Damaged
  <2>2. q # p
    BY <1>1, <2>1 DEF QuietStep, IntactWriter
  <2> QED BY <2>1, <2>2 DEF QuietStep, IntactWriter
<1> QED BY <1>1 DEF QuietStep, FileInv

LEMMA FileInvInductive == FileInv /\ [Next]_vars => FileInv'
<1> SUFFICES ASSUME FileInv, [Next]_vars PROVE FileInv'
  OBVIOUS
<1> USE BuildAssumption DEF environment, Goto, Return
<1>1. ASSUME NEW p \in Procs, NEW flag \in BOOLEAN, SetEnabled(p, flag)
      PROVE  FileInv'
  BY <1>1, QuietStepKeepsInv DEF SetEnabled, FileInv, QuietStep
<1>2. ASSUME NEW p \in Procs, NEW r \in Request, BuildHit(p, r)
      PROVE  QuietStep(p)
  BY <1>2 DEF BuildHit, FileInv, QuietStep, Steps
<1>3. ASSUME NEW p \in Procs, NEW r \in Request, BuildMiss(p, r)
      PROVE  QuietStep(p)
  BY <1>3 DEF BuildMiss, FileInv, QuietStep, Steps
<1>4. ASSUME NEW p \in Procs, LoadOpen(p)
      PROVE  QuietStep(p)
  <2>1. FileSize(file[request[p].source]) \in 0..Chunks
    BY FileSizeIsLast DEF FileInv, Request
  <2> QED BY <1>4, <2>1 DEF LoadOpen, FileInv, QuietStep, Steps
<1>5. ASSUME NEW p \in Procs, LoadRead(p)
      PROVE  QuietStep(p)
  BY <1>5 DEF LoadRead, FileInv, QuietStep, Steps
<1>6. ASSUME NEW p \in Procs, Compile(p)
      PROVE  QuietStep(p)
  BY <1>6 DEF Compile, FileInv, QuietStep, Steps
<1>7. ASSUME NEW p \in Procs, SaveOpen(p)
      PROVE  FileInv'
  <2> DEFINE t == request[p].source
  <2>1. /\ t \in Sources /\ cursor[p] = 0
        /\ pc' = [pc EXCEPT ![p] = "write"]
        /\ exists' = exists \cup {t}
        /\ file' = [file EXCEPT ![t] = {}]
        /\ UNCHANGED <<request, cursor, faulted>>
    BY <1>7 DEF SaveOpen, FileInv, Request
  <2>2. IntactWriter(p, t)'
    BY <2>1 DEF IntactWriter, FileInv
  <2>3. ASSUME NEW s \in Sources, s # t, Damaged(s)', s \notin faulted'
        PROVE  \E q \in Procs : IntactWriter(q, s)'
    <3>1. PICK q \in Procs : IntactWriter(q, s)
      BY <2>1, <2>3 DEF FileInv, Damaged
    <3>2. q # p
      BY <1>7, <3>1 DEF SaveOpen, IntactWriter
    <3> QED BY <2>1, <2>3, <3>1, <3>2 DEF IntactWriter, FileInv
  <2> QED BY <2>1, <2>2, <2>3 DEF FileInv, Steps
<1>8. ASSUME NEW p \in Procs, SaveWrite(p)
      PROVE  FileInv'
  <2> DEFINE t == request[p].source
             next == cursor[p] + 1
  <2>1. /\ t \in Sources /\ next \in Whole /\ pc[p] = "write"
        /\ file' = [file EXCEPT ![t] = @ \cup {next}]
        /\ UNCHANGED <<exists, request, faulted>>
    BY <1>8 DEF SaveWrite, FileInv, Request, Whole
  <2>2. /\ pc' = IF next = Chunks THEN [pc EXCEPT ![p] = "module"] ELSE pc
        /\ cursor' = [cursor EXCEPT ![p] = IF next = Chunks THEN 0 ELSE next]
    BY <1>8 DEF SaveWrite
  <2>3. ASSUME NEW s \in Sources, Damaged(s)', s \notin faulted'
        PROVE  \E q \in Procs : IntactWriter(q, s)'
    <3>1. Damaged(s)
      BY <2>1, <2>3 DEF Damaged, FileInv, Whole
    <3>2. PICK q \in Procs : IntactWriter(q, s)
      BY <2>1, <2>3, <3>1 DEF FileInv
    <3>3. CASE q # p
      BY <2>1, <2>2, <3>2, <3>3 DEF IntactWriter, FileInv
    <3>4. CASE q = p
      <4>1. s = t /\ 1..next \subseteq file'[s]
        BY <2>1, <3>2, <3>4 DEF IntactWriter, FileInv, Whole
      <4>2. next # Chunks
        BY <2>1, <2>3, <4>1 DEF Damaged, FileInv, Whole
      <4> QED BY <2>1, <2>2, <4>1, <4>2 DEF IntactWriter, FileInv
    <3> QED BY <3>3, <3>4
  <2> QED BY <2>1, <2>2, <2>3 DEF FileInv, Steps, Whole
<1>9. ASSUME NEW p \in Procs, OpenCLFinish(p) \/ CudaFinish(p) \/ MetalFinish(p)
      PROVE  QuietStep(p)
  BY <1>9 DEF OpenCLFinish, CudaFinish, MetalFinish, FileInv, QuietStep, Steps
<1>10. ASSUME NEW p \in Procs, SaveFails(p)
       PROVE  QuietStep(p)
  BY <1>10 DEF SaveFails, Fault, FileInv, QuietStep, Steps
<1>11. ASSUME NEW p \in Procs, SaveLosesTail(p)
       PROVE  QuietStep(p)
  BY <1>11 DEF SaveLosesTail, Fault, FileInv, QuietStep, Steps
<1>12. ASSUME NEW p \in Procs, Crash(p)
       PROVE  QuietStep(p)
  BY <1>12 DEF Crash, Fault, FileInv, QuietStep, Steps
<1>13. CASE UNCHANGED vars
  BY <1>13 DEF vars, FileInv, IntactWriter, Damaged
<1> QED
  BY <1>1, <1>2, <1>3, <1>4, <1>5, <1>6, <1>7, <1>8, <1>9, <1>10, <1>11, <1>12,
     <1>13, RequestsTyped, QuietStepKeepsInv DEF Next, Progress

\* Without a crash or a failed write, no interleaving of the processes that
\* load and save a cache file leaves it damaged once its writers are done.
THEOREM DamageTakesAFault == Spec => []DamageNeedsAFault
<1>1. Init => FileInv
  BY RequestsTyped, BuildAssumption DEF Init, FileInv, Damaged, Steps
<1>2. FileInv => DamageNeedsAFault
  BY DEF FileInv, DamageNeedsAFault, IntactWriter
<1> QED BY <1>1, <1>2, FileInvInductive, PTL DEF Spec
----------------------------------------------------------------------------
\* An entry the cache may hold, and a memory of them.
SoundEntry(e) ==
  /\ e \in CacheEntry
  /\ e.program = e.key.source
  /\ e.program \in Compilable
  /\ e.key.name \in Defines[e.program] \cup {NoName}

SoundMemory(m) ==
  /\ m \in Seq(CacheEntry)
  /\ Len(m) <= MAX_CACHE_SIZE
  /\ \A i \in 1..Len(m) : SoundEntry(m[i])
  /\ \A i, j \in 1..Len(m) : i # j => m[i].key # m[j].key

\* Putting a sound entry into a sound memory, updating, evicting or neither,
\* leaves it sound and the entry in it.
LEMMA InsertedSound ==
  ASSUME NEW m, SoundMemory(m), NEW e, SoundEntry(e)
  PROVE  /\ SoundMemory(Inserted(m, e))
         /\ \E i \in 1..Len(Inserted(m, e)) : Inserted(m, e)[i] = e
<1> USE BuildAssumption
<1> DEFINE rest == IF Cached(m, e.key) THEN DropAt(m, Position(m, e.key))
                   ELSE IF Len(m) >= MAX_CACHE_SIZE THEN Tail(m) ELSE m
<1>0. m \in Seq(CacheEntry) /\ Len(m) \in Nat /\ e \in CacheEntry
  BY DEF SoundMemory, SoundEntry
<1>1. /\ rest \in Seq(CacheEntry)
      /\ Len(rest) < MAX_CACHE_SIZE
      /\ \A i \in 1..Len(rest) : SoundEntry(rest[i])
      /\ \A i, j \in 1..Len(rest) : i # j => rest[i].key # rest[j].key
      /\ \A i \in 1..Len(rest) : rest[i].key # e.key
  <2>1. CASE Cached(m, e.key)
    <3> DEFINE at == Position(m, e.key)
    <3>1. at \in 1..Len(m) /\ m[at].key = e.key
      BY <2>1 DEF Cached, Position
    <3> HIDE DEF at
    <3>2. rest = DropAt(m, at)
      BY <2>1 DEF at
    <3>3. /\ DropAt(m, at) \in Seq(CacheEntry)
          /\ Len(DropAt(m, at)) = Len(m) - 1
      BY <3>1, <1>0 DEF DropAt
    <3>4. \A i \in 1..(Len(m) - 1) :
            DropAt(m, at)[i] = IF i < at THEN m[i] ELSE m[i + 1]
      BY DEF DropAt
    <3>5. \A i \in 1..(Len(m) - 1) : \E n \in 1..Len(m) :
            n # at /\ DropAt(m, at)[i] = m[n] /\ n = IF i < at THEN i ELSE i + 1
      BY <3>1, <3>4, <1>0
    <3>6. \A i \in 1..(Len(m) - 1) :
            SoundEntry(DropAt(m, at)[i]) /\ DropAt(m, at)[i].key # e.key
      BY <3>1, <3>5 DEF SoundMemory
    <3>7. ASSUME NEW i \in 1..(Len(m) - 1), NEW j \in 1..(Len(m) - 1), i # j
          PROVE  DropAt(m, at)[i].key # DropAt(m, at)[j].key
      <4>1. PICK n \in 1..Len(m) : DropAt(m, at)[i] = m[n] /\ n = IF i < at THEN i ELSE i + 1
        BY <3>5
      <4>2. PICK k \in 1..Len(m) : DropAt(m, at)[j] = m[k] /\ k = IF j < at THEN j ELSE j + 1
        BY <3>5
      <4>3. i \in Int /\ j \in Int /\ at \in Int /\ n \in Int /\ k \in Int
        BY <3>1, <1>0
      <4>4. n # k
        BY <4>1, <4>2, <4>3, <3>7
      <4> QED BY <4>1, <4>2, <4>4 DEF SoundMemory
    <3> HIDE DEF rest
    <3>8. Len(m) <= MAX_CACHE_SIZE /\ MAX_CACHE_SIZE \in Nat
      BY DEF SoundMemory
    <3>9. /\ \A i \in 1..Len(rest) : SoundEntry(rest[i]) /\ rest[i].key # e.key
          /\ \A i, j \in 1..Len(rest) : i # j => rest[i].key # rest[j].key
      <4>1. Len(rest) = Len(m) - 1 /\ rest = DropAt(m, at)
        BY <3>2, <3>3
      <4>2. \A i \in 1..Len(rest) : SoundEntry(rest[i]) /\ rest[i].key # e.key
        BY <4>1, <3>6
      <4>3. \A i, j \in 1..Len(rest) : i # j => rest[i].key # rest[j].key
        BY <4>1, <3>7
      <4> QED BY <4>2, <4>3
    <3> QED BY <3>2, <3>3, <3>8, <3>9, <1>0
  <2>2. CASE ~Cached(m, e.key) /\ Len(m) >= MAX_CACHE_SIZE
    <3>1. /\ rest = Tail(m) /\ rest \in Seq(CacheEntry) /\ Len(rest) = Len(m) - 1
          /\ \A i \in 1..Len(rest) : i + 1 \in 1..Len(m) /\ rest[i] = m[i + 1]
      BY <2>2, <1>0
    <3> HIDE DEF rest
    <3> QED BY <3>1, <2>2, <1>0 DEF SoundMemory, Cached
  <2>3. CASE ~Cached(m, e.key) /\ ~(Len(m) >= MAX_CACHE_SIZE)
    BY <2>3, <1>0 DEF SoundMemory, Cached
  <2> QED BY <2>1, <2>2, <2>3
<1>2. Inserted(m, e) = Append(rest, e)
  BY DEF Inserted
<1> HIDE DEF rest
<1>3. /\ Append(rest, e) \in Seq(CacheEntry)
      /\ Len(Append(rest, e)) = Len(rest) + 1
      /\ \A i \in 1..Len(rest) : Append(rest, e)[i] = rest[i]
      /\ Append(rest, e)[Len(rest) + 1] = e
      /\ Len(rest) \in Nat
  BY <1>0, <1>1
<1> DEFINE new == Append(rest, e)
<1> HIDE DEF new
<1>4. \A i \in 1..Len(new) : i \in 1..Len(rest) \/ i = Len(rest) + 1
  BY <1>3 DEF new
<1>5. SoundMemory(new)
  BY <1>1, <1>3, <1>4 DEF SoundMemory, new
<1>6. Len(new) \in 1..Len(new) /\ new[Len(new)] = e
  BY <1>3 DEF new
<1> QED BY <1>2, <1>5, <1>6 DEF new

----------------------------------------------------------------------------
\* The sources that reached a text, a file or the memory compile, except
\* that Metal stores the translation of any source.
Served(p) ==
  /\ request[p].source \in Compilable
  /\ request[p].name \in Defines[request[p].source]
  /\ \E i \in 1..Len(memory[p]) :
       /\ memory[p][i].key = CacheKey(request[p])
       /\ memory[p][i].program = request[p].source

MemoryInv ==
  /\ FileInv
  /\ backend \in Backends
  /\ memory = [p \in Procs |-> memory[p]]
  /\ \A p \in Procs : SoundMemory(memory[p])
  /\ text \in [Procs -> SUBSET Whole]
  /\ outcome \in [Procs -> Outcomes]
  /\ \A s \in Sources : backend # "metal" /\ file[s] # {} => s \in Compilable
  /\ \A p \in Procs : backend # "metal" /\ pc[p] \in {"read", "save", "write", "module"}
                        => request[p].source \in Compilable
  /\ \A p \in Procs : outcome[p] # "none" => pc[p] = "idle"
  /\ \A p \in Procs : outcome[p] = "ok" => Served(p)

\* The entry a finished call caches is sound, and serves the call.
LEMMA NewEntryServes ==
  ASSUME MemoryInv, NEW p \in Procs, NEW r \in Request, r.source \in Compilable,
         r.name \in Defines[r.source] \/ backend = "opencl",
         NEW m, m = Inserted(memory[p], [key |-> CacheKey(r), program |-> r.source])
  PROVE  /\ SoundMemory(m)
         /\ \E i \in 1..Len(m) : m[i].key = CacheKey(r) /\ m[i].program = r.source
<1> DEFINE e == [key |-> CacheKey(r), program |-> r.source]
<1>1. SoundEntry(e)
  BY BuildAssumption DEF SoundEntry, CacheEntry, CacheKey, Key, Request
<1>2. SoundMemory(memory[p])
  BY DEF MemoryInv
<1>3. SoundMemory(m) /\ \E i \in 1..Len(m) : m[i] = e
  BY <1>1, <1>2, InsertedSound
<1> QED BY <1>3

\* A hit finds an entry of the requested source that compiles and, for CUDA
\* and Metal, defines the requested kernel.
LEMMA HitServes ==
  ASSUME MemoryInv, NEW p \in Procs, NEW r \in Request, Cached(memory[p], CacheKey(r))
  PROVE  LET entry == memory[p][Position(memory[p], CacheKey(r))]
         IN  /\ entry = [key |-> CacheKey(r), program |-> r.source]
             /\ r.source \in Compilable
             /\ backend # "opencl" => r.name \in Defines[r.source]
<1> DEFINE at == Position(memory[p], CacheKey(r))
<1>1. at \in 1..Len(memory[p]) /\ memory[p][at].key = CacheKey(r)
  BY DEF Cached, Position
<1> HIDE DEF at
<1>2. SoundEntry(memory[p][at])
  BY <1>1 DEF MemoryInv, SoundMemory
<1>3. /\ memory[p][at].program = r.source /\ r.source \in Compilable
      /\ CacheKey(r).name \in Defines[r.source] \cup {NoName}
  BY <1>1, <1>2 DEF SoundEntry, CacheKey
<1>4. memory[p][at] = [key |-> CacheKey(r), program |-> r.source]
  BY <1>1, <1>2, <1>3 DEF SoundEntry, CacheEntry
<1>5. backend # "opencl" => r.name \in Defines[r.source]
  BY <1>3, BuildAssumption DEF CacheKey, Request
<1> QED BY <1>3, <1>4, <1>5 DEF at

\* A step of p that leaves every memory as it is and does not succeed.
UncachedStep(p) ==
  /\ UNCHANGED <<backend, memory>>
  /\ \A q \in Procs \ {p} :
       request'[q] = request[q] /\ outcome'[q] = outcome[q] /\ pc'[q] = pc[q]
  /\ text' \in [Procs -> SUBSET Whole]
  /\ outcome' \in [Procs -> Outcomes]
  /\ outcome'[p] # "none" => pc'[p] = "idle"
  /\ outcome'[p] # "ok"
  /\ backend # "metal" /\ pc'[p] \in {"read", "save", "write", "module"}
       => request'[p].source \in Compilable
  /\ \A s \in Sources : backend # "metal" /\ file'[s] # {} => s \in Compilable

LEMMA UncachedStepKeepsInv ==
  ASSUME MemoryInv, FileInv', NEW p \in Procs, UncachedStep(p)
  PROVE  MemoryInv'
<1>1. \A q \in Procs : outcome'[q] = "ok" => Served(q)'
  <2> SUFFICES ASSUME NEW q \in Procs, outcome'[q] = "ok" PROVE Served(q)'
    OBVIOUS
  <2>1. q # p /\ request'[q] = request[q] /\ memory' = memory /\ backend' = backend
    BY DEF UncachedStep
  <2>2. Served(q)
    BY <2>1 DEF UncachedStep, MemoryInv
  <2> QED BY <2>1, <2>2 DEF Served, CacheKey
<1>2. \A q \in Procs : backend' # "metal" /\ pc'[q] \in {"read", "save", "write", "module"}
                         => request'[q].source \in Compilable
  BY DEF UncachedStep, MemoryInv
<1>3. \A q \in Procs : outcome'[q] # "none" => pc'[q] = "idle"
  BY DEF UncachedStep, MemoryInv
<1>4. /\ backend' \in Backends
      /\ memory' = [q \in Procs |-> memory'[q]]
      /\ \A q \in Procs : SoundMemory(memory'[q])
      /\ text' \in [Procs -> SUBSET Whole]
      /\ outcome' \in [Procs -> Outcomes]
      /\ \A s \in Sources : backend' # "metal" /\ file'[s] # {} => s \in Compilable
  BY DEF UncachedStep, MemoryInv
<1> QED BY <1>1, <1>2, <1>3, <1>4 DEF MemoryInv

\* A step in which p ends its call for r with an entry of r in its memory.
CachingStep(p, r) ==
  LET e == [key |-> CacheKey(r), program |-> r.source]
  IN  /\ r.source \in Compilable
      /\ r.name \in Defines[r.source] \/ backend = "opencl"
      /\ memory' = [memory EXCEPT ![p] = Inserted(memory[p], e)]
      /\ request'[p] = r
      /\ \A q \in Procs \ {p} :
           request'[q] = request[q] /\ outcome'[q] = outcome[q] /\ pc'[q] = pc[q]
      /\ text' \in [Procs -> SUBSET Whole]
      /\ outcome' \in [Procs -> Outcomes]
      /\ pc'[p] = "idle"
      /\ outcome'[p] = "ok" => r.name \in Defines[r.source]
      /\ UNCHANGED <<backend, file>>

LEMMA CachingStepKeepsInv ==
  ASSUME MemoryInv, FileInv', NEW p \in Procs, NEW r \in Request, CachingStep(p, r)
  PROVE  MemoryInv'
<1> DEFINE m == Inserted(memory[p], [key |-> CacheKey(r), program |-> r.source])
<1>1. /\ SoundMemory(m)
      /\ \E i \in 1..Len(m) : m[i].key = CacheKey(r) /\ m[i].program = r.source
  BY NewEntryServes DEF CachingStep
<1>2. memory' = [memory EXCEPT ![p] = m]
  BY DEF CachingStep
<1> HIDE DEF m
<1>3. memory'[p] = m /\ \A q \in Procs \ {p} : memory'[q] = memory[q]
  BY <1>2 DEF MemoryInv
<1>4. memory' = [q \in Procs |-> memory'[q]]
  BY <1>2 DEF MemoryInv
<1>5. \A q \in Procs : SoundMemory(memory'[q])
  BY <1>1, <1>3 DEF MemoryInv
<1>6. \A q \in Procs : outcome'[q] = "ok" => Served(q)'
  <2> SUFFICES ASSUME NEW q \in Procs, outcome'[q] = "ok" PROVE Served(q)'
    OBVIOUS
  <2>1. backend' = backend
    BY DEF CachingStep
  <2>2. CASE q = p
    <3>1. request'[p] = r /\ r.source \in Compilable /\ r.name \in Defines[r.source]
      BY <2>2 DEF CachingStep
    <3> QED BY <1>1, <1>3, <2>1, <2>2, <3>1 DEF Served, CacheKey
  <2>3. CASE q # p
    <3>1. request'[q] = request[q] /\ outcome[q] = "ok"
      BY <2>3 DEF CachingStep
    <3>2. Served(q)
      BY <3>1 DEF MemoryInv
    <3> QED BY <1>3, <2>1, <2>3, <3>1, <3>2 DEF Served, CacheKey
  <2> QED BY <2>2, <2>3
<1>7. \A q \in Procs : backend' # "metal" /\ pc'[q] \in {"read", "save", "write", "module"}
                         => request'[q].source \in Compilable
  BY DEF CachingStep, MemoryInv
<1>8. \A q \in Procs : outcome'[q] # "none" => pc'[q] = "idle"
  BY DEF CachingStep, MemoryInv
<1>9. /\ backend' \in Backends
      /\ text' \in [Procs -> SUBSET Whole]
      /\ outcome' \in [Procs -> Outcomes]
      /\ \A s \in Sources : backend' # "metal" /\ file'[s] # {} => s \in Compilable
  BY DEF CachingStep, MemoryInv
<1> QED BY <1>4, <1>5, <1>6, <1>7, <1>8, <1>9 DEF MemoryInv

LEMMA MemoryInvInductive == MemoryInv /\ [Next]_vars => MemoryInv'
<1> SUFFICES ASSUME MemoryInv, [Next]_vars PROVE MemoryInv'
  OBVIOUS
<1> USE BuildAssumption DEF environment, Goto, Return
<1>0. FileInv /\ FileInv'
  BY FileInvInductive DEF MemoryInv
<1>0a. \A p \in Procs : pc[p] # "idle" => outcome[p] = "none"
  BY DEF MemoryInv
<1>1. ASSUME NEW p \in Procs, NEW flag \in BOOLEAN, SetEnabled(p, flag)
      PROVE  MemoryInv'
  BY <1>0, <1>1 DEF SetEnabled, MemoryInv, Served, CacheKey
<1>2. ASSUME NEW p \in Procs, NEW r \in Request, BuildHit(p, r)
      PROVE  MemoryInv'
  <2> DEFINE entry == memory[p][Position(memory[p], CacheKey(r))]
  <2>1. Cached(memory[p], CacheKey(r))
    BY <1>2 DEF BuildHit
  <2>2. /\ entry = [key |-> CacheKey(r), program |-> r.source]
        /\ r.source \in Compilable
        /\ backend # "opencl" => r.name \in Defines[r.source]
    BY <2>1, HitServes
  <2>3. /\ memory' = [memory EXCEPT ![p] = Inserted(memory[p], entry)]
        /\ request' = [request EXCEPT ![p] = r]
        /\ outcome' = [outcome EXCEPT ![p] =
             IF backend = "opencl" /\ r.name \notin Defines[entry.program]
             THEN "name_error" ELSE "ok"]
        /\ pc' = [pc EXCEPT ![p] = "idle"]
        /\ text' = [text EXCEPT ![p] = {}]
        /\ UNCHANGED <<backend, file>>
    BY <1>2 DEF BuildHit
  <2> HIDE DEF entry
  <2>4. entry.program = r.source
    BY <2>2
  <2>5. outcome'[p] = "ok" => r.name \in Defines[r.source]
    BY <2>2, <2>3, <2>4 DEF MemoryInv
  <2>6. /\ request'[p] = r /\ pc'[p] = "idle"
        /\ \A q \in Procs \ {p} :
             request'[q] = request[q] /\ outcome'[q] = outcome[q] /\ pc'[q] = pc[q]
        /\ text' \in [Procs -> SUBSET Whole]
        /\ outcome' \in [Procs -> Outcomes]
    BY <1>0, <2>3 DEF MemoryInv, FileInv, Outcomes
  <2>7. CachingStep(p, r)
    BY <2>2, <2>3, <2>5, <2>6 DEF CachingStep
  <2> QED BY <1>0, <2>7, CachingStepKeepsInv
<1>3. ASSUME NEW p \in Procs, NEW r \in Request, BuildMiss(p, r)
      PROVE  UncachedStep(p)
  BY <1>0, <1>3 DEF BuildMiss, MemoryInv, FileInv, Outcomes, UncachedStep
<1>4. ASSUME NEW p \in Procs, LoadOpen(p)
      PROVE  UncachedStep(p)
  BY <1>0, <1>0a, <1>4 DEF LoadOpen, MemoryInv, FileInv, Request, UncachedStep
<1>5. ASSUME NEW p \in Procs, LoadRead(p)
      PROVE  UncachedStep(p)
  BY <1>0, <1>0a, <1>5 DEF LoadRead, MemoryInv, FileInv, Request, Whole, UncachedStep
<1>6. ASSUME NEW p \in Procs, Compile(p)
      PROVE  UncachedStep(p)
  <2>1. /\ UNCHANGED <<backend, memory, file, request>>
        /\ pc[p] = "compile" /\ outcome[p] = "none"
    BY <1>0a, <1>6 DEF Compile
  <2>2. CASE request[p].source \in Compilable \/ backend = "metal"
    <3>1. /\ text' = [text EXCEPT ![p] = Whole] /\ UNCHANGED outcome
          /\ pc' = [pc EXCEPT ![p] = IF enabled[p] THEN "save" ELSE "module"]
      BY <1>6, <2>2 DEF Compile
    <3> QED BY <1>0, <2>1, <2>2, <3>1 DEF MemoryInv, FileInv, UncachedStep
  <2>3. CASE ~(request[p].source \in Compilable \/ backend = "metal")
    <3>1. /\ text' = [text EXCEPT ![p] = {}] /\ pc' = [pc EXCEPT ![p] = "idle"]
          /\ outcome' = [outcome EXCEPT ![p] = "compile_error"]
      BY <1>6, <2>3 DEF Compile
    <3> QED BY <1>0, <2>1, <3>1 DEF MemoryInv, FileInv, Outcomes, UncachedStep
  <2> QED BY <2>2, <2>3
<1>7. ASSUME NEW p \in Procs, SaveOpen(p)
      PROVE  UncachedStep(p)
  BY <1>0, <1>0a, <1>7 DEF SaveOpen, MemoryInv, FileInv, Request, UncachedStep
<1>8. ASSUME NEW p \in Procs, SaveWrite(p)
      PROVE  UncachedStep(p)
  BY <1>0, <1>0a, <1>8 DEF SaveWrite, MemoryInv, FileInv, Request, UncachedStep
\* The three ways a call finishes: with a sound entry cached, or without.
<1>9. ASSUME NEW p \in Procs, OpenCLFinish(p) \/ CudaFinish(p) \/ MetalFinish(p)
      PROVE  CachingStep(p, request[p]) \/ UncachedStep(p)
  <2> DEFINE r == request[p]
             e == [key |-> CacheKey(r), program |-> r.source]
  <2>1. /\ pc[p] = "module" /\ r \in Request
        /\ backend # "metal" => r.source \in Compilable
    BY <1>0, <1>9 DEF FileInv, OpenCLFinish, CudaFinish, MetalFinish, MemoryInv
  <2>2. PICK res \in Outcomes \ {"none"} :
          /\ outcome' = [outcome EXCEPT ![p] = res]
          /\ \/ /\ memory' = [memory EXCEPT ![p] = Inserted(memory[p], e)]
                /\ r.source \in Compilable
                /\ r.name \in Defines[r.source] \/ backend = "opencl"
                /\ res = "ok" => r.name \in Defines[r.source]
             \/ memory' = memory /\ res # "ok"
    <3>1. CASE OpenCLFinish(p)
      <4> DEFINE res == IF r.name \in Defines[r.source] THEN "ok" ELSE "name_error"
      <4>1. res \in Outcomes \ {"none"}
        BY DEF Outcomes
      <4>2. outcome' = [outcome EXCEPT ![p] = res] /\ backend = "opencl"
            /\ memory' = [memory EXCEPT ![p] = Inserted(memory[p], e)]
        BY <3>1 DEF OpenCLFinish
      <4>3. r.source \in Compilable
        BY <2>1, <4>2
      <4> QED BY <4>1, <4>2, <4>3
    <3>2. CASE CudaFinish(p)
      BY <2>1, <3>2 DEF CudaFinish, Outcomes
    <3>3. CASE MetalFinish(p)
      BY <2>1, <3>3 DEF MetalFinish, Outcomes
    <3> QED BY <1>9, <3>1, <3>2, <3>3
  <2>3. /\ pc' = [pc EXCEPT ![p] = "idle"]
        /\ text' = [text EXCEPT ![p] = {}]
        /\ UNCHANGED <<file, request, backend>>
    BY <1>9 DEF OpenCLFinish, CudaFinish, MetalFinish
  <2>4. /\ outcome'[p] = res /\ pc'[p] = "idle" /\ request'[p] = r
        /\ \A q \in Procs \ {p} :
             request'[q] = request[q] /\ outcome'[q] = outcome[q] /\ pc'[q] = pc[q]
        /\ text' \in [Procs -> SUBSET Whole]
        /\ outcome' \in [Procs -> Outcomes]
    BY <1>0, <2>2, <2>3 DEF MemoryInv, FileInv
  <2>5. \A s \in Sources : backend # "metal" /\ file'[s] # {} => s \in Compilable
    BY <2>3 DEF MemoryInv
  <2> QED BY <2>2, <2>3, <2>4, <2>5 DEF CachingStep, UncachedStep
<1>10. ASSUME NEW p \in Procs, SaveFails(p) \/ SaveLosesTail(p)
       PROVE  UncachedStep(p)
  BY <1>0, <1>0a, <1>10
     DEF SaveFails, SaveLosesTail, Fault, MemoryInv, FileInv, Outcomes, UncachedStep
<1>11. ASSUME NEW p \in Procs, Crash(p)
       PROVE  MemoryInv'
  <2>1. SoundMemory(<<>>)
    BY DEF SoundMemory
  <2>2. /\ memory' = [memory EXCEPT ![p] = <<>>]
        /\ outcome' = [outcome EXCEPT ![p] = "none"]
        /\ pc' = [pc EXCEPT ![p] = "idle"]
        /\ text' = [text EXCEPT ![p] = {}]
        /\ UNCHANGED <<file, request, backend>>
    BY <1>11 DEF Crash, Fault
  <2>3. \A q \in Procs : SoundMemory(memory'[q])
    BY <2>1, <2>2 DEF MemoryInv
  <2>4. \A q \in Procs : outcome'[q] = "ok" => Served(q)'
    <3> SUFFICES ASSUME NEW q \in Procs, outcome'[q] = "ok" PROVE Served(q)'
      OBVIOUS
    <3>1. q # p /\ outcome[q] = "ok" /\ memory'[q] = memory[q]
      BY <2>2 DEF MemoryInv
    <3>2. Served(q)
      BY <3>1 DEF MemoryInv
    <3> QED BY <2>2, <3>1, <3>2 DEF Served, CacheKey
  <2>5. /\ \A q \in Procs : backend' # "metal" /\ pc'[q] \in {"read", "save", "write", "module"}
                         => request'[q].source \in Compilable
        /\ \A q \in Procs : outcome'[q] # "none" => pc'[q] = "idle"
    BY <1>0, <2>2 DEF MemoryInv, FileInv
  <2>6. /\ backend' \in Backends
        /\ memory' = [q \in Procs |-> memory'[q]]
        /\ text' \in [Procs -> SUBSET Whole]
        /\ outcome' \in [Procs -> Outcomes]
        /\ \A s \in Sources : backend' # "metal" /\ file'[s] # {} => s \in Compilable
    BY <2>2 DEF MemoryInv, Outcomes
  <2> QED BY <1>0, <2>3, <2>4, <2>5, <2>6 DEF MemoryInv
<1>12. CASE UNCHANGED vars
  BY <1>0, <1>12 DEF vars, MemoryInv, Served, CacheKey
<1>13. \A p \in Procs : UncachedStep(p) => MemoryInv'
  BY <1>0, UncachedStepKeepsInv
<1>14. \A p \in Procs : CachingStep(p, request[p]) => MemoryInv'
  BY <1>0, CachingStepKeepsInv DEF FileInv
<1> QED
  BY <1>1, <1>2, <1>3, <1>4, <1>5, <1>6, <1>7, <1>8, <1>9, <1>10, <1>11, <1>12,
     <1>13, <1>14, RequestsTyped DEF Next, Progress

LEMMA MemoryInvAlways == Spec => []MemoryInv
<1>1. Init => MemoryInv
  <2> SUFFICES ASSUME Init PROVE MemoryInv
    OBVIOUS
  <2>1. FileInv
    BY RequestsTyped, BuildAssumption DEF Init, FileInv, Damaged, Steps
  <2>2. SoundMemory(<<>>)
    BY BuildAssumption DEF SoundMemory
  <2> QED BY <2>1, <2>2 DEF Init, MemoryInv, Outcomes
<1> QED BY <1>1, MemoryInvInductive, PTL DEF Spec

\* No damaged or foreign program ever gets into the in-memory cache of a
\* device, and the cache never outgrows its bound.
THEOREM MemoryAlwaysSound == Spec => []MemoryIsSound
<1>1. MemoryInv => MemoryIsSound
  BY DEF MemoryInv, SoundMemory, SoundEntry, MemoryIsSound
<1> QED BY <1>1, MemoryInvAlways, PTL

\* A successful call serves a program of the source it was given, which
\* compiles and defines the kernel it was given.
THEOREM AlwaysServedAsRequested == Spec => []ServedAsRequested
<1>1. MemoryInv => ServedAsRequested
  BY DEF MemoryInv, Served, ServedAsRequested
<1> QED BY <1>1, MemoryInvAlways, PTL
----------------------------------------------------------------------------
\* What a call of p for an OpenCL kernel that builds may end with.
Buildable(p) ==
  /\ request[p].source \in Compilable
  /\ request[p].name \in Defines[request[p].source]

FallbackInv ==
  /\ MemoryInv
  /\ OpenCLFailsOnlyToSave

LEMMA FallbackInvInductive == FallbackInv /\ [Next]_vars => FallbackInv'
<1> SUFFICES ASSUME FallbackInv, [Next]_vars PROVE FallbackInv'
  OBVIOUS
<1>1. MemoryInv /\ MemoryInv'
  BY MemoryInvInductive DEF FallbackInv
<1>2. backend' = backend
  BY DEF Next, Progress, SetEnabled, BuildHit, BuildMiss, LoadOpen, LoadRead, Compile,
         SaveOpen, SaveWrite, OpenCLFinish, CudaFinish, MetalFinish, SaveFails,
         SaveLosesTail, Crash, Fault, environment, vars
<1> DEFINE Fine(p) == Buildable(p) => outcome[p] \in {"none", "ok", "save_error"}
<1>3. SUFFICES ASSUME backend = "opencl" PROVE \A q \in Procs : Fine(q)'
  BY <1>1, <1>2 DEF FallbackInv, OpenCLFailsOnlyToSave, Buildable
<1>4. \A q \in Procs : Fine(q)
  BY <1>3 DEF FallbackInv, OpenCLFailsOnlyToSave, Buildable
<1>5. /\ request \in [Procs -> Request] /\ outcome \in [Procs -> Outcomes]
      /\ \A q \in Procs : pc[q] # "idle" => outcome[q] = "none"
  BY <1>1 DEF MemoryInv, FileInv
\* Hits and misses start a call of their own; the name fails only a kernel
\* that its source does not define.
<1>6. ASSUME NEW p \in Procs, NEW r \in Request, BuildHit(p, r)
      PROVE  \A q \in Procs : Fine(q)'
  <2> DEFINE entry == memory[p][Position(memory[p], CacheKey(r))]
  <2>0. Cached(memory[p], CacheKey(r))
    BY <1>6 DEF BuildHit
  <2>1. entry = [key |-> CacheKey(r), program |-> r.source]
    BY <1>1, <2>0, HitServes
  <2> HIDE DEF entry
  <2>2. /\ request' = [request EXCEPT ![p] = r]
        /\ outcome' = [outcome EXCEPT ![p] =
             IF backend = "opencl" /\ r.name \notin Defines[entry.program]
             THEN "name_error" ELSE "ok"]
    BY <1>6 DEF BuildHit, Return, entry
  <2> QED BY <1>4, <1>5, <2>1, <2>2 DEF Buildable
<1>7. ASSUME NEW p \in Procs, NEW r \in Request, BuildMiss(p, r)
      PROVE  \A q \in Procs : Fine(q)'
  BY <1>4, <1>5, <1>7 DEF BuildMiss, Buildable
\* The compiler rejects only a source that does not compile.
<1>8. ASSUME NEW p \in Procs, Compile(p)
      PROVE  \A q \in Procs : Fine(q)'
  BY <1>4, <1>5, <1>8 DEF Compile, Return, Buildable
<1>9. ASSUME NEW p \in Procs, OpenCLFinish(p) \/ CudaFinish(p) \/ MetalFinish(p)
      PROVE  \A q \in Procs : Fine(q)'
  <2>1. OpenCLFinish(p)
    BY <1>3, <1>9 DEF CudaFinish, MetalFinish
  <2> QED BY <1>4, <1>5, <2>1 DEF OpenCLFinish, Return, Buildable
<1>10. ASSUME NEW p \in Procs, SaveFails(p) \/ Crash(p)
       PROVE  \A q \in Procs : Fine(q)'
  BY <1>4, <1>5, <1>10 DEF SaveFails, Crash, Return, Buildable
\* A rejected binary sends the call to the compiler; no other step ends it.
<1>11. ASSUME NEW p \in Procs, LoadRead(p)
       PROVE  \A q \in Procs : Fine(q)'
  BY <1>4, <1>11 DEF LoadRead, Buildable
<1>12. ASSUME NEW p \in Procs, LoadOpen(p) \/ SaveOpen(p) \/ SaveWrite(p) \/ SaveLosesTail(p)
       PROVE  \A q \in Procs : Fine(q)'
  BY <1>4, <1>12 DEF LoadOpen, SaveOpen, SaveWrite, SaveLosesTail, Buildable
<1>13. ASSUME NEW p \in Procs, NEW flag \in BOOLEAN, SetEnabled(p, flag)
       PROVE  \A q \in Procs : Fine(q)'
  BY <1>4, <1>13 DEF SetEnabled, Buildable
<1>14. CASE UNCHANGED vars
  BY <1>4, <1>14 DEF vars, Buildable
<1> HIDE DEF Fine
<1> QED
  BY <1>6, <1>7, <1>8, <1>9, <1>10, <1>11, <1>12, <1>13, <1>14, RequestsTyped
     DEF Next, Progress

\* Whatever a cache file holds, and whoever rewrites it meanwhile, OpenCL
\* falls back to the compiler: a kernel that compiles and is defined fails
\* to build only when saveBinary throws.
THEOREM OpenCLAlwaysFallsBack == Spec => []OpenCLFailsOnlyToSave
<1>1. Init => FallbackInv
  <2> SUFFICES ASSUME Init PROVE FallbackInv
    OBVIOUS
  <2>1. FileInv
    BY RequestsTyped, BuildAssumption DEF Init, FileInv, Damaged, Steps
  <2>2. SoundMemory(<<>>)
    BY BuildAssumption DEF SoundMemory
  <2>3. MemoryInv
    BY <2>1, <2>2 DEF Init, MemoryInv, Outcomes
  <2> QED BY <2>3 DEF Init, FallbackInv, OpenCLFailsOnlyToSave
<1>2. FallbackInv => OpenCLFailsOnlyToSave
  BY DEF FallbackInv
<1> QED BY <1>1, <1>2, FallbackInvInductive, PTL DEF Spec

----------------------------------------------------------------------------
\* The variables no other invariant types.
CountersTyped ==
  /\ enabled \in [Procs -> BOOLEAN]
  /\ faults \in 0..MaxFaults
  /\ faulted \subseteq Sources
  /\ request \in [Procs -> Request]

\* Every step keeps the types of all variables.
THEOREM TypesAlwaysOK == Spec => []TypeOK
<1> USE BuildAssumption
<1>1. Init => CountersTyped
  BY RequestsTyped DEF Init, CountersTyped
<1>2. CountersTyped /\ FileInv /\ [Next]_vars => CountersTyped'
  <2> SUFFICES ASSUME CountersTyped, FileInv, [Next]_vars PROVE CountersTyped'
    OBVIOUS
  <2>1. request' \in [Procs -> Request]
    BY FileInvInductive DEF FileInv
  <2>2. \A p \in Procs : request[p].source \in Sources
    BY DEF FileInv, Request
  <2>3. ASSUME NEW p \in Procs,
               \/ \E flag \in BOOLEAN : SetEnabled(p, flag)
               \/ \E r \in Requests : BuildHit(p, r) \/ BuildMiss(p, r)
               \/ Progress(p)
        PROVE  CountersTyped'
    BY <2>1, <2>3 DEF CountersTyped, SetEnabled, BuildHit, BuildMiss, Progress, LoadOpen,
       LoadRead, Compile, SaveOpen, SaveWrite, OpenCLFinish, CudaFinish, MetalFinish,
       environment
  <2>4. ASSUME NEW p \in Procs, SaveFails(p) \/ SaveLosesTail(p) \/ Crash(p)
        PROVE  CountersTyped'
    <3>1. PICK hit \in SUBSET Sources : Fault(hit)
      <4> DEFINE hit == IF pc[p] = "write" THEN {request[p].source} ELSE {}
      <4>1. hit \in SUBSET Sources /\ {request[p].source} \in SUBSET Sources
        BY <2>2
      <4>2. Fault(hit) \/ Fault({request[p].source})
        BY <2>4 DEF SaveFails, SaveLosesTail, Crash
      <4> HIDE DEF hit
      <4> QED BY <4>1, <4>2
    <3>2. faults' \in 0..MaxFaults /\ faulted' \subseteq Sources
      BY <3>1 DEF Fault, CountersTyped
    <3>3. enabled' \in [Procs -> BOOLEAN]
      BY <2>4 DEF CountersTyped, SaveFails, SaveLosesTail, Crash
    <3> QED BY <2>1, <3>2, <3>3 DEF CountersTyped
  <2>5. CASE UNCHANGED vars
    BY <2>5 DEF CountersTyped, vars
  <2> QED BY <2>3, <2>4, <2>5 DEF Next
<1>3. MemoryInv => FileInv
  BY DEF MemoryInv
<1>4. MemoryInv /\ CountersTyped => TypeOK
  <2> SUFFICES ASSUME MemoryInv, CountersTyped PROVE TypeOK
    OBVIOUS
  <2>1. \A p \in Procs : memory[p] \in Seq(CacheEntry)
    BY DEF MemoryInv, SoundMemory
  <2>2. memory \in [Procs -> Seq(CacheEntry)]
    BY <2>1 DEF MemoryInv
  <2> QED BY <2>2 DEF MemoryInv, FileInv, CountersTyped, TypeOK
<1> QED BY <1>1, <1>2, <1>3, <1>4, MemoryInvAlways, PTL DEF Spec
=============================================================================
