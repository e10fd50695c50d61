----------------------------- MODULE KernelBuild -----------------------------
(***************************************************************************)
(* buildKernel of the three backends, with the two caches it goes through: *)
(* the device's in-memory ProgramCache, and the DiskCache directory that   *)
(* every process of the machine shares.                                    *)
(*                                                                         *)
(* Each process runs one call at a time; a call that misses in memory      *)
(* reads and writes the shared file of its source in several system calls, *)
(* so calls of different processes interleave, and a crash can fall        *)
(* between any two steps.  DiskCache::saveBinary truncates the file and    *)
(* rewrites it in place: a file is a set of chunks, a hole being a chunk   *)
(* that was not (re)written.  All processes use devices with the same      *)
(* info string, hence one directory, and the hash of sources is taken as   *)
(* injective: a file name is the source itself.  The driver (external)     *)
(* accepts a text exactly when it is whole.                                *)
(***************************************************************************)
EXTENDS Naturals, Sequences, FiniteSets

CONSTANTS
  Procs,           \* processes sharing the cache directory
  Sources,         \* kernel sources, each with its own file
  Names,           \* kernel names
  Defines,         \* source -> the kernel names it defines
  Compilable,      \* the sources the driver's compiler accepts
  Chunks,          \* number of pieces a cache file is written in
  MAX_CACHE_SIZE,  \* bound of the in-memory cache
  MaxFaults,       \* bound on crashes and write failures
  Requests,        \* the kernels the processes may ask for
  NoName           \* the name part of an OpenCL cache key

ASSUME BuildAssumption ==
  /\ Chunks \in Nat \ {0}
  /\ MAX_CACHE_SIZE \in Nat \ {0}
  /\ MaxFaults \in Nat
  /\ Defines \in [Sources -> SUBSET Names]
  /\ Compilable \subseteq Sources
  /\ Requests \subseteq [source : Sources, name : Names]
  /\ NoName \notin Names

VARIABLES
  backend,   \* "opencl", "cuda" or "metal", the same for every process
  exists,    \* the sources whose cache file exists
  file,      \* source -> the chunks its cache file holds
  memory,    \* process -> its ProgramCache, least recently used entry first
  enabled,   \* process -> CLESPERANTO_NO_CACHE is unset
  pc,        \* process -> the next step of its call, "idle" outside a call
  request,   \* process -> [source, name] of its last call
  text,      \* process -> chunks of the binary, PTX or MSL text of the call
  cursor,    \* process -> file size it saw (reading), chunks written (writing)
  outcome,   \* process -> how its last call ended
  faults,    \* number of crashes and write failures so far
  faulted    \* the sources whose file a fault has hit

vars == <<backend, exists, file, memory, enabled, pc, request, text, cursor, outcome,
          faults, faulted>>
environment == <<backend, faults, faulted>>

Backends == {"opencl", "cuda", "metal"}
Request == [source : Sources, name : Names]
Key == [source : Sources, name : Names \cup {NoName}]
CacheEntry == [key : Key, program : Sources]
Whole == 1..Chunks
Outcomes == {"none", "ok", "compile_error", "save_error", "module_error", "name_error"}
Steps == {"idle", "lookup", "read", "compile", "save", "write", "module"}

----------------------------------------------------------------------------
\* Mutant of CacheKey: the kernel name is left out on every backend.
SharedKey(r) == [source |-> r.source, name |-> NoName]

\* The key of the in-memory cache: an OpenCL program serves every kernel of
\* its source, a CUDA function or Metal pipeline just one.
CacheKey(r) ==
  [source |-> r.source, name |-> IF backend = "opencl" THEN NoName ELSE r.name]

\* ProgramCache, as LeastRecentlyUsed specifies it.
Cached(m, key) == \E i \in 1..Len(m) : m[i].key = key
Position(m, key) == CHOOSE i \in 1..Len(m) : m[i].key = key
DropAt(m, at) == [j \in 1..(Len(m) - 1) |-> IF j < at THEN m[j] ELSE m[j + 1]]
\* Mutant of Inserted: evicts one program too late.
InsertedLate(m, entry) ==
  Append(IF Cached(m, entry.key) THEN DropAt(m, Position(m, entry.key))
         ELSE IF Len(m) > MAX_CACHE_SIZE THEN Tail(m) ELSE m,
         entry)
Inserted(m, entry) ==
  Append(IF Cached(m, entry.key) THEN DropAt(m, Position(m, entry.key))
         ELSE IF Len(m) >= MAX_CACHE_SIZE THEN Tail(m) ELSE m,
         entry)

\* Mutant of FileSize: one past the end.
FileSizePastEnd(f) == IF f = {} THEN 0 ELSE 1 + CHOOSE n \in f : \A m \in f : m <= n

\* file_size: the last chunk written, whatever holes come before it.
FileSize(f) == IF f = {} THEN 0 ELSE CHOOSE n \in f : \A m \in f : m <= n

\* The text of a program a driver call would be given.
IsWhole(t) == t = Whole
Damaged(s) == s \in exists /\ file[s] # Whole

\* Where the call goes once it has a text: OpenCL has already built a
\* program from it, CUDA and Metal still have to load it.
Goto(p, step) == pc' = [pc EXCEPT ![p] = step]

Return(p, result) ==
  /\ outcome' = [outcome EXCEPT ![p] = result]
  /\ text' = [text EXCEPT ![p] = {}]
  /\ cursor' = [cursor EXCEPT ![p] = 0]
  /\ Goto(p, "idle")

----------------------------------------------------------------------------
Init ==
  /\ backend \in Backends
  /\ exists = {}
  /\ file = [s \in Sources |-> {}]
  /\ memory = [p \in Procs |-> <<>>]
  /\ enabled = [p \in Procs |-> TRUE]
  /\ pc = [p \in Procs |-> "idle"]
  /\ \E r \in Requests : request = [p \in Procs |-> r]
  /\ text = [p \in Procs |-> {}]
  /\ cursor = [p \in Procs |-> 0]
  /\ outcome = [p \in Procs |-> "none"]
  /\ faults = 0
  /\ faulted = {}

\* use_cache(flag), between two calls.
SetEnabled(p, flag) ==
  /\ pc[p] = "idle"
  /\ enabled' = [enabled EXCEPT ![p] = flag]
  /\ UNCHANGED <<backend, exists, file, memory, pc, request, text, cursor, outcome,
                 faults, faulted>>

\* Level 1 hit.  OpenCL puts the program again and creates the kernel from
\* it, which fails when the source does not define the name.
BuildHit(p, r) ==
  LET key == CacheKey(r)
      entry == memory[p][Position(memory[p], key)]
  IN  /\ pc[p] = "idle"
      /\ Cached(memory[p], key)
      /\ request' = [request EXCEPT ![p] = r]
      /\ memory' = [memory EXCEPT ![p] = Inserted(@, entry)]
      /\ Return(p, IF backend = "opencl" /\ r.name \notin Defines[entry.program]
                   THEN "name_error" ELSE "ok")
      /\ UNCHANGED <<enabled, exists, file, environment>>

\* Level 1 miss: on to the disk when it is enabled, else to the compiler.
BuildMiss(p, r) ==
  /\ pc[p] = "idle"
  /\ ~Cached(memory[p], CacheKey(r))
  /\ request' = [request EXCEPT ![p] = r]
  /\ outcome' = [outcome EXCEPT ![p] = "none"]
  /\ Goto(p, IF enabled[p] THEN "lookup" ELSE "compile")
  /\ UNCHANGED <<exists, file, memory, enabled, text, cursor, environment>>

\* loadBinary: exists, open and tellg; a missing or empty file is a miss.
LoadOpen(p) ==
  LET f == file[request[p].source]
  IN  /\ pc[p] = "lookup"
      /\ IF request[p].source \notin exists \/ f = {}
         THEN Goto(p, "compile") /\ UNCHANGED cursor
         ELSE Goto(p, "read") /\ cursor' = [cursor EXCEPT ![p] = FileSize(f)]
      /\ UNCHANGED <<exists, file, memory, enabled, request, text, outcome, environment>>

\* Mutant of LoadRead: a binary the driver rejects ends the call.
LoadReadGivesUp(p) ==
  LET f == file[request[p].source]
      seen == f \cap 1..cursor[p]
      usable == FileSize(f) >= cursor[p] /\ (backend = "opencl" => IsWhole(seen))
  IN  /\ pc[p] = "read"
      /\ IF usable
         THEN /\ text' = [text EXCEPT ![p] = seen]
              /\ Goto(p, "module")
              /\ cursor' = [cursor EXCEPT ![p] = 0]
              /\ UNCHANGED outcome
         ELSE Return(p, "module_error")
      /\ UNCHANGED <<exists, file, memory, enabled, request, environment>>

\* loadBinary: read as many bytes as tellg reported.  The read fails when
\* the file was truncated meanwhile.  OpenCL then builds a program from the
\* binary, and falls through to the compiler when the driver rejects it;
\* CUDA and Metal take what was read.
LoadRead(p) ==
  LET f == file[request[p].source]
      seen == f \cap 1..cursor[p]
      usable == FileSize(f) >= cursor[p] /\ (backend = "opencl" => IsWhole(seen))
  IN  /\ pc[p] = "read"
      /\ IF usable
         THEN text' = [text EXCEPT ![p] = seen] /\ Goto(p, "module")
         ELSE Goto(p, "compile") /\ UNCHANGED text
      /\ cursor' = [cursor EXCEPT ![p] = 0]
      /\ UNCHANGED <<exists, file, memory, enabled, request, outcome, environment>>

\* Mutant of Compile: a file that exists is not saved again.
CompileSavesOnce(p) ==
  /\ pc[p] = "compile"
  /\ IF request[p].source \in Compilable \/ backend = "metal"
     THEN /\ text' = [text EXCEPT ![p] = Whole]
          /\ Goto(p, IF enabled[p] /\ request[p].source \notin exists THEN "save" ELSE "module")
          /\ UNCHANGED <<outcome, cursor>>
     ELSE Return(p, "compile_error")
  /\ UNCHANGED <<exists, file, memory, enabled, request, environment>>

\* Level 3.  OpenCL and CUDA compile the source here; Metal translates it,
\* which never fails, and compiles it only when it loads the library.
Compile(p) ==
  /\ pc[p] = "compile"
  /\ IF request[p].source \in Compilable \/ backend = "metal"
     THEN /\ text' = [text EXCEPT ![p] = Whole]
          /\ Goto(p, IF enabled[p] THEN "save" ELSE "module")
          /\ UNCHANGED <<outcome, cursor>>
     ELSE Return(p, "compile_error")
  /\ UNCHANGED <<exists, file, memory, enabled, request, environment>>

\* saveBinary: std::ofstream opens the file in place and truncates it.
SaveOpen(p) ==
  /\ pc[p] = "save"
  /\ exists' = exists \cup {request[p].source}
  /\ file' = [file EXCEPT ![request[p].source] = {}]
  /\ Goto(p, "write")
  /\ UNCHANGED <<memory, enabled, request, text, cursor, outcome, environment>>

\* Mutant of SaveWrite: the last chunk is not written.
SaveWriteStopsShort(p) ==
  LET next == cursor[p] + 1
  IN  /\ pc[p] = "write"
      /\ file' = [file EXCEPT ![request[p].source] = @ \cup {next}]
      /\ IF next + 1 >= Chunks
         THEN Goto(p, "module") /\ cursor' = [cursor EXCEPT ![p] = 0]
         ELSE cursor' = [cursor EXCEPT ![p] = next] /\ UNCHANGED pc
      /\ UNCHANGED <<exists, memory, enabled, request, text, outcome, environment>>

\* saveBinary: the next chunk goes at the stream's own offset, whatever
\* another process did to the file; after the last one the save is done.
SaveWrite(p) ==
  LET next == cursor[p] + 1
  IN  /\ pc[p] = "write"
      /\ file' = [file EXCEPT ![request[p].source] = @ \cup {next}]
      /\ IF next = Chunks
         THEN Goto(p, "module") /\ cursor' = [cursor EXCEPT ![p] = 0]
         ELSE cursor' = [cursor EXCEPT ![p] = next] /\ UNCHANGED pc
      /\ UNCHANGED <<exists, memory, enabled, request, text, outcome, environment>>

\* OpenCL: the program is cached before the kernel is created from it, so a
\* wrong name fails the call and leaves the program cached.
OpenCLFinish(p) ==
  LET r == request[p]
  IN  /\ pc[p] = "module" /\ backend = "opencl"
      /\ memory' = [memory EXCEPT ![p] =
                      Inserted(@, [key |-> CacheKey(r), program |-> r.source])]
      /\ Return(p, IF r.name \in Defines[r.source] THEN "ok" ELSE "name_error")
      /\ UNCHANGED <<exists, file, enabled, request, environment>>

\* CUDA: cuModuleLoadData, cuModuleGetFunction, then the function is cached.
CudaFinish(p) ==
  LET r == request[p]
  IN  /\ pc[p] = "module" /\ backend = "cuda"
      /\ IF ~IsWhole(text[p])
         THEN Return(p, "module_error") /\ UNCHANGED memory
         ELSE IF r.name \notin Defines[r.source]
         THEN Return(p, "name_error") /\ UNCHANGED memory
         ELSE /\ memory' = [memory EXCEPT ![p] =
                              Inserted(@, [key |-> CacheKey(r), program |-> r.source])]
              /\ Return(p, "ok")
      /\ UNCHANGED <<exists, file, enabled, request, environment>>

\* Metal: newLibrary compiles the text, then function and pipeline.
MetalFinish(p) ==
  LET r == request[p]
  IN  /\ pc[p] = "module" /\ backend = "metal"
      /\ IF ~IsWhole(text[p]) \/ r.source \notin Compilable
         THEN Return(p, "module_error") /\ UNCHANGED memory
         ELSE IF r.name \notin Defines[r.source]
         THEN Return(p, "name_error") /\ UNCHANGED memory
         ELSE /\ memory' = [memory EXCEPT ![p] =
                              Inserted(@, [key |-> CacheKey(r), program |-> r.source])]
              /\ Return(p, "ok")
      /\ UNCHANGED <<exists, file, enabled, request, environment>>

----------------------------------------------------------------------------
\* Faults: at most MaxFaults of them.
Fault(hit) ==
  /\ faults < MaxFaults
  /\ faults' = faults + 1
  /\ faulted' = faulted \cup hit
  /\ UNCHANGED backend

\* saveBinary throws: the file cannot be opened, or a write fails.  The
\* exception leaves buildKernel before the program is cached.
SaveFails(p) ==
  /\ pc[p] \in {"save", "write"}
  /\ Return(p, "save_error")
  /\ Fault(IF pc[p] = "write" THEN {request[p].source} ELSE {})
  /\ UNCHANGED <<exists, file, memory, enabled, request>>

\* The buffered end of the file is lost when the destructor of the stream
\* flushes it: nothing reports it, the call goes on.
SaveLosesTail(p) ==
  /\ pc[p] = "write"
  /\ Goto(p, "module")
  /\ cursor' = [cursor EXCEPT ![p] = 0]
  /\ Fault({request[p].source})
  /\ UNCHANGED <<exists, file, memory, enabled, request, text, outcome>>

\* The process dies and is started again: memory is lost, the files stay.
Crash(p) ==
  /\ Fault(IF pc[p] = "write" THEN {request[p].source} ELSE {})
  /\ memory' = [memory EXCEPT ![p] = <<>>]
  /\ enabled' = [enabled EXCEPT ![p] = TRUE]
  /\ Return(p, "none")
  /\ UNCHANGED <<exists, file, request>>

----------------------------------------------------------------------------
\* The steps of a call in progress; they are what the process executes, so
\* the scheduler lets them happen.
Progress(p) ==
  \/ LoadOpen(p) \/ LoadRead(p) \/ Compile(p) \/ SaveOpen(p) \/ SaveWrite(p)
  \/ OpenCLFinish(p) \/ CudaFinish(p) \/ MetalFinish(p)

Next ==
  \/ \E p \in Procs, flag \in BOOLEAN : SetEnabled(p, flag)
  \/ \E p \in Procs, r \in Requests : BuildHit(p, r)
  \/ \E p \in Procs, r \in Requests : BuildMiss(p, r)
  \/ \E p \in Procs : Progress(p)
  \/ \E p \in Procs : SaveFails(p)
  \/ \E p \in Procs : SaveLosesTail(p)
  \/ \E p \in Procs : Crash(p)

Spec == Init /\ [][Next]_vars
FairSpec == Spec /\ \A p \in Procs : WF_vars(Progress(p))

----------------------------------------------------------------------------
\* Every variable has its type.
TypeOK ==
  /\ backend \in Backends
  /\ exists \subseteq Sources
  /\ file \in [Sources -> SUBSET Whole]
  /\ memory \in [Procs -> Seq(CacheEntry)]
  /\ enabled \in [Procs -> BOOLEAN]
  /\ pc \in [Procs -> Steps]
  /\ request \in [Procs -> Request]
  /\ text \in [Procs -> SUBSET Whole]
  /\ cursor \in [Procs -> 0..Chunks]
  /\ outcome \in [Procs -> Outcomes]
  /\ faults \in 0..MaxFaults
  /\ faulted \subseteq Sources

\* A call that succeeds serves a program compiled from the source it was
\* given that defines the kernel it was given, whichever cache it came from
\* and whatever other processes were doing to the files.
ServedAsRequested ==
  \A p \in Procs :
    outcome[p] = "ok" =>
      /\ request[p].source \in Compilable
      /\ request[p].name \in Defines[request[p].source]
      /\ \E i \in 1..Len(memory[p]) :
           /\ memory[p][i].key = CacheKey(request[p])
           /\ memory[p][i].program = request[p].source

\* The in-memory cache of a process holds only programs of compilable
\* sources, each under a key of its own source, and never more than
\* MAX_CACHE_SIZE of them: no damaged file ever gets into memory.
MemoryIsSound ==
  \A p \in Procs :
    /\ Len(memory[p]) <= MAX_CACHE_SIZE
    /\ \A i \in 1..Len(memory[p]) :
         /\ memory[p][i].program = memory[p][i].key.source
         /\ memory[p][i].program \in Compilable
         /\ memory[p][i].key.name \in Defines[memory[p][i].program] \cup {NoName}
    /\ \A i, j \in 1..Len(memory[p]) : i # j => memory[p][i].key # memory[p][j].key

\* Several processes may truncate and rewrite the same file at once, yet
\* once the writers are done the file is whole: only a crash or a failed
\* write leaves a damaged file behind.
DamageNeedsAFault ==
  \A s \in Sources :
    Damaged(s) /\ s \notin faulted =>
      \E p \in Procs : pc[p] = "write" /\ request[p].source = s

\* OpenCL falls back to the compiler whatever the cache file holds: a kernel
\* that compiles and is defined fails to build only when saveBinary throws.
OpenCLFailsOnlyToSave ==
  backend = "opencl" =>
    \A p \in Procs :
      /\ request[p].source \in Compilable
      /\ request[p].name \in Defines[request[p].source]
      => outcome[p] \in {"none", "ok", "save_error"}

\* OpenCL repairs the cache: once faults have stopped, a build that consults
\* a damaged file of a compilable source ends with the file whole.
OpenCLHeals ==
  \A p \in Procs, s \in Compilable :
    (/\ backend = "opencl"
     /\ pc[p] = "lookup" /\ request[p].source = s
     /\ Damaged(s) /\ faults = MaxFaults)
    ~> file[s] = Whole

\* What loadBinary documents: the binary that was saved, or nothing.
LoadReturnsTheBinary ==
  \A p \in Procs : pc[p] = "module" => IsWhole(text[p])
=============================================================================
