---------------------------- MODULE DeviceQueue ----------------------------
(***************************************************************************)
(* A device (cle::Device and the memory and execution calls of its         *)
(* backend): its lifecycle, its command queue and the shared pointers that *)
(* own device memory.  The host enqueues commands and goes on, the device  *)
(* executes them later and in order; some host calls wait for the queue,   *)
(* others do not.  A consumer of an exported tensor (DLPack) reads the     *)
(* same memory from a stream of its own after syncToStream.                *)
(*                                                                         *)
(* External, as the code relies on it: an OpenCL queue is in order and     *)
(* keeps the memory its commands use; CUDA copies and fills run on the     *)
(* legacy stream, which is ordered with the blocking stream of a device;   *)
(* cuMemFree waits for the commands already issued.                        *)
(***************************************************************************)
EXTENDS Naturals, Sequences, FiniteSets

CONSTANTS
  Arrays,       \* array handles of the host program
  Addresses,    \* device memory, one value per allocation
  Values,       \* contents of an allocation
  Compute,      \* what the kernel computes from its input
  MaxQueue,     \* bound on the pending commands
  MaxContexts,  \* bound on the initializations of the device
  Reopening,    \* the backends whose finalized devices are initialized again
  NoData,       \* the null shared pointer
  NoValue       \* no value promised to the consumer

ASSUME QueueAssumption ==
  /\ MaxQueue \in Nat \ {0}
  /\ MaxContexts \in Nat \ {0}
  /\ Reopening \subseteq {"cuda", "metal"}
  /\ Compute \in [Values -> Values]
  /\ NoValue \notin Values
  /\ NoData \notin [at : Addresses, ctx : 1..MaxContexts]

VARIABLES
  backend,      \* "opencl", "cuda" or "metal"
  initialized,  \* Device::initialized
  waitFinish,   \* Device::waitFinish
  contexts,     \* contexts created so far, the last one is the current one
  data,         \* array -> its data_ pointer [at, ctx], or NoData
  inUse,        \* addresses the driver has allocated
  memory,       \* address -> value
  queue,        \* commands not executed yet, oldest first
  host,         \* "ready", or what the host is waiting in
  got,          \* what the last readTo returned
  consumer      \* [data, behind, promised] of the exported tensor

deviceVars == <<backend, initialized, waitFinish, contexts, data, inUse, memory,
                queue, host, got, consumer>>

Pointer == [at : Addresses, ctx : 1..MaxContexts]
Command == [op : {"set"}, to : Addresses, value : Values]
           \cup [op : {"copy", "kernel"}, to : Addresses, from : Addresses]
NoConsumer == [data |-> NoData, behind |-> 0, promised |-> NoValue]

----------------------------------------------------------------------------
\* What a command does to the memory.
Effect(cmd, mem) ==
  [mem EXCEPT ![cmd.to] =
     CASE cmd.op = "set"    -> cmd.value
       [] cmd.op = "copy"   -> mem[cmd.from]
       [] cmd.op = "kernel" -> Compute[mem[cmd.from]]]

\* The memory after commands have run in their order, and once all queued ones have.
After(cmds, mem) ==
  LET after[i \in 0..Len(cmds)] == IF i = 0 THEN mem ELSE Effect(cmds[i], after[i - 1])
  IN after[Len(cmds)]
Settled == After(queue, memory)

\* Addresses of queued commands, which OpenCL keeps alive.
Queued == UNION {{queue[i].to} \cup (IF queue[i].op = "set" THEN {} ELSE {queue[i].from})
                   : i \in 1..Len(queue)}

\* The host may use array a: it is between two calls, the device is
\* initialized and a was created since.
Ready == host = "ready" /\ initialized
Usable(a) == data[a] # NoData /\ data[a].ctx = contexts

\* Mutant of Drained: reads and writes do not wait.
DrainedAlways == TRUE

\* Metal executes on the host's own thread; the others wait for the queue.
Drained == backend = "metal" \/ queue = <<>>

\* The producer touches memory it had handed over: the promise is off.
Touch(pointer) ==
  consumer' = IF consumer.data = pointer THEN [consumer EXCEPT !.promised = NoValue]
              ELSE consumer

----------------------------------------------------------------------------
Init ==
  /\ backend \in {"opencl", "cuda", "metal"}
  /\ initialized = TRUE
  /\ waitFinish = FALSE
  /\ contexts = 1
  /\ data = [a \in Arrays |-> NoData]
  /\ inUse = {}
  /\ \E v \in Values : memory = [at \in Addresses |-> v] /\ got = v
  /\ queue = <<>>
  /\ host = "ready"
  /\ consumer = NoConsumer

\* allocate, from Array::create.
Allocate(a) ==
  /\ Ready /\ data[a] = NoData
  /\ \E at \in Addresses \ (inUse \cup Queued) :
       /\ data' = [data EXCEPT ![a] = [at |-> at, ctx |-> contexts]]
       /\ inUse' = inUse \cup {at}
  /\ UNCHANGED <<backend, initialized, waitFinish, contexts, memory, queue, host, got,
                 consumer>>

\* shallow_copy, view, reshape: a second holder of the same memory.
Share(a, b) ==
  /\ Ready /\ Usable(a) /\ data[b] = NoData
  /\ data' = [data EXCEPT ![b] = data[a]]
  /\ UNCHANGED <<backend, initialized, waitFinish, contexts, inUse, memory, queue, host,
                 got, consumer>>

\* The deleter of the shared pointer, run when its last holder lets it go.
\* CUDA frees only while its device is initialized.
Released(pointer) == inUse' = inUse \ {pointer.at}
Deleter(pointer) ==
  IF backend = "cuda"
  THEN IF initialized THEN queue = <<>> /\ Released(pointer) ELSE UNCHANGED inUse
  ELSE Released(pointer)

\* Mutant of Drop: frees the memory although others still hold it.
DropFrees(a) ==
  /\ host = "ready" /\ data[a] # NoData
  /\ data' = [data EXCEPT ![a] = NoData]
  /\ Deleter(data[a])
  /\ UNCHANGED <<backend, initialized, waitFinish, contexts, memory, queue, host, got,
                 consumer>>

\* An array goes out of scope, whatever the state of its device.
Drop(a) ==
  /\ host = "ready" /\ data[a] # NoData
  /\ data' = [data EXCEPT ![a] = NoData]
  /\ IF consumer.data = data[a] \/ \E b \in Arrays \ {a} : data[b] = data[a]
     THEN UNCHANGED inUse
     ELSE Deleter(data[a])
  /\ UNCHANGED <<backend, initialized, waitFinish, contexts, memory, queue, host, got,
                 consumer>>

\* writeFrom: the host data has been consumed when the call returns.
WriteFrom(a, v) ==
  /\ Ready /\ Usable(a) /\ Drained
  /\ memory' = [memory EXCEPT ![data[a].at] = v]
  /\ Touch(data[a])
  /\ UNCHANGED <<backend, initialized, waitFinish, contexts, data, inUse, queue, host, got>>

\* readTo: the data is there when the call returns.
ReadTo(a) ==
  /\ Ready /\ Usable(a) /\ Drained
  /\ got' = memory[data[a].at]
  /\ UNCHANGED <<backend, initialized, waitFinish, contexts, data, inUse, memory, queue,
                 host, consumer>>

\* Metal runs a fill or a copy at once, the others enqueue it.
Submit(cmd) ==
  IF backend = "metal"
  THEN memory' = Effect(cmd, memory) /\ UNCHANGED queue
  ELSE Len(queue) < MaxQueue /\ queue' = Append(queue, cmd) /\ UNCHANGED memory

Fill(a, v) ==
  /\ Ready /\ Usable(a)
  /\ Submit([op |-> "set", to |-> data[a].at, value |-> v])
  /\ Touch(data[a])
  /\ UNCHANGED <<backend, initialized, waitFinish, contexts, data, inUse, host, got>>

CopyTo(a, b) ==
  /\ Ready /\ Usable(a) /\ Usable(b)
  /\ Submit([op |-> "copy", to |-> data[b].at, from |-> data[a].at])
  /\ Touch(data[b])
  /\ UNCHANGED <<backend, initialized, waitFinish, contexts, data, inUse, host, got>>

\* executeKernel: launch, then finish, which waits only when told to; Metal
\* always waits for its command buffer.
ExecuteKernel(a, b) ==
  /\ Ready /\ Usable(a) /\ Usable(b)
  /\ Len(queue) < MaxQueue
  /\ queue' = Append(queue, [op |-> "kernel", to |-> data[b].at, from |-> data[a].at])
  /\ host' = IF backend = "metal" \/ waitFinish THEN "finish" ELSE "ready"
  /\ Touch(data[b])
  /\ UNCHANGED <<backend, initialized, waitFinish, contexts, data, inUse, memory, got>>

----------------------------------------------------------------------------
\* finish() of an initialized device that waits.
Finish ==
  /\ Ready /\ waitFinish
  /\ host' = "finish"
  /\ UNCHANGED <<backend, initialized, waitFinish, contexts, data, inUse, memory, queue,
                 got, consumer>>

\* Mutant of FinishReturns: waits on an event only waitFinish signals.
FinishReturnsWhenAsked ==
  /\ host = "finish" /\ queue = <<>> /\ waitFinish
  /\ host' = "ready"
  /\ UNCHANGED <<backend, initialized, waitFinish, contexts, data, inUse, memory, queue,
                 got, consumer>>

FinishReturns ==
  /\ host = "finish" /\ queue = <<>>
  /\ host' = "ready"
  /\ UNCHANGED <<backend, initialized, waitFinish, contexts, data, inUse, memory, queue,
                 got, consumer>>

SetWaitToFinish(flag) ==
  /\ host = "ready"
  /\ waitFinish' = flag
  /\ UNCHANGED <<backend, initialized, contexts, data, inUse, memory, queue, host, got,
                 consumer>>

\* Mutants of SyncToStream: no wait for the null stream; the consumer waits
\* for one command more than was issued.
SyncToStreamNoWait(a, ownStream) ==
  /\ Ready /\ Usable(a) /\ consumer = NoConsumer
  /\ backend = "cuda" \/ queue = <<>>
  /\ consumer' = [data |-> data[a], behind |-> IF ownStream THEN Len(queue) ELSE 0,
                  promised |-> Settled[data[a].at]]
  /\ UNCHANGED <<backend, initialized, waitFinish, contexts, data, inUse, memory, queue,
                 host, got>>
SyncToStreamLate(a, ownStream) ==
  /\ Ready /\ Usable(a) /\ consumer = NoConsumer
  /\ (backend = "cuda" /\ ownStream) \/ queue = <<>>
  /\ consumer' = [data |-> data[a], behind |-> Len(queue) + 1,
                  promised |-> Settled[data[a].at]]
  /\ UNCHANGED <<backend, initialized, waitFinish, contexts, data, inUse, memory, queue,
                 host, got>>

\* syncToStream before a tensor is handed over.  The host waits, except that
\* CUDA makes a consumer stream of its own wait for the commands issued so
\* far; the tensor holds a copy of the array.
SyncToStream(a, ownStream) ==
  /\ Ready /\ Usable(a) /\ consumer = NoConsumer
  /\ (backend = "cuda" /\ ownStream) \/ queue = <<>>
  /\ consumer' = [data |-> data[a], behind |-> Len(queue), promised |-> Settled[data[a].at]]
  /\ UNCHANGED <<backend, initialized, waitFinish, contexts, data, inUse, memory, queue,
                 host, got>>

\* The consumer is done and calls the deleter of the tensor.
ConsumerReleases ==
  /\ host = "ready" /\ consumer.data # NoData
  /\ consumer' = NoConsumer
  /\ IF \E b \in Arrays : data[b] = consumer.data
     THEN UNCHANGED inUse
     ELSE Deleter(consumer.data)
  /\ UNCHANGED <<backend, initialized, waitFinish, contexts, data, memory, queue, host, got>>

\* The device executes its oldest command.
Execute ==
  /\ queue # <<>>
  /\ memory' = Effect(Head(queue), memory)
  /\ queue' = Tail(queue)
  /\ consumer' = [consumer EXCEPT !.behind = IF @ = 0 THEN 0 ELSE @ - 1]
  /\ UNCHANGED <<backend, initialized, waitFinish, contexts, data, inUse, host, got>>

----------------------------------------------------------------------------
\* finalize, OpenCL: wait for the queue, then release everything.
OpenCLFinalize ==
  /\ backend = "opencl" /\ Ready
  /\ waitFinish' = TRUE
  /\ host' = "finalize"
  /\ UNCHANGED <<backend, initialized, contexts, data, inUse, memory, queue, got, consumer>>

OpenCLRelease ==
  /\ host = "finalize" /\ queue = <<>>
  /\ waitFinish' = FALSE
  /\ initialized' = FALSE
  /\ host' = "ready"
  /\ UNCHANGED <<backend, contexts, data, inUse, memory, queue, got, consumer>>

\* finalize, CUDA and Metal: the device is marked as not initialized first,
\* so finish returns at once and the queue is destroyed as it is; how much
\* of it still runs is the driver's choice.  Memory goes with a CUDA context.
EarlyFinalize ==
  /\ backend \in {"cuda", "metal"} /\ Ready
  /\ initialized' = FALSE
  /\ waitFinish' = TRUE
  /\ \E n \in 0..Len(queue) : memory' = After(SubSeq(queue, 1, n), memory)
  /\ queue' = <<>>
  /\ inUse' = IF backend = "cuda" THEN {} ELSE inUse
  /\ consumer' = [consumer EXCEPT !.behind = 0]
  /\ UNCHANGED <<backend, contexts, data, host, got>>

\* initialize of a finalized device: a new context.  OpenCL is never in
\* Reopening: its initialize would use the resources finalize has reset.
Initialize ==
  /\ host = "ready" /\ ~initialized
  /\ backend \in Reopening /\ contexts < MaxContexts
  /\ initialized' = TRUE
  /\ contexts' = contexts + 1
  /\ UNCHANGED <<backend, waitFinish, data, inUse, memory, queue, host, got, consumer>>

Next ==
  \/ \E a \in Arrays : Allocate(a) \/ Drop(a) \/ ReadTo(a)
  \/ \E a, b \in Arrays : Share(a, b) \/ CopyTo(a, b) \/ ExecuteKernel(a, b)
  \/ \E a \in Arrays, v \in Values : WriteFrom(a, v) \/ Fill(a, v)
  \/ \E a \in Arrays, ownStream \in BOOLEAN : SyncToStream(a, ownStream)
  \/ \E flag \in BOOLEAN : SetWaitToFinish(flag)
  \/ Finish \/ FinishReturns \/ ConsumerReleases \/ Execute
  \/ OpenCLFinalize \/ OpenCLRelease \/ EarlyFinalize \/ Initialize

Spec == Init /\ [][Next]_deviceVars

\* The device works through its queue and a wait that is over returns.
FairSpec ==
  Spec /\ WF_deviceVars(Execute) /\ WF_deviceVars(FinishReturns) /\ WF_deviceVars(OpenCLRelease)

----------------------------------------------------------------------------
\* Every variable has its type.
TypeOK ==
  /\ backend \in {"opencl", "cuda", "metal"}
  /\ initialized \in BOOLEAN /\ waitFinish \in BOOLEAN
  /\ contexts \in 1..MaxContexts
  /\ data \in [Arrays -> Pointer \cup {NoData}]
  /\ inUse \subseteq Addresses
  /\ memory \in [Addresses -> Values]
  /\ queue \in Seq(Command) /\ Len(queue) <= MaxQueue
  /\ host \in {"ready", "finish", "finalize"}
  /\ got \in Values
  /\ consumer \in [data : Pointer \cup {NoData}, behind : 0..MaxQueue,
                   promised : Values \cup {NoValue}]

\* A deleter frees the memory it was made for: what a live array or an
\* exported tensor points to stays allocated until its last holder is gone.
LiveMemoryIsOwned ==
  initialized =>
    /\ \A a \in Arrays : Usable(a) => data[a].at \in inUse
    /\ consumer.data # NoData /\ consumer.data.ctx = contexts => consumer.data.at \in inUse

\* When the consumer of a tensor starts, all the producer did to the array
\* before the handover has happened to its memory.
HandoverIsComplete ==
  initialized /\ consumer.data # NoData /\ consumer.behind = 0
    /\ consumer.data.ctx = contexts /\ consumer.promised # NoValue
  => memory[consumer.data.at] = consumer.promised

\* A host that waits for the queue gets control back.
HostReturns == host # "ready" ~> host = "ready"

\* finalize returns once the work that was queued is done: nothing is left
\* to be thrown away when the device releases its queue.
FinalizeWaits == [][initialized /\ ~initialized' => queue = <<>>]_deviceVars

----------------------------------------------------------------------------
\* Arrays as their users see them: usable handles, and the values the queue
\* will leave behind.
HoldsView == [a \in Arrays |-> IF initialized /\ Usable(a) THEN data[a] ELSE NoData]
ContentsView ==
  [p \in {HoldsView[a] : a \in Arrays} \ {NoData} |-> Settled[p.at]]

Store == INSTANCE ArrayStore
           WITH Cells <- Pointer, holds <- HoldsView, contents <- ContentsView, seen <- got

\* Queueing, waiting and freeing are invisible: every read returns what it
\* would if each call had taken effect before the next one was made.
ImplementsArrayStore == Store!StoreSpec
=============================================================================
