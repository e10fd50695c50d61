------------------------- MODULE DeviceQueue_proofs -------------------------
(***************************************************************************)
(* A device with any number of arrays, addresses, values, commands and     *)
(* re-initializations.                                                     *)
(*                                                                         *)
(*   types      after commands have run the memory still holds values, by  *)
(*              induction over the commands                                *)
(*   ownership  as long as no CUDA device is initialized again after       *)
(*              finalize, what an array or an exported tensor points to    *)
(*              stays allocated, and nobody else's memory is at its        *)
(*              address                                                    *)
(*   handover   the commands a consumer waits for put what it was promised *)
(*              where it reads, and the later ones leave it there          *)
(*   arrays     with ownership and the queue's order, every call on an     *)
(*              array takes effect at once in the eyes of its user         *)
(***************************************************************************)
EXTENDS DeviceQueue, WellFoundedInduction, TLAPS

\* Induction, for a set of numbers.
LEMMA SetInduction ==
  ASSUME NEW T \in SUBSET Nat, 0 \in T, \A n \in T : n + 1 \in T
  PROVE  \A n \in Nat : n \in T
<1> SUFFICES ASSUME Nat \ T # {} PROVE FALSE
  OBVIOUS
<1>1. PICK n \in Nat \ T : \A k \in Nat \ T : ~ (<<k, n>> \in OpToRel(<, Nat))
  BY NatLessThanWellFounded, WFMin
<1>2. \A k \in Nat : k < n => k \in T
  BY <1>1 DEF OpToRel
<1>3. n # 0 /\ n - 1 \in Nat /\ n - 1 < n /\ (n - 1) + 1 = n
  OBVIOUS
<1> QED
  BY <1>1, <1>2, <1>3

\* f lists the memory before the first and after each of the first n commands.
Runs(cmds, mem, n, f) ==
  f = [i \in 0..n |-> IF i = 0 THEN mem ELSE Effect(cmds[i], f[i - 1])]

\* Any number of commands can be run from any memory.
LEMMA RunExists ==
  ASSUME NEW cmds, NEW mem
  PROVE  \A n \in Nat : \E f : Runs(cmds, mem, n, f)
<1> DEFINE T == {n \in Nat : \E f : Runs(cmds, mem, n, f)}
<1>1. 0 \in T
  <2> DEFINE f == [i \in 0..0 |-> mem]
  <2>1. f = [i \in 0..0 |-> IF i = 0 THEN mem ELSE Effect(cmds[i], f[i - 1])]
    OBVIOUS
  <2> QED
    BY <2>1 DEF Runs
<1>2. ASSUME NEW n \in T
      PROVE  n + 1 \in T
  <2>1. PICK f : Runs(cmds, mem, n, f)
    OBVIOUS
  <2> DEFINE g == [i \in 0..(n + 1) |-> IF i = n + 1 THEN Effect(cmds[i], f[n]) ELSE f[i]]
  <2>2. \A i \in 0..n : f[i] = IF i = 0 THEN mem ELSE Effect(cmds[i], f[i - 1])
    BY <2>1 DEF Runs
  <2>3. \A i \in 0..(n + 1) : g[i] = IF i = 0 THEN mem ELSE Effect(cmds[i], g[i - 1])
    <3> TAKE i \in 0..(n + 1)
    <3>1. CASE i = 0
      BY <2>2, <3>1
    <3>2. CASE i \in 1..n
      <4>1. g[i] = f[i] /\ g[i - 1] = f[i - 1]
        BY <3>2
      <4> HIDE DEF g
      <4> QED
        BY <2>2, <3>2, <4>1
    <3>3. CASE i = n + 1
      <4>1. g[i] = Effect(cmds[i], f[n]) /\ g[i - 1] = f[n] /\ i # 0
        BY <3>3
      <4> HIDE DEF g
      <4> QED
        BY <4>1
    <3> QED
      BY <3>1, <3>2, <3>3
  <2>4. g = [i \in 0..(n + 1) |-> g[i]]
    OBVIOUS
  <2> HIDE DEF g
  <2>5. g = [i \in 0..(n + 1) |-> IF i = 0 THEN mem ELSE Effect(cmds[i], g[i - 1])]
    BY <2>3, <2>4
  <2>6. Runs(cmds, mem, n + 1, g)
    BY <2>5 DEF Runs
  <2> QED
    BY <2>6
<1> HIDE DEF T
<1>3. \A n \in Nat : n \in T
  BY <1>1, <1>2, SetInduction DEF T
<1> QED
  BY <1>3 DEF T

\* What the memory is after commands, by the steps that lead there.
LEMMA AfterRuns ==
  ASSUME NEW cmds, NEW mem, Len(cmds) \in Nat
  PROVE  \E f : Runs(cmds, mem, Len(cmds), f) /\ After(cmds, mem) = f[Len(cmds)]
<1> DEFINE f == CHOOSE f : f = [i \in 0..Len(cmds) |->
                                  IF i = 0 THEN mem ELSE Effect(cmds[i], f[i - 1])]
<1>1. After(cmds, mem) = f[Len(cmds)]
  BY DEF After
<1>2. PICK g : Runs(cmds, mem, Len(cmds), g)
  BY RunExists
<1>3. f = [i \in 0..Len(cmds) |-> IF i = 0 THEN mem ELSE Effect(cmds[i], f[i - 1])]
  BY <1>2 DEF Runs
<1> HIDE DEF f
<1> QED
  BY <1>1, <1>3 DEF Runs

\* Runs of the same commands from the same memory pass through the same states.
LEMMA RunsAgree ==
  ASSUME NEW cmds, NEW other, NEW mem, NEW n \in Nat, NEW k \in 0..n, NEW f, NEW g,
         Runs(cmds, mem, n, f), Runs(other, mem, k, g),
         \A i \in 1..k : cmds[i] = other[i]
  PROVE  f[k] = g[k]
<1> DEFINE T == {i \in Nat : i <= k => f[i] = g[i]}
<1>1. /\ \A i \in 0..n : f[i] = IF i = 0 THEN mem ELSE Effect(cmds[i], f[i - 1])
      /\ \A i \in 0..k : g[i] = IF i = 0 THEN mem ELSE Effect(other[i], g[i - 1])
  BY DEF Runs
<1>2. 0 \in T
  BY <1>1
<1>3. ASSUME NEW i \in T
      PROVE  i + 1 \in T
  <2> SUFFICES ASSUME i + 1 <= k PROVE f[i + 1] = g[i + 1]
    OBVIOUS
  <2>1. i \in Nat /\ f[i] = g[i]
    OBVIOUS
  <2>2. i + 1 \in 0..n /\ i + 1 \in 0..k /\ i + 1 \in 1..k /\ i + 1 # 0 /\ (i + 1) - 1 = i
    BY <2>1
  <2> HIDE DEF T
  <2>3. f[i + 1] = Effect(cmds[i + 1], f[i]) /\ g[i + 1] = Effect(other[i + 1], g[i])
    BY <1>1, <2>2
  <2> QED
    BY <2>1, <2>2, <2>3
<1> HIDE DEF T
<1>4. \A i \in Nat : i \in T
  BY <1>2, <1>3, SetInduction DEF T
<1> QED
  BY <1>4 DEF T

\* No command, no change.
LEMMA AfterNothing ==
  ASSUME NEW mem
  PROVE  After(<<>>, mem) = mem
<1>1. PICK f : Runs(<<>>, mem, 0, f) /\ After(<<>>, mem) = f[0]
  BY AfterRuns
<1> QED
  BY <1>1 DEF Runs

\* A command issued last has its effect last.
LEMMA AfterAppend ==
  ASSUME NEW S, NEW cmds \in Seq(S), NEW cmd \in S, NEW mem
  PROVE  After(Append(cmds, cmd), mem) = Effect(cmd, After(cmds, mem))
<1> DEFINE n == Len(cmds)
           all == Append(cmds, cmd)
<1>1. /\ n \in Nat /\ Len(all) = n + 1 /\ all[n + 1] = cmd
      /\ \A i \in 1..n : all[i] = cmds[i]
  OBVIOUS
<1> HIDE DEF all
<1>2. PICK f : Runs(all, mem, n + 1, f) /\ After(all, mem) = f[n + 1]
  BY <1>1, AfterRuns
<1>3. PICK g : Runs(cmds, mem, n, g) /\ After(cmds, mem) = g[n]
  BY <1>1, AfterRuns
<1>4. f[n] = g[n]
  BY <1>1, <1>2, <1>3, RunsAgree
<1>5. f[n + 1] = Effect(all[n + 1], f[n])
  BY <1>1, <1>2 DEF Runs
<1> QED
  BY <1>1, <1>2, <1>3, <1>4, <1>5 DEF all

\* The command at the head has its effect first.
LEMMA AfterHead ==
  ASSUME NEW S, NEW cmds \in Seq(S), cmds # <<>>, NEW mem
  PROVE  After(cmds, mem) = After(Tail(cmds), Effect(Head(cmds), mem))
<1> DEFINE n == Len(Tail(cmds))
           rest == Tail(cmds)
           first == Effect(Head(cmds), mem)
<1>1. /\ n \in Nat /\ Len(cmds) = n + 1 /\ cmds[1] = Head(cmds)
      /\ \A i \in 1..n : rest[i] = cmds[i + 1]
  OBVIOUS
<1>2. PICK f : Runs(cmds, mem, n + 1, f) /\ After(cmds, mem) = f[n + 1]
  BY <1>1, AfterRuns
<1>3. PICK g : Runs(rest, first, n, g) /\ After(rest, first) = g[n]
  BY <1>1, AfterRuns
<1>4. /\ \A i \in 0..(n + 1) : f[i] = IF i = 0 THEN mem ELSE Effect(cmds[i], f[i - 1])
      /\ \A i \in 0..n : g[i] = IF i = 0 THEN first ELSE Effect(rest[i], g[i - 1])
  BY <1>2, <1>3 DEF Runs
<1> DEFINE T == {i \in Nat : i <= n => f[i + 1] = g[i]}
<1>5. 0 \in T
  <2>1. 1 \in 0..(n + 1) /\ 0 \in 0..n /\ 0 \in 0..(n + 1) /\ 1 - 1 = 0 /\ 0 + 1 = 1
    BY <1>1
  <2>2. f[1] = Effect(cmds[1], f[0]) /\ f[0] = mem /\ g[0] = first
    BY <1>4, <2>1
  <2> QED
    BY <1>1, <2>1, <2>2
<1>6. ASSUME NEW i \in T
      PROVE  i + 1 \in T
  <2> SUFFICES ASSUME i + 1 <= n PROVE f[(i + 1) + 1] = g[i + 1]
    OBVIOUS
  <2>1. i \in Nat /\ f[i + 1] = g[i]
    BY <1>1
  <2>2. /\ i + 2 \in 0..(n + 1) /\ i + 1 \in 1..n /\ i + 1 \in 0..n /\ i + 1 # 0 /\ i + 2 # 0
        /\ (i + 2) - 1 = i + 1 /\ (i + 1) - 1 = i /\ (i + 1) + 1 = i + 2
    BY <1>1, <2>1
  <2> HIDE DEF T, rest, first, n
  <2>3. f[i + 2] = Effect(cmds[i + 2], f[i + 1]) /\ g[i + 1] = Effect(rest[i + 1], g[i])
    BY <1>4, <2>2
  <2>4. rest[i + 1] = cmds[i + 2]
    BY <1>1, <2>2
  <2> QED
    BY <2>1, <2>2, <2>3, <2>4
<1> HIDE DEF T, rest, first
<1>7. \A i \in Nat : i \in T
  BY <1>5, <1>6, SetInduction DEF T
<1>8. f[n + 1] = g[n]
  BY <1>1, <1>7 DEF T
<1> QED
  BY <1>2, <1>3, <1>8 DEF rest, first

\* A command writes a value to one address.
LEMMA EffectTyped ==
  ASSUME NEW cmd \in Command, NEW mem \in [Addresses -> Values]
  PROVE  Effect(cmd, mem) \in [Addresses -> Values] /\ cmd.to \in Addresses
<1>1. CASE cmd \in [op : {"set"}, to : Addresses, value : Values]
  BY <1>1 DEF Effect
<1>2. CASE cmd \in [op : {"copy", "kernel"}, to : Addresses, from : Addresses]
  BY <1>2, QueueAssumption DEF Effect
<1> QED
  BY <1>1, <1>2 DEF Command

\* Whatever runs, memory holds values.
LEMMA AfterTyped ==
  ASSUME NEW cmds \in Seq(Command), NEW mem \in [Addresses -> Values]
  PROVE  After(cmds, mem) \in [Addresses -> Values]
<1> DEFINE n == Len(cmds)
<1>1. n \in Nat /\ \A i \in 1..n : cmds[i] \in Command
  OBVIOUS
<1>2. PICK f : Runs(cmds, mem, n, f) /\ After(cmds, mem) = f[n]
  BY <1>1, AfterRuns
<1>3. \A i \in 0..n : f[i] = IF i = 0 THEN mem ELSE Effect(cmds[i], f[i - 1])
  BY <1>2 DEF Runs
<1> DEFINE T == {i \in Nat : i <= n => f[i] \in [Addresses -> Values]}
<1>4. 0 \in T
  BY <1>1, <1>3
<1>5. ASSUME NEW i \in T
      PROVE  i + 1 \in T
  <2> SUFFICES ASSUME i + 1 <= n PROVE f[i + 1] \in [Addresses -> Values]
    OBVIOUS
  <2>1. i \in Nat /\ f[i] \in [Addresses -> Values]
    BY <1>1
  <2>2. i + 1 \in 1..n /\ i + 1 \in 0..n /\ i + 1 # 0 /\ (i + 1) - 1 = i
    BY <1>1, <2>1
  <2> HIDE DEF T, n
  <2>3. f[i + 1] = Effect(cmds[i + 1], f[i])
    BY <1>3, <2>2
  <2> QED
    BY <1>1, <2>1, <2>2, <2>3, EffectTyped
<1> HIDE DEF T
<1>6. \A i \in Nat : i \in T
  BY <1>4, <1>5, SetInduction DEF T
<1> QED
  BY <1>1, <1>2, <1>6 DEF T

----------------------------------------------------------------------------
\* The consumer's fields.
ConsumerType == [data : Pointer \cup {NoData}, behind : 0..MaxQueue,
                 promised : Values \cup {NoValue}]

\* A handover that is off promises nothing; it holds what it held.
LEMMA TouchTyped ==
  ASSUME NEW p, consumer \in ConsumerType, Touch(p)
  PROVE  consumer' \in ConsumerType
BY DEF Touch, ConsumerType

\* A command of usable arrays.
LEMMA SubmitTyped ==
  ASSUME TypeOK, NEW cmd \in Command, Submit(cmd)
  PROVE  /\ memory' \in [Addresses -> Values]
         /\ queue' \in Seq(Command) /\ Len(queue') <= MaxQueue
<1>1. Len(queue) \in Nat /\ MaxQueue \in Nat
  BY QueueAssumption DEF TypeOK
<1>2. CASE backend = "metal"
  BY <1>2, EffectTyped DEF Submit, TypeOK
<1>3. CASE backend # "metal"
  <2>1. queue' = Append(queue, cmd) /\ Len(queue) < MaxQueue /\ memory' = memory
    BY <1>3 DEF Submit
  <2>2. queue' \in Seq(Command) /\ Len(queue') = Len(queue) + 1
    BY <2>1 DEF TypeOK
  <2> QED
    BY <1>1, <2>1, <2>2 DEF TypeOK
<1> QED
  BY <1>2, <1>3

\* A usable array points into the current context.
LEMMA UsableTyped ==
  ASSUME TypeOK, NEW a \in Arrays, Usable(a)
  PROVE  data[a] \in Pointer /\ data[a].at \in Addresses /\ data[a].ctx = contexts
BY DEF TypeOK, Usable, Pointer

\* What fills, copies and kernels submit are commands.
LEMMA CommandsTyped ==
  ASSUME NEW to \in Addresses, NEW from \in Addresses, NEW v \in Values
  PROVE  /\ [op |-> "set", to |-> to, value |-> v] \in Command
         /\ [op |-> "copy", to |-> to, from |-> from] \in Command
         /\ [op |-> "kernel", to |-> to, from |-> from] \in Command
BY DEF Command

\* The device starts with all types right.
LEMMA TypeInit == Init => TypeOK
<1> SUFFICES ASSUME Init PROVE TypeOK
  OBVIOUS
<1>1. consumer \in ConsumerType
  BY QueueAssumption DEF Init, NoConsumer, ConsumerType
<1>2. queue \in Seq(Command) /\ Len(queue) <= MaxQueue
  BY QueueAssumption DEF Init
<1>3. memory \in [Addresses -> Values] /\ got \in Values
  BY DEF Init
<1>4. data \in [Arrays -> Pointer \cup {NoData}] /\ inUse \subseteq Addresses
  BY DEF Init
<1>5. contexts \in 1..MaxContexts
  BY QueueAssumption DEF Init
<1>6. /\ backend \in {"opencl", "cuda", "metal"} /\ host \in {"ready", "finish", "finalize"}
      /\ initialized \in BOOLEAN /\ waitFinish \in BOOLEAN
  BY DEF Init
<1> QED
  BY <1>1, <1>2, <1>3, <1>4, <1>5, <1>6 DEF TypeOK, ConsumerType

\* Calls that change memory, through the queue or not.
LEMMA WritesTyped ==
  ASSUME TypeOK,
         \/ \E a \in Arrays, v \in Values : WriteFrom(a, v) \/ Fill(a, v)
         \/ \E a, b \in Arrays : CopyTo(a, b) \/ ExecuteKernel(a, b)
  PROVE  TypeOK'
<1>1. consumer \in ConsumerType
  BY DEF TypeOK, ConsumerType
<1>2. ASSUME consumer' \in ConsumerType, memory' \in [Addresses -> Values],
             queue' \in Seq(Command), Len(queue') <= MaxQueue,
             host' \in {"ready", "finish"},
             UNCHANGED <<backend, initialized, waitFinish, contexts, data, inUse, got>>
      PROVE  TypeOK'
  BY <1>2 DEF TypeOK, ConsumerType
<1>3. ASSUME NEW a \in Arrays, NEW v \in Values, WriteFrom(a, v)
      PROVE  TypeOK'
  <2>1. consumer' \in ConsumerType
    BY <1>1, <1>3, TouchTyped DEF WriteFrom
  <2>2. memory' \in [Addresses -> Values]
    BY <1>3 DEF WriteFrom, TypeOK
  <2> QED
    BY <1>2, <1>3, <2>1, <2>2 DEF WriteFrom, TypeOK, Ready
<1>4. ASSUME NEW a \in Arrays, NEW v \in Values, Fill(a, v)
      PROVE  TypeOK'
  <2>1. consumer' \in ConsumerType
    BY <1>1, <1>4, TouchTyped DEF Fill
  <2>2. data[a].at \in Addresses
    BY <1>4, UsableTyped DEF Fill
  <2> DEFINE cmd == [op |-> "set", to |-> data[a].at, value |-> v]
  <2>3. cmd \in Command
    BY <2>2, CommandsTyped
  <2>4. Submit(cmd)
    BY <1>4 DEF Fill
  <2> HIDE DEF cmd
  <2> QED
    BY <1>2, <1>4, <2>1, <2>3, <2>4, SubmitTyped DEF Fill, Ready
<1>5. ASSUME NEW a \in Arrays, NEW b \in Arrays, CopyTo(a, b)
      PROVE  TypeOK'
  <2>1. consumer' \in ConsumerType
    BY <1>1, <1>5, TouchTyped DEF CopyTo
  <2>2. data[a].at \in Addresses /\ data[b].at \in Addresses
    BY <1>5, UsableTyped DEF CopyTo
  <2> DEFINE cmd == [op |-> "copy", to |-> data[b].at, from |-> data[a].at]
  <2>3. cmd \in Command
    BY <2>2 DEF Command
  <2>4. Submit(cmd)
    BY <1>5 DEF CopyTo
  <2> HIDE DEF cmd
  <2> QED
    BY <1>2, <1>5, <2>1, <2>3, <2>4, SubmitTyped DEF CopyTo, Ready
<1>6. ASSUME NEW a \in Arrays, NEW b \in Arrays, ExecuteKernel(a, b)
      PROVE  TypeOK'
  <2>1. consumer' \in ConsumerType
    BY <1>1, <1>6, TouchTyped DEF ExecuteKernel
  <2>2. data[a].at \in Addresses /\ data[b].at \in Addresses
    BY <1>6, UsableTyped DEF ExecuteKernel
  <2> DEFINE cmd == [op |-> "kernel", to |-> data[b].at, from |-> data[a].at]
  <2>3. cmd \in Command
    BY <2>2 DEF Command
  <2>4. queue' = Append(queue, cmd) /\ Len(queue) < MaxQueue
    BY <1>6 DEF ExecuteKernel
  <2> HIDE DEF cmd
  <2>5. queue' \in Seq(Command) /\ Len(queue') <= MaxQueue
    BY <2>3, <2>4, QueueAssumption DEF TypeOK
  <2> QED
    BY <1>2, <1>6, <2>1, <2>5 DEF ExecuteKernel, TypeOK
<1> QED
  BY <1>3, <1>4, <1>5, <1>6

\* Handover, execution and the early end of a device.
LEMMA ExecuteTyped == TypeOK /\ Execute => TypeOK'
<1> SUFFICES ASSUME TypeOK, Execute PROVE TypeOK'
  OBVIOUS
<1>1. Head(queue) \in Command /\ queue' = Tail(queue) /\ Tail(queue) \in Seq(Command)
  BY DEF TypeOK, Execute
<1>2. Len(queue') <= MaxQueue
  BY <1>1, QueueAssumption DEF TypeOK, Execute
<1>3. memory' \in [Addresses -> Values]
  BY <1>1, EffectTyped DEF TypeOK, Execute
<1>4. consumer' \in ConsumerType
  BY QueueAssumption DEF TypeOK, Execute, ConsumerType
<1> QED
  BY <1>1, <1>2, <1>3, <1>4 DEF TypeOK, Execute, ConsumerType

\* Whatever part of the queue still ran, memory holds values.
LEMMA EarlyFinalizeTyped == TypeOK /\ EarlyFinalize => TypeOK'
<1> SUFFICES ASSUME TypeOK, EarlyFinalize PROVE TypeOK'
  OBVIOUS
<1>1. PICK n \in 0..Len(queue) : memory' = After(SubSeq(queue, 1, n), memory)
  BY DEF EarlyFinalize
<1>2. SubSeq(queue, 1, n) \in Seq(Command)
  BY DEF TypeOK
<1>3. memory' \in [Addresses -> Values]
  BY <1>1, <1>2, AfterTyped DEF TypeOK
<1>4. consumer' \in ConsumerType
  BY QueueAssumption DEF TypeOK, EarlyFinalize, ConsumerType
<1>5. queue' \in Seq(Command) /\ Len(queue') <= MaxQueue
  BY QueueAssumption DEF EarlyFinalize
<1> QED
  BY <1>3, <1>4, <1>5 DEF TypeOK, EarlyFinalize, ConsumerType

\* A handover promises a value.
LEMMA SyncToStreamTyped ==
  ASSUME TypeOK, NEW a \in Arrays, NEW ownStream, SyncToStream(a, ownStream)
  PROVE  TypeOK'
<1>1. Settled \in [Addresses -> Values]
  BY AfterTyped DEF Settled, TypeOK
<1>2. data[a] \in Pointer /\ data[a].at \in Addresses
  BY UsableTyped DEF SyncToStream
<1>3. Len(queue) \in 0..MaxQueue
  BY QueueAssumption DEF TypeOK
<1>4. consumer' \in ConsumerType
  BY <1>1, <1>2, <1>3 DEF SyncToStream, ConsumerType
<1> QED
  BY <1>4 DEF SyncToStream, TypeOK, ConsumerType

\* The other calls allocate, free, wait or change flags.
LEMMA OthersTyped ==
  ASSUME TypeOK,
         \/ \E a \in Arrays : Allocate(a) \/ Drop(a) \/ ReadTo(a)
         \/ \E a, b \in Arrays : Share(a, b)
         \/ \E flag \in BOOLEAN : SetWaitToFinish(flag)
         \/ Finish \/ FinishReturns \/ ConsumerReleases
         \/ OpenCLFinalize \/ OpenCLRelease \/ Initialize
         \/ UNCHANGED deviceVars
  PROVE  TypeOK'
<1>1. ASSUME UNCHANGED <<backend, memory, queue>>, initialized' \in BOOLEAN,
             waitFinish' \in BOOLEAN, contexts' \in 1..MaxContexts,
             data' \in [Arrays -> Pointer \cup {NoData}], inUse' \subseteq Addresses,
             host' \in {"ready", "finish", "finalize"}, got' \in Values,
             consumer' \in ConsumerType
      PROVE  TypeOK'
  BY <1>1 DEF TypeOK, ConsumerType
<1>2. /\ initialized \in BOOLEAN /\ waitFinish \in BOOLEAN /\ contexts \in 1..MaxContexts
      /\ data \in [Arrays -> Pointer \cup {NoData}] /\ inUse \subseteq Addresses
      /\ host \in {"ready", "finish", "finalize"} /\ got \in Values
      /\ consumer \in ConsumerType
  BY DEF TypeOK, ConsumerType
<1>3. ASSUME NEW a \in Arrays, Allocate(a)
      PROVE  TypeOK'
  <2>1. PICK at \in Addresses :
          /\ data' = [data EXCEPT ![a] = [at |-> at, ctx |-> contexts]]
          /\ inUse' = inUse \cup {at}
    BY <1>3 DEF Allocate
  <2>2. [at |-> at, ctx |-> contexts] \in Pointer
    BY <1>2 DEF Pointer
  <2>3. data' \in [Arrays -> Pointer \cup {NoData}] /\ inUse' \subseteq Addresses
    BY <1>2, <2>1, <2>2
  <2> QED
    BY <1>1, <1>2, <1>3, <2>3 DEF Allocate
<1>4. ASSUME NEW a \in Arrays, Drop(a)
      PROVE  TypeOK'
  <2>1. data' \in [Arrays -> Pointer \cup {NoData}]
    BY <1>2, <1>4 DEF Drop
  <2>2. inUse' \subseteq Addresses
    BY <1>2, <1>4 DEF Drop, Deleter, Released
  <2> QED
    BY <1>1, <1>2, <1>4, <2>1, <2>2 DEF Drop
<1>5. ASSUME NEW a \in Arrays, ReadTo(a)
      PROVE  TypeOK'
  <2>1. data[a].at \in Addresses
    BY <1>5, UsableTyped DEF ReadTo
  <2>2. got' \in Values
    BY <1>5, <2>1 DEF ReadTo, TypeOK
  <2> QED
    BY <1>1, <1>2, <1>5, <2>2 DEF ReadTo
<1>6. ASSUME NEW a \in Arrays, NEW b \in Arrays, Share(a, b)
      PROVE  TypeOK'
  <2>1. data' \in [Arrays -> Pointer \cup {NoData}]
    BY <1>2, <1>6 DEF Share
  <2> QED
    BY <1>1, <1>2, <1>6, <2>1 DEF Share
<1>7. CASE \E flag \in BOOLEAN : SetWaitToFinish(flag)
  BY <1>1, <1>2, <1>7 DEF SetWaitToFinish
<1>8. CASE Finish \/ FinishReturns \/ OpenCLFinalize \/ OpenCLRelease
  BY <1>1, <1>2, <1>8 DEF Finish, FinishReturns, OpenCLFinalize, OpenCLRelease
<1>9. CASE ConsumerReleases
  <2>1. consumer' \in ConsumerType
    BY <1>9, QueueAssumption DEF ConsumerReleases, NoConsumer, ConsumerType
  <2>2. inUse' \subseteq Addresses
    BY <1>2, <1>9 DEF ConsumerReleases, Deleter, Released
  <2> QED
    BY <1>1, <1>2, <1>9, <2>1, <2>2 DEF ConsumerReleases
<1>10. CASE Initialize
  <2>1. contexts' \in 1..MaxContexts
    BY <1>2, <1>10, QueueAssumption DEF Initialize
  <2> QED
    BY <1>1, <1>2, <1>10, <2>1 DEF Initialize
<1>11. CASE UNCHANGED deviceVars
  BY <1>1, <1>2, <1>11 DEF deviceVars
<1> QED
  BY <1>3, <1>4, <1>5, <1>6, <1>7, <1>8, <1>9, <1>10, <1>11

\* Every step keeps the types.
LEMMA TypeStep == TypeOK /\ [Next]_deviceVars => TypeOK'
<1> SUFFICES ASSUME TypeOK, [Next]_deviceVars PROVE TypeOK'
  OBVIOUS
<1>1. CASE \/ \E a \in Arrays, v \in Values : WriteFrom(a, v) \/ Fill(a, v)
           \/ \E a, b \in Arrays : CopyTo(a, b) \/ ExecuteKernel(a, b)
  BY <1>1, WritesTyped
<1>2. CASE \E a \in Arrays, ownStream \in BOOLEAN : SyncToStream(a, ownStream)
  BY <1>2, SyncToStreamTyped
<1>3. CASE Execute \/ EarlyFinalize
  BY <1>3, ExecuteTyped, EarlyFinalizeTyped
<1>4. CASE \/ \E a \in Arrays : Allocate(a) \/ Drop(a) \/ ReadTo(a)
           \/ \E a, b \in Arrays : Share(a, b)
           \/ \E flag \in BOOLEAN : SetWaitToFinish(flag)
           \/ Finish \/ FinishReturns \/ ConsumerReleases
           \/ OpenCLFinalize \/ OpenCLRelease \/ Initialize
           \/ UNCHANGED deviceVars
  BY <1>4, OthersTyped
<1> QED
  BY <1>1, <1>2, <1>3, <1>4 DEF Next

\* Every variable has its type.
THEOREM TypeCorrect == Spec => []TypeOK
BY TypeInit, TypeStep, PTL DEF Spec

----------------------------------------------------------------------------
\* The pointers somebody holds.
Holders == ({data[a] : a \in Arrays} \cup {consumer.data}) \ {NoData}

\* The part of the types that ownership depends on.
OwnershipTypes ==
  /\ backend \in {"opencl", "cuda", "metal"}
  /\ initialized \in BOOLEAN
  /\ contexts \in 1..MaxContexts
  /\ data \in [Arrays -> Pointer \cup {NoData}]
  /\ consumer = [data |-> consumer.data, behind |-> consumer.behind,
                 promised |-> consumer.promised]
  /\ consumer.data \in Pointer \cup {NoData}

\* Memory goes with the context of a CUDA device, and only with it.
HoldersOwn == (backend = "cuda" => initialized) => \A p \in Holders : p.at \in inUse
HoldersDiffer == \A p, q \in Holders : p.at = q.at => p = q

OwnershipInv == OwnershipTypes /\ HoldersOwn /\ HoldersDiffer

\* A step that allocates and frees nothing and moves no pointer.
QuietStep ==
  /\ UNCHANGED <<backend, contexts, data, inUse>>
  /\ consumer' = [data |-> consumer.data, behind |-> consumer'.behind,
                  promised |-> consumer'.promised]
  /\ initialized' \in BOOLEAN
  /\ backend = "cuda" /\ initialized' => initialized

----------------------------------------------------------------------------
\* Before the first call nobody holds anything.
LEMMA OwnershipInit == Init => OwnershipInv
<1> SUFFICES ASSUME Init PROVE OwnershipInv
  OBVIOUS
<1>1. Holders = {}
  BY DEF Init, Holders, NoConsumer
<1>2. OwnershipTypes
  BY QueueAssumption DEF Init, OwnershipTypes, NoConsumer
<1> QED
  BY <1>1, <1>2 DEF OwnershipInv, HoldersOwn, HoldersDiffer

\* A quiet step keeps every pointer and all memory.
LEMMA QuietStepOwns == OwnershipInv /\ QuietStep => OwnershipInv'
<1> SUFFICES ASSUME OwnershipInv, QuietStep PROVE OwnershipInv'
  OBVIOUS
<1>1. consumer'.data = consumer.data
  BY DEF QuietStep
<1>2. Holders' = Holders
  BY <1>1 DEF QuietStep, Holders
<1>3. OwnershipTypes'
  BY <1>1 DEF QuietStep, OwnershipInv, OwnershipTypes
<1> QED
  BY <1>2, <1>3 DEF QuietStep, OwnershipInv, HoldersOwn, HoldersDiffer

\* Touching memory changes what the consumer was promised, not what it holds.
LEMMA TouchIsQuiet ==
  ASSUME NEW p, OwnershipTypes, Touch(p)
  PROVE  consumer' = [data |-> consumer.data, behind |-> consumer'.behind,
                      promised |-> consumer'.promised]
BY DEF OwnershipTypes, Touch

\* Every pointer that is held is a pointer.
LEMMA HoldersArePointers == OwnershipTypes => Holders \subseteq Pointer
BY DEF OwnershipTypes, Holders

----------------------------------------------------------------------------
\* A new allocation is at an address nobody holds.
LEMMA AllocateOwns ==
  ASSUME NEW a \in Arrays, OwnershipInv, Allocate(a)
  PROVE  OwnershipInv'
<1> USE DEF OwnershipInv
<1>1. PICK at \in Addresses \ (inUse \cup Queued) :
        /\ data' = [data EXCEPT ![a] = [at |-> at, ctx |-> contexts]]
        /\ inUse' = inUse \cup {at}
  BY DEF Allocate
<1> DEFINE new == [at |-> at, ctx |-> contexts]
<1>2. UNCHANGED <<backend, initialized, contexts, consumer>> /\ initialized
  BY DEF Allocate, Ready
<1>3. new \in Pointer
  BY DEF OwnershipTypes, Pointer
<1>4. OwnershipTypes'
  <2>1. data' \in [Arrays -> Pointer \cup {NoData}]
    BY <1>1, <1>3 DEF OwnershipTypes
  <2> QED
    BY <2>1, <1>2 DEF OwnershipTypes
<1>5. Holders' \subseteq Holders \cup {new}
  BY <1>1, <1>2 DEF Holders, OwnershipTypes
<1>6. \A p \in Holders : p.at \in inUse
  BY <1>2 DEF HoldersOwn
<1>7. HoldersOwn'
  BY <1>1, <1>5, <1>6 DEF HoldersOwn
<1>8. \A p \in Holders : p.at # new.at
  BY <1>1, <1>6
<1>9. HoldersDiffer'
  BY <1>5, <1>8 DEF HoldersDiffer
<1> QED
  BY <1>4, <1>7, <1>9

\* A copied pointer is one somebody holds already.
LEMMA ShareOwns ==
  ASSUME NEW a \in Arrays, NEW b \in Arrays, OwnershipInv, Share(a, b)
  PROVE  OwnershipInv'
<1> USE DEF OwnershipInv
<1>1. data' = [data EXCEPT ![b] = data[a]]
  BY DEF Share
<1>2. UNCHANGED <<backend, initialized, contexts, inUse, consumer>>
  BY DEF Share
<1>3. OwnershipTypes'
  BY <1>1, <1>2 DEF OwnershipTypes
<1>4. Holders' \subseteq Holders
  BY <1>1, <1>2 DEF Holders, OwnershipTypes
<1> QED
  BY <1>2, <1>3, <1>4 DEF HoldersOwn, HoldersDiffer

\* What the last holder's deleter frees is not what another pointer needs.
LEMMA ReleaseOwns ==
  ASSUME NEW p \in Holders, OwnershipInv, OwnershipTypes',
         Holders' \subseteq Holders,
         inUse' = inUse \/ (p \notin Holders' /\ Deleter(p)),
         UNCHANGED <<backend, initialized>>
  PROVE  OwnershipInv'
<1> USE DEF OwnershipInv
<1>1. HoldersDiffer'
  BY DEF HoldersDiffer
<1>2. CASE inUse' = inUse
  BY <1>1, <1>2 DEF HoldersOwn
<1>3. CASE p \notin Holders' /\ inUse' = inUse \ {p.at}
  <2>1. \A q \in Holders' : q.at # p.at
    BY <1>3 DEF HoldersDiffer
  <2> QED
    BY <1>1, <1>3, <2>1 DEF HoldersOwn
<1> QED
  BY <1>2, <1>3 DEF Deleter, Released

\* An array that goes out of scope frees what only it held.
LEMMA DropOwns ==
  ASSUME NEW a \in Arrays, OwnershipInv, Drop(a)
  PROVE  OwnershipInv'
<1>1. data' = [data EXCEPT ![a] = NoData] /\ data[a] # NoData
  BY DEF Drop
<1>2. UNCHANGED <<backend, initialized, contexts, consumer>>
  BY DEF Drop
<1>3. OwnershipTypes'
  BY <1>1, <1>2 DEF OwnershipTypes, OwnershipInv
<1>4. Holders' \subseteq Holders /\ data[a] \in Holders
  BY <1>1, <1>2 DEF Holders, OwnershipInv, OwnershipTypes
<1>5. inUse' = inUse \/ (data[a] \notin Holders' /\ Deleter(data[a]))
  <2>1. CASE consumer.data = data[a] \/ \E b \in Arrays \ {a} : data[b] = data[a]
    BY <2>1 DEF Drop
  <2>2. CASE ~(consumer.data = data[a] \/ \E b \in Arrays \ {a} : data[b] = data[a])
    <3>1. Deleter(data[a])
      BY <2>2 DEF Drop
    <3>2. data[a] \notin Holders'
      BY <1>1, <1>2, <2>2 DEF Holders, OwnershipInv, OwnershipTypes
    <3> QED
      BY <3>1, <3>2
  <2> QED
    BY <2>1, <2>2
<1> QED
  BY <1>2, <1>3, <1>4, <1>5, ReleaseOwns

\* So does the deleter of a tensor.
LEMMA ConsumerReleasesOwns ==
  ASSUME OwnershipInv, ConsumerReleases
  PROVE  OwnershipInv'
<1>1. UNCHANGED <<backend, initialized, contexts, data>> /\ consumer' = NoConsumer
  BY DEF ConsumerReleases
<1>2. OwnershipTypes'
  BY <1>1 DEF OwnershipTypes, OwnershipInv, NoConsumer
<1>3. Holders' \subseteq Holders
  BY <1>1 DEF Holders, NoConsumer
<1>4. consumer.data \in Holders
  BY DEF ConsumerReleases, Holders
<1>5. inUse' = inUse \/ (consumer.data \notin Holders' /\ Deleter(consumer.data))
  <2>1. CASE \E b \in Arrays : data[b] = consumer.data
    BY <2>1 DEF ConsumerReleases
  <2>2. CASE ~\E b \in Arrays : data[b] = consumer.data
    BY <1>1, <2>2 DEF ConsumerReleases, Holders, NoConsumer
  <2> QED
    BY <2>1, <2>2
<1> QED
  BY <1>1, <1>2, <1>3, <1>4, <1>5, ReleaseOwns

\* The tensor of a handover holds the pointer of its array.
LEMMA SyncToStreamOwns ==
  ASSUME NEW a \in Arrays, NEW ownStream, OwnershipInv, SyncToStream(a, ownStream)
  PROVE  OwnershipInv'
<1>1. UNCHANGED <<backend, initialized, contexts, data, inUse>>
  BY DEF SyncToStream
<1>2. consumer' = [data |-> data[a], behind |-> consumer'.behind,
                   promised |-> consumer'.promised]
  BY DEF SyncToStream
<1>3. OwnershipTypes'
  BY <1>1, <1>2 DEF OwnershipTypes, OwnershipInv
<1>4. Holders' \subseteq Holders
  BY <1>1, <1>2 DEF Holders
<1> QED
  BY <1>1, <1>3, <1>4 DEF OwnershipInv, HoldersOwn, HoldersDiffer

\* A CUDA device that is finalized has no memory left to own.
LEMMA EarlyFinalizeOwns ==
  ASSUME OwnershipInv, EarlyFinalize
  PROVE  OwnershipInv'
<1>1. UNCHANGED <<backend, contexts, data>> /\ initialized' = FALSE
  BY DEF EarlyFinalize
<1>2. consumer' = [data |-> consumer.data, behind |-> 0, promised |-> consumer.promised]
  BY DEF EarlyFinalize, OwnershipInv, OwnershipTypes
<1>3. OwnershipTypes'
  BY <1>1, <1>2 DEF OwnershipTypes, OwnershipInv
<1>4. Holders' = Holders
  BY <1>1, <1>2 DEF Holders
<1>5. backend # "cuda" => inUse' = inUse
  BY DEF EarlyFinalize
<1> QED
  BY <1>1, <1>3, <1>4, <1>5 DEF OwnershipInv, HoldersOwn, HoldersDiffer

\* A device of another backend that is initialized again keeps its memory.
LEMMA InitializeOwns ==
  ASSUME OwnershipInv, Initialize, "cuda" \notin Reopening
  PROVE  OwnershipInv'
<1>1. UNCHANGED <<backend, data, inUse, consumer>> /\ backend # "cuda"
  BY DEF Initialize
<1>2. contexts' \in 1..MaxContexts /\ initialized' \in BOOLEAN
  BY QueueAssumption DEF Initialize, OwnershipInv, OwnershipTypes
<1>3. OwnershipTypes'
  BY <1>1, <1>2 DEF OwnershipTypes, OwnershipInv
<1>4. Holders' = Holders
  BY <1>1 DEF Holders
<1> QED
  BY <1>1, <1>3, <1>4 DEF OwnershipInv, HoldersOwn, HoldersDiffer

----------------------------------------------------------------------------
\* Commands, waits and the first half of an OpenCL finalize are quiet.
LEMMA OtherStepsAreQuiet ==
  ASSUME OwnershipTypes,
         \/ \E a \in Arrays : ReadTo(a)
         \/ \E a, b \in Arrays : CopyTo(a, b) \/ ExecuteKernel(a, b)
         \/ \E a \in Arrays, v \in Values : WriteFrom(a, v) \/ Fill(a, v)
         \/ \E flag \in BOOLEAN : SetWaitToFinish(flag)
         \/ Finish \/ FinishReturns \/ Execute \/ OpenCLFinalize \/ OpenCLRelease
         \/ UNCHANGED deviceVars
  PROVE  QuietStep
<1> USE DEF OwnershipTypes
<1>1. CASE \E a \in Arrays : ReadTo(a)
  BY <1>1 DEF ReadTo, QuietStep
<1>2. CASE \E a, b \in Arrays : CopyTo(a, b)
  BY <1>2, TouchIsQuiet DEF CopyTo, QuietStep
<1>3. CASE \E a, b \in Arrays : ExecuteKernel(a, b)
  BY <1>3, TouchIsQuiet DEF ExecuteKernel, QuietStep
<1>4. CASE \E a \in Arrays, v \in Values : WriteFrom(a, v)
  BY <1>4, TouchIsQuiet DEF WriteFrom, QuietStep
<1>5. CASE \E a \in Arrays, v \in Values : Fill(a, v)
  BY <1>5, TouchIsQuiet DEF Fill, QuietStep
<1>6. CASE \E flag \in BOOLEAN : SetWaitToFinish(flag)
  BY <1>6 DEF SetWaitToFinish, QuietStep
<1>7. CASE Finish \/ FinishReturns \/ OpenCLFinalize
  BY <1>7 DEF Finish, FinishReturns, OpenCLFinalize, QuietStep
<1>8. CASE Execute
  BY <1>8 DEF Execute, QuietStep
<1>9. CASE OpenCLRelease
  BY <1>9 DEF OpenCLRelease, QuietStep
<1>10. CASE UNCHANGED deviceVars
  BY <1>10 DEF deviceVars, QuietStep
<1> QED
  BY <1>1, <1>2, <1>3, <1>4, <1>5, <1>6, <1>7, <1>8, <1>9, <1>10

\* Every step keeps ownership.
LEMMA OwnershipStep ==
  ASSUME "cuda" \notin Reopening, OwnershipInv, [Next]_deviceVars
  PROVE  OwnershipInv'
<1>1. CASE \E a \in Arrays : Allocate(a)
  BY <1>1, AllocateOwns
<1>2. CASE \E a \in Arrays : Drop(a)
  BY <1>2, DropOwns
<1>3. CASE \E a, b \in Arrays : Share(a, b)
  BY <1>3, ShareOwns
<1>4. CASE \E a \in Arrays, ownStream \in BOOLEAN : SyncToStream(a, ownStream)
  BY <1>4, SyncToStreamOwns
<1>5. CASE ConsumerReleases
  BY <1>5, ConsumerReleasesOwns
<1>6. CASE EarlyFinalize
  BY <1>6, EarlyFinalizeOwns
<1>7. CASE Initialize
  BY <1>7, InitializeOwns
<1>8. CASE QuietStep
  BY <1>8, QuietStepOwns
<1>9. OwnershipTypes
  BY DEF OwnershipInv
<1> QED
  BY <1>1, <1>2, <1>3, <1>4, <1>5, <1>6, <1>7, <1>8, <1>9, OtherStepsAreQuiet DEF Next

\* Ownership holds throughout.
LEMMA OwnershipAlways == "cuda" \notin Reopening => (Spec => []OwnershipInv)
<1> SUFFICES ASSUME "cuda" \notin Reopening PROVE Spec => []OwnershipInv
  OBVIOUS
<1>1. Init => OwnershipInv
  BY OwnershipInit
<1>2. OwnershipInv /\ [Next]_deviceVars => OwnershipInv'
  BY OwnershipStep
<1> QED
  BY <1>1, <1>2, PTL DEF Spec

\* Unless a CUDA device is initialized again after finalize, the memory of a
\* live array or of an exported tensor is never freed: every deleter frees
\* what it was made for, once its last holder is gone.
THEOREM LiveMemoryStaysOwned == "cuda" \notin Reopening => (Spec => []LiveMemoryIsOwned)
<1> SUFFICES ASSUME "cuda" \notin Reopening PROVE Spec => []LiveMemoryIsOwned
  OBVIOUS
<1>1. OwnershipInv => LiveMemoryIsOwned
  BY DEF OwnershipInv, OwnershipTypes, HoldersOwn, Holders, LiveMemoryIsOwned, Usable
<1> QED
  BY <1>1, OwnershipAlways, PTL

----------------------------------------------------------------------------
\* The consumer still counts on what it was promised.
Promising ==
  /\ initialized /\ consumer.data # NoData
  /\ consumer.data.ctx = contexts /\ consumer.promised # NoValue

\* The commands the consumer waits for leave the promised value, and no later one writes
\* where it is.
PromiseKept ==
  /\ After(SubSeq(queue, 1, consumer.behind), memory)[consumer.data.at] = consumer.promised
  /\ \A i \in (consumer.behind + 1)..Len(queue) : queue[i].to # consumer.data.at

\* Commands behind a handover are in the queue, Metal's host never leaves one
\* behind, pointers are of contexts that exist, and promises are kept.
HandoverInv ==
  /\ TypeOK
  /\ consumer.behind <= Len(queue)
  /\ backend = "metal" /\ host = "ready" => queue = <<>>
  /\ \A a \in Arrays : data[a] # NoData => data[a].ctx <= contexts
  /\ consumer.data # NoData => consumer.data.ctx <= contexts
  /\ Promising => PromiseKept

\* Nothing has been handed over at the start.
LEMMA HandoverInit == Init => HandoverInv
<1> SUFFICES ASSUME Init PROVE HandoverInv
  OBVIOUS
<1>1. TypeOK
  BY TypeInit
<1>2. consumer = NoConsumer /\ queue = <<>> /\ data = [a \in Arrays |-> NoData]
  BY DEF Init
<1> QED
  BY <1>1, <1>2 DEF HandoverInv, NoConsumer, Promising

\* The part of the types a handover depends on.
LEMMA HandoverTypes ==
  ASSUME TypeOK
  PROVE  /\ contexts \in Nat /\ Len(queue) \in Nat /\ consumer.behind \in Nat
         /\ consumer = [data |-> consumer.data, behind |-> consumer.behind,
                        promised |-> consumer.promised]
         /\ \A a \in Arrays : data[a] # NoData => data[a] \in Pointer /\ data[a].ctx \in Nat
         /\ consumer.data # NoData => consumer.data \in Pointer /\ consumer.data.ctx \in Nat
<1>1. consumer \in ConsumerType /\ contexts \in Nat /\ Len(queue) \in Nat
  BY QueueAssumption DEF TypeOK, ConsumerType
<1>2. \A p \in Pointer : p.ctx \in Nat
  BY QueueAssumption DEF Pointer
<1> QED
  BY <1>1, <1>2 DEF ConsumerType, TypeOK

\* Steps that touch neither the commands nor the consumer, in the same context.
LEMMA QuietKeepsPromise ==
  ASSUME HandoverInv, TypeOK', UNCHANGED <<backend, contexts, memory, queue, consumer>>,
         initialized' => initialized,
         host' = "ready" => host = "ready" \/ queue = <<>>,
         \A a \in Arrays : data'[a] # NoData => data'[a].ctx <= contexts
  PROVE  HandoverInv'
BY DEF HandoverInv, Promising, PromiseKept

\* A step after which nothing is promised, in the same context or a later one.
LEMMA NoPromise ==
  ASSUME HandoverInv, TypeOK', ~Promising',
         consumer'.behind <= Len(queue'), backend' = backend,
         backend = "metal" /\ host' = "ready" => queue' = <<>>,
         contexts <= contexts', UNCHANGED data,
         consumer'.data # NoData => consumer'.data.ctx <= contexts'
  PROVE  HandoverInv'
<1>1. contexts \in Nat /\ contexts' \in Nat
  BY HandoverTypes, QueueAssumption DEF HandoverInv, TypeOK
<1>2. \A a \in Arrays : data[a] # NoData => data[a].ctx \in Nat
  BY HandoverTypes DEF HandoverInv
<1>3. \A a \in Arrays : data'[a] # NoData => data'[a].ctx <= contexts'
  BY <1>1, <1>2 DEF HandoverInv
<1> QED
  BY <1>3 DEF HandoverInv

\* Whoever writes where the consumer reads holds its pointer, and so takes the promise back.
LEMMA TouchTakesBack ==
  ASSUME TypeOK, NEW a \in Arrays, Usable(a), Touch(data[a]), UNCHANGED <<initialized, contexts>>
  PROVE  /\ consumer'.data = consumer.data /\ consumer'.behind = consumer.behind
         /\ Promising' => /\ Promising /\ consumer'.promised = consumer.promised
                          /\ data[a].at # consumer.data.at
<1>1. consumer = [data |-> consumer.data, behind |-> consumer.behind,
                  promised |-> consumer.promised]
  BY HandoverTypes
<1>2. CASE consumer.data = data[a]
  <2>1. consumer' = [consumer EXCEPT !.promised = NoValue]
    BY <1>2 DEF Touch
  <2> QED
    BY <1>1, <2>1 DEF Promising
<1>3. CASE consumer.data # data[a]
  <2>1. consumer' = consumer
    BY <1>3 DEF Touch
  <2>2. Promising => data[a].at # consumer.data.at
    <3>1. data[a] \in Pointer /\ data[a].ctx = contexts
      BY UsableTyped
    <3>2. Promising => consumer.data \in Pointer /\ consumer.data.ctx = contexts
      BY HandoverTypes DEF Promising
    <3> QED
      BY <1>3, <3>1, <3>2 DEF Pointer
  <2> QED
    BY <2>1, <2>2 DEF Promising
<1> QED
  BY <1>2, <1>3

\* A command that is queued comes after those the consumer waits for.
LEMMA EnqueueKeepsPromise ==
  ASSUME HandoverInv, TypeOK', NEW a \in Arrays, Usable(a), Touch(data[a]),
         NEW cmd \in Command, cmd.to = data[a].at, queue' = Append(queue, cmd),
         UNCHANGED <<backend, initialized, contexts, data, memory>>,
         backend = "metal" => host' # "ready"
  PROVE  HandoverInv'
<1>1. TypeOK /\ queue \in Seq(Command)
  BY DEF HandoverInv, TypeOK
<1>2. /\ consumer'.data = consumer.data /\ consumer'.behind = consumer.behind
      /\ Promising' => /\ Promising /\ consumer'.promised = consumer.promised
                       /\ data[a].at # consumer.data.at
  BY <1>1, TouchTakesBack
<1>3. /\ consumer.behind \in Nat /\ Len(queue) \in Nat /\ consumer.behind <= Len(queue)
      /\ Len(queue') = Len(queue) + 1
      /\ queue'[Len(queue) + 1] = cmd
      /\ \A i \in 1..Len(queue) : queue'[i] = queue[i]
  BY <1>1, HandoverTypes DEF HandoverInv
<1>4. SubSeq(queue', 1, consumer.behind) = SubSeq(queue, 1, consumer.behind)
  BY <1>1, <1>3
<1>5. Promising' => PromiseKept'
  <2> SUFFICES ASSUME Promising' PROVE PromiseKept'
    OBVIOUS
  <2>1. PromiseKept
    BY <1>2 DEF HandoverInv
  <2>2. After(SubSeq(queue', 1, consumer'.behind), memory')[consumer'.data.at]
          = consumer'.promised
    BY <1>2, <1>4, <2>1 DEF PromiseKept
  <2>3. \A i \in (consumer'.behind + 1)..Len(queue') : queue'[i].to # consumer'.data.at
    <3> TAKE i \in (consumer'.behind + 1)..Len(queue')
    <3>1. CASE i <= Len(queue)
      BY <1>2, <1>3, <2>1, <3>1 DEF PromiseKept
    <3>2. CASE i = Len(queue) + 1
      BY <1>2, <1>3, <3>2
    <3> QED
      BY <1>2, <1>3, <3>1, <3>2
  <2> QED
    BY <2>2, <2>3 DEF PromiseKept
<1>6. consumer'.behind <= Len(queue')
  BY <1>2, <1>3
<1>7. consumer'.data # NoData => consumer'.data.ctx <= contexts'
  BY <1>2 DEF HandoverInv
<1> QED
  BY <1>5, <1>6, <1>7 DEF HandoverInv

\* A write the host makes itself finds the queue empty.
LEMMA WriteKeepsPromise ==
  ASSUME HandoverInv, TypeOK', NEW a \in Arrays, Usable(a), Touch(data[a]),
         queue = <<>>, queue' = queue, host' = host,
         \A at \in Addresses : at # data[a].at => memory'[at] = memory[at],
         UNCHANGED <<backend, initialized, contexts, data>>
  PROVE  HandoverInv'
<1>1. TypeOK
  BY DEF HandoverInv
<1>2. /\ consumer'.data = consumer.data /\ consumer'.behind = consumer.behind
      /\ Promising' => /\ Promising /\ consumer'.promised = consumer.promised
                       /\ data[a].at # consumer.data.at
  BY <1>1, TouchTakesBack
<1>3. consumer.behind = 0 /\ Len(queue) = 0
  BY <1>1, HandoverTypes DEF HandoverInv
<1>4. SubSeq(queue, 1, 0) = <<>>
  OBVIOUS
<1>5. Promising' => PromiseKept'
  <2> SUFFICES ASSUME Promising' PROVE PromiseKept'
    OBVIOUS
  <2>1. PromiseKept /\ consumer.data.at \in Addresses
    BY <1>1, <1>2, HandoverTypes DEF HandoverInv, Promising, Pointer
  <2>2. memory[consumer.data.at] = consumer.promised
    BY <1>3, <1>4, <2>1, AfterNothing DEF PromiseKept
  <2>3. memory'[consumer.data.at] = consumer.promised
    BY <1>2, <2>1, <2>2
  <2>4. consumer'.behind = 0 /\ SubSeq(queue', 1, 0) = <<>> /\ Len(queue') = 0
    BY <1>2, <1>3, <1>4
  <2>5. After(SubSeq(queue', 1, consumer'.behind), memory') = memory'
    BY <2>4, AfterNothing
  <2>6. After(SubSeq(queue', 1, consumer'.behind), memory')[consumer'.data.at]
          = consumer'.promised
    BY <1>2, <2>3, <2>5
  <2>7. (consumer'.behind + 1)..Len(queue') = {}
    BY <2>4
  <2> QED
    BY <2>6, <2>7 DEF PromiseKept
<1>6. consumer'.data # NoData => consumer'.data.ctx <= contexts'
  BY <1>2 DEF HandoverInv
<1> QED
  BY <1>2, <1>3, <1>5, <1>6 DEF HandoverInv

\* Effects are on one address.
LEMMA EffectElsewhere ==
  ASSUME NEW cmd \in Command, NEW mem \in [Addresses -> Values],
         NEW at \in Addresses, at # cmd.to
  PROVE  Effect(cmd, mem)[at] = mem[at]
BY DEF Effect

\* A write the device makes keeps a promise too, queued or run at once.
LEMMA SubmitKeepsPromise ==
  ASSUME HandoverInv, TypeOK', NEW a \in Arrays, Ready, Usable(a), Touch(data[a]),
         NEW cmd \in Command, cmd.to = data[a].at, Submit(cmd),
         UNCHANGED <<backend, initialized, contexts, data, host>>
  PROVE  HandoverInv'
<1>1. CASE backend = "metal"
  <2>1. queue = <<>> /\ queue' = queue /\ memory' = Effect(cmd, memory)
    BY <1>1 DEF HandoverInv, Ready, Submit
  <2>2. \A at \in Addresses : at # data[a].at => memory'[at] = memory[at]
    BY <2>1, EffectElsewhere DEF HandoverInv, TypeOK
  <2> QED
    BY <2>1, <2>2, WriteKeepsPromise
<1>2. CASE backend # "metal"
  BY <1>2, EnqueueKeepsPromise DEF Submit
<1> QED
  BY <1>1, <1>2

\* The four calls that write to an array.
LEMMA WritesKeepPromise ==
  ASSUME HandoverInv, TypeOK',
         \/ \E a \in Arrays, v \in Values : WriteFrom(a, v) \/ Fill(a, v)
         \/ \E a, b \in Arrays : CopyTo(a, b) \/ ExecuteKernel(a, b)
  PROVE  HandoverInv'
<1>0. TypeOK
  BY DEF HandoverInv
<1>1. ASSUME NEW a \in Arrays, NEW v \in Values, WriteFrom(a, v)
      PROVE  HandoverInv'
  <2>1. queue = <<>>
    BY <1>1 DEF WriteFrom, Ready, Drained, HandoverInv
  <2>2. memory' = [memory EXCEPT ![data[a].at] = v]
    BY <1>1 DEF WriteFrom
  <2>3. \A at \in Addresses : at # data[a].at => memory'[at] = memory[at]
    BY <1>0, <2>2 DEF TypeOK
  <2> QED
    BY <1>1, <2>1, <2>3, WriteKeepsPromise DEF WriteFrom
<1>2. ASSUME NEW a \in Arrays, NEW v \in Values, Fill(a, v)
      PROVE  HandoverInv'
  <2> DEFINE cmd == [op |-> "set", to |-> data[a].at, value |-> v]
  <2>1. cmd \in Command /\ cmd.to = data[a].at
    BY <1>0, <1>2, UsableTyped DEF Fill, Command
  <2>2. Submit(cmd)
    BY <1>2 DEF Fill
  <2> HIDE DEF cmd
  <2> QED
    BY <1>2, <2>1, <2>2, SubmitKeepsPromise DEF Fill
<1>3. ASSUME NEW a \in Arrays, NEW b \in Arrays, CopyTo(a, b)
      PROVE  HandoverInv'
  <2> DEFINE cmd == [op |-> "copy", to |-> data[b].at, from |-> data[a].at]
  <2>1. cmd \in Command /\ cmd.to = data[b].at
    BY <1>0, <1>3, UsableTyped DEF CopyTo, Command
  <2>2. Submit(cmd)
    BY <1>3 DEF CopyTo
  <2> HIDE DEF cmd
  <2> QED
    BY <1>3, <2>1, <2>2, SubmitKeepsPromise DEF CopyTo
<1>4. ASSUME NEW a \in Arrays, NEW b \in Arrays, ExecuteKernel(a, b)
      PROVE  HandoverInv'
  <2> DEFINE cmd == [op |-> "kernel", to |-> data[b].at, from |-> data[a].at]
  <2>1. cmd \in Command /\ cmd.to = data[b].at
    BY <1>0, <1>4, UsableTyped DEF ExecuteKernel, Command
  <2>2. queue' = Append(queue, cmd)
    BY <1>4 DEF ExecuteKernel
  <2> HIDE DEF cmd
  <2> QED
    BY <1>4, <2>1, <2>2, EnqueueKeepsPromise DEF ExecuteKernel
<1> QED
  BY <1>1, <1>2, <1>3, <1>4

\* What the consumer waits for is everything that was issued: the last of it is there.
LEMMA SyncToStreamPromises ==
  ASSUME HandoverInv, TypeOK', NEW a \in Arrays, NEW ownStream, SyncToStream(a, ownStream)
  PROVE  HandoverInv'
<1>1. consumer' = [data |-> data[a], behind |-> Len(queue), promised |-> Settled[data[a].at]]
  BY DEF SyncToStream
<1>2. UNCHANGED <<backend, initialized, contexts, data, memory, queue, host>>
  BY DEF SyncToStream
<1>3. queue \in Seq(Command) /\ Len(queue) \in Nat
  BY DEF HandoverInv, TypeOK
<1>4. SubSeq(queue, 1, Len(queue)) = queue
  BY <1>3
<1>5. PromiseKept'
  <2>1. consumer'.behind = Len(queue') /\ SubSeq(queue', 1, consumer'.behind) = queue
    BY <1>1, <1>2, <1>4
  <2>2. After(queue, memory)[data[a].at] = Settled[data[a].at]
    BY DEF Settled
  <2>3. After(SubSeq(queue', 1, consumer'.behind), memory')[consumer'.data.at]
          = consumer'.promised
    BY <1>1, <1>2, <2>1, <2>2
  <2>4. (consumer'.behind + 1)..Len(queue') = {}
    BY <1>2, <1>3, <2>1
  <2> QED
    BY <2>3, <2>4 DEF PromiseKept
<1>6. data[a] # NoData
  BY DEF SyncToStream, Usable
<1> QED
  BY <1>1, <1>2, <1>3, <1>5, <1>6 DEF HandoverInv

\* The oldest command is one the consumer waits for, or leaves its memory alone.
LEMMA ExecuteKeepsPromise ==
  ASSUME HandoverInv, TypeOK', Execute
  PROVE  HandoverInv'
<1> DEFINE b == consumer.behind
           first == Head(queue)
<1>1. TypeOK /\ queue \in Seq(Command) /\ queue # <<>> /\ memory \in [Addresses -> Values]
  BY DEF HandoverInv, TypeOK, Execute
<1>2. /\ b \in Nat /\ b <= Len(queue) /\ Len(queue) \in Nat /\ Len(queue) >= 1
      /\ consumer' = [data |-> consumer.data, behind |-> IF b = 0 THEN 0 ELSE b - 1,
                      promised |-> consumer.promised]
  <2>1. consumer = [data |-> consumer.data, behind |-> b, promised |-> consumer.promised]
    BY <1>1, HandoverTypes
  <2> QED
    BY <1>1, <2>1, HandoverTypes DEF HandoverInv, Execute
<1>3. /\ queue' = Tail(queue) /\ memory' = Effect(first, memory)
      /\ UNCHANGED <<backend, initialized, contexts, data, host>>
  BY DEF Execute
<1>4. /\ Len(queue') = Len(queue) - 1 /\ first = queue[1] /\ first \in Command
      /\ \A i \in 1..Len(queue') : queue'[i] = queue[i + 1]
  BY <1>1, <1>3
<1>5. Promising' => PromiseKept'
  <2> SUFFICES ASSUME Promising' PROVE PromiseKept'
    OBVIOUS
  <2>1. Promising /\ PromiseKept
    BY <1>2, <1>3 DEF Promising, HandoverInv
  <2>2. consumer.data.at \in Addresses
    BY <1>1, <2>1, HandoverTypes DEF Promising, Pointer
  <2>3. \A i \in (consumer'.behind + 1)..Len(queue') : queue'[i].to # consumer'.data.at
    BY <1>2, <1>4, <2>1 DEF PromiseKept
  <2>4. CASE b = 0
    <3>1. SubSeq(queue, 1, 0) = <<>> /\ SubSeq(queue', 1, 0) = <<>>
      BY <1>1, <1>3
    <3>2. memory[consumer.data.at] = consumer.promised
      BY <2>1, <2>4, <3>1, AfterNothing DEF PromiseKept
    <3>3. first.to # consumer.data.at
      BY <1>2, <1>4, <2>1, <2>4 DEF PromiseKept
    <3>4. memory'[consumer.data.at] = consumer.promised
      BY <1>1, <1>3, <1>4, <2>2, <3>2, <3>3, EffectElsewhere
    <3> QED
      BY <1>2, <2>3, <2>4, <3>1, <3>4, AfterNothing DEF PromiseKept
  <2>5. CASE b # 0
    <3> DEFINE awaited == SubSeq(queue, 1, b)
    <3>1. /\ awaited \in Seq(Command) /\ awaited # <<>> /\ Head(awaited) = first
          /\ Tail(awaited) = SubSeq(queue', 1, b - 1)
      <4>1. b \in 1..Len(queue)
        BY <1>2, <2>5
      <4>2. awaited \in Seq(Command) /\ Len(awaited) = b /\ \A i \in 1..b : awaited[i] = queue[i]
        BY <1>1, <4>1
      <4>3. SubSeq(queue', 1, b - 1) = [i \in 1..(b - 1) |-> queue'[i]]
        BY <1>1, <1>3, <1>4, <4>1
      <4>4. Tail(awaited) = [i \in 1..(b - 1) |-> awaited[i + 1]]
        BY <4>1, <4>2
      <4>5. \A i \in 1..(b - 1) : queue'[i] = queue[i + 1] /\ awaited[i + 1] = queue[i + 1]
        BY <1>2, <1>4, <4>1, <4>2
      <4>6. Head(awaited) = first /\ awaited # <<>>
        BY <1>4, <4>1, <4>2
      <4> HIDE DEF awaited
      <4> QED
        BY <4>2, <4>3, <4>4, <4>5, <4>6
    <3> HIDE DEF awaited, first
    <3>2. After(awaited, memory) = After(SubSeq(queue', 1, b - 1), memory')
      BY <1>3, <3>1, AfterHead
    <3>3. After(awaited, memory)[consumer.data.at] = consumer.promised
      BY <2>1 DEF PromiseKept, awaited
    <3> QED
      BY <1>2, <2>3, <2>5, <3>2, <3>3 DEF PromiseKept
  <2> QED
    BY <2>4, <2>5
<1>6. consumer'.behind <= Len(queue') /\ consumer'.data = consumer.data
  BY <1>2, <1>4
<1>7. backend' = "metal" /\ host' = "ready" => queue' = <<>>
  BY <1>1, <1>3 DEF HandoverInv
<1> QED
  BY <1>3, <1>5, <1>6, <1>7 DEF HandoverInv

\* A released device and a new context make no promises.
LEMMA EndsKeepPromise ==
  ASSUME HandoverInv, TypeOK', OpenCLRelease \/ EarlyFinalize \/ Initialize \/ ConsumerReleases
  PROVE  HandoverInv'
<1>0. TypeOK
  BY DEF HandoverInv
<1>1. /\ contexts \in Nat /\ Len(queue) \in Nat
      /\ consumer = [data |-> consumer.data, behind |-> consumer.behind,
                     promised |-> consumer.promised]
      /\ consumer.data # NoData => consumer.data.ctx \in Nat /\ consumer.data.ctx <= contexts
  BY <1>0, HandoverTypes DEF HandoverInv
<1>2. CASE OpenCLRelease
  BY <1>1, <1>2, NoPromise DEF OpenCLRelease, HandoverInv, Promising
<1>3. CASE EarlyFinalize
  <2>1. consumer' = [data |-> consumer.data, behind |-> 0, promised |-> consumer.promised]
    BY <1>1, <1>3 DEF EarlyFinalize
  <2>2. queue' = <<>> /\ ~initialized' /\ UNCHANGED <<backend, contexts, data>>
    BY <1>3 DEF EarlyFinalize
  <2> QED
    BY <1>1, <2>1, <2>2, NoPromise DEF Promising
<1>4. CASE Initialize
  <2>1. contexts' = contexts + 1 /\ UNCHANGED <<backend, data, queue, host, consumer>>
    BY <1>4 DEF Initialize
  <2>2. ~Promising'
    BY <1>1, <2>1 DEF Promising
  <2> QED
    BY <1>1, <2>1, <2>2, NoPromise DEF HandoverInv
<1>5. CASE ConsumerReleases
  <2>1. consumer' = NoConsumer /\ UNCHANGED <<backend, contexts, data, queue, host>>
    BY <1>5 DEF ConsumerReleases
  <2>2. ~Promising' /\ consumer'.behind = 0 /\ consumer'.data = NoData
    BY <2>1 DEF Promising, NoConsumer
  <2> QED
    BY <1>1, <2>1, <2>2, NoPromise DEF HandoverInv
<1> QED
  BY <1>2, <1>3, <1>4, <1>5

\* The calls that move pointers or wait.
LEMMA OthersKeepPromise ==
  ASSUME HandoverInv, TypeOK',
         \/ \E a \in Arrays : Allocate(a) \/ Drop(a) \/ ReadTo(a)
         \/ \E a, b \in Arrays : Share(a, b)
         \/ \E flag \in BOOLEAN : SetWaitToFinish(flag)
         \/ Finish \/ FinishReturns \/ OpenCLFinalize
         \/ UNCHANGED deviceVars
  PROVE  HandoverInv'
<1>0. /\ TypeOK /\ contexts \in Nat /\ data \in [Arrays -> Pointer \cup {NoData}]
      /\ \A a \in Arrays : data[a] # NoData => data[a].ctx <= contexts
  BY HandoverTypes DEF HandoverInv, TypeOK
<1>1. ASSUME NEW a \in Arrays, Allocate(a)
      PROVE  HandoverInv'
  <2>1. PICK at \in Addresses : data' = [data EXCEPT ![a] = [at |-> at, ctx |-> contexts]]
    BY <1>1 DEF Allocate
  <2>2. \A b \in Arrays : data'[b] # NoData => data'[b].ctx <= contexts
    BY <1>0, <2>1
  <2> QED
    BY <1>1, <2>2, QuietKeepsPromise DEF Allocate
<1>2. ASSUME NEW a \in Arrays, Drop(a)
      PROVE  HandoverInv'
  <2>1. \A b \in Arrays : data'[b] # NoData => data'[b].ctx <= contexts
    BY <1>0, <1>2 DEF Drop
  <2> QED
    BY <1>2, <2>1, QuietKeepsPromise DEF Drop
<1>3. ASSUME NEW a \in Arrays, ReadTo(a)
      PROVE  HandoverInv'
  BY <1>0, <1>3, QuietKeepsPromise DEF ReadTo
<1>4. ASSUME NEW a \in Arrays, NEW b \in Arrays, Share(a, b)
      PROVE  HandoverInv'
  <2>1. \A c \in Arrays : data'[c] # NoData => data'[c].ctx <= contexts
    BY <1>0, <1>4 DEF Share
  <2> QED
    BY <1>4, <2>1, QuietKeepsPromise DEF Share
<1>5. CASE \E flag \in BOOLEAN : SetWaitToFinish(flag)
  BY <1>0, <1>5, QuietKeepsPromise DEF SetWaitToFinish
<1>6. CASE Finish \/ FinishReturns \/ OpenCLFinalize
  BY <1>0, <1>6, QuietKeepsPromise DEF Finish, FinishReturns, OpenCLFinalize
<1>7. CASE UNCHANGED deviceVars
  BY <1>0, <1>7, QuietKeepsPromise DEF deviceVars
<1> QED
  BY <1>1, <1>2, <1>3, <1>4, <1>5, <1>6, <1>7

\* Every step keeps what was promised.
LEMMA HandoverStep == HandoverInv /\ [Next]_deviceVars => HandoverInv'
<1> SUFFICES ASSUME HandoverInv, [Next]_deviceVars PROVE HandoverInv'
  OBVIOUS
<1>0. TypeOK'
  BY TypeStep DEF HandoverInv
<1>1. CASE \/ \E a \in Arrays, v \in Values : WriteFrom(a, v) \/ Fill(a, v)
           \/ \E a, b \in Arrays : CopyTo(a, b) \/ ExecuteKernel(a, b)
  BY <1>0, <1>1, WritesKeepPromise
<1>2. CASE \E a \in Arrays, ownStream \in BOOLEAN : SyncToStream(a, ownStream)
  BY <1>0, <1>2, SyncToStreamPromises
<1>3. CASE Execute
  BY <1>0, <1>3, ExecuteKeepsPromise
<1>4. CASE OpenCLRelease \/ EarlyFinalize \/ Initialize \/ ConsumerReleases
  BY <1>0, <1>4, EndsKeepPromise
<1>5. CASE \/ \E a \in Arrays : Allocate(a) \/ Drop(a) \/ ReadTo(a)
           \/ \E a, b \in Arrays : Share(a, b)
           \/ \E flag \in BOOLEAN : SetWaitToFinish(flag)
           \/ Finish \/ FinishReturns \/ OpenCLFinalize
           \/ UNCHANGED deviceVars
  BY <1>0, <1>5, OthersKeepPromise
<1> QED
  BY <1>1, <1>2, <1>3, <1>4, <1>5 DEF Next

\* Promises are kept throughout.
LEMMA HandoverAlways == Spec => []HandoverInv
BY HandoverInit, HandoverStep, PTL DEF Spec

\* Whatever is queued, written and freed meanwhile, on any backend and in any
\* context: a consumer that has waited for the commands it was told to finds
\* in memory what the producer's calls before the handover put there.
THEOREM HandoverAlwaysComplete == Spec => []HandoverIsComplete
<1>1. HandoverInv => HandoverIsComplete
  <2> SUFFICES ASSUME HandoverInv, Promising, consumer.behind = 0
               PROVE  memory[consumer.data.at] = consumer.promised
    BY DEF HandoverIsComplete, Promising
  <2>1. SubSeq(queue, 1, 0) = <<>>
    BY DEF HandoverInv, TypeOK
  <2> QED
    BY <2>1, AfterNothing DEF HandoverInv, PromiseKept
<1> QED
  BY <1>1, HandoverAlways, PTL

----------------------------------------------------------------------------
\* What the store's view of a device rests on.
StoreInv == HandoverInv /\ OwnershipInv

\* The value a pointer's memory settles to.
LEMMA SettledTyped == TypeOK => Settled \in [Addresses -> Values]
BY AfterTyped DEF TypeOK, Settled

\* What an array holds in the eyes of its user.
LEMMA ViewOf ==
  ASSUME StoreInv, NEW a \in Arrays
  PROVE  /\ HoldsView[a] = IF initialized /\ Usable(a) THEN data[a] ELSE NoData
         /\ initialized /\ Usable(a) =>
              /\ data[a] \in Pointer /\ data[a].at \in Addresses
              /\ HoldsView[a] = data[a] /\ HoldsView[a] # NoData
              /\ data[a] \in DOMAIN ContentsView
              /\ ContentsView[data[a]] = Settled[data[a].at]
<1>1. TypeOK
  BY DEF StoreInv, HandoverInv
<1>2. HoldsView[a] = IF initialized /\ Usable(a) THEN data[a] ELSE NoData
  BY DEF HoldsView
<1>3. ASSUME initialized, Usable(a)
      PROVE  /\ data[a] \in Pointer /\ data[a].at \in Addresses
             /\ HoldsView[a] = data[a] /\ HoldsView[a] # NoData
             /\ data[a] \in DOMAIN ContentsView
             /\ ContentsView[data[a]] = Settled[data[a].at]
  <2>1. data[a] \in Pointer /\ data[a].at \in Addresses
    BY <1>1, <1>3, UsableTyped
  <2>2. HoldsView[a] = data[a] /\ data[a] # NoData
    BY <1>2, <1>3 DEF Usable
  <2>3. data[a] \in {HoldsView[b] : b \in Arrays} \ {NoData}
    BY <2>2
  <2> QED
    BY <2>1, <2>2, <2>3 DEF ContentsView
<1> QED
  BY <1>2, <1>3

\* The cells users hold are pointers somebody holds, and differ by their addresses.
LEMMA HeldCells ==
  ASSUME StoreInv
  PROVE  /\ DOMAIN ContentsView = Store!Held(HoldsView)
         /\ DOMAIN ContentsView \subseteq Holders \cap Pointer
         /\ \A p, q \in DOMAIN ContentsView : p.at = q.at => p = q
         /\ \A p \in DOMAIN ContentsView : ContentsView[p] = Settled[p.at]
<1>1. DOMAIN ContentsView = Store!Held(HoldsView)
  BY DEF ContentsView, Store!Held
<1>2. DOMAIN ContentsView \subseteq Holders
  <2> SUFFICES ASSUME NEW a \in Arrays, HoldsView[a] # NoData PROVE HoldsView[a] \in Holders
    BY DEF ContentsView
  <2>1. HoldsView[a] = data[a]
    BY ViewOf
  <2> QED
    BY <2>1 DEF Holders
<1>3. Holders \subseteq Pointer
  BY HoldersArePointers DEF StoreInv, OwnershipInv
<1>4. \A p, q \in DOMAIN ContentsView : p.at = q.at => p = q
  BY <1>2 DEF StoreInv, OwnershipInv, HoldersDiffer
<1>5. \A p \in DOMAIN ContentsView : ContentsView[p] = Settled[p.at]
  BY DEF ContentsView
<1> QED
  BY <1>1, <1>2, <1>3, <1>4, <1>5

\* Steps their users cannot see.
LEMMA UnseenStep ==
  ASSUME UNCHANGED <<initialized, contexts, data, got>>, Settled' = Settled
  PROVE  UNCHANGED <<HoldsView, ContentsView, got>>
<1>1. HoldsView' = HoldsView
  BY DEF HoldsView, Usable
<1> QED
  BY <1>1 DEF ContentsView

\* A device that is gone shows nothing.
LEMMA NothingShown ==
  ASSUME ~initialized
  PROVE  /\ HoldsView = [a \in Arrays |-> NoData]
         /\ ContentsView = [p \in {} |-> NoData]
<1>1. HoldsView = [a \in Arrays |-> NoData]
  BY DEF HoldsView
<1>2. {HoldsView[a] : a \in Arrays} \ {NoData} = {}
  BY <1>1
<1> QED
  BY <1>1, <1>2 DEF ContentsView

\* One address takes a value: the store sets the cell that is there.
LEMMA SetRefines ==
  ASSUME StoreInv, StoreInv', NEW b \in Arrays, NEW v, Ready, Usable(b),
         Settled' = [Settled EXCEPT ![data[b].at] = v],
         UNCHANGED <<initialized, contexts, data, got>>
  PROVE  Store!StoreSet(b, v)
<1>1. HoldsView' = HoldsView
  BY DEF HoldsView, Usable
<1>2. /\ HoldsView[b] = data[b] /\ HoldsView[b] # NoData
      /\ data[b] \in DOMAIN ContentsView /\ data[b].at \in Addresses
  BY ViewOf DEF Ready
<1>3. DOMAIN ContentsView' = DOMAIN ContentsView
  BY <1>1 DEF ContentsView
<1>4. Settled \in [Addresses -> Values]
  BY SettledTyped DEF StoreInv, HandoverInv
<1>5. ASSUME NEW p \in DOMAIN ContentsView
      PROVE  ContentsView'[p] = IF p = data[b] THEN v ELSE ContentsView[p]
  <2>1. ContentsView'[p] = Settled'[p.at] /\ ContentsView[p] = Settled[p.at]
    BY <1>3 DEF ContentsView
  <2>2. p.at = data[b].at => p = data[b]
    BY <1>2, HeldCells
  <2>3. p.at \in Addresses
    BY HeldCells DEF Pointer
  <2> QED
    BY <1>2, <1>4, <2>1, <2>2, <2>3
<1>6. ContentsView' = [p \in DOMAIN ContentsView' |-> ContentsView'[p]]
  BY DEF ContentsView
<1>7. ContentsView' = [ContentsView EXCEPT ![data[b]] = v]
  BY <1>3, <1>5, <1>6
<1> QED
  BY <1>1, <1>2, <1>7 DEF Store!StoreSet

\* However a command is submitted, it has its effect after all others.
LEMMA SubmitSettles ==
  ASSUME StoreInv, Ready, NEW cmd \in Command, Submit(cmd)
  PROVE  Settled' = Effect(cmd, Settled)
<1>1. queue \in Seq(Command)
  BY DEF StoreInv, HandoverInv, TypeOK
<1>2. CASE backend = "metal"
  <2>1. queue = <<>> /\ queue' = <<>> /\ memory' = Effect(cmd, memory)
    BY <1>2 DEF StoreInv, HandoverInv, Ready, Submit
  <2> QED
    BY <2>1, AfterNothing DEF Settled
<1>3. CASE backend # "metal"
  <2>1. queue' = Append(queue, cmd) /\ memory' = memory
    BY <1>3 DEF Submit
  <2> QED
    BY <1>1, <2>1, AfterAppend DEF Settled
<1> QED
  BY <1>2, <1>3

\* The four calls that write set a cell of the store.
LEMMA WritesRefine ==
  ASSUME StoreInv, StoreInv',
         \/ \E a \in Arrays, v \in Values : WriteFrom(a, v) \/ Fill(a, v)
         \/ \E a, b \in Arrays : CopyTo(a, b) \/ ExecuteKernel(a, b)
  PROVE  Store!StoreNext
<1>1. TypeOK /\ queue \in Seq(Command)
  BY DEF StoreInv, HandoverInv, TypeOK
<1>2. ASSUME NEW a \in Arrays, NEW v \in Values, WriteFrom(a, v)
      PROVE  Store!StoreSet(a, v)
  <2>1. queue = <<>> /\ queue' = <<>> /\ memory' = [memory EXCEPT ![data[a].at] = v]
    BY <1>2 DEF WriteFrom, Ready, Drained, StoreInv, HandoverInv
  <2>2. Settled' = [Settled EXCEPT ![data[a].at] = v]
    BY <2>1, AfterNothing DEF Settled
  <2> QED
    BY <1>2, <2>2, SetRefines DEF WriteFrom
<1>3. ASSUME NEW a \in Arrays, NEW v \in Values, Fill(a, v)
      PROVE  Store!StoreSet(a, v)
  <2> DEFINE cmd == [op |-> "set", to |-> data[a].at, value |-> v]
  <2>1. cmd \in Command
    BY <1>1, <1>3, UsableTyped DEF Fill, Command
  <2>2. Submit(cmd)
    BY <1>3 DEF Fill
  <2>3. Effect(cmd, Settled) = [Settled EXCEPT ![data[a].at] = v]
    BY DEF Effect
  <2> HIDE DEF cmd
  <2>4. Settled' = [Settled EXCEPT ![data[a].at] = v]
    BY <1>3, <2>1, <2>2, <2>3, SubmitSettles DEF Fill
  <2> QED
    BY <1>3, <2>4, SetRefines DEF Fill
<1>4. ASSUME NEW a \in Arrays, NEW b \in Arrays, CopyTo(a, b)
      PROVE  HoldsView[a] # NoData /\ Store!StoreSet(b, ContentsView[HoldsView[a]])
  <2> DEFINE cmd == [op |-> "copy", to |-> data[b].at, from |-> data[a].at]
  <2>1. cmd \in Command
    BY <1>1, <1>4, UsableTyped DEF CopyTo, Command
  <2>2. Submit(cmd)
    BY <1>4 DEF CopyTo
  <2>3. Effect(cmd, Settled) = [Settled EXCEPT ![data[b].at] = Settled[data[a].at]]
    BY DEF Effect
  <2> HIDE DEF cmd
  <2>4. Settled' = [Settled EXCEPT ![data[b].at] = Settled[data[a].at]]
    BY <1>4, <2>1, <2>2, <2>3, SubmitSettles DEF CopyTo
  <2>5. HoldsView[a] # NoData /\ ContentsView[HoldsView[a]] = Settled[data[a].at]
    BY <1>4, ViewOf DEF CopyTo, Ready
  <2> QED
    BY <1>4, <2>4, <2>5, SetRefines DEF CopyTo
<1>5. ASSUME NEW a \in Arrays, NEW b \in Arrays, ExecuteKernel(a, b)
      PROVE  HoldsView[a] # NoData /\ Store!StoreSet(b, Compute[ContentsView[HoldsView[a]]])
  <2> DEFINE cmd == [op |-> "kernel", to |-> data[b].at, from |-> data[a].at]
  <2>1. cmd \in Command
    BY <1>1, <1>5, UsableTyped DEF ExecuteKernel, Command
  <2>2. queue' = Append(queue, cmd) /\ memory' = memory
    BY <1>5 DEF ExecuteKernel
  <2>3. Effect(cmd, Settled) = [Settled EXCEPT ![data[b].at] = Compute[Settled[data[a].at]]]
    BY DEF Effect
  <2> HIDE DEF cmd
  <2>4. Settled' = [Settled EXCEPT ![data[b].at] = Compute[Settled[data[a].at]]]
    BY <1>1, <2>1, <2>2, <2>3, AfterAppend DEF Settled
  <2>5. HoldsView[a] # NoData /\ ContentsView[HoldsView[a]] = Settled[data[a].at]
    BY <1>5, ViewOf DEF ExecuteKernel, Ready
  <2> QED
    BY <1>5, <2>4, <2>5, SetRefines DEF ExecuteKernel
<1> QED
  BY <1>2, <1>3, <1>4, <1>5 DEF Store!StoreNext

\* A new array holds a cell nobody else holds.
LEMMA AllocateRefines ==
  ASSUME StoreInv, StoreInv', NEW a \in Arrays, Allocate(a)
  PROVE  Store!StoreCreate(a)
<1>1. PICK at \in Addresses \ (inUse \cup Queued) :
        data' = [data EXCEPT ![a] = [at |-> at, ctx |-> contexts]]
  BY DEF Allocate
<1> DEFINE cell == [at |-> at, ctx |-> contexts]
<1>2. /\ UNCHANGED <<initialized, contexts, memory, queue, got>> /\ initialized
      /\ data[a] = NoData
  BY DEF Allocate, Ready
<1>3. cell \in Pointer /\ cell # NoData /\ data \in [Arrays -> Pointer \cup {NoData}]
  BY QueueAssumption DEF StoreInv, OwnershipInv, OwnershipTypes, Pointer
<1>4. HoldsView[a] = NoData
  BY <1>2 DEF HoldsView, Usable
<1>5. HoldsView' = [HoldsView EXCEPT ![a] = cell]
  BY <1>1, <1>2, <1>3 DEF HoldsView, Usable
<1>6. cell \notin Store!Held(HoldsView)
  BY <1>2, HeldCells DEF StoreInv, OwnershipInv, HoldersOwn
<1>7. Settled' = Settled /\ Settled[at] \in Values
  BY <1>2, SettledTyped DEF Settled, StoreInv, HandoverInv
<1> HIDE DEF cell
<1>8. {HoldsView'[b] : b \in Arrays} \ {NoData} = Store!Held(HoldsView) \cup {cell}
  <2>1. DOMAIN HoldsView = Arrays
    BY DEF HoldsView
  <2> QED
    BY <1>3, <1>4, <1>5, <2>1 DEF Store!Held
<1>9. ContentsView' = [x \in Store!Held(HoldsView) \cup {cell} |->
                        IF x = cell THEN Settled[at] ELSE ContentsView[x]]
  <2>1. ContentsView' = [x \in Store!Held(HoldsView) \cup {cell} |-> Settled'[x.at]]
    BY <1>8 DEF ContentsView
  <2>2. cell.at = at
    BY DEF cell
  <2>3. \A x \in Store!Held(HoldsView) : ContentsView[x] = Settled[x.at]
    BY HeldCells
  <2> QED
    BY <1>7, <2>1, <2>2, <2>3
<1> QED
  BY <1>2, <1>3, <1>4, <1>5, <1>6, <1>7, <1>9 DEF Store!StoreCreate

\* A copied pointer holds the same cell.
LEMMA ShareRefines ==
  ASSUME StoreInv, NEW a \in Arrays, NEW b \in Arrays, Share(a, b)
  PROVE  Store!StoreShare(a, b)
<1>1. /\ UNCHANGED <<initialized, contexts, memory, queue, got>> /\ initialized
      /\ Usable(a) /\ data[b] = NoData /\ data' = [data EXCEPT ![b] = data[a]]
  BY DEF Share, Ready
<1>2. data \in [Arrays -> Pointer \cup {NoData}]
  BY DEF StoreInv, OwnershipInv, OwnershipTypes
<1>3. HoldsView[a] = data[a] /\ HoldsView[a] # NoData /\ HoldsView[b] = NoData
  BY <1>1, ViewOf DEF Usable
<1>4. HoldsView' = [HoldsView EXCEPT ![b] = HoldsView[a]]
  <2>1. HoldsView' = [c \in Arrays |-> IF c = b THEN data[a] ELSE HoldsView[c]]
    BY <1>1, <1>2 DEF HoldsView, Usable
  <2> QED
    BY <1>3, <2>1 DEF HoldsView
<1>5. {HoldsView'[c] : c \in Arrays} \ {NoData} = {HoldsView[c] : c \in Arrays} \ {NoData}
  <2>1. DOMAIN HoldsView = Arrays
    BY DEF HoldsView
  <2> QED
    BY <1>3, <1>4, <2>1
<1>6. ContentsView' = ContentsView
  BY <1>1, <1>5 DEF ContentsView, Settled
<1> QED
  BY <1>1, <1>3, <1>4, <1>6 DEF Store!StoreShare

\* A dropped array forgets its cell unless a view holds it.
LEMMA DropRefines ==
  ASSUME StoreInv, NEW a \in Arrays, Drop(a)
  PROVE  Store!StoreDrop(a)
<1>1. /\ UNCHANGED <<initialized, contexts, memory, queue, got>>
      /\ data' = [data EXCEPT ![a] = NoData]
  BY DEF Drop
<1>2. data \in [Arrays -> Pointer \cup {NoData}]
  BY DEF StoreInv, OwnershipInv, OwnershipTypes
<1>3. HoldsView' = [HoldsView EXCEPT ![a] = NoData]
  BY <1>1, <1>2 DEF HoldsView, Usable
<1>4. Store!Held(HoldsView') \subseteq Store!Held(HoldsView)
  BY <1>3 DEF Store!Held, HoldsView
<1>5. Settled' = Settled
  BY <1>1 DEF Settled
<1>6. ContentsView' = [p \in Store!Held(HoldsView') |-> Settled[p.at]]
  BY <1>5 DEF ContentsView, Store!Held
<1>7. \A p \in Store!Held(HoldsView) : ContentsView[p] = Settled[p.at]
  BY HeldCells
<1>8. ContentsView' = Store!Kept(HoldsView', ContentsView)
  BY <1>4, <1>6, <1>7 DEF Store!Kept
<1> QED
  BY <1>1, <1>3, <1>8 DEF Store!StoreDrop

\* A read has waited for the queue, so memory is what users see.
LEMMA ReadToRefines ==
  ASSUME StoreInv, NEW a \in Arrays, ReadTo(a)
  PROVE  Store!StoreRead(a)
<1>1. queue = <<>> /\ initialized /\ Usable(a)
  BY DEF ReadTo, Ready, Drained, StoreInv, HandoverInv
<1>2. UNCHANGED <<initialized, contexts, data, memory, queue>> /\ got' = memory[data[a].at]
  BY DEF ReadTo
<1>3. Settled = memory /\ Settled' = Settled
  BY <1>1, <1>2, AfterNothing DEF Settled
<1>4. HoldsView' = HoldsView
  BY <1>2 DEF HoldsView, Usable
<1>5. ContentsView' = ContentsView
  BY <1>3, <1>4 DEF ContentsView
<1>6. HoldsView[a] # NoData /\ got' = ContentsView[HoldsView[a]]
  BY <1>1, <1>2, <1>3, ViewOf
<1> QED
  BY <1>4, <1>5, <1>6 DEF Store!StoreRead

\* Execution, waits and handovers are not seen; the end of a device closes the store.
LEMMA OthersRefine ==
  ASSUME StoreInv, StoreInv',
         \/ \E a \in Arrays, ownStream \in BOOLEAN : SyncToStream(a, ownStream)
         \/ \E flag \in BOOLEAN : SetWaitToFinish(flag)
         \/ Finish \/ FinishReturns \/ ConsumerReleases \/ Execute
         \/ OpenCLFinalize \/ OpenCLRelease \/ EarlyFinalize \/ Initialize
         \/ UNCHANGED deviceVars
  PROVE  Store!StoreClose \/ UNCHANGED <<HoldsView, ContentsView, got>>
<1>1. ASSUME UNCHANGED <<initialized, contexts, data, got, memory, queue>>
      PROVE  UNCHANGED <<HoldsView, ContentsView, got>>
  BY <1>1, UnseenStep DEF Settled
<1>2. CASE Execute
  <2>1. queue \in Seq(Command) /\ queue # <<>>
    BY <1>2 DEF StoreInv, HandoverInv, TypeOK, Execute
  <2>2. memory' = Effect(Head(queue), memory) /\ queue' = Tail(queue)
    BY <1>2 DEF Execute
  <2>3. Settled' = Settled
    BY <2>1, <2>2, AfterHead DEF Settled
  <2> QED
    BY <1>2, <2>3, UnseenStep DEF Execute
<1>3. CASE OpenCLRelease \/ EarlyFinalize
  <2>1. ~initialized' /\ got' = got
    BY <1>3 DEF OpenCLRelease, EarlyFinalize
  <2>2. HoldsView' = [a \in Arrays |-> NoData] /\ ContentsView' = [p \in {} |-> NoData]
    <3>1. HoldsView' = [a \in Arrays |-> NoData]
      BY <2>1 DEF HoldsView
    <3>2. {HoldsView'[a] : a \in Arrays} \ {NoData} = {}
      BY <3>1
    <3> QED
      BY <3>1, <3>2 DEF ContentsView
  <2> QED
    BY <2>1, <2>2 DEF Store!StoreClose
<1>4. CASE Initialize
  <2>1. ~initialized /\ contexts' = contexts + 1 /\ data' = data /\ got' = got
    BY <1>4 DEF Initialize
  <2>2. \A a \in Arrays : ~Usable(a)'
    <3> SUFFICES ASSUME NEW a \in Arrays, data[a] # NoData PROVE data[a].ctx # contexts + 1
      BY <2>1 DEF Usable
    <3>1. data[a].ctx <= contexts /\ data[a].ctx \in Nat /\ contexts \in Nat
      BY HandoverTypes DEF StoreInv, HandoverInv
    <3> QED
      BY <3>1
  <2>3. HoldsView' = [a \in Arrays |-> NoData]
    BY <2>2 DEF HoldsView
  <2>4. {HoldsView'[a] : a \in Arrays} \ {NoData} = {}
    BY <2>3
  <2>5. ContentsView' = [p \in {} |-> NoData]
    BY <2>4 DEF ContentsView
  <2> QED
    BY <2>1, <2>3, <2>5, NothingShown
<1>5. CASE \E a \in Arrays, ownStream \in BOOLEAN : SyncToStream(a, ownStream)
  BY <1>1, <1>5 DEF SyncToStream
<1>6. CASE \/ \E flag \in BOOLEAN : SetWaitToFinish(flag)
           \/ Finish \/ FinishReturns \/ ConsumerReleases \/ OpenCLFinalize
  BY <1>1, <1>6 DEF SetWaitToFinish, Finish, FinishReturns, ConsumerReleases, OpenCLFinalize
<1>7. CASE UNCHANGED deviceVars
  BY <1>1, <1>7 DEF deviceVars
<1> QED
  BY <1>2, <1>3, <1>4, <1>5, <1>6, <1>7

\* Every step is one of the store's, or not seen.
LEMMA StoreStep ==
  ASSUME StoreInv, StoreInv', [Next]_deviceVars
  PROVE  [Store!StoreNext]_<<HoldsView, ContentsView, got>>
<1>1. CASE \E a \in Arrays : Allocate(a) \/ Drop(a) \/ ReadTo(a)
  BY <1>1, AllocateRefines, DropRefines, ReadToRefines DEF Store!StoreNext
<1>2. CASE \E a, b \in Arrays : Share(a, b)
  BY <1>2, ShareRefines DEF Store!StoreNext
<1>3. CASE \/ \E a \in Arrays, v \in Values : WriteFrom(a, v) \/ Fill(a, v)
           \/ \E a, b \in Arrays : CopyTo(a, b) \/ ExecuteKernel(a, b)
  BY <1>3, WritesRefine
<1>4. CASE \/ \E a \in Arrays, ownStream \in BOOLEAN : SyncToStream(a, ownStream)
           \/ \E flag \in BOOLEAN : SetWaitToFinish(flag)
           \/ Finish \/ FinishReturns \/ ConsumerReleases \/ Execute
           \/ OpenCLFinalize \/ OpenCLRelease \/ EarlyFinalize \/ Initialize
           \/ UNCHANGED deviceVars
  <2>1. Store!StoreClose \/ UNCHANGED <<HoldsView, ContentsView, got>>
    BY <1>4, OthersRefine
  <2> QED
    BY <2>1 DEF Store!StoreNext
<1> QED
  BY <1>1, <1>2, <1>3, <1>4 DEF Next

\* A device starts as an empty store.
LEMMA StoreStart == Init => Store!StoreInit
<1> SUFFICES ASSUME Init PROVE Store!StoreInit
  OBVIOUS
<1>1. HoldsView = [a \in Arrays |-> NoData]
  BY DEF Init, HoldsView, Usable
<1>2. {HoldsView[a] : a \in Arrays} \ {NoData} = {}
  BY <1>1
<1>3. ContentsView = [p \in {} |-> NoData]
  BY <1>2 DEF ContentsView
<1>4. got \in Values
  BY DEF Init
<1> QED
  BY <1>1, <1>3, <1>4 DEF Store!StoreInit

\* Unless a CUDA device is initialized again after finalize, arrays behave as
\* if there were no queue, no shared pointers and no deleters: each call takes
\* effect at once and in its order, a read returns what the calls before it
\* wrote, and a new array shares its memory with nobody.
THEOREM QueueImplementsArrayStore ==
  "cuda" \notin Reopening => (Spec => ImplementsArrayStore)
<1> SUFFICES ASSUME "cuda" \notin Reopening PROVE Spec => ImplementsArrayStore
  OBVIOUS
<1>1. Init => Store!StoreInit
  BY StoreStart
<1>2. HandoverInv /\ OwnershipInv /\ HandoverInv' /\ OwnershipInv' /\ [Next]_deviceVars
        => [Store!StoreNext]_<<HoldsView, ContentsView, got>>
  BY StoreStep DEF StoreInv
<1>3. Spec => []HandoverInv
  BY HandoverAlways
<1>4. Spec => []OwnershipInv
  BY OwnershipAlways
<1> QED
  BY <1>1, <1>2, <1>3, <1>4, PTL DEF Spec, Store!StoreSpec, Store!storeVars, ImplementsArrayStore
=============================================================================
