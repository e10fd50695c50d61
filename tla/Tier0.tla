------------------------------- MODULE Tier0 --------------------------------
(***************************************************************************)
(* The ground the image operations stand on: arrays as handles of memory,  *)
(* the destinations tier0.cpp creates or checks, and the launches and      *)
(* copies the operations issue (execution.cpp, array.cpp).                 *)
(*                                                                         *)
(* An operation is an operator from one state m of the arrays to the next; *)
(* the tiers above compose them.  It decides what it does from extents,    *)
(* types and values on the host, and queues commands for the device, which *)
(* carries them out in their order.  A state is a record:                  *)
(*   arrays   sequence of handles [mem, shape, dim, type]; a pointer is an *)
(*            index into it, Null stands for nullptr                       *)
(*   memory   sequence of contents [written, from, reach, kept]: whether   *)
(*            every element has been written, the memories of the caller   *)
(*            its values derive from, how many columns away, and whether   *)
(*            it is as the caller left it                                  *)
(*   ret      the pointers the last call returned                          *)
(*   thrown   an exception is on its way: nothing more happens             *)
(*   faults   what went wrong without an exception                         *)
(*   passes   after how many passes a data-dependent loop comes to rest    *)
(*   host     the value a reduction brings back to the host                *)
(*   queue    the commands [kernel, srcs, dsts, range] so far              *)
(***************************************************************************)
EXTENDS Integers, Sequences, SequencesExt

Null == 0

\* Where values on the host come from and go to, in commands.
Host == -1

dType == {"INT8", "UINT8", "INT16", "UINT16", "INT32", "UINT32", "FLOAT", "COMPLEX"}
BOOL == "UINT8"
LABEL == "UINT32"
INDEX == "UINT32"

Faults == {"undefined", "race", "reinterpreted", "misread", "misfit", "null"}

NoArray == [mem |-> 0, shape |-> <<1, 1, 1>>, dim |-> 1, type |-> "UINT8"]

\* An exception has left the operation: nothing it would have looked at matters.
Array(m, p) == IF m.thrown THEN NoArray ELSE m.arrays[p]
Shape(m, p) == Array(m, p).shape
Width(m, p) == Shape(m, p)[1]
Height(m, p) == Shape(m, p)[2]
Depth(m, p) == Shape(m, p)[3]
Elements(shape) == shape[1] * shape[2] * shape[3]
Size(m, p) == Elements(Shape(m, p))
Type(m, p) == Array(m, p).type
Unwritten == [written |-> FALSE, from |-> {}, reach |-> 0, kept |-> FALSE]
Blank == [Unwritten EXCEPT !.written = TRUE]

Ret(m) == m.ret[1]
Return(m, p) == [m EXCEPT !.ret = <<p>>]
Throw(m) == [m EXCEPT !.thrown = TRUE]
Require(m, condition) == IF m.thrown \/ condition THEN m ELSE Throw(m)

\* A step and the rest of the operation, as a function of the state the step leaves.
Then(rest) == rest[CHOOSE step \in DOMAIN rest : TRUE]

\* Nothing throws, but it is wrong.
Blame(m, wrong, fault) ==
  IF ~m.thrown /\ wrong THEN [m EXCEPT !.faults = @ \cup {fault}] ELSE m

\* Array::create: memory is allocated, not cleared; an extent is at least 1.
Create(m, shape, dim, type) ==
  IF m.thrown THEN m
  ELSE [m EXCEPT !.memory = Append(@, Unwritten),
                 !.arrays = Append(@, [mem |-> Len(m.memory) + 1, dim |-> dim, type |-> type,
                                       shape |-> [i \in 1..3 |-> Max({shape[i], 1})]]),
                 !.ret = <<Len(m.arrays) + 1>>]

\* Array::create(array): a new array with the extents and type of another.
CreateAs(m, p) == Create(m, Shape(m, p), Array(m, p).dim, Type(m, p))

\* Array::reshape: another handle of the same memory.
Reshape(m, p, shape, dim) ==
  IF m.thrown THEN m
  ELSE IF Elements(shape) # Size(m, p) THEN Throw(m)
  ELSE [m EXCEPT !.arrays = Append(@, [Array(m, p) EXCEPT !.shape = shape, !.dim = dim]),
                 !.ret = <<Len(m.arrays) + 1>>]

-----------------------------------------------------------------------------
(* Element types *)

Signed == {"INT8", "INT16", "INT32"}

Bytes(type) == CASE type \in {"INT8", "UINT8"} -> 1
                 [] type \in {"INT16", "UINT16"} -> 2
                 [] OTHER -> 4

\* utils.hpp promoteType: the type of a value computed from two operands.
promoteType(first, second) ==
  LET mixed == {first, second}
      signed == IF first \in Signed THEN first ELSE second
      unsigned == IF first \in Signed THEN second ELSE first
  IN CASE first = second -> first
       [] "COMPLEX" \in mixed -> "COMPLEX"
       [] "FLOAT" \in mixed -> "FLOAT"
       [] (first \in Signed) = (second \in Signed) ->
            IF Bytes(second) > Bytes(first) THEN second ELSE first
       [] Bytes(signed) > Bytes(unsigned) -> signed
       [] Bytes(unsigned) = 1 -> "INT16"
       [] Bytes(unsigned) = 2 -> "INT32"
       [] OTHER -> "FLOAT"

\* The type sums and products accumulate in.
accumulator_type(type) == CASE type \in Signed -> "INT32"
                            [] type \in {"UINT8", "UINT16", "UINT32"} -> "UINT32"
                            [] OTHER -> "FLOAT"

shape_to_dimension(shape) == IF shape[3] > 1 THEN 3 ELSE IF shape[2] > 1 THEN 2 ELSE 1

-----------------------------------------------------------------------------
(* Destinations: an array the caller supplied is checked, a null one created *)

\* The type of a created destination: the source's unless one is given.
TypeOr(m, src, type) == IF type = "UNKNOWN" THEN Type(m, src) ELSE type

\* check_and_set, check_dst_shape and Array::create, as the create_* functions chain
\* them.  dim is the dimension of a created array, checked the one a supplied array
\* must have (0: any), sameShape whether its extents are compared at all.
Destination(m, src, dst, shape, dim, checked, sameShape, type) ==
  IF m.thrown THEN m
  ELSE IF dst # Null
       THEN Require(Return(m, dst), /\ sameShape => Shape(m, dst) = shape
                                    /\ checked # 0 => Array(m, dst).dim = checked)
  ELSE IF src = Null THEN Throw(m)
  ELSE Create(m, shape, dim, TypeOr(m, src, type))

\* create_dst and its permutations of the source's extents.
create_dst(m, src, dst, shape, type, keep_dims) ==
  LET kept == IF keep_dims THEN Array(m, src).dim ELSE 0
  IN Destination(m, src, dst, shape, IF keep_dims THEN kept ELSE shape_to_dimension(shape),
                 kept, TRUE, type)

Section(shape, i, j) == <<shape[i], shape[j], 1>>
create_xy(m, src, dst, type, keep_dims) ==
  create_dst(m, src, dst, Section(Shape(m, src), 1, 2), type, keep_dims)
create_yz(m, src, dst, type, keep_dims) ==
  create_dst(m, src, dst, Section(Shape(m, src), 2, 3), type, keep_dims)
create_xz(m, src, dst, type, keep_dims) ==
  create_dst(m, src, dst, Section(Shape(m, src), 1, 3), type, keep_dims)

\* These take a supplied destination as it is.
create_like(m, src, dst, type) ==
  Destination(m, src, dst, Shape(m, src), Array(m, src).dim, 0, FALSE, type)
create_one(m, src, dst, type) == Destination(m, src, dst, <<1, 1, 1>>, 1, 0, FALSE, type)

\* Mutant of create_vector: a vector of no dimension.
create_vector_flat(m, src, dst, size, type) ==
  Destination(m, src, dst, <<size, 1, 1>>, 0, 0, FALSE, type)

create_vector(m, src, dst, size, type) ==
  Destination(m, src, dst, <<size, 1, 1>>, 1, 0, FALSE, type)

\* Extents are compatible when on each axis all that are not 1 are equal.
Broadcastable(shapes) ==
  \A i \in 1..3, s, t \in shapes : s[i] = t[i] \/ s[i] = 1 \/ t[i] = 1

\* infer_broadcast_shape, for any number of arrays.
infer_broadcast_shape(shapes) ==
  [i \in 1..3 |-> Max({s[i] : s \in shapes})]

create_or_check_broadcast_dst(m, src0, src1, dst, type) ==
  LET shapes == {Shape(m, src0), Shape(m, src1)}
      dim == Max({Array(m, src0).dim, Array(m, src1).dim})
      ready == Require(m, src0 # Null /\ src1 # Null /\ Broadcastable(shapes))
  IN Destination(ready, src0, dst, infer_broadcast_shape(shapes), dim, dim, TRUE, type)

-----------------------------------------------------------------------------
(* Kernels, by what one work item reads and what one launch writes.  Those   *)
(* whose text is in the repository (files of tier1/, tier2/label_spots.cpp,  *)
(* tier4/centroids_of_labels.cpp, statistics.cpp) have the kind of the text; *)
(* the others are in a submodule and have the kind their use asks for.       *)

\* hops: how many columns away sources are read; own: how many of the sources, from the
\* first, are read at the position that is written only; writes: all of the range, or
\* some of the destination, as data or positions say.
Elementwise == [hops |-> 0, own |-> 9, writes |-> "range"]
Gather      == [hops |-> 0, own |-> 0, writes |-> "range"]
Lookup      == [hops |-> 0, own |-> 1, writes |-> "range"]
Scatter     == [hops |-> 0, own |-> 0, writes |-> "some"]
Partly      == [hops |-> 0, own |-> 9, writes |-> "some"]

\* Reads the first source around the position, radius elements along each axis.
Around(radius) == [hops |-> radius[1], own |-> IF radius = <<0, 0, 0>> THEN 1 ELSE 0,
                   writes |-> "range"]
Stencil == Around(<<1, 1, 1>>)

Covers(kernel, range, shape) ==
  kernel.writes = "range" /\ \A i \in 1..3 : range[i] >= shape[i]

\* One launch that reads srcs and writes the arrays of dsts.  Nothing between the caller
\* and the generated source asks whether a parameter is null.
Launch(m, kernel, srcs, dsts, range) ==
  IF m.thrown THEN m
  ELSE IF Null \in ToSet(srcs \o dsts) THEN Throw(Blame(m, TRUE, "null"))
  ELSE [m EXCEPT !.queue = Append(@, [kernel |-> kernel, srcs |-> srcs, dsts |-> dsts,
                                      range |-> range])]

\* A launch over the extents of its only destination, which the operation returns.
execute(m, kernel, srcs, dst) ==
  Return(Launch(m, kernel, srcs, <<dst>>, Shape(m, dst)), dst)

\* evaluate: a pointwise expression over arrays that broadcast to the output.
evaluate(m, srcs, dst) ==
  LET shapes == {Shape(m, srcs[i]) : i \in DOMAIN srcs}
  IN execute(Require(m, /\ \A i \in DOMAIN srcs : srcs[i] # Null
                        /\ Broadcastable(shapes)
                        /\ Shape(m, dst) = infer_broadcast_shape(shapes)),
             Elementwise, srcs, dst)

-----------------------------------------------------------------------------
(* Calls on the memory of arrays *)

\* fill, and writeFrom of values the host has at hand or has derived from what it read.
Fill(m, p) == Launch(m, Elementwise, <<>>, <<p>>, Shape(m, p))
WriteFrom(m, p) == Launch(m, Elementwise, <<Host>>, <<p>>, Shape(m, p))

\* copyTo moves the elements as they are, whatever the two types.
CopyTo(m, src, dst) ==
  Then([fits \in {Require(m, Size(m, src) = Size(m, dst))} |->
  Launch(Blame(fits, Type(m, src) # Type(m, dst), "reinterpreted"),
         Elementwise, <<src>>, <<dst>>, Shape(m, dst))])

\* copyTo of a region: the rest of the destination stays.
CopyRegion(m, src, dst, region) ==
  Launch(Blame(m, Type(m, src) # Type(m, dst), "reinterpreted"),
         Gather, <<src>>, <<dst>>, region)

\* readTo puts the bytes of an element over those of a host variable and compares no
\* types.  The value is right in the element's own type, and, on a little-endian host, for
\* an unsigned element in a wider size_t that was zero before.
ZeroedSize == "size_t"
ReadsAs(type, host) ==
  \/ host = type
  \/ host = ZeroedSize /\ type \in {"UINT8", "UINT16", "UINT32"}

ReadTo(m, p, host) ==
  Launch(Blame(m, ~ReadsAs(Type(m, p), host), "misread"), Partly, <<p>>, <<Host>>, Shape(m, p))

\* Arrays whose extents a kernel or the host takes for each other's without a check.
Fit(m, fits) == Blame(m, ~fits, "misfit")

-----------------------------------------------------------------------------
(* What the device does with the commands *)

MemoryOf(m, p) == IF p = Host THEN 1 ELSE m.arrays[p].mem + 1
Memories(m, ps) == {MemoryOf(m, p) : p \in ToSet(ps)}

\* The memories whose every element a command writes.
Filled(m, command) ==
  {MemoryOf(m, p) : p \in {q \in ToSet(command.dsts) :
                             q # Host /\ Covers(command.kernel, command.range, m.arrays[q].shape)}}

\* What a command that reads contents leaves of the content before.
Written(before, read, hops) ==
  [written |-> before.written, kept |-> FALSE,
   from |-> before.from \cup UNION {c.from : c \in read},
   reach |-> Max({before.reach} \cup {hops + c.reach : c \in read})]

\* done: the memories (the host's is the first) and the faults so far.
Progress(done, kernel, read, others, written, filled) ==
  [memory |-> [a \in DOMAIN done.memory |->
                 IF a \in written
                 THEN Written(IF a \in filled THEN Blank ELSE done.memory[a],
                              {done.memory[b] : b \in read}, kernel.hops)
                 ELSE done.memory[a]],
   faults |-> done.faults
              \cup {f \in {"undefined"} : \E a \in read : ~done.memory[a].written}
              \cup {f \in {"race"} : others \cap written # {}}]

CarryOut(m, done, command) ==
  Progress(done, command.kernel, Memories(m, command.srcs),
           Memories(m, SubSeq(command.srcs, command.kernel.own + 1, Len(command.srcs))),
           Memories(m, command.dsts), Filled(m, command))

\* The commands from one position of the queue up to another are carried out in order.
WorkedOff(m, done, from, to) ==
  LET after[i \in from..to] ==
        IF i = from THEN done
        ELSE Then([before \in {after[i - 1]} |-> CarryOut(m, before, m.queue[i])])
  IN after[to]

\* A stretch of the queue is carried out at a time: nothing but the depth of TLC's
\* recursion depends on how long it is.
Stretch == 12

\* The memories and faults when the queue has been worked off.
Unfinished(m) == [memory |-> <<Blank>> \o m.memory, faults |-> m.faults]
Finished(m) ==
  LET upTo(k) == Min({Stretch * k, Len(m.queue)})
      stretches == Len(m.queue) \div Stretch + 1
      worked[k \in 0..stretches] ==
        IF k = 0 THEN Unfinished(m)
        ELSE Then([done \in {worked[k - 1]} |-> WorkedOff(m, done, upTo(k - 1), upTo(k))])
  IN worked[stretches]

\* Mutants of execute_separable: an axis without radius is skipped and its image not
\* copied; the radius of an axis is used again for the next.
execute_separable_skips(m, src, dst, radius) ==
  LET only(axis) == [i \in 1..3 |-> IF i = axis THEN radius[i] ELSE 0]
      Pass(n, axis, in, out) ==
        IF Shape(m, dst)[axis] > 1 /\ radius[axis] > 0
        THEN Launch(n, Around(only(axis)), <<in>>, <<out>>, Shape(m, dst))
        ELSE n
  IN Then([tmp1 \in {CreateAs(m, dst)} |->
     Then([tmp2 \in {CreateAs(tmp1, dst)} |->
     Then([x \in {Pass(tmp2, 1, src, Ret(tmp1))} |->
     Then([y \in {Pass(x, 2, Ret(tmp1), Ret(tmp2))} |->
     Return(Pass(y, 3, Ret(tmp2), dst), dst)])])])])

execute_separable_again(m, src, dst, radius) ==
  LET upTo(axis) == [i \in 1..3 |-> IF i <= axis THEN radius[i] ELSE 0]
      Pass(n, axis, in, out) ==
        IF Shape(m, dst)[axis] > 1 /\ radius[axis] > 0
        THEN Launch(n, Around(upTo(axis)), <<in>>, <<out>>, Shape(m, dst))
        ELSE CopyTo(n, in, out)
  IN Then([tmp1 \in {CreateAs(m, dst)} |->
     Then([tmp2 \in {CreateAs(tmp1, dst)} |->
     Then([x \in {Pass(tmp2, 1, src, Ret(tmp1))} |->
     Then([y \in {Pass(x, 2, Ret(tmp1), Ret(tmp2))} |->
     Return(Pass(y, 3, Ret(tmp2), dst), dst)])])])])

\* execute_separable: one pass per axis through two temporaries of the destination's
\* type; an axis without extent or without radius is copied.
execute_separable(m, src, dst, radius) ==
  LET only(axis) == [i \in 1..3 |-> IF i = axis THEN radius[i] ELSE 0]
      Pass(n, axis, in, out) ==
        IF Shape(m, dst)[axis] > 1 /\ radius[axis] > 0
        THEN Launch(n, Around(only(axis)), <<in>>, <<out>>, Shape(m, dst))
        ELSE CopyTo(n, in, out)
  IN Then([tmp1 \in {CreateAs(m, dst)} |->
     Then([tmp2 \in {CreateAs(tmp1, dst)} |->
     Then([x \in {Pass(tmp2, 1, src, Ret(tmp1))} |->
     Then([y \in {Pass(x, 2, Ret(tmp1), Ret(tmp2))} |->
     Return(Pass(y, 3, Ret(tmp2), dst), dst)])])])])

=============================================================================
