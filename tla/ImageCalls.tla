----------------------------- MODULE ImageCalls -----------------------------
(***************************************************************************)
(* A caller and the image operations of all tiers.  The caller holds three *)
(* arrays, all written: a source, a second operand and an array of its     *)
(* own, and calls one operation; then it may call the same operation       *)
(* again, this time handing over the result of the first call as           *)
(* destination.                                                            *)
(*                                                                         *)
(* machine: the caller's arrays and the result, as the last call left them *)
(* call: what the last call was and what was asked of it                   *)
(***************************************************************************)
EXTENDS FFT

CONSTANTS Clients,    \* the triples of arrays, [shape, dim, type] each, a caller may hold
          Radii,      \* radii of neighbourhoods
          Passes,     \* after how many passes the loops over labels may come to rest
          Values      \* values that reductions may bring back to the host

ASSUME ImageOperationsAssumption ==
  /\ Radii \subseteq Nat /\ Values \subseteq Nat
  /\ Passes \subseteq Nat \ {0}
  /\ \A client \in Clients :
       /\ Len(client) = 3
       /\ \A i \in 1..3 : client[i] \in [shape : [1..3 -> Nat \ {0}], dim : 1..3, type : dType]

VARIABLES machine, call

vars == <<machine, call>>

Source == 1
Operand == 2
Own == 3
Held == 3

\* The result of a first call, where it is an array the caller did not hold before.
Result == Held + 1

NotCalled == [name |-> "none", srcs |-> <<>>, dst |-> Null, asked |-> <<>>, reach |-> {}]

\* Before a call every memory of the caller's is written and the origin of what is in it.
Mark(k) == [written |-> TRUE, from |-> {k}, reach |-> 0, kept |-> TRUE]
Labelled == <<Mark(1), Mark(2), Mark(3)>>

Init ==
  /\ \E client \in Clients :
       machine = [arrays |-> [i \in 1..Held |-> [mem |-> i, shape |-> client[i].shape,
                                                dim |-> client[i].dim, type |-> client[i].type]],
                  memory |-> Labelled, ret |-> <<Null>>, thrown |-> FALSE,
                  faults |-> {}, passes |-> 1, host |-> 1, queue |-> <<>>]
  /\ call = NotCalled

\* The arrays as a call finds them.
Found(passes, host) ==
  [machine EXCEPT !.memory = IF Len(@) = Held THEN Labelled ELSE Append(Labelled, Mark(Result)),
                  !.ret = <<Null>>, !.faults = {}, !.passes = passes, !.host = host]
Now == Found(1, 1)

\* What is left when a call has returned and the device has done what it was told: the
\* arrays of the caller and the result, which may be another handle of a caller's memory.
Left(after, done, arrays, memories, back) ==
  LET result == IF back <= arrays THEN 0 ELSE after.arrays[back].mem
  IN [after EXCEPT
        !.arrays = IF back <= arrays THEN SubSeq(@, 1, arrays)
                   ELSE Append(SubSeq(@, 1, arrays),
                               [@[back] EXCEPT !.mem = Min({result, memories + 1})]),
        !.memory = SubSeq(done.memory, 2, memories + 1)
                   \o IF result <= memories THEN <<>> ELSE <<done.memory[result + 1]>>,
        !.ret = <<Min({back, arrays + 1})>>,
        !.faults = done.faults, !.queue = <<>>, !.passes = 1, !.host = 1]

HasResult == call # NotCalled /\ machine.ret = <<Result>>

\* Destinations of a first call, and the one of a second.
Destinations == IF call = NotCalled THEN {Null, Source, Own}
                ELSE IF HasResult /\ call.dst = Null THEN {Result} ELSE {}

\* reach: how far away, in columns, the values may come from that the result depends on.
Reaching(name, srcs, dst, asked, reach, after) ==
  /\ call # NotCalled => name = call.name /\ srcs = call.srcs /\ asked = call.asked
  /\ machine' = Left(after, Finished(after), Len(machine.arrays), Len(machine.memory),
                     IF after.thrown THEN Null ELSE Ret(after))
  /\ call' = [name |-> name, srcs |-> srcs, dst |-> dst, asked |-> asked, reach |-> reach]

Anywhere == {}
Call(name, srcs, dst, asked, after) == Reaching(name, srcs, dst, asked, Anywhere, after)

-----------------------------------------------------------------------------
(* The shapes of calls *)

One(name, Operation(_, _, _)) ==
  \E d \in Destinations : Call(name, <<Source>>, d, <<>>, Operation(Now, Source, d))
Two(name, Operation(_, _, _, _)) ==
  \E d \in Destinations :
    Call(name, <<Source, Operand>>, d, <<>>, Operation(Now, Source, Operand, d))

\* An operation whose second operand comes first.
Turned(name, Operation(_, _, _, _)) ==
  \E d \in Destinations :
    Call(name, <<Operand, Source>>, d, <<>>, Operation(Now, Operand, Source, d))

\* A write in place, and a value for the host.
InPlace(name, Operation(_, _)) ==
  call = NotCalled /\ Call(name, <<>>, Source, <<>>, Operation(Now, Source))
Number(name, Operation(_, _)) ==
  call = NotCalled /\ Call(name, <<Source>>, Null, <<>>, Operation(Now, Source))
NumberOfTwo(name, Operation(_, _, _)) ==
  call = NotCalled /\ Call(name, <<Source, Operand>>, Null, <<>>,
                          Operation(Now, Source, Operand))

\* Neighbourhoods, whose radii differ along the axes; Reach says how far the values come.
Triples == {<<r, r, s>> : r \in Radii, s \in {0, 1}}
Boxes == {"box", "sphere"}

Once(r) == {r}
Twice(r) == {2 * r}
Beyond(r) == {r + 1}
UpTo(r) == 0..r
UpToTwice(r) == 0..2 * r
Everywhere(r) == Anywhere

Near(name, Operation(_, _, _), reach) ==
  \E d \in Destinations : Reaching(name, <<Source>>, d, <<>>, reach, Operation(Now, Source, d))
Radial(name, Operation(_, _, _, _), Reach(_)) ==
  \E d \in Destinations, r \in Triples :
    Reaching(name, <<Source>>, d, <<r>>, Reach(r[1]), Operation(Now, Source, d, r))
Shaped(name, Operation(_, _, _, _, _), Reach(_)) ==
  \E d \in Destinations, r \in Triples, c \in Boxes :
    Reaching(name, <<Source>>, d, <<r, c>>, Reach(r[1]), Operation(Now, Source, d, r, c))

Projected(name, Operation(_, _, _, _)) ==
  \E d \in Destinations, k \in BOOLEAN :
    Call(name, <<Source>>, d, <<k>>, Operation(Now, Source, d, k))

\* Regions, walks with a step, and the extents of transformed images.
Extents == {<<1, 1, 1>>, <<2, 1, 1>>, <<4, 3, 2>>}
Walks == {<<<<0, 4, 2>>, <<0, 1, 1>>, <<0, 1, 1>>>>, <<<<0, 2, 1>>, <<2, 0, -1>>, <<0, 2, 1>>>>}
Axes == {<<TRUE, TRUE, TRUE>>, <<TRUE, FALSE, FALSE>>}
Images == {"yes", "no", "no copy"}

\* The smooth extents are those of the source or larger ones.
SmoothShapes ==
  LET shape == Shape(machine, Source)
  IN {shape, [i \in 1..3 |-> IF shape[i] > 1 THEN shape[i] + 1 ELSE 1]}

Resized(name, Operation(_, _, _, _)) ==
  \E d \in Destinations, e \in Extents :
    Call(name, <<Source>>, d, <<e>>, Operation(Now, Source, d, e))
Walked(name, Operation(_, _, _, _)) ==
  \E d \in Destinations, w \in Walks :
    Call(name, <<Source>>, d, <<w>>, Operation(Now, Source, d, w))

\* Operations whose loops and extents depend on the data.
Measured(name, Operation(_, _, _)) ==
  \E d \in Destinations, p \in Passes, v \in Values :
    Call(name, <<Source>>, d, <<p, v>>, Operation(Found(p, v), Source, d))
MeasuredTwo(name, Operation(_, _, _, _)) ==
  \E d \in Destinations, p \in Passes, v \in Values :
    Call(name, <<Source, Operand>>, d, <<p, v>>, Operation(Found(p, v), Source, Operand, d))

\* The same with a radius, a number of steps or a scale.
Grown(name, Operation(_, _, _, _), Reach(_)) ==
  \E d \in Destinations, p \in Passes, v \in Values, r \in Radii :
    Reaching(name, <<Source>>, d, <<p, v, r>>, Reach(r), Operation(Found(p, v), Source, d, r))

\* A map of values and a label image, in either order of the arguments.
OfNeighborhood(name, Operation(_, _, _, _, _, _)) ==
  \E d \in Destinations, v \in Values, r \in Radii, b \in BOOLEAN :
    Call(name, IF r = 0 THEN <<Operand>> ELSE <<Operand, Source>>, d, <<v, r, b>>,
         Operation(Found(1, v), Operand, Source, d, r, b))

\* Operands that fit: images of equal extents, matrices, a vector for the columns of one,
\* lists of positions with two to three coordinates.
SameExtents == Shape(machine, Source) = Shape(machine, Operand)
Square == Width(machine, Source) = Height(machine, Source) /\ Depth(machine, Source) = 1
Columns == Shape(machine, Operand) = <<Width(machine, Source), 1, 1>>
List == Height(machine, Source) \in 2..3 /\ Depth(machine, Source) = 1

=============================================================================
