--------------------------- MODULE ArrayTransfer ---------------------------
(***************************************************************************)
(* cle::Array as a window on a linear device buffer, and the transfers     *)
(* between arrays and the host.  An array does not know the extent of the  *)
(* buffer it was cut from: every transfer recovers it from strides and     *)
(* offset (bufferLayout), and each backend turns the recovered shape, an   *)
(* origin and a region into addresses in its own way.                      *)
(*                                                                         *)
(* Every array carries `cells`, the addresses its elements really have in  *)
(* row-major order; the code has no such field, and no action reads it to  *)
(* move data.  `last` holds the addresses the last transfer moved, and the *)
(* addresses it was asked to move.                                         *)
(*                                                                         *)
(* Abstractions: all arrays have one item size, so addresses count items   *)
(* (bytes where a backend confuses the two); a copy is between different   *)
(* memories; images are not reshaped, and Metal has none (supportImage).   *)
(* External: a zero pitch means tightly packed rows or slices, as the      *)
(* host side of every CUDA and OpenCL transfer relies on.                  *)
(***************************************************************************)
EXTENDS Naturals, Sequences, FiniteSets

CONSTANTS
  Handles,   \* array handles of the host program
  Memories,  \* device allocations, one more than may be needed at a time
  Extents,   \* the <<width, height, depth>> arrays are given
  ItemSize,  \* bytes of an element
  NoArray    \* the null Array pointer

Triples(S) == S \X S \X S
Size(s) == s[1] * s[2] * s[3]

ASSUME TransferAssumption ==
  /\ Extents \subseteq Triples(Nat \ {0})
  /\ ItemSize \in Nat \ {0}

VARIABLES backend, arrays, last

transferVars == <<backend, arrays, last>>

Zero == <<0, 0, 0>>
Plus(s, t) == <<s[1] + t[1], s[2] + t[2], s[3] + t[3]>>
Box(region) == (0..region[1] - 1) \X (0..region[2] - 1) \X (0..region[3] - 1)

\* Position of p in a row-major block of that extent.
Index(extent, p) == p[1] + p[2] * extent[1] + p[3] * extent[1] * extent[2]

\* Regions and origins inside an extent.
Regions(extent) == (1..extent[1]) \X (1..extent[2]) \X (1..extent[3])
Origins(extent, region) ==
  (0..extent[1] - region[1]) \X (0..extent[2] - region[2]) \X (0..extent[3] - region[3])

----------------------------------------------------------------------------
\* resetStridesToContiguous, isContiguous.
Dense(extent) == <<1, extent[1], extent[1] * extent[2]>>
IsContiguous(a) == a.strides = Dense(a.extent)
Plain(a) == IsContiguous(a) /\ a.offset = 0

\* bufferLayout: the extent of the buffer the array was cut from and the
\* place of its first element there, or a refusal.
LayoutOf(a) ==
  LET row == a.strides[2]
      slice == a.strides[3]
      rest == a.offset % slice
  IN  [shape  |-> <<row, slice \div row, a.offset \div slice + a.extent[3]>>,
       origin |-> <<rest % row, rest \div row, a.offset \div slice>>]
Fits(a) ==
  LET layout == LayoutOf(a)
  IN  /\ a.strides[3] % a.strides[2] = 0
      /\ layout.origin[1] + a.extent[1] <= layout.shape[1]
      /\ a.extent[2] > 1 => layout.origin[2] + a.extent[2] <= layout.shape[2]

\* The element of a at coordinates p.
Cell(a, p) == a.cells[1 + Index(a.extent, p)]

----------------------------------------------------------------------------
\* Row and slice pitch a backend uses for a device buffer of that shape: a
\* zero pitch is given for one row or one slice, and means tightly packed.
RowPitch(shape, region) ==
  IF backend = "metal" \/ shape[2] > 1 THEN shape[1] ELSE region[1]
SlicePitch(shape, region) ==
  CASE backend = "metal"  -> shape[1] * shape[2]
    [] backend = "opencl" -> IF shape[3] > 1 THEN shape[1] * shape[2]
                             ELSE region[2] * RowPitch(shape, region)
    [] backend = "cuda"   -> RowPitch(shape, region)
                             * (IF shape[3] > 1 THEN shape[2] ELSE region[2])

\* One end of a transfer: where the element at p of the region is.
DeviceSide(shape, origin, region) ==
  [p \in Box(region) |-> (origin[3] + p[3]) * SlicePitch(shape, region)
                         + (origin[2] + p[2]) * RowPitch(shape, region) + origin[1] + p[1]]
HostSide(region) == [p \in Box(region) |-> Index(region, p)]
ImageSide(extent, origin, region) ==
  [p \in Box(region) |-> Index(extent, Plus(origin, p))]

\* Number of dimensions the backend copies in: shape is the one it looks at
\* first, origins are those of the device sides.
CopyDimensions(shape, other, origins) ==
  CASE backend = "metal"  -> 3
    [] backend = "opencl" ->
         IF \E s \in {shape, other} : s[2] > 1 \/ s[3] > 1 THEN 3 ELSE 1
    [] backend = "cuda"   ->
         IF shape[3] > 1 \/ \E o \in origins : o[3] > 0 THEN 3
         ELSE IF shape[2] > 1 \/ \E o \in origins : o[2] > 0 THEN 2 ELSE 1

\* What is moved: the pairs of addresses of the elements in these dimensions.
Moved(from, to, dimensions) ==
  {<<ItemSize * from[p], ItemSize * to[p]>> :
     p \in {q \in DOMAIN from : \A i \in 2..3 : i > dimensions => q[i] = 0}}

\* What should be moved.
Wanted(from, to, region) == {<<ItemSize * from[p], ItemSize * to[p]>> : p \in Box(region)}
CellsOf(a, origin, region) == [p \in Box(region) |-> Cell(a, Plus(origin, p))]

Report(call, ends, shapes, region, moved, wanted) ==
  last' = [call |-> call, ends |-> ends, shapes |-> shapes, region |-> region,
           status |-> "done", moved |-> moved, wanted |-> wanted]
Refuse(call, why) ==
  last' = [call |-> call, ends |-> <<>>, shapes |-> {}, region |-> Zero,
           status |-> why, moved |-> {}, wanted |-> {}]
Nothing == [call |-> "none", ends |-> <<>>, shapes |-> {}, region |-> Zero,
            status |-> "none", moved |-> {}, wanted |-> {}]

----------------------------------------------------------------------------
Init ==
  /\ backend \in {"opencl", "cuda", "metal"}
  /\ arrays = [h \in Handles |-> NoArray]
  /\ last = Nothing

\* The array of a handle, between two calls.
Live(h) == arrays[h] # NoArray
Ready(h) == last = Nothing /\ Live(h)

\* create: memory of its own.
Create(h, extent, mtype) ==
  /\ last = Nothing
  /\ mtype = "image" => backend # "metal"
  /\ \E m \in Memories :
       /\ \A g \in Handles \ {h} : Live(g) => arrays[g].memory # m
       /\ arrays' = [arrays EXCEPT ![h] =
            [extent |-> extent, strides |-> Dense(extent), offset |-> 0, mtype |-> mtype,
             memory |-> m, cells |-> [k \in 1..Size(extent) |-> k - 1], folded |-> FALSE]]
  /\ UNCHANGED <<backend, last>>

\* h = g->shallow_copy().
ShallowCopy(h, g) ==
  /\ Ready(g)
  /\ arrays' = [arrays EXCEPT ![h] = arrays[g]]
  /\ UNCHANGED <<backend, last>>

\* Mutant of View: the strides of the parent are not kept.
ViewDense(h, g, origin, region) ==
  LET a == arrays[g]
  IN  /\ Ready(g) /\ a.mtype = "buffer"
      /\ arrays' = [arrays EXCEPT ![h] =
           [a EXCEPT !.extent = region, !.strides = Dense(region),
                     !.offset = @ + origin[1] * a.strides[1] + origin[2] * a.strides[2]
                                + origin[3] * a.strides[3]]]
      /\ UNCHANGED <<backend, last>>

\* h = g->view(origin, region), for a region inside g.
View(h, g, origin, region) ==
  LET a == arrays[g]
  IN  /\ Ready(g) /\ a.mtype = "buffer"
      /\ arrays' = [arrays EXCEPT ![h] =
           [a EXCEPT !.extent = region,
                     !.offset = @ + origin[1] * a.strides[1] + origin[2] * a.strides[2]
                                + origin[3] * a.strides[3],
                     !.cells = [k \in 1..Size(region) |->
                        LET p == <<(k - 1) % region[1], ((k - 1) \div region[1]) % region[2],
                                   (k - 1) \div (region[1] * region[2])>>
                        IN  Cell(a, Plus(origin, p))]]]
      /\ UNCHANGED <<backend, last>>

\* Mutant of Reshape: the size is not compared.
ReshapeAnySize(h, g, extent) ==
  LET a == arrays[g]
  IN  /\ Ready(g) /\ a.mtype = "buffer" /\ IsContiguous(a)
      /\ arrays' = [arrays EXCEPT ![h] =
           [a EXCEPT !.extent = extent, !.strides = Dense(extent),
                     !.folded = @ \/ a.offset # 0]]
      /\ UNCHANGED <<backend, last>>

\* h = g->reshape(extent): same elements in the same order.  The array is
\* folded when its first element is not the first of the buffer.
Reshape(h, g, extent) ==
  LET a == arrays[g]
  IN  /\ Ready(g) /\ a.mtype = "buffer"
      /\ Size(extent) = Size(a.extent) /\ IsContiguous(a)
      /\ arrays' = [arrays EXCEPT ![h] =
           [a EXCEPT !.extent = extent, !.strides = Dense(extent),
                     !.folded = @ \/ a.offset # 0]]
      /\ UNCHANGED <<backend, last>>

----------------------------------------------------------------------------
\* The device end of a host transfer: OpenCL images are addressed by pixel,
\* everything else by pitches.
HostTransfer(a, origin, region) ==
  LET layout == LayoutOf(a)
      place == Plus(layout.origin, origin)
      pixels == backend = "opencl" /\ a.mtype = "image"
  IN  [side |-> IF pixels THEN ImageSide(a.extent, origin, region)
                ELSE DeviceSide(layout.shape, place, region),
       dimensions |-> IF pixels THEN 3
                      ELSE CopyDimensions(layout.shape, layout.shape, {place}),
       shape |-> layout.shape]

\* readTo and writeFrom of a region; the full ones are those of the whole
\* array.
ReadTo(h, region, origin) ==
  LET a == arrays[h]
      device == HostTransfer(a, origin, region)
  IN  /\ Ready(h)
      /\ IF Fits(a)
         THEN Report("readTo", <<a.mtype>>, {device.shape}, region,
                     Moved(device.side, HostSide(region), device.dimensions),
                     Wanted(CellsOf(a, origin, region), HostSide(region), region))
         ELSE Refuse("readTo", "layout")
      /\ UNCHANGED <<backend, arrays>>

WriteFrom(h, region, origin) ==
  LET a == arrays[h]
      device == HostTransfer(a, origin, region)
  IN  /\ Ready(h)
      /\ IF Fits(a)
         THEN Report("writeFrom", <<a.mtype>>, {device.shape}, region,
                     Moved(HostSide(region), device.side, device.dimensions),
                     Wanted(HostSide(region), CellsOf(a, origin, region), region))
         ELSE Refuse("writeFrom", "layout")
      /\ UNCHANGED <<backend, arrays>>

\* Mutant of Fill: windows are filled from the start of their buffer.
FillFromBase(h) ==
  LET a == arrays[h]
      value == [p \in Box(a.extent) |-> 0]
  IN  /\ Ready(h)
      /\ Report("fill", <<a.mtype>>, {a.extent}, a.extent,
                {<<0, ItemSize * k>> : k \in 0..Size(a.extent) - 1},
                Wanted(value, CellsOf(a, Zero, a.extent), a.extent))
      /\ UNCHANGED <<backend, arrays>>

\* fill: from host data on Apple systems and for windows, which setMemory
\* would ignore; else the first size() elements of the memory.
Fill(h) ==
  LET a == arrays[h]
      device == HostTransfer(a, Zero, a.extent)
      value == [p \in Box(a.extent) |-> 0]
      throughHost == backend = "metal" \/ (a.mtype = "buffer" /\ ~Plain(a))
      asked == Wanted(value, CellsOf(a, Zero, a.extent), a.extent)
  IN  /\ Ready(h)
      /\ IF throughHost /\ ~Fits(a)
         THEN Refuse("fill", "layout")
         ELSE Report("fill", <<a.mtype>>, {device.shape}, a.extent,
                     IF throughHost THEN Moved(value, device.side, device.dimensions)
                     ELSE {<<0, ItemSize * k>> : k \in 0..Size(a.extent) - 1},
                     asked)
      /\ UNCHANGED <<backend, arrays>>

----------------------------------------------------------------------------
\* OpenCL copies between a buffer and an image pack the region in the
\* buffer, from an offset that is computed in elements and taken in bytes,
\* and from the source origin in both directions.
PackedOffset(shape, origin) ==
  origin[1] + (IF shape[2] > 1 THEN origin[2] * shape[1] ELSE 0)
  + (IF shape[3] > 1 THEN origin[3] * shape[1] * shape[2] ELSE 0)
Packed(offset, region) == [p \in Box(region) |-> offset + ItemSize * Index(region, p)]

BufferToImage(b, sshape, sorigin, dorigin, region) ==
  LET from == Packed(PackedOffset(sshape, sorigin), region)
      to == ImageSide(b.extent, dorigin, region)
  IN  {<<from[p], ItemSize * to[p]>> : p \in Box(region)}
ImageToBuffer(a, sorigin, dshape, region) ==
  LET from == ImageSide(a.extent, sorigin, region)
      to == Packed(PackedOffset(dshape, sorigin), region)
  IN  {<<ItemSize * from[p], to[p]>> : p \in Box(region)}

\* A driver refuses a region that leaves an image.
InImage(a, origin, region) ==
  a.mtype = "image" => \A i \in 1..3 : origin[i] + region[i] <= a.extent[i]

\* dispatchCopy.
Dispatch(call, a, b, sorigin, sshape, dorigin, dshape, region, asked) ==
  LET pixels == backend = "opencl"
      moved == CASE pixels /\ a.mtype = "image" /\ b.mtype = "image" ->
                      Moved(ImageSide(a.extent, sorigin, region),
                            ImageSide(b.extent, dorigin, region), 3)
                 [] pixels /\ a.mtype = "buffer" /\ b.mtype = "image" ->
                      BufferToImage(b, sshape, sorigin, dorigin, region)
                 [] pixels /\ a.mtype = "image" /\ b.mtype = "buffer" ->
                      ImageToBuffer(a, sorigin, dshape, region)
                 [] OTHER ->
                      Moved(DeviceSide(sshape, sorigin, region),
                            DeviceSide(dshape, dorigin, region),
                            CopyDimensions(sshape, dshape, {sorigin, dorigin}))
  IN  IF a.mtype # b.mtype /\ \E c \in {a, b} : c.mtype = "buffer" /\ ~Plain(c)
      THEN Refuse(call, "refused")
      ELSE IF pixels /\ ~(InImage(a, sorigin, region) /\ InImage(b, dorigin, region))
      THEN Refuse(call, "driver")
      ELSE Report(call, <<a.mtype, b.mtype>>, {sshape, dshape}, region, moved, asked)

Separate(g, h) == Ready(g) /\ Live(h) /\ arrays[g].memory # arrays[h].memory

\* copyTo: everything, in order.
CopyTo(g, h) ==
  LET a == arrays[g]
      b == arrays[h]
      flat(c) == <<Size(c.extent), 1, 1>>
      buffers == a.mtype = "buffer" /\ b.mtype = "buffer"
      asked == {<<ItemSize * a.cells[k], ItemSize * b.cells[k]>> : k \in 1..Size(a.extent)}
      shape(c, d) == IF c.mtype = "buffer" /\ d.mtype = "image" THEN flat(c) ELSE c.extent
  IN  /\ Separate(g, h)
      /\ UNCHANGED <<backend, arrays>>
      /\ IF Size(a.extent) # Size(b.extent)
            \/ (~(buffers /\ Plain(a) /\ Plain(b)) /\ a.mtype = b.mtype /\ a.extent # b.extent)
         THEN Refuse("copyTo", "refused")
         ELSE IF buffers /\ Plain(a) /\ Plain(b)
         THEN Dispatch("copyTo", a, b, Zero, flat(a), Zero, flat(b), flat(a), asked)
         ELSE IF buffers
         THEN IF Fits(a) /\ Fits(b)
              THEN Dispatch("copyTo", a, b, LayoutOf(a).origin, LayoutOf(a).shape,
                            LayoutOf(b).origin, LayoutOf(b).shape, a.extent, asked)
              ELSE Refuse("copyTo", "layout")
         ELSE Dispatch("copyTo", a, b, Zero, shape(a, b), Zero, shape(b, a), a.extent, asked)

\* copyTo of a region.
CopyRegion(g, h, region, sorigin, dorigin) ==
  LET a == arrays[g]
      b == arrays[h]
      asked == Wanted(CellsOf(a, sorigin, region), CellsOf(b, dorigin, region), region)
  IN  /\ Separate(g, h)
      /\ UNCHANGED <<backend, arrays>>
      /\ IF a.mtype # "buffer" \/ b.mtype # "buffer"
         THEN Dispatch("copyRegion", a, b, sorigin, a.extent, dorigin, b.extent, region, asked)
         ELSE IF Fits(a) /\ Fits(b)
         THEN Dispatch("copyRegion", a, b,
                       Plus(LayoutOf(a).origin, sorigin), LayoutOf(a).shape,
                       Plus(LayoutOf(b).origin, dorigin), LayoutOf(b).shape, region, asked)
         ELSE Refuse("copyRegion", "layout")

----------------------------------------------------------------------------
Shape(h, g) ==
  \/ ShallowCopy(h, g)
  \/ Ready(g) /\ \E region \in Regions(arrays[g].extent) :
       \E origin \in Origins(arrays[g].extent, region) : View(h, g, origin, region)
  \/ \E extent \in Extents : Reshape(h, g, extent)

\* Regions are inside the arrays: nothing checks it, callers have to.
Transfer(h) ==
  \/ Fill(h)
  \/ Ready(h) /\ \E region \in Regions(arrays[h].extent) :
       \E origin \in Origins(arrays[h].extent, region) :
         ReadTo(h, region, origin) \/ WriteFrom(h, region, origin)

Copy(g, h) ==
  \/ CopyTo(g, h)
  \/ Separate(g, h) /\ \E region \in Regions(arrays[g].extent) \cap Regions(arrays[h].extent) :
       \E sorigin \in Origins(arrays[g].extent, region),
          dorigin \in Origins(arrays[h].extent, region) :
         CopyRegion(g, h, region, sorigin, dorigin)

\* The caller has what the transfer returned, and goes on.
Return ==
  /\ last # Nothing
  /\ last' = Nothing
  /\ UNCHANGED <<backend, arrays>>

Next ==
  \/ \E h \in Handles, extent \in Extents, mtype \in {"buffer", "image"} :
       Create(h, extent, mtype)
  \/ \E h, g \in Handles : Shape(h, g)
  \/ \E h \in Handles : Transfer(h)
  \/ \E g, h \in Handles : Copy(g, h)
  \/ Return

Spec == Init /\ [][Next]_transferVars

----------------------------------------------------------------------------
ArrayType ==
  [extent : Triples(Nat \ {0}), strides : Triples(Nat \ {0}), offset : Nat,
   mtype : {"buffer", "image"}, memory : Memories, cells : Seq(Nat), folded : BOOLEAN]

\* Every variable has its type; extents and strides are never zero.
TypeOK ==
  /\ backend \in {"opencl", "cuda", "metal"}
  /\ \A h \in Handles : Live(h) =>
       arrays[h] \in ArrayType /\ Len(arrays[h].cells) = Size(arrays[h].extent)
  /\ last.status \in {"none", "done", "layout", "refused", "driver"}
  /\ last.moved \subseteq Nat \X Nat /\ last.wanted \subseteq Nat \X Nat

\* bufferLayout never refuses an array that create, view and shallow_copy
\* made, and finds its first element where the strides have it: only an
\* array reshaped from a window may describe no block of any buffer.
LayoutExists ==
  \A h \in Handles : Live(h) /\ ~arrays[h].folded =>
    /\ Fits(arrays[h])
    /\ LET layout == LayoutOf(arrays[h])
       IN  Index(layout.shape, layout.origin) = arrays[h].offset

\* CUDA packs the rows of a buffer that is one row high as if it were as
\* wide as the region, although its slices are further apart.
NarrowRows ==
  /\ backend = "cuda"
  /\ \E shape \in last.shapes : shape[2] = 1 /\ shape[3] > 1 /\ last.region[1] < shape[1]

\* OpenCL packs regions copied between a buffer and an image.
PackedRegion == backend = "opencl" /\ last.call = "copyRegion" /\ last.ends[1] # last.ends[2]

\* CUDA takes a buffer copied to an image for a single row.
SingleRow ==
  /\ backend = "cuda" /\ last.call = "copyTo" /\ last.ends = <<"buffer", "image">>
  /\ last.region[2] > 1 \/ last.region[3] > 1

\* Apart from these three cases a transfer moves exactly the elements it was
\* asked to, each to its place, on every backend and whatever window of
\* whatever buffer the arrays are.
TransferIsExact ==
  last.status = "done" /\ ~NarrowRows /\ ~PackedRegion /\ ~SingleRow
  => last.moved = last.wanted

\* What copyTo is documented to do: the data of one array is copied into
\* the other.
FullCopyIsExact == last.status = "done" /\ last.call = "copyTo" => last.moved = last.wanted
=============================================================================
