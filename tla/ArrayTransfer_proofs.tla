------------------------ MODULE ArrayTransfer_proofs ------------------------
(***************************************************************************)
(* bufferLayout recovers, from the strides and the offset of an array, the *)
(* buffer it was cut from and the place of its first element: for buffers  *)
(* of any extent and windows cut any number of times, it never refuses and *)
(* never errs, as long as no window was reshaped (first part).  Transfers  *)
(* move exactly what they were asked to, for buffers and images of any     *)
(* extent, windows cut any number of times, and any region (second part).  *)
(***************************************************************************)
EXTENDS ArrayTransfer, Integers, TLAPS

Pos == Nat \ {0}

\* The strides are those of a buffer of rows of r elements and slices of k
\* rows, and the array is the block of it that starts at column i, row j of
\* slice l.
WindowAt(a, r, k, i, j, l) ==
  /\ a.strides = <<1, r, k * r>>
  /\ i + a.extent[1] <= r
  /\ j + a.extent[2] <= k
  /\ a.offset = i + j * r + l * (k * r)
Window(a) == \E r, k \in Pos, i, j, l \in Nat : WindowAt(a, r, k, i, j, l)

\* Nothing but these fields.
ArrayRecord(a) ==
  a = [extent |-> a.extent, strides |-> a.strides, offset |-> a.offset, mtype |-> a.mtype,
       memory |-> a.memory, cells |-> a.cells, folded |-> a.folded]

Sound(a) ==
  /\ ArrayRecord(a)
  /\ a.extent \in Triples(Pos)
  /\ a.offset \in Nat
  /\ a.strides \in Triples(Nat)
  /\ a.folded \in BOOLEAN
  /\ ~a.folded => Window(a)

WindowInv ==
  /\ arrays = [h \in Handles |-> arrays[h]]
  /\ \A h \in Handles : Live(h) => Sound(arrays[h])

----------------------------------------------------------------------------
\* A quotient and a remainder are determined by what they have to satisfy.
LEMMA DivisionUnique ==
  ASSUME NEW n \in Nat, NEW m \in Pos, NEW q \in Nat, NEW r \in 0..(m - 1), n = q * m + r
  PROVE  n \div m = q /\ n % m = r
BY DEF Pos

\* Column, row and slice can be read off an address of a pitched buffer.
LEMMA DecodeAddress ==
  ASSUME NEW r \in Pos, NEW k \in Pos,
         NEW i \in 0..(r - 1), NEW j \in 0..(k - 1), NEW l \in Nat,
         NEW n \in Nat, n = i + j * r + l * (k * r)
  PROVE  /\ n \div (k * r) = l
         /\ n % (k * r) = i + j * r
         /\ (i + j * r) \div r = j
         /\ (i + j * r) % r = i
         /\ (k * r) \div r = k
         /\ (k * r) % r = 0
<1>1. k * r \in Pos
  BY DEF Pos
<1>2. i + j * r \in 0..(k * r - 1)
  <2>1. j * r <= (k - 1) * r
    BY DEF Pos
  <2>2. (k - 1) * r = k * r - r
    BY DEF Pos
  <2> QED
    BY <2>1, <2>2 DEF Pos
<1>3. n \div (k * r) = l /\ n % (k * r) = i + j * r
  <2> DEFINE m == k * r
             x == i + j * r
  <2>1. m \in Pos /\ x \in 0..(m - 1)
    BY <1>1, <1>2
  <2>2. n = l * m + x
    <3>1. l * m \in Nat
      BY <2>1 DEF Pos
    <3> QED
      BY <2>1, <3>1
  <2> HIDE DEF m, x
  <2>3. n \div m = l /\ n % m = x
    BY <2>1, <2>2, DivisionUnique
  <2> QED
    BY <2>3 DEF m, x
<1>4. (i + j * r) \div r = j /\ (i + j * r) % r = i
  BY <1>2, DivisionUnique DEF Pos
<1>5. (k * r) \div r = k /\ (k * r) % r = 0
  BY <1>1, DivisionUnique DEF Pos
<1> QED
  BY <1>3, <1>4, <1>5

\* So bufferLayout accepts every window and places it where it is.
LEMMA WindowFits ==
  ASSUME NEW a, a.extent \in Triples(Pos), a.offset \in Nat, Window(a)
  PROVE  /\ Fits(a)
         /\ Index(LayoutOf(a).shape, LayoutOf(a).origin) = a.offset
<1>1. PICK r \in Pos, k \in Pos, i \in Nat, j \in Nat, l \in Nat : WindowAt(a, r, k, i, j, l)
  BY DEF Window
<1>2. a.extent[1] \in Pos /\ a.extent[2] \in Pos
  BY DEF Triples
<1>3. i \in 0..(r - 1) /\ j \in 0..(k - 1)
  BY <1>1, <1>2 DEF WindowAt, Pos
<1>4. /\ a.offset \div (k * r) = l
      /\ a.offset % (k * r) = i + j * r
      /\ (i + j * r) \div r = j
      /\ (i + j * r) % r = i
      /\ (k * r) \div r = k
      /\ (k * r) % r = 0
  BY <1>1, <1>3, DecodeAddress DEF WindowAt
<1>5. a.strides[2] = r /\ a.strides[3] = k * r
  BY <1>1 DEF WindowAt
<1>6. LayoutOf(a) = [shape |-> <<r, k, l + a.extent[3]>>, origin |-> <<i, j, l>>]
  BY <1>4, <1>5 DEF LayoutOf
<1>7. Fits(a)
  BY <1>1, <1>4, <1>5, <1>6 DEF Fits, WindowAt
<1>8. Index(<<r, k, l + a.extent[3]>>, <<i, j, l>>) = i + j * r + l * r * k
  BY DEF Index
<1>9. l * r * k = l * (k * r)
  BY DEF Pos
<1> QED
  BY <1>1, <1>6, <1>7, <1>8, <1>9 DEF WindowAt

----------------------------------------------------------------------------
\* A dense array is a window on its whole buffer.
LEMMA DenseIsWindow ==
  ASSUME NEW a, a.extent \in Triples(Pos), a.strides = Dense(a.extent), a.offset = 0
  PROVE  Window(a)
<1>1. a.extent[1] \in Pos /\ a.extent[2] \in Pos
  BY DEF Triples
<1>2. WindowAt(a, a.extent[1], a.extent[2], 0, 0, 0)
  BY <1>1 DEF WindowAt, Dense, Pos
<1> QED
  BY <1>1, <1>2 DEF Window, Pos

LEMMA DenseTriple ==
  ASSUME NEW e \in Triples(Pos)
  PROVE  Dense(e) \in Triples(Nat)
BY DEF Dense, Triples, Pos

\* create.
LEMMA CreateSound ==
  ASSUME NEW h \in Handles, NEW extent \in Extents, NEW mtype, WindowInv,
         Create(h, extent, mtype)
  PROVE  WindowInv'
<1>1. PICK m \in Memories :
        arrays' = [arrays EXCEPT ![h] =
          [extent |-> extent, strides |-> Dense(extent), offset |-> 0, mtype |-> mtype,
           memory |-> m, cells |-> [k \in 1..Size(extent) |-> k - 1], folded |-> FALSE]]
  BY DEF Create
<1> DEFINE a == [extent |-> extent, strides |-> Dense(extent), offset |-> 0, mtype |-> mtype,
                 memory |-> m, cells |-> [k \in 1..Size(extent) |-> k - 1], folded |-> FALSE]
<1>2. extent \in Triples(Pos)
  BY TransferAssumption DEF Pos
<1>3. Window(a)
  BY <1>2, DenseIsWindow
<1>4. Sound(a)
  BY <1>2, <1>3, DenseTriple DEF Sound, ArrayRecord
<1> HIDE DEF a
<1> QED
  BY <1>1, <1>4 DEF WindowInv, Live, a

\* shallow_copy.
LEMMA ShallowCopySound ==
  ASSUME NEW h \in Handles, NEW g \in Handles, WindowInv, ShallowCopy(h, g)
  PROVE  WindowInv'
BY DEF ShallowCopy, WindowInv, Live, Ready

\* A block of a window is a window on the same buffer.
LEMMA BlockOfWindow ==
  ASSUME NEW a, NEW b, Sound(a), ~a.folded,
         NEW region \in Triples(Pos), NEW origin \in Triples(Nat),
         \A n \in 1..3 : origin[n] + region[n] <= a.extent[n],
         b.extent = region, b.strides = a.strides,
         b.offset = a.offset + origin[1] * a.strides[1] + origin[2] * a.strides[2]
                    + origin[3] * a.strides[3]
  PROVE  Window(b)
<1>1. PICK r \in Pos, k \in Pos, i \in Nat, j \in Nat, l \in Nat : WindowAt(a, r, k, i, j, l)
  BY DEF Sound, Window
<1>2. /\ origin[1] \in Nat /\ origin[2] \in Nat /\ origin[3] \in Nat
      /\ region[1] \in Pos /\ region[2] \in Pos
      /\ a.extent[1] \in Pos /\ a.extent[2] \in Pos
  BY DEF Triples, Sound
<1>3. /\ a.strides[1] = 1 /\ a.strides[2] = r /\ a.strides[3] = k * r
      /\ a.offset = i + j * r + l * (k * r)
  BY <1>1 DEF WindowAt
<1>4. b.offset = (i + origin[1]) + (j + origin[2]) * r + (l + origin[3]) * (k * r)
  <2> DEFINE s == k * r
  <2>1. s \in Nat
    BY DEF Pos
  <2>2. b.offset = i + j * r + l * s + origin[1] * 1 + origin[2] * r + origin[3] * s
    BY <1>3
  <2> HIDE DEF s
  <2>3. (j + origin[2]) * r = j * r + origin[2] * r
    BY <1>2 DEF Pos
  <2>4. (l + origin[3]) * s = l * s + origin[3] * s
    BY <1>2, <2>1
  <2>5. /\ j * r \in Nat /\ origin[2] * r \in Nat
        /\ l * s \in Nat /\ origin[3] * s \in Nat
    BY <1>2, <2>1 DEF Pos
  <2>6. b.offset = (i + origin[1]) + (j + origin[2]) * r + (l + origin[3]) * s
    BY <1>2, <2>2, <2>3, <2>4, <2>5
  <2> QED
    BY <2>6 DEF s
<1>5. (i + origin[1]) + region[1] <= r /\ (j + origin[2]) + region[2] <= k
  BY <1>1, <1>2 DEF WindowAt, Pos
<1>6. WindowAt(b, r, k, i + origin[1], j + origin[2], l + origin[3])
  BY <1>1, <1>4, <1>5 DEF WindowAt
<1> QED
  BY <1>2, <1>6 DEF Window

\* The offset of a block stays a natural number, folded or not.
LEMMA BlockOffset ==
  ASSUME NEW a, Sound(a), NEW origin \in Triples(Nat)
  PROVE  a.offset + origin[1] * a.strides[1] + origin[2] * a.strides[2]
         + origin[3] * a.strides[3] \in Nat
<1>1. /\ origin[1] \in Nat /\ origin[2] \in Nat /\ origin[3] \in Nat
      /\ a.strides[1] \in Nat /\ a.strides[2] \in Nat /\ a.strides[3] \in Nat
      /\ a.offset \in Nat
  BY DEF Triples, Sound
<1>2. /\ origin[1] * a.strides[1] \in Nat /\ origin[2] * a.strides[2] \in Nat
      /\ origin[3] * a.strides[3] \in Nat
  BY <1>1
<1> QED
  BY <1>1, <1>2

\* view.
LEMMA ViewSound ==
  ASSUME NEW h \in Handles, NEW g \in Handles, WindowInv,
         NEW region \in Regions(arrays[g].extent),
         NEW origin \in Origins(arrays[g].extent, region),
         View(h, g, origin, region)
  PROVE  WindowInv'
<1> DEFINE a == arrays[g]
<1>1. Sound(a)
  BY DEF View, Ready, WindowInv
<1>2. /\ region \in Triples(Pos) /\ origin \in Triples(Nat)
      /\ \A n \in 1..3 : origin[n] + region[n] <= a.extent[n]
  <2>1. a.extent[1] \in Pos /\ a.extent[2] \in Pos /\ a.extent[3] \in Pos
    BY <1>1 DEF Sound, Triples
  <2>2. region \in (1..a.extent[1]) \X (1..a.extent[2]) \X (1..a.extent[3])
    BY DEF Regions
  <2>3. region \in Triples(Pos) /\ \A n \in 1..3 : region[n] \in 1..a.extent[n]
    BY <2>1, <2>2 DEF Triples, Pos
  <2>4. origin \in (0..a.extent[1] - region[1]) \X (0..a.extent[2] - region[2])
                   \X (0..a.extent[3] - region[3])
    BY DEF Origins
  <2>5. /\ origin[1] \in 0..a.extent[1] - region[1]
        /\ origin[2] \in 0..a.extent[2] - region[2]
        /\ origin[3] \in 0..a.extent[3] - region[3]
    BY <2>4
  <2>6. origin \in Triples(Nat)
    BY <2>1, <2>3, <2>4, <2>5 DEF Triples, Pos
  <2>7. region[1] \in Pos /\ region[2] \in Pos /\ region[3] \in Pos
    BY <2>3 DEF Triples
  <2>8. /\ origin[1] + region[1] <= a.extent[1] /\ origin[2] + region[2] <= a.extent[2]
        /\ origin[3] + region[3] <= a.extent[3]
    BY <2>1, <2>5, <2>7 DEF Pos
  <2> QED
    BY <2>3, <2>6, <2>8
<1>3. PICK b : /\ arrays' = [arrays EXCEPT ![h] = b]
               /\ \E c : b = [a EXCEPT !.extent = region,
                         !.offset = @ + origin[1] * a.strides[1] + origin[2] * a.strides[2]
                                    + origin[3] * a.strides[3],
                         !.cells = c]
  BY DEF View
<1>4. /\ ArrayRecord(b)
      /\ b.extent = region /\ b.strides = a.strides /\ b.folded = a.folded
      /\ b.offset = a.offset + origin[1] * a.strides[1] + origin[2] * a.strides[2]
                    + origin[3] * a.strides[3]
  BY <1>1, <1>3 DEF Sound, ArrayRecord
<1>5. b.offset \in Nat
  BY <1>1, <1>2, <1>4, BlockOffset
<1>6. ~b.folded => Window(b)
  BY <1>1, <1>2, <1>4, BlockOfWindow
<1>7. Sound(b)
  BY <1>1, <1>2, <1>4, <1>5, <1>6 DEF Sound
<1> QED
  BY <1>3, <1>7 DEF WindowInv, Live

\* reshape: dense again, and folded unless it starts at the first element.
LEMMA ReshapeSound ==
  ASSUME NEW h \in Handles, NEW g \in Handles, NEW extent \in Extents, WindowInv,
         Reshape(h, g, extent)
  PROVE  WindowInv'
<1> DEFINE a == arrays[g]
<1>1. Sound(a)
  BY DEF Reshape, Ready, WindowInv
<1>2. extent \in Triples(Pos)
  BY TransferAssumption DEF Pos
<1>3. PICK b, f, s :
        /\ arrays' = [arrays EXCEPT ![h] = b]
        /\ b = [a EXCEPT !.extent = extent, !.strides = s, !.folded = f]
        /\ f = (a.folded \/ a.offset # 0) /\ s = Dense(extent)
  BY DEF Reshape
<1>4. /\ ArrayRecord(b)
      /\ b.extent = extent /\ b.strides = Dense(extent) /\ b.offset = a.offset
      /\ b.folded = f
  BY <1>1, <1>3 DEF Sound, ArrayRecord
<1>5. b.folded \in BOOLEAN
  BY <1>1, <1>3, <1>4 DEF Sound
<1>6. ~b.folded => Window(b)
  BY <1>2, <1>3, <1>4, DenseIsWindow
<1>7. Sound(b)
  BY <1>1, <1>2, <1>3, <1>5, <1>6, <1>4, DenseTriple DEF Sound
<1> QED
  BY <1>3, <1>7 DEF WindowInv, Live

----------------------------------------------------------------------------
\* Transfers leave the arrays alone.
LEMMA TransfersKeepArrays ==
  ASSUME NEW g \in Handles, NEW h \in Handles, Transfer(h) \/ Copy(g, h)
  PROVE  UNCHANGED arrays
<1>1. CASE Transfer(h)
  BY <1>1 DEF Transfer, Fill, ReadTo, WriteFrom
<1>2. CASE Copy(g, h)
  BY <1>2 DEF Copy, CopyTo, CopyRegion
<1> QED
  BY <1>1, <1>2

LEMMA WindowStep == WindowInv /\ [Next]_transferVars => WindowInv'
<1> SUFFICES ASSUME WindowInv, [Next]_transferVars PROVE WindowInv'
  OBVIOUS
<1>1. CASE \E h \in Handles, extent \in Extents, mtype \in {"buffer", "image"} :
             Create(h, extent, mtype)
  BY <1>1, CreateSound
<1>2. CASE \E h, g \in Handles : Shape(h, g)
  BY <1>2, ShallowCopySound, ViewSound, ReshapeSound DEF Shape
<1>3. CASE UNCHANGED arrays
  BY <1>3 DEF WindowInv, Live
<1> QED
  BY <1>1, <1>2, <1>3, TransfersKeepArrays DEF Next, Return, transferVars

\* Whatever windows were cut from whatever buffers, a transfer is never
\* refused for its layout and starts at the element it should, unless a
\* window was reshaped.
THEOREM LayoutAlwaysExists == Spec => []LayoutExists
<1>1. Init => WindowInv
  BY DEF Init, WindowInv, Live
<1>2. WindowInv => LayoutExists
  BY WindowFits DEF WindowInv, Sound, LayoutExists
<1> QED
  BY <1>1, <1>2, WindowStep, PTL DEF Spec

-----------------------------------------------------------------------------
(* Transfers.  The invariant says where the elements of an array are: at its *)
(* offset plus the strides times the coordinates, whatever it was made by.   *)
(* A layout that fits seats the array in a buffer with just these strides,   *)
(* so pitches and origins give the same addresses; where a backend leaves    *)
(* a pitch or a dimension out, the coordinate it multiplies is zero.         *)


\* The address of the element at p.
Address(a, p) == a.offset + p[1] + p[2] * a.strides[2] + p[3] * a.strides[3]

Placed(a) ==
  /\ a.strides[1] = 1 /\ a.strides[2] \in Pos /\ a.strides[3] \in Pos
  /\ a.cells \in [1..Size(a.extent) -> Nat]
  /\ \A p \in Box(a.extent) : Cell(a, p) = Address(a, p)
  /\ a.mtype \in {"buffer", "image"}
  /\ a.mtype = "image" => Plain(a) /\ backend # "metal"

PlacedInv ==
  /\ WindowInv
  /\ backend \in {"opencl", "cuda", "metal"}
  /\ \A h \in Handles : Live(h) => Placed(arrays[h])

----------------------------------------------------------------------------
\* Positions in a block count its elements.
LEMMA BoxTriple ==
  ASSUME NEW e \in Triples(Pos), NEW p \in Box(e)
  PROVE  /\ e[1] \in Pos /\ e[2] \in Pos /\ e[3] \in Pos
         /\ p = <<p[1], p[2], p[3]>>
         /\ p[1] \in 0..(e[1] - 1) /\ p[2] \in 0..(e[2] - 1) /\ p[3] \in 0..(e[3] - 1)
         /\ p \in Triples(Nat)
<1>1. e[1] \in Pos /\ e[2] \in Pos /\ e[3] \in Pos
  BY DEF Triples
<1>2. /\ p = <<p[1], p[2], p[3]>>
      /\ p[1] \in 0..(e[1] - 1) /\ p[2] \in 0..(e[2] - 1) /\ p[3] \in 0..(e[3] - 1)
  BY DEF Box
<1>3. p[1] \in Nat /\ p[2] \in Nat /\ p[3] \in Nat
  BY <1>1, <1>2 DEF Pos
<1>4. p \in Triples(Nat)
  BY <1>2, <1>3 DEF Triples
<1> QED
  BY <1>1, <1>2, <1>4

LEMMA SizePositive ==
  ASSUME NEW e \in Triples(Pos)
  PROVE  Size(e) \in Pos
<1>1. e[1] \in Pos /\ e[2] \in Pos /\ e[3] \in Pos
  BY DEF Triples
<1>2. \A m, n \in Pos : m * n \in Pos
  BY DEF Pos
<1>3. e[1] * e[2] \in Pos
  BY <1>1, <1>2
<1> QED
  BY <1>1, <1>2, <1>3 DEF Size

\* Coordinates can be read off a position the way view does.
LEMMA DecodeIndex ==
  ASSUME NEW e \in Triples(Pos), NEW p \in Box(e)
  PROVE  /\ Index(e, p) \in 0..(Size(e) - 1)
         /\ Index(e, p) % e[1] = p[1]
         /\ (Index(e, p) \div e[1]) % e[2] = p[2]
         /\ Index(e, p) \div (e[1] * e[2]) = p[3]
<1>0. PICK r, k, i, j, l, n :
        r = e[1] /\ k = e[2] /\ i = p[1] /\ j = p[2] /\ l = p[3] /\ n = Index(e, p)
  OBVIOUS
<1> DEFINE m == k * r
<1>1. /\ r \in Pos /\ k \in Pos /\ e[3] \in Pos
      /\ i \in 0..(r - 1) /\ j \in 0..(k - 1) /\ l \in 0..(e[3] - 1)
  BY <1>0, BoxTriple
<1>2. /\ r \in Nat /\ k \in Nat /\ i \in Nat /\ j \in Nat /\ l \in Nat
      /\ m \in Pos /\ r * k = m
  BY <1>1 DEF Pos
<1>3. n = i + j * r + l * r * k
  BY <1>0 DEF Index
<1>4. l * r * k = l * m
  BY <1>2
<1>5. /\ l * m \in Nat /\ j * r \in Nat /\ l * k \in Nat
      /\ n = i + j * r + l * m
  BY <1>2, <1>3, <1>4 DEF Pos
<1>6. n \in Nat
  BY <1>2, <1>5
<1>7. /\ n \div m = l
      /\ n % m = i + j * r
  <2>1. n = i + j * r + l * (k * r) /\ l \in Nat
    BY <1>2, <1>5
  <2>2. n \div (k * r) = l /\ n % (k * r) = i + j * r
    BY <1>1, <1>6, <2>1, DecodeAddress
  <2> QED
    BY <2>2 DEF m
<1>8. n % r = i /\ n \div r = j + l * k
  <2>1. (j + l * k) * r = j * r + l * m
    <3>1. (j + l * k) * r = j * r + (l * k) * r
      BY <1>2, <1>5
    <3>2. (l * k) * r = l * m
      BY <1>2
    <3> QED
      BY <3>1, <3>2
  <2>2. n = (j + l * k) * r + i /\ j + l * k \in Nat
    BY <1>2, <1>5, <2>1
  <2> QED
    BY <1>1, <1>6, <2>2, DivisionUnique
<1>9. (j + l * k) % k = j
  <2>1. j + l * k = l * k + j /\ j + l * k \in Nat
    BY <1>2, <1>5
  <2> QED
    BY <1>1, <1>2, <2>1, DivisionUnique
<1>10. n <= Size(e) - 1
  <2>1. i + j * r <= m - 1
    <3>1. j * r <= (k - 1) * r
      BY <1>1, <1>2 DEF Pos
    <3>2. (k - 1) * r = m - r
      BY <1>2
    <3> QED
      BY <1>1, <1>2, <1>5, <3>1, <3>2 DEF Pos
  <2>2. l * m <= (e[3] - 1) * m
    BY <1>1, <1>2 DEF Pos
  <2>3. (e[3] - 1) * m = e[3] * m - m
    BY <1>1, <1>2 DEF Pos
  <2>4. e[3] * m = Size(e) /\ e[3] * m \in Nat
    <3>1. Size(e) = r * k * e[3]
      BY <1>0 DEF Size
    <3> QED
      BY <1>1, <1>2, <3>1 DEF Pos
  <2> QED
    BY <1>2, <1>5, <2>1, <2>2, <2>3, <2>4 DEF Pos
<1> QED
  BY <1>0, <1>2, <1>6, <1>7, <1>8, <1>9, <1>10, SizePositive DEF Pos

\* And every position is that of some coordinates.
LEMMA EncodeIndex ==
  ASSUME NEW e \in Triples(Pos), NEW n \in 0..(Size(e) - 1)
  PROVE  \E p \in Box(e) : n = Index(e, p)
<1> DEFINE r == e[1]
           k == e[2]
           d == e[3]
           q == n \div r
           l == q \div k
<1>1. r \in Pos /\ k \in Pos /\ d \in Pos
  BY DEF Triples
<1>2. Size(e) = r * k * d
  BY DEF Size
<1> HIDE DEF r, k, d
<1>3. n \in Nat /\ n < r * k * d
  BY <1>1, <1>2, SizePositive DEF Pos
<1>4. q \in Nat /\ n % r \in 0..(r - 1) /\ n = q * r + (n % r)
  BY <1>1, <1>3 DEF Pos
<1> HIDE DEF q
<1>5. l \in Nat /\ q % k \in 0..(k - 1) /\ q = l * k + (q % k)
  BY <1>1, <1>4 DEF Pos
<1> HIDE DEF l
<1>6. l <= d - 1
  <2> SUFFICES ASSUME l >= d PROVE FALSE
    BY <1>1, <1>5 DEF Pos
  <2>1. l * k >= d * k
    BY <1>1, <1>5 DEF Pos
  <2>2. q >= d * k /\ d * k \in Nat
    BY <1>1, <1>5, <2>1 DEF Pos
  <2>3. q * r >= (d * k) * r
    BY <1>1, <1>4, <2>2 DEF Pos
  <2>4. (d * k) * r = r * k * d
    BY <1>1 DEF Pos
  <2> QED
    BY <1>1, <1>3, <1>4, <2>3, <2>4 DEF Pos
<1> DEFINE p == <<n % r, q % k, l>>
<1>7. p \in Box(e)
  BY <1>1, <1>4, <1>5, <1>6 DEF Box, r, k, d, Pos
<1>8. n = Index(e, p)
  <2>1. q * r = (l * k) * r + (q % k) * r
    <3>1. \A x, y, z, w \in Nat : w = y + z => w * x = y * x + z * x
      OBVIOUS
    <3>2. r \in Nat /\ l * k \in Nat /\ q % k \in Nat
      BY <1>1, <1>5 DEF Pos
    <3> QED
      BY <1>4, <1>5, <3>1, <3>2
  <2>2. (l * k) * r = l * r * k
    BY <1>1, <1>5 DEF Pos
  <2>3. Index(e, p) = (n % r) + (q % k) * r + l * r * k
    BY DEF Index, r, k
  <2>4. (q % k) * r \in Nat /\ l * r * k \in Nat /\ n % r \in Nat
    BY <1>1, <1>4, <1>5 DEF Pos
  <2> QED
    BY <1>4, <2>1, <2>2, <2>3, <2>4
<1> QED
  BY <1>7, <1>8
----------------------------------------------------------------------------
\* Sums of coordinates inside an extent are coordinates of it.
LEMMA PlusInBox ==
  ASSUME NEW e \in Triples(Pos), NEW region \in Regions(e), NEW origin \in Origins(e, region),
         NEW p \in Box(region)
  PROVE  Plus(origin, p) \in Box(e)
<1>1. e[1] \in Pos /\ e[2] \in Pos /\ e[3] \in Pos
  BY DEF Triples
<1>2. region[1] \in 1..e[1] /\ region[2] \in 1..e[2] /\ region[3] \in 1..e[3]
  BY DEF Regions
<1>3. /\ origin[1] \in 0..e[1] - region[1] /\ origin[2] \in 0..e[2] - region[2]
      /\ origin[3] \in 0..e[3] - region[3]
  BY DEF Origins
<1>4. /\ p[1] \in 0..region[1] - 1 /\ p[2] \in 0..region[2] - 1
      /\ p[3] \in 0..region[3] - 1
  BY DEF Box
<1>5. /\ origin[1] + p[1] \in 0..e[1] - 1 /\ origin[2] + p[2] \in 0..e[2] - 1
      /\ origin[3] + p[3] \in 0..e[3] - 1
  BY <1>1, <1>2, <1>3, <1>4 DEF Pos
<1> QED
  BY <1>5 DEF Plus, Box

\* Regions are extents themselves, and origins coordinates.
LEMMA RegionTriple ==
  ASSUME NEW e \in Triples(Pos), NEW region \in Regions(e), NEW origin \in Origins(e, region)
  PROVE  /\ region \in Triples(Pos) /\ origin \in Triples(Nat)
         /\ region[1] \in Pos /\ region[2] \in Pos /\ region[3] \in Pos
         /\ origin[1] \in Nat /\ origin[2] \in Nat /\ origin[3] \in Nat
         /\ origin[1] + region[1] <= e[1] /\ origin[2] + region[2] <= e[2]
         /\ origin[3] + region[3] <= e[3]
<1>1. e[1] \in Pos /\ e[2] \in Pos /\ e[3] \in Pos
  BY DEF Triples
<1>2. /\ region = <<region[1], region[2], region[3]>>
      /\ region[1] \in 1..e[1] /\ region[2] \in 1..e[2] /\ region[3] \in 1..e[3]
  BY DEF Regions
<1>3. /\ origin = <<origin[1], origin[2], origin[3]>>
      /\ origin[1] \in 0..e[1] - region[1] /\ origin[2] \in 0..e[2] - region[2]
      /\ origin[3] \in 0..e[3] - region[3]
  BY DEF Origins
<1>4. /\ region[1] \in Pos /\ region[2] \in Pos /\ region[3] \in Pos
      /\ origin[1] \in Nat /\ origin[2] \in Nat /\ origin[3] \in Nat
      /\ origin[1] + region[1] <= e[1] /\ origin[2] + region[2] <= e[2]
      /\ origin[3] + region[3] <= e[3]
  BY <1>1, <1>2, <1>3 DEF Pos
<1>5. region \in Triples(Pos) /\ origin \in Triples(Nat)
  BY <1>2, <1>3, <1>4 DEF Triples
<1> QED
  BY <1>4, <1>5

\* The whole extent is a region of itself.
LEMMA WholeRegion ==
  ASSUME NEW e \in Triples(Pos)
  PROVE  e \in Regions(e) /\ Zero \in Origins(e, e)
<1>1. /\ e = <<e[1], e[2], e[3]>>
      /\ e[1] \in Pos /\ e[2] \in Pos /\ e[3] \in Pos
  BY DEF Triples
<1>2. e[1] \in 1..e[1] /\ e[2] \in 1..e[2] /\ e[3] \in 1..e[3]
  BY <1>1 DEF Pos
<1>3. 0 \in 0..e[1] - e[1] /\ 0 \in 0..e[2] - e[2] /\ 0 \in 0..e[3] - e[3]
  BY <1>1 DEF Pos
<1> QED
  BY <1>1, <1>2, <1>3 DEF Regions, Origins, Zero

LEMMA PlusZero ==
  ASSUME NEW p \in Triples(Nat)
  PROVE  Plus(Zero, p) = p
<1>1. p = <<p[1], p[2], p[3]>> /\ p[1] \in Nat /\ p[2] \in Nat /\ p[3] \in Nat
  BY DEF Triples
<1> QED
  BY <1>1 DEF Plus, Zero

\* The elements of an array that is plain follow each other from address 0.
LEMMA PlainCells ==
  ASSUME NEW a, Sound(a), Placed(a), Plain(a)
  PROVE  /\ \A p \in Box(a.extent) : Cell(a, p) = Index(a.extent, p)
         /\ \A k \in 1..Size(a.extent) : a.cells[k] = k - 1
<1>1. a.extent \in Triples(Pos)
  BY DEF Sound
<1>2. ASSUME NEW p \in Box(a.extent)
      PROVE  Cell(a, p) = Index(a.extent, p)
  <2>1. /\ p[1] \in Nat /\ p[2] \in Nat /\ p[3] \in Nat
        /\ a.extent[1] \in Nat /\ a.extent[2] \in Nat
    BY <1>1, <1>2, BoxTriple DEF Pos
  <2>2. Cell(a, p) = 0 + p[1] + p[2] * a.extent[1] + p[3] * (a.extent[1] * a.extent[2])
    BY <1>2 DEF Placed, Address, Plain, IsContiguous, Dense
  <2>3. p[3] * (a.extent[1] * a.extent[2]) = p[3] * a.extent[1] * a.extent[2]
    BY <2>1
  <2>4. 0 + p[1] = p[1]
    BY <2>1
  <2> QED
    BY <2>2, <2>3, <2>4 DEF Index
<1>3. ASSUME NEW k \in 1..Size(a.extent)
      PROVE  a.cells[k] = k - 1
  <2>1. k - 1 \in 0..(Size(a.extent) - 1)
    BY <1>1, SizePositive DEF Pos
  <2>2. PICK p \in Box(a.extent) : k - 1 = Index(a.extent, p)
    BY <1>1, <2>1, EncodeIndex
  <2>3. 1 + Index(a.extent, p) = k
    BY <2>2
  <2> QED
    BY <1>2, <2>2, <2>3 DEF Cell
<1> QED
  BY <1>2, <1>3

\* An array reshaped to another extent of the same size holds the same
\* elements where the strides of that extent have them.
LEMMA ReshapePlaced ==
  ASSUME NEW a, Sound(a), Placed(a), IsContiguous(a),
         NEW e \in Triples(Pos), Size(e) = Size(a.extent),
         NEW b, b.extent = e, b.strides = Dense(e), b.offset = a.offset,
         b.cells = a.cells, b.mtype = a.mtype, a.mtype = "buffer"
  PROVE  Placed(b)
<1>1. a.extent \in Triples(Pos) /\ a.offset \in Nat
  BY DEF Sound
<1>2. /\ e[1] \in Pos /\ e[2] \in Pos /\ e[1] * e[2] \in Pos
      /\ a.extent[1] \in Pos /\ a.extent[2] \in Pos
  BY <1>1 DEF Triples, Pos
<1>3. ASSUME NEW p \in Box(a.extent)
      PROVE  Cell(a, p) = a.offset + Index(a.extent, p)
  <2>1. /\ p[1] \in Nat /\ p[2] \in Nat /\ p[3] \in Nat
        /\ a.extent[1] \in Nat /\ a.extent[2] \in Nat
    BY <1>1, <1>3, BoxTriple DEF Pos
  <2>2. Cell(a, p) = a.offset + p[1] + p[2] * a.extent[1]
                     + p[3] * (a.extent[1] * a.extent[2])
    BY <1>3 DEF Placed, Address, IsContiguous, Dense
  <2>3. p[3] * (a.extent[1] * a.extent[2]) = p[3] * a.extent[1] * a.extent[2]
    BY <2>1
  <2>4. p[2] * a.extent[1] \in Nat /\ p[3] * a.extent[1] * a.extent[2] \in Nat
    BY <2>1
  <2> QED
    BY <1>1, <2>1, <2>2, <2>3, <2>4 DEF Index
<1>4. \A n \in 0..(Size(a.extent) - 1) : a.cells[1 + n] = a.offset + n
  BY <1>1, <1>3, EncodeIndex DEF Cell
<1>5. ASSUME NEW p \in Box(e)
      PROVE  Cell(b, p) = Address(b, p)
  <2>1. /\ p[1] \in Nat /\ p[2] \in Nat /\ p[3] \in Nat
        /\ e[1] \in Nat /\ e[2] \in Nat
    BY <1>5, BoxTriple DEF Pos
  <2>2. Index(e, p) \in 0..(Size(a.extent) - 1)
    BY <1>5, DecodeIndex
  <2>3. Cell(b, p) = a.offset + Index(e, p)
    BY <1>4, <2>2 DEF Cell
  <2>4. Address(b, p) = a.offset + p[1] + p[2] * e[1] + p[3] * (e[1] * e[2])
    BY DEF Address, Dense
  <2>5. p[3] * (e[1] * e[2]) = p[3] * e[1] * e[2]
    BY <2>1
  <2>6. p[2] * e[1] \in Nat /\ p[3] * e[1] * e[2] \in Nat
    BY <2>1
  <2> QED
    BY <1>1, <2>1, <2>3, <2>4, <2>5, <2>6 DEF Index
<1>6. b.strides[1] = 1 /\ b.strides[2] \in Pos /\ b.strides[3] \in Pos
  BY <1>2 DEF Dense
<1> QED
  BY <1>5, <1>6 DEF Placed

\* A window holds the elements of its block.
LEMMA ViewPlaced ==
  ASSUME NEW a, Sound(a), Placed(a), a.mtype = "buffer",
         NEW region \in Regions(a.extent), NEW origin \in Origins(a.extent, region),
         NEW b, b.extent = region, b.strides = a.strides, b.mtype = a.mtype,
         b.offset = a.offset + origin[1] * a.strides[1] + origin[2] * a.strides[2]
                    + origin[3] * a.strides[3],
         b.cells = [k \in 1..Size(region) |->
                      LET p == <<(k - 1) % region[1], ((k - 1) \div region[1]) % region[2],
                                 (k - 1) \div (region[1] * region[2])>>
                      IN  Cell(a, Plus(origin, p))]
  PROVE  Placed(b)
<1>1. a.extent \in Triples(Pos) /\ a.offset \in Nat
  BY DEF Sound
<1>2. /\ region \in Triples(Pos)
      /\ origin[1] \in Nat /\ origin[2] \in Nat /\ origin[3] \in Nat
  BY <1>1, RegionTriple
<1>3. ASSUME NEW p \in Box(region)
      PROVE  Cell(b, p) = Cell(a, Plus(origin, p))
  <2> DEFINE n == Index(region, p)
  <2>1. /\ n \in 0..(Size(region) - 1)
        /\ n % region[1] = p[1]
        /\ (n \div region[1]) % region[2] = p[2]
        /\ n \div (region[1] * region[2]) = p[3]
    BY <1>2, <1>3, DecodeIndex
  <2>2. p = <<p[1], p[2], p[3]>> /\ Size(region) \in Nat
    BY <1>2, <1>3, BoxTriple, SizePositive DEF Pos
  <2>3. Cell(b, p) = b.cells[1 + n]
    BY DEF Cell
  <2> HIDE DEF n
  <2>4. 1 + n \in 1..Size(region) /\ (1 + n) - 1 = n
    BY <2>1, <2>2
  <2>5. b.cells[1 + n] = Cell(a, Plus(origin, <<n % region[1], (n \div region[1]) % region[2],
                                                n \div (region[1] * region[2])>>))
    BY <2>4
  <2> QED
    BY <2>1, <2>2, <2>3, <2>5
<1>4. \A k \in 1..Size(region) : b.cells[k] \in Nat
  <2> SUFFICES ASSUME NEW k \in 1..Size(region) PROVE b.cells[k] \in Nat
    OBVIOUS
  <2>1. k - 1 \in 0..(Size(region) - 1)
    BY <1>2, SizePositive DEF Pos
  <2>2. PICK p \in Box(region) : k - 1 = Index(region, p)
    BY <1>2, <2>1, EncodeIndex
  <2>3. b.cells[k] = Cell(b, p)
    <3>1. 1 + Index(region, p) = k
      BY <2>2
    <3> QED
      BY <3>1 DEF Cell
  <2>4. Plus(origin, p) \in Box(a.extent)
    BY <1>1, PlusInBox
  <2>5. 1 + Index(a.extent, Plus(origin, p)) \in 1..Size(a.extent)
    BY <1>1, <2>4, DecodeIndex, SizePositive DEF Pos
  <2>6. Cell(a, Plus(origin, p)) \in Nat
    <3> DEFINE n == 1 + Index(a.extent, Plus(origin, p))
    <3>1. n \in 1..Size(a.extent)
      BY <2>5
    <3> HIDE DEF n
    <3>2. a.cells[n] \in Nat
      BY <3>1 DEF Placed
    <3> QED
      BY <3>2 DEF Cell, n
  <2> QED
    BY <1>3, <2>3, <2>6
<1>5. ASSUME NEW p \in Box(region)
      PROVE  Address(a, Plus(origin, p)) = Address(b, p)
  <2>1. p[1] \in Nat /\ p[2] \in Nat /\ p[3] \in Nat
    BY <1>2, <1>5, BoxTriple
  <2>2. PICK c, s, t, o1, o2, o3, p1, p2, p3 \in Nat :
          /\ c = a.offset /\ s = a.strides[2] /\ t = a.strides[3]
          /\ o1 = origin[1] /\ o2 = origin[2] /\ o3 = origin[3]
          /\ p1 = p[1] /\ p2 = p[2] /\ p3 = p[3]
    BY <1>1, <1>2, <2>1 DEF Placed, Pos
  <2>3. Address(a, Plus(origin, p)) = c + (o1 + p1) + (o2 + p2) * s + (o3 + p3) * t
    BY <2>2 DEF Address, Plus
  <2>4. Address(b, p) = (c + o1 * 1 + o2 * s + o3 * t) + p1 + p2 * s + p3 * t
    BY <2>2 DEF Address, Placed
  <2>5. (o2 + p2) * s = o2 * s + p2 * s /\ o2 * s \in Nat /\ p2 * s \in Nat
    OBVIOUS
  <2>6. (o3 + p3) * t = o3 * t + p3 * t /\ o3 * t \in Nat /\ p3 * t \in Nat
    OBVIOUS
  <2> QED
    BY <2>3, <2>4, <2>5, <2>6
<1>6. \A p \in Box(region) : Cell(b, p) = Address(b, p)
  BY <1>1, <1>3, <1>5, PlusInBox DEF Placed
<1>7. b.cells \in [1..Size(region) -> Nat]
  BY <1>4
<1> QED
  BY <1>6, <1>7 DEF Placed

\* The memory of a new array is its own, from address 0.
LEMMA CreatePlaced ==
  ASSUME NEW e \in Triples(Pos), NEW a, a.extent = e, a.strides = Dense(e), a.offset = 0,
         a.cells = [k \in 1..Size(e) |-> k - 1],
         a.mtype \in {"buffer", "image"}, a.mtype = "image" => backend # "metal"
  PROVE  Placed(a)
<1>1. e[1] \in Pos /\ e[2] \in Pos /\ e[1] * e[2] \in Pos /\ Size(e) \in Nat
  BY SizePositive DEF Triples, Pos
<1>2. ASSUME NEW p \in Box(e)
      PROVE  Cell(a, p) = Address(a, p)
  <2>1. /\ p[1] \in Nat /\ p[2] \in Nat /\ p[3] \in Nat
        /\ e[1] \in Nat /\ e[2] \in Nat
    BY <1>2, BoxTriple DEF Pos
  <2>2. Index(e, p) \in 0..(Size(e) - 1)
    BY <1>2, DecodeIndex
  <2>3. Cell(a, p) = Index(e, p)
    <3> DEFINE n == Index(e, p)
    <3>1. n \in Nat /\ 1 + n \in 1..Size(e)
      BY <1>1, <2>2
    <3>2. Cell(a, p) = a.cells[1 + n]
      BY DEF Cell
    <3> HIDE DEF n
    <3>3. a.cells[1 + n] = n
      BY <3>1
    <3> QED
      BY <3>2, <3>3 DEF n
  <2>4. Address(a, p) = 0 + p[1] + p[2] * e[1] + p[3] * (e[1] * e[2])
    BY DEF Address, Dense
  <2>5. p[3] * (e[1] * e[2]) = p[3] * e[1] * e[2] /\ 0 + p[1] = p[1]
    BY <2>1
  <2> QED
    BY <2>3, <2>4, <2>5 DEF Index
<1>3. a.cells \in [1..Size(e) -> Nat]
  BY <1>1
<1>4. Plain(a)
  BY DEF Plain, IsContiguous
<1> QED
  BY <1>1, <1>2, <1>3, <1>4 DEF Placed, Dense

\* One step replaces at most one array, on the same backend.
LEMMA ArraySet ==
  ASSUME PlacedInv, WindowInv', backend' = backend, NEW h \in Handles, NEW a,
         a = NoArray \/ Placed(a), arrays' = [arrays EXCEPT ![h] = a]
  PROVE  PlacedInv'
<1>1. ASSUME NEW g \in Handles, Live(g)'
      PROVE  Placed(arrays[g])'
  <2>1. arrays'[g] = IF g = h THEN a ELSE arrays[g]
    BY DEF PlacedInv, WindowInv
  <2>2. Placed(arrays'[g])
    BY <1>1, <2>1 DEF PlacedInv, Live
  <2> QED
    BY <2>2 DEF Placed
<1> QED
  BY <1>1 DEF PlacedInv

LEMMA PlacedStep == PlacedInv /\ [Next]_transferVars => PlacedInv'
<1> SUFFICES ASSUME PlacedInv, [Next]_transferVars PROVE PlacedInv'
  OBVIOUS
<1>0. WindowInv /\ WindowInv'
  BY WindowStep DEF PlacedInv
<1>1. ASSUME NEW h \in Handles, NEW e \in Extents, NEW mtype \in {"buffer", "image"},
             Create(h, e, mtype)
      PROVE  PlacedInv'
  <2>1. PICK m \in Memories :
          arrays' = [arrays EXCEPT ![h] =
            [extent |-> e, strides |-> Dense(e), offset |-> 0, mtype |-> mtype,
             memory |-> m, cells |-> [k \in 1..Size(e) |-> k - 1], folded |-> FALSE]]
    BY <1>1 DEF Create
  <2> DEFINE a == [extent |-> e, strides |-> Dense(e), offset |-> 0, mtype |-> mtype,
                   memory |-> m, cells |-> [k \in 1..Size(e) |-> k - 1], folded |-> FALSE]
  <2>2. e \in Triples(Pos) /\ backend' = backend /\ (mtype = "image" => backend # "metal")
    BY <1>1, TransferAssumption DEF Create, Pos
  <2>3. Placed(a)
    BY <2>2, CreatePlaced
  <2> HIDE DEF a
  <2>4. arrays' = [arrays EXCEPT ![h] = a]
    BY <2>1 DEF a
  <2> QED
    BY <1>0, <2>2, <2>3, <2>4, ArraySet
<1>2. ASSUME NEW h \in Handles, NEW g \in Handles, ShallowCopy(h, g)
      PROVE  PlacedInv'
  <2>1. Placed(arrays[g])
    BY <1>2 DEF ShallowCopy, Ready, PlacedInv
  <2> QED
    BY <1>0, <1>2, <2>1, ArraySet DEF ShallowCopy
<1>3. ASSUME NEW h \in Handles, NEW g \in Handles,
             NEW region \in Regions(arrays[g].extent),
             NEW origin \in Origins(arrays[g].extent, region), View(h, g, origin, region)
      PROVE  PlacedInv'
  <2> DEFINE a == arrays[g]
             b == [a EXCEPT !.extent = region,
                     !.offset = @ + origin[1] * a.strides[1] + origin[2] * a.strides[2]
                                + origin[3] * a.strides[3],
                     !.cells = [k \in 1..Size(region) |->
                        LET p == <<(k - 1) % region[1], ((k - 1) \div region[1]) % region[2],
                                   (k - 1) \div (region[1] * region[2])>>
                        IN  Cell(a, Plus(origin, p))]]
  <2>1. Sound(a) /\ Placed(a) /\ a.mtype = "buffer"
    BY <1>0, <1>3 DEF View, Ready, PlacedInv, WindowInv
  <2>2. /\ b.extent = region /\ b.strides = a.strides /\ b.mtype = a.mtype
        /\ b.offset = a.offset + origin[1] * a.strides[1] + origin[2] * a.strides[2]
                       + origin[3] * a.strides[3]
        /\ b.cells = [k \in 1..Size(region) |->
                        LET p == <<(k - 1) % region[1], ((k - 1) \div region[1]) % region[2],
                                   (k - 1) \div (region[1] * region[2])>>
                        IN  Cell(a, Plus(origin, p))]
    BY <2>1 DEF Sound, ArrayRecord
  <2>3. arrays' = [arrays EXCEPT ![h] = b] /\ backend' = backend
    BY <1>3 DEF View
  <2> HIDE DEF b
  <2>4. Placed(b)
    BY <2>1, <2>2, ViewPlaced
  <2> QED
    BY <1>0, <2>3, <2>4, ArraySet
<1>4. ASSUME NEW h \in Handles, NEW g \in Handles, NEW e \in Extents, Reshape(h, g, e)
      PROVE  PlacedInv'
  <2> DEFINE a == arrays[g]
             b == [a EXCEPT !.extent = e, !.strides = Dense(e),
                            !.folded = @ \/ a.offset # 0]
  <2>1. /\ Sound(a) /\ Placed(a) /\ a.mtype = "buffer"
        /\ Size(e) = Size(a.extent) /\ IsContiguous(a)
    BY <1>0, <1>4 DEF Reshape, Ready, PlacedInv, WindowInv
  <2>2. /\ b.extent = e /\ b.strides = Dense(e) /\ b.offset = a.offset
        /\ b.cells = a.cells /\ b.mtype = a.mtype
    BY <2>1 DEF Sound, ArrayRecord
  <2>3. arrays' = [arrays EXCEPT ![h] = b] /\ backend' = backend
    BY <1>4 DEF Reshape
  <2> HIDE DEF b
  <2>4. e \in Triples(Pos)
    BY TransferAssumption DEF Pos
  <2>5. Placed(b)
    BY <2>1, <2>2, <2>4, ReshapePlaced
  <2> QED
    BY <1>0, <2>3, <2>5, ArraySet
<1>5. CASE UNCHANGED <<arrays, backend>>
  BY <1>0, <1>5 DEF PlacedInv, Placed, Live
<1>6. ASSUME NEW g \in Handles, NEW h \in Handles, Transfer(h) \/ Copy(g, h)
      PROVE  UNCHANGED <<arrays, backend>>
  <2>1. CASE Transfer(h)
    BY <2>1 DEF Transfer, Fill, ReadTo, WriteFrom
  <2>2. CASE Copy(g, h)
    BY <2>2 DEF Copy, CopyTo, CopyRegion
  <2> QED
    BY <1>6, <2>1, <2>2
<1> QED
  BY <1>1, <1>2, <1>3, <1>4, <1>5, <1>6 DEF Next, Shape, Return, transferVars

LEMMA PlacedInit == Init => PlacedInv
BY DEF Init, PlacedInv, WindowInv, Live

----------------------------------------------------------------------------
\* The array is the block of a buffer of that shape that starts at base.
Seated(a, shape, base) ==
  /\ shape \in Triples(Pos) /\ base \in Triples(Nat)
  /\ base[1] + a.extent[1] <= shape[1]
  /\ base[2] + a.extent[2] <= shape[2]
  /\ base[3] + a.extent[3] <= shape[3]
  /\ a.strides[2] = shape[1] /\ a.strides[3] = shape[1] * shape[2]
  /\ a.offset = base[1] + base[2] * shape[1] + base[3] * (shape[1] * shape[2])

\* A layout that fits seats its array.
LEMMA LayoutSeats ==
  ASSUME NEW a, Sound(a), Placed(a), Fits(a)
  PROVE  Seated(a, LayoutOf(a).shape, LayoutOf(a).origin)
<1>0. PICK r, t, c, e1, e2, e3 :
        /\ r = a.strides[2] /\ t = a.strides[3] /\ c = a.offset
        /\ e1 = a.extent[1] /\ e2 = a.extent[2] /\ e3 = a.extent[3]
  OBVIOUS
<1>1. r \in Pos /\ t \in Pos /\ c \in Nat /\ e1 \in Pos /\ e2 \in Pos /\ e3 \in Pos
  BY <1>0 DEF Placed, Sound, Triples
<1>2. PICK rest, k, l, i, j :
        rest = c % t /\ k = t \div r /\ l = c \div t /\ i = rest % r /\ j = rest \div r
  OBVIOUS
<1>3. LayoutOf(a) = [shape |-> <<r, k, l + e3>>, origin |-> <<i, j, l>>]
  BY <1>0, <1>2 DEF LayoutOf
<1>4. t % r = 0 /\ i + e1 <= r /\ (e2 > 1 => j + e2 <= k)
  BY <1>0, <1>3 DEF Fits
<1>5. k \in Nat /\ t = k * r + (t % r)
  BY <1>1, <1>2 DEF Pos
<1>6. t = k * r /\ k \in Pos
  <2>1. t = k * r
    BY <1>1, <1>4, <1>5 DEF Pos
  <2>2. k # 0
    BY <1>1, <2>1 DEF Pos
  <2> QED
    BY <1>5, <2>1, <2>2 DEF Pos
<1>7. l \in Nat /\ rest \in 0..(t - 1) /\ c = l * t + rest
  BY <1>1, <1>2 DEF Pos
<1>8. i \in 0..(r - 1) /\ j \in Nat /\ rest = j * r + i
  <2>1. rest \in Nat
    BY <1>1, <1>7 DEF Pos
  <2>2. \A n \in Nat, m \in Pos :
          n % m \in 0..(m - 1) /\ n \div m \in Nat /\ n = (n \div m) * m + (n % m)
    BY DEF Pos
  <2> QED
    BY <1>1, <1>2, <2>1, <2>2
<1>9. j < k
  <2> SUFFICES ASSUME j >= k PROVE FALSE
    BY <1>6, <1>8 DEF Pos
  <2>1. j * r >= k * r
    BY <1>1, <1>6, <1>8 DEF Pos
  <2>2. j * r \in Nat
    BY <1>1, <1>8 DEF Pos
  <2> QED
    BY <1>1, <1>6, <1>7, <1>8, <2>1, <2>2 DEF Pos
<1>10. j + e2 <= k
  BY <1>1, <1>4, <1>6, <1>8, <1>9 DEF Pos
<1>11. c = i + j * r + l * (r * k)
  <2>1. k * r = r * k /\ j * r \in Nat
    BY <1>1, <1>6, <1>8 DEF Pos
  <2>2. l * t \in Nat /\ l * t = l * (r * k)
    BY <1>1, <1>6, <1>7, <2>1 DEF Pos
  <2> QED
    BY <1>1, <1>7, <1>8, <2>1, <2>2 DEF Pos
<1>12. <<r, k, l + e3>> \in Triples(Pos) /\ <<i, j, l>> \in Triples(Nat)
  BY <1>1, <1>6, <1>7, <1>8 DEF Triples, Pos
<1>13. t = r * k /\ l + e3 <= l + e3
  BY <1>1, <1>6, <1>7 DEF Pos
<1> QED
  BY <1>0, <1>3, <1>4, <1>10, <1>11, <1>12, <1>13 DEF Seated

\* A plain array is all of its memory.
LEMMA PlainSeats ==
  ASSUME NEW a, Sound(a), Placed(a), Plain(a)
  PROVE  Seated(a, a.extent, Zero)
<1>1. /\ a.extent \in Triples(Pos)
      /\ a.extent[1] \in Pos /\ a.extent[2] \in Pos /\ a.extent[3] \in Pos
  BY DEF Sound, Triples
<1>2. a.strides = Dense(a.extent) /\ a.offset = 0
  BY DEF Plain, IsContiguous
<1>3. a.strides[2] = a.extent[1] /\ a.strides[3] = a.extent[1] * a.extent[2]
  BY <1>2 DEF Dense
<1>4. Zero \in Triples(Nat) /\ Zero[1] = 0 /\ Zero[2] = 0 /\ Zero[3] = 0
  BY DEF Zero, Triples
<1>5. /\ 0 + a.extent[1] <= a.extent[1] /\ 0 + a.extent[2] <= a.extent[2]
      /\ 0 + a.extent[3] <= a.extent[3]
      /\ 0 = 0 + 0 * a.extent[1] + 0 * (a.extent[1] * a.extent[2])
  <2>1. a.extent[1] * a.extent[2] \in Nat
    BY <1>1 DEF Pos
  <2> QED
    BY <1>1, <2>1 DEF Pos
<1> QED
  BY <1>1, <1>2, <1>3, <1>4, <1>5 DEF Seated

\* Where the elements of a region are, in coordinates of the buffer.
LEMMA SeatedCells ==
  ASSUME NEW a, Sound(a), Placed(a), NEW shape, NEW base, Seated(a, shape, base),
         NEW region \in Regions(a.extent), NEW origin \in Origins(a.extent, region),
         NEW p \in Box(region)
  PROVE  CellsOf(a, origin, region)[p]
           = (base[1] + origin[1] + p[1]) + (base[2] + origin[2] + p[2]) * shape[1]
             + (base[3] + origin[3] + p[3]) * (shape[1] * shape[2])
<1>1. a.extent \in Triples(Pos)
  BY DEF Sound
<1>2. /\ region \in Triples(Pos)
      /\ origin[1] \in Nat /\ origin[2] \in Nat /\ origin[3] \in Nat
  BY <1>1, RegionTriple
<1>3. p[1] \in Nat /\ p[2] \in Nat /\ p[3] \in Nat
  BY <1>2, BoxTriple
<1>4. Plus(origin, p) \in Box(a.extent)
  BY <1>1, PlusInBox
<1>5. CellsOf(a, origin, region)[p] = Address(a, Plus(origin, p))
  BY <1>4 DEF CellsOf, Placed
<1>6. /\ shape[1] \in Pos /\ shape[2] \in Pos
      /\ base[1] \in Nat /\ base[2] \in Nat /\ base[3] \in Nat
      /\ shape[1] * shape[2] \in Nat
  BY DEF Seated, Triples, Pos
<1>7. PICK s, t, b1, b2, b3, o1, o2, o3, p1, p2, p3 \in Nat :
        /\ s = shape[1] /\ t = shape[1] * shape[2]
        /\ b1 = base[1] /\ b2 = base[2] /\ b3 = base[3]
        /\ o1 = origin[1] /\ o2 = origin[2] /\ o3 = origin[3]
        /\ p1 = p[1] /\ p2 = p[2] /\ p3 = p[3]
  BY <1>2, <1>3, <1>6 DEF Pos
<1>8. Address(a, Plus(origin, p))
        = (b1 + b2 * s + b3 * t) + (o1 + p1) + (o2 + p2) * s + (o3 + p3) * t
  BY <1>7 DEF Address, Plus, Seated
<1>9. /\ (b2 + o2 + p2) * s = b2 * s + (o2 + p2) * s
      /\ b2 * s \in Nat /\ (o2 + p2) * s \in Nat
  OBVIOUS
<1>10. /\ (b3 + o3 + p3) * t = b3 * t + (o3 + p3) * t
       /\ b3 * t \in Nat /\ (o3 + p3) * t \in Nat
  OBVIOUS
<1>11. (b1 + b2 * s + b3 * t) + (o1 + p1) + (o2 + p2) * s + (o3 + p3) * t
         = (b1 + o1 + p1) + (b2 + o2 + p2) * s + (b3 + o3 + p3) * t
  BY <1>9, <1>10
<1> QED
  BY <1>5, <1>7, <1>8, <1>11

\* CUDA's pitch for a buffer one row high, when its region is narrower.
TooNarrow(shape, region) ==
  backend = "cuda" /\ shape[2] = 1 /\ shape[3] > 1 /\ region[1] < shape[1]

\* With that exception, pitches address the elements of the region: a pitch
\* left out belongs to a coordinate that is zero.
LEMMA DeviceSideExact ==
  ASSUME NEW a, Sound(a), Placed(a), NEW shape, NEW base, Seated(a, shape, base),
         NEW region \in Regions(a.extent), NEW origin \in Origins(a.extent, region),
         backend \in {"opencl", "cuda", "metal"}, ~TooNarrow(shape, region)
  PROVE  DeviceSide(shape, Plus(base, origin), region) = CellsOf(a, origin, region)
<1>1. a.extent \in Triples(Pos)
  BY DEF Sound
<1>2. /\ region \in Triples(Pos)
      /\ region[1] \in Pos /\ region[2] \in Pos /\ region[3] \in Pos
      /\ origin[1] \in Nat /\ origin[2] \in Nat /\ origin[3] \in Nat
      /\ origin[1] + region[1] <= a.extent[1] /\ origin[2] + region[2] <= a.extent[2]
      /\ origin[3] + region[3] <= a.extent[3]
  BY <1>1, RegionTriple
<1>3. /\ shape[1] \in Pos /\ shape[2] \in Pos /\ shape[3] \in Pos
      /\ base[1] \in Nat /\ base[2] \in Nat /\ base[3] \in Nat
      /\ base[1] + a.extent[1] <= shape[1] /\ base[2] + a.extent[2] <= shape[2]
      /\ base[3] + a.extent[3] <= shape[3]
  BY DEF Seated, Triples
<1>4. a.extent[1] \in Pos /\ a.extent[2] \in Pos /\ a.extent[3] \in Pos
  BY <1>1 DEF Triples
<1> DEFINE rp == RowPitch(shape, region)
           sp == SlicePitch(shape, region)
<1>5. ASSUME NEW p \in Box(region)
      PROVE  DeviceSide(shape, Plus(base, origin), region)[p] = CellsOf(a, origin, region)[p]
  <2>1. /\ p[1] \in Nat /\ p[2] \in Nat /\ p[3] \in Nat
        /\ p[2] <= region[2] - 1 /\ p[3] <= region[3] - 1
    BY <1>2, BoxTriple DEF Pos
  <2>2. PICK x, y, z :
          /\ x = base[1] + origin[1] + p[1] /\ y = base[2] + origin[2] + p[2]
          /\ z = base[3] + origin[3] + p[3]
    OBVIOUS
  <2>3. x \in Nat /\ y \in 0..(shape[2] - 1) /\ z \in 0..(shape[3] - 1)
    BY <1>2, <1>3, <1>4, <2>1, <2>2 DEF Pos
  <2>4. DeviceSide(shape, Plus(base, origin), region)[p]
          = z * sp + y * rp + (base[1] + origin[1]) + p[1]
    BY <2>2 DEF DeviceSide, Plus
  <2>5. CellsOf(a, origin, region)[p] = x + y * shape[1] + z * (shape[1] * shape[2])
    BY <2>2, SeatedCells
  <2>6. y * rp = y * shape[1]
    <3>1. CASE rp = shape[1]
      BY <3>1
    <3>2. CASE rp # shape[1]
      <4>1. shape[2] = 1 /\ rp = region[1]
        BY <1>3, <3>2 DEF RowPitch, Pos
      <4>2. y = 0
        BY <2>3, <4>1
      <4>3. 0 * region[1] = 0 /\ 0 * shape[1] = 0
        BY <1>2, <1>3 DEF Pos
      <4> QED
        BY <4>1, <4>2, <4>3
    <3> QED
      BY <3>1, <3>2
  <2>7. z * sp = z * (shape[1] * shape[2])
    <3>1. CASE shape[3] > 1
      <4>1. CASE backend = "cuda"
        <5>1. sp = rp * shape[2]
          BY <3>1, <4>1 DEF SlicePitch
        <5>2. CASE shape[2] > 1
          BY <5>1, <5>2 DEF RowPitch
        <5>3. CASE shape[2] = 1
          <6>1. region[1] >= shape[1] /\ rp = region[1]
            BY <1>2, <1>3, <3>1, <4>1, <5>3 DEF TooNarrow, RowPitch, Pos
          <6>2. region[1] = shape[1]
            BY <1>2, <1>3, <1>4, <6>1 DEF Pos
          <6> QED
            BY <5>1, <6>1, <6>2
        <5>4. shape[2] > 1 \/ shape[2] = 1
          BY <1>3 DEF Pos
        <5> QED
          BY <5>2, <5>3, <5>4
      <4>2. CASE backend # "cuda"
        BY <3>1, <4>2 DEF SlicePitch
      <4> QED
        BY <4>1, <4>2
    <3>2. CASE shape[3] = 1
      <4>1. z = 0
        BY <2>3, <3>2
      <4>2. sp \in Nat
        <5>1. rp \in Nat
          BY <1>2, <1>3 DEF RowPitch, Pos
        <5>2. /\ shape[1] * shape[2] \in Nat /\ region[2] * rp \in Nat
              /\ rp * region[2] \in Nat
          BY <1>2, <1>3, <5>1 DEF Pos
        <5> QED
          BY <3>2, <5>2 DEF SlicePitch
      <4>3. shape[1] * shape[2] \in Nat
        BY <1>3 DEF Pos
      <4> QED
        BY <4>1, <4>2, <4>3
    <3>3. shape[3] > 1 \/ shape[3] = 1
      BY <1>3 DEF Pos
    <3> QED
      BY <3>1, <3>2, <3>3
  <2>8. y * shape[1] \in Nat /\ z * (shape[1] * shape[2]) \in Nat
    <3>1. shape[1] * shape[2] \in Nat
      BY <1>3 DEF Pos
    <3> QED
      BY <1>3, <2>3, <3>1 DEF Pos
  <2>9. PICK u, v, w : u = z * (shape[1] * shape[2]) /\ v = y * shape[1]
                      /\ w = base[1] + origin[1]
    OBVIOUS
  <2>10. /\ u \in Nat /\ v \in Nat /\ w \in Nat /\ x = w + p[1]
         /\ DeviceSide(shape, Plus(base, origin), region)[p] = u + v + w + p[1]
         /\ CellsOf(a, origin, region)[p] = x + v + u
    BY <1>2, <1>3, <2>2, <2>4, <2>5, <2>6, <2>7, <2>8, <2>9
  <2> QED
    BY <2>1, <2>10
<1> QED
  BY <1>5 DEF DeviceSide, CellsOf

\* Pixels of an image are addressed in its own extent.
LEMMA ImageSideExact ==
  ASSUME NEW a, Sound(a), Placed(a), Plain(a),
         NEW region \in Regions(a.extent), NEW origin \in Origins(a.extent, region)
  PROVE  ImageSide(a.extent, origin, region) = CellsOf(a, origin, region)
<1>1. a.extent \in Triples(Pos)
  BY DEF Sound
<1>2. \A p \in Box(region) : Cell(a, Plus(origin, p)) = Index(a.extent, Plus(origin, p))
  BY <1>1, PlusInBox, PlainCells
<1> QED
  BY <1>2 DEF ImageSide, CellsOf

\* The dimensions a backend leaves out are those the region is flat in.
LEMMA AllDimensions ==
  ASSUME NEW shape \in Triples(Pos), NEW region \in Triples(Pos),
         region[2] <= shape[2], region[3] <= shape[3],
         backend \in {"opencl", "cuda", "metal"}, NEW other, NEW origins,
         NEW q \in Box(region), NEW i \in 2..3, i > CopyDimensions(shape, other, origins)
  PROVE  q[i] = 0
<1>1. /\ shape[2] \in Pos /\ shape[3] \in Pos /\ region[2] \in Pos /\ region[3] \in Pos
      /\ q[2] \in 0..(region[2] - 1) /\ q[3] \in 0..(region[3] - 1)
  BY BoxTriple DEF Triples
<1>2. i = 2 \/ i = 3
  OBVIOUS
<1>3. CASE i = 3
  <2>1. CopyDimensions(shape, other, origins) # 3
    BY <1>3
  <2>2. ~(shape[3] > 1)
    BY <2>1 DEF CopyDimensions
  <2> QED
    BY <1>1, <1>3, <2>2 DEF Pos
<1>4. CASE i = 2
  <2>1. CopyDimensions(shape, other, origins) \notin {2, 3}
    BY <1>4
  <2>2. ~(shape[2] > 1)
    BY <2>1 DEF CopyDimensions
  <2> QED
    BY <1>1, <1>4, <2>2 DEF Pos
<1> QED
  BY <1>2, <1>3, <1>4

\* So everything is moved.
LEMMA MovedIsWanted ==
  ASSUME NEW from, NEW to, NEW region, NEW d, DOMAIN from = Box(region),
         \A q \in Box(region) : \A i \in 2..3 : i > d => q[i] = 0
  PROVE  Moved(from, to, d) = Wanted(from, to, region)
BY DEF Moved, Wanted

LEMMA MovedInThree ==
  ASSUME NEW from, NEW to, NEW region, DOMAIN from = Box(region)
  PROVE  Moved(from, to, 3) = Wanted(from, to, region)
<1>1. \A q \in Box(region) : \A i \in 2..3 : i > 3 => q[i] = 0
  OBVIOUS
<1> QED
  BY <1>1, MovedIsWanted

\* The region of an array lies within the buffer the array is seated in.
LEMMA RegionInShape ==
  ASSUME NEW a, Sound(a), NEW shape, NEW base, Seated(a, shape, base),
         NEW region \in Regions(a.extent)
  PROVE  /\ shape \in Triples(Pos) /\ region \in Triples(Pos)
         /\ region[2] <= shape[2] /\ region[3] <= shape[3]
<1>1. /\ a.extent[1] \in Pos /\ a.extent[2] \in Pos /\ a.extent[3] \in Pos
  BY DEF Sound, Triples
<1>2. /\ region = <<region[1], region[2], region[3]>>
      /\ region[1] \in 1..a.extent[1] /\ region[2] \in 1..a.extent[2]
      /\ region[3] \in 1..a.extent[3]
  BY DEF Regions
<1>3. region \in Triples(Pos)
  <2>1. region[1] \in Pos /\ region[2] \in Pos /\ region[3] \in Pos
    BY <1>1, <1>2 DEF Pos
  <2> QED
    BY <1>2, <2>1 DEF Triples
<1>4. /\ shape \in Triples(Pos) /\ shape[2] \in Pos /\ shape[3] \in Pos
      /\ base[2] \in Nat /\ base[3] \in Nat
      /\ base[2] + a.extent[2] <= shape[2] /\ base[3] + a.extent[3] <= shape[3]
  BY DEF Seated, Triples
<1> QED
  BY <1>1, <1>2, <1>3, <1>4 DEF Pos

\* The device end of a transfer with the host.
LEMMA HostTransferExact ==
  ASSUME NEW a, Sound(a), Placed(a), Fits(a), backend \in {"opencl", "cuda", "metal"},
         NEW region \in Regions(a.extent), NEW origin \in Origins(a.extent, region),
         NEW device, device = HostTransfer(a, origin, region),
         ~TooNarrow(device.shape, region),
         NEW host, DOMAIN host = Box(region)
  PROVE  LET cells == CellsOf(a, origin, region)
         IN  /\ Moved(device.side, host, device.dimensions) = Wanted(cells, host, region)
             /\ Moved(host, device.side, device.dimensions) = Wanted(host, cells, region)
<1> DEFINE layout == LayoutOf(a)
           place == Plus(layout.origin, origin)
           cells == CellsOf(a, origin, region)
<1>1. Seated(a, layout.shape, layout.origin)
  BY LayoutSeats
<1>2. device.shape = layout.shape
  BY DEF HostTransfer
<1>3. DOMAIN cells = Box(region)
  BY DEF CellsOf
<1>4. CASE backend = "opencl" /\ a.mtype = "image"
  <2>1. device.side = ImageSide(a.extent, origin, region) /\ device.dimensions = 3
    BY <1>4 DEF HostTransfer
  <2>2. device.side = cells
    BY <1>4, <2>1, ImageSideExact DEF Placed
  <2> HIDE DEF cells
  <2> QED
    BY <1>3, <2>1, <2>2, MovedInThree DEF cells
<1>5. CASE ~(backend = "opencl" /\ a.mtype = "image")
  <2>1. /\ device.side = DeviceSide(layout.shape, place, region)
        /\ device.dimensions = CopyDimensions(layout.shape, layout.shape, {place})
    BY <1>5 DEF HostTransfer
  <2>2. device.side = cells
    BY <1>1, <1>2, <2>1, DeviceSideExact
  <2>3. \A q \in Box(region) : \A i \in 2..3 : i > device.dimensions => q[i] = 0
    BY <1>1, <2>1, RegionInShape, AllDimensions
  <2> HIDE DEF cells
  <2> QED
    BY <1>3, <2>2, <2>3, MovedIsWanted DEF cells
<1> QED
  BY <1>4, <1>5

----------------------------------------------------------------------------
\* A transfer that reports what it wanted, or is one of the exceptions.
LEMMA ReportExact ==
  ASSUME NEW call, NEW ends, NEW shapes, NEW region, NEW moved, NEW wanted,
         Report(call, ends, shapes, region, moved, wanted), backend' = backend,
         (/\ \A shape \in shapes : ~TooNarrow(shape, region)
          /\ ~(backend = "opencl" /\ call = "copyRegion" /\ ends[1] # ends[2])
          /\ ~(/\ backend = "cuda" /\ call = "copyTo" /\ ends = <<"buffer", "image">>
               /\ region[2] > 1 \/ region[3] > 1))
         => moved = wanted
  PROVE  TransferIsExact'
<1>1. /\ last'.call = call /\ last'.ends = ends /\ last'.shapes = shapes
      /\ last'.region = region /\ last'.moved = moved /\ last'.wanted = wanted
  BY DEF Report
<1> QED
  BY <1>1 DEF TransferIsExact, NarrowRows, PackedRegion, SingleRow, TooNarrow

LEMMA RefuseExact ==
  ASSUME NEW call, NEW why \in {"layout", "refused", "driver"}, Refuse(call, why)
  PROVE  TransferIsExact'
BY DEF Refuse, TransferIsExact

LEMMA ReadToExact ==
  ASSUME PlacedInv, NEW h \in Handles, NEW region \in Regions(arrays[h].extent),
         NEW origin \in Origins(arrays[h].extent, region), ReadTo(h, region, origin)
  PROVE  TransferIsExact'
<1> DEFINE a == arrays[h]
           device == HostTransfer(a, origin, region)
           moved == Moved(device.side, HostSide(region), device.dimensions)
           wanted == Wanted(CellsOf(a, origin, region), HostSide(region), region)
<1>1. Sound(a) /\ Placed(a) /\ backend \in {"opencl", "cuda", "metal"}
  BY DEF ReadTo, Ready, PlacedInv, WindowInv
<1>2. backend' = backend
  BY DEF ReadTo
<1>3. CASE Fits(a)
  <2>1. Report("readTo", <<a.mtype>>, {device.shape}, region, moved, wanted)
    BY <1>3 DEF ReadTo
  <2>2. DOMAIN HostSide(region) = Box(region)
    BY DEF HostSide
  <2>3. ~TooNarrow(device.shape, region) => moved = wanted
    BY <1>1, <1>3, <2>2, HostTransferExact
  <2> HIDE DEF moved, wanted, device
  <2> QED
    BY <1>2, <2>1, <2>3, ReportExact
<1>4. CASE ~Fits(a)
  BY <1>4, RefuseExact DEF ReadTo
<1> QED
  BY <1>3, <1>4

LEMMA WriteFromExact ==
  ASSUME PlacedInv, NEW h \in Handles, NEW region \in Regions(arrays[h].extent),
         NEW origin \in Origins(arrays[h].extent, region), WriteFrom(h, region, origin)
  PROVE  TransferIsExact'
<1> DEFINE a == arrays[h]
           device == HostTransfer(a, origin, region)
           moved == Moved(HostSide(region), device.side, device.dimensions)
           wanted == Wanted(HostSide(region), CellsOf(a, origin, region), region)
<1>1. Sound(a) /\ Placed(a) /\ backend \in {"opencl", "cuda", "metal"}
  BY DEF WriteFrom, Ready, PlacedInv, WindowInv
<1>2. backend' = backend
  BY DEF WriteFrom
<1>3. CASE Fits(a)
  <2>1. Report("writeFrom", <<a.mtype>>, {device.shape}, region, moved, wanted)
    BY <1>3 DEF WriteFrom
  <2>2. DOMAIN HostSide(region) = Box(region)
    BY DEF HostSide
  <2>3. ~TooNarrow(device.shape, region) => moved = wanted
    BY <1>1, <1>3, <2>2, HostTransferExact
  <2> HIDE DEF moved, wanted, device
  <2> QED
    BY <1>2, <2>1, <2>3, ReportExact
<1>4. CASE ~Fits(a)
  BY <1>4, RefuseExact DEF WriteFrom
<1> QED
  BY <1>3, <1>4

\* The first size() addresses are those of a plain array's elements.
LEMMA PlainFilled ==
  ASSUME NEW a, Sound(a), Placed(a), Plain(a)
  PROVE  {<<0, ItemSize * k>> : k \in 0..Size(a.extent) - 1}
           = Wanted([p \in Box(a.extent) |-> 0], CellsOf(a, Zero, a.extent), a.extent)
<1>1. a.extent \in Triples(Pos) /\ ItemSize \in Nat
  BY TransferAssumption DEF Sound
<1> DEFINE value == [p \in Box(a.extent) |-> 0]
           cells == CellsOf(a, Zero, a.extent)
<1>2. ASSUME NEW p \in Box(a.extent)
      PROVE  /\ <<ItemSize * value[p], ItemSize * cells[p]>>
                   = <<0, ItemSize * Index(a.extent, p)>>
             /\ Index(a.extent, p) \in 0..Size(a.extent) - 1
  <2>1. Plus(Zero, p) = p
    BY <1>1, BoxTriple, PlusZero
  <2>2. cells[p] = Index(a.extent, p)
    BY <2>1, PlainCells DEF CellsOf
  <2>3. value[p] = 0 /\ ItemSize * 0 = 0
    BY <1>1
  <2>4. Index(a.extent, p) \in 0..Size(a.extent) - 1
    BY <1>1, DecodeIndex
  <2> QED
    BY <2>2, <2>3, <2>4
<1>3. \A k \in 0..Size(a.extent) - 1 : \E p \in Box(a.extent) : k = Index(a.extent, p)
  BY <1>1, EncodeIndex
<1> HIDE DEF value, cells
<1>4. {<<0, ItemSize * k>> : k \in 0..Size(a.extent) - 1}
        = {<<0, ItemSize * Index(a.extent, p)>> : p \in Box(a.extent)}
  BY <1>2, <1>3
<1>5. Wanted(value, cells, a.extent) = {<<0, ItemSize * Index(a.extent, p)>> : p \in Box(a.extent)}
  BY <1>2 DEF Wanted
<1> QED
  BY <1>4, <1>5 DEF value, cells

LEMMA FillExact ==
  ASSUME PlacedInv, NEW h \in Handles, Fill(h)
  PROVE  TransferIsExact'
<1> DEFINE a == arrays[h]
           device == HostTransfer(a, Zero, a.extent)
           value == [p \in Box(a.extent) |-> 0]
           throughHost == backend = "metal" \/ (a.mtype = "buffer" /\ ~Plain(a))
           asked == Wanted(value, CellsOf(a, Zero, a.extent), a.extent)
           moved == Moved(value, device.side, device.dimensions)
           packed == {<<0, ItemSize * k>> : k \in 0..Size(a.extent) - 1}
<1>1. Sound(a) /\ Placed(a) /\ backend \in {"opencl", "cuda", "metal"}
  BY DEF Fill, Ready, PlacedInv, WindowInv
<1>2. backend' = backend
  BY DEF Fill
<1>3. a.extent \in Regions(a.extent) /\ Zero \in Origins(a.extent, a.extent)
  BY <1>1, WholeRegion DEF Sound
<1>4. CASE throughHost /\ ~Fits(a)
  BY <1>4, RefuseExact DEF Fill
<1>5. CASE throughHost /\ Fits(a)
  <2>1. Report("fill", <<a.mtype>>, {device.shape}, a.extent, moved, asked)
    BY <1>5 DEF Fill
  <2>2. DOMAIN value = Box(a.extent)
    OBVIOUS
  <2>3. ~TooNarrow(device.shape, a.extent) => moved = asked
    <3> HIDE DEF value
    <3> QED
      BY <1>1, <1>3, <1>5, <2>2, HostTransferExact
  <2> HIDE DEF moved, asked, device
  <2> QED
    BY <1>2, <2>1, <2>3, ReportExact
<1>6. CASE ~throughHost
  <2>1. Report("fill", <<a.mtype>>, {device.shape}, a.extent, packed, asked)
    BY <1>6 DEF Fill
  <2>2. Plain(a)
    BY <1>1, <1>6 DEF Placed
  <2>3. packed = asked
    BY <1>1, <2>2, PlainFilled
  <2> HIDE DEF packed, asked, device
  <2> QED
    BY <1>2, <2>1, <2>3, ReportExact
<1> QED
  BY <1>4, <1>5, <1>6

----------------------------------------------------------------------------
LEMMA ZeroPlus ==
  ASSUME NEW p \in Triples(Nat)
  PROVE  Plus(p, Zero) = p
<1>1. p = <<p[1], p[2], p[3]>> /\ p[1] \in Nat /\ p[2] \in Nat /\ p[3] \in Nat
  BY DEF Triples
<1> QED
  BY <1>1 DEF Plus, Zero

\* Both ends of a copy between device buffers.
LEMMA DeviceCopyExact ==
  ASSUME NEW a, Sound(a), Placed(a), NEW b, Sound(b), Placed(b),
         backend \in {"opencl", "cuda", "metal"},
         NEW sshape, NEW sbase, Seated(a, sshape, sbase),
         NEW dshape, NEW dbase, Seated(b, dshape, dbase),
         NEW region \in Regions(a.extent) \cap Regions(b.extent),
         NEW sorigin \in Origins(a.extent, region), NEW dorigin \in Origins(b.extent, region),
         ~TooNarrow(sshape, region), ~TooNarrow(dshape, region), NEW origins
  PROVE  Moved(DeviceSide(sshape, Plus(sbase, sorigin), region),
               DeviceSide(dshape, Plus(dbase, dorigin), region),
               CopyDimensions(sshape, dshape, origins))
           = Wanted(CellsOf(a, sorigin, region), CellsOf(b, dorigin, region), region)
<1> DEFINE from == CellsOf(a, sorigin, region)
           to == CellsOf(b, dorigin, region)
<1>1. DeviceSide(sshape, Plus(sbase, sorigin), region) = from
  BY DeviceSideExact
<1>2. DeviceSide(dshape, Plus(dbase, dorigin), region) = to
  BY DeviceSideExact
<1>3. DOMAIN from = Box(region)
  BY DEF CellsOf
<1>4. \A q \in Box(region) : \A i \in 2..3 :
        i > CopyDimensions(sshape, dshape, origins) => q[i] = 0
  BY RegionInShape, AllDimensions
<1> HIDE DEF from, to
<1>5. Moved(from, to, CopyDimensions(sshape, dshape, origins)) = Wanted(from, to, region)
  BY <1>3, <1>4, MovedIsWanted
<1> QED
  BY <1>1, <1>2, <1>5 DEF from, to

\* Two lists of addresses, taken in order, pair up as the elements of a block.
LEMMA PairsInOrder ==
  ASSUME NEW e \in Triples(Pos), NEW f, NEW g, NEW from, NEW to,
         \A p \in Box(e) : from[p] = f[1 + Index(e, p)] /\ to[p] = g[1 + Index(e, p)]
  PROVE  {<<ItemSize * f[k], ItemSize * g[k]>> : k \in 1..Size(e)} = Wanted(from, to, e)
<1>1. \A p \in Box(e) : 1 + Index(e, p) \in 1..Size(e)
  BY DecodeIndex, SizePositive DEF Pos
<1>2. \A k \in 1..Size(e) : \E p \in Box(e) : k = 1 + Index(e, p)
  <2> SUFFICES ASSUME NEW k \in 1..Size(e) PROVE \E p \in Box(e) : k = 1 + Index(e, p)
    OBVIOUS
  <2>1. k - 1 \in 0..(Size(e) - 1)
    BY SizePositive DEF Pos
  <2>2. PICK p \in Box(e) : k - 1 = Index(e, p)
    BY <2>1, EncodeIndex
  <2>3. k = 1 + Index(e, p)
    BY <2>2
  <2> QED
    BY <2>3
<1> DEFINE n(p) == 1 + Index(e, p)
<1>3. \A p \in Box(e) : n(p) \in 1..Size(e) /\ from[p] = f[n(p)] /\ to[p] = g[n(p)]
  BY <1>1
<1>4. \A k \in 1..Size(e) : \E p \in Box(e) : k = n(p)
  BY <1>2
<1> HIDE DEF n
<1>5. {<<ItemSize * f[k], ItemSize * g[k]>> : k \in 1..Size(e)}
        = {<<ItemSize * f[n(p)], ItemSize * g[n(p)]>> : p \in Box(e)}
  BY <1>3, <1>4
<1> QED
  BY <1>3, <1>5 DEF Wanted

\* A factor that is not larger cannot make an equal product.
LEMMA EqualFactors ==
  ASSUME NEW x \in Pos, NEW y \in Pos, NEW u \in Pos, NEW v \in Pos,
         x <= y, u <= v, x * u = y * v
  PROVE  x = y /\ u = v
<1>1. x \in Nat /\ y \in Nat /\ u \in Nat /\ v \in Nat /\ y > 0 /\ u > 0
  BY DEF Pos
<1>2. x * u <= y * u /\ y * u <= y * v /\ x * u \in Nat /\ y * u \in Nat /\ y * v \in Nat
  BY <1>1
<1>3. x * u = y * u /\ y * u = y * v
  BY <1>2
<1>4. x = y
  <2> SUFFICES ASSUME x + 1 <= y PROVE FALSE
    BY <1>1
  <2>1. (x + 1) * u <= y * u /\ (x + 1) * u = x * u + u
    BY <1>1
  <2> QED
    BY <1>1, <1>2, <1>3, <2>1
<1>5. u = v
  <2> SUFFICES ASSUME u + 1 <= v PROVE FALSE
    BY <1>1
  <2>1. y * (u + 1) <= y * v /\ y * (u + 1) = y * u + y
    BY <1>1
  <2> QED
    BY <1>1, <1>2, <1>3, <2>1
<1> QED
  BY <1>4, <1>5

\* An image that holds a block of its own size is that block.
LEMMA SameExtent ==
  ASSUME NEW e \in Triples(Pos), NEW f \in Triples(Pos), Size(e) = Size(f),
         e[1] <= f[1], e[2] <= f[2], e[3] <= f[3]
  PROVE  e = f
<1>1. /\ e = <<e[1], e[2], e[3]>> /\ f = <<f[1], f[2], f[3]>>
      /\ e[1] \in Pos /\ e[2] \in Pos /\ e[3] \in Pos
      /\ f[1] \in Pos /\ f[2] \in Pos /\ f[3] \in Pos
  BY DEF Triples
<1>2. PICK x, y : x = e[1] * e[2] /\ y = f[1] * f[2]
  OBVIOUS
<1>3. x \in Pos /\ y \in Pos /\ x <= y
  <2>1. \A m, n \in Pos : m * n \in Pos
    BY DEF Pos
  <2>2. e[1] * e[2] <= f[1] * e[2] /\ f[1] * e[2] <= f[1] * f[2]
    BY <1>1 DEF Pos
  <2>3. f[1] * e[2] \in Pos
    BY <1>1, <2>1
  <2> QED
    BY <1>1, <1>2, <2>1, <2>2, <2>3 DEF Pos
<1>4. x * e[3] = y * f[3]
  BY <1>2 DEF Size
<1>5. x = y /\ e[3] = f[3]
  BY <1>1, <1>3, <1>4, EqualFactors
<1>6. e[1] = f[1] /\ e[2] = f[2]
  BY <1>1, <1>2, <1>5, EqualFactors
<1> QED
  BY <1>1, <1>5, <1>6

----------------------------------------------------------------------------
\* What dispatchCopy does with a pair it accepts.
Accepted(a, b, sorigin, dorigin, region) ==
  /\ ~(a.mtype # b.mtype /\ \E c \in {a, b} : c.mtype = "buffer" /\ ~Plain(c))
  /\ backend = "opencl" => InImage(a, sorigin, region) /\ InImage(b, dorigin, region)

DispatchMoves(a, b, sorigin, sshape, dorigin, dshape, region) ==
  LET pixels == backend = "opencl"
  IN  CASE pixels /\ a.mtype = "image" /\ b.mtype = "image" ->
                  Moved(ImageSide(a.extent, sorigin, region),
                        ImageSide(b.extent, dorigin, region), 3)
        [] pixels /\ a.mtype = "buffer" /\ b.mtype = "image" ->
                  BufferToImage(b, sshape, sorigin, dorigin, region)
        [] pixels /\ a.mtype = "image" /\ b.mtype = "buffer" ->
                  ImageToBuffer(a, sorigin, dshape, region)
        [] OTHER ->
                  Moved(DeviceSide(sshape, sorigin, region),
                        DeviceSide(dshape, dorigin, region),
                        CopyDimensions(sshape, dshape, {sorigin, dorigin}))

LEMMA DispatchExact ==
  ASSUME NEW call, NEW a, NEW b, NEW sorigin, NEW sshape, NEW dorigin, NEW dshape,
         NEW region, NEW asked,
         Dispatch(call, a, b, sorigin, sshape, dorigin, dshape, region, asked),
         backend' = backend,
         (/\ Accepted(a, b, sorigin, dorigin, region)
          /\ ~TooNarrow(sshape, region) /\ ~TooNarrow(dshape, region)
          /\ ~(backend = "opencl" /\ call = "copyRegion" /\ a.mtype # b.mtype)
          /\ ~(/\ backend = "cuda" /\ call = "copyTo"
               /\ a.mtype = "buffer" /\ b.mtype = "image"
               /\ region[2] > 1 \/ region[3] > 1))
         => DispatchMoves(a, b, sorigin, sshape, dorigin, dshape, region) = asked
  PROVE  TransferIsExact'
<1> DEFINE moved == DispatchMoves(a, b, sorigin, sshape, dorigin, dshape, region)
<1>1. CASE Accepted(a, b, sorigin, dorigin, region)
  <2>1. Report(call, <<a.mtype, b.mtype>>, {sshape, dshape}, region, moved, asked)
    BY <1>1 DEF Dispatch, Accepted, DispatchMoves
  <2> HIDE DEF moved
  <2>2. (/\ \A shape \in {sshape, dshape} : ~TooNarrow(shape, region)
         /\ ~(backend = "opencl" /\ call = "copyRegion"
              /\ <<a.mtype, b.mtype>>[1] # <<a.mtype, b.mtype>>[2])
         /\ ~(/\ backend = "cuda" /\ call = "copyTo"
              /\ <<a.mtype, b.mtype>> = <<"buffer", "image">>
              /\ region[2] > 1 \/ region[3] > 1))
        => moved = asked
    BY <1>1 DEF moved
  <2> QED
    BY <2>1, <2>2, ReportExact
<1>2. CASE ~Accepted(a, b, sorigin, dorigin, region)
  <2>1. Refuse(call, "refused") \/ Refuse(call, "driver")
    BY <1>2 DEF Dispatch, Accepted
  <2> QED
    BY <2>1, RefuseExact
<1> QED
  BY <1>1, <1>2

\* Two images, or two buffers, or a pair on CUDA: ends are addressed alike.
LEMMA DevicePairMoves ==
  ASSUME NEW a, Sound(a), Placed(a), NEW b, Sound(b), Placed(b),
         backend \in {"opencl", "cuda", "metal"},
         NEW sshape, NEW sbase, Seated(a, sshape, sbase),
         NEW dshape, NEW dbase, Seated(b, dshape, dbase),
         NEW region \in Regions(a.extent) \cap Regions(b.extent),
         NEW sorigin \in Origins(a.extent, region), NEW dorigin \in Origins(b.extent, region),
         ~TooNarrow(sshape, region), ~TooNarrow(dshape, region),
         \/ backend # "opencl"
         \/ a.mtype = "buffer" /\ b.mtype = "buffer"
         \/ a.mtype = "image" /\ b.mtype = "image" /\ sbase = Zero /\ dbase = Zero
  PROVE  DispatchMoves(a, b, Plus(sbase, sorigin), sshape, Plus(dbase, dorigin), dshape, region)
           = Wanted(CellsOf(a, sorigin, region), CellsOf(b, dorigin, region), region)
<1> DEFINE from == CellsOf(a, sorigin, region)
           to == CellsOf(b, dorigin, region)
           moved == DispatchMoves(a, b, Plus(sbase, sorigin), sshape, Plus(dbase, dorigin),
                                  dshape, region)
<1>1. CASE backend = "opencl" /\ a.mtype = "image" /\ b.mtype = "image"
  <2>1. sorigin \in Triples(Nat) /\ dorigin \in Triples(Nat)
    BY RegionTriple DEF Sound
  <2>2. Plus(sbase, sorigin) = sorigin /\ Plus(dbase, dorigin) = dorigin
    BY <1>1, <2>1, PlusZero
  <2>3. ImageSide(a.extent, sorigin, region) = from /\ ImageSide(b.extent, dorigin, region) = to
    BY <1>1, ImageSideExact DEF Placed
  <2>4. moved = Moved(from, to, 3)
    BY <1>1, <2>2, <2>3 DEF DispatchMoves
  <2>5. DOMAIN from = Box(region)
    BY DEF CellsOf
  <2> HIDE DEF from, to, moved
  <2>6. moved = Wanted(from, to, region)
    BY <2>4, <2>5, MovedInThree
  <2> QED
    BY <2>6 DEF from, to, moved
<1>2. CASE ~(backend = "opencl" /\ a.mtype = "image" /\ b.mtype = "image")
  <2>1. moved = Moved(DeviceSide(sshape, Plus(sbase, sorigin), region),
                      DeviceSide(dshape, Plus(dbase, dorigin), region),
                      CopyDimensions(sshape, dshape,
                                     {Plus(sbase, sorigin), Plus(dbase, dorigin)}))
    BY <1>2 DEF DispatchMoves
  <2> QED
    BY <2>1, DeviceCopyExact
<1> QED
  BY <1>1, <1>2

LEMMA CopyRegionExact ==
  ASSUME PlacedInv, NEW g \in Handles, NEW h \in Handles,
         NEW region \in Regions(arrays[g].extent) \cap Regions(arrays[h].extent),
         NEW sorigin \in Origins(arrays[g].extent, region),
         NEW dorigin \in Origins(arrays[h].extent, region),
         CopyRegion(g, h, region, sorigin, dorigin)
  PROVE  TransferIsExact'
<1> DEFINE a == arrays[g]
           b == arrays[h]
           asked == Wanted(CellsOf(a, sorigin, region), CellsOf(b, dorigin, region), region)
<1>1. /\ Sound(a) /\ Placed(a) /\ Sound(b) /\ Placed(b)
      /\ backend \in {"opencl", "cuda", "metal"}
  BY DEF CopyRegion, Separate, Ready, PlacedInv, WindowInv
<1>2. backend' = backend
  BY DEF CopyRegion
<1>3. sorigin \in Triples(Nat) /\ dorigin \in Triples(Nat)
  BY <1>1, RegionTriple DEF Sound
<1>4. CASE a.mtype # "buffer" \/ b.mtype # "buffer"
  <2>1. Dispatch("copyRegion", a, b, sorigin, a.extent, dorigin, b.extent, region, asked)
    BY <1>4 DEF CopyRegion
  <2>2. ASSUME Accepted(a, b, sorigin, dorigin, region),
               ~TooNarrow(a.extent, region), ~TooNarrow(b.extent, region),
               ~(backend = "opencl" /\ a.mtype # b.mtype)
        PROVE  DispatchMoves(a, b, sorigin, a.extent, dorigin, b.extent, region) = asked
    <3>1. Plain(a) /\ Plain(b)
      BY <1>1, <1>4, <2>2 DEF Accepted, Placed
    <3>2. Seated(a, a.extent, Zero) /\ Seated(b, b.extent, Zero)
      BY <1>1, <3>1, PlainSeats
    <3>3. Plus(Zero, sorigin) = sorigin /\ Plus(Zero, dorigin) = dorigin
      BY <1>3, PlusZero
    <3>4. \/ backend # "opencl"
          \/ a.mtype = "buffer" /\ b.mtype = "buffer"
          \/ a.mtype = "image" /\ b.mtype = "image" /\ Zero = Zero /\ Zero = Zero
      BY <1>1, <1>4, <2>2 DEF Placed
    <3>5. DispatchMoves(a, b, Plus(Zero, sorigin), a.extent, Plus(Zero, dorigin), b.extent,
                        region) = asked
      BY <1>1, <2>2, <3>2, <3>4, DevicePairMoves
    <3> QED
      BY <3>3, <3>5
  <2> HIDE DEF asked
  <2> QED
    BY <1>2, <2>1, <2>2, DispatchExact
<1>5. CASE a.mtype = "buffer" /\ b.mtype = "buffer" /\ Fits(a) /\ Fits(b)
  <2> DEFINE from == LayoutOf(a)
             to == LayoutOf(b)
  <2>1. Dispatch("copyRegion", a, b, Plus(from.origin, sorigin), from.shape,
                 Plus(to.origin, dorigin), to.shape, region, asked)
    BY <1>5 DEF CopyRegion
  <2>2. Seated(a, from.shape, from.origin) /\ Seated(b, to.shape, to.origin)
    BY <1>1, <1>5, LayoutSeats
  <2>3. ASSUME ~TooNarrow(from.shape, region), ~TooNarrow(to.shape, region)
        PROVE  DispatchMoves(a, b, Plus(from.origin, sorigin), from.shape,
                             Plus(to.origin, dorigin), to.shape, region) = asked
    BY <1>1, <1>5, <2>2, <2>3, DevicePairMoves
  <2> HIDE DEF asked, from, to
  <2> QED
    BY <1>2, <2>1, <2>3, DispatchExact
<1>6. CASE a.mtype = "buffer" /\ b.mtype = "buffer" /\ ~(Fits(a) /\ Fits(b))
  BY <1>6, RefuseExact DEF CopyRegion
<1> QED
  BY <1>4, <1>5, <1>6

----------------------------------------------------------------------------
\* The elements of an array, in order, are those of the region it is.
LEMMA CellsInOrder ==
  ASSUME NEW a, Sound(a), NEW p \in Box(a.extent)
  PROVE  CellsOf(a, Zero, a.extent)[p] = a.cells[1 + Index(a.extent, p)]
<1>1. Plus(Zero, p) = p
  BY BoxTriple, PlusZero DEF Sound
<1> QED
  BY <1>1 DEF CellsOf, Cell

LEMMA WholeCopyWanted ==
  ASSUME NEW a, Sound(a), NEW b, Sound(b), b.extent = a.extent
  PROVE  {<<ItemSize * a.cells[k], ItemSize * b.cells[k]>> : k \in 1..Size(a.extent)}
           = Wanted(CellsOf(a, Zero, a.extent), CellsOf(b, Zero, a.extent), a.extent)
<1> DEFINE from == CellsOf(a, Zero, a.extent)
           to == CellsOf(b, Zero, a.extent)
<1>1. \A p \in Box(a.extent) : /\ from[p] = a.cells[1 + Index(a.extent, p)]
                               /\ to[p] = b.cells[1 + Index(a.extent, p)]
  BY CellsInOrder
<1> HIDE DEF from, to
<1>2. {<<ItemSize * a.cells[k], ItemSize * b.cells[k]>> : k \in 1..Size(a.extent)}
        = Wanted(from, to, a.extent)
  BY <1>1, PairsInOrder DEF Sound
<1> QED
  BY <1>2 DEF from, to

\* Plain arrays are copied as if they were a single row.
Flat(a) == <<Size(a.extent), 1, 1>>
Flattened(a) == [a EXCEPT !.extent = Flat(a), !.strides = Dense(Flat(a))]

LEMMA FlattenedSound ==
  ASSUME NEW a, Sound(a), Placed(a), Plain(a), a.mtype = "buffer"
  PROVE  /\ Sound(Flattened(a)) /\ Placed(Flattened(a)) /\ Plain(Flattened(a))
         /\ Flattened(a).extent = Flat(a) /\ Flattened(a).cells = a.cells
         /\ Flattened(a).mtype = "buffer"
         /\ Size(Flat(a)) = Size(a.extent) /\ Flat(a) \in Triples(Pos)
<1> DEFINE b == Flattened(a)
           e == Flat(a)
<1>1. a.extent \in Triples(Pos) /\ Size(a.extent) \in Pos
  BY SizePositive DEF Sound
<1>2. e \in Triples(Pos) /\ Size(e) = Size(a.extent)
  BY <1>1 DEF Flat, Triples, Pos, Size
<1>3. /\ b.extent = e /\ b.strides = Dense(e) /\ b.offset = a.offset
      /\ b.cells = a.cells /\ b.mtype = a.mtype /\ b.folded = a.folded /\ ArrayRecord(b)
  <2>1. PICK f, s : f = e /\ s = Dense(e)
    OBVIOUS
  <2>2. b = [a EXCEPT !.extent = f, !.strides = s]
    BY <2>1 DEF Flattened
  <2> HIDE DEF b, e
  <2> QED
    BY <2>1, <2>2 DEF Sound, ArrayRecord
<1> HIDE DEF b, e
<1>4. Placed(b)
  BY <1>2, <1>3, ReshapePlaced DEF Plain
<1>5. b.offset = 0 /\ Plain(b)
  BY <1>3 DEF Plain, IsContiguous
<1>6. Sound(b)
  BY <1>2, <1>3, <1>5, DenseIsWindow, DenseTriple DEF Sound
<1> QED
  BY <1>2, <1>3, <1>4, <1>5, <1>6 DEF b, e

\* A block is never narrower than itself.
LEMMA WholeIsNotNarrow ==
  ASSUME NEW e \in Triples(Pos)
  PROVE  ~TooNarrow(e, e)
<1>1. ~(e[1] < e[1])
  BY DEF Triples, Pos
<1> QED
  BY <1>1 DEF TooNarrow

LEMMA ZeroTriple == Zero \in Triples(Nat)
BY DEF Zero, Triples

\* Two plain buffers of the same size.
LEMMA PlainCopyMoves ==
  ASSUME NEW a, Sound(a), Placed(a), Plain(a), a.mtype = "buffer",
         NEW b, Sound(b), Placed(b), Plain(b), b.mtype = "buffer",
         Size(a.extent) = Size(b.extent), backend \in {"opencl", "cuda", "metal"}
  PROVE  DispatchMoves(a, b, Zero, Flat(a), Zero, Flat(b), Flat(a))
           = {<<ItemSize * a.cells[k], ItemSize * b.cells[k]>> : k \in 1..Size(a.extent)}
<1> DEFINE c == Flattened(a)
           d == Flattened(b)
           e == Flat(a)
<1>1. /\ Sound(c) /\ Placed(c) /\ Plain(c) /\ c.extent = e /\ c.cells = a.cells
      /\ c.mtype = "buffer" /\ Size(e) = Size(a.extent) /\ e \in Triples(Pos)
  BY FlattenedSound
<1>2. /\ Sound(d) /\ Placed(d) /\ Plain(d) /\ d.extent = Flat(b) /\ d.cells = b.cells
      /\ d.mtype = "buffer"
  BY FlattenedSound
<1>3. Flat(b) = e
  BY DEF Flat
<1>4. DispatchMoves(a, b, Zero, e, Zero, e, e) = DispatchMoves(c, d, Zero, e, Zero, e, e)
  BY <1>1, <1>2 DEF DispatchMoves
<1> HIDE DEF c, d, e
<1>5. Seated(c, e, Zero) /\ Seated(d, e, Zero)
  BY <1>1, <1>2, <1>3, PlainSeats
<1>6. /\ e \in Regions(c.extent) \cap Regions(d.extent)
      /\ Zero \in Origins(c.extent, e) /\ Zero \in Origins(d.extent, e)
  BY <1>1, <1>2, <1>3, WholeRegion
<1>7. Plus(Zero, Zero) = Zero
  BY ZeroTriple, PlusZero
<1>8. DispatchMoves(c, d, Plus(Zero, Zero), e, Plus(Zero, Zero), e, e)
        = Wanted(CellsOf(c, Zero, e), CellsOf(d, Zero, e), e)
  BY <1>1, <1>2, <1>5, <1>6, WholeIsNotNarrow, DevicePairMoves
<1>9. {<<ItemSize * c.cells[k], ItemSize * d.cells[k]>> : k \in 1..Size(e)}
        = Wanted(CellsOf(c, Zero, e), CellsOf(d, Zero, e), e)
  BY <1>1, <1>2, <1>3, WholeCopyWanted
<1>10. {<<ItemSize * a.cells[k], ItemSize * b.cells[k]>> : k \in 1..Size(a.extent)}
         = {<<ItemSize * c.cells[k], ItemSize * d.cells[k]>> : k \in 1..Size(e)}
  BY <1>1, <1>2
<1>11. DispatchMoves(a, b, Zero, e, Zero, e, e)
         = {<<ItemSize * a.cells[k], ItemSize * b.cells[k]>> : k \in 1..Size(a.extent)}
  BY <1>4, <1>7, <1>8, <1>9, <1>10
<1> QED
  BY <1>3, <1>11 DEF e

\* A zero origin and packed pitches address a block by its positions.
LEMMA PackedSide ==
  ASSUME NEW shape, NEW region \in Triples(Pos), NEW p \in Box(region),
         p[2] * RowPitch(shape, region) = p[2] * region[1],
         p[3] * SlicePitch(shape, region) = p[3] * region[1] * region[2]
  PROVE  DeviceSide(shape, Zero, region)[p] = Index(region, p)
<1>1. /\ p[1] \in Nat /\ p[2] \in Nat /\ p[3] \in Nat
      /\ region[1] \in Nat /\ region[2] \in Nat
  BY BoxTriple DEF Pos
<1>2. PICK u, v : u = p[3] * region[1] * region[2] /\ v = p[2] * region[1]
  OBVIOUS
<1>3. u \in Nat /\ v \in Nat
  BY <1>1, <1>2
<1>4. 0 + p[2] = p[2] /\ 0 + p[3] = p[3]
  BY <1>1
<1>5. DeviceSide(shape, Zero, region)[p]
        = (0 + p[3]) * SlicePitch(shape, region) + (0 + p[2]) * RowPitch(shape, region) + 0 + p[1]
  BY DEF DeviceSide, Zero
<1>6. DeviceSide(shape, Zero, region)[p] = u + v + 0 + p[1]
  BY <1>2, <1>4, <1>5
<1>7. Index(region, p) = p[1] + v + u
  BY <1>2 DEF Index
<1> QED
  BY <1>1, <1>3, <1>6, <1>7

\* A plain buffer and an image: OpenCL packs from offset 0, CUDA takes the
\* buffer for a row, which it is unless the copy is the known exception.
LEMMA BufferToImageMoves ==
  ASSUME NEW a, Sound(a), Placed(a), Plain(a), a.mtype = "buffer",
         NEW b, Sound(b), Placed(b), b.mtype = "image", Size(a.extent) = Size(b.extent),
         backend \in {"opencl", "cuda", "metal"}, Accepted(a, b, Zero, Zero, a.extent),
         ~(backend = "cuda" /\ (a.extent[2] > 1 \/ a.extent[3] > 1))
  PROVE  DispatchMoves(a, b, Zero, Flat(a), Zero, b.extent, a.extent)
           = {<<ItemSize * a.cells[k], ItemSize * b.cells[k]>> : k \in 1..Size(a.extent)}
<1> DEFINE e == a.extent
<1>1. /\ e \in Triples(Pos) /\ b.extent \in Triples(Pos) /\ ItemSize \in Nat
      /\ e[1] \in Pos /\ e[2] \in Pos /\ e[3] \in Pos
  BY TransferAssumption DEF Sound, Triples
<1>2. Plain(b) /\ backend # "metal"
  BY DEF Placed
<1>3. /\ \A k \in 1..Size(e) : a.cells[k] = k - 1
      /\ \A k \in 1..Size(e) : b.cells[k] = k - 1
  BY <1>2, PlainCells
<1>4. \A p \in Box(e) : /\ a.cells[1 + Index(e, p)] = Index(e, p)
                        /\ b.cells[1 + Index(e, p)] = Index(e, p)
  <2> SUFFICES ASSUME NEW p \in Box(e)
               PROVE  /\ a.cells[1 + Index(e, p)] = Index(e, p)
                      /\ b.cells[1 + Index(e, p)] = Index(e, p)
    OBVIOUS
  <2>1. PICK n : n = Index(e, p)
    OBVIOUS
  <2>2. n \in Nat /\ 1 + n \in 1..Size(e) /\ (1 + n) - 1 = n
    BY <1>1, <2>1, DecodeIndex, SizePositive DEF Pos
  <2> QED
    BY <1>3, <2>1, <2>2
<1>5. CASE backend = "opencl"
  <2> DEFINE from == Packed(PackedOffset(Flat(a), Zero), e)
             to == ImageSide(b.extent, Zero, e)
             index == [p \in Box(e) |-> Index(e, p)]
  <2>1. DispatchMoves(a, b, Zero, Flat(a), Zero, b.extent, e)
          = {<<from[p], ItemSize * to[p]>> : p \in Box(e)}
    BY <1>5 DEF DispatchMoves, BufferToImage
  <2>2. b.extent = e
    <3>1. e[1] <= b.extent[1] /\ e[2] <= b.extent[2] /\ e[3] <= b.extent[3]
      <4>1. \A i \in 1..3 : Zero[i] + e[i] <= b.extent[i]
        BY <1>5 DEF Accepted, InImage
      <4>2. 1 \in 1..3 /\ 2 \in 1..3 /\ 3 \in 1..3
        OBVIOUS
      <4>3. 0 + e[1] <= b.extent[1] /\ 0 + e[2] <= b.extent[2] /\ 0 + e[3] <= b.extent[3]
        BY <4>1, <4>2 DEF Zero
      <4> QED
        BY <1>1, <4>3 DEF Pos
    <3> QED
      BY <1>1, <3>1, SameExtent
  <2>3. PackedOffset(Flat(a), Zero) = 0
    BY DEF PackedOffset, Flat, Zero
  <2>4. ASSUME NEW p \in Box(e)
        PROVE  from[p] = ItemSize * index[p] /\ to[p] = index[p]
    <3>1. Plus(Zero, p) = p
      BY <1>1, BoxTriple, PlusZero
    <3>2. to[p] = index[p]
      BY <2>2, <3>1 DEF ImageSide
    <3>3. ItemSize * Index(e, p) \in Nat
      BY <1>1, DecodeIndex
    <3>4. from[p] = 0 + ItemSize * Index(e, p)
      BY <2>3 DEF Packed
    <3> QED
      BY <3>2, <3>3, <3>4
  <2> HIDE DEF from, to
  <2>5. {<<from[p], ItemSize * to[p]>> : p \in Box(e)} = Wanted(index, index, e)
    BY <2>4 DEF Wanted
  <2>6. {<<ItemSize * a.cells[k], ItemSize * b.cells[k]>> : k \in 1..Size(e)}
          = Wanted(index, index, e)
    <3>1. \A p \in Box(e) : /\ index[p] = a.cells[1 + Index(e, p)]
                            /\ index[p] = b.cells[1 + Index(e, p)]
      BY <1>4
    <3> HIDE DEF index, e
    <3> QED
      BY <1>1, <3>1, PairsInOrder
  <2> QED
    BY <2>1, <2>5, <2>6
<1>6. CASE backend = "cuda"
  <2> DEFINE from == DeviceSide(Flat(a), Zero, e)
             to == DeviceSide(b.extent, Zero, e)
             d == CopyDimensions(Flat(a), b.extent, {Zero, Zero})
  <2>1. DispatchMoves(a, b, Zero, Flat(a), Zero, b.extent, e) = Moved(from, to, d)
    BY <1>6 DEF DispatchMoves
  <2>2. e[2] = 1 /\ e[3] = 1
    BY <1>1, <1>6 DEF Pos
  <2>3. ASSUME NEW p \in Box(e)
        PROVE  p[2] = 0 /\ p[3] = 0
    BY <1>1, <2>2, BoxTriple
  <2>4. ASSUME NEW p \in Box(e), NEW shape \in Triples(Pos)
        PROVE  DeviceSide(shape, Zero, e)[p] = Index(e, p)
    <3>1. p[2] = 0 /\ p[3] = 0
      BY <2>3
    <3>2. RowPitch(shape, e) \in Nat /\ shape[2] \in Nat
      BY <1>1 DEF RowPitch, Triples, Pos
    <3>3. SlicePitch(shape, e) \in Nat
      <4>1. SlicePitch(shape, e) = RowPitch(shape, e) * (IF shape[3] > 1 THEN shape[2] ELSE e[2])
        BY <1>6 DEF SlicePitch
      <4>2. (IF shape[3] > 1 THEN shape[2] ELSE e[2]) \in Nat
        BY <2>2, <3>2
      <4>3. \A m, n \in Nat : m * n \in Nat
        OBVIOUS
      <4> QED
        BY <3>2, <4>1, <4>2, <4>3
    <3>4. /\ 0 * RowPitch(shape, e) = 0 * e[1]
          /\ 0 * SlicePitch(shape, e) = 0 * e[1] * e[2]
      BY <1>1, <3>2, <3>3 DEF Pos
    <3> QED
      BY <1>1, <3>1, <3>4, PackedSide
  <2>5. Flat(a) \in Triples(Pos)
    BY <1>1, SizePositive DEF Flat, Triples, Pos
  <2>6. \A p \in Box(e) : /\ from[p] = a.cells[1 + Index(e, p)]
                          /\ to[p] = b.cells[1 + Index(e, p)]
    BY <1>1, <1>4, <2>4, <2>5
  <2>7. \A q \in Box(e) : \A i \in 2..3 : i > d => q[i] = 0
    <3>1. \A i \in 2..3 : i = 2 \/ i = 3
      OBVIOUS
    <3> QED
      BY <2>3, <3>1
  <2>8. DOMAIN from = Box(e)
    BY DEF DeviceSide
  <2> HIDE DEF from, to, d, e
  <2>9. Moved(from, to, d) = Wanted(from, to, e)
    BY <2>7, <2>8, MovedIsWanted
  <2>10. {<<ItemSize * a.cells[k], ItemSize * b.cells[k]>> : k \in 1..Size(e)}
           = Wanted(from, to, e)
    BY <1>1, <2>6, PairsInOrder
  <2> QED
    BY <2>1, <2>9, <2>10 DEF e
<1> QED
  BY <1>2, <1>5, <1>6

\* An image and a plain buffer: the buffer is packed on every backend.
LEMMA ImageToBufferMoves ==
  ASSUME NEW a, Sound(a), Placed(a), a.mtype = "image",
         NEW b, Sound(b), Placed(b), Plain(b), b.mtype = "buffer",
         Size(a.extent) = Size(b.extent), backend \in {"opencl", "cuda", "metal"}
  PROVE  DispatchMoves(a, b, Zero, a.extent, Zero, Flat(b), a.extent)
           = {<<ItemSize * a.cells[k], ItemSize * b.cells[k]>> : k \in 1..Size(a.extent)}
<1> DEFINE e == a.extent
           cells == CellsOf(a, Zero, e)
           index == [p \in Box(e) |-> Index(e, p)]
<1>1. /\ e \in Triples(Pos) /\ ItemSize \in Nat
      /\ e[1] \in Pos /\ e[2] \in Pos /\ e[3] \in Pos
  BY TransferAssumption DEF Sound, Triples
<1>2. Plain(a) /\ backend # "metal"
  BY DEF Placed
<1>3. \A k \in 1..Size(e) : b.cells[k] = k - 1
  BY PlainCells
<1>4. e \in Regions(a.extent) /\ Zero \in Origins(a.extent, e)
  BY <1>1, WholeRegion
<1>5. \A p \in Box(e) : /\ cells[p] = a.cells[1 + Index(e, p)]
                        /\ index[p] = b.cells[1 + Index(e, p)]
  <2> SUFFICES ASSUME NEW p \in Box(e)
               PROVE  /\ cells[p] = a.cells[1 + Index(e, p)]
                      /\ index[p] = b.cells[1 + Index(e, p)]
    OBVIOUS
  <2>1. PICK n : n = Index(e, p)
    OBVIOUS
  <2>2. n \in Nat /\ 1 + n \in 1..Size(e) /\ (1 + n) - 1 = n
    BY <1>1, <2>1, DecodeIndex, SizePositive DEF Pos
  <2>3. b.cells[1 + n] = n
    BY <1>3, <2>2
  <2> QED
    BY <2>1, <2>3, CellsInOrder
<1>6. DOMAIN cells = Box(e) /\ DOMAIN index = Box(e)
  BY DEF CellsOf
<1>7. {<<ItemSize * a.cells[k], ItemSize * b.cells[k]>> : k \in 1..Size(e)}
        = Wanted(cells, index, e)
  <2> HIDE DEF cells, index, e
  <2> QED
    BY <1>1, <1>5, PairsInOrder
<1>8. CASE backend = "opencl"
  <2> DEFINE to == Packed(PackedOffset(Flat(b), Zero), e)
  <2>1. ImageSide(e, Zero, e) = cells
    BY <1>2, <1>4, ImageSideExact
  <2>2. DispatchMoves(a, b, Zero, e, Zero, Flat(b), e)
          = {<<ItemSize * cells[p], to[p]>> : p \in Box(e)}
    BY <1>8, <2>1 DEF DispatchMoves, ImageToBuffer
  <2>3. PackedOffset(Flat(b), Zero) = 0
    BY DEF PackedOffset, Flat, Zero
  <2>4. ASSUME NEW p \in Box(e)
        PROVE  to[p] = ItemSize * index[p]
    <3>1. ItemSize * Index(e, p) \in Nat
      BY <1>1, DecodeIndex
    <3>2. to[p] = 0 + ItemSize * Index(e, p)
      BY <2>3 DEF Packed
    <3> QED
      BY <3>1, <3>2
  <2> HIDE DEF to, cells, index
  <2>5. {<<ItemSize * cells[p], to[p]>> : p \in Box(e)} = Wanted(cells, index, e)
    BY <2>4 DEF Wanted
  <2> QED
    BY <1>7, <2>2, <2>5
<1>9. CASE backend = "cuda"
  <2> DEFINE to == DeviceSide(Flat(b), Zero, e)
             d == CopyDimensions(e, Flat(b), {Zero, Zero})
  <2>1. Plus(Zero, Zero) = Zero /\ Seated(a, e, Zero) /\ ~TooNarrow(e, e)
    BY <1>1, <1>2, ZeroTriple, PlusZero, PlainSeats, WholeIsNotNarrow
  <2>2. DeviceSide(e, Zero, e) = cells
    BY <1>4, <2>1, DeviceSideExact
  <2>3. DispatchMoves(a, b, Zero, e, Zero, Flat(b), e) = Moved(cells, to, d)
    BY <1>9, <2>2 DEF DispatchMoves
  <2>4. \A q \in Box(e) : \A i \in 2..3 : i > d => q[i] = 0
    <3>1. e[2] <= e[2] /\ e[3] <= e[3]
      BY <1>1 DEF Pos
    <3> QED
      BY <1>1, <3>1, AllDimensions
  <2>5. ASSUME NEW p \in Box(e)
        PROVE  to[p] = index[p]
    <3>1. RowPitch(Flat(b), e) = e[1] /\ SlicePitch(Flat(b), e) = e[1] * e[2]
      BY <1>9 DEF RowPitch, SlicePitch, Flat
    <3>2. p[3] \in Nat /\ e[1] \in Nat /\ e[2] \in Nat
      BY <1>1, BoxTriple DEF Pos
    <3>3. p[3] * (e[1] * e[2]) = p[3] * e[1] * e[2]
      BY <3>2
    <3> QED
      BY <1>1, <3>1, <3>3, PackedSide
  <2> HIDE DEF to, cells, index, d
  <2>6. Moved(cells, to, d) = Wanted(cells, to, e)
    BY <1>6, <2>4, MovedIsWanted
  <2>7. Wanted(cells, to, e) = Wanted(cells, index, e)
    BY <2>5 DEF Wanted
  <2> QED
    BY <1>7, <2>3, <2>6, <2>7
<1> QED
  BY <1>2, <1>8, <1>9

LEMMA CopyToExact ==
  ASSUME PlacedInv, NEW g \in Handles, NEW h \in Handles, CopyTo(g, h)
  PROVE  TransferIsExact'
<1> DEFINE a == arrays[g]
           b == arrays[h]
           e == a.extent
           asked == {<<ItemSize * a.cells[k], ItemSize * b.cells[k]>> : k \in 1..Size(e)}
           plain == Plain(a) /\ Plain(b)
           buffers == a.mtype = "buffer" /\ b.mtype = "buffer"
           refused == \/ Size(e) # Size(b.extent)
                      \/ ~(buffers /\ plain) /\ a.mtype = b.mtype /\ e # b.extent
<1>1. /\ Sound(a) /\ Placed(a) /\ Sound(b) /\ Placed(b)
      /\ backend \in {"opencl", "cuda", "metal"} /\ e \in Triples(Pos)
  BY DEF CopyTo, Separate, Ready, PlacedInv, WindowInv, Sound
<1>2. backend' = backend
  BY DEF CopyTo
<1>3. CASE refused
  BY <1>3, RefuseExact DEF CopyTo
<1>4. CASE ~refused /\ buffers /\ plain
  <2>1. Dispatch("copyTo", a, b, Zero, Flat(a), Zero, Flat(b), Flat(a), asked)
    BY <1>4 DEF CopyTo, Flat
  <2>2. DispatchMoves(a, b, Zero, Flat(a), Zero, Flat(b), Flat(a)) = asked
    BY <1>1, <1>4, PlainCopyMoves
  <2> HIDE DEF asked
  <2> QED
    BY <1>2, <2>1, <2>2, DispatchExact
<1>5. CASE ~refused /\ buffers /\ ~plain /\ Fits(a) /\ Fits(b)
  <2> DEFINE from == LayoutOf(a)
             to == LayoutOf(b)
  <2>1. Dispatch("copyTo", a, b, from.origin, from.shape, to.origin, to.shape, e, asked)
    BY <1>5 DEF CopyTo
  <2>2. Seated(a, from.shape, from.origin) /\ Seated(b, to.shape, to.origin)
    BY <1>1, <1>5, LayoutSeats
  <2>3. Plus(from.origin, Zero) = from.origin /\ Plus(to.origin, Zero) = to.origin
    BY <2>2, ZeroPlus DEF Seated
  <2>4. b.extent = e
    BY <1>5
  <2>5. /\ e \in Regions(a.extent) \cap Regions(b.extent)
        /\ Zero \in Origins(a.extent, e) /\ Zero \in Origins(b.extent, e)
    BY <1>1, <2>4, WholeRegion
  <2>6. Wanted(CellsOf(a, Zero, e), CellsOf(b, Zero, e), e) = asked
    BY <1>1, <2>4, WholeCopyWanted
  <2>7. ASSUME ~TooNarrow(from.shape, e), ~TooNarrow(to.shape, e)
        PROVE  DispatchMoves(a, b, from.origin, from.shape, to.origin, to.shape, e) = asked
    <3>1. DispatchMoves(a, b, Plus(from.origin, Zero), from.shape,
                        Plus(to.origin, Zero), to.shape, e)
            = Wanted(CellsOf(a, Zero, e), CellsOf(b, Zero, e), e)
      BY <1>1, <1>5, <2>2, <2>5, <2>7, DevicePairMoves
    <3> QED
      BY <2>3, <2>6, <3>1
  <2> HIDE DEF asked, from, to, e
  <2> QED
    BY <1>2, <2>1, <2>7, DispatchExact
<1>6. CASE ~refused /\ buffers /\ ~plain /\ ~(Fits(a) /\ Fits(b))
  BY <1>6, RefuseExact DEF CopyTo
<1>7. CASE ~refused /\ a.mtype = "image" /\ b.mtype = "image"
  <2>1. Dispatch("copyTo", a, b, Zero, e, Zero, b.extent, e, asked)
    BY <1>7 DEF CopyTo
  <2>2. b.extent = e
    BY <1>7
  <2>3. Seated(a, e, Zero) /\ Seated(b, e, Zero)
    BY <1>1, <1>7, <2>2, PlainSeats DEF Placed
  <2>4. /\ e \in Regions(a.extent) \cap Regions(b.extent)
        /\ Zero \in Origins(a.extent, e) /\ Zero \in Origins(b.extent, e)
    BY <1>1, <2>2, WholeRegion
  <2>5. Plus(Zero, Zero) = Zero /\ ~TooNarrow(e, e)
    BY <1>1, ZeroTriple, PlusZero, WholeIsNotNarrow
  <2>6. DispatchMoves(a, b, Plus(Zero, Zero), e, Plus(Zero, Zero), e, e)
          = Wanted(CellsOf(a, Zero, e), CellsOf(b, Zero, e), e)
    BY <1>1, <1>7, <2>3, <2>4, <2>5, DevicePairMoves
  <2>7. Wanted(CellsOf(a, Zero, e), CellsOf(b, Zero, e), e) = asked
    BY <1>1, <2>2, WholeCopyWanted
  <2>8. DispatchMoves(a, b, Zero, e, Zero, b.extent, e) = asked
    BY <2>2, <2>5, <2>6, <2>7
  <2> HIDE DEF asked, e
  <2> QED
    BY <1>2, <2>1, <2>8, DispatchExact
<1>8. CASE ~refused /\ a.mtype = "buffer" /\ b.mtype = "image"
  <2>1. Dispatch("copyTo", a, b, Zero, Flat(a), Zero, b.extent, e, asked)
    BY <1>8 DEF CopyTo, Flat
  <2>2. ASSUME Accepted(a, b, Zero, Zero, e), ~(backend = "cuda" /\ (e[2] > 1 \/ e[3] > 1))
        PROVE  DispatchMoves(a, b, Zero, Flat(a), Zero, b.extent, e) = asked
    <3>1. Plain(a)
      BY <1>8, <2>2 DEF Accepted
    <3> QED
      BY <1>1, <1>8, <2>2, <3>1, BufferToImageMoves
  <2> HIDE DEF asked, e
  <2> QED
    BY <1>2, <1>8, <2>1, <2>2, DispatchExact
<1>9. CASE ~refused /\ a.mtype = "image" /\ b.mtype = "buffer"
  <2>1. Dispatch("copyTo", a, b, Zero, e, Zero, Flat(b), e, asked)
    BY <1>9 DEF CopyTo, Flat
  <2>2. ASSUME Accepted(a, b, Zero, Zero, e)
        PROVE  DispatchMoves(a, b, Zero, e, Zero, Flat(b), e) = asked
    <3>1. Plain(b)
      BY <1>9, <2>2 DEF Accepted
    <3> QED
      BY <1>1, <1>9, <3>1, ImageToBufferMoves
  <2> HIDE DEF asked, e
  <2> QED
    BY <1>2, <2>1, <2>2, DispatchExact
<1>10. a.mtype \in {"buffer", "image"} /\ b.mtype \in {"buffer", "image"}
  BY <1>1 DEF Placed
<1> QED
  BY <1>3, <1>4, <1>5, <1>6, <1>7, <1>8, <1>9, <1>10

----------------------------------------------------------------------------
\* For buffers and images of any extent, windows of windows of any buffer
\* and any regions in them, on every backend: a transfer that is not refused
\* moves exactly the elements it was asked to, each to its place, but for
\* the three cases of rows, packed regions and single rows.
THEOREM TransferAlwaysExact == Spec => []TransferIsExact
<1>1. Init => TransferIsExact
  BY DEF Init, Nothing, TransferIsExact
<1>2. PlacedInv /\ TransferIsExact /\ [Next]_transferVars => TransferIsExact'
  <2> SUFFICES ASSUME PlacedInv, TransferIsExact, [Next]_transferVars
               PROVE  TransferIsExact'
    OBVIOUS
  <2>1. ASSUME NEW h \in Handles, Transfer(h)
        PROVE  TransferIsExact'
    BY <2>1, FillExact, ReadToExact, WriteFromExact DEF Transfer
  <2>2. ASSUME NEW g \in Handles, NEW h \in Handles, Copy(g, h)
        PROVE  TransferIsExact'
    BY <2>2, CopyToExact, CopyRegionExact DEF Copy
  \* Making an array and returning from a call move nothing.
  <2>3. CASE UNCHANGED <<backend, last>>
    BY <2>3 DEF TransferIsExact, NarrowRows, PackedRegion, SingleRow
  <2>4. CASE Return
    BY <2>4 DEF Return, Nothing, TransferIsExact
  <2>5. ASSUME NEW h \in Handles, NEW extent \in Extents, NEW mtype \in {"buffer", "image"},
               Create(h, extent, mtype)
        PROVE  UNCHANGED <<backend, last>>
    BY <2>5 DEF Create
  <2>6. ASSUME NEW h \in Handles, NEW g \in Handles, Shape(h, g)
        PROVE  UNCHANGED <<backend, last>>
    BY <2>6 DEF Shape, ShallowCopy, View, Reshape
  <2>7. CASE UNCHANGED transferVars
    BY <2>3, <2>7 DEF transferVars
  <2> QED
    BY <2>1, <2>2, <2>3, <2>4, <2>5, <2>6, <2>7 DEF Next
<1> QED
  BY <1>1, <1>2, PlacedInit, PlacedStep, PTL DEF Spec

----------------------------------------------------------------------------
\* Transfers move between addresses, also where they are not exact.
Side(side, region) == \A p \in Box(region) : side[p] \in Nat

LEMMA PairsAreAddresses ==
  ASSUME NEW region, NEW from, Side(from, region), NEW to, Side(to, region), NEW d,
         DOMAIN from = Box(region)
  PROVE  /\ Moved(from, to, d) \subseteq Nat \X Nat
         /\ Wanted(from, to, region) \subseteq Nat \X Nat
<1>1. \A n \in Nat : ItemSize * n \in Nat
  BY TransferAssumption
<1>2. \A p \in Box(region) : <<ItemSize * from[p], ItemSize * to[p]>> \in Nat \X Nat
  BY <1>1 DEF Side
<1> QED
  BY <1>2 DEF Moved, Wanted

LEMMA NatProduct == \A m, n \in Nat : m * n \in Nat
OBVIOUS

LEMMA DeviceSideAddresses ==
  ASSUME NEW shape \in Triples(Nat), NEW origin \in Triples(Nat), NEW region \in Triples(Pos),
         backend \in {"opencl", "cuda", "metal"}
  PROVE  Side(DeviceSide(shape, origin, region), region)
<1>1. /\ shape[1] \in Nat /\ shape[2] \in Nat /\ shape[3] \in Nat
      /\ origin[1] \in Nat /\ origin[2] \in Nat /\ origin[3] \in Nat
      /\ region[1] \in Nat /\ region[2] \in Nat /\ region[3] \in Nat
  BY DEF Triples, Pos
<1>2. RowPitch(shape, region) \in Nat
  BY <1>1 DEF RowPitch
<1>3. SlicePitch(shape, region) \in Nat
  <2>1. /\ shape[1] * shape[2] \in Nat /\ region[2] * RowPitch(shape, region) \in Nat
        /\ RowPitch(shape, region) * shape[2] \in Nat
        /\ RowPitch(shape, region) * region[2] \in Nat
    BY <1>1, <1>2, NatProduct
  <2> HIDE DEF RowPitch
  <2> QED
    BY <2>1 DEF SlicePitch
<1> SUFFICES ASSUME NEW p \in Box(region)
             PROVE  DeviceSide(shape, origin, region)[p] \in Nat
  BY DEF Side
<1>4. /\ origin[1] + p[1] \in Nat /\ origin[2] + p[2] \in Nat /\ origin[3] + p[3] \in Nat
      /\ p[1] \in Nat
  BY <1>1, BoxTriple
<1>5. /\ (origin[3] + p[3]) * SlicePitch(shape, region) \in Nat
      /\ (origin[2] + p[2]) * RowPitch(shape, region) \in Nat
  BY <1>2, <1>3, <1>4, NatProduct
<1> QED
  BY <1>1, <1>4, <1>5 DEF DeviceSide

LEMMA IndexIsNat ==
  ASSUME NEW e \in Triples(Nat), NEW p \in Triples(Nat)
  PROVE  Index(e, p) \in Nat
<1>1. /\ e[1] \in Nat /\ e[2] \in Nat
      /\ p[1] \in Nat /\ p[2] \in Nat /\ p[3] \in Nat
  BY DEF Triples
<1>2. p[2] * e[1] \in Nat /\ p[3] * e[1] \in Nat /\ p[3] * e[1] * e[2] \in Nat
  BY <1>1, NatProduct
<1> QED
  BY <1>1, <1>2 DEF Index

LEMMA PlusIsTriple ==
  ASSUME NEW s \in Triples(Nat), NEW t \in Triples(Nat)
  PROVE  Plus(s, t) \in Triples(Nat)
BY DEF Plus, Triples

LEMMA PosAreNat == Triples(Pos) \subseteq Triples(Nat)
BY DEF Triples, Pos

\* The other ends: the host, images, packed regions and the array itself.
LEMMA OtherSideAddresses ==
  ASSUME NEW e \in Triples(Nat), NEW region \in Triples(Pos), NEW origin \in Triples(Nat)
  PROVE  /\ Side(HostSide(region), region)
         /\ Side(ImageSide(e, origin, region), region)
         /\ Side(Packed(PackedOffset(e, origin), region), region)
<1>1. ASSUME NEW p \in Box(region)
      PROVE  p \in Triples(Nat) /\ Index(region, p) \in Nat
  BY <1>1, BoxTriple, PosAreNat, IndexIsNat
<1>2. /\ e[1] \in Nat /\ e[2] \in Nat /\ e[3] \in Nat
      /\ origin[1] \in Nat /\ origin[2] \in Nat /\ origin[3] \in Nat
  BY DEF Triples
<1>3. PackedOffset(e, origin) \in Nat
  <2>1. origin[2] * e[1] \in Nat /\ origin[3] * e[1] \in Nat /\ origin[3] * e[1] * e[2] \in Nat
    BY <1>2, NatProduct
  <2> QED
    BY <1>2, <2>1 DEF PackedOffset
<1>4. \A p \in Box(region) : ItemSize * Index(region, p) \in Nat
  BY <1>1, TransferAssumption, NatProduct
<1>5. Side(HostSide(region), region)
  BY <1>1 DEF Side, HostSide
<1>6. Side(ImageSide(e, origin, region), region)
  BY <1>1, PlusIsTriple, IndexIsNat DEF Side, ImageSide
<1>7. Side(Packed(PackedOffset(e, origin), region), region)
  BY <1>3, <1>4 DEF Side, Packed
<1> QED
  BY <1>5, <1>6, <1>7

LEMMA CellsAreAddresses ==
  ASSUME NEW a, Sound(a), Placed(a),
         NEW region \in Regions(a.extent), NEW origin \in Origins(a.extent, region)
  PROVE  /\ Side(CellsOf(a, origin, region), region)
         /\ DOMAIN CellsOf(a, origin, region) = Box(region)
<1> SUFFICES ASSUME NEW p \in Box(region)
             PROVE  CellsOf(a, origin, region)[p] \in Nat
  BY DEF Side, CellsOf
<1>1. Plus(origin, p) \in Box(a.extent)
  BY PlusInBox DEF Sound
<1>2. PICK n : n = 1 + Index(a.extent, Plus(origin, p))
  OBVIOUS
<1>3. n \in 1..Size(a.extent)
  BY <1>1, <1>2, DecodeIndex, SizePositive DEF Sound, Pos
<1>4. a.cells[n] \in Nat
  BY <1>3 DEF Placed
<1> QED
  BY <1>2, <1>4 DEF CellsOf, Cell

\* The last transfer, reported or refused.
LastTyped ==
  /\ last.status \in {"none", "done", "layout", "refused", "driver"}
  /\ last.moved \subseteq Nat \X Nat /\ last.wanted \subseteq Nat \X Nat

LEMMA ReportTyped ==
  ASSUME NEW call, NEW ends, NEW shapes, NEW region, NEW moved, NEW wanted,
         Report(call, ends, shapes, region, moved, wanted),
         moved \subseteq Nat \X Nat, wanted \subseteq Nat \X Nat
  PROVE  LastTyped'
BY DEF Report, LastTyped

LEMMA RefuseTyped ==
  ASSUME NEW call, NEW why \in {"layout", "refused", "driver"}, Refuse(call, why)
  PROVE  LastTyped'
BY DEF Refuse, LastTyped

\* What dispatchCopy moves, whatever it is asked.
LEMMA DispatchTyped ==
  ASSUME NEW call, NEW a, Sound(a), NEW b, Sound(b),
         NEW sorigin \in Triples(Nat), NEW sshape \in Triples(Nat),
         NEW dorigin \in Triples(Nat), NEW dshape \in Triples(Nat),
         NEW region \in Triples(Pos), NEW asked, asked \subseteq Nat \X Nat,
         backend \in {"opencl", "cuda", "metal"},
         Dispatch(call, a, b, sorigin, sshape, dorigin, dshape, region, asked)
  PROVE  LastTyped'
<1> DEFINE moved == DispatchMoves(a, b, sorigin, sshape, dorigin, dshape, region)
           sside == DeviceSide(sshape, sorigin, region)
           dside == DeviceSide(dshape, dorigin, region)
           simage == ImageSide(a.extent, sorigin, region)
           dimage == ImageSide(b.extent, dorigin, region)
           spacked == Packed(PackedOffset(sshape, sorigin), region)
           dpacked == Packed(PackedOffset(dshape, sorigin), region)
<1>1. a.extent \in Triples(Nat) /\ b.extent \in Triples(Nat)
  BY PosAreNat DEF Sound
<1>2. /\ Side(sside, region) /\ Side(dside, region)
      /\ Side(simage, region) /\ Side(dimage, region)
      /\ Side(spacked, region) /\ Side(dpacked, region)
  BY <1>1, DeviceSideAddresses, OtherSideAddresses
<1>3. DOMAIN sside = Box(region) /\ DOMAIN simage = Box(region)
  BY DEF DeviceSide, ImageSide
<1>4. \A n \in Nat : ItemSize * n \in Nat
  BY TransferAssumption
<1>5. BufferToImage(b, sshape, sorigin, dorigin, region) \subseteq Nat \X Nat
  BY <1>2, <1>4 DEF BufferToImage, Side
<1>6. ImageToBuffer(a, sorigin, dshape, region) \subseteq Nat \X Nat
  BY <1>2, <1>4 DEF ImageToBuffer, Side
<1>7. Moved(simage, dimage, 3) \subseteq Nat \X Nat
  BY <1>2, <1>3, PairsAreAddresses
<1>8. Moved(sside, dside, CopyDimensions(sshape, dshape, {sorigin, dorigin})) \subseteq Nat \X Nat
  BY <1>2, <1>3, PairsAreAddresses
<1>9. moved \subseteq Nat \X Nat
  <2> HIDE DEF sside, dside, simage, dimage
  <2> QED
    BY <1>5, <1>6, <1>7, <1>8 DEF DispatchMoves, sside, dside, simage, dimage
<1>10. CASE Accepted(a, b, sorigin, dorigin, region)
  <2>1. Report(call, <<a.mtype, b.mtype>>, {sshape, dshape}, region, moved, asked)
    BY <1>10 DEF Dispatch, Accepted, DispatchMoves
  <2> HIDE DEF moved
  <2> QED
    BY <1>9, <2>1, ReportTyped
<1>11. CASE ~Accepted(a, b, sorigin, dorigin, region)
  <2>1. Refuse(call, "refused") \/ Refuse(call, "driver")
    BY <1>11 DEF Dispatch, Accepted
  <2> QED
    BY <2>1, RefuseTyped
<1> QED
  BY <1>10, <1>11

LEMMA HostTransferTyped ==
  ASSUME NEW a, Sound(a), Placed(a), Fits(a), backend \in {"opencl", "cuda", "metal"},
         NEW region \in Regions(a.extent), NEW origin \in Origins(a.extent, region),
         NEW host, DOMAIN host = Box(region), Side(host, region)
  PROVE  LET device == HostTransfer(a, origin, region)
             cells == CellsOf(a, origin, region)
         IN  /\ Moved(device.side, host, device.dimensions) \subseteq Nat \X Nat
             /\ Moved(host, device.side, device.dimensions) \subseteq Nat \X Nat
             /\ Wanted(cells, host, region) \subseteq Nat \X Nat
             /\ Wanted(host, cells, region) \subseteq Nat \X Nat
<1> DEFINE layout == LayoutOf(a)
           place == Plus(layout.origin, origin)
           device == HostTransfer(a, origin, region)
           cells == CellsOf(a, origin, region)
<1>1. layout.shape \in Triples(Pos) /\ layout.origin \in Triples(Nat)
  BY LayoutSeats DEF Seated
<1>2. region \in Triples(Pos) /\ origin \in Triples(Nat)
  BY RegionTriple DEF Sound
<1>3. place \in Triples(Nat) /\ layout.shape \in Triples(Nat) /\ a.extent \in Triples(Nat)
  BY <1>1, <1>2, PlusIsTriple, PosAreNat DEF Sound
<1>4. /\ Side(DeviceSide(layout.shape, place, region), region)
      /\ Side(ImageSide(a.extent, origin, region), region)
  BY <1>2, <1>3, DeviceSideAddresses, OtherSideAddresses
<1>5. Side(device.side, region) /\ DOMAIN device.side = Box(region)
  <2>1. \/ device.side = DeviceSide(layout.shape, place, region)
        \/ device.side = ImageSide(a.extent, origin, region)
    BY DEF HostTransfer
  <2> QED
    BY <1>4, <2>1 DEF DeviceSide, ImageSide
<1>6. Side(cells, region) /\ DOMAIN cells = Box(region)
  BY CellsAreAddresses
<1> HIDE DEF device, cells
<1>7. /\ Moved(device.side, host, device.dimensions) \subseteq Nat \X Nat
      /\ Moved(host, device.side, device.dimensions) \subseteq Nat \X Nat
      /\ Wanted(cells, host, region) \subseteq Nat \X Nat
      /\ Wanted(host, cells, region) \subseteq Nat \X Nat
  BY <1>5, <1>6, PairsAreAddresses
<1> QED
  BY <1>7 DEF device, cells

LEMMA TransferTyped ==
  ASSUME PlacedInv, NEW h \in Handles, Transfer(h)
  PROVE  LastTyped'
<1> DEFINE a == arrays[h]
<1>1. Sound(a) /\ Placed(a) /\ backend \in {"opencl", "cuda", "metal"}
  BY DEF Transfer, Fill, Ready, PlacedInv, WindowInv
<1>2. ASSUME NEW region \in Regions(a.extent), NEW origin \in Origins(a.extent, region),
             ReadTo(h, region, origin) \/ WriteFrom(h, region, origin)
      PROVE  LastTyped'
  <2> DEFINE host == HostSide(region)
  <2>1. DOMAIN host = Box(region) /\ Side(host, region)
    BY <1>1, RegionTriple, OtherSideAddresses, ZeroTriple DEF HostSide, Sound
  <2> HIDE DEF host
  <2>2. CASE Fits(a)
    <3> DEFINE device == HostTransfer(a, origin, region)
               cells == CellsOf(a, origin, region)
    <3>1. /\ Moved(device.side, host, device.dimensions) \subseteq Nat \X Nat
          /\ Moved(host, device.side, device.dimensions) \subseteq Nat \X Nat
          /\ Wanted(cells, host, region) \subseteq Nat \X Nat
          /\ Wanted(host, cells, region) \subseteq Nat \X Nat
      BY <1>1, <2>1, <2>2, HostTransferTyped
    <3>2. \/ Report("readTo", <<a.mtype>>, {device.shape}, region,
                    Moved(device.side, host, device.dimensions), Wanted(cells, host, region))
          \/ Report("writeFrom", <<a.mtype>>, {device.shape}, region,
                    Moved(host, device.side, device.dimensions), Wanted(host, cells, region))
      BY <1>2, <2>2 DEF ReadTo, WriteFrom, host
    <3> HIDE DEF device, cells
    <3> QED
      BY <3>1, <3>2, ReportTyped
  <2>3. CASE ~Fits(a)
    <3>1. Refuse("readTo", "layout") \/ Refuse("writeFrom", "layout")
      BY <1>2, <2>3 DEF ReadTo, WriteFrom
    <3> QED
      BY <3>1, RefuseTyped
  <2> QED
    BY <2>2, <2>3
<1>3. ASSUME Fill(h)
      PROVE  LastTyped'
  <2> DEFINE e == a.extent
             value == [p \in Box(e) |-> 0]
             device == HostTransfer(a, Zero, e)
             moved == Moved(value, device.side, device.dimensions)
             packed == {<<0, ItemSize * k>> : k \in 0..Size(e) - 1}
             asked == Wanted(value, CellsOf(a, Zero, e), e)
  <2>1. e \in Triples(Pos) /\ e \in Regions(a.extent) /\ Zero \in Origins(a.extent, e)
    BY <1>1, WholeRegion DEF Sound
  <2>2. DOMAIN value = Box(e) /\ Side(value, e)
    BY DEF Side
  <2>3. asked \subseteq Nat \X Nat
    <3> DEFINE cells == CellsOf(a, Zero, e)
    <3>1. Side(cells, e)
      BY <1>1, <2>1, CellsAreAddresses
    <3> HIDE DEF cells, value
    <3>2. Wanted(value, cells, e) \subseteq Nat \X Nat
      BY <2>2, <3>1, PairsAreAddresses
    <3> QED
      BY <3>2 DEF cells
  <2>4. packed \subseteq Nat \X Nat
    <3>1. \A n \in Nat : ItemSize * n \in Nat
      BY TransferAssumption
    <3>2. \A k \in 0..Size(e) - 1 : k \in Nat
      BY <2>1, SizePositive DEF Pos
    <3> QED
      BY <3>1, <3>2
  <2>5. Fits(a) => moved \subseteq Nat \X Nat
    <3> HIDE DEF value
    <3> QED
      BY <1>1, <2>1, <2>2, HostTransferTyped
  <2>6. \/ Refuse("fill", "layout")
        \/ Fits(a) /\ Report("fill", <<a.mtype>>, {device.shape}, e, moved, asked)
        \/ Report("fill", <<a.mtype>>, {device.shape}, e, packed, asked)
    BY <1>3 DEF Fill
  <2> HIDE DEF moved, packed, asked, device
  <2> QED
    BY <2>3, <2>4, <2>5, <2>6, RefuseTyped, ReportTyped
<1> QED
  BY <1>2, <1>3 DEF Transfer

LEMMA CopyTyped ==
  ASSUME PlacedInv, NEW g \in Handles, NEW h \in Handles, Copy(g, h)
  PROVE  LastTyped'
<1> DEFINE a == arrays[g]
           b == arrays[h]
           e == a.extent
<1>1. /\ Sound(a) /\ Placed(a) /\ Sound(b) /\ Placed(b)
      /\ backend \in {"opencl", "cuda", "metal"}
      /\ e \in Triples(Pos) /\ b.extent \in Triples(Pos)
  BY DEF Copy, CopyTo, Separate, Ready, PlacedInv, WindowInv, Sound
<1>2. /\ e \in Triples(Nat) /\ b.extent \in Triples(Nat) /\ Zero \in Triples(Nat)
      /\ Flat(a) \in Triples(Pos) /\ Flat(a) \in Triples(Nat) /\ Flat(b) \in Triples(Nat)
  <2>1. Size(e) \in Pos /\ Size(b.extent) \in Pos
    BY <1>1, SizePositive
  <2>2. Flat(a) \in Triples(Pos) /\ Flat(b) \in Triples(Pos)
    BY <2>1 DEF Flat, Triples, Pos
  <2> QED
    BY <1>1, <2>2, PosAreNat, ZeroTriple
<1>3. /\ Fits(a) => LayoutOf(a).shape \in Triples(Nat) /\ LayoutOf(a).origin \in Triples(Nat)
      /\ Fits(b) => LayoutOf(b).shape \in Triples(Nat) /\ LayoutOf(b).origin \in Triples(Nat)
  BY <1>1, LayoutSeats, PosAreNat DEF Seated
<1>4. ASSUME CopyTo(g, h)
      PROVE  LastTyped'
  <2> DEFINE asked == {<<ItemSize * a.cells[k], ItemSize * b.cells[k]>> : k \in 1..Size(e)}
  <2>1. CASE Size(e) # Size(b.extent)
    <3>1. Refuse("copyTo", "refused")
      BY <1>4, <2>1 DEF CopyTo
    <3> QED
      BY <3>1, RefuseTyped
  <2>2. CASE Size(e) = Size(b.extent)
    <3>1. asked \subseteq Nat \X Nat
      <4>1. \A k \in 1..Size(e) : a.cells[k] \in Nat /\ b.cells[k] \in Nat
        BY <1>1, <2>2 DEF Placed
      <4>2. \A n \in Nat : ItemSize * n \in Nat
        BY TransferAssumption
      <4> QED
        BY <4>1, <4>2
    <3>2. \/ Refuse("copyTo", "refused") \/ Refuse("copyTo", "layout")
          \/ Dispatch("copyTo", a, b, Zero, Flat(a), Zero, Flat(b), Flat(a), asked)
          \/ Fits(a) /\ Fits(b)
             /\ Dispatch("copyTo", a, b, LayoutOf(a).origin, LayoutOf(a).shape,
                         LayoutOf(b).origin, LayoutOf(b).shape, e, asked)
          \/ \E s \in {e, Flat(a)}, t \in {b.extent, Flat(b)} :
               Dispatch("copyTo", a, b, Zero, s, Zero, t, e, asked)
      BY <1>4 DEF CopyTo, Flat
    <3> HIDE DEF asked, a, b
    <3>3. CASE Dispatch("copyTo", a, b, Zero, Flat(a), Zero, Flat(b), Flat(a), asked)
      BY <1>1, <1>2, <3>1, <3>3, DispatchTyped
    <3>4. CASE Fits(a) /\ Fits(b)
               /\ Dispatch("copyTo", a, b, LayoutOf(a).origin, LayoutOf(a).shape,
                           LayoutOf(b).origin, LayoutOf(b).shape, e, asked)
      BY <1>1, <1>3, <3>1, <3>4, DispatchTyped
    <3>5. ASSUME NEW s \in {e, Flat(a)}, NEW t \in {b.extent, Flat(b)},
                 Dispatch("copyTo", a, b, Zero, s, Zero, t, e, asked)
          PROVE  LastTyped'
      <4>1. s \in Triples(Nat) /\ t \in Triples(Nat)
        BY <1>2
      <4> QED
        BY <1>1, <1>2, <3>1, <3>5, <4>1, DispatchTyped
    <3> QED
      BY <3>2, <3>3, <3>4, <3>5, RefuseTyped
  <2> QED
    BY <2>1, <2>2
<1>5. ASSUME NEW region \in Regions(e) \cap Regions(b.extent),
             NEW sorigin \in Origins(e, region), NEW dorigin \in Origins(b.extent, region),
             CopyRegion(g, h, region, sorigin, dorigin)
      PROVE  LastTyped'
  <2> DEFINE from == CellsOf(a, sorigin, region)
             to == CellsOf(b, dorigin, region)
             asked == Wanted(from, to, region)
  <2>1. region \in Triples(Pos) /\ sorigin \in Triples(Nat) /\ dorigin \in Triples(Nat)
    BY <1>1, RegionTriple
  <2>2. asked \subseteq Nat \X Nat
    <3>1. Side(from, region) /\ Side(to, region) /\ DOMAIN from = Box(region)
      BY <1>1, CellsAreAddresses
    <3> HIDE DEF from, to
    <3> QED
      BY <3>1, PairsAreAddresses
  <2>3. \/ Refuse("copyRegion", "layout")
        \/ Dispatch("copyRegion", a, b, sorigin, e, dorigin, b.extent, region, asked)
        \/ Fits(a) /\ Fits(b)
           /\ Dispatch("copyRegion", a, b, Plus(LayoutOf(a).origin, sorigin), LayoutOf(a).shape,
                       Plus(LayoutOf(b).origin, dorigin), LayoutOf(b).shape, region, asked)
    BY <1>5 DEF CopyRegion
  <2> HIDE DEF asked, a, b
  <2>4. CASE Dispatch("copyRegion", a, b, sorigin, e, dorigin, b.extent, region, asked)
    BY <1>1, <1>2, <2>1, <2>2, <2>4, DispatchTyped
  <2>5. CASE Fits(a) /\ Fits(b)
             /\ Dispatch("copyRegion", a, b, Plus(LayoutOf(a).origin, sorigin),
                         LayoutOf(a).shape, Plus(LayoutOf(b).origin, dorigin),
                         LayoutOf(b).shape, region, asked)
    <3>1. /\ Plus(LayoutOf(a).origin, sorigin) \in Triples(Nat)
          /\ Plus(LayoutOf(b).origin, dorigin) \in Triples(Nat)
      BY <1>3, <2>1, <2>5, PlusIsTriple
    <3> QED
      BY <1>1, <1>3, <2>1, <2>2, <2>5, <3>1, DispatchTyped
  <2> QED
    BY <2>3, <2>4, <2>5, RefuseTyped
<1> QED
  BY <1>4, <1>5 DEF Copy

\* Every array has memory of its own or shares that of another.
MemoryTyped == \A h \in Handles : Live(h) => arrays[h].memory \in Memories

LEMMA MemoryStep == PlacedInv /\ MemoryTyped /\ [Next]_transferVars => MemoryTyped'
<1> SUFFICES ASSUME PlacedInv, MemoryTyped, [Next]_transferVars PROVE MemoryTyped'
  OBVIOUS
<1>0. \A h \in Handles : Live(h) => ArrayRecord(arrays[h])
  BY DEF PlacedInv, WindowInv, Sound
<1>1. ASSUME NEW h \in Handles, NEW a, arrays' = [arrays EXCEPT ![h] = a],
             a.memory \in Memories
      PROVE  MemoryTyped'
  BY <1>1 DEF MemoryTyped, Live, PlacedInv, WindowInv
<1>2. ASSUME NEW h \in Handles, NEW e \in Extents, NEW mtype \in {"buffer", "image"},
             Create(h, e, mtype)
      PROVE  MemoryTyped'
  <2>1. PICK m \in Memories :
          arrays' = [arrays EXCEPT ![h] =
            [extent |-> e, strides |-> Dense(e), offset |-> 0, mtype |-> mtype,
             memory |-> m, cells |-> [k \in 1..Size(e) |-> k - 1], folded |-> FALSE]]
    BY <1>2 DEF Create
  <2> DEFINE a == [extent |-> e, strides |-> Dense(e), offset |-> 0, mtype |-> mtype,
                   memory |-> m, cells |-> [k \in 1..Size(e) |-> k - 1], folded |-> FALSE]
  <2>2. a.memory \in Memories
    OBVIOUS
  <2> HIDE DEF a
  <2>3. arrays' = [arrays EXCEPT ![h] = a]
    BY <2>1 DEF a
  <2> QED
    BY <1>1, <2>2, <2>3
<1>3. ASSUME NEW h \in Handles, NEW g \in Handles, Shape(h, g)
      PROVE  MemoryTyped'
  <2>1. arrays[g].memory \in Memories /\ ArrayRecord(arrays[g])
    BY <1>0, <1>3 DEF MemoryTyped, Shape, ShallowCopy, Reshape, Ready
  <2>2. PICK a : arrays' = [arrays EXCEPT ![h] = a] /\ a.memory = arrays[g].memory
    <3>1. CASE ShallowCopy(h, g)
      BY <3>1 DEF ShallowCopy
    <3>2. ASSUME NEW e, Reshape(h, g, e)
          PROVE  \E a : arrays' = [arrays EXCEPT ![h] = a] /\ a.memory = arrays[g].memory
      <4>1. PICK s, f : arrays' = [arrays EXCEPT ![h] = [arrays[g] EXCEPT !.extent = e,
                                                          !.strides = s, !.folded = f]]
        BY <3>2 DEF Reshape
      <4> DEFINE b == [arrays[g] EXCEPT !.extent = e, !.strides = s, !.folded = f]
      <4>2. b.memory = arrays[g].memory
        BY <2>1 DEF ArrayRecord
      <4>3. arrays' = [arrays EXCEPT ![h] = b]
        BY <4>1
      <4> HIDE DEF b
      <4> QED
        BY <4>2, <4>3
    <3>3. ASSUME NEW origin, NEW region, View(h, g, origin, region)
          PROVE  \E a : arrays' = [arrays EXCEPT ![h] = a] /\ a.memory = arrays[g].memory
      <4>1. PICK n, c : arrays' = [arrays EXCEPT ![h] = [arrays[g] EXCEPT !.extent = region,
                                                          !.offset = n, !.cells = c]]
        BY <3>3 DEF View
      <4> DEFINE b == [arrays[g] EXCEPT !.extent = region, !.offset = n, !.cells = c]
      <4>2. b.memory = arrays[g].memory
        BY <2>1 DEF ArrayRecord
      <4>3. arrays' = [arrays EXCEPT ![h] = b]
        BY <4>1
      <4> HIDE DEF b
      <4> QED
        BY <4>2, <4>3
    <3> QED
      BY <1>3, <3>1, <3>2, <3>3 DEF Shape
  <2> QED
    BY <1>1, <2>1, <2>2
<1>4. CASE UNCHANGED arrays
  BY <1>4 DEF MemoryTyped, Live
<1> QED
  BY <1>2, <1>3, <1>4, TransfersKeepArrays DEF Next, Return, transferVars

\* Every variable has its type: extents and strides are never zero, an array
\* knows exactly as many elements as its extent has, and only addresses are
\* ever moved.
THEOREM TransferTypesOK == Spec => []TypeOK
<1>1. Init => LastTyped /\ MemoryTyped
  BY DEF Init, Nothing, LastTyped, MemoryTyped, Live
<1>2. PlacedInv /\ LastTyped /\ [Next]_transferVars => LastTyped'
  <2> SUFFICES ASSUME PlacedInv, LastTyped, [Next]_transferVars PROVE LastTyped'
    OBVIOUS
  <2>1. ASSUME NEW h \in Handles, Transfer(h)
        PROVE  LastTyped'
    BY <2>1, TransferTyped
  <2>2. ASSUME NEW g \in Handles, NEW h \in Handles, Copy(g, h)
        PROVE  LastTyped'
    BY <2>2, CopyTyped
  <2>3. CASE UNCHANGED last
    BY <2>3 DEF LastTyped
  <2>4. CASE Return
    BY <2>4 DEF Return, Nothing, LastTyped
  <2>5. ASSUME NEW h \in Handles, NEW extent \in Extents, NEW mtype \in {"buffer", "image"},
               Create(h, extent, mtype)
        PROVE  UNCHANGED last
    BY <2>5 DEF Create
  <2>6. ASSUME NEW h \in Handles, NEW g \in Handles, Shape(h, g)
        PROVE  UNCHANGED last
    BY <2>6 DEF Shape, ShallowCopy, View, Reshape
  <2>7. CASE UNCHANGED transferVars
    BY <2>3, <2>7 DEF transferVars
  <2> QED
    BY <2>1, <2>2, <2>3, <2>4, <2>5, <2>6, <2>7 DEF Next
<1>3. PlacedInv /\ LastTyped /\ MemoryTyped => TypeOK
  <2> SUFFICES ASSUME PlacedInv, LastTyped, MemoryTyped PROVE TypeOK
    OBVIOUS
  <2>1. ASSUME NEW h \in Handles, Live(h)
        PROVE  arrays[h] \in ArrayType /\ Len(arrays[h].cells) = Size(arrays[h].extent)
    <3> DEFINE a == arrays[h]
    <3>1. Sound(a) /\ Placed(a) /\ a.memory \in Memories
      BY <2>1 DEF PlacedInv, WindowInv, MemoryTyped
    <3> HIDE DEF a
    <3>2. Size(a.extent) \in Nat /\ a.extent \in Triples(Nat \ {0})
      BY <3>1, SizePositive DEF Sound, Pos
    <3>3. a.cells \in Seq(Nat) /\ Len(a.cells) = Size(a.extent)
      BY <3>1, <3>2 DEF Placed
    <3>4. a.strides \in Triples(Nat \ {0})
      <4>1. a.strides = <<a.strides[1], a.strides[2], a.strides[3]>>
        BY <3>1 DEF Sound, Triples
      <4>2. a.strides[1] = 1 /\ a.strides[2] \in Nat \ {0} /\ a.strides[3] \in Nat \ {0}
        BY <3>1 DEF Placed, Pos
      <4> QED
        BY <4>1, <4>2 DEF Triples
    <3>5. a \in ArrayType
      BY <3>1, <3>2, <3>3, <3>4 DEF Sound, ArrayRecord, Placed, ArrayType
    <3> QED
      BY <3>3, <3>5 DEF a
  <2> QED
    BY <2>1 DEF TypeOK, PlacedInv, LastTyped
<1> QED
  BY <1>1, <1>2, <1>3, PlacedInit, PlacedStep, MemoryStep, PTL DEF Spec

=============================================================================
