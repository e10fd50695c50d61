------------------------ MODULE MultiplyMatrix_proofs -------------------------
(***************************************************************************)
(* The tiled matrix product for every problem and device: the types, the   *)
(* configurations the tuner can choose, and what an item finds in local    *)
(* memory while it sums.                                                   *)
(***************************************************************************)
EXTENDS MultiplyMatrix, LaunchGeometry_proofs, FiniteSetTheorems

-----------------------------------------------------------------------------
(* The tuner *)

\* A set of the tuner's candidates that has one has a largest.
LEMMA LargestIsOne ==
  ASSUME NEW S \in SUBSET TileSizes, 1 \in S
  PROVE  Largest(S) \in S
<1>1. \E c \in S : \A other \in S : other <= c
  <2>1. CASE 32 \in S
    BY <2>1 DEF TileSizes
  <2>2. CASE 32 \notin S /\ 16 \in S
    BY <2>2 DEF TileSizes
  <2>3. CASE 32 \notin S /\ 16 \notin S /\ 8 \in S
    BY <2>3 DEF TileSizes
  <2>4. CASE 32 \notin S /\ 16 \notin S /\ 8 \notin S /\ 4 \in S
    BY <2>4 DEF TileSizes
  <2>5. CASE 32 \notin S /\ 16 \notin S /\ 8 \notin S /\ 4 \notin S /\ 2 \in S
    BY <2>5 DEF TileSizes
  <2>6. CASE S = {1}
    BY <2>6
  <2> QED
    BY <2>1, <2>2, <2>3, <2>4, <2>5, <2>6 DEF TileSizes
<1> QED
  BY <1>1 DEF Largest

\* A tile the device has room for, with one item for each of its elements.
Roomy(ts, d) == ts > 1 => ts * ts <= d.group /\ local_mem_required(ts) <= d.memory

\* The tile the tuner selects is a size of the list, and roomy.
LEMMA SelectedTile ==
  ASSUME NEW p \in Problems, NEW d \in Devices
  PROVE  LET ts == select_tile_size(p.M, p.K, p.N, d) IN ts \in TileSizes /\ Roomy(ts, d)
<1> DEFINE min_dim == Smallest(p.M, Smallest(p.K, p.N))
           root == CHOOSE r \in 1..min_dim : r * r <= min_dim /\ (r + 1) * (r + 1) > min_dim
           ideal == next_power_of_2(Smallest(root, 32))
           fitting == {ts \in {2, 4, 8, 16, 32} :
                         ts <= ideal /\ local_mem_required(ts) <= d.memory /\ ts * ts <= d.group}
           S == fitting \cup {1}
<1>1. S \in SUBSET TileSizes /\ 1 \in S
  BY DEF TileSizes
<1>2. \A ts \in S : ts > 1 => ts * ts <= d.group /\ local_mem_required(ts) <= d.memory
  OBVIOUS
<1>3. select_tile_size(p.M, p.K, p.N, d) = Largest(S)
  BY DEF select_tile_size
<1> HIDE DEF S
<1>4. Largest(S) \in S
  BY <1>1, LargestIsOne
<1> QED
  BY <1>1, <1>2, <1>3, <1>4 DEF Roomy

\* The rows of one item divide the tile.
LEMMA SelectedRows ==
  ASSUME NEW ts \in TileSizes, NEW d \in Devices
  PROVE  LET wpt == select_wpt_m(ts, d) IN wpt \in RowCounts /\ ts % wpt = 0
<1> DEFINE S == {wpt \in {1, 2, 4, 8} :
                   wpt <= ts /\ ts % wpt = 0 /\ ts * (ts \div wpt) <= d.group} \cup {1}
<1>1. S \in SUBSET TileSizes /\ 1 \in S
  BY DEF TileSizes
<1>2. \A wpt \in S : wpt \in RowCounts /\ ts % wpt = 0
  BY DEF RowCounts, TileSizes
<1>3. select_wpt_m(ts, d) = Largest(S)
  BY DEF select_wpt_m
<1> HIDE DEF S
<1> QED
  BY <1>1, <1>2, <1>3, LargestIsOne

\* A configuration of the list for a tile the device has room for.
Tuned(c, p, d) ==
  \E ts \in TileSizes, wpt \in RowCounts :
    ts % wpt = 0 /\ Roomy(ts, d) /\ c = Config(ts, wpt, p.M, p.N)

\* Whatever the tuner falls back to is such a configuration.
LEMMA BuiltIsTuned ==
  ASSUME NEW p \in Problems, NEW d \in Devices
  PROVE  Tuned(build_config(p, d), p, d)
<1> DEFINE ts == select_tile_size(p.M, p.K, p.N, d)
           wpt == select_wpt_m(ts, d)
           small == Smallest(ts, 4)
<1>1. ts \in TileSizes /\ Roomy(ts, d) /\ wpt \in RowCounts /\ ts % wpt = 0
  BY SelectedTile, SelectedRows
<1>2. \/ build_config(p, d) = build_fallback_config(p.M, p.N)
      \/ build_config(p, d) = Config(ts, wpt, p.M, p.N)
      \/ build_config(p, d) = Config(ts, 1, p.M, p.N)
      \/ build_config(p, d) = Config(small, 1, p.M, p.N)
  BY DEF build_config
<1> HIDE DEF ts, wpt
<1>3. 1 \in RowCounts /\ 1 \in TileSizes /\ Roomy(1, d)
  BY DEF RowCounts, TileSizes, Roomy
<1>4. small \in TileSizes /\ Roomy(small, d)
  <2>1. CASE ts <= 4
    BY <1>1, <2>1 DEF TileSizes, Smallest
  <2>2. CASE ts > 4
    <3>1. small = 4 /\ ts \in {8, 16, 32}
      BY <1>1, <2>2 DEF TileSizes, Smallest
    <3>2. ts * ts <= d.group /\ local_mem_required(ts) <= d.memory
      BY <1>1, <3>1 DEF Roomy
    <3>3. d.group \in Nat /\ d.memory \in Nat
      BY MultiplyMatrixAssumption
    <3>4. 4 * 4 <= ts * ts /\ local_mem_required(4) <= local_mem_required(ts)
      BY <3>1 DEF local_mem_required
    <3>5. ts * ts \in Nat /\ local_mem_required(ts) \in Nat /\ local_mem_required(4) \in Nat
      BY <3>1 DEF local_mem_required
    <3>6. 4 * 4 <= d.group /\ local_mem_required(4) <= d.memory
      BY <3>2, <3>3, <3>4, <3>5
    <3> QED
      BY <3>1, <3>6 DEF Roomy, TileSizes
  <2> QED
    BY <1>1, <2>1, <2>2 DEF TileSizes
<1>5. \A t \in TileSizes : t % 1 = 0
  BY DEF TileSizes
<1> HIDE DEF small
<1> QED
  BY <1>1, <1>2, <1>3, <1>4, <1>5 DEF Tuned, build_fallback_config

-----------------------------------------------------------------------------
(* Rows of a tile *)

\* A number by its quotient and rest.
LEMMA QuotientAndRest ==
  ASSUME NEW a \in Nat, NEW b \in Nat \ {0}
  PROVE  /\ a = (a \div b) * b + (a % b)
         /\ a \div b \in Nat /\ a % b \in 0..b - 1
<1> DEFINE q == a \div b
<1>1. q \in Int /\ a = b * q + (a % b) /\ a % b \in 0..b - 1
  OBVIOUS
<1> HIDE DEF q
<1>2. b * q = q * b
  BY <1>1
<1>3. q >= 0
  <2>1. SUFFICES ASSUME q <= -1 PROVE FALSE
    BY <1>1
  <2>2. b * q <= -b
    BY <1>1, <2>1
  <2> QED
    BY <1>1, <2>2
<1> QED
  BY <1>1, <1>2, <1>3 DEF q

\* Rows r apart, counted from different ones of the first r, never meet.
LEMMA RowsAreDistinct ==
  ASSUME NEW r \in Nat \ {0}, NEW a \in 0..r - 1, NEW b \in 0..r - 1,
         NEW v \in Nat, NEW w \in Nat, a + v * r = b + w * r
  PROVE  a = b /\ v = w
<1>1. \A x, y \in Nat : x < y => x * r + r <= y * r
  <2> SUFFICES ASSUME NEW x \in Nat, NEW y \in Nat, x < y PROVE x * r + r <= y * r
    OBVIOUS
  <2>1. y * r = x * r + (y - x) * r
    OBVIOUS
  <2>2. (y - x) * r = r + (y - x - 1) * r
    OBVIOUS
  <2>3. (y - x - 1) * r >= 0 /\ x * r \in Nat
    OBVIOUS
  <2> QED
    BY <2>1, <2>2, <2>3
<1>2. v * r \in Nat /\ w * r \in Nat
  OBVIOUS
<1>3. ~(v < w) /\ ~(w < v)
  BY <1>1, <1>2
<1> QED
  BY <1>2, <1>3

\* Every row of a tile is one of an item.
LEMMA RowsCover ==
  ASSUME NEW r \in Nat \ {0}, NEW n \in Nat, NEW x \in 0..(n * r - 1)
  PROVE  \E a \in 0..r - 1, w \in 0..n - 1 : x = a + w * r
<1> DEFINE a == x % r
           w == x \div r
<1>1. x \in Nat /\ n * r \in Nat /\ x < n * r
  OBVIOUS
<1>2. a \in 0..r - 1 /\ w \in Int /\ x = r * w + a
  BY <1>1
<1> HIDE DEF a, w
<1>3. w >= 0
  <2>1. SUFFICES ASSUME w <= -1 PROVE FALSE
    BY <1>2
  <2>2. r * w <= -r
    BY <1>2, <2>1
  <2> QED
    BY <1>1, <1>2, <2>2
<1>4. w < n
  <2>1. SUFFICES ASSUME w >= n PROVE FALSE
    BY <1>2
  <2>2. r * w >= r * n /\ r * n = n * r
    BY <1>2, <2>1
  <2> QED
    BY <1>1, <1>2, <2>2
<1>5. r * w = w * r
  BY <1>2
<1>6. w \in 0..n - 1 /\ x = a + w * r
  <2>1. w * r \in Int
    BY <1>2
  <2> QED
    BY <1>1, <1>2, <1>3, <1>4, <1>5, <2>1
<1> QED
  BY <1>2, <1>6

-----------------------------------------------------------------------------
(* The shape of a group *)

\* What the actions need of the configuration.
Shape ==
  /\ TILE_SIZE \in TileSizes /\ WPT_M \in RowCounts /\ RTS_M \in Nat \ {0}
  /\ WPT_M * RTS_M = TILE_SIZE
  /\ config.local[1] = TILE_SIZE /\ config.local[2] = RTS_M
  /\ M \in Nat \ {0} /\ K \in Nat \ {0} /\ N \in Nat \ {0}
  /\ num_tiles \in Nat \ {0} /\ K <= num_tiles * TILE_SIZE
  /\ Last \in Nat /\ Last = 2 * num_tiles
  /\ Items = (0..TILE_SIZE - 1) \X (0..RTS_M - 1)

LEMMA TunedHasShape ==
  ASSUME problem \in Problems, Tuned(config, problem, device)
  PROVE  Shape
<1>1. M \in Nat \ {0} /\ K \in Nat \ {0} /\ N \in Nat \ {0}
  BY MultiplyMatrixAssumption DEF M, K, N
<1>2. PICK ts \in TileSizes, wpt \in RowCounts : ts % wpt = 0 /\ config = Config(ts, wpt, M, N)
  BY DEF Tuned, M, N
<1>3. ts \in Nat \ {0} /\ wpt \in Nat \ {0}
  BY DEF TileSizes, RowCounts
<1>4. wpt * (ts \div wpt) = ts /\ ts \div wpt \in Nat \ {0}
  BY <1>2 DEF TileSizes, RowCounts
<1>5. /\ config.tile = ts /\ config.wpt = wpt
      /\ config.local[1] = ts /\ config.local[2] = ts \div wpt
  BY <1>2 DEF Config
<1>6. num_tiles \in Nat \ {0} /\ K <= num_tiles * ts
  BY <1>1, <1>3, <1>5, CeilDivCovers DEF num_tiles, TILE_SIZE
<1> QED
  BY <1>1, <1>4, <1>5, <1>6 DEF Shape, TILE_SIZE, WPT_M, RTS_M, Last, Items

\* Nothing of it changes while a group runs.
LEMMA ShapeIsFixed ==
  ASSUME UNCHANGED <<problem, config>>
  PROVE  /\ TILE_SIZE' = TILE_SIZE /\ WPT_M' = WPT_M /\ RTS_M' = RTS_M
         /\ M' = M /\ K' = K /\ N' = N /\ num_tiles' = num_tiles /\ Last' = Last
         /\ Items' = Items /\ Groups' = Groups /\ Cells' = Cells /\ Rows' = Rows
BY DEF TILE_SIZE, WPT_M, RTS_M, M, K, N, num_tiles, Last, Items, Groups, Grid, Cells, Rows

\* The cells of an item lie in the tiles.
LEMMA CellsOfItems ==
  ASSUME Shape, NEW i \in Items, NEW w \in Rows
  PROVE  /\ TileRow(i, w) \in 0..TILE_SIZE - 1
         /\ <<i[1], TileRow(i, w)>> \in Cells /\ <<TileRow(i, w), i[1]>> \in Cells
<1>1. i[1] \in 0..TILE_SIZE - 1 /\ i[2] \in 0..RTS_M - 1 /\ w \in 0..WPT_M - 1
  BY DEF Shape, Rows
<1>2. RTS_M \in Nat /\ WPT_M \in Nat /\ WPT_M * RTS_M = TILE_SIZE
  BY DEF Shape, RowCounts
<1>3. w * RTS_M \in Nat /\ w * RTS_M <= (WPT_M - 1) * RTS_M
  BY <1>1, <1>2
<1>4. (WPT_M - 1) * RTS_M = TILE_SIZE - RTS_M
  BY <1>2
<1>5. TileRow(i, w) \in 0..TILE_SIZE - 1
  BY <1>1, <1>2, <1>3, <1>4 DEF TileRow
<1> QED
  BY <1>1, <1>5 DEF Cells

\* Every cell of each tile is one of an item.
LEMMA ItemsOfCells ==
  ASSUME Shape, NEW x \in 0..TILE_SIZE - 1, NEW row \in 0..TILE_SIZE - 1
  PROVE  \E i \in Items, w \in Rows : i[1] = x /\ TileRow(i, w) = row
<1>1. RTS_M \in Nat \ {0} /\ WPT_M \in Nat /\ WPT_M * RTS_M = TILE_SIZE
  BY DEF Shape, RowCounts
<1>2. PICK a \in 0..RTS_M - 1, w \in 0..WPT_M - 1 : row = a + w * RTS_M
  BY <1>1, RowsCover
<1>3. <<x, a>> \in Items /\ w \in Rows
  BY DEF Shape, Rows
<1> QED
  BY <1>2, <1>3 DEF TileRow

\* No two items share a cell.
LEMMA ItemsAreApart ==
  ASSUME Shape, NEW i \in Items, NEW j \in Items, NEW v \in Rows, NEW w \in Rows,
         i[1] = j[1], TileRow(i, v) = TileRow(j, w)
  PROVE  i = j /\ v = w
<1>1. i[2] \in 0..RTS_M - 1 /\ j[2] \in 0..RTS_M - 1 /\ RTS_M \in Nat \ {0}
  BY DEF Shape
<1>2. v \in Nat /\ w \in Nat
  BY DEF Rows, Shape, RowCounts
<1>3. i[2] = j[2] /\ v = w
  BY <1>1, <1>2, RowsAreDistinct DEF TileRow
<1> QED
  BY <1>3 DEF Shape

-----------------------------------------------------------------------------
(* The steps of a group *)

\* No item is more than one barrier ahead, and one that is behind has only to pass it.
Together ==
  \A i, j \in Items : passed[j] < passed[i] => passed[i] = passed[j] + 1 /\ ~Busy(j)

\* The cells an item loads hold the elements of its tile until it goes on to the next.
OwnCellsAreLoaded ==
  \A i \in Items, w \in Rows :
    Summing(i) \/ (Loading(i) /\ w < step[i]) =>
      /\ tile_src0[<<i[1], TileRow(i, w)>>] =
           Element0(group[2] * TILE_SIZE + TileRow(i, w), TileOf(i) * TILE_SIZE + i[1])
      /\ tile_src1[<<TileRow(i, w), i[1]>>] =
           Element1(TileOf(i) * TILE_SIZE + TileRow(i, w), Column(group, i))

\* The products of a row and a column up to an inner position.
Partial(row, col, n) == {<<<<row, k>>, <<k, col>>>> : k \in {k \in 0..K - 1 : k < n}}
Summed(i) == TileOf(i) * TILE_SIZE + (IF Summing(i) THEN step[i] ELSE 0)

\* An item has summed the products of the tiles it has been through.
SumsArePartial ==
  \A i \in Items, w \in Rows :
    OutRow(group, i, w) < M /\ Column(group, i) < N =>
      acc[i][w] = Partial(OutRow(group, i, w), Column(group, i), Summed(i))

\* What is stored is complete, and an item has stored the rows it is through.
StoredIsComplete ==
  /\ \A s \in stored : s.sum = Partial(s.row, s.col, K)
  /\ \A i \in Items, w \in Rows :
       Storing(i) /\ w < step[i] /\ OutRow(group, i, w) < M /\ Column(group, i) < N =>
         \E s \in stored : s.row = OutRow(group, i, w) /\ s.col = Column(group, i)

GroupInv ==
  GroupTypeOK /\ Together /\ OwnCellsAreLoaded /\ SumsArePartial /\ StoredIsComplete

\* The elements of a tile are contents of its cells.
LEMMA ElementsAreContents ==
  ASSUME NEW a \in Nat, NEW b \in Nat
  PROVE  Element0(a, b) \in Contents /\ Element1(a, b) \in Contents
BY DEF Element0, Element1, Contents

\* A phase has no more steps than the rows of an item or of a tile.
LEMMA StepsAreCounted ==
  ASSUME Shape, NEW n \in 0..Last
  PROVE  Steps(n) \in Nat \ {0}
BY DEF Shape, Steps, TileSizes, RowCounts

\* The tiles an item loads are among those of the inner extent.
LEMMA GroupIds ==
  ASSUME Shape, group \in Groups
  PROVE  group[1] \in Nat /\ group[2] \in Nat
BY DEF Groups

LEMMA LoadKeeps ==
  ASSUME Shape, GroupInv, NEW i \in Items, Load(i)
  PROVE  GroupInv'
<1> DEFINE row == TileRow(i, step[i])
           offset == TileOf(i) * TILE_SIZE
           e0 == Element0(group[2] * TILE_SIZE + row, offset + i[1])
           e1 == Element1(offset + row, Column(group, i))
<1>1. UNCHANGED <<problem, config>> /\ UNCHANGED <<group, passed, acc, stored>>
  BY DEF Load, launch
<1>2. /\ Loading(i) /\ Busy(i)
      /\ tile_src0' = [tile_src0 EXCEPT ![<<i[1], row>>] = e0]
      /\ tile_src1' = [tile_src1 EXCEPT ![<<row, i[1]>>] = e1]
      /\ step' = [step EXCEPT ![i] = @ + 1]
  BY DEF Load, LoadRow, Advance
<1>3. Items' = Items /\ Cells' = Cells /\ Rows' = Rows /\ Groups' = Groups /\ Last' = Last
      /\ M' = M /\ K' = K /\ N' = N /\ TILE_SIZE' = TILE_SIZE /\ WPT_M' = WPT_M /\ RTS_M' = RTS_M
  BY <1>1, ShapeIsFixed
<1>4. /\ passed \in [Items -> 0..Last] /\ step \in [Items -> Nat] /\ Last \in Nat
      /\ \A j \in Items : step[j] <= Steps(passed[j])
      /\ tile_src0 \in [Cells -> Contents] /\ tile_src1 \in [Cells -> Contents]
  BY DEF GroupInv, GroupTypeOK, Shape
<1>5. step[i] \in Rows /\ Steps(passed[i]) = WPT_M /\ step[i] < Steps(passed[i])
  BY <1>2, <1>4 DEF Loading, Busy, Steps, Rows, Shape, RowCounts
<1>6. \A n : Steps(n)' = Steps(n)
  BY <1>3 DEF Steps
<1>7. \A j \in Items : /\ TileOf(j)' = TileOf(j)
                       /\ Loading(j)' = Loading(j) /\ Summing(j)' = Summing(j)
  BY <1>1, <1>3 DEF TileOf, Loading, Summing
<1>8. \A j \in Items, w \in Rows : TileRow(j, w)' = TileRow(j, w)
  BY <1>3 DEF TileRow
<1>9. \A a, b : Element0(a, b)' = Element0(a, b) /\ Element1(a, b)' = Element1(a, b)
  BY <1>3 DEF Element0, Element1
<1>10. \A j \in Items : Column(group, j)' = Column(group, j)
  BY <1>1 DEF Column
<1>11. /\ <<i[1], row>> \in Cells /\ <<row, i[1]>> \in Cells /\ row \in Nat
  BY <1>5, CellsOfItems
<1>12. e0 \in Contents /\ e1 \in Contents
  <2>1. i[1] \in Nat /\ TILE_SIZE \in Nat /\ config.local[1] = TILE_SIZE
    BY DEF Shape, TileSizes
  <2>2. group[1] \in Nat /\ group[2] \in Nat
    BY GroupIds DEF GroupInv, GroupTypeOK
  <2>3. TileOf(i) \in Nat
    BY <1>4 DEF TileOf
  <2>4. group[2] * TILE_SIZE + row \in Nat /\ offset + i[1] \in Nat /\ offset + row \in Nat
        /\ Column(group, i) \in Nat
    BY <1>11, <2>1, <2>2, <2>3 DEF Column
  <2> QED
    BY <2>4, ElementsAreContents
<1> HIDE DEF row, offset, e0, e1
<1>13. GroupTypeOK'
  <2>1. tile_src0' \in [Cells -> Contents] /\ tile_src1' \in [Cells -> Contents]
    BY <1>2, <1>4, <1>11, <1>12
  <2>2. step' \in [Items -> Nat] /\ \A j \in Items : step'[j] <= Steps(passed[j])
    <3>1. Steps(passed[i]) \in Nat
      BY <1>4, StepsAreCounted
    <3> QED
      BY <1>2, <1>4, <1>5, <3>1
  <2> QED
    BY <1>1, <1>3, <1>4, <1>6, <2>1, <2>2 DEF GroupInv, GroupTypeOK
<1>14. Together'
  <2> SUFFICES ASSUME NEW a \in Items, NEW b \in Items, passed[b] < passed[a]
               PROVE  passed[a] = passed[b] + 1 /\ ~(step'[b] < Steps(passed[b]))
    BY <1>1, <1>3, <1>6 DEF Together, Busy
  <2>1. passed[a] = passed[b] + 1 /\ ~Busy(b)
    BY DEF GroupInv, Together
  <2>2. b # i
    BY <1>2, <2>1
  <2> QED
    BY <1>2, <1>4, <2>1, <2>2 DEF Busy
<1>15. OwnCellsAreLoaded'
  <2> SUFFICES ASSUME NEW j \in Items, NEW w \in Rows,
                      Summing(j) \/ (Loading(j) /\ w < step'[j])
               PROVE  /\ tile_src0'[<<j[1], TileRow(j, w)>>] =
                           Element0(group[2] * TILE_SIZE + TileRow(j, w),
                                    TileOf(j) * TILE_SIZE + j[1])
                      /\ tile_src1'[<<TileRow(j, w), j[1]>>] =
                           Element1(TileOf(j) * TILE_SIZE + TileRow(j, w), Column(group, j))
    BY <1>1, <1>3, <1>7, <1>8, <1>9, <1>10 DEF OwnCellsAreLoaded
  <2>1. <<j[1], TileRow(j, w)>> \in Cells /\ <<TileRow(j, w), j[1]>> \in Cells
    BY CellsOfItems
  <2>2. CASE j = i /\ w = step[i]
    BY <1>2, <1>4, <2>1, <2>2 DEF row, offset, e0, e1
  <2>3. CASE ~(j = i /\ w = step[i])
    <3>1. Summing(j) \/ (Loading(j) /\ w < step[j])
      <4>1. w \in Int
        BY DEF Rows, Shape, RowCounts
      <4> QED
        BY <1>2, <1>4, <2>3, <4>1
    <3>2. ~(j[1] = i[1] /\ TileRow(j, w) = row)
      BY <1>5, <2>3, ItemsAreApart DEF row
    <3>3. /\ tile_src0'[<<j[1], TileRow(j, w)>>] = tile_src0[<<j[1], TileRow(j, w)>>]
          /\ tile_src1'[<<TileRow(j, w), j[1]>>] = tile_src1[<<TileRow(j, w), j[1]>>]
      BY <1>2, <1>4, <2>1, <3>2
    <3> QED
      BY <3>1, <3>3 DEF GroupInv, OwnCellsAreLoaded
  <2> QED
    BY <2>2, <2>3
<1>16. SumsArePartial'
  <2>1. \A j \in Items : Summed(j)' = Summed(j)
    <3> SUFFICES ASSUME NEW j \in Items PROVE Summed(j)' = Summed(j)
      OBVIOUS
    <3>1. Summing(j) => step'[j] = step[j]
      BY <1>2, <1>4 DEF Summing, Loading
    <3> QED
      BY <1>3, <1>7, <3>1 DEF Summed
  <2>2. \A r, c, n : Partial(r, c, n)' = Partial(r, c, n)
    BY <1>3 DEF Partial
  <2>3. \A j \in Items, w \in Rows : OutRow(group, j, w)' = OutRow(group, j, w)
    BY <1>1, <1>3, <1>8 DEF OutRow
  <2> QED
    BY <1>1, <1>3, <1>10, <2>1, <2>2, <2>3 DEF GroupInv, SumsArePartial
<1>17. StoredIsComplete'
  <2>1. \A j \in Items : Storing(j)' = Storing(j)
    BY <1>1, <1>3 DEF Storing
  <2>2. \A r, c, n : Partial(r, c, n)' = Partial(r, c, n)
    BY <1>3 DEF Partial
  <2>3. \A j \in Items, w \in Rows : OutRow(group, j, w)' = OutRow(group, j, w)
    BY <1>1, <1>3, <1>8 DEF OutRow
  <2>4. \A j \in Items : Storing(j) => step'[j] = step[j]
    BY <1>2, <1>4 DEF Storing, Loading
  <2> QED
    BY <1>1, <1>3, <1>10, <2>1, <2>2, <2>3, <2>4 DEF GroupInv, StoredIsComplete
<1> QED
  BY <1>13, <1>14, <1>15, <1>16, <1>17 DEF GroupInv

\* Items that are in a phase together see the tile of that phase whole.
LEMMA TileIsWhole ==
  ASSUME Shape, GroupInv, NEW i \in Items, Summing(i), Busy(i),
         NEW x \in 0..TILE_SIZE - 1, NEW row \in 0..TILE_SIZE - 1
  PROVE  /\ tile_src0[<<x, row>>] =
              Element0(group[2] * TILE_SIZE + row, TileOf(i) * TILE_SIZE + x)
         /\ tile_src1[<<row, x>>] =
              Element1(TileOf(i) * TILE_SIZE + row, group[1] * TILE_SIZE + x)
<1>1. PICK j \in Items, w \in Rows : j[1] = x /\ TileRow(j, w) = row
  BY ItemsOfCells
<1>2. passed[i] \in 0..Last /\ passed[j] \in 0..Last /\ Last \in Nat
      /\ step[j] <= Steps(passed[j]) /\ step[j] \in Nat
  BY DEF GroupInv, GroupTypeOK, Shape
<1>3. /\ passed[j] < passed[i] => passed[i] = passed[j] + 1 /\ ~Busy(j)
      /\ ~(passed[i] < passed[j])
  BY DEF GroupInv, Together
<1>4. TileOf(j) = TileOf(i) /\ (Summing(j) \/ (Loading(j) /\ w < step[j]))
  <2>1. CASE passed[j] = passed[i]
    BY <2>1 DEF TileOf, Summing
  <2>2. CASE passed[j] < passed[i]
    <3>1. passed[i] = passed[j] + 1 /\ ~Busy(j)
      BY <1>3, <2>2
    <3>2. Loading(j) /\ TileOf(j) = TileOf(i)
      BY <1>2, <3>1 DEF Summing, Loading, TileOf
    <3>3. step[j] >= WPT_M /\ WPT_M \in Nat
      BY <1>2, <3>1, <3>2 DEF Busy, Steps, Loading, Shape, RowCounts
    <3> QED
      BY <1>2, <3>2, <3>3 DEF Rows
  <2> QED
    BY <1>2, <1>3, <2>1, <2>2
<1>5. Column(group, j) = group[1] * TILE_SIZE + x
  BY <1>1 DEF Column, Shape
<1> QED
  BY <1>1, <1>4, <1>5 DEF GroupInv, OwnCellsAreLoaded

\* What the items compute from their ids alone stays as it is while the group runs.
LEMMA PlacesAreFixed ==
  ASSUME UNCHANGED <<problem, config, group>>
  PROVE  /\ \A n : Steps(n)' = Steps(n)
         /\ \A i, w : TileRow(i, w)' = TileRow(i, w)
         /\ \A i, w : OutRow(group, i, w)' = OutRow(group, i, w)
         /\ \A i : Column(group, i)' = Column(group, i)
         /\ \A a, b : Element0(a, b)' = Element0(a, b) /\ Element1(a, b)' = Element1(a, b)
         /\ \A r, c, n : Partial(r, c, n)' = Partial(r, c, n)
<1>1. /\ M' = M /\ K' = K /\ N' = N /\ Last' = Last
      /\ TILE_SIZE' = TILE_SIZE /\ WPT_M' = WPT_M /\ RTS_M' = RTS_M
  BY ShapeIsFixed
<1> QED
  BY <1>1 DEF Steps, TileRow, OutRow, Column, Element0, Element1, Partial

\* One more product of a row and a column.
LEMMA PartialGrows ==
  ASSUME Shape, NEW row \in 0..M - 1, NEW col \in 0..N - 1, NEW k \in Nat
  PROVE  Partial(row, col, k) \cup Product(Element0(row, k), Element1(k, col))
           = Partial(row, col, k + 1)
<1>1. M \in Nat /\ K \in Nat /\ N \in Nat
  BY DEF Shape
<1>2. CASE k < K
  <2>1. Element0(row, k) = <<row, k>> /\ Element1(k, col) = <<k, col>>
    BY <1>1, <1>2 DEF Element0, Element1
  <2>2. Zero # <<row, k>> /\ Zero # <<k, col>>
    BY <1>1 DEF Zero
  <2>3. Product(Element0(row, k), Element1(k, col)) = {<<<<row, k>>, <<k, col>>>>}
    BY <2>1, <2>2 DEF Product
  <2>4. {n \in 0..K - 1 : n < k + 1} = {n \in 0..K - 1 : n < k} \cup {k}
    BY <1>1, <1>2
  <2> QED
    BY <2>3, <2>4 DEF Partial
<1>3. CASE ~(k < K)
  <2>1. Zero \in {Element0(row, k), Element1(k, col)}
    BY <1>3 DEF Element0
  <2>2. Product(Element0(row, k), Element1(k, col)) = {}
    BY <2>1 DEF Product
  <2>3. {n \in 0..K - 1 : n < k + 1} = {n \in 0..K - 1 : n < k}
    BY <1>1, <1>3
  <2> QED
    BY <2>2, <2>3 DEF Partial
<1> QED
  BY <1>2, <1>3

LEMMA SumKeeps ==
  ASSUME Shape, GroupInv, NEW i \in Items, Sum(i)
  PROVE  GroupInv'
<1>1. UNCHANGED <<problem, config, group>> /\ UNCHANGED <<passed, tile_src0, tile_src1, stored>>
  BY DEF Sum, launch, locals
<1>2. /\ Summing(i) /\ Busy(i) /\ step' = [step EXCEPT ![i] = @ + 1]
      /\ acc' = [acc EXCEPT ![i] = [w \in Rows |->
                   acc[i][w] \cup Product(tile_src0[<<step[i], TileRow(i, w)>>],
                                          tile_src1[<<step[i], i[1]>>])]]
  BY DEF Sum, Advance, GroupInv, GroupTypeOK
<1>3. Items' = Items /\ Cells' = Cells /\ Rows' = Rows /\ Groups' = Groups /\ Last' = Last
      /\ M' = M /\ K' = K /\ N' = N /\ TILE_SIZE' = TILE_SIZE /\ WPT_M' = WPT_M
  BY <1>1, ShapeIsFixed
<1>4. /\ passed \in [Items -> 0..Last] /\ step \in [Items -> Nat] /\ Last \in Nat
      /\ \A j \in Items : step[j] <= Steps(passed[j])
      /\ tile_src0 \in [Cells -> Contents] /\ tile_src1 \in [Cells -> Contents]
      /\ acc \in [Items -> [Rows -> SUBSET (Contents \X Contents)]]
  BY DEF GroupInv, GroupTypeOK, Shape
<1>5. step[i] \in 0..TILE_SIZE - 1 /\ step[i] < Steps(passed[i])
  BY <1>2, <1>4 DEF Summing, Busy, Steps, Shape, TileSizes
<1>6. \A j \in Items : /\ TileOf(j)' = TileOf(j)
                       /\ Loading(j)' = Loading(j) /\ Summing(j)' = Summing(j)
                       /\ Storing(j)' = Storing(j)
  BY <1>1, <1>3 DEF TileOf, Loading, Summing, Storing
<1>7. \A j \in Items : j # i => step'[j] = step[j] /\ acc'[j] = acc[j]
  BY <1>2, <1>4
<1>8. ~Loading(i) /\ ~Storing(i)
  BY <1>2, <1>4 DEF Loading, Summing, Storing
<1>9. GroupTypeOK'
  <2>1. \A w \in Rows : /\ tile_src0[<<step[i], TileRow(i, w)>>] \in Contents
                        /\ tile_src1[<<step[i], i[1]>>] \in Contents
    <3> SUFFICES ASSUME NEW w \in Rows
                 PROVE  <<step[i], TileRow(i, w)>> \in Cells /\ <<step[i], i[1]>> \in Cells
      BY <1>4
    <3>1. TileRow(i, w) \in 0..TILE_SIZE - 1
      BY CellsOfItems
    <3>2. i[1] \in 0..TILE_SIZE - 1
      BY DEF Shape
    <3> QED
      BY <1>5, <3>1, <3>2 DEF Cells
  <2>2. \A a, b \in Contents : Product(a, b) \in SUBSET (Contents \X Contents)
    BY DEF Product
  <2>3. acc' \in [Items -> [Rows -> SUBSET (Contents \X Contents)]]
    BY <1>2, <1>4, <2>1, <2>2
  <2>4. step' \in [Items -> Nat] /\ \A j \in Items : step'[j] <= Steps(passed[j])
    <3>1. Steps(passed[i]) \in Nat
      BY <1>4, StepsAreCounted
    <3> QED
      BY <1>2, <1>4, <1>5, <3>1
  <2>5. \A n : Steps(n)' = Steps(n)
    BY <1>1, PlacesAreFixed
  <2> QED
    BY <1>1, <1>3, <1>4, <2>3, <2>4, <2>5 DEF GroupInv, GroupTypeOK
<1>10. Together'
  <2> SUFFICES ASSUME NEW a \in Items, NEW b \in Items, passed[b] < passed[a]
               PROVE  passed[a] = passed[b] + 1 /\ ~(step'[b] < Steps(passed[b]))
    BY <1>1, <1>3, PlacesAreFixed DEF Together, Busy
  <2>1. passed[a] = passed[b] + 1 /\ ~Busy(b)
    BY DEF GroupInv, Together
  <2>2. b # i
    BY <1>2, <2>1
  <2> QED
    BY <1>7, <2>1, <2>2 DEF Busy
<1>11. OwnCellsAreLoaded'
  <2>1. \A j \in Items : Loading(j) => step'[j] = step[j]
    BY <1>7, <1>8
  <2> QED
    BY <1>1, <1>3, <1>6, <2>1, PlacesAreFixed DEF GroupInv, OwnCellsAreLoaded
<1>12. SumsArePartial'
  <2> SUFFICES ASSUME NEW j \in Items, NEW w \in Rows,
                      OutRow(group, j, w) < M, Column(group, j) < N
               PROVE  acc'[j][w] = Partial(OutRow(group, j, w), Column(group, j), Summed(j)')
    BY <1>1, <1>3, PlacesAreFixed DEF SumsArePartial
  <2>1. acc[j][w] = Partial(OutRow(group, j, w), Column(group, j), Summed(j))
    BY DEF GroupInv, SumsArePartial
  <2>2. CASE j # i
    <3>1. Summed(j)' = Summed(j)
      BY <1>3, <1>6, <1>7, <2>2 DEF Summed
    <3> QED
      BY <1>7, <2>1, <2>2, <3>1
  <2>3. CASE j = i
    <3> DEFINE row == OutRow(group, i, w)
               col == Column(group, i)
               k == TileOf(i) * TILE_SIZE + step[i]
    <3>1. Summed(i) = k
      BY <1>2 DEF Summed
    <3>2. TileOf(i) \in Nat /\ step[i] \in Nat /\ TILE_SIZE \in Nat
      BY <1>4 DEF TileOf, Shape, TileSizes
    <3>3. k \in Nat
      BY <3>2
    <3>4. Summed(i)' = k + 1
      <4>1. step'[i] = step[i] + 1 /\ Summing(i)'
        BY <1>2, <1>4, <1>6
      <4>2. TileOf(i)' = TileOf(i) /\ TILE_SIZE' = TILE_SIZE
        BY <1>3, <1>6
      <4>3. TileOf(i) * TILE_SIZE \in Nat
        BY <3>2
      <4> QED
        BY <3>2, <4>1, <4>2, <4>3 DEF Summed
    <3>5. TileRow(i, w) \in 0..TILE_SIZE - 1 /\ i[1] \in 0..TILE_SIZE - 1
      BY CellsOfItems DEF Shape
    <3>6. /\ tile_src0[<<step[i], TileRow(i, w)>>] = Element0(row, k)
          /\ tile_src1[<<step[i], i[1]>>] = Element1(k, col)
      <4>1. row = group[2] * TILE_SIZE + TileRow(i, w)
        BY DEF OutRow
      <4>2. col = group[1] * TILE_SIZE + i[1]
        BY DEF Column, Shape
      <4> HIDE DEF row, col
      <4> QED
        BY <1>2, <1>5, <3>5, <4>1, <4>2, TileIsWhole
    <3>7. row \in 0..M - 1 /\ col \in 0..N - 1
      <4>1. group[1] \in Nat /\ group[2] \in Nat
        BY GroupIds DEF GroupInv, GroupTypeOK
      <4>2. group[1] * TILE_SIZE \in Nat /\ group[2] * TILE_SIZE \in Nat
        BY <3>2, <4>1
      <4>3. M \in Nat /\ N \in Nat
        BY DEF Shape
      <4> QED
        BY <2>3, <3>5, <4>2, <4>3 DEF OutRow, Column, Shape
    <3>8. acc'[i][w] = acc[i][w] \cup Product(tile_src0[<<step[i], TileRow(i, w)>>],
                                              tile_src1[<<step[i], i[1]>>])
      BY <1>2, <1>4
    <3> HIDE DEF row, col, k
    <3>9. acc'[i][w] = Partial(row, col, k) \cup Product(Element0(row, k), Element1(k, col))
      BY <2>1, <2>3, <3>1, <3>6, <3>8 DEF row, col
    <3> QED
      BY <2>3, <3>3, <3>4, <3>7, <3>9, PartialGrows DEF row, col
  <2> QED
    BY <2>2, <2>3
<1>13. StoredIsComplete'
  <2>1. \A j \in Items : Storing(j) => step'[j] = step[j]
    BY <1>7, <1>8
  <2> QED
    BY <1>1, <1>3, <1>6, <2>1, PlacesAreFixed DEF GroupInv, StoredIsComplete
<1> QED
  BY <1>9, <1>10, <1>11, <1>12, <1>13 DEF GroupInv

LEMMA BarrierKeeps ==
  ASSUME Shape, GroupInv, NEW i \in Items, Barrier(i)
  PROVE  GroupInv'
<1>1. UNCHANGED <<problem, config, group>> /\ UNCHANGED <<tile_src0, tile_src1, acc, stored>>
  BY DEF Barrier, launch, locals
<1>2. /\ passed[i] < Last /\ ~Busy(i) /\ \A j \in Items : Arrived(i, j)
      /\ passed' = [passed EXCEPT ![i] = @ + 1] /\ step' = [step EXCEPT ![i] = 0]
  BY DEF Barrier
<1>3. Items' = Items /\ Cells' = Cells /\ Rows' = Rows /\ Groups' = Groups /\ Last' = Last
      /\ M' = M /\ K' = K /\ N' = N /\ TILE_SIZE' = TILE_SIZE /\ WPT_M' = WPT_M
  BY <1>1, ShapeIsFixed
<1>4. /\ passed \in [Items -> 0..Last] /\ step \in [Items -> Nat] /\ Last \in Nat
      /\ \A j \in Items : step[j] <= Steps(passed[j])
      /\ Last = 2 * num_tiles /\ num_tiles \in Nat /\ TILE_SIZE \in Nat
  BY DEF GroupInv, GroupTypeOK, Shape, TileSizes
<1>5. passed'[i] = passed[i] + 1 /\ step'[i] = 0 /\ step[i] = Steps(passed[i])
  BY <1>2, <1>4, StepsAreCounted DEF Busy
<1>6. \A j \in Items : j # i => passed'[j] = passed[j] /\ step'[j] = step[j]
  BY <1>2, <1>4
<1>7. GroupTypeOK'
  <2>1. passed' \in [Items -> 0..Last] /\ step' \in [Items -> Nat]
    BY <1>2, <1>4
  <2>2. \A j \in Items : step'[j] <= Steps(passed'[j])
    <3>1. Steps(passed'[i]) \in Nat
      BY <2>1, StepsAreCounted
    <3> QED
      BY <1>4, <1>5, <1>6, <3>1
  <2> QED
    BY <1>1, <1>3, <2>1, <2>2, PlacesAreFixed DEF GroupInv, GroupTypeOK
<1>8. Together'
  <2> SUFFICES ASSUME NEW a \in Items, NEW b \in Items, passed'[b] < passed'[a]
               PROVE  passed'[a] = passed'[b] + 1 /\ ~(step'[b] < Steps(passed'[b]))
    BY <1>1, <1>3, PlacesAreFixed DEF Together, Busy
  <2>1. \A j \in Items : passed[j] > passed[i] \/ (passed[j] = passed[i] /\ ~Busy(j))
    BY <1>2 DEF Arrived
  <2>2. passed[b] < passed[a] => passed[a] = passed[b] + 1 /\ ~Busy(b)
    BY DEF GroupInv, Together
  <2>3. passed[a] > passed[i] => passed[a] = passed[i] + 1
    BY DEF GroupInv, Together
  <2>4. CASE b = i
    <3>1. a # i /\ passed[a] > passed[i] + 1
      BY <1>4, <1>5, <1>6, <2>4
    <3> QED
      BY <1>4, <2>3, <3>1
  <2>5. CASE b # i
    <3>1. passed'[b] = passed[b] /\ step'[b] = step[b]
      BY <1>6, <2>5
    <3>2. CASE a = i
      <4>1. passed[b] = passed[i] /\ ~Busy(b)
        BY <1>4, <1>5, <2>1, <3>1, <3>2
      <4> QED
        BY <1>5, <3>1, <3>2, <4>1 DEF Busy
    <3>3. CASE a # i
      BY <1>6, <2>2, <3>1, <3>3 DEF Busy
    <3> QED
      BY <3>2, <3>3
  <2> QED
    BY <2>4, <2>5
<1>9. \A j \in Items : j # i => /\ TileOf(j)' = TileOf(j) /\ Summed(j)' = Summed(j)
                                /\ Loading(j)' = Loading(j) /\ Summing(j)' = Summing(j)
                                /\ Storing(j)' = Storing(j)
  BY <1>3, <1>6 DEF TileOf, Summed, Loading, Summing, Storing
<1>10. OwnCellsAreLoaded'
  <2> SUFFICES ASSUME NEW j \in Items, NEW w \in Rows,
                      Summing(j)' \/ (Loading(j)' /\ w < step'[j])
               PROVE  /\ tile_src0[<<j[1], TileRow(j, w)>>] =
                           Element0(group[2] * TILE_SIZE + TileRow(j, w),
                                    TileOf(j)' * TILE_SIZE + j[1])
                      /\ tile_src1[<<TileRow(j, w), j[1]>>] =
                           Element1(TileOf(j)' * TILE_SIZE + TileRow(j, w), Column(group, j))
    BY <1>1, <1>3, PlacesAreFixed DEF OwnCellsAreLoaded
  <2>1. (Summing(j) \/ (Loading(j) /\ w < step[j])) /\ TileOf(j)' = TileOf(j)
    <3>1. CASE j # i
      BY <1>6, <1>9, <3>1
    <3>2. CASE j = i
      <4>1. w \in 0..WPT_M - 1 /\ WPT_M \in Nat
        BY DEF Rows, Shape, RowCounts
      <4>2. Summing(i)'
        BY <1>5, <3>2, <4>1
      <4>3. Loading(i) /\ TileOf(i)' = TileOf(i)
        BY <1>2, <1>3, <1>4, <1>5, <4>2 DEF Summing, Loading, TileOf
      <4>4. step[i] = WPT_M
        BY <1>4, <1>5, <4>3 DEF Steps, Loading
      <4> QED
        BY <3>2, <4>1, <4>3, <4>4
    <3> QED
      BY <3>1, <3>2
  <2> QED
    BY <2>1 DEF GroupInv, OwnCellsAreLoaded
<1>11. Summed(i)' = Summed(i)
  <2>1. CASE Summing(i)
    <3>1. ~Summing(i)' /\ TileOf(i)' = TileOf(i) + 1
      BY <1>2, <1>3, <1>4, <1>5, <2>1 DEF Summing, TileOf
    <3>2. step[i] = TILE_SIZE
      BY <1>5, <2>1 DEF Steps, Summing
    <3>3. TileOf(i) \in Nat
      BY <1>4 DEF TileOf
    <3>4. (TileOf(i) + 1) * TILE_SIZE = TileOf(i) * TILE_SIZE + TILE_SIZE
      BY <1>4, <3>3
    <3>5. (TileOf(i) + 1) * TILE_SIZE \in Nat
      BY <1>4, <3>3
    <3> QED
      BY <1>3, <2>1, <3>1, <3>2, <3>4, <3>5 DEF Summed
  <2>2. CASE ~Summing(i)
    <3>1. TileOf(i)' = TileOf(i) /\ Summing(i)'
      BY <1>2, <1>3, <1>4, <1>5, <2>2 DEF Summing, TileOf
    <3> QED
      BY <1>3, <1>5, <2>2, <3>1 DEF Summed
  <2> QED
    BY <2>1, <2>2
<1>12. SumsArePartial'
  BY <1>1, <1>3, <1>9, <1>11, PlacesAreFixed DEF GroupInv, SumsArePartial
<1>13. StoredIsComplete'
  <2>1. \A w \in Rows : ~(w < step'[i])
    BY <1>5 DEF Rows
  <2> QED
    BY <1>1, <1>3, <1>6, <1>9, <2>1, PlacesAreFixed DEF GroupInv, StoredIsComplete
<1> QED
  BY <1>7, <1>8, <1>10, <1>12, <1>13 DEF GroupInv

LEMMA StoreKeeps ==
  ASSUME Shape, GroupInv, NEW i \in Items, Store(i)
  PROVE  GroupInv'
<1> DEFINE row == OutRow(group, i, step[i])
           col == Column(group, i)
           element == [row |-> row, col |-> col, by |-> i, sum |-> acc[i][step[i]]]
<1>1. UNCHANGED <<problem, config, group>> /\ UNCHANGED <<passed, tile_src0, tile_src1, acc>>
  BY DEF Store, launch, locals
<1>2. /\ Storing(i) /\ Busy(i) /\ step' = [step EXCEPT ![i] = @ + 1]
      /\ stored' = IF row < M /\ col < N THEN stored \cup {element} ELSE stored
  BY DEF Store, Advance
<1>3. Items' = Items /\ Cells' = Cells /\ Rows' = Rows /\ Groups' = Groups /\ Last' = Last
      /\ M' = M /\ K' = K /\ N' = N /\ TILE_SIZE' = TILE_SIZE /\ WPT_M' = WPT_M
  BY <1>1, ShapeIsFixed
<1>4. /\ passed \in [Items -> 0..Last] /\ step \in [Items -> Nat] /\ Last \in Nat
      /\ \A j \in Items : step[j] <= Steps(passed[j])
      /\ acc \in [Items -> [Rows -> SUBSET (Contents \X Contents)]]
      /\ M \in Nat /\ N \in Nat /\ K \in Nat /\ TILE_SIZE \in Nat /\ WPT_M \in Nat
  BY DEF GroupInv, GroupTypeOK, Shape, TileSizes, RowCounts
<1>5. step[i] \in Rows /\ Steps(passed[i]) = WPT_M /\ step[i] < Steps(passed[i])
  BY <1>2, <1>4 DEF Storing, Busy, Steps, Rows
<1>6. \A j \in Items : j # i => step'[j] = step[j]
  BY <1>2, <1>4
<1>7. ~Summing(i) /\ ~Loading(i)
  BY <1>2, <1>4 DEF Storing, Summing, Loading
<1>8. \A j \in Items : /\ TileOf(j)' = TileOf(j)
                       /\ Loading(j)' = Loading(j) /\ Summing(j)' = Summing(j)
                       /\ Storing(j)' = Storing(j)
  BY <1>1, <1>3 DEF TileOf, Loading, Summing, Storing
<1>9. row \in Nat /\ col \in Nat
  <2>1. group[1] \in Nat /\ group[2] \in Nat
    BY GroupIds DEF GroupInv, GroupTypeOK
  <2>2. TileRow(i, step[i]) \in Nat /\ i[1] \in Nat
    <3>1. TileRow(i, step[i]) \in 0..TILE_SIZE - 1
      BY <1>5, CellsOfItems
    <3> QED
      BY <1>4, <3>1 DEF Shape
  <2>3. row = group[2] * TILE_SIZE + TileRow(i, step[i]) /\ col = group[1] * TILE_SIZE + i[1]
    BY DEF OutRow, Column, Shape
  <2>4. group[1] * TILE_SIZE \in Nat /\ group[2] * TILE_SIZE \in Nat
    BY <1>4, <2>1
  <2> HIDE DEF row, col
  <2> QED
    BY <2>2, <2>3, <2>4
<1>10. row < M /\ col < N => element.sum = Partial(row, col, K)
  <2> SUFFICES ASSUME row < M, col < N PROVE acc[i][step[i]] = Partial(row, col, K)
    OBVIOUS
  <2>1. acc[i][step[i]] = Partial(row, col, Summed(i))
    BY <1>5 DEF GroupInv, SumsArePartial
  <2>2. TileOf(i) = num_tiles
    BY <1>2, <1>4 DEF TileOf, Storing, Shape
  <2>3. Summed(i) = num_tiles * TILE_SIZE
    <3>1. num_tiles * TILE_SIZE \in Nat
      BY <1>4 DEF Shape
    <3> QED
      BY <1>7, <2>2, <3>1 DEF Summed
  <2>4. Summed(i) >= K /\ Summed(i) \in Nat
    BY <1>4, <2>3 DEF Shape
  <2>5. {k \in 0..K - 1 : k < Summed(i)} = {k \in 0..K - 1 : k < K}
    BY <1>4, <2>4
  <2>6. Partial(row, col, Summed(i)) = Partial(row, col, K)
    BY <2>5 DEF Partial
  <2> QED
    BY <2>1, <2>6
<1>11. GroupTypeOK'
  <2>1. step' \in [Items -> Nat] /\ \A j \in Items : step'[j] <= Steps(passed[j])
    <3>1. Steps(passed[i]) \in Nat
      BY <1>4, StepsAreCounted
    <3> QED
      BY <1>2, <1>4, <1>5, <3>1
  <2>2. stored' \subseteq [row : 0..M - 1, col : 0..N - 1, by : Items,
                           sum : SUBSET (Contents \X Contents)]
    <3>1. acc[i][step[i]] \in SUBSET (Contents \X Contents)
      BY <1>4, <1>5
    <3>2. row < M /\ col < N => row \in 0..M - 1 /\ col \in 0..N - 1
      BY <1>4, <1>9
    <3> HIDE DEF row, col
    <3> QED
      BY <1>2, <3>1, <3>2 DEF GroupInv, GroupTypeOK
  <2> HIDE DEF row, col, element
  <2> QED
    BY <1>1, <1>3, <2>1, <2>2, PlacesAreFixed DEF GroupInv, GroupTypeOK
<1>12. Together'
  <2> SUFFICES ASSUME NEW a \in Items, NEW b \in Items, passed[b] < passed[a]
               PROVE  passed[a] = passed[b] + 1 /\ ~(step'[b] < Steps(passed[b]))
    BY <1>1, <1>3, PlacesAreFixed DEF Together, Busy
  <2>1. passed[a] = passed[b] + 1 /\ ~Busy(b)
    BY DEF GroupInv, Together
  <2>2. b # i
    BY <1>2, <2>1
  <2> QED
    BY <1>6, <2>1, <2>2 DEF Busy
<1>13. OwnCellsAreLoaded'
  <2>1. \A j \in Items : Loading(j) => step'[j] = step[j]
    BY <1>6, <1>7
  <2> QED
    BY <1>1, <1>3, <1>8, <2>1, PlacesAreFixed DEF GroupInv, OwnCellsAreLoaded
<1>14. SumsArePartial'
  <2>1. \A j \in Items : Summed(j)' = Summed(j)
    <3> SUFFICES ASSUME NEW j \in Items PROVE Summed(j)' = Summed(j)
      OBVIOUS
    <3>1. Summing(j) => step'[j] = step[j]
      BY <1>6, <1>7
    <3> QED
      BY <1>3, <1>8, <3>1 DEF Summed
  <2> QED
    BY <1>1, <1>3, <2>1, PlacesAreFixed DEF GroupInv, SumsArePartial
<1>15. StoredIsComplete'
  <2>1. \A s \in stored' : s.sum = Partial(s.row, s.col, K)
    <3>1. \A s \in stored : s.sum = Partial(s.row, s.col, K)
      BY DEF GroupInv, StoredIsComplete
    <3>2. element.row = row /\ element.col = col
      OBVIOUS
    <3> HIDE DEF element, row, col
    <3> QED
      BY <1>2, <1>10, <3>1, <3>2
  <2>2. ASSUME NEW j \in Items, NEW w \in Rows,
               Storing(j), w < step'[j], OutRow(group, j, w) < M, Column(group, j) < N
        PROVE  \E s \in stored' : s.row = OutRow(group, j, w) /\ s.col = Column(group, j)
    <3>1. CASE j = i /\ w = step[i]
      <4>1. element \in stored'
        BY <1>2, <2>2, <3>1
      <4> QED
        BY <3>1, <4>1
    <3>2. CASE ~(j = i /\ w = step[i])
      <4>1. w < step[j]
        <5>1. w \in Int
          BY DEF Rows
        <5> QED
          BY <1>2, <1>4, <1>6, <2>2, <3>2, <5>1
      <4>2. \E s \in stored : s.row = OutRow(group, j, w) /\ s.col = Column(group, j)
        BY <2>2, <4>1 DEF GroupInv, StoredIsComplete
      <4>3. stored \subseteq stored'
        <5> HIDE DEF element, row, col
        <5> QED
          BY <1>2
      <4> QED
        BY <4>2, <4>3
    <3> QED
      BY <3>1, <3>2
  <2> HIDE DEF row, col, element
  <2> QED
    BY <1>1, <1>3, <1>8, <2>1, <2>2, PlacesAreFixed DEF StoredIsComplete
<1> QED
  BY <1>11, <1>12, <1>13, <1>14, <1>15 DEF GroupInv

-----------------------------------------------------------------------------
(* The call *)

\* A group that is returned is through its last loop.
AllStored == \A i \in Items : Storing(i) /\ ~Busy(i)

\* The inductive invariant.
Inv ==
  /\ problem \in Problems /\ device \in Devices
  /\ stage \in {"launch", "running", "returned", "thrown"}
  /\ Tuned(config, problem, device)
  /\ ~Running => group = NoGroup /\ NoItems /\ stored = {}
  /\ Running => GroupInv
  /\ stage = "returned" => AllStored

\* Nothing is said of more than the group and its launch.
LEMMA GroupStays ==
  ASSUME GroupInv, UNCHANGED <<problem, config, group>>,
         UNCHANGED <<passed, step, tile_src0, tile_src1, acc, stored>>
  PROVE  GroupInv' /\ AllStored' = AllStored
<1>1. Items' = Items /\ Cells' = Cells /\ Rows' = Rows /\ Groups' = Groups /\ Last' = Last
      /\ M' = M /\ K' = K /\ N' = N /\ TILE_SIZE' = TILE_SIZE
  BY ShapeIsFixed
<1>2. \A j : /\ TileOf(j)' = TileOf(j) /\ Summed(j)' = Summed(j) /\ Busy(j)' = Busy(j)
             /\ Loading(j)' = Loading(j) /\ Summing(j)' = Summing(j)
             /\ Storing(j)' = Storing(j)
  BY <1>1, PlacesAreFixed DEF TileOf, Summed, Busy, Loading, Summing, Storing
<1>3. GroupTypeOK /\ Together /\ OwnCellsAreLoaded /\ SumsArePartial /\ StoredIsComplete
  BY DEF GroupInv
<1>4. GroupTypeOK'
  <2>1. \A i \in Items : step[i] <= Steps(passed[i])'
    BY <1>3, PlacesAreFixed DEF GroupTypeOK
  <2> QED
    BY <1>1, <1>3, <2>1 DEF GroupTypeOK
<1>5. Together'
  BY <1>1, <1>2, <1>3 DEF Together
<1>6. OwnCellsAreLoaded'
  BY <1>1, <1>2, <1>3, PlacesAreFixed DEF OwnCellsAreLoaded
<1>7. SumsArePartial'
  BY <1>1, <1>2, <1>3, PlacesAreFixed DEF SumsArePartial
<1>8. StoredIsComplete'
  BY <1>1, <1>2, <1>3, PlacesAreFixed DEF StoredIsComplete
<1> QED
  BY <1>1, <1>2, <1>4, <1>5, <1>6, <1>7, <1>8 DEF GroupInv, AllStored

\* A group starts with no cell loaded, no product summed and nothing stored.
LEMMA StartEstablishes ==
  ASSUME Shape, stored = {}, Start
  PROVE  GroupInv'
<1>1. UNCHANGED <<problem, config, stored>> /\ group' \in Groups
      /\ passed' = [i \in Items |-> 0] /\ step' = [i \in Items |-> 0]
      /\ tile_src0' = [c \in Cells |-> Undefined] /\ tile_src1' = [c \in Cells |-> Undefined]
      /\ acc' = [i \in Items |-> [w \in Rows |-> {}]]
  BY DEF Start, launch
<1>2. Items' = Items /\ Cells' = Cells /\ Rows' = Rows /\ Groups' = Groups /\ Last' = Last
      /\ M' = M /\ K' = K /\ N' = N /\ TILE_SIZE' = TILE_SIZE /\ WPT_M' = WPT_M
  BY <1>1, ShapeIsFixed
<1>3. /\ Last \in Nat \ {0} /\ K \in Nat /\ WPT_M \in Nat /\ TILE_SIZE \in Nat
      /\ \A w \in Rows : w \in Nat
  BY DEF Shape, Rows, RowCounts, TileSizes
<1>4. Steps(0)' = WPT_M
  BY <1>2, <1>3 DEF Steps
<1>5. \A i \in Items : /\ Loading(i)' /\ ~Summing(i)' /\ ~Storing(i)' /\ TileOf(i)' = 0
  BY <1>1, <1>2, <1>3 DEF Loading, Summing, Storing, TileOf
<1>6. GroupTypeOK'
  <2>1. 0 \in 0..Last /\ Undefined \in Contents /\ {} \in SUBSET (Contents \X Contents)
    BY <1>3 DEF Contents
  <2>2. /\ passed' \in [Items -> 0..Last] /\ step' \in [Items -> Nat]
        /\ tile_src0' \in [Cells -> Contents] /\ tile_src1' \in [Cells -> Contents]
        /\ acc' \in [Items -> [Rows -> SUBSET (Contents \X Contents)]]
    BY <1>1, <2>1
  <2>3. \A i \in Items : step'[i] <= Steps(passed[i])'
    BY <1>1, <1>2, <1>3 DEF Steps
  <2> QED
    BY <1>1, <1>2, <2>2, <2>3 DEF GroupTypeOK
<1>7. Together'
  BY <1>1, <1>2 DEF Together
<1>8. OwnCellsAreLoaded'
  BY <1>1, <1>2, <1>3, <1>5 DEF OwnCellsAreLoaded
<1>9. SumsArePartial'
  <2>1. \A i \in Items : Summed(i)' = 0
    BY <1>2, <1>3, <1>5 DEF Summed
  <2>2. \A r, c : Partial(r, c, 0)' = {}
    BY <1>2, <1>3 DEF Partial
  <2> QED
    BY <1>1, <1>2, <2>1, <2>2 DEF SumsArePartial
<1>10. StoredIsComplete'
  BY <1>1, <1>2, <1>5 DEF StoredIsComplete
<1> QED
  BY <1>6, <1>7, <1>8, <1>9, <1>10 DEF GroupInv

\* What is tried after a failure is tuned, too.
LEMMA FallbackIsTuned ==
  ASSUME Inv, Fail
  PROVE  Tuned(config, problem, device)'
<1>1. PICK ts \in TileSizes, wpt \in RowCounts :
        ts % wpt = 0 /\ Roomy(ts, device) /\ config = Config(ts, wpt, M, N)
  BY DEF Inv, Tuned, M, N
<1>2. TILE_SIZE = ts
  BY <1>1 DEF TILE_SIZE, Config
<1>3. UNCHANGED <<problem, device>>
  BY DEF Fail, launch
<1>4. \/ config' = Config(ts, 1, M, N)
      \/ config' = Config(1, 1, M, N)
      \/ config' = config
  BY <1>2 DEF Fail, build_fallback_config
<1>5. 1 \in RowCounts /\ 1 \in TileSizes /\ Roomy(1, device)
  BY DEF RowCounts, TileSizes, Roomy
<1>6. ts % 1 = 0 /\ 1 % 1 = 0
  BY DEF TileSizes
<1> QED
  BY <1>1, <1>3, <1>4, <1>5, <1>6 DEF Tuned, M, N

LEMMA InitImpliesInv == Init => Inv
BY BuiltIsTuned DEF Init, Inv, Running

LEMMA NextKeepsInv == Inv /\ [Next]_vars => Inv'
<1> SUFFICES ASSUME Inv, [Next]_vars PROVE Inv'
  OBVIOUS
<1>1. Shape
  BY TunedHasShape DEF Inv
<1>2. CASE Start
  <2>1. GroupInv'
    BY <1>1, <1>2, StartEstablishes DEF Inv, Start, Running
  <2>2. UNCHANGED <<problem, device, config>> /\ stage' = "running"
    BY <1>2 DEF Start, launch
  <2> QED
    BY <2>1, <2>2 DEF Inv, Tuned, Running
<1>3. CASE Fail
  <2>1. Tuned(config, problem, device)'
    BY <1>3, FallbackIsTuned
  <2>2. /\ UNCHANGED <<problem, device>> /\ stage' \in {"launch", "thrown"}
        /\ group' = NoGroup /\ NoItems' /\ stored' = {}
    BY <1>3 DEF Fail, launch, NoItems
  <2> QED
    BY <2>1, <2>2 DEF Inv, Running, NoGroup
<1>4. ASSUME NEW i \in Items, Load(i) \/ Sum(i) \/ Barrier(i) \/ Store(i) PROVE Inv'
  <2>1. stage = "running" /\ UNCHANGED <<problem, device, config, stage>>
    BY <1>4 DEF Load, Sum, Barrier, Store, launch
  <2>2. GroupInv
    BY <2>1 DEF Inv, Running
  <2>3. GroupInv'
    BY <1>1, <1>4, <2>2, LoadKeeps, SumKeeps, BarrierKeeps, StoreKeeps
  <2> QED
    BY <2>1, <2>3 DEF Inv, Tuned, Running
<1>5. CASE Return
  <2>1. /\ UNCHANGED <<problem, device, config>> /\ stage = "running" /\ stage' = "returned"
        /\ UNCHANGED <<group, passed, step, tile_src0, tile_src1, acc, stored>> /\ AllStored
    BY <1>5 DEF Return, launch, locals, AllStored
  <2>2. GroupInv' /\ AllStored'
    BY <2>1, GroupStays DEF Inv, Running
  <2> QED
    BY <2>1, <2>2 DEF Inv, Tuned, Running
<1>6. CASE UNCHANGED vars
  <2>1. UNCHANGED <<problem, device, config, stage, group, passed, step,
                    tile_src0, tile_src1, acc, stored>>
    BY <1>6 DEF vars
  <2>2. Running => GroupInv'
    BY <2>1, GroupStays DEF Inv
  <2>3. stage = "returned" => AllStored'
    BY <2>1, GroupStays DEF Inv, Running
  <2> QED
    BY <2>1, <2>2, <2>3 DEF Inv, Tuned, Running, NoItems
<1> QED
  BY <1>2, <1>3, <1>4, <1>5, <1>6 DEF Next, Ended

-----------------------------------------------------------------------------
(* The properties *)

\* The invariant holds throughout.
LEMMA InvHolds == Spec => []Inv
BY InitImpliesInv, NextKeepsInv, PTL DEF Spec

LEMMA InvImpliesTypeOK == Inv => TypeOK
<1> SUFFICES ASSUME Inv PROVE TypeOK
  OBVIOUS
<1>1. \E ts \in TileSizes, wpt \in RowCounts : ts % wpt = 0 /\ config = Config(ts, wpt, M, N)
  BY DEF Inv, Tuned, M, N
<1> QED
  BY <1>1 DEF Inv, TypeOK, GroupInv

\* Every variable has its type, for every problem and device (multiply_matrix.cpp).
THEOREM TypeCorrect == Spec => []TypeOK
BY InvHolds, InvImpliesTypeOK, PTL

LEMMA InvImpliesFits == Inv => EveryLaunchFits
<1> SUFFICES ASSUME Inv, TILE_SIZE > 1
             PROVE  /\ config.local[1] * config.local[2] <= device.group
                    /\ local_mem_required(TILE_SIZE) <= device.memory
  BY DEF EveryLaunchFits
<1>1. PICK ts \in TileSizes, wpt \in RowCounts :
        Roomy(ts, device) /\ config = Config(ts, wpt, M, N)
  BY DEF Inv, Tuned, M, N
<1>2. TILE_SIZE = ts
  BY <1>1 DEF TILE_SIZE, Config
<1>3. ts * ts <= device.group /\ local_mem_required(ts) <= device.memory
  BY <1>1, <1>2 DEF Roomy
<1>4. config.local[1] = ts /\ config.local[2] = ts \div wpt
  BY <1>1 DEF Config
<1>5. ts * (ts \div wpt) <= ts * ts /\ ts * (ts \div wpt) \in Nat /\ ts * ts \in Nat
  BY DEF TileSizes, RowCounts
<1>6. device.group \in Nat
  BY MultiplyMatrixAssumption DEF Inv
<1> QED
  BY <1>2, <1>3, <1>4, <1>5, <1>6

\* No launch of the chain asks for more than the device has, whatever fails on the way
\* (multiply_matrix.cpp: build_config, the fallbacks of multiply_matrix_func).
THEOREM LaunchesFit == Spec => []EveryLaunchFits
BY InvHolds, InvImpliesFits, PTL

LEMMA InvImpliesCurrentTile == Inv => CurrentTileIsRead
<1> SUFFICES ASSUME Inv, stage = "running",
                    NEW i \in Items, Summing(i), Busy(i), NEW c \in Cells
             PROVE  LET offset == TileOf(i) * TILE_SIZE
                    IN /\ tile_src0[c] = Element0(group[2] * TILE_SIZE + c[2], offset + c[1])
                       /\ tile_src1[c] = Element1(offset + c[1], group[1] * TILE_SIZE + c[2])
  BY DEF CurrentTileIsRead
<1>1. Shape /\ GroupInv
  BY TunedHasShape DEF Inv, Running
<1>2. c[1] \in 0..TILE_SIZE - 1 /\ c[2] \in 0..TILE_SIZE - 1 /\ c = <<c[1], c[2]>>
  BY DEF Cells
<1>3. tile_src0[<<c[1], c[2]>>] =
        Element0(group[2] * TILE_SIZE + c[2], TileOf(i) * TILE_SIZE + c[1])
  BY <1>1, <1>2, TileIsWhole
<1>4. tile_src1[<<c[1], c[2]>>] =
        Element1(TileOf(i) * TILE_SIZE + c[1], group[1] * TILE_SIZE + c[2])
  BY <1>1, <1>2, TileIsWhole
<1> QED
  BY <1>2, <1>3, <1>4

\* The two barriers are enough: an item that sums never finds a cell of another tile, for
\* every extent, tile and number of rows (multiply_matrix.cpp: the kernel).
THEOREM BarriersSuffice == Spec => []CurrentTileIsRead
BY InvHolds, InvImpliesCurrentTile, PTL

LEMMA InvImpliesComplete == Inv => ProductIsComplete
<1> SUFFICES ASSUME Inv, stage = "returned", NEW row \in 0..M - 1, NEW col \in 0..N - 1,
                    row \div TILE_SIZE = group[2], col \div TILE_SIZE = group[1]
             PROVE  {s.sum : s \in {t \in stored : t.row = row /\ t.col = col}} =
                      {{<<<<row, k>>, <<k, col>>>> : k \in 0..K - 1}}
  BY DEF ProductIsComplete
<1>1. Shape /\ GroupInv /\ AllStored
  BY TunedHasShape DEF Inv, Running
<1>2. \A s \in stored : s.row = row /\ s.col = col => s.sum = Partial(row, col, K)
  BY <1>1 DEF GroupInv, StoredIsComplete
<1>3. Partial(row, col, K) = {<<<<row, k>>, <<k, col>>>> : k \in 0..K - 1}
  <2>1. {k \in 0..K - 1 : k < K} = 0..K - 1
    BY <1>1 DEF Shape
  <2> QED
    BY <2>1 DEF Partial
<1>4. PICK i \in Items, w \in Rows : i[1] = col % TILE_SIZE /\ TileRow(i, w) = row % TILE_SIZE
  <2>1. col % TILE_SIZE \in 0..TILE_SIZE - 1 /\ row % TILE_SIZE \in 0..TILE_SIZE - 1
    BY <1>1 DEF Shape, TileSizes
  <2> QED
    BY <1>1, <2>1, ItemsOfCells
<1>5. OutRow(group, i, w) = row /\ Column(group, i) = col
  <2>1. row \in Nat /\ col \in Nat /\ TILE_SIZE \in Nat \ {0}
    BY <1>1 DEF Shape, TileSizes
  <2>2. /\ row = group[2] * TILE_SIZE + (row % TILE_SIZE)
        /\ col = group[1] * TILE_SIZE + (col % TILE_SIZE)
    BY <2>1, QuotientAndRest
  <2> QED
    BY <1>1, <1>4, <2>2 DEF OutRow, Column, Shape
<1>6. Storing(i) /\ w < step[i]
  <2>1. /\ passed[i] = Last /\ ~(step[i] < Steps(Last))
    BY <1>1 DEF AllStored, Storing, Busy
  <2>2. Steps(Last) = WPT_M /\ WPT_M \in Nat
    BY <1>1 DEF Steps, Shape, RowCounts
  <2>3. step[i] \in Nat
    BY <1>1 DEF GroupInv, GroupTypeOK
  <2> QED
    BY <2>1, <2>2, <2>3 DEF Storing, Rows
<1>7. \E s \in stored : s.row = row /\ s.col = col
  <2>1. row < M /\ col < N
    BY <1>1 DEF Shape
  <2> QED
    BY <1>1, <1>5, <1>6, <2>1 DEF GroupInv, StoredIsComplete
<1> QED
  BY <1>2, <1>3, <1>7

\* The product of a call that returns is complete, for every problem and device
\* (multiply_matrix.cpp: the kernel and the launches).
THEOREM ProductsAreComplete == Spec => []ProductIsComplete
BY InvHolds, InvImpliesComplete, PTL

\* The grid has a group for every tile of the destination, the rest of the last included.
LEMMA GroupsAreTiles ==
  ASSUME Inv
  PROVE  Groups = (0..CeilDiv(N, TILE_SIZE) - 1) \X (0..CeilDiv(M, TILE_SIZE) - 1)
<1>1. Shape
  BY TunedHasShape DEF Inv
<1>2. PICK ts \in TileSizes, wpt \in RowCounts : ts % wpt = 0 /\ config = Config(ts, wpt, M, N)
  BY DEF Inv, Tuned, M, N
<1> DEFINE columns == CeilDiv(N, ts)
           rows == CeilDiv(M, ts)
<1>3. TILE_SIZE = ts
  BY <1>2 DEF TILE_SIZE, Config
<1>4. columns \in Nat \ {0} /\ rows \in Nat \ {0}
  BY <1>1, <1>3, CeilDivCovers DEF Shape, TileSizes
<1>5. Grid[1] = CeilDiv(columns * ts, ts) /\ Grid[2] = CeilDiv((rows * ts) \div wpt, ts \div wpt)
  BY <1>2 DEF Grid, computeGridSize, Config
<1> HIDE DEF columns, rows
<1>6. CeilDiv(columns * ts, ts) = columns
  BY <1>4 DEF CeilDiv, TileSizes
<1>7. CeilDiv((rows * ts) \div wpt, ts \div wpt) = rows
  <2>1. CASE wpt = 1
    BY <1>4, <2>1 DEF CeilDiv, TileSizes
  <2>2. CASE wpt = 2
    BY <1>2, <1>4, <2>2 DEF CeilDiv, TileSizes
  <2>3. CASE wpt = 4
    BY <1>2, <1>4, <2>3 DEF CeilDiv, TileSizes
  <2>4. CASE wpt = 8
    BY <1>2, <1>4, <2>4 DEF CeilDiv, TileSizes
  <2> QED
    BY <2>1, <2>2, <2>3, <2>4 DEF RowCounts
<1> QED
  BY <1>3, <1>5, <1>6, <1>7 DEF Groups, columns, rows

LEMMA InvImpliesOneItem == Inv => EveryElementHasOneItem
<1> SUFFICES ASSUME Inv, NEW row \in 0..M - 1, NEW col \in 0..N - 1
             PROVE  Cardinality({s \in Groups \X Items \X Rows :
                                   OutRow(s[1], s[2], s[3]) = row /\ Column(s[1], s[2]) = col}) = 1
  BY DEF EveryElementHasOneItem
<1> DEFINE S == {s \in Groups \X Items \X Rows :
                   OutRow(s[1], s[2], s[3]) = row /\ Column(s[1], s[2]) = col}
           T == TILE_SIZE
           g == <<col \div T, row \div T>>
<1>1. Shape
  BY TunedHasShape DEF Inv
<1>2. T \in Nat \ {0} /\ M \in Nat /\ N \in Nat /\ row \in Nat /\ col \in Nat
      /\ row < M /\ col < N
  BY <1>1 DEF Shape, TileSizes
<1>3. /\ row = (row \div T) * T + (row % T) /\ row \div T \in Nat /\ row % T \in 0..T - 1
      /\ col = (col \div T) * T + (col % T) /\ col \div T \in Nat /\ col % T \in 0..T - 1
  BY <1>2, QuotientAndRest
<1>4. g \in Groups
  <2>1. \A a \in Nat, b, q, r \in Nat : a < q * T /\ a = b * T + r => b < q
    <3> SUFFICES ASSUME NEW a \in Nat, NEW b \in Nat, NEW q \in Nat, NEW r \in Nat,
                        a < q * T, a = b * T + r, q <= b
                 PROVE  FALSE
      BY <1>2
    <3>1. b * T = q * T + (b - q) * T
      BY <1>2
    <3>2. (b - q) * T \in Nat /\ q * T \in Nat
      BY <1>2
    <3> QED
      BY <3>1, <3>2
  <2>2. /\ CeilDiv(M, T) \in Nat /\ M <= CeilDiv(M, T) * T
        /\ CeilDiv(N, T) \in Nat /\ N <= CeilDiv(N, T) * T
    BY <1>1, <1>2, CeilDivCovers DEF Shape
  <2>3. row < CeilDiv(M, T) * T /\ col < CeilDiv(N, T) * T
    <3>1. CeilDiv(M, T) * T \in Nat /\ CeilDiv(N, T) * T \in Nat
      BY <1>2, <2>2
    <3> QED
      BY <1>2, <2>2, <3>1
  <2>4. row \div T < CeilDiv(M, T) /\ col \div T < CeilDiv(N, T)
    BY <1>2, <1>3, <2>1, <2>2, <2>3
  <2> QED
    BY <1>3, <2>2, <2>4, GroupsAreTiles
<1>5. PICK i \in Items, w \in Rows : i[1] = col % T /\ TileRow(i, w) = row % T
  BY <1>1, <1>3, ItemsOfCells
<1>6. \A h \in Groups, j \in Items, v \in Rows :
        OutRow(h, j, v) = row /\ Column(h, j) = col <=> <<h, j, v>> = <<g, i, w>>
  <2> SUFFICES ASSUME NEW h \in Groups, NEW j \in Items, NEW v \in Rows
               PROVE  OutRow(h, j, v) = row /\ Column(h, j) = col <=> <<h, j, v>> = <<g, i, w>>
    OBVIOUS
  <2>1. /\ OutRow(h, j, v) = h[2] * T + TileRow(j, v)
        /\ Column(h, j) = h[1] * T + j[1]
    BY <1>1 DEF OutRow, Column, Shape
  <2>2. TileRow(j, v) \in 0..T - 1 /\ j[1] \in 0..T - 1
    BY <1>1, CellsOfItems DEF Shape
  <2>3. h[1] \in Nat /\ h[2] \in Nat /\ h = <<h[1], h[2]>>
    BY DEF Groups
  <2>4. ASSUME OutRow(h, j, v) = row, Column(h, j) = col
        PROVE  h = g /\ j = i /\ v = w
    <3> DEFINE x == col % T
               y == row % T
               a == col \div T
               b == row \div T
    <3> HIDE DEF T, x, y, a, b
    <3>1. /\ col = a * T + x /\ a \in Nat /\ x \in 0..T - 1
          /\ row = b * T + y /\ b \in Nat /\ y \in 0..T - 1
      BY <1>3 DEF x, y, a, b
    <3>2. a * T \in Nat /\ b * T \in Nat /\ h[1] * T \in Nat /\ h[2] * T \in Nat
      BY <1>2, <2>3, <3>1
    <3>3. /\ j[1] + h[1] * T = x + a * T /\ j[1] \in Nat /\ x \in Nat
          /\ TileRow(j, v) + h[2] * T = y + b * T
      BY <1>2, <2>1, <2>2, <2>4, <3>1, <3>2
    <3>4. j[1] = x /\ h[1] = a
      BY <1>2, <2>2, <2>3, <3>1, <3>3, RowsAreDistinct
    <3>5. TileRow(j, v) = y /\ h[2] = b
      BY <1>2, <2>2, <2>3, <3>1, <3>3, RowsAreDistinct
    <3>6. j = i /\ v = w
      BY <1>1, <1>5, <3>4, <3>5, ItemsAreApart DEF x, y, T
    <3>7. h = g
      BY <2>3, <3>4, <3>5 DEF a, b
    <3> QED
      BY <3>6, <3>7
  <2>5. ASSUME h = g, j = i, v = w
        PROVE  OutRow(h, j, v) = row /\ Column(h, j) = col
    <3>1. h[1] = col \div T /\ h[2] = row \div T
      BY <2>5
    <3> QED
      BY <1>3, <1>5, <2>1, <2>5, <3>1
  <2> QED
    BY <2>4, <2>5
<1>7. S = {<<g, i, w>>}
  BY <1>4, <1>5, <1>6
<1> QED
  BY <1>7, FS_Singleton

\* The ranges of every launch give each element of the destination to exactly one row of
\* one item (multiply_matrix.cpp: build_config and the out_row of the kernel).
THEOREM ElementsHaveOneItem == Spec => []EveryElementHasOneItem
BY InvHolds, InvImpliesOneItem, PTL
=============================================================================
