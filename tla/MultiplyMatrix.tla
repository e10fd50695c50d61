--------------------------- MODULE MultiplyMatrix ----------------------------
(***************************************************************************)
(* The tiled matrix product of multiply_matrix.cpp: the configuration it   *)
(* chooses for a device, the chain of launches it falls back along, and    *)
(* the work items of one work group, which share two tiles in local memory *)
(* and meet at barriers.                                                   *)
(*                                                                         *)
(* A problem has the extents M, K, N of a product (M,K) x (K,N); a device  *)
(* says whether it is a CPU, how many items a group may have and how much  *)
(* local memory.  An element of a matrix is its position; a product is the *)
(* pair of the two elements, a sum the set of its products.                *)
(***************************************************************************)
EXTENDS LaunchGeometry, FiniteSets

CONSTANTS Problems, Devices,
          MaxItems    \* bound: groups with more work items are not run

ASSUME MultiplyMatrixAssumption ==
  /\ \A p \in Problems : p.M \in Nat \ {0} /\ p.K \in Nat \ {0} /\ p.N \in Nat \ {0}
  /\ \A d \in Devices : d.cpu \in BOOLEAN /\ d.group \in Nat \ {0} /\ d.memory \in Nat
  /\ MaxItems \in Nat

VARIABLES problem, device, config, stage, group,
          passed, step, tile_src0, tile_src1, acc, stored

launch == <<problem, device>>
locals == <<tile_src0, tile_src1>>
vars == <<problem, device, config, stage, group, passed, step, tile_src0, tile_src1, acc, stored>>

-----------------------------------------------------------------------------
(* The configuration *)

\* Mutant of Config: the ranges lose the rest of the extents.
ConfigOfWholeTiles(tile_size, wpt_m, M, N) ==
  [tile |-> tile_size, wpt |-> wpt_m,
   local |-> <<tile_size, tile_size \div wpt_m, 1>>,
   global |-> <<(N \div tile_size) * tile_size,
                ((M \div tile_size) * tile_size) \div wpt_m, 1>>]

Config(tile_size, wpt_m, M, N) ==
  [tile |-> tile_size, wpt |-> wpt_m,
   local |-> <<tile_size, tile_size \div wpt_m, 1>>,
   global |-> <<CeilDiv(N, tile_size) * tile_size,
                (CeilDiv(M, tile_size) * tile_size) \div wpt_m, 1>>]

build_fallback_config(M, N) == Config(1, 1, M, N)

local_mem_required(tile_size) == 2 * tile_size * (tile_size + 1) * 4

validate_config(candidate, d) ==
  /\ candidate.local[1] * candidate.local[2] <= d.group
  /\ candidate.local[1] <= 256 /\ candidate.local[2] <= 256
  /\ local_mem_required(candidate.tile) <= d.memory
  /\ candidate.tile % candidate.wpt = 0
  /\ candidate.local[2] >= 1

Largest(candidates) == CHOOSE c \in candidates : \A other \in candidates : other <= c

next_power_of_2(v) == CHOOSE p \in {1, 2, 4, 8, 16, 32} : v <= p /\ 2 * v > p

\* Mutant of select_tile_size: only the rows of one item are counted.
TileOfOneRow(M, K, N, d) ==
  LET min_dim == Smallest(M, Smallest(K, N))
      root == CHOOSE r \in 1..min_dim : r * r <= min_dim /\ (r + 1) * (r + 1) > min_dim
      ideal == next_power_of_2(Smallest(root, 32))
      fitting == {ts \in {2, 4, 8, 16, 32} :
                    ts <= ideal /\ local_mem_required(ts) <= d.memory /\ ts <= d.group}
  IN Largest(fitting \cup {1})

\* The largest tile that fits the device and is no larger than the root of the smallest
\* extent, rounded up to a power of two.
select_tile_size(M, K, N, d) ==
  LET min_dim == Smallest(M, Smallest(K, N))
      root == CHOOSE r \in 1..min_dim : r * r <= min_dim /\ (r + 1) * (r + 1) > min_dim
      ideal == next_power_of_2(Smallest(root, 32))
      fitting == {ts \in {2, 4, 8, 16, 32} :
                    ts <= ideal /\ local_mem_required(ts) <= d.memory /\ ts * ts <= d.group}
  IN Largest(fitting \cup {1})

\* How many rows of a tile one work item computes.
select_wpt_m(tile_size, d) ==
  Largest({wpt \in {1, 2, 4, 8} :
             /\ wpt <= tile_size /\ tile_size % wpt = 0
             /\ tile_size * (tile_size \div wpt) <= d.group} \cup {1})

build_config(p, d) ==
  LET tile_size == select_tile_size(p.M, p.K, p.N, d)
      small == Smallest(tile_size, 4)
      Candidate(ts, wpt) == Config(ts, wpt, p.M, p.N)
      Valid(ts, wpt) == validate_config(Candidate(ts, wpt), d)
      wpt_m == select_wpt_m(tile_size, d)
  IN IF d.cpu \/ (p.M <= 4 /\ p.K <= 4 /\ p.N <= 4) THEN build_fallback_config(p.M, p.N)
     ELSE IF Valid(tile_size, wpt_m) THEN Candidate(tile_size, wpt_m)
     ELSE IF Valid(tile_size, 1) THEN Candidate(tile_size, 1)
     ELSE IF Valid(small, 1) THEN Candidate(small, 1)
     ELSE build_fallback_config(p.M, p.N)

-----------------------------------------------------------------------------
(* The work group *)

TILE_SIZE == config.tile
WPT_M == config.wpt
RTS_M == TILE_SIZE \div WPT_M

\* Extents of the matrices, and tiles along the inner one; the mutant of num_tiles
\* loses the last one that is not whole.
M == problem.M
K == problem.K
N == problem.N
num_whole_tiles == K \div TILE_SIZE
num_tiles == CeilDiv(K, TILE_SIZE)

\* Work items by their local ids, work groups by their group ids.
Items == (0..config.local[1] - 1) \X (0..config.local[2] - 1)
Grid == computeGridSize(config.global, config.local)
Groups == (0..Grid[1] - 1) \X (0..Grid[2] - 1)

Cells == (0..TILE_SIZE - 1) \X (0..TILE_SIZE - 1)
Rows == 0..WPT_M - 1

\* The padding a tile is filled up with, and what local memory holds at first.
Zero == <<-1, -1>>
Undefined == <<-2, -2>>
Element0(row, col) == IF row < M /\ col < K THEN <<row, col>> ELSE Zero
Element1(row, col) == IF row < K /\ col < N THEN <<row, col>> ELSE Zero

Column(g, i) == g[1] * config.local[1] + i[1]
TileRow(i, w) == i[2] + w * RTS_M

OutRow(g, i, w) == g[2] * TILE_SIZE + TileRow(i, w)

\* An item is in the phase between two barriers, numbered by those it has passed: it
\* loads in even ones, sums in odd ones and stores after the last.
Last == 2 * num_tiles
Loading(i) == passed[i] < Last /\ passed[i] % 2 = 0
Summing(i) == passed[i] < Last /\ passed[i] % 2 = 1
Storing(i) == passed[i] = Last
Steps(phase) == IF phase < Last /\ phase % 2 = 1 THEN TILE_SIZE ELSE WPT_M
TileOf(i) == passed[i] \div 2

\* Mutant of Busy: the loops run once more.
BusyOnceMore(i) == step[i] <= Steps(passed[i])

Busy(i) == step[i] < Steps(passed[i])
Advance(i) == step' = [step EXCEPT ![i] = @ + 1]

\* One pass of the loop that loads an element of each tile; the first tile is transposed.
LoadRow(i, row, offset) ==
  /\ tile_src0' = [tile_src0 EXCEPT ![<<i[1], row>>] =
                      Element0(group[2] * TILE_SIZE + row, offset + i[1])]
  /\ tile_src1' = [tile_src1 EXCEPT ![<<row, i[1]>>] = Element1(offset + row, Column(group, i))]

\* Mutant of Load: an item without a column of the destination returns before the barriers.
LoadInside(i) ==
  /\ stage = "running" /\ Loading(i) /\ Busy(i) /\ Column(group, i) < N
  /\ LoadRow(i, TileRow(i, step[i]), TileOf(i) * TILE_SIZE)
  /\ Advance(i)
  /\ UNCHANGED <<launch, config, stage, group, passed, acc, stored>>

Load(i) ==
  /\ stage = "running" /\ Loading(i) /\ Busy(i)
  /\ LoadRow(i, TileRow(i, step[i]), TileOf(i) * TILE_SIZE)
  /\ Advance(i)
  /\ UNCHANGED <<launch, config, stage, group, passed, acc, stored>>

\* Mutant of Arrived: nobody waits at the barrier after the sums.
ArrivedUnlessSummed(i, j) ==
  \/ Summing(i)
  \/ passed[j] > passed[i]
  \/ passed[j] = passed[i] /\ ~Busy(j)

Arrived(i, j) == passed[j] > passed[i] \/ (passed[j] = passed[i] /\ ~Busy(j))

\* An item passes a barrier when all items of the group have come to it.
Barrier(i) ==
  /\ stage = "running" /\ passed[i] < Last /\ ~Busy(i)
  /\ \A j \in Items : Arrived(i, j)
  /\ passed' = [passed EXCEPT ![i] = @ + 1]
  /\ step' = [step EXCEPT ![i] = 0]
  /\ UNCHANGED <<launch, config, stage, group, locals, acc, stored>>

Product(a, b) == IF Zero \in {a, b} THEN {} ELSE {<<a, b>>}

\* One pass of the loop over the inner extent of the tiles.
Sum(i) ==
  /\ stage = "running" /\ Summing(i) /\ Busy(i)
  /\ acc' = [acc EXCEPT ![i] = [w \in Rows |->
               @[w] \cup Product(tile_src0[<<step[i], TileRow(i, w)>>],
                                 tile_src1[<<step[i], i[1]>>])]]
  /\ Advance(i)
  /\ UNCHANGED <<launch, config, stage, group, passed, locals, stored>>

\* One pass of the loop that writes the destination.
Store(i) ==
  /\ stage = "running" /\ Storing(i) /\ Busy(i)
  /\ LET row == OutRow(group, i, step[i])
         col == Column(group, i)
     IN stored' = IF row < M /\ col < N
                  THEN stored \cup {[row |-> row, col |-> col, by |-> i, sum |-> acc[i][step[i]]]}
                  ELSE stored
  /\ Advance(i)
  /\ UNCHANGED <<launch, config, stage, group, passed, locals, acc>>

-----------------------------------------------------------------------------
(* The launches *)

NoGroup == <<0, 0>>
NoItems == passed = <<>> /\ step = <<>> /\ tile_src0 = <<>> /\ tile_src1 = <<>> /\ acc = <<>>

\* multiply_matrix_func, up to the first launch.
Init ==
  /\ problem \in Problems
  /\ device \in Devices
  /\ config = build_config(problem, device)
  /\ stage = "launch" /\ group = NoGroup /\ NoItems /\ stored = {}

\* The driver takes the launch; one of its groups is watched.
Start ==
  /\ stage = "launch" /\ config.local[1] * config.local[2] <= MaxItems
  /\ stage' = "running"
  /\ group' \in Groups
  /\ passed' = [i \in Items |-> 0] /\ step' = [i \in Items |-> 0]
  /\ tile_src0' = [c \in Cells |-> Undefined] /\ tile_src1' = [c \in Cells |-> Undefined]
  /\ acc' = [i \in Items |-> [w \in Rows |-> {}]]
  /\ UNCHANGED <<launch, config, stored>>

\* execute throws, because the driver refuses the launch or because the wait for it
\* reports an error: again with one row for each item, then without tiles.
Fail ==
  /\ stage \in {"launch", "running"}
  /\ \/ WPT_M > 1 /\ config' = Config(TILE_SIZE, 1, M, N) /\ stage' = "launch"
     \/ WPT_M = 1 /\ TILE_SIZE > 1 /\ config' = build_fallback_config(M, N) /\ stage' = "launch"
     \/ TILE_SIZE = 1 /\ config' = config /\ stage' = "thrown"
  /\ group' = NoGroup /\ passed' = <<>> /\ step' = <<>> /\ acc' = <<>>
  /\ tile_src0' = <<>> /\ tile_src1' = <<>> /\ stored' = {}
  /\ UNCHANGED launch

\* The group is done; the destination it has written is returned.
Return ==
  /\ stage = "running" /\ \A i \in Items : Storing(i) /\ ~Busy(i)
  /\ stage' = "returned"
  /\ UNCHANGED <<launch, config, group, passed, step, locals, acc, stored>>

\* The end of a call: no further step.
Ended == stage \in {"returned", "thrown"} /\ UNCHANGED vars

Next ==
  \/ Start
  \/ Fail
  \/ \E i \in Items : Load(i) \/ Sum(i) \/ Barrier(i) \/ Store(i)
  \/ Return
  \/ Ended

Spec == Init /\ [][Next]_vars

\* A launch is taken or refused, and a device runs the items of a group it has started.
FairSpec ==
  /\ Spec
  /\ WF_vars(Start \/ (stage = "launch" /\ Fail))
  /\ WF_vars(Return)
  /\ WF_vars(\E i \in Items : Load(i) \/ Sum(i) \/ Barrier(i) \/ Store(i))

-----------------------------------------------------------------------------
(* What must hold *)

Contents == (Nat \X Nat) \cup {Zero, Undefined}
TileSizes == {1, 2, 4, 8, 16, 32}
RowCounts == {1, 2, 4, 8}
Running == stage \in {"running", "returned"}

GroupTypeOK ==
  /\ group \in Groups
  /\ passed \in [Items -> 0..Last]
  /\ step \in [Items -> Nat] /\ \A i \in Items : step[i] <= Steps(passed[i])
  /\ tile_src0 \in [Cells -> Contents] /\ tile_src1 \in [Cells -> Contents]
  /\ acc \in [Items -> [Rows -> SUBSET (Contents \X Contents)]]
  /\ stored \subseteq [row : 0..M - 1, col : 0..N - 1, by : Items,
                      sum : SUBSET (Contents \X Contents)]

\* Every variable has its type: the configuration is one the tuner can build, and no item
\* runs past the loops of its phase or a barrier past the last tile.
TypeOK ==
  /\ problem \in Problems /\ device \in Devices
  /\ stage \in {"launch", "running", "returned", "thrown"}
  /\ \E ts \in TileSizes, wpt \in RowCounts : ts % wpt = 0 /\ config = Config(ts, wpt, M, N)
  /\ ~Running => group = NoGroup /\ NoItems /\ stored = {}
  /\ Running => GroupTypeOK

\* Every launch of the chain, the ones after a failure too, has a group and tiles the
\* device has room for; without tiles nothing smaller is left to try
\* (multiply_matrix.cpp: validate_config sees the first configuration only).
EveryLaunchFits ==
  TILE_SIZE > 1 =>
    /\ config.local[1] * config.local[2] <= device.group
    /\ local_mem_required(TILE_SIZE) <= device.memory

\* Every element of the destination is written by exactly one row of one item of one
\* group, whatever the extents leave over of the last tiles (multiply_matrix.cpp: the
\* ranges of build_config, the out_row of the kernel).
EveryElementHasOneItem ==
  stage = "launch" =>
    \A row \in 0..M - 1, col \in 0..N - 1 :
      Cardinality({s \in Groups \X Items \X Rows :
                     OutRow(s[1], s[2], s[3]) = row /\ Column(s[1], s[2]) = col}) = 1

\* While an item sums, every cell of the two tiles holds the element of its current tile:
\* all items have loaded theirs, and none that is ahead has loaded the next
\* (multiply_matrix.cpp: the two barriers of the kernel).
CurrentTileIsRead ==
  stage = "running" =>
    \A i \in Items : Summing(i) /\ Busy(i) =>
      LET offset == TileOf(i) * TILE_SIZE
      IN \A c \in Cells :
           /\ tile_src0[c] = Element0(group[2] * TILE_SIZE + c[2], offset + c[1])
           /\ tile_src1[c] = Element1(offset + c[1], group[1] * TILE_SIZE + c[2])

\* A group that is done has stored each of its elements of the destination, and whatever
\* it has stored is the sum of all products of a row and a column (multiply_matrix.cpp: the kernel).
ProductIsComplete ==
  stage = "returned" =>
    \A row \in 0..M - 1, col \in 0..N - 1 :
      row \div TILE_SIZE = group[2] /\ col \div TILE_SIZE = group[1] =>
        {s.sum : s \in {t \in stored : t.row = row /\ t.col = col}} =
          {{<<<<row, k>>, <<k, col>>>> : k \in 0..K - 1}}

\* Every call returns its product or throws after the last configuration: no item
\* waits for ever at a barrier others do not come to (multiply_matrix.cpp: items outside
\* the matrices load zeros instead of returning, and the chain of launches ends).
CallEnds == <>(stage \in {"returned", "thrown"})
=============================================================================
