--------------------------- MODULE LaunchGeometry ----------------------------
(***************************************************************************)
(* How many work items a launch gets: the blocks and grids of the CUDA     *)
(* backend (cudabackend.cpp) and the ranges fft.cpp rounds up.  Extents    *)
(* are triples of positive numbers.                                        *)
(***************************************************************************)
EXTENDS Integers

Smallest(a, b) == IF a < b THEN a ELSE b

CeilDiv(a, b) == (a + b - 1) \div b

Active(global_size, i) == global_size[i] > 1

\* The axes that have an extent, and whether one is the first of them.
Dimensions(global_size) ==
  LET one(i) == IF Active(global_size, i) THEN 1 ELSE 0 IN one(1) + one(2) + one(3)
First(global_size, i) == \A j \in 1..3 : j < i => ~Active(global_size, j)

\* Threads along an axis before the limit of the z axis.
Preferred(global_size, i) ==
  IF Dimensions(global_size) <= 1 THEN 256
  ELSE IF Dimensions(global_size) = 2 THEN IF First(global_size, i) THEN 32 ELSE 8
  ELSE <<32, 8, 1>>[i]

\* The loop that halves blocks of more than 1024 threads is never entered
\* (LaunchGeometry_proofs, BlockFits).
computeBlockSize(global_size) ==
  [i \in 1..3 |->
     Smallest(IF Active(global_size, i) THEN Smallest(global_size[i], Preferred(global_size, i))
              ELSE 1,
              IF i = 3 THEN 64 ELSE 256)]

computeGridSize(global_size, block_size) ==
  [i \in 1..3 |-> CeilDiv(global_size[i], block_size[i])]

\* execOperationKernel and execRemoveSmallValues: n elements in whole groups.
GroupItems(device_group) == Smallest(256, device_group)
ElementRange(n, device_group) ==
  CeilDiv(n, GroupItems(device_group)) * GroupItems(device_group)

=============================================================================
