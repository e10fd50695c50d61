------------------------ MODULE LaunchGeometry_proofs -------------------------
(***************************************************************************)
(* What the launch geometry promises for every range: a CUDA block the     *)
(* device accepts, a grid that covers the range and has no block outside   *)
(* of it, and whole groups for the element-wise kernels of fft.cpp.        *)
(***************************************************************************)
EXTENDS LaunchGeometry, TLAPS

\* Rounding up: enough blocks, and none too many.
LEMMA CeilDivCovers ==
  ASSUME NEW a \in Nat \ {0}, NEW b \in Nat \ {0}
  PROVE  /\ CeilDiv(a, b) \in Nat \ {0}
         /\ a <= CeilDiv(a, b) * b
         /\ (CeilDiv(a, b) - 1) * b < a
<1> DEFINE n == a + b - 1
           q == n \div b
<1>1. n \in Nat /\ n >= b
  OBVIOUS
<1>2. q \in Int /\ n = b * q + (n % b) /\ 0 <= n % b /\ n % b < b
  BY <1>1
<1>. HIDE DEF q
<1>3. q >= 1
  <2>1. SUFFICES ASSUME q <= 0 PROVE FALSE
    BY <1>2
  <2>2. b * q <= 0
    BY <1>2, <2>1
  <2> QED
    BY <1>1, <1>2, <2>2
<1>4. b * q = q * b /\ (q - 1) * b = q * b - b
  BY <1>2
<1>5. a <= q * b /\ (q - 1) * b < a
  BY <1>2, <1>4
<1> QED
  BY <1>2, <1>3, <1>5 DEF CeilDiv, q

\* The threads of a block: at least one along each axis, no more than the range has, and
\* together no more than 256 (cudabackend.cpp: computeBlockSize).  The loop of the code
\* that halves blocks of more than 1024 threads is never entered.
THEOREM BlockFits ==
  ASSUME NEW global_size \in [1..3 -> Nat \ {0}]
  PROVE  LET block == computeBlockSize(global_size)
         IN /\ block \in [1..3 -> 1..256] /\ block[3] <= 64
            /\ \A i \in 1..3 : block[i] <= global_size[i]
            /\ block[1] * block[2] * block[3] <= 256
<1> DEFINE x == global_size[1]
           y == global_size[2]
           z == global_size[3]
           block == computeBlockSize(global_size)
<1>1. x \in Nat \ {0} /\ y \in Nat \ {0} /\ z \in Nat \ {0}
  OBVIOUS
<1>2. /\ block[1] = Smallest(IF x > 1 THEN Smallest(x, Preferred(global_size, 1)) ELSE 1, 256)
      /\ block[2] = Smallest(IF y > 1 THEN Smallest(y, Preferred(global_size, 2)) ELSE 1, 256)
      /\ block[3] = Smallest(IF z > 1 THEN Smallest(z, Preferred(global_size, 3)) ELSE 1, 64)
  BY DEF computeBlockSize, Active
<1>3. Dimensions(global_size) = (IF x > 1 THEN 1 ELSE 0) + (IF y > 1 THEN 1 ELSE 0)
                                + (IF z > 1 THEN 1 ELSE 0)
  BY DEF Dimensions, Active
<1>4. /\ First(global_size, 1)
      /\ First(global_size, 2) <=> ~(x > 1)
      /\ First(global_size, 3) <=> ~(x > 1) /\ ~(y > 1)
  BY DEF First, Active
<1>5. \A i \in 1..3 : Preferred(global_size, i) \in {256, 32, 8, 1}
  BY <1>3 DEF Preferred
<1>6. /\ block[1] \in 1..256 /\ block[2] \in 1..256 /\ block[3] \in 1..64
      /\ block[1] <= x /\ block[2] <= y /\ block[3] <= z
  BY <1>1, <1>2, <1>5 DEF Smallest
<1>7. block[1] * block[2] * block[3] <= 256
  <2>1. CASE Dimensions(global_size) <= 1
    <3>1. \/ block[2] = 1 /\ block[3] = 1
          \/ block[1] = 1 /\ block[3] = 1
          \/ block[1] = 1 /\ block[2] = 1
      BY <1>1, <1>2, <1>3, <2>1 DEF Smallest
    <3> QED
      BY <3>1, <1>6
  <2>2. CASE Dimensions(global_size) = 2
    <3>1. \A i \in 1..3 : Preferred(global_size, i) = IF First(global_size, i) THEN 32 ELSE 8
      BY <2>2 DEF Preferred
    <3>2. \/ block[1] <= 32 /\ block[2] <= 8 /\ block[3] = 1
          \/ block[1] <= 32 /\ block[2] = 1 /\ block[3] <= 8
          \/ block[1] = 1 /\ block[2] <= 32 /\ block[3] <= 8
      BY <1>1, <1>2, <1>3, <1>4, <2>2, <3>1 DEF Smallest
    <3>3. \A a \in 1..32, b \in 1..8 : a * b <= 256
      OBVIOUS
    <3> QED
      BY <1>6, <3>2, <3>3
  <2>3. CASE Dimensions(global_size) > 2
    <3>1. block[1] <= 32 /\ block[2] <= 8 /\ block[3] = 1
      BY <1>1, <1>2, <1>3, <2>3 DEF Smallest, Preferred
    <3>2. \A a \in 1..32, b \in 1..8 : a * b <= 256
      OBVIOUS
    <3> QED
      BY <1>6, <3>1, <3>2
  <2> QED
    BY <1>3, <2>1, <2>2, <2>3
<1>8. block \in [1..3 -> 1..256]
  BY <1>6 DEF computeBlockSize
<1> QED
  BY <1>6, <1>7, <1>8

\* The grid of the automatic block covers every element of the range, and its last block
\* along each axis has one (cudabackend.cpp: computeGridSize).  The threads past the
\* range are for the kernel to send back.
THEOREM GridCovers ==
  ASSUME NEW global_size \in [1..3 -> Nat \ {0}], NEW i \in 1..3
  PROVE  LET block == computeBlockSize(global_size)
             grid == computeGridSize(global_size, block)
         IN /\ global_size[i] <= grid[i] * block[i]
            /\ (grid[i] - 1) * block[i] < global_size[i]
<1> DEFINE block == computeBlockSize(global_size)
<1>1. block[i] \in Nat \ {0} /\ global_size[i] \in Nat \ {0}
  BY BlockFits
<1> HIDE DEF block
<1>2. computeGridSize(global_size, block)[i] = CeilDiv(global_size[i], block[i])
  BY DEF computeGridSize
<1> QED
  BY <1>1, <1>2, CeilDivCovers DEF block

\* The element-wise kernels of fft.cpp run over whole groups the device accepts, and over
\* every element (fft.cpp: execOperationKernel, execRemoveSmallValues).
THEOREM ElementsCovered ==
  ASSUME NEW n \in Nat \ {0}, NEW device_group \in Nat \ {0}
  PROVE  /\ GroupItems(device_group) <= device_group
         /\ n <= ElementRange(n, device_group)
         /\ ElementRange(n, device_group) < n + GroupItems(device_group)
<1>1. GroupItems(device_group) \in Nat \ {0} /\ GroupItems(device_group) <= device_group
  BY DEF GroupItems, Smallest
<1> DEFINE g == GroupItems(device_group)
           c == CeilDiv(n, g)
<1>2. c \in Nat \ {0} /\ n <= c * g /\ (c - 1) * g < n
  BY <1>1, CeilDivCovers
<1> HIDE DEF c, g
<1>3. g \in Nat \ {0}
  BY <1>1 DEF g
<1>4. (c - 1) * g = c * g - g
  BY <1>2, <1>3
<1>5. c * g \in Nat
  BY <1>2, <1>3
<1>6. n <= c * g /\ c * g < n + g
  BY <1>2, <1>3, <1>4, <1>5
<1> QED
  BY <1>1, <1>6 DEF ElementRange, c, g
=============================================================================
