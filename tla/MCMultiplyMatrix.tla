-------------------------- MODULE MCMultiplyMatrix ---------------------------
\* Products that leave a rest in every direction, for tiles of one, two and four; devices
\* without room for tiles, with room for the small or the large ones, and a CPU.
EXTENDS MultiplyMatrix

Gpu(items, bytes) == [cpu |-> FALSE, group |-> items, memory |-> bytes]

MCProblems == {[M |-> 4, K |-> 3, N |-> 2], [M |-> 5, K |-> 4, N |-> 5],
               [M |-> 4, K |-> 5, N |-> 6], [M |-> 9, K |-> 10, N |-> 11]}
MCDevices == {Gpu(1, 160), Gpu(4, 160), Gpu(16, 48), Gpu(16, 160), Gpu(16, 40),
              [cpu |-> TRUE, group |-> 16, memory |-> 160]}
=============================================================================
