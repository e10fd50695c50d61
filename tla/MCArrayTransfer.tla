-------------------------- MODULE MCArrayTransfer --------------------------
(* Two arrays, cut from buffers with one or two rows and slices. *)
EXTENDS ArrayTransfer, TLC

CONSTANTS x, y, m1, m2
MCHandles == {x, y}
MCMemories == {m1, m2}
MCExtents == {<<2, 1, 2>>, <<2, 2, 1>>, <<2, 2, 2>>, <<4, 1, 1>>}
Symmetric == Permutations(MCHandles) \cup Permutations(MCMemories)
=============================================================================
