---------------------------- MODULE MCKernelBuild ----------------------------
(* Two processes, a source that defines two of the three kernel names and  *)
(* a source the compiler rejects, files of two chunks, a memory of one     *)
(* entry for which the two kernels compete.                                *)
EXTENDS KernelBuild, TLC

CONSTANTS p1, p2, good, bad, blur, sobel, typo
MCProcs == {p1, p2}
MCSources == {good, bad}
MCNames == {blur, sobel, typo}
MCDefines == (good :> {blur, sobel}) @@ (bad :> {blur})
MCCompilable == {good}
MCRequests == [source : {good}, name : MCNames] \cup [source : {bad}, name : {blur}]
=============================================================================
