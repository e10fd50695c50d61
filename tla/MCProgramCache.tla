--------------------------- MODULE MCProgramCache ---------------------------
(* Four keys compete for three places; one address more than a full list.  *)
EXTENDS ProgramCacheRetention

CONSTANTS k1, k2, k3, k4, p1, p2, null, n1, n2, n3, n4
MCKeys == {k1, k2, k3, k4}
MCPrograms == {p1, p2}
MCNodes == {n1, n2, n3, n4}
=============================================================================
