--------------------------- MODULE MCPipelineLock ---------------------------
(* Instances of PipelineLock for TLC.                                      *)
EXTENDS PipelineLock, TLC

CONSTANTS p1, p2, p3, n1, n2, n3, n4

ThreeProcs == {p1, p2, p3}
FourNames  == {n1, n2, n3, n4}
=============================================================================
