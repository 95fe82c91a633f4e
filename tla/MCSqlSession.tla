--------------------------- MODULE MCSqlSession ---------------------------
\* SqlSession on small instances: every session belongs to the connection k1.
EXTENDS SqlSession, TLC

CONSTANTS k1

HomeOf == [s \in Sessions |-> k1]
Symmetry == Permutations(Calls)
=============================================================================
