--------------------------- MODULE MCOperations ---------------------------
\* Operations on small instances: k1 is a PostgreSQL connection, k2 one of an
\* engine with Notify handles, k3 a Redis connection.
EXTENDS Operations, TLC

CONSTANTS k1, k2, k3

EngineOf == [k \in Conns |-> CASE k = k1 -> "postgres"
                               [] k = k2 -> "notify"
                               [] k = k3 -> "redis"]
Symmetry == Permutations(Ops)
=============================================================================
