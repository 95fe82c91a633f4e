-------------------------- MODULE MCSshTunnelPool --------------------------
\* SshTunnelPool on small instances: c4 tunnels to another host than the others.
EXTENDS SshTunnelPool, TLC

CONSTANTS c4, j1, j2

KeysOf == [c \in Conns |-> IF c = c4 THEN j2 ELSE j1]
Symmetry == Permutations(Conns \ {c4})
=============================================================================
