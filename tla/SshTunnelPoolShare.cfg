\* Three connections through one tunnel and a fourth through another, created, failing to
\* connect and removed in any order.
CONSTANTS
    c1 = c1
    c2 = c2
    c3 = c3
    c4 = c4
    j1 = j1
    j2 = j2
    Conns = {c1, c2, c3, c4}
    Keys = {j1, j2}
    KeyOf <- KeysOf
    NoTunnel = NoTunnel
SYMMETRY Symmetry
SPECIFICATION Spec
INVARIANT TypeOK
INVARIANT RefsCountHolders
INVARIANT HeldTunnelIsOpen
\* Every connection is created and removed at most once.
CHECK_DEADLOCK FALSE
