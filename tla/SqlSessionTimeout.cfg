\* An end() that waits for a statement which then reaches its limit.
CONSTANTS
    s1 = s1
    c1 = c1
    c2 = c2
    k1 = k1
    Sessions = {s1}
    Conns = {k1}
    Calls = {c1, c2}
    Keepers = {}
    Home <- HomeOf
    Removable = {}
    NoSession = NoSession
    Nobody = Nobody
SYMMETRY Symmetry
SPECIFICATION Spec
INVARIANT TimedOutRollsBack
\* The frontend may stop calling and every call is made at most once.
CHECK_DEADLOCK FALSE
