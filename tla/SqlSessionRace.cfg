\* One session and three calls of any kind, in any order, while its connection is removed.
CONSTANTS
    s1 = s1
    c1 = c1
    c2 = c2
    c3 = c3
    k1 = k1
    Sessions = {s1}
    Conns = {k1}
    Calls = {c1, c2, c3}
    Keepers = {}
    Home <- HomeOf
    Removable = {k1}
    NoSession = NoSession
    Nobody = Nobody
SYMMETRY Symmetry
SPECIFICATION Spec
INVARIANT TypeOK
INVARIANT ClosedNeverCommits
INVARIANT EndIsTruthful
INVARIANT TakeTurns
INVARIANT RemovedHoldsNoSession
PROPERTY ImplementsOutcome
\* The frontend may stop calling and every call is made at most once.
CHECK_DEADLOCK FALSE
