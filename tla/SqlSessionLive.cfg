\* One session, two calls and the idle watch, under fairness.
CONSTANTS
    s1 = s1
    c1 = c1
    c2 = c2
    w1 = w1
    k1 = k1
    Sessions = {s1}
    Conns = {k1}
    Calls = {c1, c2}
    Keepers = {w1}
    Home <- HomeOf
    Removable = {}
    NoSession = NoSession
    Nobody = Nobody
SPECIFICATION FairSpec
PROPERTY EndReturns
PROPERTY SessionEnds
\* The frontend may stop calling and every call is made at most once.
CHECK_DEADLOCK FALSE
