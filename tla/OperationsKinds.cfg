\* One operation of every kind on connections of every engine, cancelled; the PostgreSQL
\* connection is removed, under fairness.
CONSTANTS
    o1 = o1
    k1 = k1
    k2 = k2
    k3 = k3
    Ops = {o1}
    Conns = {k1, k2, k3}
    Kinds = {"stream", "direct", "redis", "analyze"}
    Engine <- EngineOf
    Cancellable = {o1}
    Removable = {k1}
    NoOp = NoOp
    NoConn = NoConn
SPECIFICATION FairSpec
INVARIANT TypeOK
INVARIANT UndisturbedOpForgotten
INVARIANT SlotNotOrphaned
PROPERTY SlotEventuallyFree
\* Each operation id is dispatched at most once, so a finite instance comes to rest.
CHECK_DEADLOCK FALSE
