\* Two streams or analyses of one PostgreSQL connection, each cancelled at any time, again and again.
CONSTANTS
    o1 = o1
    o2 = o2
    k1 = k1
    k2 = k2
    k3 = k3
    Ops = {o1, o2}
    Conns = {k1}
    Kinds = {"stream", "analyze"}
    Engine <- EngineOf
    Cancellable = {o1, o2}
    Removable = {}
    NoOp = NoOp
    NoConn = NoConn
SYMMETRY Symmetry
SPECIFICATION Spec
INVARIANT UncancelledStreamOwnsSlot
INVARIANT PostgresCancelNotLost
INVARIANT UserCancelIsQuiet
INVARIANT AnalysisCleansUp
PROPERTY ImplementsSlot
\* Each operation id is dispatched at most once, so a finite instance comes to rest.
CHECK_DEADLOCK FALSE
