\* Two loads of two tables on one connection: pages, a filter, refreshes, closings.
CONSTANTS
    all = all
    filtered = filtered
    c1 = c1
    t1 = t1
    t2 = t2
    l1 = l1
    l2 = l2
    Positions = 3
    NoRow = NoRow
    NoOp = NoOp
    NoLoad = NoLoad
    NoView = NoView
    Keys = {t1, t2}
    Views = {all, filtered}
    Loads = {l1, l2}
    Limit = 2
    RowsOf <- ViewLengths
    ConnOf <- OneConnection
    TableOf <- OwnTable
    PagesOf <- Pages
    MaxTries = 1
SPECIFICATION FairSpec
INVARIANT TypeOK
INVARIANT WindowShowsItsLoad
INVARIANT RunningIsWatched
INVARIANT JoinsOnlyInFlight
CHECK_DEADLOCK FALSE
PROPERTY LoadSettles
