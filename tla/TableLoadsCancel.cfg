\* Two loads of one table, one of them cancelled by the other or by the closing of the table.
CONSTANTS
    all = all
    filtered = filtered
    c1 = c1
    t1 = t1
    t2 = t2
    l1 = l1
    l2 = l2
    Positions = 3
    NoRow = NoRow
    NoOp = NoOp
    NoLoad = NoLoad
    NoView = NoView
    Keys = {t1}
    Views = {all, filtered}
    Loads = {l1, l2}
    Limit = 2
    RowsOf <- ViewLengths
    ConnOf <- OneConnection
    TableOf <- OwnTable
    PagesOf <- Pages
    MaxTries = 1
CHECK_DEADLOCK FALSE
SPECIFICATION FairSpec
PROPERTY CancelledLoadFinishes
