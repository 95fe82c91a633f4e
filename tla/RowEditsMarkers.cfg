\* A table closed and opened again, and a reload asked for, while changes are pending.
CONSTANTS
    a = a
    b = b
    Vals = {a, b}
    Ids = {1, 2}
    Positions = 2
    Limit = 1
    Pages <- AllPages
    MaxOthers = 1
    NoRow = NoRow
    NoOp = NoOp
    Gone = Gone
    NoVal = NoVal
    Stream = Stream
SYMMETRY Symmetry
SPECIFICATION Spec
CHECK_DEADLOCK FALSE
INVARIANT MarkersStayOnTheirRows
