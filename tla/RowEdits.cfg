\* Two pages of one or two rows, edited, turned, sorted, reloaded, closed, opened and saved,
\* up to a refresh that reloads a page no longer shown.
CONSTANTS
    a = a
    b = b
    Vals = {a, b}
    Ids = {1, 2}
    Positions = 2
    Limit = 1
    Pages <- AllPages
    MaxOthers = 1
    NoRow = NoRow
    NoOp = NoOp
    Gone = Gone
    NoVal = NoVal
    Stream = Stream
SYMMETRY Symmetry
SPECIFICATION Spec
CONSTRAINT ShownPages
VIEW Distinct
INVARIANT TypeOK
INVARIANT RecordedWhilePending
INVARIANT RecordedRowIsTheEdited
INVARIANT SaveHitsEditedRows
INVARIANT SavesAllItForgets
INVARIANT UnsavedIsPending
CHECK_DEADLOCK FALSE
