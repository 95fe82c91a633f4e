---------------------------- MODULE RowEditsProofs ----------------------------
(***************************************************************************)
(* That what is pending stays about the rows the user changed, and that a  *)
(* save sends exactly that, for any table, pages and writes by others.     *)
(***************************************************************************)
EXTENDS RowEdits, RowsWindowProofs, FiniteSetTheorems, TLAPS

\* The types, with the fields of the records: what a load delivers are rows of a page, and
\* the page begun lies within the positions.
LoadPages == [view: Orders, offset: {q.offset : q \in Pages}]
Loads(result) ==
    [st: {"none", "asked", "streaming"}, page: LoadPages, reset: BOOLEAN, force: BOOLEAN,
     result: {result}, got: 0 .. Limit]

PlainType ==
    /\ db \in [Ids -> Vals \cup {Gone}]
    /\ others \in 0 .. MaxOthers
    /\ want \in Pages \cup {Closed}
    /\ loadedView \in Orders \cup {"none"}
    /\ meant \in [Pos -> SUBSET Ids]
    /\ dialog \in {"none", "confirm", "review"}
    /\ refreshing \in SUBSET {q.offset : q \in Pages}
    /\ astray \in BOOLEAN
    /\ reloads \in BOOLEAN
    /\ saving \in BOOLEAN
    /\ sent \subseteq Statement

RowsType ==
    /\ win \in Windows(Row, {Stream})
    /\ win.offset + Limit <= Positions
    /\ cache \in Caches(Row)

LoadType ==
    /\ load \in Loads(load.result)
    /\ load.st = "streaming" =>
         /\ DOMAIN load.result \subseteq Pos
         /\ \A at \in DOMAIN load.result : load.result[at] \in Row

PatchType ==
    patch \in [update: [Pos -> Vals \cup {NoVal}], delete: SUBSET Pos,
               originalRows: [Pos -> Row \cup {NoRow}]]

\* A closed window shows and loads nothing.
ClosedIsEmpty ==
    want = Closed => win = makeRowsState /\ cache = NoRows /\ load.st = "none"

\* What is loaded is the page wanted.
LoadsThePage == load.st # "none" => load.page = want

\* While changes are pending, the rows on the screen are those of the page wanted.
PendingIsOnPage ==
    want # Closed /\ hasRowPositionPatches(patch) => win.offset = want.offset

\* The window and the cache agree on whose row is at a position.
SameRows ==
    \A i \in Idx : win.rows[i] # NoRow /\ cache[i] # NoRow => win.rows[i].id = cache[i].id

\* A row without a copy in the cache, or one that a load is about to drop the copy of, is
\* the one its pending change was made against.
UncachedIsRecorded ==
    \A at \in Pos :
        /\ Pending(patch, at)
        /\ win.rows[win.offset + at] # NoRow
        /\ (load.st = "asked" /\ load.reset) \/ cache[win.offset + at] = NoRow
        => win.rows[win.offset + at].id = patch.originalRows[at].id

\* A value that is not as loaded is pending, against the row that was loaded.
UnlikeCacheIsPending ==
    ~ reloads =>
        \A i \in Idx :
            win.rows[i] # NoRow /\ cache[i] # NoRow /\ win.rows[i] # cache[i] =>
                \E at \in Pos :
                    /\ i = win.offset + at
                    /\ patch.update[at] # NoVal
                    /\ patch.originalRows[at] = cache[i]

\* The statements of the pending changes, which depend on the recorded rows alone.
SqlOf(p) ==
    {[kind |-> "update", id |-> p.originalRows[at].id, val |-> p.update[at]] :
        at \in {x \in Pos : p.update[x] # NoVal}}
    \cup {[kind |-> "delete", id |-> p.originalRows[at].id] : at \in p.delete}

\* Nothing is changed or closed while a save is in flight, and all that is pending is in it.
SavesWhatIsPending == saving => dialog = "review" /\ sent = SqlOf(patch)

\* No row is meant where nothing is pending.
NoneMeantElsewhere == \A at \in Pos : ~ Pending(patch, at) => meant[at] = {}

\* What a refresh that goes astray breaks: the rows on the screen, and whose the pending
\* changes are.
Shown == /\ ClosedIsEmpty /\ LoadsThePage /\ PendingIsOnPage /\ SameRows
         /\ UncachedIsRecorded /\ UnlikeCacheIsPending

\* The row recorded for a change is the one the user meant.
MeansItsRecord ==
    \A at \in Pos : Pending(patch, at) => meant[at] = {patch.originalRows[at].id}
MeantIsRecorded == MeansItsRecord /\ NoneMeantElsewhere

Recorded == RecordedWhilePending /\ (~ astray => MeantIsRecorded)
Types == PlainType /\ RowsType /\ LoadType /\ PatchType

IInv == Types /\ (~ astray => Shown) /\ Recorded /\ SavesWhatIsPending

-----------------------------------------------------------------------------
(* The rows of a page.                                                     *)

\* The rows before row i in an order, which Rank counts.
RowsBefore(view, i) == {j \in Existing : Before(view, j, i)}

\* The table is finite, and no two rows have the same rank.
LEMMA RankIsInjective ==
    ASSUME NEW view \in Orders
    PROVE  /\ IsFiniteSet(Existing) /\ Existing \subseteq Nat
           /\ \A i \in Existing : Rank(view, i) \in 0 .. Cardinality(Existing) - 1
           /\ \A i, j \in Existing : Rank(view, i) = Rank(view, j) => i = j
<1>1. IsFiniteSet(Existing) /\ Existing \subseteq Nat
  BY RowEditsAssumption, FS_Subset DEF Existing
<1>2. ASSUME NEW i \in Existing
      PROVE  /\ IsFiniteSet(RowsBefore(view, i)) /\ RowsBefore(view, i) \subseteq Existing
             /\ i \notin RowsBefore(view, i)
             /\ Rank(view, i) = Cardinality(RowsBefore(view, i))
             /\ Rank(view, i) \in Nat
  <2>1. RowsBefore(view, i) \subseteq Existing /\ i \notin RowsBefore(view, i)
    BY <1>1 DEF RowsBefore, Before
  <2>2. IsFiniteSet(RowsBefore(view, i))
    BY <1>1, <2>1, FS_Subset
  <2>3. Rank(view, i) = Cardinality(RowsBefore(view, i))
    BY DEF Rank, RowsBefore
  <2> QED
    BY <2>1, <2>2, <2>3, FS_CardinalityType
<1>3. ASSUME NEW i \in Existing PROVE Rank(view, i) \in 0 .. Cardinality(Existing) - 1
  <2>1. Cardinality(RowsBefore(view, i)) <= Cardinality(Existing)
        /\ Cardinality(RowsBefore(view, i)) # Cardinality(Existing)
    BY <1>1, <1>2, FS_Subset
  <2> QED
    BY <1>1, <1>2, <2>1, FS_CardinalityType
<1>4. ASSUME NEW i \in Existing, NEW j \in Existing, Before(view, i, j)
      PROVE  Rank(view, i) < Rank(view, j)
  <2>1. \A k \in Existing : Before(view, k, i) => Before(view, k, j)
    BY <1>1, <1>4 DEF Before
  <2>2. RowsBefore(view, i) \subseteq RowsBefore(view, j) /\ i \in RowsBefore(view, j)
    BY <1>4, <2>1 DEF RowsBefore
  <2>3. RowsBefore(view, i) # RowsBefore(view, j)
    BY <1>2, <2>2
  <2>4. Cardinality(RowsBefore(view, i)) <= Cardinality(RowsBefore(view, j))
        /\ Cardinality(RowsBefore(view, i)) # Cardinality(RowsBefore(view, j))
    BY <1>2, <2>2, <2>3, FS_Subset
  <2> QED
    BY <1>2, <2>4
<1>5. ASSUME NEW i \in Existing, NEW j \in Existing, Rank(view, i) = Rank(view, j)
      PROVE  i = j
  <2>1. ~ Before(view, i, j) /\ ~ Before(view, j, i)
    BY <1>2, <1>4, <1>5
  <2> QED
    BY <1>1, <2>1 DEF Before
<1> QED
  BY <1>1, <1>3, <1>5

\* So the rows of a table have the ranks from 0 on.
LEMMA RankIsOnto ==
    ASSUME NEW view \in Orders
    PROVE  \A r \in 0 .. Cardinality(Existing) - 1 : \E i \in Existing : Rank(view, i) = r
<1> DEFINE n == Cardinality(Existing)
           f == [i \in Existing |-> Rank(view, i)]
<1>1. n \in Nat
  BY RankIsInjective, FS_CardinalityType
<1>2. f \in Injection(Existing, 0 .. n - 1)
  BY RankIsInjective DEF Injection, IsInjective
<1>3. IsFiniteSet(0 .. n - 1) /\ Cardinality(0 .. n - 1) = n
  BY <1>1, FS_Interval
<1> HIDE DEF n
<1>4. f \in Surjection(Existing, 0 .. n - 1)
  BY <1>1, <1>2, <1>3, FS_Injection DEF n
<1> QED
  BY <1>4 DEF Surjection, n

\* A page's interval of positions has as many as the page is long.
LEMMA IntervalSize ==
    ASSUME NEW first \in Nat, NEW length \in Nat \ {0}
    PROVE  /\ IsFiniteSet(first .. first + length - 1)
           /\ Cardinality(first .. first + length - 1) = length
<1> DEFINE last == first + length - 1
<1>1. first \in Int /\ last \in Int /\ ~ first > last /\ last - first + 1 = length
  OBVIOUS
<1> HIDE DEF last
<1>2. IsFiniteSet(first .. last)
      /\ Cardinality(first .. last) = IF first > last THEN 0 ELSE last - first + 1
  BY <1>1, FS_Interval
<1> QED
  BY <1>1, <1>2 DEF last

\* A page has at most Limit rows, one for each position from its first on, and each is a
\* row of the table with the value it has there.
LEMMA ResultIsPage ==
    ASSUME NEW q \in LoadPages, db \in [Ids -> Vals \cup {Gone}]
    PROVE  /\ DOMAIN Result(q) \subseteq Pos
           /\ \A at \in DOMAIN Result(q) : Result(q)[at] \in Row
<1> DEFINE n == Cardinality(Existing)
           onPage == {i \in Existing :
                        Rank(q.view, i) \in q.offset .. q.offset + Limit - 1}
           f == [i \in onPage |-> Rank(q.view, i)]
           m == Cardinality(onPage)
<1>1. q.view \in Orders /\ q.offset \in Nat /\ Limit \in Nat \ {0}
  BY RowEditsAssumption DEF Idx, LoadPages
<1>2. IsFiniteSet(onPage) /\ n \in Nat /\ m \in Nat
  BY <1>1, RankIsInjective, FS_Subset, FS_CardinalityType
<1>3. m <= Limit
  <2>1. f \in Injection(onPage, q.offset .. q.offset + Limit - 1)
    BY <1>1, RankIsInjective DEF Injection, IsInjective
  <2>2. IsFiniteSet(q.offset .. q.offset + Limit - 1)
        /\ Cardinality(q.offset .. q.offset + Limit - 1) = Limit
    BY <1>1, IntervalSize
  <2> HIDE DEF onPage, f
  <2>3. Cardinality(onPage) <= Limit
    BY <2>1, <2>2, FS_Injection
  <2> QED
    BY <2>3
<1>4. m <= (IF q.offset > n - 1 THEN 0 ELSE n - q.offset)
  <2>1. f \in Injection(onPage, q.offset .. n - 1)
    <3>1. \A i \in onPage : Rank(q.view, i) \in q.offset .. n - 1
      BY <1>1, <1>2, RankIsInjective
    <3> QED
      BY <1>1, <3>1, RankIsInjective DEF Injection, IsInjective
  <2>2. IsFiniteSet(q.offset .. n - 1)
        /\ Cardinality(q.offset .. n - 1) = IF q.offset > n - 1 THEN 0 ELSE n - q.offset
    <3>1. q.offset \in Int /\ n - 1 \in Int
      BY <1>1, <1>2
    <3>2. IsFiniteSet(q.offset .. n - 1)
          /\ Cardinality(q.offset .. n - 1) =
               IF q.offset > n - 1 THEN 0 ELSE n - 1 - q.offset + 1
      BY <3>1, FS_Interval
    <3> HIDE DEF n
    <3> QED
      BY <1>1, <1>2, <3>2
  <2> HIDE DEF onPage, f, n
  <2>3. Cardinality(onPage) <= Cardinality(q.offset .. n - 1)
    BY <2>1, <2>2, FS_Injection
  <2> QED
    BY <2>2, <2>3
<1>5. ASSUME NEW at \in 0 .. m - 1
      PROVE  \E i \in onPage : Rank(q.view, i) = q.offset + at
  <2>1. q.offset + at \in 0 .. n - 1 /\ q.offset + at \in q.offset .. q.offset + Limit - 1
    <3> HIDE DEF m, n
    <3> QED
      BY <1>1, <1>2, <1>3, <1>4
  <2>2. PICK i \in Existing : Rank(q.view, i) = q.offset + at
    BY <1>1, <2>1, RankIsOnto
  <2> QED
    BY <2>1, <2>2
<1>6. DOMAIN Result(q) = 0 .. m - 1
  BY DEF Result
<1>7. ASSUME NEW at \in 0 .. m - 1 PROVE Result(q)[at] \in Row
  <2> DEFINE i == CHOOSE i \in onPage : Rank(q.view, i) = q.offset + at
  <2>1. i \in onPage
    BY <1>5
  <2>2. Result(q)[at] = [id |-> i, val |-> db[i]]
    BY DEF Result
  <2>3. i \in Ids /\ db[i] \in Vals
    BY <2>1 DEF Existing
  <2> QED
    BY <2>2, <2>3 DEF Row
<1> QED
  <2> HIDE DEF m
  <2> QED
    BY <1>1, <1>2, <1>3, <1>6, <1>7 DEF Pos

-----------------------------------------------------------------------------
(* Constants and windows.                                                  *)

\* What the assumptions say of a page.
LEMMA PageFacts ==
    /\ Limit \in Nat \ {0} /\ Positions \in Nat \ {0}
    /\ FirstPage \in Pages /\ FirstPage.offset = 0
    /\ \A q \in Pages : /\ q # Closed /\ q.view \in Orders
                        /\ q.offset \in Nat /\ q.offset + Limit <= Positions
                        /\ q = [view |-> q.view, offset |-> q.offset]
    /\ \A q \in LoadPages : q.offset \in Nat /\ q.offset + Limit <= Positions
    /\ Pages \subseteq LoadPages
<1>1. /\ Limit \in Nat \ {0} /\ Positions \in Nat \ {0}
      /\ FirstPage \in Pages /\ FirstPage.offset = 0
      /\ \A q \in Pages : /\ q # Closed /\ q.view \in Orders
                          /\ q.offset \in Nat /\ q.offset + Limit <= Positions
                          /\ q = [view |-> q.view, offset |-> q.offset]
  BY RowEditsAssumption, PositionsAssumption DEF FirstPage, Orders, Closed, Idx
<1> QED
  BY <1>1 DEF LoadPages

\* The positions of a page are positions of the table.
LEMMA OnPageIsPosition ==
    ASSUME NEW o \in Nat, o + Limit <= Positions
    PROVE  /\ \A at \in Pos : o + at \in Idx /\ o + at >= o
           /\ \A at, bt \in Pos : o + at = o + bt => at = bt
BY PageFacts DEF Pos, Idx

\* A key and a value make a row, whose fields they are.
LEMMA RowFields ==
    /\ \A r \in Row : r.id \in Ids /\ r.val \in Vals /\ r = [id |-> r.id, val |-> r.val]
    /\ \A r \in Row, v \in Vals :
         LET e == [r EXCEPT !.val = v]
         IN  e \in Row /\ e.id = r.id /\ e.val = v
    /\ NoRow \notin Row
BY RowEditsAssumption DEF Row

\* The grid shows a row of the window or, where it has none, of the cache.
LEMMA ShownFacts ==
    ASSUME RowsType, NEW at \in Pos, rowsSettled
    PROVE  /\ win.offset + at \in Idx /\ win.offset = want.offset
           /\ ShownRow(at) = IF win.rows[win.offset + at] # NoRow
                             THEN win.rows[win.offset + at]
                             ELSE cache[win.offset + at]
           /\ ShownRow(at) \in Row \cup {NoRow}
<1>1. win.offset = want.offset /\ win.offset \in Nat
  BY DEF rowsSettled, RowsType, Windows
<1>2. win.offset + at \in Idx /\ win.offset + at >= win.offset
  BY <1>1, OnPageIsPosition DEF RowsType
<1>3. win.rows \in [Idx -> Row \cup {NoRow}]
  BY WindowFields DEF RowsType, Caches
<1> QED
  BY <1>1, <1>2, <1>3 DEF ShownRow, getRowAt, RowsType, Caches

-----------------------------------------------------------------------------
(* The statements of a save.                                               *)

\* With a row recorded wherever a change is pending, the statements are those of the
\* recorded rows, whatever the window and the cache hold.
LEMMA SqlFromPatch ==
    ASSUME PatchType, RecordedWhilePending
    PROVE  generateSqlFromPatches = SqlOf(patch) /\ SqlOf(patch) \subseteq Statement
<1>1. \A at \in Pos : Pending(patch, at) =>
        /\ patch.originalRows[at] # NoRow /\ patch.originalRows[at] \in Row
        /\ RowForSql(at) = patch.originalRows[at]
  BY DEF PatchType, RecordedWhilePending, RowForSql
<1>2. /\ \A at \in Pos : patch.update[at] # NoVal \/ at \in patch.delete => Pending(patch, at)
      /\ patch.delete \subseteq Pos
      /\ \A at \in Pos : patch.update[at] # NoVal => patch.update[at] \in Vals
  BY DEF Pending, PatchType
<1>3. generateSqlFromPatches = SqlOf(patch)
  <2>1. {p \in Pos : patch.update[p] # NoVal /\ RowForSql(p) # NoRow}
          = {x \in Pos : patch.update[x] # NoVal}
    BY <1>1, <1>2
  <2>2. {p \in patch.delete : RowForSql(p) # NoRow} = patch.delete
    BY <1>1, <1>2
  <2>3. \A at \in {x \in Pos : patch.update[x] # NoVal} :
          RowForSql(at).id = patch.originalRows[at].id
    BY <1>1, <1>2
  <2>4. \A at \in patch.delete : RowForSql(at).id = patch.originalRows[at].id
    BY <1>1, <1>2
  <2> QED
    BY <2>1, <2>2, <2>3, <2>4 DEF generateSqlFromPatches, SqlOf
<1>4. SqlOf(patch) \subseteq Statement
  <2>1. \A at \in Pos : Pending(patch, at) => patch.originalRows[at].id \in Ids
    BY <1>1, RowFields
  <2> QED
    BY <1>2, <2>1 DEF SqlOf, Statement
<1> QED
  BY <1>3, <1>4

\* A transaction leaves a table.
LEMMA AppliedIsTable ==
    ASSUME db \in [Ids -> Vals \cup {Gone}], NEW stmts, stmts \subseteq Statement
    PROVE  Applied(stmts) \in [Ids -> Vals \cup {Gone}]
<1>1. ASSUME NEW s \in stmts, s.kind = "update" PROVE s.val \in Vals
  BY <1>1 DEF Statement
<1> QED
  BY <1>1 DEF Applied

-----------------------------------------------------------------------------
(* The steps.                                                              *)

\* A load with its fields.
LEMMA LoadFields ==
    ASSUME NEW st \in {"none", "asked", "streaming"}, NEW q \in LoadPages,
           NEW reset \in BOOLEAN, NEW force \in BOOLEAN, NEW result, NEW got \in 0 .. Limit,
           NEW l, l = [st |-> st, page |-> q, reset |-> reset, force |-> force,
                       result |-> result, got |-> got]
    PROVE  l.st = st /\ l.page = q /\ l.reset = reset /\ l \in Loads(l.result)
BY DEF Loads

\* What is asked for has not begun, and is to drop the cache if it is told to or takes the
\* place of one that was.
LEMMA AskedLoad ==
    ASSUME IInv, NEW q \in LoadPages, NEW reset \in BOOLEAN, NEW force \in BOOLEAN,
           Ask(q, reset, force)
    PROVE  /\ LoadType' /\ load'.st = "asked" /\ load'.page = q
           /\ load'.reset = (reset \/ (load.st = "asked" /\ load.reset))
<1> DEFINE r == reset \/ (load.st = "asked" /\ load.reset)
<1>1. 0 \in 0 .. Limit /\ r \in BOOLEAN
  BY PageFacts
<1>2. load' = [st |-> "asked", page |-> q, reset |-> r, force |-> force, result |-> <<>>,
               got |-> 0]
  BY DEF Ask, Idle
<1> HIDE DEF r
<1>3. /\ load'.st = "asked" /\ load'.page = q /\ load'.reset = r
      /\ load' \in Loads(load'.result)
  BY <1>1, <1>2, LoadFields
<1> QED
  BY <1>3 DEF LoadType, r

\* What begins holds the rows of its page, none of them delivered yet.
LEMMA BegunLoad ==
    ASSUME NEW q \in LoadPages, NEW result, DOMAIN result \subseteq Pos,
           \A at \in DOMAIN result : result[at] \in Row,
           load' = [st |-> "streaming", page |-> q, reset |-> FALSE, force |-> FALSE,
                    result |-> result, got |-> 0]
    PROVE  LoadType' /\ load'.st = "streaming" /\ load'.page = q
<1>1. 0 \in 0 .. Limit
  BY PageFacts
<1>2. load'.st = "streaming" /\ load'.page = q /\ load' \in Loads(load'.result)
  BY <1>1 DEF Loads
<1> QED
  BY <1>2 DEF LoadType

\* No load is under way.
LEMMA IdleLoad ==
    ASSUME load' = Idle("none")
    PROVE  LoadType' /\ load'.st = "none"
<1>1. 0 \in 0 .. Limit
  BY PageFacts
<1>2. PICK q \in LoadPages : q = FirstPage
  BY PageFacts
<1>3. PICK no \in BOOLEAN : no = FALSE
  OBVIOUS
<1>4. load' = [st |-> "none", page |-> q, reset |-> no, force |-> no,
               result |-> <<>>, got |-> 0]
  BY <1>2, <1>3 DEF Idle
<1>5. load'.st = "none" /\ load' \in Loads(load'.result)
  BY <1>1, <1>4, LoadFields
<1> QED
  BY <1>5 DEF LoadType

\* Steps that leave the changes and the save alone.
LEMMA KeepsChanges ==
    ASSUME IInv, UNCHANGED <<patch, meant, dialog, saving, sent>>, astray => astray'
    PROVE  Recorded' /\ SavesWhatIsPending'
BY DEF IInv, Recorded, RecordedWhilePending, MeantIsRecorded, MeansItsRecord,
       NoneMeantElsewhere, Pending, SavesWhatIsPending

\* Steps that leave the rows, the changes and the request alone.
LEMMA FrameStep ==
    ASSUME IInv, UNCHANGED <<want, win, cache, load, loadedView, astray, edits>>,
           PlainType', SavesWhatIsPending'
    PROVE  IInv'
<1>1. RowsType' /\ LoadType' /\ PatchType'
  BY DEF IInv, Types, RowsType, LoadType, PatchType, edits
<1>2. ~ astray => Shown'
  BY DEF IInv, Shown, edits, ClosedIsEmpty, LoadsThePage, PendingIsOnPage, SameRows,
         UncachedIsRecorded, UnlikeCacheIsPending, Pending, hasRowPositionPatches
<1>3. Recorded'
  BY DEF IInv, Recorded, edits, RecordedWhilePending, MeantIsRecorded,
         MeansItsRecord, NoneMeantElsewhere, Pending
<1> QED
  BY <1>1, <1>2, <1>3 DEF IInv, Types

\* Another client's write, a refresh that waits, the dialogs, and the save that is sent or
\* fails.
LEMMA QuietStep ==
    ASSUME IInv,
           \/ \E i \in Ids, v \in Vals \cup {Gone} : OtherClient(i, v)
           \/ Refresh \/ AskToDiscard \/ KeepChanges \/ beforeSaveChanges \/ CloseReview
           \/ applyPatchesForCurrentTab \/ SaveFails
    PROVE  IInv'
<1>1. UNCHANGED <<want, win, cache, load, loadedView, astray, edits>>
  BY DEF OtherClient, Refresh, AskToDiscard, KeepChanges, beforeSaveChanges, CloseReview,
         applyPatchesForCurrentTab, SaveFails, rows, refresh
<1>2. CASE \E i \in Ids, v \in Vals \cup {Gone} : OtherClient(i, v)
  <2>1. PlainType' /\ SavesWhatIsPending'
    BY <1>2, RowEditsAssumption
       DEF OtherClient, IInv, Types, PlainType, SavesWhatIsPending, rows, refresh, edits, save
  <2> QED
    BY <1>1, <2>1, FrameStep
<1>3. CASE AskToDiscard \/ KeepChanges \/ beforeSaveChanges \/ CloseReview
  <2>1. PlainType' /\ SavesWhatIsPending'
    BY <1>3 DEF AskToDiscard, KeepChanges, beforeSaveChanges, CloseReview, IInv, Types,
                PlainType, SavesWhatIsPending, rows, refresh, edits, save, table
  <2> QED
    BY <1>1, <2>1, FrameStep
<1>4. CASE applyPatchesForCurrentTab
  <2>1. sent' = SqlOf(patch) /\ SqlOf(patch) \subseteq Statement
    BY <1>4, SqlFromPatch DEF applyPatchesForCurrentTab, IInv, Types, Recorded
  <2>2. PlainType' /\ SavesWhatIsPending'
    BY <1>4, <2>1 DEF applyPatchesForCurrentTab, IInv, Types, PlainType,
                      SavesWhatIsPending, rows, refresh, edits, table
  <2> QED
    BY <1>1, <2>2, FrameStep
<1>5. CASE SaveFails
  <2>1. db' \in [Ids -> Vals \cup {Gone}]
    BY <1>5, AppliedIsTable DEF SaveFails, IInv, Types, PlainType
  <2>2. PlainType' /\ SavesWhatIsPending'
    BY <1>5, <2>1
       DEF SaveFails, IInv, Types, PlainType, SavesWhatIsPending, rows, refresh, edits
  <2> QED
    BY <1>1, <2>2, FrameStep
<1>6. CASE Refresh
  <2>1. want.offset \in {q.offset : q \in Pages}
    BY <1>6 DEF Refresh, IInv, Types, PlainType
  <2>2. PlainType' /\ SavesWhatIsPending'
    BY <1>6, <2>1
       DEF Refresh, IInv, Types, PlainType, SavesWhatIsPending, table, edits, save
  <2> QED
    BY <1>1, <2>2, FrameStep
<1> QED
  BY <1>2, <1>3, <1>4, <1>5, <1>6

\* The requests for rows that leave the window and the changes alone: they are made while
\* nothing is pending, or of a window that was closed.
LEMMA AskStep ==
    ASSUME IInv, Open \/ \E q \in Pages : Turn(q)
    PROVE  IInv'
<1>1. /\ UNCHANGED <<win, cache, patch, meant, reloads, db, others, loadedView>>
      /\ UNCHANGED <<dialog, saving, sent, refreshing, astray>>
      /\ dialog = "none"
  BY DEF Open, Turn, ShowPage, Request, table, edits, save, refresh
<1>2. LoadType' /\ load'.st = "asked" /\ load'.page = want' /\ want' \in Pages
  <2>1. PICK q \in Pages, r \in BOOLEAN, f \in BOOLEAN : want' = q /\ Ask(q, r, f)
    BY PageFacts DEF Open, Turn, ShowPage, Request
  <2> QED
    BY <2>1, AskedLoad, PageFacts
<1>3. PlainType' /\ RowsType' /\ PatchType'
  BY <1>1, <1>2 DEF IInv, Types, PlainType, RowsType, PatchType
<1>4. want' # Closed
  BY <1>2, PageFacts
<1>5. ~ astray => ClosedIsEmpty' /\ LoadsThePage' /\ SameRows' /\ UnlikeCacheIsPending'
  BY <1>1, <1>2, <1>4
     DEF IInv, Shown, ClosedIsEmpty, LoadsThePage, SameRows, UnlikeCacheIsPending
<1>6. ~ astray => PendingIsOnPage' /\ UncachedIsRecorded'
  <2>1. CASE Open /\ ~ astray
    <3>1. win.offset = 0 /\ win.rows = NoRows /\ want' = FirstPage
      BY <2>1, EmptyWindow DEF Open, Request, IInv, Shown, ClosedIsEmpty
    <3>2. \A at \in Pos : win.rows[win.offset + at] = NoRow
      BY <3>1, EmptyWindow, PageFacts, OnPageIsPosition
    <3> QED
      BY <1>1, <3>1, <3>2, PageFacts DEF PendingIsOnPage, UncachedIsRecorded
  <2>2. CASE \E q \in Pages : Turn(q)
    <3>1. \A at \in Pos : ~ Pending(patch, at)
      BY <2>2 DEF Turn, hasRowPositionPatches
    <3> QED
      BY <1>1, <3>1 DEF PendingIsOnPage, UncachedIsRecorded, hasRowPositionPatches, Pending
  <2> QED
    BY <2>1, <2>2
<1>7. Recorded' /\ SavesWhatIsPending'
  BY <1>1, KeepsChanges
<1> QED
  BY <1>1, <1>2, <1>3, <1>5, <1>6, <1>7 DEF IInv, Types, Shown

\* The load of a refresh, whatever is pending by now: it keeps the cache, and if it is not
\* for the page wanted it is astray.
LEMMA ReloadStep ==
    ASSUME IInv, NEW offset \in Idx, Reload(offset)
    PROVE  IInv'
<1> DEFINE q == [view |-> IF want = Closed THEN FirstPage.view ELSE want.view,
                 offset |-> offset]
<1>1. /\ UNCHANGED <<want, win, cache, patch, meant, reloads, db, others, loadedView>>
      /\ UNCHANGED <<dialog, saving, sent>>
      /\ refreshing' = {} /\ offset \in refreshing /\ Ask(q, FALSE, TRUE)
      /\ astray' = (astray \/ want = Closed \/ want.offset # offset)
  BY DEF Reload, table, edits, save
<1>2. q \in LoadPages
  <2>1. offset \in {x.offset : x \in Pages}
    BY <1>1 DEF IInv, Types, PlainType
  <2>2. want # Closed => want.view \in Orders
    BY PageFacts DEF IInv, Types, PlainType
  <2>3. FirstPage.view \in Orders
    BY PageFacts
  <2> QED
    BY <2>1, <2>2, <2>3 DEF LoadPages
<1>3. /\ LoadType' /\ load'.st = "asked" /\ load'.page = q
      /\ load'.reset = (load.st = "asked" /\ load.reset)
  <2> HIDE DEF q
  <2> QED
    BY <1>1, <1>2, AskedLoad
<1>4. PlainType' /\ RowsType' /\ PatchType'
  BY <1>1 DEF IInv, Types, PlainType, RowsType, PatchType
<1>5. ASSUME ~ astray' PROVE Shown'
  <2>1. Shown /\ want # Closed /\ want.offset = offset
    BY <1>1, <1>5 DEF IInv
  <2>2. q = want
    BY <2>1, PageFacts DEF IInv, Types, PlainType
  <2>3. ClosedIsEmpty' /\ LoadsThePage' /\ SameRows' /\ UnlikeCacheIsPending'
    BY <1>1, <1>3, <2>1, <2>2
       DEF Shown, ClosedIsEmpty, LoadsThePage, SameRows, UnlikeCacheIsPending
  <2>4. PendingIsOnPage' /\ UncachedIsRecorded'
    BY <1>1, <1>3, <2>1
       DEF Shown, PendingIsOnPage, UncachedIsRecorded, hasRowPositionPatches, Pending
  <2> QED
    BY <2>3, <2>4 DEF Shown
<1>6. Recorded' /\ SavesWhatIsPending'
  BY <1>1, KeepsChanges
<1> QED
  BY <1>3, <1>4, <1>5, <1>6 DEF IInv, Types

\* A closed window keeps its changes, which are then about no row on the screen.
LEMMA CloseStep ==
    ASSUME IInv, Close
    PROVE  IInv'
<1>1. /\ want' = Closed /\ win' = makeRowsState /\ cache' = NoRows
      /\ load' = Idle("none") /\ reloads' = FALSE
      /\ UNCHANGED <<db, others, loadedView, patch, meant, dialog, saving, sent>>
      /\ UNCHANGED <<refreshing, astray>>
  BY DEF Close, table, save, refresh
<1>2. PlainType' /\ PatchType'
  BY <1>1 DEF IInv, Types, PlainType, PatchType
<1>3. RowsType'
  BY <1>1, EmptyWindow, PageFacts, RowEditsAssumption DEF RowsType
<1>4. LoadType' /\ load'.st = "none"
  BY <1>1, IdleLoad
<1>5. Shown'
  <2>1. \A i \in Idx : win'.rows[i] = NoRow
    BY <1>1, EmptyWindow
  <2>2. \A at \in Pos : win'.offset + at \in Idx
    BY <1>3, OnPageIsPosition, EmptyWindow, <1>1, PageFacts
  <2>3. /\ ClosedIsEmpty' /\ LoadsThePage' /\ PendingIsOnPage'
        /\ SameRows' /\ UncachedIsRecorded'
    BY <1>1, <1>4, <2>1, <2>2
       DEF ClosedIsEmpty, LoadsThePage, PendingIsOnPage, SameRows, UncachedIsRecorded
  <2>4. UnlikeCacheIsPending'
    BY <2>1 DEF UnlikeCacheIsPending
  <2> QED
    BY <2>3, <2>4 DEF Shown
<1>6. Recorded' /\ SavesWhatIsPending'
  BY <1>1, KeepsChanges
<1> QED
  BY <1>2, <1>3, <1>4, <1>5, <1>6 DEF IInv, Types

\* A load that begins takes the window over: its own page is kept, another page only
\* without changes, and the cache it drops was that of rows still as recorded.
LEMMA BeginStep ==
    ASSUME IInv, Begin
    PROVE  IInv'
<1> DEFINE q == load.page
<1>1. /\ load.st = "asked"
      /\ load' = [Idle("streaming") EXCEPT !.page = q, !.result = Result(q)]
      /\ win' = beginRowsStream(win, cache, Stream, q.offset, load.reset, load.force)
      /\ cache' = KeptCache(cache, load.reset)
      /\ reloads' = (reloads /\ ~ load.reset)
      /\ UNCHANGED <<db, others, want, loadedView, patch, meant, dialog, saving, sent>>
      /\ UNCHANGED <<refreshing, astray>>
  BY DEF Begin, table, save, refresh
<1>2. /\ q \in LoadPages /\ q.offset \in Nat /\ q.offset + Limit <= Positions
      /\ ~ astray => q = want /\ want # Closed
  BY <1>1, PageFacts
     DEF IInv, Types, LoadType, Loads, Shown, ClosedIsEmpty, LoadsThePage
<1>21. /\ win \in Windows(Row, {Stream}) /\ cache \in Caches(Row)
       /\ load.reset \in BOOLEAN /\ load.force \in BOOLEAN
  BY DEF IInv, Types, RowsType, LoadType, Loads
<1>3. /\ win' \in Windows(Row, {Stream}) /\ win'.offset = q.offset
      /\ cache' \in Caches(Row)
      /\ win.offset = q.offset => win'.rows = win.rows
      /\ \A i \in Idx : win'.rows[i] = NoRow \/ win'.rows[i] = win.rows[i]
                        \/ win'.rows[i] = cache'[i]
  <2> HIDE DEF q
  <2>1. /\ win' = beginRowsStream(win, cache, Stream, q.offset, load.reset, load.force)
        /\ cache' = KeptCache(cache, load.reset)
    BY <1>1
  <2>2. /\ win' \in Windows(Row, {Stream}) /\ cache' \in Caches(Row)
        /\ Begun(win, cache', Stream, q.offset, win')
    BY <1>2, <1>21, <2>1, BegunWindow
  <2> QED
    BY <2>2 DEF Begun
<1>4. cache' = cache \/ (cache' = NoRows /\ load.reset)
  BY <1>1 DEF KeptCache
<1>5. PlainType' /\ RowsType' /\ PatchType'
  BY <1>1, <1>2, <1>3, <1>21 DEF IInv, Types, PlainType, RowsType, PatchType
<1>6. LoadType' /\ load'.st = "streaming" /\ load'.page = q
  <2> HIDE DEF q
  <2>1. DOMAIN Result(q) \subseteq Pos /\ \A at \in DOMAIN Result(q) : Result(q)[at] \in Row
    BY <1>2, ResultIsPage DEF IInv, Types, PlainType
  <2>2. PICK result : result = Result(q)
    OBVIOUS
  <2>3. load' = [Idle("streaming") EXCEPT !.page = q, !.result = result]
    BY <1>1, <2>2 DEF q
  <2>4. load' = [st |-> "streaming", page |-> q, reset |-> FALSE, force |-> FALSE,
                 result |-> result, got |-> 0]
    BY <2>3 DEF Idle
  <2> QED
    BY <1>2, <2>1, <2>2, <2>4, BegunLoad
<1>7. ~ astray => ClosedIsEmpty' /\ LoadsThePage' /\ PendingIsOnPage'
  BY <1>1, <1>2, <1>3, <1>6 DEF ClosedIsEmpty, LoadsThePage, PendingIsOnPage
<1>8. ~ astray => SameRows'
  BY <1>3, <1>4, EmptyWindow DEF IInv, Shown, SameRows
<1>9. ASSUME ~ astray PROVE UncachedIsRecorded'
  <2> SUFFICES ASSUME NEW at \in Pos, Pending(patch, at)', win'.rows[win'.offset + at] # NoRow,
                      cache'[win'.offset + at] = NoRow
               PROVE  win'.rows[win'.offset + at].id = patch'.originalRows[at].id
    BY <1>6 DEF UncachedIsRecorded
  <2>1. Pending(patch, at) /\ patch' = patch
    BY <1>1 DEF Pending
  <2>2. win.offset = q.offset
    BY <1>2, <1>9, <2>1 DEF IInv, Shown, PendingIsOnPage, hasRowPositionPatches
  <2> QED
    BY <1>1, <1>3, <1>4, <1>9, <2>1, <2>2 DEF IInv, Shown, UncachedIsRecorded
<1>10. ASSUME ~ astray PROVE UnlikeCacheIsPending'
  <2>1. CASE load.reset
    <3>1. \A i \in Idx : cache'[i] = NoRow
      BY <1>1, <2>1, EmptyWindow DEF KeptCache
    <3> QED
      BY <3>1 DEF UnlikeCacheIsPending
  <2>2. CASE ~ load.reset
    <3>1. cache' = cache /\ reloads' = reloads /\ patch' = patch
      BY <1>1, <2>2 DEF KeptCache, IInv, Types, PlainType
    <3>2. CASE win.offset = q.offset
      BY <1>3, <1>10, <3>1, <3>2 DEF IInv, Shown, UnlikeCacheIsPending
    <3>3. CASE win.offset # q.offset
      <4>1. \A at \in Pos : patch.update[at] = NoVal
        BY <1>2, <1>10, <3>3 DEF IInv, Shown, PendingIsOnPage, hasRowPositionPatches, Pending
      <4> QED
        BY <1>3, <1>10, <3>1, <4>1 DEF IInv, Shown, UnlikeCacheIsPending
    <3> QED
      BY <3>2, <3>3
  <2> QED
    BY <2>1, <2>2
<1>11. Recorded' /\ SavesWhatIsPending'
  BY <1>1, KeepsChanges
<1> QED
  BY <1>1, <1>5, <1>6, <1>7, <1>8, <1>9, <1>10, <1>11 DEF IInv, Types, Shown

\* A row that arrives is written to the window and to the cache alike.
LEMMA ChunkStep ==
    ASSUME IInv, Chunk
    PROVE  IInv'
<1>1. /\ load.st = "streaming" /\ load.got \in DOMAIN load.result
      /\ load' = [load EXCEPT !.got = @ + 1]
      /\ win' = FlushNotify(applyRowsChunk(win, cache, Stream, load.got,
                                            load.result[load.got]))
      /\ cache' = CachedChunk(win, cache, Stream, load.got, load.result[load.got])
      /\ UNCHANGED <<db, others, want, loadedView, patch, meant, reloads>>
      /\ UNCHANGED <<dialog, saving, sent, refreshing, astray>>
  BY DEF Chunk, table, edits, save, refresh
<1> DEFINE i == win.offset + load.got
           row == load.result[load.got]
<1>2. load.got \in Pos /\ row \in Row /\ win.offset \in Nat
  BY <1>1 DEF IInv, Types, RowsType, LoadType, Windows
<1>3. i \in Idx
  BY <1>2, OnPageIsPosition DEF IInv, Types, RowsType
<1>4. /\ win' \in Windows(Row, {Stream}) /\ cache' \in Caches(Row)
      /\ win'.offset = win.offset
      /\ \/ win'.rows = win.rows /\ cache' = cache
         \/ win'.rows = [win.rows EXCEPT ![i] = row] /\ cache' = [cache EXCEPT ![i] = row]
  <2> DEFINE u == applyRowsChunk(win, cache, Stream, load.got, row)
  <2>1. /\ win' = FlushNotify(u)
        /\ cache' = CachedChunk(win, cache, Stream, load.got, row)
    BY <1>1
  <2>2. /\ win \in Windows(Row, {Stream}) /\ cache \in Caches(Row) /\ load.got \in Nat
    BY <1>2 DEF IInv, Types, RowsType, Pos
  <2> HIDE DEF row, u
  <2>3. /\ u \in Windows(Row, {Stream}) /\ cache' \in Caches(Row)
        /\ win.op # Stream => u = win /\ cache' = cache
        /\ win.op = Stream => Wrote(win, cache, i, row, u, cache')
    BY <1>2, <1>3, <2>1, <2>2, ChunkWindow DEF u
  <2>4. win' \in Windows(Row, {Stream}) /\ SameView(u, win')
    BY <2>1, <2>3, FlushedWindow
  <2> QED
    BY <2>3, <2>4 DEF Wrote, SameView
<1>5. PlainType' /\ RowsType' /\ PatchType'
  BY <1>1, <1>4 DEF IInv, Types, PlainType, RowsType, PatchType
<1>6. LoadType' /\ load'.st = "streaming" /\ load'.page = load.page
  BY <1>1, <1>2, PageFacts DEF IInv, Types, LoadType, Loads, Pos
<1>7. win.rows \in Caches(Row) /\ cache \in Caches(Row) /\ NoRow # row
  BY <1>2, RowFields, WindowFields DEF IInv, Types, RowsType
<1>8. \A j \in Idx : \/ win'.rows[j] = win.rows[j] /\ cache'[j] = cache[j]
                     \/ win'.rows[j] = row /\ cache'[j] = row
  BY <1>4, <1>7 DEF Caches
<1>9. ~ astray => ClosedIsEmpty' /\ LoadsThePage' /\ PendingIsOnPage'
  BY <1>1, <1>4, <1>6 DEF IInv, Shown, ClosedIsEmpty, LoadsThePage, PendingIsOnPage,
                          hasRowPositionPatches, Pending
<1>10. ~ astray => SameRows'
  BY <1>8 DEF IInv, Shown, SameRows
<1>11. ASSUME ~ astray PROVE UncachedIsRecorded'
  <2>1. \A at \in Pos : win.offset + at \in Idx
    BY <1>2, OnPageIsPosition DEF IInv, Types, RowsType
  <2> QED
    BY <1>1, <1>4, <1>6, <1>7, <1>8, <1>11, <2>1 DEF IInv, Shown, UncachedIsRecorded, Pending
<1>12. ~ astray => UnlikeCacheIsPending'
  BY <1>1, <1>4, <1>8 DEF IInv, Shown, UnlikeCacheIsPending
<1>13. Recorded' /\ SavesWhatIsPending'
  BY <1>1, KeepsChanges
<1> QED
  BY <1>1, <1>5, <1>6, <1>9, <1>10, <1>11, <1>12, <1>13 DEF IInv, Types, Shown

\* A load that ends keeps the rows or empties the page.
LEMMA EndStep ==
    ASSUME IInv, End
    PROVE  IInv'
<1>1. /\ load.st = "streaming" \/ load.st = "asked"
      /\ load' = Idle("none")
      /\ loadedView' = IF want = Closed THEN loadedView ELSE want.view
      /\ UNCHANGED <<db, others, want, cache, patch, meant, reloads, dialog, saving, sent>>
      /\ UNCHANGED <<refreshing, astray>>
  BY DEF End, table, edits, save, refresh
<1>2. /\ want # Closed => want \in Pages /\ want.view \in Orders
      /\ ~ astray => want # Closed
  BY <1>1, PageFacts DEF IInv, Types, PlainType, Shown, ClosedIsEmpty
<1>3. /\ win' \in Windows(Row, {Stream}) /\ win'.offset = win.offset
      /\ win'.rows = win.rows \/ win'.rows = NoRows
  <2>1. win \in Windows(Row, {Stream})
    BY DEF IInv, Types, RowsType
  <2>2. CASE win' = endRowsStream(win, Stream)
    <3>1. /\ win' \in Windows(Row, {Stream})
          /\ win.op # Stream => win' = win
          /\ win.op = Stream =>
               Stopped(win, IF win.receivedAnyChunk THEN win.rows ELSE NoRows, win')
      BY <2>1, <2>2, EndedWindow
    <3> QED
      BY <3>1 DEF Stopped
  <2>3. CASE win' = failRowsStream(win, Stream)
    <3>1. /\ win' \in Windows(Row, {Stream})
          /\ win.op # Stream => win' = win
          /\ win.op = Stream => Stopped(win, win.rows, win')
      BY <2>1, <2>3, FailedWindow
    <3> QED
      BY <3>1 DEF Stopped
  <2>4. CASE win' = win
    BY <2>1, <2>4
  <2> QED
    BY <2>2, <2>3, <2>4 DEF End
<1>4. PlainType' /\ RowsType' /\ PatchType'
  BY <1>1, <1>2, <1>3 DEF IInv, Types, PlainType, RowsType, PatchType
<1>5. LoadType' /\ load'.st = "none"
  BY <1>1, IdleLoad
<1>6. \A j \in Idx : win'.rows[j] = win.rows[j] \/ win'.rows[j] = NoRow
  BY <1>3, EmptyWindow
<1>7. ~ astray => ClosedIsEmpty' /\ LoadsThePage' /\ PendingIsOnPage'
  BY <1>1, <1>2, <1>3, <1>5 DEF IInv, Shown, ClosedIsEmpty, LoadsThePage, PendingIsOnPage,
                                hasRowPositionPatches, Pending
<1>8. ~ astray => SameRows' /\ UnlikeCacheIsPending'
  BY <1>1, <1>3, <1>6 DEF IInv, Shown, SameRows, UnlikeCacheIsPending
<1>9. ASSUME ~ astray PROVE UncachedIsRecorded'
  <2>1. \A at \in Pos : win.offset + at \in Idx
    BY OnPageIsPosition DEF IInv, Types, RowsType, Windows
  <2> QED
    BY <1>1, <1>3, <1>5, <1>6, <1>9, <2>1 DEF IInv, Shown, UncachedIsRecorded, Pending
<1>10. Recorded' /\ SavesWhatIsPending'
  BY <1>1, KeepsChanges
<1> QED
  BY <1>1, <1>4, <1>5, <1>7, <1>8, <1>9, <1>10 DEF IInv, Types, Shown

\* The fields of an empty patch, and that nothing is pending in it.
LEMMA EmptyPatch ==
    ASSUME patch' = NoPatch, meant' = NobodyMeant
    PROVE  PatchType' /\ Recorded' /\ meant' \in [Pos -> SUBSET Ids]
           /\ (\A at \in Pos : ~ Pending(patch, at)') /\ ~ hasRowPositionPatches(patch)'
<1>1. /\ NoPatch.update = [p \in Pos |-> NoVal] /\ NoPatch.delete = {}
      /\ NoPatch.originalRows = [p \in Pos |-> NoRow]
  BY DEF NoPatch
<1>2. PatchType' /\ meant' \in [Pos -> SUBSET Ids]
  BY DEF PatchType, NoPatch, NobodyMeant
<1>3. \A at \in Pos :
        ~ Pending(patch, at)' /\ patch'.originalRows[at] = NoRow /\ meant'[at] = {}
  BY <1>1 DEF Pending, NobodyMeant
<1> QED
  BY <1>2, <1>3 DEF Recorded, RecordedWhilePending, MeantIsRecorded,
                    MeansItsRecord, NoneMeantElsewhere, hasRowPositionPatches, Pending

\* The row a change of a shown row is made against is that row, as it was loaded if the
\* cache still knows.
LEMMA OriginalIsShown ==
    ASSUME IInv, NEW at \in Pos, RowsChangeable(at), ~ Refused(at)
    PROVE  /\ OriginalRow(at) \in Row /\ ShownRow(at) \in Row
           /\ ~ astray => OriginalRow(at).id = ShownRow(at).id
           /\ cache[win.offset + at] # NoRow => OriginalRow(at) = cache[win.offset + at]
           /\ patch.originalRows[at] # NoRow => OriginalRow(at) = patch.originalRows[at]
           /\ ~ Pending(patch, at) <=> patch.originalRows[at] = NoRow
<1> DEFINE i == win.offset + at
<1>1. /\ i \in Idx
      /\ ShownRow(at) = IF win.rows[i] # NoRow THEN win.rows[i] ELSE cache[i]
      /\ ShownRow(at) \in Row
  BY ShownFacts DEF RowsChangeable, IInv, Types
<1>2. /\ win.rows[i] \in Row \cup {NoRow} /\ cache[i] \in Row \cup {NoRow}
      /\ patch.originalRows[at] \in Row \cup {NoRow}
  BY <1>1, WindowFields DEF IInv, Types, RowsType, PatchType, Caches
<1>3. ~ astray /\ win.rows[i] # NoRow /\ cache[i] # NoRow => win.rows[i].id = cache[i].id
  BY <1>1 DEF IInv, Shown, SameRows
<1>4. ~ Pending(patch, at) <=> patch.originalRows[at] = NoRow
  BY DEF IInv, Recorded, RecordedWhilePending
<1>5. CASE patch.originalRows[at] # NoRow
  <2>1. OriginalRow(at) = patch.originalRows[at]
    BY <1>5 DEF OriginalRow
  <2>2. cache[i] = NoRow \/ cache[i] = patch.originalRows[at]
    BY <1>5 DEF Refused, MovedAway
  <2>3. ~ astray /\ cache[i] = NoRow => win.rows[i].id = patch.originalRows[at].id
    BY <1>1, <1>4, <1>5 DEF IInv, Shown, UncachedIsRecorded, RowsChangeable
  <2> QED
    BY <1>1, <1>2, <1>3, <1>4, <1>5, <2>1, <2>2, <2>3
<1>6. CASE patch.originalRows[at] = NoRow
  <2>1. OriginalRow(at) = IF cache[i] # NoRow THEN cache[i] ELSE win.rows[i]
    BY <1>6 DEF OriginalRow, loadedOriginalRow
  <2> QED
    BY <1>1, <1>2, <1>3, <1>4, <1>6, <2>1 DEF RowsChangeable
<1> QED
  BY <1>5, <1>6

\* A change of a shown row: one position of the patch and one row of the window.  A value
\* that is not the loaded one is pending.
LEMMA ChangeStep ==
    ASSUME IInv, NEW at \in Pos, RowsChangeable(at), ~ Refused(at),
           NEW u \in Vals \cup {NoVal}, NEW D \in SUBSET Pos, NEW row \in Row,
           \A bt \in Pos \ {at} : bt \in D <=> bt \in patch.delete,
           patch' = withRecordedRow([patch EXCEPT !.update[at] = u, !.delete = D],
                                    at, OriginalRow(at)),
           Meant(patch', at),
           win' = updateRow(win, want.offset + at, row),
           row.id = ShownRow(at).id,
           ~ astray /\ ~ reloads /\ cache[win.offset + at] \notin {NoRow, row} => u # NoVal,
           UNCHANGED <<table, want, loadedView, cache, load, refresh, reloads, dialog, save>>
    PROVE  IInv'
<1> DEFINE i == win.offset + at
           O == OriginalRow(at)
           pending == u # NoVal \/ at \in D
<1>1. /\ O \in Row /\ ShownRow(at) \in Row /\ (~ astray => O.id = ShownRow(at).id)
      /\ cache[i] # NoRow => O = cache[i]
      /\ patch.originalRows[at] # NoRow => O = patch.originalRows[at]
      /\ ~ Pending(patch, at) <=> patch.originalRows[at] = NoRow
  BY OriginalIsShown
<1>2. /\ i \in Idx /\ i >= win.offset /\ win.offset = want.offset /\ win.offset \in Nat
      /\ \A bt \in Pos : win.offset + bt \in Idx /\ (win.offset + bt = i => bt = at)
  BY ShownFacts, OnPageIsPosition DEF RowsChangeable, IInv, Types, RowsType, Windows
<1>3. /\ win' \in Windows(Row, {Stream}) /\ win'.offset = win.offset
      /\ win'.rows = [win.rows EXCEPT ![i] = row]
      /\ win.rows \in [Idx -> Row \cup {NoRow}]
  <2>1. win' = updateRow(win, i, row) /\ win \in Windows(Row, {Stream})
    BY <1>2 DEF IInv, Types, RowsType
  <2>2. win.rows \in [Idx -> Row \cup {NoRow}]
    BY <2>1, WindowFields DEF Caches
  <2> QED
    BY <1>2, <2>1, <2>2, UpdatedWindow
<1>4. /\ patch'.update = [patch.update EXCEPT ![at] = u] /\ patch'.delete = D
      /\ patch'.originalRows =
           [patch.originalRows EXCEPT ![at] = IF pending THEN O ELSE NoRow]
      /\ PatchType'
  <2>1. DEFINE p == [patch EXCEPT !.update[at] = u, !.delete = D]
  <2>2. /\ p.update = [patch.update EXCEPT ![at] = u] /\ p.delete = D
        /\ p.originalRows = patch.originalRows
        /\ p \in [update: [Pos -> Vals \cup {NoVal}], delete: SUBSET Pos,
                  originalRows: [Pos -> Row \cup {NoRow}]]
    BY DEF IInv, Types, PatchType
  <2> HIDE DEF p
  <2>3. Pending(p, at) <=> pending
    BY <2>2 DEF Pending
  <2>4. PICK r \in Row \cup {NoRow} :
          /\ r = (IF pending THEN O ELSE NoRow)
          /\ patch' = [p EXCEPT !.originalRows[at] = r]
    BY <1>1, <2>3 DEF withRecordedRow, p
  <2> QED
    BY <2>2, <2>4 DEF PatchType
<1>5. /\ Pending(patch, at)' <=> pending
      /\ \A bt \in Pos \ {at} : /\ Pending(patch, bt)' <=> Pending(patch, bt)
                                /\ patch'.update[bt] = patch.update[bt]
                                /\ patch'.originalRows[bt] = patch.originalRows[bt]
      /\ patch'.update[at] = u
      /\ patch'.originalRows[at] = IF pending THEN O ELSE NoRow
  BY <1>4 DEF Pending, IInv, Types, PatchType
<1>6. /\ meant' = [meant EXCEPT ![at] = IF pending THEN @ \cup {ShownRow(at).id} ELSE {}]
      /\ ShownRow(at).id \in Ids
  BY <1>1, <1>4, RowFields DEF Meant, Pending, IInv, Types, PatchType
<1>7. /\ UNCHANGED <<db, others, want, loadedView, cache, load, reloads, dialog, saving>>
      /\ UNCHANGED <<sent, refreshing, astray>>
  BY DEF table, save, refresh
<1>8. PlainType'
  BY <1>6, <1>7 DEF IInv, Types, PlainType
<1>9. RowsType' /\ LoadType'
  BY <1>3, <1>7 DEF IInv, Types, RowsType, LoadType
<1>10. Recorded'
  <2>1. RecordedWhilePending'
    BY <1>1, <1>5, RowFields DEF IInv, Recorded, RecordedWhilePending
  <2>2. ASSUME ~ astray PROVE Pending(patch, at)' => meant'[at] = {patch'.originalRows[at].id}
    <3>1. Pending(patch, at) => meant[at] = {O.id}
      BY <1>1, <2>2 DEF IInv, Recorded, MeantIsRecorded, MeansItsRecord
    <3>2. ~ Pending(patch, at) => meant[at] = {}
      BY <2>2 DEF IInv, Recorded, MeantIsRecorded, NoneMeantElsewhere
    <3>3. pending => meant'[at] = {O.id}
      BY <1>1, <1>6, <2>2, <3>1, <3>2 DEF IInv, Types, PlainType
    <3> QED
      BY <1>5, <3>3
  <2>3. \A bt \in Pos \ {at} : meant'[bt] = meant[bt]
    BY <1>6 DEF IInv, Types, PlainType
  <2>4. ~ Pending(patch, at)' => meant'[at] = {}
    BY <1>5, <1>6 DEF IInv, Types, PlainType
  <2>5. ~ astray => MeansItsRecord'
    BY <1>5, <2>2, <2>3 DEF IInv, Recorded, MeantIsRecorded, MeansItsRecord
  <2>6. ~ astray => NoneMeantElsewhere'
    BY <1>5, <2>3, <2>4 DEF IInv, Recorded, MeantIsRecorded, NoneMeantElsewhere
  <2> QED
    BY <1>7, <2>1, <2>5, <2>6 DEF Recorded, MeantIsRecorded
<1>11. ~ astray => ClosedIsEmpty' /\ LoadsThePage' /\ PendingIsOnPage'
  BY <1>2, <1>3, <1>7 DEF IInv, Shown, ClosedIsEmpty, LoadsThePage, PendingIsOnPage,
                          RowsChangeable, rowsSettled
<1>12. ~ astray => SameRows'
  BY <1>1, <1>2, <1>3, <1>7 DEF IInv, Shown, SameRows
<1>13. ASSUME ~ astray PROVE UncachedIsRecorded'
  <2> SUFFICES ASSUME NEW bt \in Pos, Pending(patch, bt)', win'.rows[win'.offset + bt] # NoRow,
                      \/ load'.st = "asked" /\ load'.reset
                      \/ cache'[win'.offset + bt] = NoRow
               PROVE  win'.rows[win'.offset + bt].id = patch'.originalRows[bt].id
    BY DEF UncachedIsRecorded
  <2>1. CASE bt = at
    BY <1>1, <1>2, <1>3, <1>5, <1>13, <2>1
  <2>2. CASE bt # at
    <3>1. win'.rows[win'.offset + bt] = win.rows[win.offset + bt]
      BY <1>2, <1>3, <2>2
    <3> QED
      BY <1>3, <1>5, <1>7, <1>13, <2>2, <3>1 DEF IInv, Shown, UncachedIsRecorded
  <2> QED
    BY <2>1, <2>2
<1>14. ASSUME ~ astray PROVE UnlikeCacheIsPending'
  <2> SUFFICES ASSUME ~ reloads, NEW j \in Idx, win'.rows[j] # NoRow, cache[j] # NoRow,
                      win'.rows[j] # cache[j]
               PROVE  \E bt \in Pos : /\ j = win.offset + bt
                                      /\ patch'.update[bt] # NoVal
                                      /\ patch'.originalRows[bt] = cache[j]
    BY <1>3, <1>7 DEF UnlikeCacheIsPending
  <2>1. CASE j = i
    <3>1. u # NoVal /\ O = cache[j]
      BY <1>1, <1>2, <1>3, <1>14, <2>1
    <3> QED
      BY <1>5, <2>1, <3>1
  <2>2. CASE j # i
    <3>1. win'.rows[j] = win.rows[j]
      BY <1>3, <2>2
    <3>2. PICK bt \in Pos : /\ j = win.offset + bt
                            /\ patch.update[bt] # NoVal
                            /\ patch.originalRows[bt] = cache[j]
      BY <1>14, <3>1 DEF IInv, Shown, UnlikeCacheIsPending
    <3> QED
      BY <1>5, <2>2, <3>2
  <2> QED
    BY <2>1, <2>2
<1>15. SavesWhatIsPending'
  BY <1>7 DEF IInv, SavesWhatIsPending, RowsChangeable
<1> QED
  BY <1>4, <1>7, <1>8, <1>9, <1>10, <1>11, <1>12, <1>13, <1>14, <1>15 DEF IInv, Types, Shown

\* A typed value; typing the original takes the change back.
LEMMA EditStep ==
    ASSUME IInv, NEW at \in Pos, NEW v \in Vals, Edit(at, v)
    PROVE  IInv'
<1> DEFINE O == OriginalRow(at)
           S == ShownRow(at)
           u == IF v = O.val THEN NoVal ELSE v
           row == [S EXCEPT !.val = v]
<1>1. /\ O \in Row /\ S \in Row /\ (~ astray => O.id = S.id)
      /\ cache[win.offset + at] # NoRow => O = cache[win.offset + at]
  BY OriginalIsShown DEF Edit
<1>2. row \in Row /\ row.id = S.id /\ row.val = v
  BY <1>1, RowFields
<1>3. ~ astray /\ cache[win.offset + at] \notin {NoRow, row} => u # NoVal
  BY <1>1, <1>2, RowFields, RowEditsAssumption
<1>4. /\ patch.delete \in SUBSET Pos
      /\ [patch EXCEPT !.update[at] = u]
           = [patch EXCEPT !.update[at] = u, !.delete = patch.delete]
  BY DEF IInv, Types, PatchType
<1>5. /\ RowsChangeable(at) /\ ~ Refused(at) /\ Meant(patch', at)
      /\ patch' = withRecordedRow([patch EXCEPT !.update[at] = u], at, O)
      /\ win' = updateRow(win, want.offset + at, row)
      /\ UNCHANGED <<table, want, loadedView, cache, load, refresh, reloads, dialog, save>>
  BY DEF Edit, UpdatePatch
<1>6. u \in Vals \cup {NoVal}
  OBVIOUS
<1> HIDE DEF u, row, O, S
<1> QED
  BY <1>2, <1>3, <1>4, <1>5, <1>6, ChangeStep DEF O, S

\* A row marked for deletion is shown as it is.
LEMMA DeleteStep ==
    ASSUME IInv, NEW at \in Pos, DeleteRow(at)
    PROVE  IInv'
<1> DEFINE u == patch.update[at]
           D == patch.delete \cup {at}
           S == ShownRow(at)
<1>1. S \in Row
  BY OriginalIsShown DEF DeleteRow
<1>2. ~ astray /\ ~ reloads /\ cache[win.offset + at] \notin {NoRow, S} => u # NoVal
  <2>1. /\ win.offset + at \in Idx
        /\ \A bt \in Pos : win.offset + bt = win.offset + at => bt = at
        /\ S = IF win.rows[win.offset + at] # NoRow THEN win.rows[win.offset + at]
               ELSE cache[win.offset + at]
    BY ShownFacts, OnPageIsPosition
       DEF DeleteRow, RowsChangeable, IInv, Types, RowsType, Windows
  <2> QED
    BY <2>1 DEF IInv, Shown, UnlikeCacheIsPending
<1>3. /\ D \in SUBSET Pos /\ u \in Vals \cup {NoVal}
      /\ \A bt \in Pos \ {at} : bt \in D <=> bt \in patch.delete
      /\ [patch EXCEPT !.delete = D] = [patch EXCEPT !.update[at] = u, !.delete = D]
  BY DEF IInv, Types, PatchType
<1>4. /\ RowsChangeable(at) /\ ~ Refused(at) /\ Meant(patch', at)
      /\ patch' = withRecordedRow([patch EXCEPT !.delete = D], at, OriginalRow(at))
      /\ win' = updateRow(win, want.offset + at, S)
      /\ UNCHANGED <<table, want, loadedView, cache, load, refresh, reloads, dialog, save>>
  BY DEF DeleteRow, DeletePatch
<1> HIDE DEF u, D, S
<1> QED
  BY <1>1, <1>2, <1>3, <1>4, ChangeStep DEF S

\* The originals back in the window, where their rows still sit: what differs from the
\* cache then is as it was loaded again.
LEMMA RestoredWindow ==
    ASSUME IInv
    PROVE  /\ Restored \in Windows(Row, {Stream}) /\ Restored.offset = win.offset
           /\ ~ astray => \A i \in Idx : Restored.rows[i] # NoRow /\ cache[i] # NoRow =>
                /\ Restored.rows[i].id = cache[i].id
                /\ ~ reloads => Restored.rows[i] = cache[i]
<1> DEFINE Back(at) == /\ patch.update[at] # NoVal
                       /\ patch.originalRows[at] # NoRow
                       /\ ~ MovedAway(at)
           r == [i \in Idx |-> IF i - win.offset \in Pos /\ Back(i - win.offset)
                               THEN patch.originalRows[i - win.offset] ELSE win.rows[i]]
<1>1. /\ win \in Windows(Row, {Stream}) /\ win.offset \in Nat
      /\ win.rows \in [Idx -> Row \cup {NoRow}]
      /\ patch.originalRows \in [Pos -> Row \cup {NoRow}]
      /\ \A at \in Pos : win.offset + at \in Idx
  BY OnPageIsPosition DEF IInv, Types, RowsType, PatchType, Windows
<1>2. r \in [Idx -> Row \cup {NoRow}]
  BY <1>1
<1>3. Restored = [win EXCEPT !.rows = r]
  <2>1. r = [i \in Idx |-> LET at == i - win.offset
                           IN  IF /\ at \in Pos /\ patch.update[at] # NoVal
                                  /\ patch.originalRows[at] # NoRow /\ ~ MovedAway(at)
                               THEN patch.originalRows[at] ELSE win.rows[i]]
    OBVIOUS
  <2> HIDE DEF r
  <2> QED
    BY <2>1 DEF Restored
<1>4. ASSUME ~ astray, NEW i \in Idx, r[i] # NoRow, cache[i] # NoRow
      PROVE  r[i].id = cache[i].id /\ (~ reloads => r[i] = cache[i])
  <2>1. CASE i - win.offset \in Pos /\ Back(i - win.offset)
    <3>1. win.offset + (i - win.offset) = i
      BY <1>1 DEF Idx
    <3>2. patch.originalRows[i - win.offset] = cache[i]
      BY <1>4, <2>1, <3>1 DEF MovedAway
    <3> QED
      BY <2>1, <3>2
  <2>2. CASE ~ (i - win.offset \in Pos /\ Back(i - win.offset))
    <3>1. r[i] = win.rows[i]
      BY <2>2
    <3>2. ASSUME ~ reloads PROVE win.rows[i] = cache[i]
      <4>1. SUFFICES ASSUME win.rows[i] # cache[i] PROVE FALSE
        OBVIOUS
      <4>2. PICK at \in Pos : /\ i = win.offset + at
                              /\ patch.update[at] # NoVal
                              /\ patch.originalRows[at] = cache[i]
        BY <1>4, <3>1, <3>2, <4>1 DEF IInv, Shown, UnlikeCacheIsPending
      <4>3. i - win.offset = at
        BY <1>1, <4>2 DEF Pos
      <4> QED
        BY <1>4, <2>2, <4>2, <4>3 DEF MovedAway
    <3> QED
      BY <1>4, <3>1, <3>2 DEF IInv, Shown, SameRows
  <2> QED
    BY <2>1, <2>2
<1> HIDE DEF r
<1> QED
  BY <1>1, <1>2, <1>3, <1>4 DEF Windows

\* Changes discarded in favour of another page, and a table truncated.
LEMMA RestoreStep ==
    ASSUME IInv, Truncate \/ \E q \in Pages : DiscardAndTurn(q)
    PROVE  IInv'
<1>1. /\ win' = Restored /\ patch' = NoPatch /\ meant' = NobodyMeant
      /\ dialog # "review" /\ dialog' = "none"
      /\ UNCHANGED <<cache, loadedView, reloads, others, saving, sent>>
      /\ UNCHANGED <<refreshing, astray>>
      /\ db' = db \/ db' = [i \in Ids |-> Gone]
  BY DEF Truncate, DiscardAndTurn, discardRowPositionPatches, ShowPage, Request, table, save,
         refresh
<1>2. LoadType' /\ load'.st = "asked" /\ load'.page = want' /\ want' \in Pages
      /\ want' # Closed
  <2>1. PICK q \in Pages, r \in BOOLEAN, f \in BOOLEAN : want' = q /\ Ask(q, r, f)
    BY DEF Truncate, DiscardAndTurn, ShowPage, Request, IInv, Types, PlainType
  <2> QED
    BY <2>1, AskedLoad, PageFacts
<1>3. /\ win' \in Windows(Row, {Stream}) /\ win'.offset = win.offset
      /\ ~ astray => \A i \in Idx : win'.rows[i] # NoRow /\ cache[i] # NoRow =>
           /\ win'.rows[i].id = cache[i].id
           /\ ~ reloads => win'.rows[i] = cache[i]
  BY <1>1, RestoredWindow
<1>4. /\ PatchType' /\ Recorded' /\ meant' \in [Pos -> SUBSET Ids]
      /\ \A at \in Pos : ~ Pending(patch, at)'
      /\ ~ hasRowPositionPatches(patch)'
  BY <1>1, EmptyPatch
<1>5. PlainType' /\ RowsType'
  BY <1>1, <1>2, <1>3, <1>4 DEF IInv, Types, PlainType, RowsType
<1>6. ASSUME ~ astray PROVE Shown'
  <2>1. ClosedIsEmpty' /\ LoadsThePage' /\ PendingIsOnPage' /\ UncachedIsRecorded'
    BY <1>2, <1>4 DEF ClosedIsEmpty, LoadsThePage, PendingIsOnPage, UncachedIsRecorded
  <2>2. SameRows' /\ UnlikeCacheIsPending'
    BY <1>1, <1>3, <1>6 DEF SameRows, UnlikeCacheIsPending
  <2> QED
    BY <2>1, <2>2 DEF Shown
<1>7. SavesWhatIsPending'
  BY <1>1 DEF IInv, SavesWhatIsPending
<1> QED
  BY <1>1, <1>2, <1>4, <1>5, <1>6, <1>7 DEF IInv, Types

\* Changes dropped until a reload, by the user or by a save that succeeded.
LEMMA DropStep ==
    ASSUME IInv, DiscardChanges \/ Saved
    PROVE  IInv'
<1>1. /\ patch' = NoPatch /\ meant' = NobodyMeant /\ reloads' = (want # Closed)
      /\ UNCHANGED <<win, cache, loadedView, others, refreshing, astray>>
  BY DEF DiscardChanges, Saved, Request, table, save, refresh
<1>2. db' \in [Ids -> Vals \cup {Gone}] /\ sent' \subseteq Statement /\ dialog' = "none"
      /\ saving' = FALSE
  <2>1. CASE DiscardChanges
    BY <2>1 DEF DiscardChanges, IInv, Types, PlainType, SavesWhatIsPending, table, save
  <2>2. CASE Saved
    BY <2>2, AppliedIsTable DEF Saved, IInv, Types, PlainType
  <2> QED
    BY <2>1, <2>2
<1>3. /\ LoadType' /\ want' = want
      /\ IF want = Closed THEN load' = load ELSE load'.page = want
  <2>1. CASE want = Closed
    <3>1. load' = load /\ want' = want
      BY <2>1 DEF DiscardChanges, Saved
    <3> QED
      BY <2>1, <3>1 DEF IInv, Types, LoadType
  <2>2. CASE want # Closed
    <3>1. want' = want /\ Ask(want, TRUE, TRUE)
      BY <2>2 DEF DiscardChanges, Saved, Request
    <3>2. want \in LoadPages
      BY <2>2, PageFacts DEF IInv, Types, PlainType
    <3> QED
      BY <2>2, <3>1, <3>2, AskedLoad
  <2> QED
    BY <2>1, <2>2
<1>4. /\ PatchType' /\ Recorded' /\ meant' \in [Pos -> SUBSET Ids]
      /\ \A at \in Pos : ~ Pending(patch, at)'
      /\ ~ hasRowPositionPatches(patch)'
  BY <1>1, EmptyPatch
<1>5. PlainType' /\ RowsType'
  BY <1>1, <1>2, <1>3, <1>4 DEF IInv, Types, PlainType, RowsType
<1>6. ASSUME ~ astray PROVE Shown'
  <2>1. ClosedIsEmpty' /\ LoadsThePage' /\ PendingIsOnPage' /\ UncachedIsRecorded'
    BY <1>1, <1>3, <1>4, <1>6
       DEF IInv, Shown, ClosedIsEmpty, LoadsThePage, PendingIsOnPage, UncachedIsRecorded
  <2>2. SameRows'
    BY <1>1, <1>6 DEF IInv, Shown, SameRows
  <2>3. CASE want = Closed
    <3>1. \A i \in Idx : win'.rows[i] = NoRow
      BY <1>1, <1>6, <2>3, EmptyWindow DEF IInv, Shown, ClosedIsEmpty
    <3>2. UnlikeCacheIsPending'
      BY <3>1 DEF UnlikeCacheIsPending
    <3> QED
      BY <2>1, <2>2, <3>2 DEF Shown
  <2>4. CASE want # Closed
    <3>1. UnlikeCacheIsPending'
      BY <1>1, <2>4 DEF UnlikeCacheIsPending
    <3> QED
      BY <2>1, <2>2, <3>1 DEF Shown
  <2> QED
    BY <2>3, <2>4
<1>7. SavesWhatIsPending'
  BY <1>2 DEF SavesWhatIsPending
<1> QED
  BY <1>1, <1>3, <1>4, <1>5, <1>6, <1>7 DEF IInv, Types

-----------------------------------------------------------------------------
(* The invariant.                                                          *)

\* With the table closed and nothing pending, the invariant holds.
LEMMA InitInv == Init => IInv
<1> SUFFICES ASSUME Init PROVE IInv
  OBVIOUS
<1>1. PlainType
  <2>1. db \in [Ids -> Vals \cup {Gone}] /\ meant \in [Pos -> SUBSET Ids]
    BY DEF Init, NobodyMeant
  <2>2. others \in 0 .. MaxOthers /\ want \in Pages \cup {Closed}
    BY RowEditsAssumption DEF Init
  <2>3. /\ loadedView \in Orders \cup {"none"} /\ dialog \in {"none", "confirm", "review"}
        /\ reloads \in BOOLEAN /\ saving \in BOOLEAN /\ sent \subseteq Statement
        /\ refreshing \in SUBSET {q.offset : q \in Pages} /\ astray \in BOOLEAN
    BY DEF Init
  <2> QED
    BY <2>1, <2>2, <2>3 DEF PlainType
<1>2. RowsType
  BY EmptyWindow, PageFacts, RowEditsAssumption DEF Init, RowsType
<1>3. LoadType /\ load.st = "none"
  <2>1. 0 \in 0 .. Limit /\ FALSE \in BOOLEAN /\ FirstPage \in LoadPages
    BY PageFacts
  <2>2. load = [st |-> "none", page |-> FirstPage, reset |-> FALSE, force |-> FALSE,
                result |-> <<>>, got |-> 0]
    BY DEF Init, Idle
  <2>3. load.st = "none" /\ load \in Loads(load.result)
    BY <2>1, <2>2 DEF Loads
  <2> QED
    BY <2>3 DEF LoadType
<1>4. PatchType
  BY DEF Init, PatchType, NoPatch
<1>5. /\ NoPatch.update = [p \in Pos |-> NoVal] /\ NoPatch.delete = {}
      /\ NoPatch.originalRows = [p \in Pos |-> NoRow]
  BY DEF NoPatch
<1>6. \A at \in Pos : ~ Pending(patch, at) /\ patch.originalRows[at] = NoRow /\ meant[at] = {}
  BY <1>5 DEF Init, Pending, NobodyMeant
<1>7. Recorded
  BY <1>6 DEF Recorded, RecordedWhilePending, MeantIsRecorded, MeansItsRecord,
                    NoneMeantElsewhere
<1>8. \A i \in Idx : win.rows[i] = NoRow
  BY EmptyWindow DEF Init
<1>9. Shown
  BY <1>3, <1>6, <1>8 DEF Init, Shown, ClosedIsEmpty, LoadsThePage, PendingIsOnPage,
                          SameRows, UncachedIsRecorded, UnlikeCacheIsPending,
                          hasRowPositionPatches
<1>10. SavesWhatIsPending
  BY DEF Init, SavesWhatIsPending
<1> QED
  BY <1>1, <1>2, <1>3, <1>4, <1>7, <1>9, <1>10 DEF IInv, Types

\* Every step keeps it.
LEMMA StepInv == IInv /\ [Next]_vars => IInv'
<1> SUFFICES ASSUME IInv, [Next]_vars PROVE IInv'
  OBVIOUS
<1>1. CASE Open \/ Close
  BY <1>1, AskStep, CloseStep
<1>2. CASE Loading
  BY <1>2, BeginStep, ChunkStep, EndStep DEF Loading
<1>3. CASE Grid
  BY <1>3, DeleteStep, EditStep, AskStep, RestoreStep, ReloadStep, QuietStep, DropStep
     DEF Grid
<1>4. CASE Saving
  BY <1>4, QuietStep, DropStep DEF Saving
<1>5. CASE \E i \in Ids, v \in Vals \cup {Gone} : OtherClient(i, v)
  BY <1>5, QuietStep
<1>6. CASE UNCHANGED vars
  <2>1. UNCHANGED <<want, win, cache, load, loadedView, astray, edits>>
    BY <1>6 DEF vars, edits
  <2>2. PlainType' /\ SavesWhatIsPending'
    BY <1>6 DEF vars, IInv, Types, PlainType, SavesWhatIsPending
  <2> QED
    BY <2>1, <2>2, FrameStep
<1> QED
  BY <1>1, <1>2, <1>3, <1>4, <1>5, <1>6 DEF Next

\* So it holds in every reachable state.
LEMMA Invariance == Spec => []IInv
BY InitInv, StepInv, PTL DEF Spec

\* The variables keep their types: in particular a load delivers rows of one page, and a
\* save holds statements about rows of the table.
THEOREM TypeCorrect == Spec => []TypeOK
<1>1. IInv => TypeOK
  <2> SUFFICES ASSUME IInv PROVE TypeOK
    OBVIOUS
  <2>1. /\ load.st \in {"none", "asked", "streaming"} /\ load.got \in 0 .. Limit
        /\ load.page \in [view: Orders, offset: {q.offset : q \in Pages}]
    BY DEF IInv, Types, LoadType, Loads, LoadPages
  <2>2. /\ patch.update \in [Pos -> Vals \cup {NoVal}] /\ patch.delete \subseteq Pos
        /\ patch.originalRows \in [Pos -> Row \cup {NoRow}]
    BY DEF IInv, Types, PatchType
  <2> QED
    BY <2>1, <2>2 DEF IInv, Types, PlainType, RowsType, Caches, TypeOK
<1> QED
  BY <1>1, Invariance, PTL

\* A row is recorded exactly where a change is pending (withRecordedRow), whatever the
\* order of edits, values typed back, discards and saves.
THEOREM RowIsRecorded == Spec => []RecordedWhilePending
<1>1. IInv => RecordedWhilePending
  BY DEF IInv, Recorded
<1> QED
  BY <1>1, Invariance, PTL

\* A pending change is about the one row the user changed, whatever row has come to its
\* position since (rowPositionPatches.ts), as long as no refresh has loaded another page than
\* the one shown.
THEOREM RecordedRowIsMeant == Spec => []RecordedRowIsTheEdited
<1>1. IInv => RecordedRowIsTheEdited
  BY DEF IInv, Recorded, MeantIsRecorded, MeansItsRecord, RecordedRowIsTheEdited
<1> QED
  BY <1>1, Invariance, PTL

\* What a save would forget is what it has sent, at any moment of its flight.
THEOREM SaveIsComplete == Spec => []SavesAllItForgets
<1>1. IInv => SavesAllItForgets
  BY SqlFromPatch DEF IInv, Types, Recorded, SavesWhatIsPending, SavesAllItForgets
<1> QED
  BY <1>1, Invariance, PTL

\* The statements of a save are about the rows the user changed and no others, with the
\* values typed, and leave out none of them, as long as no refresh went astray.
THEOREM SaveIsAboutEditedRows == Spec => []SaveHitsEditedRows
<1>1. IInv => SaveHitsEditedRows
  <2> SUFFICES ASSUME IInv, saving, ~ astray PROVE SaveHitsEditedRows
    BY DEF SaveHitsEditedRows
  <2>1. sent = SqlOf(patch) /\ patch.delete \subseteq Pos
    BY DEF IInv, SavesWhatIsPending, Types, PatchType
  <2>2. \A at \in Pos : Pending(patch, at) => meant[at] = {patch.originalRows[at].id}
    BY DEF IInv, Recorded, MeantIsRecorded, MeansItsRecord
  <2>3. ASSUME NEW s \in sent
        PROVE  \E at \in Pos : /\ meant[at] = {s.id}
                               /\ IF s.kind = "delete" THEN at \in patch.delete
                                  ELSE patch.update[at] = s.val
    <3>1. CASE \E at \in Pos : /\ patch.update[at] # NoVal
                               /\ s = [kind |-> "update", id |-> patch.originalRows[at].id,
                                       val |-> patch.update[at]]
      BY <2>2, <3>1 DEF Pending
    <3>2. CASE \E at \in patch.delete :
                 s = [kind |-> "delete", id |-> patch.originalRows[at].id]
      BY <2>1, <2>2, <3>2 DEF Pending
    <3> QED
      BY <2>1, <3>1, <3>2 DEF SqlOf
  <2>4. ASSUME NEW at \in Pos, Pending(patch, at) PROVE \E s \in sent : meant[at] = {s.id}
    <3>1. CASE patch.update[at] # NoVal
      <4>1. [kind |-> "update", id |-> patch.originalRows[at].id, val |-> patch.update[at]]
              \in sent
        BY <2>1, <3>1 DEF SqlOf
      <4> QED
        BY <2>2, <2>4, <4>1
    <3>2. CASE at \in patch.delete
      <4>1. [kind |-> "delete", id |-> patch.originalRows[at].id] \in sent
        BY <2>1, <3>2 DEF SqlOf
      <4> QED
        BY <2>2, <2>4, <4>1
    <3> QED
      BY <2>4, <3>1, <3>2 DEF Pending
  <2> QED
    BY <2>3, <2>4 DEF SaveHitsEditedRows
<1> QED
  BY <1>1, Invariance, PTL

\* In a settled grid a value that is not as loaded has a pending change, as long as no
\* refresh went astray.
THEOREM ShownIsPendingOrLoaded == Spec => []UnsavedIsPending
<1>1. IInv => UnsavedIsPending
  <2> SUFFICES ASSUME IInv, rowsSettled, ~ reloads, ~ astray, NEW at \in Pos,
                      win.rows[want.offset + at] # NoRow, cache[want.offset + at] # NoRow,
                      patch.update[at] = NoVal
               PROVE  win.rows[want.offset + at] = cache[want.offset + at]
    BY DEF UnsavedIsPending
  <2>1. /\ want.offset + at \in Idx
        /\ \A bt \in Pos : want.offset + at = win.offset + bt => bt = at
    BY OnPageIsPosition DEF rowsSettled, IInv, Types, RowsType, Windows
  <2> QED
    BY <2>1 DEF IInv, Shown, UnlikeCacheIsPending
<1> QED
  BY <1>1, Invariance, PTL
=============================================================================
