------------------------------ MODULE RowEdits ------------------------------
(***************************************************************************)
(* Unsaved edits and deletions of rows in a table window, from the cell    *)
(* the user changes to the statements that save it.  A pending change is   *)
(* keyed by the row's position on its page; the row it was made against is *)
(* recorded beside it.  Meanwhile pages turn, rows are sorted, reloaded,   *)
(* closed and opened again, and other clients write to the table.          *)
(*                                                                         *)
(* One table with a primary key, "id", and one column, "val"; its window   *)
(* id is derived from its name, so reopening finds the pending changes.    *)
(* Of the loads only the newest is followed: what an older one still       *)
(* delivers is ignored (TableLoads).  New rows and structure are left out. *)
(*                                                                         *)
(* A definition Name_Variant is a faulty variant of Name, kept beside it   *)
(* to show which property notices the fault; no specification uses it.     *)
(***************************************************************************)
EXTENDS RowsWindow, FiniteSets

CONSTANTS Ids,        \* primary keys of the table, numbers
          Vals,       \* values of the column
          Gone,       \* no row has the key
          NoVal,      \* no pending value
          Stream,     \* the operation of the newest load
          Limit,      \* rows of a page
          Pages,      \* the pages the user goes to: an order and an offset
          MaxOthers   \* bound: writes by other clients

Orders == {"asc", "desc"}
FirstPage == [view |-> "asc", offset |-> 0]

ASSUME RowEditsAssumption ==
    /\ Ids \subseteq Nat /\ IsFiniteSet(Ids)
    /\ Limit \in Nat \ {0}
    /\ FirstPage \in Pages
    /\ Pages \subseteq [view: Orders, offset: Idx]
    /\ \A q \in Pages : q.offset + Limit <= Positions
    /\ MaxOthers \in Nat
    /\ Gone \notin Vals /\ NoVal \notin Vals
    /\ NoRow \notin [id: Ids, val: Vals]

VARIABLES
    db,          \* the table: the value of each key
    others,      \* writes by other clients so far
    want,        \* the page the pane shows, or Closed
    loadedView,  \* loadedRowsDataSignatureByTable
    win,         \* tableRowsByKey
    cache,       \* tableRowCacheByKey
    load,        \* the newest load of the rows, and its page
    refreshing,  \* the offset a refresh waits to load, its metadata first, or none
    astray,      \* ghost: has a refresh loaded another page than the one shown?
    patch,       \* dataPatchMap: pending changes and recorded rows, by position
    meant,       \* ghost: the keys of the rows the user changed at a position
    reloads,     \* ghost: changes were dropped and the reload has not yet replaced them
    dialog,      \* "none", "confirm" (discard row changes?), "review" (save)
    saving,      \* a transaction is in flight
    sent         \* its statements

table == <<db, others>>
refresh == <<refreshing, astray>>
rows  == <<win, cache, load, refresh, loadedView>>
edits == <<patch, meant, reloads>>
save  == <<saving, sent>>
vars  == <<db, others, want, loadedView, win, cache, load, refreshing, astray, patch,
           meant, reloads, dialog, saving, sent>>

Row == [id: Ids, val: Vals]
Pos == 0 .. Limit - 1
Closed == [view |-> "none", offset |-> 0]
Statement == [kind: {"update"}, id: Ids, val: Vals] \cup [kind: {"delete"}, id: Ids]

NoPatch == [update |-> [p \in Pos |-> NoVal], delete |-> {},
            originalRows |-> [p \in Pos |-> NoRow]]
NobodyMeant == [p \in Pos |-> {}]

Pending(p, at) == p.update[at] # NoVal \/ at \in p.delete
hasRowPositionPatches(p) == \E at \in Pos : Pending(p, at)

-----------------------------------------------------------------------------
(* The database. *)

Existing == {i \in Ids : db[i] # Gone}
Before(view, a, b) == IF view = "asc" THEN a < b ELSE a > b
Rank(view, i) == Cardinality({j \in Existing : Before(view, j, i)})

(* The rows of a page, from its first. *)
Result_NoLimit(q) ==
    [at \in 0 .. Cardinality(Existing) - 1 - q.offset |->
       LET i == CHOOSE i \in Existing : Rank(q.view, i) = q.offset + at
       IN  [id |-> i, val |-> db[i]]]

Result(q) ==
    LET onPage == {i \in Existing : Rank(q.view, i) \in q.offset .. q.offset + Limit - 1}
    IN  [at \in 0 .. Cardinality(onPage) - 1 |->
           LET i == CHOOSE i \in onPage : Rank(q.view, i) = q.offset + at
           IN  [id |-> i, val |-> db[i]]]

(* A transaction of UPDATE ... WHERE id and DELETE ... WHERE id, the       *)
(* updates first.                                                          *)
Applied(stmts) ==
    [i \in Ids |->
       IF db[i] = Gone \/ \E s \in stmts : s.id = i /\ s.kind = "delete" THEN Gone
       ELSE IF \E s \in stmts : s.id = i /\ s.kind = "update"
            THEN (CHOOSE s \in stmts : s.id = i /\ s.kind = "update").val
            ELSE db[i]]

OtherClient(i, v) ==
    /\ others < MaxOthers
    /\ v # db[i]
    /\ db' = [db EXCEPT ![i] = v]
    /\ others' = others + 1
    /\ UNCHANGED <<want, rows, edits, dialog, save>>

-----------------------------------------------------------------------------
(* Pending changes: the setters of stores/connection/store.ts. *)

(* The row is recorded while a change of it is pending. *)
withRecordedRow_Keeps(p, at, row) ==
    [p EXCEPT !.originalRows[at] = IF @ = NoRow THEN row ELSE @]

withRecordedRow(p, at, row) ==
    [p EXCEPT !.originalRows[at] = IF Pending(p, at) THEN row ELSE NoRow]

loadedOriginalRow(at) ==
    LET i == win.offset + at
    IN  IF cache[i] # NoRow THEN cache[i] ELSE win.rows[i]

(* Another row is in the place of the one the pending change was made      *)
(* against.  Only a row from the cache is as it was loaded.                *)
MovedAway(at) ==
    /\ cache[win.offset + at] # NoRow
    /\ cache[win.offset + at] # patch.originalRows[at]

Refused_Never(at) == FALSE

Refused(at) == patch.originalRows[at] # NoRow /\ MovedAway(at)

OriginalRow(at) ==
    IF patch.originalRows[at] # NoRow THEN patch.originalRows[at]
    ELSE loadedOriginalRow(at)

(* setDataPatchMap with an update; a value equal to the original is no     *)
(* change.                                                                 *)
UpdatePatch(at, v) ==
    withRecordedRow([patch EXCEPT !.update[at] =
                       IF v = OriginalRow(at).val THEN NoVal ELSE v],
                    at, OriginalRow(at))

DeletePatch(at) ==
    withRecordedRow([patch EXCEPT !.delete = @ \cup {at}], at, OriginalRow(at))

(* The window with the originals back, only where that row still sits.     *)
Restored_Nowhere == win

Restored ==
    [win EXCEPT !.rows =
       [i \in Idx |->
          LET at == i - win.offset
          IN  IF /\ at \in Pos
                 /\ patch.update[at] # NoVal
                 /\ patch.originalRows[at] # NoRow
                 /\ ~ MovedAway(at)
              THEN patch.originalRows[at]
              ELSE win.rows[i]]]

-----------------------------------------------------------------------------
Idle(st) == [st |-> st, page |-> FirstPage, reset |-> FALSE, force |-> FALSE,
             result |-> <<>>, got |-> 0]

Init ==
    /\ db \in [Ids -> Vals]
    /\ others = 0
    /\ want = Closed
    /\ loadedView = "none"
    /\ win = makeRowsState
    /\ cache = NoRows
    /\ load = Idle("none")
    /\ refreshing = {}
    /\ astray = FALSE
    /\ patch = NoPatch
    /\ meant = NobodyMeant
    /\ reloads = FALSE
    /\ dialog = "none"
    /\ saving = FALSE
    /\ sent = {}

(* The newest request for rows; one that has not begun yet still begins,   *)
(* just before it, and drops the cache if it was to.                       *)
Ask(q, reset, force) ==
    load' = [Idle("asked") EXCEPT
               !.page = q,
               !.reset = reset \/ (load.st = "asked" /\ load.reset),
               !.force = force]

(* One for the page the pane is to show.                                   *)
Request(q, reset, force) ==
    /\ want' = q
    /\ Ask(q, reset, force)
    /\ UNCHANGED refresh

Open ==
    /\ want = Closed
    /\ dialog = "none"
    /\ Request(FirstPage, loadedView # FirstPage.view, FALSE)
    /\ UNCHANGED <<table, win, cache, loadedView, edits, dialog, save>>

(* closeWindows: the rows go, pending changes stay, without asking. *)
Close ==
    /\ want # Closed
    /\ dialog = "none"
    /\ want' = Closed
    /\ win' = makeRowsState
    /\ cache' = NoRows
    /\ load' = Idle("none")
    /\ reloads' = FALSE
    /\ UNCHANGED <<table, loadedView, refresh, patch, meant, dialog, save>>

-----------------------------------------------------------------------------
(* The newest load. *)

(* The query ran, and the window now belongs to its stream. *)
Begin ==
    /\ load.st = "asked"
    /\ load' = [Idle("streaming") EXCEPT !.page = load.page, !.result = Result(load.page)]
    /\ win' = beginRowsStream(win, cache, Stream, load.page.offset, load.reset, load.force)
    /\ cache' = KeptCache(cache, load.reset)
    /\ reloads' = (reloads /\ ~ load.reset)
    /\ UNCHANGED <<table, want, refresh, loadedView, patch, meant, dialog, save>>

(* Nothing here reads loadedMax: its update in the next frame is taken at  *)
(* once.                                                                   *)
Chunk ==
    /\ load.st = "streaming"
    /\ load.got \in DOMAIN load.result
    /\ load' = [load EXCEPT !.got = @ + 1]
    /\ win' = FlushNotify(applyRowsChunk(win, cache, Stream, load.got,
                                          load.result[load.got]))
    /\ cache' = CachedChunk(win, cache, Stream, load.got, load.result[load.got])
    /\ UNCHANGED <<table, want, refresh, loadedView, edits, dialog, save>>

(* A load that failed counts as loaded too: executeSqlLoad swallows it.    *)
(* What it loaded is noted by the pane, if it is still open.               *)
End ==
    /\ \/ /\ load.st = "streaming"
          /\ load.got \notin DOMAIN load.result
          /\ win' = endRowsStream(win, Stream)
       \/ /\ load.st = "streaming"
          /\ win' = failRowsStream(win, Stream)
       \/ /\ load.st = "asked"
          /\ win' = win
    /\ load' = Idle("none")
    /\ loadedView' = IF want = Closed THEN loadedView ELSE want.view
    /\ UNCHANGED <<table, want, cache, refresh, edits, dialog, save>>

-----------------------------------------------------------------------------
(* What the user does in the grid. *)

(* rowsSettled, with an estimated or unknown row count. *)
rowsSettled == want # Closed /\ win.offset = want.offset /\ ~ win.running

ShownRow(at) == getRowAt(win, cache, want.offset + at)

RowsChangeable(at) ==
    /\ dialog = "none"
    /\ rowsSettled
    /\ ShownRow(at) # NoRow

Meant(p, at) ==
    meant' = [meant EXCEPT ![at] = IF Pending(p, at) THEN @ \cup {ShownRow(at).id} ELSE {}]

(* onDataChange: an accepted value is shown at once. *)
Edit(at, v) ==
    /\ RowsChangeable(at)
    /\ ~ Refused(at)
    /\ patch' = UpdatePatch(at, v)
    /\ Meant(patch', at)
    /\ win' = updateRow(win, want.offset + at, [ShownRow(at) EXCEPT !.val = v])
    /\ UNCHANGED <<table, want, loadedView, cache, load, refresh, reloads, dialog, save>>

DeleteRow(at) ==
    /\ RowsChangeable(at)
    /\ ~ Refused(at)
    /\ patch' = DeletePatch(at)
    /\ Meant(patch', at)
    /\ win' = updateRow(win, want.offset + at, ShownRow(at))
    /\ UNCHANGED <<table, want, loadedView, cache, load, refresh, reloads, dialog, save>>

(* Another page, sort or filter; the page it has is a context refresh.     *)
ShowPage(q) ==
    /\ Request(q, q = want \/ loadedView # q.view, FALSE)
    /\ UNCHANGED <<table, loadedView, cache, save>>

Turn(q) ==
    /\ dialog = "none"
    /\ want # Closed
    /\ ~ hasRowPositionPatches(patch)
    /\ ShowPage(q)
    /\ UNCHANGED <<win, edits, dialog>>

(* The page is chosen with the dialog's answer: the dialog only keeps it.  *)
AskToDiscard ==
    /\ dialog = "none"
    /\ want # Closed
    /\ hasRowPositionPatches(patch)
    /\ dialog' = "confirm"
    /\ UNCHANGED <<table, want, rows, edits, save>>

discardRowPositionPatches ==
    /\ win' = Restored
    /\ patch' = NoPatch
    /\ meant' = NobodyMeant
    /\ UNCHANGED reloads

DiscardAndTurn(q) ==
    /\ dialog = "confirm"
    /\ discardRowPositionPatches
    /\ ShowPage(q)
    /\ dialog' = "none"

KeepChanges ==
    /\ dialog = "confirm"
    /\ dialog' = "none"
    /\ UNCHANGED <<table, want, rows, edits, save>>

(* The table is truncated in the object tree while it is shown. *)
Truncate ==
    /\ dialog = "none"
    /\ want # Closed
    /\ db' = [i \in Ids |-> Gone]
    /\ discardRowPositionPatches
    /\ Request(want, TRUE, FALSE)
    /\ UNCHANGED <<others, loadedView, cache, dialog, save>>

(* Refresh in the menu bar, of a tab without changes; then it awaits       *)
(* refreshSchemaAndTables.                                                 *)
Refresh ==
    /\ dialog = "none"
    /\ want # Closed
    /\ ~ hasRowPositionPatches(patch)
    /\ refreshing = {}
    /\ refreshing' = {want.offset}
    /\ UNCHANGED <<table, want, win, cache, load, astray, loadedView, edits, dialog, save>>

(* By now there may be changes, another page may be shown or none: it      *)
(* loads from the offset it was asked at, in the order that is set now.    *)
Reload(offset) ==
    /\ refreshing = {offset}
    /\ refreshing' = {}
    /\ astray' = (astray \/ want = Closed \/ want.offset # offset)
    /\ Ask([view |-> IF want = Closed THEN FirstPage.view ELSE want.view,
            offset |-> offset], FALSE, TRUE)
    /\ UNCHANGED <<table, want, win, cache, loadedView, edits, dialog, save>>

(* discardChanges, of a tab with changes: the rows are not put back, a     *)
(* reload brings them.                                                     *)
DiscardChanges ==
    /\ dialog = "none"
    /\ hasRowPositionPatches(patch)
    /\ patch' = NoPatch
    /\ meant' = NobodyMeant
    /\ reloads' = (want # Closed)
    /\ IF want = Closed THEN UNCHANGED <<want, load, refresh>> ELSE Request(want, TRUE, TRUE)
    /\ UNCHANGED <<table, win, cache, loadedView, dialog, save>>

-----------------------------------------------------------------------------
(* Saving. *)

(* tableDataForPatchSql: the recorded row identifies the row to change,    *)
(* and only without a record the row now at that position.                 *)
RowForSql_ByPosition(at) == getOriginalRowAt(win, cache, want.offset + at)

RowForSql(at) ==
    IF patch.originalRows[at] # NoRow THEN patch.originalRows[at]
    ELSE getOriginalRowAt(win, cache, want.offset + at)

generateSqlFromPatches ==
    {[kind |-> "update", id |-> RowForSql(at).id, val |-> patch.update[at]] :
        at \in {p \in Pos : patch.update[p] # NoVal /\ RowForSql(p) # NoRow}}
    \cup
    {[kind |-> "delete", id |-> RowForSql(at).id] :
        at \in {p \in patch.delete : RowForSql(p) # NoRow}}

beforeSaveChanges ==
    /\ dialog = "none"
    /\ hasRowPositionPatches(patch)
    /\ dialog' = "review"
    /\ UNCHANGED <<table, want, rows, edits, save>>

CloseReview_Anytime ==
    /\ dialog = "review"
    /\ dialog' = "none"
    /\ UNCHANGED <<table, want, rows, edits, save>>

(* The review cannot be closed while its changes are being saved. *)
CloseReview ==
    /\ dialog = "review"
    /\ ~ saving
    /\ dialog' = "none"
    /\ UNCHANGED <<table, want, rows, edits, save>>

applyPatchesForCurrentTab ==
    /\ dialog = "review"
    /\ ~ saving
    /\ generateSqlFromPatches # {}
    /\ saving' = TRUE
    /\ sent' = generateSqlFromPatches
    /\ UNCHANGED <<table, want, rows, edits, dialog>>

Saved ==
    /\ saving
    /\ db' = Applied(sent)
    /\ patch' = NoPatch
    /\ meant' = NobodyMeant
    /\ reloads' = (want # Closed)
    /\ saving' = FALSE
    /\ sent' = {}
    /\ dialog' = "none"
    /\ IF want = Closed THEN UNCHANGED <<want, load, refresh>> ELSE Request(want, TRUE, TRUE)
    /\ UNCHANGED <<others, win, cache, loadedView>>

(* An error keeps the changes; the transaction may have been applied all   *)
(* the same when its answer was lost.                                      *)
SaveFails ==
    /\ saving
    /\ db' \in {db, Applied(sent)}
    /\ saving' = FALSE
    /\ sent' = {}
    /\ UNCHANGED <<others, want, rows, edits, dialog>>

-----------------------------------------------------------------------------
Loading == Begin \/ Chunk \/ End
Grid == \/ \E at \in Pos : DeleteRow(at) \/ \E v \in Vals : Edit(at, v)
        \/ \E q \in Pages : Turn(q) \/ DiscardAndTurn(q)
        \/ AskToDiscard \/ KeepChanges \/ Truncate \/ Refresh \/ DiscardChanges
        \/ \E offset \in Idx : Reload(offset)
Saving == \/ beforeSaveChanges \/ CloseReview \/ applyPatchesForCurrentTab
          \/ Saved \/ SaveFails

Next == \/ Open \/ Close \/ Loading \/ Grid \/ Saving
        \/ \E i \in Ids, v \in Vals \cup {Gone} : OtherClient(i, v)

Spec == Init /\ [][Next]_vars

-----------------------------------------------------------------------------
TypeOK ==
    /\ db \in [Ids -> Vals \cup {Gone}]
    /\ others \in 0 .. MaxOthers
    /\ want \in Pages \cup {Closed}
    /\ loadedView \in Orders \cup {"none"}
    /\ win \in Windows(Row, {Stream})
    /\ cache \in [Idx -> Row \cup {NoRow}]
    /\ load.st \in {"none", "asked", "streaming"}
    /\ load.page \in [view: Orders, offset: {q.offset : q \in Pages}]
    /\ refreshing \in SUBSET {q.offset : q \in Pages}
    /\ astray \in BOOLEAN
    /\ load.got \in 0 .. Limit
    /\ patch.update \in [Pos -> Vals \cup {NoVal}]
    /\ patch.delete \subseteq Pos
    /\ patch.originalRows \in [Pos -> Row \cup {NoRow}]
    /\ meant \in [Pos -> SUBSET Ids]
    /\ dialog \in {"none", "confirm", "review"}
    /\ reloads \in BOOLEAN
    /\ saving \in BOOLEAN
    /\ sent \subseteq Statement

(* A row is recorded exactly where a change is pending: a record left from *)
(* an earlier change would give the next one at that position a row the    *)
(* user did not touch.                                                     *)
RecordedWhilePending ==
    \A at \in Pos : patch.originalRows[at] # NoRow <=> Pending(patch, at)

(* A pending change is about one row, the one the user changed, whatever   *)
(* row has come to its position since: pages turned, the table closed and  *)
(* opened again, other clients inserted and deleted.  (Not so behind a     *)
(* refresh that loads a page no longer shown: the rows that come to the    *)
(* window are then not those the pane asked for, and an action on one of   *)
(* them may be attached to the earlier row's change.)                      *)
RecordedRowIsTheEdited ==
    ~ astray =>
        \A at \in Pos : Pending(patch, at) => meant[at] = {patch.originalRows[at].id}

(* The statements being saved are about the rows the user changed, with    *)
(* the values typed, and leave none of them out.                           *)
SaveHitsEditedRows ==
    saving /\ ~ astray =>
        /\ \A s \in sent : \E at \in Pos :
              /\ meant[at] = {s.id}
              /\ IF s.kind = "delete" THEN at \in patch.delete
                 ELSE patch.update[at] = s.val
        /\ \A at \in Pos : Pending(patch, at) =>
              \E s \in sent : meant[at] = {s.id}

(* A successful save forgets every pending change of the tab, so all that  *)
(* is pending while it is in flight must be in its statements.             *)
SavesAllItForgets == saving => sent = generateSqlFromPatches

(* In a settled grid, a value that is not as loaded has a pending change:  *)
(* none that was discarded or refused looks as if it were in the table.    *)
(* (After discardChanges and a save, the reload they ask for sees to that; *)
(* behind a refresh that went astray the code does not.)                   *)
UnsavedIsPending ==
    rowsSettled /\ ~ reloads /\ ~ astray =>
        \A at \in Pos :
            LET i == want.offset + at
            IN  /\ win.rows[i] # NoRow
                /\ cache[i] # NoRow
                /\ patch.update[at] = NoVal
                => win.rows[i] = cache[i]

(* What rowPositionPatches.ts says of the grid's markers: they stay on the *)
(* rows the changes were made to.                                          *)
MarkersStayOnTheirRows ==
    rowsSettled =>
        \A at \in Pos :
            /\ Pending(patch, at)
            /\ ShownRow(at) # NoRow
            => ShownRow(at).id = patch.originalRows[at].id
=============================================================================
