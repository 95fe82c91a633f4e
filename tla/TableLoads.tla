----------------------------- MODULE TableLoads -----------------------------
(***************************************************************************)
(* How the rows of a table come into its window: the pane asks for a page, *)
(* loadTableData coalesces the request with the loads in flight,           *)
(* startRowsStream cancels the stream the window had, takes the            *)
(* connection's busy slot, cancelling whoever holds it, and copies the     *)
(* chunks into the window until the operation reports its end.             *)
(*                                                                         *)
(* The webview is one thread: what it does between two awaits is one step. *)
(* Operations are seen from here: they run while they hold the slot, a     *)
(* cancel releases it at once and either aborts the task, which then       *)
(* reports nothing, or lets it report done early (Operations).  Their      *)
(* events arrive in order (ResultStream), a chunk is one row.  A load and  *)
(* its operation have one name.  Counts and structure are left out.        *)
(*                                                                         *)
(* A definition Name_Variant is a faulty variant of Name, kept beside it   *)
(* to show which property notices the fault; no specification uses it.     *)
(***************************************************************************)
EXTENDS RowsWindow, FiniteSets

CONSTANTS Keys,        \* open tables: profile tab, schema and name
          Views,       \* a filter and a sort
          Loads,       \* bound: the loads ever made
          NoLoad,
          NoView,
          Limit,       \* rows of a page
          PagesOf,     \* Keys -> the pages asked for: views and offsets
          RowsOf,      \* Views -> Nat: how many rows a view of a table has
          ConnOf,      \* Keys -> the connection a table is read through
          TableOf,     \* Keys -> schema and name
          MaxTries     \* the attempts after the first (RETRY_ATTEMPTS - 1)

ASSUME TableLoadsAssumption ==
    /\ Limit \in Nat \ {0}
    /\ PagesOf \in [Keys -> SUBSET [view: Views, offset: Idx]]
    /\ RowsOf \in [Views -> 0 .. Positions]
    /\ MaxTries \in Nat
    /\ NoLoad \notin Loads /\ NoOp \notin Loads
    /\ Keys # {}
    /\ NoView \notin Views

VARIABLES
    want,          \* the page a table's pane shows: view and offset
    loadedView,    \* loadedRowsDataSignatureByTable
    columns,       \* the tables whose columns are known
    win,           \* tableRowsByKey
    cache,         \* tableRowCacheByKey
    load,          \* calls of loadTableData that load rows
    byKey,         \* inflightLoadByTableKey
    rowsInflight,  \* rowsInflightByQueryKey
    op,            \* the operation of each load, and the rows it delivered
    slot,          \* the operation each connection is busy with
    cancels        \* operation_cancel calls nobody awaits

panes == <<want, loadedView, columns>>
rows  == <<win, cache>>
flight == <<load, byKey, rowsInflight>>
ops   == <<op, slot, cancels>>
vars  == <<want, loadedView, columns, win, cache, load, byKey, rowsInflight,
           op, slot, cancels>>

Queries == UNION {PagesOf[k] : k \in Keys}
NoQuery == [view |-> NoView, offset |-> 0]
Row == [table: {TableOf[k] : k \in Keys}, view: Views, pos: Idx]
Conns == {ConnOf[k] : k \in Keys}
Statements == {TableOf[k] : k \in Keys} \X Queries

(* The result of a page: SELECT ... LIMIT ... OFFSET. *)
PageLength_NoLimit(q) == IF RowsOf[q.view] <= q.offset THEN 0 ELSE RowsOf[q.view] - q.offset

PageLength(q) ==
    IF RowsOf[q.view] <= q.offset THEN 0
    ELSE IF RowsOf[q.view] - q.offset < Limit THEN RowsOf[q.view] - q.offset
    ELSE Limit
RowOf(r, at) == [table |-> TableOf[r.key], view |-> r.q.view, pos |-> r.q.offset + at]
Sql(r) == <<TableOf[r.key], r.q>>

Request(st, k, q, reset, force, refresh) ==
    [st |-> st, key |-> k, q |-> q, reset |-> reset, force |-> force,
     refresh |-> refresh, old |-> NoLoad, tries |-> 0]

Unused == {l \in Loads : load[l].st = "idle"}
Settled(l) == load[l].st \in {"done", "failed"}
InFlight(l) == load[l].st # "idle" /\ ~ Settled(l)

Init ==
    /\ want = [k \in Keys |-> NoQuery]
    /\ loadedView = [k \in Keys |-> NoView]
    /\ columns = {}
    /\ win = [k \in Keys |-> makeRowsState]
    /\ cache = [k \in Keys |-> NoRows]
    /\ load = [l \in Loads |-> Request("idle", CHOOSE k \in Keys : TRUE, NoQuery,
                                      FALSE, FALSE, FALSE)]
    /\ byKey = [k \in Keys |-> NoLoad]
    /\ rowsInflight = [s \in Statements |-> NoLoad]
    /\ op = [l \in Loads |-> [st |-> "none", got |-> 0]]
    /\ slot = [c \in Conns |-> NoLoad]
    /\ cancels = {}

-----------------------------------------------------------------------------
(* Operations, as the webview sees them. *)

FreeSlot(o) == [c \in Conns |-> IF slot[c] = o THEN NoLoad ELSE slot[c]]

(* operation_cancel of an operation that has ended does nothing. *)
Cancel(o) ==
    IF o \in Loads /\ op[o].st = "running"
    THEN /\ slot' = FreeSlot(o)
         /\ \E st \in {"aborted", "cut"} : op' = [op EXCEPT ![o].st = st]
    ELSE UNCHANGED <<slot, op>>

ServerEnd(l, st) ==
    /\ op[l].st = "running"
    /\ op' = [op EXCEPT ![l].st = st]
    /\ slot' = FreeSlot(l)
    /\ UNCHANGED <<panes, rows, flight, cancels>>

-----------------------------------------------------------------------------
(* Asking for a page. *)

Signature(r) == <<r.key, r.q, r.reset, r.force, r.refresh>>

(* A request that changes nothing about the cached rows joins whatever     *)
(* load of the table is in flight.  The flags that refresh counts, keys    *)
(* and structure also keep a request from joining; what they load is left  *)
(* out, and they with it.                                                  *)
Joins(r) ==
    \/ \E l \in Loads : InFlight(l) /\ Signature(load[l]) = Signature(r)
    \/ ~ r.reset /\ ~ r.force /\ byKey[r.key] # NoLoad

computeLoadPlan(r) ==
    LET w == win[r.key]
        matches == w.offset = r.q.offset
    IN  \/ r.reset \/ r.force \/ r.refresh
        \/ r.key \notin columns
        \/ ~ matches
        \/ w.loadedMax < r.q.offset /\ ~ w.running

(* startRowsStream, up to its first await. *)
startRowsStream(l, r) ==
    IF ~ r.force /\ rowsInflight[Sql(r)] # NoLoad
    THEN /\ load' = [load EXCEPT ![l] =
                       [r EXCEPT !.st = "joined", !.old = rowsInflight[Sql(r)]]]
         /\ UNCHANGED rowsInflight
    ELSE /\ load' = [load EXCEPT ![l] =
                       [r EXCEPT !.st = "superseding", !.old = win[r.key].op]]
         /\ rowsInflight' = [rowsInflight EXCEPT ![Sql(r)] = l]

loadTableData(k, q, reset, force, refresh) ==
    LET r == Request("columns", k, q, reset, force, refresh)
    IN  IF Joins(r) \/ ~ computeLoadPlan(r)
        THEN UNCHANGED flight
        ELSE LET l == CHOOSE x \in Unused : TRUE
             IN  /\ byKey' = [byKey EXCEPT ![k] = l]
                 /\ IF k \in columns THEN startRowsStream(l, r)
                    ELSE /\ load' = [load EXCEPT ![l] = r]
                         /\ UNCHANGED rowsInflight

(* The user opens the table, turns the page, filters or sorts: the effect  *)
(* of the pane runs handleLoadRows for the new query.                      *)
Ask(k, q) ==
    /\ q # want[k]
    /\ want' = [want EXCEPT ![k] = q]
    /\ loadTableData(k, q, loadedView[k] # q.view, FALSE, TRUE)
    /\ UNCHANGED <<loadedView, columns, rows, ops>>

(* The user comes back to the table's tab: the pane mounts again with the  *)
(* query it had.                                                           *)
Show(k) ==
    /\ want[k] # NoQuery
    /\ loadTableData(k, want[k], loadedView[k] # want[k].view, FALSE, FALSE)
    /\ UNCHANGED <<panes, rows, ops>>

(* Refresh in the menu bar reloads the focused table. *)
Refresh(k) ==
    /\ want[k] # NoQuery
    /\ loadTableData(k, want[k], FALSE, TRUE, TRUE)
    /\ UNCHANGED <<panes, rows, ops>>

(* removeTableData.  The module's maps of loads in flight stay. *)
Close(k) ==
    /\ want[k] # NoQuery
    /\ want' = [want EXCEPT ![k] = NoQuery]
    /\ cancels' = cancels \cup ({win[k].op} \ {NoOp})
    /\ win' = [win EXCEPT ![k] = makeRowsState]
    /\ cache' = [cache EXCEPT ![k] = NoRows]
    /\ columns' = columns \ {k}
    /\ UNCHANGED <<loadedView, flight, op, slot>>

CloseCancels(o) ==
    /\ o \in cancels
    /\ cancels' = cancels \ {o}
    /\ Cancel(o)
    /\ UNCHANGED <<panes, rows, flight>>

-----------------------------------------------------------------------------
(* The life of a load. *)

(* Each map deletes the entry that still holds the settled promise. *)
Forget_Nothing(inflight, gone) == inflight

Forget(inflight, gone) ==
    [x \in DOMAIN inflight |-> IF inflight[x] \in gone THEN NoLoad ELSE inflight[x]]

(* The load's promise settles, and with it those that joined its stream;   *)
(* of a settled load only the query is remembered, for the properties.     *)
(* executeSqlLoad swallows the error: handleLoadRows takes the view as     *)
(* loaded either way.  A refresh has no such continuation.  A request that *)
(* loadTableData coalesced is not a load of its own: that it takes its     *)
(* view as loaded again, when the other's promise settles, is left out (it *)
(* coalesced because that view was the loaded one).                        *)
Settle(l, st) ==
    LET gone == {l} \cup {x \in Loads : load[x].st = "joined" /\ load[x].old = l}
    IN  /\ load' = [x \in Loads |->
              IF x \in gone
              THEN Request(st, load[x].key, load[x].q, FALSE, FALSE, FALSE)
              ELSE load[x]]
        /\ byKey' = Forget(byKey, gone)
        /\ rowsInflight' = Forget(rowsInflight, gone)
        /\ loadedView' = [k \in Keys |->
              IF \E x \in gone : load[x].key = k /\ ~ load[x].force
              THEN load[CHOOSE x \in gone : load[x].key = k /\ ~ load[x].force].q.view
              ELSE loadedView[k]]

ColumnsLoaded(l) ==
    /\ load[l].st = "columns"
    /\ columns' = columns \cup {load[l].key}
    /\ startRowsStream(l, load[l])
    /\ UNCHANGED <<want, loadedView, rows, byKey, ops>>

ColumnsFailed(l) ==
    /\ load[l].st = "columns"
    /\ Settle(l, "failed")
    /\ UNCHANGED <<want, columns, rows, ops>>

(* The stream the window had is cancelled, whoever asked for it. *)
Supersede(l) ==
    /\ load[l].st = "superseding"
    /\ Cancel(load[l].old)
    /\ load' = [load EXCEPT ![l].st = "starting", ![l].old = NoLoad]
    /\ UNCHANGED <<panes, rows, byKey, rowsInflight, cancels>>

Start(l) ==
    LET c == ConnOf[load[l].key]
    IN  /\ load[l].st = "starting"
        /\ slot[c] = NoLoad
        /\ slot' = [slot EXCEPT ![c] = l]
        /\ op' = [op EXCEPT ![l].st = "running"]
        /\ load' = [load EXCEPT ![l].st = "started"]
        /\ UNCHANGED <<panes, rows, byKey, rowsInflight, cancels>>

(* The connection is busy: the error names the holder.  One attempt stands *)
(* for the up to eight that operationExecuteWithBusyRetry makes within     *)
(* each attempt of retryAsync: they look, cancel and try again alike.      *)
Busy(l) ==
    LET c == ConnOf[load[l].key]
    IN  /\ load[l].st = "starting"
        /\ slot[c] # NoLoad
        /\ load[l].tries < MaxTries
        /\ load' = [load EXCEPT ![l].st = "busy", ![l].old = slot[c],
                                ![l].tries = @ + 1]
        /\ UNCHANGED <<panes, rows, byKey, rowsInflight, ops>>

CancelHolder(l) ==
    /\ load[l].st = "busy"
    /\ Cancel(load[l].old)
    /\ load' = [load EXCEPT ![l].st = "starting", ![l].old = NoLoad]
    /\ UNCHANGED <<panes, rows, byKey, rowsInflight, cancels>>

(* The last attempt is refused, or one fails for another reason. *)
StartFails(l) ==
    /\ load[l].st = "starting"
    /\ slot[ConnOf[load[l].key]] # NoLoad => load[l].tries = MaxTries
    /\ Settle(l, "failed")
    /\ UNCHANGED <<want, columns, rows, ops>>

(* operation_execute answered: the window is given to the operation and    *)
(* its events are subscribed to.                                           *)
Begin(l) ==
    LET k == load[l].key
    IN  /\ load[l].st = "started"
        /\ load' = [load EXCEPT ![l].st = "streaming"]
        /\ win' = [win EXCEPT ![k] =
                     beginRowsStream(win[k], cache[k], l, load[l].q.offset,
                                     load[l].reset, load[l].force)]
        /\ cache' = [cache EXCEPT ![k] = KeptCache(cache[k], load[l].reset)]
        /\ UNCHANGED <<panes, byKey, rowsInflight, ops>>

(* A chunk may still arrive after a cancel. *)
Chunk(l) ==
    LET k == load[l].key
        row == RowOf(load[l], op[l].got)
    IN  /\ load[l].st = "streaming"
        /\ op[l].st \in {"running", "ended", "aborted", "cut"}
        /\ op[l].got < PageLength(load[l].q)
        /\ op' = [op EXCEPT ![l].got = @ + 1]
        /\ win' = [win EXCEPT ![k] =
                     applyRowsChunk(win[k], cache[k], l, op[l].got, row)]
        /\ cache' = [cache EXCEPT ![k] =
                       CachedChunk(win[k], cache[k], l, op[l].got, row)]
        /\ UNCHANGED <<panes, flight, slot, cancels>>

EndReported(l) ==
    \/ op[l].st = "ended" /\ op[l].got = PageLength(load[l].q)
    \/ op[l].st = "cut"

Done_OwnOnly(l) ==
    /\ load[l].st = "streaming"
    /\ EndReported(l)
    /\ win[load[l].key].op = l
    /\ win' = [win EXCEPT ![load[l].key] = endRowsStream(@, l)]
    /\ Settle(l, "done")
    /\ UNCHANGED <<want, columns, cache, ops>>

(* A stream whose window was given to another one just settles. *)
Done(l) ==
    /\ load[l].st = "streaming"
    /\ EndReported(l)
    /\ win' = [win EXCEPT ![load[l].key] = endRowsStream(@, l)]
    /\ Settle(l, "done")
    /\ UNCHANGED <<want, columns, cache, ops>>

Error(l) ==
    /\ load[l].st = "streaming"
    /\ op[l].st = "errored"
    /\ win' = [win EXCEPT ![load[l].key] = failRowsStream(@, l)]
    /\ Settle(l, "failed")
    /\ UNCHANGED <<want, columns, cache, ops>>

Flush(k) ==
    /\ win[k].pending >= 0
    /\ win' = [win EXCEPT ![k] = FlushNotify(win[k])]
    /\ UNCHANGED <<panes, cache, flight, ops>>

-----------------------------------------------------------------------------
(* Bound: the user asks for nothing more once every load is used. *)
User(k) == \/ /\ Unused # {}
              /\ \/ \E q \in PagesOf[k] : Ask(k, q)
                 \/ Show(k) \/ Refresh(k)
           \/ Close(k)

Backend(l) == \E st \in {"ended", "errored"} : ServerEnd(l, st)

Progress(l) ==
    \/ ColumnsLoaded(l) \/ ColumnsFailed(l) \/ Supersede(l) \/ Start(l)
    \/ Busy(l) \/ CancelHolder(l) \/ StartFails(l) \/ Begin(l) \/ Chunk(l)
    \/ Done(l) \/ Error(l)

Next == \/ \E k \in Keys : User(k) \/ Flush(k)
        \/ \E l \in Loads : Backend(l) \/ Progress(l) \/ CloseCancels(l)

Spec == Init /\ [][Next]_vars

(* IPC calls are answered, emitted events are dispatched, and a query      *)
(* ends: its connection answers or is lost.                                *)
FairSpec ==
    Spec /\ \A l \in Loads : WF_vars(Backend(l) \/ Progress(l))

-----------------------------------------------------------------------------
TypeOK ==
    /\ want \in [Keys -> Queries \cup {NoQuery}]
    /\ loadedView \in [Keys -> Views \cup {NoView}]
    /\ columns \subseteq Keys
    /\ win \in [Keys -> Windows(Row, Loads)]
    /\ cache \in [Keys -> [Idx -> Row \cup {NoRow}]]
    /\ load \in [Loads ->
          [st: {"idle", "columns", "joined", "superseding", "starting", "busy",
                "started", "streaming", "done", "failed"},
           key: Keys, q: Queries \cup {NoQuery}, reset: BOOLEAN, force: BOOLEAN,
           refresh: BOOLEAN, old: Loads \cup {NoLoad, NoOp}, tries: 0 .. MaxTries]]
    /\ byKey \in [Keys -> Loads \cup {NoLoad}]
    /\ rowsInflight \in [Statements -> Loads \cup {NoLoad}]
    /\ op \in [Loads -> [st: {"none", "running", "ended", "errored", "aborted", "cut"},
                         got: 0 .. Limit]]
    /\ slot \in [Conns -> Loads \cup {NoLoad}]
    /\ cancels \subseteq Loads

(* While a window belongs to a load, every row that load delivered is in   *)
(* its place and in the cache: no chunk of the stream it replaced, however *)
(* late, and no end of another load disturbs the page.                     *)
DeliveredRowsStay ==
    \A k \in Keys, l \in Loads :
        win[k].op = l =>
            \A at \in 0 .. op[l].got - 1 :
                LET i == win[k].offset + at
                IN  /\ win[k].rows[i] = RowOf(load[l], at)
                    /\ cache[k][i] = RowOf(load[l], at)

(* A page whose load ended with no row is shown empty, though a longer     *)
(* result stood at the same offset until then, and an earlier stream's     *)
(* rows may still be counted a frame later.                                *)
EmptyResultClears ==
    \A k \in Keys, l \in Loads :
        win[k].op = l /\ load[l].st = "done" /\ op[l].got = 0 =>
            win[k].rows = NoRows

(* A window shows its load: neither less, nor what an earlier one left.   *)
WindowShowsItsLoad == DeliveredRowsStay /\ EmptyResultClears

(* A window is marked as running exactly while the load it belongs to      *)
(* still listens: no stream it replaced, no cancel, close or failure       *)
(* leaves it running for a load that is over, and it is not shown as ready *)
(* while its own load's rows may still come.  That the load does hear an   *)
(* end is another matter: see CancelledLoadFinishes.                       *)
RunningIsWatched ==
    \A k \in Keys :
        win[k].running <=> /\ win[k].op \in Loads
                           /\ load[win[k].op].st = "streaming"

(* A load that joined another waits for one that is still in flight, and   *)
(* an entry of the maps of loads in flight leads to one: a settled load is *)
(* never joined, which would show the page it left as the one asked for.   *)
JoinsOnlyInFlight ==
    /\ \A l \in Loads : load[l].st = "joined" => InFlight(load[l].old)
    /\ \A k \in Keys : byKey[k] # NoLoad => InFlight(byKey[k])
    /\ \A s \in Statements : rowsInflight[s] # NoLoad => InFlight(rowsInflight[s])

Aborted(l) ==
    \/ op[l].st = "aborted"
    \/ load[l].st = "joined" /\ op[load[l].old].st = "aborted"

(* Every load settles, also one whose window was given to another, unless  *)
(* its operation was aborted by a cancel.                                  *)
LoadSettles ==
    \A l \in Loads : InFlight(l) ~> Settled(l) \/ Aborted(l)

(* What useConnectionActions.ts says of a manual refresh: a load that is   *)
(* cancelled finishes too.                                                 *)
CancelledLoadFinishes ==
    \A l \in Loads : InFlight(l) ~> Settled(l)
=============================================================================
