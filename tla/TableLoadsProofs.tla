--------------------------- MODULE TableLoadsProofs ---------------------------
(***************************************************************************)
(* That a window shows the rows of the load it belongs to and is watched   *)
(* while it runs, and that only loads in flight are joined, for any        *)
(* tables, queries and loads.                                              *)
(***************************************************************************)
EXTENDS TableLoads, RowsWindowProofs, TLAPS

\* The types, by what the steps change together.
Stages == {"idle", "columns", "joined", "superseding", "starting", "busy", "started",
           "streaming", "done", "failed"}
LoadRecord ==
    [st: Stages, key: Keys, q: Queries \cup {NoQuery}, reset: BOOLEAN, force: BOOLEAN,
     refresh: BOOLEAN, old: Loads \cup {NoLoad, NoOp}, tries: 0 .. MaxTries]
OpRecord == [st: {"none", "running", "ended", "errored", "aborted", "cut"}, got: 0 .. Limit]

PaneType ==
    /\ want \in [Keys -> Queries \cup {NoQuery}]
    /\ loadedView \in [Keys -> Views \cup {NoView}]
    /\ columns \subseteq Keys
RowsType ==
    /\ win \in [Keys -> Windows(Row, Loads)]
    /\ cache \in [Keys -> Caches(Row)]
FlightType ==
    /\ load \in [Loads -> LoadRecord]
    /\ byKey \in [Keys -> Loads \cup {NoLoad}]
    /\ rowsInflight \in [Statements -> Loads \cup {NoLoad}]
OpsType ==
    /\ op \in [Loads -> OpRecord]
    /\ slot \in [Conns -> Loads \cup {NoLoad}]
    /\ cancels \subseteq Loads

Types == PaneType /\ RowsType /\ FlightType /\ OpsType

\* The stages in which a load drives a stream of its own.
Driving == {"superseding", "starting", "busy", "started", "streaming"}

\* A load that was asked for has a query, and delivers no more than its page, nothing
\* before its stream has begun.
DeliversItsPage ==
    \A l \in Loads :
        /\ load[l].st # "idle" => load[l].q \in Queries
        /\ op[l].got > 0 => /\ load[l].st \in {"streaming", "done", "failed"}
                            /\ op[l].got <= PageLength(load[l].q)

\* Only loads that drive a stream are joined, and the maps of loads in flight hold loads
\* in flight.
JoinsDriving ==
    /\ \A l \in Loads :
         load[l].st = "joined" => load[l].old \in Loads /\ load[load[l].old].st \in Driving
    /\ \A s \in Statements :
         rowsInflight[s] # NoLoad => load[rowsInflight[s]].st \in Driving
    /\ \A k \in Keys : byKey[k] # NoLoad => InFlight(byKey[k])

\* A window belongs to a load of its table, which has begun there and listens exactly
\* while the window is running.
OwnedByItsLoad ==
    \A k \in Keys :
        /\ win[k].op \in Loads =>
             /\ load[win[k].op].key = k
             /\ load[win[k].op].st \in {"streaming", "done", "failed"}
             /\ win[k].offset = load[win[k].op].q.offset
             /\ win[k].receivedAnyChunk = TRUE <=> op[win[k].op].got > 0
        /\ win[k].running <=>
             /\ win[k].op \in Loads
             /\ load[win[k].op].st = "streaming"

IInv == /\ Types /\ DeliversItsPage /\ JoinsDriving /\ OwnedByItsLoad
        /\ DeliveredRowsStay /\ EmptyResultClears

-----------------------------------------------------------------------------
(* Constants.                                                              *)

\* A page lies within the positions, and its length does not exceed the limit.
LEMMA PageFacts ==
    ASSUME NEW q \in Queries
    PROVE  /\ q.view \in Views /\ q.offset \in Idx /\ q # NoQuery
           /\ PageLength(q) \in 0 .. Limit
           /\ \A at \in Nat : at < PageLength(q) => q.offset + at \in Idx
<1>1. q \in [view: Views, offset: Idx]
  BY TableLoadsAssumption DEF Queries
<1>2. q.view \in Views /\ q.offset \in Idx /\ q.offset \in Nat
  BY <1>1 DEF Idx
<1>3. RowsOf[q.view] \in 0 .. Positions /\ Limit \in Nat \ {0} /\ Positions \in Nat \ {0}
  BY <1>2, TableLoadsAssumption, PositionsAssumption
<1>4. q # NoQuery
  BY <1>1, TableLoadsAssumption DEF NoQuery
<1>5. PageLength(q) \in 0 .. Limit
  BY <1>2, <1>3 DEF PageLength
<1>6. \A at \in Nat : at < PageLength(q) => q.offset + at \in Idx
  BY <1>2, <1>3 DEF PageLength, Idx
<1> QED
  BY <1>2, <1>4, <1>5, <1>6

\* The fields of a load and of its operation.
LEMMA LoadFields ==
    ASSUME FlightType, OpsType, NEW l \in Loads
    PROVE  /\ load[l].st \in Stages /\ load[l].key \in Keys
           /\ load[l].q \in Queries \cup {NoQuery}
           /\ load[l].reset \in BOOLEAN /\ load[l].force \in BOOLEAN
           /\ load[l].refresh \in BOOLEAN
           /\ load[l].old \in Loads \cup {NoLoad, NoOp} /\ load[l].tries \in 0 .. MaxTries
           /\ op[l].got \in 0 .. Limit
BY DEF FlightType, OpsType, LoadRecord, OpRecord

\* A request in a given stage.
LEMMA RequestFields ==
    ASSUME NEW st \in Stages, NEW k \in Keys, NEW q \in Queries \cup {NoQuery},
           NEW reset \in BOOLEAN, NEW force \in BOOLEAN, NEW refresh \in BOOLEAN,
           NEW r, r = Request(st, k, q, reset, force, refresh)
    PROVE  /\ r \in LoadRecord /\ r.st = st /\ r.key = k /\ r.q = q
           /\ r.reset = reset /\ r.force = force
BY TableLoadsAssumption DEF Request, LoadRecord

\* The row a load delivers next has a place in the table.
LEMMA DeliveredRow ==
    ASSUME IInv, NEW l \in Loads, load[l].q \in Queries, NEW at \in Nat,
           at < PageLength(load[l].q)
    PROVE  RowOf(load[l], at) \in Row /\ load[l].q.offset + at \in Idx
<1>1. load[l].key \in Keys /\ load[l].q.view \in Views /\ load[l].q.offset + at \in Idx
  BY LoadFields, PageFacts DEF IInv, Types
<1> QED
  BY <1>1 DEF RowOf, Row


-----------------------------------------------------------------------------
(* What the steps have in common.                                          *)

\* The stages of a load that may own a window.
BegunStages == {"streaming", "done", "failed"}
SameBegun == \A l \in Loads : load[l].st \in BegunStages => load'[l] = load[l]
SameGot == \A l \in Loads : op'[l].got = op[l].got

\* A row is named after the table, the view and the place it was asked for with.
LEMMA SameRow ==
    ASSUME NEW r, NEW s, r.key = s.key, r.q = s.q
    PROVE  \A at : RowOf(r, at) = RowOf(s, at)
BY DEF RowOf

\* What windows show is left alone by a step that touches neither them, nor the rows
\* delivered, nor a load that has begun.
LEMMA KeepsWindows ==
    ASSUME IInv, UNCHANGED rows, SameBegun, SameGot
    PROVE  OwnedByItsLoad' /\ DeliveredRowsStay' /\ EmptyResultClears'
<1>1. UNCHANGED <<win, cache>>
  BY DEF rows
<1>2. ASSUME NEW k \in Keys, win[k].op \in Loads
      PROVE  /\ load'[win[k].op] = load[win[k].op]
             /\ op'[win[k].op].got = op[win[k].op].got
  BY <1>2 DEF IInv, OwnedByItsLoad, SameBegun, SameGot, BegunStages
<1>3. OwnedByItsLoad'
  BY <1>1, <1>2 DEF IInv, OwnedByItsLoad
<1>4. DeliveredRowsStay'
  BY <1>1, <1>2, SameRow DEF IInv, DeliveredRowsStay
<1>5. EmptyResultClears'
  BY <1>1, <1>2 DEF IInv, EmptyResultClears
<1> QED
  BY <1>3, <1>4, <1>5

\* A cancel ends an operation and takes back nothing it delivered.
LEMMA CancelKeeps ==
    ASSUME OpsType, NEW o, Cancel(o)
    PROVE  /\ op' \in [Loads -> OpRecord] /\ slot' \in [Conns -> Loads \cup {NoLoad}]
           /\ SameGot
<1>1. CASE UNCHANGED <<slot, op>>
  BY <1>1 DEF OpsType, SameGot
<1>2. CASE o \in Loads /\ slot' = FreeSlot(o)
           /\ \E st \in {"aborted", "cut"} : op' = [op EXCEPT ![o].st = st]
  BY <1>2 DEF OpsType, OpRecord, SameGot, FreeSlot
<1> QED
  BY <1>1, <1>2 DEF Cancel

\* Steps of the operations alone.
LEMMA OpsStep ==
    ASSUME IInv, UNCHANGED <<panes, rows, flight>>, OpsType', SameGot
    PROVE  IInv'
<1>1. UNCHANGED <<want, loadedView, columns, win, cache, load, byKey, rowsInflight>>
  BY DEF panes, rows, flight
<1>2. Types'
  BY <1>1 DEF IInv, Types, PaneType, RowsType, FlightType
<1>3. DeliversItsPage' /\ JoinsDriving'
  BY <1>1 DEF IInv, DeliversItsPage, JoinsDriving, InFlight, Settled, SameGot
<1>4. SameBegun
  BY <1>1 DEF SameBegun
<1> QED
  BY <1>2, <1>3, <1>4, KeepsWindows DEF IInv

\* A load that drives its stream goes on, before it has begun.
LEMMA GoesOn ==
    ASSUME IInv, NEW l \in Loads, load[l].st \in {"superseding", "starting", "busy"},
           NEW r \in LoadRecord, load' = [load EXCEPT ![l] = r],
           r.st \in {"starting", "busy", "started"}, r.key = load[l].key, r.q = load[l].q,
           OpsType', SameGot, UNCHANGED <<panes, rows, byKey, rowsInflight>>
    PROVE  IInv'
<1>1. UNCHANGED <<want, loadedView, columns, win, cache>>
  BY DEF panes, rows
<1>2. load'[l] = r /\ \A x \in Loads \ {l} : load'[x] = load[x]
  BY DEF IInv, Types, FlightType
<1>3. Types'
  BY <1>1 DEF IInv, Types, PaneType, RowsType, FlightType
<1>4. DeliversItsPage'
  BY <1>2 DEF IInv, DeliversItsPage, SameGot
<1>5. \A x \in Loads : /\ load'[x].st = "joined" => x # l /\ load'[x] = load[x]
                       /\ load[x].st \in Driving => load'[x].st \in Driving
                       /\ InFlight(x) => InFlight(x)'
  BY <1>2 DEF Driving, InFlight, Settled
<1>6. JoinsDriving'
  <2>1. \A x \in Loads : load'[x].st = "joined" =>
          load'[x].old \in Loads /\ load'[load'[x].old].st \in Driving
    BY <1>5 DEF IInv, JoinsDriving
  <2>2. \A s \in Statements : rowsInflight[s] # NoLoad =>
          load'[rowsInflight[s]].st \in Driving
    BY <1>5 DEF IInv, JoinsDriving, Types, FlightType
  <2>3. \A k \in Keys : byKey[k] # NoLoad => InFlight(byKey[k])'
    BY <1>5 DEF IInv, JoinsDriving, Types, FlightType, InFlight, Settled
  <2> QED
    BY <2>1, <2>2, <2>3 DEF JoinsDriving, InFlight, Settled
<1>7. SameBegun
  BY <1>2 DEF SameBegun, BegunStages
<1> QED
  BY <1>3, <1>4, <1>6, <1>7, KeepsWindows DEF IInv

\* A load enters the flight, or takes its stream behind the columns: it joins a load that
\* drives the same statement, or drives one of its own.
LEMMA EntersFlight ==
    ASSUME IInv, NEW l \in Loads, load[l].st \in {"idle", "columns"},
           NEW r \in LoadRecord, r.q \in Queries, r.st = "columns",
           \/ load' = [load EXCEPT ![l] = r] /\ UNCHANGED rowsInflight
           \/ startRowsStream(l, r),
           NEW k \in Keys, byKey' = byKey \/ byKey' = [byKey EXCEPT ![k] = l],
           PaneType', UNCHANGED <<rows, ops>>
    PROVE  IInv'
<1>1. UNCHANGED <<win, cache, op, slot, cancels>>
  BY DEF rows, ops
<1>2. Sql(r) \in Statements /\ r.key \in Keys
  BY DEF Sql, Statements, LoadRecord
<1>3. PICK e \in LoadRecord :
        /\ load' = [load EXCEPT ![l] = e]
        /\ e.key = r.key /\ e.q = r.q
        /\ \/ e.st = "columns" /\ UNCHANGED rowsInflight
           \/ /\ e.st = "joined" /\ UNCHANGED rowsInflight
              /\ e.old = rowsInflight[Sql(r)] /\ e.old # NoLoad
           \/ e.st = "superseding" /\ rowsInflight' = [rowsInflight EXCEPT ![Sql(r)] = l]
  <2>1. CASE load' = [load EXCEPT ![l] = r] /\ UNCHANGED rowsInflight
    BY <2>1
  <2>2. CASE startRowsStream(l, r)
    <3>1. CASE ~ r.force /\ rowsInflight[Sql(r)] # NoLoad
      <4> DEFINE e == [r EXCEPT !.st = "joined", !.old = rowsInflight[Sql(r)]]
      <4>1. rowsInflight[Sql(r)] \in Loads
        BY <1>2, <3>1 DEF IInv, Types, FlightType
      <4>2. /\ e \in LoadRecord /\ e.st = "joined" /\ e.old = rowsInflight[Sql(r)]
            /\ e.key = r.key /\ e.q = r.q
        BY <4>1 DEF LoadRecord, Stages
      <4>3. load' = [load EXCEPT ![l] = e] /\ UNCHANGED rowsInflight
        BY <2>2, <3>1 DEF startRowsStream
      <4> QED
        BY <3>1, <4>2, <4>3
    <3>2. CASE ~ (~ r.force /\ rowsInflight[Sql(r)] # NoLoad)
      <4> DEFINE e == [r EXCEPT !.st = "superseding", !.old = win[r.key].op]
      <4>1. win[r.key].op \in Loads \cup {NoOp}
        BY <1>2, WindowFields DEF IInv, Types, RowsType
      <4>2. /\ e \in LoadRecord /\ e.st = "superseding" /\ e.key = r.key /\ e.q = r.q
        BY <4>1 DEF LoadRecord, Stages
      <4>3. /\ load' = [load EXCEPT ![l] = e]
            /\ rowsInflight' = [rowsInflight EXCEPT ![Sql(r)] = l]
        BY <2>2, <3>2 DEF startRowsStream
      <4> QED
        BY <4>2, <4>3
    <3> QED
      BY <3>1, <3>2
  <2> QED
    BY <2>1, <2>2
<1>4. load'[l] = e /\ \A x \in Loads \ {l} : load'[x] = load[x]
  BY <1>3 DEF IInv, Types, FlightType
<1>5. FlightType'
  BY <1>2, <1>3 DEF IInv, Types, FlightType
<1>6. Types'
  BY <1>1, <1>5 DEF IInv, Types, RowsType, OpsType
<1>7. DeliversItsPage'
  <2>1. op[l].got = 0
    BY LoadFields DEF IInv, Types, DeliversItsPage
  <2> QED
    BY <1>1, <1>3, <1>4, <2>1 DEF IInv, DeliversItsPage
<1>8. \A x \in Loads : load[x].st \in Driving => x # l /\ load'[x].st \in Driving
  BY <1>4 DEF Driving
<1>9. JoinsDriving'
  <2>1. ASSUME NEW x \in Loads, load'[x].st = "joined"
        PROVE  load'[x].old \in Loads /\ load'[load'[x].old].st \in Driving
    <3>1. CASE x = l
      <4>1. rowsInflight[Sql(r)] \in Loads /\ load[rowsInflight[Sql(r)]].st \in Driving
            /\ load'[x].old = rowsInflight[Sql(r)]
        BY <1>2, <1>3, <1>4, <2>1, <3>1 DEF IInv, JoinsDriving, Types, FlightType
      <4> QED
        BY <1>8, <4>1
    <3>2. CASE x # l
      BY <1>4, <1>8, <2>1, <3>2 DEF IInv, JoinsDriving
    <3> QED
      BY <3>1, <3>2
  <2>2. ASSUME NEW s \in Statements, rowsInflight'[s] # NoLoad
        PROVE  load'[rowsInflight'[s]].st \in Driving
    <3>1. CASE rowsInflight'[s] = rowsInflight[s]
      BY <1>8, <2>2, <3>1 DEF IInv, JoinsDriving, Types, FlightType
    <3>2. CASE rowsInflight'[s] # rowsInflight[s]
      <4>1. rowsInflight'[s] = l /\ e.st = "superseding"
        BY <1>2, <1>3, <3>2 DEF IInv, Types, FlightType
      <4> QED
        BY <1>4, <4>1 DEF Driving
    <3> QED
      BY <3>1, <3>2
  <2>3. ASSUME NEW j \in Keys, byKey'[j] # NoLoad PROVE InFlight(byKey[j])'
    <3>1. byKey'[j] = l \/ (byKey'[j] = byKey[j] /\ byKey[j] \in Loads \ {l})
      BY <2>3 DEF IInv, Types, FlightType
    <3>2. load'[l].st \in {"columns", "joined", "superseding"}
      BY <1>3, <1>4
    <3>3. CASE byKey'[j] = l
      BY <3>2, <3>3 DEF InFlight, Settled
    <3>4. CASE byKey'[j] = byKey[j] /\ byKey[j] \in Loads \ {l}
      BY <1>4, <2>3, <3>4 DEF IInv, JoinsDriving, InFlight, Settled
    <3> QED
      BY <3>1, <3>3, <3>4
  <2> QED
    BY <2>1, <2>2, <2>3 DEF JoinsDriving
<1>10. SameBegun /\ SameGot
  BY <1>1, <1>4 DEF SameBegun, SameGot, BegunStages
<1> QED
  BY <1>6, <1>7, <1>9, <1>10, KeepsWindows DEF IInv

\* A request for a page, from the pane or from Refresh: it joins a load in flight, needs
\* nothing, or enters the flight.
LEMMA AskStep ==
    ASSUME IInv, Unused # {}, NEW k \in Keys, NEW q \in Queries, NEW reset \in BOOLEAN,
           NEW force \in BOOLEAN, NEW refresh \in BOOLEAN,
           loadTableData(k, q, reset, force, refresh),
           PaneType', UNCHANGED <<rows, ops>>
    PROVE  IInv'
<1> DEFINE r == Request("columns", k, q, reset, force, refresh)
           l == CHOOSE x \in Unused : TRUE
<1>1. r \in LoadRecord /\ r.st = "columns" /\ r.q = q
  BY RequestFields DEF Stages
<1>2. l \in Loads /\ load[l].st = "idle"
  BY DEF Unused
<1>3. \/ UNCHANGED flight
      \/ /\ byKey' = [byKey EXCEPT ![k] = l]
         /\ \/ load' = [load EXCEPT ![l] = r] /\ UNCHANGED rowsInflight
            \/ startRowsStream(l, r)
  BY DEF loadTableData
<1> HIDE DEF r, l
<1>4. CASE UNCHANGED flight
  <2>1. SameBegun /\ SameGot /\ OpsType'
    BY <1>4 DEF flight, ops, SameBegun, SameGot, IInv, Types, OpsType
  <2>2. Types'
    BY <1>4, <2>1 DEF IInv, Types, RowsType, FlightType, rows, flight
  <2>3. DeliversItsPage' /\ JoinsDriving'
    BY <1>4 DEF flight, ops, IInv, DeliversItsPage, JoinsDriving, InFlight, Settled
  <2> QED
    BY <2>1, <2>2, <2>3, KeepsWindows DEF IInv
<1>5. CASE ~ UNCHANGED flight
  BY <1>1, <1>2, <1>3, <1>5, EntersFlight
<1> QED
  BY <1>4, <1>5

\* The pane asks (Ask, Show), or the menu (Refresh).
LEMMA UserAsks ==
    ASSUME IInv, Unused # {}, NEW k \in Keys,
           (\E q \in PagesOf[k] : Ask(k, q)) \/ Show(k) \/ Refresh(k)
    PROVE  IInv'
<1>1. ASSUME NEW q \in PagesOf[k], Ask(k, q) PROVE IInv'
  <2>1. q \in Queries
    BY DEF Queries
  <2>2. PICK reset \in BOOLEAN : loadTableData(k, q, reset, FALSE, TRUE)
    BY <1>1 DEF Ask
  <2>3. PaneType' /\ UNCHANGED <<rows, ops>>
    BY <1>1, <2>1 DEF Ask, IInv, Types, PaneType
  <2> QED
    BY <2>1, <2>2, <2>3, AskStep
<1>2. ASSUME UNCHANGED panes PROVE PaneType'
  BY <1>2 DEF panes, IInv, Types, PaneType
<1>3. CASE Show(k)
  <2>1. want[k] \in Queries
    BY <1>3 DEF Show, IInv, Types, PaneType
  <2>2. PICK reset \in BOOLEAN : loadTableData(k, want[k], reset, FALSE, FALSE)
    BY <1>3 DEF Show
  <2>3. PaneType' /\ UNCHANGED <<rows, ops>>
    BY <1>2, <1>3 DEF Show
  <2> QED
    BY <2>1, <2>2, <2>3, AskStep
<1>4. CASE Refresh(k)
  <2>1. want[k] \in Queries
    BY <1>4 DEF Refresh, IInv, Types, PaneType
  <2>2. loadTableData(k, want[k], FALSE, TRUE, TRUE)
    BY <1>4 DEF Refresh
  <2>3. PaneType' /\ UNCHANGED <<rows, ops>>
    BY <1>2, <1>4 DEF Refresh
  <2> QED
    BY <2>1, <2>2, <2>3, AskStep
<1> QED
  BY <1>1, <1>3, <1>4

\* The columns have come: the load goes on to its rows.
LEMMA ColumnsStep ==
    ASSUME IInv, NEW l \in Loads, ColumnsLoaded(l)
    PROVE  IInv'
<1>1. /\ load[l] \in LoadRecord /\ load[l].st = "columns" /\ load[l].q \in Queries
      /\ load[l].key \in Keys
  BY LoadFields DEF ColumnsLoaded, IInv, Types, FlightType, DeliversItsPage
<1>2. PaneType'
  BY <1>1 DEF ColumnsLoaded, IInv, Types, PaneType
<1>3. startRowsStream(l, load[l]) /\ UNCHANGED <<rows, byKey, ops>>
  BY DEF ColumnsLoaded
<1> QED
  BY <1>1, <1>2, <1>3, EntersFlight

\* Closing a table empties its window, which then belongs to no load.
LEMMA CloseStep ==
    ASSUME IInv, NEW k \in Keys, Close(k)
    PROVE  IInv'
<1>1. /\ win' = [win EXCEPT ![k] = makeRowsState] /\ cache' = [cache EXCEPT ![k] = NoRows]
      /\ UNCHANGED <<load, byKey, rowsInflight, op, slot>>
  BY DEF Close, flight
<1>2. NoOp \notin Loads /\ win[k].op \in Loads \cup {NoOp}
  BY TableLoadsAssumption, WindowFields DEF IInv, Types, RowsType
<1>3. PaneType'
  BY DEF Close, IInv, Types, PaneType
<1>4. OpsType'
  BY <1>1, <1>2 DEF Close, IInv, Types, OpsType
<1>5. makeRowsState \in Windows(Row, Loads) /\ NoRows \in Caches(Row)
  BY EmptyWindow
<1>6. RowsType' /\ FlightType'
  BY <1>1, <1>5 DEF IInv, Types, RowsType, FlightType
<1>7. DeliversItsPage' /\ JoinsDriving'
  BY <1>1 DEF IInv, DeliversItsPage, JoinsDriving, InFlight, Settled
<1>8. /\ win'[k].op = NoOp /\ win'[k].running = FALSE
      /\ \A j \in Keys \ {k} : win'[j] = win[j] /\ cache'[j] = cache[j]
  BY <1>1 DEF IInv, Types, RowsType, makeRowsState
<1>9. OwnedByItsLoad'
  BY <1>1, <1>2, <1>8 DEF IInv, OwnedByItsLoad
<1>10. DeliveredRowsStay'
  BY <1>1, <1>2, <1>8 DEF IInv, DeliveredRowsStay
<1>11. EmptyResultClears'
  BY <1>1, <1>2, <1>8 DEF IInv, EmptyResultClears
<1> QED
  BY <1>3, <1>4, <1>6, <1>7, <1>9, <1>10, <1>11 DEF IInv, Types

\* The cancels and the ends that touch operations alone.
LEMMA OperationSteps ==
    ASSUME IInv, NEW l \in Loads, CloseCancels(l) \/ Backend(l)
    PROVE  IInv'
<1>1. CASE CloseCancels(l)
  <2>1. Cancel(l) /\ cancels' \subseteq cancels /\ UNCHANGED <<panes, rows, flight>>
    BY <1>1 DEF CloseCancels
  <2>2. OpsType' /\ SameGot
    BY <2>1, CancelKeeps DEF IInv, Types, OpsType
  <2> QED
    BY <2>1, <2>2, OpsStep
<1>2. CASE Backend(l)
  <2>1. PICK st \in {"ended", "errored"} : ServerEnd(l, st)
    BY <1>2 DEF Backend
  <2>2. OpsType' /\ SameGot
    BY <2>1 DEF ServerEnd, FreeSlot, IInv, Types, OpsType, OpRecord, SameGot
  <2>3. UNCHANGED <<panes, rows, flight>>
    BY <2>1 DEF ServerEnd
  <2> QED
    BY <2>2, <2>3, OpsStep
<1> QED
  BY <1>1, <1>2

\* A load on its way to its stream: what it cancels, waits for and starts.
LEMMA WaySteps ==
    ASSUME IInv, NEW l \in Loads, Supersede(l) \/ CancelHolder(l) \/ Start(l) \/ Busy(l)
    PROVE  IInv'
<1>1. load[l] \in LoadRecord
  BY DEF IInv, Types, FlightType
<1>2. CASE Supersede(l) \/ CancelHolder(l)
  <2>1. /\ load[l].st \in {"superseding", "busy"} /\ Cancel(load[l].old)
        /\ load' = [load EXCEPT ![l].st = "starting", ![l].old = NoLoad]
        /\ UNCHANGED <<panes, rows, byKey, rowsInflight, cancels>>
    BY <1>2 DEF Supersede, CancelHolder
  <2>2. OpsType' /\ SameGot
    BY <2>1, CancelKeeps DEF IInv, Types, OpsType
  <2>3. PICK r : r = [load[l] EXCEPT !.st = "starting", !.old = NoLoad]
    OBVIOUS
  <2>4. r \in LoadRecord /\ r.st = "starting" /\ r.key = load[l].key /\ r.q = load[l].q
    BY <1>1, <2>3 DEF LoadRecord, Stages
  <2>5. load' = [load EXCEPT ![l] = r]
    BY <2>1, <2>3 DEF IInv, Types, FlightType
  <2>6. load[l].st \in {"superseding", "starting", "busy"}
    BY <2>1
  <2>7. UNCHANGED <<panes, rows, byKey, rowsInflight>>
    BY <2>1
  <2> QED
    BY <2>2, <2>4, <2>5, <2>6, <2>7, GoesOn
<1>3. CASE Start(l)
  <2>1. OpsType' /\ SameGot
    BY <1>3 DEF Start, IInv, Types, OpsType, OpRecord, SameGot
  <2>2. PICK r : r = [load[l] EXCEPT !.st = "started"]
    OBVIOUS
  <2>3. r \in LoadRecord /\ r.st = "started" /\ r.key = load[l].key /\ r.q = load[l].q
    BY <1>1, <2>2 DEF LoadRecord, Stages
  <2>4. load' = [load EXCEPT ![l] = r] /\ load[l].st = "starting"
        /\ UNCHANGED <<panes, rows, byKey, rowsInflight>>
    BY <1>3, <2>2 DEF Start, IInv, Types, FlightType
  <2> QED
    BY <2>1, <2>3, <2>4, GoesOn
<1>4. CASE Busy(l)
  <2>1. OpsType' /\ SameGot
    BY <1>4 DEF Busy, ops, IInv, Types, OpsType, SameGot
  <2>2. PICK r : r = [load[l] EXCEPT !.st = "busy", !.old = slot[ConnOf[load[l].key]],
                                     !.tries = @ + 1]
    OBVIOUS
  <2>3. load[l].tries + 1 \in 0 .. MaxTries
    BY <1>4, LoadFields, TableLoadsAssumption DEF Busy, IInv, Types
  <2>4. slot[ConnOf[load[l].key]] \in Loads \cup {NoLoad}
    BY LoadFields DEF IInv, Types, OpsType, Conns
  <2>5. r \in LoadRecord /\ r.st = "busy" /\ r.key = load[l].key /\ r.q = load[l].q
    BY <1>1, <2>2, <2>3, <2>4 DEF LoadRecord, Stages
  <2>6. load' = [load EXCEPT ![l] = r] /\ load[l].st = "starting"
        /\ UNCHANGED <<panes, rows, byKey, rowsInflight>>
    BY <1>4, <2>2 DEF Busy, IInv, Types, FlightType
  <2> QED
    BY <2>1, <2>5, <2>6, GoesOn
<1> QED
  BY <1>2, <1>3, <1>4

\* What a promise that settles leaves behind: of the load, and of those that joined it,
\* the table and the query, and no way to them.
SettledWith(l, st) ==
    /\ load'[l].st = st
    /\ \A x \in Loads :
         /\ load'[x].key = load[x].key /\ load'[x].q = load[x].q
         /\ load'[x] # load[x] =>
              /\ x = l \/ (load[x].st = "joined" /\ load[x].old = l)
              /\ load'[x].st = st
    /\ FlightType' /\ JoinsDriving'
    /\ loadedView' \in [Keys -> Views \cup {NoView}]

\* Settle leaves the maps without the settled loads, and no load joined to one.
LEMMA SettleFlight ==
    ASSUME IInv, NEW l \in Loads, NEW st \in {"done", "failed"}, InFlight(l), Settle(l, st)
    PROVE  SettledWith(l, st)
<1> DEFINE gone == {l} \cup {x \in Loads : load[x].st = "joined" /\ load[x].old = l}
           left(x) == Request(st, load[x].key, load[x].q, FALSE, FALSE, FALSE)
<1>1. gone \subseteq Loads /\ l \in gone
  OBVIOUS
<1>2. /\ load' = [x \in Loads |-> IF x \in gone THEN left(x) ELSE load[x]]
      /\ byKey' = [k \in DOMAIN byKey |-> IF byKey[k] \in gone THEN NoLoad ELSE byKey[k]]
      /\ rowsInflight' = [s \in DOMAIN rowsInflight |->
           IF rowsInflight[s] \in gone THEN NoLoad ELSE rowsInflight[s]]
      /\ loadedView' = [k \in Keys |->
           IF \E x \in gone : load[x].key = k /\ ~ load[x].force
           THEN load[CHOOSE x \in gone : load[x].key = k /\ ~ load[x].force].q.view
           ELSE loadedView[k]]
  BY DEF Settle, Forget
<1>3. ASSUME NEW x \in Loads
      PROVE  /\ left(x) \in LoadRecord /\ left(x).st = st
             /\ left(x).key = load[x].key /\ left(x).q = load[x].q
  <2>1. load[x].key \in Keys /\ load[x].q \in Queries \cup {NoQuery} /\ st \in Stages
    BY LoadFields DEF IInv, Types, Stages
  <2>2. PICK r : r = Request(st, load[x].key, load[x].q, FALSE, FALSE, FALSE)
    OBVIOUS
  <2>3. r \in LoadRecord /\ r.st = st /\ r.key = load[x].key /\ r.q = load[x].q
    BY <2>1, <2>2, TableLoadsAssumption DEF Request, LoadRecord
  <2> QED
    BY <2>2, <2>3
<1>4. \A x \in Loads : load[x].st \in Driving /\ x # l => x \notin gone
  BY DEF Driving
<1>5. \A x \in gone : x = l \/ (load[x].st = "joined" /\ load[x].old = l)
  OBVIOUS
<1>6. \A x \in Loads : load[x].st = "joined" /\ load[x].old = l => x \in gone
  OBVIOUS
<1> HIDE DEF gone, left
<1>7. /\ \A x \in gone : load'[x] = left(x) /\ load'[x].st = st
      /\ \A x \in Loads \ gone : load'[x] = load[x]
  BY <1>1, <1>2, <1>3
<1>8. \A x \in Loads : load'[x].key = load[x].key /\ load'[x].q = load[x].q
  BY <1>3, <1>7
<1>9. FlightType'
  <2>1. load' \in [Loads -> LoadRecord]
    BY <1>2, <1>3 DEF IInv, Types, FlightType
  <2>2. byKey' \in [Keys -> Loads \cup {NoLoad}]
    BY <1>2 DEF IInv, Types, FlightType
  <2>3. rowsInflight' \in [Statements -> Loads \cup {NoLoad}]
    BY <1>2 DEF IInv, Types, FlightType
  <2> QED
    BY <2>1, <2>2, <2>3 DEF FlightType
<1>10. loadedView' \in [Keys -> Views \cup {NoView}]
  <2>1. ASSUME NEW x \in Loads PROVE load[x].q.view \in Views \cup {NoView}
    BY LoadFields, PageFacts DEF IInv, Types, NoQuery
  <2>2. ASSUME NEW k \in Keys, \E x \in gone : load[x].key = k /\ ~ load[x].force
        PROVE  load[CHOOSE x \in gone : load[x].key = k /\ ~ load[x].force].q.view
                 \in Views \cup {NoView}
    BY <1>1, <2>1, <2>2
  <2> QED
    BY <1>2, <2>2 DEF IInv, Types, PaneType
<1>11. JoinsDriving'
  <2>1. ASSUME NEW x \in Loads, load'[x].st = "joined"
        PROVE  load'[x].old \in Loads /\ load'[load'[x].old].st \in Driving
    <3>1. x \notin gone /\ load'[x] = load[x]
      BY <1>7, <2>1
    <3>2. load[x].old \in Loads /\ load[load[x].old].st \in Driving /\ load[x].old # l
      BY <1>6, <2>1, <3>1 DEF IInv, JoinsDriving
    <3> QED
      BY <1>4, <1>7, <3>1, <3>2
  <2>2. ASSUME NEW s \in Statements, rowsInflight'[s] # NoLoad
        PROVE  load'[rowsInflight'[s]].st \in Driving
    <3>1. rowsInflight'[s] = rowsInflight[s] /\ rowsInflight[s] \in Loads \ gone
      BY <1>2, <2>2 DEF IInv, Types, FlightType
    <3> QED
      BY <1>7, <2>2, <3>1 DEF IInv, JoinsDriving
  <2>3. ASSUME NEW k \in Keys, byKey'[k] # NoLoad PROVE InFlight(byKey[k])'
    <3>1. byKey'[k] = byKey[k] /\ byKey[k] \in Loads \ gone
      BY <1>2, <2>3 DEF IInv, Types, FlightType
    <3> QED
      BY <1>7, <2>3, <3>1 DEF IInv, JoinsDriving, InFlight, Settled
  <2> QED
    BY <2>1, <2>2, <2>3 DEF JoinsDriving
<1>12. load'[l].st = st
  BY <1>1, <1>7
<1>13. \A x \in Loads : load'[x] # load[x] =>
         /\ x = l \/ (load[x].st = "joined" /\ load[x].old = l)
         /\ load'[x].st = st
  BY <1>5, <1>7
<1> QED
  BY <1>8, <1>9, <1>10, <1>11, <1>12, <1>13 DEF SettledWith

\* What a settled promise keeps of the loads that had begun, and of their pages.
LEMMA SettleKeeps ==
    ASSUME IInv, NEW l \in Loads, NEW st \in {"done", "failed"}, SettledWith(l, st),
           load[l].st # "idle", SameGot
    PROVE  /\ DeliversItsPage'
           /\ \A x \in Loads \ {l} : load[x].st \in BegunStages => load'[x] = load[x]
<1>1. \A x \in Loads : /\ load'[x].q = load[x].q
                       /\ load'[x].st \in {load[x].st, "done", "failed"}
                       /\ load[x].st \in {"streaming", "done", "failed"} =>
                            load'[x].st \in {"streaming", "done", "failed"}
                       /\ load[x].st = "idle" => load'[x].st = "idle"
  BY DEF SettledWith
<1>2. DeliversItsPage'
  <2> SUFFICES ASSUME NEW x \in Loads
               PROVE  /\ load'[x].st # "idle" => load'[x].q \in Queries
                      /\ op'[x].got > 0 =>
                           /\ load'[x].st \in {"streaming", "done", "failed"}
                           /\ op'[x].got <= PageLength(load'[x].q)
    BY DEF DeliversItsPage
  <2> QED
    BY <1>1 DEF IInv, DeliversItsPage, SameGot
<1> QED
  BY <1>2 DEF SettledWith, BegunStages

\* A load that has not begun settles: the windows stay.
LEMMA SettlesEarly ==
    ASSUME IInv, NEW l \in Loads, ColumnsFailed(l) \/ StartFails(l)
    PROVE  IInv'
<1>1. /\ load[l].st \in {"columns", "starting"} /\ Settle(l, "failed")
      /\ UNCHANGED <<want, columns, rows, ops>>
  BY DEF ColumnsFailed, StartFails
<1>2. SettledWith(l, "failed")
  BY <1>1, SettleFlight DEF InFlight, Settled
<1>3. UNCHANGED <<want, columns, win, cache, op, slot, cancels>>
  BY <1>1 DEF rows, ops
<1>4. SameGot
  BY <1>3 DEF SameGot
<1>5. /\ DeliversItsPage'
      /\ \A x \in Loads \ {l} : load[x].st \in BegunStages => load'[x] = load[x]
  BY <1>1, <1>2, <1>4, SettleKeeps
<1>6. SameBegun
  BY <1>1, <1>5 DEF SameBegun, BegunStages
<1>7. Types' /\ JoinsDriving'
  BY <1>2, <1>3 DEF SettledWith, IInv, Types, PaneType, RowsType, OpsType
<1> QED
  BY <1>1, <1>4, <1>5, <1>6, <1>7, KeepsWindows DEF IInv

\* A stream reports its end or its error: only the window that is still its own changes.
LEMMA SettlesLate ==
    ASSUME IInv, NEW l \in Loads, Done(l) \/ Error(l)
    PROVE  IInv'
<1> DEFINE k == load[l].key
<1>1. PICK st, v :
        /\ st \in {"done", "failed"} /\ Settle(l, st) /\ win' = [win EXCEPT ![k] = v]
        /\ \/ v = endRowsStream(win[k], l)
           \/ v = failRowsStream(win[k], l) /\ st = "failed"
  <2>1. CASE Done(l)
    BY <2>1 DEF Done
  <2>2. CASE Error(l)
    BY <2>2 DEF Error
  <2> QED
    BY <2>1, <2>2
<1>2. load[l].st = "streaming" /\ UNCHANGED <<want, columns, cache, ops>>
  BY DEF Done, Error
<1>3. UNCHANGED <<want, columns, cache, op, slot, cancels>> /\ SameGot
  BY <1>2 DEF ops, SameGot
<1>4. SettledWith(l, st)
  BY <1>1, <1>2, SettleFlight DEF InFlight, Settled
<1>5. /\ DeliversItsPage'
      /\ \A x \in Loads \ {l} : load[x].st \in BegunStages => load'[x] = load[x]
  BY <1>1, <1>2, <1>3, <1>4, SettleKeeps
<1>6. k \in Keys /\ win[k] \in Windows(Row, Loads)
  BY LoadFields DEF IInv, Types, RowsType
<1>7. /\ v \in Windows(Row, Loads)
      /\ win[k].op # l => v = win[k]
      /\ win[k].op = l =>
           \/ Stopped(win[k], IF win[k].receivedAnyChunk THEN win[k].rows ELSE NoRows, v)
           \/ Stopped(win[k], win[k].rows, v) /\ st = "failed"
  BY <1>1, <1>6, EndedWindow, FailedWindow
<1> HIDE DEF k
<1>8. Types' /\ JoinsDriving'
  <2>1. RowsType'
    BY <1>1, <1>3, <1>7 DEF IInv, Types, RowsType
  <2>2. PaneType' /\ OpsType' /\ FlightType' /\ JoinsDriving'
    BY <1>3, <1>4 DEF SettledWith, IInv, Types, PaneType, OpsType
  <2> QED
    BY <2>1, <2>2 DEF Types
<1>9. /\ load'[l].st = st
      /\ \A x \in Loads : load'[x].key = load[x].key /\ load'[x].q = load[x].q
  BY <1>4 DEF SettledWith
<1>10. /\ win'[k] = v /\ \A j \in Keys \ {k} : win'[j] = win[j]
       /\ \A j \in Keys : win[j].op = l => j = k
  BY <1>1, <1>6 DEF IInv, OwnedByItsLoad, Types, RowsType, k
<1>11. ASSUME NEW j \in Keys, win[j].op \in Loads, win[j].op # l
       PROVE  load'[win[j].op] = load[win[j].op] /\ win'[j] = win[j]
  BY <1>5, <1>7, <1>10, <1>11 DEF IInv, OwnedByItsLoad, BegunStages
<1>12. ASSUME NEW j \in Keys, win[j].op \notin Loads
       PROVE  win'[j] = win[j]
  BY <1>7, <1>10, <1>12
<1>13. CASE win[k].op # l
  <2>1. \A j \in Keys : win'[j] = win[j] /\ win[j].op # l
    BY <1>7, <1>10, <1>13
  <2>2. OwnedByItsLoad'
    BY <1>3, <1>11, <2>1 DEF IInv, OwnedByItsLoad
  <2>3. DeliveredRowsStay'
    BY <1>3, <1>9, <2>1, SameRow DEF IInv, DeliveredRowsStay
  <2>4. EmptyResultClears'
    BY <1>3, <1>11, <2>1 DEF IInv, EmptyResultClears
  <2> QED
    BY <1>5, <1>8, <2>2, <2>3, <2>4 DEF IInv
<1>14. CASE win[k].op = l
  <2>1. /\ win[k].offset = load[l].q.offset /\ load[l].key = k
        /\ win[k].receivedAnyChunk = TRUE <=> op[l].got > 0
        /\ win[k].receivedAnyChunk \in BOOLEAN /\ op[l].got \in 0 .. Limit
    BY <1>6, <1>14, WindowFields, LoadFields DEF IInv, OwnedByItsLoad, Types
  <2>2. /\ v.op = l /\ v.offset = win[k].offset /\ v.running = FALSE
        /\ v.receivedAnyChunk = win[k].receivedAnyChunk
        /\ op[l].got > 0 => v.rows = win[k].rows
        /\ st = "done" /\ op[l].got = 0 => v.rows = NoRows
    BY <1>7, <1>14, <2>1 DEF Stopped
  <2>3. \A j \in Keys \ {k} : win'[j] = win[j] /\ win[j].op # l
    BY <1>10
  <2>4. OwnedByItsLoad'
    <3> SUFFICES ASSUME NEW j \in Keys
                 PROVE  /\ win'[j].op \in Loads =>
                             /\ load'[win'[j].op].key = j
                             /\ load'[win'[j].op].st \in {"streaming", "done", "failed"}
                             /\ win'[j].offset = load'[win'[j].op].q.offset
                             /\ win'[j].receivedAnyChunk = TRUE <=> op'[win'[j].op].got > 0
                        /\ win'[j].running <=>
                             /\ win'[j].op \in Loads
                             /\ load'[win'[j].op].st = "streaming"
      BY DEF OwnedByItsLoad
    <3>1. CASE j = k
      BY <1>1, <1>3, <1>9, <1>10, <2>1, <2>2, <3>1
    <3>2. CASE j # k
      BY <1>3, <1>11, <2>3, <3>2 DEF IInv, OwnedByItsLoad
    <3> QED
      BY <3>1, <3>2
  <2>5. DeliveredRowsStay'
    <3> SUFFICES ASSUME NEW j \in Keys, NEW x \in Loads, win'[j].op = x,
                        NEW at \in 0 .. op'[x].got - 1
                 PROVE  /\ win'[j].rows[win'[j].offset + at] = RowOf(load'[x], at)
                        /\ cache'[j][win'[j].offset + at] = RowOf(load'[x], at)
      BY DEF DeliveredRowsStay
    <3>1. op'[x].got = op[x].got /\ cache'[j] = cache[j] /\ win[j].op = x
      BY <1>3, <1>10, <1>14, <2>2, <2>3
    <3>2. RowOf(load'[x], at) = RowOf(load[x], at)
      BY <1>9, SameRow
    <3>3. win'[j].rows = win[j].rows /\ win'[j].offset = win[j].offset
      BY <1>10, <2>1, <2>2, <2>3, <3>1
    <3> QED
      BY <3>1, <3>2, <3>3 DEF IInv, DeliveredRowsStay
  <2>6. EmptyResultClears'
    <3> SUFFICES ASSUME NEW j \in Keys, NEW x \in Loads, win'[j].op = x,
                        load'[x].st = "done", op'[x].got = 0
                 PROVE  win'[j].rows = NoRows
      BY DEF EmptyResultClears
    <3>1. CASE j = k
      BY <1>3, <1>9, <1>10, <2>2, <3>1
    <3>2. CASE j # k
      BY <1>3, <1>11, <2>3, <3>2 DEF IInv, EmptyResultClears
    <3> QED
      BY <3>1, <3>2
  <2> QED
    BY <1>5, <1>8, <2>4, <2>5, <2>6 DEF IInv
<1> QED
  BY <1>13, <1>14

\* A stream begins: the window is its own, and it has delivered nothing yet.
LEMMA BeginStep ==
    ASSUME IInv, NEW l \in Loads, Begin(l)
    PROVE  IInv'
<1> DEFINE k == load[l].key
           v == beginRowsStream(win[k], cache[k], l, load[l].q.offset, load[l].reset,
                                load[l].force)
           c == KeptCache(cache[k], load[l].reset)
<1>1. /\ load[l].st = "started" /\ load' = [load EXCEPT ![l].st = "streaming"]
      /\ win' = [win EXCEPT ![k] = v] /\ cache' = [cache EXCEPT ![k] = c]
      /\ UNCHANGED <<panes, byKey, rowsInflight, ops>>
  BY DEF Begin
<1>2. UNCHANGED <<want, loadedView, columns, op, slot, cancels>>
  BY <1>1 DEF panes, ops
<1>3. /\ k \in Keys /\ load[l].q \in Queries /\ load[l].q.offset \in Nat
      /\ load[l].reset \in BOOLEAN /\ load[l].force \in BOOLEAN
      /\ win[k] \in Windows(Row, Loads) /\ cache[k] \in Caches(Row)
      /\ op[l].got = 0
  BY <1>1, LoadFields, PageFacts DEF IInv, Types, RowsType, DeliversItsPage, Idx
<1>4. /\ v \in Windows(Row, Loads) /\ c \in Caches(Row)
      /\ Begun(win[k], c, l, load[l].q.offset, v)
  BY <1>3, BegunWindow
<1>5. /\ v.op = l /\ v.offset = load[l].q.offset /\ v.receivedAnyChunk = FALSE
      /\ v.running = TRUE
  BY <1>4 DEF Begun
<1> HIDE DEF v, c
<1>6. /\ load'[l].st = "streaming" /\ load'[l].key = k /\ load'[l].q = load[l].q
      /\ load' \in [Loads -> LoadRecord]
      /\ \A x \in Loads \ {l} : load'[x] = load[x]
  BY <1>1 DEF IInv, Types, FlightType, LoadRecord, Stages
<1> HIDE DEF k
<1>7. Types'
  <2>1. RowsType'
    BY <1>1, <1>4 DEF IInv, Types, RowsType
  <2>2. FlightType'
    BY <1>1, <1>6 DEF IInv, Types, FlightType
  <2> QED
    BY <1>2, <2>1, <2>2 DEF IInv, Types, PaneType, OpsType
<1>8. DeliversItsPage'
  BY <1>2, <1>3, <1>6 DEF IInv, DeliversItsPage
<1>9. JoinsDriving'
  <2>1. \A x \in Loads : /\ load'[x].st = "joined" => load'[x] = load[x]
                         /\ load[x].st \in Driving => load'[x].st \in Driving
    BY <1>6 DEF Driving
  <2>2. \A x \in Loads : load'[x].st = "joined" =>
          load'[x].old \in Loads /\ load'[load'[x].old].st \in Driving
    BY <2>1 DEF IInv, JoinsDriving
  <2>3. \A s \in Statements : rowsInflight'[s] # NoLoad =>
          load'[rowsInflight'[s]].st \in Driving
    BY <1>1, <2>1 DEF IInv, JoinsDriving, Types, FlightType
  <2>4. \A j \in Keys : byKey'[j] # NoLoad => InFlight(byKey[j])'
    BY <1>1, <1>6 DEF IInv, JoinsDriving, InFlight, Settled
  <2> QED
    BY <2>2, <2>3, <2>4 DEF JoinsDriving
<1>10. /\ win'[k] = v
       /\ \A j \in Keys \ {k} : win'[j] = win[j] /\ cache'[j] = cache[j]
       /\ \A j \in Keys : win[j].op # l
  <2>1. \A j \in Keys : win[j].op # l
    BY <1>1 DEF IInv, OwnedByItsLoad
  <2>2. /\ win \in [Keys -> Windows(Row, Loads)] /\ cache \in [Keys -> Caches(Row)]
        /\ k \in Keys /\ win' = [win EXCEPT ![k] = v] /\ cache' = [cache EXCEPT ![k] = c]
    BY <1>1, <1>3 DEF IInv, Types, RowsType
  <2> QED
    BY <2>1, <2>2
<1>11. ASSUME NEW j \in Keys \ {k}, win[j].op \in Loads
       PROVE  load'[win[j].op] = load[win[j].op]
  BY <1>6, <1>10, <1>11
<1>12. OwnedByItsLoad'
  <2> SUFFICES ASSUME NEW j \in Keys
               PROVE  /\ win'[j].op \in Loads =>
                           /\ load'[win'[j].op].key = j
                           /\ load'[win'[j].op].st \in {"streaming", "done", "failed"}
                           /\ win'[j].offset = load'[win'[j].op].q.offset
                           /\ win'[j].receivedAnyChunk = TRUE <=> op'[win'[j].op].got > 0
                      /\ win'[j].running <=>
                           /\ win'[j].op \in Loads
                           /\ load'[win'[j].op].st = "streaming"
    BY DEF OwnedByItsLoad
  <2>1. CASE j = k
    BY <1>2, <1>3, <1>5, <1>6, <1>10, <2>1
  <2>2. CASE j # k
    BY <1>2, <1>10, <1>11, <2>2 DEF IInv, OwnedByItsLoad
  <2> QED
    BY <2>1, <2>2
<1>13. DeliveredRowsStay'
  <2> SUFFICES ASSUME NEW j \in Keys, NEW x \in Loads, win'[j].op = x,
                      NEW at \in 0 .. op'[x].got - 1
               PROVE  /\ win'[j].rows[win'[j].offset + at] = RowOf(load'[x], at)
                      /\ cache'[j][win'[j].offset + at] = RowOf(load'[x], at)
    BY DEF DeliveredRowsStay
  <2>1. CASE j = k
    BY <1>2, <1>3, <1>5, <1>10, <2>1
  <2>2. CASE j # k
    BY <1>2, <1>10, <1>11, <2>2 DEF IInv, DeliveredRowsStay
  <2> QED
    BY <2>1, <2>2
<1>14. EmptyResultClears'
  BY <1>2, <1>5, <1>6, <1>10, <1>11 DEF IInv, EmptyResultClears
<1> QED
  BY <1>7, <1>8, <1>9, <1>12, <1>13, <1>14 DEF IInv

\* A chunk puts its row in the place it was asked for, if the window is still its own.
LEMMA ChunkStep ==
    ASSUME IInv, NEW l \in Loads, Chunk(l)
    PROVE  IInv'
<1> DEFINE k == load[l].key
           at == op[l].got
           row == RowOf(load[l], at)
           v == applyRowsChunk(win[k], cache[k], l, at, row)
           c == CachedChunk(win[k], cache[k], l, at, row)
<1>1. /\ load[l].st = "streaming" /\ at < PageLength(load[l].q)
      /\ op' = [op EXCEPT ![l].got = @ + 1]
      /\ win' = [win EXCEPT ![k] = v] /\ cache' = [cache EXCEPT ![k] = c]
      /\ UNCHANGED <<want, loadedView, columns, load, byKey, rowsInflight, slot, cancels>>
  BY DEF Chunk, panes, flight
<1>2. /\ k \in Keys /\ load[l].q \in Queries /\ at \in Nat
      /\ PageLength(load[l].q) \in 0 .. Limit
      /\ win[k] \in Windows(Row, Loads) /\ cache[k] \in Caches(Row)
      /\ win[k].offset \in Nat
  <2>1. k \in Keys /\ load[l].q \in Queries /\ at \in Nat
    BY <1>1, LoadFields DEF IInv, Types, DeliversItsPage
  <2> QED
    BY <2>1, PageFacts, WindowFields DEF IInv, Types, RowsType
<1>3. row \in Row /\ load[l].q.offset + at \in Idx
  BY <1>1, <1>2, DeliveredRow
<1> HIDE DEF k, at, row, v, c
<1>4. /\ op' \in [Loads -> OpRecord] /\ op'[l].got = at + 1
      /\ \A x \in Loads \ {l} : op'[x] = op[x]
  <2>1. at + 1 \in 0 .. Limit /\ op \in [Loads -> OpRecord]
    BY <1>1, <1>2, TableLoadsAssumption DEF IInv, Types, OpsType
  <2>2. op' = [op EXCEPT ![l] = [op[l] EXCEPT !.got = at + 1]]
    BY <1>1, <2>1 DEF at
  <2> QED
    BY <2>1, <2>2 DEF OpRecord
<1>5. DeliversItsPage' /\ JoinsDriving'
  BY <1>1, <1>2, <1>4 DEF IInv, DeliversItsPage, JoinsDriving, InFlight, Settled
<1>6. /\ win'[k] = v /\ cache'[k] = c
      /\ \A j \in Keys \ {k} : win'[j] = win[j] /\ cache'[j] = cache[j] /\ win[j].op # l
  BY <1>1, <1>2 DEF IInv, Types, RowsType, OwnedByItsLoad, k
<1>7. CASE win[k].op # l
  <2>1. v = win[k] /\ c = cache[k]
    BY <1>7 DEF v, c, applyRowsChunk, CachedChunk, Accepts
  <2>2. UNCHANGED <<win, cache>>
    BY <1>1, <1>2, <2>1 DEF IInv, Types, RowsType
  <2>3. Types'
    BY <1>1, <1>4, <2>2 DEF IInv, Types, PaneType, RowsType, FlightType, OpsType
  <2>4. \A j \in Keys : win[j].op # l
    BY <1>6, <1>7
  <2>5. OwnedByItsLoad'
    BY <1>1, <1>4, <2>2, <2>4 DEF IInv, OwnedByItsLoad
  <2>6. DeliveredRowsStay'
    BY <1>1, <1>4, <2>2, <2>4 DEF IInv, DeliveredRowsStay
  <2>7. EmptyResultClears'
    BY <1>1, <1>4, <2>2, <2>4 DEF IInv, EmptyResultClears
  <2> QED
    BY <1>5, <2>3, <2>5, <2>6, <2>7 DEF IInv
<1>8. CASE win[k].op = l
  <2>1. win[k].offset = load[l].q.offset /\ load[l].key = k /\ win[k].running
    BY <1>1, <1>2, <1>8 DEF IInv, OwnedByItsLoad
  <2>2. win[k].offset + at \in Idx
    BY <1>3, <2>1
  <2>3. /\ v \in Windows(Row, Loads) /\ c \in Caches(Row)
        /\ Wrote(win[k], cache[k], win[k].offset + at, row, v, c)
    BY <1>2, <1>3, <1>8, <2>2, ChunkWindow DEF v, c
  <2>4. /\ v.op = l /\ v.offset = win[k].offset /\ v.running = win[k].running
        /\ v.receivedAnyChunk = TRUE
        /\ v.rows = [win[k].rows EXCEPT ![win[k].offset + at] = row]
        /\ c = [cache[k] EXCEPT ![win[k].offset + at] = row]
    BY <1>8, <2>3 DEF Wrote
  <2>5. Types'
    <3>1. RowsType'
      BY <1>1, <2>3 DEF IInv, Types, RowsType
    <3> QED
      BY <1>1, <1>4, <3>1 DEF IInv, Types, PaneType, FlightType, OpsType
  <2>6. OwnedByItsLoad'
    <3> SUFFICES ASSUME NEW j \in Keys
                 PROVE  /\ win'[j].op \in Loads =>
                             /\ load'[win'[j].op].key = j
                             /\ load'[win'[j].op].st \in {"streaming", "done", "failed"}
                             /\ win'[j].offset = load'[win'[j].op].q.offset
                             /\ win'[j].receivedAnyChunk = TRUE <=> op'[win'[j].op].got > 0
                        /\ win'[j].running <=>
                             /\ win'[j].op \in Loads
                             /\ load'[win'[j].op].st = "streaming"
      BY DEF OwnedByItsLoad
    <3>1. CASE j = k
      <4>1. win'[k].running
        BY <1>6, <2>1, <2>4
      <4>2. /\ win'[k].op = l /\ win'[k].offset = load[l].q.offset
            /\ win'[k].receivedAnyChunk = TRUE
        BY <1>6, <2>1, <2>4
      <4>3. op'[l].got > 0 /\ load' = load
        BY <1>1, <1>2, <1>4
      <4> QED
        BY <1>1, <2>1, <3>1, <4>1, <4>2, <4>3
    <3>2. CASE j # k
      BY <1>1, <1>4, <1>6, <3>2 DEF IInv, OwnedByItsLoad
    <3> QED
      BY <3>1, <3>2
  <2>7. DeliveredRowsStay'
    <3> SUFFICES ASSUME NEW j \in Keys, NEW x \in Loads, win'[j].op = x,
                        NEW n \in 0 .. op'[x].got - 1
                 PROVE  /\ win'[j].rows[win'[j].offset + n] = RowOf(load'[x], n)
                        /\ cache'[j][win'[j].offset + n] = RowOf(load'[x], n)
      BY DEF DeliveredRowsStay
    <3>1. CASE j # k
      BY <1>1, <1>4, <1>6, <3>1 DEF IInv, DeliveredRowsStay
    <3>2. CASE j = k
      <4>1. x = l /\ n \in 0 .. at
        BY <1>2, <1>4, <1>6, <2>4, <3>2
      <4>2. win[k].rows \in Caches(Row) /\ cache[k] \in Caches(Row)
        BY <1>2, WindowFields
      <4>3. CASE n = at
        BY <1>1, <1>6, <2>2, <2>4, <3>2, <4>1, <4>2, <4>3 DEF Caches, row
      <4>4. CASE n # at
        <5>1. n \in 0 .. op[l].got - 1
          BY <1>2, <4>1, <4>4 DEF at
        <5>2. /\ win[k].rows[win[k].offset + n] = RowOf(load[l], n)
              /\ cache[k][win[k].offset + n] = RowOf(load[l], n)
          BY <1>2, <1>8, <5>1 DEF IInv, DeliveredRowsStay
        <5>3. n \in Nat /\ n < PageLength(load[l].q)
          BY <1>1, <1>2, <4>1
        <5>4. win[k].offset + n \in Idx /\ win[k].offset + n # win[k].offset + at
          BY <1>2, <2>1, <4>4, <5>3, DeliveredRow
        <5> QED
          BY <1>1, <1>6, <2>4, <3>2, <4>1, <4>2, <5>2, <5>4 DEF Caches
      <4> QED
        BY <4>3, <4>4
    <3> QED
      BY <3>1, <3>2
  <2>8. EmptyResultClears'
    <3>1. op'[l].got # 0
      BY <1>2, <1>4
    <3> QED
      BY <1>1, <1>4, <1>6, <1>8, <2>4, <3>1 DEF IInv, EmptyResultClears
  <2> QED
    BY <1>5, <2>5, <2>6, <2>7, <2>8 DEF IInv
<1> QED
  BY <1>7, <1>8

\* A frame only counts the rows it shows.
LEMMA FlushStep ==
    ASSUME IInv, NEW k \in Keys, Flush(k)
    PROVE  IInv'
<1> DEFINE v == FlushNotify(win[k])
<1>1. /\ win' = [win EXCEPT ![k] = v]
      /\ UNCHANGED <<want, loadedView, columns, cache, load, byKey, rowsInflight, op, slot,
                     cancels>>
  BY DEF Flush, panes, flight, ops
<1>2. v \in Windows(Row, Loads) /\ SameView(win[k], v)
  BY FlushedWindow DEF IInv, Types, RowsType
<1> HIDE DEF v
<1>3. Types'
  BY <1>1, <1>2 DEF IInv, Types, PaneType, RowsType, FlightType, OpsType
<1>4. DeliversItsPage' /\ JoinsDriving'
  BY <1>1 DEF IInv, DeliversItsPage, JoinsDriving, InFlight, Settled
<1>5. \A j \in Keys : /\ win'[j].op = win[j].op /\ win'[j].offset = win[j].offset
                      /\ win'[j].rows = win[j].rows /\ win'[j].running = win[j].running
                      /\ win'[j].receivedAnyChunk = win[j].receivedAnyChunk
  BY <1>1, <1>2 DEF SameView, IInv, Types, RowsType
<1>6. OwnedByItsLoad'
  BY <1>1, <1>5 DEF IInv, OwnedByItsLoad
<1>7. DeliveredRowsStay'
  BY <1>1, <1>5 DEF IInv, DeliveredRowsStay
<1>8. EmptyResultClears'
  BY <1>1, <1>5 DEF IInv, EmptyResultClears
<1> QED
  BY <1>3, <1>4, <1>6, <1>7, <1>8 DEF IInv

-----------------------------------------------------------------------------
(* The invariant.                                                          *)

\* The empty pane satisfies the invariant.
LEMMA InitInv == Init => IInv
<1> SUFFICES ASSUME Init PROVE IInv
  OBVIOUS
<1> DEFINE someKey == CHOOSE k \in Keys : TRUE
<1>1. someKey \in Keys
  BY TableLoadsAssumption
<1> HIDE DEF someKey
<1>2. PICK r : r = Request("idle", someKey, NoQuery, FALSE, FALSE, FALSE)
  OBVIOUS
<1>3. r \in LoadRecord /\ r.st = "idle"
  BY <1>1, <1>2, TableLoadsAssumption DEF Request, LoadRecord, Stages
<1>4. load = [l \in Loads |-> r]
  BY <1>2 DEF Init, someKey
<1>5. FlightType
  BY <1>3, <1>4 DEF Init, FlightType
<1>6. RowsType
  BY EmptyWindow DEF Init, RowsType
<1>7. PaneType
  BY DEF Init, PaneType
<1>8. OpsType
  <2>1. 0 \in 0 .. Limit
    BY TableLoadsAssumption
  <2> QED
    BY <2>1 DEF Init, OpsType, OpRecord
<1>9. \A l \in Loads : load[l].st = "idle" /\ op[l].got = 0
  BY <1>3, <1>4 DEF Init
<1>10. \A k \in Keys : win[k].op = NoOp /\ win[k].running = FALSE
  BY EmptyWindow DEF Init
<1>11. DeliversItsPage
  BY <1>9 DEF DeliversItsPage
<1>12. JoinsDriving
  BY <1>9 DEF Init, JoinsDriving
<1>13. OwnedByItsLoad /\ DeliveredRowsStay /\ EmptyResultClears
  BY <1>9, <1>10, TableLoadsAssumption
     DEF OwnedByItsLoad, DeliveredRowsStay, EmptyResultClears
<1> QED
  BY <1>5, <1>6, <1>7, <1>8, <1>11, <1>12, <1>13 DEF IInv, Types

\* Every step of the user, the backend and the loads keeps it.
LEMMA StepInv == IInv /\ [Next]_vars => IInv'
<1> SUFFICES ASSUME IInv, [Next]_vars PROVE IInv'
  OBVIOUS
<1>1. ASSUME NEW k \in Keys, User(k) PROVE IInv'
  BY <1>1, UserAsks, CloseStep DEF User
<1>2. ASSUME NEW k \in Keys, Flush(k) PROVE IInv'
  BY <1>2, FlushStep
<1>3. ASSUME NEW l \in Loads, Backend(l) \/ CloseCancels(l) PROVE IInv'
  BY <1>3, OperationSteps
<1>4. ASSUME NEW l \in Loads, Progress(l) PROVE IInv'
  BY <1>4, ColumnsStep, WaySteps, SettlesEarly, SettlesLate, BeginStep, ChunkStep
     DEF Progress
<1>5. CASE UNCHANGED vars
  <2>1. UNCHANGED <<panes, rows, flight, op, slot, cancels>>
    BY <1>5 DEF vars, panes, rows, flight
  <2>2. OpsType' /\ SameGot
    BY <2>1 DEF IInv, Types, OpsType, SameGot
  <2> QED
    BY <2>1, <2>2, OpsStep
<1> QED
  BY <1>1, <1>2, <1>3, <1>4, <1>5 DEF Next

\* It holds in every reachable state.
LEMMA Invariance == Spec => []IInv
BY InitInv, StepInv, PTL DEF Spec

\* The state is well typed.
THEOREM TypeCorrect == Spec => []TypeOK
<1>1. IInv => TypeOK
  BY DEF IInv, Types, PaneType, RowsType, FlightType, OpsType, TypeOK, LoadRecord, OpRecord,
         Stages, Caches
<1> QED
  BY <1>1, Invariance, PTL

\* While a window belongs to a load, every row that load delivered stands in its place in
\* the window and in the cache, whatever other streams of the table deliver, end or fail
\* meanwhile, and a load that ended with no row leaves the page empty.
THEOREM ShowsItsLoad == Spec => []WindowShowsItsLoad
<1>1. IInv => WindowShowsItsLoad
  BY DEF IInv, WindowShowsItsLoad
<1> QED
  BY <1>1, Invariance, PTL

\* A window is marked as running exactly while the load it belongs to still listens to its
\* operation (startRowsStream's subscription; beginRowsStream, endRowsStream,
\* failRowsStream and removeTableData in rowsSlice.ts).
THEOREM SpinnerIsWatched == Spec => []RunningIsWatched
<1>1. IInv => RunningIsWatched
  BY DEF IInv, OwnedByItsLoad, RunningIsWatched
<1> QED
  BY <1>1, Invariance, PTL

\* A load is only ever joined while it is in flight, and the maps of loads in flight keep
\* no settled one.
THEOREM NeverJoinsSettled == Spec => []JoinsOnlyInFlight
<1>1. IInv => JoinsOnlyInFlight
  BY DEF IInv, JoinsDriving, Driving, JoinsOnlyInFlight, InFlight, Settled
<1> QED
  BY <1>1, Invariance, PTL
=============================================================================
