----------------------------- MODULE RowsWindow -----------------------------
(***************************************************************************)
(* The rows a table window shows, as the pure transformations of           *)
(* stores/connection/rowsSlice.ts and rowCache.ts: one record per table    *)
(* key (TableRowState) and, beside it, the cache of the rows as they were  *)
(* loaded.  TableLoads and RowEdits keep one of each in their state.       *)
(*                                                                         *)
(* Positions are global row indexes.  A window starts at its stream offset *)
(* (its base is moved by shiftWindowToViewport alone, which nothing        *)
(* calls), and its capacity of at least four pages exceeds the positions   *)
(* of an instance, so a row below the offset is never in the window.  The  *)
(* eviction of cachePut (beyond 100 000 rows) is not reached either.       *)
(*                                                                         *)
(* A definition Name_Variant is a faulty variant of Name, kept beside it   *)
(* to show which property notices the fault; no specification uses it.     *)
(***************************************************************************)
EXTENDS Integers

CONSTANTS Positions,   \* how many global row positions exist
          NoRow,       \* undefined, in the window or the cache
          NoOp         \* no operation streams into the window yet

ASSUME PositionsAssumption == Positions \in Nat \ {0}

Idx == 0 .. Positions - 1
NoRows == [i \in Idx |-> NoRow]

Larger(a, b) == IF a >= b THEN a ELSE b

(* "pending" is the highest index a chunk brought since the last frame;    *)
(* scheduleRowsNotify adds it to loadedMax once per animation frame.       *)
Windows(Row, Ops) ==
    [op: Ops \cup {NoOp}, offset: Nat, rows: [Idx -> Row \cup {NoRow}],
     loadedMax: Int, pending: Int, running: BOOLEAN, failed: BOOLEAN,
     receivedAnyChunk: BOOLEAN]

makeRowsState ==
    [op |-> NoOp, offset |-> 0, rows |-> NoRows, loadedMax |-> -1,
     pending |-> -1, running |-> FALSE, failed |-> FALSE,
     receivedAnyChunk |-> FALSE]

(* What beginRowsStream keeps of the cache, and the rows it lets the       *)
(* window show until chunks arrive: all of them at the same offset, else   *)
(* the overlap of the two windows, filled up from the cache unless this is *)
(* a refresh.                                                              *)
KeptCache(cache, resetCache) == IF resetCache THEN NoRows ELSE cache

KeptRows(w, cache, offset, resetCache, forceRefresh) ==
    IF w.offset = offset THEN w.rows
    ELSE [i \in Idx |->
            IF i < offset THEN NoRow
            ELSE IF i >= w.offset /\ w.rows[i] # NoRow THEN w.rows[i]
            ELSE IF forceRefresh THEN NoRow
            ELSE KeptCache(cache, resetCache)[i]]

beginRowsStream(w, cache, op, offset, resetCache, forceRefresh) ==
    LET same == w.offset = offset
    IN  [w EXCEPT
           !.op = op, !.offset = offset,
           !.rows = KeptRows(w, cache, offset, resetCache, forceRefresh),
           !.loadedMax =
              IF same /\ (resetCache \/ forceRefresh) THEN w.loadedMax
              ELSE IF resetCache THEN offset - 1
              ELSE Larger(w.loadedMax, offset - 1),
           !.running = TRUE, !.failed = FALSE, !.receivedAnyChunk = FALSE]

(* One row of a chunk of operation op, at its place in the stream. Only    *)
(* the operation the window belongs to may write.                          *)
Accepts_Any(w, op) == TRUE

Accepts(w, op) == w.op = op

(* A chunk that brings the first rows of a page is counted at once, by a   *)
(* setState nested in the updater of set.  An updater that then returns    *)
(* the state it was given puts it back over the nested update, which is    *)
(* lost; one that returns the cache it has just created does not (set of   *)
(* the store library merges what the updater returns into the new state).  *)
NestedUpdateStays(cache) == cache = NoRows

applyRowsChunk(w, cache, op, at, row) ==
    LET i == w.offset + at
        top == Larger(w.pending, Larger(w.loadedMax, i))
        first == w.loadedMax < w.offset
    IN  IF ~ Accepts(w, op) THEN w
        ELSE [w EXCEPT !.rows[i] = row, !.receivedAnyChunk = TRUE,
                       !.loadedMax = IF first /\ NestedUpdateStays(cache)
                                     THEN top ELSE @,
                       !.pending = IF first THEN -1 ELSE top]

CachedChunk(w, cache, op, at, row) ==
    IF Accepts(w, op) THEN [cache EXCEPT ![w.offset + at] = row] ELSE cache

(* The frame callback of scheduleRowsNotify. *)
FlushNotify(w) ==
    [w EXCEPT !.loadedMax = Larger(@, w.pending), !.pending = -1]

(* A stream that ended without a chunk shows an empty page. *)
endRowsStream(w, op) ==
    IF w.op # op THEN w
    ELSE IF w.receivedAnyChunk THEN [w EXCEPT !.running = FALSE]
    ELSE [w EXCEPT !.running = FALSE, !.rows = NoRows,
                   !.loadedMax = w.offset - 1]

failRowsStream_Running(w, op) == IF w.op # op THEN w ELSE [w EXCEPT !.failed = TRUE]

failRowsStream(w, op) ==
    IF w.op # op THEN w ELSE [w EXCEPT !.running = FALSE, !.failed = TRUE]

updateRow(w, i, row) ==
    IF i >= w.offset THEN [w EXCEPT !.rows[i] = row] ELSE w

(* The row the grid shows, and the row as it was loaded. *)
getRowAt(w, cache, i) ==
    IF i >= w.offset /\ w.rows[i] # NoRow THEN w.rows[i] ELSE cache[i]

getOriginalRowAt(w, cache, i) ==
    IF cache[i] # NoRow THEN cache[i] ELSE getRowAt(w, cache, i)
=============================================================================
