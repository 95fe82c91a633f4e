--------------------------- MODULE RowsWindowProofs ---------------------------
(***************************************************************************)
(* What the transformations of a table window do to its rows and to the    *)
(* cache, for any rows and operations: the facts that the proofs about     *)
(* TableLoads and RowEdits share.                                          *)
(***************************************************************************)
EXTENDS RowsWindow, TLAPS

Caches(R) == [Idx -> R \cup {NoRow}]

\* What the shown rows, their place and the stream are made of; the rest is counting.
SameView(w, v) ==
    /\ v.op = w.op /\ v.offset = w.offset /\ v.rows = w.rows
    /\ v.running = w.running /\ v.receivedAnyChunk = w.receivedAnyChunk

\* A stream has taken the window over at an offset; the rows it left are from there or
\* from the cache it kept.
Begun(w, kept, op, offset, v) ==
    /\ v.op = op /\ v.offset = offset /\ v.running = TRUE /\ v.receivedAnyChunk = FALSE
    /\ w.offset = offset => v.rows = w.rows
    /\ \A i \in Idx : v.rows[i] = NoRow \/ v.rows[i] = w.rows[i] \/ v.rows[i] = kept[i]

\* A row of the window's own stream is in its place, in the window and in the cache.
Wrote(w, c, i, row, v, d) ==
    /\ v.op = w.op /\ v.offset = w.offset /\ v.running = w.running
    /\ v.receivedAnyChunk = TRUE
    /\ v.rows = [w.rows EXCEPT ![i] = row]
    /\ d = [c EXCEPT ![i] = row]

\* The window's own stream has ended, with or without rows.
Stopped(w, rows, v) ==
    /\ v.op = w.op /\ v.offset = w.offset /\ v.running = FALSE
    /\ v.receivedAnyChunk = w.receivedAnyChunk
    /\ v.rows = rows

\* The fields of a window.
LEMMA WindowFields ==
    ASSUME NEW R, NEW Ops, NEW w \in Windows(R, Ops)
    PROVE  /\ w.op \in Ops \cup {NoOp} /\ w.offset \in Nat /\ w.rows \in Caches(R)
           /\ w.loadedMax \in Int /\ w.pending \in Int
           /\ w.running \in BOOLEAN /\ w.failed \in BOOLEAN
           /\ w.receivedAnyChunk \in BOOLEAN
BY DEF Windows, Caches

\* A closed window (makeRowsState) is a window without rows.
LEMMA EmptyWindow ==
    ASSUME NEW R, NEW Ops
    PROVE  /\ makeRowsState \in Windows(R, Ops)
           /\ makeRowsState.op = NoOp /\ makeRowsState.offset = 0
           /\ makeRowsState.rows = NoRows
           /\ makeRowsState.running = FALSE /\ makeRowsState.receivedAnyChunk = FALSE
           /\ NoRows \in Caches(R) /\ \A i \in Idx : NoRows[i] = NoRow
BY DEF makeRowsState, NoRows, Windows, Caches

\* beginRowsStream: the window is the stream's, and shows what it keeps.
LEMMA BegunWindow ==
    ASSUME NEW R, NEW Ops, NEW w \in Windows(R, Ops), NEW c \in Caches(R),
           NEW op \in Ops, NEW offset \in Nat, NEW reset \in BOOLEAN, NEW force \in BOOLEAN,
           NEW v, v = beginRowsStream(w, c, op, offset, reset, force)
    PROVE  /\ v \in Windows(R, Ops) /\ KeptCache(c, reset) \in Caches(R)
           /\ Begun(w, KeptCache(c, reset), op, offset, v)
<1> DEFINE k == KeptRows(w, c, offset, reset, force)
<1>1. KeptCache(c, reset) \in Caches(R)
  BY EmptyWindow DEF KeptCache
<1>2. /\ k \in Caches(R)
      /\ w.offset = offset => k = w.rows
      /\ \A i \in Idx : k[i] = NoRow \/ k[i] = w.rows[i] \/ k[i] = KeptCache(c, reset)[i]
  BY <1>1, WindowFields DEF KeptRows, Caches
<1>3. Larger(w.loadedMax, offset - 1) \in Int /\ offset - 1 \in Int /\ w.loadedMax \in Int
  BY WindowFields DEF Larger
<1> HIDE DEF k
<1>4. v = [w EXCEPT !.op = op, !.offset = offset, !.rows = k,
                    !.loadedMax = v.loadedMax, !.running = TRUE, !.failed = FALSE,
                    !.receivedAnyChunk = FALSE] /\ v.loadedMax \in Int
  BY <1>3 DEF beginRowsStream, k, Windows
<1>5. v \in Windows(R, Ops)
  BY <1>2, <1>4 DEF Windows, Caches
<1>6. /\ v.op = op /\ v.offset = offset /\ v.rows = k /\ v.running = TRUE
      /\ v.receivedAnyChunk = FALSE
  BY <1>4 DEF Windows
<1> QED
  BY <1>1, <1>2, <1>5, <1>6 DEF Begun

\* applyRowsChunk: a row of another stream is ignored, one of its own is written.
LEMMA ChunkWindow ==
    ASSUME NEW R, NEW Ops, NEW w \in Windows(R, Ops), NEW c \in Caches(R),
           NEW op, NEW at \in Nat, NEW row \in R, w.offset + at \in Idx,
           NEW v, v = applyRowsChunk(w, c, op, at, row),
           NEW d, d = CachedChunk(w, c, op, at, row)
    PROVE  /\ v \in Windows(R, Ops) /\ d \in Caches(R)
           /\ w.op # op => v = w /\ d = c
           /\ w.op = op => Wrote(w, c, w.offset + at, row, v, d)
<1>1. w.offset \in Nat /\ w.loadedMax \in Int /\ w.pending \in Int /\ w.rows \in Caches(R)
  BY WindowFields
<1>2. CASE w.op # op
  BY <1>2 DEF applyRowsChunk, CachedChunk, Accepts
<1>3. CASE w.op = op
  <2> DEFINE top == Larger(w.pending, Larger(w.loadedMax, w.offset + at))
             r == [w.rows EXCEPT ![w.offset + at] = row]
             m == IF w.loadedMax < w.offset /\ NestedUpdateStays(c) THEN top
                  ELSE w.loadedMax
             p == IF w.loadedMax < w.offset THEN -1 ELSE top
  <2>1. top \in Int /\ -1 \in Int
    BY <1>1 DEF Larger
  <2>2. m \in Int /\ p \in Int
    BY <1>1, <2>1
  <2>3. r \in Caches(R) /\ [c EXCEPT ![w.offset + at] = row] \in Caches(R)
    BY <1>1 DEF Caches
  <2>4. v = [w EXCEPT !.rows[w.offset + at] = row, !.receivedAnyChunk = TRUE,
                      !.loadedMax = m, !.pending = p]
    BY <1>3 DEF applyRowsChunk, Accepts
  <2>5. d = [c EXCEPT ![w.offset + at] = row]
    BY <1>3 DEF CachedChunk, Accepts
  <2> HIDE DEF top, m, p
  <2>6. v = [w EXCEPT !.rows = r, !.receivedAnyChunk = TRUE, !.loadedMax = m, !.pending = p]
    BY <2>4 DEF Windows
  <2>7. v.rows = r
    BY <2>6 DEF Windows
  <2> HIDE DEF r
  <2>8. /\ v \in Windows(R, Ops) /\ v.op = w.op /\ v.offset = w.offset
        /\ v.running = w.running /\ v.receivedAnyChunk = TRUE
    BY <2>2, <2>3, <2>6 DEF Windows, Caches
  <2> QED
    BY <1>3, <2>3, <2>5, <2>7, <2>8 DEF Wrote, r
<1> QED
  BY <1>2, <1>3

\* scheduleRowsNotify only counts.
LEMMA FlushedWindow ==
    ASSUME NEW R, NEW Ops, NEW w \in Windows(R, Ops), NEW v, v = FlushNotify(w)
    PROVE  v \in Windows(R, Ops) /\ SameView(w, v)
<1>1. PICK m \in Int, p \in Int : v = [w EXCEPT !.loadedMax = m, !.pending = p]
  <2>1. Larger(w.loadedMax, w.pending) \in Int /\ -1 \in Int
    BY WindowFields DEF Larger
  <2>2. v = [w EXCEPT !.loadedMax = Larger(w.loadedMax, w.pending), !.pending = -1]
    BY DEF FlushNotify, Windows
  <2> QED
    BY <2>1, <2>2
<1> QED
  BY <1>1 DEF Windows, SameView

\* endRowsStream: the end of another stream is ignored; a stream without a chunk leaves
\* an empty page.
LEMMA EndedWindow ==
    ASSUME NEW R, NEW Ops, NEW w \in Windows(R, Ops), NEW op,
           NEW v, v = endRowsStream(w, op)
    PROVE  /\ v \in Windows(R, Ops)
           /\ w.op # op => v = w
           /\ w.op = op => Stopped(w, IF w.receivedAnyChunk THEN w.rows ELSE NoRows, v)
<1>1. w.offset - 1 \in Int
  BY WindowFields
<1>2. CASE w.op # op
  BY <1>2 DEF endRowsStream
<1>3. CASE w.op = op /\ w.receivedAnyChunk
  <2>1. v = [w EXCEPT !.running = FALSE]
    BY <1>3 DEF endRowsStream
  <2> QED
    BY <1>3, <2>1 DEF Windows, Stopped
<1>4. CASE w.op = op /\ ~ w.receivedAnyChunk
  <2>1. PICK m \in Int : v = [w EXCEPT !.running = FALSE, !.rows = NoRows, !.loadedMax = m]
    BY <1>1, <1>4 DEF endRowsStream
  <2> QED
    BY <1>4, <2>1, EmptyWindow DEF Windows, Stopped, Caches
<1> QED
  BY <1>2, <1>3, <1>4

\* failRowsStream keeps the rows.
LEMMA FailedWindow ==
    ASSUME NEW R, NEW Ops, NEW w \in Windows(R, Ops), NEW op,
           NEW v, v = failRowsStream(w, op)
    PROVE  /\ v \in Windows(R, Ops)
           /\ w.op # op => v = w
           /\ w.op = op => Stopped(w, w.rows, v)
BY DEF failRowsStream, Windows, Stopped

\* updateRow writes one row that is not below the window.
LEMMA UpdatedWindow ==
    ASSUME NEW R, NEW Ops, NEW w \in Windows(R, Ops), NEW i \in Idx, i >= w.offset,
           NEW row \in R, NEW v, v = updateRow(w, i, row)
    PROVE  /\ v \in Windows(R, Ops) /\ v.offset = w.offset
           /\ v.rows = [w.rows EXCEPT ![i] = row]
<1>1. v = [w EXCEPT !.rows[i] = row]
  BY DEF updateRow
<1> QED
  BY <1>1 DEF Windows
=============================================================================
