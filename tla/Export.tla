------------------------------- MODULE Export -------------------------------
(***************************************************************************)
(* One run of the streaming export: runStreamingExport in the webview, the *)
(* native export session with its temporary file, and the operation whose  *)
(* chunks it writes.  The webview is one thread that interleaves at its    *)
(* awaits; a native command takes effect at any time before its answer.    *)
(* The bus is abstracted to what ResultStream checks of it for a           *)
(* subscriber with awaitChunkHandlers: chunks once and in order, one       *)
(* handler at a time, the end behind them.                                 *)
(*                                                                         *)
(* A definition Name_Variant is a faulty variant of Name, kept beside it   *)
(* to show which property notices the fault; no specification uses it.     *)
(***************************************************************************)
EXTENDS Naturals, Sequences

CONSTANTS
    Chunks,     \* the chunks of the table
    Cancels     \* bound: the calls of cancel() (the button, an owner's teardown)

ASSUME ChunksAssumption == Chunks \in Nat

VARIABLES
    temp,       \* the export session with its temporary file: "none", "open",
                \* "published", both "gone", the file "left" without a session, or
                \* both "stuck", the one abort rejected
    written,    \* what its temporary file holds
    file,       \* the destination: <<>> stands for the file that was there
    stream,     \* the operation: "none", "requested", "running", "cancelled",
                \* "ended", or "cut" by a cancel
    rival,      \* did another caller cancel it?
    sent,       \* chunks it has emitted
    end,        \* its terminal event: "none", "done" or "error"
    endAt,      \* chunks it had emitted before that
    heard,      \* chunks the bus has handed to onChunk
    subscribed, \* does the bus deliver to this run?
    opId,       \* is the operation's id known here?
    sessionId,  \* is the session's id held here?
    cancelled,
    committing,
    outcome,    \* what finish() reported: "none", "saved" or "failed"
    starter,    \* where start() is
    handler,    \* where the chunk handler that runs is
    ender,      \* where onDone or onError is
    canceller   \* canceller[u]: where the call u of cancel() is

native == <<temp, written, file>>
server == <<stream, rival, sent, end, endAt>>
bus == <<heard, subscribed>>
flags == <<opId, sessionId, cancelled, committing, outcome>>
pcs == <<starter, handler, ender, canceller>>
vars == <<native, server, bus, flags, pcs>>

\* The trailer is written as one more piece behind the chunks.
Trailer == Chunks + 1
\* The content of a file with every chunk that was emitted, in order.
Whole == [i \in 1..(sent + 1) |-> IF i <= sent THEN i ELSE Trailer]

Init ==
    /\ temp = "none"
    /\ written = <<>>
    /\ file = <<>>
    /\ stream = "none"
    /\ rival = FALSE
    /\ sent = 0
    /\ end = "none"
    /\ endAt = 0
    /\ heard = 0
    /\ subscribed = FALSE
    /\ opId = FALSE
    /\ sessionId = FALSE
    /\ cancelled = FALSE
    /\ committing = FALSE
    /\ outcome = "none"
    /\ starter = "begin"
    /\ handler = "idle"
    /\ ender = "idle"
    /\ canceller = [u \in Cancels |-> "idle"]

\* finish(): the first report counts.
Finish(report) == outcome' = IF outcome = "none" THEN report ELSE outcome

\* The command operation_cancel on behalf of this run.
OperationCancel ==
    /\ stream' = IF opId /\ stream = "running" THEN "cancelled" ELSE stream
    /\ UNCHANGED <<rival, sent, end, endAt>>

\* abortSession() and the finish() behind it, up to the await: with an id the
\* native abort is under way, without one there is nothing to wait for.
AbortSession ==
    /\ sessionId' = FALSE
    /\ IF sessionId THEN UNCHANGED outcome ELSE Finish("failed")
\* The place to go on from after it.
Aborting(over) == IF sessionId THEN "aborting" ELSE over

\* The same in failTerminal() and cancelOwned(), which leave a commit its session.
AbortUnlessCommitting ==
    IF committing THEN Finish("failed") /\ UNCHANGED sessionId ELSE AbortSession
AbortingUnlessCommitting(over) == IF committing THEN over ELSE Aborting(over)

\* The native abort answers; what the caller does next is finish(), an error or not:
\* the deletion of the file may fail with the session removed, or the command with it.
Aborted ==
    /\ temp' \in IF temp = "open" THEN {"gone", "left", "stuck"} ELSE {temp}
    /\ Finish("failed")
    /\ UNCHANGED <<written, file, server, bus, opId, sessionId, cancelled, committing>>
-----------------------------------------------------------------------------
(* start() *)

BeginSession ==
    /\ starter = "begin"
    /\ temp' = "open"
    /\ sessionId' = ~ cancelled
    /\ starter' = IF cancelled THEN "aborting" ELSE "execute"
    /\ stream' = IF cancelled THEN stream ELSE "requested"
    /\ UNCHANGED <<written, file, rival, sent, end, endAt, bus, opId, cancelled, committing,
                   outcome, handler, ender, canceller>>

\* Without a file, or with one that no session was entered for.
BeginFails ==
    /\ starter = "begin"
    /\ temp' \in {"none", "left"}
    /\ Finish("failed")
    /\ starter' = "over"
    /\ UNCHANGED <<written, file, server, bus, opId, sessionId, cancelled, committing,
                   handler, ender, canceller>>

\* startSqlQueryStream returns an id, and the run subscribes: the bus listens by then
\* (startSqlQueryStream awaits its ensureInit), so that subscribe() cannot fail.
Listen ==
    /\ starter = "execute"
    /\ stream # "requested"
    /\ ~ cancelled
    /\ opId' = TRUE
    /\ subscribed' = TRUE
    /\ starter' = "over"
    /\ UNCHANGED <<native, server, heard, sessionId, cancelled, committing, outcome,
                   handler, ender, canceller>>

\* startSqlQueryStream throws: cancel() aborted it, though its request may still
\* be answered, or the connection stayed busy.
StartFails ==
    /\ starter = "execute"
    /\ \/ cancelled /\ UNCHANGED stream
       \/ stream = "requested" /\ stream' = "none"
    /\ AbortSession
    /\ starter' = Aborting("over")
    /\ UNCHANGED <<native, rival, sent, end, endAt, bus, opId, cancelled, committing, handler,
                   ender, canceller>>

StartAborted ==
    /\ starter = "aborting"
    /\ Aborted
    /\ starter' = "over"
    /\ UNCHANGED <<handler, ender, canceller>>

LateCancel_Forgotten == FALSE /\ UNCHANGED vars
\* An id that arrives behind an aborted start is cancelled on arrival.
LateCancel ==
    /\ starter \notin {"begin", "execute"}
    /\ ~ opId
    /\ stream = "running"
    /\ stream' = "cancelled"
    /\ UNCHANGED <<native, rival, sent, end, endAt, bus, flags, pcs>>
-----------------------------------------------------------------------------
(* The operation, as far as its subscriber can tell *)

StreamStarts ==
    /\ stream = "requested"
    /\ stream' = "running"
    /\ UNCHANGED <<native, rival, sent, end, endAt, bus, flags, pcs>>

Emit_OneMore ==
    /\ stream \in {"running", "cancelled", "cut"}
    /\ sent <= Chunks
    /\ sent' = sent + 1
    /\ UNCHANGED <<native, stream, rival, end, endAt, bus, flags, pcs>>
\* The emit task drains its channel also behind the runner that a cancel ended.
Emit ==
    /\ stream \in {"running", "cancelled", "cut"}
    /\ sent < Chunks
    /\ sent' = sent + 1
    /\ UNCHANGED <<native, stream, rival, end, endAt, bus, flags, pcs>>

Ends(how, event) ==
    /\ stream' = how
    /\ end' = event
    /\ endAt' = sent
    /\ UNCHANGED <<native, rival, sent, bus, flags, pcs>>

StreamDone == stream = "running" /\ sent = Chunks /\ Ends("ended", "done")

StreamFails == stream = "running" /\ Ends("ended", "error")

\* A cancelled stream reports done, an error or, its task aborted, nothing.
StreamCut ==
    /\ stream = "cancelled"
    /\ \E event \in {"done", "error", "none"} : Ends("cut", event)

\* The busy retry of another caller on the connection cancels the stream.
OtherCancels ==
    /\ stream = "running"
    /\ stream' = "cancelled"
    /\ rival' = TRUE
    /\ UNCHANGED <<native, sent, end, endAt, bus, flags, pcs>>
-----------------------------------------------------------------------------
(* Chunks *)

\* failTerminal() up to its first await.  For a chunk that is replayed inside
\* subscribe() the function that unsubscribes is not known yet.
FailTerminal ==
    /\ cancelled' = TRUE
    /\ subscribed' \in (IF heard = 0 THEN {subscribed, FALSE} ELSE {FALSE})

\* processChunk: behind a cancel or a report a chunk is dropped; one that cannot
\* be transformed ends the run; the others are written.
HearChunk ==
    /\ subscribed
    /\ handler = "idle"
    /\ heard < sent
    /\ heard' = heard + 1
    /\ IF cancelled \/ outcome # "none"
       THEN UNCHANGED <<subscribed, cancelled, handler>>
       ELSE \/ sessionId /\ handler' = "write" /\ UNCHANGED <<subscribed, cancelled>>
            \/ handler' = "failing" /\ FailTerminal
    /\ UNCHANGED <<native, server, opId, sessionId, committing, outcome, starter,
                   ender, canceller>>

\* export_session_append
Write(piece) ==
    /\ temp \in {"open", "stuck"}
    /\ written' = Append(written, piece)
    /\ UNCHANGED <<temp, file>>

ChunkWritten ==
    /\ handler = "write"
    /\ Write(heard)
    /\ handler' = "idle"
    /\ UNCHANGED <<server, bus, flags, starter, ender, canceller>>

ChunkFails ==
    /\ handler = "write"
    /\ IF outcome # "none"
       THEN handler' = "idle" /\ UNCHANGED <<subscribed, cancelled>>
       ELSE handler' = "failing" /\ FailTerminal
    /\ UNCHANGED <<native, server, heard, opId, sessionId, committing, outcome, starter,
                   ender, canceller>>

\* failTerminal() behind its operation_cancel.
ChunkFailing ==
    /\ handler = "failing"
    /\ OperationCancel
    /\ AbortUnlessCommitting
    /\ handler' = AbortingUnlessCommitting("idle")
    /\ UNCHANGED <<native, bus, opId, cancelled, committing, starter, ender, canceller>>

ChunkAborted ==
    /\ handler = "aborting"
    /\ Aborted
    /\ handler' = "idle"
    /\ UNCHANGED <<starter, ender, canceller>>
-----------------------------------------------------------------------------
(* onDone and onError *)

\* The end is handed over once the chunks before it have been handled; one that
\* comes behind it may be in its handler.
HeardEnd(event) ==
    /\ subscribed
    /\ end = event
    /\ heard >= endAt
    /\ handler = "idle" \/ heard > endAt
    /\ ender = "idle"

HearDone ==
    /\ HeardEnd("done")
    /\ \/ /\ outcome # "none"
          /\ ender' = "over"
          /\ UNCHANGED <<sessionId, committing, outcome>>
       \/ /\ outcome = "none" /\ cancelled
          /\ AbortSession
          /\ ender' = Aborting("over")
          /\ UNCHANGED committing
       \/ /\ outcome = "none" /\ ~ cancelled
          /\ committing' = TRUE
          /\ ender' = "trailer"
          /\ UNCHANGED <<sessionId, outcome>>
    /\ UNCHANGED <<native, server, bus, opId, cancelled, starter, handler, canceller>>

HearError ==
    /\ HeardEnd("error")
    /\ \/ /\ outcome # "none"
          /\ ender' = "over"
          /\ UNCHANGED <<subscribed, cancelled, sessionId, outcome>>
       \/ /\ outcome = "none" /\ cancelled
          /\ AbortSession
          /\ ender' = Aborting("over")
          /\ UNCHANGED <<subscribed, cancelled>>
       \/ /\ outcome = "none" /\ ~ cancelled
          /\ FailTerminal
          /\ ender' = "failing"
          /\ UNCHANGED <<sessionId, outcome>>
    /\ UNCHANGED <<native, server, heard, opId, committing, starter, handler, canceller>>

EndFailing ==
    /\ ender = "failing"
    /\ OperationCancel
    /\ AbortUnlessCommitting
    /\ ender' = AbortingUnlessCommitting("over")
    /\ UNCHANGED <<native, bus, opId, cancelled, committing, starter, handler, canceller>>

TrailerWritten ==
    /\ ender = "trailer"
    /\ Write(Trailer)
    /\ ender' = "publish"
    /\ UNCHANGED <<server, bus, flags, starter, handler, canceller>>

\* export_session_publish: the rename replaces the destination at once.
Publish ==
    /\ ender = "publish"
    /\ temp \in {"open", "stuck"}
    /\ temp' = "published"
    /\ file' = written
    /\ ender' = "published"
    /\ UNCHANGED <<written, server, bus, flags, starter, handler, canceller>>

Published ==
    /\ ender = "published"
    /\ sessionId' = FALSE
    /\ Finish("saved")
    /\ ender' = "over"
    /\ UNCHANGED <<native, server, bus, opId, cancelled, committing, starter, handler,
                   canceller>>

\* The trailer cannot be written or the file not be replaced; a publish that fails
\* with the session removed has deleted the temporary file, or tried to.
CommitFails ==
    /\ ender \in {"trailer", "publish"}
    /\ temp' \in {temp} \cup IF ender = "publish" /\ temp \in {"open", "stuck"}
                              THEN {"gone", "left"} ELSE {}
    /\ committing' = FALSE
    /\ AbortSession
    /\ ender' = Aborting("over")
    /\ UNCHANGED <<written, file, server, bus, opId, cancelled, starter, handler,
                   canceller>>

EndAborted ==
    /\ ender = "aborting"
    /\ Aborted
    /\ ender' = "over"
    /\ UNCHANGED <<starter, handler, canceller>>
-----------------------------------------------------------------------------
(* cancel() *)

Goes(u, pc) == canceller' = [canceller EXCEPT ![u] = pc]

Cancel_DuringCommit(u) ==
    /\ canceller[u] = "idle"
    /\ outcome = "none"
    /\ cancelled' = TRUE
    /\ Goes(u, "cancel")
    /\ UNCHANGED <<native, server, bus, opId, sessionId, committing, outcome, starter,
                   handler, ender>>
\* cancelOwned(): once the file is being published it waits.
Cancel(u) ==
    /\ canceller[u] = "idle"
    /\ outcome = "none"
    /\ cancelled' = (cancelled \/ ~ committing)
    /\ Goes(u, IF committing THEN "await" ELSE "cancel")
    /\ UNCHANGED <<native, server, bus, opId, sessionId, committing, outcome, starter,
                   handler, ender>>

CancelOperation(u) ==
    /\ canceller[u] = "cancel"
    /\ OperationCancel
    /\ Goes(u, "settle")
    /\ UNCHANGED <<native, bus, flags, starter, handler, ender>>

AwaitHandlers_Skips(u) ==
    /\ canceller[u] = "settle"
    /\ starter = "over"
    /\ Goes(u, "again")
    /\ UNCHANGED <<native, server, bus, flags, starter, handler, ender>>
\* start() has settled and no chunk handler runs.
AwaitHandlers(u) ==
    /\ canceller[u] = "settle"
    /\ starter = "over"
    /\ handler = "idle"
    /\ Goes(u, "again")
    /\ UNCHANGED <<native, server, bus, flags, starter, handler, ender>>

\* Reported by then, or the grace of 500 ms is over.
CancelAgain(u) ==
    /\ canceller[u] = "again"
    /\ OperationCancel
    /\ Goes(u, "detach")
    /\ UNCHANGED <<native, bus, flags, starter, handler, ender>>

CancelDetach(u) ==
    /\ canceller[u] = "detach"
    /\ subscribed' = FALSE
    /\ AbortUnlessCommitting
    /\ Goes(u, AbortingUnlessCommitting("over"))
    /\ UNCHANGED <<native, server, heard, opId, cancelled, committing, starter, handler,
                   ender>>

CancelAborted(u) ==
    /\ canceller[u] = "aborting"
    /\ Aborted
    /\ Goes(u, "over")
    /\ UNCHANGED <<starter, handler, ender>>

CancelAwaited(u) ==
    /\ canceller[u] = "await"
    /\ outcome # "none"
    /\ Goes(u, "over")
    /\ UNCHANGED <<native, server, bus, flags, starter, handler, ender>>
-----------------------------------------------------------------------------
Start == BeginSession \/ BeginFails \/ Listen \/ StartFails \/ StartAborted
Server == StreamStarts \/ Emit \/ StreamDone \/ StreamFails \/ StreamCut \/ OtherCancels
OnChunk == HearChunk \/ ChunkWritten \/ ChunkFails \/ ChunkFailing \/ ChunkAborted
OnEnd ==
    \/ HearDone \/ HearError \/ EndFailing \/ EndAborted
    \/ TrailerWritten \/ Publish \/ Published \/ CommitFails
CancelGoesOn(u) ==
    \/ CancelOperation(u) \/ AwaitHandlers(u) \/ CancelAgain(u) \/ CancelDetach(u)
    \/ CancelAborted(u) \/ CancelAwaited(u)

Next ==
    \/ Start \/ LateCancel \/ Server \/ OnChunk \/ OnEnd
    \/ \E u \in Cancels : Cancel(u) \/ CancelGoesOn(u)

Spec == Init /\ [][Next]_vars

\* Native commands answer and the webview's thread goes on; the operation may
\* start late or never, run for ever or end without a word.
FairSpec ==
    /\ Spec
    /\ WF_vars(Start) /\ WF_vars(LateCancel) /\ WF_vars(OnChunk) /\ WF_vars(OnEnd)
    /\ \A u \in Cancels : WF_vars(CancelGoesOn(u))
-----------------------------------------------------------------------------
(* Properties *)

CancelPC == {"idle", "await", "cancel", "settle", "again", "detach", "aborting", "over"}

\* The type invariant of the variables of one export run.
TypeOK ==
    /\ temp \in {"none", "open", "published", "gone", "left", "stuck"}
    /\ written \in Seq(1..Trailer)
    /\ file \in Seq(1..Trailer)
    /\ stream \in {"none", "requested", "running", "cancelled", "ended", "cut"}
    /\ sent \in 0..Chunks
    /\ end \in {"none", "done", "error"}
    /\ endAt \in 0..sent
    /\ heard \in 0..sent
    /\ {rival, subscribed, opId, sessionId, cancelled, committing} \subseteq BOOLEAN
    /\ outcome \in {"none", "saved", "failed"}
    /\ starter \in {"begin", "execute", "aborting", "over"}
    /\ handler \in {"idle", "write", "failing", "aborting"}
    /\ ender \in {"idle", "trailer", "publish", "published", "failing", "aborting", "over"}
    /\ canceller \in [Cancels -> CancelPC]

\* The abort of the temporary file is under way.
CleaningUp ==
    \/ starter = "aborting" \/ handler = "aborting" \/ ender = "aborting"
    \/ \E u \in Cancels : canceller[u] = "aborting"

\* Nothing is written to a session whose abort was tried, or that a publish gave up:
\* neither a cancel nor a failure overtakes a write that is under way
\* (waitForActiveChunkHandlers and the order of onDone).  And no session is reported on
\* and forgotten: behind the report its file was published, or its deletion is under
\* way or was tried.  When that fails the file stays for good, as one does that begin
\* could not enter: the code ignores those errors.
\* (Another caller's cancel may let a chunk arrive behind done, and its handler run
\* beside the publication.)
TempFileOwned ==
    ~ rival =>
        /\ handler = "write" \/ ender \in {"trailer", "publish"} => temp = "open"
        /\ outcome # "none" /\ temp = "open" => CleaningUp

Contents ==
    CASE file = <<>>  -> "old"
      [] file = Whole -> "new"
      [] OTHER        -> "broken"

\* Whatever fails and whenever it is cancelled, the export is a publication: the
\* destination becomes, at once, every chunk the stream delivered and the
\* trailer, or stays what it was, and the one report tells which.  The code does
\* not keep this when another caller cancels the stream: done then looks complete.
Promise == INSTANCE Publication
           WITH file <- Contents, report <- outcome, disturbed <- rival
ImplementsPublication == Promise!Spec

\* An export whose stream ended or that was cancelled is reported, though the
\* backend says nothing more, and its operation does not run on in the back.
Settles ==
    cancelled \/ end # "none" ~> outcome # "none" /\ stream # "running"
=============================================================================
