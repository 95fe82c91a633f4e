---------------------------- MODULE ResultStream ----------------------------
(***************************************************************************)
(* One streamed query, from the database to the component that shows or    *)
(* writes its rows: the PostgreSQL runner with its flow control, the task  *)
(* that emits the events, the event queue of the webview, the frontend's   *)
(* operationBus and the acknowledgements it sends back.                    *)
(*                                                                         *)
(* The runner and the emitter are tasks of the backend; the webview is one *)
(* thread, and what it does without awaiting is one step.                  *)
(*                                                                         *)
(* A definition Name_Variant is a faulty variant of Name, kept beside it   *)
(* to show which property notices the fault; no specification uses it.     *)
(***************************************************************************)
EXTENDS Naturals, Sequences

CONSTANTS
    Chunks,       \* bound: the chunks of rows the query returns
    Window,       \* FlowCtrl::new(3)
    Capacity,     \* mpsc::channel(2)
    MaxPermits    \* the most one operation_chunk_ack adds

ASSUME ResultStreamAssumption ==
    /\ Chunks \in Nat
    /\ Window \in Nat \ {0}
    /\ Capacity \in Nat \ {0}
    /\ MaxPermits \in Nat \ {0}

VARIABLES
    run,       \* where the runner is
    outcome,   \* how the runner ended the stream
    next,      \* the number of the next chunk
    credit,    \* permits in FlowCtrl's semaphore
    channel,   \* chunks, or an error, on their way to the emitter
    emitter,   \* the emit task
    asked,     \* cancel_operation marked the operation
    events,    \* what was emitted and the webview has not yet dispatched
    bus,       \* whether handlersByOp has the operation's handlers
    cache,     \* cacheByOp of the operation
    queue,     \* the operation's serial queue, and a terminal event behind it
    working,   \* whether the onChunk of the queue's head is in progress
    ending,    \* whether a serial subscriber's onDone or onError is in progress
    toAck,     \* pendingAcksByOp
    flying,    \* permits in operation_chunk_ack calls
    serial,    \* whether the subscriber asks for awaitChunkHandlers
    sub,       \* the subscriber: "none", "listening" or "left"
    swept,     \* runCleanup deleted what the subscriber had not yet seen
    got,       \* the chunks whose onChunk settled
    heard      \* the terminal events the subscriber's handlers were called with

backend  == <<run, outcome, next, credit, channel, emitter, asked>>
frontend == <<serial, bus, cache, queue, working, ending, sub, swept, got, heard>>
acks     == <<toAck, flying>>
vars     == <<run, outcome, next, credit, channel, emitter, asked, events, serial, bus,
              cache, queue, working, ending, sub, swept, got, heard, toAck, flying>>

Fault == 0      \* the error sent through the channel
Absent == [kept |-> FALSE, chunks |-> <<>>, done |-> FALSE, error |-> FALSE, old |-> FALSE]

Emit(type, n) == events' = Append(events, [type |-> type, n |-> n])

Init ==
    /\ run = "fetching"
    /\ outcome = "none"
    /\ next = 1
    /\ credit = Window
    /\ channel = <<>>
    /\ emitter = "running"
    /\ asked = FALSE
    /\ events = <<>>
    /\ serial \in BOOLEAN
    /\ bus = FALSE
    /\ cache = Absent
    /\ queue = <<>>
    /\ working = FALSE
    /\ ending = FALSE
    /\ toAck = 0
    /\ flying = 0
    /\ sub = "none"
    /\ swept = FALSE
    /\ got = <<>>
    /\ heard = <<>>

-----------------------------------------------------------------------------
\* The runner

Fill ==
    /\ run = "fetching"
    /\ next <= Chunks
    /\ run' = "credit"
    /\ UNCHANGED <<outcome, next, credit, channel, emitter, asked, events, frontend, acks>>

TakeCredit ==
    /\ run = "credit"
    /\ credit > 0
    /\ credit' = credit - 1
    /\ run' = "sending"
    /\ UNCHANGED <<outcome, next, channel, emitter, asked, events, frontend, acks>>

Send_KeepsPermit ==
    /\ run = "sending"
    /\ emitter = "running"
    /\ Len(channel) < Capacity
    /\ channel' = Append(channel, next)
    /\ next' = next + 1
    /\ run' = "fetching"
    /\ UNCHANGED <<outcome, credit, emitter, asked, events, frontend, acks>>
\* The permit of the chunk is an RAII guard: it returns to the semaphore as soon as the
\* chunk is in the channel.  A closed channel refunds one permit more.
Send ==
    /\ run = "sending"
    /\ \/ /\ emitter = "running"
          /\ Len(channel) < Capacity
          /\ channel' = Append(channel, next)
          /\ next' = next + 1
          /\ credit' = credit + 1
          /\ run' = "fetching"
          /\ UNCHANGED outcome
       \/ /\ emitter # "running"
          /\ credit' = credit + 2
          /\ run' = "draining"
          /\ outcome' = "failed"
          /\ UNCHANGED <<channel, next>>
    /\ UNCHANGED <<emitter, asked, events, frontend, acks>>

\* Every row was sent and the transaction committed.
Finish ==
    /\ run = "fetching"
    /\ next > Chunks
    /\ run' = "draining"
    /\ outcome' = "done"
    /\ UNCHANGED <<next, credit, channel, emitter, asked, events, frontend, acks>>

\* The query, a row or the commit fails.
Fail ==
    /\ run = "fetching"
    /\ run' = "failing"
    /\ outcome' = "failed"
    /\ UNCHANGED <<next, credit, channel, emitter, asked, events, frontend, acks>>

SendFault ==
    /\ run = "failing"
    /\ \/ /\ emitter = "running"
          /\ Len(channel) < Capacity
          /\ channel' = Append(channel, Fault)
       \/ /\ emitter # "running"
          /\ UNCHANGED channel
    /\ run' = "draining"
    /\ UNCHANGED <<outcome, next, credit, emitter, asked, events, frontend, acks>>

\* The server was interrupted and the user had asked: done at once, from the runner
\* itself, and rows not yet in a full chunk are dropped.
EndCancelled ==
    /\ run = "fetching"
    /\ asked
    /\ Emit("done", next)
    /\ run' = "draining"
    /\ outcome' = "cut"
    /\ UNCHANGED <<next, credit, channel, emitter, asked, frontend, acks>>

Join_AlwaysDone ==
    /\ run = "draining"
    /\ emitter # "running"
    /\ Emit("done", next)
    /\ run' = "over"
    /\ UNCHANGED <<outcome, next, credit, channel, emitter, asked, frontend, acks>>
\* The sender is dropped and the emit task awaited; a complete stream then says so.
Join ==
    /\ run = "draining"
    /\ emitter # "running"
    /\ IF outcome = "done" THEN Emit("done", next) ELSE UNCHANGED events
    /\ run' = "over"
    /\ UNCHANGED <<outcome, next, credit, channel, emitter, asked, frontend, acks>>

Cancel ==
    /\ run # "over"
    /\ ~ asked
    /\ asked' = TRUE
    /\ UNCHANGED <<run, outcome, next, credit, channel, emitter, events, frontend, acks>>

\* The aborted runner is dropped at an await; the emit task goes on.
Abort ==
    /\ asked
    /\ run # "over"
    /\ run' = "over"
    /\ UNCHANGED <<outcome, next, credit, channel, emitter, asked, events, frontend, acks>>

-----------------------------------------------------------------------------
\* The emit task

EmitNext ==
    /\ emitter = "running"
    /\ channel # <<>>
    /\ channel' = Tail(channel)
    /\ \/ /\ Head(channel) # Fault
          /\ Emit("chunk", Head(channel))
          /\ UNCHANGED emitter
       \/ /\ Head(channel) = Fault
          /\ Emit("error", Fault)
          /\ emitter' = "over"
    /\ UNCHANGED <<run, outcome, next, credit, asked, frontend, acks>>

\* AppHandle::emit returns an error: what is left in the channel is dropped.
EmitFails ==
    /\ emitter = "running"
    /\ channel # <<>>
    /\ channel' = <<>>
    /\ emitter' = "broken"
    /\ UNCHANGED <<run, outcome, next, credit, asked, events, frontend, acks>>

EmitterEnds ==
    /\ emitter = "running"
    /\ channel = <<>>
    /\ run \in {"draining", "over"}
    /\ emitter' = "over"
    /\ UNCHANGED <<run, outcome, next, credit, channel, asked, events, frontend, acks>>

-----------------------------------------------------------------------------
\* operationBus: the listeners

Cached == [cache EXCEPT !.kept = TRUE]

HearChunk_Unqueued(n) ==
    /\ IF bus
       THEN got' = Append(got, n) /\ UNCHANGED cache
       ELSE cache' = [Cached EXCEPT !.chunks = Append(@, n)] /\ UNCHANGED got
    /\ toAck' = toAck + 1
    /\ UNCHANGED <<bus, queue, working, ending, heard>>
\* A serial subscriber's chunk is queued and acknowledged when its handler settles; any
\* other one is acknowledged at once, also when it is only cached.
HearChunk(n) ==
    \/ /\ bus /\ serial
       /\ queue' = Append(queue, [what |-> "chunk", n |-> n, ack |-> TRUE])
       /\ UNCHANGED <<bus, cache, working, ending, got, heard, toAck>>
    \/ /\ bus /\ ~ serial
       /\ got' = Append(got, n)
       /\ toAck' = toAck + 1
       /\ UNCHANGED <<bus, cache, queue, working, ending, heard>>
    \/ /\ ~ bus
       /\ cache' = [Cached EXCEPT !.chunks = Append(@, n)]
       /\ toAck' = toAck + 1
       /\ UNCHANGED <<bus, queue, working, ending, got, heard>>

HearEnd_NoDrain(type) ==
    /\ cache' = IF type = "done" THEN [Cached EXCEPT !.done = TRUE]
                                 ELSE [Cached EXCEPT !.error = TRUE]
    /\ IF bus THEN heard' = Append(heard, type) /\ bus' = FALSE ELSE UNCHANGED <<heard,
                                                                                 bus>>
    /\ UNCHANGED <<queue, working, ending, got, toAck>>
\* A serial subscriber hears the end when the queue of this moment has drained.
HearEnd(type) ==
    /\ cache' = IF type = "done" THEN [Cached EXCEPT !.done = TRUE]
                                 ELSE [Cached EXCEPT !.error = TRUE]
    /\ \/ /\ bus /\ serial
          /\ queue' = Append(queue, [what |-> type, n |-> 0, ack |-> FALSE])
          /\ UNCHANGED <<bus, heard>>
       \/ /\ bus /\ ~ serial
          /\ heard' = Append(heard, type)
          /\ bus' = FALSE
          /\ UNCHANGED queue
       \/ /\ ~ bus
          /\ UNCHANGED <<bus, heard, queue>>
    /\ UNCHANGED <<working, ending, got, toAck>>

Dispatch ==
    /\ events # <<>>
    /\ events' = Tail(events)
    /\ LET e == Head(events) IN
       IF e.type = "chunk" THEN HearChunk(e.n) ELSE HearEnd(e.type)
    /\ UNCHANGED <<backend, serial, sub, swept, flying>>

-----------------------------------------------------------------------------
\* operationBus: subscribe, its serial queue, unsubscribe

\* A cached end is replayed behind the cached chunks, done before error.
CachedEnd == IF cache.done THEN <<"done">> ELSE IF cache.error THEN <<"error">> ELSE <<>>

Items(chunks, ends) ==
    [i \in 1..Len(chunks) |-> [what |-> "chunk", n |-> chunks[i], ack |-> FALSE]]
    \o [i \in 1..Len(ends) |-> [what |-> ends[i], n |-> 0, ack |-> FALSE]]

Replay_ForgetsEnd ==
    /\ IF serial
       THEN queue' = queue \o Items(cache.chunks, <<>>) /\ UNCHANGED got
       ELSE got' = got \o cache.chunks /\ UNCHANGED queue
    /\ bus' = TRUE
    /\ UNCHANGED heard
\* Chunks are cached in the order of their numbers, which getSortedChunks restores.
Replay ==
    \/ /\ serial
       /\ queue' = queue \o Items(cache.chunks, CachedEnd)
       /\ bus' = TRUE
       /\ UNCHANGED <<got, heard>>
    \/ /\ ~ serial
       /\ got' = got \o cache.chunks
       /\ heard' = heard \o CachedEnd
       /\ bus' = (CachedEnd = <<>>)
       /\ UNCHANGED queue

\* operation_execute has returned the id, at whatever time relative to the events.
Subscribe ==
    /\ sub = "none"
    /\ sub' = "listening"
    /\ Replay
    /\ cache' = [cache EXCEPT !.chunks = <<>>]
    /\ UNCHANGED <<backend, events, serial, working, ending, swept, acks>>

\* The links of the serial chain: for a subscriber that has left nothing is done.
Skip ==
    /\ queue # <<>>
    /\ ~ working
    /\ ~ bus
    /\ queue' = Tail(queue)
    /\ UNCHANGED <<backend, events, serial, bus, cache, working, ending, sub, swept,
                   got, heard, acks>>

Work ==
    /\ queue # <<>>
    /\ ~ working
    /\ bus
    /\ Head(queue).what = "chunk"
    /\ working' = TRUE
    /\ UNCHANGED <<backend, events, serial, bus, cache, queue, ending, sub, swept, got,
                   heard, acks>>

Settle ==
    /\ working
    /\ working' = FALSE
    /\ queue' = Tail(queue)
    /\ got' = Append(got, Head(queue).n)
    /\ toAck' = IF Head(queue).ack THEN toAck + 1 ELSE toAck
    /\ UNCHANGED <<backend, events, serial, bus, cache, ending, sub, swept, heard, flying>>

\* The drained end calls the handler; what was queued behind it goes on meanwhile.
Conclude ==
    /\ queue # <<>>
    /\ ~ working
    /\ bus
    /\ Head(queue).what # "chunk"
    /\ queue' = Tail(queue)
    /\ heard' = Append(heard, Head(queue).what)
    /\ ending' = TRUE
    /\ UNCHANGED <<backend, events, serial, bus, cache, working, sub, swept, got, acks>>

Concluded ==
    /\ ending
    /\ ending' = FALSE
    /\ bus' = FALSE
    /\ UNCHANGED <<backend, events, serial, cache, queue, working, sub, swept, got,
                   heard, acks>>

Unsubscribe ==
    /\ sub = "listening"
    /\ sub' = "left"
    /\ bus' = FALSE
    /\ cache' = Absent
    /\ UNCHANGED <<backend, events, serial, queue, working, ending, swept, got, heard,
                   acks>>

\* CACHE_TTL_MS has passed.
Age ==
    /\ cache.kept
    /\ ~ cache.old
    /\ cache' = [cache EXCEPT !.old = TRUE]
    /\ UNCHANGED <<backend, events, serial, bus, queue, working, ending, sub, swept,
                   got, heard, acks>>

\* runCleanup, every CLEANUP_INTERVAL_MS.
Cleanup ==
    /\ cache.kept
    /\ ~ bus
    /\ cache.done \/ cache.error \/ cache.old
    /\ cache' = Absent
    /\ swept' = (swept \/ sub = "none")
    /\ UNCHANGED <<backend, events, serial, bus, queue, working, ending, sub, got,
                   heard, acks>>

-----------------------------------------------------------------------------
\* Acknowledgements: batched per animation frame, capped by operation_chunk_ack, and
\* without effect once the runner has dropped its FlowCtrl.

Flush ==
    /\ toAck > 0
    /\ flying' = flying + IF toAck < MaxPermits THEN toAck ELSE MaxPermits
    /\ toAck' = 0
    /\ UNCHANGED <<backend, events, frontend>>

Ack_Repeated ==
    /\ flying > 0
    /\ credit' = IF run = "over" THEN credit ELSE credit + flying
    /\ UNCHANGED <<run, outcome, next, channel, emitter, asked, events, frontend, acks>>
Ack ==
    /\ flying > 0
    /\ flying' = 0
    /\ credit' = IF run = "over" THEN credit ELSE credit + flying
    /\ UNCHANGED <<run, outcome, next, channel, emitter, asked, events, frontend, toAck>>

-----------------------------------------------------------------------------
Runner == Fill \/ TakeCredit \/ Send \/ Finish \/ SendFault \/ Join
Emitter == EmitNext \/ EmitterEnds
Serve == Work \/ Skip \/ Settle \/ Conclude \/ Concluded

Next ==
    \/ Runner \/ Fail \/ EndCancelled \/ Cancel \/ Abort
    \/ Emitter \/ EmitFails
    \/ Dispatch \/ Subscribe \/ Serve \/ Unsubscribe
    \/ Age \/ Cleanup \/ Flush \/ Ack

Spec == Init /\ [][Next]_vars

\* Tasks are polled, a query ends, the webview dispatches its events, and the
\* subscriber's handlers settle.  No acknowledgement has to be sent or to arrive, and
\* nobody has to subscribe.
Fairness == WF_vars(Runner) /\ WF_vars(Emitter) /\ WF_vars(Dispatch) /\ WF_vars(Serve)

FairSpec == Spec /\ Fairness

-----------------------------------------------------------------------------
\* Properties

Numbers == 0..Chunks + 1

\* Every variable of the stream has the shape the code's types give it, and the
\* semaphore never holds more than its window, the chunks acknowledged and a refund.
TypeOK ==
    /\ run \in {"fetching", "credit", "sending", "failing", "draining", "over"}
    /\ outcome \in {"none", "done", "failed", "cut"}
    /\ next \in 1..Chunks + 1
    /\ credit \in 0..Window + Chunks + 1
    /\ channel \in Seq(Numbers) /\ Len(channel) <= Capacity
    /\ emitter \in {"running", "over", "broken"}
    /\ asked \in BOOLEAN
    /\ events \in Seq([type: {"chunk", "done", "error"}, n: Numbers])
    /\ serial \in BOOLEAN
    /\ bus \in BOOLEAN
    /\ cache \in [kept: BOOLEAN, chunks: Seq(Numbers), done: BOOLEAN, error: BOOLEAN,
                  old: BOOLEAN]
    /\ queue \in Seq([what: {"chunk", "done", "error"}, n: Numbers, ack: BOOLEAN])
    /\ working \in BOOLEAN
    /\ ending \in BOOLEAN
    /\ toAck \in 0..Chunks
    /\ flying \in 0..Chunks
    /\ sub \in {"none", "listening", "left"}
    /\ swept \in BOOLEAN
    /\ got \in Seq(Numbers)
    /\ heard \in Seq({"done", "error"})

\* The subscriber is handed every chunk once and in order, without a gap, whether it was
\* cached before it subscribed, queued behind a slow handler or dispatched directly; only
\* a cache swept before it subscribed leaves a gap, at the start.
\* (operationBus.ts, subscribe: "Replay cached chunks IN ORDER".)
InOrder ==
    \A i \in 1..Len(got) :
        /\ i > 1 => got[i] = got[i - 1] + 1
        /\ ~ swept => got[1] = 1

\* A subscriber that is told the stream is done was handed, and has settled, every chunk
\* of it: a failed stream is never presented as complete, nor is a done heard before the
\* rows in front of it.  The exceptions are a cancelled stream, one whose event could not
\* be emitted (the runner says done although the emitter dropped chunks), and a cache swept
\* before the subscriber came.
\* (operationBus.ts, awaitChunkHandlers: "onDone/onError wait for the per-op write queue to
\* drain".)
DoneMeansAll ==
    \A i \in 1..Len(heard) : heard[i] = "done" =>
        \/ outcome = "cut"
        \/ /\ outcome = "done"
           /\ Len(got) = Chunks \/ swept \/ emitter = "broken"

\* The runner always ends, even when no acknowledgement ever arrives: no chunk whose
\* handler never ran, and no subscriber that left, starves it of credit.
StreamEnds == <>(run = "over")

\* A subscriber that stays hears how the stream ended, unless it was cancelled (an aborted
\* runner says nothing), emitting failed, or the end was swept before it subscribed.
SubscriberHears ==
    sub = "listening" ~>
        heard # <<>> \/ sub = "left" \/ asked \/ emitter = "broken" \/ swept
=============================================================================
