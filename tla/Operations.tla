----------------------------- MODULE Operations -----------------------------
(***************************************************************************)
(* The operation registry of the backend: dispatch_operation, the spawned  *)
(* runner task and its drop guards, cancel_operation and connection_remove.*)
(* They share the concurrent maps of AppState without a common lock, so    *)
(* every access to one of the maps is a step of its own.                   *)
(*                                                                         *)
(* A definition Name_Variant is a faulty variant of Name, kept beside it   *)
(* to show which property notices the fault; no specification uses it.     *)
(***************************************************************************)
EXTENDS Naturals, Sequences

CONSTANTS
    Ops,          \* operation ids; each is dispatched at most once
    Conns,        \* runtime connection ids
    Engine,       \* Engine[k]: "postgres" (a cancel is a request to the server),
                  \* "notify" (the other SQL engines: a cancel is a tokio Notify)
                  \* or "redis" (also a Notify)
    Kinds,        \* the kinds of operation the callers execute
    Cancellable,  \* bound: the operations a caller may cancel
    Removable,    \* bound: the connections the user may remove
    NoOp, NoConn

ASSUME OperationsAssumption ==
    /\ Engine \in [Conns -> {"postgres", "notify", "redis"}]
    /\ Kinds \subseteq {"stream", "direct", "redis", "analyze"}
    /\ Cancellable \subseteq Ops
    /\ Removable \subseteq Conns
    /\ NoOp \notin Ops
    /\ NoConn \notin Conns

VARIABLES
    connections,  \* AppState.connections: the live runtime connections
    busy,         \* AppState.sql_busy.busy_by_conn
    permit,       \* AppState.explain_analyze_running, with the permit's owner
    reg,          \* reg[m]: operations present in the AppState map m
    job,          \* job[o]: the connection and kind o was dispatched with
    disp,         \* where dispatch_operation(o) is
    task,         \* where o's spawned task is
    at,           \* next step of o's rollback or unwinding
    aborted,      \* tasks whose abort() was called while they lived
    sent,         \* sent[o]: who made o's running query receive a cancel
    terminal,     \* the terminal event o emitted
    published,    \* operation ids the frontend has learnt
    asked,        \* operations some cancel_operation was called for
    canceller,    \* where the cancel_operation(o) in progress is
    remover       \* where connection_remove(k) is

vars == <<connections, busy, permit, reg, job, disp, task, at, aborted, sent,
          terminal, published, asked, canceller, remover>>

Registries == {"op_to_conn", "active_ops", "running_ops", "cancel_requested", "op_tasks"}

\* The order in which the dispatcher rolls back, in which the locals of a runner
\* and then its OpCleanup drop, in which an analysis drops its Ownership, and in
\* which connection_remove forgets one operation.
RollbackOrder == <<"active_ops", "op_to_conn", "running_ops", "cancel_requested",
                   "op_tasks", "busy">>
UnwindOrder_NoRelease == <<"running_ops", "active_ops", "cancel_requested",
                           "running_ops", "cancel_requested", "active_ops",
                           "op_to_conn", "op_tasks">>
UnwindOrder   == <<"running_ops", "active_ops", "cancel_requested", "busy",
                   "running_ops", "cancel_requested", "active_ops", "op_to_conn",
                   "op_tasks">>
OwnershipOrder == <<"running_ops", "cancel_requested", "active_ops", "op_to_conn",
                    "op_tasks", "permit">>
RemoveOrder   == <<"busy", "handle", "op_tasks", "active_ops", "running_ops",
                   "cancel_requested", "op_to_conn">>

Live(o) == task[o] \in {"ready", "guarded", "registered", "querying"}
Postgres(o) == Engine[job[o].conn] = "postgres"
TornDown(k) == remover[k].pc # "idle"

Put(m, o) == reg' = [reg EXCEPT ![m] = @ \cup {o}]
Drop(m, o) == reg' = [reg EXCEPT ![m] = @ \ {o}]

Without_AnyOwner(slots, o) ==
    [k \in Conns |-> IF k = job[o].conn THEN NoOp ELSE slots[k]]
\* SqlBusyRegistry::release_op: empty the slot o owns, if any.
Without(slots, o) == [k \in Conns |-> IF slots[k] = o THEN NoOp ELSE slots[k]]

\* JoinHandle::abort: only a task that has not ended is affected.
Abort(o) == aborted' = IF o \in reg["op_tasks"] /\ Live(o)
                       THEN aborted \cup {o} ELSE aborted

\* CancelHandle::cancel on behalf of `by`.  PostgreSQL: a request to the server.
\* Notify: notify_waiters stores nothing, so only a runner parked in its select!
\* hears it; one that waits for anything else does not.
Signal(o, by) ==
    \/ /\ o \in reg["running_ops"]
       /\ sent[o] = "none"
       /\ task[o] = "querying" \/ (task[o] = "registered" /\ Postgres(o))
       /\ sent' = [sent EXCEPT ![o] = by]
    \/ /\ \/ o \notin reg["running_ops"]
          \/ sent[o] # "none"
          \/ ~ Postgres(o)
          \/ task[o] \notin {"registered", "querying"}
       /\ UNCHANGED sent

\* One step of a rollback, an unwinding or a removal: leave map m.
Leave(m, o, by) ==
    /\ busy' = IF m = "busy" THEN Without(busy, o) ELSE busy
    /\ permit' = IF m = "permit" THEN Without(permit, o) ELSE permit
    /\ IF m \in Registries THEN Drop(m, o) ELSE UNCHANGED reg
    /\ IF m = "op_tasks" THEN Abort(o) ELSE UNCHANGED aborted
    /\ IF m = "handle" THEN Signal(o, by) ELSE UNCHANGED sent

-----------------------------------------------------------------------------
Init ==
    /\ connections = Conns
    /\ busy = [k \in Conns |-> NoOp]
    /\ permit = [k \in Conns |-> NoOp]
    /\ reg = [m \in Registries |-> {}]
    /\ job = [o \in Ops |-> [conn |-> NoConn, kind |-> "none"]]
    /\ disp = [o \in Ops |-> "idle"]
    /\ task = [o \in Ops |-> "none"]
    /\ at = [o \in Ops |-> 1]
    /\ aborted = {}
    /\ sent = [o \in Ops |-> "none"]
    /\ terminal = [o \in Ops |-> "none"]
    /\ published = {}
    /\ asked = {}
    /\ canceller = [o \in Ops |-> "idle"]
    /\ remover = [k \in Conns |-> [pc |-> "idle", todo |-> {}, cur |-> NoOp, at |-> 1]]

-----------------------------------------------------------------------------
\* dispatch_operation

DispatchFrame == UNCHANGED <<connections, at, aborted, sent, terminal, asked, canceller,
                             remover>>

Serves(k, kind) ==
    CASE kind = "redis"   -> Engine[k] = "redis"
      [] kind = "analyze" -> Engine[k] = "postgres"
      [] OTHER            -> Engine[k] # "redis"

\* connections.get(..).clone(): from here on the dispatcher works on its clone.
Lookup(o) ==
    /\ disp[o] = "idle"
    /\ \E k \in connections, kind \in Kinds :
        /\ Serves(k, kind)
        /\ job' = [job EXCEPT ![o] = [conn |-> k, kind |-> kind]]
    /\ disp' = [disp EXCEPT ![o] = "found"]
    /\ UNCHANGED <<busy, permit, reg, task, published>> /\ DispatchFrame

MapOp(o) ==
    /\ disp[o] = "found"
    /\ Put("op_to_conn", o)
    /\ disp' = [disp EXCEPT ![o] = "mapped"]
    /\ UNCHANGED <<busy, permit, job, task, published>> /\ DispatchFrame

Acquire_Steal(o) ==
    /\ disp[o] = "mapped"
    /\ job[o].kind = "stream"
    /\ busy' = [busy EXCEPT ![job[o].conn] = o]
    /\ disp' = [disp EXCEPT ![o] = "slotted"]
    /\ UNCHANGED <<permit, reg, job, task, published>> /\ DispatchFrame
Acquire_NoHolder(o) ==
    /\ disp[o] = "mapped"
    /\ job[o].kind = "stream"
    /\ published' = published \cup {busy[job[o].conn]}
    /\ disp' = [disp EXCEPT ![o] = "rejected"]
    /\ UNCHANGED <<busy, permit, reg, job, task>> /\ DispatchFrame
\* try_acquire; ERR_SQL_BUSY names the holder to the caller.
Acquire(o) ==
    LET k == job[o].conn IN
    /\ disp[o] = "mapped"
    /\ job[o].kind = "stream"
    /\ \/ /\ busy[k] = NoOp
          /\ busy' = [busy EXCEPT ![k] = o]
          /\ disp' = [disp EXCEPT ![o] = "slotted"]
          /\ UNCHANGED published
       \/ /\ busy[k] # NoOp
          /\ published' = published \cup {busy[k]}
          /\ disp' = [disp EXCEPT ![o] = "rejected"]
          /\ UNCHANGED busy
    /\ UNCHANGED <<permit, reg, job, task>> /\ DispatchFrame

Reject(o) ==
    /\ disp[o] = "rejected"
    /\ Drop("op_to_conn", o)
    /\ disp' = [disp EXCEPT ![o] = "refused"]
    /\ UNCHANGED <<busy, permit, job, task, published>> /\ DispatchFrame

Activate(o) ==
    /\ \/ disp[o] = "slotted"
       \/ disp[o] = "mapped" /\ job[o].kind # "stream"
    /\ Put("active_ops", o)
    /\ disp' = [disp EXCEPT ![o] = "active"]
    /\ UNCHANGED <<busy, permit, job, task, published>> /\ DispatchFrame

\* emit_started: an error rolls back.  Nothing in the frontend listens to op:started,
\* so the event does not publish the id.
EmitStarted(o) ==
    /\ disp[o] = "active"
    /\ \E next \in {"started", "rollback"} : disp' = [disp EXCEPT ![o] = next]
    /\ UNCHANGED <<busy, permit, reg, job, task, published>> /\ DispatchFrame

\* spawn_sql_query reads op_to_conn back, and fails when connection_remove has
\* cleared it; spawn_redis_command writes the maps again; an analysis needs the
\* connection's permit.
Spawn(o) ==
    LET k == job[o].conn
        kind == job[o].kind
        fails == \/ kind \in {"stream", "direct"} /\ o \notin reg["op_to_conn"]
                 \/ kind = "analyze" /\ permit[k] # NoOp
    IN
    /\ disp[o] = "started"
    /\ \/ /\ fails
          /\ disp' = [disp EXCEPT ![o] = "rollback"]
          /\ UNCHANGED <<permit, reg, task>>
       \/ /\ ~ fails
          /\ disp' = [disp EXCEPT ![o] = "spawned"]
          /\ task' = [task EXCEPT ![o] = "ready"]
          /\ permit' = IF kind = "analyze" THEN [permit EXCEPT ![k] = o] ELSE permit
          /\ reg' = IF kind = "redis"
                    THEN [reg EXCEPT !["op_to_conn"] = @ \cup {o},
                                     !["active_ops"] = @ \cup {o}]
                    ELSE reg
    /\ UNCHANGED <<busy, job, published>> /\ DispatchFrame

RegisterTask_MarksActive(o) ==
    /\ disp[o] = "spawned"
    /\ reg' = [reg EXCEPT !["op_tasks"] = @ \cup {o}, !["active_ops"] = @ \cup {o}]
    /\ disp' = [disp EXCEPT ![o] = "returned"]
    /\ published' = published \cup {o}
    /\ UNCHANGED <<busy, permit, job, task>> /\ DispatchFrame
\* op_tasks.insert after tokio::spawn: the task may already be running, or over.
RegisterTask(o) ==
    /\ disp[o] = "spawned"
    /\ Put("op_tasks", o)
    /\ disp' = [disp EXCEPT ![o] = "returned"]
    /\ published' = published \cup {o}
    /\ UNCHANGED <<busy, permit, job, task>> /\ DispatchFrame

Rollback(o) ==
    /\ disp[o] = "rollback"
    /\ Leave(RollbackOrder[at[o]], o, "user")
    /\ IF at[o] = Len(RollbackOrder)
       THEN disp' = [disp EXCEPT ![o] = "refused"] /\ UNCHANGED at
       ELSE at' = [at EXCEPT ![o] = @ + 1] /\ UNCHANGED disp
    /\ UNCHANGED <<connections, job, task, terminal, published, asked, canceller, remover>>

-----------------------------------------------------------------------------
\* The spawned task

TaskFrame == UNCHANGED <<connections, busy, permit, job, disp, at, aborted, published,
                         asked, canceller, remover>>

\* The first poll builds the guards (OpCleanup, ActiveGuard).  An analysis first
\* waits until its handle is registered.
Poll(o) ==
    /\ task[o] = "ready"
    /\ job[o].kind = "analyze" => disp[o] = "returned"
    /\ task' = [task EXCEPT ![o] = "guarded"]
    /\ UNCHANGED <<reg, sent, terminal>>
    /\ TaskFrame

\* A client was obtained (or none is needed yet): publish the cancel handle.
RegisterHandle(o) ==
    /\ task[o] = "guarded"
    /\ Put("running_ops", o)
    /\ task' = [task EXCEPT ![o] = "registered"]
    /\ UNCHANGED <<sent, terminal>>
    /\ TaskFrame

CheckRequest_Skip(o) ==
    /\ task[o] = "registered"
    /\ task' = [task EXCEPT ![o] = "querying"]
    /\ UNCHANGED <<reg, sent, terminal>>
    /\ TaskFrame
CheckRequest_Take(o) ==
    /\ task[o] = "registered"
    /\ sent' = IF o \in reg["cancel_requested"] THEN [sent EXCEPT ![o] = "user"] ELSE sent
    /\ Drop("cancel_requested", o)
    /\ task' = [task EXCEPT ![o] = "querying"]
    /\ UNCHANGED terminal
    /\ TaskFrame
\* A cancel asked for before the handle existed.  PostgreSQL cancels and leaves
\* the request recorded; the other engines take it and notify nobody.
CheckRequest(o) ==
    /\ task[o] = "registered"
    /\ IF o \notin reg["cancel_requested"] THEN UNCHANGED <<reg, sent>>
       ELSE IF Postgres(o)
            THEN /\ sent' = [sent EXCEPT ![o] = "user"]
                 /\ UNCHANGED reg
            ELSE Drop("cancel_requested", o) /\ UNCHANGED sent
    /\ task' = [task EXCEPT ![o] = "querying"]
    /\ UNCHANGED terminal
    /\ TaskFrame

\* The runner reports how it ended and its locals start to drop.
Report(o, event) ==
    /\ terminal' = [terminal EXCEPT ![o] = event]
    /\ task' = [task EXCEPT ![o] = "unwinding"]
    /\ UNCHANGED <<reg, sent>>
    /\ TaskFrame

Complete(o) == task[o] = "querying" /\ Report(o, "done")

\* Any failure but an interruption.
Fail(o) == task[o] \in {"guarded", "registered", "querying"} /\ Report(o, "error")

\* PostgreSQL answers 57014: a cancel that took effect, or statement_timeout.
\* While the statement runs (the raw DDL batch, the validation's EXPLAIN, query_raw
\* and its rows) the runner asks cancelled_by_user and ends quietly when this
\* application did it; an analysis reports the category as an error.  While the
\* transaction is set up around the statement (BEGIN, SET LOCAL, PREPARE) or is
\* committed the runner asks nothing and emits an error.
Interrupt(o) ==
    /\ task[o] = "querying"
    /\ Postgres(o)
    /\ \/ Report(o, IF o \in reg["cancel_requested"] /\ job[o].kind # "analyze"
                    THEN "cancelled" ELSE "interrupted")
       \/ job[o].kind # "analyze" /\ Report(o, "unclassified")

\* The runner's select! hears the notification.
Notified(o) ==
    /\ task[o] = "querying"
    /\ ~ Postgres(o)
    /\ sent[o] # "none"
    /\ Report(o, "cancelled")

DropTask_NoOwnership(o) ==
    /\ o \in aborted
    /\ Live(o)
    /\ task' = [task EXCEPT ![o] = IF @ = "ready" THEN "over" ELSE "unwinding"]
    /\ UNCHANGED <<reg, sent, terminal>>
    /\ TaskFrame
\* The runtime drops an aborted future at an await point.  Before its first poll
\* an SQL or Redis future owns no guard yet; an analysis owns its Ownership.
DropTask(o) ==
    /\ o \in aborted
    /\ Live(o)
    /\ task' = [task EXCEPT ![o] = IF @ = "ready" /\ job[o].kind # "analyze"
                                   THEN "over" ELSE "unwinding"]
    /\ UNCHANGED <<reg, sent, terminal>>
    /\ TaskFrame

DropOrder(o) == IF job[o].kind = "analyze" THEN OwnershipOrder ELSE UnwindOrder

Unwind(o) ==
    /\ task[o] = "unwinding"
    /\ Leave(DropOrder(o)[at[o]], o, "user")
    /\ IF at[o] = Len(DropOrder(o))
       THEN task' = [task EXCEPT ![o] = "over"] /\ UNCHANGED at
       ELSE at' = [at EXCEPT ![o] = @ + 1] /\ UNCHANGED task
    /\ UNCHANGED <<connections, job, disp, terminal, published, asked, canceller, remover>>

-----------------------------------------------------------------------------
\* cancel_operation

CancelFrame == UNCHANGED <<connections, permit, job, disp, task, at, terminal,
                           published, remover>>

Known(o) == \E m \in Registries \ {"cancel_requested"} : o \in reg[m]

CancelRelease(o) ==
    /\ o \in published \cap Cancellable
    /\ canceller[o] = "idle"
    /\ busy' = Without(busy, o)
    /\ asked' = asked \cup {o}
    /\ canceller' = [canceller EXCEPT ![o] = "released"]
    /\ UNCHANGED <<reg, aborted, sent>>
    /\ CancelFrame

CancelKnown(o) ==
    /\ canceller[o] = "released"
    /\ canceller' = [canceller EXCEPT ![o] = IF Known(o) THEN "known" ELSE "idle"]
    /\ UNCHANGED <<busy, reg, aborted, sent, asked>>
    /\ CancelFrame

CancelMark(o) ==
    /\ canceller[o] = "known"
    /\ Put("cancel_requested", o)
    /\ canceller' = [canceller EXCEPT ![o] = "marked"]
    /\ UNCHANGED <<busy, aborted, sent, asked>>
    /\ CancelFrame

CancelSignal(o) ==
    /\ canceller[o] = "marked"
    /\ Signal(o, "user")
    /\ canceller' = [canceller EXCEPT ![o] = "signalled"]
    /\ UNCHANGED <<busy, reg, aborted, asked>>
    /\ CancelFrame

CancelAbort(o) ==
    /\ canceller[o] = "signalled"
    /\ Abort(o)
    /\ Drop("op_tasks", o)
    /\ canceller' = [canceller EXCEPT ![o] = "idle"]
    /\ UNCHANGED <<busy, sent, asked>>
    /\ CancelFrame

-----------------------------------------------------------------------------
\* connection_remove

RemoveFrame == UNCHANGED <<job, disp, task, at, terminal, published, asked, canceller>>

RemoveScan(k) ==
    /\ k \in connections \cap Removable
    /\ remover[k].pc = "idle"
    /\ remover' = [remover EXCEPT ![k].pc = "sweep",
                       ![k].todo = {o \in reg["op_to_conn"] : job[o].conn = k}]
    /\ UNCHANGED <<connections, busy, permit, reg, aborted, sent>>
    /\ RemoveFrame

RemoveTake(k) ==
    /\ remover[k].pc = "sweep"
    /\ \E o \in remover[k].todo :
        remover' = [remover EXCEPT ![k].pc = "forget", ![k].cur = o,
                                   ![k].todo = @ \ {o}, ![k].at = 1]
    /\ UNCHANGED <<connections, busy, permit, reg, aborted, sent>>
    /\ RemoveFrame

RemoveForget(k) ==
    /\ remover[k].pc = "forget"
    /\ Leave(RemoveOrder[remover[k].at], remover[k].cur, "teardown")
    /\ remover' = IF remover[k].at = Len(RemoveOrder)
                  THEN [remover EXCEPT ![k].pc = "sweep"]
                  ELSE [remover EXCEPT ![k].at = @ + 1]
    /\ UNCHANGED connections
    /\ RemoveFrame

RemoveForce_Keep(k) ==
    /\ remover[k].pc = "sweep"
    /\ remover[k].todo = {}
    /\ remover' = [remover EXCEPT ![k].pc = "forced"]
    /\ UNCHANGED <<connections, busy, permit, reg, aborted, sent>>
    /\ RemoveFrame
\* sql_busy.force_release_conn
RemoveForce(k) ==
    /\ remover[k].pc = "sweep"
    /\ remover[k].todo = {}
    /\ busy' = [busy EXCEPT ![k] = NoOp]
    /\ remover' = [remover EXCEPT ![k].pc = "forced"]
    /\ UNCHANGED <<connections, permit, reg, aborted, sent>>
    /\ RemoveFrame

RemoveConn(k) ==
    /\ remover[k].pc = "forced"
    /\ connections' = connections \ {k}
    /\ remover' = [remover EXCEPT ![k].pc = "gone"]
    /\ UNCHANGED <<busy, permit, reg, aborted, sent>>
    /\ RemoveFrame

-----------------------------------------------------------------------------
Dispatch(o) == \/ MapOp(o) \/ Acquire(o) \/ Reject(o) \/ Activate(o) \/ EmitStarted(o)
               \/ Spawn(o) \/ RegisterTask(o) \/ Rollback(o)
Run(o) == \/ Poll(o) \/ RegisterHandle(o) \/ CheckRequest(o) \/ Complete(o) \/ Fail(o)
          \/ Interrupt(o) \/ Notified(o) \/ DropTask(o) \/ Unwind(o)
Cancel(o) == CancelKnown(o) \/ CancelMark(o) \/ CancelSignal(o) \/ CancelAbort(o)
Remove(k) == RemoveTake(k) \/ RemoveForget(k) \/ RemoveForce(k) \/ RemoveConn(k)

Next == \/ \E o \in Ops : Lookup(o) \/ Dispatch(o) \/ Run(o) \/ CancelRelease(o) \/ Cancel(o)
        \/ \E k \in Conns : RemoveScan(k) \/ Remove(k)

Spec == Init /\ [][Next]_vars

\* A command that has begun runs on (the runtime polls ready futures), and a
\* query ends by itself (statement_timeout).  Nobody has to dispatch an
\* operation, cancel it or remove a connection.
Fairness == /\ \A o \in Ops : WF_vars(Dispatch(o)) /\ WF_vars(Run(o)) /\ WF_vars(Cancel(o))
            /\ \A k \in Conns : WF_vars(Remove(k))

FairSpec == Spec /\ Fairness

-----------------------------------------------------------------------------
\* Properties

TaskStates == {"none", "ready", "guarded", "registered", "querying", "unwinding", "over"}
DispatchStates == {"idle", "found", "mapped", "slotted", "rejected", "active", "started",
                   "spawned", "returned", "rollback", "refused"}

\* Every variable of the registry has the shape the code's types give it.
TypeOK ==
    /\ connections \subseteq Conns
    /\ busy \in [Conns -> Ops \cup {NoOp}]
    /\ permit \in [Conns -> Ops \cup {NoOp}]
    /\ reg \in [Registries -> SUBSET Ops]
    /\ job \in [Ops -> [conn: Conns \cup {NoConn}, kind: Kinds \cup {"none"}]]
    /\ disp \in [Ops -> DispatchStates]
    /\ task \in [Ops -> TaskStates]
    /\ at \in [Ops -> 1..Len(UnwindOrder)]
    /\ aborted \subseteq Ops
    /\ sent \in [Ops -> {"none", "user", "teardown"}]
    /\ terminal \in [Ops -> {"none", "done", "error", "cancelled", "interrupted",
                             "unclassified"}]
    /\ published \subseteq Ops
    /\ asked \subseteq Ops
    /\ canceller \in [Ops -> {"idle", "released", "known", "marked", "signalled"}]
    /\ remover \in [Conns -> [pc: {"idle", "sweep", "forget", "forced", "gone"},
                              todo: SUBSET Ops, cur: Ops \cup {NoOp},
                              at: 1..Len(RemoveOrder)]]

\* o is a stream past try_acquire whose own code has not yet released the slot.
Streaming(o) ==
    /\ job[o].kind = "stream"
    /\ \/ disp[o] \in {"slotted", "active", "started", "rollback"}
       \/ disp[o] \in {"spawned", "returned"} /\ task[o] # "over"
    /\ task[o] = "unwinding" => at[o] <= 4

\* A slot is never orphaned: whoever owns it still has the release ahead of it, in
\* the dispatcher's rollback or in the guards of its task, unless a removal of the
\* connection is about to force the slot open.  (dispatcher.rs, op_cleanup.rs: an
\* orphaned slot would answer ERR_SQL_BUSY to every later stream of the connection.)
SlotNotOrphaned ==
    \A k \in Conns : \A o \in Ops :
        busy[k] = o => /\ job[o].conn = k
                       /\ Streaming(o) \/ remover[k].pc \in {"sweep", "forget"}

\* A stream nobody cancelled keeps its connection's slot until it releases it
\* itself: no late cleanup of another operation, no cancel of another operation and
\* no second try_acquire takes it away; so two such streams never share a
\* connection.  (ctx.rs, release_if_owner and release_op act by owner.)
UncancelledStreamOwnsSlot ==
    \A o \in Ops :
        Streaming(o) /\ o \notin asked /\ ~ TornDown(job[o].conn)
            => busy[job[o].conn] = o

\* A cancel is not lost between the dispatcher, the registration of the handle and
\* the runner: once cancel_operation returned, the task of a PostgreSQL operation is
\* aborted, or its statement was sent a cancel, or the runner will still find the
\* request.  (dispatcher.rs: "Always mark cancel request to cover races".)
CancelReaches(o) ==
    o \in asked /\ canceller[o] = "idle" /\ ~ TornDown(job[o].conn) =>
        CASE task[o] \in {"ready", "guarded", "registered"} ->
                 o \in aborted \/ o \in reg["cancel_requested"] \/ sent[o] # "none"
          [] task[o] = "querying" -> o \in aborted \/ sent[o] # "none"
          [] OTHER -> TRUE

PostgresCancelNotLost ==
    \A o \in Ops : job[o].conn # NoConn /\ Postgres(o) => CancelReaches(o)

\* Where the runner asks whose interruption a 57014 is, the user's own cancel is never
\* taken for a failure: the request is recorded before the server is asked and stays
\* until the runner ends, so a statement that the user's cancel cut is reported as
\* cancelled.  (postgres/operation.rs, cancelled_by_user.  An interruption while the
\* transaction is set up or committed is not asked about: it is reported as an error,
\* though the comment beside the early cancel says that it would not.)
UserCancelIsQuiet ==
    \A o \in Ops :
        job[o].kind # "analyze" /\ terminal[o] = "interrupted"
            /\ ~ TornDown(job[o].conn) => sent[o] # "user"

\* The permit for one analysis per connection is held exactly while its task lives,
\* however the task ends, also when it is aborted before its first poll.
\* (explain_analyze.rs, Ownership.)
PermitFollowsTask ==
    \A o \in Ops, k \in Conns :
        permit[k] = o <=> /\ job[o] = [conn |-> k, kind |-> "analyze"]
                          /\ Live(o) \/ task[o] = "unwinding"

\* An operation that ended without cancel or removal leaves no mark in the maps the
\* commands scan, whatever the order of the dispatcher's and the task's steps; its
\* JoinHandle is the exception when the task ended before the handle was stored.
UndisturbedOpForgotten ==
    \A o \in Ops :
        (task[o] = "over" \/ disp[o] = "refused") /\ o \notin asked
            /\ ~ TornDown(job[o].conn)
            => \A m \in Registries \ {"op_tasks"} : o \notin reg[m]

\* An analysis never finishes before its registration, which would leave a stale handle.
\* (explain_analyze.rs, spawn.)
AnalysisLeavesNoHandle ==
    \A o \in Ops :
        job[o].kind = "analyze" /\ task[o] = "over" => o \notin reg["op_tasks"]

\* However an analysis ends, aborted before its first poll too, its permit ends with it
\* and no handle of it stays behind.
AnalysisCleansUp == PermitFollowsTask /\ AnalysisLeavesNoHandle

Registry == INSTANCE SqlSlot WITH
    slot <- busy,
    used <- {o \in Ops : /\ job[o].kind = "stream"
                         /\ disp[o] \notin {"idle", "found", "mapped", "rejected"}
                         /\ ~ (disp[o] = "refused" /\ at[o] = 1)}

\* The busy map implements the abstract slot: taken only while free, at most once per
\* operation, never handed over directly.
ImplementsSlot == Registry!Spec

\* A slot that is taken is eventually free again, so a later stream of the
\* connection can always get in.
SlotEventuallyFree ==
    \A k \in Conns, o \in Ops : busy[k] = o ~> busy[k] # o
=============================================================================
