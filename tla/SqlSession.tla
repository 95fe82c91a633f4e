----------------------------- MODULE SqlSession -----------------------------
(***************************************************************************)
(* The PostgreSQL sessions held across calls (SqlSessionRegistry): begin,  *)
(* execute, end, the forced close, its three callers (a statement past its *)
(* limit, the idle watch, the removal of the connection), and the server   *)
(* at the other end of each session's own socket.                          *)
(*                                                                         *)
(* An actor is a call of the frontend, a sql_session_begin, a              *)
(* connection_remove or an idle watch; each one is where pc says it is.    *)
(* Timeouts and a lost socket may strike at any moment an actor waits.     *)
(*                                                                         *)
(* A definition Name_Variant is a faulty variant of Name, kept beside it   *)
(* to show which property notices the fault; no specification uses it.     *)
(***************************************************************************)
EXTENDS Naturals, Sequences

CONSTANTS
    Sessions,     \* session ids; sql_session_begin for s is the actor s
    Conns,        \* runtime connections; connection_remove of k is the actor k
    Calls,        \* bound: the execute and end calls the frontend may make
    Keepers,      \* the watches and reclaim_idle that close idle sessions
    Home,         \* Home[s]: the connection session s is opened for
    Removable,    \* bound: the connections the user may remove
    NoSession, Nobody

Actors == Sessions \cup Conns \cup Calls \cup Keepers

ASSUME SqlSessionAssumption ==
    /\ Home \in [Sessions -> Conns]
    /\ Removable \subseteq Conns
    /\ NoSession \notin Sessions
    /\ Nobody \notin Actors
    /\ Sessions \cap Conns = {}
    /\ Sessions \cap Calls = {}
    /\ Sessions \cap Keepers = {}
    /\ Conns \cap Calls = {}
    /\ Conns \cap Keepers = {}
    /\ Calls \cap Keepers = {}

VARIABLES
    conns,     \* AppState.connections
    listed,    \* SqlSessionRegistry.sessions
    state,     \* PgSqlSession.state
    taken,     \* sessions whose client was taken out of the mutex (None)
    lock,      \* who holds the client mutex
    pc, on, op,\* where an actor is, its session, what it sends there
    result,    \* what an actor's call returns
    todo,      \* the sessions end_for_connection has yet to close
    up,        \* sessions whose socket is open
    wire,      \* what the driver wrote and the server has not yet processed
    reply,     \* the server's answer to an actor's message, until it is read
    txn        \* the session's transaction on the server

registry == <<conns, listed, state, taken, lock, todo>>
actors   == <<pc, on, op, result>>
server   == <<up, wire, reply, txn>>
vars     == <<conns, listed, state, taken, lock, pc, on, op, result, todo, up, wire,
              reply, txn>>

Messages == {"statement", "commit", "rollback"}

Goto(a, p) == pc' = [pc EXCEPT ![a] = p]

\* sql_session_begin ignores what the end() it runs itself returns.
Returns(a, r) == result' = [result EXCEPT ![a] = IF a \in Sessions THEN "gone" ELSE r]

\* What is written to a closed socket reaches nobody.
Send(a, s) == wire' = IF s \in up
                      THEN [wire EXCEPT ![s] = Append(@, [by |-> a, msg |-> op[a]])]
                      ELSE wire
Unlock(s) == lock' = [lock EXCEPT ![s] = Nobody]

-----------------------------------------------------------------------------
Init ==
    /\ conns = Conns
    /\ listed = {}
    /\ state = [s \in Sessions |-> "open"]
    /\ taken = {}
    /\ lock = [s \in Sessions |-> Nobody]
    /\ pc = [a \in Actors |-> "idle"]
    /\ on = [a \in Actors |-> IF a \in Sessions THEN a ELSE NoSession]
    /\ op = [a \in Actors |-> IF a \in Sessions THEN "rollback" ELSE "none"]
    /\ result = [a \in Actors |-> "none"]
    /\ todo = [k \in Conns |-> {}]
    /\ up = {}
    /\ wire = [s \in Sessions |-> <<>>]
    /\ reply = [a \in Actors |-> "none"]
    /\ txn = [s \in Sessions |-> "none"]

-----------------------------------------------------------------------------
\* sql_session_begin

Lookup(s) ==
    /\ pc[s] = "idle"
    /\ Home[s] \in conns
    /\ Goto(s, "connecting")
    /\ UNCHANGED <<on, op, result, registry, server>>

\* Connect, BEGIN, insert and watch; or the connect or the setup fails.
Open(s) ==
    /\ pc[s] = "connecting"
    /\ \/ /\ Goto(s, "opened")
          /\ listed' = listed \cup {s}
          /\ up' = up \cup {s}
          /\ txn' = [txn EXCEPT ![s] = "active"]
          /\ UNCHANGED result
       \/ /\ Goto(s, "over")
          /\ Returns(s, "error")
          /\ UNCHANGED <<listed, up, txn>>
    /\ UNCHANGED <<conns, state, taken, lock, todo, on, op, wire, reply>>

Recheck_Never(s) ==
    /\ pc[s] = "opened"
    /\ Goto(s, "over")
    /\ result' = [result EXCEPT ![s] = "ok"]
    /\ UNCHANGED <<on, op, registry, server>>
\* The connection may have been removed meanwhile: end the session it cannot return.
Recheck(s) ==
    /\ pc[s] = "opened"
    /\ \/ /\ Home[s] \in conns
          /\ Goto(s, "over")
          /\ result' = [result EXCEPT ![s] = "ok"]
       \/ /\ Home[s] \notin conns
          /\ Goto(s, "ending")
          /\ UNCHANGED result
    /\ UNCHANGED <<on, op, registry, server>>

-----------------------------------------------------------------------------
\* sql_session_execute and sql_session_end, as the frontend calls them with an id
\* that begin returned.

Call(a, s, msg) ==
    /\ pc[a] = "idle"
    /\ result[s] = "ok"
    /\ on' = [on EXCEPT ![a] = s]
    /\ op' = [op EXCEPT ![a] = msg]
    /\ \/ /\ s \in listed
          /\ Goto(a, IF msg = "statement" THEN "queued" ELSE "ending")
          /\ UNCHANGED result
       \/ /\ s \notin listed
          /\ Goto(a, "over")
          /\ Returns(a, "not_found")
    /\ UNCHANGED <<registry, server>>

Execute_Unlocked(a) ==
    LET s == on[a] IN
    /\ pc[a] = "queued"
    /\ lock[s] = Nobody
    /\ \/ /\ state[s] = "open" /\ s \notin taken
          /\ Send(a, s)
          /\ Goto(a, "sent")
          /\ UNCHANGED result
       \/ /\ state[s] # "open" \/ s \in taken
          /\ Goto(a, "over")
          /\ Returns(a, "ended")
          /\ UNCHANGED wire
    /\ UNCHANGED <<conns, listed, state, taken, lock, todo, on, op, up, reply, txn>>
\* execute(): past the lock, the session may have begun to end.  The check and the
\* send have no await between them and are one step.
Execute(a) ==
    LET s == on[a] IN
    /\ pc[a] = "queued"
    /\ lock[s] = Nobody
    /\ \/ /\ state[s] = "open" /\ s \notin taken
          /\ lock' = [lock EXCEPT ![s] = a]
          /\ Send(a, s)
          /\ Goto(a, "sent")
          /\ UNCHANGED result
       \/ /\ state[s] # "open" \/ s \in taken
          /\ Goto(a, "over")
          /\ Returns(a, "ended")
          /\ UNCHANGED <<lock, wire>>
    /\ UNCHANGED <<conns, listed, state, taken, todo, on, op, up, reply, txn>>

\* The statement's answer, an error when the socket closed, or the limit: the lock is
\* released before close() runs.
Executed(a) ==
    /\ pc[a] = "sent" /\ op[a] = "statement"
    /\ \/ /\ reply[a] # "none"
          /\ Goto(a, "over")
          /\ Returns(a, reply[a])
       \/ /\ on[a] \notin up
          /\ Goto(a, "over")
          /\ Returns(a, "error")
       \/ /\ Goto(a, "closing")
          /\ Returns(a, "timeout")
    /\ Unlock(on[a])
    /\ UNCHANGED <<conns, listed, state, taken, todo, on, op, server>>

\* end(): OPEN -> ENDING; whoever is late leaves the session alone.
BeginEnding(a) ==
    /\ pc[a] = "ending"
    /\ \/ /\ state[on[a]] = "open"
          /\ state' = [state EXCEPT ![on[a]] = "ending"]
          /\ Goto(a, "waiting")
          /\ UNCHANGED result
       \/ /\ state[on[a]] # "open"
          /\ Goto(a, "over")
          /\ Returns(a, "ended")
          /\ UNCHANGED state
    /\ UNCHANGED <<conns, listed, taken, lock, todo, on, op, server>>

EndLock(a) ==
    /\ pc[a] = "waiting"
    /\ lock[on[a]] = Nobody
    /\ lock' = [lock EXCEPT ![on[a]] = a]
    /\ Goto(a, "locked")
    /\ UNCHANGED <<conns, listed, state, taken, todo, on, op, result, server>>

\* A statement still running past the limit: close instead.
EndTimeout(a) ==
    /\ pc[a] = "waiting"
    /\ lock[on[a]] # Nobody
    /\ Goto(a, "closing")
    /\ Returns(a, "end_timeout")
    /\ UNCHANGED <<on, op, registry, server>>

\* ENDING -> COMMITTING decides who owns the outcome; the winner takes the client and
\* sends.
Claim(a) ==
    LET s == on[a] IN
    /\ pc[a] = "locked"
    /\ \/ /\ state[s] = "ending" /\ s \notin taken
          /\ state' = [state EXCEPT ![s] = "committing"]
          /\ taken' = taken \cup {s}
          /\ Send(a, s)
          /\ Goto(a, "sent")
          /\ UNCHANGED <<result, lock>>
       \/ /\ state[s] = "ending" /\ s \in taken
          /\ state' = [state EXCEPT ![s] = "committing"]
          /\ Goto(a, "forgetting")
          /\ Returns(a, "ok")
          /\ Unlock(s)
          /\ UNCHANGED <<taken, wire>>
       \/ /\ state[s] # "ending"
          /\ Goto(a, "closing")
          /\ Returns(a, "ended")
          /\ Unlock(s)
          /\ UNCHANGED <<state, taken, wire>>
    /\ UNCHANGED <<conns, listed, todo, on, op, up, reply, txn>>

NoAnswer_Plain(a) == "error"
\* No answer to a COMMIT says nothing about what the server did.
NoAnswer(a) == IF op[a] = "commit" THEN "unknown" ELSE "rollback_failed"

Ended_NoLimit(a) ==
    /\ pc[a] = "sent" /\ op[a] # "statement"
    /\ \/ /\ reply[a] = "ok"
          /\ Goto(a, "forgetting")
          /\ Returns(a, "ok")
       \/ /\ reply[a] = "error"
          /\ Goto(a, "closing")
          /\ Returns(a, "error")
    /\ up' = up \ {on[a]}
    /\ Unlock(on[a])
    /\ UNCHANGED <<conns, listed, state, taken, todo, on, op, wire, reply, txn>>
\* The answer to COMMIT or ROLLBACK, a closed socket, or no answer in time.  The
\* client and its driver are dropped, and with them the socket and the lock.
Ended(a) ==
    /\ pc[a] = "sent" /\ op[a] # "statement"
    /\ \/ /\ reply[a] = "ok"
          /\ Goto(a, "forgetting")
          /\ Returns(a, "ok")
       \/ /\ reply[a] = "error"
          /\ Goto(a, "closing")
          /\ Returns(a, "error")
       \/ /\ Goto(a, "closing")
          /\ Returns(a, NoAnswer(a))
    /\ up' = up \ {on[a]}
    /\ Unlock(on[a])
    /\ UNCHANGED <<conns, listed, state, taken, todo, on, op, wire, reply, txn>>

Forget(a) ==
    /\ pc[a] = "forgetting"
    /\ listed' = listed \ {on[a]}
    /\ Goto(a, "over")
    /\ UNCHANGED <<conns, state, taken, lock, todo, on, op, result, server>>

-----------------------------------------------------------------------------
\* close(): called by whoever's pc is "closing", for the session it is on.

AfterClose(a) == CASE a \in Conns   -> "sweeping"
                   [] a \in Keepers -> "idle"
                   [] OTHER         -> "over"

CloseOwn_Always(a) ==
    /\ pc[a] = "closing"
    /\ IF on[a] \in listed
       THEN Goto(a, "aborting") /\ state' = [state EXCEPT ![on[a]] = "closed"]
       ELSE Goto(a, AfterClose(a)) /\ UNCHANGED state
    /\ UNCHANGED <<conns, listed, taken, lock, todo, on, op, result, server>>
CloseOwn_Never(a) ==
    /\ pc[a] = "closing"
    /\ Goto(a, IF on[a] \in listed THEN "aborting" ELSE AfterClose(a))
    /\ UNCHANGED <<on, op, result, registry, server>>
\* Own the session unless end() already does; one no longer listed is left alone.
CloseOwn(a) ==
    LET s == on[a] IN
    /\ pc[a] = "closing"
    /\ \/ /\ s \in listed
          /\ state' = [state EXCEPT ![s] = IF @ = "committing" THEN @ ELSE "closed"]
          /\ Goto(a, "aborting")
       \/ /\ s \notin listed
          /\ Goto(a, AfterClose(a))
          /\ UNCHANGED state
    /\ UNCHANGED <<conns, listed, taken, lock, todo, on, op, result, server>>

CloseAbort_Skip(a) ==
    /\ pc[a] = "aborting"
    /\ Goto(a, "unlisting")
    /\ UNCHANGED <<on, op, result, registry, server>>
CloseAbort(a) ==
    /\ pc[a] = "aborting"
    /\ up' = up \ {on[a]}
    /\ Goto(a, "unlisting")
    /\ UNCHANGED <<on, op, result, registry, wire, reply, txn>>

CloseUnlist_Keep(a) ==
    /\ pc[a] = "unlisting"
    /\ Goto(a, "taking")
    /\ UNCHANGED <<on, op, result, registry, server>>
CloseUnlist(a) ==
    /\ pc[a] = "unlisting"
    /\ listed' = listed \ {on[a]}
    /\ Goto(a, "taking")
    /\ UNCHANGED <<conns, state, taken, lock, todo, on, op, result, server>>

\* Drop the client under its lock (which closes the socket too), or give up waiting.
CloseTake(a) ==
    /\ pc[a] = "taking"
    /\ \/ /\ lock[on[a]] = Nobody
          /\ taken' = taken \cup {on[a]}
          /\ up' = up \ {on[a]}
       \/ /\ lock[on[a]] # Nobody
          /\ UNCHANGED <<taken, up>>
    /\ Goto(a, AfterClose(a))
    /\ UNCHANGED <<conns, listed, state, lock, todo, on, op, result, wire, reply, txn>>

\* The watch, or another begin's reclaim_idle, found s unused past its limit (15 min at
\* least, so its begin has long returned).  Every execute touches the session when it
\* starts and when it ends; end() does not.
Reclaim(a, s) ==
    /\ pc[a] = "idle"
    /\ s \in listed
    /\ result[s] = "ok"
    /\ \A c \in Calls : on[c] = s /\ op[c] = "statement" => pc[c] \notin {"queued", "sent"}
    /\ on' = [on EXCEPT ![a] = s]
    /\ Goto(a, "closing")
    /\ UNCHANGED <<op, result, registry, server>>

-----------------------------------------------------------------------------
\* connection_remove: the connection goes first, then its sessions are closed.

RemoveConn(k) ==
    /\ pc[k] = "idle"
    /\ k \in Removable
    /\ conns' = conns \ {k}
    /\ Goto(k, "collecting")
    /\ UNCHANGED <<listed, state, taken, lock, todo, on, op, result, server>>

Collect_ConnectionIds(k) ==
    /\ pc[k] = "collecting"
    /\ todo' = [todo EXCEPT ![k] = {Home[s] : s \in {x \in listed : Home[x] = k}}]
    /\ Goto(k, "sweeping")
    /\ UNCHANGED <<conns, listed, state, taken, lock, on, op, result, server>>
Collect(k) ==
    /\ pc[k] = "collecting"
    /\ todo' = [todo EXCEPT ![k] = {s \in listed : Home[s] = k}]
    /\ Goto(k, "sweeping")
    /\ UNCHANGED <<conns, listed, state, taken, lock, on, op, result, server>>

Sweep(k) ==
    /\ pc[k] = "sweeping"
    /\ \/ \E s \in todo[k] :
            /\ todo' = [todo EXCEPT ![k] = @ \ {s}]
            /\ on' = [on EXCEPT ![k] = s]
            /\ Goto(k, "closing")
       \/ /\ todo[k] = {}
          /\ Goto(k, "over")
          /\ UNCHANGED <<todo, on>>
    /\ UNCHANGED <<conns, listed, state, taken, lock, op, result, server>>

-----------------------------------------------------------------------------
\* The server and the network.

\* How the server may answer a message in the session's transaction, and what that
\* leaves of the transaction.  A COMMIT of a failed transaction answers without an
\* error and rolls back; a COMMIT itself may fail (a deferred constraint, a cancel);
\* ROLLBACK TO SAVEPOINT repairs a failed transaction.
Outcomes(msg, t) ==
    CASE msg = "rollback" -> {<<"ok", "rolledback">>}
      [] msg = "commit" /\ t = "active" -> {<<"ok", "committed">>, <<"error", "rolledback">>}
      [] msg = "commit" /\ t # "active" -> {<<"ok", "rolledback">>}
      [] msg = "statement" /\ t = "active" -> {<<"ok", "active">>, <<"error", "failed">>}
      [] OTHER -> {<<"error", "failed">>, <<"ok", "active">>}

\* The server reads what arrived in order, also after the client closed the socket.
Serve(s) ==
    /\ wire[s] # <<>>
    /\ txn[s] \in {"active", "failed"}
    /\ \E outcome \in Outcomes(Head(wire[s]).msg, txn[s]) :
        /\ reply' = [reply EXCEPT ![Head(wire[s]).by] = outcome[1]]
        /\ txn' = [txn EXCEPT ![s] = outcome[2]]
    /\ wire' = [wire EXCEPT ![s] = Tail(@)]
    /\ UNCHANGED <<up, registry, actors>>

\* The server notices the closed socket: what it has not read is gone, and what is
\* still open is rolled back.
HangUp(s) ==
    /\ s \notin up
    /\ txn[s] \in {"active", "failed"}
    /\ wire' = [wire EXCEPT ![s] = <<>>]
    /\ txn' = [txn EXCEPT ![s] = "rolledback"]
    /\ UNCHANGED <<up, reply, registry, actors>>

\* The network, the server or its idle limit ends the connection.
LoseSocket(s) ==
    /\ s \in up
    /\ up' = up \ {s}
    /\ UNCHANGED <<wire, reply, txn, registry, actors>>

-----------------------------------------------------------------------------
Begin(s) == Open(s) \/ Recheck(s)
End(a) == BeginEnding(a) \/ EndLock(a) \/ EndTimeout(a) \/ Claim(a) \/ Ended(a) \/ Forget(a)
Close(a) == CloseOwn(a) \/ CloseAbort(a) \/ CloseUnlist(a) \/ CloseTake(a)
Remove(k) == Collect(k) \/ Sweep(k)
Watch(s) == \E a \in Keepers : Reclaim(a, s)

Next ==
    \/ \E s \in Sessions : Lookup(s) \/ Begin(s) \/ Watch(s)
    \/ \E s \in Sessions : Serve(s) \/ HangUp(s) \/ LoseSocket(s)
    \/ \E a \in Calls, s \in Sessions, msg \in Messages : Call(a, s, msg)
    \/ \E a \in Calls : Execute(a) \/ Executed(a)
    \/ \E a \in Calls \cup Sessions : End(a)
    \/ \E a \in Actors : Close(a)
    \/ \E k \in Conns : RemoveConn(k) \/ Remove(k)

Spec == Init /\ [][Next]_vars

\* What has begun runs on; a server that lost its client notices (TCP, and the cancel
\* request close() sends); the watch of a session never stops before the session.
\* Nobody has to call, nothing has to be answered.
Fairness ==
    /\ \A s \in Sessions : WF_vars(Begin(s)) /\ WF_vars(HangUp(s)) /\ WF_vars(Watch(s))
    /\ \A a \in Calls : WF_vars(Execute(a)) /\ WF_vars(Executed(a))
    /\ \A a \in Calls \cup Sessions : WF_vars(End(a))
    /\ \A a \in Actors : WF_vars(Close(a))
    /\ \A k \in Conns : WF_vars(Remove(k))

FairSpec == Spec /\ Fairness

-----------------------------------------------------------------------------
\* Properties

Places == {"idle", "connecting", "opened", "queued", "ending", "waiting", "locked",
           "sent", "forgetting", "closing", "aborting", "unlisting", "taking",
           "collecting", "sweeping", "over"}
Results == {"none", "ok", "error", "gone", "not_found", "ended", "end_timeout",
            "timeout", "unknown", "rollback_failed"}

\* Every variable of the sessions has the shape the code's types give it.
TypeOK ==
    /\ conns \subseteq Conns
    /\ listed \subseteq Sessions
    /\ state \in [Sessions -> {"open", "ending", "committing", "closed"}]
    /\ taken \subseteq Sessions
    /\ lock \in [Sessions -> Actors \cup {Nobody}]
    /\ pc \in [Actors -> Places]
    /\ on \in [Actors -> Sessions \cup {NoSession}]
    /\ op \in [Actors -> Messages \cup {"none"}]
    /\ result \in [Actors -> Results]
    /\ todo \in [Conns -> SUBSET Sessions]
    /\ up \subseteq Sessions
    /\ wire \in [Sessions -> Seq([by: Actors, msg: Messages])]
    /\ reply \in [Actors -> {"none", "ok", "error"}]
    /\ txn \in [Sessions -> {"none", "active", "failed", "committed", "rolledback"}]

\* A forced close that owns a session means that no COMMIT of it was or will be sent:
\* the server rolls back what it held.  (sql_session.rs: "exactly one of end() and a
\* forced close owns the outcome: a close that wins sends nothing".)
ClosedNeverCommits ==
    \A s \in Sessions : state[s] = "closed" =>
        /\ txn[s] # "committed"
        /\ \A i \in 1..Len(wire[s]) : wire[s][i].msg = "statement"

\* A transaction that was applied is never reported as ended, timed out or failed: its
\* sql_session_end says so, or says that it does not know.
CommitIsTold ==
    \A s \in Sessions : txn[s] = "committed" =>
        \E a \in Calls : /\ on[a] = s /\ op[a] = "commit"
                         /\ pc[a] = "sent" \/ result[a] \in {"ok", "unknown"}

\* A commit that reports success was applied, unless a statement of the session had
\* reported a failure (and the caller committed nevertheless).  In particular end()
\* never finds the client gone once it owns the outcome.
OkMeansApplied ==
    \A a \in Calls : op[a] = "commit" /\ result[a] = "ok" =>
        \/ txn[on[a]] = "committed"
        \/ \E c \in Calls : /\ on[c] = on[a] /\ op[c] = "statement"
                             /\ result[c] \in {"error", "timeout"}

\* What a sql_session_end reports is true of the server, in both directions.
EndIsTruthful == CommitIsTold /\ OkMeansApplied

\* Messages of one session take turns: nothing is written behind a message whose sender
\* still waits for its answer.
TakeTurns ==
    \A s \in Sessions : \A i \in 1..Len(wire[s]) :
        i < Len(wire[s]) => pc[wire[s][i].by] # "sent"

\* Once connection_remove and every sql_session_begin for the connection returned, no
\* session of it is listed and no socket of one is open, whichever of the two came
\* first.  (lifecycle.rs: "a session begun meanwhile either is ended here or, finding
\* the connection gone, ends itself".)
RemovedHoldsNoSession ==
    \A s \in Sessions :
        pc[Home[s]] = "over" /\ pc[s] \in {"idle", "over"} =>
            s \notin listed \cup up

\* Who owns the outcome of each session, and what became of its transaction.
Owner == [s \in Sessions |-> IF state[s] = "committing" THEN "end"
                             ELSE IF state[s] = "closed" THEN "close" ELSE "nobody"]
Settled == [s \in Sessions |-> IF txn[s] = "committed" THEN "applied"
                               ELSE IF txn[s] = "rolledback" THEN "undone" ELSE "open"]

Outcome == INSTANCE SessionOutcome WITH owner <- Owner, outcome <- Settled

\* The sessions implement the abstract outcome: end() or a forced close comes to own a
\* session for good, and only a session end() owns is ever applied.
ImplementsOutcome == Outcome!Spec

\* Every sql_session_end that started returns.
EndReturns == \A a \in Calls : pc[a] = "ending" ~> pc[a] = "over"

\* Whatever the frontend does, a listed session is ended: an idle one is reclaimed.
SessionEnds == \A s \in Sessions : s \in listed ~> s \notin listed

\* What a comment says and the code does not keep; refuted by a run.
\* sql_session.rs, execute: "A statement past its limit is cancelled and the session
\* ends, rolled back".
TimedOutRollsBack ==
    \A a \in Calls : result[a] = "timeout" => txn[on[a]] # "committed"
=============================================================================
