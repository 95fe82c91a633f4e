--------------------------- MODULE SshTunnelPool ---------------------------
(***************************************************************************)
(* The pool of SSH tunnels that connections with the same tunnel key       *)
(* share: acquire_shared_tunnel, release_shared_tunnel_by_key, and the     *)
(* connection_create and connection_remove that call them.                 *)
(*                                                                         *)
(* Each access to the pool holds the lock of the key's shard and is one    *)
(* step; what happens between two accesses is not.  A tunnel is named      *)
(* after the connection that opened it.                                    *)
(*                                                                         *)
(* A definition Name_Variant is a faulty variant of Name, kept beside it   *)
(* to show which property notices the fault; no specification uses it.     *)
(***************************************************************************)
EXTENDS Integers, FiniteSets

CONSTANTS
    Conns,      \* connection ids, each created and removed at most once
    Keys,       \* tunnel keys
    KeyOf,      \* KeyOf[c]: the tunnel key of c's SSH settings
    NoTunnel

ASSUME SshTunnelPoolAssumption ==
    /\ KeyOf \in [Conns -> Keys]
    /\ NoTunnel \notin Conns

VARIABLES
    pool,      \* AppState.ssh_tunnel_pool
    refs,      \* SharedTunnel.refs
    handle,    \* the tunnel's SshTunnelHandle: "none", "open" or "closed"
    using,     \* using[c]: the tunnel whose local port c connects through
    pc         \* where connection c is in its life

vars == <<pool, refs, handle, using, pc>>

Goto(c, p) == pc' = [pc EXCEPT ![c] = p]

Init ==
    /\ pool = [k \in Keys |-> NoTunnel]
    /\ refs = [t \in Conns |-> 0]
    /\ handle = [t \in Conns |-> "none"]
    /\ using = [c \in Conns |-> NoTunnel]
    /\ pc = [c \in Conns |-> "idle"]

Share(c, t) ==
    /\ refs' = [refs EXCEPT ![t] = @ + 1]
    /\ using' = [using EXCEPT ![c] = t]
    /\ Goto(c, "connecting")

Acquire_Uncounted(c) ==
    LET t == pool[KeyOf[c]] IN
    /\ pc[c] = "idle"
    /\ \/ /\ t # NoTunnel
          /\ using' = [using EXCEPT ![c] = t]
          /\ Goto(c, "connecting")
       \/ /\ t = NoTunnel
          /\ Goto(c, "opening")
          /\ UNCHANGED using
    /\ UNCHANGED <<pool, handle, refs>>
\* The fast path takes a pooled tunnel, whatever its count; without one c opens its own.
Acquire(c) ==
    LET t == pool[KeyOf[c]] IN
    /\ pc[c] = "idle"
    /\ \/ /\ t # NoTunnel
          /\ Share(c, t)
       \/ /\ t = NoTunnel
          /\ Goto(c, "opening")
          /\ UNCHANGED <<refs, using>>
    /\ UNCHANGED <<pool, handle>>

Open(c) ==
    /\ pc[c] = "opening"
    /\ \/ /\ handle' = [handle EXCEPT ![c] = "open"]
          /\ refs' = [refs EXCEPT ![c] = 1]
          /\ Goto(c, "opened")
       \/ /\ Goto(c, "gone")
          /\ UNCHANGED <<handle, refs>>
    /\ UNCHANGED <<pool, using>>

Insert_Overwrite(c) ==
    /\ pc[c] = "opened"
    /\ pool' = [pool EXCEPT ![KeyOf[c]] = c]
    /\ using' = [using EXCEPT ![c] = c]
    /\ Goto(c, "connecting")
    /\ UNCHANGED <<handle, refs>>
\* Someone may have inserted first: c uses theirs, and a spawned task closes its own.
Insert(c) ==
    LET t == pool[KeyOf[c]] IN
    /\ pc[c] = "opened"
    /\ \/ /\ t # NoTunnel
          /\ Share(c, t)
          /\ UNCHANGED pool
       \/ /\ t = NoTunnel
          /\ pool' = [pool EXCEPT ![KeyOf[c]] = c]
          /\ using' = [using EXCEPT ![c] = c]
          /\ Goto(c, "connecting")
          /\ UNCHANGED refs
    /\ UNCHANGED handle

\* The task spawned by the loser of the race.
CloseSpare(c) ==
    /\ using[c] \notin {c, NoTunnel}
    /\ handle[c] = "open"
    /\ handle' = [handle EXCEPT ![c] = "closed"]
    /\ UNCHANGED <<pool, refs, using, pc>>

\* The database connects, or the tunnel's reference is given back at once.
Connect(c) ==
    /\ pc[c] = "connecting"
    /\ \E p \in {"live", "releasing"} : Goto(c, p)
    /\ UNCHANGED <<pool, refs, handle, using>>

\* rewrite_tunnel_endpoint errs (no settings for the engine): connection_create returns
\* by its `?` before it stored the key, so nobody ever gives this reference back.
RewriteFails(c) ==
    /\ pc[c] = "connecting"
    /\ Goto(c, "leaked")
    /\ UNCHANGED <<pool, refs, handle, using>>

\* connection_remove: conn_to_tunnel.remove lets one caller through.
Remove(c) ==
    /\ pc[c] = "live"
    /\ Goto(c, "releasing")
    /\ UNCHANGED <<pool, refs, handle, using>>

LastUser(k) == pool[k] # NoTunnel /\ refs[pool[k]] = 1

Unpool_Late(c) ==
    /\ pc[c] = "releasing"
    /\ \/ /\ LastUser(KeyOf[c])
          /\ Goto(c, "closing")
       \/ /\ ~ LastUser(KeyOf[c])
          /\ Goto(c, "dropping")
    /\ UNCHANGED <<pool, refs, handle, using>>
\* remove_if: the last user takes the tunnel out of the pool.
Unpool(c) ==
    /\ pc[c] = "releasing"
    /\ \/ /\ LastUser(KeyOf[c])
          /\ pool' = [pool EXCEPT ![KeyOf[c]] = NoTunnel]
          /\ Goto(c, "closing")
       \/ /\ ~ LastUser(KeyOf[c])
          /\ Goto(c, "dropping")
          /\ UNCHANGED pool
    /\ UNCHANGED <<refs, handle, using>>

\* Not the last user when it looked: count itself out of whatever is pooled now.
Decrement(c) ==
    LET t == pool[KeyOf[c]] IN
    /\ pc[c] = "dropping"
    /\ refs' = IF t # NoTunnel THEN [refs EXCEPT ![t] = @ - 1] ELSE refs
    /\ Goto(c, "gone")
    /\ UNCHANGED <<pool, handle, using>>

Close(c) ==
    /\ pc[c] = "closing"
    /\ handle' = [handle EXCEPT ![using[c]] = "closed"]
    /\ Goto(c, "gone")
    /\ UNCHANGED <<pool, refs, using>>

Step(c) == \/ Open(c) \/ Insert(c) \/ CloseSpare(c) \/ Connect(c) \/ RewriteFails(c)
           \/ Unpool(c) \/ Decrement(c) \/ Close(c)

Next == \E c \in Conns : Acquire(c) \/ Remove(c) \/ Step(c)

Spec == Init /\ [][Next]_vars

-----------------------------------------------------------------------------
\* Properties

\* The connections that took a tunnel and have not given it back.
Holders(t) ==
    {c \in Conns : /\ using[c] = t
                   /\ pc[c] \in {"connecting", "live", "releasing", "dropping", "leaked"}}

\* Every variable of the pool has the shape the code's types give it; in particular a
\* count is never driven below zero (refs is a usize: it would wrap).
TypeOK ==
    /\ pool \in [Keys -> Conns \cup {NoTunnel}]
    /\ refs \in [Conns -> Nat]
    /\ handle \in [Conns -> {"none", "open", "closed"}]
    /\ using \in [Conns -> Conns \cup {NoTunnel}]
    /\ pc \in [Conns -> {"idle", "opening", "opened", "connecting", "live", "releasing",
                         "dropping", "closing", "leaked", "gone"}]

\* The count of a pooled tunnel is exactly the number of connections that took it and have
\* not given it back, so it neither underflows nor misses a user, whatever the order of
\* releases, failed connects and racing opens.  Among those it counts are the creates that
\* failed at rewrite_tunnel_endpoint, which never give it back.
RefsCountHolders ==
    \A k \in Keys : pool[k] # NoTunnel =>
        /\ refs[pool[k]] = Cardinality(Holders(pool[k]))
        /\ \A c \in Holders(pool[k]) : KeyOf[c] = k

\* The tunnel under a connection that is live or connecting is open and pooled: no other
\* connection's release closes it, and a later connection would share it.
HeldTunnelIsOpen ==
    \A c \in Conns : pc[c] \in {"connecting", "live"} =>
        handle[using[c]] = "open" /\ pool[KeyOf[c]] = using[c]
=============================================================================
