------------------------- MODULE SshTunnelPoolProofs -------------------------
(***************************************************************************)
(* That a shared tunnel is counted exactly and stays open under its users, *)
(* for any number of connections and tunnel keys.                          *)
(***************************************************************************)
EXTENDS SshTunnelPool, FiniteSetTheorems, TLAPS

\* The stages in which a connection holds a reference of a tunnel.
Holding == {"connecting", "live", "releasing", "dropping", "leaked"}

\* A tunnel in the pool is open, under its own key, and its opener took it.
PooledIsOpen ==
    \A k \in Keys : pool[k] # NoTunnel =>
        /\ handle[pool[k]] = "open"
        /\ KeyOf[pool[k]] = k
        /\ using[pool[k]] = pool[k]

\* Who has not given a tunnel back, and be it for good, uses the one that is pooled under
\* its key: only the last user takes it out of the pool, and nobody uses what was taken out.
HolderIsPooled ==
    \A c \in Conns :
        /\ pc[c] \in Holding => using[c] \in Conns /\ pool[KeyOf[c]] = using[c]
        /\ pc[c] = "closing" => using[c] \in Conns /\ \A k \in Keys : pool[k] # using[c]

\* A tunnel is used only behind its insertion, which gives it to its opener.
UsedBehindInsert ==
    \A c \in Conns :
        /\ pc[c] \in {"idle", "opening", "opened"} => using[c] = NoTunnel
        /\ pc[c] = "opened" => handle[c] = "open" /\ refs[c] = 1
        /\ using[c] # NoTunnel => using[using[c]] = using[c]

CountIsExact ==
    /\ \A t \in Conns : IsFiniteSet(Holders(t))
    /\ \A k \in Keys : pool[k] # NoTunnel => refs[pool[k]] = Cardinality(Holders(pool[k]))

\* The inductive invariant, and its part that does not count.
IInv == TypeOK /\ PooledIsOpen /\ HolderIsPooled /\ UsedBehindInsert /\ CountIsExact
Shape == TypeOK /\ PooledIsOpen /\ HolderIsPooled /\ UsedBehindInsert

\* What a step may do to the users of a tunnel, and to the count that goes with them.
SameUsers == \A t \in Conns : Holders(t)' = Holders(t)
OneMore(c, u) ==
    \A t \in Conns : Holders(t)' = IF t = u THEN Holders(t) \cup {c} ELSE Holders(t)
OneLess(c, u) ==
    \A t \in Conns : Holders(t)' = IF t = u THEN Holders(t) \ {c} ELSE Holders(t)
NothingPooledAnew(u) ==
    \A k \in Keys : pool'[k] \notin {NoTunnel, u} =>
        pool'[k] = pool[k] /\ refs'[pool[k]] = refs[pool[k]]

\* A step that leaves the users of the pooled tunnels and their counts alone.
LEMMA KeepsCount ==
    ASSUME CountIsExact, TypeOK, SameUsers, NothingPooledAnew(NoTunnel)
    PROVE  CountIsExact'
BY DEF CountIsExact, TypeOK, SameUsers, NothingPooledAnew

\* A step that counts in one user of u.
LEMMA CountsIn ==
    ASSUME CountIsExact, TypeOK, NEW c \in Conns, NEW u \in Conns,
           c \notin Holders(u), OneMore(c, u), NothingPooledAnew(u),
           refs'[u] = Cardinality(Holders(u)) + 1
    PROVE  CountIsExact'
<1>1. ASSUME NEW t \in Conns PROVE IsFiniteSet(Holders(t)')
  BY FS_AddElement DEF OneMore, CountIsExact
<1>2. Cardinality(Holders(u)') = Cardinality(Holders(u)) + 1
  BY FS_AddElement DEF OneMore, CountIsExact
<1>3. ASSUME NEW k \in Keys, pool'[k] # NoTunnel
      PROVE  refs'[pool'[k]] = Cardinality(Holders(pool[k])') \/ pool'[k] = u
  BY <1>3 DEF NothingPooledAnew, OneMore, CountIsExact, TypeOK
<1> QED
  BY <1>1, <1>2, <1>3 DEF CountIsExact, NothingPooledAnew

\* A step that counts out one user of u, or takes u from the pool with its last user.
LEMMA CountsOut ==
    ASSUME CountIsExact, TypeOK, NEW c \in Conns, NEW u \in Conns,
           c \in Holders(u), OneLess(c, u), NothingPooledAnew(u),
           \/ \A k \in Keys : pool'[k] # u
           \/ refs'[u] = Cardinality(Holders(u)) - 1
    PROVE  CountIsExact'
<1>1. ASSUME NEW t \in Conns PROVE IsFiniteSet(Holders(t)')
  BY FS_RemoveElement DEF OneLess, CountIsExact
<1>2. Cardinality(Holders(u)') = Cardinality(Holders(u)) - 1
  BY FS_RemoveElement DEF OneLess, CountIsExact
<1>3. ASSUME NEW k \in Keys, pool'[k] # NoTunnel
      PROVE  refs'[pool'[k]] = Cardinality(Holders(pool[k])') \/ pool'[k] = u
  BY <1>3 DEF NothingPooledAnew, OneLess, CountIsExact, TypeOK
<1> QED
  BY <1>1, <1>2, <1>3 DEF CountIsExact, NothingPooledAnew

\* Taking a reference of the pooled tunnel, on the fast path or behind a lost race.
LEMMA ShareStep ==
    ASSUME IInv, NEW c \in Conns, pc[c] \in {"idle", "opened"}, NEW t \in Conns,
           t = pool[KeyOf[c]], Share(c, t), UNCHANGED <<pool, handle>>
    PROVE  IInv'
<1> USE SshTunnelPoolAssumption
<1>1. c \notin Holders(t) /\ using[c] = NoTunnel
  BY DEF IInv, UsedBehindInsert, Holders, TypeOK
<1>2. Shape'
  <2>1. handle[t] = "open" /\ using[t] = t /\ pc[t] \notin {"idle", "opening", "opened"}
    BY DEF IInv, PooledIsOpen, UsedBehindInsert, TypeOK
  <2>2. TypeOK'
    BY DEF IInv, TypeOK, Share, Goto
  <2>3. PooledIsOpen'
    BY <1>1 DEF IInv, TypeOK, PooledIsOpen, Share
  <2>4. HolderIsPooled'
    BY <1>1 DEF IInv, TypeOK, HolderIsPooled, Share, Goto, Holding
  <2>5. UsedBehindInsert'
    BY <1>1, <2>1 DEF IInv, TypeOK, UsedBehindInsert, Share, Goto
  <2> QED
    BY <2>2, <2>3, <2>4, <2>5 DEF Shape
<1>3. OneMore(c, t)
  BY <1>1 DEF OneMore, Holders, Share, Goto, IInv, TypeOK
<1>4. refs'[t] = Cardinality(Holders(t)) + 1 /\ NothingPooledAnew(t)
  BY DEF Share, NothingPooledAnew, IInv, CountIsExact, TypeOK
<1>5. CountIsExact'
  BY <1>1, <1>3, <1>4, CountsIn DEF IInv
<1> QED
  BY <1>2, <1>5 DEF IInv, Shape

\* The second look at the pool: the opener inserts its tunnel or shares the other's.
LEMMA InsertStep ==
    ASSUME IInv, NEW c \in Conns, Insert(c)
    PROVE  IInv'
<1> USE SshTunnelPoolAssumption
<1>1. CASE pool[KeyOf[c]] # NoTunnel
  BY <1>1, ShareStep DEF Insert, IInv, TypeOK
<1>2. CASE pool[KeyOf[c]] = NoTunnel
  <2>1. using[c] = NoTunnel /\ refs[c] = 1 /\ handle[c] = "open"
    BY DEF IInv, UsedBehindInsert, Insert
  <2>2. \A x \in Conns : using[x] # c
    BY <2>1 DEF IInv, UsedBehindInsert, TypeOK
  <2>3. Holders(c) = {}
    BY <2>2 DEF Holders
  <2>4. Shape'
    <3>1. /\ pool' = [pool EXCEPT ![KeyOf[c]] = c]
          /\ using' = [using EXCEPT ![c] = c]
          /\ pc' = [pc EXCEPT ![c] = "connecting"]
          /\ UNCHANGED <<refs, handle>>
      BY <1>2 DEF Insert, Goto
    <3>2. TypeOK'
      BY <3>1 DEF IInv, TypeOK
    <3>3. PooledIsOpen'
      BY <2>1, <2>2, <3>1 DEF IInv, TypeOK, PooledIsOpen
    <3>4. HolderIsPooled'
      BY <1>2, <2>2, <3>1 DEF IInv, TypeOK, HolderIsPooled, Holding
    <3>5. UsedBehindInsert'
      BY <2>2, <3>1 DEF IInv, TypeOK, UsedBehindInsert
    <3> QED
      BY <3>2, <3>3, <3>4, <3>5 DEF Shape
  <2>5. OneMore(c, c) /\ NothingPooledAnew(c)
    BY <1>2, <2>1, <2>2
       DEF OneMore, NothingPooledAnew, Holders, Insert, Goto, IInv, TypeOK
  <2>6. refs'[c] = Cardinality(Holders(c)) + 1
    BY <1>2, <2>1, <2>3, FS_EmptySet DEF Insert
  <2>7. CountIsExact'
    BY <2>3, <2>5, <2>6, CountsIn DEF IInv
  <2> QED
    BY <2>4, <2>7 DEF IInv, Shape
<1> QED
  BY <1>1, <1>2

\* The first look at the pool.
LEMMA AcquireStep ==
    ASSUME IInv, NEW c \in Conns, Acquire(c)
    PROVE  IInv'
<1> USE SshTunnelPoolAssumption
<1>1. CASE pool[KeyOf[c]] # NoTunnel
  BY <1>1, ShareStep DEF Acquire, IInv, TypeOK
<1>2. CASE pool[KeyOf[c]] = NoTunnel
  <2>1. Shape'
    BY <1>2 DEF IInv, Shape, TypeOK, PooledIsOpen, HolderIsPooled, UsedBehindInsert,
       Acquire, Goto, Holding
  <2>2. SameUsers /\ NothingPooledAnew(NoTunnel)
    BY <1>2 DEF SameUsers, NothingPooledAnew, Holders, Acquire, Goto, IInv, TypeOK
  <2> QED
    BY <2>1, <2>2, KeepsCount DEF IInv, Shape
<1> QED
  BY <1>1, <1>2

\* The steps that take or give back no reference.
LEMMA OtherStep ==
    ASSUME IInv, NEW c \in Conns,
    Open(c) \/ CloseSpare(c) \/ Connect(c) \/ RewriteFails(c) \/ Remove(c)
    \/ Close(c)
    PROVE  IInv'
<1> USE SshTunnelPoolAssumption
<1>1. CASE Open(c)
  <2>1. using[c] = NoTunnel /\ \A k \in Keys : pool[k] # c
    BY <1>1 DEF IInv, UsedBehindInsert, PooledIsOpen, Open
  <2>2. Shape'
    BY <1>1, <2>1 DEF IInv, Shape, TypeOK, PooledIsOpen, HolderIsPooled, UsedBehindInsert,
       Open, Goto, Holding
  <2>3. SameUsers /\ NothingPooledAnew(NoTunnel)
    BY <1>1, <2>1
       DEF SameUsers, NothingPooledAnew, Holders, Open, Goto, IInv, TypeOK
  <2> QED
    BY <2>2, <2>3, KeepsCount DEF IInv, Shape
<1>2. CASE CloseSpare(c)
  <2>1. pc[c] # "opened" /\ \A k \in Keys : pool[k] # c
    BY <1>2 DEF IInv, UsedBehindInsert, PooledIsOpen, CloseSpare
  <2>2. Shape'
    BY <1>2, <2>1 DEF IInv, Shape, TypeOK, PooledIsOpen, HolderIsPooled, UsedBehindInsert,
       CloseSpare, Holding
  <2>3. SameUsers /\ NothingPooledAnew(NoTunnel)
    BY <1>2 DEF SameUsers, NothingPooledAnew, Holders, CloseSpare, IInv, TypeOK
  <2> QED
    BY <2>2, <2>3, KeepsCount DEF IInv, Shape
<1>3. CASE Connect(c) \/ RewriteFails(c) \/ Remove(c)
  <2>1. Shape'
    BY <1>3 DEF IInv, Shape, TypeOK, PooledIsOpen, HolderIsPooled, UsedBehindInsert,
       Connect, RewriteFails, Remove, Goto, Holding
  <2>2. SameUsers /\ NothingPooledAnew(NoTunnel)
    BY <1>3
       DEF SameUsers, NothingPooledAnew, Holders, Connect, RewriteFails, Remove, Goto,
       IInv, TypeOK
  <2> QED
    BY <2>1, <2>2, KeepsCount DEF IInv, Shape
<1>4. CASE Close(c)
  <2>1. /\ using[c] \in Conns
        /\ \A k \in Keys : pool[k] # using[c]
        /\ using[using[c]] = using[c]
    BY <1>4 DEF IInv, HolderIsPooled, UsedBehindInsert, Close
  <2>2. Shape'
    BY <1>4, <2>1 DEF IInv, Shape, TypeOK, PooledIsOpen, HolderIsPooled, UsedBehindInsert,
       Close, Goto, Holding
  <2>3. SameUsers /\ NothingPooledAnew(NoTunnel)
    BY <1>4 DEF SameUsers, NothingPooledAnew, Holders, Close, Goto, IInv, TypeOK
  <2> QED
    BY <2>2, <2>3, KeepsCount DEF IInv, Shape
<1> QED
  BY <1>1, <1>2, <1>3, <1>4

\* Whoever finds itself the last user is the only one.
LEMMA LastIsOnly ==
    ASSUME IInv, NEW c \in Conns, pc[c] = "releasing", LastUser(KeyOf[c])
    PROVE  Holders(using[c]) = {c}
<1> USE SshTunnelPoolAssumption
<1>1. using[c] \in Conns /\ pool[KeyOf[c]] = using[c] /\ c \in Holders(using[c])
  BY DEF IInv, HolderIsPooled, Holding, Holders
<1>2. IsFiniteSet(Holders(using[c])) /\ Cardinality(Holders(using[c])) = 1
  BY <1>1 DEF IInv, CountIsExact, LastUser, TypeOK
<1>3. PICK x : Holders(using[c]) = {x}
  BY <1>2, FS_Singleton
<1> QED
  BY <1>1, <1>3

\* remove_if: the last user takes the tunnel out; any other goes on to decrement.
LEMMA UnpoolStep ==
    ASSUME IInv, NEW c \in Conns, Unpool(c)
    PROVE  IInv'
<1> USE SshTunnelPoolAssumption
<1>1. using[c] \in Conns /\ pool[KeyOf[c]] = using[c] /\ c \in Holders(using[c])
  BY DEF IInv, HolderIsPooled, Holding, Holders, Unpool
<1>2. CASE LastUser(KeyOf[c])
  <2>1. Holders(using[c]) = {c}
    BY <1>2, LastIsOnly DEF Unpool
  <2>2. \A x \in Conns \ {c} : pc[x] \in Holding => KeyOf[x] # KeyOf[c]
    BY <1>1, <2>1 DEF IInv, HolderIsPooled, Holders, Holding
  <2>3. \A k \in Keys \ {KeyOf[c]} : pool[k] # using[c]
    BY <1>1 DEF IInv, PooledIsOpen, TypeOK
  <2>4. /\ pool' = [pool EXCEPT ![KeyOf[c]] = NoTunnel]
        /\ pc' = [pc EXCEPT ![c] = "closing"]
        /\ UNCHANGED <<refs, handle, using>>
    BY <1>2 DEF Unpool, Goto
  <2>5. Shape'
    BY <1>1, <2>2, <2>3, <2>4 DEF IInv, Shape, TypeOK, PooledIsOpen, HolderIsPooled,
       UsedBehindInsert, Holding
  <2>6. OneLess(c, using[c]) /\ NothingPooledAnew(using[c])
    BY <2>4 DEF OneLess, NothingPooledAnew, Holders, IInv, TypeOK
  <2>7. \A k \in Keys : pool'[k] # using[c]
    BY <2>3, <2>4, <1>1 DEF IInv, TypeOK
  <2> QED
    BY <1>1, <2>5, <2>6, <2>7, CountsOut DEF IInv, Shape
<1>3. CASE ~ LastUser(KeyOf[c])
  <2>1. pc' = [pc EXCEPT ![c] = "dropping"] /\ UNCHANGED <<pool, refs, handle, using>>
    BY <1>3 DEF Unpool, Goto
  <2>2. Shape'
    BY <1>1, <2>1 DEF Unpool, IInv, Shape, TypeOK, PooledIsOpen, HolderIsPooled,
       UsedBehindInsert, Holding
  <2>3. SameUsers /\ NothingPooledAnew(NoTunnel)
    BY <2>1 DEF Unpool, SameUsers, NothingPooledAnew, Holders, IInv, TypeOK
  <2> QED
    BY <2>2, <2>3, KeepsCount DEF IInv, Shape
<1> QED
  BY <1>2, <1>3

\* Giving a reference back: the count was not zero, since the caller is one of its users.
LEMMA DecrementStep ==
    ASSUME IInv, NEW c \in Conns, Decrement(c)
    PROVE  IInv'
<1> USE SshTunnelPoolAssumption
<1>1. using[c] \in Conns /\ pool[KeyOf[c]] = using[c] /\ c \in Holders(using[c])
  BY DEF IInv, HolderIsPooled, Holding, Holders, Decrement
<1>2. refs' = [refs EXCEPT ![using[c]] = @ - 1] /\ pc' = [pc EXCEPT ![c] = "gone"]
  BY <1>1 DEF Decrement, Goto
<1>3. refs[using[c]] = Cardinality(Holders(using[c])) /\ refs[using[c]] \in Nat \ {0}
  <2>1. IsFiniteSet(Holders(using[c])) /\ refs[using[c]] = Cardinality(Holders(using[c]))
    BY <1>1 DEF IInv, CountIsExact
  <2>2. Cardinality(Holders(using[c])) # 0
    BY <1>1, <2>1, FS_EmptySet
  <2> QED
    BY <1>1, <2>1, <2>2 DEF IInv, TypeOK
<1>4. using[using[c]] = using[c]
  BY <1>1 DEF IInv, PooledIsOpen
<1>5. Shape'
  BY <1>1, <1>2, <1>3, <1>4 DEF Decrement, IInv, Shape, TypeOK, PooledIsOpen,
     HolderIsPooled, UsedBehindInsert, Holding
<1>6. OneLess(c, using[c]) /\ NothingPooledAnew(using[c])
  BY <1>1, <1>2 DEF Decrement, OneLess, NothingPooledAnew, Holders, IInv, TypeOK
<1>7. refs'[using[c]] = Cardinality(Holders(using[c])) - 1
  BY <1>1, <1>2, <1>3 DEF IInv, TypeOK
<1> QED
  BY <1>1, <1>5, <1>6, <1>7, CountsOut DEF IInv, Shape

\* An empty pool satisfies the invariant.
LEMMA InitInv == Init => IInv
<1> SUFFICES ASSUME Init PROVE IInv
  OBVIOUS
<1>1. Shape
  BY SshTunnelPoolAssumption DEF Init, Shape, TypeOK, PooledIsOpen, HolderIsPooled,
     UsedBehindInsert, Holding
<1>2. \A t \in Conns : Holders(t) = {}
  BY DEF Init, Holders
<1>3. CountIsExact
  BY <1>2, FS_EmptySet DEF Init, CountIsExact
<1> QED
  BY <1>1, <1>3 DEF IInv, Shape

\* Every step keeps it.
LEMMA StepInv == IInv /\ [Next]_vars => IInv'
<1> SUFFICES ASSUME IInv, [Next]_vars PROVE IInv'
  OBVIOUS
<1>1. ASSUME NEW c \in Conns, Acquire(c) \/ Remove(c) \/ Step(c) PROVE IInv'
  BY <1>1, AcquireStep, InsertStep, OtherStep, UnpoolStep, DecrementStep DEF Step
<1>2. CASE UNCHANGED vars
  BY <1>2 DEF vars, IInv, TypeOK, PooledIsOpen, HolderIsPooled, UsedBehindInsert,
     CountIsExact, Holders
<1> QED
  BY <1>1, <1>2 DEF Next

\* So it holds in every reachable state.
LEMMA Invariance == Spec => []IInv
BY InitInv, StepInv, PTL DEF Spec

\* The variables keep their types; in particular no release drives a count below zero.
THEOREM TypeCorrect == Spec => []TypeOK
<1>1. IInv => TypeOK
  BY DEF IInv
<1> QED
  BY <1>1, Invariance, PTL

\* The count of a pooled tunnel is the number of connections that took it and have not
\* given it back, the creates that failed at rewrite_tunnel_endpoint and never will among
\* them (acquire_shared_tunnel, release_shared_tunnel_by_key, connection_create).
THEOREM CountIsOfHolders == Spec => []RefsCountHolders
<1>1. IInv => RefsCountHolders
  BY SshTunnelPoolAssumption DEF IInv, TypeOK, CountIsExact, RefsCountHolders,
     PooledIsOpen, HolderIsPooled, Holders, Holding
<1> QED
  BY <1>1, Invariance, PTL

\* The tunnel under a connection that is live or connecting is open and pooled.
THEOREM UsedTunnelIsOpen == Spec => []HeldTunnelIsOpen
<1>1. IInv => HeldTunnelIsOpen
  BY SshTunnelPoolAssumption DEF IInv, TypeOK, HeldTunnelIsOpen, PooledIsOpen,
     HolderIsPooled, Holding
<1> QED
  BY <1>1, Invariance, PTL
=============================================================================
