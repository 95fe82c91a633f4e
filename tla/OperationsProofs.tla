-------------------------- MODULE OperationsProofs --------------------------
(***************************************************************************)
(* The operation registry for any number of operations and connections on  *)
(* any engines: type correctness, no slot of a connection is ever orphaned *)
(* or taken from a stream nobody cancelled, the busy map implements        *)
(* SqlSlot, a PostgreSQL cancel is not lost and not reported as a failure, *)
(* and an operation that ends leaves neither its marks nor its permit.     *)
(***************************************************************************)
EXTENDS Operations, TLAPS

\* dispatch_operation(o) has not passed try_acquire, or was refused by it.
Before == {"idle", "found", "mapped", "rejected"}

\* connection_remove(k) still has force_release_conn ahead of it.
Sweeping(k) == remover[k].pc \in {"sweep", "forget"}

\* Who owns a slot is a stream of that connection which nobody cancelled, and has the
\* release ahead of it, unless a removal is about to force the slot open.
HolderReleases ==
    \A k \in Conns, o \in Ops :
        busy[k] = o => /\ job[o].conn = k
                       /\ job[o].kind = "stream"
                       /\ disp[o] \notin Before
                       /\ o \notin asked
                       /\ Streaming(o) \/ Sweeping(k)
                       /\ o \in aborted => Sweeping(k)

\* An id is learnt only once its operation is past try_acquire, and cancelled only
\* once it is learnt.
LearntLate ==
    \A o \in Ops :
        /\ o \in published => disp[o] \notin Before
        /\ o \in asked => o \in published
        /\ canceller[o] # "idle" => o \in asked

\* A removal only forgets operations of its own connection, and those do not change
\* their connection any more.
SweepsItsOwn ==
    /\ \A o \in reg["op_to_conn"] : disp[o] # "idle"
    /\ \A k \in Conns :
        /\ \A o \in remover[k].todo : job[o].conn = k /\ disp[o] # "idle"
        /\ remover[k].pc = "forget" => /\ remover[k].cur \in Ops
                                       /\ job[remover[k].cur].conn = k
                                       /\ disp[remover[k].cur] # "idle"

\* A task exists once its dispatcher has spawned it; one of the two unwinds, the other
\* never does.
OneUnwinds ==
    \A o \in Ops :
        /\ task[o] # "none" <=> disp[o] \in {"spawned", "returned"}
        /\ o \in aborted => task[o] # "none"
        /\ at[o] # 1 => \/ disp[o] \in {"rollback", "refused"}
                         \/ task[o] \in {"unwinding", "over"}
        /\ disp[o] = "rollback" => at[o] <= 6
        /\ task[o] = "unwinding" => at[o] <= Len(DropOrder(o))

\* An operation that is being dispatched has its connection.
KnowsItsConn == \A o \in Ops : disp[o] # "idle" => job[o].conn \in Conns

\* The type invariant in three parts, each as small as a proof step can handle.
MapsOK ==
    /\ connections \subseteq Conns
    /\ busy \in [Conns -> Ops \cup {NoOp}]
    /\ permit \in [Conns -> Ops \cup {NoOp}]
    /\ reg \in [Registries -> SUBSET Ops]
    /\ aborted \subseteq Ops
    /\ sent \in [Ops -> {"none", "user", "teardown"}]
    /\ published \subseteq Ops
    /\ asked \subseteq Ops
StepsOK ==
    /\ job \in [Ops -> [conn: Conns \cup {NoConn}, kind: Kinds \cup {"none"}]]
    /\ disp \in [Ops -> DispatchStates]
    /\ task \in [Ops -> TaskStates]
    /\ at \in [Ops -> 1..9]
    /\ terminal \in [Ops -> {"none", "done", "error", "cancelled", "interrupted",
                             "unclassified"}]
    /\ canceller \in [Ops -> {"idle", "released", "known", "marked", "signalled"}]
RemoverOK ==
    remover \in [Conns -> [pc: {"idle", "sweep", "forget", "forced", "gone"},
                           todo: SUBSET Ops, cur: Ops \cup {NoOp}, at: 1..7]]

IInv == /\ MapsOK /\ StepsOK /\ RemoverOK
        /\ HolderReleases /\ LearntLate /\ SweepsItsOwn /\ OneUnwinds /\ KnowsItsConn

\* The three parts are the type invariant.
LEMMA Types == TypeOK <=> MapsOK /\ StepsOK /\ RemoverOK
<1>1. Len(UnwindOrder) = 9 /\ Len(RemoveOrder) = 7
  BY DEF UnwindOrder, RemoveOrder
<1> QED
  BY <1>1 DEF TypeOK, MapsOK, StepsOK, RemoverOK

\* While a dispatcher rolls back it is at one of the six steps, and there is no task.
LEMMA RollingBack ==
    ASSUME IInv, NEW o \in Ops, disp[o] = "rollback"
    PROVE  at[o] \in 1..6 /\ task[o] = "none" /\ ~ Live(o)
<1>1. at[o] \in 1..9
  BY DEF IInv, StepsOK
<1>2. at[o] <= 6 /\ task[o] = "none"
  BY DEF IInv, OneUnwinds
<1> QED
  BY <1>1, <1>2 DEF Live

\* The initial state satisfies the invariant.
LEMMA InitInv == Init => IInv
<1> SUFFICES ASSUME Init PROVE IInv
  OBVIOUS
<1>1. MapsOK
  BY DEF Init, MapsOK
<1>2. StepsOK
  BY DEF Init, StepsOK, DispatchStates, TaskStates
<1>3. RemoverOK
  BY DEF Init, RemoverOK
<1>4. HolderReleases
  BY OperationsAssumption DEF Init, HolderReleases
<1>5. LearntLate
  BY DEF Init, LearntLate
<1>6. SweepsItsOwn
  BY DEF Init, SweepsItsOwn, Registries
<1>7. OneUnwinds
  BY DEF Init, OneUnwinds
<1>8. KnowsItsConn
  BY DEF Init, KnowsItsConn
<1> QED
  BY <1>1, <1>2, <1>3, <1>4, <1>5, <1>6, <1>7, <1>8 DEF IInv

\* Where the orders release a slot, and how long they are.
LEMMA Orders ==
    /\ Len(RollbackOrder) = 6 /\ RollbackOrder[6] = "busy"
    /\ Len(OwnershipOrder) = 6
    /\ Len(UnwindOrder) = 9 /\ UnwindOrder[4] = "busy"
    /\ Len(RemoveOrder) = 7
BY DEF RollbackOrder, UnwindOrder, OwnershipOrder, RemoveOrder

\* The next step of an unwinding that has not ended.
LEMMA NextPlace ==
    ASSUME NEW n, n = 6 \/ n = 9, NEW a \in 1..n, a # n
    PROVE  a + 1 \in 1..9
OBVIOUS

\* Every unwinding has a first step.
LEMMA SomeDrops == 1 <= Len(OwnershipOrder) /\ 1 <= Len(UnwindOrder)
BY Orders

\* How many steps an unwinding takes, and that a stream releases its slot in it.
LEMMA DropOrders ==
    ASSUME NEW o \in Ops
    PROVE  /\ Len(DropOrder(o)) = 6 \/ Len(DropOrder(o)) = 9
           /\ job[o].kind = "stream" => DropOrder(o) = UnwindOrder
BY Orders DEF DropOrder

\* One step of a rollback, an unwinding or a removal frees at most the slots of its own
\* operation, and aborts at most its own task.
LeavesOnly(m, o) ==
    /\ busy' \in [Conns -> Ops \cup {NoOp}]
    /\ \A k \in Conns : busy'[k] = busy[k] \/ (busy[k] = o /\ busy'[k] = NoOp)
    /\ m = "busy" => \A k \in Conns : busy'[k] # o
    /\ m # "busy" => busy' = busy
    /\ permit' \in [Conns -> Ops \cup {NoOp}]
    /\ reg' \in [Registries -> SUBSET Ops]
    /\ reg'["op_to_conn"] \subseteq reg["op_to_conn"]
    /\ sent' \in [Ops -> {"none", "user", "teardown"}]
    /\ aborted' \subseteq aborted \cup {o}
    /\ ~ Live(o) => aborted' = aborted

\* Leave has that effect.
LEMMA LeaveStep ==
    ASSUME MapsOK, NEW m, NEW o \in Ops, NEW by \in {"user", "teardown"}, Leave(m, o, by)
    PROVE  LeavesOnly(m, o)
<1>1. NoOp \notin Ops
  BY OperationsAssumption
<1>2. /\ busy' \in [Conns -> Ops \cup {NoOp}]
      /\ \A k \in Conns : busy'[k] = busy[k] \/ (busy[k] = o /\ busy'[k] = NoOp)
      /\ m = "busy" => \A k \in Conns : busy'[k] # o
      /\ m # "busy" => busy' = busy
  BY <1>1 DEF Leave, MapsOK, Without
<1>3. permit' \in [Conns -> Ops \cup {NoOp}]
  BY DEF Leave, MapsOK, Without
<1>4. /\ reg' \in [Registries -> SUBSET Ops]
      /\ reg'["op_to_conn"] \subseteq reg["op_to_conn"]
  <2>1. "op_to_conn" \in Registries
    BY DEF Registries
  <2> QED
    BY <2>1 DEF Leave, MapsOK, Drop
<1>5. sent' \in [Ops -> {"none", "user", "teardown"}]
  BY DEF Leave, MapsOK, Signal
<1>6. /\ aborted' \subseteq aborted \cup {o}
      /\ ~ Live(o) => aborted' = aborted
  BY DEF Leave, Abort
<1> QED
  BY <1>2, <1>3, <1>4, <1>5, <1>6 DEF LeavesOnly

\* Steps of dispatch_operation.
LEMMA DispatchStep ==
    ASSUME IInv, NEW o \in Ops, Lookup(o) \/ Dispatch(o)
    PROVE  IInv'
<1>1. CASE Lookup(o)
  <2>1. MapsOK'
    BY <1>1 DEF IInv, MapsOK, Registries, Put, Drop, Lookup, DispatchFrame
  <2>2. StepsOK'
    BY <1>1 DEF IInv, StepsOK, DispatchStates, TaskStates, Lookup, DispatchFrame, MapsOK
  <2>3. RemoverOK'
    BY <1>1 DEF IInv, RemoverOK, Lookup, DispatchFrame
  <2>4. HolderReleases'
    BY <1>1
       DEF IInv, HolderReleases, Before, Sweeping, Streaming, StepsOK, Lookup,
           DispatchFrame, KnowsItsConn
  <2>5. LearntLate'
    BY <1>1 DEF IInv, LearntLate, Before, StepsOK, Lookup, DispatchFrame
  <2>6. SweepsItsOwn'
    BY <1>1
       DEF IInv, SweepsItsOwn, StepsOK, Registries, Put, Drop, Lookup, DispatchFrame
  <2>7. OneUnwinds'
    BY <1>1 DEF IInv, OneUnwinds, StepsOK, DropOrder, Lookup, DispatchFrame
  <2>8. KnowsItsConn'
    BY <1>1 DEF IInv, KnowsItsConn, StepsOK, Lookup, DispatchFrame, MapsOK
  <2> QED
    BY <2>1, <2>2, <2>3, <2>4, <2>5, <2>6, <2>7, <2>8 DEF IInv
<1>2. CASE MapOp(o)
  <2>1. MapsOK'
    BY <1>2 DEF IInv, MapsOK, Registries, Put, Drop, MapOp, DispatchFrame
  <2>2. StepsOK'
    BY <1>2 DEF IInv, StepsOK, DispatchStates, TaskStates, MapOp, DispatchFrame
  <2>3. RemoverOK'
    BY <1>2 DEF IInv, RemoverOK, MapOp, DispatchFrame
  <2>4. HolderReleases'
    BY <1>2
       DEF IInv, HolderReleases, Before, Sweeping, Streaming, StepsOK, MapOp,
           DispatchFrame
  <2>5. LearntLate'
    BY <1>2 DEF IInv, LearntLate, Before, StepsOK, MapOp, DispatchFrame
  <2>6. SweepsItsOwn'
    BY <1>2 DEF IInv, SweepsItsOwn, StepsOK, Registries, Put, Drop, MapOp, DispatchFrame
  <2>7. OneUnwinds'
    BY <1>2 DEF IInv, OneUnwinds, StepsOK, DropOrder, MapOp, DispatchFrame
  <2>8. KnowsItsConn'
    BY <1>2 DEF IInv, KnowsItsConn, StepsOK, MapOp, DispatchFrame
  <2> QED
    BY <2>1, <2>2, <2>3, <2>4, <2>5, <2>6, <2>7, <2>8 DEF IInv
<1>3. CASE Acquire(o)
  <2>a. /\ job[o].conn \in Conns /\ task[o] = "none"
        /\ o \notin aborted /\ o \notin asked /\ NoOp \notin Ops
    BY <1>3, OperationsAssumption
       DEF IInv, OneUnwinds, StepsOK, LearntLate, KnowsItsConn, Before, Acquire
  <2>1. MapsOK'
    BY <1>3, <2>a
       DEF IInv, MapsOK, Registries, Put, Drop, Acquire, DispatchFrame, StepsOK
  <2>2. StepsOK'
    BY <1>3 DEF IInv, StepsOK, DispatchStates, TaskStates, Acquire, DispatchFrame
  <2>3. RemoverOK'
    BY <1>3 DEF IInv, RemoverOK, Acquire, DispatchFrame
  <2>4. HolderReleases'
    <3> SUFFICES ASSUME NEW c \in Conns, NEW x \in Ops, busy'[c] = x
                 PROVE  /\ job'[x].conn = c
                        /\ job'[x].kind = "stream"
                        /\ disp'[x] \notin Before
                        /\ x \notin asked'
                        /\ Streaming(x)' \/ Sweeping(c)'
                        /\ x \in aborted' => Sweeping(c)'
      BY DEF HolderReleases
    <3>1. busy[c] = x \/ (x = o /\ c = job[o].conn /\ disp'[o] = "slotted")
      BY <1>3, <2>a DEF IInv, MapsOK, StepsOK, Acquire
    <3>2. CASE busy[c] = x
      BY <1>3, <2>a, <3>2
         DEF IInv, HolderReleases, Before, Sweeping, Streaming, StepsOK, Acquire,
         DispatchFrame
    <3>3. CASE x = o /\ c = job[o].conn /\ disp'[o] = "slotted"
      BY <1>3, <2>a, <3>3 DEF Before, Streaming, Acquire, DispatchFrame
    <3> QED
      BY <3>1, <3>2, <3>3
  <2>5. LearntLate'
    BY <1>3, <2>a
       DEF IInv, LearntLate, Before, StepsOK, Acquire, DispatchFrame, HolderReleases,
           MapsOK
  <2>6. SweepsItsOwn'
    BY <1>3
       DEF IInv, SweepsItsOwn, StepsOK, Registries, Put, Drop, Acquire, DispatchFrame,
           MapsOK, RemoverOK
  <2>7. OneUnwinds'
    BY <1>3 DEF IInv, OneUnwinds, StepsOK, DropOrder, Acquire, DispatchFrame
  <2>8. KnowsItsConn'
    BY <1>3 DEF IInv, KnowsItsConn, StepsOK, Acquire, DispatchFrame
  <2> QED
    BY <2>1, <2>2, <2>3, <2>4, <2>5, <2>6, <2>7, <2>8 DEF IInv
<1>4. CASE Reject(o)
  <2>1. MapsOK'
    BY <1>4 DEF IInv, MapsOK, Registries, Put, Drop, Reject, DispatchFrame
  <2>2. StepsOK'
    BY <1>4 DEF IInv, StepsOK, DispatchStates, TaskStates, Reject, DispatchFrame
  <2>3. RemoverOK'
    BY <1>4 DEF IInv, RemoverOK, Reject, DispatchFrame
  <2>4. HolderReleases'
    BY <1>4
       DEF IInv, HolderReleases, Before, Sweeping, Streaming, StepsOK, Reject,
           DispatchFrame
  <2>5. LearntLate'
    BY <1>4 DEF IInv, LearntLate, Before, StepsOK, Reject, DispatchFrame
  <2>6. SweepsItsOwn'
    BY <1>4
       DEF IInv, SweepsItsOwn, StepsOK, Registries, Put, Drop, Reject, DispatchFrame
  <2>7. OneUnwinds'
    BY <1>4 DEF IInv, OneUnwinds, StepsOK, DropOrder, Reject, DispatchFrame
  <2>8. KnowsItsConn'
    BY <1>4 DEF IInv, KnowsItsConn, StepsOK, Reject, DispatchFrame
  <2> QED
    BY <2>1, <2>2, <2>3, <2>4, <2>5, <2>6, <2>7, <2>8 DEF IInv
<1>5. CASE Activate(o)
  <2>1. MapsOK'
    BY <1>5 DEF IInv, MapsOK, Registries, Put, Drop, Activate, DispatchFrame
  <2>2. StepsOK'
    BY <1>5 DEF IInv, StepsOK, DispatchStates, TaskStates, Activate, DispatchFrame
  <2>3. RemoverOK'
    BY <1>5 DEF IInv, RemoverOK, Activate, DispatchFrame
  <2>4. HolderReleases'
    BY <1>5
       DEF IInv, HolderReleases, Before, Sweeping, Streaming, StepsOK, Activate,
           DispatchFrame
  <2>5. LearntLate'
    BY <1>5 DEF IInv, LearntLate, Before, StepsOK, Activate, DispatchFrame
  <2>6. SweepsItsOwn'
    BY <1>5
       DEF IInv, SweepsItsOwn, StepsOK, Registries, Put, Drop, Activate, DispatchFrame
  <2>7. OneUnwinds'
    BY <1>5 DEF IInv, OneUnwinds, StepsOK, DropOrder, Activate, DispatchFrame
  <2>8. KnowsItsConn'
    BY <1>5 DEF IInv, KnowsItsConn, StepsOK, Activate, DispatchFrame
  <2> QED
    BY <2>1, <2>2, <2>3, <2>4, <2>5, <2>6, <2>7, <2>8 DEF IInv
<1>6. CASE EmitStarted(o)
  <2>1. MapsOK'
    BY <1>6 DEF IInv, MapsOK, Registries, Put, Drop, EmitStarted, DispatchFrame
  <2>2. StepsOK'
    BY <1>6 DEF IInv, StepsOK, DispatchStates, TaskStates, EmitStarted, DispatchFrame
  <2>3. RemoverOK'
    BY <1>6 DEF IInv, RemoverOK, EmitStarted, DispatchFrame
  <2>4. HolderReleases'
    BY <1>6
       DEF IInv, HolderReleases, Before, Sweeping, Streaming, StepsOK, EmitStarted,
           DispatchFrame, OneUnwinds
  <2>5. LearntLate'
    BY <1>6 DEF IInv, LearntLate, Before, StepsOK, EmitStarted, DispatchFrame
  <2>6. SweepsItsOwn'
    BY <1>6
       DEF IInv, SweepsItsOwn, StepsOK, Registries, Put, Drop, EmitStarted,
           DispatchFrame
  <2>7. OneUnwinds'
    BY <1>6 DEF IInv, OneUnwinds, StepsOK, DropOrder, EmitStarted, DispatchFrame
  <2>8. KnowsItsConn'
    BY <1>6 DEF IInv, KnowsItsConn, StepsOK, EmitStarted, DispatchFrame
  <2> QED
    BY <2>1, <2>2, <2>3, <2>4, <2>5, <2>6, <2>7, <2>8 DEF IInv
<1>7. CASE Spawn(o)
  <2>1. MapsOK'
    BY <1>7 DEF IInv, MapsOK, Registries, Put, Drop, Spawn, DispatchFrame, KnowsItsConn
  <2>2. StepsOK'
    BY <1>7 DEF IInv, StepsOK, DispatchStates, TaskStates, Spawn, DispatchFrame
  <2>3. RemoverOK'
    BY <1>7 DEF IInv, RemoverOK, Spawn, DispatchFrame
  <2>4. HolderReleases'
    BY <1>7
       DEF IInv, HolderReleases, Before, Sweeping, Streaming, StepsOK, Spawn,
           DispatchFrame, OneUnwinds
  <2>5. LearntLate'
    BY <1>7 DEF IInv, LearntLate, Before, StepsOK, Spawn, DispatchFrame
  <2>6. SweepsItsOwn'
    BY <1>7
       DEF IInv, SweepsItsOwn, StepsOK, Registries, Put, Drop, Spawn, DispatchFrame,
           MapsOK, RemoverOK
  <2>7. OneUnwinds'
    BY <1>7 DEF IInv, OneUnwinds, StepsOK, DropOrder, Spawn, DispatchFrame
  <2>8. KnowsItsConn'
    BY <1>7 DEF IInv, KnowsItsConn, StepsOK, Spawn, DispatchFrame
  <2> QED
    BY <2>1, <2>2, <2>3, <2>4, <2>5, <2>6, <2>7, <2>8 DEF IInv
<1>8. CASE RegisterTask(o)
  <2>1. MapsOK'
    BY <1>8 DEF IInv, MapsOK, Registries, Put, Drop, RegisterTask, DispatchFrame
  <2>2. StepsOK'
    BY <1>8 DEF IInv, StepsOK, DispatchStates, TaskStates, RegisterTask, DispatchFrame
  <2>3. RemoverOK'
    BY <1>8 DEF IInv, RemoverOK, RegisterTask, DispatchFrame
  <2>4. HolderReleases'
    BY <1>8
       DEF IInv, HolderReleases, Before, Sweeping, Streaming, StepsOK, RegisterTask,
           DispatchFrame
  <2>5. LearntLate'
    BY <1>8 DEF IInv, LearntLate, Before, StepsOK, RegisterTask, DispatchFrame
  <2>6. SweepsItsOwn'
    BY <1>8
       DEF IInv, SweepsItsOwn, StepsOK, Registries, Put, Drop, RegisterTask,
           DispatchFrame
  <2>7. OneUnwinds'
    BY <1>8 DEF IInv, OneUnwinds, StepsOK, DropOrder, RegisterTask, DispatchFrame
  <2>8. KnowsItsConn'
    BY <1>8 DEF IInv, KnowsItsConn, StepsOK, RegisterTask, DispatchFrame
  <2> QED
    BY <2>1, <2>2, <2>3, <2>4, <2>5, <2>6, <2>7, <2>8 DEF IInv
<1>9. CASE Rollback(o)
  <2>a. /\ disp[o] = "rollback" /\ ~ Live(o)
        /\ at[o] \in 1..6 /\ task[o] = "none"
    BY <1>9, RollingBack DEF Rollback
  <2>b. LeavesOnly(RollbackOrder[at[o]], o)
    BY <1>9, LeaveStep DEF IInv, Rollback
  <2>1. MapsOK'
    BY <1>9, <2>b
       DEF IInv, MapsOK, Registries, Put, Drop, Rollback, DispatchFrame, LeavesOnly
  <2>2. StepsOK'
    BY <1>9, <2>a, Orders
       DEF IInv, StepsOK, DispatchStates, TaskStates, Rollback, DispatchFrame
  <2>3. RemoverOK'
    BY <1>9 DEF IInv, RemoverOK, Rollback, DispatchFrame
  <2>4. HolderReleases'
    <3> SUFFICES ASSUME NEW c \in Conns, NEW x \in Ops, busy'[c] = x
                 PROVE  /\ job'[x].conn = c
                        /\ job'[x].kind = "stream"
                        /\ disp'[x] \notin Before
                        /\ x \notin asked'
                        /\ Streaming(x)' \/ Sweeping(c)'
                        /\ x \in aborted' => Sweeping(c)'
      BY DEF HolderReleases
    <3>1. busy[c] = x
      BY <2>b, OperationsAssumption DEF LeavesOnly
    <3>2. aborted' = aborted
      BY <2>a, <2>b DEF LeavesOnly
    <3>3. x = o => at[o] # Len(RollbackOrder)
      BY <2>b, Orders DEF LeavesOnly
    <3> QED
      BY <2>a, <3>1, <3>2, <3>3, <1>9
         DEF IInv, HolderReleases, StepsOK, Before, Sweeping, Streaming, Rollback
  <2>5. LearntLate'
    BY <1>9 DEF IInv, LearntLate, Before, StepsOK, Rollback, DispatchFrame
  <2>6. SweepsItsOwn'
    BY <1>9, <2>b
       DEF IInv, SweepsItsOwn, StepsOK, Registries, Put, Drop, Rollback, DispatchFrame,
           LeavesOnly, MapsOK, RemoverOK
  <2>7. OneUnwinds'
    BY <1>9, <2>a, <2>b, Orders
       DEF IInv, OneUnwinds, StepsOK, DropOrder, Rollback, DispatchFrame, LeavesOnly
  <2>8. KnowsItsConn'
    BY <1>9 DEF IInv, KnowsItsConn, StepsOK, Rollback, DispatchFrame
  <2> QED
    BY <2>1, <2>2, <2>3, <2>4, <2>5, <2>6, <2>7, <2>8 DEF IInv
<1> QED
  BY <1>1, <1>2, <1>3, <1>4, <1>5, <1>6, <1>7, <1>8, <1>9 DEF Dispatch

\* The runner's report of its end.
LEMMA ReportStep ==
    ASSUME IInv, NEW o \in Ops, task[o] \in {"guarded", "registered", "querying"},
           NEW event \in {"done", "error", "cancelled", "interrupted", "unclassified"},
           Report(o, event)
    PROVE  IInv'
<1>a. disp[o] \in {"spawned", "returned"} /\ at[o] = 1
  BY DEF IInv, OneUnwinds, StepsOK
<1>1. MapsOK'
  BY DEF IInv, MapsOK, Registries, Put, Drop, Report, TaskFrame
<1>2. StepsOK'
  BY DEF IInv, StepsOK, DispatchStates, TaskStates, Report, TaskFrame
<1>3. RemoverOK'
  BY DEF IInv, RemoverOK, Report, TaskFrame
<1>4. HolderReleases'
  BY <1>a
     DEF IInv, HolderReleases, Before, Sweeping, Streaming, StepsOK, Report, TaskFrame
<1>5. LearntLate'
  BY DEF IInv, LearntLate, Before, StepsOK, Report, TaskFrame
<1>6. SweepsItsOwn'
  BY DEF IInv, SweepsItsOwn, StepsOK, Registries, Put, Drop, Report, TaskFrame
<1>7. OneUnwinds'
  <2> SUFFICES ASSUME NEW x \in Ops
               PROVE  /\ task'[x] # "none" <=> disp'[x] \in {"spawned", "returned"}
                      /\ x \in aborted' => task'[x] # "none"
                      /\ at'[x] # 1 => \/ disp'[x] \in {"rollback", "refused"}
                                       \/ task'[x] \in {"unwinding", "over"}
                      /\ disp'[x] = "rollback" => at'[x] <= 6
                      /\ task'[x] = "unwinding" => at'[x] <= Len(DropOrder(x)')
    BY DEF OneUnwinds
  <2>1. CASE x = o
    <3>1. DropOrder(x)' = OwnershipOrder \/ DropOrder(x)' = UnwindOrder
      BY DEF DropOrder
    <3>2. 1 <= Len(DropOrder(x)')
      BY <3>1, SomeDrops
    <3> QED
      BY <1>a, <2>1, <3>2 DEF IInv, OneUnwinds, StepsOK, Report, TaskFrame
  <2>2. CASE x # o
    BY <2>2 DEF IInv, OneUnwinds, StepsOK, DropOrder, Report, TaskFrame
  <2> QED
    BY <2>1, <2>2
<1>8. KnowsItsConn'
  BY DEF IInv, KnowsItsConn, StepsOK, Report, TaskFrame
<1> QED
  BY <1>1, <1>2, <1>3, <1>4, <1>5, <1>6, <1>7, <1>8 DEF IInv

\* Steps of the spawned task.
LEMMA RunStep ==
    ASSUME IInv, NEW o \in Ops, Run(o)
    PROVE  IInv'
<1>1. CASE Poll(o)
  <2>1. MapsOK'
    BY <1>1 DEF IInv, MapsOK, Registries, Put, Drop, Poll, TaskFrame
  <2>2. StepsOK'
    BY <1>1 DEF IInv, StepsOK, DispatchStates, TaskStates, Poll, TaskFrame
  <2>3. RemoverOK'
    BY <1>1 DEF IInv, RemoverOK, Poll, TaskFrame
  <2>4. HolderReleases'
    BY <1>1
       DEF IInv, HolderReleases, Before, Sweeping, Streaming, StepsOK, Poll, TaskFrame
  <2>5. LearntLate'
    BY <1>1 DEF IInv, LearntLate, Before, StepsOK, Poll, TaskFrame
  <2>6. SweepsItsOwn'
    BY <1>1 DEF IInv, SweepsItsOwn, StepsOK, Registries, Put, Drop, Poll, TaskFrame
  <2>7. OneUnwinds'
    BY <1>1 DEF IInv, OneUnwinds, StepsOK, DropOrder, Poll, TaskFrame
  <2>8. KnowsItsConn'
    BY <1>1 DEF IInv, KnowsItsConn, StepsOK, Poll, TaskFrame
  <2> QED
    BY <2>1, <2>2, <2>3, <2>4, <2>5, <2>6, <2>7, <2>8 DEF IInv
<1>2. CASE RegisterHandle(o)
  <2>1. MapsOK'
    BY <1>2 DEF IInv, MapsOK, Registries, Put, Drop, RegisterHandle, TaskFrame
  <2>2. StepsOK'
    BY <1>2 DEF IInv, StepsOK, DispatchStates, TaskStates, RegisterHandle, TaskFrame
  <2>3. RemoverOK'
    BY <1>2 DEF IInv, RemoverOK, RegisterHandle, TaskFrame
  <2>4. HolderReleases'
    BY <1>2
       DEF IInv, HolderReleases, Before, Sweeping, Streaming, StepsOK, RegisterHandle,
           TaskFrame
  <2>5. LearntLate'
    BY <1>2 DEF IInv, LearntLate, Before, StepsOK, RegisterHandle, TaskFrame
  <2>6. SweepsItsOwn'
    BY <1>2
       DEF IInv, SweepsItsOwn, StepsOK, Registries, Put, Drop, RegisterHandle, TaskFrame
  <2>7. OneUnwinds'
    BY <1>2 DEF IInv, OneUnwinds, StepsOK, DropOrder, RegisterHandle, TaskFrame
  <2>8. KnowsItsConn'
    BY <1>2 DEF IInv, KnowsItsConn, StepsOK, RegisterHandle, TaskFrame
  <2> QED
    BY <2>1, <2>2, <2>3, <2>4, <2>5, <2>6, <2>7, <2>8 DEF IInv
<1>3. CASE CheckRequest(o)
  <2>1. MapsOK'
    BY <1>3 DEF IInv, MapsOK, Registries, Put, Drop, CheckRequest, TaskFrame
  <2>2. StepsOK'
    BY <1>3 DEF IInv, StepsOK, DispatchStates, TaskStates, CheckRequest, TaskFrame
  <2>3. RemoverOK'
    BY <1>3 DEF IInv, RemoverOK, CheckRequest, TaskFrame
  <2>4. HolderReleases'
    BY <1>3
       DEF IInv, HolderReleases, Before, Sweeping, Streaming, StepsOK, CheckRequest,
           TaskFrame
  <2>5. LearntLate'
    BY <1>3 DEF IInv, LearntLate, Before, StepsOK, CheckRequest, TaskFrame
  <2>6. SweepsItsOwn'
    BY <1>3
       DEF IInv, SweepsItsOwn, StepsOK, Registries, Put, Drop, CheckRequest, TaskFrame,
           MapsOK, RemoverOK
  <2>7. OneUnwinds'
    BY <1>3 DEF IInv, OneUnwinds, StepsOK, DropOrder, CheckRequest, TaskFrame
  <2>8. KnowsItsConn'
    BY <1>3 DEF IInv, KnowsItsConn, StepsOK, CheckRequest, TaskFrame
  <2> QED
    BY <2>1, <2>2, <2>3, <2>4, <2>5, <2>6, <2>7, <2>8 DEF IInv
<1>4. CASE Complete(o)
  BY <1>4, ReportStep DEF Complete
<1>5. CASE Fail(o)
  BY <1>5, ReportStep DEF Fail
<1>6. CASE Interrupt(o)
  BY <1>6, ReportStep DEF Interrupt
<1>7. CASE Notified(o)
  BY <1>7, ReportStep DEF Notified
<1>8. CASE DropTask(o)
  <2>a. disp[o] \in {"spawned", "returned"} /\ at[o] = 1
    BY <1>8 DEF IInv, OneUnwinds, StepsOK, DropTask, Live
  <2>1. MapsOK'
    BY <1>8 DEF IInv, MapsOK, Registries, Put, Drop, DropTask, TaskFrame
  <2>2. StepsOK'
    BY <1>8 DEF IInv, StepsOK, DispatchStates, TaskStates, DropTask, TaskFrame
  <2>3. RemoverOK'
    BY <1>8 DEF IInv, RemoverOK, DropTask, TaskFrame
  <2>4. HolderReleases'
    BY <1>8, <2>a
       DEF IInv, HolderReleases, Before, Sweeping, Streaming, StepsOK, DropTask,
           TaskFrame
  <2>5. LearntLate'
    BY <1>8 DEF IInv, LearntLate, Before, StepsOK, DropTask, TaskFrame
  <2>6. SweepsItsOwn'
    BY <1>8 DEF IInv, SweepsItsOwn, StepsOK, Registries, Put, Drop, DropTask, TaskFrame
  <2>7. OneUnwinds'
    <3> SUFFICES ASSUME NEW x \in Ops
                 PROVE  /\ task'[x] # "none" <=> disp'[x] \in {"spawned", "returned"}
                        /\ x \in aborted' => task'[x] # "none"
                        /\ at'[x] # 1 => \/ disp'[x] \in {"rollback", "refused"}
                                         \/ task'[x] \in {"unwinding", "over"}
                        /\ disp'[x] = "rollback" => at'[x] <= 6
                        /\ task'[x] = "unwinding" => at'[x] <= Len(DropOrder(x)')
      BY DEF OneUnwinds
    <3>1. CASE x = o
      <4>1. DropOrder(x)' = OwnershipOrder \/ DropOrder(x)' = UnwindOrder
        BY DEF DropOrder
      <4>2. 1 <= Len(DropOrder(x)')
        BY <4>1, SomeDrops
      <4> QED
        BY <1>8, <2>a, <3>1, <4>2 DEF IInv, OneUnwinds, StepsOK, DropTask, TaskFrame
    <3>2. CASE x # o
      BY <1>8, <3>2 DEF IInv, OneUnwinds, StepsOK, DropOrder, DropTask, TaskFrame
    <3> QED
      BY <3>1, <3>2
  <2>8. KnowsItsConn'
    BY <1>8 DEF IInv, KnowsItsConn, StepsOK, DropTask, TaskFrame
  <2> QED
    BY <2>1, <2>2, <2>3, <2>4, <2>5, <2>6, <2>7, <2>8 DEF IInv
<1>9. CASE Unwind(o)
  <2>a. /\ disp[o] \in {"spawned", "returned"} /\ ~ Live(o)
        /\ at[o] \in 1..Len(DropOrder(o)) /\ task[o] = "unwinding"
    BY <1>9, DropOrders DEF IInv, OneUnwinds, StepsOK, Live, Unwind
  <2>b. LeavesOnly(DropOrder(o)[at[o]], o)
    BY <1>9, LeaveStep DEF IInv, Unwind
  <2>c. /\ Len(DropOrder(o)) = 6 \/ Len(DropOrder(o)) = 9
        /\ job[o].kind = "stream" => DropOrder(o) = UnwindOrder
    BY DropOrders
  <2>1. MapsOK'
    BY <1>9, <2>b DEF IInv, MapsOK, Registries, Put, Drop, Unwind, TaskFrame, LeavesOnly
  <2>2. StepsOK'
    <3>1. at[o] # Len(DropOrder(o)) => at[o] + 1 \in 1..9
      BY <2>a, <2>c, NextPlace
    <3>2. at' \in [Ops -> 1..9] /\ task' \in [Ops -> TaskStates]
      BY <3>1, <1>9 DEF IInv, StepsOK, Unwind, TaskStates
    <3> QED
      BY <3>2, <1>9 DEF IInv, StepsOK, Unwind
  <2>3. RemoverOK'
    BY <1>9 DEF IInv, RemoverOK, Unwind, TaskFrame
  <2>4. HolderReleases'
    <3> SUFFICES ASSUME NEW c \in Conns, NEW x \in Ops, busy'[c] = x
                 PROVE  /\ job'[x].conn = c
                        /\ job'[x].kind = "stream"
                        /\ disp'[x] \notin Before
                        /\ x \notin asked'
                        /\ Streaming(x)' \/ Sweeping(c)'
                        /\ x \in aborted' => Sweeping(c)'
      BY DEF HolderReleases
    <3>1. busy[c] = x
      BY <2>b, OperationsAssumption DEF LeavesOnly
    <3>2. aborted' = aborted
      BY <2>a, <2>b DEF LeavesOnly
    <3>3. x = o => DropOrder(o) = UnwindOrder
      BY <2>c, <3>1 DEF IInv, HolderReleases
    <3>4. x = o => at[o] # 4
      BY <2>b, <3>3, Orders DEF LeavesOnly
    <3>5. CASE x # o
      BY <3>1, <3>2, <3>5, <1>9
         DEF IInv, HolderReleases, StepsOK, Before, Sweeping, Streaming, Unwind
    <3>6. CASE x = o
      <4>1. Sweeping(c)' = Sweeping(c)
        BY <1>9 DEF Sweeping, Unwind
      <4>2. CASE Sweeping(c)
        BY <3>1, <3>2, <3>6, <4>1, <4>2, <1>9
           DEF IInv, HolderReleases, Before, Unwind
      <4>3. CASE ~ Sweeping(c)
        <5>1. at[o] \in 1..3
          BY <2>a, <3>1, <3>4, <3>6, <4>3 DEF IInv, HolderReleases, Streaming
        <5>2. Len(DropOrder(o)) = 9
          BY <3>3, <3>6, Orders
        <5>3. at'[o] \in 1..4 /\ task'[o] = "unwinding"
          BY <2>a, <5>1, <5>2, <1>9 DEF IInv, StepsOK, Unwind
        <5> QED
          BY <2>a, <3>1, <3>2, <3>6, <4>3, <5>3, <1>9
             DEF IInv, HolderReleases, Streaming, Before, Unwind
      <4> QED
        BY <4>2, <4>3
    <3> QED
      BY <3>5, <3>6
  <2>5. LearntLate'
    BY <1>9 DEF IInv, LearntLate, Before, StepsOK, Unwind, TaskFrame
  <2>6. SweepsItsOwn'
    BY <1>9, <2>b
       DEF IInv, SweepsItsOwn, StepsOK, Registries, Put, Drop, Unwind, TaskFrame,
           LeavesOnly, MapsOK, RemoverOK
  <2>7. OneUnwinds'
    <3>1. aborted' = aborted
      BY <2>a, <2>b DEF LeavesOnly
    <3> QED
      BY <1>9, <2>a, <3>1 DEF IInv, OneUnwinds, StepsOK, DropOrder, Unwind
  <2>8. KnowsItsConn'
    BY <1>9 DEF IInv, KnowsItsConn, StepsOK, Unwind, TaskFrame
  <2> QED
    BY <2>1, <2>2, <2>3, <2>4, <2>5, <2>6, <2>7, <2>8 DEF IInv
<1> QED
  BY <1>1, <1>2, <1>3, <1>4, <1>5, <1>6, <1>7, <1>8, <1>9 DEF Run

\* Steps of cancel_operation.
LEMMA CancelStep ==
    ASSUME IInv, NEW o \in Ops, CancelRelease(o) \/ Cancel(o)
    PROVE  IInv'
<1>1. CASE CancelRelease(o)
  <2>1. MapsOK'
    BY <1>1 DEF IInv, MapsOK, Registries, Put, Drop, CancelRelease, CancelFrame, Without
  <2>2. StepsOK'
    BY <1>1 DEF IInv, StepsOK, DispatchStates, TaskStates, CancelRelease, CancelFrame
  <2>3. RemoverOK'
    BY <1>1 DEF IInv, RemoverOK, CancelRelease, CancelFrame
  <2>4. HolderReleases'
    BY <1>1, OperationsAssumption
       DEF IInv, HolderReleases, Before, Sweeping, Streaming, StepsOK, CancelRelease,
           CancelFrame, Without, MapsOK
  <2>5. LearntLate'
    BY <1>1, OperationsAssumption
       DEF IInv, LearntLate, Before, StepsOK, CancelRelease, CancelFrame
  <2>6. SweepsItsOwn'
    BY <1>1
       DEF IInv, SweepsItsOwn, StepsOK, Registries, Put, Drop, CancelRelease,
           CancelFrame
  <2>7. OneUnwinds'
    BY <1>1 DEF IInv, OneUnwinds, StepsOK, DropOrder, CancelRelease, CancelFrame
  <2>8. KnowsItsConn'
    BY <1>1 DEF IInv, KnowsItsConn, StepsOK, CancelRelease, CancelFrame
  <2> QED
    BY <2>1, <2>2, <2>3, <2>4, <2>5, <2>6, <2>7, <2>8 DEF IInv
<1>2. CASE CancelKnown(o)
  <2>1. MapsOK'
    BY <1>2 DEF IInv, MapsOK, Registries, Put, Drop, CancelKnown, CancelFrame
  <2>2. StepsOK'
    BY <1>2 DEF IInv, StepsOK, DispatchStates, TaskStates, CancelKnown, CancelFrame
  <2>3. RemoverOK'
    BY <1>2 DEF IInv, RemoverOK, CancelKnown, CancelFrame
  <2>4. HolderReleases'
    BY <1>2
       DEF IInv, HolderReleases, Before, Sweeping, Streaming, StepsOK, CancelKnown,
           CancelFrame
  <2>5. LearntLate'
    BY <1>2 DEF IInv, LearntLate, Before, StepsOK, CancelKnown, CancelFrame
  <2>6. SweepsItsOwn'
    BY <1>2
       DEF IInv, SweepsItsOwn, StepsOK, Registries, Put, Drop, CancelKnown, CancelFrame
  <2>7. OneUnwinds'
    BY <1>2 DEF IInv, OneUnwinds, StepsOK, DropOrder, CancelKnown, CancelFrame
  <2>8. KnowsItsConn'
    BY <1>2 DEF IInv, KnowsItsConn, StepsOK, CancelKnown, CancelFrame
  <2> QED
    BY <2>1, <2>2, <2>3, <2>4, <2>5, <2>6, <2>7, <2>8 DEF IInv
<1>3. CASE CancelMark(o)
  <2>1. MapsOK'
    BY <1>3 DEF IInv, MapsOK, Registries, Put, Drop, CancelMark, CancelFrame
  <2>2. StepsOK'
    BY <1>3 DEF IInv, StepsOK, DispatchStates, TaskStates, CancelMark, CancelFrame
  <2>3. RemoverOK'
    BY <1>3 DEF IInv, RemoverOK, CancelMark, CancelFrame
  <2>4. HolderReleases'
    BY <1>3
       DEF IInv, HolderReleases, Before, Sweeping, Streaming, StepsOK, CancelMark,
           CancelFrame
  <2>5. LearntLate'
    BY <1>3 DEF IInv, LearntLate, Before, StepsOK, CancelMark, CancelFrame
  <2>6. SweepsItsOwn'
    BY <1>3
       DEF IInv, SweepsItsOwn, StepsOK, Registries, Put, Drop, CancelMark, CancelFrame
  <2>7. OneUnwinds'
    BY <1>3 DEF IInv, OneUnwinds, StepsOK, DropOrder, CancelMark, CancelFrame
  <2>8. KnowsItsConn'
    BY <1>3 DEF IInv, KnowsItsConn, StepsOK, CancelMark, CancelFrame
  <2> QED
    BY <2>1, <2>2, <2>3, <2>4, <2>5, <2>6, <2>7, <2>8 DEF IInv
<1>4. CASE CancelSignal(o)
  <2>1. MapsOK'
    BY <1>4 DEF IInv, MapsOK, Registries, Put, Drop, CancelSignal, CancelFrame, Signal
  <2>2. StepsOK'
    BY <1>4 DEF IInv, StepsOK, DispatchStates, TaskStates, CancelSignal, CancelFrame
  <2>3. RemoverOK'
    BY <1>4 DEF IInv, RemoverOK, CancelSignal, CancelFrame
  <2>4. HolderReleases'
    BY <1>4
       DEF IInv, HolderReleases, Before, Sweeping, Streaming, StepsOK, CancelSignal,
           CancelFrame
  <2>5. LearntLate'
    BY <1>4 DEF IInv, LearntLate, Before, StepsOK, CancelSignal, CancelFrame
  <2>6. SweepsItsOwn'
    BY <1>4
       DEF IInv, SweepsItsOwn, StepsOK, Registries, Put, Drop, CancelSignal, CancelFrame
  <2>7. OneUnwinds'
    BY <1>4 DEF IInv, OneUnwinds, StepsOK, DropOrder, CancelSignal, CancelFrame
  <2>8. KnowsItsConn'
    BY <1>4 DEF IInv, KnowsItsConn, StepsOK, CancelSignal, CancelFrame
  <2> QED
    BY <2>1, <2>2, <2>3, <2>4, <2>5, <2>6, <2>7, <2>8 DEF IInv
<1>5. CASE CancelAbort(o)
  <2>1. MapsOK'
    BY <1>5 DEF IInv, MapsOK, Registries, Put, Drop, CancelAbort, CancelFrame, Abort
  <2>2. StepsOK'
    BY <1>5 DEF IInv, StepsOK, DispatchStates, TaskStates, CancelAbort, CancelFrame
  <2>3. RemoverOK'
    BY <1>5 DEF IInv, RemoverOK, CancelAbort, CancelFrame
  <2>4. HolderReleases'
    BY <1>5
       DEF IInv, HolderReleases, Before, Sweeping, Streaming, StepsOK, CancelAbort,
           CancelFrame, Abort, LearntLate
  <2>5. LearntLate'
    BY <1>5 DEF IInv, LearntLate, Before, StepsOK, CancelAbort, CancelFrame
  <2>6. SweepsItsOwn'
    BY <1>5
       DEF IInv, SweepsItsOwn, StepsOK, Registries, Put, Drop, CancelAbort, CancelFrame
  <2>7. OneUnwinds'
    BY <1>5
       DEF IInv, OneUnwinds, StepsOK, DropOrder, CancelAbort, CancelFrame, Abort, Live
  <2>8. KnowsItsConn'
    BY <1>5 DEF IInv, KnowsItsConn, StepsOK, CancelAbort, CancelFrame
  <2> QED
    BY <2>1, <2>2, <2>3, <2>4, <2>5, <2>6, <2>7, <2>8 DEF IInv
<1> QED
  BY <1>1, <1>2, <1>3, <1>4, <1>5 DEF Cancel

\* Steps of connection_remove.
LEMMA RemoveStep ==
    ASSUME IInv, NEW k \in Conns, RemoveScan(k) \/ Remove(k)
    PROVE  IInv'
<1>1. CASE RemoveScan(k)
  <2>a. {o \in reg["op_to_conn"] : job[o].conn = k} \in SUBSET Ops
    BY DEF IInv, MapsOK, Registries
  <2>1. MapsOK'
    BY <1>1 DEF IInv, MapsOK, Registries, Put, Drop, RemoveScan, RemoveFrame
  <2>2. StepsOK'
    BY <1>1 DEF IInv, StepsOK, DispatchStates, TaskStates, RemoveScan, RemoveFrame
  <2>3. RemoverOK'
    BY <1>1, <2>a DEF IInv, RemoverOK, RemoveScan, RemoveFrame
  <2>4. HolderReleases'
    <3>1. /\ UNCHANGED <<busy, job, disp, task, at, asked, aborted>>
          /\ \A c \in Conns : Sweeping(c) => Sweeping(c)'
      BY <1>1 DEF IInv, RemoverOK, Sweeping, RemoveScan, RemoveFrame
    <3> QED
      BY <3>1 DEF IInv, HolderReleases, Streaming
  <2>5. LearntLate'
    BY <1>1 DEF IInv, LearntLate, Before, StepsOK, RemoveScan, RemoveFrame
  <2>6. SweepsItsOwn'
    BY <1>1, <2>a
       DEF IInv, SweepsItsOwn, StepsOK, Registries, Put, Drop, RemoveScan, RemoveFrame,
           RemoverOK
  <2>7. OneUnwinds'
    BY <1>1 DEF IInv, OneUnwinds, StepsOK, DropOrder, RemoveScan, RemoveFrame
  <2>8. KnowsItsConn'
    BY <1>1 DEF IInv, KnowsItsConn, StepsOK, RemoveScan, RemoveFrame
  <2> QED
    BY <2>1, <2>2, <2>3, <2>4, <2>5, <2>6, <2>7, <2>8 DEF IInv
<1>2. CASE RemoveTake(k)
  <2>1. MapsOK'
    BY <1>2 DEF IInv, MapsOK, Registries, Put, Drop, RemoveTake, RemoveFrame
  <2>2. StepsOK'
    BY <1>2 DEF IInv, StepsOK, DispatchStates, TaskStates, RemoveTake, RemoveFrame
  <2>3. RemoverOK'
    BY <1>2 DEF IInv, RemoverOK, RemoveTake, RemoveFrame
  <2>4. HolderReleases'
    BY <1>2
       DEF IInv, HolderReleases, Before, Sweeping, Streaming, StepsOK, RemoveTake,
           RemoveFrame, RemoverOK
  <2>5. LearntLate'
    BY <1>2 DEF IInv, LearntLate, Before, StepsOK, RemoveTake, RemoveFrame
  <2>6. SweepsItsOwn'
    BY <1>2
       DEF IInv, SweepsItsOwn, StepsOK, Registries, Put, Drop, RemoveTake, RemoveFrame,
           RemoverOK
  <2>7. OneUnwinds'
    BY <1>2 DEF IInv, OneUnwinds, StepsOK, DropOrder, RemoveTake, RemoveFrame
  <2>8. KnowsItsConn'
    BY <1>2 DEF IInv, KnowsItsConn, StepsOK, RemoveTake, RemoveFrame
  <2> QED
    BY <2>1, <2>2, <2>3, <2>4, <2>5, <2>6, <2>7, <2>8 DEF IInv
<1>3. CASE RemoveForget(k)
  <2> DEFINE x == remover[k].cur
  <2>a. x \in Ops /\ job[x].conn = k
    BY <1>3 DEF IInv, SweepsItsOwn, RemoveForget
  <2>b. LeavesOnly(RemoveOrder[remover[k].at], x)
    BY <1>3, <2>a, LeaveStep DEF IInv, RemoveForget
  <2>c. /\ remover' \in [Conns -> [pc: {"idle", "sweep", "forget", "forced", "gone"},
                                 todo: SUBSET Ops, cur: Ops \cup {NoOp}, at: 1..7]]
        /\ \A c \in Conns : Sweeping(c)' <=> Sweeping(c)
        /\ \A c \in Conns : /\ remover'[c].todo = remover[c].todo
                            /\ remover'[c].cur = remover[c].cur
                            /\ remover'[c].pc = "forget" => remover[c].pc = "forget"
    BY <1>3, Orders DEF IInv, RemoverOK, RemoveForget, Sweeping
  <2>1. MapsOK'
    BY <1>3, <2>a, <2>b
       DEF IInv, MapsOK, Registries, Put, Drop, RemoveForget, RemoveFrame, LeavesOnly
  <2>2. StepsOK'
    BY <1>3 DEF IInv, StepsOK, DispatchStates, TaskStates, RemoveForget, RemoveFrame
  <2>3. RemoverOK'
    BY <1>3, <2>c DEF IInv, RemoverOK, RemoveForget, RemoveFrame
  <2>4. HolderReleases'
    <3> SUFFICES ASSUME NEW c \in Conns, NEW y \in Ops, busy'[c] = y
                 PROVE  /\ job'[y].conn = c
                        /\ job'[y].kind = "stream"
                        /\ disp'[y] \notin Before
                        /\ y \notin asked'
                        /\ Streaming(y)' \/ Sweeping(c)'
                        /\ y \in aborted' => Sweeping(c)'
      BY DEF HolderReleases
    <3>1. busy[c] = y
      BY <2>b, OperationsAssumption DEF LeavesOnly
    <3>2. y \in aborted' => y \in aborted \/ y = x
      BY <2>b DEF LeavesOnly
    <3>3. Sweeping(k)
      BY <1>3 DEF Sweeping, RemoveForget
    <3> QED
      BY <2>a, <2>c, <3>1, <3>2, <3>3, <1>3
         DEF IInv, HolderReleases, Streaming, RemoveForget, RemoveFrame
  <2>5. LearntLate'
    BY <1>3 DEF IInv, LearntLate, Before, StepsOK, RemoveForget, RemoveFrame
  <2>6. SweepsItsOwn'
    BY <1>3, <2>b, <2>c
       DEF IInv, SweepsItsOwn, StepsOK, Registries, Put, Drop, RemoveForget,
           RemoveFrame, LeavesOnly, MapsOK, RemoverOK
  <2>7. OneUnwinds'
    BY <1>3, <2>a, <2>b
       DEF IInv, OneUnwinds, StepsOK, DropOrder, RemoveForget, RemoveFrame, LeavesOnly,
           Live
  <2>8. KnowsItsConn'
    BY <1>3 DEF IInv, KnowsItsConn, StepsOK, RemoveForget, RemoveFrame
  <2> QED
    BY <2>1, <2>2, <2>3, <2>4, <2>5, <2>6, <2>7, <2>8 DEF IInv
<1>4. CASE RemoveForce(k)
  <2>1. MapsOK'
    BY <1>4 DEF IInv, MapsOK, Registries, Put, Drop, RemoveForce, RemoveFrame
  <2>2. StepsOK'
    BY <1>4 DEF IInv, StepsOK, DispatchStates, TaskStates, RemoveForce, RemoveFrame
  <2>3. RemoverOK'
    BY <1>4 DEF IInv, RemoverOK, RemoveForce, RemoveFrame
  <2>4. HolderReleases'
    BY <1>4, OperationsAssumption
       DEF IInv, HolderReleases, Before, Sweeping, Streaming, StepsOK, RemoveForce,
           RemoveFrame, MapsOK, RemoverOK
  <2>5. LearntLate'
    BY <1>4 DEF IInv, LearntLate, Before, StepsOK, RemoveForce, RemoveFrame
  <2>6. SweepsItsOwn'
    BY <1>4
       DEF IInv, SweepsItsOwn, StepsOK, Registries, Put, Drop, RemoveForce, RemoveFrame,
           RemoverOK
  <2>7. OneUnwinds'
    BY <1>4 DEF IInv, OneUnwinds, StepsOK, DropOrder, RemoveForce, RemoveFrame
  <2>8. KnowsItsConn'
    BY <1>4 DEF IInv, KnowsItsConn, StepsOK, RemoveForce, RemoveFrame
  <2> QED
    BY <2>1, <2>2, <2>3, <2>4, <2>5, <2>6, <2>7, <2>8 DEF IInv
<1>5. CASE RemoveConn(k)
  <2>1. MapsOK'
    BY <1>5 DEF IInv, MapsOK, Registries, Put, Drop, RemoveConn, RemoveFrame
  <2>2. StepsOK'
    BY <1>5 DEF IInv, StepsOK, DispatchStates, TaskStates, RemoveConn, RemoveFrame
  <2>3. RemoverOK'
    BY <1>5 DEF IInv, RemoverOK, RemoveConn, RemoveFrame
  <2>4. HolderReleases'
    BY <1>5
       DEF IInv, HolderReleases, Before, Sweeping, Streaming, StepsOK, RemoveConn,
           RemoveFrame, RemoverOK
  <2>5. LearntLate'
    BY <1>5 DEF IInv, LearntLate, Before, StepsOK, RemoveConn, RemoveFrame
  <2>6. SweepsItsOwn'
    BY <1>5
       DEF IInv, SweepsItsOwn, StepsOK, Registries, Put, Drop, RemoveConn, RemoveFrame,
           RemoverOK
  <2>7. OneUnwinds'
    BY <1>5 DEF IInv, OneUnwinds, StepsOK, DropOrder, RemoveConn, RemoveFrame
  <2>8. KnowsItsConn'
    BY <1>5 DEF IInv, KnowsItsConn, StepsOK, RemoveConn, RemoveFrame
  <2> QED
    BY <2>1, <2>2, <2>3, <2>4, <2>5, <2>6, <2>7, <2>8 DEF IInv
<1> QED
  BY <1>1, <1>2, <1>3, <1>4, <1>5 DEF Remove

\* A step that changes nothing.
LEMMA StutterStep == IInv /\ UNCHANGED vars => IInv'
<1> SUFFICES ASSUME IInv, UNCHANGED vars PROVE IInv'
  OBVIOUS
<1>1. MapsOK' /\ StepsOK' /\ RemoverOK'
  BY DEF IInv, MapsOK, StepsOK, RemoverOK, vars
<1>2. HolderReleases'
  BY DEF IInv, HolderReleases, Streaming, Sweeping, vars
<1>3. LearntLate' /\ SweepsItsOwn' /\ KnowsItsConn'
  BY DEF IInv, LearntLate, SweepsItsOwn, KnowsItsConn, vars
<1>4. OneUnwinds'
  BY DEF IInv, OneUnwinds, DropOrder, vars
<1> QED
  BY <1>1, <1>2, <1>3, <1>4 DEF IInv

\* Every step preserves the invariant.
LEMMA NextInv == IInv /\ [Next]_vars => IInv'
<1> SUFFICES ASSUME IInv, [Next]_vars PROVE IInv'
  OBVIOUS
<1>1. CASE UNCHANGED vars
  BY <1>1, StutterStep
<1>2. CASE Next
  <2>1. ASSUME NEW o \in Ops,
               Lookup(o) \/ Dispatch(o) \/ Run(o) \/ CancelRelease(o) \/ Cancel(o)
        PROVE  IInv'
    BY <2>1, DispatchStep, RunStep, CancelStep
  <2>2. ASSUME NEW k \in Conns, RemoveScan(k) \/ Remove(k)
        PROVE  IInv'
    BY <2>2, RemoveStep
  <2> QED
    BY <1>2, <2>1, <2>2 DEF Next
<1> QED
  BY <1>1, <1>2

\* The invariant holds in every reachable state.
LEMMA Invariance == Spec => []IInv
BY InitInv, NextInv, PTL DEF Spec

\* Every variable of the registry keeps its type.
THEOREM TypeCorrect == Spec => []TypeOK
<1>1. IInv => TypeOK
  BY Types DEF IInv
<1> QED
  BY <1>1, Invariance, PTL

\* A taken slot always has its release ahead of it: no order of dispatch, task, cancel
\* and removal leaves a connection refused as busy for ever.
THEOREM NoOrphanedSlot == Spec => []SlotNotOrphaned
<1>1. IInv => SlotNotOrphaned
  BY DEF IInv, HolderReleases, SlotNotOrphaned, Sweeping
<1> QED
  BY <1>1, Invariance, PTL

\* The operations that have had their slot, as SqlSlot counts them.
Had(o) == /\ job[o].kind = "stream"
          /\ disp[o] \notin Before
          /\ ~ (disp[o] = "refused" /\ at[o] = 1)

\* A step that only frees slots of one operation is a Vacate of SqlSlot, or none.
LEMMA FreesOne ==
    ASSUME IInv, NEW o \in Ops, busy' \in [Conns -> Ops \cup {NoOp}],
           \A k \in Conns : busy'[k] = busy[k] \/ (busy[k] = o /\ busy'[k] = NoOp),
           \A x \in Ops : Had(x)' <=> Had(x)
    PROVE  [Registry!Next]_(Registry!vars)
<1> DEFINE used == {x \in Ops : Had(x)}
<1>1. used' = used
  OBVIOUS
<1>2. busy \in [Conns -> Ops \cup {NoOp}] /\ NoOp \notin Ops
  BY OperationsAssumption DEF IInv, MapsOK
<1>3. CASE busy' = busy
  BY <1>1, <1>3 DEF Registry!vars, Had, Before
<1>4. CASE busy' # busy
  <2>1. PICK k \in Conns : busy'[k] # busy[k]
    BY <1>2, <1>4
  <2>2. busy[k] = o /\ busy'[k] = NoOp
    BY <2>1
  <2>3. \A c \in Conns : busy[c] = o => c = k
    BY <2>2 DEF IInv, HolderReleases
  <2>4. busy' = [busy EXCEPT ![k] = NoOp]
    BY <1>2, <2>2, <2>3
  <2>5. Registry!Vacate(k)
    BY <1>1, <1>2, <2>2, <2>4 DEF Registry!Vacate, Had, Before
  <2> QED
    BY <2>5 DEF Registry!Next
<1> QED
  BY <1>3, <1>4

\* A step that leaves the slots and their history alone is none of SqlSlot.
LEMMA TouchesNoSlot ==
    ASSUME busy' = busy, \A x \in Ops : Had(x)' <=> Had(x)
    PROVE  [Registry!Next]_(Registry!vars)
BY DEF Registry!vars, Had, Before

\* try_acquire takes a free slot for an operation that had none.
LEMMA AcquireTakes ==
    ASSUME IInv, NEW o \in Ops, Acquire(o)
    PROVE  [Registry!Next]_(Registry!vars)
<1> DEFINE used == {x \in Ops : Had(x)}
           k == job[o].conn
<1>1. k \in Conns /\ o \notin used /\ disp \in [Ops -> DispatchStates] /\ disp[o] = "mapped"
  BY DEF IInv, KnowsItsConn, StepsOK, Acquire, Had, Before
<1>2. CASE busy[k] = NoOp
  <2>1. busy' = [busy EXCEPT ![k] = o] /\ disp' = [disp EXCEPT ![o] = "slotted"]
    BY <1>2 DEF Acquire
  <2>2. used' = used \cup {o}
    BY <1>1, <2>1 DEF Acquire, DispatchFrame, Had, Before
  <2>3. Registry!Take(k, o)
    BY <1>1, <1>2, <2>1, <2>2 DEF Registry!Take, Had, Before
  <2> QED
    BY <1>1, <2>3 DEF Registry!Next
<1>3. CASE busy[k] # NoOp
  <2>1. busy' = busy /\ \A x \in Ops : Had(x)' <=> Had(x)
    BY <1>1, <1>3 DEF Acquire, DispatchFrame, Had, Before
  <2> QED
    BY <2>1, TouchesNoSlot
<1> QED
  BY <1>2, <1>3

\* Every step of the registry is a step of SqlSlot or none.
LEMMA StepRefines ==
    ASSUME IInv, [Next]_vars
    PROVE  [Registry!Next]_(Registry!vars)
<1>1. ASSUME NEW o \in Ops, Lookup(o) \/ Dispatch(o)
      PROVE  [Registry!Next]_(Registry!vars)
  <2>1. CASE Lookup(o)
    <3>1. busy' = busy /\ \A x \in Ops : Had(x)' <=> Had(x)
      BY <2>1 DEF IInv, StepsOK, Lookup, DispatchFrame, Had, Before
    <3> QED
      BY <3>1, TouchesNoSlot
  <2>2. CASE Acquire(o)
    BY <2>2, AcquireTakes
  <2>3. CASE Reject(o)
    <3>1. at[o] = 1
      BY <2>3 DEF IInv, OneUnwinds, StepsOK, Reject
    <3>2. busy' = busy /\ \A x \in Ops : Had(x)' <=> Had(x)
      BY <2>3, <3>1 DEF IInv, StepsOK, Reject, DispatchFrame, Had, Before
    <3> QED
      BY <3>2, TouchesNoSlot
  <2>4. CASE \/ MapOp(o) \/ Activate(o) \/ EmitStarted(o) \/ Spawn(o) \/ RegisterTask(o)
    <3>1. busy' = busy /\ \A x \in Ops : Had(x)' <=> Had(x)
      BY <2>4 DEF IInv, StepsOK, MapOp, Activate, EmitStarted, Spawn, RegisterTask,
                  DispatchFrame, Had, Before
    <3> QED
      BY <3>1, TouchesNoSlot
  <2>5. CASE Rollback(o)
    <3>1. LeavesOnly(RollbackOrder[at[o]], o)
      BY <2>5, LeaveStep DEF IInv, Rollback
    <3>2. \A x \in Ops : Had(x)' <=> Had(x)
      BY <2>5, Orders DEF IInv, StepsOK, Rollback, Had, Before
    <3> QED
      BY <3>1, <3>2, FreesOne DEF LeavesOnly
  <2> QED
    BY <1>1, <2>1, <2>2, <2>3, <2>4, <2>5 DEF Dispatch
<1>2. ASSUME NEW o \in Ops, Run(o)
      PROVE  [Registry!Next]_(Registry!vars)
  <2>1. CASE Unwind(o)
    <3>1. LeavesOnly(DropOrder(o)[at[o]], o)
      BY <2>1, LeaveStep DEF IInv, Unwind
    <3>2. disp[o] \in {"spawned", "returned"}
      BY <2>1 DEF IInv, OneUnwinds, Unwind
    <3>3. \A x \in Ops : Had(x)' <=> Had(x)
      BY <2>1, <3>2 DEF IInv, StepsOK, Unwind, Had, Before
    <3> QED
      BY <3>1, <3>3, FreesOne DEF LeavesOnly
  <2>2. CASE ~ Unwind(o)
    <3>1. TaskFrame
      BY <1>2, <2>2
         DEF Run, Poll, RegisterHandle, CheckRequest, Complete, Fail, Interrupt,
                        Notified, DropTask, Report
    <3> QED
      BY <3>1, TouchesNoSlot DEF TaskFrame, Had, Before
  <2> QED
    BY <2>1, <2>2
<1>3. ASSUME NEW o \in Ops, CancelRelease(o) \/ Cancel(o)
      PROVE  [Registry!Next]_(Registry!vars)
  <2>1. \A x \in Ops : Had(x)' <=> Had(x)
    BY <1>3
       DEF Cancel, CancelRelease, CancelKnown, CancelMark, CancelSignal, CancelAbort,
                CancelFrame, Had, Before
  <2>2. CASE CancelRelease(o)
    <3>1. /\ busy' \in [Conns -> Ops \cup {NoOp}]
          /\ \A k \in Conns : busy'[k] = busy[k] \/ (busy[k] = o /\ busy'[k] = NoOp)
      BY <2>2 DEF IInv, MapsOK, CancelRelease, Without
    <3> QED
      BY <2>1, <3>1, FreesOne
  <2>3. CASE Cancel(o)
    <3>1. busy' = busy
      BY <2>3 DEF Cancel, CancelKnown, CancelMark, CancelSignal, CancelAbort
    <3> QED
      BY <2>1, <3>1, TouchesNoSlot
  <2> QED
    BY <1>3, <2>2, <2>3
<1>4. ASSUME NEW k \in Conns, RemoveScan(k) \/ Remove(k)
      PROVE  [Registry!Next]_(Registry!vars)
  <2>1. \A x \in Ops : Had(x)' <=> Had(x)
    BY <1>4 DEF Remove, RemoveScan, RemoveTake, RemoveForget, RemoveForce, RemoveConn,
                RemoveFrame, Had, Before
  <2>2. CASE RemoveForget(k)
    <3>1. remover[k].cur \in Ops
      BY <2>2 DEF IInv, SweepsItsOwn, RemoveForget
    <3>2. LeavesOnly(RemoveOrder[remover[k].at], remover[k].cur)
      BY <2>2, <3>1, LeaveStep DEF IInv, RemoveForget
    <3> QED
      BY <2>1, <3>1, <3>2, FreesOne DEF LeavesOnly
  <2>3. CASE RemoveForce(k)
    <3>1. /\ busy' = [busy EXCEPT ![k] = NoOp]
          /\ busy \in [Conns -> Ops \cup {NoOp}]
      BY <2>3 DEF IInv, MapsOK, RemoveForce
    <3>2. CASE busy[k] = NoOp
      <4>1. busy' = busy
        BY <3>1, <3>2
      <4> QED
        BY <2>1, <4>1, TouchesNoSlot
    <3>3. CASE busy[k] \in Ops
      BY <2>1, <3>1, <3>3, FreesOne
    <3> QED
      BY <3>1, <3>2, <3>3
  <2>4. CASE RemoveScan(k) \/ RemoveTake(k) \/ RemoveConn(k)
    <3>1. busy' = busy
      BY <2>4 DEF RemoveScan, RemoveTake, RemoveConn
    <3> QED
      BY <2>1, <3>1, TouchesNoSlot
  <2> QED
    BY <1>4, <2>2, <2>3, <2>4 DEF Remove
<1>5. CASE UNCHANGED vars
  BY <1>5, TouchesNoSlot DEF vars, Had, Before
<1> QED
  BY <1>1, <1>2, <1>3, <1>4, <1>5 DEF Next

\* The busy map implements the abstract slot: one stream per connection, each takes a
\* slot at most once and only while it is free.
THEOREM SlotRefinement == Spec => ImplementsSlot
<1>1. Init => Registry!Init
  BY DEF Init, Registry!Init
<1>2. IInv /\ [Next]_vars => [Registry!Next]_(Registry!vars)
  BY StepRefines
<1> QED
  BY <1>1, <1>2, Invariance, PTL DEF Spec, ImplementsSlot, Registry!Spec

-----------------------------------------------------------------------------
\* What becomes of a cancel, a report, a handle and the marks of an operation.

\* o is past the first map of the dispatcher, and neither rolls back nor unwinds.
InFlight(o) ==
    /\ disp[o] \in {"mapped", "slotted", "active", "started", "spawned", "returned"}
    /\ task[o] \notin {"unwinding", "over"}
Undisturbed(o) == ~ TornDown(job[o].conn)

\* Nobody but a removal takes the marks of an operation in flight away.
MarksStay(o) ==
    disp[o] # "idle" /\ Undisturbed(o) =>
        /\ InFlight(o) => o \in reg["op_to_conn"]
        /\ task[o] \in {"registered", "querying"} => o \in reg["running_ops"]

\* Where the cancel of a PostgreSQL operation in flight has left its mark.
CancelStands(o) ==
    InFlight(o) /\ Postgres(o) /\ Undisturbed(o) =>
        /\ o \in asked /\ canceller[o] \notin {"released", "known"}
               => o \in reg["cancel_requested"]
        /\ sent[o] = "user" => o \in reg["cancel_requested"]
        /\ task[o] = "querying" /\ o \in asked /\ canceller[o] \in {"idle", "signalled"}
               => sent[o] # "none"

\* Only a cancel asks, and only a cancel or a removal aborts a task, once its handle was
\* stored; nothing is sent before there is a handle to cancel with.
OnlyAsked(o) ==
    /\ o \in reg["cancel_requested"] => o \in asked
    /\ o \in aborted => o \in asked \/ TornDown(job[o].conn)
    /\ o \in aborted \/ o \in reg["op_tasks"] => disp[o] = "returned"
    /\ task[o] \in {"none", "ready", "guarded"} => sent[o] = "none"

\* What a task reports is the last thing before it unwinds, and a user's cancel is no
\* failure.
ReportsLast(o) ==
    /\ terminal[o] # "none" => task[o] \in {"unwinding", "over"}
    /\ job[o].kind # "analyze" /\ terminal[o] = "interrupted" /\ Undisturbed(o)
           => sent[o] # "user"

\* An analysis starts once its handle is stored, and takes the handle with it.
AnalysisIsStored(o) ==
    job[o].kind = "analyze" =>
        /\ task[o] \notin {"none", "ready"} => disp[o] = "returned"
        /\ task[o] = "over" \/ (task[o] = "unwinding" /\ at[o] = 6)
               => o \notin reg["op_tasks"]

\* An operation leaves the maps it entered by itself, each at its place in the order.
Own == {"op_to_conn", "active_ops", "running_ops"}
LeftBehind(order, o) == \A i \in 1..(at[o] - 1) : order[i] \in Own => o \notin reg[order[i]]
LeavesInOrder(o) ==
    /\ task[o] = "unwinding" => LeftBehind(DropOrder(o), o)
    /\ disp[o] = "rollback" => LeftBehind(RollbackOrder, o)
    /\ (task[o] = "over" /\ o \notin aborted) \/ disp[o] = "refused"
           => \A m \in Own : o \notin reg[m]
    /\ disp[o] \in {"idle", "found", "mapped", "slotted", "rejected"}
           => o \notin reg["active_ops"]
    /\ task[o] \in {"none", "ready", "guarded"} => o \notin reg["running_ops"]

Fate(o) == /\ MarksStay(o) /\ CancelStands(o) /\ OnlyAsked(o) /\ ReportsLast(o)
           /\ AnalysisIsStored(o) /\ LeavesInOrder(o)

\* What IInv says of one operation.
LEMMA OpFacts ==
    ASSUME IInv, NEW o \in Ops
    PROVE  /\ MapsOK /\ StepsOK /\ RemoverOK
           /\ Own \subseteq Registries /\ "op_tasks" \in Registries
           /\ "cancel_requested" \in Registries
           /\ \A m \in {"op_to_conn", "active_ops", "running_ops"} : m \in Registries
           /\ disp[o] # "idle" => job[o].conn \in Conns
           /\ task[o] # "none" <=> disp[o] \in {"spawned", "returned"}
           /\ o \in asked => disp[o] \notin Before
           /\ canceller[o] # "idle" => o \in asked
           /\ at[o] # 1 => \/ disp[o] \in {"rollback", "refused"}
                            \/ task[o] \in {"unwinding", "over"}
BY DEF IInv, Own, Registries, KnowsItsConn, OneUnwinds, LearntLate

\* Nothing of o changes, but a removal of its connection may begin.
Same(o) ==
    /\ disp'[o] = disp[o] /\ task'[o] = task[o] /\ at'[o] = at[o] /\ job'[o] = job[o]
    /\ sent'[o] = sent[o] /\ terminal'[o] = terminal[o] /\ canceller'[o] = canceller[o]
    /\ o \in aborted' <=> o \in aborted
    /\ o \in asked' <=> o \in asked
    /\ \A m \in Registries : o \in reg'[m] <=> o \in reg[m]
    /\ \A k \in Conns : TornDown(k) => TornDown(k)'

\* A step that does not touch o leaves its fate.
LEMMA SameStep ==
    ASSUME IInv, NEW o \in Ops, Fate(o), Same(o)
    PROVE  Fate(o)'
<1>0. /\ Own \subseteq Registries /\ "op_tasks" \in Registries
      /\ "cancel_requested" \in Registries
      /\ \A m \in {"op_to_conn", "active_ops", "running_ops"} : m \in Registries
      /\ disp[o] # "idle" => job[o].conn \in Conns
      /\ task[o] # "none" <=> disp[o] \in {"spawned", "returned"}
  BY OpFacts
<1>1. disp[o] # "idle" /\ Undisturbed(o)' => Undisturbed(o)
  BY <1>0 DEF Same, Undisturbed
<1>2. disp[o] # "idle" /\ TornDown(job[o].conn) => TornDown(job[o].conn)'
  BY <1>0 DEF Same
<1>3. MarksStay(o)'
  BY <1>0, <1>1 DEF Fate, Same, MarksStay, InFlight
<1>4. CancelStands(o)'
  BY <1>0, <1>1 DEF Fate, Same, CancelStands, InFlight, Postgres
<1>5. OnlyAsked(o)'
  BY <1>0, <1>2 DEF Fate, Same, OnlyAsked, TornDown
<1>6. ReportsLast(o)'
  BY <1>0, <1>1 DEF Fate, Same, ReportsLast
<1>7. AnalysisIsStored(o)'
  BY <1>0 DEF Fate, Same, AnalysisIsStored
<1>8. LeavesInOrder(o)'
  <2>1. DropOrder(o)' = DropOrder(o)
    BY DEF Same, DropOrder
  <2> QED
    BY <1>0, <2>1 DEF Fate, Same, LeavesInOrder, LeftBehind
<1> QED
  BY <1>3, <1>4, <1>5, <1>6, <1>7, <1>8 DEF Fate

\* One step of a rollback, an unwinding or a removal takes one operation out of one map.
LEMMA LeaveMarks ==
    ASSUME MapsOK, NEW m, NEW p \in Ops, NEW by \in {"user", "teardown"}, Leave(m, p, by)
    PROVE  /\ \A n \in Registries, o \in Ops :
                  o \in reg'[n] <=> o \in reg[n] /\ ~ (n = m /\ o = p)
           /\ \A o \in Ops :
                  o # p => (o \in aborted' <=> o \in aborted) /\ sent'[o] = sent[o]
           /\ \/ aborted' = aborted
              \/ p \in reg["op_tasks"] /\ Live(p) /\ aborted' = aborted \cup {p}
           /\ m # "handle" \/ task[p] \notin {"registered", "querying"} => sent' = sent
<1>1. \A n \in Registries, o \in Ops : o \in reg'[n] <=> o \in reg[n] /\ ~ (n = m /\ o = p)
  <2>1. CASE m \in Registries
    <3>1. reg' = [reg EXCEPT ![m] = @ \ {p}]
      BY <2>1 DEF Leave, Drop
    <3> QED
      BY <3>1, <2>1 DEF MapsOK
  <2>2. CASE m \notin Registries
    BY <2>2 DEF Leave
  <2> QED
    BY <2>1, <2>2
<1>2. \A o \in Ops : o # p => (o \in aborted' <=> o \in aborted)
  BY DEF Leave, Abort
<1>3. \/ aborted' = aborted
      \/ p \in reg["op_tasks"] /\ Live(p) /\ aborted' = aborted \cup {p}
  BY DEF Leave, Abort
<1>4. /\ m # "handle" \/ task[p] \notin {"registered", "querying"} => sent' = sent
      /\ \A o \in Ops : o # p => sent'[o] = sent[o]
  BY DEF Leave, Signal, MapsOK
<1> QED
  BY <1>1, <1>2, <1>3, <1>4

\* The steps o's own dispatcher, task and canceller take.
Mine(o) == Lookup(o) \/ Dispatch(o) \/ Run(o) \/ CancelRelease(o) \/ Cancel(o)

\* A removal of o's connection forgets o.
Forgotten(o) == \E k \in Conns : RemoveForget(k) /\ remover[k].cur = o

\* The steps of another operation do not touch o.
LEMMA OthersStep ==
    ASSUME IInv, NEW o \in Ops, NEW p \in Ops, p # o, Mine(p)
    PROVE  Same(o)
<1>0. MapsOK /\ StepsOK
  BY OpFacts
<1>1. CASE Lookup(p) \/ MapOp(p) \/ Acquire(p) \/ Reject(p) \/ Activate(p) \/ EmitStarted(p)
  <2>1. UNCHANGED <<at, aborted, sent, terminal, asked, canceller, remover>>
    BY <1>1 DEF Lookup, MapOp, Acquire, Reject, Activate, EmitStarted, DispatchFrame
  <2>2. disp'[o] = disp[o] /\ task'[o] = task[o] /\ job'[o] = job[o]
    BY <1>0, <1>1 DEF Lookup, MapOp, Acquire, Reject, Activate, EmitStarted, StepsOK
  <2>3. \A m \in Registries : o \in reg'[m] <=> o \in reg[m]
    BY <1>0, <1>1 DEF Lookup, MapOp, Acquire, Reject, Activate, EmitStarted, MapsOK, Put,
       Drop
  <2> QED
    BY <2>1, <2>2, <2>3 DEF Same, TornDown
<1>2. CASE Spawn(p) \/ RegisterTask(p)
  <2>1. UNCHANGED <<at, aborted, sent, terminal, asked, canceller, remover, job>>
    BY <1>2 DEF Spawn, RegisterTask, DispatchFrame
  <2>2. disp'[o] = disp[o] /\ task'[o] = task[o]
    BY <1>0, <1>2 DEF Spawn, RegisterTask, StepsOK
  <2>3. \A m \in Registries : o \in reg'[m] <=> o \in reg[m]
    BY <1>0, <1>2 DEF Spawn, RegisterTask, MapsOK, Put
  <2> QED
    BY <2>1, <2>2, <2>3 DEF Same, TornDown
<1>3. CASE Rollback(p) \/ Unwind(p)
  <2>1. PICK m : Leave(m, p, "user")
    BY <1>3 DEF Rollback, Unwind
  <2>2. UNCHANGED <<terminal, asked, canceller, remover, job>>
    BY <1>3 DEF Rollback, Unwind
  <2>3. disp'[o] = disp[o] /\ task'[o] = task[o] /\ at'[o] = at[o]
    BY <1>0, <1>3 DEF Rollback, Unwind, StepsOK
  <2> QED
    BY <1>0, <2>1, <2>2, <2>3, LeaveMarks DEF Same, TornDown
<1>4. CASE \/ Poll(p) \/ RegisterHandle(p) \/ CheckRequest(p) \/ Complete(p) \/ Fail(p)
           \/ Interrupt(p) \/ Notified(p) \/ DropTask(p)
  <2>1. UNCHANGED <<job, disp, at, aborted, asked, canceller, remover>>
    BY <1>4 DEF Poll, RegisterHandle, CheckRequest, Complete, Fail, Interrupt, Notified,
       DropTask, Report, TaskFrame
  <2>2. task'[o] = task[o] /\ terminal'[o] = terminal[o] /\ sent'[o] = sent[o]
    BY <1>0, <1>4 DEF Poll, RegisterHandle, CheckRequest, Complete, Fail, Interrupt,
       Notified,
       DropTask, Report, StepsOK, MapsOK
  <2>3. \A m \in Registries : o \in reg'[m] <=> o \in reg[m]
    BY <1>0, <1>4 DEF Poll, RegisterHandle, CheckRequest, Complete, Fail, Interrupt,
       Notified,
       DropTask, Report, MapsOK, Put, Drop
  <2> QED
    BY <2>1, <2>2, <2>3 DEF Same, TornDown
<1>5. CASE CancelRelease(p) \/ Cancel(p)
  <2>1. UNCHANGED <<job, disp, at, task, terminal, remover>>
    BY <1>5 DEF CancelRelease, Cancel, CancelKnown, CancelMark, CancelSignal, CancelAbort,
       CancelFrame
  <2>2. canceller'[o] = canceller[o] /\ sent'[o] = sent[o] /\ (o \in asked' <=> o \in asked)
    BY <1>0, <1>5 DEF CancelRelease, Cancel, CancelKnown, CancelMark, CancelSignal,
       CancelAbort,
       Signal, StepsOK, MapsOK
  <2>3. o \in aborted' <=> o \in aborted
    BY <1>5 DEF CancelRelease, Cancel, CancelKnown, CancelMark, CancelSignal, CancelAbort,
       Abort
  <2>4. \A m \in Registries : o \in reg'[m] <=> o \in reg[m]
    BY <1>0, <1>5 DEF CancelRelease, Cancel, CancelKnown, CancelMark, CancelSignal,
       CancelAbort,
       MapsOK, Put, Drop
  <2> QED
    BY <2>1, <2>2, <2>3, <2>4 DEF Same, TornDown
<1> QED
  BY <1>1, <1>2, <1>3, <1>4, <1>5 DEF Mine, Dispatch, Run

\* Every step is o's own, forgets o, or does not touch it.
LEMMA WhoSteps ==
    ASSUME IInv, NEW o \in Ops, [Next]_vars
    PROVE  Mine(o) \/ Forgotten(o) \/ Same(o)
<1>0. MapsOK /\ StepsOK /\ RemoverOK
  BY OpFacts
<1>1. CASE \E p \in Ops : Mine(p)
  BY <1>1, OthersStep
<1>2. CASE \E k \in Conns :
              RemoveScan(k) \/ RemoveTake(k) \/ RemoveForce(k) \/ RemoveConn(k)
  <2>1. PICK k \in Conns : RemoveScan(k) \/ RemoveTake(k) \/ RemoveForce(k) \/ RemoveConn(k)
    BY <1>2
  <2>2. UNCHANGED <<reg, aborted, sent, job, disp, task, at, terminal, asked, canceller>>
    BY <2>1 DEF RemoveScan, RemoveTake, RemoveForce, RemoveConn, RemoveFrame
  <2>3. \A j \in Conns : j # k => remover'[j] = remover[j]
    BY <1>0, <2>1 DEF RemoveScan, RemoveTake, RemoveForce, RemoveConn, RemoverOK
  <2>4. remover'[k].pc # "idle"
    <3>1. CASE RemoveScan(k)
      BY <1>0, <3>1 DEF RemoveScan, RemoverOK
    <3>2. CASE RemoveTake(k)
      BY <1>0, <3>2 DEF RemoveTake, RemoverOK
    <3>3. CASE RemoveForce(k) \/ RemoveConn(k)
      BY <1>0, <3>3 DEF RemoveForce, RemoveConn, RemoverOK
    <3> QED
      BY <2>1, <3>1, <3>2, <3>3
  <2> QED
    BY <2>2, <2>3, <2>4 DEF Same, TornDown
<1>3. ASSUME NEW k \in Conns, RemoveForget(k), remover[k].cur # o
      PROVE  Same(o)
  <2>1. remover[k].cur \in Ops
    BY <1>3 DEF IInv, SweepsItsOwn, RemoveForget
  <2>2. Leave(RemoveOrder[remover[k].at], remover[k].cur, "teardown")
    BY <1>3 DEF RemoveForget
  <2>3. UNCHANGED <<job, disp, task, at, terminal, asked, canceller>>
    BY <1>3 DEF RemoveForget, RemoveFrame
  <2>4. \A j \in Conns : j # k => remover'[j] = remover[j]
    BY <1>0, <1>3 DEF RemoveForget, RemoverOK
  <2>5. remover'[k].pc # "idle"
    BY <1>0, <1>3 DEF RemoveForget, RemoverOK
  <2> QED
    BY <1>0, <1>3, <2>1, <2>2, <2>3, <2>4, <2>5, LeaveMarks DEF Same, TornDown
<1>4. CASE UNCHANGED vars
  BY <1>4 DEF Same, TornDown, vars
<1> QED
  BY <1>1, <1>2, <1>3, <1>4 DEF Next, Remove, Mine, Forgotten

\* A removal that forgets o was to disturb it.
LEMMA ForgottenStep ==
    ASSUME IInv, NEW o \in Ops, Fate(o), Forgotten(o)
    PROVE  Fate(o)'
<1>1. PICK k \in Conns : RemoveForget(k) /\ remover[k].cur = o
  BY DEF Forgotten
<1>2. MapsOK /\ RemoverOK /\ job[o].conn = k /\ Own \subseteq Registries
      /\ "op_tasks" \in Registries /\ "cancel_requested" \in Registries
  BY <1>1, OpFacts DEF IInv, SweepsItsOwn, RemoveForget
<1>3. UNCHANGED <<job, disp, task, at, terminal, asked, canceller>> /\ TornDown(k)'
  BY <1>1, <1>2 DEF RemoveForget, RemoveFrame, RemoverOK, TornDown
<1>4. Leave(RemoveOrder[remover[k].at], o, "teardown")
  BY <1>1 DEF RemoveForget
<1>5. /\ \A n \in Registries : o \in reg'[n] => o \in reg[n]
      /\ o \in aborted => o \in aborted'
      /\ o \in aborted' => o \in aborted \/ o \in reg["op_tasks"]
      /\ task[o] \in {"none", "ready", "guarded"} => sent'[o] = sent[o]
  BY <1>2, <1>4, LeaveMarks
<1>6. ~ Undisturbed(o)'
  BY <1>2, <1>3 DEF Undisturbed
<1>7. MarksStay(o)' /\ CancelStands(o)'
  BY <1>6 DEF MarksStay, CancelStands
<1>8. OnlyAsked(o)'
  BY <1>2, <1>3, <1>5 DEF Fate, OnlyAsked
<1>9. ReportsLast(o)'
  BY <1>3, <1>6 DEF Fate, ReportsLast
<1>10. AnalysisIsStored(o)'
  BY <1>2, <1>3, <1>5 DEF Fate, AnalysisIsStored
<1>11. LeavesInOrder(o)'
  <2>1. DropOrder(o)' = DropOrder(o)
    BY <1>3 DEF DropOrder
  <2>2. "active_ops" \in Registries /\ "running_ops" \in Registries
    BY DEF Registries
  <2> QED
    BY <1>2, <1>3, <1>5, <2>1, <2>2 DEF Fate, LeavesInOrder, LeftBehind
<1> QED
  BY <1>7, <1>8, <1>9, <1>10, <1>11 DEF Fate

\* The steps of the dispatcher before it rolls back.
LEMMA DispatchFate ==
    ASSUME IInv, NEW o \in Ops, Fate(o),
           \/ Lookup(o) \/ MapOp(o) \/ Acquire(o) \/ Reject(o)
           \/ Activate(o) \/ EmitStarted(o) \/ Spawn(o) \/ RegisterTask(o)
    PROVE  Fate(o)'
<1>0. /\ MapsOK /\ StepsOK
      /\ Own \subseteq Registries /\ "op_tasks" \in Registries
      /\ "cancel_requested" \in Registries
      /\ \A m \in {"op_to_conn", "active_ops", "running_ops"} : m \in Registries
      /\ disp[o] # "idle" => job[o].conn \in Conns
      /\ task[o] # "none" <=> disp[o] \in {"spawned", "returned"}
      /\ o \in asked => disp[o] \notin Before
      /\ canceller[o] # "idle" => o \in asked
      /\ at[o] # 1 => \/ disp[o] \in {"rollback", "refused"}
                       \/ task[o] \in {"unwinding", "over"}
  BY OpFacts
<1>1. CASE Lookup(o)
  <2>1. MarksStay(o)'
    BY <1>0, <1>1 DEF Fate, MarksStay, InFlight, Undisturbed, TornDown, Lookup,
       DispatchFrame, MapsOK, StepsOK, Before
  <2>2. CancelStands(o)'
    BY <1>0, <1>1 DEF Fate, CancelStands, InFlight, Undisturbed, TornDown, Postgres,
       Lookup, DispatchFrame, MapsOK, StepsOK, Before
  <2>3. OnlyAsked(o)'
    BY <1>0, <1>1 DEF Fate, OnlyAsked, TornDown, Lookup, DispatchFrame, MapsOK, StepsOK,
       Before
  <2>4. ReportsLast(o)'
    BY <1>0, <1>1 DEF Fate, ReportsLast, Undisturbed, TornDown, Lookup, DispatchFrame,
       MapsOK, StepsOK, Before
  <2>5. AnalysisIsStored(o)'
    BY <1>0, <1>1 DEF Fate, AnalysisIsStored, Lookup, DispatchFrame, MapsOK, StepsOK, Before
  <2>6. LeavesInOrder(o)'
    BY <1>0, <1>1 DEF Fate, LeavesInOrder, LeftBehind, DropOrder, Own, Lookup,
       DispatchFrame, MapsOK, StepsOK, Before
  <2> QED
    BY <2>1, <2>2, <2>3, <2>4, <2>5, <2>6 DEF Fate
<1>2. CASE MapOp(o)
  <2>1. MarksStay(o)'
    BY <1>0, <1>2 DEF Fate, MarksStay, InFlight, Undisturbed, TornDown, MapOp, Put,
       DispatchFrame, MapsOK, StepsOK, Before
  <2>2. CancelStands(o)'
    <3>1. o \notin asked' /\ sent'[o] = "none" /\ task'[o] # "querying"
      BY <1>0, <1>2 DEF Fate, OnlyAsked, MapOp, Before, DispatchFrame
    <3> QED
      BY <3>1 DEF CancelStands
  <2>3. OnlyAsked(o)'
    BY <1>0, <1>2 DEF Fate, OnlyAsked, TornDown, MapOp, Put, DispatchFrame, MapsOK,
       StepsOK, Before
  <2>4. ReportsLast(o)'
    BY <1>0, <1>2 DEF Fate, ReportsLast, Undisturbed, TornDown, MapOp, Put, DispatchFrame,
       MapsOK, StepsOK, Before
  <2>5. AnalysisIsStored(o)'
    BY <1>0, <1>2 DEF Fate, AnalysisIsStored, MapOp, Put, DispatchFrame, MapsOK, StepsOK,
       Before
  <2>6. LeavesInOrder(o)'
    BY <1>0, <1>2 DEF Fate, LeavesInOrder, LeftBehind, DropOrder, Own, MapOp, Put,
       DispatchFrame, MapsOK, StepsOK, Before
  <2> QED
    BY <2>1, <2>2, <2>3, <2>4, <2>5, <2>6 DEF Fate
<1>3. CASE Acquire(o)
  <2>1. MarksStay(o)'
    BY <1>0, <1>3 DEF Fate, MarksStay, InFlight, Undisturbed, TornDown, Acquire,
       DispatchFrame, MapsOK, StepsOK, Before
  <2>2. CancelStands(o)'
    BY <1>0, <1>3 DEF Fate, CancelStands, InFlight, Undisturbed, TornDown, Postgres,
       Acquire, DispatchFrame, MapsOK, StepsOK, Before
  <2>3. OnlyAsked(o)'
    BY <1>0, <1>3 DEF Fate, OnlyAsked, TornDown, Acquire, DispatchFrame, MapsOK, StepsOK,
       Before
  <2>4. ReportsLast(o)'
    BY <1>0, <1>3 DEF Fate, ReportsLast, Undisturbed, TornDown, Acquire, DispatchFrame,
       MapsOK, StepsOK, Before
  <2>5. AnalysisIsStored(o)'
    BY <1>0, <1>3 DEF Fate, AnalysisIsStored, Acquire, DispatchFrame, MapsOK, StepsOK,
       Before
  <2>6. LeavesInOrder(o)'
    BY <1>0, <1>3 DEF Fate, LeavesInOrder, LeftBehind, DropOrder, Own, Acquire,
       DispatchFrame, MapsOK, StepsOK, Before
  <2> QED
    BY <2>1, <2>2, <2>3, <2>4, <2>5, <2>6 DEF Fate
<1>4. CASE Reject(o)
  <2>1. MarksStay(o)'
    BY <1>0, <1>4 DEF Fate, MarksStay, InFlight, Undisturbed, TornDown, Reject, Drop,
       DispatchFrame, MapsOK, StepsOK, Before
  <2>2. CancelStands(o)'
    BY <1>0, <1>4 DEF Fate, CancelStands, InFlight, Undisturbed, TornDown, Postgres,
       Reject, Drop, DispatchFrame, MapsOK, StepsOK, Before
  <2>3. OnlyAsked(o)'
    BY <1>0, <1>4 DEF Fate, OnlyAsked, TornDown, Reject, Drop, DispatchFrame, MapsOK,
       StepsOK, Before
  <2>4. ReportsLast(o)'
    BY <1>0, <1>4 DEF Fate, ReportsLast, Undisturbed, TornDown, Reject, Drop,
       DispatchFrame, MapsOK, StepsOK, Before
  <2>5. AnalysisIsStored(o)'
    BY <1>0, <1>4 DEF Fate, AnalysisIsStored, Reject, Drop, DispatchFrame, MapsOK, StepsOK,
       Before
  <2>6. LeavesInOrder(o)'
    BY <1>0, <1>4 DEF Fate, LeavesInOrder, LeftBehind, DropOrder, Own, Reject, Drop,
       DispatchFrame, MapsOK, StepsOK, Before
  <2> QED
    BY <2>1, <2>2, <2>3, <2>4, <2>5, <2>6 DEF Fate
<1>5. CASE Activate(o)
  <2>1. MarksStay(o)'
    BY <1>0, <1>5 DEF Fate, MarksStay, InFlight, Undisturbed, TornDown, Activate, Put,
       DispatchFrame, MapsOK, StepsOK, Before
  <2>2. CancelStands(o)'
    BY <1>0, <1>5 DEF Fate, CancelStands, InFlight, Undisturbed, TornDown, Postgres,
       Activate, Put, DispatchFrame, MapsOK, StepsOK, Before
  <2>3. OnlyAsked(o)'
    BY <1>0, <1>5 DEF Fate, OnlyAsked, TornDown, Activate, Put, DispatchFrame, MapsOK,
       StepsOK, Before
  <2>4. ReportsLast(o)'
    BY <1>0, <1>5 DEF Fate, ReportsLast, Undisturbed, TornDown, Activate, Put,
       DispatchFrame, MapsOK, StepsOK, Before
  <2>5. AnalysisIsStored(o)'
    BY <1>0, <1>5 DEF Fate, AnalysisIsStored, Activate, Put, DispatchFrame, MapsOK,
       StepsOK, Before
  <2>6. LeavesInOrder(o)'
    BY <1>0, <1>5 DEF Fate, LeavesInOrder, LeftBehind, DropOrder, Own, Activate, Put,
       DispatchFrame, MapsOK, StepsOK, Before
  <2> QED
    BY <2>1, <2>2, <2>3, <2>4, <2>5, <2>6 DEF Fate
<1>6. CASE EmitStarted(o)
  <2>1. MarksStay(o)'
    BY <1>0, <1>6 DEF Fate, MarksStay, InFlight, Undisturbed, TornDown, EmitStarted,
       DispatchFrame, MapsOK, StepsOK, Before
  <2>2. CancelStands(o)'
    BY <1>0, <1>6 DEF Fate, CancelStands, InFlight, Undisturbed, TornDown, Postgres,
       EmitStarted, DispatchFrame, MapsOK, StepsOK, Before
  <2>3. OnlyAsked(o)'
    BY <1>0, <1>6 DEF Fate, OnlyAsked, TornDown, EmitStarted, DispatchFrame, MapsOK,
       StepsOK, Before
  <2>4. ReportsLast(o)'
    BY <1>0, <1>6 DEF Fate, ReportsLast, Undisturbed, TornDown, EmitStarted, DispatchFrame,
       MapsOK, StepsOK, Before
  <2>5. AnalysisIsStored(o)'
    BY <1>0, <1>6 DEF Fate, AnalysisIsStored, EmitStarted, DispatchFrame, MapsOK, StepsOK,
       Before
  <2>6. LeavesInOrder(o)'
    BY <1>0, <1>6 DEF Fate, LeavesInOrder, LeftBehind, DropOrder, Own, EmitStarted,
       DispatchFrame, MapsOK, StepsOK, Before
  <2> QED
    BY <2>1, <2>2, <2>3, <2>4, <2>5, <2>6 DEF Fate
<1>7. CASE Spawn(o)
  <2>1. MarksStay(o)'
    BY <1>0, <1>7 DEF Fate, MarksStay, InFlight, Undisturbed, TornDown, Spawn,
       DispatchFrame, MapsOK, StepsOK, Before
  <2>2. CancelStands(o)'
    <3>1. /\ UNCHANGED <<job, canceller, sent, asked, remover>>
          /\ InFlight(o) /\ task'[o] # "querying"
      BY <1>0, <1>7 DEF Spawn, DispatchFrame, MapsOK, StepsOK, InFlight
    <3>2. reg'["cancel_requested"] = reg["cancel_requested"]
      BY <1>0, <1>7 DEF Spawn, MapsOK
    <3> QED
      BY <3>1, <3>2 DEF Fate, CancelStands, Undisturbed, TornDown, Postgres
  <2>3. OnlyAsked(o)'
    BY <1>0, <1>7 DEF Fate, OnlyAsked, TornDown, Spawn, DispatchFrame, MapsOK, StepsOK,
       Before
  <2>4. ReportsLast(o)'
    BY <1>0, <1>7 DEF Fate, ReportsLast, Undisturbed, TornDown, Spawn, DispatchFrame,
       MapsOK, StepsOK, Before
  <2>5. AnalysisIsStored(o)'
    BY <1>0, <1>7 DEF Fate, AnalysisIsStored, Spawn, DispatchFrame, MapsOK, StepsOK, Before
  <2>6. LeavesInOrder(o)'
    <3>1. /\ UNCHANGED <<at, aborted>> /\ at[o] = 1
          /\ disp'[o] \in {"rollback", "spawned"} /\ task'[o] \in {"none", "ready"}
      BY <1>0, <1>7 DEF Spawn, DispatchFrame, MapsOK, StepsOK
    <3>3. reg'["running_ops"] = reg["running_ops"]
      BY <1>0, <1>7 DEF Spawn, MapsOK
    <3>2. LeftBehind(RollbackOrder, o)'
      BY <3>1 DEF LeftBehind
    <3> QED
      BY <1>0, <1>7, <3>1, <3>2, <3>3 DEF Fate, LeavesInOrder, Spawn
  <2> QED
    BY <2>1, <2>2, <2>3, <2>4, <2>5, <2>6 DEF Fate
<1>8. CASE RegisterTask(o)
  <2>1. MarksStay(o)'
    BY <1>0, <1>8 DEF Fate, MarksStay, InFlight, Undisturbed, TornDown, RegisterTask, Put,
       DispatchFrame, MapsOK, StepsOK, Before
  <2>2. CancelStands(o)'
    BY <1>0, <1>8 DEF Fate, CancelStands, InFlight, Undisturbed, TornDown, Postgres,
       RegisterTask, Put, DispatchFrame, MapsOK, StepsOK, Before
  <2>3. OnlyAsked(o)'
    BY <1>0, <1>8 DEF Fate, OnlyAsked, TornDown, RegisterTask, Put, DispatchFrame, MapsOK,
       StepsOK, Before
  <2>4. ReportsLast(o)'
    BY <1>0, <1>8 DEF Fate, ReportsLast, Undisturbed, TornDown, RegisterTask, Put,
       DispatchFrame, MapsOK, StepsOK, Before
  <2>5. AnalysisIsStored(o)'
    BY <1>0, <1>8 DEF Fate, AnalysisIsStored, RegisterTask, Put, DispatchFrame, MapsOK,
       StepsOK, Before
  <2>6. LeavesInOrder(o)'
    BY <1>0, <1>8 DEF Fate, LeavesInOrder, LeftBehind, DropOrder, Own, RegisterTask, Put,
       DispatchFrame, MapsOK, StepsOK, Before
  <2> QED
    BY <2>1, <2>2, <2>3, <2>4, <2>5, <2>6 DEF Fate
<1> QED
  BY <1>1, <1>2, <1>3, <1>4, <1>5, <1>6, <1>7, <1>8

\* The steps of the task before it unwinds.
LEMMA RunFate ==
    ASSUME IInv, NEW o \in Ops, Fate(o),
           \/ Poll(o) \/ RegisterHandle(o) \/ CheckRequest(o) \/ Complete(o)
           \/ Fail(o) \/ Interrupt(o) \/ Notified(o) \/ DropTask(o)
    PROVE  Fate(o)'
<1>0. /\ MapsOK /\ StepsOK
      /\ Own \subseteq Registries /\ "op_tasks" \in Registries
      /\ "cancel_requested" \in Registries
      /\ \A m \in {"op_to_conn", "active_ops", "running_ops"} : m \in Registries
      /\ disp[o] # "idle" => job[o].conn \in Conns
      /\ task[o] # "none" <=> disp[o] \in {"spawned", "returned"}
      /\ o \in asked => disp[o] \notin Before
      /\ canceller[o] # "idle" => o \in asked
      /\ at[o] # 1 => \/ disp[o] \in {"rollback", "refused"}
                       \/ task[o] \in {"unwinding", "over"}
  BY OpFacts
<1>1. CASE Poll(o)
  <2>1. MarksStay(o)'
    BY <1>0, <1>1 DEF Fate, MarksStay, InFlight, Undisturbed, TornDown, Poll, TaskFrame,
       MapsOK, StepsOK, Before
  <2>2. CancelStands(o)'
    BY <1>0, <1>1 DEF Fate, CancelStands, InFlight, Undisturbed, TornDown, Postgres, Poll,
       TaskFrame, MapsOK, StepsOK, Before
  <2>3. OnlyAsked(o)'
    BY <1>0, <1>1 DEF Fate, OnlyAsked, TornDown, Poll, TaskFrame, MapsOK, StepsOK, Before
  <2>4. ReportsLast(o)'
    BY <1>0, <1>1 DEF Fate, ReportsLast, Undisturbed, TornDown, Poll, TaskFrame, MapsOK,
       StepsOK, Before
  <2>5. AnalysisIsStored(o)'
    BY <1>0, <1>1 DEF Fate, AnalysisIsStored, Poll, TaskFrame, MapsOK, StepsOK, Before
  <2>6. LeavesInOrder(o)'
    BY <1>0, <1>1 DEF Fate, LeavesInOrder, LeftBehind, DropOrder, Own, Poll, TaskFrame,
       MapsOK, StepsOK, Before
  <2> QED
    BY <2>1, <2>2, <2>3, <2>4, <2>5, <2>6 DEF Fate
<1>2. CASE RegisterHandle(o)
  <2>1. MarksStay(o)'
    BY <1>0, <1>2 DEF Fate, MarksStay, InFlight, Undisturbed, TornDown, RegisterHandle,
       Put, TaskFrame, MapsOK, StepsOK, Before
  <2>2. CancelStands(o)'
    BY <1>0, <1>2 DEF Fate, CancelStands, InFlight, Undisturbed, TornDown, Postgres,
       RegisterHandle, Put, TaskFrame, MapsOK, StepsOK, Before
  <2>3. OnlyAsked(o)'
    BY <1>0, <1>2 DEF Fate, OnlyAsked, TornDown, RegisterHandle, Put, TaskFrame, MapsOK,
       StepsOK, Before
  <2>4. ReportsLast(o)'
    BY <1>0, <1>2 DEF Fate, ReportsLast, Undisturbed, TornDown, RegisterHandle, Put,
       TaskFrame, MapsOK, StepsOK, Before
  <2>5. AnalysisIsStored(o)'
    BY <1>0, <1>2 DEF Fate, AnalysisIsStored, RegisterHandle, Put, TaskFrame, MapsOK,
       StepsOK, Before
  <2>6. LeavesInOrder(o)'
    BY <1>0, <1>2 DEF Fate, LeavesInOrder, LeftBehind, DropOrder, Own, RegisterHandle, Put,
       TaskFrame, MapsOK, StepsOK, Before
  <2> QED
    BY <2>1, <2>2, <2>3, <2>4, <2>5, <2>6 DEF Fate
<1>3. CASE CheckRequest(o)
  <2>1. MarksStay(o)'
    BY <1>0, <1>3 DEF Fate, MarksStay, InFlight, Undisturbed, TornDown, CheckRequest, Drop,
       Postgres, TaskFrame, MapsOK, StepsOK, Before
  <2>2. CancelStands(o)'
    BY <1>0, <1>3 DEF Fate, CancelStands, InFlight, Undisturbed, TornDown, Postgres,
       CheckRequest, Drop, TaskFrame, MapsOK, StepsOK, Before
  <2>3. OnlyAsked(o)'
    BY <1>0, <1>3 DEF Fate, OnlyAsked, TornDown, CheckRequest, Drop, Postgres, TaskFrame,
       MapsOK, StepsOK, Before
  <2>4. ReportsLast(o)'
    BY <1>0, <1>3 DEF Fate, ReportsLast, Undisturbed, TornDown, CheckRequest, Drop,
       Postgres, TaskFrame, MapsOK, StepsOK, Before
  <2>5. AnalysisIsStored(o)'
    BY <1>0, <1>3 DEF Fate, AnalysisIsStored, CheckRequest, Drop, Postgres, TaskFrame,
       MapsOK, StepsOK, Before
  <2>6. LeavesInOrder(o)'
    BY <1>0, <1>3 DEF Fate, LeavesInOrder, LeftBehind, DropOrder, Own, CheckRequest, Drop,
       Postgres, TaskFrame, MapsOK, StepsOK, Before
  <2> QED
    BY <2>1, <2>2, <2>3, <2>4, <2>5, <2>6 DEF Fate
<1>4. CASE Complete(o)
  <2>1. MarksStay(o)'
    BY <1>0, <1>4 DEF Fate, MarksStay, InFlight, Undisturbed, TornDown, Complete, Report,
       TaskFrame, MapsOK, StepsOK, Before
  <2>2. CancelStands(o)'
    BY <1>0, <1>4 DEF Fate, CancelStands, InFlight, Undisturbed, TornDown, Postgres,
       Complete, Report, TaskFrame, MapsOK, StepsOK, Before
  <2>3. OnlyAsked(o)'
    BY <1>0, <1>4 DEF Fate, OnlyAsked, TornDown, Complete, Report, TaskFrame, MapsOK,
       StepsOK, Before
  <2>4. ReportsLast(o)'
    BY <1>0, <1>4 DEF Fate, ReportsLast, Undisturbed, TornDown, Complete, Report,
       TaskFrame, MapsOK, StepsOK, Before
  <2>5. AnalysisIsStored(o)'
    BY <1>0, <1>4 DEF Fate, AnalysisIsStored, Complete, Report, TaskFrame, MapsOK, StepsOK,
       Before
  <2>6. LeavesInOrder(o)'
    BY <1>0, <1>4 DEF Fate, LeavesInOrder, LeftBehind, DropOrder, Own, Complete, Report,
       TaskFrame, MapsOK, StepsOK, Before
  <2> QED
    BY <2>1, <2>2, <2>3, <2>4, <2>5, <2>6 DEF Fate
<1>5. CASE Fail(o)
  <2>1. MarksStay(o)'
    BY <1>0, <1>5 DEF Fate, MarksStay, InFlight, Undisturbed, TornDown, Fail, Report,
       TaskFrame, MapsOK, StepsOK, Before
  <2>2. CancelStands(o)'
    BY <1>0, <1>5 DEF Fate, CancelStands, InFlight, Undisturbed, TornDown, Postgres, Fail,
       Report, TaskFrame, MapsOK, StepsOK, Before
  <2>3. OnlyAsked(o)'
    BY <1>0, <1>5 DEF Fate, OnlyAsked, TornDown, Fail, Report, TaskFrame, MapsOK, StepsOK,
       Before
  <2>4. ReportsLast(o)'
    BY <1>0, <1>5 DEF Fate, ReportsLast, Undisturbed, TornDown, Fail, Report, TaskFrame,
       MapsOK, StepsOK, Before
  <2>5. AnalysisIsStored(o)'
    BY <1>0, <1>5 DEF Fate, AnalysisIsStored, Fail, Report, TaskFrame, MapsOK, StepsOK,
       Before
  <2>6. LeavesInOrder(o)'
    BY <1>0, <1>5 DEF Fate, LeavesInOrder, LeftBehind, DropOrder, Own, Fail, Report,
       TaskFrame, MapsOK, StepsOK, Before
  <2> QED
    BY <2>1, <2>2, <2>3, <2>4, <2>5, <2>6 DEF Fate
<1>6. CASE Interrupt(o)
  <2>1. MarksStay(o)'
    BY <1>0, <1>6 DEF Fate, MarksStay, InFlight, Undisturbed, TornDown, Interrupt, Report,
       Postgres, TaskFrame, MapsOK, StepsOK, Before
  <2>2. CancelStands(o)'
    BY <1>0, <1>6 DEF Fate, CancelStands, InFlight, Undisturbed, TornDown, Postgres,
       Interrupt, Report, TaskFrame, MapsOK, StepsOK, Before
  <2>3. OnlyAsked(o)'
    BY <1>0, <1>6 DEF Fate, OnlyAsked, TornDown, Interrupt, Report, Postgres, TaskFrame,
       MapsOK, StepsOK, Before
  <2>4. ReportsLast(o)'
    <3>1. InFlight(o) /\ Postgres(o) /\ task'[o] = "unwinding"
          /\ UNCHANGED <<job, sent, remover, reg>>
      BY <1>0, <1>6 DEF Interrupt, Report, TaskFrame, StepsOK, InFlight
    <3>2. terminal'[o] = "interrupted" /\ job[o].kind # "analyze"
             => o \notin reg["cancel_requested"]
      BY <1>0, <1>6 DEF Interrupt, Report, StepsOK
    <3> QED
      BY <3>1, <3>2 DEF Fate, CancelStands, ReportsLast, Undisturbed, TornDown
  <2>5. AnalysisIsStored(o)'
    BY <1>0, <1>6 DEF Fate, AnalysisIsStored, Interrupt, Report, Postgres, TaskFrame,
       MapsOK, StepsOK, Before
  <2>6. LeavesInOrder(o)'
    BY <1>0, <1>6 DEF Fate, LeavesInOrder, LeftBehind, DropOrder, Own, Interrupt, Report,
       Postgres, TaskFrame, MapsOK, StepsOK, Before
  <2> QED
    BY <2>1, <2>2, <2>3, <2>4, <2>5, <2>6 DEF Fate
<1>7. CASE Notified(o)
  <2>1. MarksStay(o)'
    BY <1>0, <1>7 DEF Fate, MarksStay, InFlight, Undisturbed, TornDown, Notified, Report,
       Postgres, TaskFrame, MapsOK, StepsOK, Before
  <2>2. CancelStands(o)'
    BY <1>0, <1>7 DEF Fate, CancelStands, InFlight, Undisturbed, TornDown, Postgres,
       Notified, Report, TaskFrame, MapsOK, StepsOK, Before
  <2>3. OnlyAsked(o)'
    BY <1>0, <1>7 DEF Fate, OnlyAsked, TornDown, Notified, Report, Postgres, TaskFrame,
       MapsOK, StepsOK, Before
  <2>4. ReportsLast(o)'
    BY <1>0, <1>7 DEF Fate, ReportsLast, Undisturbed, TornDown, Notified, Report, Postgres,
       TaskFrame, MapsOK, StepsOK, Before
  <2>5. AnalysisIsStored(o)'
    BY <1>0, <1>7 DEF Fate, AnalysisIsStored, Notified, Report, Postgres, TaskFrame,
       MapsOK, StepsOK, Before
  <2>6. LeavesInOrder(o)'
    BY <1>0, <1>7 DEF Fate, LeavesInOrder, LeftBehind, DropOrder, Own, Notified, Report,
       Postgres, TaskFrame, MapsOK, StepsOK, Before
  <2> QED
    BY <2>1, <2>2, <2>3, <2>4, <2>5, <2>6 DEF Fate
<1>8. CASE DropTask(o)
  <2>1. MarksStay(o)'
    BY <1>0, <1>8 DEF Fate, MarksStay, InFlight, Undisturbed, TornDown, DropTask, Live,
       TaskFrame, MapsOK, StepsOK, Before
  <2>2. CancelStands(o)'
    BY <1>0, <1>8 DEF Fate, CancelStands, InFlight, Undisturbed, TornDown, Postgres,
       DropTask, Live, TaskFrame, MapsOK, StepsOK, Before
  <2>3. OnlyAsked(o)'
    BY <1>0, <1>8 DEF Fate, OnlyAsked, TornDown, DropTask, Live, TaskFrame, MapsOK,
       StepsOK, Before
  <2>4. ReportsLast(o)'
    BY <1>0, <1>8 DEF Fate, ReportsLast, Undisturbed, TornDown, DropTask, Live, TaskFrame,
       MapsOK, StepsOK, Before
  <2>5. AnalysisIsStored(o)'
    <3>1. /\ UNCHANGED <<at, job, disp, reg>> /\ at[o] = 1 /\ o \in aborted
          /\ job[o].kind = "analyze" => task'[o] = "unwinding"
      BY <1>0, <1>8 DEF DropTask, Live, TaskFrame, StepsOK
    <3> QED
      BY <3>1 DEF Fate, OnlyAsked, AnalysisIsStored
  <2>6. LeavesInOrder(o)'
    <3>1. /\ UNCHANGED <<at, aborted, disp, reg>> /\ at[o] = 1 /\ o \in aborted
          /\ disp[o] \in {"spawned", "returned"}
          /\ task'[o] \in {"over", "unwinding"}
      BY <1>0, <1>8 DEF DropTask, Live, TaskFrame, StepsOK
    <3>2. LeftBehind(DropOrder(o), o)'
      BY <3>1 DEF LeftBehind
    <3> QED
      BY <1>0, <3>1, <3>2 DEF LeavesInOrder
  <2> QED
    BY <2>1, <2>2, <2>3, <2>4, <2>5, <2>6 DEF Fate
<1> QED
  BY <1>1, <1>2, <1>3, <1>4, <1>5, <1>6, <1>7, <1>8

\* The steps of a cancel.
LEMMA CancelFate ==
    ASSUME IInv, NEW o \in Ops, Fate(o),
           \/ CancelRelease(o) \/ CancelKnown(o) \/ CancelMark(o)
           \/ CancelSignal(o) \/ CancelAbort(o)
    PROVE  Fate(o)'
<1>0. /\ MapsOK /\ StepsOK
      /\ Own \subseteq Registries /\ "op_tasks" \in Registries
      /\ "cancel_requested" \in Registries
      /\ \A m \in {"op_to_conn", "active_ops", "running_ops"} : m \in Registries
      /\ disp[o] # "idle" => job[o].conn \in Conns
      /\ task[o] # "none" <=> disp[o] \in {"spawned", "returned"}
      /\ o \in asked => disp[o] \notin Before
      /\ canceller[o] # "idle" => o \in asked
      /\ at[o] # 1 => \/ disp[o] \in {"rollback", "refused"}
                       \/ task[o] \in {"unwinding", "over"}
  BY OpFacts
<1>1. CASE CancelRelease(o)
  <2>1. MarksStay(o)'
    BY <1>0, <1>1 DEF Fate, MarksStay, InFlight, Undisturbed, TornDown, CancelRelease,
       CancelFrame, MapsOK, StepsOK, Before
  <2>2. CancelStands(o)'
    BY <1>0, <1>1 DEF Fate, CancelStands, InFlight, Undisturbed, TornDown, Postgres,
       CancelRelease, CancelFrame, MapsOK, StepsOK, Before
  <2>3. OnlyAsked(o)'
    BY <1>0, <1>1 DEF Fate, OnlyAsked, TornDown, CancelRelease, CancelFrame, MapsOK,
       StepsOK, Before
  <2>4. ReportsLast(o)'
    BY <1>0, <1>1 DEF Fate, ReportsLast, Undisturbed, TornDown, CancelRelease, CancelFrame,
       MapsOK, StepsOK, Before
  <2>5. AnalysisIsStored(o)'
    BY <1>0, <1>1 DEF Fate, AnalysisIsStored, CancelRelease, CancelFrame, MapsOK, StepsOK,
       Before
  <2>6. LeavesInOrder(o)'
    BY <1>0, <1>1 DEF Fate, LeavesInOrder, LeftBehind, DropOrder, Own, CancelRelease,
       CancelFrame, MapsOK, StepsOK, Before
  <2> QED
    BY <2>1, <2>2, <2>3, <2>4, <2>5, <2>6 DEF Fate
<1>2. CASE CancelKnown(o)
  <2>1. MarksStay(o)'
    BY <1>0, <1>2 DEF Fate, MarksStay, InFlight, Undisturbed, TornDown, CancelKnown, Known,
       CancelFrame, MapsOK, StepsOK, Before
  <2>2. CancelStands(o)'
    <3>1. UNCHANGED <<job, disp, task, sent, asked, remover, reg>>
      BY <1>2 DEF CancelKnown, CancelFrame
    <3>2. canceller'[o] = "known" \/ o \notin reg["op_to_conn"]
      BY <1>0, <1>2 DEF CancelKnown, Known, StepsOK, Registries
    <3>3. InFlight(o) => disp[o] # "idle"
      BY DEF InFlight
    <3> QED
      BY <3>1, <3>2, <3>3 DEF Fate, MarksStay, CancelStands, InFlight, Undisturbed,
         TornDown,
         Postgres
  <2>3. OnlyAsked(o)'
    BY <1>0, <1>2 DEF Fate, OnlyAsked, TornDown, CancelKnown, Known, CancelFrame, MapsOK,
       StepsOK, Before
  <2>4. ReportsLast(o)'
    BY <1>0, <1>2 DEF Fate, ReportsLast, Undisturbed, TornDown, CancelKnown, Known,
       CancelFrame, MapsOK, StepsOK, Before
  <2>5. AnalysisIsStored(o)'
    BY <1>0, <1>2 DEF Fate, AnalysisIsStored, CancelKnown, Known, CancelFrame, MapsOK,
       StepsOK, Before
  <2>6. LeavesInOrder(o)'
    BY <1>0, <1>2 DEF Fate, LeavesInOrder, LeftBehind, DropOrder, Own, CancelKnown, Known,
       CancelFrame, MapsOK, StepsOK, Before
  <2> QED
    BY <2>1, <2>2, <2>3, <2>4, <2>5, <2>6 DEF Fate
<1>3. CASE CancelMark(o)
  <2>1. MarksStay(o)'
    BY <1>0, <1>3 DEF Fate, MarksStay, InFlight, Undisturbed, TornDown, CancelMark, Put,
       CancelFrame, MapsOK, StepsOK, Before
  <2>2. CancelStands(o)'
    <3>1. o \in reg'["cancel_requested"] /\ canceller'[o] = "marked"
      BY <1>0, <1>3 DEF CancelMark, Put, MapsOK, StepsOK
    <3> QED
      BY <3>1 DEF CancelStands
  <2>3. OnlyAsked(o)'
    BY <1>0, <1>3 DEF Fate, OnlyAsked, TornDown, CancelMark, Put, CancelFrame, MapsOK,
       StepsOK, Before
  <2>4. ReportsLast(o)'
    BY <1>0, <1>3 DEF Fate, ReportsLast, Undisturbed, TornDown, CancelMark, Put,
       CancelFrame, MapsOK, StepsOK, Before
  <2>5. AnalysisIsStored(o)'
    BY <1>0, <1>3 DEF Fate, AnalysisIsStored, CancelMark, Put, CancelFrame, MapsOK,
       StepsOK, Before
  <2>6. LeavesInOrder(o)'
    BY <1>0, <1>3 DEF Fate, LeavesInOrder, LeftBehind, DropOrder, Own, CancelMark, Put,
       CancelFrame, MapsOK, StepsOK, Before
  <2> QED
    BY <2>1, <2>2, <2>3, <2>4, <2>5, <2>6 DEF Fate
<1>4. CASE CancelSignal(o)
  <2>1. MarksStay(o)'
    BY <1>0, <1>4 DEF Fate, MarksStay, InFlight, Undisturbed, TornDown, CancelSignal,
       Signal, Postgres, CancelFrame, MapsOK, StepsOK, Before
  <2>2. CancelStands(o)'
    <3>1. /\ UNCHANGED <<job, disp, task, asked, remover, reg>> /\ o \in asked
          /\ canceller[o] = "marked"
      BY <1>0, <1>4 DEF CancelSignal, CancelFrame
    <3>2. InFlight(o) /\ Postgres(o) /\ Undisturbed(o) => o \in reg["cancel_requested"]
      BY <3>1 DEF Fate, CancelStands
    <3>3. task[o] = "querying" /\ Postgres(o) /\ o \in reg["running_ops"] => sent'[o] # "none"
      BY <1>0, <1>4 DEF CancelSignal, Signal, MapsOK
    <3>4. InFlight(o) => disp[o] # "idle"
      BY DEF InFlight
    <3> QED
      BY <3>1, <3>2, <3>3, <3>4 DEF Fate, MarksStay, CancelStands, InFlight, Undisturbed,
         TornDown, Postgres
  <2>3. OnlyAsked(o)'
    BY <1>0, <1>4 DEF Fate, OnlyAsked, TornDown, CancelSignal, Signal, Postgres,
       CancelFrame, MapsOK, StepsOK, Before
  <2>4. ReportsLast(o)'
    BY <1>0, <1>4 DEF Fate, ReportsLast, Undisturbed, TornDown, CancelSignal, Signal,
       Postgres, CancelFrame, MapsOK, StepsOK, Before
  <2>5. AnalysisIsStored(o)'
    BY <1>0, <1>4 DEF Fate, AnalysisIsStored, CancelSignal, Signal, Postgres, CancelFrame,
       MapsOK, StepsOK, Before
  <2>6. LeavesInOrder(o)'
    BY <1>0, <1>4 DEF Fate, LeavesInOrder, LeftBehind, DropOrder, Own, CancelSignal,
       Signal, Postgres, CancelFrame, MapsOK, StepsOK, Before
  <2> QED
    BY <2>1, <2>2, <2>3, <2>4, <2>5, <2>6 DEF Fate
<1>5. CASE CancelAbort(o)
  <2>1. MarksStay(o)'
    BY <1>0, <1>5 DEF Fate, MarksStay, InFlight, Undisturbed, TornDown, CancelAbort, Abort,
       Drop, CancelFrame, MapsOK, StepsOK, Before
  <2>2. CancelStands(o)'
    <3>1. /\ UNCHANGED <<job, disp, task, asked, sent, remover>>
          /\ canceller[o] = "signalled"
          /\ o \in reg["cancel_requested"] => o \in reg'["cancel_requested"]
      BY <1>0, <1>5 DEF CancelAbort, CancelFrame, Drop, MapsOK
    <3> QED
      BY <3>1 DEF Fate, CancelStands, InFlight, Undisturbed, TornDown, Postgres
  <2>3. OnlyAsked(o)'
    BY <1>0, <1>5 DEF Fate, OnlyAsked, TornDown, CancelAbort, Abort, Drop, CancelFrame,
       MapsOK, StepsOK, Before
  <2>4. ReportsLast(o)'
    BY <1>0, <1>5 DEF Fate, ReportsLast, Undisturbed, TornDown, CancelAbort, Abort, Drop,
       CancelFrame, MapsOK, StepsOK, Before
  <2>5. AnalysisIsStored(o)'
    BY <1>0, <1>5 DEF Fate, AnalysisIsStored, CancelAbort, Abort, Drop, CancelFrame,
       MapsOK, StepsOK, Before
  <2>6. LeavesInOrder(o)'
    BY <1>0, <1>5 DEF Fate, LeavesInOrder, LeftBehind, DropOrder, Own, CancelAbort, Abort,
       Drop, CancelFrame, MapsOK, StepsOK, Before
  <2> QED
    BY <2>1, <2>2, <2>3, <2>4, <2>5, <2>6 DEF Fate
<1> QED
  BY <1>1, <1>2, <1>3, <1>4, <1>5

\* Where an operation leaves each of its own maps.
LEMMA OwnPlaces ==
    ASSUME NEW o \in Ops
    PROVE  /\ \A m \in Own : \E i \in 1..3 : RollbackOrder[i] = m
           /\ \A m \in Own : \E i \in 1..4 : OwnershipOrder[i] = m
           /\ OwnershipOrder[5] = "op_tasks" /\ OwnershipOrder[6] = "permit"
           /\ \A m \in Own : \E i \in 1..8 : UnwindOrder[i] = m
<1>1. /\ RollbackOrder[1] = "active_ops" /\ RollbackOrder[2] = "op_to_conn"
      /\ RollbackOrder[3] = "running_ops"
  BY DEF RollbackOrder
<1>2. /\ OwnershipOrder[1] = "running_ops" /\ OwnershipOrder[3] = "active_ops"
      /\ OwnershipOrder[4] = "op_to_conn" /\ OwnershipOrder[5] = "op_tasks"
      /\ OwnershipOrder[6] = "permit"
  BY DEF OwnershipOrder
<1>3. /\ UnwindOrder[1] = "running_ops" /\ UnwindOrder[2] = "active_ops"
      /\ UnwindOrder[8] = "op_to_conn"
  BY DEF UnwindOrder
<1> QED
  BY <1>1, <1>2, <1>3 DEF Own

\* A place further on, what was left stays left.
LEMMA LeftOneMore ==
    ASSUME NEW o \in Ops, NEW order, Own \subseteq Registries, at[o] \in 1..9,
           LeftBehind(order, o), at'[o] = at[o] + 1,
           \A n \in Registries : o \in reg'[n] => o \in reg[n] /\ n # order[at[o]]
    PROVE  \A i \in 1..(at'[o] - 1) : order[i] \in Own => o \notin reg'[order[i]]
<1> TAKE i \in 1..(at'[o] - 1)
<1>1. i \in 1..(at[o] - 1) \/ i = at[o]
  OBVIOUS
<1> QED
  BY <1>1 DEF LeftBehind

\* The dispatcher's rollback.
LEMMA RollbackFate ==
    ASSUME IInv, NEW o \in Ops, Fate(o), Rollback(o)
    PROVE  Fate(o)'
<1>0. /\ MapsOK /\ StepsOK /\ Own \subseteq Registries
      /\ "op_tasks" \in Registries /\ "cancel_requested" \in Registries
      /\ disp[o] = "rollback" /\ task[o] = "none" /\ at[o] \in 1..6
      /\ \A m \in {"op_to_conn", "active_ops", "running_ops"} : m \in Registries
  BY OpFacts, RollingBack DEF Rollback
<1>1. /\ UNCHANGED <<job, task, terminal, asked, canceller, remover>>
      /\ Leave(RollbackOrder[at[o]], o, "user")
  BY DEF Rollback
<1>2. /\ \A n \in Registries : o \in reg'[n] <=> o \in reg[n] /\ n # RollbackOrder[at[o]]
      /\ aborted' = aborted
      /\ sent'[o] = sent[o]
  BY <1>0, <1>1, LeaveMarks DEF Live
<1>3. \/ disp'[o] = "rollback" /\ at'[o] = at[o] + 1
      \/ disp'[o] = "refused" /\ at[o] = 6
  BY <1>0, Orders DEF Rollback, StepsOK
<1>4. MarksStay(o)' /\ CancelStands(o)'
  BY <1>0, <1>1, <1>3 DEF MarksStay, CancelStands, InFlight
<1>5. OnlyAsked(o)'
  BY <1>0, <1>1, <1>2 DEF Fate, OnlyAsked
<1>6. ReportsLast(o)' /\ AnalysisIsStored(o)'
  BY <1>0, <1>1 DEF Fate, ReportsLast, AnalysisIsStored
<1>7. LeavesInOrder(o)'
  <2>1. LeftBehind(RollbackOrder, o) /\ o \notin reg["running_ops"]
    BY <1>0 DEF Fate, LeavesInOrder
  <2>2. CASE disp'[o] = "rollback" /\ at'[o] = at[o] + 1
    <3>1. LeftBehind(RollbackOrder, o)'
      <4>1. \A i \in 1..(at'[o] - 1) :
                RollbackOrder[i] \in Own => o \notin reg'[RollbackOrder[i]]
        BY <1>0, <1>2, <2>1, <2>2, LeftOneMore
      <4> QED
        BY <4>1 DEF LeftBehind
    <3> QED
      BY <1>0, <1>1, <1>2, <2>1, <2>2, <3>1 DEF LeavesInOrder
  <2>3. CASE disp'[o] = "refused" /\ at[o] = 6
    <3>1. \A m \in Own : o \notin reg[m]
      <4>1. ASSUME NEW m \in Own PROVE o \notin reg[m]
        <5>1. PICK i \in 1..3 : RollbackOrder[i] = m
          BY <4>1, OwnPlaces
        <5> QED
          BY <2>1, <2>3, <4>1, <5>1 DEF LeftBehind
      <4> QED
        BY <4>1
    <3> QED
      BY <1>0, <1>1, <1>2, <2>1, <2>3, <3>1 DEF LeavesInOrder
  <2> QED
    BY <1>3, <2>2, <2>3
<1> QED
  BY <1>4, <1>5, <1>6, <1>7 DEF Fate

\* The task's guards, or an analysis's ownership, drop.
LEMMA UnwindFate ==
    ASSUME IInv, NEW o \in Ops, Fate(o), Unwind(o)
    PROVE  Fate(o)'
<1> DEFINE order == DropOrder(o)
<1>0. /\ MapsOK /\ StepsOK /\ Own \subseteq Registries
      /\ "op_tasks" \in Registries /\ "cancel_requested" \in Registries
      /\ disp[o] \in {"spawned", "returned"} /\ task[o] = "unwinding"
      /\ at[o] \in 1..9 /\ at[o] <= Len(order)
      /\ \A m \in {"op_to_conn", "active_ops", "running_ops"} : m \in Registries
  BY OpFacts DEF Unwind, IInv, OneUnwinds, StepsOK
<1>1. /\ UNCHANGED <<job, disp, terminal, asked, canceller, remover>>
      /\ Leave(order[at[o]], o, "user")
  BY DEF Unwind
<1>2. /\ \A n \in Registries : o \in reg'[n] <=> o \in reg[n] /\ n # order[at[o]]
      /\ aborted' = aborted
      /\ sent'[o] = sent[o]
  BY <1>0, <1>1, LeaveMarks DEF Live
<1>3. \/ task'[o] = "unwinding" /\ at'[o] = at[o] + 1
      \/ task'[o] = "over" /\ at[o] = Len(order)
  BY <1>0 DEF Unwind, StepsOK
<1>d. DropOrder(o)' = order
  BY <1>1 DEF DropOrder
<1>4. MarksStay(o)' /\ CancelStands(o)'
  BY <1>0, <1>3 DEF MarksStay, CancelStands, InFlight
<1>5. OnlyAsked(o)'
  BY <1>0, <1>1, <1>2, <1>3 DEF Fate, OnlyAsked, TornDown
<1>6. ReportsLast(o)'
  BY <1>0, <1>1, <1>2, <1>3 DEF Fate, ReportsLast, Undisturbed, TornDown
<1>7. AnalysisIsStored(o)'
  <2> SUFFICES ASSUME job[o].kind = "analyze"
               PROVE  /\ disp[o] = "returned"
                      /\ task'[o] = "over" \/ at'[o] = 6 => o \notin reg'["op_tasks"]
    BY <1>1, <1>3 DEF AnalysisIsStored
  <2>1. order = OwnershipOrder /\ Len(order) = 6
    BY Orders DEF DropOrder
  <2>2. disp[o] = "returned"
    BY <1>0 DEF Fate, AnalysisIsStored
  <2>3. CASE task'[o] = "unwinding" /\ at'[o] = at[o] + 1
    BY <1>0, <1>2, <2>1, <2>2, <2>3, OwnPlaces
  <2>4. CASE task'[o] = "over" /\ at[o] = Len(order)
    BY <1>0, <1>2, <2>1, <2>2, <2>4 DEF Fate, AnalysisIsStored
  <2> QED
    BY <1>3, <2>3, <2>4
<1>8. LeavesInOrder(o)'
  <2>1. LeftBehind(order, o)
    BY <1>0 DEF Fate, LeavesInOrder
  <2>2. CASE task'[o] = "unwinding" /\ at'[o] = at[o] + 1
    <3>1. \A i \in 1..(at'[o] - 1) : order[i] \in Own => o \notin reg'[order[i]]
      <4> HIDE DEF order
      <4> QED
        BY <1>0, <1>2, <2>1, <2>2, LeftOneMore
    <3>2. LeftBehind(DropOrder(o), o)'
      BY <1>d, <3>1 DEF LeftBehind
    <3> QED
      BY <1>0, <1>1, <2>2, <3>2 DEF LeavesInOrder
  <2>3. CASE task'[o] = "over" /\ at[o] = Len(order)
    <3>1. ASSUME NEW m \in Own PROVE o \notin reg[m]
      <4>1. PICK i \in 1..(at[o] - 1) : order[i] = m
        <5>1. \/ order = OwnershipOrder /\ Len(order) = 6
              \/ order = UnwindOrder /\ Len(order) = 9
          <6>1. order = OwnershipOrder \/ order = UnwindOrder
            BY DEF DropOrder
          <6> HIDE DEF order
          <6> QED
            BY <6>1, Orders
        <5> HIDE DEF order
        <5>2. CASE order = OwnershipOrder /\ Len(order) = 6
          <6>1. PICK i \in 1..4 : OwnershipOrder[i] = m
            BY <3>1, OwnPlaces
          <6> QED
            BY <2>3, <5>2, <6>1
        <5>3. CASE order = UnwindOrder /\ Len(order) = 9
          <6>1. PICK i \in 1..8 : UnwindOrder[i] = m
            BY <3>1, OwnPlaces
          <6> QED
            BY <2>3, <5>3, <6>1
        <5> QED
          BY <5>1, <5>2, <5>3
      <4> QED
        BY <2>1, <3>1, <4>1 DEF LeftBehind
    <3> QED
      BY <1>0, <1>1, <1>2, <2>3, <3>1 DEF LeavesInOrder
  <2> QED
    BY <1>3, <2>2, <2>3
<1> QED
  BY <1>4, <1>5, <1>6, <1>7, <1>8 DEF Fate

\* No step breaks the fate of an operation.
LEMMA FateStep ==
    ASSUME IInv, NEW o \in Ops, Fate(o), [Next]_vars
    PROVE  Fate(o)'
<1>1. CASE Same(o)
  BY <1>1, SameStep
<1>2. CASE Forgotten(o)
  BY <1>2, ForgottenStep
<1>3. CASE Mine(o)
  <2>1. CASE Rollback(o)
    BY <2>1, RollbackFate
  <2>2. CASE Unwind(o)
    BY <2>2, UnwindFate
  <2> QED
    BY <1>3, <2>1, <2>2, DispatchFate, RunFate, CancelFate DEF Mine, Dispatch, Run, Cancel
<1> QED
  BY <1>1, <1>2, <1>3, WhoSteps

\* At the start no operation has a mark.
LEMMA InitFate == Init => \A o \in Ops : Fate(o)
<1> SUFFICES ASSUME Init, NEW o \in Ops PROVE Fate(o)
  OBVIOUS
<1>1. \A m \in Registries : o \notin reg[m]
  BY DEF Init
<1>2. /\ Own \subseteq Registries /\ "op_tasks" \in Registries
      /\ "cancel_requested" \in Registries /\ "active_ops" \in Registries
      /\ "running_ops" \in Registries
  BY DEF Own, Registries
<1>3. MarksStay(o) /\ CancelStands(o)
  BY DEF Init, MarksStay, CancelStands, InFlight
<1>4. OnlyAsked(o) /\ ReportsLast(o) /\ AnalysisIsStored(o)
  BY <1>1, <1>2 DEF Init, OnlyAsked, ReportsLast, AnalysisIsStored
<1>5. LeavesInOrder(o)
  BY <1>1, <1>2 DEF Init, LeavesInOrder
<1> QED
  BY <1>3, <1>4, <1>5 DEF Fate

\* The fate of every operation is kept in every reachable state.
LEMMA FateInvariance == Spec => []\A o \in Ops : Fate(o)
<1>1. IInv /\ (\A o \in Ops : Fate(o)) /\ [Next]_vars => (\A o \in Ops : Fate(o))'
  BY FateStep
<1> QED
  BY <1>1, InitFate, Invariance, PTL DEF Spec

\* A stream nobody cancelled, of a connection nobody removes, owns the slot.
OwnsSlot(o) == Streaming(o) /\ o \notin asked /\ Undisturbed(o) => busy[job[o].conn] = o

\* Only the owner's own release, a cancel of it or a removal takes a slot away.
LEMMA SlotKept ==
    ASSUME IInv, [Next]_vars, NEW o \in Ops, NEW k \in Conns, busy[k] = o,
           ~ (CancelRelease(o) \/ Rollback(o) \/ Unwind(o))
    PROVE  busy'[k] = o \/ TornDown(k)
<1>0. /\ MapsOK /\ StepsOK /\ RemoverOK /\ NoOp \notin Ops
      /\ job[o].conn = k
  BY OpFacts, OperationsAssumption DEF IInv, HolderReleases
<1>1. CASE \E p \in Ops : Acquire(p)
  <2>1. PICK p \in Ops : Acquire(p)
    BY <1>1
  <2>2. \/ busy' = busy
        \/ busy[job[p].conn] = NoOp /\ busy' = [busy EXCEPT ![job[p].conn] = p]
    BY <2>1 DEF Acquire
  <2> QED
    BY <1>0, <2>2 DEF MapsOK
<1>2. CASE \E p \in Ops : Rollback(p) \/ Unwind(p)
  <2>1. PICK p \in Ops : Rollback(p) \/ Unwind(p)
    BY <1>2
  <2>2. PICK m : Leave(m, p, "user")
    BY <2>1 DEF Rollback, Unwind
  <2>3. LeavesOnly(m, p) /\ p # o
    BY <1>0, <2>1, <2>2, LeaveStep
  <2> QED
    BY <2>3 DEF LeavesOnly
<1>3. CASE \E p \in Ops : CancelRelease(p)
  <2>1. PICK p \in Ops : p # o /\ busy' = Without(busy, p)
    BY <1>3 DEF CancelRelease
  <2> QED
    BY <2>1 DEF Without
<1>4. CASE \E j \in Conns : RemoveForget(j)
  <2>1. PICK j \in Conns : RemoveForget(j)
    BY <1>4
  <2>2. /\ remover[j].cur \in Ops /\ job[remover[j].cur].conn = j /\ TornDown(j)
        /\ Leave(RemoveOrder[remover[j].at], remover[j].cur, "teardown")
    BY <2>1 DEF IInv, SweepsItsOwn, RemoveForget, TornDown
  <2>3. LeavesOnly(RemoveOrder[remover[j].at], remover[j].cur)
    BY <1>0, <2>2, LeaveStep
  <2>4. CASE remover[j].cur = o
    BY <1>0, <2>2, <2>4
  <2>5. CASE remover[j].cur # o
    BY <2>3, <2>5 DEF LeavesOnly
  <2> QED
    BY <2>4, <2>5
<1>5. CASE \E j \in Conns : RemoveForce(j)
  BY <1>0, <1>5 DEF RemoveForce, TornDown, MapsOK
<1>6. CASE busy' = busy
  BY <1>6
<1>7. \/ \E p \in Ops : Acquire(p) \/ Rollback(p) \/ Unwind(p) \/ CancelRelease(p)
      \/ \E j \in Conns : RemoveForget(j) \/ RemoveForce(j)
      \/ busy' = busy
  <2>1. CASE \E p \in Ops : Lookup(p) \/ Dispatch(p)
    BY <2>1 DEF Dispatch, Lookup, MapOp, Reject, Activate, EmitStarted, Spawn, RegisterTask
  <2>2. CASE \E p \in Ops : Run(p)
    BY <2>2 DEF Run, Poll, RegisterHandle, CheckRequest, Complete, Fail, Interrupt,
       Notified,
       DropTask, Report, TaskFrame
  <2>3. CASE \E p \in Ops : CancelRelease(p) \/ Cancel(p)
    BY <2>3 DEF Cancel, CancelKnown, CancelMark, CancelSignal, CancelAbort
  <2>4. CASE \E j \in Conns : RemoveScan(j) \/ Remove(j)
    BY <2>4 DEF Remove, RemoveScan, RemoveTake, RemoveConn
  <2>5. CASE UNCHANGED vars
    BY <2>5 DEF vars
  <2> QED
    BY <2>1, <2>2, <2>3, <2>4, <2>5 DEF Next
<1> QED
  BY <1>1, <1>2, <1>3, <1>4, <1>5, <1>6, <1>7

\* No step leaves such a stream without its slot.
LEMMA SlotStep ==
    ASSUME IInv, [Next]_vars, NEW o \in Ops, OwnsSlot(o)
    PROVE  OwnsSlot(o)'
<1> SUFFICES ASSUME Streaming(o)', o \notin asked', Undisturbed(o)'
             PROVE  busy'[job'[o].conn] = o
  BY DEF OwnsSlot
<1>0. /\ MapsOK /\ StepsOK /\ RemoverOK
      /\ disp[o] # "idle" => job[o].conn \in Conns
      /\ task[o] # "none" <=> disp[o] \in {"spawned", "returned"}
      /\ at[o] # 1 => \/ disp[o] \in {"rollback", "refused"}
                       \/ task[o] \in {"unwinding", "over"}
  BY OpFacts
<1>1. CASE Lookup(o) \/ MapOp(o) \/ Reject(o)
  BY <1>0, <1>1 DEF Lookup, MapOp, Reject, Streaming, StepsOK
<1>2. CASE Acquire(o)
  <2>1. /\ busy' = [busy EXCEPT ![job[o].conn] = o] /\ UNCHANGED job
        /\ job[o].conn \in Conns
    BY <1>0, <1>2 DEF Acquire, Streaming, StepsOK
  <2> QED
    BY <1>0, <2>1 DEF MapsOK
<1>3. CASE UNCHANGED <<busy, job, remover>> /\ (o \in asked => o \in asked') /\ Streaming(o)
  BY <1>3 DEF OwnsSlot, Undisturbed, TornDown
<1>4. CASE Activate(o) \/ EmitStarted(o) \/ Spawn(o) \/ RegisterTask(o)
  <2>1. UNCHANGED <<busy, job, remover, asked>>
    BY <1>4 DEF Activate, EmitStarted, Spawn, RegisterTask, DispatchFrame
  <2>2. Streaming(o)
    BY <1>0, <1>4, <2>1 DEF Activate, EmitStarted, Spawn, RegisterTask, DispatchFrame,
       Streaming, StepsOK
  <2> QED
    BY <1>3, <2>1, <2>2
<1>5. CASE Rollback(o)
  <2>1. /\ UNCHANGED <<job, remover, asked, task>>
        /\ task[o] = "none" /\ disp[o] = "rollback"
        /\ Leave(RollbackOrder[at[o]], o, "user")
    BY <1>0, <1>5 DEF Rollback
  <2>2. at[o] \in 1..5
    <3>1. disp'[o] = "rollback"
      BY <1>0, <1>5, <2>1 DEF Rollback, Streaming, StepsOK
    <3> QED
      BY <1>0, <1>5, <2>1, <3>1, Orders DEF Rollback, StepsOK, IInv, OneUnwinds
  <2>3. RollbackOrder[at[o]] # "busy"
    BY <2>2 DEF RollbackOrder
  <2>4. UNCHANGED busy
    BY <2>1, <2>3 DEF Leave
  <2>5. Streaming(o)
    BY <2>1 DEF Streaming
  <2> QED
    BY <1>3, <2>1, <2>4, <2>5
<1>6. CASE Unwind(o)
  <2>1. /\ UNCHANGED <<job, remover, asked, disp>> /\ task[o] = "unwinding"
        /\ disp[o] \in {"spawned", "returned"} /\ job[o].kind = "stream"
        /\ Leave(UnwindOrder[at[o]], o, "user")
    BY <1>0, <1>6 DEF Unwind, Streaming, DropOrder
  <2>2. task'[o] = "unwinding" /\ at'[o] = at[o] + 1 /\ at'[o] <= 4
    BY <1>0, <1>6, <2>1 DEF Unwind, Streaming, StepsOK
  <2>3. at[o] \in 1..3
    BY <1>0, <2>2 DEF StepsOK
  <2>4. UnwindOrder[at[o]] # "busy"
    BY <2>3 DEF UnwindOrder
  <2>5. UNCHANGED busy
    BY <2>1, <2>4 DEF Leave
  <2>6. Streaming(o)
    BY <2>1, <2>3 DEF Streaming
  <2> QED
    BY <1>3, <2>1, <2>5, <2>6
<1>7. CASE Run(o) /\ ~ Unwind(o)
  <2>1. Live(o) \/ task[o] = "ready"
    BY <1>7 DEF Run, Poll, RegisterHandle, CheckRequest, Complete, Fail, Interrupt,
       Notified, DropTask, Report, TaskFrame, Live
  <2>2. UNCHANGED <<busy, job, remover, asked, disp, at>>
    BY <1>7 DEF Run, Poll, RegisterHandle, CheckRequest, Complete, Fail, Interrupt,
       Notified, DropTask, Report, TaskFrame, Live
  <2>3. Live(o)
    BY <2>1 DEF Live
  <2>4. Streaming(o)
    BY <1>0, <2>2, <2>3 DEF Streaming, Live
  <2> QED
    BY <1>3, <2>2, <2>4
<1>8. CASE CancelRelease(o)
  BY <1>8 DEF CancelRelease
<1>9. CASE Cancel(o)
  <2>1. UNCHANGED <<busy, job, remover, asked, disp, task, at>>
    BY <1>9 DEF Cancel, CancelKnown, CancelMark, CancelSignal, CancelAbort, CancelFrame
  <2> QED
    BY <1>3, <2>1 DEF Streaming
<1>10. CASE ~ Mine(o) /\ Same(o)
  <2>1. Streaming(o) /\ o \notin asked /\ job'[o] = job[o]
    BY <1>10 DEF Same, Streaming
  <2>2. job[o].conn \in Conns
    BY <1>0, <2>1 DEF Streaming
  <2>3. Undisturbed(o)
    BY <1>10, <2>1, <2>2 DEF Same, Undisturbed
  <2>4. busy[job[o].conn] = o
    BY <2>1, <2>3 DEF OwnsSlot
  <2>5. ~ (CancelRelease(o) \/ Rollback(o) \/ Unwind(o))
    BY <1>10 DEF Mine, Dispatch, Run
  <2> QED
    BY <2>1, <2>2, <2>3, <2>4, <2>5, SlotKept DEF Undisturbed
<1>11. CASE Forgotten(o)
  <2>1. PICK k \in Conns : RemoveForget(k) /\ remover[k].cur = o
    BY <1>11 DEF Forgotten
  <2>2. job'[o].conn = k /\ TornDown(k)'
    BY <1>0, <2>1 DEF IInv, SweepsItsOwn, RemoveForget, RemoveFrame, RemoverOK, TornDown
  <2> QED
    BY <2>2 DEF Undisturbed
<1> QED
  BY <1>1, <1>2, <1>4, <1>5, <1>6, <1>7, <1>8, <1>9, <1>10, <1>11, WhoSteps
     DEF Mine, Dispatch

\* A step takes or returns at most its own permit.
LEMMA PermitStep ==
    ASSUME IInv, PermitFollowsTask, [Next]_vars
    PROVE  PermitFollowsTask'
<1> SUFFICES ASSUME NEW o \in Ops, NEW k \in Conns
             PROVE  permit'[k] = o <=> /\ job'[o] = [conn |-> k, kind |-> "analyze"]
                                       /\ Live(o)' \/ task'[o] = "unwinding"
  BY DEF PermitFollowsTask
<1>0. /\ MapsOK /\ StepsOK /\ RemoverOK /\ NoOp \notin Ops
      /\ task[o] # "none" <=> disp[o] \in {"spawned", "returned"}
      /\ disp[o] # "idle" => job[o].conn \in Conns
  BY OpFacts, OperationsAssumption
<1>h. permit[k] = o <=> /\ job[o] = [conn |-> k, kind |-> "analyze"]
                        /\ Live(o) \/ task[o] = "unwinding"
  BY DEF PermitFollowsTask
<1>1. ASSUME NEW p \in Ops, NEW m, m # "permit" \/ p # o, Leave(m, p, "user")
      PROVE  permit'[k] = o <=> permit[k] = o
  BY <1>0, <1>1 DEF Leave, Without, MapsOK
<1>2. CASE Same(o) /\ (permit'[k] = o <=> permit[k] = o)
  BY <1>h, <1>2 DEF Same, Live
<1>3. CASE Lookup(o)
  BY <1>0, <1>h, <1>3 DEF Lookup, DispatchFrame, StepsOK, Live
<1>4. CASE Spawn(o)
  <2>1. task[o] = "none" /\ UNCHANGED job
    BY <1>0, <1>4 DEF Spawn
  <2>2. CASE disp'[o] = "rollback"
    BY <1>0, <1>h, <1>4, <2>1, <2>2 DEF Spawn, StepsOK, Live
  <2>3. CASE disp'[o] # "rollback"
    <3>1. task'[o] = "ready"
      BY <1>0, <1>4, <2>3 DEF Spawn, StepsOK
    <3>2. CASE job[o].kind # "analyze"
      BY <1>0, <1>h, <1>4, <2>1, <2>3, <3>2 DEF Spawn, StepsOK, Live
    <3>3. CASE job[o].kind = "analyze"
      <4>1. permit' = [permit EXCEPT ![job[o].conn] = o] /\ job[o].conn \in Conns
        BY <1>0, <1>4, <2>3, <3>3 DEF Spawn, StepsOK
      <4>2. permit'[k] = o <=> k = job[o].conn
        BY <1>0, <1>h, <2>1, <4>1 DEF MapsOK, Live
      <4>3. job[o] = [conn |-> k, kind |-> "analyze"] <=> k = job[o].conn
        BY <1>0, <3>3 DEF StepsOK
      <4> QED
        BY <2>1, <3>1, <4>2, <4>3 DEF Live
    <3> QED
      BY <3>2, <3>3
  <2> QED
    BY <2>2, <2>3
<1>5. CASE Mine(o) /\ ~ (Lookup(o) \/ Spawn(o) \/ Unwind(o))
  <2>1. UNCHANGED job
    BY <1>5 DEF Mine, Dispatch, Run, Cancel, MapOp, Acquire, Reject, Activate, EmitStarted,
       RegisterTask, Rollback, Poll, RegisterHandle, CheckRequest, Complete, Fail,
       Interrupt,
       Notified, DropTask, Report, CancelRelease, CancelKnown, CancelMark, CancelSignal,
       CancelAbort, CancelFrame, TaskFrame
  <2>2. permit'[k] = o <=> permit[k] = o
    <3>1. CASE Rollback(o)
      <4>1. at[o] \in 1..6
        BY <1>0, <3>1 DEF Rollback, IInv, OneUnwinds, StepsOK
      <4>2. RollbackOrder[at[o]] # "permit"
        BY <4>1 DEF RollbackOrder
      <4> QED
        BY <1>1, <3>1, <4>2 DEF Rollback
    <3>2. CASE ~ Rollback(o)
      BY <1>5, <3>2 DEF Mine, Dispatch, Run, Cancel, MapOp, Acquire, Reject, Activate,
         EmitStarted, RegisterTask, Poll, RegisterHandle, CheckRequest, Complete, Fail,
         Interrupt, Notified, DropTask, Report, CancelRelease, CancelKnown, CancelMark,
         CancelSignal, CancelAbort, CancelFrame, TaskFrame
    <3> QED
      BY <3>1, <3>2
  <2>3. (Live(o)' \/ task'[o] = "unwinding" <=> Live(o) \/ task[o] = "unwinding")
           \/ job[o].kind # "analyze"
    BY <1>0, <1>5 DEF Mine, Dispatch, Run, Cancel, MapOp, Acquire, Reject, Activate,
       EmitStarted, RegisterTask, Rollback, Poll, RegisterHandle, CheckRequest, Complete,
       Fail, Interrupt, Notified, DropTask, Report, CancelRelease, CancelKnown, CancelMark,
       CancelSignal, CancelAbort, CancelFrame, StepsOK, Live
  <2> QED
    BY <1>h, <2>1, <2>2, <2>3
<1>6. CASE Unwind(o)
  <2>1. task[o] = "unwinding" /\ UNCHANGED job /\ Leave(DropOrder(o)[at[o]], o, "user")
        /\ at[o] \in 1..9 /\ at[o] <= Len(DropOrder(o))
    BY <1>0, <1>6 DEF Unwind, IInv, OneUnwinds, StepsOK
  <2>2. CASE job[o].kind # "analyze"
    <3>1. DropOrder(o)[at[o]] # "permit"
      BY <2>1, <2>2 DEF DropOrder, UnwindOrder
    <3>2. permit'[k] = o <=> permit[k] = o
      BY <1>1, <2>1, <3>1
    <3>3. job[o] # [conn |-> k, kind |-> "analyze"]
      BY <2>2
    <3>4. permit[k] # o
      BY <1>h, <3>3
    <3>5. job'[o] # [conn |-> k, kind |-> "analyze"]
      BY <2>1, <3>3
    <3> QED
      BY <3>2, <3>4, <3>5
  <2>3. CASE job[o].kind = "analyze" /\ at[o] # 6
    <3>0. DropOrder(o) = OwnershipOrder
      BY <2>3 DEF DropOrder
    <3>1. DropOrder(o) = OwnershipOrder /\ at[o] \in 1..5
      BY <2>1, <2>3, <3>0, Orders
    <3>2. OwnershipOrder[at[o]] # "permit"
      BY <3>1 DEF OwnershipOrder
    <3>3. task'[o] = "unwinding"
      BY <1>0, <1>6, <2>1, <2>3, <3>1, Orders DEF Unwind
    <3> QED
      BY <1>1, <1>h, <2>1, <3>1, <3>2, <3>3 DEF Live
  <2>4. CASE job[o].kind = "analyze" /\ at[o] = 6
    <3>1. DropOrder(o) = OwnershipOrder /\ OwnershipOrder[6] = "permit"
      BY <2>4, OwnPlaces DEF DropOrder
    <3>2. task'[o] = "over"
      BY <1>0, <1>6, <2>4, <3>1, Orders DEF Unwind, StepsOK
    <3>3. permit'[k] # o
      BY <1>0, <2>1, <2>4, <3>1 DEF Leave, Without
    <3> QED
      BY <3>2, <3>3 DEF Live
  <2> QED
    BY <2>2, <2>3, <2>4
<1>7. CASE \E p \in Ops : p # o /\ Mine(p)
  <2>1. PICK p \in Ops : p # o /\ Mine(p)
    BY <1>7
  <2>2. Same(o)
    BY <2>1, OthersStep
  <2>3. permit'[k] = o <=> permit[k] = o
    <3>1. CASE Rollback(p) \/ Unwind(p)
      <4>1. PICK m : Leave(m, p, "user")
        BY <3>1 DEF Rollback, Unwind
      <4> QED
        BY <1>1, <2>1, <4>1
    <3>2. CASE Spawn(p)
      <4>1. UNCHANGED permit \/ (permit[job[p].conn] = NoOp
                                  /\ permit' = [permit EXCEPT ![job[p].conn] = p])
        BY <3>2 DEF Spawn
      <4> QED
        BY <1>0, <2>1, <4>1 DEF MapsOK
    <3>3. CASE ~ (Rollback(p) \/ Unwind(p) \/ Spawn(p))
      BY <2>1, <3>3 DEF Mine, Dispatch, Run, Cancel, Lookup, MapOp, Acquire, Reject,
         Activate,
         EmitStarted, RegisterTask, Poll, RegisterHandle, CheckRequest, Complete, Fail,
         Interrupt, Notified, DropTask, Report, CancelRelease, CancelKnown, CancelMark,
         CancelSignal, CancelAbort, CancelFrame, TaskFrame
    <3> QED
      BY <3>1, <3>2, <3>3
  <2> QED
    BY <1>2, <2>2, <2>3
<1>8. CASE (\E j \in Conns : RemoveScan(j) \/ Remove(j)) \/ UNCHANGED vars
  <2>1. UNCHANGED <<job, task>>
    BY <1>8 DEF RemoveScan, Remove, RemoveTake, RemoveForget, RemoveForce, RemoveConn,
       RemoveFrame, vars
  <2>2. UNCHANGED permit
    <3>1. CASE \E j \in Conns : RemoveForget(j)
      <4>1. PICK j \in Conns : RemoveForget(j)
        BY <3>1
      <4>2. remover[j].at \in 1..7
        BY <1>0 DEF RemoverOK
      <4>3. RemoveOrder[remover[j].at] # "permit"
        BY <4>2 DEF RemoveOrder
      <4> QED
        BY <4>1, <4>3 DEF RemoveForget, Leave
    <3>2. CASE ~ \E j \in Conns : RemoveForget(j)
      BY <1>8, <3>2 DEF RemoveScan, Remove, RemoveTake, RemoveForce, RemoveConn, vars
    <3> QED
      BY <3>1, <3>2
  <2> QED
    BY <1>h, <2>1, <2>2 DEF Live
<1> QED
  BY <1>3, <1>4, <1>5, <1>6, <1>7, <1>8 DEF Next, Mine

-----------------------------------------------------------------------------
\* It holds at first: nothing streams and nobody holds a permit.
LEMMA InitSlot == Init => PermitFollowsTask /\ \A o \in Ops : OwnsSlot(o)
<1> SUFFICES ASSUME Init
             PROVE  PermitFollowsTask /\ \A o \in Ops : OwnsSlot(o)
  OBVIOUS
<1>1. PermitFollowsTask
  BY OperationsAssumption DEF Init, PermitFollowsTask, Live
<1>2. \A o \in Ops : OwnsSlot(o)
  BY DEF Init, OwnsSlot, Streaming
<1> QED
  BY <1>1, <1>2

\* UncancelledStreamOwnsSlot for any number of operations, connections and engines: no
\* late cleanup, cancel or try_acquire of another operation takes the slot of a stream
\* that nobody cancelled (ctx.rs, release_if_owner and release_op).
THEOREM StreamOwnsItsSlot == Spec => []UncancelledStreamOwnsSlot
<1> DEFINE Owns == \A o \in Ops : OwnsSlot(o)
<1>1. Init => Owns
  BY InitSlot
<1>2. IInv /\ Owns /\ [Next]_vars => Owns'
  <2> SUFFICES ASSUME IInv, Owns, [Next]_vars, NEW o \in Ops
               PROVE  OwnsSlot(o)'
    OBVIOUS
  <2>1. OwnsSlot(o)
    OBVIOUS
  <2> QED
    BY <2>1, SlotStep
<1>3. Owns => UncancelledStreamOwnsSlot
  BY DEF OwnsSlot, UncancelledStreamOwnsSlot, Undisturbed
<1> HIDE DEF Owns
<1> QED
  BY <1>1, <1>2, <1>3, Invariance, PTL DEF Spec

\* PostgresCancelNotLost: wherever the cancel meets the dispatcher, the registration of
\* the handle and the runner, the task is aborted, the statement is sent a cancel, or the
\* runner still finds the request (dispatcher.rs, cancel_operation).
THEOREM CancelIsNotLost == Spec => []PostgresCancelNotLost
<1>1. IInv /\ (\A o \in Ops : Fate(o)) => PostgresCancelNotLost
  <2> SUFFICES ASSUME IInv, NEW o \in Ops, Fate(o), Postgres(o),
                      o \in asked, canceller[o] = "idle", ~ TornDown(job[o].conn),
                      task[o] \in {"ready", "guarded", "registered", "querying"}
               PROVE  /\ task[o] # "querying" =>
                            o \in aborted \/ o \in reg["cancel_requested"] \/ sent[o] # "none"
                      /\ task[o] = "querying" => o \in aborted \/ sent[o] # "none"
    BY DEF PostgresCancelNotLost, CancelReaches
  <2>1. disp[o] \in {"spawned", "returned"}
    BY OpFacts
  <2>2. InFlight(o) /\ Undisturbed(o)
    BY <2>1 DEF InFlight, Undisturbed
  <2> QED
    BY <2>2 DEF Fate, CancelStands
<1> QED
  BY <1>1, Invariance, FateInvariance, PTL

\* UserCancelIsQuiet: the request is recorded before the server is asked and outlives the
\* runner's report, so wherever the runner asks whose interruption it was (cancelled_by_user
\* in postgres/operation.rs, while the statement runs) the user's is not taken for a failure.
THEOREM UserCancelStaysQuiet == Spec => []UserCancelIsQuiet
<1>1. (\A o \in Ops : Fate(o)) => UserCancelIsQuiet
  BY DEF Fate, ReportsLast, Undisturbed, UserCancelIsQuiet
<1> QED
  BY <1>1, FateInvariance, PTL

\* AnalysisCleansUp: however an analysis ends, its permit and its handle end with it
\* (explain_analyze.rs, Ownership).
THEOREM AnalysisReturnsItsPermit == Spec => []AnalysisCleansUp
<1>1. Init => PermitFollowsTask
  BY InitSlot
<1>2. IInv /\ PermitFollowsTask /\ [Next]_vars => PermitFollowsTask'
  BY PermitStep
<1>3. PermitFollowsTask /\ (\A o \in Ops : Fate(o)) => AnalysisCleansUp
  BY DEF Fate, AnalysisIsStored, AnalysisCleansUp, AnalysisLeavesNoHandle
<1> QED
  BY <1>1, <1>2, <1>3, Invariance, FateInvariance, PTL DEF Spec

\* UndisturbedOpForgotten: every ending, the dispatcher's refusals included, passes the
\* exit of each map the operation entered, and no step of another actor puts it back
\* (dispatcher.rs, op_cleanup.rs).
THEOREM UndisturbedLeavesNoMark == Spec => []UndisturbedOpForgotten
<1>1. (\A o \in Ops : Fate(o)) => UndisturbedOpForgotten
  <2> SUFFICES ASSUME NEW o \in Ops, Fate(o), task[o] = "over" \/ disp[o] = "refused",
                      o \notin asked, ~ TornDown(job[o].conn),
                      NEW m \in Registries \ {"op_tasks"}
               PROVE  o \notin reg[m]
    BY DEF UndisturbedOpForgotten
  <2>1. o \notin aborted /\ o \notin reg["cancel_requested"]
    BY DEF Fate, OnlyAsked
  <2>2. \A n \in Own : o \notin reg[n]
    BY <2>1 DEF Fate, LeavesInOrder
  <2> QED
    BY <2>1, <2>2 DEF Registries, Own
<1> QED
  BY <1>1, FateInvariance, PTL
=============================================================================
