-------------------------- MODULE SqlSessionProofs --------------------------
(***************************************************************************)
(* Type correctness of the sessions, that a session owned by a forced      *)
(* close is never committed, that they implement SessionOutcome, that      *)
(* messages take turns, that an end() reports what is true of the server,  *)
(* and that a removal leaves no session behind: for any number of          *)
(* sessions, connections, calls and watches.                               *)
(***************************************************************************)
EXTENDS SqlSession, TLAPS

\* An actor at one of these places works on a session.
Engaged == {"queued", "ending", "waiting", "locked", "sent", "forgetting", "closing",
            "aborting", "unlisting", "taking"}

\* A begin works on its own session, which it can only roll back.
BeginsOwnSession == \A s \in Sessions : on[s] = s /\ op[s] = "rollback"

\* Who is at work knows its session and what it sends there.
KnowsItsJob ==
    \A a \in Actors :
        /\ pc[a] \in Engaged => on[a] \in Sessions
        /\ pc[a] = "queued" => op[a] = "statement"
        /\ pc[a] \in {"ending", "waiting", "locked"} => op[a] \in Messages

\* Nothing but a statement is under way, and nothing was committed, before an end()
\* owns the session.
EndingIsOwned ==
    \A s \in Sessions :
        /\ txn[s] = "committed" => state[s] = "committing"
        /\ \A i \in 1..Len(wire[s]) :
               wire[s][i].msg # "statement" => state[s] = "committing"

\* The type invariant in three parts, each as small as a proof step can handle.
ActorsOK ==
    /\ pc \in [Actors -> Places]
    /\ on \in [Actors -> Sessions \cup {NoSession}]
    /\ op \in [Actors -> Messages \cup {"none"}]
    /\ result \in [Actors -> Results]
RegistryOK ==
    /\ conns \subseteq Conns
    /\ listed \subseteq Sessions
    /\ state \in [Sessions -> {"open", "ending", "committing", "closed"}]
    /\ taken \subseteq Sessions
    /\ lock \in [Sessions -> Actors \cup {Nobody}]
    /\ todo \in [Conns -> SUBSET Sessions]
ServerOK ==
    /\ up \subseteq Sessions
    /\ wire \in [Sessions -> Seq([by: Actors, msg: Messages])]
    /\ reply \in [Actors -> {"none", "ok", "error"}]
    /\ txn \in [Sessions -> {"none", "active", "failed", "committed", "rolledback"}]

IInv == TypeOK /\ BeginsOwnSession /\ KnowsItsJob /\ EndingIsOwned

\* What is appended to a wire is there, and what was there stays.
LEMMA AppendOne ==
    ASSUME NEW S, NEW q \in Seq(S), NEW e \in S
    PROVE  /\ Append(q, e) \in Seq(S)
           /\ Len(Append(q, e)) = Len(q) + 1
           /\ \A i \in 1..Len(q) : Append(q, e)[i] = q[i]
           /\ Append(q, e)[Len(q) + 1] = e
OBVIOUS

\* What is left of a wire after its head was read was on it before.
LEMMA TailOfWire ==
    ASSUME NEW S, NEW q \in Seq(S), q # <<>>
    PROVE  /\ Tail(q) \in Seq(S)
           /\ Len(q) \in Nat /\ 1 \in 1..Len(q)
           /\ Head(q) = q[1]
           /\ Head(q) \in S
           /\ Len(Tail(q)) = Len(q) - 1
           /\ \A i \in 1..Len(Tail(q)) : i + 1 \in 1..Len(q) /\ Tail(q)[i] = q[i + 1]
OBVIOUS

\* The initial state satisfies the invariant.
LEMMA InitInv == Init => IInv
<1> SUFFICES ASSUME Init PROVE IInv
  OBVIOUS
<1>1. TypeOK
  BY SqlSessionAssumption DEF Init, TypeOK, Actors, Messages, Places, Results
<1>2. BeginsOwnSession
  BY DEF Init, BeginsOwnSession, Actors
<1>3. KnowsItsJob
  BY DEF Init, KnowsItsJob, Engaged
<1>4. EndingIsOwned
  <2> SUFFICES ASSUME NEW s \in Sessions
               PROVE  txn[s] # "committed" /\ 1..Len(wire[s]) = {}
    BY DEF EndingIsOwned
  <2> QED
    BY DEF Init
<1> QED
  BY <1>1, <1>2, <1>3, <1>4 DEF IInv

\* Steps of sql_session_begin.
LEMMA BeginStep ==
    ASSUME IInv, NEW s \in Sessions, Lookup(s) \/ Begin(s)
    PROVE  IInv'
<1>0. s \in Actors /\ Sessions \subseteq Actors
  BY DEF Actors
<1>1. TypeOK'
  <2>1. CASE Lookup(s)
    BY <1>0, <2>1 DEF IInv, TypeOK, Lookup, Goto, registry, server, Places
  <2>2. CASE Open(s)
    <3>1. result' \in [Actors -> Results] /\ pc' \in [Actors -> Places]
      BY <1>0, <2>2 DEF IInv, TypeOK, Open, Goto, Returns, Places, Results
    <3>2. /\ listed' \subseteq Sessions
          /\ up' \subseteq Sessions
      BY <2>2 DEF IInv, TypeOK, Open
    <3>4. txn' \in [Sessions -> {"none", "active", "failed", "committed", "rolledback"}]
      BY <2>2 DEF IInv, TypeOK, Open
    <3>3. UNCHANGED <<conns, state, taken, lock, todo, on, op, wire, reply>>
      BY <2>2 DEF Open
    <3> QED
      <4>1. TypeOK BY DEF IInv
      <4> QED
        BY <3>1, <3>2, <3>3, <3>4, <4>1 DEF TypeOK
  <2>3. CASE Recheck(s)
    BY <1>0, <2>3 DEF IInv, TypeOK, Recheck, Goto, registry, server, Places, Results
  <2> QED
    BY <2>1, <2>2, <2>3 DEF Begin
<1>2. BeginsOwnSession'
  BY DEF IInv, BeginsOwnSession, Lookup, Begin, Open, Recheck
<1>3. KnowsItsJob'
  BY <1>0 DEF IInv, TypeOK, KnowsItsJob, BeginsOwnSession, Lookup, Begin, Open, Recheck,
     Goto,
         Engaged, Messages
<1>4. EndingIsOwned'
  BY DEF IInv, TypeOK, EndingIsOwned, Lookup, Begin, Open, Recheck, registry, server
<1> QED
  BY <1>1, <1>2, <1>3, <1>4 DEF IInv

\* What Send does to the wire of a session: nothing, or one message at its end.
LEMMA SendStep ==
    ASSUME TypeOK, NEW a \in Actors, NEW s \in Sessions, op[a] \in Messages, Send(a, s)
    PROVE  /\ wire' \in [Sessions -> Seq([by: Actors, msg: Messages])]
           /\ \A r \in Sessions : r # s => wire'[r] = wire[r]
           /\ \A i \in 1..Len(wire'[s]) :
                  \/ i \in 1..Len(wire[s]) /\ wire'[s][i] = wire[s][i]
                  \/ wire'[s][i].msg = op[a]
<1> DEFINE S == [by: Actors, msg: Messages]
           e == [by |-> a, msg |-> op[a]]
<1>1. wire[s] \in Seq(S) /\ e \in S
  BY DEF TypeOK
<1>2. CASE s \in up
  <2>1. wire' = [wire EXCEPT ![s] = Append(@, e)]
    BY <1>2 DEF Send
  <2>2. /\ Append(wire[s], e) \in Seq(S)
        /\ Len(Append(wire[s], e)) = Len(wire[s]) + 1
        /\ \A i \in 1..Len(wire[s]) : Append(wire[s], e)[i] = wire[s][i]
        /\ Append(wire[s], e)[Len(wire[s]) + 1] = e
    BY <1>1, AppendOne
  <2>3. wire'[s] = Append(wire[s], e)
    BY <2>1 DEF TypeOK
  <2>4. Len(wire[s]) \in Nat
    BY <1>1
  <2>5. \A i \in 1..Len(wire'[s]) :
            i \in 1..Len(wire[s]) \/ i = Len(wire[s]) + 1
    BY <2>2, <2>3, <2>4
  <2> HIDE DEF e, S
  <2>6. e.msg = op[a]
    BY DEF e
  <2>7. wire' \in [Sessions -> Seq(S)]
    BY <2>1, <2>2 DEF TypeOK, S
  <2> QED
    BY <2>1, <2>2, <2>3, <2>5, <2>6, <2>7 DEF TypeOK, S
<1>3. CASE s \notin up
  BY <1>3 DEF Send, TypeOK
<1> QED
  BY <1>2, <1>3

\* Steps of sql_session_execute, and the frontend's calls.
LEMMA ExecuteStep ==
    ASSUME IInv, NEW a \in Calls, NEW s \in Sessions, NEW msg \in Messages,
           Call(a, s, msg) \/ Execute(a) \/ Executed(a)
    PROVE  IInv'
<1>0. a \in Actors /\ a \notin Sessions /\ Sessions \subseteq Actors
  BY SqlSessionAssumption DEF Actors
<1>t. ActorsOK /\ RegistryOK /\ ServerOK
  BY DEF IInv, TypeOK, ActorsOK, RegistryOK, ServerOK
<1>1. CASE Call(a, s, msg)
  <2>1. ActorsOK'
    BY <1>0, <1>1, <1>t DEF ActorsOK, Call, Goto, Returns, Places, Results
  <2>2. RegistryOK' /\ ServerOK'
    BY <1>1, <1>t DEF RegistryOK, ServerOK, Call, registry, server
  <2>3. BeginsOwnSession'
    BY <1>0, <1>1, <1>t DEF IInv, ActorsOK, BeginsOwnSession, Call
  <2>4. KnowsItsJob'
    BY <1>0, <1>1, <1>t DEF IInv, ActorsOK, KnowsItsJob, Call, Goto, Engaged, Messages
  <2>5. EndingIsOwned'
    BY <1>1 DEF IInv, EndingIsOwned, Call, registry, server
  <2> QED
    BY <2>1, <2>2, <2>3, <2>4, <2>5 DEF IInv, TypeOK, ActorsOK, RegistryOK, ServerOK
<1>2. CASE Execute(a)
  <2>0. on[a] \in Sessions /\ op[a] = "statement" /\ op[a] \in Messages
    BY <1>0, <1>2 DEF IInv, KnowsItsJob, Engaged, Execute, Messages
  <2>1. ActorsOK'
    BY <1>0, <1>2, <1>t DEF ActorsOK, Execute, Goto, Returns, Places, Results
  <2>2. RegistryOK'
    BY <1>0, <1>2, <2>0, <1>t DEF RegistryOK, Execute
  <2>3. ServerOK' /\ EndingIsOwned'
    <3>1. CASE Send(a, on[a])
      <4>1. /\ wire' \in [Sessions -> Seq([by: Actors, msg: Messages])]
            /\ \A r \in Sessions : r # on[a] => wire'[r] = wire[r]
            /\ \A i \in 1..Len(wire'[on[a]]) :
                   \/ i \in 1..Len(wire[on[a]]) /\ wire'[on[a]][i] = wire[on[a]][i]
                   \/ wire'[on[a]][i].msg = op[a]
        BY <1>0, <2>0, <3>1, SendStep DEF IInv
      <4>2. ServerOK'
        BY <1>2, <1>t, <4>1 DEF ServerOK, Execute
      <4>3. EndingIsOwned'
        BY <1>2, <2>0, <4>1 DEF IInv, EndingIsOwned, Execute
      <4> QED
        BY <4>2, <4>3
    <3>2. CASE UNCHANGED wire
      BY <1>2, <1>t, <3>2 DEF IInv, ServerOK, EndingIsOwned, Execute
    <3> QED
      BY <1>2, <3>1, <3>2 DEF Execute
  <2>5. BeginsOwnSession' /\ KnowsItsJob'
    BY <1>0, <1>2, <1>t DEF IInv, ActorsOK, BeginsOwnSession, KnowsItsJob, Execute, Goto,
       Engaged
  <2> QED
    BY <2>1, <2>2, <2>3, <2>5 DEF IInv, TypeOK, ActorsOK, RegistryOK, ServerOK
<1>3. CASE Executed(a)
  <2>1. ActorsOK'
    <3>1. PICK r \in Results : result' = [result EXCEPT ![a] = r]
      <4>1. reply[a] \in Results
        BY <1>0, <1>t DEF ServerOK, Results
      <4> QED
        BY <1>0, <1>3, <4>1 DEF Executed, Returns, Results
    <3> QED
      BY <1>0, <1>3, <1>t, <3>1 DEF ActorsOK, Executed, Goto, Places
  <2>2. RegistryOK' /\ ServerOK'
    BY <1>0, <1>3, <1>t DEF RegistryOK, ServerOK, Executed, Unlock, server
  <2>3. BeginsOwnSession' /\ KnowsItsJob'
    BY <1>0, <1>3, <1>t DEF IInv, ActorsOK, BeginsOwnSession, KnowsItsJob, Executed, Goto,
       Engaged
  <2>4. EndingIsOwned'
    BY <1>3 DEF IInv, EndingIsOwned, Executed, server
  <2> QED
    BY <2>1, <2>2, <2>3, <2>4 DEF IInv, TypeOK, ActorsOK, RegistryOK, ServerOK
<1> QED
  BY <1>1, <1>2, <1>3

\* Steps of sql_session_end, by a call or by a begin that lost its connection.
LEMMA EndStep ==
    ASSUME IInv, NEW a \in Calls \cup Sessions, End(a)
    PROVE  IInv'
<1>0. a \in Actors /\ Sessions \subseteq Actors
  BY DEF Actors
<1>t. ActorsOK /\ RegistryOK /\ ServerOK
  BY DEF IInv, TypeOK, ActorsOK, RegistryOK, ServerOK
<1>1. CASE BeginEnding(a)
  <2>1. ActorsOK'
    BY <1>0, <1>t, <1>1 DEF IInv, KnowsItsJob, ActorsOK, BeginEnding, Goto, Returns,
       Places, Results
  <2>2. RegistryOK' /\ ServerOK'
    BY <1>0, <1>t, <1>1 DEF IInv, KnowsItsJob, Engaged, RegistryOK, ServerOK, BeginEnding,
       server
  <2>3. BeginsOwnSession' /\ KnowsItsJob'
    BY <1>0, <1>t, <1>1 DEF IInv, ActorsOK, BeginsOwnSession, KnowsItsJob, Engaged,
       BeginEnding, Goto
  <2>4. EndingIsOwned'
    BY <1>0, <1>t, <1>1 DEF IInv, RegistryOK, ServerOK, EndingIsOwned, BeginEnding, server
  <2> QED
    BY <2>1, <2>2, <2>3, <2>4 DEF IInv, TypeOK, ActorsOK, RegistryOK, ServerOK
<1>2. CASE EndLock(a)
  <2>1. ActorsOK'
    BY <1>0, <1>t, <1>2 DEF IInv, KnowsItsJob, ActorsOK, EndLock, Goto, Places
  <2>2. RegistryOK' /\ ServerOK'
    BY <1>0, <1>t, <1>2 DEF IInv, KnowsItsJob, Engaged, RegistryOK, ServerOK, EndLock,
       server
  <2>3. BeginsOwnSession' /\ KnowsItsJob'
    BY <1>0, <1>t, <1>2 DEF IInv, ActorsOK, BeginsOwnSession, KnowsItsJob, Engaged,
       EndLock, Goto
  <2>4. EndingIsOwned'
    BY <1>0, <1>t, <1>2 DEF IInv, RegistryOK, ServerOK, EndingIsOwned, EndLock, server
  <2> QED
    BY <2>1, <2>2, <2>3, <2>4 DEF IInv, TypeOK, ActorsOK, RegistryOK, ServerOK
<1>3. CASE EndTimeout(a)
  <2>1. ActorsOK'
    BY <1>0, <1>t, <1>3 DEF IInv, KnowsItsJob, ActorsOK, EndTimeout, Goto, Returns, Places,
       Results
  <2>2. RegistryOK' /\ ServerOK'
    BY <1>0, <1>t, <1>3 DEF IInv, KnowsItsJob, Engaged, RegistryOK, ServerOK, EndTimeout,
       registry, server
  <2>3. BeginsOwnSession' /\ KnowsItsJob'
    BY <1>0, <1>t, <1>3 DEF IInv, ActorsOK, BeginsOwnSession, KnowsItsJob, Engaged,
       EndTimeout, Goto, registry
  <2>4. EndingIsOwned'
    BY <1>0, <1>t, <1>3 DEF IInv, RegistryOK, ServerOK, EndingIsOwned, EndTimeout,
       registry, server
  <2> QED
    BY <2>1, <2>2, <2>3, <2>4 DEF IInv, TypeOK, ActorsOK, RegistryOK, ServerOK
<1>4. CASE Claim(a)
  <2>0. on[a] \in Sessions /\ op[a] \in Messages
    BY <1>0, <1>4 DEF IInv, KnowsItsJob, Engaged, Claim
  <2>1. ActorsOK'
    BY <1>0, <1>t, <1>4 DEF ActorsOK, Claim, Goto, Returns, Places, Results
  <2>2. RegistryOK'
    BY <1>0, <1>t, <1>4, <2>0 DEF RegistryOK, Claim, Unlock
  <2>3. BeginsOwnSession' /\ KnowsItsJob'
    BY <1>0, <1>t, <1>4 DEF IInv, ActorsOK, BeginsOwnSession, KnowsItsJob, Engaged, Claim,
       Goto
  <2>4. ServerOK' /\ EndingIsOwned'
    <3>1. CASE Send(a, on[a]) /\ state' = [state EXCEPT ![on[a]] = "committing"]
      <4>1. /\ wire' \in [Sessions -> Seq([by: Actors, msg: Messages])]
            /\ \A r \in Sessions : r # on[a] => wire'[r] = wire[r]
        BY <1>0, <2>0, <3>1, SendStep DEF IInv
      <4>2. ServerOK'
        BY <1>4, <1>t, <4>1 DEF ServerOK, Claim
      <4>3. EndingIsOwned'
        BY <1>4, <1>t, <2>0, <3>1, <4>1 DEF IInv, EndingIsOwned, RegistryOK, Claim
      <4> QED
        BY <4>2, <4>3
    <3>2. CASE UNCHANGED wire
      <4>1. ServerOK'
        BY <1>4, <1>t, <3>2 DEF ServerOK, Claim
      <4>2. \A s \in Sessions : state[s] = "committing" => state'[s] = "committing"
        BY <1>4, <1>t, <2>0 DEF RegistryOK, Claim
      <4>3. UNCHANGED txn
        BY <1>4 DEF Claim
      <4> QED
        BY <3>2, <4>1, <4>2, <4>3 DEF IInv, EndingIsOwned
    <3> QED
      BY <1>4, <3>1, <3>2 DEF Claim
  <2> QED
    BY <2>1, <2>2, <2>3, <2>4 DEF IInv, TypeOK, ActorsOK, RegistryOK, ServerOK
<1>5. CASE Ended(a)
  <2>1. ActorsOK'
    BY <1>0, <1>t, <1>5 DEF IInv, KnowsItsJob, ActorsOK, Ended, Goto, Returns, NoAnswer,
       Places, Results
  <2>2. RegistryOK' /\ ServerOK'
    BY <1>0, <1>t, <1>5 DEF IInv, KnowsItsJob, Engaged, RegistryOK, ServerOK, Ended, Unlock
  <2>3. BeginsOwnSession' /\ KnowsItsJob'
    BY <1>0, <1>t, <1>5 DEF IInv, ActorsOK, BeginsOwnSession, KnowsItsJob, Engaged, Ended,
       Goto
  <2>4. EndingIsOwned'
    BY <1>0, <1>t, <1>5 DEF IInv, RegistryOK, ServerOK, EndingIsOwned, Ended
  <2> QED
    BY <2>1, <2>2, <2>3, <2>4 DEF IInv, TypeOK, ActorsOK, RegistryOK, ServerOK
<1>6. CASE Forget(a)
  <2>1. ActorsOK'
    BY <1>0, <1>t, <1>6 DEF IInv, KnowsItsJob, ActorsOK, Forget, Goto, Places
  <2>2. RegistryOK' /\ ServerOK'
    BY <1>0, <1>t, <1>6 DEF IInv, KnowsItsJob, Engaged, RegistryOK, ServerOK, Forget, server
  <2>3. BeginsOwnSession' /\ KnowsItsJob'
    BY <1>0, <1>t, <1>6 DEF IInv, ActorsOK, BeginsOwnSession, KnowsItsJob, Engaged, Forget,
       Goto
  <2>4. EndingIsOwned'
    BY <1>0, <1>t, <1>6 DEF IInv, RegistryOK, ServerOK, EndingIsOwned, Forget, server
  <2> QED
    BY <2>1, <2>2, <2>3, <2>4 DEF IInv, TypeOK, ActorsOK, RegistryOK, ServerOK
<1> QED
  BY <1>1, <1>2, <1>3, <1>4, <1>5, <1>6 DEF End

\* Steps of a forced close, and of the idle watch that begins one.
LEMMA CloseStep ==
    ASSUME IInv, NEW a \in Actors, NEW s \in Sessions,
           Close(a) \/ (a \in Keepers /\ Reclaim(a, s))
    PROVE  IInv'
<1>0. /\ Sessions \subseteq Actors
      /\ a \in Keepers => a \notin Sessions
      /\ AfterClose(a) \in {"sweeping", "idle", "over"}
  BY SqlSessionAssumption DEF Actors, AfterClose
<1>t. ActorsOK /\ RegistryOK /\ ServerOK
  BY DEF IInv, TypeOK, ActorsOK, RegistryOK, ServerOK
<1>1. CASE CloseOwn(a)
  <2>1. ActorsOK'
    BY <1>0, <1>t, <1>1 DEF IInv, KnowsItsJob, ActorsOK, CloseOwn, Goto, Places
  <2>2. RegistryOK' /\ ServerOK'
    BY <1>0, <1>t, <1>1 DEF IInv, KnowsItsJob, Engaged, RegistryOK, ServerOK, CloseOwn,
       server
  <2>3. BeginsOwnSession' /\ KnowsItsJob'
    BY <1>0, <1>t, <1>1 DEF IInv, ActorsOK, BeginsOwnSession, KnowsItsJob, Engaged,
       CloseOwn, Goto
  <2>4. EndingIsOwned'
    BY <1>0, <1>t, <1>1 DEF IInv, RegistryOK, ServerOK, EndingIsOwned, CloseOwn, server
  <2> QED
    BY <2>1, <2>2, <2>3, <2>4 DEF IInv, TypeOK, ActorsOK, RegistryOK, ServerOK
<1>2. CASE CloseAbort(a)
  <2>1. ActorsOK'
    BY <1>0, <1>t, <1>2 DEF IInv, KnowsItsJob, ActorsOK, CloseAbort, Goto, Places
  <2>2. RegistryOK' /\ ServerOK'
    BY <1>0, <1>t, <1>2 DEF IInv, KnowsItsJob, Engaged, RegistryOK, ServerOK, CloseAbort,
       registry
  <2>3. BeginsOwnSession' /\ KnowsItsJob'
    BY <1>0, <1>t, <1>2 DEF IInv, ActorsOK, BeginsOwnSession, KnowsItsJob, Engaged,
       CloseAbort, Goto, registry
  <2>4. EndingIsOwned'
    BY <1>0, <1>t, <1>2 DEF IInv, RegistryOK, ServerOK, EndingIsOwned, CloseAbort, registry
  <2> QED
    BY <2>1, <2>2, <2>3, <2>4 DEF IInv, TypeOK, ActorsOK, RegistryOK, ServerOK
<1>3. CASE CloseUnlist(a)
  <2>1. ActorsOK'
    BY <1>0, <1>t, <1>3 DEF IInv, KnowsItsJob, ActorsOK, CloseUnlist, Goto, Places
  <2>2. RegistryOK' /\ ServerOK'
    BY <1>0, <1>t, <1>3 DEF IInv, KnowsItsJob, Engaged, RegistryOK, ServerOK, CloseUnlist,
       server
  <2>3. BeginsOwnSession' /\ KnowsItsJob'
    BY <1>0, <1>t, <1>3 DEF IInv, ActorsOK, BeginsOwnSession, KnowsItsJob, Engaged,
       CloseUnlist, Goto
  <2>4. EndingIsOwned'
    BY <1>0, <1>t, <1>3 DEF IInv, RegistryOK, ServerOK, EndingIsOwned, CloseUnlist, server
  <2> QED
    BY <2>1, <2>2, <2>3, <2>4 DEF IInv, TypeOK, ActorsOK, RegistryOK, ServerOK
<1>4. CASE CloseTake(a)
  <2>1. ActorsOK'
    BY <1>0, <1>t, <1>4 DEF IInv, KnowsItsJob, ActorsOK, CloseTake, Goto, Places
  <2>2. RegistryOK' /\ ServerOK'
    BY <1>0, <1>t, <1>4 DEF IInv, KnowsItsJob, Engaged, RegistryOK, ServerOK, CloseTake
  <2>3. BeginsOwnSession' /\ KnowsItsJob'
    BY <1>0, <1>t, <1>4 DEF IInv, ActorsOK, BeginsOwnSession, KnowsItsJob, Engaged,
       CloseTake, Goto
  <2>4. EndingIsOwned'
    BY <1>0, <1>t, <1>4 DEF IInv, RegistryOK, ServerOK, EndingIsOwned, CloseTake
  <2> QED
    BY <2>1, <2>2, <2>3, <2>4 DEF IInv, TypeOK, ActorsOK, RegistryOK, ServerOK
<1>5. CASE a \in Keepers /\ Reclaim(a, s)
  <2>1. ActorsOK'
    BY <1>0, <1>t, <1>5 DEF IInv, KnowsItsJob, ActorsOK, Reclaim, Goto, Places
  <2>2. RegistryOK' /\ ServerOK'
    BY <1>0, <1>t, <1>5 DEF IInv, KnowsItsJob, Engaged, RegistryOK, ServerOK, Reclaim,
       registry, server
  <2>3. BeginsOwnSession' /\ KnowsItsJob'
    BY <1>0, <1>t, <1>5 DEF IInv, ActorsOK, BeginsOwnSession, KnowsItsJob, Engaged,
       Reclaim, Goto, registry
  <2>4. EndingIsOwned'
    BY <1>0, <1>t, <1>5 DEF IInv, RegistryOK, ServerOK, EndingIsOwned, Reclaim, registry,
       server
  <2> QED
    BY <2>1, <2>2, <2>3, <2>4 DEF IInv, TypeOK, ActorsOK, RegistryOK, ServerOK
<1> QED
  BY <1>1, <1>2, <1>3, <1>4, <1>5 DEF Close

\* Steps of connection_remove.
LEMMA RemoveStep ==
    ASSUME IInv, NEW k \in Conns, RemoveConn(k) \/ Remove(k)
    PROVE  IInv'
<1>0. Sessions \subseteq Actors /\ k \in Actors /\ k \notin Sessions
  BY SqlSessionAssumption DEF Actors
<1>t. ActorsOK /\ RegistryOK /\ ServerOK
  BY DEF IInv, TypeOK, ActorsOK, RegistryOK, ServerOK
<1>1. CASE RemoveConn(k)
  <2>1. ActorsOK'
    BY <1>0, <1>t, <1>1 DEF IInv, KnowsItsJob, ActorsOK, RemoveConn, Goto, Places
  <2>2. RegistryOK' /\ ServerOK'
    BY <1>0, <1>t, <1>1 DEF IInv, KnowsItsJob, Engaged, RegistryOK, ServerOK, RemoveConn,
       server
  <2>3. BeginsOwnSession' /\ KnowsItsJob'
    BY <1>0, <1>t, <1>1 DEF IInv, ActorsOK, BeginsOwnSession, KnowsItsJob, Engaged,
       RemoveConn, Goto
  <2>4. EndingIsOwned'
    BY <1>0, <1>t, <1>1 DEF IInv, RegistryOK, ServerOK, EndingIsOwned, RemoveConn, server
  <2> QED
    BY <2>1, <2>2, <2>3, <2>4 DEF IInv, TypeOK, ActorsOK, RegistryOK, ServerOK
<1>2. CASE Collect(k)
  <2>1. ActorsOK'
    BY <1>0, <1>t, <1>2 DEF IInv, KnowsItsJob, ActorsOK, Collect, Goto, Places
  <2>2. RegistryOK' /\ ServerOK'
    BY <1>0, <1>t, <1>2 DEF IInv, KnowsItsJob, Engaged, RegistryOK, ServerOK, Collect,
       server
  <2>3. BeginsOwnSession' /\ KnowsItsJob'
    BY <1>0, <1>t, <1>2 DEF IInv, ActorsOK, BeginsOwnSession, KnowsItsJob, Engaged,
       Collect, Goto
  <2>4. EndingIsOwned'
    BY <1>0, <1>t, <1>2 DEF IInv, RegistryOK, ServerOK, EndingIsOwned, Collect, server
  <2> QED
    BY <2>1, <2>2, <2>3, <2>4 DEF IInv, TypeOK, ActorsOK, RegistryOK, ServerOK
<1>3. CASE Sweep(k)
  <2>1. ActorsOK'
    BY <1>0, <1>t, <1>3 DEF IInv, KnowsItsJob, ActorsOK, RegistryOK, Sweep, Goto, Places
  <2>2. RegistryOK' /\ ServerOK'
    <3>1. UNCHANGED <<conns, listed, state, taken, lock>> /\ UNCHANGED server
      BY <1>3 DEF Sweep
    <3>2. todo' \in [Conns -> SUBSET Sessions]
      BY <1>3, <1>t DEF RegistryOK, Sweep
    <3> QED
      BY <1>t, <3>1, <3>2 DEF RegistryOK, ServerOK, server
  <2>3. BeginsOwnSession' /\ KnowsItsJob'
    BY <1>0, <1>t, <1>3 DEF IInv, ActorsOK, BeginsOwnSession, KnowsItsJob, Engaged,
       RegistryOK, Sweep, Goto
  <2>4. EndingIsOwned'
    BY <1>0, <1>t, <1>3 DEF IInv, RegistryOK, ServerOK, EndingIsOwned, Sweep, server
  <2> QED
    BY <2>1, <2>2, <2>3, <2>4 DEF IInv, TypeOK, ActorsOK, RegistryOK, ServerOK
<1> QED
  BY <1>1, <1>2, <1>3 DEF Remove

\* Steps of the server and the network.
LEMMA ServerStep ==
    ASSUME IInv, NEW s \in Sessions, Serve(s) \/ HangUp(s) \/ LoseSocket(s)
    PROVE  IInv'
<1>t. ActorsOK /\ RegistryOK /\ ServerOK
  BY DEF IInv, TypeOK, ActorsOK, RegistryOK, ServerOK
<1>1. ActorsOK' /\ RegistryOK' /\ BeginsOwnSession' /\ KnowsItsJob'
  BY <1>t DEF IInv, ActorsOK, RegistryOK, BeginsOwnSession, KnowsItsJob, Serve, HangUp,
         LoseSocket, registry, actors
<1>2. CASE Serve(s)
  <2>1. /\ Tail(wire[s]) \in Seq([by: Actors, msg: Messages])
        /\ Len(wire[s]) \in Nat /\ 1 \in 1..Len(wire[s])
        /\ Head(wire[s]) = wire[s][1]
        /\ Head(wire[s]) \in [by: Actors, msg: Messages]
        /\ Len(Tail(wire[s])) = Len(wire[s]) - 1
        /\ \A i \in 1..Len(Tail(wire[s])) :
               i + 1 \in 1..Len(wire[s]) /\ Tail(wire[s])[i] = wire[s][i + 1]
    <3> DEFINE S == [by: Actors, msg: Messages]
    <3>1. wire[s] \in Seq(S) /\ wire[s] # <<>>
      BY <1>2, <1>t DEF ServerOK, Serve
    <3> HIDE DEF S
    <3>2. /\ Tail(wire[s]) \in Seq(S)
          /\ Len(wire[s]) \in Nat /\ 1 \in 1..Len(wire[s])
          /\ Head(wire[s]) = wire[s][1]
          /\ Head(wire[s]) \in S
          /\ Len(Tail(wire[s])) = Len(wire[s]) - 1
          /\ \A i \in 1..Len(Tail(wire[s])) :
                 i + 1 \in 1..Len(wire[s]) /\ Tail(wire[s])[i] = wire[s][i + 1]
      BY <3>1, TailOfWire
    <3> QED
      BY <3>2 DEF S
  <2> DEFINE m == Head(wire[s])
  <2>2. PICK outcome \in Outcomes(m.msg, txn[s]) :
            /\ reply' = [reply EXCEPT ![m.by] = outcome[1]]
            /\ txn' = [txn EXCEPT ![s] = outcome[2]]
    BY <1>2 DEF Serve
  <2>3. /\ outcome[1] \in {"ok", "error"}
        /\ outcome[2] \in {"active", "failed", "committed", "rolledback"}
        /\ outcome[2] = "committed" => m.msg # "statement"
    BY <1>2 DEF Outcomes, Serve
  <2>4. wire' = [wire EXCEPT ![s] = Tail(@)] /\ UNCHANGED up /\ UNCHANGED state
    BY <1>2 DEF Serve, registry
  <2>5. ServerOK'
    BY <1>t, <2>1, <2>2, <2>3, <2>4 DEF ServerOK
  <2>6. outcome[2] = "committed" => state[s] = "committing"
    BY <2>1, <2>3 DEF IInv, EndingIsOwned
  <2>7. EndingIsOwned'
    BY <1>t, <2>1, <2>2, <2>4, <2>6 DEF IInv, EndingIsOwned, ServerOK
  <2> QED
    BY <2>5, <2>7, <1>1 DEF IInv, TypeOK, ActorsOK, RegistryOK, ServerOK
<1>3. CASE HangUp(s)
  <2>1. wire'[s] = <<>> /\ \A r \in Sessions : r # s => wire'[r] = wire[r]
    BY <1>3, <1>t DEF ServerOK, HangUp
  <2>2. ServerOK'
    <3>1. wire' \in [Sessions -> Seq([by: Actors, msg: Messages])]
      <4>1. <<>> \in Seq([by: Actors, msg: Messages])
        OBVIOUS
      <4>2. wire' = [wire EXCEPT ![s] = <<>>]
        BY <1>3 DEF HangUp
      <4> QED
        BY <1>t, <4>1, <4>2 DEF ServerOK
    <3>2. txn' \in [Sessions -> {"none", "active", "failed", "committed", "rolledback"}]
      BY <1>3, <1>t DEF ServerOK, HangUp
    <3>3. UNCHANGED <<up, reply>>
      BY <1>3 DEF HangUp
    <3> QED
      BY <1>t, <3>1, <3>2, <3>3 DEF ServerOK
  <2>3. EndingIsOwned'
    BY <1>3, <1>t, <2>1 DEF IInv, EndingIsOwned, ServerOK, HangUp, registry
  <2> QED
    BY <1>1, <2>2, <2>3 DEF IInv, TypeOK, ActorsOK, RegistryOK, ServerOK
<1>4. CASE LoseSocket(s)
  <2>1. ServerOK' /\ EndingIsOwned'
    BY <1>4, <1>t DEF IInv, EndingIsOwned, ServerOK, LoseSocket, registry
  <2> QED
    BY <1>1, <2>1 DEF IInv, TypeOK, ActorsOK, RegistryOK, ServerOK
<1> QED
  BY <1>2, <1>3, <1>4

\* A stuttering step.
LEMMA StutterStep == IInv /\ UNCHANGED vars => IInv'
<1> SUFFICES ASSUME IInv, UNCHANGED vars PROVE IInv'
  OBVIOUS
<1>1. TypeOK'
  BY DEF IInv, TypeOK, vars
<1>2. BeginsOwnSession' /\ KnowsItsJob'
  BY DEF IInv, BeginsOwnSession, KnowsItsJob, vars
<1>3. EndingIsOwned'
  BY DEF IInv, EndingIsOwned, vars
<1> QED
  BY <1>1, <1>2, <1>3 DEF IInv

\* The invariant is inductive.
LEMMA NextInv == IInv /\ [Next]_vars => IInv'
<1> SUFFICES ASSUME IInv, Next PROVE IInv'
  BY StutterStep
<1>1. CASE \E s \in Sessions : Lookup(s) \/ Begin(s)
  BY <1>1, BeginStep
<1>2. CASE \E s \in Sessions : Watch(s)
  <2>1. PICK s \in Sessions, a \in Keepers : Reclaim(a, s)
    BY <1>2 DEF Watch
  <2>2. a \in Actors
    BY DEF Actors
  <2> QED
    BY <2>1, <2>2, CloseStep
<1>3. CASE \E s \in Sessions : Serve(s) \/ HangUp(s) \/ LoseSocket(s)
  BY <1>3, ServerStep
<1>4. CASE \E a \in Calls, s \in Sessions, msg \in Messages : Call(a, s, msg)
  BY <1>4, ExecuteStep
<1>5. CASE \E a \in Calls : Execute(a) \/ Executed(a)
  <2>1. PICK a \in Calls : Execute(a) \/ Executed(a)
    BY <1>5
  <2>2. on[a] \in Sessions
    BY <2>1 DEF IInv, KnowsItsJob, Engaged, Actors, Execute, Executed
  <2>3. "commit" \in Messages
    BY DEF Messages
  <2> QED
    BY <2>1, <2>2, <2>3, ExecuteStep
<1>6. CASE \E a \in Calls \cup Sessions : End(a)
  BY <1>6, EndStep
<1>7. CASE \E a \in Actors : Close(a)
  <2>1. PICK a \in Actors : Close(a)
    BY <1>7
  <2>2. on[a] \in Sessions
    BY <2>1 DEF IInv, KnowsItsJob, Engaged, Close, CloseOwn, CloseAbort, CloseUnlist,
       CloseTake
  <2>3. PICK s \in Sessions : s = on[a]
    BY <2>2
  <2> QED
    BY <2>1, <2>3, CloseStep
<1>8. CASE \E k \in Conns : RemoveConn(k) \/ Remove(k)
  BY <1>8, RemoveStep
<1> QED
  BY <1>1, <1>2, <1>3, <1>4, <1>5, <1>6, <1>7, <1>8 DEF Next

\* The invariant holds in every reachable state.
LEMMA Invariance == Spec => []IInv
BY InitInv, NextInv, PTL DEF Spec

\* Type correctness of the sessions.
THEOREM TypeCorrect == Spec => []TypeOK
<1>1. IInv => TypeOK
  BY DEF IInv
<1> QED
  BY <1>1, Invariance, PTL

\* A session that a forced close owns is never committed, and no COMMIT of it is under
\* way: whatever the number of sessions, calls, watches and removals.
THEOREM ClosedIsNeverCommitted == Spec => []ClosedNeverCommits
<1>1. IInv => ClosedNeverCommits
  BY DEF IInv, EndingIsOwned, ClosedNeverCommits
<1> QED
  BY <1>1, Invariance, PTL

-----------------------------------------------------------------------------
\* The refinement of SessionOutcome.

\* A session has no transaction before its begin opened one.
Fresh == \A s \in Sessions : pc[s] \in {"idle", "connecting"} => txn[s] = "none"

\* A step opens a transaction only for a session past its connect.
LEMMA FreshInv == IInv /\ Fresh /\ [Next]_vars => Fresh'
<1> SUFFICES ASSUME IInv, Fresh, [Next]_vars, NEW s \in Sessions,
                    pc'[s] \in {"idle", "connecting"}
             PROVE  txn'[s] = "none"
  BY DEF Fresh
<1>t. ActorsOK /\ RegistryOK /\ ServerOK
  BY DEF IInv, TypeOK, ActorsOK, RegistryOK, ServerOK
<1>0. /\ Sessions \subseteq Actors
      /\ s \notin Conns /\ s \notin Calls /\ s \notin Keepers
  BY SqlSessionAssumption DEF Actors
<1>1. CASE \E r \in Sessions : Lookup(r) \/ Begin(r)
  BY <1>0, <1>1, <1>t DEF Fresh, ActorsOK, ServerOK, Lookup, Begin, Open, Recheck, Goto,
     server
<1>2. CASE \E r \in Sessions : Watch(r)
  BY <1>0, <1>2, <1>t DEF Fresh, ActorsOK, Watch, Reclaim, Goto, server
<1>3. CASE \E r \in Sessions : Serve(r) \/ HangUp(r) \/ LoseSocket(r)
  BY <1>0, <1>3, <1>t DEF Fresh, ServerOK, Serve, HangUp, LoseSocket, actors
<1>4. CASE \E a \in Calls, r \in Sessions, msg \in Messages : Call(a, r, msg)
  BY <1>0, <1>4, <1>t DEF Fresh, ActorsOK, Call, Goto, server
<1>5. CASE \E a \in Calls : Execute(a) \/ Executed(a)
  BY <1>0, <1>5, <1>t DEF Fresh, ActorsOK, Execute, Executed, Goto, server
<1>6. CASE \E a \in Calls \cup Sessions : End(a)
  BY <1>0, <1>6, <1>t DEF Fresh, ActorsOK, End, BeginEnding, EndLock, EndTimeout, Claim,
         Ended, Forget, Goto, server
<1>7. CASE \E a \in Actors : Close(a)
  BY <1>0, <1>7, <1>t DEF Fresh, ActorsOK, Close, CloseOwn, CloseAbort, CloseUnlist,
         CloseTake, AfterClose, Goto, server
<1>8. CASE \E k \in Conns : RemoveConn(k) \/ Remove(k)
  BY <1>0, <1>8, <1>t DEF Fresh, ActorsOK, RemoveConn, Remove, Collect, Sweep, Goto, server
<1>9. CASE UNCHANGED vars
  BY <1>9 DEF Fresh, vars
<1> QED
  BY <1>1, <1>2, <1>3, <1>4, <1>5, <1>6, <1>7, <1>8, <1>9 DEF Next

\* A step that leaves the state and the transaction of every session alone is invisible.
LEMMA Invisible ==
    ASSUME UNCHANGED <<state, txn>>
    PROVE  UNCHANGED Outcome!vars
BY DEF Outcome!vars, Owner, Settled

\* Steps that may change who owns a session: begin to end it, claim it, close it.
LEMMA OwnStep ==
    ASSUME IInv, NEW a \in Actors, on[a] \in Sessions,
           BeginEnding(a) \/ Claim(a) \/ CloseOwn(a)
    PROVE  Outcome!Next \/ UNCHANGED Outcome!vars
<1> DEFINE s == on[a]
<1>t. RegistryOK
  BY DEF IInv, TypeOK, RegistryOK
<1>1. UNCHANGED Settled
  BY DEF BeginEnding, Claim, CloseOwn, server, Settled
<1>2. CASE UNCHANGED state
  BY <1>1, <1>2 DEF Owner, Outcome!vars
<1>3. CASE state[s] = "open" /\ state' = [state EXCEPT ![s] = "ending"]
  BY <1>1, <1>3, <1>t DEF RegistryOK, Owner, Outcome!vars
<1>4. CASE state[s] = "ending" /\ state' = [state EXCEPT ![s] = "committing"]
  <2>1. Owner[s] = "nobody" /\ Owner' = [Owner EXCEPT ![s] = "end"]
    BY <1>4, <1>t DEF RegistryOK, Owner
  <2> QED
    BY <1>1, <2>1 DEF Outcome!Next, Outcome!Own
<1>5. CASE state' = [state EXCEPT ![s] = IF @ = "committing" THEN @ ELSE "closed"]
  <2>1. CASE state[s] \in {"open", "ending"}
    <3>1. Owner[s] = "nobody" /\ Owner' = [Owner EXCEPT ![s] = "close"]
      BY <1>5, <2>1, <1>t DEF RegistryOK, Owner
    <3> QED
      BY <1>1, <3>1 DEF Outcome!Next, Outcome!Own
  <2>2. CASE state[s] \in {"committing", "closed"}
    <3>1. UNCHANGED Owner
      BY <1>5, <2>2, <1>t DEF RegistryOK, Owner
    <3> QED
      BY <1>1, <3>1 DEF Outcome!vars
  <2> QED
    BY <1>t, <2>1, <2>2 DEF RegistryOK
<1> QED
  BY <1>2, <1>3, <1>4, <1>5 DEF BeginEnding, Claim, CloseOwn

\* Steps that may change what becomes of a transaction.
LEMMA SettleStep ==
    ASSUME IInv, Fresh, NEW s \in Sessions, Open(s) \/ Serve(s) \/ HangUp(s)
    PROVE  Outcome!Next \/ UNCHANGED Outcome!vars
<1>t. RegistryOK /\ ServerOK
  BY DEF IInv, TypeOK, RegistryOK, ServerOK
<1>1. UNCHANGED Owner
  BY DEF Open, Serve, HangUp, registry, Owner
<1>2. CASE Open(s)
  <2>1. txn[s] = "none"
    BY <1>2 DEF Fresh, Open
  <2>2. UNCHANGED Settled
    BY <1>2, <1>t, <2>1 DEF ServerOK, Open, Settled
  <2> QED
    BY <1>1, <2>2 DEF Outcome!vars
<1>3. ASSUME txn[s] \in {"active", "failed"}, NEW t \in {"active", "failed", "rolledback"},
             txn' = [txn EXCEPT ![s] = t]
      PROVE  Outcome!Next \/ UNCHANGED Outcome!vars
  <2>1. CASE t = "rolledback"
    <3>1. Settled[s] = "open" /\ Settled' = [Settled EXCEPT ![s] = "undone"]
      BY <1>3, <2>1, <1>t DEF ServerOK, Settled
    <3> QED
      BY <1>1, <3>1 DEF Outcome!Next, Outcome!Undo
  <2>2. CASE t # "rolledback"
    <3>1. UNCHANGED Settled
      BY <1>3, <2>2, <1>t DEF ServerOK, Settled
    <3> QED
      BY <1>1, <3>1 DEF Outcome!vars
  <2> QED
    BY <2>1, <2>2
<1>4. CASE HangUp(s)
  BY <1>3, <1>4 DEF HangUp
<1>5. CASE Serve(s)
  <2> DEFINE S == [by: Actors, msg: Messages]
             m == Head(wire[s])
  <2>1. wire[s] \in Seq(S) /\ wire[s] # <<>>
    BY <1>5, <1>t DEF ServerOK, Serve
  <2>2. 1 \in 1..Len(wire[s]) /\ m = wire[s][1]
    <3> HIDE DEF S
    <3> QED
      BY <2>1, TailOfWire
  <2>3. PICK outcome \in Outcomes(m.msg, txn[s]) : txn' = [txn EXCEPT ![s] = outcome[2]]
    BY <1>5 DEF Serve
  <2>4. /\ txn[s] \in {"active", "failed"}
        /\ outcome[2] \in {"active", "failed", "committed", "rolledback"}
        /\ outcome[2] = "committed" => m.msg # "statement"
    BY <1>5 DEF Outcomes, Serve
  <2>5. CASE outcome[2] = "committed"
    <3>1. state[s] = "committing"
      BY <2>2, <2>4, <2>5 DEF IInv, EndingIsOwned
    <3>2. Owner[s] = "end" /\ Settled[s] = "open"
      BY <3>1, <2>4 DEF Owner, Settled
    <3>3. Settled' = [Settled EXCEPT ![s] = "applied"]
      BY <1>t, <2>3, <2>5 DEF ServerOK, Settled
    <3> QED
      BY <1>1, <3>2, <3>3 DEF Outcome!Next, Outcome!Apply
  <2>6. CASE outcome[2] # "committed"
    BY <1>3, <2>3, <2>4, <2>6
  <2> QED
    BY <2>5, <2>6
<1> QED
  BY <1>2, <1>4, <1>5

\* Every step of the sessions is a step of the abstract outcome, or a stutter.
LEMMA StepRefines == IInv /\ Fresh /\ [Next]_vars => [Outcome!Next]_(Outcome!vars)
<1> SUFFICES ASSUME IInv, Fresh, [Next]_vars
             PROVE  Outcome!Next \/ UNCHANGED Outcome!vars
  OBVIOUS
<1>1. CASE \E s \in Sessions : Open(s) \/ Serve(s) \/ HangUp(s)
  BY <1>1, SettleStep
<1>2. CASE \E a \in Actors : BeginEnding(a) \/ Claim(a) \/ CloseOwn(a)
  <2>1. PICK a \in Actors : BeginEnding(a) \/ Claim(a) \/ CloseOwn(a)
    BY <1>2
  <2>2. on[a] \in Sessions
    BY <2>1 DEF IInv, KnowsItsJob, Engaged, BeginEnding, Claim, CloseOwn
  <2> QED
    BY <2>1, <2>2, OwnStep
<1>3. CASE UNCHANGED <<state, txn>>
  BY <1>3, Invisible
<1>4. \/ \E s \in Sessions : Open(s) \/ Serve(s) \/ HangUp(s)
      \/ \E a \in Actors : BeginEnding(a) \/ Claim(a) \/ CloseOwn(a)
      \/ UNCHANGED <<state, txn>>
  <2>1. CASE \E s \in Sessions : Lookup(s) \/ Begin(s)
    BY <2>1 DEF Lookup, Begin, Recheck, registry, server
  <2>2. CASE \E s \in Sessions : Watch(s)
    BY <2>2 DEF Watch, Reclaim, registry, server
  <2>3. CASE \E s \in Sessions : Serve(s) \/ HangUp(s) \/ LoseSocket(s)
    BY <2>3 DEF LoseSocket, registry
  <2>4. CASE \E a \in Calls, s \in Sessions, msg \in Messages : Call(a, s, msg)
    BY <2>4 DEF Call, registry, server
  <2>5. CASE \E a \in Calls : Execute(a) \/ Executed(a)
    BY <2>5 DEF Execute, Executed, server
  <2>6. CASE \E a \in Calls \cup Sessions : End(a)
    BY <2>6 DEF End, EndLock, EndTimeout, Ended, Forget, Actors, registry, server
  <2>7. CASE \E a \in Actors : Close(a)
    BY <2>7 DEF Close, CloseAbort, CloseUnlist, CloseTake, registry, server
  <2>8. CASE \E k \in Conns : RemoveConn(k) \/ Remove(k)
    BY <2>8 DEF RemoveConn, Remove, Collect, Sweep, server
  <2>9. CASE UNCHANGED vars
    BY <2>9 DEF vars
  <2> QED
    BY <2>1, <2>2, <2>3, <2>4, <2>5, <2>6, <2>7, <2>8, <2>9 DEF Next
<1> QED
  BY <1>1, <1>2, <1>3, <1>4

\* At the start no session has a transaction, and nobody owns one.
LEMMA InitRefines == Init => Fresh /\ Outcome!Init
BY DEF Init, Fresh, Owner, Settled, Outcome!Init

\* The sessions implement SessionOutcome: a session comes to be owned once and for good,
\* and only the owner end() ever has it applied.
THEOREM Refinement == Spec => ImplementsOutcome
<1>1. Spec => []Fresh
  BY InitRefines, FreshInv, Invariance, PTL DEF Spec
<1> QED
  BY <1>1, InitRefines, StepRefines, Invariance, PTL DEF Spec, Outcome!Spec,
     ImplementsOutcome

-----------------------------------------------------------------------------
\* What an end() reports, and what is left behind a removal.

\* The actors that send, where they have not sent yet, and where they are done with it.
Callers == Calls \cup Sessions
Unsent == {"idle", "connecting", "opened", "queued", "ending", "waiting", "locked"}
Done == {"forgetting", "closing", "aborting", "unlisting", "taking", "over"}

\* Who sends and waits for the answer holds the client's lock.
SenderHoldsLock == \A a \in Callers : pc[a] \in {"locked", "sent"} => lock[on[a]] = a

\* Who has not sent yet was not answered, and reports nothing before its answer; a message
\* is for a session.
NothingYet ==
    \A a \in Callers :
        /\ op[a] # "none" => on[a] \in Sessions
        /\ pc[a] \in Unsent \cup {"sent"} => result[a] = "none"
        /\ pc[a] \in Unsent => reply[a] = "none"

\* A message on the wire is its sender's only one, not answered yet; a sender of COMMIT
\* that gave up waiting said that it does not know, one of a statement reported a failure.
SentBy(s, m) ==
    /\ m.by \in Callers /\ on[m.by] = s /\ op[m.by] = m.msg /\ reply[m.by] = "none"
    /\ \/ pc[m.by] = "sent"
       \/ /\ pc[m.by] \in Done
          /\ m.msg = "commit" => result[m.by] = "unknown"
          /\ m.msg = "statement" => result[m.by] \in {"error", "timeout"}
WireIsSent ==
    \A s \in Sessions :
        /\ \A i \in 1..Len(wire[s]) : SentBy(s, wire[s][i])
        /\ \A i, j \in 1..Len(wire[s]) : wire[s][i].by = wire[s][j].by => i = j

\* An applied transaction was answered ok to the end() that committed it.
Tells(a, s) ==
    /\ on[a] = s /\ op[a] = "commit"
    /\ (pc[a] = "sent" /\ reply[a] = "ok") \/ result[a] \in {"ok", "unknown"}
CommitIsAnswered ==
    \A s \in Sessions : txn[s] = "committed" => \E a \in Calls : Tells(a, s)

\* A failed transaction has a statement that reports it, or is about to.
Reported(s) ==
    \E c \in Calls : on[c] = s /\ op[c] = "statement" /\ result[c] \in {"error", "timeout"}
FailureIsTold ==
    \A s \in Sessions : txn[s] = "failed" =>
        \/ Reported(s)
        \/ \E c \in Calls : /\ on[c] = s /\ op[c] = "statement"
                            /\ pc[c] = "sent" /\ reply[c] = "error"

\* A COMMIT that was answered ok was applied, unless a failure had been reported.
OkIsApplied ==
    \A a \in Calls :
        op[a] = "commit" /\ (result[a] = "ok" \/ (pc[a] = "sent" /\ reply[a] = "ok")) =>
            txn[on[a]] = "committed" \/ Reported(on[a])

\* Whoever closes a session, or took its client, has settled who owns it.
CloserOwns ==
    /\ \A a \in Actors : pc[a] \in {"aborting", "unlisting", "taking"} =>
           state[on[a]] \in {"committing", "closed"}
    /\ \A s \in taken : state[s] \in {"committing", "closed"}

Talk == /\ NothingYet /\ WireIsSent /\ CommitIsAnswered /\ FailureIsTold /\ OkIsApplied

Honest == SenderHoldsLock /\ Talk /\ TakeTurns /\ CloserOwns

\* A session is listed, swept or worked on only once its begin has opened it.
Opened(s) == pc[s] \notin {"idle", "connecting"}
WorkIsOnOpened ==
    /\ \A a \in Actors : pc[a] \in Engaged => Opened(on[a])
    /\ \A s \in listed : Opened(s)
    /\ \A s \in Sessions : state[s] # "open" => Opened(s)
    /\ \A k \in Conns : \A s \in todo[k] : Opened(s)

\* An open socket belongs to a listed session; who unlists one has closed its socket.
UpIsListed ==
    /\ up \subseteq listed
    /\ \A a \in Actors :
         /\ pc[a] \in {"forgetting", "unlisting"} => on[a] \notin up
         /\ pc[a] = "taking" => on[a] \notin listed

\* A removal works on the sessions of its connection, which is gone from the map.
SweepsOwn ==
    /\ \A k \in Conns : /\ k \in conns <=> pc[k] = "idle"
                        /\ pc[k] \in Engaged => Home[on[k]] = k
                        /\ \A s \in todo[k] : Home[s] = k
                        /\ pc[k] = "over" => todo[k] = {}
    /\ \A s \in Sessions : result[s] = "ok" => pc[s] = "over"
    /\ \A a \in Calls \cup Keepers : pc[a] \in Engaged => result[on[a]] = "ok"

\* A removal that has collected its sessions still has s ahead of it.
Ahead(s) ==
    LET k == Home[s]
    IN  \/ pc[k] \in {"idle", "collecting"}
        \/ s \in todo[k]
        \/ on[k] = s /\ pc[k] \in {"closing", "aborting", "unlisting"}

\* A begin that is on its way to end its own session.
Leaving == {"waiting", "locked", "sent", "forgetting", "closing", "aborting", "unlisting"}

\* A listed session that its own begin does not end will be closed by the removal.
ListedIsAhead ==
    \A s \in listed :
        \/ Ahead(s)
        \/ pc[s] \in {"opened", "ending"} /\ state[s] = "open"
        \/ pc[s] \in Leaving

Left == WorkIsOnOpened /\ UpIsListed /\ SweepsOwn /\ ListedIsAhead

\* The facts about the types that the lemmas below use.
Typed == ActorsOK /\ RegistryOK /\ ServerOK

\* The invariant, as the lemmas below use it.
LEMMA TypedFacts ==
    ASSUME IInv
    PROVE  /\ Typed
           /\ Callers \subseteq Actors /\ Calls \subseteq Callers
           /\ \A s \in Sessions : on[s] = s /\ op[s] = "rollback"
           /\ Unsent \cap Done = {} /\ "sent" \notin Unsent \cup Done
BY DEF IInv, TypeOK, Typed, ActorsOK, RegistryOK, ServerOK, Callers, Actors,
       BeginsOwnSession, Unsent, Done

\* Nothing is said anew: every caller keeps its place, or goes on after its answer.
Silent ==
    /\ UNCHANGED <<wire, reply, txn>>
    /\ \A b \in Callers :
         /\ on'[b] = on[b] /\ op'[b] = op[b] /\ result'[b] = result[b]
         /\ pc'[b] = pc[b] \/ (pc[b] \in Done /\ pc'[b] \in Done)

\* Saying nothing keeps what was said true.
LEMMA SilentStep ==
    ASSUME IInv, Talk, TakeTurns, Silent
    PROVE  Talk' /\ TakeTurns'
<1>0. Calls \subseteq Callers /\ Unsent \cap Done = {} /\ "sent" \notin Unsent \cup Done
  BY TypedFacts
<1>1. UNCHANGED <<wire, reply, txn>>
  BY DEF Silent
<1>2. ASSUME NEW b \in Callers
      PROVE  /\ on'[b] = on[b] /\ op'[b] = op[b] /\ result'[b] = result[b]
             /\ pc'[b] = "sent" <=> pc[b] = "sent"
             /\ pc'[b] \in Unsent => pc[b] \in Unsent
             /\ pc[b] \in Done => pc'[b] \in Done
  BY <1>0 DEF Silent
<1>3. NothingYet'
  BY <1>1, <1>2 DEF Talk, NothingYet
<1>4. WireIsSent'
  BY <1>1, <1>2 DEF Talk, WireIsSent, SentBy
<1>5. CommitIsAnswered'
  BY <1>0, <1>1, <1>2 DEF Talk, CommitIsAnswered, Tells
<1>6. \A s \in Sessions : Reported(s) => Reported(s)'
  BY <1>0, <1>2 DEF Reported
<1>7. FailureIsTold'
  BY <1>0, <1>1, <1>2, <1>6 DEF Talk, FailureIsTold
<1>8. \A a \in Calls : Reported(on[a]) => Reported(on[a])'
  BY <1>0, <1>2 DEF Reported
<1>9. OkIsApplied'
  BY <1>0, <1>1, <1>2, <1>8 DEF Talk, OkIsApplied
<1>10. TakeTurns'
  BY <1>1, <1>2 DEF Talk, WireIsSent, SentBy, TakeTurns
<1> QED
  BY <1>3, <1>4, <1>5, <1>7, <1>9, <1>10 DEF Talk

\* A caller goes on before its message, or gives up without having sent one; a session
\* may have been opened.
Before(a) ==
    /\ pc[a] \in Unsent /\ pc'[a] \in Unsent \cup Done
    /\ pc'[a] \in Unsent => result'[a] = "none"
    /\ op'[a] # "none" => on'[a] \in Sessions
    /\ a \in Calls /\ op'[a] = "commit" => result'[a] # "ok"
    /\ UNCHANGED <<wire, reply>>
    /\ \A s \in Sessions : txn'[s] = txn[s] \/ (txn[s] = "none" /\ txn'[s] = "active")
    /\ \A b \in Callers \ {a} :
         on'[b] = on[b] /\ op'[b] = op[b] /\ result'[b] = result[b] /\ pc'[b] = pc[b]

\* So does a step before the message: its actor has no part in what was said.
LEMMA BeforeStep ==
    ASSUME IInv, Talk, TakeTurns, NEW a \in Callers, Before(a)
    PROVE  Talk' /\ TakeTurns'
<1>0. Calls \subseteq Callers /\ Unsent \cap Done = {} /\ "sent" \notin Unsent \cup Done
  BY TypedFacts
<1>1. /\ UNCHANGED <<wire, reply>> /\ pc[a] # "sent" /\ pc'[a] # "sent"
      /\ result[a] = "none" /\ reply[a] = "none" /\ reply'[a] = "none"
  BY <1>0 DEF Before, Talk, NothingYet
<1>2. ASSUME NEW b \in Callers, b # a
      PROVE  /\ on'[b] = on[b] /\ op'[b] = op[b] /\ result'[b] = result[b] /\ pc'[b] = pc[b]
  BY <1>2 DEF Before
<1>3. NothingYet'
  BY <1>1, <1>2 DEF Before, Talk, NothingYet
<1>4. \A s \in Sessions : \A i \in 1..Len(wire[s]) : wire[s][i].by # a
  BY <1>0 DEF Before, Talk, WireIsSent, SentBy
<1>5. WireIsSent'
  BY <1>1, <1>2, <1>4 DEF Talk, WireIsSent, SentBy
<1>6. TakeTurns'
  BY <1>1, <1>2, <1>4 DEF Talk, WireIsSent, SentBy, TakeTurns
<1>7. CommitIsAnswered'
  <2> SUFFICES ASSUME NEW s \in Sessions, txn'[s] = "committed"
               PROVE  \E b \in Calls : Tells(b, s)'
    BY DEF CommitIsAnswered
  <2>1. PICK b \in Calls : Tells(b, s)
    BY DEF Before, Talk, CommitIsAnswered
  <2> QED
    BY <1>0, <1>1, <1>2, <2>1 DEF Tells
<1>8. ASSUME NEW s, Reported(s) PROVE Reported(s)'
  <2>1. PICK c \in Calls : on[c] = s /\ op[c] = "statement" /\ result[c] \in {"error",
  "timeout"}
    BY <1>8 DEF Reported
  <2>2. c # a
    BY <1>1, <2>1
  <2> QED
    BY <1>0, <1>2, <2>1, <2>2 DEF Reported
<1>9. FailureIsTold'
  <2> SUFFICES ASSUME NEW s \in Sessions, txn'[s] = "failed"
               PROVE  Reported(s)' \/ \E c \in Calls : /\ on'[c] = s /\ op'[c] = "statement"
                                                       /\ pc'[c] = "sent" /\ reply'[c] = "error"
    BY DEF FailureIsTold
  <2>1. txn[s] = "failed"
    BY DEF Before
  <2>2. CASE Reported(s)
    BY <1>8, <2>2
  <2>3. CASE ~ Reported(s)
    <3>1. PICK c \in Calls : /\ on[c] = s /\ op[c] = "statement"
                             /\ pc[c] = "sent" /\ reply[c] = "error"
      BY <2>1, <2>3 DEF Talk, FailureIsTold
    <3> QED
      BY <1>0, <1>1, <1>2, <3>1
  <2> QED
    BY <2>2, <2>3
<1>10. OkIsApplied'
  <2> SUFFICES ASSUME NEW c \in Calls, op'[c] = "commit",
                      result'[c] = "ok" \/ (pc'[c] = "sent" /\ reply'[c] = "ok")
               PROVE  txn'[on'[c]] = "committed" \/ Reported(on[c])'
    BY DEF OkIsApplied
  <2>1. c # a
    BY <1>1 DEF Before
  <2>2. on'[c] = on[c] /\ (txn[on[c]] = "committed" \/ Reported(on[c]))
    BY <1>0, <1>1, <1>2, <2>1 DEF Talk, OkIsApplied
  <2>3. CASE Reported(on[c])
    <3>1. PICK s : s = on[c]
      OBVIOUS
    <3>2. Reported(s)'
      BY <1>8, <2>3, <3>1
    <3> QED
      BY <2>2, <3>1, <3>2 DEF Reported
  <2>4. CASE txn[on[c]] = "committed"
    <3>1. op[c] = "commit" /\ on[c] \in Sessions
      BY <1>0, <1>2, <2>1 DEF Talk, NothingYet
    <3> QED
      BY <2>2, <2>4, <3>1 DEF Before
  <2> QED
    BY <2>2, <2>3, <2>4
<1> QED
  BY <1>3, <1>5, <1>6, <1>7, <1>9, <1>10 DEF Talk

\* A sender reads its answer, or gives up waiting for it.
Reads(a) ==
    /\ pc[a] = "sent" /\ pc'[a] \in Done
    /\ UNCHANGED <<wire, reply, txn>>
    /\ on'[a] = on[a] /\ op'[a] = op[a]
    /\ op[a] = "commit" => /\ result'[a] \in {"ok", "error", "unknown"}
                           /\ result'[a] # "unknown" => reply[a] = result'[a]
    /\ op[a] = "statement" /\ reply[a] # "ok" => result'[a] \in {"error", "timeout"}
    /\ \A b \in Callers \ {a} :
         on'[b] = on[b] /\ op'[b] = op[b] /\ result'[b] = result[b] /\ pc'[b] = pc[b]

\* An answer that is read, or given up on, is reported as it is.
LEMMA ReadStep ==
    ASSUME IInv, Talk, TakeTurns, NEW a \in Callers, Reads(a)
    PROVE  Talk' /\ TakeTurns'
<1>0. Calls \subseteq Callers /\ Unsent \cap Done = {} /\ "sent" \notin Unsent \cup Done
  BY TypedFacts
<1>1. /\ UNCHANGED <<wire, reply, txn>> /\ pc[a] = "sent" /\ pc'[a] \in Done
      /\ on'[a] = on[a] /\ op'[a] = op[a] /\ result[a] = "none"
      /\ op[a] = "commit" => /\ result'[a] \in {"ok", "error", "unknown"}
                             /\ result'[a] # "unknown" => reply[a] = result'[a]
      /\ op[a] = "statement" /\ reply[a] # "ok" => result'[a] \in {"error", "timeout"}
  BY DEF Reads, Talk, NothingYet
<1>2. ASSUME NEW b \in Callers, b # a
      PROVE  on'[b] = on[b] /\ op'[b] = op[b] /\ result'[b] = result[b] /\ pc'[b] = pc[b]
  BY <1>2 DEF Reads
<1>3. NothingYet'
  BY <1>0, <1>1, <1>2 DEF Talk, NothingYet
<1>4. ASSUME NEW s \in Sessions, NEW i \in 1..Len(wire[s]) PROVE SentBy(s, wire[s][i])'
  <2>1. SentBy(s, wire[s][i])
    BY DEF Talk, WireIsSent
  <2>2. CASE wire[s][i].by # a
    BY <1>1, <1>2, <2>1, <2>2 DEF SentBy
  <2>3. CASE wire[s][i].by = a
    BY <1>1, <2>1, <2>3 DEF SentBy
  <2> QED
    BY <2>2, <2>3
<1>5. WireIsSent'
  BY <1>1, <1>4 DEF Talk, WireIsSent, SentBy
<1>6. TakeTurns'
  BY <1>0, <1>1, <1>2 DEF Talk, WireIsSent, SentBy, TakeTurns
<1>7. CommitIsAnswered'
  <2> SUFFICES ASSUME NEW s \in Sessions, txn'[s] = "committed"
               PROVE  \E b \in Calls : Tells(b, s)'
    BY DEF CommitIsAnswered
  <2>1. PICK b \in Calls : Tells(b, s)
    BY <1>1 DEF Talk, CommitIsAnswered
  <2> QED
    BY <1>0, <1>1, <1>2, <2>1 DEF Tells
<1>8. ASSUME NEW s, Reported(s) PROVE Reported(s)'
  <2>1. PICK c \in Calls : on[c] = s /\ op[c] = "statement" /\ result[c] \in {"error",
  "timeout"}
    BY <1>8 DEF Reported
  <2>2. c # a
    BY <1>1, <2>1
  <2> QED
    BY <1>0, <1>2, <2>1, <2>2 DEF Reported
<1>9. FailureIsTold'
  <2> SUFFICES ASSUME NEW s \in Sessions, txn'[s] = "failed"
               PROVE  Reported(s)' \/ \E c \in Calls : /\ on'[c] = s /\ op'[c] = "statement"
                                                       /\ pc'[c] = "sent" /\ reply'[c] = "error"
    BY DEF FailureIsTold
  <2>1. txn[s] = "failed"
    BY <1>1
  <2>2. CASE Reported(s)
    BY <1>8, <2>2
  <2>3. CASE ~ Reported(s)
    <3>1. PICK c \in Calls : /\ on[c] = s /\ op[c] = "statement"
                             /\ pc[c] = "sent" /\ reply[c] = "error"
      BY <2>1, <2>3 DEF Talk, FailureIsTold
    <3>2. CASE c = a
      BY <1>1, <3>1, <3>2 DEF Reported
    <3>3. CASE c # a
      BY <1>0, <1>1, <1>2, <3>1, <3>3
    <3> QED
      BY <3>2, <3>3
  <2> QED
    BY <2>2, <2>3
<1>10. OkIsApplied'
  <2> SUFFICES ASSUME NEW c \in Calls, op'[c] = "commit",
                      result'[c] = "ok" \/ (pc'[c] = "sent" /\ reply'[c] = "ok")
               PROVE  txn'[on'[c]] = "committed" \/ Reported(on[c])'
    BY DEF OkIsApplied
  <2>1. on'[c] = on[c] /\ op[c] = "commit"
    BY <1>0, <1>1, <1>2
  <2>2. result[c] = "ok" \/ (pc[c] = "sent" /\ reply[c] = "ok")
    BY <1>0, <1>1, <1>2
  <2>3. txn[on[c]] = "committed" \/ Reported(on[c])
    BY <2>1, <2>2 DEF Talk, OkIsApplied
  <2>4. CASE Reported(on[c])
    <3>1. PICK s : s = on[c]
      OBVIOUS
    <3>2. Reported(s)'
      BY <1>8, <2>4, <3>1
    <3> QED
      BY <2>1, <3>1, <3>2 DEF Reported
  <2> QED
    BY <1>1, <2>1, <2>3, <2>4
<1> QED
  BY <1>3, <1>5, <1>6, <1>7, <1>9, <1>10 DEF Talk

\* Who holds the lock, or finds it free, sends its message, which is lost on a closed
\* socket.
Sends(a, s) ==
    /\ pc[a] \in {"queued", "locked"} /\ pc'[a] = "sent"
    /\ on[a] = s /\ op[a] \in Messages
    /\ Send(a, s)
    /\ UNCHANGED <<on, op, result, reply, txn>>
    /\ \A b \in Callers \ {a} : pc'[b] = pc[b]

\* A message is sent when no other sender waits, so it takes its turn.
LEMMA SendsStep ==
    ASSUME IInv, SenderHoldsLock, Talk, TakeTurns, NEW a \in Callers, NEW s \in Sessions,
           lock[s] \in {Nobody, a}, Sends(a, s)
    PROVE  Talk' /\ TakeTurns'
<1>0. /\ Calls \subseteq Callers /\ Callers \subseteq Actors /\ Nobody \notin Actors
      /\ Unsent \cap Done = {} /\ "sent" \notin Unsent \cup Done
  BY TypedFacts, SqlSessionAssumption
<1>1. /\ UNCHANGED <<on, op, result, reply, txn>>
      /\ pc[a] \in Unsent /\ pc[a] # "sent" /\ pc'[a] = "sent" /\ on[a] = s
      /\ result[a] = "none" /\ reply[a] = "none" /\ op[a] \in Messages
      /\ \A b \in Callers : b # a => pc'[b] = pc[b]
  BY DEF Sends, Talk, NothingYet, Unsent
<1> DEFINE M == [by: Actors, msg: Messages]
           e == [by |-> a, msg |-> op[a]]
<1>2. \A r \in Sessions : wire[r] \in Seq(M) /\ Len(wire[r]) \in Nat
  <2> SUFFICES ASSUME NEW r \in Sessions PROVE wire[r] \in Seq(M) /\ Len(wire[r]) \in Nat
    OBVIOUS
  <2>1. wire[r] \in Seq(M)
    BY DEF IInv, TypeOK
  <2> HIDE DEF M
  <2>2. Len(wire[r]) \in Nat
    BY <2>1
  <2> QED
    BY <2>1, <2>2
<1>3. e \in M
  BY <1>0, <1>1
<1>4. \A r \in Sessions : \A i \in 1..Len(wire[r]) : wire[r][i].by # a
  BY <1>0, <1>1 DEF Talk, WireIsSent, SentBy
<1>5. \A i \in 1..Len(wire[s]) : pc[wire[s][i].by] # "sent"
  <2> SUFFICES ASSUME NEW i \in 1..Len(wire[s]), pc[wire[s][i].by] = "sent" PROVE FALSE
    OBVIOUS
  <2>1. wire[s][i].by \in Callers /\ on[wire[s][i].by] = s
    BY DEF Talk, WireIsSent, SentBy
  <2>2. lock[s] = wire[s][i].by
    BY <2>1 DEF SenderHoldsLock
  <2> QED
    BY <1>0, <1>4, <2>1, <2>2
<1>6. \/ UNCHANGED wire
      \/ /\ \A r \in Sessions : r # s => wire'[r] = wire[r]
         /\ Len(wire'[s]) = Len(wire[s]) + 1
         /\ \A i \in 1..Len(wire[s]) : wire'[s][i] = wire[s][i]
         /\ wire'[s][Len(wire[s]) + 1] = e
  <2>1. CASE s \notin up
    BY <2>1 DEF Sends, Send
  <2>2. CASE s \in up
    <3>1. wire' = [wire EXCEPT ![s] = Append(wire[s], e)]
      BY <2>2 DEF Sends, Send
    <3>2. wire'[s] = Append(wire[s], e) /\ \A r \in Sessions : r # s => wire'[r] = wire[r]
      BY <3>1 DEF IInv, TypeOK
    <3> HIDE DEF e, M
    <3>3. /\ Len(Append(wire[s], e)) = Len(wire[s]) + 1
          /\ \A i \in 1..Len(wire[s]) : Append(wire[s], e)[i] = wire[s][i]
          /\ Append(wire[s], e)[Len(wire[s]) + 1] = e
      BY <1>2, <1>3, AppendOne
    <3> QED
      BY <3>2, <3>3
  <2> QED
    BY <2>1, <2>2
<1>7. e.by = a /\ e.msg = op[a]
  OBVIOUS
<1> HIDE DEF e, M
<1>8. ASSUME NEW r \in Sessions, NEW i \in 1..Len(wire'[r])
      PROVE  \/ i \in 1..Len(wire[r]) /\ wire'[r][i] = wire[r][i]
             \/ r = s /\ i = Len(wire[s]) + 1 /\ wire'[r][i] = e
  BY <1>2, <1>6
<1>9. NothingYet'
  BY <1>0, <1>1 DEF Talk, NothingYet
<1>10. WireIsSent'
  <2>1. ASSUME NEW r \in Sessions, NEW i \in 1..Len(wire'[r])
        PROVE  SentBy(r, wire[r][i])'
    <3>1. CASE i \in 1..Len(wire[r]) /\ wire'[r][i] = wire[r][i]
      <4>1. SentBy(r, wire[r][i]) /\ wire[r][i].by # a
        BY <1>4, <3>1 DEF Talk, WireIsSent
      <4> QED
        BY <1>1, <3>1, <4>1 DEF SentBy
    <3>2. CASE r = s /\ wire'[r][i] = e
      BY <1>1, <1>7, <3>2 DEF SentBy
    <3> QED
      BY <1>8, <3>1, <3>2
  <2>2. ASSUME NEW r \in Sessions, NEW i \in 1..Len(wire'[r]), NEW j \in 1..Len(wire'[r]),
               wire'[r][i].by = wire'[r][j].by
        PROVE  i = j
    BY <1>4, <1>7, <1>8, <2>2 DEF Talk, WireIsSent
  <2> QED
    BY <2>1, <2>2 DEF WireIsSent
<1>11. TakeTurns'
  <2> SUFFICES ASSUME NEW r \in Sessions, NEW i \in 1..Len(wire'[r]), i < Len(wire'[r])
               PROVE  pc'[wire'[r][i].by] # "sent"
    BY DEF TakeTurns
  <2>1. i \in 1..Len(wire[r]) /\ wire'[r][i] = wire[r][i]
    BY <1>2, <1>6
  <2>2. pc[wire[r][i].by] # "sent"
    <3>1. CASE r = s
      BY <1>5, <2>1, <3>1
    <3>2. CASE r # s
      BY <1>6, <2>1, <3>2 DEF TakeTurns
    <3> QED
      BY <3>1, <3>2
  <2>3. wire[r][i].by \in Callers /\ wire[r][i].by # a
    BY <1>4, <2>1 DEF Talk, WireIsSent, SentBy
  <2> QED
    BY <1>1, <2>1, <2>2, <2>3
<1>12. CommitIsAnswered'
  BY <1>0, <1>1 DEF Talk, CommitIsAnswered, Tells
<1>13. \A r : Reported(r)' <=> Reported(r)
  BY <1>1 DEF Reported
<1>14. FailureIsTold'
  BY <1>0, <1>1, <1>13 DEF Talk, FailureIsTold
<1>15. OkIsApplied'
  BY <1>0, <1>1, <1>13 DEF Talk, OkIsApplied, Reported
<1> QED
  BY <1>9, <1>10, <1>11, <1>12, <1>14, <1>15 DEF Talk

\* The server answers the first message, or hangs up.
LEMMA ServerTalks ==
    ASSUME IInv, SenderHoldsLock, Talk, TakeTurns, NEW s \in Sessions,
           Serve(s) \/ HangUp(s)
    PROVE  Talk' /\ TakeTurns'
<1>0. /\ Calls \subseteq Callers /\ Callers \subseteq Actors
      /\ Unsent \cap Done = {} /\ "sent" \notin Unsent \cup Done
      /\ \A r \in Sessions : op[r] = "rollback"
  BY TypedFacts
<1>1. UNCHANGED <<pc, on, op, result>> /\ \A r : Reported(r)' <=> Reported(r)
  BY DEF Serve, HangUp, actors, Reported
<1>2. CASE HangUp(s)
  <2>1. /\ UNCHANGED reply /\ wire'[s] = <<>> /\ txn'[s] = "rolledback"
        /\ txn[s] \in {"active", "failed"}
        /\ \A r \in Sessions : r # s => wire'[r] = wire[r] /\ txn'[r] = txn[r]
    BY <1>2 DEF HangUp, IInv, TypeOK
  <2>2. NothingYet'
    BY <1>1, <2>1 DEF Talk, NothingYet
  <2>3. 1..Len(wire'[s]) = {}
    BY <2>1
  <2>4. WireIsSent' /\ TakeTurns'
    <3>1. ASSUME NEW r \in Sessions, r # s
          PROVE  wire'[r] = wire[r] /\ UNCHANGED <<pc, on, op, result, reply>>
      BY <1>1, <2>1, <3>1
    <3>2. WireIsSent'
      BY <2>3, <3>1 DEF Talk, WireIsSent, SentBy
    <3>3. TakeTurns'
      BY <2>3, <3>1 DEF TakeTurns
    <3> QED
      BY <3>2, <3>3
  <2>5. CommitIsAnswered'
    BY <1>1, <2>1 DEF Talk, CommitIsAnswered, Tells
  <2>6. FailureIsTold'
    BY <1>1, <2>1 DEF Talk, FailureIsTold
  <2>7. OkIsApplied'
    <3> SUFFICES ASSUME NEW c \in Calls, op'[c] = "commit",
                        result'[c] = "ok" \/ (pc'[c] = "sent" /\ reply'[c] = "ok")
                 PROVE  txn'[on'[c]] = "committed" \/ Reported(on[c])'
      BY DEF OkIsApplied
    <3>1. txn[on[c]] = "committed" \/ Reported(on[c])
      BY <1>1, <2>1 DEF Talk, OkIsApplied
    <3>2. on[c] \in Sessions
      BY <1>0, <1>1 DEF Talk, NothingYet
    <3> QED
      BY <1>1, <2>1, <3>1, <3>2 DEF Reported
  <2> QED
    BY <2>2, <2>4, <2>5, <2>6, <2>7 DEF Talk
<1>3. CASE Serve(s)
  <2> DEFINE M == [by: Actors, msg: Messages]
             m == Head(wire[s])
  <2>1. wire[s] \in Seq(M) /\ wire[s] # <<>>
    BY <1>3 DEF IInv, TypeOK, Serve
  <2>2. PICK answer, left :
          /\ <<answer, left>> \in Outcomes(m.msg, txn[s])
          /\ reply' = [reply EXCEPT ![m.by] = answer]
          /\ txn' = [txn EXCEPT ![s] = left]
    <3>1. PICK outcome \in Outcomes(m.msg, txn[s]) :
            /\ reply' = [reply EXCEPT ![m.by] = outcome[1]]
            /\ txn' = [txn EXCEPT ![s] = outcome[2]]
      BY <1>3 DEF Serve
    <3>2. outcome = <<outcome[1], outcome[2]>>
      BY DEF Outcomes
    <3> QED
      BY <3>1, <3>2
  <2>3. /\ wire' = [wire EXCEPT ![s] = Tail(wire[s])] /\ txn[s] \in {"active", "failed"}
    BY <1>3 DEF Serve
  <2> HIDE DEF M
  <2>4. /\ Tail(wire[s]) \in Seq(M) /\ m \in M /\ Len(wire[s]) \in Nat /\ 1 \in 1..Len(wire[s])
        /\ m = wire[s][1]
        /\ Len(Tail(wire[s])) = Len(wire[s]) - 1
        /\ \A i \in 1..Len(Tail(wire[s])) :
             i + 1 \in 1..Len(wire[s]) /\ Tail(wire[s])[i] = wire[s][i + 1]
    BY <2>1, TailOfWire
  <2> HIDE DEF m
  <2>5. SentBy(s, m)
    BY <2>4 DEF Talk, WireIsSent
  <2>6. PICK a \in Callers : m.by = a
    BY <2>5 DEF SentBy
  <2>7. /\ reply'[a] = answer /\ \A b \in Callers : b # a => reply'[b] = reply[b]
        /\ txn'[s] = left /\ \A r \in Sessions : r # s => txn'[r] = txn[r]
        /\ wire'[s] = Tail(wire[s]) /\ \A r \in Sessions : r # s => wire'[r] = wire[r]
    BY <1>0, <2>2, <2>3, <2>6 DEF IInv, TypeOK
  <2>8. /\ on[a] = s /\ op[a] = m.msg /\ reply[a] = "none" /\ pc[a] \notin Unsent
        /\ \/ pc[a] = "sent"
           \/ /\ op[a] = "commit" => result[a] = "unknown"
              /\ op[a] = "statement" => result[a] \in {"error", "timeout"}
    BY <1>0, <2>5, <2>6 DEF SentBy
  <2>9. NothingYet'
    BY <1>1, <2>7, <2>8 DEF Talk, NothingYet
  <2>20. /\ Len(wire'[s]) = Len(wire[s]) - 1 /\ Len(wire[s]) \in Nat
         /\ \A i \in 1..Len(wire'[s]) :
              i + 1 \in 1..Len(wire[s]) /\ wire'[s][i] = wire[s][i + 1]
    BY <2>4, <2>7
  <2>10. ASSUME NEW r \in Sessions, NEW i \in 1..Len(wire'[r])
         PROVE  \E j \in 1..Len(wire[r]) :
                  /\ wire'[r][i] = wire[r][j] /\ wire[r][j].by # a
                  /\ j = IF r = s THEN i + 1 ELSE i
    <3>1. CASE r = s
      <4>1. i + 1 \in 1..Len(wire[s]) /\ wire'[s][i] = wire[s][i + 1] /\ i + 1 # 1
        BY <2>20, <3>1
      <4>2. wire[s][i + 1].by # a
        BY <2>4, <2>6, <4>1 DEF Talk, WireIsSent
      <4> QED
        BY <3>1, <4>1, <4>2
    <3>2. CASE r # s
      <4>1. wire'[r] = wire[r] /\ SentBy(r, wire[r][i])
        BY <2>7, <2>10, <3>2 DEF Talk, WireIsSent
      <4>2. wire[r][i].by # a
        BY <2>8, <3>2, <4>1 DEF SentBy
      <4> QED
        BY <2>10, <3>2, <4>1, <4>2
    <3> QED
      BY <3>1, <3>2
  <2>11. WireIsSent'
    <3>1. ASSUME NEW r \in Sessions, NEW i \in 1..Len(wire'[r])
          PROVE  SentBy(r, wire[r][i])'
      <4>1. PICK j \in 1..Len(wire[r]) : wire'[r][i] = wire[r][j] /\ wire[r][j].by # a
        BY <2>10, <3>1
      <4>2. SentBy(r, wire[r][j])
        BY DEF Talk, WireIsSent
      <4> QED
        BY <1>1, <2>7, <4>1, <4>2 DEF SentBy
    <3>2. ASSUME NEW r \in Sessions, NEW i \in 1..Len(wire'[r]), NEW j \in 1..Len(wire'[r]),
                 wire'[r][i].by = wire'[r][j].by
          PROVE  i = j
      <4>1. PICK ii \in 1..Len(wire[r]) : /\ wire'[r][i] = wire[r][ii]
                                          /\ ii = IF r = s THEN i + 1 ELSE i
        BY <2>10
      <4>2. PICK jj \in 1..Len(wire[r]) : /\ wire'[r][j] = wire[r][jj]
                                          /\ jj = IF r = s THEN j + 1 ELSE j
        BY <2>10
      <4>3. ii = jj
        BY <3>2, <4>1, <4>2 DEF Talk, WireIsSent
      <4> QED
        BY <4>1, <4>2, <4>3
    <3> QED
      BY <3>1, <3>2 DEF WireIsSent
  <2>12. TakeTurns'
    <3> SUFFICES ASSUME NEW r \in Sessions, NEW i \in 1..Len(wire'[r]), i < Len(wire'[r])
                 PROVE  pc'[wire'[r][i].by] # "sent"
      BY DEF TakeTurns
    <3>1. PICK j \in 1..Len(wire[r]) : /\ wire'[r][i] = wire[r][j]
                                       /\ j = IF r = s THEN i + 1 ELSE i
      BY <2>10
    <3>2. j < Len(wire[r])
      <4>1. CASE r = s
        BY <2>20, <3>1, <4>1
      <4>2. CASE r # s
        <5>1. wire'[r] = wire[r] /\ j = i
          BY <2>7, <3>1, <4>2
        <5> QED
          BY <5>1
      <4> QED
        BY <4>1, <4>2
    <3> QED
      BY <1>1, <3>1, <3>2 DEF TakeTurns
  <2>13. CommitIsAnswered'
    <3> SUFFICES ASSUME NEW r \in Sessions, txn'[r] = "committed"
                 PROVE  \E b \in Calls : Tells(b, r)'
      BY DEF CommitIsAnswered
    <3>1. CASE r # s
      <4>1. PICK b \in Calls : Tells(b, r)
        BY <2>7, <3>1 DEF Talk, CommitIsAnswered
      <4>2. b # a
        BY <2>8, <3>1, <4>1 DEF Tells
      <4> QED
        BY <1>0, <1>1, <2>7, <4>1, <4>2 DEF Tells
    <3>2. CASE r = s
      <4>1. m.msg = "commit" /\ answer = "ok"
        BY <2>2, <2>7, <3>2 DEF Outcomes
      <4>2. a \in Calls
        BY <1>0, <2>8, <4>1 DEF Callers
      <4> QED
        BY <1>1, <2>7, <2>8, <3>2, <4>1, <4>2 DEF Tells
    <3> QED
      BY <3>1, <3>2
  <2>14. FailureIsTold'
    <3> SUFFICES ASSUME NEW r \in Sessions, txn'[r] = "failed", ~ Reported(r)'
                 PROVE  \E c \in Calls : /\ on'[c] = r /\ op'[c] = "statement"
                                         /\ pc'[c] = "sent" /\ reply'[c] = "error"
      BY DEF FailureIsTold
    <3>1. ~ Reported(r)
      BY <1>1
    <3>2. CASE r # s
      <4>1. PICK c \in Calls : /\ on[c] = r /\ op[c] = "statement"
                               /\ pc[c] = "sent" /\ reply[c] = "error"
        BY <2>7, <3>1, <3>2 DEF Talk, FailureIsTold
      <4> QED
        BY <1>0, <1>1, <2>7, <2>8, <3>2, <4>1
    <3>3. CASE r = s
      <4>1. m.msg = "statement" /\ answer = "error"
        BY <2>2, <2>3, <2>4, <2>7, <3>3 DEF Outcomes, M, Messages
      <4>2. a \in Calls
        BY <1>0, <2>8, <4>1 DEF Callers
      <4> QED
        BY <1>1, <2>7, <2>8, <3>1, <3>3, <4>1, <4>2 DEF Reported
    <3> QED
      BY <3>2, <3>3
  <2>15. OkIsApplied'
    <3> SUFFICES ASSUME NEW c \in Calls, op'[c] = "commit",
                        result'[c] = "ok" \/ (pc'[c] = "sent" /\ reply'[c] = "ok")
                 PROVE  txn'[on'[c]] = "committed" \/ Reported(on[c])'
      BY DEF OkIsApplied
    <3>0. op[c] = "commit" /\ on'[c] = on[c] /\ on[c] \in Sessions /\ c \in Callers
      BY <1>0, <1>1 DEF Talk, NothingYet
    <3>1. CASE result[c] = "ok" \/ (pc[c] = "sent" /\ reply[c] = "ok")
      <4>1. txn[on[c]] = "committed" \/ Reported(on[c])
        BY <3>0, <3>1 DEF Talk, OkIsApplied
      <4>2. txn[on[c]] = "committed" => txn'[on[c]] = "committed"
        BY <2>3, <2>7, <3>0
      <4> QED
        BY <1>1, <3>0, <4>1, <4>2 DEF Reported
    <3>2. CASE ~ (result[c] = "ok" \/ (pc[c] = "sent" /\ reply[c] = "ok"))
      <4>1. c = a /\ pc[a] = "sent" /\ answer = "ok" /\ m.msg = "commit" /\ on[c] = s
        BY <1>1, <2>7, <2>8, <3>0, <3>2
      <4>2. CASE txn[s] = "active"
        BY <2>2, <2>7, <3>0, <4>1, <4>2 DEF Outcomes
      <4>3. CASE txn[s] = "failed"
        <5>1. ~ \E b \in Calls : /\ on[b] = s /\ op[b] = "statement"
                                 /\ pc[b] = "sent" /\ reply[b] = "error"
          <6> SUFFICES ASSUME NEW b \in Calls, on[b] = s, op[b] = "statement",
          pc[b] = "sent"
                       PROVE  FALSE
            OBVIOUS
          <6>1. lock[s] = b /\ lock[s] = a
            BY <1>0, <2>8, <4>1 DEF SenderHoldsLock
          <6> QED
            BY <3>0, <4>1, <6>1
        <5>2. Reported(s)
          BY <4>3, <5>1 DEF Talk, FailureIsTold
        <5> QED
          BY <1>1, <3>0, <4>1, <5>2 DEF Reported
      <4> QED
        BY <2>3, <4>2, <4>3
    <3> QED
      BY <3>1, <3>2
  <2> QED
    BY <2>9, <2>11, <2>12, <2>13, <2>14, <2>15 DEF Talk
<1> QED
  BY <1>2, <1>3

\* Where the actors are not callers, and what the constants say of them.
LEMMA ActorFacts ==
    /\ Callers \subseteq Actors /\ Conns \subseteq Actors /\ Keepers \subseteq Actors
    /\ Nobody \notin Actors
    /\ \A a \in Callers : a \notin Conns /\ a \notin Keepers /\ AfterClose(a) = "over"
    /\ \A a \in Sessions : a \notin Calls
    /\ \A a \in Keepers : AfterClose(a) = "idle" /\ a \notin Conns
    /\ \A a \in Conns : AfterClose(a) = "sweeping"
BY SqlSessionAssumption DEF Actors, Callers, AfterClose

\* The steps of a begin happen before its message.
LEMMA BeginIsBefore ==
    ASSUME IInv, Fresh, Talk, NEW s \in Sessions, Lookup(s) \/ Begin(s)
    PROVE  Before(s)
<1>0. Typed /\ s \in Callers /\ s \in Actors /\ s \notin Calls /\ on[s] = s
  BY TypedFacts, ActorFacts DEF Callers
<1>1. CASE Lookup(s)
  BY <1>0, <1>1 DEF Lookup, Before, Unsent, Done, Goto, server, Typed, ActorsOK, Callers,
                    Actors, Talk, NothingYet
<1>2. CASE Open(s)
  <2>1. txn[s] = "none"
    BY <1>2 DEF Open, Fresh
  <2> QED
    BY <1>0, <1>2, <2>1 DEF Open, Before, Unsent, Done, Goto, Returns, Typed, ActorsOK,
       ServerOK, Callers, Actors, Talk, NothingYet
<1>3. CASE Recheck(s)
  BY <1>0, <1>3 DEF Recheck, Before, Unsent, Done, Goto, server, Typed, ActorsOK, Callers,
                    Actors, Talk, NothingYet
<1> QED
  BY <1>1, <1>2, <1>3 DEF Begin

\* What an actor that is no caller does, a close, a loss: nothing is said.
LEMMA AsideIsSilent ==
    ASSUME IInv, NEW a \in Actors,
           \/ Close(a) \/ (a \in Callers /\ Forget(a))
           \/ a \in Keepers /\ \E s \in Sessions : Reclaim(a, s)
           \/ a \in Conns /\ (RemoveConn(a) \/ Remove(a))
    PROVE  Silent
<1>0. Typed
  BY TypedFacts
<1>1. UNCHANGED <<wire, reply, txn, op, result>>
  BY DEF Close, CloseOwn, CloseAbort, CloseUnlist, CloseTake, Forget, Reclaim, RemoveConn,
         Remove, Collect, Sweep, server
<1>2. CASE Close(a)
  <2>1. UNCHANGED on /\ pc[a] \in {"closing", "aborting", "unlisting", "taking"}
        /\ \E p \in {"aborting", "unlisting", "taking", AfterClose(a)} :
             pc' = [pc EXCEPT ![a] = p]
    BY <1>2 DEF Close, CloseOwn, CloseAbort, CloseUnlist, CloseTake, Goto
  <2> QED
    BY <1>0, <1>1, <2>1, ActorFacts DEF Silent, Done, Typed, ActorsOK
<1>3. CASE a \in Callers /\ Forget(a)
  BY <1>0, <1>1, <1>3, ActorFacts DEF Silent, Forget, Goto, Done, Typed, ActorsOK
<1>4. CASE a \in Keepers /\ \E s \in Sessions : Reclaim(a, s)
  BY <1>0, <1>1, <1>4, ActorFacts DEF Silent, Reclaim, Goto, Done, Typed, ActorsOK
<1>5. CASE a \in Conns /\ (RemoveConn(a) \/ Remove(a))
  BY <1>0, <1>1, <1>5, ActorFacts DEF Silent, RemoveConn, Remove, Collect, Sweep, Goto,
     Done,
                                    Typed, ActorsOK
<1> QED
  BY <1>2, <1>3, <1>4, <1>5

\* The steps of an end() before it sends; with the client's owner settled, it never finds
\* the client gone.
LEMMA EndIsBefore ==
    ASSUME IInv, Talk, CloserOwns, NEW a \in Callers,
           BeginEnding(a) \/ EndLock(a) \/ EndTimeout(a)
              \/ (Claim(a) /\ pc'[a] # "sent")
    PROVE  Before(a)
<1>0. /\ Typed /\ a \in Actors
      /\ a \in Sessions => a \notin Calls
      /\ Callers \subseteq Actors
  BY TypedFacts, ActorFacts
<1>1. /\ UNCHANGED <<on, op, wire, reply, txn>>
      /\ pc[a] \in {"ending", "waiting", "locked"}
      /\ \/ UNCHANGED result /\ (Goto(a, "waiting") \/ Goto(a, "locked"))
         \/ /\ Returns(a, "ended") \/ Returns(a, "end_timeout")
            /\ Goto(a, "over") \/ Goto(a, "closing")
  <2>1. CASE BeginEnding(a)
    BY <2>1 DEF BeginEnding, server
  <2>2. CASE EndLock(a)
    BY <2>2 DEF EndLock, server
  <2>3. CASE EndTimeout(a)
    BY <2>3 DEF EndTimeout, server, registry
  <2>4. CASE Claim(a) /\ pc'[a] # "sent"
    <3>1. state[on[a]] # "ending" \/ on[a] \notin taken
      BY DEF CloserOwns
    <3> QED
      BY <1>0, <2>4, <3>1 DEF Claim, Goto, Typed, ActorsOK
  <2> QED
    BY <2>1, <2>2, <2>3, <2>4
<1>2. /\ pc[a] \in Unsent /\ result[a] = "none" /\ on[a] \in Sessions
      /\ {"waiting", "locked"} \subseteq Unsent /\ {"over", "closing"} \subseteq Done
  BY <1>0, <1>1 DEF Unsent, Done, Talk, NothingYet, IInv, KnowsItsJob, Engaged
<1>3. /\ pc'[a] \in Unsent \cup Done /\ (pc'[a] \in Unsent => result'[a] = "none")
      /\ a \in Calls => result'[a] # "ok"
  <2>1. CASE UNCHANGED result /\ (Goto(a, "waiting") \/ Goto(a, "locked"))
    BY <1>0, <1>2, <2>1 DEF Goto, Typed, ActorsOK
  <2>2. CASE /\ Returns(a, "ended") \/ Returns(a, "end_timeout")
             /\ Goto(a, "over") \/ Goto(a, "closing")
    <3>1. pc'[a] \in Done
      BY <1>0, <1>2, <2>2 DEF Goto, Typed, ActorsOK
    <3>2. a \in Calls => result'[a] \in {"ended", "end_timeout"}
      BY <1>0, <2>2 DEF Returns, Typed, ActorsOK
    <3> QED
      BY <3>1, <3>2, TypedFacts
  <2> QED
    BY <1>1, <2>1, <2>2
<1>5. \A b \in Callers \ {a} : result'[b] = result[b] /\ pc'[b] = pc[b]
  BY <1>0, <1>1 DEF Goto, Returns, Typed, ActorsOK
<1> QED
  BY <1>1, <1>2, <1>3, <1>5 DEF Before

\* The steps of a call before it sends.
LEMMA CallIsBefore ==
    ASSUME IInv, Talk, NEW a \in Calls, NEW s \in Sessions, NEW msg \in Messages,
           Call(a, s, msg) \/ (Execute(a) /\ pc'[a] # "sent")
    PROVE  Before(a)
<1>0. Typed /\ a \in Callers /\ a \in Actors /\ a \notin Sessions /\ Callers \subseteq Actors
  BY TypedFacts, ActorFacts
<1>1. CASE Call(a, s, msg)
  BY <1>0, <1>1 DEF Call, Before, Unsent, Done, Goto, Returns, server, Typed, ActorsOK,
                    Talk, NothingYet
<1>2. CASE Execute(a) /\ pc'[a] # "sent"
  <2>1. on[a] \in Sessions
    BY <1>0, <1>2 DEF Execute, IInv, KnowsItsJob, Engaged
  <2> QED
    BY <1>0, <1>2, <2>1 DEF Execute, Before, Unsent, Done, Goto, Returns, Typed, ActorsOK
<1> QED
  BY <1>1, <1>2

\* A statement, a COMMIT or a ROLLBACK is sent with the lock in hand.
LEMMA SendersSend ==
    ASSUME IInv, SenderHoldsLock, NEW a \in Callers,
           (Execute(a) \/ Claim(a)) /\ pc'[a] = "sent"
    PROVE  on[a] \in Sessions /\ lock[on[a]] \in {Nobody, a} /\ Sends(a, on[a])
<1>0. Typed /\ a \in Actors /\ Callers \subseteq Actors
  BY TypedFacts, ActorFacts
<1>1. on[a] \in Sessions /\ op[a] \in Messages
  BY <1>0 DEF Execute, Claim, IInv, KnowsItsJob, Engaged, Messages
<1>2. CASE Execute(a)
  BY <1>0, <1>1, <1>2 DEF Execute, Sends, Goto, Returns, Typed, ActorsOK
<1>3. CASE Claim(a)
  BY <1>0, <1>1, <1>3 DEF Claim, Sends, Goto, Returns, Typed, ActorsOK, SenderHoldsLock
<1> QED
  BY <1>1, <1>2, <1>3

\* The answer is read.
LEMMA AnswerIsRead ==
    ASSUME IInv, NEW a \in Callers, (a \in Calls /\ Executed(a)) \/ Ended(a)
    PROVE  Reads(a)
<1>0. /\ Typed /\ a \in Actors /\ Callers \subseteq Actors
      /\ a \in Sessions => op[a] = "rollback"
      /\ a \in Calls => a \notin Sessions
      /\ a \in Calls \/ a \in Sessions
  BY TypedFacts, ActorFacts DEF Callers
<1>1. CASE a \in Calls /\ Executed(a)
  BY <1>0, <1>1 DEF Executed, Reads, Goto, Returns, Typed, ActorsOK, Done, server, ServerOK
<1>2. CASE Ended(a)
  <2>1. CASE a \in Calls
    BY <1>0, <1>2, <2>1 DEF Ended, Reads, Goto, Returns, NoAnswer, Typed, ActorsOK, Done
  <2>2. CASE a \in Sessions
    BY <1>0, <1>2, <2>2 DEF Ended, Reads, Goto, Returns, Typed, ActorsOK, Done
  <2> QED
    BY <1>0, <2>1, <2>2
<1> QED
  BY <1>1, <1>2

\* Every step is a begin's, one aside, one before the message, a message, an answer read,
\* or one of the server.
LEMMA StepKinds ==
    ASSUME IInv, Fresh, SenderHoldsLock, Talk, CloserOwns, [Next]_vars
    PROVE  \/ Silent
           \/ \E a \in Callers : Before(a) \/ Reads(a)
           \/ \E a \in Callers, s \in Sessions : lock[s] \in {Nobody, a} /\ Sends(a, s)
           \/ \E s \in Sessions : Serve(s) \/ HangUp(s)
<1>0. /\ Calls \subseteq Callers /\ Sessions \subseteq Callers
      /\ Keepers \subseteq Actors /\ Conns \subseteq Actors /\ Callers \subseteq Actors
  BY DEF Callers, Actors
<1>1. CASE \E s \in Sessions : Lookup(s) \/ Begin(s)
  BY <1>0, <1>1, BeginIsBefore
<1>2. CASE \E s \in Sessions : Watch(s)
  BY <1>0, <1>2, AsideIsSilent DEF Watch
<1>3. CASE \E s \in Sessions : Serve(s) \/ HangUp(s) \/ LoseSocket(s)
  BY <1>3 DEF LoseSocket, actors, Silent
<1>4. CASE \E a \in Calls, s \in Sessions, msg \in Messages : Call(a, s, msg)
  BY <1>0, <1>4, CallIsBefore
<1>5. CASE \E a \in Calls : Execute(a) \/ Executed(a)
  <2>1. PICK a \in Calls : Execute(a) \/ Executed(a)
    BY <1>5
  <2>2. CASE Executed(a)
    BY <1>0, <2>2, AnswerIsRead
  <2>3. CASE Execute(a)
    <3>1. on[a] \in Sessions /\ "statement" \in Messages
      BY <1>0, <2>3 DEF Execute, IInv, KnowsItsJob, Engaged, Messages
    <3>2. CASE pc'[a] = "sent"
      BY <1>0, <2>3, <3>2, SendersSend
    <3>3. CASE pc'[a] # "sent"
      BY <1>0, <2>3, <3>1, <3>3, CallIsBefore
    <3> QED
      BY <3>2, <3>3
  <2> QED
    BY <2>1, <2>2, <2>3
<1>6. CASE \E a \in Calls \cup Sessions : End(a)
  <2>1. PICK a \in Callers : End(a)
    BY <1>6 DEF Callers
  <2>2. CASE Ended(a)
    BY <2>2, AnswerIsRead
  <2>3. CASE Forget(a)
    BY <1>0, <2>3, AsideIsSilent
  <2>4. CASE BeginEnding(a) \/ EndLock(a) \/ EndTimeout(a)
    BY <2>4, EndIsBefore
  <2>5. CASE Claim(a)
    <3>1. CASE pc'[a] = "sent"
      BY <2>5, <3>1, SendersSend
    <3>2. CASE pc'[a] # "sent"
      BY <2>5, <3>2, EndIsBefore
    <3> QED
      BY <3>1, <3>2
  <2> QED
    BY <2>1, <2>2, <2>3, <2>4, <2>5 DEF End
<1>7. CASE \E a \in Actors : Close(a)
  BY <1>7, AsideIsSilent
<1>8. CASE \E k \in Conns : RemoveConn(k) \/ Remove(k)
  BY <1>0, <1>8, AsideIsSilent
<1>9. CASE UNCHANGED vars
  BY <1>9 DEF vars, Silent
<1> QED
  BY <1>1, <1>2, <1>3, <1>4, <1>5, <1>6, <1>7, <1>8, <1>9 DEF Next

\* Who sends holds the lock.
LEMMA LockStep ==
    ASSUME IInv, SenderHoldsLock, [Next]_vars
    PROVE  SenderHoldsLock'
<1> SUFFICES ASSUME NEW b \in Callers, pc'[b] \in {"locked", "sent"}
             PROVE  lock'[on'[b]] = b
  BY DEF SenderHoldsLock
<1>0. /\ Typed /\ b \in Actors /\ b \notin Conns /\ b \notin Keepers
      /\ Callers \subseteq Actors /\ Calls \subseteq Callers /\ Sessions \subseteq Callers
      /\ Nobody \notin Actors /\ AfterClose(b) = "over"
  BY TypedFacts, ActorFacts DEF Callers
<1>h. pc[b] \in {"locked", "sent"} => lock[on[b]] = b /\ on[b] \in Sessions
  BY <1>0 DEF SenderHoldsLock, IInv, KnowsItsJob, Engaged
<1>1. CASE \E s \in Sessions : Lookup(s) \/ Begin(s)
  BY <1>0, <1>h, <1>1 DEF Typed, ActorsOK, Lookup, Begin, Open, Recheck, Goto, registry
<1>2. CASE \E s \in Sessions : Watch(s)
  BY <1>0, <1>h, <1>2 DEF Typed, ActorsOK, Watch, Reclaim, Goto, registry
<1>3. CASE \E s \in Sessions : Serve(s) \/ HangUp(s) \/ LoseSocket(s)
  BY <1>h, <1>3 DEF Serve, HangUp, LoseSocket, actors, registry
<1>4. CASE \E a \in Calls, s \in Sessions, msg \in Messages : Call(a, s, msg)
  BY <1>0, <1>h, <1>4 DEF Typed, ActorsOK, Call, Goto, registry
<1>5. CASE \E a \in Calls : Execute(a)
  <2>1. PICK a \in Calls : Execute(a)
    BY <1>5
  <2>2. on[a] \in Sessions /\ a \in Actors /\ a \in Callers
    BY <1>0, <2>1 DEF IInv, KnowsItsJob, Engaged, Execute
  <2> QED
    BY <1>0, <1>h, <2>1, <2>2 DEF Typed, ActorsOK, RegistryOK, Execute, Goto
<1>6. CASE \E a \in Calls : Executed(a)
  <2>1. PICK a \in Calls : Executed(a)
    BY <1>6
  <2>2. on[a] \in Sessions /\ a \in Actors /\ a \in Callers /\ lock[on[a]] = a
    BY <1>0, <2>1 DEF IInv, KnowsItsJob, Engaged, Executed, SenderHoldsLock
  <2> QED
    BY <1>0, <1>h, <2>1, <2>2 DEF Typed, ActorsOK, RegistryOK, Executed, Goto, Unlock,
       server
<1>7. CASE \E a \in Calls \cup Sessions : End(a)
  <2>1. PICK a \in Callers : End(a)
    BY <1>7 DEF Callers
  <2>2. on[a] \in Sessions /\ a \in Actors
    BY <1>0, <2>1 DEF IInv, KnowsItsJob, Engaged, End, BeginEnding, EndLock, EndTimeout,
       Claim, Ended, Forget
  <2>3. CASE BeginEnding(a) \/ EndTimeout(a) \/ Forget(a)
    BY <1>0, <1>h, <2>3 DEF Typed, ActorsOK, BeginEnding, EndTimeout, Forget, Goto, registry
  <2>4. CASE EndLock(a)
    BY <1>0, <1>h, <2>2, <2>4 DEF Typed, ActorsOK, RegistryOK, EndLock, Goto
  <2>5. CASE Claim(a)
    <3>1. lock[on[a]] = a
      BY <2>5 DEF SenderHoldsLock, Claim
    <3> QED
      BY <1>0, <1>h, <2>2, <2>5, <3>1 DEF Typed, ActorsOK, RegistryOK, Claim, Goto, Unlock
  <2>6. CASE Ended(a)
    <3>1. lock[on[a]] = a
      BY <2>6 DEF SenderHoldsLock, Ended
    <3> QED
      BY <1>0, <1>h, <2>2, <2>6, <3>1 DEF Typed, ActorsOK, RegistryOK, Ended, Goto, Unlock
  <2> QED
    BY <2>1, <2>3, <2>4, <2>5, <2>6 DEF End
<1>8. CASE \E a \in Actors : Close(a)
  BY <1>0, <1>h, <1>8 DEF Typed, ActorsOK, Close, CloseOwn, CloseAbort, CloseUnlist,
     CloseTake, Goto, registry
<1>9. CASE \E k \in Conns : RemoveConn(k) \/ Remove(k)
  BY <1>0, <1>h, <1>9 DEF Typed, ActorsOK, RemoveConn, Remove, Collect, Sweep, Goto
<1>10. CASE UNCHANGED vars
  BY <1>h, <1>10 DEF vars
<1> QED
  BY <1>1, <1>2, <1>3, <1>4, <1>5, <1>6, <1>7, <1>8, <1>9, <1>10 DEF Next

\* A session whose outcome is owned stays owned.
LEMMA OwnedStays ==
    ASSUME IInv, [Next]_vars, NEW s \in Sessions, state[s] \in {"committing", "closed"}
    PROVE  state'[s] \in {"committing", "closed"}
<1>0. Typed
  BY TypedFacts
<1>1. CASE \E a \in Calls \cup Sessions : End(a)
  BY <1>0, <1>1 DEF Typed, RegistryOK, End, BeginEnding, EndLock, EndTimeout, Claim, Ended,
     Forget, registry
<1>2. CASE \E a \in Actors : Close(a)
  BY <1>0, <1>2 DEF Typed, RegistryOK, Close, CloseOwn, CloseAbort, CloseUnlist, CloseTake,
     registry
<1>3. CASE UNCHANGED state
  BY <1>3
<1>4. \/ \E a \in Calls \cup Sessions : End(a)
      \/ \E a \in Actors : Close(a)
      \/ UNCHANGED state
  BY DEF Next, Lookup, Begin, Open, Recheck, Watch, Reclaim, Serve, HangUp, LoseSocket,
     Call,
     Execute, Executed, RemoveConn, Remove, Collect, Sweep, registry, vars
<1> QED
  BY <1>1, <1>2, <1>3, <1>4

\* Whoever closes a session owns it, or found it owned.
LEMMA CloserStep ==
    ASSUME IInv, CloserOwns, [Next]_vars
    PROVE  CloserOwns'
<1> DEFINE Closing == {"aborting", "unlisting", "taking"}
           Owned == {"committing", "closed"}
<1>0. /\ Typed /\ Callers \subseteq Actors /\ Conns \subseteq Actors /\ Keepers \subseteq Actors
      /\ Calls \subseteq Callers /\ Sessions \subseteq Callers
      /\ \A b \in Actors : AfterClose(b) \in {"over", "idle", "sweeping"}
  BY TypedFacts, ActorFacts DEF Callers, AfterClose
<1>o. \A s \in Sessions : state[s] \in Owned => state'[s] \in Owned
  BY OwnedStays
<1>1. ASSUME NEW b \in Actors, pc'[b] \in Closing
      PROVE  \/ pc[b] \in Closing /\ on'[b] = on[b]
             \/ CloseOwn(b) /\ on[b] \in listed
  <2>1. CASE \E s \in Sessions : Lookup(s) \/ Begin(s)
    BY <1>0, <1>1, <2>1 DEF Typed, ActorsOK, Lookup, Begin, Open, Recheck, Goto
  <2>2. CASE \E s \in Sessions : Watch(s)
    BY <1>0, <1>1, <2>2 DEF Typed, ActorsOK, Watch, Reclaim, Goto
  <2>3. CASE \E s \in Sessions : Serve(s) \/ HangUp(s) \/ LoseSocket(s)
    BY <1>1, <2>3 DEF Serve, HangUp, LoseSocket, actors
  <2>4. CASE \E a \in Calls, s \in Sessions, msg \in Messages : Call(a, s, msg)
    BY <1>0, <1>1, <2>4 DEF Typed, ActorsOK, Call, Goto
  <2>5. CASE \E a \in Calls : Execute(a) \/ Executed(a)
    BY <1>0, <1>1, <2>5 DEF Typed, ActorsOK, Execute, Executed, Goto
  <2>6. CASE \E a \in Calls \cup Sessions : End(a)
    BY <1>0, <1>1, <2>6 DEF Typed, ActorsOK, End, BeginEnding, EndLock, EndTimeout, Claim,
       Ended, Forget, Goto
  <2>7. CASE \E a \in Actors : Close(a)
    BY <1>0, <1>1, <2>7 DEF Typed, ActorsOK, Close, CloseOwn, CloseAbort, CloseUnlist,
       CloseTake, Goto
  <2>8. CASE \E k \in Conns : RemoveConn(k) \/ Remove(k)
    BY <1>0, <1>1, <2>8 DEF Typed, ActorsOK, RemoveConn, Remove, Collect, Sweep, Goto
  <2>9. CASE UNCHANGED vars
    BY <1>1, <2>9 DEF vars
  <2> QED
    BY <2>1, <2>2, <2>3, <2>4, <2>5, <2>6, <2>7, <2>8, <2>9 DEF Next
<1>2. ASSUME NEW b \in Actors, pc'[b] \in Closing
      PROVE  state'[on'[b]] \in Owned
  <2>1. CASE pc[b] \in Closing /\ on'[b] = on[b]
    <3>1. on[b] \in Sessions /\ state[on[b]] \in Owned
      BY <2>1 DEF IInv, KnowsItsJob, Engaged, CloserOwns
    <3> QED
      BY <1>o, <2>1, <3>1
  <2>2. CASE CloseOwn(b) /\ on[b] \in listed
    BY <1>0, <2>2 DEF CloseOwn, Typed, RegistryOK
  <2> QED
    BY <1>1, <1>2, <2>1, <2>2
<1>3. ASSUME NEW s \in taken', s \notin taken
      PROVE  s \in Sessions /\ state'[s] \in Owned
  <2>1. CASE \E a \in Callers : Claim(a)
    <3>1. PICK a \in Callers : Claim(a)
      BY <2>1
    <3>2. on[a] \in Sessions
      BY <1>0, <3>1 DEF IInv, KnowsItsJob, Engaged, Claim
    <3> QED
      BY <1>0, <1>3, <3>1, <3>2 DEF Claim, Typed, RegistryOK
  <2>2. CASE \E a \in Actors : CloseTake(a)
    <3>1. PICK a \in Actors : CloseTake(a)
      BY <2>2
    <3>2. on[a] \in Sessions /\ state[on[a]] \in Owned
      BY <3>1 DEF IInv, KnowsItsJob, Engaged, CloserOwns, CloseTake
    <3> QED
      BY <1>3, <1>o, <3>1, <3>2 DEF CloseTake
  <2>3. \/ \E a \in Callers : Claim(a)
        \/ \E a \in Actors : CloseTake(a)
        \/ UNCHANGED taken
    BY DEF Next, Lookup, Begin, Open, Recheck, Watch, Reclaim, Serve, HangUp, LoseSocket,
       Call,
       Execute, Executed, End, BeginEnding, EndLock, EndTimeout, Ended, Forget, Close,
       CloseOwn,
       CloseAbort, CloseUnlist, RemoveConn, Remove, Collect, Sweep, registry, vars, Callers
  <2> QED
    BY <1>3, <2>1, <2>2, <2>3
<1>4. \A s \in taken : s \in Sessions /\ state[s] \in Owned
  BY <1>0 DEF Typed, RegistryOK, CloserOwns
<1> QED
  BY <1>2, <1>3, <1>4, <1>o DEF CloserOwns

\* What an end() reports rests on an inductive invariant.
LEMMA HonestStep == IInv /\ Fresh /\ Honest /\ [Next]_vars => Honest'
<1> SUFFICES ASSUME IInv, Fresh, Honest, [Next]_vars
             PROVE  Honest'
  OBVIOUS
<1>0. SenderHoldsLock /\ Talk /\ TakeTurns /\ CloserOwns
  BY DEF Honest
<1>1. SenderHoldsLock'
  BY <1>0, LockStep
<1>2. CloserOwns'
  BY <1>0, CloserStep
<1>3. Talk' /\ TakeTurns'
  <2>1. CASE Silent
    BY <1>0, <2>1, SilentStep
  <2>2. CASE \E a \in Callers : Before(a)
    BY <1>0, <2>2, BeforeStep
  <2>3. CASE \E a \in Callers : Reads(a)
    BY <1>0, <2>3, ReadStep
  <2>4. CASE \E a \in Callers, s \in Sessions : lock[s] \in {Nobody, a} /\ Sends(a, s)
    BY <1>0, <2>4, SendsStep
  <2>5. CASE \E s \in Sessions : Serve(s) \/ HangUp(s)
    BY <1>0, <2>5, ServerTalks
  <2> QED
    BY <1>0, <2>1, <2>2, <2>3, <2>4, <2>5, StepKinds
<1> QED
  BY <1>1, <1>2, <1>3 DEF Honest

\* At the start nothing was said.
LEMMA InitHonest == Init => Honest
<1> SUFFICES ASSUME Init PROVE Honest
  OBVIOUS
<1>1. ASSUME NEW s \in Sessions PROVE 1..Len(wire[s]) = {}
  <2>1. wire[s] = <<>>
    BY DEF Init
  <2> QED
    BY <2>1
<1>2. /\ Callers \subseteq Actors /\ \A a \in Calls : a \in Callers /\ a \notin Sessions
      /\ Unsent \cap Done = {} /\ "sent" \notin Unsent \cup Done
  BY ActorFacts DEF Callers, Unsent, Done
<1>3. SenderHoldsLock /\ CloserOwns
  BY <1>2 DEF Init, SenderHoldsLock, CloserOwns
<1>4. NothingYet
  BY <1>2 DEF Init, NothingYet, Callers
<1>5. WireIsSent /\ TakeTurns
  BY <1>1 DEF WireIsSent, TakeTurns
<1>6. CommitIsAnswered /\ FailureIsTold
  BY DEF Init, CommitIsAnswered, FailureIsTold
<1>7. OkIsApplied
  BY <1>2 DEF Init, OkIsApplied
<1> QED
  BY <1>3, <1>4, <1>5, <1>6, <1>7 DEF Honest, Talk

\* The invariants a step's proof may use hold in every reachable state.
LEMMA HonestInvariance == Spec => [](IInv /\ Fresh /\ Honest)
<1>1. Spec => []Fresh
  BY InitRefines, FreshInv, Invariance, PTL DEF Spec
<1> QED
  BY <1>1, InitHonest, HonestStep, Invariance, PTL DEF Spec

\* Messages of one session take turns, for any number of calls: a statement, a COMMIT and a
\* ROLLBACK never stand behind a message whose answer is still awaited.
THEOREM SessionsTakeTurns == Spec => []TakeTurns
<1>1. Honest => TakeTurns
  BY DEF Honest
<1> QED
  BY <1>1, HonestInvariance, PTL

\* What a sql_session_end reports is true of the server: an applied transaction is reported
\* as applied or unknown, and one reported as applied was, unless a statement had failed.
THEOREM EndReportsTruth == Spec => []EndIsTruthful
<1>1. Honest => CommitIsTold
  BY DEF Honest, Talk, CommitIsAnswered, Tells, CommitIsTold
<1>2. Honest => OkMeansApplied
  BY DEF Honest, Talk, OkIsApplied, Reported, OkMeansApplied
<1> QED
  BY <1>1, <1>2, HonestInvariance, PTL DEF EndIsTruthful

\* Which steps move an actor, list a session, open a socket.
LEMMA LeftFacts ==
    ASSUME IInv
    PROVE  /\ Typed
           /\ Callers \subseteq Actors /\ Conns \subseteq Actors /\ Keepers \subseteq Actors
           /\ Calls \subseteq Callers /\ Sessions \subseteq Callers
           /\ \A s \in Sessions : /\ on[s] = s /\ AfterClose(s) = "over"
                                  /\ s \notin Calls /\ s \notin Conns /\ s \notin Keepers
                                  /\ Home[s] \in Conns
           /\ \A a \in Calls : a \notin Conns /\ a \notin Keepers /\ AfterClose(a) = "over"
           /\ \A a \in Keepers : a \notin Conns /\ AfterClose(a) = "idle"
           /\ \A a \in Conns : AfterClose(a) = "sweeping"
           /\ \A a \in Actors : pc[a] \in Engaged => on[a] \in Sessions
BY TypedFacts, ActorFacts, SqlSessionAssumption DEF Callers, IInv, KnowsItsJob

\* An opened session stays opened.
LEMMA OpenedStays ==
    ASSUME IInv, [Next]_vars, NEW s \in Sessions, Opened(s)
    PROVE  Opened(s)'
<1>0. /\ Typed /\ s \in Actors /\ s \notin Calls /\ s \notin Conns /\ s \notin Keepers
      /\ AfterClose(s) = "over"
  BY LeftFacts
<1>1. CASE \E r \in Sessions : Lookup(r) \/ Begin(r)
  BY <1>0, <1>1 DEF Typed, ActorsOK, Opened, Lookup, Begin, Open, Recheck, Goto
<1>2. CASE \E r \in Sessions : Watch(r)
  BY <1>0, <1>2 DEF Typed, ActorsOK, Opened, Watch, Reclaim, Goto
<1>3. CASE \E r \in Sessions : Serve(r) \/ HangUp(r) \/ LoseSocket(r)
  BY <1>0, <1>3 DEF Opened, Serve, HangUp, LoseSocket, actors
<1>4. CASE \E a \in Calls, r \in Sessions, msg \in Messages : Call(a, r, msg)
  BY <1>0, <1>4 DEF Typed, ActorsOK, Opened, Call, Goto
<1>5. CASE \E a \in Calls : Execute(a) \/ Executed(a)
  BY <1>0, <1>5 DEF Typed, ActorsOK, Opened, Execute, Executed, Goto
<1>6. CASE \E a \in Calls \cup Sessions : End(a)
  BY <1>0, <1>6 DEF Typed, ActorsOK, Opened, End, BeginEnding, EndLock, EndTimeout, Claim,
     Ended, Forget, Goto
<1>7. CASE \E a \in Actors : Close(a)
  BY <1>0, <1>7 DEF Typed, ActorsOK, Opened, Close, CloseOwn, CloseAbort, CloseUnlist,
     CloseTake, Goto
<1>8. CASE \E k \in Conns : RemoveConn(k) \/ Remove(k)
  BY <1>0, <1>8 DEF Typed, ActorsOK, Opened, RemoveConn, Remove, Collect, Sweep, Goto
<1>9. CASE UNCHANGED vars
  BY <1>9 DEF Opened, vars
<1> QED
  BY <1>1, <1>2, <1>3, <1>4, <1>5, <1>6, <1>7, <1>8, <1>9 DEF Next

\* Only opened sessions are listed, swept and worked on.
LEMMA OpenedStep ==
    ASSUME IInv, WorkIsOnOpened, SweepsOwn, [Next]_vars
    PROVE  WorkIsOnOpened'
<1>0. /\ Typed /\ Sessions \subseteq Actors /\ Calls \subseteq Actors
      /\ Conns \subseteq Actors /\ Keepers \subseteq Actors
      /\ \A s \in Sessions : on[s] = s /\ AfterClose(s) = "over"
                             /\ s \notin Calls /\ s \notin Conns /\ s \notin Keepers
      /\ \A a \in Actors : pc[a] \in Engaged => on[a] \in Sessions
      /\ \A a \in Actors : AfterClose(a) \in {"over", "idle", "sweeping"}
  BY LeftFacts DEF AfterClose
<1>s. \A s \in Sessions : Opened(s) => Opened(s)'
  BY OpenedStays
<1>1. ASSUME NEW a \in Actors, pc'[a] \in Engaged
      PROVE  \/ pc[a] \in Engaged /\ on'[a] = on[a]
             \/ a \in Sessions /\ on'[a] = a
             \/ \E s \in Sessions : on'[a] = s /\ (result[s] = "ok" \/ s \in listed)
             \/ a \in Conns /\ on'[a] \in todo[a]
  <2>1. CASE \E s \in Sessions : Lookup(s) \/ Begin(s)
    BY <1>0, <1>1, <2>1 DEF Typed, ActorsOK, Lookup, Begin, Open, Recheck, Goto, Engaged
  <2>2. CASE \E s \in Sessions : Watch(s)
    BY <1>0, <1>1, <2>2 DEF Typed, ActorsOK, Watch, Reclaim, Goto, Engaged
  <2>3. CASE \E s \in Sessions : Serve(s) \/ HangUp(s) \/ LoseSocket(s)
    BY <1>1, <2>3 DEF Serve, HangUp, LoseSocket, actors
  <2>4. CASE \E c \in Calls, s \in Sessions, msg \in Messages : Call(c, s, msg)
    BY <1>0, <1>1, <2>4 DEF Typed, ActorsOK, Call, Goto, Engaged
  <2>5. CASE \E c \in Calls : Execute(c) \/ Executed(c)
    BY <1>0, <1>1, <2>5 DEF Typed, ActorsOK, Execute, Executed, Goto, Engaged
  <2>6. CASE \E c \in Calls \cup Sessions : End(c)
    BY <1>0, <1>1, <2>6 DEF Typed, ActorsOK, End, BeginEnding, EndLock, EndTimeout, Claim,
       Ended, Forget, Goto, Engaged
  <2>7. CASE \E c \in Actors : Close(c)
    BY <1>0, <1>1, <2>7 DEF Typed, ActorsOK, Close, CloseOwn, CloseAbort, CloseUnlist,
       CloseTake, Goto, Engaged
  <2>8. CASE \E k \in Conns : RemoveConn(k) \/ Remove(k)
    BY <1>0, <1>1, <2>8 DEF Typed, ActorsOK, RemoveConn, Remove, Collect, Sweep, Goto,
       Engaged
  <2>9. CASE UNCHANGED vars
    BY <1>1, <2>9 DEF vars
  <2> QED
    BY <2>1, <2>2, <2>3, <2>4, <2>5, <2>6, <2>7, <2>8, <2>9 DEF Next
<1>2. ASSUME NEW a \in Actors, pc'[a] \in Engaged
      PROVE  Opened(on[a])'
  <2>1. CASE pc[a] \in Engaged /\ on'[a] = on[a]
    <3>1. PICK s \in Sessions : s = on[a] /\ s = on'[a] /\ Opened(s)
      BY <1>0, <2>1 DEF WorkIsOnOpened
    <3> QED
      BY <1>s, <3>1 DEF Opened
  <2>2. CASE a \in Sessions /\ on'[a] = a
    BY <1>2, <2>2 DEF Opened, Engaged
  <2>3. CASE \E s \in Sessions : on'[a] = s /\ (result[s] = "ok" \/ s \in listed)
    <3>1. PICK s \in Sessions : on'[a] = s /\ (result[s] = "ok" \/ s \in listed)
      BY <2>3
    <3>2. Opened(s)
      BY <3>1 DEF WorkIsOnOpened, SweepsOwn, Opened
    <3> QED
      BY <1>s, <3>1, <3>2 DEF Opened
  <2>4. CASE a \in Conns /\ on'[a] \in todo[a]
    <3>1. PICK s \in Sessions : s = on'[a] /\ Opened(s)
      BY <1>0, <2>4 DEF WorkIsOnOpened, Typed, RegistryOK
    <3> QED
      BY <1>s, <3>1 DEF Opened
  <2> QED
    BY <1>1, <1>2, <2>1, <2>2, <2>3, <2>4
<1>3. ASSUME NEW s \in listed', s \notin listed
      PROVE  Opened(s)'
  <2>1. CASE \E r \in Sessions : Open(r)
    BY <1>0, <1>3, <2>1 DEF Typed, ActorsOK, Open, Opened, Goto
  <2>2. listed' \subseteq listed \/ \E r \in Sessions : Open(r)
    BY DEF Next, Lookup, Begin, Recheck, Watch, Reclaim, Serve, HangUp, LoseSocket, Call,
       Execute, Executed, End, BeginEnding, EndLock, EndTimeout, Claim, Ended, Forget,
       Close,
       CloseOwn, CloseAbort, CloseUnlist, CloseTake, RemoveConn, Remove, Collect, Sweep,
       registry, vars
  <2> QED
    BY <1>3, <2>1, <2>2
<1>4. \A k \in Conns : todo'[k] \subseteq todo[k] \cup listed
  <2>1. CASE \E k \in Conns : Collect(k) \/ Sweep(k)
    BY <1>0, <2>1 DEF Collect, Sweep, Typed, RegistryOK
  <2>2. UNCHANGED todo \/ \E k \in Conns : Collect(k) \/ Sweep(k)
    BY DEF Next, Lookup, Begin, Open, Recheck, Watch, Reclaim, Serve, HangUp, LoseSocket,
       Call,
       Execute, Executed, End, BeginEnding, EndLock, EndTimeout, Claim, Ended, Forget,
       Close,
       CloseOwn, CloseAbort, CloseUnlist, CloseTake, RemoveConn, Remove, registry, vars
  <2> QED
    BY <2>1, <2>2
<1>5. \A s \in listed : s \in Sessions /\ Opened(s)
  BY <1>0 DEF Typed, RegistryOK, WorkIsOnOpened
<1>6. \A k \in Conns : \A s \in todo[k] : s \in Sessions /\ Opened(s)
  BY <1>0 DEF Typed, RegistryOK, WorkIsOnOpened
<1>7. \A s \in listed' : Opened(s)'
  BY <1>3, <1>5, <1>s
<1>8. \A k \in Conns : \A s \in todo'[k] : Opened(s)'
  BY <1>4, <1>5, <1>6, <1>s
<1>9. ASSUME NEW s \in Sessions, state'[s] # "open"
      PROVE  Opened(s)'
  <2>1. CASE state[s] # "open"
    BY <1>s, <2>1 DEF WorkIsOnOpened
  <2>2. CASE state[s] = "open"
    <3>1. PICK a \in Actors : BeginEnding(a) \/ Claim(a) \/ CloseOwn(a)
      <4> SUFFICES \/ \E a \in Calls \cup Sessions : BeginEnding(a) \/ Claim(a)
                   \/ \E a \in Actors : CloseOwn(a)
                   \/ UNCHANGED state
        BY <1>0, <1>9, <2>2
      <4> QED
        BY DEF Next, Lookup, Begin, Open, Recheck, Watch, Reclaim, Serve, HangUp,
           LoseSocket,
           Call, Execute, Executed, End, EndLock, EndTimeout, Ended, Forget, Close,
           CloseAbort, CloseUnlist, CloseTake, RemoveConn, Remove, Collect, Sweep, registry,
           vars
    <3>2. on[a] = s /\ pc[a] \in Engaged
      BY <1>0, <1>9, <2>2, <3>1 DEF BeginEnding, Claim, CloseOwn, Typed, RegistryOK, Engaged
    <3> QED
      BY <1>s, <3>2 DEF WorkIsOnOpened
  <2> QED
    BY <2>1, <2>2
<1> QED
  BY <1>2, <1>7, <1>8, <1>9 DEF WorkIsOnOpened

\* Sockets open with the listing, and close before an unlisting.
LEMMA UpStep ==
    ASSUME IInv, WorkIsOnOpened, UpIsListed, CloserOwns, [Next]_vars
    PROVE  UpIsListed'
<1>0. /\ Typed /\ Sessions \subseteq Actors /\ Calls \subseteq Actors
      /\ Conns \subseteq Actors /\ Keepers \subseteq Actors
      /\ \A a \in Actors : pc[a] \in Engaged => on[a] \in Sessions
      /\ \A a \in Actors : AfterClose(a) \in {"over", "idle", "sweeping"}
      /\ \A a \in Actors : pc[a] \in {"forgetting", "unlisting", "taking"} => pc[a] \in Engaged
  BY LeftFacts DEF AfterClose, Engaged
<1>1. CASE \E s \in Sessions : Lookup(s) \/ Recheck(s)
  BY <1>0, <1>1 DEF Typed, ActorsOK, UpIsListed, Lookup, Recheck, Goto, registry, server
<1>2. CASE \E s \in Sessions : Open(s)
  <2>1. PICK s \in Sessions : Open(s)
    BY <1>2
  <2>2. ~ Opened(s)
    BY <2>1 DEF Open, Opened
  <2>3. \A a \in Actors : pc[a] \in Engaged => on[a] # s
    BY <2>2 DEF WorkIsOnOpened
  <2>4. UNCHANGED on /\ up' \subseteq up \cup {s} /\ listed' \subseteq listed \cup {s}
        /\ up' \subseteq listed'
        /\ \A a \in Actors : pc'[a] \in {"forgetting", "unlisting", "taking"} => pc'[a] = pc[a]
    BY <1>0, <2>1 DEF Typed, ActorsOK, UpIsListed, Open, Goto
  <2> QED
    BY <1>0, <2>3, <2>4 DEF UpIsListed
<1>3. CASE \E s \in Sessions : Watch(s)
  BY <1>0, <1>3 DEF Typed, ActorsOK, UpIsListed, Watch, Reclaim, Goto, registry, server
<1>4. CASE \E s \in Sessions : Serve(s) \/ HangUp(s) \/ LoseSocket(s)
  BY <1>4 DEF UpIsListed, Serve, HangUp, LoseSocket, actors, registry
<1>5. CASE \E c \in Calls, s \in Sessions, msg \in Messages : Call(c, s, msg)
  BY <1>0, <1>5 DEF Typed, ActorsOK, UpIsListed, Call, Goto, registry, server
<1>6. CASE \E c \in Calls : Execute(c) \/ Executed(c)
  BY <1>0, <1>6 DEF Typed, ActorsOK, UpIsListed, Execute, Executed, Goto, server
<1>7. CASE \E c \in Calls \cup Sessions : End(c)
  <2>1. PICK c \in Actors : End(c)
    BY <1>0, <1>7
  <2>2. CASE BeginEnding(c) \/ EndLock(c) \/ EndTimeout(c)
    BY <1>0, <2>2 DEF Typed, ActorsOK, UpIsListed, BeginEnding, EndLock, EndTimeout, Goto,
       registry, server
  <2>3. CASE Claim(c)
    <3>1. state[on[c]] # "ending" \/ on[c] \notin taken
      BY DEF CloserOwns
    <3> QED
      BY <1>0, <2>3, <3>1 DEF Typed, ActorsOK, UpIsListed, Claim, Goto
  <2>4. CASE Ended(c)
    BY <1>0, <2>4 DEF Typed, ActorsOK, UpIsListed, Ended, Goto
  <2>5. CASE Forget(c)
    BY <1>0, <2>5 DEF Typed, ActorsOK, UpIsListed, Forget, Goto, server
  <2> QED
    BY <2>1, <2>2, <2>3, <2>4, <2>5 DEF End
<1>8. CASE \E c \in Actors : Close(c)
  BY <1>0, <1>8 DEF Typed, ActorsOK, UpIsListed, Close, CloseOwn, CloseAbort, CloseUnlist,
     CloseTake, Goto, registry, server
<1>9. CASE \E k \in Conns : RemoveConn(k) \/ Remove(k)
  BY <1>0, <1>9 DEF Typed, ActorsOK, UpIsListed, RemoveConn, Remove, Collect, Sweep, Goto,
     server
<1>10. CASE UNCHANGED vars
  BY <1>10 DEF UpIsListed, vars
<1> QED
  BY <1>1, <1>2, <1>3, <1>4, <1>5, <1>6, <1>7, <1>8, <1>9, <1>10 DEF Next, Begin

\* A begin that returned its session does nothing more.
LEMMA ReturnedStays ==
    ASSUME IInv, [Next]_vars, NEW s \in Sessions, pc[s] = "over"
    PROVE  pc'[s] = "over" /\ result'[s] = result[s]
<1>0. /\ Typed /\ s \in Actors /\ s \notin Calls /\ s \notin Conns /\ s \notin Keepers
  BY LeftFacts
<1>1. CASE \E r \in Sessions : Lookup(r) \/ Begin(r)
  BY <1>0, <1>1 DEF Typed, ActorsOK, Lookup, Begin, Open, Recheck, Goto, Returns
<1>2. CASE \E r \in Sessions : Watch(r)
  BY <1>0, <1>2 DEF Typed, ActorsOK, Watch, Reclaim, Goto
<1>3. CASE \E r \in Sessions : Serve(r) \/ HangUp(r) \/ LoseSocket(r)
  BY <1>0, <1>3 DEF Serve, HangUp, LoseSocket, actors
<1>4. CASE \E a \in Calls, r \in Sessions, msg \in Messages : Call(a, r, msg)
  BY <1>0, <1>4 DEF Typed, ActorsOK, Call, Goto, Returns
<1>5. CASE \E a \in Calls : Execute(a) \/ Executed(a)
  BY <1>0, <1>5 DEF Typed, ActorsOK, Execute, Executed, Goto, Returns
<1>6. CASE \E a \in Calls \cup Sessions : End(a)
  BY <1>0, <1>6 DEF Typed, ActorsOK, End, BeginEnding, EndLock, EndTimeout, Claim, Ended,
     Forget, Goto, Returns
<1>7. CASE \E a \in Actors : Close(a)
  BY <1>0, <1>7 DEF Typed, ActorsOK, Close, CloseOwn, CloseAbort, CloseUnlist, CloseTake,
     Goto
<1>8. CASE \E k \in Conns : RemoveConn(k) \/ Remove(k)
  BY <1>0, <1>8 DEF Typed, ActorsOK, RemoveConn, Remove, Collect, Sweep, Goto
<1>9. CASE UNCHANGED vars
  BY <1>9 DEF vars
<1> QED
  BY <1>1, <1>2, <1>3, <1>4, <1>5, <1>6, <1>7, <1>8, <1>9 DEF Next

\* A session's id is known once its begin returned it.
LEMMA ReturnStep ==
    ASSUME IInv, SweepsOwn, [Next]_vars, NEW s \in Sessions, result'[s] = "ok"
    PROVE  pc'[s] = "over"
<1>0. /\ Typed /\ s \in Actors /\ s \notin Calls /\ s \notin Conns /\ s \notin Keepers
      /\ result[s] = "ok" => pc[s] = "over"
  BY LeftFacts DEF SweepsOwn
<1>1. CASE result[s] = "ok"
  BY <1>0, <1>1, ReturnedStays
<1>2. CASE result[s] # "ok" /\ \E r \in Sessions : Begin(r)
  BY <1>0, <1>2 DEF Typed, ActorsOK, Begin, Open, Recheck, Goto, Returns
<1>3. CASE result[s] # "ok" /\ \E a \in Calls, r \in Sessions, msg \in Messages : Call(a, r, msg)
  BY <1>0, <1>3 DEF Typed, ActorsOK, Call, Returns
<1>4. CASE result[s] # "ok" /\ \E a \in Calls : Execute(a) \/ Executed(a)
  BY <1>0, <1>4 DEF Typed, ActorsOK, Execute, Executed, Returns
<1>5. CASE result[s] # "ok" /\ \E a \in Calls \cup Sessions : End(a)
  BY <1>0, <1>5 DEF Typed, ActorsOK, End, BeginEnding, EndLock, EndTimeout, Claim, Ended,
     Forget, Returns
<1>6. CASE UNCHANGED result
  BY <1>0, <1>1, <1>6
<1>7. \/ \E r \in Sessions : Begin(r)
      \/ \E a \in Calls, r \in Sessions, msg \in Messages : Call(a, r, msg)
      \/ \E a \in Calls : Execute(a) \/ Executed(a)
      \/ \E a \in Calls \cup Sessions : End(a)
      \/ UNCHANGED result
  BY DEF Next, Lookup, Watch, Reclaim, Serve, HangUp, LoseSocket, Close, CloseOwn,
     CloseAbort,
     CloseUnlist, CloseTake, RemoveConn, Remove, Collect, Sweep, actors, vars
<1> QED
  BY <1>1, <1>2, <1>3, <1>4, <1>5, <1>6, <1>7

\* Whoever works on a session another began was given its id.
LEMMA KnownStep ==
    ASSUME IInv, SweepsOwn, [Next]_vars, NEW b \in Calls \cup Keepers, pc'[b] \in Engaged
    PROVE  result'[on'[b]] = "ok"
<1>0. /\ Typed /\ b \in Actors /\ b \notin Sessions /\ b \notin Conns
      /\ b \in Keepers => b \notin Calls
      /\ Calls \subseteq Actors /\ Sessions \subseteq Actors
      /\ AfterClose(b) \in {"over", "idle"}
      /\ pc[b] \in Engaged => on[b] \in Sessions
  BY LeftFacts, SqlSessionAssumption DEF Actors
<1>1. \/ pc[b] \in Engaged /\ on'[b] = on[b]
      \/ \E s \in Sessions : on'[b] = s /\ result[s] = "ok"
  <2>1. CASE \E s \in Sessions : Lookup(s) \/ Begin(s)
    BY <1>0, <2>1 DEF Typed, ActorsOK, Lookup, Begin, Open, Recheck, Goto
  <2>2. CASE \E s \in Sessions : Watch(s)
    BY <1>0, <2>2 DEF Typed, ActorsOK, Watch, Reclaim, Goto
  <2>3. CASE \E s \in Sessions : Serve(s) \/ HangUp(s) \/ LoseSocket(s)
    BY <2>3 DEF Serve, HangUp, LoseSocket, actors
  <2>4. CASE \E c \in Calls, s \in Sessions, msg \in Messages : Call(c, s, msg)
    BY <1>0, <2>4 DEF Typed, ActorsOK, Call, Goto
  <2>5. CASE \E c \in Calls : Execute(c) \/ Executed(c)
    BY <1>0, <2>5 DEF Typed, ActorsOK, Execute, Executed, Goto, Engaged
  <2>6. CASE \E c \in Calls \cup Sessions : End(c)
    BY <1>0, <2>6 DEF Typed, ActorsOK, End, BeginEnding, EndLock, EndTimeout, Claim, Ended,
       Forget, Goto, Engaged
  <2>7. CASE \E c \in Actors : Close(c)
    BY <1>0, <2>7 DEF Typed, ActorsOK, Close, CloseOwn, CloseAbort, CloseUnlist, CloseTake,
       Goto, Engaged
  <2>8. CASE \E k \in Conns : RemoveConn(k) \/ Remove(k)
    BY <1>0, <2>8 DEF Typed, ActorsOK, RemoveConn, Remove, Collect, Sweep, Goto
  <2>9. CASE UNCHANGED vars
    BY <2>9 DEF vars
  <2> QED
    BY <2>1, <2>2, <2>3, <2>4, <2>5, <2>6, <2>7, <2>8, <2>9 DEF Next
<1>2. PICK s \in Sessions : s = on'[b] /\ result[s] = "ok"
  BY <1>0, <1>1 DEF SweepsOwn
<1>3. pc[s] = "over"
  BY <1>2 DEF SweepsOwn
<1> QED
  BY <1>2, <1>3, ReturnedStays

\* A removal is of its own connection's sessions.
LEMMA SweepStep ==
    ASSUME IInv, SweepsOwn, [Next]_vars
    PROVE  SweepsOwn'
<1>0. /\ Typed /\ Sessions \subseteq Actors /\ Calls \subseteq Actors
      /\ Conns \subseteq Actors /\ Keepers \subseteq Actors
      /\ \A k \in Conns : /\ k \notin Calls /\ k \notin Sessions /\ k \notin Keepers
                          /\ AfterClose(k) = "sweeping"
      /\ "idle" \notin Engaged /\ "collecting" \notin Engaged /\ "sweeping" \notin Engaged
      /\ "over" \notin Engaged
  BY LeftFacts, SqlSessionAssumption DEF Engaged
<1>1. ASSUME NEW k \in Conns
      PROVE  /\ k \in conns' <=> pc'[k] = "idle"
             /\ pc'[k] \in Engaged => Home[on'[k]] = k
             /\ \A s \in todo'[k] : Home[s] = k
             /\ pc'[k] = "over" => todo'[k] = {}
  <2>h. /\ k \in conns <=> pc[k] = "idle"
        /\ pc[k] \in Engaged => Home[on[k]] = k
        /\ \A s \in todo[k] : Home[s] = k
        /\ pc[k] = "over" => todo[k] = {}
    BY DEF SweepsOwn
  <2>1. CASE \E s \in Sessions : Lookup(s) \/ Begin(s)
    BY <1>0, <2>h, <2>1 DEF Typed, ActorsOK, Lookup, Begin, Open, Recheck, Goto, registry
  <2>2. CASE \E s \in Sessions : Watch(s)
    BY <1>0, <2>h, <2>2 DEF Typed, ActorsOK, Watch, Reclaim, Goto, registry
  <2>3. CASE \E s \in Sessions : Serve(s) \/ HangUp(s) \/ LoseSocket(s)
    BY <2>h, <2>3 DEF Serve, HangUp, LoseSocket, actors, registry
  <2>4. CASE \E c \in Calls, s \in Sessions, msg \in Messages : Call(c, s, msg)
    BY <1>0, <2>h, <2>4 DEF Typed, ActorsOK, Call, Goto, registry
  <2>5. CASE \E c \in Calls : Execute(c) \/ Executed(c)
    BY <1>0, <2>h, <2>5 DEF Typed, ActorsOK, Execute, Executed, Goto
  <2>6. CASE \E c \in Calls \cup Sessions : End(c)
    BY <1>0, <2>h, <2>6 DEF Typed, ActorsOK, End, BeginEnding, EndLock, EndTimeout, Claim,
       Ended, Forget, Goto, registry
  <2>7. CASE \E c \in Actors : Close(c)
    BY <1>0, <2>h, <2>7 DEF Typed, ActorsOK, Close, CloseOwn, CloseAbort, CloseUnlist,
       CloseTake, Goto, registry, Engaged
  <2>8. CASE \E j \in Conns : RemoveConn(j)
    BY <1>0, <2>h, <2>8 DEF Typed, ActorsOK, RemoveConn, Goto
  <2>9. CASE \E j \in Conns : Collect(j)
    BY <1>0, <2>h, <2>9 DEF Typed, ActorsOK, RegistryOK, Collect, Goto
  <2>10. CASE \E j \in Conns : Sweep(j)
    BY <1>0, <2>h, <2>10 DEF Typed, ActorsOK, RegistryOK, Sweep, Goto
  <2>11. CASE UNCHANGED vars
    BY <2>h, <2>11 DEF vars
  <2> QED
    BY <2>1, <2>2, <2>3, <2>4, <2>5, <2>6, <2>7, <2>8, <2>9, <2>10, <2>11 DEF Next, Remove
<1>2. \A s \in Sessions : result'[s] = "ok" => pc'[s] = "over"
  BY ReturnStep
<1>3. \A a \in Calls \cup Keepers : pc'[a] \in Engaged => result'[on'[a]] = "ok"
  BY KnownStep
<1> QED
  BY <1>1, <1>2, <1>3 DEF SweepsOwn

\* What a step does to a begin that leaves, and to one that may still return its session.
LEMMA LeavingStep ==
    ASSUME IInv, UpIsListed, CloserOwns, [Next]_vars, NEW s \in Sessions, s \in listed'
    PROVE  /\ pc[s] \in Leaving => pc'[s] \in Leaving
           /\ pc[s] \in {"opened", "ending"} =>
                 \/ pc'[s] \in {"opened", "ending"} \cup Leaving
                 \/ pc'[s] = "over" /\ (Home[s] \in conns \/ state[s] # "open")
<1>0. /\ Typed /\ s \in Actors /\ s \notin Calls /\ s \notin Conns /\ s \notin Keepers
      /\ on[s] = s /\ AfterClose(s) = "over"
  BY LeftFacts
<1>1. CASE \E r \in Sessions : Lookup(r) \/ Begin(r)
  BY <1>0, <1>1 DEF Typed, ActorsOK, Lookup, Begin, Open, Recheck, Goto, Leaving
<1>2. CASE \E r \in Sessions : Watch(r)
  BY <1>0, <1>2 DEF Typed, ActorsOK, Watch, Reclaim, Goto
<1>3. CASE \E r \in Sessions : Serve(r) \/ HangUp(r) \/ LoseSocket(r)
  BY <1>0, <1>3 DEF Serve, HangUp, LoseSocket, actors
<1>4. CASE \E a \in Calls, r \in Sessions, msg \in Messages : Call(a, r, msg)
  BY <1>0, <1>4 DEF Typed, ActorsOK, Call, Goto
<1>5. CASE \E a \in Calls : Execute(a) \/ Executed(a)
  BY <1>0, <1>5 DEF Typed, ActorsOK, Execute, Executed, Goto
<1>6. CASE \E a \in Calls \cup Sessions : End(a)
  BY <1>0, <1>6 DEF Typed, ActorsOK, End, BeginEnding, EndLock, EndTimeout, Claim, Ended,
     Forget, Goto, Leaving
<1>7. CASE \E a \in Actors : Close(a)
  BY <1>0, <1>7 DEF Typed, ActorsOK, Close, CloseOwn, CloseAbort, CloseUnlist, CloseTake,
     Goto,
     Leaving
<1>8. CASE \E k \in Conns : RemoveConn(k) \/ Remove(k)
  BY <1>0, <1>8 DEF Typed, ActorsOK, RemoveConn, Remove, Collect, Sweep, Goto
<1>9. CASE UNCHANGED vars
  BY <1>9 DEF vars
<1> QED
  BY <1>1, <1>2, <1>3, <1>4, <1>5, <1>6, <1>7, <1>8, <1>9 DEF Next

\* A removal keeps a listed session ahead of it until it has closed it.
LEMMA AheadStep ==
    ASSUME IInv, UpIsListed, SweepsOwn, [Next]_vars,
           NEW s \in Sessions, s \in listed, s \in listed', Ahead(s)
    PROVE  Ahead(s)'
<1> DEFINE k == Home[s]
<1>0. /\ Typed /\ k \in Conns /\ k \in Actors /\ k \notin Calls /\ k \notin Sessions
      /\ k \notin Keepers /\ AfterClose(k) = "sweeping"
  BY LeftFacts, SqlSessionAssumption
<1> HIDE DEF k
<1>h. \/ pc[k] \in {"idle", "collecting"}
      \/ s \in todo[k]
      \/ on[k] = s /\ pc[k] \in {"closing", "aborting", "unlisting"}
  BY DEF Ahead, k
<1>1. CASE UNCHANGED todo /\ pc'[k] = pc[k] /\ on'[k] = on[k]
  BY <1>h, <1>1 DEF Ahead, k
<1>2. CASE Close(k)
  <2>1. UNCHANGED <<todo, on>>
    BY <1>2 DEF Close, CloseOwn, CloseAbort, CloseUnlist, CloseTake, registry
  <2>2. CASE s \in todo[k]
    BY <2>1, <2>2 DEF Ahead, k
  <2>3. CASE on[k] = s /\ pc[k] \in {"closing", "aborting", "unlisting"}
    <3>1. on'[k] = s /\ pc'[k] \in {"aborting", "unlisting"}
      BY <1>0, <1>2, <2>1, <2>3 DEF Close, CloseOwn, CloseAbort, CloseUnlist, CloseTake,
         Goto,
         Typed, ActorsOK, RegistryOK
    <3> QED
      BY <3>1 DEF Ahead, k
  <2> QED
    BY <1>h, <1>2, <2>2, <2>3 DEF Close, CloseOwn, CloseAbort, CloseUnlist, CloseTake
<1>3. CASE RemoveConn(k)
  BY <1>0, <1>3 DEF RemoveConn, Goto, Typed, ActorsOK, Ahead, k
<1>4. CASE Collect(k)
  <2>1. s \in todo'[k]
    BY <1>0, <1>4 DEF Collect, Typed, RegistryOK, k
  <2> QED
    BY <2>1 DEF Ahead, k
<1>5. CASE Sweep(k)
  <2>1. s \in todo[k] /\ pc[k] = "sweeping"
    BY <1>h, <1>5 DEF Sweep
  <2>2. PICK r \in todo[k] : /\ todo' = [todo EXCEPT ![k] = @ \ {r}]
                             /\ on' = [on EXCEPT ![k] = r]
                             /\ Goto(k, "closing")
    BY <1>5, <2>1 DEF Sweep
  <2>3. s \in todo'[k] \/ (on'[k] = s /\ pc'[k] = "closing")
    BY <1>0, <2>1, <2>2 DEF Goto, Typed, ActorsOK, RegistryOK
  <2> QED
    BY <2>3 DEF Ahead, k
<1>6. ASSUME NEW j \in Conns, j # k, RemoveConn(j) \/ Remove(j) \/ Close(j)
      PROVE  todo'[k] = todo[k] /\ pc'[k] = pc[k] /\ on'[k] = on[k]
  BY <1>0, <1>6 DEF RemoveConn, Remove, Collect, Sweep, Close, CloseOwn, CloseAbort,
     CloseUnlist, CloseTake, Goto, Typed, ActorsOK, RegistryOK, registry
<1>7. CASE todo'[k] = todo[k] /\ pc'[k] = pc[k] /\ on'[k] = on[k]
  BY <1>h, <1>7 DEF Ahead, k
<1>8. ASSUME NEW a \in Actors, a # k, Close(a)
      PROVE  todo'[k] = todo[k] /\ pc'[k] = pc[k] /\ on'[k] = on[k]
  BY <1>0, <1>8 DEF Close, CloseOwn, CloseAbort, CloseUnlist, CloseTake, Goto, Typed,
     ActorsOK, registry
<1>9. CASE \E r \in Sessions : Lookup(r) \/ Begin(r) \/ Watch(r)
  BY <1>0, <1>1, <1>9 DEF Lookup, Begin, Open, Recheck, Watch, Reclaim, Goto, Typed,
     ActorsOK,
     registry
<1>10. CASE \E r \in Sessions : Serve(r) \/ HangUp(r) \/ LoseSocket(r)
  BY <1>1, <1>10 DEF Serve, HangUp, LoseSocket, actors, registry
<1>11. CASE \E a \in Calls : \/ \E r \in Sessions, msg \in Messages : Call(a, r, msg)
                             \/ Execute(a) \/ Executed(a)
  BY <1>0, <1>1, <1>11 DEF Call, Execute, Executed, Goto, Typed, ActorsOK, registry
<1>12. CASE \E a \in Calls \cup Sessions : End(a)
  BY <1>0, <1>1, <1>12 DEF End, BeginEnding, EndLock, EndTimeout, Claim, Ended, Forget,
     Goto,
     Typed, ActorsOK, registry
<1>13. CASE UNCHANGED vars
  BY <1>1, <1>13 DEF vars
<1>14. CASE \E a \in Actors : Close(a)
  BY <1>2, <1>7, <1>8, <1>14
<1>15. CASE \E j \in Conns : RemoveConn(j) \/ Remove(j)
  BY <1>3, <1>4, <1>5, <1>6, <1>7, <1>15 DEF Remove
<1> QED
  BY <1>9, <1>10, <1>11, <1>12, <1>13, <1>14, <1>15 DEF Next

\* The owner of an open session changes by its end(), or by a close.
LEMMA OpenStateStep ==
    ASSUME IInv, SweepsOwn, [Next]_vars, NEW s \in Sessions, pc[s] \in {"opened", "ending"},
           state[s] = "open", state'[s] # "open"
    PROVE  \/ pc'[s] \in Leaving
           \/ on[Home[s]] = s /\ pc'[Home[s]] = "aborting" /\ on'[Home[s]] = s
<1>0. /\ Typed /\ s \in Actors /\ s \notin Calls /\ s \notin Conns /\ s \notin Keepers
      /\ on[s] = s /\ Home[s] \in Conns /\ Conns \subseteq Actors
      /\ \A a \in Actors : pc[a] \in Engaged => on[a] \in Sessions
      /\ "closing" \in Engaged /\ "ending" \in Engaged
      /\ Calls \cup Sessions \subseteq Actors
      /\ \A a \in Actors : a \in Calls \cup Keepers \/ a \in Sessions \/ a \in Conns
  BY LeftFacts DEF Engaged, Actors
<1>1. \A a \in Calls \cup Keepers : pc[a] \in Engaged => on[a] # s
  BY DEF SweepsOwn
<1>2. CASE \E a \in Calls \cup Sessions : BeginEnding(a) \/ Claim(a)
  <2>1. PICK a \in Calls \cup Sessions : BeginEnding(a) \/ Claim(a)
    BY <1>2
  <2>2. BeginEnding(a) /\ on[a] = s
    BY <1>0, <2>1 DEF BeginEnding, Claim, Typed, RegistryOK
  <2>3. a = s
    BY <1>0, <1>1, <2>2, TypedFacts DEF BeginEnding
  <2> QED
    BY <1>0, <2>2, <2>3 DEF BeginEnding, Goto, Typed, ActorsOK, Leaving
<1>3. CASE \E a \in Actors : CloseOwn(a)
  <2>1. PICK a \in Actors : CloseOwn(a)
    BY <1>3
  <2>2. on[a] = s /\ pc[a] = "closing" /\ s \in listed
    BY <1>0, <2>1 DEF CloseOwn, Typed, RegistryOK
  <2>3. a \in Conns
    BY <1>0, <1>1, <2>2, TypedFacts
  <2>4. a = Home[s]
    BY <1>0, <2>2, <2>3 DEF SweepsOwn
  <2> QED
    BY <1>0, <2>1, <2>2, <2>4 DEF CloseOwn, Goto, Typed, ActorsOK
<1>4. \/ \E a \in Calls \cup Sessions : BeginEnding(a) \/ Claim(a)
      \/ \E a \in Actors : CloseOwn(a)
      \/ UNCHANGED state
  BY DEF Next, Lookup, Begin, Open, Recheck, Watch, Reclaim, Serve, HangUp, LoseSocket,
     Call,
     Execute, Executed, End, EndLock, EndTimeout, Ended, Forget, Close, CloseAbort,
     CloseUnlist, CloseTake, RemoveConn, Remove, Collect, Sweep, registry, vars
<1> QED
  BY <1>2, <1>3, <1>4

\* Nobody lists a session but its begin.
LEMMA ListStep ==
    ASSUME IInv, [Next]_vars, NEW s \in Sessions, s \in listed', s \notin listed
    PROVE  pc'[s] = "opened" /\ state'[s] = state[s] /\ pc[s] = "connecting"
<1>0. Typed /\ s \in Actors
  BY LeftFacts
<1>1. Open(s)
  BY DEF Next, Lookup, Begin, Open, Recheck, Watch, Reclaim, Serve, HangUp, LoseSocket,
     Call,
     Execute, Executed, End, BeginEnding, EndLock, EndTimeout, Claim, Ended, Forget, Close,
     CloseOwn, CloseAbort, CloseUnlist, CloseTake, RemoveConn, Remove, Collect, Sweep,
     registry, vars
<1> QED
  BY <1>0, <1>1 DEF Open, Goto, Typed, ActorsOK

\* A listed session is closed by its begin, or stays ahead of the removal.
LEMMA ListedStep ==
    ASSUME IInv, CloserOwns, Left, [Next]_vars
    PROVE  ListedIsAhead'
<1> SUFFICES ASSUME NEW s \in listed'
             PROVE  \/ Ahead(s)'
                    \/ pc'[s] \in {"opened", "ending"} /\ state'[s] = "open"
                    \/ pc'[s] \in Leaving
  BY DEF ListedIsAhead, Leaving
<1>l. WorkIsOnOpened /\ UpIsListed /\ SweepsOwn /\ ListedIsAhead
  BY DEF Left
<1>0. s \in Sessions /\ Typed
  <2>1. IInv'
    BY NextInv
  <2> QED
    BY <2>1, TypedFacts DEF IInv, TypeOK
<1>1. CASE s \notin listed
  <2>1. pc'[s] = "opened" /\ state'[s] = state[s] /\ pc[s] = "connecting"
    BY <1>0, <1>1, ListStep
  <2> QED
    BY <1>0, <1>l, <2>1 DEF WorkIsOnOpened, Opened
<1>2. CASE s \in listed /\ Ahead(s)
  BY <1>0, <1>2, <1>l, AheadStep
<1>3. CASE s \in listed /\ pc[s] \in Leaving
  BY <1>0, <1>3, <1>l, LeavingStep
<1>4. CASE s \in listed /\ pc[s] \in {"opened", "ending"} /\ state[s] = "open"
  <2>1. CASE pc'[s] \in Leaving
    BY <2>1
  <2>2. CASE pc'[s] = "over"
    <3>1. "opened" \notin Leaving /\ "ending" \notin Leaving /\ "over" \notin Leaving
      BY DEF Leaving
    <3>2. Home[s] \in conns
      BY <1>0, <1>4, <1>l, <2>2, <3>1, LeavingStep
    <3>3. Ahead(s)
      BY <1>0, <1>l, <3>2, LeftFacts DEF SweepsOwn, Ahead
    <3> QED
      BY <1>2, <1>4, <3>3
  <2>3. CASE pc'[s] \in {"opened", "ending"}
    <3>1. CASE state'[s] = "open"
      BY <2>3, <3>1
    <3>2. CASE state'[s] # "open"
      <4>1. \/ pc'[s] \in Leaving
            \/ on[Home[s]] = s /\ pc'[Home[s]] = "aborting" /\ on'[Home[s]] = s
        BY <1>0, <1>4, <1>l, <3>2, OpenStateStep
      <4> QED
        BY <4>1 DEF Ahead
    <3> QED
      BY <3>1, <3>2
  <2> QED
    BY <1>0, <1>4, <1>l, <2>1, <2>2, <2>3, LeavingStep
<1> QED
  BY <1>1, <1>2, <1>3, <1>4, <1>l DEF ListedIsAhead, Leaving

\* What a removal leaves behind rests on an inductive invariant.
LEMMA LeftStep == IInv /\ CloserOwns /\ Left /\ [Next]_vars => Left'
<1> SUFFICES ASSUME IInv, CloserOwns, Left, [Next]_vars
             PROVE  Left'
  OBVIOUS
<1>1. WorkIsOnOpened /\ UpIsListed /\ SweepsOwn /\ ListedIsAhead
  BY DEF Left
<1>2. WorkIsOnOpened'
  BY <1>1, OpenedStep
<1>3. UpIsListed'
  BY <1>1, UpStep
<1>4. SweepsOwn'
  BY <1>1, SweepStep
<1>5. ListedIsAhead'
  BY ListedStep
<1> QED
  BY <1>2, <1>3, <1>4, <1>5 DEF Left

\* At the start nothing is listed, swept or open.
LEMMA InitLeft == Init => Left
<1> SUFFICES ASSUME Init PROVE Left
  OBVIOUS
<1>1. /\ Conns \subseteq Actors /\ Sessions \subseteq Actors /\ Calls \subseteq Actors
      /\ Keepers \subseteq Actors
  BY DEF Actors
<1>2. WorkIsOnOpened
  BY <1>1 DEF Init, WorkIsOnOpened, Engaged
<1>3. UpIsListed
  BY <1>1 DEF Init, UpIsListed
<1>4. SweepsOwn
  BY <1>1 DEF Init, SweepsOwn, Engaged
<1>5. ListedIsAhead
  BY DEF Init, ListedIsAhead
<1> QED
  BY <1>2, <1>3, <1>4, <1>5 DEF Left

\* Once a removal and a begin of its connection have both returned, whichever came first, the
\* session is not listed and its socket is closed, for any number of sessions and closers.
THEOREM RemovalLeavesNothing == Spec => []RemovedHoldsNoSession
<1>1. ASSUME IInv, Left, NEW s \in Sessions,
             pc[Home[s]] = "over", pc[s] \in {"idle", "over"}
      PROVE  s \notin listed \cup up
  <2>1. WorkIsOnOpened /\ UpIsListed /\ SweepsOwn /\ ListedIsAhead
    BY <1>1 DEF Left
  <2>2. ~ Ahead(s)
    <3>1. Home[s] \in Conns /\ Typed
      BY <1>1, LeftFacts
    <3>2. s \notin todo[Home[s]]
      BY <1>1, <2>1, <3>1 DEF SweepsOwn
    <3> QED
      BY <1>1, <3>2 DEF Ahead
  <2> QED
    BY <1>1, <2>1, <2>2 DEF UpIsListed, ListedIsAhead, Leaving
<1>2. IInv /\ Left => RemovedHoldsNoSession
  BY <1>1 DEF RemovedHoldsNoSession
<1>3. IInv /\ Honest /\ Left /\ [Next]_vars => Left'
  BY LeftStep DEF Honest
<1>4. Spec => []Left
  BY <1>3, InitLeft, Invariance, HonestInvariance, PTL DEF Spec
<1> QED
  BY <1>2, <1>4, Invariance, PTL
=============================================================================
