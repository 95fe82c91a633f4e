------------------------- MODULE ResultStreamProofs -------------------------
(***************************************************************************)
(* A streamed query with any number of chunks, window and channel: the     *)
(* subscriber is handed the chunks in order without a gap, and hears done  *)
(* only when it has them all.                                              *)
(*                                                                         *)
(* The chunks are numbered in the order they are fetched, and lie one      *)
(* behind the other in got, the queue or the cache, the webview's events   *)
(* and the channel; the invariant says that these, read in this order,     *)
(* count from the first chunk to the next one to be fetched, and that an   *)
(* end is behind everything it ends.                                       *)
(***************************************************************************)
EXTENDS ResultStream, SequenceTheorems, TLAPS

\* The numbers chunks are counted with: that of the next chunk is one more than the last.
Places == 1..Chunks + 1
Entries == [type: {"chunk", "done", "error"}, n: Numbers]
Waiting == [what: {"chunk", "done", "error"}, n: Numbers, ack: BOOLEAN]

\* The chunk numbers of what is emitted, and of what is queued; 0 is an end.
EventNums(s) == [i \in 1..Len(s) |-> IF s[i].type = "chunk" THEN s[i].n ELSE 0]
QueueNums(s) == [i \in 1..Len(s) |-> IF s[i].what = "chunk" THEN s[i].n ELSE 0]

\* s counts from a up to z, which comes next, with at most one end at place p.
CountsBut(s, a, z, p) ==
    /\ \A i \in 1..Len(s) : 
           s[i] = IF i < p THEN a + i - 1 ELSE IF i = p THEN 0 ELSE a + i - 2
    /\ z = a + Len(s) - IF p <= Len(s) THEN 1 ELSE 0
Counts(s, a, z) == \E p \in 1..Len(s) + 1 : CountsBut(s, a, z, p)
Unended(s) == \A i \in 1..Len(s) : s[i] # 0

\* The variables' types; the numbers that acknowledgements move are bounded by Paid.
Types ==
    /\ run \in {"fetching", "credit", "sending", "failing", "draining", "over"}
    /\ outcome \in {"none", "done", "failed", "cut"}
    /\ next \in Places
    /\ emitter \in {"running", "over", "broken"}
    /\ sub \in {"none", "listening", "left"}
    /\ asked \in BOOLEAN /\ serial \in BOOLEAN /\ bus \in BOOLEAN /\ working \in BOOLEAN
    /\ ending \in BOOLEAN /\ swept \in BOOLEAN
    /\ credit \in Nat /\ toAck \in Nat /\ flying \in Nat
Contents ==
    /\ channel \in Seq(Numbers) /\ Len(channel) <= Capacity
    /\ events \in Seq(Entries)
    /\ queue \in Seq(Waiting)
    /\ cache \in [kept: BOOLEAN, chunks: Seq(Numbers), done: BOOLEAN, error: BOOLEAN,
                  old: BOOLEAN]
    /\ got \in Seq(Numbers)
    /\ heard \in Seq({"done", "error"})
Numbered ==
    /\ \A i \in 1..Len(events) : events[i].type = "chunk" => events[i].n \in 1..Chunks
    /\ \A i \in 1..Len(queue) : queue[i].what = "chunk" => queue[i].n \in 1..Chunks
    /\ \A i \in 1..Len(queue) : queue[i].ack => queue[i].what = "chunk"

\* Where the runner is and how it ends.
RunnerOK ==
    /\ run \in {"fetching", "credit", "sending"} => outcome = "none"
    /\ run \in {"credit", "sending"} => next <= Chunks
    /\ run = "failing" => outcome = "failed"
    /\ outcome = "done" => next = Chunks + 1 /\ run \in {"draining", "over"}
    /\ outcome = "cut" => run \in {"draining", "over"}
    /\ ~ Unended(channel) => outcome = "failed" /\ run \in {"draining", "over"}
    /\ emitter = "over" => run \in {"draining", "over"}
    /\ emitter = "over" /\ outcome = "done" => channel = <<>>

\* Whoever does not listen has nothing in progress but a handler that has not settled.
BusOK ==
    /\ bus => sub = "listening"
    /\ ~ serial => queue = <<>>
    /\ sub = "none" => got = <<>> /\ queue = <<>> /\ ~ working /\ heard = <<>>
    /\ working => queue # <<>> /\ Head(queue).what = "chunk"

\* What an end that is told says of the runner.
Truth(type) ==
    \/ type = "done" /\ outcome = "cut"
    \/ type = "done" /\ outcome = "done" /\ run = "over" /\ emitter # "running"
    \/ type = "error" /\ outcome = "failed" /\ emitter = "over"
EndsAreTrue ==
    /\ \A i \in 1..Len(events) : events[i].type # "chunk" => Truth(events[i].type)
    /\ \A i \in 1..Len(queue) : queue[i].what # "chunk" => Truth(queue[i].what)
    /\ \A i \in 1..Len(heard) : Truth(heard[i])
    /\ cache.done => Truth("done")
    /\ cache.error => Truth("error")
    \* One end is told.
    /\ (\E i \in 1..Len(events) : events[i].type # "chunk") =>
           /\ ~ cache.done /\ ~ cache.error
           /\ \A i \in 1..Len(queue) : queue[i].what = "chunk"

\* The done of a complete stream is told behind everything else.
DoneIsLast ==
    outcome = "done" =>
        /\ \A i \in 1..Len(events) - 1 : events[i].type = "chunk"
        /\ \A i \in 1..Len(queue) :
               queue[i].what = "done" => i = Len(queue) /\ events = <<>>
        /\ cache.done => events = <<>>

\* The subscriber was handed the chunks from the g-th to before the f-th; those before the
\* b-th are queued or cached for it.
Handed(g, f, b) ==
    /\ Counts(got, g, f) /\ Unended(got)
    /\ ~ swept => g = 1
    /\ sub = "none" => Counts(cache.chunks, f, b) /\ Unended(cache.chunks)
    /\ bus => Counts(QueueNums(queue), f, b)
    /\ working => Head(queue).n = f

\* The chunks before the c-th are emitted, the others before the next are in the channel.
Emitted(b, c) ==
    /\ Counts(EventNums(events), b, c)
    /\ emitter # "broken" => Counts(channel, c, next)
    /\ b <= c /\ c <= next

\* Of the b - 1 chunks the webview has seen, a are acknowledged, none of them twice.
Paid(a) ==
    /\ toAck + flying <= a
    /\ credit + (IF run = "sending" THEN 1 ELSE 0) + toAck + flying
           <= Window + a + (IF outcome = "failed" THEN 1 ELSE 0)
Owed(b, a) ==
    /\ a < b
    /\ bus => \A i \in 1..Len(queue) : queue[i].ack => a < queue[i].n
    /\ working /\ Head(queue).ack => a + 1 < b

\* Who is told done has settled everything.
ToldAll ==
    \A i \in 1..Len(heard) : heard[i] = "done" =>
        \/ outcome = "cut"
        \/ outcome = "done" /\ (Len(got) = Chunks \/ swept \/ emitter = "broken")

Flows == \E g, f, b, c \in Places, a \in 0..Chunks :
             Handed(g, f, b) /\ Emitted(b, c) /\ Paid(a) /\ Owed(b, a)

IInv == /\ Types /\ RunnerOK /\ BusOK
        /\ Contents /\ Numbered
        /\ EndsAreTrue
        /\ DoneIsLast /\ ToldAll
        /\ Flows

-----------------------------------------------------------------------------
\* Sequences that count

\* Nothing is counted by an empty sequence.
LEMMA CountsNothing ==
    ASSUME NEW a \in Nat
    PROVE  Counts(<<>>, a, a) /\ Unended(<<>>)
<1>1. CountsBut(<<>>, a, a, 1)
  BY DEF CountsBut
<1> QED
  BY <1>1 DEF Counts, Unended

\* What counts from a to z without an end has z - a numbers.
LEMMA CountsLen ==
    ASSUME NEW s \in Seq(Nat), NEW a \in Nat \ {0}, NEW z \in Nat, Counts(s, a, z)
    PROVE  /\ a <= z
           /\ Unended(s) => /\ z = a + Len(s)
                            /\ \A i \in 1..Len(s) : s[i] = a + i - 1
           /\ \A i \in 1..Len(s) : s[i] # 0 => a <= s[i] /\ s[i] < z
<1>1. PICK p \in 1..Len(s) + 1 : CountsBut(s, a, z, p)
  BY DEF Counts
<1>2. Len(s) \in Nat
  OBVIOUS
<1>3. Unended(s) => p = Len(s) + 1
  BY <1>1, <1>2 DEF CountsBut, Unended
<1>4. a <= z
  BY <1>1, <1>2 DEF CountsBut
<1>5. ASSUME Unended(s)
      PROVE  z = a + Len(s) /\ \A i \in 1..Len(s) : s[i] = a + i - 1
  <2>1. p = Len(s) + 1
    BY <1>3, <1>5
  <2>2. z = a + Len(s)
    BY <1>1, <1>2, <2>1 DEF CountsBut
  <2>3. ASSUME NEW i \in 1..Len(s)
        PROVE  s[i] = a + i - 1
    BY <1>1, <1>2, <2>1 DEF CountsBut
  <2> QED
    BY <2>2, <2>3
<1>6. ASSUME NEW i \in 1..Len(s), s[i] # 0
      PROVE  a <= s[i] /\ s[i] < z
  <2>1. i \in Nat /\ s[i] = (IF i < p THEN a + i - 1 ELSE IF i = p THEN 0 ELSE a + i - 2)
    BY <1>1, <1>2 DEF CountsBut
  <2>2. z = a + Len(s) - (IF p <= Len(s) THEN 1 ELSE 0)
    BY <1>1 DEF CountsBut
  <2> QED
    BY <1>2, <1>6, <2>1, <2>2
<1> QED
  BY <1>4, <1>5, <1>6

\* The next number goes to the end of the sequence, and so may one end.
LEMMA CountsOn ==
    ASSUME NEW s \in Seq(Nat), NEW a \in Nat \ {0}, NEW z \in Nat, Counts(s, a, z)
    PROVE  /\ Counts(Append(s, z), a, z + 1)
           /\ Unended(s) => Counts(Append(s, 0), a, z)
           /\ Unended(s) => Unended(Append(s, z))
           /\ ~ Unended(Append(s, 0))
           /\ ~ Unended(s) => ~ Unended(Append(s, z))
<1>1. PICK p \in 1..Len(s) + 1 : CountsBut(s, a, z, p)
  BY DEF Counts
<1>2. /\ Len(s) \in Nat
      /\ Len(Append(s, z)) = Len(s) + 1 /\ Len(Append(s, 0)) = Len(s) + 1
      /\ \A i \in 1..Len(s) : Append(s, z)[i] = s[i] /\ Append(s, 0)[i] = s[i]
      /\ Append(s, z)[Len(s) + 1] = z /\ Append(s, 0)[Len(s) + 1] = 0
  BY 0 \in Nat, AppendProperties
<1>3. Counts(Append(s, z), a, z + 1)
  <2>1. CASE p <= Len(s)
    <3>1. CountsBut(Append(s, z), a, z + 1, p)
      <4>1. z = a + Len(s) - 1
        BY <1>1, <2>1 DEF CountsBut
      <4>2. ASSUME NEW i \in 1..Len(s) + 1
            PROVE  Append(s, z)[i]
                       = IF i < p THEN a + i - 1 ELSE IF i = p THEN 0 ELSE a + i - 2
        <5>1. CASE i <= Len(s)
          <6>1. i \in 1..Len(s)
            BY <1>2, <5>1
          <6> QED
            BY <1>1, <1>2, <6>1 DEF CountsBut
        <5>2. CASE i = Len(s) + 1
          BY <1>2, <2>1, <4>1, <5>2
        <5> QED
          BY <1>2, <5>1, <5>2
      <4>3. z + 1 = a + (Len(s) + 1) - IF p <= Len(s) + 1 THEN 1 ELSE 0
        BY <1>2, <2>1, <4>1
      <4> QED
        BY <1>2, <4>2, <4>3 DEF CountsBut
    <3> QED
      BY <1>2, <2>1, <3>1 DEF Counts
  <2>2. CASE p = Len(s) + 1
    <3>1. CountsBut(Append(s, z), a, z + 1, p + 1)
      <4>1. z = a + Len(s)
        BY <1>1, <1>2, <2>2 DEF CountsBut
      <4>2. ASSUME NEW i \in 1..Len(s) + 1
            PROVE  Append(s, z)[i] = a + i - 1
        <5>1. CASE i <= Len(s)
          <6>1. i \in 1..Len(s) /\ i < p
            BY <1>2, <2>2, <5>1
          <6> QED
            BY <1>1, <1>2, <6>1 DEF CountsBut
        <5>2. CASE i = Len(s) + 1
          BY <1>2, <4>1, <5>2
        <5> QED
          BY <1>2, <5>1, <5>2
      <4> QED
        BY <1>2, <2>2, <4>1, <4>2 DEF CountsBut
    <3> QED
      BY <1>2, <2>2, <3>1 DEF Counts
  <2> QED
    BY <2>1, <2>2
<1>4. ASSUME Unended(s)
      PROVE  Counts(Append(s, 0), a, z)
  <2>1. p = Len(s) + 1
    BY <1>1, <1>2, <1>4 DEF CountsBut, Unended
  <2>2. CountsBut(Append(s, 0), a, z, p)
    BY <1>1, <1>2, <2>1 DEF CountsBut
  <2> QED
    BY <1>2, <2>2 DEF Counts
<1>5. /\ Unended(s) => Unended(Append(s, z))
      /\ ~ Unended(s) => ~ Unended(Append(s, z))
  <2>1. z # 0
    BY CountsLen
  <2>2. ASSUME Unended(s), NEW i \in 1..Len(s) + 1
        PROVE  Append(s, z)[i] # 0
    <3>1. CASE i <= Len(s)
      <4>1. i \in 1..Len(s)
        BY <1>2, <3>1
      <4> QED
        BY <1>2, <2>2, <4>1 DEF Unended
    <3>2. CASE i = Len(s) + 1
      BY <1>2, <2>1, <3>2
    <3> QED
      BY <1>2, <3>1, <3>2
  <2>3. ASSUME NEW i \in 1..Len(s), s[i] = 0
        PROVE  i \in 1..Len(s) + 1 /\ Append(s, z)[i] = 0
    BY <1>2, <2>3
  <2> QED
    BY <1>2, <2>2, <2>3 DEF Unended
<1>6. ~ Unended(Append(s, 0))
  BY <1>2 DEF Unended
<1> QED
  BY <1>3, <1>4, <1>5, <1>6

\* Without its first number the sequence counts from the next one, without its end from
\* the same.
LEMMA CountsRest ==
    ASSUME NEW s \in Seq(Nat), NEW a \in Nat \ {0}, NEW z \in Nat, Counts(s, a, z), s # <<>>
    PROVE  /\ Head(s) # 0 => /\ Head(s) = a /\ a < z
                             /\ Counts(Tail(s), a + 1, z)
                             /\ Unended(s) <=> Unended(Tail(s))
           /\ Head(s) = 0 => /\ Counts(Tail(s), a, z)
                             /\ Unended(Tail(s))
                             /\ ~ Unended(s)
<1>1. PICK p \in 1..Len(s) + 1 : CountsBut(s, a, z, p)
  BY DEF Counts
<1>2. /\ Len(s) \in Nat \ {0} /\ Len(Tail(s)) = Len(s) - 1
      /\ Head(s) = s[1]
      /\ \A i \in 1..Len(s) - 1 : Tail(s)[i] = s[i + 1]
  BY EmptySeq, HeadTailProperties
<1>3. ASSUME Head(s) # 0
      PROVE  /\ Head(s) = a /\ a < z
             /\ Counts(Tail(s), a + 1, z)
             /\ Unended(s) <=> Unended(Tail(s))
  <2>1. p # 1 /\ Head(s) = a
    BY <1>1, <1>2, <1>3 DEF CountsBut
  <2>2. CountsBut(Tail(s), a + 1, z, p - 1)
    <3>1. ASSUME NEW i \in 1..Len(Tail(s))
          PROVE  Tail(s)[i] = IF i < p - 1 THEN a + 1 + i - 1
                              ELSE IF i = p - 1 THEN 0 ELSE a + 1 + i - 2
      <4>1. i \in Nat /\ i + 1 \in 1..Len(s) /\ Tail(s)[i] = s[i + 1]
        BY <1>2
      <4>2. s[i + 1] = IF i + 1 < p THEN a + (i + 1) - 1
                       ELSE IF i + 1 = p THEN 0 ELSE a + (i + 1) - 2
        BY <1>1, <4>1 DEF CountsBut
      <4> QED
        BY <4>1, <4>2
    <3>2. z = a + 1 + Len(Tail(s)) - IF p - 1 <= Len(Tail(s)) THEN 1 ELSE 0
      BY <1>1, <1>2 DEF CountsBut
    <3> QED
      BY <3>1, <3>2 DEF CountsBut
  <2>3. p - 1 \in 1..Len(Tail(s)) + 1 /\ a + 1 <= z
    BY <1>1, <1>2, <2>1 DEF CountsBut
  <2>4. \A i \in 2..Len(s) : Tail(s)[i - 1] = s[i]
    BY <1>2
  <2>5. Unended(s) <=> Unended(Tail(s))
    <3>1. ASSUME Unended(Tail(s)), NEW i \in 1..Len(s)
          PROVE  s[i] # 0
      BY <1>2, <1>3, <2>4, <3>1 DEF Unended
    <3>2. ASSUME Unended(s), NEW i \in 1..Len(Tail(s))
          PROVE  Tail(s)[i] # 0
      BY <1>2, <3>2 DEF Unended
    <3> QED
      BY <3>1, <3>2 DEF Unended
  <2>6. Counts(Tail(s), a + 1, z)
    BY <2>2, <2>3 DEF Counts
  <2> QED
    BY <2>1, <2>3, <2>5, <2>6
<1>4. ASSUME Head(s) = 0
      PROVE  Counts(Tail(s), a, z) /\ Unended(Tail(s)) /\ ~ Unended(s)
  <2>1. p = 1
    BY <1>1, <1>2, <1>4 DEF CountsBut
  <2>2. ASSUME NEW i \in 1..Len(Tail(s))
        PROVE  Tail(s)[i] = a + i - 1
    <3>1. i \in Nat /\ i + 1 \in 1..Len(s) /\ Tail(s)[i] = s[i + 1]
      BY <1>2
    <3>2. s[i + 1] = a + (i + 1) - 2
      BY <1>1, <2>1, <3>1 DEF CountsBut
    <3> QED
      BY <3>1, <3>2
  <2>3. CountsBut(Tail(s), a, z, Len(Tail(s)) + 1)
    <3>1. z = a + Len(Tail(s))
      BY <1>1, <1>2, <2>1 DEF CountsBut
    <3>2. z = a + Len(Tail(s)) - IF Len(Tail(s)) + 1 <= Len(Tail(s)) THEN 1 ELSE 0
      BY <1>2, <3>1
    <3>3. ASSUME NEW i \in 1..Len(Tail(s))
          PROVE  Tail(s)[i] = IF i < Len(Tail(s)) + 1 THEN a + i - 1
                              ELSE IF i = Len(Tail(s)) + 1 THEN 0 ELSE a + i - 2
      <4>1. i \in Nat /\ i < Len(Tail(s)) + 1
        BY <1>2
      <4> QED
        BY <2>2, <4>1
    <3> QED
      BY <3>2, <3>3 DEF CountsBut
  <2>4. Counts(Tail(s), a, z)
    BY <1>2, <2>3 DEF Counts
  <2> QED
    BY <1>2, <1>4, <2>2, <2>4 DEF Unended
<1> QED
  BY <1>3, <1>4

\* The numbers of events that were emitted, and of those that are left.
LEMMA EventsCount ==
    ASSUME NEW s \in Seq(Entries), NEW e \in Entries
    PROVE  /\ EventNums(s) \in Seq(Nat) /\ Len(EventNums(s)) = Len(s)
           /\ \A i \in 1..Len(s) :
                  EventNums(s)[i] = IF s[i].type = "chunk" THEN s[i].n ELSE 0
           /\ EventNums(Append(s, e))
                  = Append(EventNums(s), IF e.type = "chunk" THEN e.n ELSE 0)
           /\ s # <<>> => /\ EventNums(s) # <<>>
                          /\ Head(EventNums(s))
                                 = IF Head(s).type = "chunk" THEN Head(s).n ELSE 0
                          /\ EventNums(Tail(s)) = Tail(EventNums(s))
<1>1. ASSUME NEW t \in Seq(Entries)
      PROVE  /\ EventNums(t) \in Seq(Nat) /\ Len(EventNums(t)) = Len(t)
             /\ \A i \in 1..Len(t) :
                    EventNums(t)[i] = IF t[i].type = "chunk" THEN t[i].n ELSE 0
  <2>1. \A i \in 1..Len(t) : t[i] \in Entries
    BY ElementOfSeq
  <2>2. \A i \in 1..Len(t) : (IF t[i].type = "chunk" THEN t[i].n ELSE 0) \in Nat
    BY <2>1, ResultStreamAssumption DEF Entries, Numbers
  <2> QED
    BY <2>2 DEF EventNums
<1> DEFINE v == IF e.type = "chunk" THEN e.n ELSE 0
<1>2. v \in Nat
  BY ResultStreamAssumption DEF Entries, Numbers
<1>3. EventNums(Append(s, e)) = Append(EventNums(s), v)
  <2> HIDE DEF v
  <2>1. Append(s, e) \in Seq(Entries) /\ Len(Append(s, e)) = Len(s) + 1
        /\ (\A i \in 1..Len(s) : Append(s, e)[i] = s[i]) /\ Append(s, e)[Len(s) + 1] = e
    BY AppendProperties
  <2>2. /\ Append(EventNums(s), v) \in Seq(Nat)
        /\ Len(Append(EventNums(s), v)) = Len(s) + 1
        /\ \A i \in 1..Len(s) : Append(EventNums(s), v)[i] = EventNums(s)[i]
        /\ Append(EventNums(s), v)[Len(s) + 1] = v
    BY <1>1, <1>2, AppendProperties
  <2>3. /\ EventNums(Append(s, e)) \in Seq(Nat) /\ Len(EventNums(Append(s, e))) = Len(s) + 1
        /\ \A i \in 1..Len(s) + 1 :
               EventNums(Append(s, e))[i]
                   = IF Append(s, e)[i].type = "chunk" THEN Append(s, e)[i].n ELSE 0
    <3> DEFINE t == Append(s, e)
    <3>1. t \in Seq(Entries) /\ Len(t) = Len(s) + 1
      BY <2>1
    <3> HIDE DEF t
    <3>2. /\ EventNums(t) \in Seq(Nat) /\ Len(EventNums(t)) = Len(t)
          /\ \A i \in 1..Len(t) :
                 EventNums(t)[i] = IF t[i].type = "chunk" THEN t[i].n ELSE 0
      BY <1>1, <3>1
    <3>3. /\ EventNums(t) \in Seq(Nat) /\ Len(EventNums(t)) = Len(s) + 1
          /\ \A i \in 1..Len(s) + 1 :
                 EventNums(t)[i] = IF t[i].type = "chunk" THEN t[i].n ELSE 0
      BY <3>1, <3>2
    <3> QED
      BY <3>3 DEF t
  <2>4. ASSUME NEW i \in 1..Len(s) + 1
        PROVE  EventNums(Append(s, e))[i] = Append(EventNums(s), v)[i]
    <3>1. CASE i <= Len(s)
      <4>1. i \in 1..Len(s)
        BY <3>1
      <4>2. EventNums(s)[i] = IF s[i].type = "chunk" THEN s[i].n ELSE 0
        BY <1>1, <4>1
      <4> QED
        BY <2>1, <2>2, <2>3, <4>1, <4>2
    <3>2. CASE i = Len(s) + 1
      BY <2>1, <2>2, <2>3, <3>2 DEF v
    <3>3. Len(s) \in Nat
      OBVIOUS
    <3>4. i <= Len(s) \/ i = Len(s) + 1
      BY <3>3
    <3> QED
      BY <3>1, <3>2, <3>4
  <2> QED
    BY <2>2, <2>3, <2>4, SeqEqual
<1>4. ASSUME s # <<>>
      PROVE  /\ EventNums(s) # <<>>
             /\ Head(EventNums(s)) = IF Head(s).type = "chunk" THEN Head(s).n ELSE 0
             /\ EventNums(Tail(s)) = Tail(EventNums(s))
  <2>1. /\ Len(s) \in Nat \ {0} /\ Tail(s) \in Seq(Entries) /\ Len(Tail(s)) = Len(s) - 1
        /\ Head(s) = s[1] /\ \A i \in 1..Len(s) - 1 : Tail(s)[i] = s[i + 1]
    BY <1>4, EmptySeq, HeadTailProperties
  <2>2. EventNums(s) # <<>> /\ Head(EventNums(s)) = EventNums(s)[1]
    BY <1>1, <2>1
  <2>3. /\ Tail(EventNums(s)) \in Seq(Nat) /\ Len(Tail(EventNums(s))) = Len(s) - 1
        /\ \A i \in 1..Len(s) - 1 : Tail(EventNums(s))[i] = EventNums(s)[i + 1]
    BY <1>1, <2>1, <2>2, HeadTailProperties
  <2>4. EventNums(Tail(s)) \in Seq(Nat) /\ Len(EventNums(Tail(s))) = Len(s) - 1
    BY <1>1, <2>1
  <2>7. \A i \in 1..Len(s) - 1 : EventNums(Tail(s))[i]
            = IF Tail(s)[i].type = "chunk" THEN Tail(s)[i].n ELSE 0
    BY <1>1, <2>1
  <2>5. ASSUME NEW i \in 1..Len(s) - 1
        PROVE  EventNums(Tail(s))[i] = Tail(EventNums(s))[i]
    <3>1. i + 1 \in 1..Len(s) /\ i \in 1..Len(Tail(s))
      BY <2>1
    <3> QED
      BY <1>1, <2>1, <2>3, <2>7, <3>1
  <2>6. EventNums(Tail(s)) = Tail(EventNums(s))
    BY <2>3, <2>4, <2>5, SeqEqual
  <2> QED
    BY <1>1, <2>1, <2>2, <2>6
<1> QED
  BY <1>1, <1>3, <1>4

\* The same of what is queued.
LEMMA QueueCounts ==
    ASSUME NEW s \in Seq(Waiting), NEW e \in Waiting
    PROVE  /\ QueueNums(s) \in Seq(Nat) /\ Len(QueueNums(s)) = Len(s)
           /\ \A i \in 1..Len(s) :
                  QueueNums(s)[i] = IF s[i].what = "chunk" THEN s[i].n ELSE 0
           /\ QueueNums(Append(s, e))
                  = Append(QueueNums(s), IF e.what = "chunk" THEN e.n ELSE 0)
           /\ s # <<>> => /\ QueueNums(s) # <<>>
                          /\ Head(QueueNums(s))
                                 = IF Head(s).what = "chunk" THEN Head(s).n ELSE 0
                          /\ QueueNums(Tail(s)) = Tail(QueueNums(s))
<1>1. ASSUME NEW t \in Seq(Waiting)
      PROVE  /\ QueueNums(t) \in Seq(Nat) /\ Len(QueueNums(t)) = Len(t)
             /\ \A i \in 1..Len(t) :
                    QueueNums(t)[i] = IF t[i].what = "chunk" THEN t[i].n ELSE 0
  <2>1. \A i \in 1..Len(t) : t[i] \in Waiting
    BY ElementOfSeq
  <2>2. \A i \in 1..Len(t) : (IF t[i].what = "chunk" THEN t[i].n ELSE 0) \in Nat
    BY <2>1, ResultStreamAssumption DEF Waiting, Numbers
  <2> QED
    BY <2>2 DEF QueueNums
<1> DEFINE v == IF e.what = "chunk" THEN e.n ELSE 0
<1>2. v \in Nat
  BY ResultStreamAssumption DEF Waiting, Numbers
<1>3. QueueNums(Append(s, e)) = Append(QueueNums(s), v)
  <2> HIDE DEF v
  <2>1. Append(s, e) \in Seq(Waiting) /\ Len(Append(s, e)) = Len(s) + 1
        /\ (\A i \in 1..Len(s) : Append(s, e)[i] = s[i]) /\ Append(s, e)[Len(s) + 1] = e
    BY AppendProperties
  <2>2. /\ Append(QueueNums(s), v) \in Seq(Nat)
        /\ Len(Append(QueueNums(s), v)) = Len(s) + 1
        /\ \A i \in 1..Len(s) : Append(QueueNums(s), v)[i] = QueueNums(s)[i]
        /\ Append(QueueNums(s), v)[Len(s) + 1] = v
    BY <1>1, <1>2, AppendProperties
  <2>3. /\ QueueNums(Append(s, e)) \in Seq(Nat) /\ Len(QueueNums(Append(s, e))) = Len(s) + 1
        /\ \A i \in 1..Len(s) + 1 :
               QueueNums(Append(s, e))[i]
                   = IF Append(s, e)[i].what = "chunk" THEN Append(s, e)[i].n ELSE 0
    <3> DEFINE t == Append(s, e)
    <3>1. t \in Seq(Waiting) /\ Len(t) = Len(s) + 1
      BY <2>1
    <3> HIDE DEF t
    <3>2. /\ QueueNums(t) \in Seq(Nat) /\ Len(QueueNums(t)) = Len(t)
          /\ \A i \in 1..Len(t) :
                 QueueNums(t)[i] = IF t[i].what = "chunk" THEN t[i].n ELSE 0
      BY <1>1, <3>1
    <3>3. /\ QueueNums(t) \in Seq(Nat) /\ Len(QueueNums(t)) = Len(s) + 1
          /\ \A i \in 1..Len(s) + 1 :
                 QueueNums(t)[i] = IF t[i].what = "chunk" THEN t[i].n ELSE 0
      BY <3>1, <3>2
    <3> QED
      BY <3>3 DEF t
  <2>4. ASSUME NEW i \in 1..Len(s) + 1
        PROVE  QueueNums(Append(s, e))[i] = Append(QueueNums(s), v)[i]
    <3>1. CASE i <= Len(s)
      <4>1. i \in 1..Len(s)
        BY <3>1
      <4>2. QueueNums(s)[i] = IF s[i].what = "chunk" THEN s[i].n ELSE 0
        BY <1>1, <4>1
      <4> QED
        BY <2>1, <2>2, <2>3, <4>1, <4>2
    <3>2. CASE i = Len(s) + 1
      BY <2>1, <2>2, <2>3, <3>2 DEF v
    <3>3. Len(s) \in Nat
      OBVIOUS
    <3>4. i <= Len(s) \/ i = Len(s) + 1
      BY <3>3
    <3> QED
      BY <3>1, <3>2, <3>4
  <2> QED
    BY <2>2, <2>3, <2>4, SeqEqual
<1>4. ASSUME s # <<>>
      PROVE  /\ QueueNums(s) # <<>>
             /\ Head(QueueNums(s)) = IF Head(s).what = "chunk" THEN Head(s).n ELSE 0
             /\ QueueNums(Tail(s)) = Tail(QueueNums(s))
  <2>1. /\ Len(s) \in Nat \ {0} /\ Tail(s) \in Seq(Waiting) /\ Len(Tail(s)) = Len(s) - 1
        /\ Head(s) = s[1] /\ \A i \in 1..Len(s) - 1 : Tail(s)[i] = s[i + 1]
    BY <1>4, EmptySeq, HeadTailProperties
  <2>2. QueueNums(s) # <<>> /\ Head(QueueNums(s)) = QueueNums(s)[1]
    BY <1>1, <2>1
  <2>3. /\ Tail(QueueNums(s)) \in Seq(Nat) /\ Len(Tail(QueueNums(s))) = Len(s) - 1
        /\ \A i \in 1..Len(s) - 1 : Tail(QueueNums(s))[i] = QueueNums(s)[i + 1]
    BY <1>1, <2>1, <2>2, HeadTailProperties
  <2>4. QueueNums(Tail(s)) \in Seq(Nat) /\ Len(QueueNums(Tail(s))) = Len(s) - 1
    BY <1>1, <2>1
  <2>7. \A i \in 1..Len(s) - 1 : QueueNums(Tail(s))[i]
            = IF Tail(s)[i].what = "chunk" THEN Tail(s)[i].n ELSE 0
    BY <1>1, <2>1
  <2>5. ASSUME NEW i \in 1..Len(s) - 1
        PROVE  QueueNums(Tail(s))[i] = Tail(QueueNums(s))[i]
    <3>1. i + 1 \in 1..Len(s) /\ i \in 1..Len(Tail(s))
      BY <2>1
    <3> QED
      BY <1>1, <2>1, <2>3, <2>7, <3>1
  <2>6. QueueNums(Tail(s)) = Tail(QueueNums(s))
    BY <2>3, <2>4, <2>5, SeqEqual
  <2> QED
    BY <1>1, <2>1, <2>2, <2>6
<1> QED
  BY <1>1, <1>3, <1>4
\* Every chunk in s has its number.
\* The numbers of emitted chunks are those of the query; no end is among what is emitted.
EventsNumbered(s) == \A i \in 1..Len(s) : s[i].type = "chunk" => s[i].n \in 1..Chunks
EventsOpen(s) == \A i \in 1..Len(s) : s[i].type = "chunk"

\* The next chunk or one end is emitted.
LEMMA EventsOn ==
    ASSUME NEW s \in Seq(Entries), EventsNumbered(s), NEW e \in Entries,
           NEW a \in Nat \ {0}, NEW z \in Nat, Counts(EventNums(s), a, z)
    PROVE  /\ Append(s, e) \in Seq(Entries) /\ Len(Append(s, e)) = Len(s) + 1
           /\ \A i \in 1..Len(s) : Append(s, e)[i] = s[i]
           /\ Append(s, e)[Len(s) + 1] = e
           /\ e.type = "chunk" /\ e.n = z => Counts(EventNums(Append(s, e)), a, z + 1)
           /\ e.type # "chunk" /\ EventsOpen(s) => Counts(EventNums(Append(s, e)), a, z)
<1>1. EventNums(s) \in Seq(Nat) /\ Len(EventNums(s)) = Len(s)
  BY EventsCount
<1>2. EventsOpen(s) => Unended(EventNums(s))
  <2>1. \A i \in 1..Len(s) : EventNums(s)[i] = IF s[i].type = "chunk" THEN s[i].n ELSE 0
    BY EventsCount
  <2> QED
    BY <1>1, <2>1 DEF Unended, EventsOpen, EventsNumbered
<1>3. EventNums(Append(s, e)) = Append(EventNums(s), IF e.type = "chunk" THEN e.n ELSE 0)
  BY EventsCount
<1>4. /\ Counts(Append(EventNums(s), z), a, z + 1)
      /\ Unended(EventNums(s)) => Counts(Append(EventNums(s), 0), a, z)
  BY <1>1, CountsOn
<1>5. /\ Append(s, e) \in Seq(Entries) /\ Len(Append(s, e)) = Len(s) + 1
      /\ \A i \in 1..Len(s) : Append(s, e)[i] = s[i]
      /\ Append(s, e)[Len(s) + 1] = e
  BY AppendProperties
<1> QED
  BY <1>2, <1>3, <1>4, <1>5

\* The first event is dispatched.
LEMMA EventsRest ==
    ASSUME NEW s \in Seq(Entries), EventsNumbered(s), s # <<>>,
           NEW a \in Nat \ {0}, NEW z \in Nat, Counts(EventNums(s), a, z)
    PROVE  /\ Tail(s) \in Seq(Entries) /\ Len(Tail(s)) = Len(s) - 1 /\ Len(s) \in Nat \ {0}
           /\ Head(s) = s[1] /\ Head(s) \in Entries
           /\ \A i \in 1..Len(s) - 1 : Tail(s)[i] = s[i + 1] /\ i + 1 \in 1..Len(s)
           /\ Head(s).type = "chunk" => /\ Head(s).n = a /\ a < z
                                        /\ Counts(EventNums(Tail(s)), a + 1, z)
           /\ Head(s).type # "chunk" => /\ Counts(EventNums(Tail(s)), a, z)
                                        /\ EventsOpen(Tail(s))
<1>1. /\ Tail(s) \in Seq(Entries) /\ Len(Tail(s)) = Len(s) - 1 /\ Len(s) \in Nat \ {0}
      /\ Head(s) = s[1] /\ Head(s) \in Entries
      /\ \A i \in 1..Len(s) - 1 : Tail(s)[i] = s[i + 1] /\ i + 1 \in 1..Len(s)
  BY EmptySeq, HeadTailProperties
<1>2. /\ EventNums(s) \in Seq(Nat) /\ EventNums(s) # <<>>
      /\ Head(EventNums(s)) = IF Head(s).type = "chunk" THEN Head(s).n ELSE 0
      /\ EventNums(Tail(s)) = Tail(EventNums(s))
  BY <1>1, EventsCount
<1>3. Head(s).type = "chunk" => Head(s).n # 0
  BY <1>1 DEF EventsNumbered
<1>4. ASSUME Unended(EventNums(Tail(s)))
      PROVE  EventsOpen(Tail(s))
  <2>1. /\ Len(EventNums(Tail(s))) = Len(Tail(s))
        /\ \A i \in 1..Len(Tail(s)) : EventNums(Tail(s))[i]
               = IF Tail(s)[i].type = "chunk" THEN Tail(s)[i].n ELSE 0
    BY <1>1, EventsCount
  <2> QED
    BY <1>4, <2>1 DEF Unended, EventsOpen
<1>5. /\ Head(EventNums(s)) # 0 => /\ Head(EventNums(s)) = a /\ a < z
                                   /\ Counts(Tail(EventNums(s)), a + 1, z)
      /\ Head(EventNums(s)) = 0 => /\ Counts(Tail(EventNums(s)), a, z)
                                   /\ Unended(Tail(EventNums(s)))
  BY <1>2, CountsRest
<1> QED
  BY <1>1, <1>2, <1>3, <1>4, <1>5

\* The same of what is queued.
\* The same of what is queued.
QueueNumbered(s) == \A i \in 1..Len(s) : s[i].what = "chunk" => s[i].n \in 1..Chunks
QueueOpen(s) == \A i \in 1..Len(s) : s[i].what = "chunk"

\* The next chunk or one end is queued.
LEMMA QueueOn ==
    ASSUME NEW s \in Seq(Waiting), QueueNumbered(s), NEW e \in Waiting,
           NEW a \in Nat \ {0}, NEW z \in Nat, Counts(QueueNums(s), a, z)
    PROVE  /\ Append(s, e) \in Seq(Waiting) /\ Len(Append(s, e)) = Len(s) + 1
           /\ \A i \in 1..Len(s) : Append(s, e)[i] = s[i]
           /\ Append(s, e)[Len(s) + 1] = e
           /\ e.what = "chunk" /\ e.n = z => Counts(QueueNums(Append(s, e)), a, z + 1)
           /\ e.what # "chunk" /\ QueueOpen(s) => Counts(QueueNums(Append(s, e)), a, z)
<1>1. QueueNums(s) \in Seq(Nat) /\ Len(QueueNums(s)) = Len(s)
  BY QueueCounts
<1>2. QueueOpen(s) => Unended(QueueNums(s))
  <2>1. \A i \in 1..Len(s) : QueueNums(s)[i] = IF s[i].what = "chunk" THEN s[i].n ELSE 0
    BY QueueCounts
  <2> QED
    BY <1>1, <2>1 DEF Unended, QueueOpen, QueueNumbered
<1>3. QueueNums(Append(s, e)) = Append(QueueNums(s), IF e.what = "chunk" THEN e.n ELSE 0)
  BY QueueCounts
<1>4. /\ Counts(Append(QueueNums(s), z), a, z + 1)
      /\ Unended(QueueNums(s)) => Counts(Append(QueueNums(s), 0), a, z)
  BY <1>1, CountsOn
<1>5. /\ Append(s, e) \in Seq(Waiting) /\ Len(Append(s, e)) = Len(s) + 1
      /\ \A i \in 1..Len(s) : Append(s, e)[i] = s[i]
      /\ Append(s, e)[Len(s) + 1] = e
  BY AppendProperties
<1> QED
  BY <1>2, <1>3, <1>4, <1>5

\* The head of the queue is served.
LEMMA QueueRest ==
    ASSUME NEW s \in Seq(Waiting), QueueNumbered(s), s # <<>>,
           NEW a \in Nat \ {0}, NEW z \in Nat, Counts(QueueNums(s), a, z)
    PROVE  /\ Tail(s) \in Seq(Waiting) /\ Len(Tail(s)) = Len(s) - 1 /\ Len(s) \in Nat \ {0}
           /\ Head(s) = s[1] /\ Head(s) \in Waiting
           /\ \A i \in 1..Len(s) - 1 : Tail(s)[i] = s[i + 1] /\ i + 1 \in 1..Len(s)
           /\ Head(s).what = "chunk" => /\ Head(s).n = a /\ a < z
                                        /\ Counts(QueueNums(Tail(s)), a + 1, z)
           /\ Head(s).what # "chunk" => /\ Counts(QueueNums(Tail(s)), a, z)
                                        /\ QueueOpen(Tail(s))
<1>1. /\ Tail(s) \in Seq(Waiting) /\ Len(Tail(s)) = Len(s) - 1 /\ Len(s) \in Nat \ {0}
      /\ Head(s) = s[1] /\ Head(s) \in Waiting
      /\ \A i \in 1..Len(s) - 1 : Tail(s)[i] = s[i + 1] /\ i + 1 \in 1..Len(s)
  BY EmptySeq, HeadTailProperties
<1>2. /\ QueueNums(s) \in Seq(Nat) /\ QueueNums(s) # <<>>
      /\ Head(QueueNums(s)) = IF Head(s).what = "chunk" THEN Head(s).n ELSE 0
      /\ QueueNums(Tail(s)) = Tail(QueueNums(s))
  BY <1>1, QueueCounts
<1>3. Head(s).what = "chunk" => Head(s).n # 0
  BY <1>1 DEF QueueNumbered
<1>4. ASSUME Unended(QueueNums(Tail(s)))
      PROVE  QueueOpen(Tail(s))
  <2>1. /\ Len(QueueNums(Tail(s))) = Len(Tail(s))
        /\ \A i \in 1..Len(Tail(s)) : QueueNums(Tail(s))[i]
               = IF Tail(s)[i].what = "chunk" THEN Tail(s)[i].n ELSE 0
    BY <1>1, QueueCounts
  <2> QED
    BY <1>4, <2>1 DEF Unended, QueueOpen
<1>5. /\ Head(QueueNums(s)) # 0 => /\ Head(QueueNums(s)) = a /\ a < z
                                   /\ Counts(Tail(QueueNums(s)), a + 1, z)
      /\ Head(QueueNums(s)) = 0 => /\ Counts(Tail(QueueNums(s)), a, z)
                                   /\ Unended(Tail(QueueNums(s)))
  BY <1>2, CountsRest
<1> QED
  BY <1>1, <1>2, <1>3, <1>4, <1>5

\* When the done of a complete stream is dispatched, every chunk has been.
LEMMA AtTheEnd ==
    ASSUME Types, RunnerOK, Contents, outcome = "done", emitter = "over",
           NEW b \in Places, NEW c \in Places, Counts(EventNums(<<>>), b, c),
           Counts(channel, c, next)
    PROVE  b = Chunks + 1
<1>1. channel = <<>> /\ next = Chunks + 1
  BY DEF RunnerOK
<1>2. EventNums(<<>>) = <<>>
  BY DEF EventNums
<1>3. b \in Nat \ {0} /\ c \in Nat \ {0} /\ next \in Nat
  BY ResultStreamAssumption DEF Places, Types
<1>4. <<>> \in Seq(Nat) /\ Len(<<>>) = 0 /\ Unended(<<>>)
  BY CountsNothing, 0 \in Nat
<1>5. ASSUME NEW x \in Nat \ {0}, NEW y \in Nat, Counts(<<>>, x, y)
      PROVE  y = x
  <2>1. y = x + Len(<<>>)
    BY <1>4, <1>5, CountsLen
  <2> QED
    BY <1>4, <2>1
<1>6. c = b
  BY <1>2, <1>3, <1>5
<1>7. next = c
  BY <1>1, <1>3, <1>5
<1> QED
  BY <1>1, <1>6, <1>7

\* What replays the cache: its chunks without an acknowledgement, and behind them its end.
LEMMA ItemsAre ==
    ASSUME NEW q \in Seq(Numbers), NEW ends \in Seq({"done", "error"})
    PROVE  /\ Items(q, ends) \in Seq(Waiting)
           /\ Len(Items(q, ends)) = Len(q) + Len(ends)
           /\ \A i \in 1..Len(q) :
                  Items(q, ends)[i] = [what |-> "chunk", n |-> q[i], ack |-> FALSE]
           /\ \A i \in 1..Len(ends) : Items(q, ends)[Len(q) + i]
                                          = [what |-> ends[i], n |-> 0, ack |-> FALSE]
<1> DEFINE s == [i \in 1..Len(q) |-> [what |-> "chunk", n |-> q[i], ack |-> FALSE]]
           t == [i \in 1..Len(ends) |-> [what |-> ends[i], n |-> 0, ack |-> FALSE]]
<1>1. Len(q) \in Nat /\ Len(ends) \in Nat
  OBVIOUS
<1>2. /\ s \in Seq(Waiting) /\ Len(s) = Len(q)
      /\ \A i \in 1..Len(q) : s[i] = [what |-> "chunk", n |-> q[i], ack |-> FALSE]
  <2>1. \A i \in 1..Len(q) : q[i] \in Numbers
    BY ElementOfSeq
  <2>2. \A i \in 1..Len(q) : [what |-> "chunk", n |-> q[i], ack |-> FALSE] \in Waiting
    BY <2>1 DEF Waiting
  <2> QED
    BY <1>1, <2>2
<1>3. /\ t \in Seq(Waiting) /\ Len(t) = Len(ends)
      /\ \A i \in 1..Len(ends) : t[i] = [what |-> ends[i], n |-> 0, ack |-> FALSE]
  <2>1. \A i \in 1..Len(ends) : ends[i] \in {"done", "error"}
    BY ElementOfSeq
  <2>2. \A i \in 1..Len(ends) : [what |-> ends[i], n |-> 0, ack |-> FALSE] \in Waiting
    BY <2>1, ResultStreamAssumption DEF Waiting, Numbers
  <2> QED
    BY <1>1, <2>2
<1>4. Items(q, ends) = s \o t
  BY DEF Items
<1> HIDE DEF s, t
<1>5. /\ s \o t \in Seq(Waiting) /\ Len(s \o t) = Len(s) + Len(t)
      /\ \A i \in 1..Len(s) + Len(t) :
             (s \o t)[i] = IF i <= Len(s) THEN s[i] ELSE t[i - Len(s)]
  <2>1. s \in Seq(Waiting) /\ t \in Seq(Waiting)
    BY <1>2, <1>3
  <2>2. s \o t \in Seq(Waiting)
    BY <2>1, ConcatProperties
  <2>3. Len(s \o t) = Len(s) + Len(t)
    BY <2>1, ConcatProperties
  <2>4. \A i \in 1..Len(s) + Len(t) :
            (s \o t)[i] = IF i <= Len(s) THEN s[i] ELSE t[i - Len(s)]
    BY <2>1, ConcatProperties
  <2> QED
    BY <2>2, <2>3, <2>4
<1>6. ASSUME NEW i \in 1..Len(q)
      PROVE  (s \o t)[i] = s[i]
  BY <1>1, <1>2, <1>3, <1>5
<1>7. ASSUME NEW i \in 1..Len(ends)
      PROVE  (s \o t)[Len(q) + i] = t[i]
  <2>1. /\ Len(q) + i \in 1..Len(s) + Len(t)
        /\ ~ (Len(q) + i <= Len(s)) /\ Len(q) + i - Len(s) = i
    BY <1>1, <1>2, <1>3
  <2>2. (s \o t)[Len(q) + i] = t[Len(q) + i - Len(s)]
    BY <1>5, <2>1
  <2> QED
    BY <2>1, <2>2
<1> QED
  BY <1>1, <1>2, <1>3, <1>4, <1>5, <1>6, <1>7

\* The replayed items count like the cached chunks, their end apart.
LEMMA ItemsCount ==
    ASSUME NEW q \in Seq(Numbers), NEW ends \in Seq({"done", "error"}),
           Len(ends) \in {0, 1},
           NEW a \in Nat \ {0}, NEW z \in Nat, Counts(q, a, z), Unended(q)
    PROVE  Counts(QueueNums(Items(q, ends)), a, z)
<1> DEFINE s == Items(q, ends)
<1>1. /\ s \in Seq(Waiting) /\ Len(s) = Len(q) + Len(ends)
      /\ \A i \in 1..Len(q) : s[i] = [what |-> "chunk", n |-> q[i], ack |-> FALSE]
      /\ \A i \in 1..Len(ends) : s[Len(q) + i] = [what |-> ends[i], n |-> 0, ack |-> FALSE]
  BY ItemsAre
<1>2. Len(q) \in Nat /\ Len(ends) \in Nat /\ q \in Seq(Nat)
  BY ResultStreamAssumption DEF Numbers
<1>3. z = a + Len(q) /\ \A i \in 1..Len(q) : q[i] = a + i - 1
  BY <1>2, CountsLen
<1>r. Len(s) = Len(q) + Len(ends)
  BY <1>1
<1>c. ASSUME NEW i \in 1..Len(q)
      PROVE  s[i].what = "chunk" /\ s[i].n = q[i]
  <2>1. s[i] = [what |-> "chunk", n |-> q[i], ack |-> FALSE]
    BY <1>1
  <2> QED
    BY <2>1
<1> HIDE DEF s
<1>e. Len(ends) = 0 \/ Len(ends) = 1
  <2>1. Len(ends) \in {0, 1}
    OBVIOUS
  <2> QED
    BY <2>1
<1>0. Len(s) \in Nat /\ Len(s) = Len(q) + Len(ends) /\ (Len(ends) = 0 \/ Len(ends) = 1)
  BY <1>e, <1>r, <1>2
<1>4. [what |-> "chunk", n |-> 0, ack |-> FALSE] \in Waiting
  BY ResultStreamAssumption DEF Waiting, Numbers
<1>5. /\ QueueNums(s) \in Seq(Nat) /\ Len(QueueNums(s)) = Len(s)
      /\ \A i \in 1..Len(s) : QueueNums(s)[i] = IF s[i].what = "chunk" THEN s[i].n ELSE 0
  BY <1>1, <1>4, QueueCounts
<1>6. ASSUME NEW i \in 1..Len(q)
      PROVE  QueueNums(s)[i] = a + i - 1
  <2>1. i \in 1..Len(s)
    BY <1>0, <1>2
  <2>2. s[i].what = "chunk" /\ s[i].n = q[i]
    BY <1>c
  <2> QED
    BY <1>3, <1>5, <2>1, <2>2
<1>7. ASSUME Len(ends) = 1
      PROVE  QueueNums(s)[Len(q) + 1] = 0
  <2>1. /\ Len(q) + 1 \in 1..Len(s) /\ 1 \in 1..Len(ends)
    BY <1>0, <1>2, <1>7
  <2>2. ends[1] \in {"done", "error"}
    BY <2>1, ElementOfSeq
  <2>3. s[Len(q) + 1] = [what |-> ends[1], n |-> 0, ack |-> FALSE]
    BY <1>1, <2>1
  <2> QED
    BY <1>5, <2>1, <2>2, <2>3
<1>8. CountsBut(QueueNums(s), a, z, Len(q) + 1)
  <2>1. z = a + Len(QueueNums(s)) - IF Len(q) + 1 <= Len(QueueNums(s)) THEN 1 ELSE 0
    <3>1. Len(QueueNums(s)) = Len(q) + Len(ends) /\ a \in Nat /\ z = a + Len(q)
      BY <1>0, <1>3, <1>5
    <3>2. CASE Len(ends) = 0
      BY <1>2, <3>1, <3>2
    <3>3. CASE Len(ends) = 1
      BY <1>2, <3>1, <3>3
    <3> QED
      BY <1>0, <3>2, <3>3
  <2>2. ASSUME NEW i \in 1..Len(QueueNums(s))
        PROVE  QueueNums(s)[i] = IF i < Len(q) + 1 THEN a + i - 1
                                 ELSE IF i = Len(q) + 1 THEN 0 ELSE a + i - 2
    <3>1. CASE i \in 1..Len(q)
      BY <1>2, <1>6, <3>1
    <3>2. CASE i = Len(q) + 1 /\ Len(ends) = 1
      BY <1>2, <1>7, <3>2
    <3>3. i \in 1..Len(q) \/ (i = Len(q) + 1 /\ Len(ends) = 1)
      <4>1. Len(QueueNums(s)) = Len(q) + Len(ends) /\ Len(q) \in Nat
        BY <1>0, <1>2, <1>5
      <4>2. CASE Len(ends) = 0
        <5>1. Len(QueueNums(s)) = Len(q)
          BY <4>1, <4>2
        <5> QED
          BY <5>1
      <4>3. CASE Len(ends) = 1
        <5>1. Len(QueueNums(s)) = Len(q) + 1
          BY <4>1, <4>3
        <5> QED
          BY <4>1, <4>3, <5>1
      <4> QED
        BY <1>e, <4>2, <4>3
    <3> QED
      BY <3>1, <3>2, <3>3
  <2> QED
    BY <2>1, <2>2 DEF CountsBut
<1>9. Len(q) + 1 \in 1..Len(QueueNums(s)) + 1
  BY <1>0, <1>2, <1>5
<1>10. Counts(QueueNums(s), a, z)
  BY <1>8, <1>9 DEF Counts
<1> QED
  BY <1>10 DEF s

-----------------------------------------------------------------------------
\* The steps

\* The runner fetches, sends and ends.
LEMMA RunnerStep ==
    ASSUME IInv,
           \/ Fill \/ TakeCredit \/ Send \/ Finish \/ SendFault \/ Join
           \/ Fail \/ EndCancelled \/ Cancel \/ Abort
    PROVE  IInv'
<1>0. /\ Types /\ RunnerOK /\ BusOK /\ Contents /\ Numbered /\ EndsAreTrue
      /\ DoneIsLast /\ ToldAll /\ Flows
  BY DEF IInv
<1>p. PICK g, f, b, c \in Places, a \in 0..Chunks :
         Handed(g, f, b) /\ Emitted(b, c) /\ Paid(a) /\ Owed(b, a)
  BY <1>0 DEF Flows
<1>s. /\ channel \in Seq(Nat) /\ got \in Seq(Nat) /\ cache.chunks \in Seq(Nat)
      /\ Places \subseteq Nat \ {0} /\ next \in Nat
      /\ g \in Nat \ {0} /\ f \in Nat \ {0} /\ b \in Nat \ {0} /\ c \in Nat \ {0}
  BY <1>0, ResultStreamAssumption DEF Contents, Types, Numbers, Places
<1>1. CASE Fill
  <2>1. (Types /\ BusOK)'
    BY <1>0, <1>1 DEF Types, BusOK, Fill, backend, frontend, acks
  <2>2. RunnerOK'
    BY <1>0, <1>1 DEF RunnerOK, Fill, backend, frontend, acks
  <2>3. Contents'
    BY <1>0, <1>1 DEF Contents, Entries, Waiting, Fill, backend, frontend, acks
  <2>4. Numbered'
    BY <1>0, <1>1 DEF Numbered, Fill, backend, frontend, acks
  <2>5. EndsAreTrue'
    BY <1>0, <1>1 DEF EndsAreTrue, Truth, Fill, backend, frontend, acks
  <2>6. DoneIsLast'
    BY <1>0, <1>1 DEF DoneIsLast, Fill, backend, frontend, acks
  <2>7. ToldAll'
    BY <1>0, <1>1 DEF ToldAll, Fill, backend, frontend, acks
  <2>8. Handed(g, f, b)'
    BY <1>p, <1>1 DEF Handed, Fill, backend, frontend, acks
  <2>9. Emitted(b, c)'
    BY <1>p, <1>1 DEF Emitted, Fill, backend, frontend, acks
  <2>10. Paid(a)'
    BY <1>0, <1>p, <1>1, ResultStreamAssumption DEF Paid, Types, Fill, backend, frontend,
       acks
  <2>11. Owed(b, a)'
    BY <1>0, <1>p, <1>1 DEF Owed, Fill, backend, frontend, acks
  <2> QED
    BY <1>p, <2>1, <2>2, <2>3, <2>4, <2>5, <2>6, <2>7, <2>8, <2>9, <2>10, <2>11 DEF IInv,
       Flows
<1>2. CASE TakeCredit
  <2>1. (Types /\ BusOK)'
    BY <1>0, <1>2 DEF Types, BusOK, TakeCredit, backend, frontend, acks
  <2>2. RunnerOK'
    BY <1>0, <1>2 DEF RunnerOK, TakeCredit, backend, frontend, acks
  <2>3. Contents'
    BY <1>0, <1>2 DEF Contents, Entries, Waiting, TakeCredit, backend, frontend, acks
  <2>4. Numbered'
    BY <1>0, <1>2 DEF Numbered, TakeCredit, backend, frontend, acks
  <2>5. EndsAreTrue'
    BY <1>0, <1>2 DEF EndsAreTrue, Truth, TakeCredit, backend, frontend, acks
  <2>6. DoneIsLast'
    BY <1>0, <1>2 DEF DoneIsLast, TakeCredit, backend, frontend, acks
  <2>7. ToldAll'
    BY <1>0, <1>2 DEF ToldAll, TakeCredit, backend, frontend, acks
  <2>8. Handed(g, f, b)'
    BY <1>p, <1>2 DEF Handed, TakeCredit, backend, frontend, acks
  <2>9. Emitted(b, c)'
    BY <1>p, <1>2 DEF Emitted, TakeCredit, backend, frontend, acks
  <2>10. Paid(a)'
    BY <1>0, <1>p, <1>2, ResultStreamAssumption DEF Paid, Types, TakeCredit, backend,
       frontend, acks
  <2>11. Owed(b, a)'
    BY <1>0, <1>p, <1>2 DEF Owed, TakeCredit, backend, frontend, acks
  <2> QED
    BY <1>p, <2>1, <2>2, <2>3, <2>4, <2>5, <2>6, <2>7, <2>8, <2>9, <2>10, <2>11 DEF IInv,
       Flows
<1>3. CASE Send
  <2>a. outcome = "none" /\ Unended(channel)
    BY <1>0, <1>3 DEF RunnerOK, Send
  <2>b. emitter = "running" => /\ channel' = Append(channel, next) /\ next' = next + 1
                               /\ Len(channel) < Capacity
                               /\ UNCHANGED outcome /\ run' = "fetching"
    BY <1>3 DEF Send
  <2>c. emitter # "running" => /\ UNCHANGED <<channel, next>>
                               /\ run' = "draining" /\ outcome' = "failed"
    BY <1>3 DEF Send
  <2>d. ASSUME emitter = "running"
        PROVE  /\ Unended(Append(channel, next))
               /\ Counts(Append(channel, next), c, next + 1)
               /\ Append(channel, next) \in Seq(Numbers)
               /\ Len(Append(channel, next)) = Len(channel) + 1
    <3>1. Counts(channel, c, next)
      BY <1>p, <2>d DEF Emitted
    <3>2. next \in Numbers /\ channel \in Seq(Numbers)
      BY <1>0, ResultStreamAssumption DEF Types, Contents, Places, Numbers
    <3> QED
      BY <1>s, <2>a, <3>1, <3>2, CountsOn, AppendProperties
  <2>1. (Types /\ BusOK)'
    BY <1>0, <1>p, <1>3, <2>a, <2>b, <2>c, <2>d, ResultStreamAssumption DEF Types, BusOK,
       Places, RunnerOK, Send, backend, frontend, acks
  <2>2. RunnerOK'
    BY <1>0, <1>3, <2>a, <2>b, <2>c, <2>d DEF RunnerOK, Send, backend, frontend, acks
  <2>3. Contents'
    <3>1. channel' \in Seq(Numbers) /\ Len(channel') <= Capacity
      <4>1. CASE emitter = "running"
        <5>1. channel' = Append(channel, next) /\ Len(channel) < Capacity
          BY <2>b, <4>1
        <5>2. /\ Append(channel, next) \in Seq(Numbers)
              /\ Len(Append(channel, next)) = Len(channel) + 1
          BY <2>d, <4>1
        <5>3. Len(channel) \in Nat
          BY <1>s
        <5> QED
          BY <5>1, <5>2, <5>3, ResultStreamAssumption
      <4>2. CASE emitter # "running"
        BY <1>0, <2>c, <4>2 DEF Contents
      <4> QED
        BY <4>1, <4>2
    <3>2. UNCHANGED <<events, queue, cache, got, heard>>
      BY <1>3 DEF Send, frontend
    <3> QED
      BY <1>0, <3>1, <3>2 DEF Contents
  <2>4. Numbered'
    BY <1>0, <1>3, <2>a, <2>b, <2>c, <2>d DEF Numbered, Send, backend, frontend, acks
  <2>5. EndsAreTrue'
    BY <1>0, <1>3, <2>a, <2>b, <2>c, <2>d DEF EndsAreTrue, Truth, Send, backend, frontend,
       acks
  <2>6. DoneIsLast'
    BY <1>0, <1>3, <2>a, <2>b, <2>c, <2>d DEF DoneIsLast, Send, backend, frontend, acks
  <2>7. ToldAll'
    BY <1>0, <1>3, <2>a, <2>b, <2>c, <2>d DEF ToldAll, Send, backend, frontend, acks
  <2>8. Handed(g, f, b)'
    BY <1>p, <1>3, <2>a, <2>b, <2>c, <2>d DEF Handed, Send, backend, frontend, acks
  <2>9. Emitted(b, c)'
    <3>1. UNCHANGED <<events, emitter>>
      BY <1>3 DEF Send
    <3>2. CASE emitter = "running"
      <4>1. channel' = Append(channel, next) /\ next' = next + 1
        BY <2>b, <3>2
      <4>2. Counts(channel', c, next')
        BY <2>d, <3>2, <4>1
      <4> QED
        BY <1>p, <1>s, <3>1, <4>1, <4>2 DEF Emitted
    <3>3. CASE emitter # "running"
      BY <1>p, <2>c, <3>1, <3>3 DEF Emitted
    <3> QED
      BY <3>2, <3>3
  <2>10. Paid(a)'
    BY <1>0, <1>p, <1>3, <2>a, <2>b, <2>c, <2>d, ResultStreamAssumption DEF Paid, Types,
       Send, backend, frontend, acks
  <2>11. Owed(b, a)'
    BY <1>0, <1>p, <1>3, <2>a, <2>b, <2>c, <2>d DEF Owed, Send, backend, frontend, acks
  <2> QED
    BY <1>p, <2>a, <2>b, <2>c, <2>d, <2>1, <2>2, <2>3, <2>4, <2>5, <2>6, <2>7, <2>8, <2>9,
       <2>10, <2>11 DEF IInv, Flows
<1>4. CASE Finish
  <2>a. /\ ~ cache.done /\ \A i \in 1..Len(queue) : queue[i].what # "done"
        /\ \A i \in 1..Len(events) : events[i].type = "chunk"
    BY <1>0, <1>4 DEF RunnerOK, EndsAreTrue, Truth, Finish
  <2>1. (Types /\ BusOK)'
    BY <1>0, <1>4, <2>a DEF Types, BusOK, Finish, backend, frontend, acks
  <2>2. RunnerOK'
    BY <1>0, <1>p, <1>4, <2>a, ResultStreamAssumption DEF RunnerOK, Places, Types, BusOK,
       Finish, backend, frontend, acks
  <2>3. Contents'
    BY <1>0, <1>4, <2>a DEF Contents, Entries, Waiting, Finish, backend, frontend, acks
  <2>4. Numbered'
    BY <1>0, <1>4, <2>a DEF Numbered, Finish, backend, frontend, acks
  <2>5. EndsAreTrue'
    BY <1>0, <1>p, <1>4, <2>a, ResultStreamAssumption DEF EndsAreTrue, Truth, RunnerOK,
       Types, BusOK, Finish, backend, frontend, acks
  <2>6. DoneIsLast'
    BY <1>0, <1>4, <2>a DEF DoneIsLast, Finish, backend, frontend, acks
  <2>7. ToldAll'
    BY <1>0, <1>p, <1>4, <2>a, ResultStreamAssumption DEF ToldAll, RunnerOK, Types, BusOK,
       Finish, backend, frontend, acks
  <2>8. Handed(g, f, b)'
    BY <1>p, <1>4, <2>a DEF Handed, Finish, backend, frontend, acks
  <2>9. Emitted(b, c)'
    BY <1>p, <1>4, <2>a DEF Emitted, Finish, backend, frontend, acks
  <2>10. Paid(a)'
    BY <1>0, <1>p, <1>4, <2>a, ResultStreamAssumption DEF Paid, RunnerOK, Types, Finish,
       backend, frontend, acks
  <2>11. Owed(b, a)'
    BY <1>0, <1>p, <1>4, <2>a DEF Owed, Finish, backend, frontend, acks
  <2> QED
    BY <1>p, <2>a, <2>1, <2>2, <2>3, <2>4, <2>5, <2>6, <2>7, <2>8, <2>9, <2>10, <2>11
       DEF IInv, Flows
<1>5. CASE SendFault
  <2>a. Unended(channel) /\ run = "failing" /\ run' = "draining"
    BY <1>0, <1>5 DEF RunnerOK, SendFault
  <2>b. emitter = "running" => channel' = Append(channel, 0) /\ Len(channel) < Capacity
    BY <1>5 DEF SendFault, Fault
  <2>c. emitter # "running" => UNCHANGED channel
    BY <1>5 DEF SendFault
  <2>d. ASSUME emitter = "running"
        PROVE  /\ Counts(Append(channel, 0), c, next)
               /\ Append(channel, 0) \in Seq(Numbers)
               /\ Len(Append(channel, 0)) = Len(channel) + 1
    <3>1. Counts(channel, c, next)
      BY <1>p, <2>d DEF Emitted
    <3>2. 0 \in Numbers /\ channel \in Seq(Numbers)
      BY <1>0, ResultStreamAssumption DEF Contents, Numbers
    <3> QED
      BY <1>s, <2>a, <3>1, <3>2, CountsOn, AppendProperties
  <2>1. (Types /\ BusOK)'
    BY <1>0, <1>5, <2>a, <2>b, <2>c, <2>d DEF Types, BusOK, SendFault, backend, frontend,
       acks
  <2>2. RunnerOK'
    BY <1>0, <1>5, <2>a, <2>b, <2>c, <2>d DEF RunnerOK, SendFault, backend, frontend, acks
  <2>3. Contents'
    <3>1. channel' \in Seq(Numbers) /\ Len(channel') <= Capacity
      <4>1. CASE emitter = "running"
        <5>1. channel' = Append(channel, 0) /\ Len(channel) < Capacity
          BY <2>b, <4>1
        <5>2. /\ Append(channel, 0) \in Seq(Numbers)
              /\ Len(Append(channel, 0)) = Len(channel) + 1
          BY <2>d, <4>1
        <5>3. Len(channel) \in Nat
          BY <1>s
        <5> QED
          BY <5>1, <5>2, <5>3, ResultStreamAssumption
      <4>2. CASE emitter # "running"
        BY <1>0, <2>c, <4>2 DEF Contents
      <4> QED
        BY <4>1, <4>2
    <3>2. UNCHANGED <<events, queue, cache, got, heard>>
      BY <1>5 DEF SendFault, frontend
    <3> QED
      BY <1>0, <3>1, <3>2 DEF Contents
  <2>4. Numbered'
    BY <1>0, <1>5, <2>a, <2>b, <2>c, <2>d DEF Numbered, SendFault, backend, frontend, acks
  <2>5. EndsAreTrue'
    BY <1>0, <1>5, <2>a, <2>b, <2>c, <2>d DEF EndsAreTrue, Truth, SendFault, backend,
       frontend, acks
  <2>6. DoneIsLast'
    BY <1>0, <1>5, <2>a, <2>b, <2>c, <2>d DEF DoneIsLast, SendFault, backend, frontend, acks
  <2>7. ToldAll'
    BY <1>0, <1>5, <2>a, <2>b, <2>c, <2>d DEF ToldAll, SendFault, backend, frontend, acks
  <2>8. Handed(g, f, b)'
    BY <1>p, <1>5, <2>a, <2>b, <2>c, <2>d DEF Handed, SendFault, backend, frontend, acks
  <2>9. Emitted(b, c)'
    BY <1>p, <1>5, <2>a, <2>b, <2>c, <2>d DEF Emitted, SendFault, backend, frontend, acks
  <2>10. Paid(a)'
    BY <1>0, <1>p, <1>5, <2>a, <2>b, <2>c, <2>d, ResultStreamAssumption DEF Paid, Types,
       SendFault, backend, frontend, acks
  <2>11. Owed(b, a)'
    BY <1>0, <1>p, <1>5, <2>a, <2>b, <2>c, <2>d DEF Owed, SendFault, backend, frontend, acks
  <2> QED
    BY <1>p, <2>a, <2>b, <2>c, <2>d, <2>1, <2>2, <2>3, <2>4, <2>5, <2>6, <2>7, <2>8, <2>9,
       <2>10, <2>11 DEF IInv, Flows
<1>6. CASE Join
  <2>a. /\ outcome = "done" => events' = Append(events, [type |-> "done", n |-> next])
        /\ outcome # "done" => UNCHANGED events
        /\ run = "draining" /\ run' = "over" /\ emitter # "running"
    BY <1>6 DEF Join, Emit
  <2>b. ASSUME outcome = "done"
        PROVE  LET e == [type |-> "done", n |-> next] IN
               /\ EventsOpen(events) /\ QueueOpen(queue) /\ ~ cache.done /\ ~ cache.error
               /\ Append(events, e) \in Seq(Entries)
               /\ Len(Append(events, e)) = Len(events) + 1
               /\ \A i \in 1..Len(events) : Append(events, e)[i] = events[i]
               /\ Append(events, e)[Len(events) + 1] = e
               /\ Counts(EventNums(Append(events, e)), b, c)
    <3>1. EventsOpen(events) /\ QueueOpen(queue) /\ ~ cache.done /\ ~ cache.error
      BY <1>0, <1>6, <2>b DEF RunnerOK, EndsAreTrue, Truth, EventsOpen, QueueOpen, Join
    <3>2. [type |-> "done", n |-> next] \in Entries
      BY <1>0, ResultStreamAssumption DEF Types, Entries, Places, Numbers
    <3>3. /\ Counts(EventNums(events), b, c)
          /\ EventsNumbered(events) /\ events \in Seq(Entries)
      BY <1>0, <1>p DEF Emitted, Numbered, Contents, EventsNumbered
    <3> QED
      BY <1>s, <3>1, <3>2, <3>3, EventsOn
  <2>c. Len(events) \in Nat
    BY <1>0 DEF Contents
  <2>1. (Types /\ BusOK)'
    BY <1>0, <1>6, <2>a, <2>b, <2>c DEF Types, BusOK, Join, Emit, backend, frontend, acks
  <2>2. RunnerOK'
    BY <1>0, <1>6, <2>a, <2>b, <2>c DEF RunnerOK, Join, Emit, backend, frontend, acks
  <2>3. Contents'
    BY <1>0, <1>6, <2>a, <2>b, <2>c DEF Contents, Entries, Waiting, Join, Emit, backend,
       frontend, acks
  <2>4. Numbered'
    <3>1. UNCHANGED queue
      BY <1>6 DEF Join, frontend
    <3>2. CASE outcome = "done"
      <4>1. events' = Append(events, [type |-> "done", n |-> next])
        BY <2>a, <3>2
      <4>2. ASSUME NEW i \in 1..Len(events'), events'[i].type = "chunk"
            PROVE  i \in 1..Len(events) /\ events'[i] = events[i]
        <5>1. Len(events') = Len(events) + 1 /\ events'[Len(events) + 1].type = "done"
          BY <2>b, <3>2, <4>1
        <5>2. i # Len(events) + 1
          BY <4>2, <5>1
        <5>3. i \in 1..Len(events)
          BY <2>c, <5>1, <5>2
        <5> QED
          BY <2>b, <3>2, <4>1, <5>3
      <4> QED
        BY <1>0, <3>1, <4>2 DEF Numbered
    <3>3. CASE outcome # "done"
      BY <1>0, <2>a, <3>1, <3>3 DEF Numbered
    <3> QED
      BY <3>2, <3>3
  <2>5. EndsAreTrue'
    <3>1. \A t : Truth(t) => Truth(t)'
      BY <1>0, <1>6 DEF Truth, Join
    <3>2. UNCHANGED <<queue, heard, cache>>
      BY <1>6 DEF Join, frontend
    <3>3. CASE outcome = "done"
      <4>1. Truth("done")'
        BY <1>6, <3>3 DEF Truth, Join
      <4> QED
        BY <1>0, <2>a, <2>b, <2>c, <3>1, <3>2, <3>3, <4>1 DEF EndsAreTrue, QueueOpen,
           EventsOpen
    <3>4. CASE outcome # "done"
      BY <1>0, <2>a, <3>1, <3>2, <3>4 DEF EndsAreTrue
    <3> QED
      BY <3>3, <3>4
  <2>6. DoneIsLast'
    <3>1. UNCHANGED <<queue, cache, outcome>>
      BY <1>6 DEF Join, frontend
    <3>2. CASE outcome = "done"
      BY <2>a, <2>b, <2>c, <3>1, <3>2 DEF DoneIsLast, QueueOpen, EventsOpen
    <3>3. CASE outcome # "done"
      BY <3>1, <3>3 DEF DoneIsLast
    <3> QED
      BY <3>2, <3>3
  <2>7. ToldAll'
    BY <1>0, <1>6, <2>a, <2>b, <2>c DEF ToldAll, Join, Emit, backend, frontend, acks
  <2>8. Handed(g, f, b)'
    BY <1>p, <1>6, <2>a, <2>b, <2>c DEF Handed, Join, Emit, backend, frontend, acks
  <2>9. Emitted(b, c)'
    BY <1>p, <1>6, <2>a, <2>b, <2>c DEF Emitted, Join, Emit, backend, frontend, acks
  <2>10. Paid(a)'
    BY <1>0, <1>p, <1>6, <2>a, <2>b, <2>c, ResultStreamAssumption DEF Paid, Types, Join,
       Emit, backend, frontend, acks
  <2>11. Owed(b, a)'
    BY <1>0, <1>p, <1>6, <2>a, <2>b, <2>c DEF Owed, Join, Emit, backend, frontend, acks
  <2> QED
    BY <1>p, <2>a, <2>b, <2>c, <2>1, <2>2, <2>3, <2>4, <2>5, <2>6, <2>7, <2>8, <2>9, <2>10,
       <2>11 DEF IInv, Flows
<1>7. CASE Fail
  <2>1. (Types /\ BusOK)'
    BY <1>0, <1>7 DEF Types, BusOK, Fail, backend, frontend, acks
  <2>2. RunnerOK'
    BY <1>0, <1>7 DEF RunnerOK, Fail, backend, frontend, acks
  <2>3. Contents'
    BY <1>0, <1>7 DEF Contents, Entries, Waiting, Fail, backend, frontend, acks
  <2>4. Numbered'
    BY <1>0, <1>7 DEF Numbered, Fail, backend, frontend, acks
  <2>5. EndsAreTrue'
    BY <1>0, <1>p, <1>7, ResultStreamAssumption DEF EndsAreTrue, Truth, RunnerOK, Types,
       BusOK, Fail, backend, frontend, acks
  <2>6. DoneIsLast'
    BY <1>0, <1>7 DEF DoneIsLast, Fail, backend, frontend, acks
  <2>7. ToldAll'
    BY <1>0, <1>p, <1>7, ResultStreamAssumption DEF ToldAll, RunnerOK, Types, BusOK, Fail,
       backend, frontend, acks
  <2>8. Handed(g, f, b)'
    BY <1>p, <1>7 DEF Handed, Fail, backend, frontend, acks
  <2>9. Emitted(b, c)'
    BY <1>p, <1>7 DEF Emitted, Fail, backend, frontend, acks
  <2>10. Paid(a)'
    BY <1>0, <1>p, <1>7, ResultStreamAssumption DEF Paid, Types, Fail, backend, frontend,
       acks
  <2>11. Owed(b, a)'
    BY <1>0, <1>p, <1>7 DEF Owed, Fail, backend, frontend, acks
  <2> QED
    BY <1>p, <2>1, <2>2, <2>3, <2>4, <2>5, <2>6, <2>7, <2>8, <2>9, <2>10, <2>11 DEF IInv,
       Flows
<1>8. CASE EndCancelled
  <2>a. /\ events' = Append(events, [type |-> "done", n |-> next])
        /\ run = "fetching" /\ run' = "draining" /\ outcome = "none" /\ outcome' = "cut"
    BY <1>0, <1>8 DEF EndCancelled, Emit, RunnerOK
  <2>b. ASSUME TRUE
        PROVE  LET e == [type |-> "done", n |-> next] IN
               /\ EventsOpen(events) /\ QueueOpen(queue) /\ ~ cache.done /\ ~ cache.error
               /\ Append(events, e) \in Seq(Entries)
               /\ Len(Append(events, e)) = Len(events) + 1
               /\ \A i \in 1..Len(events) : Append(events, e)[i] = events[i]
               /\ Append(events, e)[Len(events) + 1] = e
               /\ Counts(EventNums(Append(events, e)), b, c)
    <3>1. EventsOpen(events) /\ QueueOpen(queue) /\ ~ cache.done /\ ~ cache.error
      BY <1>0, <1>8, <2>b DEF RunnerOK, EndsAreTrue, Truth, EventsOpen, QueueOpen,
         EndCancelled
    <3>2. [type |-> "done", n |-> next] \in Entries
      BY <1>0, ResultStreamAssumption DEF Types, Entries, Places, Numbers
    <3>3. /\ Counts(EventNums(events), b, c)
          /\ EventsNumbered(events) /\ events \in Seq(Entries)
      BY <1>0, <1>p DEF Emitted, Numbered, Contents, EventsNumbered
    <3> QED
      BY <1>s, <3>1, <3>2, <3>3, EventsOn
  <2>c. Len(events) \in Nat
    BY <1>0 DEF Contents
  <2>1. (Types /\ BusOK)'
    BY <1>0, <1>8, <2>a, <2>b, <2>c DEF Types, BusOK, EndCancelled, Emit, backend,
       frontend, acks
  <2>2. RunnerOK'
    BY <1>0, <1>8, <2>a, <2>b, <2>c DEF RunnerOK, EndCancelled, Emit, backend, frontend,
       acks
  <2>3. Contents'
    BY <1>0, <1>8, <2>a, <2>b, <2>c DEF Contents, Entries, Waiting, EndCancelled, Emit,
       backend, frontend, acks
  <2>4. Numbered'
    BY <1>0, <1>8, <2>a, <2>b, <2>c DEF Numbered, EndCancelled, Emit, backend, frontend,
       acks
  <2>5. EndsAreTrue'
    <3>1. Truth("done")' /\ \A t : ~ Truth(t)
      BY <2>a, <1>0 DEF Truth, RunnerOK
    <3>2. UNCHANGED <<queue, heard, cache>>
      BY <1>8 DEF EndCancelled, frontend
    <3> QED
      BY <1>0, <2>a, <2>b, <2>c, <3>1, <3>2 DEF EndsAreTrue, QueueOpen, EventsOpen
  <2>6. DoneIsLast'
    BY <1>0, <1>8, <2>a, <2>b, <2>c DEF DoneIsLast, EndCancelled, Emit, backend, frontend,
       acks
  <2>7. ToldAll'
    BY <1>0, <1>8, <2>a, <2>b, <2>c DEF ToldAll, EndCancelled, Emit, backend, frontend, acks
  <2>8. Handed(g, f, b)'
    BY <1>p, <1>8, <2>a, <2>b, <2>c DEF Handed, EndCancelled, Emit, backend, frontend, acks
  <2>9. Emitted(b, c)'
    BY <1>p, <1>8, <2>a, <2>b, <2>c DEF Emitted, EndCancelled, Emit, backend, frontend, acks
  <2>10. Paid(a)'
    BY <1>0, <1>p, <1>8, <2>a, <2>b, <2>c, ResultStreamAssumption DEF Paid, Types,
       EndCancelled, Emit, backend, frontend, acks
  <2>11. Owed(b, a)'
    BY <1>0, <1>p, <1>8, <2>a, <2>b, <2>c DEF Owed, EndCancelled, Emit, backend, frontend,
       acks
  <2> QED
    BY <1>p, <2>a, <2>b, <2>c, <2>1, <2>2, <2>3, <2>4, <2>5, <2>6, <2>7, <2>8, <2>9, <2>10,
       <2>11 DEF IInv, Flows
<1>9. CASE Cancel
  <2>1. (Types /\ BusOK)'
    BY <1>0, <1>9 DEF Types, BusOK, Cancel, backend, frontend, acks
  <2>2. RunnerOK'
    BY <1>0, <1>9 DEF RunnerOK, Cancel, backend, frontend, acks
  <2>3. Contents'
    BY <1>0, <1>9 DEF Contents, Entries, Waiting, Cancel, backend, frontend, acks
  <2>4. Numbered'
    BY <1>0, <1>9 DEF Numbered, Cancel, backend, frontend, acks
  <2>5. EndsAreTrue'
    BY <1>0, <1>9 DEF EndsAreTrue, Truth, Cancel, backend, frontend, acks
  <2>6. DoneIsLast'
    BY <1>0, <1>9 DEF DoneIsLast, Cancel, backend, frontend, acks
  <2>7. ToldAll'
    BY <1>0, <1>9 DEF ToldAll, Cancel, backend, frontend, acks
  <2>8. Handed(g, f, b)'
    BY <1>p, <1>9 DEF Handed, Cancel, backend, frontend, acks
  <2>9. Emitted(b, c)'
    BY <1>p, <1>9 DEF Emitted, Cancel, backend, frontend, acks
  <2>10. Paid(a)'
    BY <1>0, <1>p, <1>9, ResultStreamAssumption DEF Paid, Types, Cancel, backend, frontend,
       acks
  <2>11. Owed(b, a)'
    BY <1>0, <1>p, <1>9 DEF Owed, Cancel, backend, frontend, acks
  <2> QED
    BY <1>p, <2>1, <2>2, <2>3, <2>4, <2>5, <2>6, <2>7, <2>8, <2>9, <2>10, <2>11 DEF IInv,
       Flows
<1>10. CASE Abort
  <2>1. (Types /\ BusOK)'
    BY <1>0, <1>p, <1>10, ResultStreamAssumption DEF Types, BusOK, Places, RunnerOK, Abort,
       backend, frontend, acks
  <2>2. RunnerOK'
    BY <1>0, <1>p, <1>10, ResultStreamAssumption DEF RunnerOK, Places, Types, BusOK, Abort,
       backend, frontend, acks
  <2>3. Contents'
    BY <1>0, <1>p, <1>10, ResultStreamAssumption DEF Contents, Entries, Waiting, Numbers,
       Places, RunnerOK, Types, BusOK, Abort, backend, frontend, acks
  <2>4. Numbered'
    BY <1>0, <1>p, <1>10, ResultStreamAssumption DEF Numbered, RunnerOK, Types, BusOK,
       Abort, backend, frontend, acks
  <2>5. EndsAreTrue'
    BY <1>0, <1>p, <1>10, ResultStreamAssumption DEF EndsAreTrue, Truth, RunnerOK, Types,
       BusOK, Abort, backend, frontend, acks
  <2>6. DoneIsLast'
    BY <1>0, <1>p, <1>10, ResultStreamAssumption DEF DoneIsLast, RunnerOK, Types, BusOK,
       Abort, backend, frontend, acks
  <2>7. ToldAll'
    BY <1>0, <1>p, <1>10, ResultStreamAssumption DEF ToldAll, RunnerOK, Types, BusOK,
       Abort, backend, frontend, acks
  <2>8. Handed(g, f, b)'
    BY <1>0, <1>p, <1>10, ResultStreamAssumption DEF Handed, Types, BusOK, Places, Abort,
       backend, frontend, acks
  <2>9. Emitted(b, c)'
    BY <1>0, <1>p, <1>10, ResultStreamAssumption DEF Emitted, RunnerOK, Types, Places,
       Abort, backend, frontend, acks
  <2>10. Paid(a)'
    BY <1>0, <1>p, <1>10, ResultStreamAssumption DEF Paid, RunnerOK, Types, Abort, backend,
       frontend, acks
  <2>11. Owed(b, a)'
    BY <1>0, <1>p, <1>10, ResultStreamAssumption DEF Owed, RunnerOK, Types, BusOK, Abort,
       backend, frontend, acks
  <2> QED
    BY <1>p, <2>1, <2>2, <2>3, <2>4, <2>5, <2>6, <2>7, <2>8, <2>9, <2>10, <2>11 DEF IInv,
       Flows
<1> QED
  BY <1>1, <1>2, <1>3, <1>4, <1>5, <1>6, <1>7, <1>8, <1>9, <1>10

\* The emit task hands the channel on, fails or ends.
LEMMA EmitterStep ==
    ASSUME IInv, EmitNext \/ EmitFails \/ EmitterEnds
    PROVE  IInv'
<1>0. /\ Types /\ RunnerOK /\ BusOK /\ Contents /\ Numbered /\ EndsAreTrue
      /\ DoneIsLast /\ ToldAll /\ Flows
  BY DEF IInv
<1>p. PICK g, f, b, c \in Places, a \in 0..Chunks :
         Handed(g, f, b) /\ Emitted(b, c) /\ Paid(a) /\ Owed(b, a)
  BY <1>0 DEF Flows
<1>s. /\ channel \in Seq(Nat) /\ got \in Seq(Nat) /\ cache.chunks \in Seq(Nat)
      /\ Places \subseteq Nat \ {0} /\ next \in Nat
      /\ g \in Nat \ {0} /\ f \in Nat \ {0} /\ b \in Nat \ {0} /\ c \in Nat \ {0}
  BY <1>0, ResultStreamAssumption DEF Contents, Types, Numbers, Places
<1>1. CASE EmitNext
  <2>a. /\ emitter = "running" /\ channel # <<>> /\ channel' = Tail(channel)
        /\ UNCHANGED <<run, outcome, next>> /\ UNCHANGED <<queue, heard, cache, got, swept>>
        /\ Head(channel) # 0 => /\ events'
                                       = Append(events, [type |-> "chunk", n |-> Head(channel)])
                                /\ UNCHANGED emitter
        /\ Head(channel) = 0 => /\ events' = Append(events, [type |-> "error", n |-> 0])
                                /\ emitter' = "over"
    BY <1>1 DEF EmitNext, Emit, Fault, frontend
  <2>b. Counts(channel, c, next)
    BY <1>p, <2>a DEF Emitted
  <2>c. /\ Head(channel) # 0 => /\ Head(channel) = c /\ c < next
                                /\ Counts(Tail(channel), c + 1, next)
                                /\ Unended(channel) <=> Unended(Tail(channel))
        /\ Head(channel) = 0 => /\ Counts(Tail(channel), c, next)
                                /\ Unended(Tail(channel)) /\ ~ Unended(channel)
    BY <1>s, <2>a, <2>b, CountsRest
  <2>d. /\ Tail(channel) \in Seq(Numbers) /\ Len(Tail(channel)) <= Capacity
        /\ Len(events) \in Nat
    BY <1>0, <2>a, ResultStreamAssumption DEF Contents
  <2>e. /\ Counts(EventNums(events), b, c)
        /\ EventsNumbered(events) /\ events \in Seq(Entries)
    BY <1>0, <1>p DEF Emitted, Numbered, Contents, EventsNumbered
  <2>f. ASSUME Head(channel) # 0
        PROVE  LET e == [type |-> "chunk", n |-> Head(channel)] IN
               /\ c \in 1..Chunks /\ Append(events, e) \in Seq(Entries)
               /\ Len(Append(events, e)) = Len(events) + 1
               /\ \A i \in 1..Len(events) : Append(events, e)[i] = events[i]
               /\ Append(events, e)[Len(events) + 1] = e
               /\ Counts(EventNums(Append(events, e)), b, c + 1)
    <3>1. c \in 1..Chunks /\ [type |-> "chunk", n |-> Head(channel)] \in Entries
      BY <1>0, <2>c, <2>f, ResultStreamAssumption DEF Entries, Numbers, Types, Places
    <3> QED
      BY <1>s, <2>c, <2>e, <2>f, <3>1, EventsOn
  <2>g. ASSUME Head(channel) = 0
        PROVE  LET e == [type |-> "error", n |-> 0] IN
               /\ outcome = "failed" /\ run \in {"draining", "over"}
               /\ EventsOpen(events) /\ QueueOpen(queue) /\ ~ cache.done /\ ~ cache.error
               /\ Append(events, e) \in Seq(Entries)
               /\ Len(Append(events, e)) = Len(events) + 1
               /\ \A i \in 1..Len(events) : Append(events, e)[i] = events[i]
               /\ Append(events, e)[Len(events) + 1] = e
               /\ Counts(EventNums(Append(events, e)), b, c)
    <3>1. outcome = "failed" /\ run \in {"draining", "over"}
      BY <1>0, <2>c, <2>g DEF RunnerOK
    <3>2. EventsOpen(events) /\ QueueOpen(queue) /\ ~ cache.done /\ ~ cache.error
      BY <1>0, <2>a, <3>1 DEF EndsAreTrue, Truth, EventsOpen, QueueOpen
    <3> DEFINE e == [type |-> "error", n |-> 0]
    <3>3. e \in Entries /\ e.type # "chunk"
      BY ResultStreamAssumption DEF Entries, Numbers
    <3> HIDE DEF e
    <3>4. /\ Append(events, e) \in Seq(Entries) /\ Len(Append(events, e)) = Len(events) + 1
          /\ \A i \in 1..Len(events) : Append(events, e)[i] = events[i]
          /\ Append(events, e)[Len(events) + 1] = e
          /\ Counts(EventNums(Append(events, e)), b, c)
      <4>1. b \in Nat \ {0} /\ c \in Nat
        BY <1>s
      <4> QED
        BY <2>e, <3>2, <3>3, <4>1, EventsOn
    <3> QED
      BY <3>1, <3>2, <3>4 DEF e
  <2>i. /\ Len(events') = Len(events) + 1 /\ events' \in Seq(Entries)
        /\ \A i \in 1..Len(events) : events'[i] = events[i]
        /\ events'[Len(events) + 1] = IF Head(channel) = 0
                                      THEN [type |-> "error", n |-> 0]
                                      ELSE [type |-> "chunk", n |-> Head(channel)]
        /\ \A i \in 1..Len(events') : i \in 1..Len(events) \/ i = Len(events) + 1
    <3>1. CASE Head(channel) # 0
      <4>1. events' = Append(events, [type |-> "chunk", n |-> Head(channel)])
        BY <2>a, <3>1
      <4>2. /\ Append(events, [type |-> "chunk", n |-> Head(channel)]) \in Seq(Entries)
            /\ Len(Append(events, [type |-> "chunk", n |-> Head(channel)])) = Len(events) + 1
            /\ \A i \in 1..Len(events) :
                   Append(events, [type |-> "chunk", n |-> Head(channel)])[i] = events[i]
            /\ Append(events, [type |-> "chunk", n |-> Head(channel)])[Len(events) + 1]
                   = [type |-> "chunk", n |-> Head(channel)]
        BY <2>f, <3>1
      <4>3. \A i \in 1..Len(events) + 1 : i \in 1..Len(events) \/ i = Len(events) + 1
        BY <2>d
      <4> QED
        BY <3>1, <4>1, <4>2, <4>3
    <3>2. CASE Head(channel) = 0
      <4>1. events' = Append(events, [type |-> "error", n |-> 0])
        BY <2>a, <3>2
      <4>2. /\ Append(events, [type |-> "error", n |-> 0]) \in Seq(Entries)
            /\ Len(Append(events, [type |-> "error", n |-> 0])) = Len(events) + 1
            /\ \A i \in 1..Len(events) :
                   Append(events, [type |-> "error", n |-> 0])[i] = events[i]
            /\ Append(events, [type |-> "error", n |-> 0])[Len(events) + 1]
                   = [type |-> "error", n |-> 0]
        BY <2>g, <3>2
      <4>3. \A i \in 1..Len(events) + 1 : i \in 1..Len(events) \/ i = Len(events) + 1
        BY <2>d
      <4> QED
        BY <3>2, <4>1, <4>2, <4>3
    <3> QED
      BY <3>1, <3>2
  <2>h. PICK d \in Places : d = IF Head(channel) = 0 THEN c ELSE c + 1
    BY <1>s, <2>f, ResultStreamAssumption DEF Places
  <2>1. (Types /\ BusOK)'
    BY <1>0, <1>1, <2>a, <2>b, <2>c, <2>d, <2>e, <2>f, <2>g, <2>i, <2>h DEF Types, BusOK,
       EmitNext, Emit, backend, frontend, acks
  <2>2. RunnerOK'
    BY <1>0, <1>1, <2>a, <2>b, <2>c, <2>d, <2>e, <2>f, <2>g, <2>i, <2>h DEF RunnerOK,
       EmitNext, Emit, backend, frontend, acks
  <2>3. Contents'
    BY <1>0, <1>1, <2>a, <2>b, <2>c, <2>d, <2>e, <2>f, <2>g, <2>i, <2>h DEF Contents,
       Entries, Waiting, EmitNext, Emit, backend, frontend, acks
  <2>4. Numbered'
    <3>1. ASSUME NEW i \in 1..Len(events'), events'[i].type = "chunk"
          PROVE  events'[i].n \in 1..Chunks
      <4>1. CASE i \in 1..Len(events)
        BY <1>0, <2>i, <3>1, <4>1 DEF Numbered
      <4>2. CASE i = Len(events) + 1
        <5>1. Head(channel) # 0 /\ events'[i].n = Head(channel)
          BY <2>i, <3>1, <4>2
        <5> QED
          BY <2>c, <2>f, <5>1
      <4> QED
        BY <2>i, <3>1, <4>1, <4>2
    <3> QED
      BY <1>0, <2>a, <3>1 DEF Numbered
  <2>5. EndsAreTrue'
    <3>1. \A t : Truth(t) => Truth(t)'
      BY <2>a, <2>g DEF Truth
    <3>2. CASE Head(channel) # 0
      <4>1. \A i \in 1..Len(events') : events'[i].type # "chunk"
                => i \in 1..Len(events) /\ events'[i] = events[i]
        BY <2>i, <3>2
      <4> QED
        BY <1>0, <2>a, <3>1, <4>1 DEF EndsAreTrue
    <3>3. CASE Head(channel) = 0
      <4>1. Truth("error")'
        BY <2>a, <2>g, <3>3 DEF Truth
      <4>2. \A i \in 1..Len(events') : events'[i].type # "chunk" => events'[i].type = "error"
        BY <2>g, <2>i, <3>3 DEF EventsOpen
      <4>3. /\ ~ cache'.done /\ ~ cache'.error
            /\ \A i \in 1..Len(queue') : queue'[i].what = "chunk"
        BY <2>a, <2>g, <3>3 DEF QueueOpen
      <4>4. (\A i \in 1..Len(heard) : Truth(heard[i]))'
        BY <1>0, <2>a, <3>1 DEF EndsAreTrue
      <4> QED
        BY <4>1, <4>2, <4>3, <4>4 DEF EndsAreTrue
    <3> QED
      BY <3>2, <3>3
  <2>6. DoneIsLast'
    <3>1. ASSUME outcome = "done"
          PROVE  Head(channel) # 0 /\ EventsOpen(events) /\ QueueOpen(queue) /\ ~ cache.done
      BY <1>0, <2>a, <2>g, <3>1 DEF RunnerOK, EndsAreTrue, Truth, EventsOpen, QueueOpen
    <3>2. ASSUME outcome' = "done", NEW i \in 1..Len(events') - 1
          PROVE  events'[i].type = "chunk"
      <4>1. Head(channel) # 0 /\ EventsOpen(events)
        BY <2>a, <3>1, <3>2
      <4>2. i \in 1..Len(events) /\ events'[i] = events[i]
        BY <2>a, <2>d, <2>f, <3>2, <4>1
      <4> QED
        BY <4>1, <4>2 DEF EventsOpen
    <3> QED
      BY <2>a, <3>1, <3>2 DEF DoneIsLast, QueueOpen
  <2>7. ToldAll'
    BY <1>0, <1>1, <2>a, <2>b, <2>c, <2>d, <2>e, <2>f, <2>g, <2>i, <2>h DEF ToldAll,
       EmitNext, Emit, backend, frontend, acks
  <2>8. Handed(g, f, b)'
    BY <1>p, <1>1, <2>a, <2>b, <2>c, <2>d, <2>e, <2>f, <2>g, <2>i, <2>h DEF Handed,
       EmitNext, Emit, backend, frontend, acks
  <2>9. Emitted(b, d)'
    <3>1. UNCHANGED next
      BY <1>1 DEF EmitNext
    <3>2. CASE Head(channel) # 0
      <4>1. /\ events' = Append(events, [type |-> "chunk", n |-> Head(channel)])
            /\ channel' = Tail(channel) /\ d = c + 1 /\ UNCHANGED emitter
        BY <2>a, <2>h, <3>2
      <4>2. Counts(EventNums(events'), b, d) /\ Counts(channel', d, next) /\ d <= next
        BY <1>s, <2>c, <2>f, <3>2, <4>1
      <4> QED
        BY <1>p, <1>s, <3>1, <4>1, <4>2 DEF Emitted
    <3>3. CASE Head(channel) = 0
      BY <1>p, <1>s, <2>a, <2>c, <2>g, <2>h, <3>1, <3>3 DEF Emitted
    <3> QED
      BY <3>2, <3>3
  <2>10. Paid(a)'
    BY <1>0, <1>p, <1>1, <2>a, <2>b, <2>c, <2>d, <2>e, <2>f, <2>g, <2>i, <2>h,
       ResultStreamAssumption DEF Paid, Types, EmitNext, Emit, backend, frontend, acks
  <2>11. Owed(b, a)'
    BY <1>0, <1>p, <1>1, <2>a, <2>b, <2>c, <2>d, <2>e, <2>f, <2>g, <2>i, <2>h DEF Owed,
       EmitNext, Emit, backend, frontend, acks
  <2> QED
    BY <1>p, <2>a, <2>b, <2>c, <2>d, <2>e, <2>f, <2>g, <2>i, <2>h, <2>1, <2>2, <2>3, <2>4,
       <2>5, <2>6, <2>7, <2>8, <2>9, <2>10, <2>11 DEF IInv, Flows
<1>2. CASE EmitFails
  <2>a. Unended(<<>>)
    BY CountsNothing, 0 \in Nat
  <2>1. (Types /\ BusOK)'
    BY <1>0, <1>2, <2>a DEF Types, BusOK, EmitFails, backend, frontend, acks
  <2>2. RunnerOK'
    BY <1>0, <1>2, <2>a DEF RunnerOK, EmitFails, backend, frontend, acks
  <2>3. Contents'
    BY <1>0, <1>p, <1>2, <2>a, ResultStreamAssumption DEF Contents, Entries, Waiting,
       Numbers, Places, RunnerOK, Types, BusOK, EmitFails, backend, frontend, acks
  <2>4. Numbered'
    BY <1>0, <1>2, <2>a DEF Numbered, EmitFails, backend, frontend, acks
  <2>5. EndsAreTrue'
    BY <1>0, <1>2, <2>a DEF EndsAreTrue, Truth, EmitFails, backend, frontend, acks
  <2>6. DoneIsLast'
    BY <1>0, <1>2, <2>a DEF DoneIsLast, EmitFails, backend, frontend, acks
  <2>7. ToldAll'
    BY <1>0, <1>2, <2>a DEF ToldAll, EmitFails, backend, frontend, acks
  <2>8. Handed(g, f, b)'
    BY <1>p, <1>2, <2>a DEF Handed, EmitFails, backend, frontend, acks
  <2>9. Emitted(b, c)'
    BY <1>p, <1>2, <2>a DEF Emitted, EmitFails, backend, frontend, acks
  <2>10. Paid(a)'
    BY <1>0, <1>p, <1>2, <2>a, ResultStreamAssumption DEF Paid, Types, EmitFails, backend,
       frontend, acks
  <2>11. Owed(b, a)'
    BY <1>0, <1>p, <1>2, <2>a DEF Owed, EmitFails, backend, frontend, acks
  <2> QED
    BY <1>p, <2>a, <2>1, <2>2, <2>3, <2>4, <2>5, <2>6, <2>7, <2>8, <2>9, <2>10, <2>11
       DEF IInv, Flows
<1>3. CASE EmitterEnds
  <2>1. (Types /\ BusOK)'
    BY <1>0, <1>3 DEF Types, BusOK, EmitterEnds, backend, frontend, acks
  <2>2. RunnerOK'
    BY <1>0, <1>3 DEF RunnerOK, EmitterEnds, backend, frontend, acks
  <2>3. Contents'
    BY <1>0, <1>3 DEF Contents, Entries, Waiting, EmitterEnds, backend, frontend, acks
  <2>4. Numbered'
    BY <1>0, <1>3 DEF Numbered, EmitterEnds, backend, frontend, acks
  <2>5. EndsAreTrue'
    BY <1>0, <1>3 DEF EndsAreTrue, Truth, EmitterEnds, backend, frontend, acks
  <2>6. DoneIsLast'
    BY <1>0, <1>3 DEF DoneIsLast, EmitterEnds, backend, frontend, acks
  <2>7. ToldAll'
    BY <1>0, <1>3 DEF ToldAll, EmitterEnds, backend, frontend, acks
  <2>8. Handed(g, f, b)'
    BY <1>p, <1>3 DEF Handed, EmitterEnds, backend, frontend, acks
  <2>9. Emitted(b, c)'
    BY <1>p, <1>3 DEF Emitted, EmitterEnds, backend, frontend, acks
  <2>10. Paid(a)'
    BY <1>0, <1>p, <1>3, ResultStreamAssumption DEF Paid, Types, EmitterEnds, backend,
       frontend, acks
  <2>11. Owed(b, a)'
    BY <1>0, <1>p, <1>3 DEF Owed, EmitterEnds, backend, frontend, acks
  <2> QED
    BY <1>p, <2>1, <2>2, <2>3, <2>4, <2>5, <2>6, <2>7, <2>8, <2>9, <2>10, <2>11 DEF IInv,
       Flows
<1> QED
  BY <1>1, <1>2, <1>3

\* The subscriber's handlers run.
LEMMA ServeStep ==
    ASSUME IInv, Work \/ Skip \/ Settle \/ Conclude \/ Concluded
    PROVE  IInv'
<1>0. /\ Types /\ RunnerOK /\ BusOK /\ Contents /\ Numbered /\ EndsAreTrue
      /\ DoneIsLast /\ ToldAll /\ Flows
  BY DEF IInv
<1>p. PICK g, f, b, c \in Places, a \in 0..Chunks :
         Handed(g, f, b) /\ Emitted(b, c) /\ Paid(a) /\ Owed(b, a)
  BY <1>0 DEF Flows
<1>s. /\ channel \in Seq(Nat) /\ got \in Seq(Nat) /\ cache.chunks \in Seq(Nat)
      /\ Places \subseteq Nat \ {0} /\ next \in Nat
      /\ g \in Nat \ {0} /\ f \in Nat \ {0} /\ b \in Nat \ {0} /\ c \in Nat \ {0}
  BY <1>0, ResultStreamAssumption DEF Contents, Types, Numbers, Places
<1>1. CASE Work
  <2>a. /\ queue # <<>> /\ bus /\ Head(queue).what = "chunk" /\ working' = TRUE
        /\ UNCHANGED <<bus, cache, queue, sub, swept, got, heard>>
    BY <1>1 DEF Work
  <2>r. /\ Tail(queue) \in Seq(Waiting) /\ Len(Tail(queue)) = Len(queue) - 1
        /\ Len(queue) \in Nat \ {0} /\ Head(queue) = queue[1] /\ Head(queue) \in Waiting
        /\ \A i \in 1..Len(queue) - 1 : /\ Tail(queue)[i] = queue[i + 1]
                                        /\ i + 1 \in 1..Len(queue)
    BY <1>0, <2>a, EmptySeq, HeadTailProperties DEF Contents
  <2>q. ASSUME bus
        PROVE  /\ Head(queue).what = "chunk" => /\ Head(queue).n = f /\ f < b
                                                /\ Counts(QueueNums(Tail(queue)), f + 1, b)
               /\ Head(queue).what # "chunk" => /\ Counts(QueueNums(Tail(queue)), f, b)
                                                /\ QueueOpen(Tail(queue))
    <3>1. Counts(QueueNums(queue), f, b) /\ QueueNumbered(queue) /\ queue \in Seq(Waiting)
      BY <1>0, <1>p, <2>q DEF Handed, Numbered, Contents, QueueNumbered
    <3> QED
      BY <1>s, <2>a, <3>1, QueueRest
  <2>1. (Types /\ BusOK)'
    BY <1>0, <1>1, <2>a, <2>r, <2>q DEF Types, BusOK, Work, backend, frontend, acks
  <2>2. RunnerOK'
    BY <1>0, <1>1, <2>a, <2>r, <2>q DEF RunnerOK, Work, backend, frontend, acks
  <2>3. Contents'
    BY <1>0, <1>1, <2>a, <2>r, <2>q DEF Contents, Entries, Waiting, Work, backend,
       frontend, acks
  <2>4. Numbered'
    BY <1>0, <1>1, <2>a, <2>r, <2>q DEF Numbered, Work, backend, frontend, acks
  <2>5. EndsAreTrue'
    BY <1>0, <1>1, <2>a, <2>r, <2>q DEF EndsAreTrue, Truth, Work, backend, frontend, acks
  <2>6. DoneIsLast'
    BY <1>0, <1>1, <2>a, <2>r, <2>q DEF DoneIsLast, Work, backend, frontend, acks
  <2>7. ToldAll'
    BY <1>0, <1>1, <2>a, <2>r, <2>q DEF ToldAll, Work, backend, frontend, acks
  <2>8. Handed(g, f, b)'
    BY <1>p, <1>1, <2>a, <2>r, <2>q DEF Handed, Work, backend, frontend, acks
  <2>9. Emitted(b, c)'
    BY <1>p, <1>1, <2>a, <2>r, <2>q DEF Emitted, Work, backend, frontend, acks
  <2>10. Paid(a)'
    BY <1>0, <1>p, <1>1, <2>a, <2>r, <2>q, ResultStreamAssumption DEF Paid, Types, Work,
       backend, frontend, acks
  <2>11. Owed(b, a)'
    <3>1. Head(queue).ack => a + 1 < b
      <4>1. Head(queue).ack => a < queue[1].n
        BY <1>p, <2>a, <2>r DEF Owed
      <4>2. queue[1].n = f /\ f < b
        BY <2>a, <2>q, <2>r
      <4> QED
        BY <1>s, <2>r, <4>1, <4>2, ResultStreamAssumption
    <3> QED
      BY <1>p, <2>a, <3>1 DEF Owed
  <2> QED
    BY <1>p, <2>a, <2>r, <2>q, <2>1, <2>2, <2>3, <2>4, <2>5, <2>6, <2>7, <2>8, <2>9, <2>10,
       <2>11 DEF IInv, Flows
<1>2. CASE Skip
  <2>a. /\ queue # <<>> /\ ~ bus /\ ~ working /\ queue' = Tail(queue)
        /\ UNCHANGED <<bus, cache, working, sub, swept, got, heard>>
    BY <1>2 DEF Skip
  <2>r. /\ Tail(queue) \in Seq(Waiting) /\ Len(Tail(queue)) = Len(queue) - 1
        /\ Len(queue) \in Nat \ {0} /\ Head(queue) = queue[1] /\ Head(queue) \in Waiting
        /\ \A i \in 1..Len(queue) - 1 : /\ Tail(queue)[i] = queue[i + 1]
                                        /\ i + 1 \in 1..Len(queue)
    BY <1>0, <2>a, EmptySeq, HeadTailProperties DEF Contents
  <2>1. (Types /\ BusOK)'
    BY <1>0, <1>2, <2>a, <2>r DEF Types, BusOK, Skip, backend, frontend, acks
  <2>2. RunnerOK'
    BY <1>0, <1>2, <2>a, <2>r DEF RunnerOK, Skip, backend, frontend, acks
  <2>3. Contents'
    BY <1>0, <1>2, <2>a, <2>r DEF Contents, Entries, Waiting, Skip, backend, frontend, acks
  <2>4. Numbered'
    BY <1>0, <1>2, <2>a, <2>r DEF Numbered, Skip, backend, frontend, acks
  <2>5. EndsAreTrue'
    <3>1. UNCHANGED <<outcome, run, emitter, events, cache, heard>>
      BY <1>2 DEF Skip, backend
    <3> QED
      BY <1>0, <2>a, <2>r, <3>1 DEF EndsAreTrue, Truth
  <2>6. DoneIsLast'
    <3>1. UNCHANGED <<outcome, events, cache>>
      BY <1>2 DEF Skip, backend
    <3>2. ASSUME outcome = "done", NEW i \in 1..Len(Tail(queue)),
                 Tail(queue)[i].what = "done"
          PROVE  i = Len(Tail(queue)) /\ events = <<>>
      <4>1. i + 1 \in 1..Len(queue) /\ queue[i + 1].what = "done" /\ i \in Nat
        BY <2>r, <3>2
      <4>2. i + 1 = Len(queue) /\ events = <<>>
        BY <1>0, <3>2, <4>1 DEF DoneIsLast
      <4>3. Len(queue) \in Nat /\ Len(Tail(queue)) = Len(queue) - 1
        BY <2>r
      <4>4. i = Len(queue) - 1
        BY <4>1, <4>2, <4>3
      <4> QED
        BY <4>2, <4>3, <4>4
    <3> QED
      BY <1>0, <2>a, <3>1, <3>2 DEF DoneIsLast
  <2>7. ToldAll'
    BY <1>0, <1>2, <2>a, <2>r DEF ToldAll, Skip, backend, frontend, acks
  <2>8. Handed(g, f, b)'
    BY <1>p, <1>2, <2>a, <2>r DEF Handed, Skip, backend, frontend, acks
  <2>9. Emitted(b, c)'
    BY <1>p, <1>2, <2>a, <2>r DEF Emitted, Skip, backend, frontend, acks
  <2>10. Paid(a)'
    BY <1>0, <1>p, <1>2, <2>a, <2>r, ResultStreamAssumption DEF Paid, Types, Skip, backend,
       frontend, acks
  <2>11. Owed(b, a)'
    BY <1>0, <1>p, <1>2, <2>a, <2>r DEF Owed, Skip, backend, frontend, acks
  <2> QED
    BY <1>p, <2>a, <2>r, <2>1, <2>2, <2>3, <2>4, <2>5, <2>6, <2>7, <2>8, <2>9, <2>10,
       <2>11 DEF IInv, Flows
<1>3. CASE Settle
  <2>a. /\ queue # <<>> /\ working /\ Head(queue).what = "chunk" /\ Head(queue).n = f
        /\ working' = FALSE /\ queue' = Tail(queue) /\ got' = Append(got, f)
        /\ toAck' = IF Head(queue).ack THEN toAck + 1 ELSE toAck
        /\ UNCHANGED <<serial, bus, cache, sub, swept, heard>>
    BY <1>0, <1>p, <1>3 DEF BusOK, Handed, Settle
  <2>r. /\ Tail(queue) \in Seq(Waiting) /\ Len(Tail(queue)) = Len(queue) - 1
        /\ Len(queue) \in Nat \ {0} /\ Head(queue) = queue[1] /\ Head(queue) \in Waiting
        /\ \A i \in 1..Len(queue) - 1 : /\ Tail(queue)[i] = queue[i + 1]
                                        /\ i + 1 \in 1..Len(queue)
    BY <1>0, <2>a, EmptySeq, HeadTailProperties DEF Contents
  <2>q. ASSUME bus
        PROVE  /\ Head(queue).what = "chunk" => /\ Head(queue).n = f /\ f < b
                                                /\ Counts(QueueNums(Tail(queue)), f + 1, b)
               /\ Head(queue).what # "chunk" => /\ Counts(QueueNums(Tail(queue)), f, b)
                                                /\ QueueOpen(Tail(queue))
    <3>1. Counts(QueueNums(queue), f, b) /\ QueueNumbered(queue) /\ queue \in Seq(Waiting)
      BY <1>0, <1>p, <2>q DEF Handed, Numbered, Contents, QueueNumbered
    <3> QED
      BY <1>s, <2>a, <3>1, QueueRest
  <2>b. f \in 1..Chunks
    BY <1>0, <2>a, <2>r DEF Numbered
  <2>c. /\ f + 1 \in Places /\ f \in Numbers
        /\ Append(got, f) \in Seq(Numbers)
        /\ Counts(Append(got, f), g, f + 1) /\ Unended(Append(got, f))
    <3>1. f + 1 \in Places /\ f \in Numbers
      BY <2>b, ResultStreamAssumption DEF Places, Numbers
    <3>2. Counts(got, g, f) /\ Unended(got) /\ got \in Seq(Numbers)
      BY <1>0, <1>p DEF Handed, Contents
    <3> QED
      BY <1>s, <3>1, <3>2, CountsOn, AppendProperties
  <2>d. PICK d \in 0..Chunks : d = IF Head(queue).ack THEN a + 1 ELSE a
    <3>1. Head(queue).ack => a + 1 < b
      BY <1>p, <2>a DEF Owed
    <3> QED
      BY <1>s, <3>1, ResultStreamAssumption DEF Places
  <2>1. (Types /\ BusOK)'
    <3>1. UNCHANGED <<run, outcome, next, emitter, asked, ending, credit, flying>>
      BY <1>3 DEF Settle, backend
    <3>2. toAck' \in Nat
      BY <1>0, <2>a DEF Types
    <3>3. sub # "none" /\ serial
      BY <1>0, <2>a DEF BusOK
    <3> QED
      BY <1>0, <2>a, <3>1, <3>2, <3>3 DEF Types, BusOK
  <2>2. RunnerOK'
    BY <1>0, <1>3, <2>a, <2>r, <2>q, <2>b, <2>c, <2>d DEF RunnerOK, Settle, backend,
       frontend, acks
  <2>3. Contents'
    <3>1. UNCHANGED <<channel, events, cache, heard>>
      BY <1>3 DEF Settle, backend
    <3> QED
      BY <1>0, <2>a, <2>c, <2>r, <3>1 DEF Contents
  <2>4. Numbered'
    BY <1>0, <1>3, <2>a, <2>r, <2>q, <2>b, <2>c, <2>d DEF Numbered, Settle, backend,
       frontend, acks
  <2>5. EndsAreTrue'
    <3>1. UNCHANGED <<outcome, run, emitter, events, cache, heard>>
      BY <1>3 DEF Settle, backend
    <3>2. \A i \in 1..Len(queue') : \E j \in 1..Len(queue) : queue'[i] = queue[j]
      BY <2>a, <2>r
    <3>3. \A t : Truth(t)' <=> Truth(t)
      BY <3>1 DEF Truth
    <3> QED
      BY <1>0, <3>1, <3>2, <3>3 DEF EndsAreTrue
  <2>6. DoneIsLast'
    <3>1. UNCHANGED <<outcome, events, cache>>
      BY <1>3 DEF Settle, backend
    <3>2. ASSUME outcome = "done", NEW i \in 1..Len(Tail(queue)),
                 Tail(queue)[i].what = "done"
          PROVE  i = Len(Tail(queue)) /\ events = <<>>
      <4>1. i + 1 \in 1..Len(queue) /\ queue[i + 1].what = "done" /\ i \in Nat
        BY <2>r, <3>2
      <4>2. i + 1 = Len(queue) /\ events = <<>>
        BY <1>0, <3>2, <4>1 DEF DoneIsLast
      <4>3. Len(queue) \in Nat /\ Len(Tail(queue)) = Len(queue) - 1
        BY <2>r
      <4>4. i = Len(queue) - 1
        BY <4>1, <4>2, <4>3
      <4> QED
        BY <4>2, <4>3, <4>4
    <3> QED
      BY <1>0, <2>a, <3>1, <3>2 DEF DoneIsLast
  <2>7. ToldAll'
    <3>1. UNCHANGED <<outcome, emitter, heard, swept>>
      BY <1>3 DEF Settle, backend
    <3>2. ASSUME Len(got) = Chunks, ~ swept
          PROVE  FALSE
      <4>1. Counts(got, g, f) /\ Unended(got) /\ g = 1
        BY <1>p, <3>2 DEF Handed
      <4>2. f = 1 + Chunks
        BY <1>s, <3>2, <4>1, CountsLen
      <4> QED
        BY <2>b, <4>2, ResultStreamAssumption
    <3> QED
      BY <1>0, <3>1, <3>2 DEF ToldAll
  <2>8. Handed(g, f + 1, b)'
    <3>1. bus => Counts(QueueNums(Tail(queue)), f + 1, b)
      BY <2>a, <2>q
    <3>2. sub # "none"
      BY <1>0, <2>a DEF BusOK
    <3> QED
      BY <1>p, <2>a, <2>c, <3>1, <3>2 DEF Handed
  <2>9. Emitted(b, c)'
    BY <1>p, <1>3, <2>a, <2>r, <2>q, <2>b, <2>c, <2>d DEF Emitted, Settle, backend,
       frontend, acks
  <2>10. Paid(d)'
    <3>1. UNCHANGED <<credit, run, outcome, flying>>
      BY <1>3 DEF Settle, backend
    <3>2. credit \in Nat /\ flying \in Nat /\ toAck \in Nat /\ a \in Nat /\ d \in Nat
      BY <1>0, ResultStreamAssumption DEF Types
    <3>3. CASE Head(queue).ack
      BY <1>p, <2>a, <2>d, <3>1, <3>2, <3>3, ResultStreamAssumption DEF Paid
    <3>4. CASE ~ Head(queue).ack
      BY <1>p, <2>a, <2>d, <3>1, <3>2, <3>4 DEF Paid
    <3> QED
      BY <3>3, <3>4
  <2>11. Owed(b, d)'
    <3>1. d < b
      BY <1>p, <1>s, <2>a, <2>d DEF Owed
    <3>2. ASSUME bus, NEW i \in 1..Len(Tail(queue)), Tail(queue)[i].ack
          PROVE  d < Tail(queue)[i].n
      <4>1. a < f \/ ~ Head(queue).ack
        BY <1>p, <2>a, <2>r, <3>2 DEF Owed
      <4>2. a < Tail(queue)[i].n
        BY <1>p, <2>r, <3>2 DEF Owed
      <4>3. CASE ~ Head(queue).ack
        BY <2>d, <4>2, <4>3
      <4>4. CASE Head(queue).ack
        <5>1. Tail(queue)[i].what = "chunk" /\ Tail(queue)[i].n \in 1..Chunks
          BY <1>0, <2>r, <3>2 DEF Numbered
        <5>2. /\ QueueNums(Tail(queue)) \in Seq(Nat)
              /\ Len(QueueNums(Tail(queue))) = Len(Tail(queue))
              /\ QueueNums(Tail(queue))[i] = Tail(queue)[i].n
          BY <2>r, <3>2, <5>1, QueueCounts
        <5>3. Counts(QueueNums(Tail(queue)), f + 1, b) /\ f + 1 \in Nat \ {0}
          BY <1>s, <2>a, <2>q, <3>2
        <5>4. f + 1 <= Tail(queue)[i].n
          <6>1. \A j \in 1..Len(QueueNums(Tail(queue))) : QueueNums(Tail(queue))[j] # 0
                    => f + 1 <= QueueNums(Tail(queue))[j]
            BY <1>s, <5>2, <5>3, CountsLen
          <6> QED
            BY <2>r, <3>2, <5>1, <5>2, <6>1
        <5>5. a < f /\ d = a + 1
          BY <2>d, <4>1, <4>4
        <5> QED
          BY <1>s, <5>1, <5>4, <5>5, ResultStreamAssumption
      <4> QED
        BY <4>3, <4>4
    <3> QED
      BY <2>a, <3>1, <3>2 DEF Owed
  <2> QED
    BY <1>p, <2>a, <2>r, <2>q, <2>b, <2>c, <2>d, <2>1, <2>2, <2>3, <2>4, <2>5, <2>6, <2>7,
       <2>8, <2>9, <2>10, <2>11 DEF IInv, Flows
<1>4. CASE Conclude
  <2>a. /\ queue # <<>> /\ bus /\ ~ working /\ Head(queue).what # "chunk"
        /\ queue' = Tail(queue) /\ heard' = Append(heard, Head(queue).what)
        /\ UNCHANGED <<serial, bus, cache, sub, swept, got, working>>
    BY <1>4 DEF Conclude
  <2>r. /\ Tail(queue) \in Seq(Waiting) /\ Len(Tail(queue)) = Len(queue) - 1
        /\ Len(queue) \in Nat \ {0} /\ Head(queue) = queue[1] /\ Head(queue) \in Waiting
        /\ \A i \in 1..Len(queue) - 1 : /\ Tail(queue)[i] = queue[i + 1]
                                        /\ i + 1 \in 1..Len(queue)
    BY <1>0, <2>a, EmptySeq, HeadTailProperties DEF Contents
  <2>q. ASSUME bus
        PROVE  /\ Head(queue).what = "chunk" => /\ Head(queue).n = f /\ f < b
                                                /\ Counts(QueueNums(Tail(queue)), f + 1, b)
               /\ Head(queue).what # "chunk" => /\ Counts(QueueNums(Tail(queue)), f, b)
                                                /\ QueueOpen(Tail(queue))
    <3>1. Counts(QueueNums(queue), f, b) /\ QueueNumbered(queue) /\ queue \in Seq(Waiting)
      BY <1>0, <1>p, <2>q DEF Handed, Numbered, Contents, QueueNumbered
    <3> QED
      BY <1>s, <2>a, <3>1, QueueRest
  <2>b. /\ Truth(Head(queue).what) /\ Head(queue).what \in {"done", "error"}
        /\ EventsOpen(events)
    BY <1>0, <2>a, <2>r DEF EndsAreTrue, Waiting, EventsOpen
  <2>c. /\ Append(heard, Head(queue).what) \in Seq({"done", "error"})
        /\ Len(Append(heard, Head(queue).what)) = Len(heard) + 1 /\ Len(heard) \in Nat
        /\ \A i \in 1..Len(heard) : Append(heard, Head(queue).what)[i] = heard[i]
        /\ Append(heard, Head(queue).what)[Len(heard) + 1] = Head(queue).what
    BY <1>0, <2>b, AppendProperties DEF Contents
  <2>d. \A i \in 1..Len(heard') : \/ i \in 1..Len(heard) /\ heard'[i] = heard[i]
                                  \/ heard'[i] = Head(queue).what
    BY <2>a, <2>c
  <2>1. (Types /\ BusOK)'
    BY <1>0, <1>4, <2>a, <2>r, <2>q, <2>b, <2>c, <2>d DEF Types, BusOK, Conclude, backend,
       frontend, acks
  <2>2. RunnerOK'
    BY <1>0, <1>4, <2>a, <2>r, <2>q, <2>b, <2>c, <2>d DEF RunnerOK, Conclude, backend,
       frontend, acks
  <2>3. Contents'
    <3>1. UNCHANGED <<channel, events, cache, got>>
      BY <1>4 DEF Conclude, backend
    <3> QED
      BY <1>0, <2>a, <2>c, <2>r, <3>1 DEF Contents
  <2>4. Numbered'
    BY <1>0, <1>p, <1>4, <2>a, <2>r, <2>q, <2>b, <2>c, <2>d, ResultStreamAssumption
       DEF Numbered, RunnerOK, Types, BusOK, Conclude, backend, frontend, acks
  <2>5. EndsAreTrue'
    <3>1. UNCHANGED <<outcome, run, emitter, events, cache>>
      BY <1>4 DEF Conclude, backend
    <3> QED
      BY <1>0, <2>a, <2>b, <2>d, <2>r, <3>1 DEF EndsAreTrue, Truth, EventsOpen
  <2>6. DoneIsLast'
    <3>1. UNCHANGED <<outcome, events, cache>>
      BY <1>4 DEF Conclude, backend
    <3>2. ASSUME outcome = "done", NEW i \in 1..Len(Tail(queue)),
                 Tail(queue)[i].what = "done"
          PROVE  i = Len(Tail(queue)) /\ events = <<>>
      <4>1. i + 1 \in 1..Len(queue) /\ queue[i + 1].what = "done" /\ i \in Nat
        BY <2>r, <3>2
      <4>2. i + 1 = Len(queue) /\ events = <<>>
        BY <1>0, <3>2, <4>1 DEF DoneIsLast
      <4>3. Len(queue) \in Nat /\ Len(Tail(queue)) = Len(queue) - 1
        BY <2>r
      <4>4. i = Len(queue) - 1
        BY <4>1, <4>2, <4>3
      <4> QED
        BY <4>2, <4>3, <4>4
    <3> QED
      BY <1>0, <2>a, <3>1, <3>2 DEF DoneIsLast
  <2>7. ToldAll'
    <3>1. UNCHANGED <<outcome, emitter>>
      BY <1>4 DEF Conclude, backend
    <3>2. ASSUME Head(queue).what = "done"
          PROVE  \/ outcome = "cut"
                 \/ outcome = "done" /\ (Len(got) = Chunks \/ swept \/ emitter = "broken")
      <4>1. SUFFICES ASSUME outcome = "done", ~ swept, emitter # "broken"
                     PROVE  Len(got) = Chunks
        BY <2>b, <3>2 DEF Truth
      <4>a. emitter = "over"
        BY <1>0, <2>b, <3>2, <4>1 DEF Truth, Types
      <4>b. 1 \in 1..Len(queue) /\ queue[1].what = "done"
        BY <2>r, <3>2
      <4>c. events = <<>> /\ 1 = Len(queue)
        BY <1>0, <4>1, <4>b DEF DoneIsLast
      <4>2. emitter = "over" /\ events = <<>> /\ Len(queue) = 1
        BY <4>a, <4>c
      <4>3. b = Chunks + 1
        BY <1>0, <1>p, <4>1, <4>2, AtTheEnd DEF Emitted
      <4>4. f = b
        <5>1. Tail(queue) = <<>> /\ QueueNums(<<>>) = <<>>
          <6>1. Tail(queue) \in Seq(Waiting) /\ Len(Tail(queue)) = 0
            BY <2>r, <4>2
          <6>2. Tail(queue) = <<>>
            BY <6>1, EmptySeq
          <6> QED
            BY <6>2 DEF QueueNums
        <5>2. Counts(<<>>, f, b) /\ <<>> \in Seq(Nat) /\ Len(<<>>) = 0 /\ Unended(<<>>)
          <6>1. Counts(<<>>, f, b)
            BY <2>a, <2>q, <5>1
          <6> QED
            BY <6>1, CountsNothing, 0 \in Nat
        <5>3. b = f + Len(<<>>)
          BY <1>s, <5>2, CountsLen
        <5> QED
          BY <1>s, <5>2, <5>3
      <4>5. f = g + Len(got) /\ g = 1 /\ Len(got) \in Nat
        BY <1>p, <1>s, <4>1, CountsLen DEF Handed
      <4> QED
        BY <4>3, <4>4, <4>5, ResultStreamAssumption
    <3> QED
      BY <1>0, <2>a, <2>d, <3>1, <3>2 DEF ToldAll
  <2>8. Handed(g, f, b)'
    BY <1>p, <1>4, <2>a, <2>r, <2>q, <2>b, <2>c, <2>d DEF Handed, Conclude, backend,
       frontend, acks
  <2>9. Emitted(b, c)'
    BY <1>p, <1>4, <2>a, <2>r, <2>q, <2>b, <2>c, <2>d DEF Emitted, Conclude, backend,
       frontend, acks
  <2>10. Paid(a)'
    BY <1>0, <1>p, <1>4, <2>a, <2>r, <2>q, <2>b, <2>c, <2>d, ResultStreamAssumption
       DEF Paid, Types, Conclude, backend, frontend, acks
  <2>11. Owed(b, a)'
    BY <1>0, <1>p, <1>4, <2>a, <2>r, <2>q, <2>b, <2>c, <2>d DEF Owed, Conclude, backend,
       frontend, acks
  <2> QED
    BY <1>p, <2>a, <2>r, <2>q, <2>b, <2>c, <2>d, <2>1, <2>2, <2>3, <2>4, <2>5, <2>6, <2>7,
       <2>8, <2>9, <2>10, <2>11 DEF IInv, Flows
<1>5. CASE Concluded
  <2>1. (Types /\ BusOK)'
    BY <1>0, <1>p, <1>5, ResultStreamAssumption DEF Types, BusOK, Places, RunnerOK,
       Concluded, backend, frontend, acks
  <2>2. RunnerOK'
    BY <1>0, <1>5 DEF RunnerOK, Concluded, backend, frontend, acks
  <2>3. Contents'
    BY <1>0, <1>5 DEF Contents, Entries, Waiting, Concluded, backend, frontend, acks
  <2>4. Numbered'
    BY <1>0, <1>5 DEF Numbered, Concluded, backend, frontend, acks
  <2>5. EndsAreTrue'
    BY <1>0, <1>5 DEF EndsAreTrue, Truth, Concluded, backend, frontend, acks
  <2>6. DoneIsLast'
    BY <1>0, <1>5 DEF DoneIsLast, Concluded, backend, frontend, acks
  <2>7. ToldAll'
    BY <1>0, <1>5 DEF ToldAll, Concluded, backend, frontend, acks
  <2>8. Handed(g, f, b)'
    BY <1>p, <1>5 DEF Handed, Concluded, backend, frontend, acks
  <2>9. Emitted(b, c)'
    BY <1>p, <1>5 DEF Emitted, Concluded, backend, frontend, acks
  <2>10. Paid(a)'
    BY <1>0, <1>p, <1>5, ResultStreamAssumption DEF Paid, Types, Concluded, backend,
       frontend, acks
  <2>11. Owed(b, a)'
    BY <1>0, <1>p, <1>5 DEF Owed, Concluded, backend, frontend, acks
  <2> QED
    BY <1>p, <2>1, <2>2, <2>3, <2>4, <2>5, <2>6, <2>7, <2>8, <2>9, <2>10, <2>11 DEF IInv,
       Flows
<1> QED
  BY <1>1, <1>2, <1>3, <1>4, <1>5

\* The subscriber leaves, and the cache is swept.
LEMMA LeaveStep ==
    ASSUME IInv, Unsubscribe \/ Age \/ Cleanup
    PROVE  IInv'
<1>0. /\ Types /\ RunnerOK /\ BusOK /\ Contents /\ Numbered /\ EndsAreTrue
      /\ DoneIsLast /\ ToldAll /\ Flows
  BY DEF IInv
<1>p. PICK g, f, b, c \in Places, a \in 0..Chunks :
         Handed(g, f, b) /\ Emitted(b, c) /\ Paid(a) /\ Owed(b, a)
  BY <1>0 DEF Flows
<1>s. /\ channel \in Seq(Nat) /\ got \in Seq(Nat) /\ cache.chunks \in Seq(Nat)
      /\ Places \subseteq Nat \ {0} /\ next \in Nat
      /\ g \in Nat \ {0} /\ f \in Nat \ {0} /\ b \in Nat \ {0} /\ c \in Nat \ {0}
  BY <1>0, ResultStreamAssumption DEF Contents, Types, Numbers, Places
<1>1. CASE Unsubscribe
  <2>1. (Types /\ BusOK)'
    BY <1>0, <1>1 DEF Types, BusOK, Unsubscribe, Absent, backend, frontend, acks
  <2>2. RunnerOK'
    BY <1>0, <1>1 DEF RunnerOK, Unsubscribe, Absent, backend, frontend, acks
  <2>3. Contents'
    BY <1>0, <1>1 DEF Contents, Entries, Waiting, Unsubscribe, Absent, backend, frontend,
       acks
  <2>4. Numbered'
    BY <1>0, <1>1 DEF Numbered, Unsubscribe, Absent, backend, frontend, acks
  <2>5. EndsAreTrue'
    BY <1>0, <1>1 DEF EndsAreTrue, Truth, Unsubscribe, Absent, backend, frontend, acks
  <2>6. DoneIsLast'
    BY <1>0, <1>1 DEF DoneIsLast, Unsubscribe, Absent, backend, frontend, acks
  <2>7. ToldAll'
    BY <1>0, <1>1 DEF ToldAll, Unsubscribe, Absent, backend, frontend, acks
  <2>8. Handed(g, f, b)'
    BY <1>p, <1>1 DEF Handed, Unsubscribe, Absent, backend, frontend, acks
  <2>9. Emitted(b, c)'
    BY <1>p, <1>1 DEF Emitted, Unsubscribe, Absent, backend, frontend, acks
  <2>10. Paid(a)'
    BY <1>0, <1>p, <1>1, ResultStreamAssumption DEF Paid, Types, Unsubscribe, Absent,
       backend, frontend, acks
  <2>11. Owed(b, a)'
    BY <1>0, <1>p, <1>1 DEF Owed, Unsubscribe, Absent, backend, frontend, acks
  <2> QED
    BY <1>p, <2>1, <2>2, <2>3, <2>4, <2>5, <2>6, <2>7, <2>8, <2>9, <2>10, <2>11 DEF IInv,
       Flows
<1>2. CASE Age
  <2>1. (Types /\ BusOK)'
    BY <1>0, <1>2 DEF Types, BusOK, Age, backend, frontend, acks
  <2>2. RunnerOK'
    BY <1>0, <1>2 DEF RunnerOK, Age, backend, frontend, acks
  <2>3. Contents'
    BY <1>0, <1>2 DEF Contents, Entries, Waiting, Age, backend, frontend, acks
  <2>4. Numbered'
    BY <1>0, <1>2 DEF Numbered, Age, backend, frontend, acks
  <2>5. EndsAreTrue'
    BY <1>0, <1>2 DEF EndsAreTrue, Truth, Age, backend, frontend, acks
  <2>6. DoneIsLast'
    BY <1>0, <1>2 DEF DoneIsLast, Age, backend, frontend, acks
  <2>7. ToldAll'
    BY <1>0, <1>2 DEF ToldAll, Age, backend, frontend, acks
  <2>8. Handed(g, f, b)'
    BY <1>p, <1>2 DEF Handed, Age, backend, frontend, acks
  <2>9. Emitted(b, c)'
    BY <1>p, <1>2 DEF Emitted, Age, backend, frontend, acks
  <2>10. Paid(a)'
    BY <1>0, <1>p, <1>2, ResultStreamAssumption DEF Paid, Types, Age, backend, frontend,
       acks
  <2>11. Owed(b, a)'
    BY <1>0, <1>p, <1>2 DEF Owed, Age, backend, frontend, acks
  <2> QED
    BY <1>p, <2>1, <2>2, <2>3, <2>4, <2>5, <2>6, <2>7, <2>8, <2>9, <2>10, <2>11 DEF IInv,
       Flows
<1>3. CASE Cleanup
  <2>a. /\ cache' = Absent /\ ~ bus /\ swept' = (swept \/ sub = "none")
        /\ UNCHANGED <<bus, queue, working, sub, got, heard, events>>
    BY <1>3 DEF Cleanup
  <2>b. Absent.chunks = <<>> /\ Absent.done = FALSE /\ Absent.error = FALSE
    BY DEF Absent
  <2>e. Absent \in [kept: BOOLEAN, chunks: Seq(Numbers), done: BOOLEAN, error: BOOLEAN,
                    old: BOOLEAN]
    <3>1. <<>> \in Seq(Numbers)
      BY EmptySeq
    <3> QED
      BY <3>1 DEF Absent
  <2>c. Counts(<<>>, b, b) /\ Unended(<<>>)
    BY <1>s, CountsNothing
  <2>d. PICK h \in Places, d \in Places : /\ sub = "none" => h = b /\ d = b
                                          /\ sub # "none" => h = g /\ d = f
    BY <1>p
  <2>1. (Types /\ BusOK)'
    BY <1>0, <1>3, <2>a, <2>b, <2>e, <2>c, <2>d DEF Types, BusOK, Cleanup, backend,
       frontend, acks
  <2>2. RunnerOK'
    BY <1>0, <1>3, <2>a, <2>b, <2>e, <2>c, <2>d DEF RunnerOK, Cleanup, backend, frontend,
       acks
  <2>3. Contents'
    <3>1. UNCHANGED channel
      BY <1>3 DEF Cleanup, backend
    <3> QED
      BY <1>0, <2>a, <2>e, <3>1 DEF Contents
  <2>4. Numbered'
    BY <1>0, <1>3, <2>a, <2>b, <2>e, <2>c, <2>d DEF Numbered, Cleanup, backend, frontend,
       acks
  <2>5. EndsAreTrue'
    BY <1>0, <1>3, <2>a, <2>b, <2>e, <2>c, <2>d DEF EndsAreTrue, Truth, Cleanup, backend,
       frontend, acks
  <2>6. DoneIsLast'
    BY <1>0, <1>3, <2>a, <2>b, <2>e, <2>c, <2>d DEF DoneIsLast, Cleanup, backend, frontend,
       acks
  <2>7. ToldAll'
    BY <1>0, <1>3, <2>a, <2>b, <2>e, <2>c, <2>d DEF ToldAll, Cleanup, backend, frontend,
       acks
  <2>8. Handed(h, d, b)'
    BY <1>0, <1>p, <1>3, <2>a, <2>b, <2>e, <2>c, <2>d, ResultStreamAssumption DEF Handed,
       Types, BusOK, Places, Cleanup, backend, frontend, acks
  <2>9. Emitted(b, c)'
    BY <1>p, <1>3, <2>a, <2>b, <2>e, <2>c, <2>d DEF Emitted, Cleanup, backend, frontend,
       acks
  <2>10. Paid(a)'
    BY <1>0, <1>p, <1>3, <2>a, <2>b, <2>e, <2>c, <2>d, ResultStreamAssumption DEF Paid,
       Types, Cleanup, backend, frontend, acks
  <2>11. Owed(b, a)'
    BY <1>0, <1>p, <1>3, <2>a, <2>b, <2>e, <2>c, <2>d DEF Owed, Cleanup, backend, frontend,
       acks
  <2> QED
    BY <1>p, <2>a, <2>b, <2>e, <2>c, <2>d, <2>1, <2>2, <2>3, <2>4, <2>5, <2>6, <2>7, <2>8,
       <2>9, <2>10, <2>11 DEF IInv, Flows
<1> QED
  BY <1>1, <1>2, <1>3

\* Acknowledgements are sent and arrive.
LEMMA AckStep ==
    ASSUME IInv, Flush \/ Ack
    PROVE  IInv'
<1>0. /\ Types /\ RunnerOK /\ BusOK /\ Contents /\ Numbered /\ EndsAreTrue
      /\ DoneIsLast /\ ToldAll /\ Flows
  BY DEF IInv
<1>p. PICK g, f, b, c \in Places, a \in 0..Chunks :
         Handed(g, f, b) /\ Emitted(b, c) /\ Paid(a) /\ Owed(b, a)
  BY <1>0 DEF Flows
<1>s. /\ channel \in Seq(Nat) /\ got \in Seq(Nat) /\ cache.chunks \in Seq(Nat)
      /\ Places \subseteq Nat \ {0} /\ next \in Nat
      /\ g \in Nat \ {0} /\ f \in Nat \ {0} /\ b \in Nat \ {0} /\ c \in Nat \ {0}
  BY <1>0, ResultStreamAssumption DEF Contents, Types, Numbers, Places
<1>1. CASE Flush
  <2>1. (Types /\ BusOK)'
    BY <1>0, <1>p, <1>1, ResultStreamAssumption DEF Types, BusOK, Places, RunnerOK, Flush,
       backend, frontend, acks
  <2>2. RunnerOK'
    BY <1>0, <1>1 DEF RunnerOK, Flush, backend, frontend, acks
  <2>3. Contents'
    BY <1>0, <1>1 DEF Contents, Entries, Waiting, Flush, backend, frontend, acks
  <2>4. Numbered'
    BY <1>0, <1>1 DEF Numbered, Flush, backend, frontend, acks
  <2>5. EndsAreTrue'
    BY <1>0, <1>1 DEF EndsAreTrue, Truth, Flush, backend, frontend, acks
  <2>6. DoneIsLast'
    BY <1>0, <1>1 DEF DoneIsLast, Flush, backend, frontend, acks
  <2>7. ToldAll'
    BY <1>0, <1>1 DEF ToldAll, Flush, backend, frontend, acks
  <2>8. Handed(g, f, b)'
    BY <1>p, <1>1 DEF Handed, Flush, backend, frontend, acks
  <2>9. Emitted(b, c)'
    BY <1>p, <1>1 DEF Emitted, Flush, backend, frontend, acks
  <2>10. Paid(a)'
    BY <1>0, <1>p, <1>1, ResultStreamAssumption DEF Paid, Types, Flush, backend, frontend,
       acks
  <2>11. Owed(b, a)'
    BY <1>0, <1>p, <1>1 DEF Owed, Flush, backend, frontend, acks
  <2> QED
    BY <1>p, <2>1, <2>2, <2>3, <2>4, <2>5, <2>6, <2>7, <2>8, <2>9, <2>10, <2>11 DEF IInv,
       Flows
<1>2. CASE Ack
  <2>1. (Types /\ BusOK)'
    BY <1>0, <1>2 DEF Types, BusOK, Ack, backend, frontend, acks
  <2>2. RunnerOK'
    BY <1>0, <1>2 DEF RunnerOK, Ack, backend, frontend, acks
  <2>3. Contents'
    BY <1>0, <1>2 DEF Contents, Entries, Waiting, Ack, backend, frontend, acks
  <2>4. Numbered'
    BY <1>0, <1>2 DEF Numbered, Ack, backend, frontend, acks
  <2>5. EndsAreTrue'
    BY <1>0, <1>2 DEF EndsAreTrue, Truth, Ack, backend, frontend, acks
  <2>6. DoneIsLast'
    BY <1>0, <1>2 DEF DoneIsLast, Ack, backend, frontend, acks
  <2>7. ToldAll'
    BY <1>0, <1>2 DEF ToldAll, Ack, backend, frontend, acks
  <2>8. Handed(g, f, b)'
    BY <1>p, <1>2 DEF Handed, Ack, backend, frontend, acks
  <2>9. Emitted(b, c)'
    BY <1>p, <1>2 DEF Emitted, Ack, backend, frontend, acks
  <2>10. Paid(a)'
    BY <1>0, <1>p, <1>2, ResultStreamAssumption DEF Paid, Types, Ack, backend, frontend,
       acks
  <2>11. Owed(b, a)'
    BY <1>0, <1>p, <1>2 DEF Owed, Ack, backend, frontend, acks
  <2> QED
    BY <1>p, <2>1, <2>2, <2>3, <2>4, <2>5, <2>6, <2>7, <2>8, <2>9, <2>10, <2>11 DEF IInv,
       Flows
<1> QED
  BY <1>1, <1>2

\* The webview dispatches an event.
LEMMA DispatchStep ==
    ASSUME IInv, Dispatch
    PROVE  IInv'
<1>0. /\ Types /\ RunnerOK /\ BusOK /\ Contents /\ Numbered /\ EndsAreTrue
      /\ DoneIsLast /\ ToldAll /\ Flows
  BY DEF IInv
<1>p. PICK g, f, b, c \in Places, a \in 0..Chunks :
         Handed(g, f, b) /\ Emitted(b, c) /\ Paid(a) /\ Owed(b, a)
  BY <1>0 DEF Flows
<1>s. /\ channel \in Seq(Nat) /\ got \in Seq(Nat) /\ cache.chunks \in Seq(Nat)
      /\ Places \subseteq Nat \ {0} /\ next \in Nat
      /\ g \in Nat \ {0} /\ f \in Nat \ {0} /\ b \in Nat \ {0} /\ c \in Nat \ {0}
  BY <1>0, ResultStreamAssumption DEF Contents, Types, Numbers, Places
<1>e. /\ events # <<>> /\ events' = Tail(events)
      /\ events \in Seq(Entries) /\ EventsNumbered(events)
      /\ UNCHANGED <<backend, serial, sub, swept, flying>>
  BY <1>0 DEF Dispatch, Contents, Numbered, EventsNumbered
<1>u. UNCHANGED <<run, outcome, next, credit, channel, emitter, asked, serial, sub, swept,
                  flying>>
  BY <1>e DEF backend
<1>t. /\ Tail(events) \in Seq(Entries) /\ Len(Tail(events)) = Len(events) - 1
      /\ Len(events) \in Nat \ {0} /\ Head(events) = events[1] /\ Head(events) \in Entries
      /\ \A i \in 1..Len(events) - 1 : /\ Tail(events)[i] = events[i + 1]
                                       /\ i + 1 \in 1..Len(events)
      /\ Head(events).type = "chunk" => /\ Head(events).n = b /\ b < c
                                        /\ Counts(EventNums(Tail(events)), b + 1, c)
      /\ Head(events).type # "chunk" => /\ Counts(EventNums(Tail(events)), b, c)
                                        /\ EventsOpen(Tail(events))
  <2>1. Counts(EventNums(events), b, c)
    BY <1>p DEF Emitted
  <2> QED
    BY <1>s, <1>e, <2>1, EventsRest
<1>1. CASE /\ Head(events).type = "chunk" /\ bus /\ serial
           /\ queue' = Append(queue, [what |-> "chunk", n |-> Head(events).n, ack |-> TRUE])
           /\ UNCHANGED <<bus, cache, working, ending, got, heard, toAck>>
  <2>a. /\ queue' = Append(queue, [what |-> "chunk", n |-> b, ack |-> TRUE])
        /\ bus /\ serial /\ UNCHANGED <<bus, cache, working, ending, got, heard, toAck>>
    BY <1>t, <1>1
  <2>c. /\ Head(events).type = "chunk" /\ Head(events).n = b /\ b < c /\ b \in 1..Chunks
        /\ b + 1 \in Places /\ b + 1 <= c /\ a + 1 \in 0..Chunks /\ b \in Numbers
        /\ Counts(EventNums(Tail(events)), b + 1, c)
    <3>1. Head(events).type = "chunk"
      BY <1>1
    <3>2. a < b
      BY <1>p DEF Owed
    <3> QED
      BY <1>s, <1>t, <3>1, <3>2, ResultStreamAssumption DEF Places, Numbers
  <2>d. /\ Append(queue, [what |-> "chunk", n |-> b, ack |-> TRUE]) \in Seq(Waiting)
        /\ Len(Append(queue, [what |-> "chunk", n |-> b, ack |-> TRUE])) = Len(queue) + 1
        /\ \A i \in 1..Len(queue) :
               Append(queue, [what |-> "chunk", n |-> b, ack |-> TRUE])[i] = queue[i]
        /\ Append(queue, [what |-> "chunk", n |-> b, ack |-> TRUE])[Len(queue) + 1]
               = [what |-> "chunk", n |-> b, ack |-> TRUE]
        /\ Counts(QueueNums(Append(queue, [what |-> "chunk", n |-> b, ack |-> TRUE])), f, b + 1)
    <3> DEFINE e == [what |-> "chunk", n |-> b, ack |-> TRUE]
    <3>1. e \in Waiting /\ e.what = "chunk" /\ e.n = b
      BY <2>c, ResultStreamAssumption DEF Waiting, Numbers
    <3>2. Counts(QueueNums(queue), f, b) /\ queue \in Seq(Waiting) /\ QueueNumbered(queue)
      BY <1>0, <1>p, <2>a DEF Handed, Contents, Numbered, QueueNumbered
    <3> HIDE DEF e
    <3>3. /\ Append(queue, e) \in Seq(Waiting) /\ Len(Append(queue, e)) = Len(queue) + 1
          /\ \A i \in 1..Len(queue) : Append(queue, e)[i] = queue[i]
          /\ Append(queue, e)[Len(queue) + 1] = e
          /\ Counts(QueueNums(Append(queue, e)), f, b + 1)
      <4>1. b \in Nat /\ f \in Nat \ {0}
        BY <1>s
      <4> QED
        BY <4>1, <3>1, <3>2, QueueOn
    <3> QED
      BY <3>3 DEF e
  <2>e. /\ Len(queue') = Len(queue) + 1 /\ Len(queue) \in Nat
        /\ \A i \in 1..Len(queue) : queue'[i] = queue[i]
        /\ queue'[Len(queue) + 1] = [what |-> "chunk", n |-> b, ack |-> TRUE]
        /\ \A i \in 1..Len(queue') : i \in 1..Len(queue) \/ i = Len(queue) + 1
    <3>1. Len(queue) \in Nat
      BY <1>0 DEF Contents
    <3> QED
      BY <2>a, <2>d, <3>1
  <2>f. working => Head(queue') = Head(queue)
    <3>1. working => queue # <<>>
      BY <1>0 DEF BusOK
    <3>2. queue # <<>> => Head(queue) = queue[1] /\ 1 \in 1..Len(queue)
      BY <1>0, EmptySeq, HeadTailProperties DEF Contents
    <3>3. Head(queue') = queue'[1]
      BY <2>a, <2>d, <2>e
    <3> QED
      BY <2>e, <3>1, <3>2, <3>3
  <2>1. (Types /\ BusOK)'
    <3>1. toAck \in Nat
      BY <1>0 DEF Types
    <3> QED
      BY <1>0, <2>a, <3>1, <1>u, <2>f, <2>e DEF Types, BusOK
  <2>2. RunnerOK'
    BY <1>0, <1>u DEF RunnerOK
  <2>3. Contents'
    BY <1>0, <1>e, <1>t, <2>a, <2>c, <1>u, <2>d DEF Contents
  <2>4. Numbered'
    <3>1. \A i \in 1..Len(events') : \E j \in 1..Len(events) : events'[i] = events[j]
      BY <1>e, <1>t
    <3>2. ASSUME NEW i \in 1..Len(queue')
          PROVE  /\ queue'[i].what = "chunk" => queue'[i].n \in 1..Chunks
                 /\ queue'[i].ack => queue'[i].what = "chunk"
      <4>1. CASE i \in 1..Len(queue)
        BY <1>0, <2>e, <4>1 DEF Numbered
      <4>2. CASE i = Len(queue) + 1
        BY <2>c, <2>e, <4>2
      <4> QED
        BY <2>e, <4>1, <4>2
    <3> QED
      BY <1>0, <3>1, <3>2 DEF Numbered
  <2>5. EndsAreTrue'
    <3>x. \A i \in 1..Len(events') : \E j \in 1..Len(events) : events'[i] = events[j]
      BY <1>e, <1>t
    <3>y. \A t : Truth(t)' <=> Truth(t)
      BY <1>e DEF Truth, backend
    <3>1. ASSUME NEW i \in 1..Len(queue'), queue'[i].what # "chunk"
          PROVE  i \in 1..Len(queue) /\ queue'[i] = queue[i]
      BY <2>e, <3>1
    <3> QED
      BY <1>0, <2>a, <3>1, <3>x, <3>y DEF EndsAreTrue
  <2>6. DoneIsLast'
    <3>1. outcome = "done" => /\ ~ cache.done
                              /\ \A i \in 1..Len(queue) : queue[i].what # "done"
                              /\ \A i \in 1..Len(events) - 1 : events[i].type = "chunk"
      BY <1>0, <1>e DEF DoneIsLast
    <3>2. outcome = "done" => \A i \in 1..Len(events') - 1 : events'[i].type = "chunk"
      BY <1>e, <1>t, <3>1
    <3>3. ASSUME outcome = "done", NEW i \in 1..Len(queue')
          PROVE  queue'[i].what # "done"
      BY <2>e, <3>1, <3>3
    <3> QED
      BY <2>a, <3>1, <3>2, <3>3, <1>u DEF DoneIsLast
  <2>7. ToldAll'
    BY <1>0, <2>a, <1>u DEF ToldAll
  <2>8. Handed(g, f, b + 1)'
    <3>1. sub # "none"
      BY <1>0, <2>a DEF BusOK
    <3> QED
      BY <1>p, <2>a, <2>d, <2>f, <3>1, <1>u DEF Handed
  <2>9. Emitted(b + 1, c)'
    BY <1>p, <1>s, <1>e, <1>t, <2>c, <1>u DEF Emitted
  <2>10. Paid(a)'
    BY <1>p, <2>a, <1>u DEF Paid
  <2>11. Owed(b + 1, a)'
    <3>1. ASSUME NEW i \in 1..Len(queue'), queue'[i].ack
          PROVE  a < queue'[i].n
      <4>1. CASE i \in 1..Len(queue)
        BY <1>p, <2>a, <2>e, <3>1, <4>1 DEF Owed
      <4>2. CASE i = Len(queue) + 1
        BY <1>p, <2>e, <4>2 DEF Owed
      <4> QED
        BY <2>e, <4>1, <4>2
    <3>2. a < b /\ a < b + 1 /\ a \in Nat /\ (a + 1 < b => a + 1 < b + 1)
      BY <1>p, <1>s, ResultStreamAssumption DEF Owed
    <3>3. working' /\ Head(queue').ack => a + 1 < b
      BY <1>p, <2>a, <2>f DEF Owed
    <3> QED
      BY <3>1, <3>2, <3>3 DEF Owed
  <2> QED
    BY <1>p, <2>a, <2>c, <2>d, <2>e, <2>f, <2>1, <2>2, <2>3, <2>4, <2>5, <2>6, <2>7, <2>8,
       <2>9, <2>10, <2>11 DEF IInv, Flows
<1>2. CASE /\ Head(events).type = "chunk" /\ bus /\ ~ serial
           /\ got' = Append(got, Head(events).n) /\ toAck' = toAck + 1
           /\ UNCHANGED <<bus, cache, queue, working, ending, heard>>
  <2>a. /\ got' = Append(got, b) /\ toAck' = toAck + 1 /\ queue = <<>>
        /\ bus /\ ~ serial /\ UNCHANGED <<bus, cache, queue, working, ending, heard>>
    BY <1>0, <1>t, <1>2 DEF BusOK
  <2>c. /\ Head(events).type = "chunk" /\ Head(events).n = b /\ b < c /\ b \in 1..Chunks
        /\ b + 1 \in Places /\ b + 1 <= c /\ a + 1 \in 0..Chunks /\ b \in Numbers
        /\ Counts(EventNums(Tail(events)), b + 1, c)
    <3>1. Head(events).type = "chunk"
      BY <1>2
    <3>2. a < b
      BY <1>p DEF Owed
    <3> QED
      BY <1>s, <1>t, <3>1, <3>2, ResultStreamAssumption DEF Places, Numbers
  <2>d. f = b
    <3>1. QueueNums(<<>>) = <<>>
      BY DEF QueueNums
    <3>2. Counts(<<>>, f, b) /\ <<>> \in Seq(Nat) /\ Len(<<>>) = 0 /\ Unended(<<>>)
      BY <1>p, <2>a, <3>1, CountsNothing, 0 \in Nat DEF Handed
    <3>3. b = f + Len(<<>>)
      BY <1>s, <3>2, CountsLen
    <3> QED
      BY <1>s, <3>2, <3>3
  <2>e. /\ Append(got, b) \in Seq(Numbers)
        /\ Counts(Append(got, b), g, b + 1) /\ Unended(Append(got, b))
        /\ Counts(QueueNums(<<>>), b + 1, b + 1)
    <3>1. Counts(got, g, b) /\ Unended(got) /\ got \in Seq(Numbers)
      BY <1>0, <1>p, <2>d DEF Handed, Contents
    <3>2. QueueNums(<<>>) = <<>> /\ Counts(<<>>, b + 1, b + 1)
      BY <1>s, CountsNothing DEF QueueNums
    <3> QED
      BY <1>s, <2>c, <3>1, <3>2, CountsOn, AppendProperties
  <2>1. (Types /\ BusOK)'
    <3>1. toAck \in Nat
      BY <1>0 DEF Types
    <3> QED
      BY <1>0, <2>a, <3>1, <1>u DEF Types, BusOK
  <2>2. RunnerOK'
    BY <1>0, <1>u DEF RunnerOK
  <2>3. Contents'
    BY <1>0, <1>e, <1>t, <2>a, <2>c, <1>u, <2>e DEF Contents
  <2>4. Numbered'
    <3>1. \A i \in 1..Len(events') : \E j \in 1..Len(events) : events'[i] = events[j]
      BY <1>e, <1>t
    <3> QED
      BY <1>0, <2>a, <3>1 DEF Numbered
  <2>5. EndsAreTrue'
    <3>x. \A i \in 1..Len(events') : \E j \in 1..Len(events) : events'[i] = events[j]
      BY <1>e, <1>t
    <3>y. \A t : Truth(t)' <=> Truth(t)
      BY <1>e DEF Truth, backend
    <3> QED
      BY <1>0, <2>a, <3>x, <3>y DEF EndsAreTrue
  <2>6. DoneIsLast'
    <3>1. outcome = "done" => /\ ~ cache.done
                              /\ \A i \in 1..Len(queue) : queue[i].what # "done"
                              /\ \A i \in 1..Len(events) - 1 : events[i].type = "chunk"
      BY <1>0, <1>e DEF DoneIsLast
    <3>2. outcome = "done" => \A i \in 1..Len(events') - 1 : events'[i].type = "chunk"
      BY <1>e, <1>t, <3>1
    <3> QED
      BY <2>a, <3>1, <3>2, <1>u DEF DoneIsLast
  <2>7. ToldAll'
    <3>1. ASSUME Len(got) = Chunks, ~ swept
          PROVE  FALSE
      <4>1. Counts(got, g, f) /\ Unended(got) /\ g = 1
        BY <1>p, <3>1 DEF Handed
      <4>2. f = 1 + Chunks
        BY <1>s, <3>1, <4>1, CountsLen
      <4> QED
        BY <2>c, <2>d, <4>2, ResultStreamAssumption
    <3> QED
      BY <1>0, <2>a, <3>1, <1>u DEF ToldAll
  <2>8. Handed(g, b + 1, b + 1)'
    <3>1. sub # "none" /\ ~ working
      BY <1>0, <2>a DEF BusOK
    <3> QED
      BY <1>p, <2>a, <2>e, <3>1, <1>u DEF Handed
  <2>9. Emitted(b + 1, c)'
    BY <1>p, <1>s, <1>e, <1>t, <2>c, <1>u DEF Emitted
  <2>10. Paid(a + 1)'
    <3>1. credit \in Nat /\ flying \in Nat /\ toAck \in Nat /\ a \in Nat
      BY <1>0, ResultStreamAssumption DEF Types
    <3> QED
      BY <1>p, <2>a, <3>1, <1>u, ResultStreamAssumption DEF Paid
  <2>11. Owed(b + 1, a + 1)'
    <3>1. ~ working /\ Len(queue) = 0
      BY <1>0, <2>a DEF BusOK
    <3> QED
      BY <1>p, <1>s, <2>a, <3>1 DEF Owed
  <2> QED
    BY <1>p, <2>a, <2>c, <2>d, <2>e, <2>1, <2>2, <2>3, <2>4, <2>5, <2>6, <2>7, <2>8, <2>9,
       <2>10, <2>11 DEF IInv, Flows
<1>3. CASE /\ Head(events).type = "chunk" /\ ~ bus
           /\ cache' = [Cached EXCEPT !.chunks = Append(@, Head(events).n)]
           /\ toAck' = toAck + 1
           /\ UNCHANGED <<bus, queue, working, ending, got, heard>>
  <2>a. /\ toAck' = toAck + 1 /\ ~ bus
        /\ cache'.chunks = Append(cache.chunks, b) /\ cache'.done = cache.done
        /\ cache'.error = cache.error /\ cache'.kept = TRUE /\ cache'.old = cache.old
        /\ cache' = [kept |-> TRUE, chunks |-> Append(cache.chunks, b), done |-> cache.done,
                     error |-> cache.error, old |-> cache.old]
        /\ UNCHANGED <<bus, queue, working, ending, got, heard>>
    BY <1>0, <1>t, <1>3 DEF Contents, Cached
  <2>c. /\ Head(events).type = "chunk" /\ Head(events).n = b /\ b < c /\ b \in 1..Chunks
        /\ b + 1 \in Places /\ b + 1 <= c /\ a + 1 \in 0..Chunks /\ b \in Numbers
        /\ Counts(EventNums(Tail(events)), b + 1, c)
    <3>1. Head(events).type = "chunk"
      BY <1>3
    <3>2. a < b
      BY <1>p DEF Owed
    <3> QED
      BY <1>s, <1>t, <3>1, <3>2, ResultStreamAssumption DEF Places, Numbers
  <2>d. /\ Append(cache.chunks, b) \in Seq(Numbers)
        /\ sub = "none" => /\ Counts(Append(cache.chunks, b), f, b + 1)
                           /\ Unended(Append(cache.chunks, b))
    <3>1. cache.chunks \in Seq(Numbers)
      BY <1>0 DEF Contents
    <3>2. sub = "none" => Counts(cache.chunks, f, b) /\ Unended(cache.chunks)
      BY <1>p DEF Handed
    <3> QED
      BY <1>s, <2>c, <3>1, <3>2, CountsOn, AppendProperties
  <2>1. (Types /\ BusOK)'
    <3>1. toAck \in Nat
      BY <1>0 DEF Types
    <3> QED
      BY <1>0, <2>a, <3>1, <1>u DEF Types, BusOK
  <2>2. RunnerOK'
    BY <1>0, <1>u DEF RunnerOK
  <2>3. Contents'
    BY <1>0, <1>e, <1>t, <2>a, <2>c, <1>u, <2>d DEF Contents
  <2>4. Numbered'
    <3>1. \A i \in 1..Len(events') : \E j \in 1..Len(events) : events'[i] = events[j]
      BY <1>e, <1>t
    <3> QED
      BY <1>0, <2>a, <3>1 DEF Numbered
  <2>5. EndsAreTrue'
    <3>x. \A i \in 1..Len(events') : \E j \in 1..Len(events) : events'[i] = events[j]
      BY <1>e, <1>t
    <3>y. \A t : Truth(t)' <=> Truth(t)
      BY <1>e DEF Truth, backend
    <3> QED
      BY <1>0, <2>a, <3>x, <3>y DEF EndsAreTrue
  <2>6. DoneIsLast'
    <3>1. outcome = "done" => /\ ~ cache.done
                              /\ \A i \in 1..Len(queue) : queue[i].what # "done"
                              /\ \A i \in 1..Len(events) - 1 : events[i].type = "chunk"
      BY <1>0, <1>e DEF DoneIsLast
    <3>2. outcome = "done" => \A i \in 1..Len(events') - 1 : events'[i].type = "chunk"
      BY <1>e, <1>t, <3>1
    <3> QED
      BY <2>a, <3>1, <3>2, <1>u DEF DoneIsLast
  <2>7. ToldAll'
    BY <1>0, <2>a, <1>u DEF ToldAll
  <2>8. Handed(g, f, b + 1)'
    BY <1>p, <2>a, <2>d, <1>u DEF Handed
  <2>9. Emitted(b + 1, c)'
    BY <1>p, <1>s, <1>e, <1>t, <2>c, <1>u DEF Emitted
  <2>10. Paid(a + 1)'
    <3>1. credit \in Nat /\ flying \in Nat /\ toAck \in Nat /\ a \in Nat
      BY <1>0, ResultStreamAssumption DEF Types
    <3> QED
      BY <1>p, <2>a, <3>1, <1>u, ResultStreamAssumption DEF Paid
  <2>11. Owed(b + 1, a + 1)'
    BY <1>p, <1>s, <2>a DEF Owed
  <2> QED
    BY <1>p, <2>a, <2>c, <2>d, <2>1, <2>2, <2>3, <2>4, <2>5, <2>6, <2>7, <2>8, <2>9, <2>10,
       <2>11 DEF IInv, Flows
<1>4. CASE /\ Head(events).type # "chunk" /\ bus /\ serial
           /\ cache' = IF Head(events).type = "done" THEN [Cached EXCEPT !.done = TRUE]
                       ELSE [Cached EXCEPT !.error = TRUE]
           /\ queue' = Append(queue, [what |-> Head(events).type, n |-> 0, ack |-> FALSE])
           /\ UNCHANGED <<bus, heard, working, ending, got, toAck>>
  <2>a. /\ queue' = Append(queue, [what |-> Head(events).type, n |-> 0, ack |-> FALSE])
        /\ bus /\ serial /\ UNCHANGED <<bus, working, ending, got, heard, toAck>>
    BY <1>4
  <2>b. cache' = IF Head(events).type = "done" THEN [Cached EXCEPT !.done = TRUE]
                 ELSE [Cached EXCEPT !.error = TRUE]
    BY <1>4
  <2>c. /\ Head(events).type \in {"done", "error"} /\ Truth(Head(events).type)
        /\ EventsOpen(Tail(events)) /\ QueueOpen(queue) /\ ~ cache.done /\ ~ cache.error
        /\ Counts(EventNums(Tail(events)), b, c)
    <3>1. Head(events).type \in {"done", "error"}
      BY <1>t, <1>4 DEF Entries
    <3>2. 1 \in 1..Len(events) /\ events[1].type # "chunk"
      BY <1>t, <3>1
    <3> QED
      BY <1>0, <1>t, <3>1, <3>2 DEF EndsAreTrue, QueueOpen
  <2>h. cache' = [kept |-> TRUE, chunks |-> cache.chunks,
                  done |-> Head(events).type = "done",
                  error |-> Head(events).type # "done", old |-> cache.old]
    BY <1>0, <2>b, <2>c DEF Contents, Cached
  <2>i. /\ cache'.chunks = cache.chunks
        /\ cache'.done => Truth("done") /\ Head(events).type = "done"
        /\ cache'.error => Truth("error")
    BY <2>c, <2>h
  <2>j. outcome = "done" => Tail(events) = <<>>
    <3>1. ASSUME outcome = "done"
          PROVE  Len(Tail(events)) = 0
      <4>1. \A i \in 1..Len(events) - 1 : events[i].type = "chunk"
        BY <1>0, <3>1 DEF DoneIsLast
      <4>2. events[1].type # "chunk"
        BY <1>t, <2>c
      <4>3. ~ (1 \in 1..Len(events) - 1)
        BY <4>1, <4>2
      <4> QED
        BY <1>t, <4>3
    <3> QED
      BY <1>t, <3>1, EmptySeq
  <2>d. /\ Append(queue, [what |-> Head(events).type, n |-> 0, ack |-> FALSE]) \in Seq(Waiting)
        /\ Len(Append(queue, [what |-> Head(events).type, n |-> 0, ack |-> FALSE]))
               = Len(queue) + 1
        /\ \A i \in 1..Len(queue) :
               Append(queue, [what |-> Head(events).type, n |-> 0, ack |-> FALSE])[i] = queue[i]
        /\ Append(queue, [what |-> Head(events).type, n |-> 0, ack |-> FALSE])[Len(queue) + 1]
               = [what |-> Head(events).type, n |-> 0, ack |-> FALSE]
        /\ Counts(QueueNums(Append(queue,
                                   [what |-> Head(events).type, n |-> 0, ack |-> FALSE])),
                  f, b)
    <3> DEFINE e == [what |-> Head(events).type, n |-> 0, ack |-> FALSE]
    <3>1. e \in Waiting /\ e.what # "chunk" /\ QueueOpen(queue) /\ e.n = 0
      BY <2>c, ResultStreamAssumption DEF Waiting, Numbers
    <3>2. Counts(QueueNums(queue), f, b) /\ queue \in Seq(Waiting) /\ QueueNumbered(queue)
      BY <1>0, <1>p, <2>a DEF Handed, Contents, Numbered, QueueNumbered
    <3> HIDE DEF e
    <3>3. /\ Append(queue, e) \in Seq(Waiting) /\ Len(Append(queue, e)) = Len(queue) + 1
          /\ \A i \in 1..Len(queue) : Append(queue, e)[i] = queue[i]
          /\ Append(queue, e)[Len(queue) + 1] = e
          /\ Counts(QueueNums(Append(queue, e)), f, b)
      <4>1. b \in Nat /\ f \in Nat \ {0}
        BY <1>s
      <4> QED
        BY <4>1, <3>1, <3>2, QueueOn
    <3> QED
      BY <3>3 DEF e
  <2>e. /\ Len(queue') = Len(queue) + 1 /\ Len(queue) \in Nat
        /\ \A i \in 1..Len(queue) : queue'[i] = queue[i]
        /\ queue'[Len(queue) + 1] = [what |-> Head(events).type, n |-> 0, ack |-> FALSE]
        /\ \A i \in 1..Len(queue') : i \in 1..Len(queue) \/ i = Len(queue) + 1
    <3>1. Len(queue) \in Nat
      BY <1>0 DEF Contents
    <3> QED
      BY <2>a, <2>d, <3>1
  <2>f. working => Head(queue') = Head(queue)
    <3>1. working => queue # <<>>
      BY <1>0 DEF BusOK
    <3>2. queue # <<>> => Head(queue) = queue[1] /\ 1 \in 1..Len(queue)
      BY <1>0, EmptySeq, HeadTailProperties DEF Contents
    <3>3. Head(queue') = queue'[1]
      BY <2>a, <2>d, <2>e
    <3> QED
      BY <2>e, <3>1, <3>2, <3>3
  <2>1. (Types /\ BusOK)'
    <3>1. toAck \in Nat
      BY <1>0 DEF Types
    <3> QED
      BY <1>0, <2>a, <3>1, <1>u, <2>f, <2>e DEF Types, BusOK
  <2>2. RunnerOK'
    BY <1>0, <1>u DEF RunnerOK
  <2>3. Contents'
    BY <1>0, <1>e, <1>t, <2>a, <2>c, <1>u, <2>d, <2>h DEF Contents
  <2>4. Numbered'
    <3>1. \A i \in 1..Len(events') : \E j \in 1..Len(events) : events'[i] = events[j]
      BY <1>e, <1>t
    <3>2. ASSUME NEW i \in 1..Len(queue')
          PROVE  /\ queue'[i].what = "chunk" => queue'[i].n \in 1..Chunks
                 /\ queue'[i].ack => queue'[i].what = "chunk"
      <4>1. CASE i \in 1..Len(queue)
        BY <1>0, <2>e, <4>1 DEF Numbered
      <4>2. CASE i = Len(queue) + 1
        BY <2>c, <2>e, <4>2
      <4> QED
        BY <2>e, <4>1, <4>2
    <3> QED
      BY <1>0, <3>1, <3>2 DEF Numbered
  <2>5. EndsAreTrue'
    <3>x. \A i \in 1..Len(events') : \E j \in 1..Len(events) : events'[i] = events[j]
      BY <1>e, <1>t
    <3>y. \A t : Truth(t)' <=> Truth(t)
      BY <1>e DEF Truth, backend
    <3>1. \A i \in 1..Len(events') : events'[i].type = "chunk"
      BY <1>e, <2>c DEF EventsOpen
    <3>2. \A i \in 1..Len(queue') : queue'[i].what # "chunk" => Truth(queue'[i].what)
      BY <2>c, <2>e DEF QueueOpen
    <3>3. \A i \in 1..Len(heard') : Truth(heard'[i])
      BY <1>0, <2>a DEF EndsAreTrue
    <3> QED
      BY <2>i, <3>1, <3>2, <3>3, <3>y DEF EndsAreTrue
  <2>6. DoneIsLast'
    <3>1. outcome = "done" => events' = <<>>
      BY <1>e, <2>j
    <3>2. \A i \in 1..Len(queue') : queue'[i].what = "done" => i = Len(queue')
      BY <2>c, <2>e DEF QueueOpen
    <3>3. events' = <<>> => \A i \in 1..Len(events') - 1 : events'[i].type = "chunk"
      OBVIOUS
    <3> QED
      BY <3>1, <3>2, <3>3, <1>u DEF DoneIsLast
  <2>7. ToldAll'
    BY <1>0, <2>a, <1>u DEF ToldAll
  <2>8. Handed(g, f, b)'
    <3>1. sub # "none"
      BY <1>0, <2>a DEF BusOK
    <3> QED
      BY <1>p, <2>a, <2>d, <2>f, <3>1, <1>u DEF Handed
  <2>9. Emitted(b, c)'
    BY <1>p, <1>s, <1>e, <1>t, <2>c, <1>u DEF Emitted
  <2>10. Paid(a)'
    BY <1>p, <2>a, <1>u DEF Paid
  <2>11. Owed(b, a)'
    <3>1. ASSUME NEW i \in 1..Len(queue'), queue'[i].ack
          PROVE  a < queue'[i].n
      <4>1. i \in 1..Len(queue)
        BY <2>e, <3>1
      <4> QED
        BY <1>p, <2>a, <2>e, <3>1, <4>1 DEF Owed
    <3> QED
      BY <1>p, <2>a, <2>f, <3>1 DEF Owed
  <2> QED
    BY <1>p, <2>a, <2>b, <2>c, <2>h, <2>i, <2>j, <2>d, <2>e, <2>f, <2>1, <2>2, <2>3, <2>4,
       <2>5, <2>6, <2>7, <2>8, <2>9, <2>10, <2>11 DEF IInv, Flows
<1>5. CASE /\ Head(events).type # "chunk" /\ bus /\ ~ serial
           /\ cache' = IF Head(events).type = "done" THEN [Cached EXCEPT !.done = TRUE]
                       ELSE [Cached EXCEPT !.error = TRUE]
           /\ heard' = Append(heard, Head(events).type) /\ bus' = FALSE
           /\ UNCHANGED <<queue, working, ending, got, toAck>>
  <2>a. /\ heard' = Append(heard, Head(events).type) /\ bus' = FALSE
        /\ bus /\ ~ serial /\ queue = <<>>
        /\ UNCHANGED <<queue, working, ending, got, toAck>>
    BY <1>0, <1>5 DEF BusOK
  <2>b. cache' = IF Head(events).type = "done" THEN [Cached EXCEPT !.done = TRUE]
                 ELSE [Cached EXCEPT !.error = TRUE]
    BY <1>5
  <2>c. /\ Head(events).type \in {"done", "error"} /\ Truth(Head(events).type)
        /\ EventsOpen(Tail(events)) /\ QueueOpen(queue) /\ ~ cache.done /\ ~ cache.error
        /\ Counts(EventNums(Tail(events)), b, c)
    <3>1. Head(events).type \in {"done", "error"}
      BY <1>t, <1>5 DEF Entries
    <3>2. 1 \in 1..Len(events) /\ events[1].type # "chunk"
      BY <1>t, <3>1
    <3> QED
      BY <1>0, <1>t, <3>1, <3>2 DEF EndsAreTrue, QueueOpen
  <2>h. cache' = [kept |-> TRUE, chunks |-> cache.chunks,
                  done |-> Head(events).type = "done",
                  error |-> Head(events).type # "done", old |-> cache.old]
    BY <1>0, <2>b, <2>c DEF Contents, Cached
  <2>i. /\ cache'.chunks = cache.chunks
        /\ cache'.done => Truth("done") /\ Head(events).type = "done"
        /\ cache'.error => Truth("error")
    BY <2>c, <2>h
  <2>j. outcome = "done" => Tail(events) = <<>>
    <3>1. ASSUME outcome = "done"
          PROVE  Len(Tail(events)) = 0
      <4>1. \A i \in 1..Len(events) - 1 : events[i].type = "chunk"
        BY <1>0, <3>1 DEF DoneIsLast
      <4>2. events[1].type # "chunk"
        BY <1>t, <2>c
      <4>3. ~ (1 \in 1..Len(events) - 1)
        BY <4>1, <4>2
      <4> QED
        BY <1>t, <4>3
    <3> QED
      BY <1>t, <3>1, EmptySeq
  <2>d. /\ Append(heard, Head(events).type) \in Seq({"done", "error"})
        /\ \A i \in 1..Len(heard') : \/ i \in 1..Len(heard) /\ heard'[i] = heard[i]
                                     \/ heard'[i] = Head(events).type
    <3>1. heard \in Seq({"done", "error"}) /\ Len(heard) \in Nat
      BY <1>0 DEF Contents
    <3>2. /\ Append(heard, Head(events).type) \in Seq({"done", "error"})
          /\ Len(Append(heard, Head(events).type)) = Len(heard) + 1
          /\ \A i \in 1..Len(heard) : Append(heard, Head(events).type)[i] = heard[i]
          /\ Append(heard, Head(events).type)[Len(heard) + 1] = Head(events).type
      BY <2>c, <3>1, AppendProperties
    <3> QED
      BY <2>a, <3>1, <3>2
  <2>1. (Types /\ BusOK)'
    <3>1. toAck \in Nat
      BY <1>0 DEF Types
    <3> QED
      BY <1>0, <2>a, <3>1, <1>u DEF Types, BusOK
  <2>2. RunnerOK'
    BY <1>0, <1>u DEF RunnerOK
  <2>3. Contents'
    BY <1>0, <1>e, <1>t, <2>a, <2>c, <1>u, <2>d, <2>h DEF Contents
  <2>4. Numbered'
    <3>1. \A i \in 1..Len(events') : \E j \in 1..Len(events) : events'[i] = events[j]
      BY <1>e, <1>t
    <3> QED
      BY <1>0, <2>a, <3>1 DEF Numbered
  <2>5. EndsAreTrue'
    <3>x. \A i \in 1..Len(events') : \E j \in 1..Len(events) : events'[i] = events[j]
      BY <1>e, <1>t
    <3>y. \A t : Truth(t)' <=> Truth(t)
      BY <1>e DEF Truth, backend
    <3>1. \A i \in 1..Len(events') : events'[i].type = "chunk"
      BY <1>e, <2>c DEF EventsOpen
    <3>2. \A i \in 1..Len(queue') : queue'[i].what # "chunk" => Truth(queue'[i].what)
      BY <1>0, <2>a DEF EndsAreTrue
    <3>3. \A i \in 1..Len(heard') : Truth(heard'[i])
      BY <1>0, <2>c, <2>d DEF EndsAreTrue
    <3> QED
      BY <2>i, <3>1, <3>2, <3>3, <3>y DEF EndsAreTrue
  <2>6. DoneIsLast'
    <3>1. outcome = "done" => events' = <<>>
      BY <1>e, <2>j
    <3>2. \A i \in 1..Len(queue') : queue'[i].what = "done" => i = Len(queue')
      BY <2>a
    <3>3. events' = <<>> => \A i \in 1..Len(events') - 1 : events'[i].type = "chunk"
      OBVIOUS
    <3> QED
      BY <3>1, <3>2, <3>3, <1>u DEF DoneIsLast
  <2>7. ToldAll'
    <3>1. ASSUME Head(events).type = "done"
          PROVE  \/ outcome = "cut"
                 \/ outcome = "done" /\ (Len(got) = Chunks \/ swept \/ emitter = "broken")
      <4>1. SUFFICES ASSUME outcome = "done", ~ swept, emitter # "broken"
                     PROVE  Len(got) = Chunks
        BY <2>c, <3>1 DEF Truth
      <4>2. emitter = "over"
        BY <1>0, <2>c, <3>1, <4>1 DEF Truth, Types
      <4>3. b = Chunks + 1
        <5>1. Counts(EventNums(<<>>), b, c) /\ Counts(channel, c, next)
          BY <1>p, <2>c, <2>j, <4>1 DEF Emitted
        <5> QED
          BY <1>0, <4>1, <4>2, <5>1, AtTheEnd
      <4>4. f = b
        <5>1. QueueNums(<<>>) = <<>>
          BY DEF QueueNums
        <5>2. Counts(<<>>, f, b) /\ <<>> \in Seq(Nat) /\ Len(<<>>) = 0 /\ Unended(<<>>)
          BY <1>p, <2>a, <5>1, CountsNothing, 0 \in Nat DEF Handed
        <5>3. b = f + Len(<<>>)
          BY <1>s, <5>2, CountsLen
        <5> QED
          BY <1>s, <5>2, <5>3
      <4>5. f = g + Len(got) /\ g = 1 /\ Len(got) \in Nat
        <5>1. Counts(got, g, f) /\ Unended(got) /\ g = 1
          BY <1>p, <4>1 DEF Handed
        <5>2. f = g + Len(got)
          BY <1>s, <5>1, CountsLen
        <5> QED
          BY <1>s, <5>1, <5>2
      <4> QED
        BY <4>3, <4>4, <4>5, ResultStreamAssumption
    <3> QED
      BY <1>0, <2>a, <2>d, <3>1, <1>u DEF ToldAll
  <2>8. Handed(g, f, b)'
    <3>1. sub # "none" /\ ~ working
      BY <1>0, <2>a DEF BusOK
    <3> QED
      BY <1>p, <2>a, <3>1, <1>u DEF Handed
  <2>9. Emitted(b, c)'
    BY <1>p, <1>s, <1>e, <1>t, <2>c, <1>u DEF Emitted
  <2>10. Paid(a)'
    BY <1>p, <2>a, <1>u DEF Paid
  <2>11. Owed(b, a)'
    <3>1. ~ working
      BY <1>0, <2>a DEF BusOK
    <3> QED
      BY <1>p, <2>a, <3>1 DEF Owed
  <2> QED
    BY <1>p, <2>a, <2>b, <2>c, <2>h, <2>i, <2>j, <2>d, <2>1, <2>2, <2>3, <2>4, <2>5, <2>6,
       <2>7, <2>8, <2>9, <2>10, <2>11 DEF IInv, Flows
<1>6. CASE /\ Head(events).type # "chunk" /\ ~ bus
           /\ cache' = IF Head(events).type = "done" THEN [Cached EXCEPT !.done = TRUE]
                       ELSE [Cached EXCEPT !.error = TRUE]
           /\ UNCHANGED <<bus, heard, queue, working, ending, got, toAck>>
  <2>a. ~ bus /\ UNCHANGED <<bus, heard, queue, working, ending, got, toAck>>
    BY <1>6
  <2>b. cache' = IF Head(events).type = "done" THEN [Cached EXCEPT !.done = TRUE]
                 ELSE [Cached EXCEPT !.error = TRUE]
    BY <1>6
  <2>c. /\ Head(events).type \in {"done", "error"} /\ Truth(Head(events).type)
        /\ EventsOpen(Tail(events)) /\ QueueOpen(queue) /\ ~ cache.done /\ ~ cache.error
        /\ Counts(EventNums(Tail(events)), b, c)
    <3>1. Head(events).type \in {"done", "error"}
      BY <1>t, <1>6 DEF Entries
    <3>2. 1 \in 1..Len(events) /\ events[1].type # "chunk"
      BY <1>t, <3>1
    <3> QED
      BY <1>0, <1>t, <3>1, <3>2 DEF EndsAreTrue, QueueOpen
  <2>h. cache' = [kept |-> TRUE, chunks |-> cache.chunks,
                  done |-> Head(events).type = "done",
                  error |-> Head(events).type # "done", old |-> cache.old]
    BY <1>0, <2>b, <2>c DEF Contents, Cached
  <2>i. /\ cache'.chunks = cache.chunks
        /\ cache'.done => Truth("done") /\ Head(events).type = "done"
        /\ cache'.error => Truth("error")
    BY <2>c, <2>h
  <2>j. outcome = "done" => Tail(events) = <<>>
    <3>1. ASSUME outcome = "done"
          PROVE  Len(Tail(events)) = 0
      <4>1. \A i \in 1..Len(events) - 1 : events[i].type = "chunk"
        BY <1>0, <3>1 DEF DoneIsLast
      <4>2. events[1].type # "chunk"
        BY <1>t, <2>c
      <4>3. ~ (1 \in 1..Len(events) - 1)
        BY <4>1, <4>2
      <4> QED
        BY <1>t, <4>3
    <3> QED
      BY <1>t, <3>1, EmptySeq
  <2>1. (Types /\ BusOK)'
    <3>1. toAck \in Nat
      BY <1>0 DEF Types
    <3> QED
      BY <1>0, <2>a, <3>1, <1>u DEF Types, BusOK
  <2>2. RunnerOK'
    BY <1>0, <1>u DEF RunnerOK
  <2>3. Contents'
    BY <1>0, <1>e, <1>t, <2>a, <2>c, <1>u, <2>h DEF Contents
  <2>4. Numbered'
    <3>1. \A i \in 1..Len(events') : \E j \in 1..Len(events) : events'[i] = events[j]
      BY <1>e, <1>t
    <3> QED
      BY <1>0, <2>a, <3>1 DEF Numbered
  <2>5. EndsAreTrue'
    <3>x. \A i \in 1..Len(events') : \E j \in 1..Len(events) : events'[i] = events[j]
      BY <1>e, <1>t
    <3>y. \A t : Truth(t)' <=> Truth(t)
      BY <1>e DEF Truth, backend
    <3>1. \A i \in 1..Len(events') : events'[i].type = "chunk"
      BY <1>e, <2>c DEF EventsOpen
    <3>2. \A i \in 1..Len(queue') : queue'[i].what # "chunk" => Truth(queue'[i].what)
      BY <1>0, <2>a DEF EndsAreTrue
    <3>3. \A i \in 1..Len(heard') : Truth(heard'[i])
      BY <1>0, <2>a DEF EndsAreTrue
    <3> QED
      BY <2>i, <3>1, <3>2, <3>3, <3>y DEF EndsAreTrue
  <2>6. DoneIsLast'
    <3>1. outcome = "done" => events' = <<>>
      BY <1>e, <2>j
    <3>2. \A i \in 1..Len(queue') : queue'[i].what = "done" => i = Len(queue')
      BY <2>a, <2>c DEF QueueOpen
    <3>3. events' = <<>> => \A i \in 1..Len(events') - 1 : events'[i].type = "chunk"
      OBVIOUS
    <3> QED
      BY <3>1, <3>2, <3>3, <1>u DEF DoneIsLast
  <2>7. ToldAll'
    BY <1>0, <2>a, <1>u DEF ToldAll
  <2>8. Handed(g, f, b)'
    BY <1>p, <2>a, <2>i, <1>u DEF Handed
  <2>9. Emitted(b, c)'
    BY <1>p, <1>s, <1>e, <1>t, <2>c, <1>u DEF Emitted
  <2>10. Paid(a)'
    BY <1>p, <2>a, <1>u DEF Paid
  <2>11. Owed(b, a)'
    BY <1>p, <2>a DEF Owed
  <2> QED
    BY <1>p, <2>a, <2>b, <2>c, <2>h, <2>i, <2>j, <2>1, <2>2, <2>3, <2>4, <2>5, <2>6, <2>7,
       <2>8, <2>9, <2>10, <2>11 DEF IInv, Flows
<1>7. \/ Head(events).type = "chunk" /\ HearChunk(Head(events).n)
      \/ Head(events).type # "chunk" /\ HearEnd(Head(events).type)
  BY DEF Dispatch
<1>8. CASE Head(events).type = "chunk" /\ HearChunk(Head(events).n)
  BY <1>1, <1>2, <1>3, <1>8 DEF HearChunk
<1>9. CASE Head(events).type # "chunk" /\ HearEnd(Head(events).type)
  <2>1. /\ Head(events).type # "chunk"
        /\ cache' = IF Head(events).type = "done" THEN [Cached EXCEPT !.done = TRUE]
                    ELSE [Cached EXCEPT !.error = TRUE]
        /\ UNCHANGED <<working, ending, got, toAck>>
    BY <1>9 DEF HearEnd
  <2>2. CASE /\ bus /\ serial
             /\ queue' = Append(queue, [what |-> Head(events).type, n |-> 0, ack |-> FALSE])
             /\ UNCHANGED <<bus, heard>>
    BY <1>4, <2>1, <2>2
  <2>3. CASE /\ bus /\ ~ serial
             /\ heard' = Append(heard, Head(events).type)
             /\ bus' = FALSE
             /\ UNCHANGED queue
    BY <1>5, <2>1, <2>3
  <2>4. CASE ~ bus /\ UNCHANGED <<bus, heard, queue>>
    BY <1>6, <2>1, <2>4
  <2> QED
    BY <1>9, <2>2, <2>3, <2>4 DEF HearEnd
<1> QED
  BY <1>7, <1>8, <1>9

\* The frontend subscribes, and what is cached is replayed.
LEMMA SubscribeStep ==
    ASSUME IInv, Subscribe
    PROVE  IInv'
<1>0. /\ Types /\ RunnerOK /\ BusOK /\ Contents /\ Numbered /\ EndsAreTrue
      /\ DoneIsLast /\ ToldAll /\ Flows
  BY DEF IInv
<1>p. PICK g, f, b, c \in Places, a \in 0..Chunks :
         Handed(g, f, b) /\ Emitted(b, c) /\ Paid(a) /\ Owed(b, a)
  BY <1>0 DEF Flows
<1>s. /\ channel \in Seq(Nat) /\ got \in Seq(Nat) /\ cache.chunks \in Seq(Nat)
      /\ Places \subseteq Nat \ {0} /\ next \in Nat
      /\ g \in Nat \ {0} /\ f \in Nat \ {0} /\ b \in Nat \ {0} /\ c \in Nat \ {0}
  BY <1>0, ResultStreamAssumption DEF Contents, Types, Numbers, Places
<1>a. /\ sub = "none" /\ sub' = "listening" /\ ~ bus /\ got = <<>> /\ queue = <<>>
      /\ ~ working /\ heard = <<>> /\ Replay
      /\ UNCHANGED <<backend, events, serial, working, ending, swept, acks>>
      /\ cache' = [cache EXCEPT !.chunks = <<>>]
  BY <1>0 DEF Subscribe, BusOK
<1>b. UNCHANGED <<run, outcome, next, credit, channel, emitter, asked, toAck, flying, events,
                  serial, working, ending, swept>>
  BY <1>a DEF backend, acks
<1>c. /\ cache'.chunks = <<>> /\ cache'.done = cache.done /\ cache'.error = cache.error
      /\ cache' = [kept |-> cache.kept, chunks |-> <<>>, done |-> cache.done,
                   error |-> cache.error, old |-> cache.old]
  BY <1>0, <1>a DEF Contents
<1>f. f = g /\ Counts(cache.chunks, f, b) /\ Unended(cache.chunks)
  <2>1. <<>> \in Seq(Nat) /\ Len(<<>>) = 0 /\ Unended(<<>>)
    BY CountsNothing, 0 \in Nat
  <2>2. Counts(<<>>, g, f) /\ Counts(cache.chunks, f, b) /\ Unended(cache.chunks)
    BY <1>p, <1>a DEF Handed
  <2>3. f = g + Len(<<>>)
    BY <1>s, <2>1, <2>2, CountsLen
  <2> QED
    BY <1>s, <2>1, <2>2, <2>3
<1>l. /\ b = f + Len(cache.chunks) /\ Len(cache.chunks) \in Nat
      /\ cache.chunks \in Seq(Numbers)
      /\ \A i \in 1..Len(cache.chunks) : cache.chunks[i] \in 1..Chunks
  <2>0. cache.chunks \in Seq(Nat) /\ f \in Nat \ {0} /\ b \in Nat
    BY <1>s
  <2>7. b = f + Len(cache.chunks)
    BY <1>f, <2>0, CountsLen
  <2>1. b = f + Len(cache.chunks) /\ Len(cache.chunks) \in Nat
    BY <2>0, <2>7
  <2>2. \A i \in 1..Len(cache.chunks) : cache.chunks[i] = f + i - 1
    BY <1>s, <1>f, CountsLen
  <2>3. b <= Chunks + 1 /\ b \in Nat /\ f \in Nat \ {0}
    BY <1>p, <1>s, ResultStreamAssumption DEF Places
  <2>4. \A i \in 1..Len(cache.chunks) : f + i - 1 \in 1..Chunks
    BY <2>1, <2>3, ResultStreamAssumption
  <2>5. cache.chunks \in Seq(Numbers)
    BY <1>0 DEF Contents
  <2> QED
    BY <2>1, <2>2, <2>4, <2>5
<1>d. /\ CachedEnd \in Seq({"done", "error"})
      /\ \/ CachedEnd = <<>> /\ Len(CachedEnd) = 0 /\ ~ cache.done
         \/ /\ Len(CachedEnd) = 1 /\ CachedEnd # <<>>
            /\ CachedEnd[1] \in {"done", "error"} /\ Truth(CachedEnd[1])
            /\ CachedEnd[1] = "done" => cache.done
            /\ \A i \in 1..Len(events) : events[i].type = "chunk"
  <2>1. CASE cache.done
    <3>1. CachedEnd = <<"done">>
      BY <2>1 DEF CachedEnd
    <3>2. Truth("done") /\ \A i \in 1..Len(events) : events[i].type = "chunk"
      BY <1>0, <2>1 DEF EndsAreTrue
    <3> QED
      BY <2>1, <3>1, <3>2
  <2>2. CASE ~ cache.done /\ cache.error
    <3>1. CachedEnd = <<"error">>
      BY <2>2 DEF CachedEnd
    <3>2. Truth("error") /\ \A i \in 1..Len(events) : events[i].type = "chunk"
      BY <1>0, <2>2 DEF EndsAreTrue
    <3> QED
      BY <2>2, <3>1, <3>2
  <2>3. CASE ~ cache.done /\ ~ cache.error
    <3>1. CachedEnd = <<>>
      BY <2>3 DEF CachedEnd
    <3> QED
      BY <2>3, <3>1
  <2> QED
    BY <2>1, <2>2, <2>3
<1>n. Len(CachedEnd) = 0 \/ Len(CachedEnd) = 1
  BY <1>d
<1>t. \A t : Truth(t)' <=> Truth(t)
  BY <1>b DEF Truth
<1>e. /\ outcome = "done" => /\ \A i \in 1..Len(events) - 1 : events[i].type = "chunk"
                             /\ cache.done => events = <<>>
  BY <1>0 DEF DoneIsLast
<1>1. CASE serial
  <2>a. queue' = Items(cache.chunks, CachedEnd) /\ bus' = TRUE /\ UNCHANGED <<got, heard>>
    <3>1. queue' = <<>> \o Items(cache.chunks, CachedEnd) /\ bus' = TRUE
          /\ UNCHANGED <<got, heard>>
      BY <1>a, <1>1 DEF Replay
    <3>2. Items(cache.chunks, CachedEnd) \in Seq(Waiting)
      BY <1>d, <1>l, ItemsAre
    <3> QED
      BY <3>1, <3>2, ConcatEmptySeq
  <2>b. /\ queue' \in Seq(Waiting) /\ Len(queue') = Len(cache.chunks) + Len(CachedEnd)
        /\ \A i \in 1..Len(cache.chunks) :
               queue'[i] = [what |-> "chunk", n |-> cache.chunks[i], ack |-> FALSE]
        /\ \A i \in 1..Len(CachedEnd) :
               queue'[Len(cache.chunks) + i] = [what |-> CachedEnd[i], n |-> 0, ack |-> FALSE]
    BY <1>d, <1>l, <2>a, ItemsAre
  <2>c. ASSUME NEW i \in 1..Len(queue')
        PROVE  /\ queue'[i].ack = FALSE
               /\ \/ queue'[i].what = "chunk" /\ queue'[i].n \in 1..Chunks
                  \/ /\ i = Len(queue') /\ CachedEnd # <<>>
                     /\ queue'[i].what = CachedEnd[1]
                     /\ queue'[i].what # "chunk"
    <3>1. CASE i \in 1..Len(cache.chunks)
      <4>1. queue'[i] = [what |-> "chunk", n |-> cache.chunks[i], ack |-> FALSE]
        BY <2>b, <3>1
      <4>2. cache.chunks[i] \in 1..Chunks
        BY <1>l, <3>1
      <4> QED
        BY <4>1, <4>2
    <3>2. CASE Len(CachedEnd) = 1 /\ i = Len(cache.chunks) + 1
      <4>1. queue'[i] = [what |-> CachedEnd[1], n |-> 0, ack |-> FALSE]
        BY <2>b, <3>2
      <4>2. CachedEnd # <<>> /\ CachedEnd[1] # "chunk"
        BY <1>d, <3>2
      <4>3. i = Len(queue')
        BY <2>b, <3>2
      <4> QED
        BY <4>1, <4>2, <4>3
    <3>3. i \in 1..Len(cache.chunks) \/ (Len(CachedEnd) = 1 /\ i = Len(cache.chunks) + 1)
      <4>1. Len(queue') = Len(cache.chunks) + Len(CachedEnd) /\ Len(cache.chunks) \in Nat
        BY <1>l, <2>b
      <4>2. CASE Len(CachedEnd) = 0
        <5>1. Len(queue') = Len(cache.chunks)
          BY <4>1, <4>2
        <5> QED
          BY <5>1
      <4>3. CASE Len(CachedEnd) = 1
        <5>1. Len(queue') = Len(cache.chunks) + 1
          BY <4>1, <4>3
        <5> QED
          BY <4>1, <4>3, <5>1
      <4> QED
        BY <1>n, <4>2, <4>3
    <3> QED
      BY <3>1, <3>2, <3>3
  <2>d. Counts(QueueNums(queue'), f, b)
    <3>1. Len(CachedEnd) \in {0, 1}
      BY <1>n
    <3> QED
      BY <1>d, <1>f, <1>l, <1>s, <2>a, <3>1, ItemsCount
  <2>1. (Types /\ BusOK)'
    <3>1. sub' = "listening" /\ serial' = TRUE /\ ~ working'
      BY <1>a, <1>b, <1>1
    <3> QED
      BY <1>0, <1>b, <2>a, <3>1 DEF Types, BusOK
  <2>2. RunnerOK'
    BY <1>0, <1>b DEF RunnerOK
  <2>3. Contents'
    BY <1>0, <1>b, <1>c, <2>a, <2>b DEF Contents
  <2>4. Numbered'
    BY <1>0, <1>b, <2>c DEF Numbered
  <2>5. EndsAreTrue'
    <3>1. \A i \in 1..Len(queue') : queue'[i].what # "chunk" =>
              /\ Truth(queue'[i].what) /\ \A j \in 1..Len(events) : events[j].type = "chunk"
      BY <1>d, <2>c
    <3> QED
      BY <1>0, <1>b, <1>c, <1>t, <2>a, <3>1 DEF EndsAreTrue
  <2>6. DoneIsLast'
    <3>1. \A i \in 1..Len(queue') : queue'[i].what = "done" => i = Len(queue') /\ cache.done
      BY <1>d, <2>c
    <3> QED
      BY <1>b, <1>c, <1>e, <3>1 DEF DoneIsLast
  <2>7. ToldAll'
    BY <1>0, <1>b, <2>a DEF ToldAll
  <2>8. Handed(g, f, b)'
    <3>1. sub' # "none" /\ ~ working'
      BY <1>a, <1>b
    <3> QED
      BY <1>p, <1>b, <2>a, <2>d, <3>1 DEF Handed
  <2>9. Emitted(b, c)'
    BY <1>p, <1>b DEF Emitted
  <2>10. Paid(a)'
    BY <1>p, <1>b DEF Paid
  <2>11. Owed(b, a)'
    <3>1. ~ working' /\ \A i \in 1..Len(queue') : ~ queue'[i].ack
      BY <1>a, <2>c
    <3> QED
      BY <1>p, <3>1 DEF Owed
  <2> QED
    BY <1>p, <2>a, <2>b, <2>c, <2>d, <2>1, <2>2, <2>3, <2>4, <2>5, <2>6, <2>7, <2>8, <2>9,
       <2>10, <2>11 DEF IInv, Flows
<1>2. CASE ~ serial
  <2>a. /\ got' = cache.chunks /\ heard' = CachedEnd /\ bus' = (CachedEnd = <<>>)
        /\ queue' = <<>> /\ ~ working'
    <3>1. /\ got' = <<>> \o cache.chunks /\ heard' = <<>> \o CachedEnd
          /\ bus' = (CachedEnd = <<>>) /\ queue' = <<>> /\ ~ working'
      BY <1>a, <1>2 DEF Replay
    <3> QED
      BY <1>d, <1>l, <3>1, ConcatEmptySeq
  <2>b. Counts(QueueNums(<<>>), b, b)
    <3>1. QueueNums(<<>>) = <<>>
      BY DEF QueueNums
    <3> QED
      BY <1>s, <3>1, CountsNothing
  <2>c. <<>> \in Seq(Waiting) /\ Len(<<>>) = 0 /\ b \in Places
    BY <1>p
  <2>e. \A i \in 1..Len(heard') : /\ Truth(heard'[i])
                                  /\ heard'[i] = "done" => cache.done
    <3>1. \A i \in 1..Len(heard') : i = 1 /\ Len(heard') = 1
      <4>1. CASE Len(CachedEnd) = 0
        <5>1. Len(heard') = 0
          BY <2>a, <4>1
        <5> QED
          BY <5>1
      <4>2. CASE Len(CachedEnd) = 1
        <5>1. Len(heard') = 1
          BY <2>a, <4>2
        <5> QED
          BY <5>1
      <4> QED
        BY <1>n, <4>1, <4>2
    <3> QED
      BY <1>d, <2>a, <3>1
  <2>1. (Types /\ BusOK)'
    <3>1. sub' = "listening" /\ bus' \in BOOLEAN /\ serial' = serial
      BY <1>a, <1>b, <2>a
    <3> QED
      BY <1>0, <1>b, <2>a, <3>1 DEF Types, BusOK
  <2>2. RunnerOK'
    BY <1>0, <1>b DEF RunnerOK
  <2>3. Contents'
    BY <1>0, <1>b, <1>c, <1>d, <1>l, <2>a, <2>c DEF Contents
  <2>4. Numbered'
    BY <1>0, <1>b, <2>a, <2>c DEF Numbered
  <2>5. EndsAreTrue'
    BY <1>0, <1>b, <1>c, <1>t, <2>a, <2>c, <2>e DEF EndsAreTrue
  <2>6. DoneIsLast'
    BY <1>b, <1>c, <1>e, <2>a, <2>c DEF DoneIsLast
  <2>7. ToldAll'
    <3>1. ASSUME cache.done, Truth("done"), outcome # "cut", ~ swept, emitter # "broken"
          PROVE  outcome = "done" /\ Len(cache.chunks) = Chunks
      <4>1. outcome = "done" /\ emitter = "over"
        BY <1>0, <3>1 DEF Truth, Types
      <4>2. events = <<>>
        BY <1>e, <3>1, <4>1
      <4>3. b = Chunks + 1
        <5>1. Counts(EventNums(<<>>), b, c) /\ Counts(channel, c, next)
          BY <1>p, <3>1, <4>2 DEF Emitted
        <5> QED
          BY <1>0, <4>1, <5>1, AtTheEnd
      <4>4. g = 1
        BY <1>p, <3>1 DEF Handed
      <4> QED
        BY <1>f, <1>l, <4>1, <4>3, <4>4, ResultStreamAssumption
    <3>2. ASSUME cache.done, Truth("done")
          PROVE  \/ outcome = "cut"
                 \/ /\ outcome = "done"
                    /\ Len(cache.chunks) = Chunks \/ swept \/ emitter = "broken"
      BY <3>1, <3>2 DEF Truth
    <3> QED
      BY <1>b, <2>a, <2>e, <3>2 DEF ToldAll
  <2>8. Handed(g, b, b)'
    <3>1. sub' # "none"
      BY <1>a
    <3> QED
      BY <1>p, <1>b, <1>f, <2>a, <2>b, <3>1 DEF Handed
  <2>9. Emitted(b, c)'
    BY <1>p, <1>b DEF Emitted
  <2>10. Paid(a)'
    BY <1>p, <1>b DEF Paid
  <2>11. Owed(b, a)'
    BY <1>p, <2>a, <2>c DEF Owed
  <2> QED
    BY <1>p, <2>a, <2>b, <2>c, <2>e, <2>1, <2>2, <2>3, <2>4, <2>5, <2>6, <2>7, <2>8, <2>9,
       <2>10, <2>11 DEF IInv, Flows
<1> QED
  BY <1>1, <1>2

\* A step that changes nothing keeps the invariant.
LEMMA StutterStep ==
    ASSUME IInv, UNCHANGED vars
    PROVE  IInv'
<1>1. UNCHANGED <<run, outcome, next, credit, channel, emitter, asked, events, serial, bus,
                  cache, queue, working, ending, sub, swept, got, heard, toAck, flying>>
  BY DEF vars
<1>2. Types' /\ RunnerOK' /\ BusOK' /\ Contents' /\ Numbered'
  BY <1>1 DEF IInv, Types, RunnerOK, BusOK, Contents, Numbered
<1>3. EndsAreTrue' /\ DoneIsLast' /\ ToldAll'
  <2>1. \A t : Truth(t)' <=> Truth(t)
    BY <1>1 DEF Truth
  <2> QED
    BY <1>1, <2>1 DEF IInv, EndsAreTrue, DoneIsLast, ToldAll
<1>4. PICK g, f, b, c \in Places, a \in 0..Chunks :
         Handed(g, f, b) /\ Emitted(b, c) /\ Paid(a) /\ Owed(b, a)
  BY DEF IInv, Flows
<1>5. Handed(g, f, b)' /\ Emitted(b, c)' /\ Paid(a)' /\ Owed(b, a)'
  BY <1>1, <1>4 DEF Handed, Emitted, Paid, Owed
<1>6. Flows'
  BY <1>5 DEF Flows
<1> QED
  BY <1>2, <1>3, <1>6 DEF IInv

\* The invariant holds at the start: nothing is fetched, all the credit is there.
LEMMA InitInv ==
    ASSUME Init
    PROVE  IInv
<1>1. /\ run = "fetching" /\ outcome = "none" /\ next = 1 /\ credit = Window
      /\ channel = <<>> /\ emitter = "running" /\ asked = FALSE /\ events = <<>>
      /\ serial \in BOOLEAN /\ bus = FALSE /\ queue = <<>>
      /\ working = FALSE /\ ending = FALSE /\ toAck = 0 /\ flying = 0 /\ sub = "none"
      /\ swept = FALSE /\ got = <<>> /\ heard = <<>>
      /\ cache = [kept |-> FALSE, chunks |-> <<>>, done |-> FALSE, error |-> FALSE,
                  old |-> FALSE]
  BY DEF Init, Absent
<1>2. /\ <<>> \in Seq(Numbers) /\ <<>> \in Seq(Entries) /\ <<>> \in Seq(Waiting)
      /\ <<>> \in Seq({"done", "error"}) /\ Len(<<>>) = 0 /\ 1 \in Places
  BY ResultStreamAssumption DEF Places
<1>3. Types /\ RunnerOK /\ BusOK
  <2>1. Types
    BY <1>1, <1>2, ResultStreamAssumption DEF Types
  <2>2. Unended(<<>>)
    BY CountsNothing, 0 \in Nat
  <2>3. RunnerOK
    BY <1>1, <2>2 DEF RunnerOK
  <2>4. BusOK
    BY <1>1 DEF BusOK
  <2> QED
    BY <2>1, <2>3, <2>4
<1>4. Contents /\ Numbered
  BY <1>1, <1>2, ResultStreamAssumption DEF Contents, Numbered
<1>5. EndsAreTrue /\ DoneIsLast /\ ToldAll
  BY <1>1, <1>2 DEF EndsAreTrue, DoneIsLast, ToldAll
<1>6. Flows
  <2>1. Counts(<<>>, 1, 1) /\ Unended(<<>>)
    BY CountsNothing
  <2>2. EventNums(<<>>) = <<>>
    BY DEF EventNums
  <2>3. Handed(1, 1, 1)
    BY <1>1, <2>1 DEF Handed
  <2>4. Emitted(1, 1)
    BY <1>1, <2>1, <2>2 DEF Emitted
  <2>5. Paid(0)
    BY <1>1, ResultStreamAssumption DEF Paid
  <2>6. Owed(1, 0)
    BY <1>1, <1>2 DEF Owed
  <2> QED
    BY <1>2, <2>3, <2>4, <2>5, <2>6, ResultStreamAssumption DEF Flows
<1> QED
  BY <1>3, <1>4, <1>5, <1>6 DEF IInv

\* Every step of the stream keeps the invariant.
LEMMA StepInv ==
    ASSUME IInv, [Next]_vars
    PROVE  IInv'
<1>1. \/ Runner \/ Fail \/ EndCancelled \/ Cancel \/ Abort
      \/ Emitter \/ EmitFails \/ Dispatch \/ Subscribe \/ Serve
      \/ Unsubscribe \/ Age \/ Cleanup \/ Flush \/ Ack \/ UNCHANGED vars
  BY DEF Next
<1>2. CASE Runner \/ Fail \/ EndCancelled \/ Cancel \/ Abort
  BY <1>2, RunnerStep DEF Runner
<1>3. CASE Emitter \/ EmitFails
  BY <1>3, EmitterStep DEF Emitter
<1>4. CASE Dispatch
  BY <1>4, DispatchStep
<1>5. CASE Subscribe
  BY <1>5, SubscribeStep
<1>6. CASE Serve
  BY <1>6, ServeStep DEF Serve
<1>7. CASE Unsubscribe \/ Age \/ Cleanup
  BY <1>7, LeaveStep
<1>8. CASE Flush \/ Ack
  BY <1>8, AckStep
<1>9. CASE UNCHANGED vars
  BY <1>9, StutterStep
<1> QED
  BY <1>1, <1>2, <1>3, <1>4, <1>5, <1>6, <1>7, <1>8, <1>9

\* The invariant holds in every state of every behaviour of the stream.
LEMMA Invariance == Spec => []IInv
<1>1. Init => IInv
  BY InitInv
<1>2. IInv /\ [Next]_vars => IInv'
  BY StepInv
<1> QED
  BY <1>1, <1>2, PTL DEF Spec

\* The variables have the shape of the code's types, and the semaphore holds at most its
\* window, a permit per chunk of the query and the one that a closed channel refunds twice.
THEOREM TypeCorrect == Spec => []TypeOK
<1>1. ASSUME IInv
      PROVE  TypeOK
  <2>1. PICK a \in 0..Chunks : Paid(a)
    BY <1>1 DEF IInv, Flows
  <2>2. Types /\ Contents
    BY <1>1 DEF IInv
  <2>3. credit \in 0..Window + Chunks + 1 /\ toAck \in 0..Chunks /\ flying \in 0..Chunks
    <3>1. /\ credit \in Nat /\ toAck \in Nat /\ flying \in Nat /\ a \in Nat /\ a <= Chunks
          /\ toAck + flying <= a
      BY <2>1, <2>2, ResultStreamAssumption DEF Types, Paid
    <3>2. credit + toAck + flying <= Window + a + 1
      <4> DEFINE x == IF run = "sending" THEN 1 ELSE 0
                 y == IF outcome = "failed" THEN 1 ELSE 0
      <4>1. x \in {0, 1} /\ y \in {0, 1}
        OBVIOUS
      <4>2. credit + x + toAck + flying <= Window + a + y
        BY <2>1 DEF Paid
      <4> HIDE DEF x, y
      <4> QED
        BY <3>1, <4>1, <4>2, ResultStreamAssumption
    <3> QED
      BY <3>1, <3>2, ResultStreamAssumption
  <2> QED
    BY <2>2, <2>3 DEF TypeOK, Types, Contents, Entries, Waiting, Places
<1>2. IInv => TypeOK
  BY <1>1
<1> QED
  BY <1>2, Invariance, PTL

\* The subscriber is handed every chunk once and in order, without a gap, whether it was
\* cached, queued behind a slow handler or dispatched directly: what it got counts up by
\* one, and from one unless the cache was swept before it came.
THEOREM ChunksInOrder == Spec => []InOrder
<1>1. ASSUME IInv
      PROVE  InOrder
  <2>1. PICK g, f, b \in Places : Handed(g, f, b)
    BY <1>1 DEF IInv, Flows
  <2>2. got \in Seq(Nat) /\ g \in Nat \ {0} /\ f \in Nat
    BY <1>1, ResultStreamAssumption DEF IInv, Contents, Places, Numbers
  <2>3. Counts(got, g, f) /\ Unended(got) /\ (~ swept => g = 1)
    BY <2>1 DEF Handed
  <2>4. \A i \in 1..Len(got) : got[i] = g + i - 1
    BY <2>2, <2>3, CountsLen
  <2>5. Len(got) \in Nat
    BY <2>2
  <2>6. ASSUME NEW i \in 1..Len(got)
        PROVE  /\ i > 1 => got[i] = got[i - 1] + 1
               /\ ~ swept => got[1] = 1
    <3>1. got[i] = g + i - 1 /\ 1 \in 1..Len(got) /\ got[1] = g + 1 - 1
      BY <2>4, <2>5
    <3>2. ASSUME i > 1
          PROVE  got[i] = got[i - 1] + 1
      <4>1. i - 1 \in 1..Len(got)
        BY <2>5, <3>2
      <4>2. got[i - 1] = g + (i - 1) - 1
        BY <2>4, <4>1
      <4> QED
        BY <2>2, <3>1, <4>2
    <3> QED
      BY <2>2, <2>3, <3>1, <3>2
  <2> QED
    BY <2>6 DEF InOrder
<1>2. IInv => InOrder
  BY <1>1
<1> QED
  BY <1>2, Invariance, PTL

\* A subscriber that hears done was handed every chunk before, and has settled it; the
\* exceptions are those that DoneMeansAll names.
THEOREM DoneIsComplete == Spec => []DoneMeansAll
<1>1. IInv => DoneMeansAll
  BY DEF IInv, ToldAll, DoneMeansAll
<1> QED
  BY <1>1, Invariance, PTL

=============================================================================
