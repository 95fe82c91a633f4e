---------------------------- MODULE ExportProofs ----------------------------
(***************************************************************************)
(* That the export is a publication and keeps its temporary file in hand,  *)
(* for any number of chunks and of calls of cancel().                      *)
(***************************************************************************)
EXTENDS Export, TLAPS

\* Until start() has settled nothing else of the run has begun, except a cancel that
\* waits for it; without the operation's id nothing is heard of it.
StartFirst ==
    /\ starter # "over" =>
          /\ ~ opId
          /\ outcome = "none"
          /\ \A u \in Cancels : canceller[u] \in {"idle", "await", "cancel", "settle"}
    /\ starter = "begin" => temp = "none" /\ ~ sessionId /\ stream = "none"
    /\ starter = "execute" => sessionId
    /\ ~ opId => /\ ~ subscribed /\ ~ committing
                 /\ heard = 0
                 /\ handler = "idle" /\ ender = "idle"

\* Who gives the run up has marked it as cancelled; a cancel that has waited for the
\* handlers finds none, and none starts behind it.
GivenUp ==
    /\ handler \in {"failing", "aborting"} \/ ender = "failing" => cancelled
    /\ \A u \in Cancels :
          /\ canceller[u] \notin {"idle", "await", "over"} => cancelled
          /\ canceller[u] \in {"again", "detach", "aborting"} =>
                handler = "idle" /\ starter = "over"

\* The session's id is given away once, by who then aborts it or has published it.
OneAbort ==
    /\ CleaningUp => ~ sessionId
    /\ temp = "open" => sessionId \/ CleaningUp
    /\ ender = "published" => temp = "published"

Ended ==
    /\ end # "none" => stream \in {"ended", "cut"}
    /\ stream = "ended" => end # "none" /\ endAt = sent
    /\ handler = "write" => heard # 0

Committing == ender \in {"trailer", "publish", "published"}

\* A stream that no other caller cancels is cut short only by a run that was given up;
\* so the end that is published comes behind every chunk.
CutIsOwn ==
    /\ stream \in {"cancelled", "cut"} =>
          cancelled \/ (~ opId /\ starter \in {"aborting", "over"})
    /\ ender # "idle" \/ (end # "none" /\ heard > endAt) => handler = "idle"
    /\ ender # "idle" /\ ~ cancelled /\ outcome = "none" =>
          stream = "ended" /\ heard = sent

\* The commit belongs to a run that is neither cancelled nor reported, and the session
\* is held until the run is.
CommitOwned ==
    /\ Committing => committing /\ ~ cancelled /\ outcome = "none" /\ opId
    /\ committing => Committing \/ outcome # "none"
    /\ ender = "over" => outcome # "none"
    /\ opId /\ ~ cancelled /\ outcome = "none" => sessionId \/ ender = "aborting"
    /\ sessionId => temp = "open" \/ ender = "published"
    /\ handler = "write" => sessionId
    /\ outcome # "none" => ~ sessionId

\* The first n chunks.
Prefix(n) == [i \in 1..n |-> i]

\* What the temporary file holds, and that the destination is replaced by the whole.
WrittenInOrder ==
    ~ cancelled /\ outcome = "none" =>
        /\ ender \in {"idle", "trailer"} =>
              written = Prefix(IF handler = "write" THEN heard - 1 ELSE heard)
        /\ ender = "publish" => written = Whole
FileIsWhole ==
    IF ender = "published" \/ outcome = "saved"
    THEN file = Whole /\ stream = "ended"
    ELSE file = <<>>

Always == StartFirst /\ GivenUp /\ OneAbort /\ Ended
Undisturbed == CutIsOwn /\ CommitOwned /\ WrittenInOrder /\ FileIsWhole
IInv == TypeOK /\ Always /\ (~ rival => Undisturbed)

\* What an action leaves alone is written in these groups, and a cleanup that respects
\* a commit in terms of the one that does not.
USE DEF native, server, bus, flags, pcs, AbortUnlessCommitting, AbortingUnlessCommitting

Flags == /\ rival \in BOOLEAN /\ subscribed \in BOOLEAN /\ opId \in BOOLEAN
         /\ sessionId \in BOOLEAN /\ cancelled \in BOOLEAN /\ committing \in BOOLEAN

\* What the SMT solver needs to know of the flags.
LEMMA FlagsAreBoolean == TypeOK => Flags
BY Zenon DEF TypeOK, Flags

\* A failure unsubscribes or leaves the subscription alone.
LEMMA NeverSubscribes ==
    ASSUME FailTerminal
    PROVE  cancelled' = TRUE /\ subscribed' \in {subscribed, FALSE}
<1>1. subscribed' \in {subscribed, FALSE}
  BY DEF FailTerminal
<1>2. cancelled' = TRUE
  BY DEF FailTerminal
<1> QED
  BY <1>1, <1>2

\* What a file holds grows by one chunk at a time.
LEMMA PrefixFacts ==
    /\ Prefix(0) = <<>>
    /\ \A n \in Nat \ {0} : Append(Prefix(n - 1), n) = Prefix(n)
BY DEF Prefix

\* No file with a trailer is empty.
LEMMA NeverEmpty ==
    \A n \in Nat : [i \in 1..(n + 1) |-> IF i <= n THEN i ELSE Trailer] # <<>>
OBVIOUS

\* What is published holds the trailer at least.
LEMMA WholeFacts ==
    ASSUME sent \in Nat
    PROVE  Append(Prefix(sent), Trailer) = Whole /\ Whole # <<>>
<1>1. Append(Prefix(sent), Trailer) = Whole
  BY DEF Prefix, Whole
<1>2. Whole # <<>>
  BY NeverEmpty DEF Whole
<1> QED
  BY <1>1, <1>2

\* The content expected of the file changes with the chunks emitted only.
LEMMA WholeStays == sent' = sent => Whole' = Whole
BY DEF Whole

\* The part of the invariant that also holds when another caller cancels the stream:
\* one step per action of the run.
LEMMA AlwaysStep ==
    ASSUME TypeOK, Always, Next PROVE Always'
<1> USE FlagsAreBoolean, ChunksAssumption DEF Flags, TypeOK, CancelPC, Always, StartFirst,
    GivenUp, OneAbort, CleaningUp, Ended
<1>1. CASE Start
  <2>1. CASE BeginSession
    BY <2>1 DEF BeginSession
  <2>2. CASE BeginFails
    BY <2>2 DEF BeginFails, Finish
  <2>3. CASE Listen
    BY <2>3 DEF Listen
  <2>4. CASE StartFails
    BY <2>4 DEF StartFails, Finish, AbortSession, Aborting
  <2>5. CASE StartAborted
    BY <2>5 DEF StartAborted, Finish, Aborted
  <2> QED
    BY <1>1, <2>1, <2>2, <2>3, <2>4, <2>5 DEF Start
<1>2. CASE Server
  <2>1. CASE StreamStarts
    BY <2>1 DEF StreamStarts
  <2>2. CASE Emit
    BY <2>2 DEF Emit
  <2>3. CASE StreamDone
    BY <2>3 DEF StreamDone, Ends
  <2>4. CASE StreamFails
    BY <2>4 DEF StreamFails, Ends
  <2>5. CASE StreamCut
    BY <2>5 DEF StreamCut, Ends
  <2>6. CASE OtherCancels
    BY <2>6 DEF OtherCancels
  <2> QED
    BY <1>2, <2>1, <2>2, <2>3, <2>4, <2>5, <2>6 DEF Server
<1>3. CASE OnChunk
  <2>1. CASE HearChunk
    <3>1. CASE cancelled \/ outcome # "none"
      BY <2>1, <3>1 DEF HearChunk
    <3>2. CASE ~ cancelled /\ outcome = "none" /\ handler' = "write"
      BY <2>1, <3>2 DEF HearChunk
    <3>3. CASE ~ cancelled /\ outcome = "none" /\ handler' = "failing"
      BY <2>1, <3>3, NeverSubscribes DEF HearChunk
    <3> QED
      BY <2>1, <3>1, <3>2, <3>3 DEF HearChunk
  <2>2. CASE ChunkWritten
    BY <2>2 DEF ChunkWritten, Write
  <2>3. CASE ChunkFails
    BY <2>3, NeverSubscribes DEF ChunkFails
  <2>4. CASE ChunkFailing
    BY <2>4 DEF ChunkFailing, OperationCancel, Finish, AbortSession, Aborting
  <2>5. CASE ChunkAborted
    BY <2>5 DEF ChunkAborted, Finish, Aborted
  <2> QED
    BY <1>3, <2>1, <2>2, <2>3, <2>4, <2>5 DEF OnChunk
<1>4. CASE OnEnd
  <2>1. CASE HearDone
    BY <2>1 DEF HearDone, HeardEnd, Finish, AbortSession, Aborting
  <2>2. CASE HearError
    <3>1. CASE outcome # "none"
      <4>1. UNCHANGED <<native, server, starter, handler, canceller>> /\ ender = "idle"
        BY <2>2 DEF HearError, HeardEnd
      <4>2. subscribed /\ end = "error" /\ heard >= endAt /\ (handler = "idle" \/ heard > endAt)
        BY <2>2 DEF HearError, HeardEnd
      <4>3. UNCHANGED <<bus, flags>> /\ ender' = "over"
        BY <2>2, <3>1 DEF HearError
      <4> QED
        BY <3>1, <4>1, <4>2, <4>3
    <3>2. CASE outcome = "none" /\ cancelled
      BY <2>2, <3>2 DEF HearError, HeardEnd, Finish, AbortSession, Aborting
    <3>3. CASE outcome = "none" /\ ~ cancelled
      <4>1. UNCHANGED <<native, server, starter, handler, canceller>> /\ ender = "idle"
        BY <2>2 DEF HearError, HeardEnd
      <4>2. subscribed /\ end = "error" /\ heard >= endAt /\ (handler = "idle" \/ heard > endAt)
        BY <2>2 DEF HearError, HeardEnd
      <4>3. /\ FailTerminal /\ ender' = "failing"
            /\ UNCHANGED <<heard, opId, sessionId, committing, outcome>>
        BY <2>2, <3>3 DEF HearError
      <4> QED
        BY <3>3, <4>1, <4>2, <4>3, NeverSubscribes
    <3> QED
      BY <2>2, <3>1, <3>2, <3>3
  <2>3. CASE EndFailing
    BY <2>3 DEF EndFailing, OperationCancel, Finish, AbortSession, Aborting
  <2>4. CASE TrailerWritten
    BY <2>4 DEF TrailerWritten, Write
  <2>5. CASE Publish
    BY <2>5 DEF Publish
  <2>6. CASE Published
    BY <2>6 DEF Published, Finish
  <2>7. CASE CommitFails
    BY <2>7 DEF CommitFails, Finish, AbortSession, Aborting
  <2>8. CASE EndAborted
    BY <2>8 DEF EndAborted, Finish, Aborted
  <2> QED
    BY <1>4, <2>1, <2>2, <2>3, <2>4, <2>5, <2>6, <2>7, <2>8 DEF OnEnd
<1>5. CASE LateCancel
  BY <1>5 DEF LateCancel
<1>6. ASSUME NEW u \in Cancels, Cancel(u) PROVE Always'
  BY <1>6 DEF Cancel, Goes
<1>7. ASSUME NEW u \in Cancels, CancelGoesOn(u) PROVE Always'
  <2>1. CASE CancelOperation(u)
    BY <2>1 DEF CancelOperation, Goes, OperationCancel
  <2>2. CASE AwaitHandlers(u)
    BY <2>2 DEF AwaitHandlers, Goes
  <2>3. CASE CancelAgain(u)
    BY <2>3 DEF CancelAgain, Goes, OperationCancel
  <2>4. CASE CancelDetach(u)
    BY <2>4 DEF CancelDetach, Goes, Finish, AbortSession, Aborting
  <2>5. CASE CancelAborted(u)
    BY <2>5 DEF CancelAborted, Goes, Finish, Aborted
  <2>6. CASE CancelAwaited(u)
    BY <2>6 DEF CancelAwaited, Goes
  <2> QED
    BY <1>7, <2>1, <2>2, <2>3, <2>4, <2>5, <2>6 DEF CancelGoesOn
<1> QED
  BY <1>1, <1>2, <1>3, <1>4, <1>5, <1>6, <1>7 DEF Next

\* The commit stays with its owner, and the end that leads to it stays behind every
\* chunk; only another caller's cancel could cut the stream short unnoticed.
LEMMA OwnedStep ==
    ASSUME TypeOK, Always, Undisturbed, ~ rival', Next PROVE (CutIsOwn /\ CommitOwned)'
<1> USE FlagsAreBoolean, ChunksAssumption DEF Flags, TypeOK, CancelPC, Always, StartFirst,
    GivenUp, OneAbort, CleaningUp, Ended, Undisturbed, CutIsOwn, CommitOwned, Committing
<1>1. CASE Start
  <2>1. CASE BeginSession
    BY <2>1 DEF BeginSession
  <2>2. CASE BeginFails
    BY <2>2 DEF BeginFails, Finish
  <2>3. CASE Listen
    BY <2>3 DEF Listen
  <2>4. CASE StartFails
    BY <2>4 DEF StartFails, Finish, AbortSession, Aborting
  <2>5. CASE StartAborted
    BY <2>5 DEF StartAborted, Finish, Aborted
  <2> QED
    BY <1>1, <2>1, <2>2, <2>3, <2>4, <2>5 DEF Start
<1>2. CASE Server
  <2>1. CASE StreamStarts
    BY <2>1 DEF StreamStarts
  <2>2. CASE Emit
    BY <2>2 DEF Emit
  <2>3. CASE StreamDone
    BY <2>3 DEF StreamDone, Ends
  <2>4. CASE StreamFails
    BY <2>4 DEF StreamFails, Ends
  <2>5. CASE StreamCut
    BY <2>5 DEF StreamCut, Ends
  <2>6. CASE OtherCancels
    BY <2>6 DEF OtherCancels
  <2> QED
    BY <1>2, <2>1, <2>2, <2>3, <2>4, <2>5, <2>6 DEF Server
<1>3. CASE OnChunk
  <2>1. CASE HearChunk
    <3>1. CASE cancelled \/ outcome # "none"
      BY <2>1, <3>1 DEF HearChunk
    <3>2. CASE ~ cancelled /\ outcome = "none" /\ handler' = "write"
      BY <2>1, <3>2 DEF HearChunk
    <3>3. CASE ~ cancelled /\ outcome = "none" /\ handler' = "failing"
      BY <2>1, <3>3, NeverSubscribes DEF HearChunk
    <3> QED
      BY <2>1, <3>1, <3>2, <3>3 DEF HearChunk
  <2>2. CASE ChunkWritten
    BY <2>2 DEF ChunkWritten, Write
  <2>3. CASE ChunkFails
    BY <2>3, NeverSubscribes DEF ChunkFails
  <2>4. CASE ChunkFailing
    BY <2>4 DEF ChunkFailing, OperationCancel, Finish, AbortSession, Aborting
  <2>5. CASE ChunkAborted
    BY <2>5 DEF ChunkAborted, Finish, Aborted
  <2> QED
    BY <1>3, <2>1, <2>2, <2>3, <2>4, <2>5 DEF OnChunk
<1>4. CASE OnEnd
  <2>1. CASE HearDone
    BY <2>1 DEF HearDone, HeardEnd, Finish, AbortSession, Aborting
  <2>2. CASE HearError
    <3>1. CASE outcome # "none"
      <4>1. UNCHANGED <<native, server, starter, handler, canceller>> /\ ender = "idle"
        BY <2>2 DEF HearError, HeardEnd
      <4>2. subscribed /\ end = "error" /\ heard >= endAt /\ (handler = "idle" \/ heard > endAt)
        BY <2>2 DEF HearError, HeardEnd
      <4>3. UNCHANGED <<bus, flags>> /\ ender' = "over"
        BY <2>2, <3>1 DEF HearError
      <4> QED
        BY <3>1, <4>1, <4>2, <4>3
    <3>2. CASE outcome = "none" /\ cancelled
      BY <2>2, <3>2 DEF HearError, HeardEnd, Finish, AbortSession, Aborting
    <3>3. CASE outcome = "none" /\ ~ cancelled
      <4>1. UNCHANGED <<native, server, starter, handler, canceller>> /\ ender = "idle"
        BY <2>2 DEF HearError, HeardEnd
      <4>2. subscribed /\ end = "error" /\ heard >= endAt /\ (handler = "idle" \/ heard > endAt)
        BY <2>2 DEF HearError, HeardEnd
      <4>3. /\ FailTerminal /\ ender' = "failing"
            /\ UNCHANGED <<heard, opId, sessionId, committing, outcome>>
        BY <2>2, <3>3 DEF HearError
      <4> QED
        BY <3>3, <4>1, <4>2, <4>3, NeverSubscribes
    <3> QED
      BY <2>2, <3>1, <3>2, <3>3
  <2>3. CASE EndFailing
    BY <2>3 DEF EndFailing, OperationCancel, Finish, AbortSession, Aborting
  <2>4. CASE TrailerWritten
    BY <2>4 DEF TrailerWritten, Write
  <2>5. CASE Publish
    BY <2>5 DEF Publish
  <2>6. CASE Published
    BY <2>6 DEF Published, Finish
  <2>7. CASE CommitFails
    BY <2>7 DEF CommitFails, Finish, AbortSession, Aborting
  <2>8. CASE EndAborted
    BY <2>8 DEF EndAborted, Finish, Aborted
  <2> QED
    BY <1>4, <2>1, <2>2, <2>3, <2>4, <2>5, <2>6, <2>7, <2>8 DEF OnEnd
<1>5. CASE LateCancel
  BY <1>5 DEF LateCancel
<1>6. ASSUME NEW u \in Cancels, Cancel(u) PROVE (CutIsOwn /\ CommitOwned)'
  BY <1>6 DEF Cancel, Goes
<1>7. ASSUME NEW u \in Cancels, CancelGoesOn(u) PROVE (CutIsOwn /\ CommitOwned)'
  <2>1. CASE CancelOperation(u)
    BY <2>1 DEF CancelOperation, Goes, OperationCancel
  <2>2. CASE AwaitHandlers(u)
    BY <2>2 DEF AwaitHandlers, Goes
  <2>3. CASE CancelAgain(u)
    BY <2>3 DEF CancelAgain, Goes, OperationCancel
  <2>4. CASE CancelDetach(u)
    BY <2>4 DEF CancelDetach, Goes, Finish, AbortSession, Aborting
  <2>5. CASE CancelAborted(u)
    BY <2>5 DEF CancelAborted, Goes, Finish, Aborted
  <2>6. CASE CancelAwaited(u)
    BY <2>6 DEF CancelAwaited, Goes
  <2> QED
    BY <1>7, <2>1, <2>2, <2>3, <2>4, <2>5, <2>6 DEF CancelGoesOn
<1> QED
  BY <1>1, <1>2, <1>3, <1>4, <1>5, <1>6, <1>7 DEF Next

\* The temporary file holds the chunks handled so far, in order, and the trailer once
\* that is written.
LEMMA WrittenStep ==
    ASSUME TypeOK, Always, Undisturbed, ~ rival', Next PROVE WrittenInOrder'
<1> USE FlagsAreBoolean, ChunksAssumption, PrefixFacts, WholeFacts, WholeStays DEF Flags,
    TypeOK, CancelPC, Always, StartFirst, GivenUp, OneAbort, CleaningUp, Ended, Undisturbed,
    CutIsOwn, CommitOwned, Committing, WrittenInOrder
<1>1. CASE Start
  <2>1. CASE BeginSession
    BY <2>1 DEF BeginSession
  <2>2. CASE BeginFails
    BY <2>2 DEF BeginFails, Finish
  <2>3. CASE Listen
    BY <2>3 DEF Listen
  <2>4. CASE StartFails
    BY <2>4 DEF StartFails, Finish, AbortSession, Aborting
  <2>5. CASE StartAborted
    BY <2>5 DEF StartAborted, Finish, Aborted
  <2> QED
    BY <1>1, <2>1, <2>2, <2>3, <2>4, <2>5 DEF Start
<1>2. CASE Server
  <2>1. CASE StreamStarts
    BY <2>1 DEF StreamStarts
  <2>2. CASE Emit
    BY <2>2 DEF Emit
  <2>3. CASE StreamDone
    BY <2>3 DEF StreamDone, Ends
  <2>4. CASE StreamFails
    BY <2>4 DEF StreamFails, Ends
  <2>5. CASE StreamCut
    BY <2>5 DEF StreamCut, Ends
  <2>6. CASE OtherCancels
    BY <2>6 DEF OtherCancels
  <2> QED
    BY <1>2, <2>1, <2>2, <2>3, <2>4, <2>5, <2>6 DEF Server
<1>3. CASE OnChunk
  <2>1. CASE HearChunk
    <3>1. CASE cancelled \/ outcome # "none"
      BY <2>1, <3>1 DEF HearChunk
    <3>2. CASE ~ cancelled /\ outcome = "none" /\ handler' = "write"
      BY <2>1, <3>2 DEF HearChunk
    <3>3. CASE ~ cancelled /\ outcome = "none" /\ handler' = "failing"
      BY <2>1, <3>3, NeverSubscribes DEF HearChunk
    <3> QED
      BY <2>1, <3>1, <3>2, <3>3 DEF HearChunk
  <2>2. CASE ChunkWritten
    <3>1. /\ handler = "write" /\ handler' = "idle" /\ written' = Append(written, heard)
          /\ UNCHANGED <<server, bus, flags, starter, ender, canceller>>
      BY <2>2 DEF ChunkWritten, Write
    <3>2. ender = "idle" /\ heard \in Nat \ {0}
      BY <3>1
    <3>3. CASE ~ cancelled /\ outcome = "none"
      <4>1. written = Prefix(heard - 1)
        BY <3>1, <3>2, <3>3
      <4>2. Append(Prefix(heard - 1), heard) = Prefix(heard)
        BY <3>2, PrefixFacts
      <4> QED
        BY <3>1, <3>2, <4>1, <4>2
    <3>4. CASE cancelled \/ outcome # "none"
      BY <3>1, <3>2, <3>4
    <3> QED
      BY <3>3, <3>4
  <2>3. CASE ChunkFails
    BY <2>3, NeverSubscribes DEF ChunkFails
  <2>4. CASE ChunkFailing
    BY <2>4 DEF ChunkFailing, OperationCancel, Finish, AbortSession, Aborting
  <2>5. CASE ChunkAborted
    BY <2>5 DEF ChunkAborted, Finish, Aborted
  <2> QED
    BY <1>3, <2>1, <2>2, <2>3, <2>4, <2>5 DEF OnChunk
<1>4. CASE OnEnd
  <2>1. CASE HearDone
    BY <2>1 DEF HearDone, HeardEnd, Finish, AbortSession, Aborting
  <2>2. CASE HearError
    <3>1. CASE outcome # "none"
      <4>1. UNCHANGED <<native, server, starter, handler, canceller>> /\ ender = "idle"
        BY <2>2 DEF HearError, HeardEnd
      <4>2. subscribed /\ end = "error" /\ heard >= endAt /\ (handler = "idle" \/ heard > endAt)
        BY <2>2 DEF HearError, HeardEnd
      <4>3. UNCHANGED <<bus, flags>> /\ ender' = "over"
        BY <2>2, <3>1 DEF HearError
      <4> QED
        BY <3>1, <4>1, <4>2, <4>3
    <3>2. CASE outcome = "none" /\ cancelled
      BY <2>2, <3>2 DEF HearError, HeardEnd, Finish, AbortSession, Aborting
    <3>3. CASE outcome = "none" /\ ~ cancelled
      <4>1. UNCHANGED <<native, server, starter, handler, canceller>> /\ ender = "idle"
        BY <2>2 DEF HearError, HeardEnd
      <4>2. subscribed /\ end = "error" /\ heard >= endAt /\ (handler = "idle" \/ heard > endAt)
        BY <2>2 DEF HearError, HeardEnd
      <4>3. /\ FailTerminal /\ ender' = "failing"
            /\ UNCHANGED <<heard, opId, sessionId, committing, outcome>>
        BY <2>2, <3>3 DEF HearError
      <4> QED
        BY <3>3, <4>1, <4>2, <4>3, NeverSubscribes
    <3> QED
      BY <2>2, <3>1, <3>2, <3>3
  <2>3. CASE EndFailing
    BY <2>3 DEF EndFailing, OperationCancel, Finish, AbortSession, Aborting
  <2>4. CASE TrailerWritten
    BY <2>4 DEF TrailerWritten, Write
  <2>5. CASE Publish
    BY <2>5 DEF Publish
  <2>6. CASE Published
    BY <2>6 DEF Published, Finish
  <2>7. CASE CommitFails
    BY <2>7 DEF CommitFails, Finish, AbortSession, Aborting
  <2>8. CASE EndAborted
    BY <2>8 DEF EndAborted, Finish, Aborted
  <2> QED
    BY <1>4, <2>1, <2>2, <2>3, <2>4, <2>5, <2>6, <2>7, <2>8 DEF OnEnd
<1>5. CASE LateCancel
  BY <1>5 DEF LateCancel
<1>6. ASSUME NEW u \in Cancels, Cancel(u) PROVE WrittenInOrder'
  BY <1>6 DEF Cancel, Goes
<1>7. ASSUME NEW u \in Cancels, CancelGoesOn(u) PROVE WrittenInOrder'
  <2>1. CASE CancelOperation(u)
    BY <2>1 DEF CancelOperation, Goes, OperationCancel
  <2>2. CASE AwaitHandlers(u)
    BY <2>2 DEF AwaitHandlers, Goes
  <2>3. CASE CancelAgain(u)
    BY <2>3 DEF CancelAgain, Goes, OperationCancel
  <2>4. CASE CancelDetach(u)
    BY <2>4 DEF CancelDetach, Goes, Finish, AbortSession, Aborting
  <2>5. CASE CancelAborted(u)
    BY <2>5 DEF CancelAborted, Goes, Finish, Aborted
  <2>6. CASE CancelAwaited(u)
    BY <2>6 DEF CancelAwaited, Goes
  <2> QED
    BY <1>7, <2>1, <2>2, <2>3, <2>4, <2>5, <2>6 DEF CancelGoesOn
<1> QED
  BY <1>1, <1>2, <1>3, <1>4, <1>5, <1>6, <1>7 DEF Next

\* The destination is touched by Publish alone, and then it is the whole file.
LEMMA FileStep ==
    ASSUME TypeOK, Always, Undisturbed, ~ rival', Next PROVE FileIsWhole'
<1> USE FlagsAreBoolean, ChunksAssumption, WholeStays DEF Flags, TypeOK, CancelPC, Always,
    StartFirst, GivenUp, OneAbort, CleaningUp, Ended, Undisturbed, CutIsOwn, CommitOwned,
    Committing, WrittenInOrder, FileIsWhole
<1>1. CASE Start
  BY <1>1 DEF Start, BeginSession, BeginFails, Listen, StartFails, StartAborted, Finish,
      AbortSession, Aborting, Aborted
<1>2. CASE Server
  BY <1>2 DEF Server, StreamStarts, Emit, StreamDone, StreamFails, StreamCut, OtherCancels,
      Ends
<1>3. CASE OnChunk
  BY <1>3 DEF OnChunk, HearChunk, ChunkWritten, ChunkFails, ChunkFailing, ChunkAborted,
      Write, OperationCancel, Finish, AbortSession, Aborting, Aborted, FailTerminal
<1>4. CASE OnEnd
  BY <1>4 DEF OnEnd, HearDone, HearError, EndFailing, TrailerWritten, Publish, Published,
      CommitFails, EndAborted, HeardEnd, Finish, AbortSession, Aborting, OperationCancel,
      Write, Aborted, FailTerminal
<1>5. CASE LateCancel
  BY <1>5 DEF LateCancel
<1>6. ASSUME NEW u \in Cancels, Cancel(u) \/ CancelGoesOn(u) PROVE FileIsWhole'
  BY <1>6 DEF CancelGoesOn, Cancel, CancelOperation, AwaitHandlers, CancelAgain,
      CancelDetach, CancelAborted, CancelAwaited, Goes, OperationCancel, Finish,
      AbortSession, Aborting, Aborted
<1> QED
  BY <1>1, <1>2, <1>3, <1>4, <1>5, <1>6 DEF Next

\* TypeOK in three parts, each for the solver that can do it.
Plain ==
    /\ temp \in {"none", "open", "published", "gone", "left", "stuck"}
    /\ stream \in {"none", "requested", "running", "cancelled", "ended", "cut"}
    /\ sent \in 0..Chunks
    /\ end \in {"none", "done", "error"}
    /\ endAt \in 0..sent
    /\ heard \in 0..sent
    /\ outcome \in {"none", "saved", "failed"}
    /\ starter \in {"begin", "execute", "aborting", "over"}
    /\ handler \in {"idle", "write", "failing", "aborting"}
    /\ ender \in {"idle", "trailer", "publish", "published", "failing", "aborting", "over"}
    /\ canceller \in [Cancels -> CancelPC]
Content == written \in Seq(1..Trailer) /\ file \in Seq(1..Trailer)

\* The parts are the whole.
LEMMA TypeParts == TypeOK <=> Plain /\ Flags /\ Content
<1>1. {rival, subscribed, opId, sessionId, cancelled, committing} \subseteq BOOLEAN <=> Flags
  BY Zenon DEF Flags
<1> QED
  BY <1>1, Zenon DEF TypeOK, Plain, Content

\* Appending a piece leaves a sequence of pieces.
LEMMA Appended ==
    ASSUME NEW s \in Seq(1..Trailer), NEW x \in 1..Trailer
    PROVE  Append(s, x) \in Seq(1..Trailer)
OBVIOUS

\* The counters and places keep their types.
LEMMA PlainStep ==
    ASSUME Plain, Flags, Next PROVE Plain'
<1> USE ChunksAssumption DEF Plain, Flags, CancelPC
<1>1. CASE Start
  BY <1>1 DEF Start, BeginSession, BeginFails, Listen, StartFails, StartAborted, Finish,
      AbortSession, Aborting, Aborted
<1>2. CASE Server
  BY <1>2 DEF Server, StreamStarts, Emit, StreamDone, StreamFails, StreamCut, OtherCancels,
      Ends
<1>3. CASE OnChunk
  <2>1. CASE HearChunk
    <3>1. heard' = heard + 1 /\ heard < sent
      BY <2>1 DEF HearChunk
    <3>2. handler' \in {handler, "write", "failing"}
      BY <2>1 DEF HearChunk
    <3>3. UNCHANGED <<native, server, outcome, starter, ender, canceller>>
      BY <2>1 DEF HearChunk
    <3> QED
      BY <3>1, <3>2, <3>3
  <2>2. CASE ChunkWritten \/ ChunkFails \/ ChunkFailing \/ ChunkAborted
    BY <2>2 DEF ChunkWritten, ChunkFails, ChunkFailing, ChunkAborted, Write,
        OperationCancel, Finish, AbortSession, Aborting, Aborted
  <2> QED
    BY <1>3, <2>1, <2>2 DEF OnChunk
<1>4. CASE OnEnd
  BY <1>4 DEF OnEnd, HearDone, HearError, EndFailing, TrailerWritten, Publish, Published,
      CommitFails, EndAborted, HeardEnd, Finish, AbortSession, Aborting, OperationCancel,
      Write, Aborted
<1>5. CASE LateCancel
  BY <1>5 DEF LateCancel
<1>6. ASSUME NEW u \in Cancels, Cancel(u) \/ CancelGoesOn(u) PROVE Plain'
  BY <1>6 DEF CancelGoesOn, Cancel, CancelOperation, AwaitHandlers, CancelAgain,
      CancelDetach, CancelAborted, CancelAwaited, Goes, OperationCancel, Finish,
      AbortSession, Aborting, Aborted
<1> QED
  BY <1>1, <1>2, <1>3, <1>4, <1>5, <1>6 DEF Next

\* The flags stay flags.
LEMMA FlagsStep ==
    ASSUME Flags, Next PROVE Flags'
<1> USE ChunksAssumption DEF Flags
<1>1. CASE Start
  BY <1>1 DEF Start, BeginSession, BeginFails, Listen, StartFails, StartAborted, Finish,
      AbortSession, Aborting, Aborted
<1>2. CASE Server
  BY <1>2 DEF Server, StreamStarts, Emit, StreamDone, StreamFails, StreamCut, OtherCancels,
      Ends
<1>3. CASE OnChunk
  BY <1>3 DEF OnChunk, HearChunk, ChunkWritten, ChunkFails, ChunkFailing, ChunkAborted,
      Write, OperationCancel, Finish, AbortSession, Aborting, Aborted, FailTerminal
<1>4. CASE OnEnd
  BY <1>4 DEF OnEnd, HearDone, HearError, EndFailing, TrailerWritten, Publish, Published,
      CommitFails, EndAborted, HeardEnd, Finish, AbortSession, Aborting, OperationCancel,
      Write, Aborted, FailTerminal
<1>5. CASE LateCancel
  BY <1>5 DEF LateCancel
<1>6. ASSUME NEW u \in Cancels, Cancel(u) \/ CancelGoesOn(u) PROVE Flags'
  BY <1>6 DEF CancelGoesOn, Cancel, CancelOperation, AwaitHandlers, CancelAgain,
      CancelDetach, CancelAborted, CancelAwaited, Goes, OperationCancel, Finish,
      AbortSession, Aborting, Aborted
<1> QED
  BY <1>1, <1>2, <1>3, <1>4, <1>5, <1>6 DEF Next

\* The files hold pieces only: a chunk that is written was heard.
LEMMA ContentStep ==
    ASSUME TypeOK, Ended, Next PROVE Content'
<1> USE ChunksAssumption DEF Content, TypeOK
<1>1. CASE Start
  BY <1>1 DEF Start, BeginSession, BeginFails, Listen, StartFails, StartAborted, Finish,
      AbortSession, Aborting, Aborted
<1>2. CASE Server
  BY <1>2 DEF Server, StreamStarts, Emit, StreamDone, StreamFails, StreamCut, OtherCancels,
      Ends
<1>3. CASE OnChunk
  <2>1. CASE ChunkWritten
    <3>1. handler = "write" /\ written' = Append(written, heard) /\ file' = file
      BY <2>1 DEF ChunkWritten, Write
    <3>2. heard \in 1..Trailer
      BY <3>1 DEF Trailer, Ended, Plain, TypeOK
    <3> QED
      BY <3>1, <3>2, Appended
  <2>2. CASE HearChunk \/ ChunkFails \/ ChunkFailing \/ ChunkAborted
    BY <2>2 DEF HearChunk, ChunkFails, ChunkFailing, ChunkAborted, OperationCancel, Finish,
        AbortSession, Aborting, Aborted, FailTerminal
  <2> QED
    BY <1>3, <2>1, <2>2 DEF OnChunk
<1>4. CASE OnEnd
  <2>1. CASE TrailerWritten
    <3>1. written' = Append(written, Trailer) /\ file' = file
      BY <2>1 DEF TrailerWritten, Write
    <3>2. Trailer \in 1..Trailer
      BY DEF Trailer
    <3> QED
      BY <3>1, <3>2, Appended
  <2>2. CASE Publish
    BY <2>2 DEF Publish
  <2>3. CASE HearDone \/ HearError \/ EndFailing \/ Published \/ CommitFails \/ EndAborted
    BY <2>3 DEF HearDone, HearError, EndFailing, Published, CommitFails, EndAborted,
        HeardEnd, Finish, AbortSession, Aborting, OperationCancel, Aborted, FailTerminal
  <2> QED
    BY <1>4, <2>1, <2>2, <2>3 DEF OnEnd
<1>5. CASE LateCancel
  BY <1>5 DEF LateCancel
<1>6. ASSUME NEW u \in Cancels, Cancel(u) \/ CancelGoesOn(u) PROVE Content'
  BY <1>6 DEF CancelGoesOn, Cancel, CancelOperation, AwaitHandlers, CancelAgain,
      CancelDetach, CancelAborted, CancelAwaited, Goes, OperationCancel, Finish,
      AbortSession, Aborting, Aborted
<1> QED
  BY <1>1, <1>2, <1>3, <1>4, <1>5, <1>6 DEF Next

\* Initiation.
LEMMA InitInv == Init => IInv
<1> SUFFICES ASSUME Init PROVE IInv
  OBVIOUS
<1>1. TypeOK
  <2>1. Plain
    BY ChunksAssumption DEF Init, Plain, CancelPC
  <2>2. Flags
    BY Zenon DEF Init, Flags
  <2>3. Content
    BY DEF Init, Content
  <2> QED
    BY <2>1, <2>2, <2>3, TypeParts
<1>2. Always
  BY DEF Init, Always, StartFirst, GivenUp, OneAbort, CleaningUp, Ended
<1>3. WrittenInOrder
  BY PrefixFacts DEF Init, WrittenInOrder
<1>4. CutIsOwn /\ CommitOwned /\ FileIsWhole
  BY DEF Init, CutIsOwn, CommitOwned, Committing, FileIsWhole
<1> QED
  BY <1>1, <1>2, <1>3, <1>4 DEF IInv, Undisturbed

\* Another caller's cancel never ends, and touches nothing else of the run.
LEMMA NoRival ==
    ASSUME Next
    PROVE   /\ rival' \in {rival, TRUE}
            /\ rival' = rival \/ UNCHANGED <<file, sent, outcome>>
<1>1. CASE Start
  BY <1>1 DEF Start, BeginSession, BeginFails, Listen, StartFails, StartAborted, Finish,
      AbortSession, Aborting, Aborted
<1>2. CASE Server
  BY <1>2 DEF Server, StreamStarts, Emit, StreamDone, StreamFails, StreamCut, OtherCancels,
      Ends
<1>3. CASE OnChunk
  BY <1>3 DEF OnChunk, HearChunk, ChunkWritten, ChunkFails, ChunkFailing, ChunkAborted,
      Write, OperationCancel, Finish, AbortSession, Aborting, Aborted
<1>4. CASE OnEnd
  BY <1>4 DEF OnEnd, HearDone, HearError, EndFailing, TrailerWritten, Publish, Published,
      CommitFails, EndAborted, HeardEnd, Finish, AbortSession, Aborting, OperationCancel,
      Write, Aborted
<1>5. CASE LateCancel
  BY <1>5 DEF LateCancel
<1>6. ASSUME NEW u \in Cancels, Cancel(u) \/ CancelGoesOn(u)
             PROVE  /\ rival' \in {rival, TRUE}
                    /\ rival' = rival \/ UNCHANGED <<file, sent, outcome>>
  BY <1>6 DEF CancelGoesOn, Cancel, CancelOperation, AwaitHandlers, CancelAgain,
      CancelDetach, CancelAborted, CancelAwaited, Goes, OperationCancel, Finish,
      AbortSession, Aborting, Aborted
<1> QED
  BY <1>1, <1>2, <1>3, <1>4, <1>5, <1>6 DEF Next

\* Every step keeps the invariant.
LEMMA IInvStep == IInv /\ [Next]_vars => IInv'
<1> SUFFICES ASSUME IInv, [Next]_vars PROVE IInv'
  OBVIOUS
<1>1. CASE Next
  <2>1. TypeOK'
    <3>1. Plain' /\ Flags' /\ Content'
      BY <1>1, PlainStep, FlagsStep, ContentStep, TypeParts DEF IInv, Always
    <3>2. {rival, subscribed, opId, sessionId, cancelled, committing}' \subseteq BOOLEAN
      BY <3>1, Zenon DEF Flags
    <3> QED
      BY <3>1, <3>2, Zenon DEF TypeOK, Plain, Content
  <2>2. Always'
    BY <1>1, AlwaysStep DEF IInv
  <2>3. ASSUME ~ rival' PROVE Undisturbed'
    <3>1. Undisturbed
      BY <1>1, <2>3, NoRival DEF IInv
    <3> QED
      BY <1>1, <2>3, <3>1, OwnedStep, WrittenStep, FileStep DEF IInv, Undisturbed
  <2> QED
    BY <2>1, <2>2, <2>3 DEF IInv
<1>2. CASE UNCHANGED vars
  BY <1>2 DEF vars, IInv, TypeOK, Always, StartFirst, GivenUp, OneAbort, CleaningUp, Ended,
              Undisturbed, CutIsOwn, CommitOwned, Committing, WrittenInOrder, FileIsWhole, Whole
<1> QED
  BY <1>1, <1>2

\* The invariant holds throughout.
LEMMA Invariance == Spec => []IInv
BY InitInv, IInvStep, PTL DEF Spec

\* The variables of a run keep their types, whatever fails and whenever it is cancelled.
THEOREM TypeCorrect == Spec => []TypeOK
<1>1. IInv => TypeOK
  BY DEF IInv
<1> QED
  BY <1>1, Invariance, PTL

\* The temporary file is never written behind its abort, however that ends, and behind the
\* report it was published, or its deletion is under way or was tried
\* (waitForActiveChunkHandlers, abortSession).
THEOREM TempFileIsOwned == Spec => []TempFileOwned
<1>1. IInv => TempFileOwned
  <2> SUFFICES ASSUME IInv, ~ rival
               PROVE  /\ handler = "write" \/ ender \in {"trailer", "publish"} => temp = "open"
                      /\ outcome # "none" /\ temp = "open" => CleaningUp
    BY DEF TempFileOwned
  <2> QED
    BY DEF IInv, Always, OneAbort, Undisturbed, CutIsOwn, CommitOwned, Committing
<1> QED
  BY <1>1, Invariance, PTL

\* The destination is the new file, or the old one.
LEMMA ContentsKnown ==
    ASSUME TypeOK, FileIsWhole
    PROVE  Contents = IF ender = "published" \/ outcome = "saved" THEN "new" ELSE "old"
BY ChunksAssumption, WholeFacts DEF TypeOK, FileIsWhole, Contents

\* The same of the next state.
LEMMA ContentsKnownNext ==
    ASSUME TypeOK', FileIsWhole'
    PROVE  Contents' = IF ender' = "published" \/ outcome' = "saved" THEN "new" ELSE "old"
<1>1. sent' \in Nat
  BY ChunksAssumption DEF TypeOK
<1>2. Whole' # <<>>
  BY <1>1, NeverEmpty DEF Whole
<1> QED
  BY <1>2 DEF FileIsWhole, Contents

\* The destination has been replaced.
IsNew == ender = "published" \/ outcome = "saved"
\* What a step may do to the destination and the report.
Promised ==
    \/ outcome' = outcome /\ (IsNew' <=> IsNew)
    \/ outcome = "none" /\ outcome' = "none" /\ ~ IsNew /\ IsNew'
    \/ /\ outcome = "none" /\ (IsNew' <=> IsNew)
       /\ outcome' = IF IsNew THEN "saved" ELSE "failed"

\* Each step of an undisturbed run does one of these.
LEMMA PromisedStep ==
    ASSUME TypeOK, Always, Undisturbed, ~ rival', Next PROVE Promised
<1> USE FlagsAreBoolean DEF Flags, TypeOK, CancelPC, Always, StartFirst, GivenUp, OneAbort,
    CleaningUp, Ended, Undisturbed, CutIsOwn, CommitOwned, Committing, Promised, IsNew
<1>1. CASE Start
  BY <1>1 DEF Start, BeginSession, BeginFails, Listen, StartFails, StartAborted, Finish,
      AbortSession, Aborting, Aborted
<1>2. CASE Server
  BY <1>2 DEF Server, StreamStarts, Emit, StreamDone, StreamFails, StreamCut, OtherCancels,
      Ends
<1>3. CASE OnChunk
  BY <1>3 DEF OnChunk, HearChunk, ChunkWritten, ChunkFails, ChunkFailing, ChunkAborted,
      Write, OperationCancel, Finish, AbortSession, Aborting, Aborted
<1>4. CASE OnEnd
  BY <1>4 DEF OnEnd, HearDone, HearError, EndFailing, TrailerWritten, Publish, Published,
      CommitFails, EndAborted, HeardEnd, Finish, AbortSession, Aborting, OperationCancel,
      Write, Aborted
<1>5. CASE LateCancel
  BY <1>5 DEF LateCancel
<1>6. ASSUME NEW u \in Cancels, Cancel(u) \/ CancelGoesOn(u) PROVE Promised
  BY <1>6 DEF CancelGoesOn, Cancel, CancelOperation, AwaitHandlers, CancelAgain,
      CancelDetach, CancelAborted, CancelAwaited, Goes, OperationCancel, Finish,
      AbortSession, Aborting, Aborted
<1> QED
  BY <1>1, <1>2, <1>3, <1>4, <1>5, <1>6 DEF Next

\* A step of the run is a step of the publication, or a stutter.
LEMMA StepRefines == IInv /\ IInv' /\ [Next]_vars => [Promise!Next]_(Promise!vars)
<1> SUFFICES ASSUME IInv, IInv', [Next]_vars
             PROVE  Promise!Next \/ UNCHANGED Promise!vars
  OBVIOUS
<1> USE DEF Promise!Next, Promise!vars, Promise!Disturb, Promise!Publish, Promise!Report
<1>1. CASE UNCHANGED vars
  BY <1>1 DEF vars, Contents, Whole
<1>2. CASE Next /\ rival
  BY <1>2, NoRival DEF IInv
<1>3. CASE Next /\ ~ rival /\ rival'
  <2>1. rival' = TRUE /\ UNCHANGED <<file, sent, outcome>>
    BY <1>3, NoRival
  <2>2. Contents' = Contents
    BY <2>1, WholeStays DEF Contents
  <2> QED
    BY <2>1, <2>2
<1>4. CASE Next /\ ~ rival /\ ~ rival'
  <2>1. Undisturbed /\ Undisturbed'
    BY <1>4 DEF IInv
  <2>2. Promised
    BY <1>4, <2>1, PromisedStep DEF IInv
  <2>3. /\ Contents = IF IsNew THEN "new" ELSE "old"
        /\ Contents' = IF IsNew' THEN "new" ELSE "old"
    BY <2>1, ContentsKnown, ContentsKnownNext DEF IInv, Undisturbed, IsNew
  <2>4. rival' = rival
    BY <1>4, NoRival
  <2> QED
    BY <1>4, <2>2, <2>3, <2>4 DEF Promised
<1> QED
  BY <1>1, <1>2, <1>3, <1>4

\* The run begins as a publication does.
LEMMA InitRefines == Init => Promise!Init
<1> SUFFICES ASSUME Init PROVE Promise!Init
  OBVIOUS
<1>1. Whole # <<>>
  BY WholeFacts DEF Init
<1> QED
  BY <1>1 DEF Init, Promise!Init, Contents

\* The export implements Publication: the destination is replaced at once and whole, or
\* not at all, and what is reported is what happened to it.
THEOREM Refinement == Spec => ImplementsPublication
BY InitRefines, StepRefines, Invariance, PTL DEF Spec, Promise!Spec, ImplementsPublication
=============================================================================
