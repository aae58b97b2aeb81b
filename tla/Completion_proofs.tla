-------------------------- MODULE Completion_proofs --------------------------
(***************************************************************************)
(* The way of a completion, for any number of tabs, requests and calls.    *)
(* First the registry of running completions (CompletionRegistry), for any *)
(* assignment of request IDs to the calls; then the runtime that shows the *)
(* chunks (StreamRuntime), for any chunks and any compaction limit: nothing*)
(* is lost on its way through the buffers, and the runtime implements      *)
(* LiveText.                                                               *)
(***************************************************************************)
EXTENDS CompletionRegistry, StreamRuntime, SequenceTheorems, TLAPS

(***************************************************************************)
(* The registry of running completions.                                    *)
(***************************************************************************)

\* Every variable keeps its type, for any set of calls and request IDs.
THEOREM RegistryTypeCorrect == RegistrySpec => []RegistryTypeOK
<1>1. RegistryInit => RegistryTypeOK
  BY DEF RegistryInit, RegistryTypeOK, PromiseState, GoroutineState
<1>2. RegistryTypeOK /\ [RegistryNext]_registryVars => RegistryTypeOK'
  <2> SUFFICES ASSUME RegistryTypeOK, [RegistryNext]_registryVars PROVE RegistryTypeOK'
    OBVIOUS
  <2> USE IdOfType, NoCallOutside DEF RegistryTypeOK, PromiseState, GoroutineState,
        frontendVars, bridgeVars, backendVars
  <2>1. ASSUME NEW c \in Calls, CallFetch(c) PROVE RegistryTypeOK'
    BY <2>1 DEF CallFetch
  <2>2. ASSUME NEW c \in Calls, Abort(c) PROVE RegistryTypeOK'
    BY <2>2 DEF Abort
  <2>3. ASSUME NEW c \in Calls, ReceiveReply(c) PROVE RegistryTypeOK'
    BY <2>3 DEF ReceiveReply
  <2>4. ASSUME NEW c \in Calls, FetchArrives(c) PROVE RegistryTypeOK'
    BY <2>4 DEF FetchArrives, EarlyCancelled, Taken, Pruned
  <2>5. ASSUME NEW c \in Calls, ProviderReturns(c) PROVE RegistryTypeOK'
    BY <2>5 DEF ProviderReturns
  <2>6. ASSUME NEW c \in Calls, FetchExits(c) PROVE RegistryTypeOK'
    BY <2>6 DEF FetchExits
  <2>7. ASSUME NEW c \in Calls, CancelArrives(c) PROVE RegistryTypeOK'
    BY <2>7 DEF CancelArrives, Stopped, Remembered, Taken, Pruned
  <2>8. ASSUME NEW i \in Ids, RetentionEnds(i) PROVE RegistryTypeOK'
    BY <2>8 DEF RetentionEnds
  <2>9. CASE UNCHANGED registryVars
    BY <2>9 DEF registryVars
  <2>10. QED
    BY <2>1, <2>2, <2>3, <2>4, <2>5, <2>6, <2>7, <2>8, <2>9 DEF RegistryNext
<1>3. QED
  BY <1>1, <1>2, PTL DEF RegistrySpec

-----------------------------------------------------------------------------
\* A call has no goroutine until its request is delivered, and its request is
\* not sent before the promise exists: a request is handled once.
NotYetHandled ==
    /\ \A c \in fetchSent : promise[c] # "idle" /\ goroutine[c] = "none"
    /\ \A c \in Calls : promise[c] = "idle" => goroutine[c] = "none"

RegistryInv == RegistryIsExact /\ NotYetHandled

\* The strengthened invariant of the registry.
LEMMA RegistryInvariant == RegistrySpec => []RegistryInv
<1>1. RegistryInit => RegistryInv
  BY IdOfType, NoCallOutside
    DEF RegistryInit, RegistryInv, RegistryIsExact, NotYetHandled, InFlight
<1>2. RegistryTypeOK /\ RegistryInv /\ [RegistryNext]_registryVars => RegistryInv'
  <2> SUFFICES ASSUME RegistryTypeOK, RegistryInv, [RegistryNext]_registryVars PROVE RegistryInv'
    OBVIOUS
  <2> USE IdOfType, NoCallOutside DEF RegistryTypeOK, RegistryInv, RegistryIsExact,
        NotYetHandled, InFlight, PromiseState, GoroutineState,
        frontendVars, bridgeVars, backendVars
  <2>1. ASSUME NEW c \in Calls, CallFetch(c) PROVE RegistryInv'
    BY <2>1 DEF CallFetch
  <2>2. ASSUME NEW c \in Calls, Abort(c) PROVE RegistryInv'
    BY <2>2 DEF Abort
  <2>3. ASSUME NEW c \in Calls, ReceiveReply(c) PROVE RegistryInv'
    BY <2>3 DEF ReceiveReply
  <2>4. ASSUME NEW c \in Calls, FetchArrives(c) PROVE RegistryInv'
    BY <2>4 DEF FetchArrives, EarlyCancelled, Taken, Pruned
  <2>5. ASSUME NEW c \in Calls, ProviderReturns(c) PROVE RegistryInv'
    BY <2>5 DEF ProviderReturns
  <2>6. ASSUME NEW c \in Calls, FetchExits(c) PROVE RegistryInv'
    BY <2>6 DEF FetchExits
  <2>7. ASSUME NEW c \in Calls, CancelArrives(c) PROVE RegistryInv'
    BY <2>7 DEF CancelArrives, Stopped, Remembered, Taken, Pruned
  <2>8. ASSUME NEW i \in Ids, RetentionEnds(i) PROVE RegistryInv'
    BY <2>8 DEF RetentionEnds
  <2>9. CASE UNCHANGED registryVars
    BY <2>9 DEF registryVars
  <2>10. QED
    BY <2>1, <2>2, <2>3, <2>4, <2>5, <2>6, <2>7, <2>8, <2>9 DEF RegistryNext
<1>3. QED
  BY <1>1, <1>2, RegistryTypeCorrect, PTL DEF RegistrySpec

\* The entries of completionCancels are exactly the calls in flight, so at most
\* one call per request ID runs and every running call can be cancelled, and no
\* ID is both registered and remembered as cancelled.
THEOREM RegistryCorrect == RegistrySpec => []RegistryIsExact
<1>1. RegistryInv => RegistryIsExact
  BY DEF RegistryInv
<1>2. QED
  BY <1>1, RegistryInvariant, PTL

-----------------------------------------------------------------------------
\* Every trace a cancellation leaves in the backend stems from an abort of the
\* call that owns the request ID, and only a call that has arrived has a context.
CancellationsStemFromAborts ==
    /\ cancelSent \subseteq aborted
    /\ \A c \in Calls : OwnsId(c) /\ IdOf[c] \in preCanceled => c \in aborted
    /\ \A c \in ctxDone : goroutine[c] # "none"

AbortInv == OnlyAbortedCallsAreCancelled /\ CancellationsStemFromAborts

\* A call whose request ID no other call uses, running or refused, is cancelled
\* only by its own signal.
THEOREM CancellationIsOwn == RegistrySpec => []OnlyAbortedCallsAreCancelled
<1>1. RegistryInit => AbortInv
  BY DEF RegistryInit, AbortInv, OnlyAbortedCallsAreCancelled, CancellationsStemFromAborts
<1>2. RegistryTypeOK /\ RegistryInv /\ AbortInv /\ [RegistryNext]_registryVars => AbortInv'
  <2> SUFFICES ASSUME RegistryTypeOK, RegistryInv, AbortInv, [RegistryNext]_registryVars PROVE AbortInv'
    OBVIOUS
  <2> USE IdOfType, NoCallOutside DEF RegistryTypeOK, AbortInv, OnlyAbortedCallsAreCancelled,
        CancellationsStemFromAborts, OwnsId, GoroutineState, frontendVars, bridgeVars, backendVars
  <2>1. ASSUME NEW c \in Calls, CallFetch(c) PROVE AbortInv'
    BY <2>1 DEF CallFetch
  <2>2. ASSUME NEW c \in Calls, Abort(c) PROVE AbortInv'
    BY <2>2 DEF Abort
  <2>3. ASSUME NEW c \in Calls, ReceiveReply(c) PROVE AbortInv'
    BY <2>3 DEF ReceiveReply
  <2>4. ASSUME NEW c \in Calls, FetchArrives(c) PROVE AbortInv'
    <3>1. goroutine[c] = "none"
      BY <2>4 DEF FetchArrives, RegistryInv, NotYetHandled
    <3>2. OwnsId(c) => ~Taken(IdOf[c])
      BY <3>1 DEF Taken, RegistryInv, RegistryIsExact, InFlight
    <3>3. OwnsId(c) /\ EarlyCancelled(IdOf[c]) => c \in aborted
      BY DEF EarlyCancelled, Pruned
    <3>4. CASE EarlyCancelled(IdOf[c])
      BY <2>4, <3>3, <3>4 DEF FetchArrives, Pruned
    <3>5. CASE ~EarlyCancelled(IdOf[c])
      BY <2>4, <3>1, <3>2, <3>5 DEF FetchArrives, Pruned
    <3>6. QED
      BY <3>4, <3>5
  <2>5. ASSUME NEW c \in Calls, ProviderReturns(c) PROVE AbortInv'
    BY <2>5 DEF ProviderReturns
  <2>6. ASSUME NEW c \in Calls, FetchExits(c) PROVE AbortInv'
    BY <2>6 DEF FetchExits
  <2>7. ASSUME NEW c \in Calls, CancelArrives(c) PROVE AbortInv'
    BY <2>7 DEF CancelArrives, Stopped, Remembered, Taken, Pruned, RegistryInv,
                RegistryIsExact, InFlight
  <2>8. ASSUME NEW i \in Ids, RetentionEnds(i) PROVE AbortInv'
    BY <2>8 DEF RetentionEnds
  <2>9. CASE UNCHANGED registryVars
    BY <2>9 DEF registryVars
  <2>10. QED
    BY <2>1, <2>2, <2>3, <2>4, <2>5, <2>6, <2>7, <2>8, <2>9 DEF RegistryNext
<1>3. AbortInv => OnlyAbortedCallsAreCancelled
  BY DEF AbortInv
<1>4. QED
  BY <1>1, <1>2, <1>3, RegistryTypeCorrect, RegistryInvariant, PTL DEF RegistrySpec

-----------------------------------------------------------------------------
(***************************************************************************)
(* The streaming runtime.                                                  *)
(***************************************************************************)

\* An element appended to the second of two sequences is the last of both.
LEMMA AppendAfter ==
    ASSUME NEW s \in Seq(Chunks), NEW u \in Seq(Chunks), NEW x \in Chunks
    PROVE  s \o Append(u, x) = Append(s \o u, x)
<1>1. Append(u, x) = u \o <<x>> /\ <<x>> \in Seq(Chunks)
  BY AppendIsConcat
<1>2. s \o u \in Seq(Chunks)
  BY ConcatProperties
<1>3. Append(s \o u, x) = (s \o u) \o <<x>>
  BY <1>2, AppendIsConcat
<1> QED
  BY <1>1, <1>3, ConcatAssociative

\* What a tab has buffered, published or not, is a text.
LEMMA FullIsText ==
    ASSUME TypeOK, NEW t \in Tabs PROVE Full(t) \in Texts
<1> SUFFICES ASSUME NEW c \in Channels PROVE display[t][c] \o pending[t][c] \in Seq(Chunks)
  BY DEF Full, Texts
<1>1. display[t][c] \in Seq(Chunks) /\ pending[t][c] \in Seq(Chunks)
  BY DEF TypeOK, Texts
<1> QED
  BY <1>1, ConcatProperties

\* The empty text is a text.
LEMMA NothingIsText == Nothing \in Texts
  BY DEF Nothing, Texts

\* A flush changes what is published of a tab and not what it has buffered in all.
LEMMA FlushKeepsText ==
    ASSUME TypeOK, NEW t \in Tabs, Flush(t)
    PROVE  /\ display' \in [Tabs -> Texts] /\ pending' \in [Tabs -> Texts]
           /\ \A u \in Tabs : Full(u)' = Full(u)
           /\ display'[t] = Full(t)
           /\ \A u \in Tabs : u # t => display'[u] = display[u]
<1>1. Full(t) \in Texts /\ Nothing \in Texts
  BY FullIsText, NothingIsText
<1>2. display' \in [Tabs -> Texts] /\ pending' \in [Tabs -> Texts]
  BY <1>1 DEF Flush, TypeOK
<1>3. display'[t] = Full(t) /\ pending'[t] = Nothing
  BY DEF Flush, TypeOK
<1>4. \A u \in Tabs : u # t => display'[u] = display[u] /\ pending'[u] = pending[u]
  BY DEF Flush, TypeOK
<1>5. \A c \in Channels : Full(t)[c] \o Nothing[c] = Full(t)[c]
  <2> SUFFICES ASSUME NEW c \in Channels PROVE Full(t)[c] \o Nothing[c] = Full(t)[c]
    OBVIOUS
  <2>1. Full(t)[c] \in Seq(Chunks) /\ Nothing[c] = <<>>
    BY <1>1 DEF Texts, Nothing
  <2> QED
    BY <2>1, ConcatEmptySeq
<1>6. Full(t)' = Full(t)
  <2>1. Full(t)' = [c \in Channels |-> Full(t)[c] \o Nothing[c]]
    BY <1>3 DEF Full
  <2>2. Full(t) = [c \in Channels |-> Full(t)[c]]
    BY DEF Full
  <2> QED
    BY <1>5, <2>1, <2>2
<1>7. \A u \in Tabs : u # t => Full(u)' = Full(u)
  BY <1>4 DEF Full
<1> QED
  BY <1>2, <1>3, <1>4, <1>6, <1>7

\* Emptying the buffer of a tab leaves nothing in it and the others as they are.
LEMMA ResetEmptiesText ==
    ASSUME TypeOK, NEW t \in Tabs,
           display' = [display EXCEPT ![t] = Nothing],
           pending' = [pending EXCEPT ![t] = Nothing]
    PROVE  /\ display' \in [Tabs -> Texts] /\ pending' \in [Tabs -> Texts]
           /\ Full(t)' = Nothing /\ display'[t] = Nothing
           /\ \A u \in Tabs : u # t => Full(u)' = Full(u) /\ display'[u] = display[u]
<1>1. display' \in [Tabs -> Texts] /\ pending' \in [Tabs -> Texts]
  BY NothingIsText DEF TypeOK
<1>2. display'[t] = Nothing /\ pending'[t] = Nothing
  BY DEF TypeOK
<1>3. \A u \in Tabs : u # t => display'[u] = display[u] /\ pending'[u] = pending[u]
  BY DEF TypeOK
<1>4. <<>> \o <<>> = <<>>
  BY ConcatEmptySeq, EmptySeq
<1>5. Full(t)' = Nothing
  <2>1. Full(t)' = [c \in Channels |-> display'[t][c] \o pending'[t][c]]
    BY DEF Full
  <2>2. Full(t)' = [c \in Channels |-> Nothing[c] \o Nothing[c]]
    BY ONLY <1>2, <2>1
  <2> QED
    BY <2>2, <1>4 DEF Nothing
<1> QED
  BY <1>1, <1>2, <1>3, <1>5 DEF Full

\* An accepted chunk comes after what the tab has, merged or not.
LEMMA ChunkExtendsText ==
    ASSUME TypeOK, NEW r \in Requests, NEW c \in Channels, NEW x \in Chunks,
           owner[r] \in Tabs, Receives(r, c, x)
    PROVE  /\ display' \in [Tabs -> Texts] /\ pending' \in [Tabs -> Texts]
           /\ Full(owner[r])' = [Full(owner[r]) EXCEPT ![c] = Append(@, x)]
           /\ display'[owner[r]] \in {display[owner[r]], Full(owner[r])'}
           /\ \A u \in Tabs : u # owner[r] => Full(u)' = Full(u) /\ display'[u] = display[u]
<1> DEFINE t == owner[r]
           more == Buffered(t, c, x)
           next == [Full(t) EXCEPT ![c] = Append(@, x)]
<1>1. display[t] \in Texts /\ pending[t] \in Texts /\ Full(t) \in Texts
  BY FullIsText DEF TypeOK
<1>2. more \in Texts
  BY <1>1 DEF Buffered, Texts
<1>3. \A d \in Channels : display[t][d] \o more[d] = next[d]
  <2> SUFFICES ASSUME NEW d \in Channels PROVE display[t][d] \o more[d] = next[d]
    OBVIOUS
  <2>1. display[t][d] \in Seq(Chunks) /\ pending[t][d] \in Seq(Chunks)
    BY <1>1 DEF Texts
  <2>2. CASE d = c
    <3>1. more[d] = Append(pending[t][d], x)
      BY <1>1, <2>2 DEF Buffered, Texts
    <3>2. next[d] = Append(display[t][d] \o pending[t][d], x)
      BY <2>2 DEF Full
    <3>3. display[t][c] \o Append(pending[t][c], x) = Append(display[t][c] \o pending[t][c], x)
      <4>1. display[t][c] \in Seq(Chunks) /\ pending[t][c] \in Seq(Chunks)
        BY <2>1, <2>2
      <4> HIDE DEF t
      <4> QED
        BY <4>1, AppendAfter
    <3> HIDE DEF t, more, next
    <3> QED
      BY <2>2, <3>1, <3>2, <3>3
  <2>3. CASE d # c
    BY <1>1, <2>3 DEF Buffered, Texts, Full
  <2> QED
    BY <2>2, <2>3
<1>4. next = [d \in Channels |-> display[t][d] \o more[d]]
  BY <1>3 DEF Full
<1>5. next \in Texts
  <2>1. \A d \in Channels : next[d] \in Seq(Chunks)
    BY <1>1 DEF Texts
  <2> QED
    BY <2>1, <1>4 DEF Texts
<1>6. CASE t # selected /\ Compacts(t, c, x)
  <2>1. /\ display' = [display EXCEPT ![t] = next]
        /\ pending' = [pending EXCEPT ![t] = Nothing]
    BY <1>4, <1>6 DEF Receives
  <2>2. display' \in [Tabs -> Texts] /\ pending' \in [Tabs -> Texts]
    BY <1>5, <2>1, NothingIsText DEF TypeOK
  <2>3. display'[t] = next /\ pending'[t] = Nothing
    BY <2>1 DEF TypeOK
  <2>4. \A u \in Tabs : u # t => display'[u] = display[u] /\ pending'[u] = pending[u]
    BY <2>1 DEF TypeOK
  <2>5. \A d \in Channels : next[d] \o Nothing[d] = next[d]
    <3> SUFFICES ASSUME NEW d \in Channels PROVE next[d] \o Nothing[d] = next[d]
      OBVIOUS
    <3>1. next[d] \in Seq(Chunks) /\ Nothing[d] = <<>>
      BY <1>5 DEF Texts, Nothing
    <3> HIDE DEF next
    <3> QED
      BY <3>1, ConcatEmptySeq
  <2>6. Full(t)' = next
    <3>1. Full(t)' = [d \in Channels |-> display'[t][d] \o pending'[t][d]]
      BY DEF Receives, Full
    <3>2. Full(t)' = [d \in Channels |-> next[d] \o Nothing[d]]
      BY <2>3, <3>1
    <3>3. next = [d \in Channels |-> next[d]]
      BY <1>5 DEF Texts
    <3> HIDE DEF next
    <3> QED
      BY <2>5, <3>2, <3>3
  <2> QED
    BY <2>2, <2>3, <2>4, <2>6 DEF Full, Receives
<1>7. CASE ~(t # selected /\ Compacts(t, c, x))
  <2>1. display' = display /\ pending' = [pending EXCEPT ![t] = more]
    BY <1>7 DEF Receives
  <2>2. display' \in [Tabs -> Texts] /\ pending' \in [Tabs -> Texts]
    BY <1>2, <2>1 DEF TypeOK
  <2>3. display'[t] = display[t] /\ pending'[t] = more
    BY <2>1 DEF TypeOK
  <2>4. \A u \in Tabs : u # t => display'[u] = display[u] /\ pending'[u] = pending[u]
    BY <2>1 DEF TypeOK
  <2>5. Full(t)' = next
    <3>1. Full(t)' = [d \in Channels |-> display'[t][d] \o pending'[t][d]]
      BY DEF Receives, Full
    <3> QED
      BY <1>4, <2>3, <3>1
  <2> QED
    BY <2>2, <2>3, <2>4, <2>5 DEF Full, Receives
<1> QED
  BY <1>6, <1>7

\* The next chunk of a channel is one of what the backend streams.
LEMMA NextChunk ==
    ASSUME TypeOK, NEW r \in Requests, NEW c \in Channels, Chunk(r, c)
    PROVE  \E x \in Chunks : Receives(r, c, x)
<1> DEFINE n == Len(received[r][c]) + 1
<1>1. Output[r][c] \in Seq(Chunks) /\ received[r][c] \in Seq(Chunks)
  BY OutputAssumption DEF TypeOK, Texts
<1>2. n \in 1..Len(Output[r][c])
  BY <1>1 DEF Chunk
<1>3. Output[r][c][n] \in Chunks
  BY <1>1, <1>2
<1> QED
  BY <1>3 DEF Chunk

\* What a turn keeps, completed or cut short, is a text.
LEMMA KeptIsText ==
    ASSUME TypeOK, NEW r \in Requests, NEW said \in Replies, owner[r] \in Tabs
    PROVE  /\ [text |-> Chosen(said["text"], Full(owner[r])["text"], FALSE),
               thinking |-> said["thinking"]] \in Texts
           /\ [text |-> Chosen(said["text"], Full(owner[r])["text"], TRUE),
               thinking |-> WithThinking(said["thinking"], Full(owner[r])["thinking"])] \in Texts
<1>1. said \in Texts /\ Full(owner[r]) \in Texts
  BY FullIsText, RepliesAssumption
<1>2. \A c \in Channels : said[c] \in Seq(Chunks) /\ Full(owner[r])[c] \in Seq(Chunks)
  BY <1>1 DEF Texts
<1>3. "text" \in Channels /\ "thinking" \in Channels
  BY DEF Channels
<1>4. /\ Chosen(said["text"], Full(owner[r])["text"], FALSE) \in Seq(Chunks)
      /\ Chosen(said["text"], Full(owner[r])["text"], TRUE) \in Seq(Chunks)
  BY <1>2, <1>3 DEF Chosen
<1>5. WithThinking(said["thinking"], Full(owner[r])["thinking"]) \in Seq(Chunks)
  BY <1>2, <1>3, ConcatProperties DEF WithThinking
<1>6. \A s, u \in Seq(Chunks) : [text |-> s, thinking |-> u] \in Texts
  BY DEF Texts, Channels
<1> QED
  BY <1>2, <1>3, <1>4, <1>5, <1>6

\* Both ends of a request end it with a turn.
LEMMA EndsWithTurn ==
    ASSUME TypeOK, NEW r \in Requests, NEW said \in Replies,
           Complete(r, said) \/ Cut(r, said)
    PROVE  \E turn \in Answers : EndRequest(r, turn)
<1>1. owner[r] \in Tabs
  BY DEF Complete, Cut, EndRequest, Accepts, TypeOK
<1>2. ASSUME NEW kept \in Texts, NEW how \in {"done", "cut"}
      PROVE  [how |-> how, kept |-> kept] \in Answers
  BY DEF Answers
<1>3. CASE Complete(r, said)
  BY <1>1, <1>2, <1>3, KeptIsText DEF Complete
<1>4. CASE Cut(r, said)
  BY <1>1, <1>2, <1>4, KeptIsText DEF Cut
<1> QED
  BY <1>3, <1>4

-----------------------------------------------------------------------------
\* Every variable keeps its type.
THEOREM TypeCorrect == Spec => []TypeOK
<1> USE DEF buffers, publication, turns
<1>1. Init => TypeOK
  BY NothingIsText DEF Init, TypeOK
<1>2. TypeOK /\ [Next]_vars => TypeOK'
  <2> SUFFICES ASSUME TypeOK, [Next]_vars PROVE TypeOK'
    OBVIOUS
  <2>1. ASSUME NEW t \in Tabs, Select(t) PROVE TypeOK'
    <3>1. Full(t) \in Texts
      BY FullIsText
    <3>2. display' \in [Tabs -> Texts] /\ pending' \in [Tabs -> Texts]
      BY <2>1, FlushKeepsText DEF Select, CatchUp, PublishNow, TypeOK
    <3>3. schedule' \in [Tabs -> {"idle", "timer", "frame"}] /\ recent' \in [Tabs -> BOOLEAN]
      BY <2>1 DEF Select, CatchUp, PublishNow, TypeOK
    <3> QED
      BY <2>1, <3>1, <3>2, <3>3 DEF Select, CatchUp, TypeOK
  <2>2. ASSUME NEW t \in Tabs, TimerFires(t) PROVE TypeOK'
    BY <2>2 DEF TimerFires, TypeOK
  <2>3. ASSUME NEW t \in Tabs, FrameTooEarly(t) PROVE TypeOK'
    BY <2>3 DEF FrameTooEarly, TypeOK
  <2>4. ASSUME NEW t \in Tabs, FramePublishes(t) PROVE TypeOK'
    <3>1. Full(t) \in Texts
      BY FullIsText
    <3>2. display' \in [Tabs -> Texts] /\ pending' \in [Tabs -> Texts]
      BY <2>4, FlushKeepsText DEF FramePublishes
    <3> QED
      BY <2>4, <3>1, <3>2 DEF FramePublishes, TypeOK
  <2>5. ASSUME NEW t \in Tabs, IntervalPasses(t) PROVE TypeOK'
    BY <2>5 DEF IntervalPasses, TypeOK
  <2>6. ASSUME NEW t \in Tabs, ClearStream(t) PROVE TypeOK'
    <3>1. display' \in [Tabs -> Texts] /\ pending' \in [Tabs -> Texts]
      BY <2>6, ResetEmptiesText DEF ClearStream
    <3> QED
      BY <2>6, <3>1, NothingIsText DEF ClearStream, TypeOK
  <2>7. ASSUME NEW t \in Tabs, CloseTab(t) PROVE TypeOK'
    <3>1. display' \in [Tabs -> Texts] /\ pending' \in [Tabs -> Texts]
      BY <2>7, ResetEmptiesText DEF CloseTab
    <3> QED
      BY <2>7, <3>1 DEF CloseTab, TypeOK
  <2>8. ASSUME NEW t \in Tabs, NEW r \in Requests, BeginRequest(t, r) PROVE TypeOK'
    <3>1. display' \in [Tabs -> Texts] /\ pending' \in [Tabs -> Texts]
      BY <2>8, ResetEmptiesText DEF BeginRequest
    <3> QED
      BY <2>8, <3>1, NothingIsText DEF BeginRequest, TypeOK
  <2>9. ASSUME NEW r \in Requests, NEW c \in Channels, NEW x \in Chunks, Receives(r, c, x)
        PROVE  TypeOK'
    <3>1. owner[r] \in Tabs
      BY <2>9 DEF Receives, Accepts, TypeOK
    <3>2. display' \in [Tabs -> Texts] /\ pending' \in [Tabs -> Texts]
      BY <2>9, <3>1, ChunkExtendsText
    <3>3. received' \in [Requests -> Texts]
      BY <2>9 DEF Receives, TypeOK, Texts
    <3>4. schedule' \in [Tabs -> {"idle", "timer", "frame"}]
      BY <2>9 DEF Receives, TypeOK
    <3> QED
      BY <2>9, <3>2, <3>3, <3>4 DEF Receives, TypeOK
  <2>10. ASSUME NEW r \in Requests, NEW turn \in Answers, EndRequest(r, turn) PROVE TypeOK'
    BY <2>10 DEF EndRequest, TypeOK
  <2>11. CASE UNCHANGED vars
    BY <2>11 DEF vars, TypeOK
  <2> QED
    BY <2>1, <2>2, <2>3, <2>4, <2>5, <2>6, <2>7, <2>8, <2>9, <2>10, <2>11, NextChunk, EndsWithTurn DEF Next, Publication
<1>3. QED
  BY <1>1, <1>2, PTL DEF Spec

-----------------------------------------------------------------------------
\* Nothing was sent for a request that no tab has made.
FreshIsEmpty == \A r \in Requests : owner[r] = None => received[r] = Nothing /\ answer[r] = None

StreamInv == RequestsAreOwned /\ FreshIsEmpty /\ Lossless

\* The strengthened invariant: the text of a tab is what its request received, and
\* a request is made once, by one tab.
LEMMA StreamInvariant == Spec => []StreamInv
<1> USE DEF buffers, publication, turns
<1>1. Init => StreamInv
  BY NoneAssumption DEF Init, StreamInv, RequestsAreOwned, FreshIsEmpty, Lossless
<1>2. TypeOK /\ StreamInv /\ [Next]_vars => StreamInv'
  <2> SUFFICES ASSUME TypeOK, StreamInv, [Next]_vars PROVE StreamInv'
    OBVIOUS
  <2>0. /\ \A t \in Tabs : request[t] \in Requests \cup {None}
        /\ \A r \in Requests : owner[r] \in Tabs \cup {None}
        /\ None \notin Requests /\ None \notin Tabs
    BY NoneAssumption DEF TypeOK
  <2> DEFINE Same == UNCHANGED turns /\ \A u \in Tabs : Full(u)' = Full(u)
  <2>s. ASSUME Same PROVE StreamInv'
    BY <2>s DEF StreamInv, RequestsAreOwned, FreshIsEmpty, Lossless
  <2>1. ASSUME NEW t \in Tabs, Select(t) PROVE StreamInv'
    <3>1. \A u \in Tabs : Full(u)' = Full(u)
      <4>1. CASE pending[t] = Nothing
        BY <2>1, <4>1 DEF Select, CatchUp, Full
      <4>2. CASE pending[t] # Nothing
        BY <2>1, <4>2, FlushKeepsText DEF Select, CatchUp, PublishNow
      <4> QED
        BY <4>1, <4>2
    <3> QED
      BY <2>1, <3>1, <2>s DEF Select
  <2>2. ASSUME NEW t \in Tabs, TimerFires(t) \/ FrameTooEarly(t) \/ IntervalPasses(t)
        PROVE  StreamInv'
    <3>1. Same
      BY <2>2 DEF TimerFires, FrameTooEarly, IntervalPasses, Full
    <3> QED
      BY <3>1, <2>s
  <2>3. ASSUME NEW t \in Tabs, FramePublishes(t) PROVE StreamInv'
    <3>1. Same
      BY <2>3, FlushKeepsText DEF FramePublishes
    <3> QED
      BY <3>1, <2>s
  <2>4. ASSUME NEW t \in Tabs, ClearStream(t) PROVE StreamInv'
    <3>1. \A u \in Tabs : u # t => Full(u)' = Full(u)
      BY <2>4, ResetEmptiesText DEF ClearStream
    <3>2. request[t] = None /\ UNCHANGED turns
      BY <2>4 DEF ClearStream
    <3> QED
      BY <3>1, <3>2 DEF StreamInv, RequestsAreOwned, FreshIsEmpty, Lossless
  <2>5. ASSUME NEW t \in Tabs, CloseTab(t) PROVE StreamInv'
    <3>1. \A u \in Tabs : u # t => Full(u)' = Full(u)
      BY <2>5, ResetEmptiesText DEF CloseTab
    <3>2. /\ request'[t] = None /\ \A u \in Tabs : u # t => request'[u] = request[u]
          /\ UNCHANGED <<owner, received, answer>>
      BY <2>5 DEF CloseTab, TypeOK
    <3> QED
      BY <3>1, <3>2 DEF StreamInv, RequestsAreOwned, FreshIsEmpty, Lossless
  <2>6. ASSUME NEW t \in Tabs, NEW r \in Requests, BeginRequest(t, r) PROVE StreamInv'
    <3>1. Full(t)' = Nothing /\ \A u \in Tabs : u # t => Full(u)' = Full(u)
      BY <2>6, ResetEmptiesText DEF BeginRequest
    <3>2. /\ request'[t] = r /\ \A u \in Tabs : u # t => request'[u] = request[u]
          /\ owner'[r] = t /\ \A q \in Requests : q # r => owner'[q] = owner[q]
          /\ UNCHANGED <<received, answer>>
      BY <2>6 DEF BeginRequest, TypeOK
    <3>3. owner[r] = None
      BY <2>6 DEF BeginRequest
    <3>4. RequestsAreOwned'
      BY <2>0, <3>2, <3>3 DEF StreamInv, RequestsAreOwned, FreshIsEmpty
    <3>5. FreshIsEmpty'
      BY <2>0, <3>2 DEF StreamInv, FreshIsEmpty
    <3>6. Lossless'
      BY <2>0, <3>1, <3>2, <3>3 DEF StreamInv, Lossless, FreshIsEmpty
    <3> QED
      BY <3>4, <3>5, <3>6 DEF StreamInv
  <2>7. ASSUME NEW r \in Requests, NEW c \in Channels, NEW x \in Chunks, Receives(r, c, x)
        PROVE  StreamInv'
    <3>1. owner[r] \in Tabs /\ request[owner[r]] = r
      BY <2>0, <2>7 DEF Receives, Accepts
    <3>2. /\ Full(owner[r])' = [Full(owner[r]) EXCEPT ![c] = Append(@, x)]
          /\ \A u \in Tabs : u # owner[r] => Full(u)' = Full(u)
      <4>1. owner[r] \in Tabs
        BY <3>1
      <4> QED
        BY <2>7, <4>1, ChunkExtendsText
    <3>3. /\ UNCHANGED <<request, owner, answer>>
          /\ received'[r] = [received[r] EXCEPT ![c] = Append(@, x)]
          /\ \A q \in Requests : q # r => received'[q] = received[q]
      BY <2>7 DEF Receives, TypeOK
    <3>4. RequestsAreOwned' /\ FreshIsEmpty'
      BY <2>0, <3>1, <3>3 DEF StreamInv, RequestsAreOwned, FreshIsEmpty
    <3>5. ASSUME NEW u \in Tabs, request[u] # None PROVE Full(u)' = received'[request[u]]
      <4>1. Full(u) = received[request[u]] /\ owner[request[u]] = u /\ request[u] \in Requests
        BY <2>0, <3>5 DEF StreamInv, Lossless, RequestsAreOwned
      <4>2. CASE u = owner[r]
        BY <3>1, <3>2, <3>3, <4>1, <4>2
      <4>3. CASE u # owner[r]
        BY <3>1, <3>2, <3>3, <4>1, <4>3
      <4> QED
        BY <4>2, <4>3
    <3>6. Lossless'
      BY <3>3, <3>5 DEF Lossless
    <3> QED
      BY <3>4, <3>6 DEF StreamInv
  <2>8. ASSUME NEW r \in Requests, NEW turn \in Answers, EndRequest(r, turn) PROVE StreamInv'
    <3>1. owner[r] \in Tabs /\ request[owner[r]] = r
      BY <2>0, <2>8 DEF EndRequest, Accepts
    <3>2. /\ request'[owner[r]] = None
          /\ \A u \in Tabs : u # owner[r] => request'[u] = request[u]
          /\ UNCHANGED <<owner, received, buffers>>
          /\ \A q \in Requests : q # r => answer'[q] = answer[q]
      BY <2>8, <3>1 DEF EndRequest, TypeOK
    <3>3. RequestsAreOwned' /\ FreshIsEmpty'
      BY <2>0, <3>1, <3>2 DEF StreamInv, RequestsAreOwned, FreshIsEmpty
    <3>4. Lossless'
      BY <3>2 DEF StreamInv, Lossless, Full
    <3> QED
      BY <3>3, <3>4 DEF StreamInv
  <2>9. CASE UNCHANGED vars
    BY <2>9 DEF vars, StreamInv, RequestsAreOwned, FreshIsEmpty, Lossless, Full
  <2> QED
    BY <2>1, <2>2, <2>3, <2>4, <2>5, <2>6, <2>7, <2>8, <2>9, NextChunk, EndsWithTurn DEF Next, Publication
<1>3. QED
  BY <1>1, <1>2, TypeCorrect, PTL DEF Spec

\* Whatever tabs are selected and closed meanwhile, and however the chunks are merged
\* and published, a tab's buffer holds exactly what its request received, in order.
THEOREM BufferIsLossless == Spec => []Lossless
<1>1. StreamInv => Lossless
  BY DEF StreamInv
<1> QED
  BY <1>1, StreamInvariant, PTL

\* A tab's request is one it made itself, and has no answer yet.
THEOREM OneRequestPerTab == Spec => []RequestsAreOwned
<1>1. StreamInv => RequestsAreOwned
  BY DEF StreamInv
<1> QED
  BY <1>1, StreamInvariant, PTL

-----------------------------------------------------------------------------
\* How LiveText sees the requests a step is not about.
SameToReader(q) == Status(q)' = Status(q) /\ Visible(q)' = Visible(q)

\* A request is unaffected when its tab keeps it and what it displays, or when it
\* has none and is not made.
LEMMA Unaffected ==
    ASSUME TypeOK, StreamInv, NEW q \in Requests,
           owner'[q] = owner[q], answer'[q] = answer[q],
           \A u \in Tabs : owner[q] = u /\ request[u] = q => request'[u] = q /\ display'[u] = display[u],
           \A u \in Tabs : owner[q] = u /\ request[u] # q => request'[u] # q
    PROVE  SameToReader(q)
<1>1. owner[q] \in Tabs \cup {None} /\ None \notin Tabs
  BY NoneAssumption DEF TypeOK
<1>2. CASE owner[q] = None
  BY <1>2 DEF SameToReader, Status, Visible
<1>3. CASE owner[q] \in Tabs /\ request[owner[q]] = q
  BY <1>1, <1>3 DEF SameToReader, Status, Visible
<1>4. CASE owner[q] \in Tabs /\ request[owner[q]] # q
  <2>1. Status(q)' = Status(q) /\ Status(q) # "live"
    <3>1. answer[q] # None => answer[q].how # "live"
      BY DEF TypeOK, Answers
    <3> QED
      BY <1>1, <1>4, <3>1 DEF Status
  <2> QED
    BY <2>1 DEF SameToReader, Visible
<1> QED
  BY <1>1, <1>2, <1>3, <1>4

\* When a step affects no request, LiveText stutters.
LEMMA Stutters ==
    ASSUME received' = received, \A q \in Requests : SameToReader(q)
    PROVE  UNCHANGED Live!vars
  BY DEF Live!vars, SameToReader

\* A flush of a tab makes all that its request received readable.
LEMMA FlushReveals ==
    ASSUME TypeOK, StreamInv, NEW t \in Tabs, Flush(t), UNCHANGED turns
    PROVE  Live!Next \/ UNCHANGED Live!vars
<1>0. /\ display'[t] = Full(t) /\ \A u \in Tabs : u # t => display'[u] = display[u]
      /\ request' = request /\ owner' = owner /\ answer' = answer /\ received' = received
  BY FlushKeepsText DEF turns
<1>1. CASE request[t] = None
  <2>1. \A q \in Requests : SameToReader(q)
    BY <1>0, <1>1, Unaffected, NoneAssumption
  <2> QED
    BY <1>0, <2>1, Stutters
<1>2. CASE request[t] # None
  <2> DEFINE r == request[t]
  <2>1. r \in Requests /\ owner[r] = t /\ Full(t) = received[r] /\ t # None
    BY <1>2, NoneAssumption DEF TypeOK, StreamInv, RequestsAreOwned, Lossless
  <2>2. \A q \in Requests : q # r => SameToReader(q)
    BY <1>0, <2>1, Unaffected
  <2>3. Status(r) = "live" /\ Status(r)' = "live" /\ Visible(r)' = received[r]
    BY <1>0, <2>1 DEF Status, Visible
  <2>4. Live!RevealMore(r)
    BY <1>0, <2>1, <2>2, <2>3 DEF Live!RevealMore, SameToReader
  <2> QED
    BY <2>1, <2>4 DEF Live!Next
<1> QED
  BY <1>1, <1>2

\* A request that ends takes its last turn to the reader, whatever was published of it.
LEMMA EndConcludes ==
    ASSUME TypeOK, StreamInv, NEW r \in Requests, NEW turn \in Answers, EndRequest(r, turn)
    PROVE  Live!Conclude(r, turn.how, turn.kept) /\ Full(owner[r]) = received[r]
<1>0. /\ \A t \in Tabs : request[t] \in Requests \cup {None}
      /\ \A q \in Requests : owner[q] \in Tabs \cup {None}
      /\ None \notin Requests /\ None \notin Tabs /\ None \notin Answers
  BY NoneAssumption DEF TypeOK
<1>1. owner[r] \in Tabs /\ request[owner[r]] = r
  BY <1>0 DEF EndRequest, Accepts
<1>2. /\ request'[owner[r]] = None /\ \A u \in Tabs : u # owner[r] => request'[u] = request[u]
      /\ answer'[r] = turn /\ \A q \in Requests : q # r => answer'[q] = answer[q]
      /\ owner' = owner /\ received' = received /\ display' = display
  BY <1>1 DEF EndRequest, TypeOK, buffers
<1>3. Full(owner[r]) = received[r]
  BY <1>0, <1>1 DEF StreamInv, Lossless
<1>4. \A q \in Requests : q # r => SameToReader(q)
  BY <1>0, <1>1, <1>2, Unaffected
<1>5. turn.how \in {"done", "cut"} /\ turn # None
  BY <1>0 DEF Answers
<1>6. Status(r) = "live" /\ Status(r)' = turn.how /\ Visible(r)' = turn.kept
  BY <1>0, <1>1, <1>2, <1>5 DEF Status, Visible
<1> QED
  BY <1>2, <1>3, <1>4, <1>6 DEF Live!Conclude, SameToReader

\* What begins a sequence that begins it is that sequence.
LEMMA BeginEachOther ==
    ASSUME NEW s \in Seq(Chunks), NEW u \in Seq(Chunks), Begins(s, u), Begins(u, s)
    PROVE  s = u
<1>0. Len(s) \in Nat /\ Len(u) \in Nat
  BY LenProperties
<1>1. Len(s) = Len(u)
  <2>1. Len(s) <= Len(u) /\ Len(u) <= Len(s)
    BY Zenon DEF Begins
  <2> QED
    BY <1>0, <2>1
<1>2. SubSeq(u, 1, Len(u)) = u
  BY SubSeqFull
<1>3. SubSeq(u, 1, Len(s)) = s
  BY Zenon DEF Begins
<1> QED
  BY <1>1, <1>2, <1>3

\* A turn that completes keeps its response, and the text sent beyond it.
LEMMA CompleteKeepsReply ==
    ASSUME TypeOK, StreamInv, NEW r \in Requests, NEW said \in Replies, Complete(r, said)
    PROVE  Live!Complete(r)
<1> DEFINE kept == [text |-> Chosen(said["text"], Full(owner[r])["text"], FALSE),
                    thinking |-> said["thinking"]]
           turn == [how |-> "done", kept |-> kept]
<1>1. owner[r] \in Tabs
  BY DEF Complete, EndRequest, Accepts, TypeOK
<1>2. kept \in Texts
  BY <1>1, KeptIsText
<1>3. EndRequest(r, turn)
  BY DEF Complete
<1>4. turn \in Answers
  BY <1>2 DEF Answers
<1>5. Live!Conclude(r, turn.how, turn.kept) /\ Full(owner[r]) = received[r]
  <2> HIDE DEF turn
  <2> QED
    BY <1>3, <1>4, EndConcludes
<1>6. said["text"] \in Seq(Chunks) /\ received[r]["text"] \in Seq(Chunks)
  BY RepliesAssumption DEF TypeOK, Texts, Channels
<1>7. Chosen(said["text"], received[r]["text"], FALSE)
        = IF Live!Begins(said["text"], received[r]["text"]) THEN received[r]["text"] ELSE said["text"]
  BY <1>6, BeginEachOther DEF Chosen, Begins, Live!Begins
<1> QED
  BY <1>5, <1>7 DEF Live!Complete

\* A turn that is cut short keeps all that was sent.
LEMMA CutKeepsAll ==
    ASSUME TypeOK, StreamInv, NEW r \in Requests, NEW said \in Replies, Cut(r, said)
    PROVE  Live!Cut(r)
<1> DEFINE kept == [text |-> Chosen(said["text"], Full(owner[r])["text"], TRUE),
                    thinking |-> WithThinking(said["thinking"], Full(owner[r])["thinking"])]
           turn == [how |-> "cut", kept |-> kept]
<1>1. owner[r] \in Tabs
  BY DEF Cut, EndRequest, Accepts, TypeOK
<1>2. kept \in Texts
  BY <1>1, KeptIsText
<1>3. EndRequest(r, turn)
  BY DEF Cut
<1>4. turn \in Answers
  BY <1>2 DEF Answers
<1>5. Live!Conclude(r, turn.how, turn.kept) /\ Full(owner[r]) = received[r]
  <2> HIDE DEF turn
  <2> QED
    BY <1>3, <1>4, EndConcludes
<1>6. Chosen(said["text"], received[r]["text"], TRUE)
        = IF Live!Begins(received[r]["text"], said["text"]) THEN said["text"] ELSE received[r]["text"]
  BY DEF Chosen, Begins, Live!Begins
<1>7. WithThinking(said["thinking"], received[r]["thinking"])
        = IF Live!Within(received[r]["thinking"], said["thinking"])
          THEN said["thinking"] ELSE said["thinking"] \o received[r]["thinking"]
  BY DEF WithThinking, Within, Live!Within
<1> QED
  BY <1>5, <1>6, <1>7 DEF Live!Cut

\* Every step of the runtime is one of LiveText or leaves what can be read alone.
LEMMA StepImplementsLiveText ==
    ASSUME TypeOK, StreamInv, [Next]_vars
    PROVE  Live!Next \/ UNCHANGED Live!vars
<1> USE DEF buffers, publication, turns
<1>0. /\ \A t \in Tabs : request[t] \in Requests \cup {None}
      /\ \A r \in Requests : owner[r] \in Tabs \cup {None}
      /\ None \notin Requests /\ None \notin Tabs /\ None \notin Answers
  BY NoneAssumption DEF TypeOK
<1>s. ASSUME UNCHANGED <<display, turns>> PROVE UNCHANGED Live!vars
  <2>1. \A q \in Requests : SameToReader(q)
    BY <1>s DEF SameToReader, Status, Visible
  <2> QED
    BY <1>s, <2>1, Stutters
<1>1. ASSUME NEW t \in Tabs, Select(t) PROVE Live!Next \/ UNCHANGED Live!vars
  <2>1. CASE pending[t] = Nothing
    BY <1>1, <1>s, <2>1 DEF Select, CatchUp
  <2>2. CASE pending[t] # Nothing
    BY <1>1, <2>2, FlushReveals DEF Select, CatchUp, PublishNow
  <2> QED
    BY <2>1, <2>2
<1>2. ASSUME NEW t \in Tabs, TimerFires(t) \/ FrameTooEarly(t) \/ IntervalPasses(t)
      PROVE  Live!Next \/ UNCHANGED Live!vars
  BY <1>2, <1>s DEF TimerFires, FrameTooEarly, IntervalPasses
<1>3. ASSUME NEW t \in Tabs, FramePublishes(t) PROVE Live!Next \/ UNCHANGED Live!vars
  BY <1>3, FlushReveals DEF FramePublishes
<1>4. ASSUME NEW t \in Tabs, ClearStream(t) PROVE Live!Next \/ UNCHANGED Live!vars
  <2>1. request[t] = None /\ UNCHANGED turns /\ \A u \in Tabs : u # t => display'[u] = display[u]
    BY <1>4, ResetEmptiesText DEF ClearStream
  <2>2. \A q \in Requests : SameToReader(q)
    BY <1>0, <2>1, Unaffected
  <2> QED
    BY <2>1, <2>2, Stutters
<1>5. ASSUME NEW t \in Tabs, CloseTab(t) PROVE Live!Next \/ UNCHANGED Live!vars
  <2>1. /\ \A u \in Tabs : u # t => display'[u] = display[u] /\ request'[u] = request[u]
        /\ request'[t] = None /\ owner' = owner /\ answer' = answer /\ received' = received
    BY <1>5, ResetEmptiesText DEF CloseTab, TypeOK
  <2>2. CASE request[t] = None
    <3>1. \A q \in Requests : SameToReader(q)
      BY <1>0, <2>1, <2>2, Unaffected
    <3> QED
      BY <2>1, <3>1, Stutters
  <2>3. CASE request[t] # None
    <3>0. PICK r \in Requests : request[t] = r
      BY <1>0, <2>3
    <3>1. r \in Requests /\ owner[r] = t /\ answer[r] = None
      BY <1>0, <2>3, <3>0 DEF StreamInv, RequestsAreOwned
    <3>2. \A q \in Requests : q # r => SameToReader(q)
      BY <1>0, <2>1, <3>0, <3>1, Unaffected
    <3>3. Status(r) = "live" /\ Status(r)' = "gone" /\ Visible(r)' = Nothing
      BY <1>0, <2>1, <3>0, <3>1 DEF Status, Visible
    <3>4. Live!Abandon(r)
      BY <2>1, <3>1, <3>2, <3>3 DEF Live!Abandon, Live!Conclude, Live!Nothing, Live!Channels, Nothing, Channels, SameToReader
    <3> QED
      BY <3>1, <3>4 DEF Live!Next
  <2> QED
    BY <2>2, <2>3
<1>6. ASSUME NEW t \in Tabs, NEW r \in Requests, BeginRequest(t, r)
      PROVE  Live!Next \/ UNCHANGED Live!vars
  <2>1. /\ request[t] = None /\ owner[r] = None /\ request'[t] = r /\ owner'[r] = t
        /\ \A u \in Tabs : u # t => request'[u] = request[u] /\ display'[u] = display[u]
        /\ display'[t] = Nothing /\ answer' = answer /\ received' = received
        /\ \A q \in Requests : q # r => owner'[q] = owner[q]
    BY <1>6, ResetEmptiesText DEF BeginRequest, TypeOK
  <2>2. \A q \in Requests : q # r => SameToReader(q)
    BY <1>0, <2>1, Unaffected
  <2>3. Status(r) = "new" /\ Status(r)' = "live" /\ Visible(r) = Nothing /\ Visible(r)' = Nothing
    BY <1>0, <2>1 DEF Status, Visible
  <2>4. Live!Start(r)
    BY <2>1, <2>2, <2>3 DEF Live!Start, SameToReader
  <2> QED
    BY <2>4 DEF Live!Next
<1>7. ASSUME NEW r \in Requests, NEW c \in Channels, NEW x \in Chunks, Receives(r, c, x)
      PROVE  Live!Next \/ UNCHANGED Live!vars
  <2>1. /\ owner[r] \in Tabs /\ request[owner[r]] = r
        /\ received' = [received EXCEPT ![r][c] = Append(@, x)]
        /\ request' = request /\ owner' = owner /\ answer' = answer
    BY <1>0, <1>7 DEF Receives, Accepts
  <2>2. /\ display'[owner[r]] \in {display[owner[r]], Full(owner[r])'}
        /\ \A u \in Tabs : u # owner[r] => display'[u] = display[u]
        /\ Full(owner[r])' = [Full(owner[r]) EXCEPT ![c] = Append(@, x)]
    BY <1>7, <2>1, ChunkExtendsText
  <2>3. \A q \in Requests : q # r => SameToReader(q)
    BY <2>1, <2>2, Unaffected
  <2>4. /\ Status(r) = "live" /\ Status(r)' = "live"
        /\ Visible(r) = display[owner[r]] /\ Visible(r)' = display'[owner[r]]
    BY <1>0, <2>1 DEF Status, Visible
  <2>5. Full(owner[r])' = received'[r]
    <3>1. Full(owner[r]) = received[r]
      BY <1>0, <2>1 DEF StreamInv, Lossless
    <3> QED
      BY <2>1, <2>2, <3>1 DEF TypeOK
  <2>6. CASE display'[owner[r]] = display[owner[r]]
    <3>1. Live!Receive(r)
      BY <2>1, <2>3, <2>4, <2>6 DEF Live!Receive, Live!Channels, Channels, SameToReader
    <3> QED
      BY <3>1 DEF Live!Next
  <2>7. CASE display'[owner[r]] = Full(owner[r])'
    <3>1. Live!ReceiveAndReveal(r)
      BY <2>1, <2>3, <2>4, <2>5, <2>7 DEF Live!ReceiveAndReveal, Live!Channels, Channels, SameToReader
    <3> QED
      BY <3>1 DEF Live!Next
  <2> QED
    BY <2>2, <2>6, <2>7
<1>8. ASSUME NEW r \in Requests, NEW said \in Replies, Complete(r, said) \/ Cut(r, said)
      PROVE  Live!Next \/ UNCHANGED Live!vars
  <2>1. CASE Complete(r, said)
    BY <2>1, CompleteKeepsReply DEF Live!Next
  <2>2. CASE Cut(r, said)
    BY <2>2, CutKeepsAll DEF Live!Next
  <2> QED
    BY <1>8, <2>1, <2>2
<1>9. CASE UNCHANGED vars
  BY <1>9, <1>s DEF vars
<1> QED
  BY <1>1, <1>2, <1>3, <1>4, <1>5, <1>6, <1>7, <1>8, <1>9, NextChunk DEF Next, Publication

\* The runtime and the ends of its requests implement LiveText: what can be read of an
\* answer is a beginning of what the backend sent; a turn that is stopped or fails keeps
\* all of it, and one that completes its response, with the text sent beyond it.
THEOREM ImplementsLiveText == Spec => Streams
<1>1. Init => Live!Init
  BY NoneAssumption DEF Init, Live!Init, Status, Visible, Nothing, Live!Nothing, Channels, Live!Channels
<1>2. TypeOK /\ StreamInv /\ [Next]_vars => [Live!Next]_(Live!vars)
  BY StepImplementsLiveText
<1> QED
  BY <1>1, <1>2, TypeCorrect, StreamInvariant, PTL DEF Spec, Streams, Live!Spec

-----------------------------------------------------------------------------
\* A sequence begins itself, and what is appended to a sequence is within the result.
LEMMA BeginsItself ==
    ASSUME NEW s \in Seq(Chunks) PROVE Begins(s, s)
<1>1. Len(s) \in Nat
  BY LenProperties
<1>2. Len(s) <= Len(s)
  BY <1>1
<1>3. SubSeq(s, 1, Len(s)) = s
  BY SubSeqFull
<1> QED
  BY <1>2, <1>3 DEF Begins

LEMMA WithinAppended ==
    ASSUME NEW s \in Seq(Chunks), NEW u \in Seq(Chunks) PROVE Within(s, u \o s)
<1>1. Len(s) \in Nat /\ Len(u) \in Nat
  BY LenProperties
<1>2. u \o s \in Seq(Chunks) /\ Len(u \o s) = Len(u) + Len(s)
  BY ConcatProperties
<1>3. SubSeq(u \o s, Len(u) + 1, Len(u) + Len(s)) = s
  <2>1. CASE Len(s) = 0
    <3>1. s = <<>>
      BY <2>1, EmptySeq
    <3>2. SubSeq(u \o s, Len(u) + 1, Len(u) + Len(s)) = <<>>
      BY <1>1, <1>2, <2>1, SubSeqEmpty
    <3> QED
      BY <3>1, <3>2
  <2>2. CASE Len(s) # 0
    <3>1. SubSeq(u \o s, Len(u) + 1, Len(u) + Len(s)) = SubSeq(s, 1, Len(s))
      <4>1. Len(u) + 1 \in Len(u) + 1 .. Len(u) + Len(s) /\ Len(u) + Len(s) \in Len(u) + 1 .. Len(u) + Len(s)
        BY <1>1, <2>2
      <4>2. Len(u) + 1 - Len(u) = 1 /\ Len(u) + Len(s) - Len(u) = Len(s)
        BY <1>1
      <4> QED
        BY <1>1, <4>1, <4>2, SubSeqOfConcat2
    <3>2. SubSeq(s, 1, Len(s)) = s
      BY SubSeqFull
    <3> QED
      BY <3>1, <3>2
  <2> QED
    BY <2>1, <2>2
<1>4. Len(u) \in 0..Len(u \o s) /\ Len(u) + Len(s) <= Len(u \o s)
  BY <1>1, <1>2
<1> QED
  BY <1>3, <1>4 DEF Within

\* The turn of a request that was stopped or failed holds all that was sent for it.
CutTurnIsWhole ==
    \A r \in Requests : answer[r] # None /\ answer[r].how = "cut" =>
        /\ Begins(received[r]["text"], answer[r].kept["text"])
        /\ Within(received[r]["thinking"], answer[r].kept["thinking"])

\* Stopping an answer, or losing the connection to the backend, takes nothing back that
\* was streamed, on either channel and whether or not it was published yet.
THEOREM NothingSentIsLost == Spec => []CutTurnIsWhole
<1>1. Init => CutTurnIsWhole
  BY DEF Init, CutTurnIsWhole
<1>2. TypeOK /\ StreamInv /\ CutTurnIsWhole /\ [Next]_vars => CutTurnIsWhole'
  <2> SUFFICES ASSUME TypeOK, StreamInv, CutTurnIsWhole, [Next]_vars PROVE CutTurnIsWhole'
    OBVIOUS
  <2>0. /\ \A r \in Requests : owner[r] \in Tabs \cup {None} /\ None \notin Requests
        /\ \A r \in Requests : owner[r] # None /\ request[owner[r]] = r => answer[r] = None
    BY NoneAssumption DEF TypeOK, StreamInv, RequestsAreOwned
  <2>1. CASE UNCHANGED <<received, answer>>
    BY <2>1 DEF CutTurnIsWhole
  <2>2. ASSUME NEW r \in Requests, NEW c \in Channels, NEW x \in Chunks, Receives(r, c, x)
        PROVE  CutTurnIsWhole'
    <3>1. answer' = answer /\ answer[r] = None
          /\ \A q \in Requests : q # r => received'[q] = received[q]
      BY <2>0, <2>2 DEF Receives, Accepts, TypeOK
    <3> QED
      BY <3>1 DEF CutTurnIsWhole
  <2>3. ASSUME NEW r \in Requests, NEW said \in Replies, Complete(r, said)
        PROVE  CutTurnIsWhole'
    <3>1. received' = received /\ answer'[r].how = "done"
          /\ \A q \in Requests : q # r => answer'[q] = answer[q]
      BY <2>3 DEF Complete, EndRequest, TypeOK
    <3> QED
      BY <3>1 DEF CutTurnIsWhole
  <2>4. ASSUME NEW r \in Requests, NEW said \in Replies, Cut(r, said)
        PROVE  CutTurnIsWhole'
    <3> DEFINE sent == received[r]
    <3>1. owner[r] \in Tabs /\ request[owner[r]] = r
      BY <2>0, <2>4 DEF Cut, EndRequest, Accepts
    <3>2. Full(owner[r]) = sent
      BY <2>0, <3>1 DEF StreamInv, Lossless
    <3>3. /\ received' = received /\ \A q \in Requests : q # r => answer'[q] = answer[q]
          /\ answer'[r].kept["text"] = Chosen(said["text"], sent["text"], TRUE)
          /\ answer'[r].kept["thinking"] = WithThinking(said["thinking"], sent["thinking"])
      BY <2>4, <3>2 DEF Cut, EndRequest, TypeOK
    <3>4. \A c \in Channels : sent[c] \in Seq(Chunks) /\ said[c] \in Seq(Chunks)
      BY RepliesAssumption DEF TypeOK, Texts
    <3>5. "text" \in Channels /\ "thinking" \in Channels
      BY DEF Channels
    <3> HIDE DEF sent
    <3>6. Begins(sent["text"], Chosen(said["text"], sent["text"], TRUE))
      BY <3>4, <3>5, BeginsItself DEF Chosen
    <3>7. Within(sent["thinking"], WithThinking(said["thinking"], sent["thinking"]))
      BY <3>4, <3>5, WithinAppended DEF WithThinking
    <3> QED
      BY <3>3, <3>6, <3>7 DEF CutTurnIsWhole, sent
  <2> QED
    <3>1. ASSUME NEW t \in Tabs,
                 \/ Select(t) \/ Publication(t) \/ IntervalPasses(t) \/ ClearStream(t) \/ CloseTab(t)
                 \/ \E r \in Requests : BeginRequest(t, r)
          PROVE  UNCHANGED <<received, answer>>
      BY <3>1 DEF Select, Publication, TimerFires, FrameTooEarly, FramePublishes, IntervalPasses,
                  ClearStream, CloseTab, BeginRequest, turns
    <3>2. UNCHANGED vars => UNCHANGED <<received, answer>>
      BY DEF vars, turns
    <3> QED
      BY <2>1, <2>2, <2>3, <2>4, <3>1, <3>2, NextChunk DEF Next
<1> QED
  BY <1>1, <1>2, TypeCorrect, StreamInvariant, PTL DEF Spec

-----------------------------------------------------------------------------
\* The chunks of the selected tab always have a timer or a frame to publish them.
THEOREM PublicationIsScheduled == Spec => []NoLostPublication
<1> USE DEF buffers, publication, turns
<1>1. Init => NoLostPublication
  BY DEF Init, NoLostPublication
<1>2. TypeOK /\ NoLostPublication /\ [Next]_vars => NoLostPublication'
  <2> SUFFICES ASSUME TypeOK, NoLostPublication, [Next]_vars PROVE NoLostPublication'
    OBVIOUS
  <2> USE DEF TypeOK, NoLostPublication
  <2>1. ASSUME NEW t \in Tabs, Select(t) PROVE NoLostPublication'
    BY <2>1 DEF Select, CatchUp, PublishNow, Flush
  <2>2. ASSUME NEW t \in Tabs, Publication(t) \/ IntervalPasses(t) PROVE NoLostPublication'
    BY <2>2 DEF Publication, TimerFires, FrameTooEarly, FramePublishes, IntervalPasses, Flush
  <2>3. ASSUME NEW t \in Tabs, ClearStream(t) PROVE NoLostPublication'
    BY <2>3 DEF ClearStream
  <2>4. ASSUME NEW t \in Tabs, CloseTab(t) PROVE NoLostPublication'
    BY <2>4 DEF CloseTab
  <2>5. ASSUME NEW t \in Tabs, NEW r \in Requests, BeginRequest(t, r) PROVE NoLostPublication'
    BY <2>5 DEF BeginRequest
  <2>6. ASSUME NEW r \in Requests, NEW c \in Channels, NEW x \in Chunks, Receives(r, c, x)
        PROVE  NoLostPublication'
    <3>1. owner[r] \in Tabs
      BY <2>6, NoneAssumption DEF Receives, Accepts
    <3>2. CASE owner[r] = selected
      BY <2>6, <3>1, <3>2 DEF Receives
    <3>3. CASE owner[r] # selected
      BY <2>6, <3>1, <3>3 DEF Receives
    <3> QED
      BY <3>2, <3>3
  <2>7. ASSUME NEW r \in Requests, NEW turn \in Answers, EndRequest(r, turn) PROVE NoLostPublication'
    BY <2>7 DEF EndRequest
  <2>8. CASE UNCHANGED vars
    BY <2>8 DEF vars
  <2> QED
    BY <2>1, <2>2, <2>3, <2>4, <2>5, <2>6, <2>7, <2>8, NextChunk, EndsWithTurn DEF Next
<1>3. QED
  BY <1>1, <1>2, TypeCorrect, PTL DEF Spec

\* The card of the selected tab shows the display it has, through every change of tabs.
THEOREM CardFollowsDisplay == Spec => []CardIsCurrent
<1> USE DEF buffers, publication, turns
<1>1. Init => CardIsCurrent
  BY DEF Init, CardIsCurrent
<1>2. TypeOK /\ CardIsCurrent /\ [Next]_vars => CardIsCurrent'
  <2> SUFFICES ASSUME TypeOK, CardIsCurrent, [Next]_vars PROVE CardIsCurrent'
    OBVIOUS
  <2> USE DEF CardIsCurrent
  <2>1. ASSUME NEW t \in Tabs, Select(t) PROVE CardIsCurrent'
    <3>1. CASE pending[t] = Nothing
      <4>1. display[t] \in Texts
        BY DEF TypeOK
      <4>2. \A c \in Channels : display[t][c] \o pending[t][c] = display[t][c]
        <5> SUFFICES ASSUME NEW c \in Channels PROVE display[t][c] \o pending[t][c] = display[t][c]
          OBVIOUS
        <5>1. display[t][c] \in Seq(Chunks) /\ pending[t][c] = <<>>
          BY <3>1, <4>1 DEF Texts, Nothing
        <5> QED
          BY <5>1, ConcatEmptySeq
      <4>3. Full(t) = display[t]
        BY <4>1, <4>2 DEF Full, Texts
      <4> QED
        BY <2>1, <3>1, <4>3 DEF Select, CatchUp
    <3>2. CASE pending[t] # Nothing
      BY <2>1, <3>2 DEF Select, CatchUp, PublishNow, Flush, TypeOK
    <3> QED
      BY <3>1, <3>2
  <2>2. ASSUME NEW t \in Tabs, TimerFires(t) \/ FrameTooEarly(t) \/ IntervalPasses(t)
        PROVE  CardIsCurrent'
    BY <2>2 DEF TimerFires, FrameTooEarly, IntervalPasses
  <2>3. ASSUME NEW t \in Tabs, FramePublishes(t) PROVE CardIsCurrent'
    BY <2>3 DEF FramePublishes, Flush, TypeOK
  <2>4. ASSUME NEW t \in Tabs, ClearStream(t) PROVE CardIsCurrent'
    BY <2>4 DEF ClearStream, TypeOK
  <2>5. ASSUME NEW t \in Tabs, CloseTab(t) PROVE CardIsCurrent'
    BY <2>5 DEF CloseTab, TypeOK
  <2>6. ASSUME NEW t \in Tabs, NEW r \in Requests, BeginRequest(t, r) PROVE CardIsCurrent'
    BY <2>6 DEF BeginRequest, TypeOK
  <2>7. ASSUME NEW r \in Requests, NEW c \in Channels, NEW x \in Chunks, Receives(r, c, x)
        PROVE  CardIsCurrent'
    BY <2>7 DEF Receives, TypeOK
  <2>8. ASSUME NEW r \in Requests, NEW turn \in Answers, EndRequest(r, turn) PROVE CardIsCurrent'
    <3>1. owner[r] \in Tabs
      BY <2>8, NoneAssumption DEF EndRequest, Accepts, TypeOK
    <3> QED
      BY <2>8, <3>1 DEF EndRequest, TypeOK
  <2>9. CASE UNCHANGED vars
    BY <2>9 DEF vars
  <2> QED
    BY <2>1, <2>2, <2>3, <2>4, <2>5, <2>6, <2>7, <2>8, <2>9, NextChunk, EndsWithTurn DEF Next, Publication
<1>3. QED
  BY <1>1, <1>2, TypeCorrect, PTL DEF Spec
=============================================================================
