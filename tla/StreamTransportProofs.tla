------------------------ MODULE StreamTransportProofs ------------------------
(***************************************************************************)
(* The credit window, its wake-ups and the shared-memory blocks, for every *)
(* window and any number of chunks.                                        *)
(***************************************************************************)
EXTENDS StreamTransport, TLAPS

\* The window is kept in two halves: the sender stays within a window of what it
\* believes was acknowledged, and what it believes is no more than was taken, by the
\* receiver or by the router itself.  The second half needs every acknowledgement
\* under way to be one the receiver has earned.
WindowInv ==
    /\ sent \in Nat /\ acked \in Nat /\ processed \in Nat /\ upstream \in Nat
    /\ acks \subseteq 1..processed
    /\ acked <= processed + upstream
    /\ sent <= acked + Window

\* WindowInv is preserved by every step.
LEMMA WindowStep ==
    ASSUME WindowInv, [StreamNext]_streamVars
    PROVE  WindowInv'
<1> USE StreamAssumption DEF WindowInv
<1>1. ASSUME NEW kind \in {"chunk", "tensor"}, CallSend(kind) PROVE WindowInv'
  BY <1>1 DEF CallSend, receiverVars
<1>2. ASSUME NEW local \in BOOLEAN, SendChunk(local) PROVE WindowInv'
  BY <1>2 DEF SendChunk, WindowFull, receiverVars
<1>3. CASE FindFull BY <1>3 DEF FindFull, receiverVars
<1>4. CASE ClearAndWait BY <1>4 DEF ClearAndWait, receiverVars
<1>5. CASE Wake BY <1>5 DEF Wake, receiverVars
<1>6. CASE StopRouter BY <1>6 DEF StopRouter, receiverVars
<1>7. CASE TakeUpstream BY <1>7 DEF TakeUpstream, receiverVars
<1>8. ASSUME NEW seq \in acks, ReceiveAck(seq) PROVE WindowInv'
  BY <1>8 DEF ReceiveAck, receiverVars
<1>9. ASSUME NEW seq \in acks, LoseAck(seq) PROVE WindowInv'
  BY <1>9 DEF LoseAck, senderVars, receiverVars
<1>10. CASE TakeChunk BY <1>10 DEF TakeChunk, senderVars
<1>11. CASE RejectFrame BY <1>11 DEF RejectFrame, senderVars, receiverVars
<1>12. CASE StopReceiver BY <1>12 DEF StopReceiver, senderVars
<1>13. CASE LoseChunk BY <1>13 DEF LoseChunk, senderVars, receiverVars
<1>14. CASE UNCHANGED streamVars
  BY <1>14 DEF streamVars, senderVars, receiverVars
<1> QED
  BY <1>1, <1>2, <1>3, <1>4, <1>5, <1>6, <1>7, <1>8, <1>9, <1>10, <1>11, <1>12, <1>13,
     <1>14 DEF StreamNext

\* However chunks and acknowledgements are lost, delayed or taken by a router that
\* listens itself, send_chunk never gets more than a window ahead of the receiver.
THEOREM WindowRespected == StreamSpec => []WindowHolds
<1>1. StreamInit => WindowInv BY StreamAssumption DEF StreamInit, WindowInv
<1>2. WindowInv /\ [StreamNext]_streamVars => WindowInv' BY WindowStep
<1>3. WindowInv => WindowHolds BY StreamAssumption DEF WindowInv, WindowHolds
<1> QED BY <1>1, <1>2, <1>3, PTL DEF StreamSpec

-----------------------------------------------------------------------------
\* What a sender that is about to wait, or waits, can count on.  A sender that found
\* the window full has not cleared the event yet, so WakeupPending alone says nothing
\* of it and is not inductive.
WakeInv ==
    /\ sent \in Nat /\ acked \in Nat
    /\ event \in BOOLEAN /\ missed \in BOOLEAN
    /\ acks \subseteq Nat /\ processed \in Nat
    /\ sender = "full" => WindowFull \/ missed
    /\ WakeupPending

\* WakeInv is preserved by every step.
LEMMA WakeStep ==
    ASSUME WakeInv, [StreamNext]_streamVars
    PROVE  WakeInv'
<1> USE StreamAssumption DEF WakeInv, WakeupPending, WindowFull
<1>1. ASSUME NEW kind \in {"chunk", "tensor"}, CallSend(kind) PROVE WakeInv'
  BY <1>1 DEF CallSend, receiverVars
<1>2. ASSUME NEW local \in BOOLEAN, SendChunk(local) PROVE WakeInv'
  BY <1>2 DEF SendChunk, receiverVars
<1>3. CASE FindFull BY <1>3 DEF FindFull, receiverVars
<1>4. CASE ClearAndWait BY <1>4 DEF ClearAndWait, receiverVars
<1>5. CASE Wake BY <1>5 DEF Wake, receiverVars
<1>6. CASE StopRouter BY <1>6 DEF StopRouter, receiverVars
<1>7. CASE TakeUpstream
  <2>1. missed' = (missed \/ sender = "full" \/ sender = "waiting")
    BY <1>7, Zenon DEF TakeUpstream
  <2>2. missed' \in BOOLEAN BY <2>1, Zenon
  <2>3. sender = "full" \/ sender = "waiting" => missed' BY <2>1, Zenon
  <2> QED BY <1>7, <2>2, <2>3 DEF TakeUpstream, receiverVars
<1>8. ASSUME NEW seq \in acks, ReceiveAck(seq) PROVE WakeInv'
  BY <1>8 DEF ReceiveAck, EventAfter, receiverVars
<1>9. ASSUME NEW seq \in acks, LoseAck(seq) PROVE WakeInv'
  BY <1>9 DEF LoseAck, senderVars, receiverVars
<1>10. CASE TakeChunk BY <1>10 DEF TakeChunk, senderVars
<1>11. CASE RejectFrame BY <1>11 DEF RejectFrame, senderVars, receiverVars
<1>12. CASE StopReceiver BY <1>12 DEF StopReceiver, senderVars
<1>13. CASE LoseChunk BY <1>13 DEF LoseChunk, senderVars, receiverVars
<1>14. CASE UNCHANGED streamVars
  BY <1>14 DEF streamVars, senderVars, receiverVars
<1> QED
  BY <1>1, <1>2, <1>3, <1>4, <1>5, <1>6, <1>7, <1>8, <1>9, <1>10, <1>11, <1>12, <1>13,
     <1>14 DEF StreamNext

\* A send that waits before an open window has its wake-up, in every order of sends,
\* acknowledgements and stops but the two that WakeupPending excepts.
THEOREM WakeupsPending == StreamSpec => []WakeupPending
<1>1. StreamInit => WakeInv
  <2> SUFFICES ASSUME StreamInit PROVE WakeInv OBVIOUS
  <2>1. sender # "full" /\ sender # "waiting" BY DEF StreamInit
  <2> QED BY <2>1 DEF StreamInit, WakeInv, WakeupPending
<1>2. WakeInv /\ [StreamNext]_streamVars => WakeInv' BY WakeStep
<1>3. WakeInv => WakeupPending BY DEF WakeInv
<1> QED BY <1>1, <1>2, <1>3, PTL DEF StreamSpec

-----------------------------------------------------------------------------
Chunk == [id: Nat, local: BOOLEAN]

\* Chunks are under way in the order they were numbered, below the next number.
Ordered(chunks, next) ==
    /\ \A i \in 1..Len(chunks) : chunks[i].id < next
    /\ \A i, j \in 1..Len(chunks) : i < j => chunks[i].id < chunks[j].id

\* The blocks of a sequence of chunks, by position.
LEMMA BlocksByPosition ==
    ASSUME NEW s \in Seq(Chunk), NEW d
    PROVE  d \in BlocksOf(s) <=> \E i \in 1..Len(s) : s[i].local /\ s[i].id = d
  BY DEF BlocksOf, Range

\* A published chunk adds its own block and no other.
LEMMA BlocksOfAppend ==
    ASSUME NEW s \in Seq(Chunk), NEW c \in Chunk
    PROVE  BlocksOf(Append(s, c)) = BlocksOf(s) \cup (IF c.local THEN {c.id} ELSE {})
<1> DEFINE t == Append(s, c)
<1>1. t \in Seq(Chunk) /\ Len(t) = Len(s) + 1 /\ t[Len(t)] = c
      /\ \A i \in 1..Len(s) : t[i] = s[i]
  OBVIOUS
<1>2. Len(s) \in Nat OBVIOUS
<1>3. ASSUME NEW d PROVE d \in BlocksOf(t) <=> d \in BlocksOf(s) \/ (c.local /\ d = c.id)
  <2> HIDE DEF t
  <2>1. d \in BlocksOf(t) <=> \E i \in 1..Len(t) : t[i].local /\ t[i].id = d
    BY <1>1, BlocksByPosition
  <2>2. d \in BlocksOf(s) <=> \E i \in 1..Len(s) : s[i].local /\ s[i].id = d
    BY BlocksByPosition
  <2>3. \A i \in 1..Len(t) : i \in 1..Len(s) \/ i = Len(t) BY <1>1, <1>2
  <2>4. \A i \in 1..Len(s) : i \in 1..Len(t) BY <1>1, <1>2
  <2>5. Len(t) \in 1..Len(t) BY <1>1, <1>2
  <2> QED BY <2>1, <2>2, <2>3, <2>4, <2>5, <1>1
<1> QED BY <1>3

\* The chunk at the head has the only block of its number.
LEMMA BlocksOfTail ==
    ASSUME NEW s \in Seq(Chunk), s # <<>>, NEW n, Ordered(s, n)
    PROVE  /\ BlocksOf(s) = BlocksOf(Tail(s)) \cup (IF Head(s).local THEN {Head(s).id} ELSE {})
           /\ Head(s).id \notin BlocksOf(Tail(s))
           /\ Tail(s) \in Seq(Chunk) /\ Ordered(Tail(s), n)
<1> DEFINE t == Tail(s)
<1>1. /\ t \in Seq(Chunk) /\ Len(s) \in Nat \ {0} /\ Len(t) = Len(s) - 1
      /\ Head(s) = s[1]
      /\ \A i \in 1..Len(t) : t[i] = s[i + 1]
  OBVIOUS
<1>2. ASSUME NEW d
      PROVE  d \in BlocksOf(s) <=> d \in BlocksOf(t) \/ (Head(s).local /\ d = Head(s).id)
  <2> HIDE DEF t
  <2>1. d \in BlocksOf(t) <=> \E i \in 1..Len(t) : t[i].local /\ t[i].id = d
    BY <1>1, BlocksByPosition
  <2>2. d \in BlocksOf(s) <=> \E i \in 1..Len(s) : s[i].local /\ s[i].id = d
    BY BlocksByPosition
  <2>3. \A i \in 1..Len(s) : i = 1 \/ (i - 1 \in 1..Len(t) /\ t[i - 1] = s[i]) BY <1>1
  <2>4. \A i \in 1..Len(t) : i + 1 \in 1..Len(s) BY <1>1
  <2>5. 1 \in 1..Len(s) BY <1>1
  <2> QED BY <2>1, <2>2, <2>3, <2>4, <2>5, <1>1
<1>3. Head(s).id \notin BlocksOf(t)
  <2> HIDE DEF t
  <2>1. \A i \in 1..Len(t) : s[1].id < s[i + 1].id BY <1>1 DEF Ordered
  <2>2. \A i \in 1..Len(t) : t[i].id \in Nat /\ t[i].id # s[1].id
    <3> TAKE i \in 1..Len(t)
    <3>1. i + 1 \in 1..Len(s) /\ 1 \in 1..Len(s) BY <1>1
    <3>2. s[1] \in Chunk /\ s[i + 1] \in Chunk BY <3>1
    <3> QED BY <1>1, <2>1, <3>2 DEF Chunk
  <2>3. s[1].id \in BlocksOf(t) <=> \E i \in 1..Len(t) : t[i].local /\ t[i].id = s[1].id
    BY <1>1, BlocksByPosition
  <2> QED BY <1>1, <2>2, <2>3
<1>4. Ordered(t, n)
  <2> HIDE DEF t
  <2>1. \A i \in 1..Len(t) : i + 1 \in 1..Len(s) /\ t[i] = s[i + 1] BY <1>1
  <2>2. \A i \in 1..Len(t) : t[i].id < n BY <2>1 DEF Ordered
  <2>3. ASSUME NEW i \in 1..Len(t), NEW j \in 1..Len(t), i < j
        PROVE  t[i].id < t[j].id
    <3>1. i + 1 < j + 1 BY <1>1, <2>3
    <3> QED BY <2>1, <3>1 DEF Ordered
  <2> QED BY <2>2, <2>3 DEF Ordered
<1> QED BY <1>1, <1>2, <1>3, <1>4

\* A block is unlinked by its number, so taking a chunk frees only its own block
\* because no two chunks, under way or strayed, have the same number.
BlockInv ==
    /\ sent \in Nat
    /\ stream \in Seq(Chunk)
    /\ Ordered(stream, sent)
    /\ strayed \subseteq 0..(sent - 1)
    /\ \A i \in 1..Len(stream) : stream[i].id \notin strayed
    /\ BlocksAccounted

\* What taking or losing the chunk at the head leaves.
LEMMA HeadGone ==
    ASSUME BlockInv, stream # <<>>
    PROVE  /\ Head(stream) \in Chunk
           /\ Head(stream).id \in 0..(sent - 1)
           /\ Head(stream).id \notin strayed
           /\ Tail(stream) \in Seq(Chunk)
           /\ Ordered(Tail(stream), sent)
           /\ \A i \in 1..Len(Tail(stream)) :
                 Tail(stream)[i].id \notin strayed \cup {Head(stream).id}
           /\ BlocksOf(stream) = BlocksOf(Tail(stream))
                 \cup (IF Head(stream).local THEN {Head(stream).id} ELSE {})
           /\ Head(stream).id \notin BlocksOf(Tail(stream))
<1> DEFINE t == Tail(stream)
<1>1. /\ Len(stream) \in Nat \ {0} /\ Len(t) = Len(stream) - 1
      /\ Head(stream) = stream[1] /\ Head(stream) \in Chunk
      /\ \A i \in 1..Len(t) : t[i] = stream[i + 1] /\ stream[i + 1] \in Chunk
  BY DEF BlockInv
<1>2. stream[1].id < sent /\ stream[1].id \notin strayed
  BY <1>1 DEF BlockInv, Ordered
<1>3. stream[1].id \in 0..(sent - 1) BY <1>1, <1>2 DEF BlockInv, Chunk
<1>4. ASSUME NEW i \in 1..Len(t) PROVE t[i].id \notin strayed \cup {stream[1].id}
  <2> HIDE DEF t
  <2>1. i + 1 \in 1..Len(stream) /\ 1 \in 1..Len(stream) /\ 1 < i + 1 BY <1>1
  <2>2. stream[1].id < stream[i + 1].id BY <2>1 DEF BlockInv, Ordered
  <2>3. stream[1].id \in Nat /\ stream[i + 1].id \in Nat BY <1>1 DEF Chunk
  <2>4. stream[i + 1].id \notin strayed BY <2>1 DEF BlockInv
  <2> QED BY <1>1, <2>2, <2>3, <2>4
<1> QED BY <1>1, <1>2, <1>3, <1>4, BlocksOfTail DEF BlockInv

\* BlockInv is preserved by every step.
LEMMA BlockStep == BlockInv /\ [StreamNext]_streamVars => BlockInv'
<1> SUFFICES ASSUME BlockInv, [StreamNext]_streamVars PROVE BlockInv'
  OBVIOUS
<1>1. CASE UNCHANGED <<sent, stream, blocks, strayed>>
  BY <1>1 DEF BlockInv, BlocksAccounted
<1>2. ASSUME NEW local \in BOOLEAN, SendChunk(local) PROVE BlockInv'
  <2> DEFINE c == [id |-> sent, local |-> local]
  <2>1. c \in Chunk BY DEF BlockInv, Chunk
  <2>2. /\ sent' = sent + 1 /\ sent \in Nat
        /\ blocks' = IF local THEN blocks \cup {sent} ELSE blocks
    BY <1>2 DEF SendChunk, Written, BlockInv
  <2>3. CASE Publishes
    <3>1. stream' = Append(stream, c) /\ strayed' = strayed
      BY <1>2, <2>3 DEF SendChunk
    <3>2. /\ stream' \in Seq(Chunk) /\ Len(stream) \in Nat
          /\ Len(stream') = Len(stream) + 1 /\ stream'[Len(stream')] = c
          /\ \A i \in 1..Len(stream) : stream'[i] = stream[i] /\ stream[i] \in Chunk
      BY <3>1, <2>1 DEF BlockInv
    <3>3. \A i \in 1..Len(stream') : i \in 1..Len(stream) \/ i = Len(stream')
      BY <3>2
    <3>4. \A i \in 1..Len(stream) : stream[i].id < sent /\ stream[i].id \in Nat
      BY <3>2 DEF BlockInv, Ordered, Chunk
    <3>5. \A i \in 1..Len(stream') : stream'[i].id < sent'
      BY <2>2, <3>2, <3>3, <3>4
    <3>6. ASSUME NEW i \in 1..Len(stream'), NEW j \in 1..Len(stream'), i < j
          PROVE  stream'[i].id < stream'[j].id
      <4>1. i \in 1..Len(stream) BY <3>2, <3>3, <3>6
      <4>2. CASE j \in 1..Len(stream) BY <3>2, <3>6, <4>1, <4>2 DEF BlockInv, Ordered
      <4>3. CASE j = Len(stream') BY <3>2, <3>4, <4>1, <4>3
      <4> QED BY <3>3, <4>2, <4>3
    <3>7. strayed' \subseteq 0..(sent' - 1) /\ sent \notin strayed
      BY <2>2, <3>1 DEF BlockInv
    <3>8. \A i \in 1..Len(stream') : stream'[i].id \notin strayed'
      BY <3>1, <3>2, <3>3, <3>7 DEF BlockInv
    <3>9. BlocksOf(stream') = BlocksOf(stream) \cup (IF local THEN {sent} ELSE {})
      BY <2>1, <3>1, BlocksOfAppend DEF BlockInv
    <3>10. BlocksAccounted'
      BY <2>2, <3>1, <3>9 DEF BlockInv, BlocksAccounted
    <3> QED BY <2>2, <3>2, <3>5, <3>6, <3>7, <3>8, <3>10 DEF BlockInv, Ordered
  <2>4. CASE ~Publishes
    <3>1. stream' = stream /\ strayed' = IF local THEN strayed \cup {sent} ELSE strayed
      BY <1>2, <2>4 DEF SendChunk
    <3>2. \A i \in 1..Len(stream) : stream[i] \in Chunk /\ stream[i].id < sent
      BY DEF BlockInv, Ordered
    <3>3. \A i \in 1..Len(stream) : stream[i].id < sent + 1 /\ stream[i].id # sent
      BY <2>2, <3>2 DEF Chunk
    <3>4. strayed' \subseteq 0..(sent' - 1) BY <2>2, <3>1 DEF BlockInv
    <3>5. BlocksAccounted' BY <2>2, <3>1 DEF BlockInv, BlocksAccounted
    <3> QED BY <2>2, <3>1, <3>3, <3>4, <3>5 DEF BlockInv, Ordered
  <2> QED BY <2>3, <2>4
<1>3. CASE TakeChunk \/ RejectFrame
  <2>1. /\ stream # <<>> /\ stream' = Tail(stream) /\ sent' = sent /\ strayed' = strayed
        /\ blocks' = IF Head(stream).local THEN blocks \ {Head(stream).id} ELSE blocks
    BY <1>3 DEF TakeChunk, RejectFrame, AfterTaking, Unlinked, senderVars
  <2>2. BlocksAccounted' BY <2>1, HeadGone DEF BlockInv, BlocksAccounted
  <2> QED BY <2>1, <2>2, HeadGone DEF BlockInv
<1>4. CASE LoseChunk
  <2>1. /\ stream # <<>> /\ stream' = Tail(stream) /\ sent' = sent /\ blocks' = blocks
        /\ strayed' = IF Head(stream).local THEN strayed \cup {Head(stream).id} ELSE strayed
    BY <1>4 DEF LoseChunk, senderVars
  <2>2. BlocksAccounted' BY <2>1, HeadGone DEF BlockInv, BlocksAccounted
  <2> QED BY <2>1, <2>2, HeadGone DEF BlockInv
<1>5. ASSUME \/ \E kind \in {"chunk", "tensor"} : CallSend(kind)
             \/ FindFull \/ ClearAndWait \/ Wake \/ StopRouter \/ TakeUpstream
             \/ \E seq \in acks : ReceiveAck(seq) \/ LoseAck(seq)
             \/ StopReceiver \/ UNCHANGED streamVars
      PROVE  UNCHANGED <<sent, stream, blocks, strayed>>
  BY <1>5 DEF CallSend, FindFull, ClearAndWait, Wake, StopRouter, TakeUpstream, ReceiveAck,
              LoseAck, StopReceiver, senderVars, streamVars
<1> QED BY <1>1, <1>2, <1>3, <1>4, <1>5 DEF StreamNext

\* No shared-memory block is lost or freed early, whatever is sent, taken, rejected or
\* lost and whoever stops.
THEOREM BlocksKept == StreamSpec => []BlocksAccounted
<1>1. StreamInit => BlockInv
  <2> SUFFICES ASSUME StreamInit PROVE BlockInv OBVIOUS
  <2>1. BlocksOf(<<>>) = {} BY DEF BlocksOf, Range
  <2> QED BY <2>1 DEF StreamInit, BlockInv, BlocksAccounted, Ordered
<1>2. BlockInv /\ [StreamNext]_streamVars => BlockInv' BY BlockStep
<1>3. BlockInv => BlocksAccounted BY DEF BlockInv
<1> QED BY <1>1, <1>2, <1>3, PTL DEF StreamSpec
=============================================================================
