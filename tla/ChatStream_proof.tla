-------------------------- MODULE ChatStream_proof --------------------------
(***************************************************************************)
(* Theorems about ChatStream for every queue size and any number of tokens. *)
(***************************************************************************)
EXTENDS ChatStream, TLAPS

Item == StreamItem \cup {STREAM_CLOSED}

\* The highest rank the worker has published so far.
Published ==
    IF worker \in {"close", "evict_close"} THEN MaxTokens + 1
    ELSE IF worker = "done" THEN MaxTokens + 2
    ELSE tokens

\* The strengthening that makes order inductive: nothing in the stream ranks
\* above what the worker has published, so that what it publishes next is new.
NothingAhead ==
    /\ \A i \in DOMAIN queue : Rank(queue[i]) <= Published
    /\ \A i \in DOMAIN received : Rank(received[i]) <= Published

StreamInv ==
    TypeOK /\ StreamIsOrdered /\ NothingAhead /\ ControlSurvivesTokens

-----------------------------------------------------------------------------
(* Items, ranks and the two operations on the queue.                       *)

LEMMA RankOfItem ==
    /\ \A n \in 0..MaxTokens : Token(n) \in StreamItem /\ Rank(Token(n)) = n
    /\ \A e \in Control : /\ ControlItem(e) \in StreamItem
                          /\ Rank(ControlItem(e)) = MaxTokens + 1
    /\ STREAM_CLOSED \in Item /\ Rank(STREAM_CLOSED) = MaxTokens + 2
    /\ \A item \in Item : Rank(item) \in Nat
<1> USE TokensAreBounded DEF Rank, Control, ControlItem
<1>1. \A n \in 0..MaxTokens : Token(n) \in StreamItem /\ Rank(Token(n)) = n
  BY DEF Token, StreamItem
<1>2. \A e \in Control : /\ ControlItem(e) \in StreamItem
                         /\ Rank(ControlItem(e)) = MaxTokens + 1
  BY DEF StreamItem
<1>3. STREAM_CLOSED \in Item /\ Rank(STREAM_CLOSED) = MaxTokens + 2
  BY DEF STREAM_CLOSED, Item
<1>4. \A item \in Item : Rank(item) \in Nat
  BY <1>3 DEF Item, StreamItem
<1> QED BY <1>1, <1>2, <1>3, <1>4

\* An item that ranks above everything in an ordered sequence may follow it.
LEMMA AppendKeepsOrder ==
    ASSUME NEW q \in Seq(Item), NEW item \in Item, Ordered(q),
           \A i \in DOMAIN q : Rank(q[i]) < Rank(item)
    PROVE  /\ Append(q, item) \in Seq(Item)
           /\ Len(Append(q, item)) = Len(q) + 1
           /\ Ordered(Append(q, item))
           /\ \A i \in DOMAIN Append(q, item) :
                  \/ i \in DOMAIN q /\ Append(q, item)[i] = q[i]
                  \/ i = Len(q) + 1 /\ Append(q, item)[i] = item
           /\ Append(q, item)[Len(q) + 1] = item
           /\ Len(q) + 1 \in DOMAIN Append(q, item)
<1> DEFINE r == Append(q, item)
<1>1. /\ r \in Seq(Item) /\ Len(r) = Len(q) + 1
      /\ DOMAIN q = 1..Len(q) /\ DOMAIN r = 1..(Len(q) + 1)
      /\ r[Len(q) + 1] = item /\ \A i \in 1..Len(q) : r[i] = q[i]
  OBVIOUS
<1> HIDE DEF r
<1>2. \A i \in DOMAIN r :
          (i \in DOMAIN q /\ r[i] = q[i]) \/ (i = Len(q) + 1 /\ r[i] = item)
  BY <1>1
<1>3. ASSUME NEW i \in DOMAIN r, NEW j \in DOMAIN r, i < j
      PROVE  Rank(r[i]) < Rank(r[j])
  <2>1. i \in DOMAIN q /\ r[i] = q[i]
    BY <1>1, <1>3
  <2>2. CASE j \in DOMAIN q
    BY <1>1, <1>3, <2>1, <2>2 DEF Ordered
  <2>3. CASE j = Len(q) + 1
    BY <1>1, <2>1, <2>3
  <2> QED BY <1>1, <2>2, <2>3
<1> QED BY <1>1, <1>2, <1>3 DEF Ordered, r

\* Removing the oldest item keeps the order of the rest.
LEMMA TailKeepsOrder ==
    ASSUME NEW q \in Seq(Item), q # <<>>, Ordered(q)
    PROVE  /\ Tail(q) \in Seq(Item)
           /\ Len(Tail(q)) = Len(q) - 1
           /\ Ordered(Tail(q))
           /\ \A i \in DOMAIN Tail(q) :
                  /\ i + 1 \in DOMAIN q /\ Tail(q)[i] = q[i + 1]
                  /\ Rank(q[1]) < Rank(Tail(q)[i])
           /\ \A i \in DOMAIN q : 
                  i = 1 \/ (i - 1 \in DOMAIN Tail(q) /\ Tail(q)[i - 1] = q[i])
           /\ 1 \in DOMAIN q /\ Head(q) = q[1]
<1> DEFINE r == Tail(q)
<1>1. /\ r \in Seq(Item) /\ Len(r) = Len(q) - 1 /\ Len(q) \in Nat \ {0}
      /\ DOMAIN q = 1..Len(q) /\ DOMAIN r = 1..(Len(q) - 1)
      /\ \A i \in 1..(Len(q) - 1) : r[i] = q[i + 1]
      /\ Head(q) = q[1]
  OBVIOUS
<1> HIDE DEF r
<1>2. \A i \in DOMAIN r : /\ i \in Nat /\ i + 1 \in DOMAIN q /\ r[i] = q[i + 1]
                          /\ 1 \in DOMAIN q /\ 1 < i + 1
  BY <1>1
<1>3. Ordered(r)
  BY <1>2 DEF Ordered
<1>4. \A i \in DOMAIN r : Rank(q[1]) < Rank(r[i])
  BY <1>2 DEF Ordered
<1>5. \A i \in DOMAIN q : i = 1 \/ (i - 1 \in DOMAIN r /\ r[i - 1] = q[i])
  BY <1>1
<1> QED BY <1>1, <1>2, <1>3, <1>4, <1>5 DEF r


-----------------------------------------------------------------------------
(* The ways a step can move the stream.                                    *)

LEMMA PublishedIsNat ==
    ASSUME TypeOK
    PROVE  Published \in Nat /\ tokens \in Nat /\ tokens <= MaxTokens
BY TokensAreBounded DEF TypeOK, Published

\* A step that leaves the stream alone and does not take back a publication.
LEMMA StreamUnmoved ==
    ASSUME StreamInv, UNCHANGED <<queue, received>>,
           Published \in Nat, Published' \in Nat, Published <= Published'
    PROVE  StreamIsOrdered' /\ NothingAhead'
<1>1. StreamIsOrdered'
  BY DEF StreamInv, StreamIsOrdered, Ordered
<1>2. ASSUME NEW i \in DOMAIN queue PROVE Rank(queue[i]) <= Published'
  <2>1. queue[i] \in Item
    BY DEF StreamInv, TypeOK, Item
  <2> QED BY <2>1, RankOfItem DEF StreamInv, NothingAhead
<1>3. ASSUME NEW i \in DOMAIN received PROVE Rank(received[i]) <= Published'
  <2>1. received[i] \in Item
    BY DEF StreamInv, TypeOK, Item
  <2> QED BY <2>1, RankOfItem DEF StreamInv, NothingAhead
<1> QED BY <1>1, <1>2, <1>3 DEF NothingAhead

\* A step that publishes a new item behind the queue or behind its tail.
LEMMA StreamExtended ==
    ASSUME StreamInv, NEW q, q = queue \/ (queue # <<>> /\ q = Tail(queue)),
           NEW item \in Item, queue' = Append(q, item), received' = received,
           Published < Rank(item), Published' = Rank(item)
    PROVE  /\ queue' \in Seq(Item) /\ Len(queue') = Len(q) + 1
           /\ StreamIsOrdered' /\ NothingAhead'
           /\ \E i \in DOMAIN queue' : queue'[i] = item
<1>1. /\ TypeOK /\ queue \in Seq(Item) /\ received \in Seq(Item)
      /\ Published \in Nat /\ Rank(item) \in Nat
      /\ \A i \in DOMAIN queue : queue[i] \in Item
      /\ \A i \in DOMAIN received : received[i] \in Item
  BY PublishedIsNat, RankOfItem DEF StreamInv, TypeOK, Item
<1>2. /\ q \in Seq(Item) /\ Ordered(q)
      /\ \A i \in DOMAIN q : \E j \in DOMAIN queue : q[i] = queue[j]
  <2>1. CASE q = queue
    BY <1>1, <2>1 DEF StreamInv, StreamIsOrdered
  <2>2. CASE queue # <<>> /\ q = Tail(queue)
    BY <1>1, <2>2, TailKeepsOrder DEF StreamInv, StreamIsOrdered
  <2> QED BY <2>1, <2>2
<1>3. \A j \in DOMAIN queue : Rank(queue[j]) \in Nat /\ Rank(queue[j]) < Rank(item)
  BY <1>1, RankOfItem DEF StreamInv, NothingAhead
<1>4. \A i \in DOMAIN received :
          Rank(received[i]) \in Nat /\ Rank(received[i]) < Rank(item)
  BY <1>1, RankOfItem DEF StreamInv, NothingAhead
<1>5. \A i \in DOMAIN q : Rank(q[i]) < Rank(item)
  BY <1>2, <1>3
<1>6. /\ queue' \in Seq(Item) /\ Len(queue') = Len(q) + 1 /\ Ordered(queue')
      /\ \A i \in DOMAIN queue' :
             queue'[i] = item \/ \E j \in DOMAIN queue : queue'[i] = queue[j]
      /\ \E i \in DOMAIN queue' : queue'[i] = item
  BY <1>2, <1>5, AppendKeepsOrder
<1>7. StreamIsOrdered'
  <2>1. Ordered(received)
    BY DEF StreamInv, StreamIsOrdered
  <2>2. ASSUME NEW i \in DOMAIN received, NEW j \in DOMAIN queue'
        PROVE  Rank(received[i]) < Rank(queue'[j])
    BY <1>4, <1>6 DEF StreamInv, StreamIsOrdered
  <2> QED BY <1>6, <2>1, <2>2 DEF StreamIsOrdered, Ordered
<1>8. NothingAhead'
  <2>1. ASSUME NEW i \in DOMAIN queue' PROVE Rank(queue'[i]) <= Rank(item)
    <3>1. CASE queue'[i] = item
      BY <1>1, <3>1
    <3>2. CASE \E j \in DOMAIN queue : queue'[i] = queue[j]
      BY <1>1, <1>3, <3>2
    <3> QED BY <1>6, <3>1, <3>2
  <2>2. \A i \in DOMAIN received : Rank(received[i]) <= Rank(item)
    BY <1>1, <1>4
  <2> QED BY <2>1, <2>2 DEF NothingAhead
<1> QED BY <1>6, <1>7, <1>8

\* A step outside the stream: it publishes nothing, and reaches the close only
\* if it was there or the run was cancelled.
LEMMA QuietStep ==
    ASSUME StreamInv, TypeOK', UNCHANGED <<queue, received>>,
           Published <= Published',
           worker' \in {"close", "evict_close"} /\ ~cancelled' =>
               worker \in {"close", "evict_close"} /\ ~cancelled
    PROVE  StreamInv'
<1>1. Published \in Nat /\ Published' \in Nat
  BY TokensAreBounded DEF StreamInv, TypeOK, Published
<1>2. StreamIsOrdered' /\ NothingAhead'
  BY <1>1, StreamUnmoved
<1>3. ControlSurvivesTokens'
  BY DEF StreamInv, ControlSurvivesTokens, Received, Queued
<1> QED BY <1>2, <1>3 DEF StreamInv

\* A step of the worker that publishes: `q` is the queue it appends to, cut by
\* an eviction or not.
LEMMA PublishingStep ==
    ASSUME StreamInv, NEW q, q = queue \/ (queue # <<>> /\ q = Tail(queue)),
           Len(q) < MaxSize,
           NEW item \in Item, queue' = Append(q, item),
           Published < Rank(item), Published' = Rank(item),
           worker' \in {"answering", "close", "done"}, tokens' \in 0..MaxTokens,
           worker' = "close" => item.event \in Control,
           UNCHANGED <<cancelled, status, remembered, transport, canceller>>
    PROVE  StreamInv'
<1>1. /\ queue' \in Seq(Item) /\ Len(queue') = Len(q) + 1
      /\ StreamIsOrdered' /\ NothingAhead'
      /\ \E i \in DOMAIN queue' : queue'[i] = item
  BY StreamExtended DEF transport
<1>2. Len(queue') <= MaxSize
  <2>1. Len(q) \in Nat
    <3>1. queue \in Seq(Item)
      BY DEF StreamInv, TypeOK, Item
    <3> QED BY <3>1, TailKeepsOrder DEF StreamInv, StreamIsOrdered
  <2> QED BY <1>1, <2>1, BufferIsLargeEnough
<1>3. TypeOK'
  BY <1>1, <1>2 DEF StreamInv, TypeOK, Item, transport
<1>4. ControlSurvivesTokens'
  <2>1. worker' = "close" => Queued(Control)'
    BY <1>1 DEF Queued
  <2> QED BY <2>1 DEF ControlSurvivesTokens
<1> QED BY <1>1, <1>3, <1>4 DEF StreamInv

\* put_nowait finds room after _discard_oldest.
LEMMA RoomAfterEviction ==
    ASSUME StreamInv
    PROVE  Len(IF queue = <<>> THEN queue ELSE Tail(queue)) < MaxSize
<1>1. queue \in Seq(Item) /\ Len(queue) <= MaxSize /\ Ordered(queue)
  BY DEF StreamInv, StreamIsOrdered, TypeOK, Item
<1>2. CASE queue = <<>>
  BY <1>2, BufferIsLargeEnough
<1>3. CASE queue # <<>>
  BY <1>1, <1>3, TailKeepsOrder, BufferIsLargeEnough
<1> QED BY <1>2, <1>3

LEMMA RunChatStep ==
    ASSUME StreamInv, RunChat
    PROVE  StreamInv'
<1> USE DEF StreamInv
<1>tokens. tokens \in Nat /\ tokens <= MaxTokens
  BY TokensAreBounded DEF TypeOK
<1>1. CASE Create
  <2>1. TypeOK'
    BY <1>1 DEF Create, TypeOK, buffer, transport
  <2> QED BY <1>1, <2>1, QuietStep, PublishedIsNat
          DEF Create, Published, buffer, transport
<1>2. CASE FailBeforeRun
  <2>1. TypeOK'
    BY <1>2 DEF FailBeforeRun, TypeOK, Control, buffer, transport
  <2> QED BY <1>2, <2>1, QuietStep, PublishedIsNat
          DEF FailBeforeRun, Published, buffer, transport
<1>3. CASE PublishToken
  <2>1. tokens' \in 0..MaxTokens /\ tokens' = tokens + 1 /\ tokens \in Nat
    BY <1>3, TokensAreBounded DEF PublishToken, TypeOK
  <2>2. CASE cancelled \/ Full
    <3>1. TypeOK'
      BY <1>3, <2>1, <2>2 DEF PublishToken, TypeOK, transport
    <3> QED BY <1>3, <2>1, <2>2, <3>1, QuietStep
            DEF PublishToken, Published, transport
  <2>3. CASE ~(cancelled \/ Full)
    <3>1. /\ Token(tokens') \in Item /\ Rank(Token(tokens')) = tokens'
          /\ Published < Rank(Token(tokens')) /\ Published' = Rank(Token(tokens'))
      BY <1>3, <2>1, RankOfItem DEF PublishToken, Published, Item
    <3>2. Len(queue) < MaxSize
      BY <2>3, BufferIsLargeEnough DEF Full, TypeOK
    <3> QED BY <1>3, <2>1, <2>3, <3>1, <3>2, PublishingStep
            DEF PublishToken, Put
  <2> QED BY <2>2, <2>3
<1>4. CASE AnswerReturns
  <2>1. TypeOK'
    BY <1>4 DEF AnswerReturns, TypeOK, buffer, transport
  <2> QED BY <1>4, <2>1, QuietStep, PublishedIsNat
          DEF AnswerReturns, Published, buffer, transport
<1>5. CASE AnswerRaises
  <2>1. TypeOK'
    BY <1>5 DEF AnswerRaises, TypeOK, Control, buffer, transport
  <2> QED BY <1>5, <2>1, QuietStep, PublishedIsNat
          DEF AnswerRaises, Published, buffer, transport
<1>6. CASE AnswerCancelled
  <2>1. TypeOK'
    BY <1>6 DEF AnswerCancelled, TypeOK, buffer, transport
  <2> QED BY <1>6, <2>1, QuietStep, PublishedIsNat, TokensAreBounded
          DEF AnswerCancelled, Published, buffer, transport
<1>7. CASE Remember
  <2>1. TypeOK'
    BY <1>7 DEF Remember, TypeOK, Control, buffer, transport
  <2> QED BY <1>7, <2>1, QuietStep, PublishedIsNat
          DEF Remember, Published, buffer, transport
<1>8. CASE Publish
  <2>1. CASE cancelled
    <3>1. TypeOK'
      BY <1>8, <2>1 DEF Publish, TypeOK, transport
    <3> QED BY <1>8, <2>1, <3>1, QuietStep, <1>tokens, TokensAreBounded
            DEF Publish, Published, Control, transport
  <2>2. CASE ~cancelled /\ Full
    <3>1. TypeOK'
      BY <1>8, <2>2 DEF Publish, TypeOK, transport
    <3> QED BY <1>8, <2>2, <3>1, QuietStep, PublishedIsNat
            DEF Publish, Published, Control, transport
  <2>3. CASE ~cancelled /\ ~Full
    <3>1. /\ ControlItem(worker) \in Item
          /\ Rank(ControlItem(worker)) = MaxTokens + 1
          /\ ControlItem(worker).event \in Control
      BY <1>8, RankOfItem DEF Publish, Item, ControlItem
    <3>2. Published < MaxTokens + 1 /\ Published' = MaxTokens + 1
      BY <1>8, <2>3, <1>tokens, TokensAreBounded
      DEF Publish, Published, Control
    <3>3. Len(queue) < MaxSize
      BY <2>3, BufferIsLargeEnough DEF Full, TypeOK
    <3> QED BY <1>8, <2>3, <3>1, <3>2, <3>3, PublishingStep
            DEF Publish, Put, TypeOK
  <2> QED BY <2>1, <2>2, <2>3
<1>9. CASE PublishEvicting
  <2> DEFINE event == IF worker = "evict_final" THEN "final" ELSE "error"
             q == IF queue = <<>> THEN queue ELSE Tail(queue)
  <2>1. /\ ControlItem(event) \in Item
        /\ Rank(ControlItem(event)) = MaxTokens + 1
        /\ ControlItem(event).event \in Control
    BY RankOfItem DEF Item, ControlItem, Control
  <2>2. Published < MaxTokens + 1 /\ Published' = MaxTokens + 1
    BY <1>9, <1>tokens, TokensAreBounded DEF PublishEvicting, Published
  <2>3. Len(q) < MaxSize
    BY RoomAfterEviction
  <2>4. queue' = Append(q, ControlItem(event))
    BY <1>9 DEF PublishEvicting, EvictAndPut
  <2>5. q = queue \/ (queue # <<>> /\ q = Tail(queue))
    OBVIOUS
  <2> HIDE DEF q, event
  <2> QED BY <1>9, <2>1, <2>2, <2>3, <2>4, <2>5, PublishingStep
          DEF PublishEvicting, TypeOK
<1>10. CASE Close
  <2>1. CASE Full
    <3>1. TypeOK'
      BY <1>10, <2>1 DEF Close, TypeOK, transport
    <3> QED BY <1>10, <2>1, <3>1, QuietStep, TokensAreBounded
            DEF Close, Published, transport
  <2>2. CASE ~Full
    <3>1. Published < MaxTokens + 2 /\ Published' = MaxTokens + 2
      BY <1>10, <2>2, TokensAreBounded DEF Close, Published
    <3>2. Len(queue) < MaxSize
      BY <2>2, BufferIsLargeEnough DEF Full, TypeOK
    <3> QED BY <1>10, <2>2, <3>1, <3>2, RankOfItem, PublishingStep
            DEF Close, Put, TypeOK
  <2> QED BY <2>1, <2>2
<1>11. CASE CloseEvicting
  <2> DEFINE q == IF queue = <<>> THEN queue ELSE Tail(queue)
  <2>1. Published < MaxTokens + 2 /\ Published' = MaxTokens + 2
    BY <1>11, TokensAreBounded DEF CloseEvicting, Published
  <2>2. Len(q) < MaxSize
    BY RoomAfterEviction
  <2>3. queue' = Append(q, STREAM_CLOSED)
    BY <1>11 DEF CloseEvicting, EvictAndPut
  <2>4. q = queue \/ (queue # <<>> /\ q = Tail(queue))
    OBVIOUS
  <2> HIDE DEF q
  <2> QED BY <1>11, <2>1, <2>2, <2>3, <2>4, RankOfItem, PublishingStep
          DEF CloseEvicting, TypeOK
<1> QED BY <1>1, <1>2, <1>3, <1>4, <1>5, <1>6, <1>7, <1>8, <1>9, <1>10, <1>11
        DEF RunChat

\* Reading moves the oldest item from the queue to the client.
LEMMA GetStep ==
    ASSUME StreamInv, Get
    PROVE  StreamInv'
<1>1. /\ TypeOK /\ queue \in Seq(Item) /\ queue # <<>> /\ received \in Seq(Item)
      /\ queue' = Tail(queue) /\ Head(queue) = queue[1] /\ 1 \in DOMAIN queue
      /\ queue[1] \in Item
      /\ Published' = Published /\ Published \in Nat
  BY TailKeepsOrder, PublishedIsNat
  DEF StreamInv, StreamIsOrdered, TypeOK, Item, Get, run, Published
<1>2. /\ queue' \in Seq(Item) /\ Len(queue') = Len(queue) - 1 /\ Ordered(queue')
      /\ \A i \in DOMAIN queue' : /\ \E j \in DOMAIN queue : queue'[i] = queue[j]
                                  /\ Rank(queue[1]) < Rank(queue'[i])
      /\ \A i \in DOMAIN queue :
             i = 1 \/ \E j \in DOMAIN queue' : queue'[j] = queue[i]
  BY <1>1, TailKeepsOrder DEF StreamInv, StreamIsOrdered
<1>3. Len(queue') <= MaxSize
  BY <1>1, <1>2, BufferIsLargeEnough DEF TypeOK
<1>4. \A i \in DOMAIN queue' : Rank(queue'[i]) <= Published'
  BY <1>1, <1>2 DEF StreamInv, NothingAhead
<1>5. CASE queue[1] = STREAM_CLOSED
  <2>1. UNCHANGED received
    BY <1>1, <1>5 DEF Get
  <2>2. TypeOK'
    BY <1>1, <1>2, <1>3, <1>5, <2>1 DEF Get, TypeOK, Item, run
  <2>3. StreamIsOrdered' /\ NothingAhead'
    BY <1>1, <1>2, <1>4, <2>1 DEF StreamInv, StreamIsOrdered, NothingAhead, Ordered
  <2>4. ControlSurvivesTokens'
    <3>1. queue[1].event \notin Control
      BY <1>5 DEF STREAM_CLOSED, ControlItem, Control
    <3>2. Queued(Control) => Queued(Control)'
      BY <1>2, <3>1 DEF Queued
    <3> QED BY <2>1, <3>2 DEF Get, run, StreamInv, ControlSurvivesTokens, Received
  <2> QED BY <2>2, <2>3, <2>4 DEF StreamInv
<1>6. CASE queue[1] # STREAM_CLOSED
  <2>1. received' = Append(received, queue[1]) /\ queue[1] \in StreamItem
    BY <1>1, <1>6 DEF Get, Item
  <2>2. TypeOK'
    <3>1. received' \in Seq(StreamItem)
      BY <1>1, <2>1 DEF TypeOK
    <3> QED BY <1>1, <1>2, <1>3, <1>6, <3>1 DEF Get, TypeOK, Item, run
  <2>3. /\ Ordered(received')
        /\ \A i \in DOMAIN received' :
               (\E j \in DOMAIN received : received'[i] = received[j])
               \/ received'[i] = queue[1]
        /\ \A i \in DOMAIN received : received'[i] = received[i] /\ i \in DOMAIN received'
        /\ \E i \in DOMAIN received' : received'[i] = queue[1]
    <3>1. \A i \in DOMAIN received : Rank(received[i]) < Rank(queue[1])
      BY <1>1 DEF StreamInv, StreamIsOrdered
    <3>2. Ordered(received)
      BY DEF StreamInv, StreamIsOrdered
    <3>3. /\ Ordered(received')
          /\ \A i \in DOMAIN received' :
                 (i \in DOMAIN received /\ received'[i] = received[i])
                 \/ received'[i] = queue[1]
          /\ Len(received) + 1 \in DOMAIN received'
          /\ received'[Len(received) + 1] = queue[1]
      BY <1>1, <2>1, <3>1, <3>2, AppendKeepsOrder
    <3>4. \A i \in DOMAIN received : received'[i] = received[i] /\ i \in DOMAIN received'
      BY <1>1, <2>1
    <3> QED BY <3>3, <3>4
  <2>4. StreamIsOrdered'
    <3>1. ASSUME NEW i \in DOMAIN received', NEW j \in DOMAIN queue'
          PROVE  Rank(received'[i]) < Rank(queue'[j])
      <4>1. CASE received'[i] = queue[1]
        BY <1>2, <4>1
      <4>2. CASE \E k \in DOMAIN received : received'[i] = received[k]
        BY <1>2, <4>2 DEF StreamInv, StreamIsOrdered
      <4> QED BY <2>3, <4>1, <4>2
    <3> QED BY <1>2, <2>3, <3>1 DEF StreamIsOrdered, Ordered
  <2>5. NothingAhead'
    <3>1. ASSUME NEW i \in DOMAIN received' PROVE Rank(received'[i]) <= Published'
      <4>1. CASE received'[i] = queue[1]
        BY <1>1, <4>1 DEF StreamInv, NothingAhead
      <4>2. CASE \E k \in DOMAIN received : received'[i] = received[k]
        BY <1>1, <4>2 DEF StreamInv, NothingAhead
      <4> QED BY <2>3, <4>1, <4>2
    <3> QED BY <1>4, <3>1 DEF NothingAhead
  <2>6. ControlSurvivesTokens'
    <3>1. Received(Control) => Received(Control)'
      BY <2>3 DEF Received
    <3>2. Queued(Control) => Queued(Control)' \/ Received(Control)'
      BY <1>2, <2>3 DEF Queued, Received
    <3> QED BY <3>1, <3>2 DEF Get, run, StreamInv, ControlSurvivesTokens
  <2> QED BY <2>2, <2>4, <2>5, <2>6 DEF StreamInv
<1> QED BY <1>5, <1>6

LEMMA TransportStep ==
    ASSUME StreamInv, EventStream \/ Disconnect \/ CancelRun \/ SignalWorker
    PROVE  StreamInv'
<1> USE DEF StreamInv
<1>1. CASE Get
  BY <1>1, GetStep
<1>2. CASE YieldStatus \/ EnterLoop \/ Abandon \/ DetectDisconnect \/ Finally
           \/ FinallyCancelRun \/ Join \/ Disconnect \/ CancelRun \/ SignalWorker
  <2>1. /\ UNCHANGED <<queue, received, tokens, worker, remembered>>
        /\ ~cancelled' => ~cancelled
        /\ status' \in {status, "cancelled"} /\ finished' = finished
        /\ cancelled' \in BOOLEAN
    BY <1>2 DEF YieldStatus, EnterLoop, Abandon, DetectDisconnect, Finally,
                FinallyCancelRun, Join, Disconnect, CancelRun, SignalWorker,
                buffer, run, transport, TypeOK
  <2>2. /\ generator' \in {generator, "status", "loop", "closed", "finally",
                           "cancel_run", "join"}
        /\ connected' \in {connected, FALSE}
        /\ canceller' \in {canceller, "signal", "done"}
    BY <1>2 DEF YieldStatus, EnterLoop, Abandon, DetectDisconnect, Finally,
                FinallyCancelRun, Join, Disconnect, CancelRun, SignalWorker,
                buffer, run, transport
  <2>3. TypeOK'
    <3>1. /\ queue' \in Seq(StreamItem \cup {STREAM_CLOSED}) /\ Len(queue') <= MaxSize
          /\ received' \in Seq(StreamItem) /\ tokens' \in 0..MaxTokens
          /\ remembered' \in BOOLEAN /\ finished' \in BOOLEAN
      BY <2>1 DEF TypeOK
    <3>2. connected' \in BOOLEAN
      BY <2>2 DEF TypeOK
    <3>3. worker' = worker /\ status' \in {status, "cancelled"}
      BY <2>1
    <3> QED BY <2>1, <2>2, <3>1, <3>2, <3>3 DEF TypeOK
  <2> QED BY <2>1, <2>3, QuietStep, PublishedIsNat DEF Published
<1> QED BY <1>1, <1>2 DEF EventStream

-----------------------------------------------------------------------------

LEMMA StreamInvHolds == Spec => []StreamInv
<1>1. Init => StreamInv
  <2> SUFFICES ASSUME Init PROVE StreamInv
    OBVIOUS
  <2>1. queue = <<>> /\ received = <<>> /\ DOMAIN queue = {} /\ DOMAIN received = {}
    BY DEF Init
  <2>2. TypeOK
    <3>1. /\ queue \in Seq(StreamItem \cup {STREAM_CLOSED}) /\ Len(queue) <= MaxSize
          /\ received \in Seq(StreamItem) /\ tokens \in 0..MaxTokens
      BY <2>1, TokensAreBounded, BufferIsLargeEnough DEF Init
    <3> QED BY <3>1 DEF Init, TypeOK
  <2>3. StreamIsOrdered /\ NothingAhead
    BY <2>1 DEF StreamIsOrdered, Ordered, NothingAhead
  <2>4. ControlSurvivesTokens
    BY DEF Init, ControlSurvivesTokens
  <2> QED BY <2>2, <2>3, <2>4 DEF StreamInv
<1>2. StreamInv /\ [Next]_vars => StreamInv'
  <2>1. ASSUME StreamInv, Next PROVE StreamInv'
    BY <2>1, RunChatStep, TransportStep DEF Next
  <2>2. ASSUME StreamInv, UNCHANGED vars PROVE StreamInv'
    BY <2>2 DEF vars, StreamInv, TypeOK, StreamIsOrdered, Ordered, NothingAhead,
                Published, ControlSurvivesTokens, Received, Queued
  <2> QED BY <2>1, <2>2
<1> QED BY <1>1, <1>2, PTL DEF Spec

\* The buffer respects its bound and no variable leaves its type, whatever the
\* queue's size and the number of tokens.
THEOREM StreamTypeCorrect == Spec => []TypeOK
<1>1. StreamInv => TypeOK
  BY DEF StreamInv
<1> QED BY <1>1, StreamInvHolds, PTL

\* The client reads tokens in order, none twice, then the control event
\* (publish, close and get of RunStreamBuffer), for every queue size.
THEOREM StreamOrder == Spec => []StreamIsOrdered
<1>1. StreamInv => StreamIsOrdered
  BY DEF StreamInv
<1> QED BY <1>1, StreamInvHolds, PTL

\* Until the buffer is closed its control event is queued or read, unless the
\* run was being cancelled (publish), for every queue size.
THEOREM ControlKept == Spec => []ControlSurvivesTokens
<1>1. StreamInv => ControlSurvivesTokens
  BY DEF StreamInv
<1> QED BY <1>1, StreamInvHolds, PTL
-----------------------------------------------------------------------------
(* The final event follows the memory: whoever holds it, run_chat has      *)
(* stored the turn.                                                        *)

MemoryFirst ==
    /\ worker \in {"final", "evict_final"} => remembered
    /\ Received({"final"}) \/ Queued({"final"}) => remembered

\* An appended queue holds one item more, a queue's tail none.
LEMMA ItemsOfAppend ==
    ASSUME NEW q \in Seq(Item), NEW item \in Item,
           NEW i \in DOMAIN Append(q, item)
    PROVE  Append(q, item)[i] = item \/ \E j \in DOMAIN q : q[j] = Append(q, item)[i]
<1>1. i \in 1..(Len(q) + 1)
  OBVIOUS
<1>2. CASE i = Len(q) + 1
  BY <1>2
<1>3. CASE i \in 1..Len(q)
  BY <1>3
<1> QED BY <1>1, <1>2, <1>3

LEMMA ItemsOfTail ==
    ASSUME NEW q \in Seq(Item), q # <<>>
    PROVE  /\ Tail(q) \in Seq(Item)
           /\ \E j \in DOMAIN q : q[j] = Head(q)
           /\ \A i \in DOMAIN Tail(q) : \E j \in DOMAIN q : q[j] = Tail(q)[i]
<1>1. /\ Len(q) > 0 /\ Len(Tail(q)) = Len(q) - 1 /\ Tail(q) \in Seq(Item)
      /\ \A i \in 1..Len(Tail(q)) : i + 1 \in 1..Len(q) /\ Tail(q)[i] = q[i + 1]
  OBVIOUS
<1>2. 1 \in DOMAIN q /\ q[1] = Head(q)
  BY <1>1
<1> QED BY <1>1, <1>2

\* A step that puts no final event anywhere.
LEMMA NoNewFinal ==
    ASSUME MemoryFirst, remembered => remembered',
           worker' \in {"final", "evict_final"} =>
               remembered' \/ worker \in {"final", "evict_final"},
           Queued({"final"})' => Queued({"final"}),
           Received({"final"})' => Received({"final"}) \/ Queued({"final"})
    PROVE  MemoryFirst'
  BY DEF MemoryFirst

\* Putting an item, with or without an eviction.
LEMMA PutOfItem ==
    ASSUME TypeOK, MemoryFirst, NEW item \in Item,
           item.event = "final" => worker \in {"final", "evict_final"},
           \/ queue' = Append(queue, item)
           \/ EvictAndPut(item),
           remembered' = remembered, received' = received,
           worker' \notin {"final", "evict_final"}
    PROVE  MemoryFirst'
<1>1. queue \in Seq(Item)
  BY DEF TypeOK, Item
<1>2. PICK q \in Seq(Item) :
          /\ queue' = Append(q, item)
          /\ \A i \in DOMAIN q : \E j \in DOMAIN queue : queue[j] = q[i]
  <2>1. CASE queue' = Append(queue, item)
    BY <1>1, <2>1
  <2>2. CASE EvictAndPut(item)
    BY <1>1, <2>2, ItemsOfTail DEF EvictAndPut
  <2> QED BY <2>1, <2>2
<1>3. Queued({"final"})' => Queued({"final"}) \/ item.event = "final"
  <2>1. ASSUME NEW i \in DOMAIN queue', queue'[i].event = "final"
        PROVE  Queued({"final"}) \/ item.event = "final"
    BY <1>2, <2>1, ItemsOfAppend DEF Queued
  <2> QED BY <2>1 DEF Queued
<1>4. Received({"final"})' = Received({"final"})
  BY DEF Received
<1> QED BY <1>3, <1>4 DEF MemoryFirst

LEMMA MemoryFirstStep ==
    TypeOK /\ MemoryFirst /\ [Next]_vars => MemoryFirst'
<1> SUFFICES ASSUME TypeOK, MemoryFirst, [Next]_vars PROVE MemoryFirst'
  OBVIOUS
<1>items. /\ \A n \in 0..MaxTokens : Token(n) \in Item /\ Token(n).event = "token"
          /\ \A e \in Control : ControlItem(e) \in Item /\ ControlItem(e).event = e
          /\ STREAM_CLOSED \in Item /\ STREAM_CLOSED.event = "closed"
  BY TokensAreBounded DEF Token, ControlItem, Item, StreamItem, Control,
                          STREAM_CLOSED
<1>0. CASE UNCHANGED vars
  BY <1>0 DEF vars, MemoryFirst, Received, Queued
<1>1. CASE \/ Create \/ FailBeforeRun \/ AnswerReturns \/ AnswerRaises
           \/ AnswerCancelled \/ Remember
  BY <1>1, NoNewFinal DEF Create, FailBeforeRun, AnswerReturns, AnswerRaises,
         AnswerCancelled, Remember, buffer, transport, Received, Queued
<1>2. CASE PublishToken
  <2>1. tokens' \in 0..MaxTokens /\ received' = received /\ remembered' = remembered
        /\ worker' = worker /\ worker = "answering"
    BY <1>2, TokensAreBounded DEF PublishToken, TypeOK, transport
  <2>2. CASE UNCHANGED queue
    BY <2>1, <2>2, NoNewFinal DEF Received, Queued
  <2>3. CASE Put(Token(tokens'))
    BY <1>items, <2>1, <2>3, PutOfItem DEF Put
  <2> QED BY <1>2, <2>2, <2>3 DEF PublishToken
<1>3. CASE Publish
  <2>1. received' = received /\ remembered' = remembered /\ worker \in Control
    BY <1>3 DEF Publish, transport
  <2>2. CASE UNCHANGED queue
    BY <1>3, <2>1, <2>2, NoNewFinal DEF Publish, Received, Queued, Control
  <2>3. CASE Put(ControlItem(worker)) /\ worker' = "close"
    BY <1>items, <2>1, <2>3, PutOfItem DEF Put
  <2> QED BY <1>3, <2>2, <2>3 DEF Publish
<1>4. CASE PublishEvicting
  <2> DEFINE e == IF worker = "evict_final" THEN "final" ELSE "error"
  <2>1. /\ EvictAndPut(ControlItem(e)) /\ worker' = "close" /\ e \in Control
        /\ received' = received /\ remembered' = remembered
        /\ e = "final" => worker = "evict_final"
    BY <1>4 DEF PublishEvicting, transport, Control
  <2> QED BY <1>items, <2>1, PutOfItem
<1>5. CASE Close \/ CloseEvicting
  <2>1. /\ received' = received /\ remembered' = remembered
        /\ worker' \in {"evict_close", "done"}
        /\ UNCHANGED queue \/ Put(STREAM_CLOSED) \/ EvictAndPut(STREAM_CLOSED)
    BY <1>5 DEF Close, CloseEvicting, transport
  <2>2. CASE UNCHANGED queue
    BY <2>1, <2>2, NoNewFinal DEF Received, Queued
  <2>3. CASE Put(STREAM_CLOSED) \/ EvictAndPut(STREAM_CLOSED)
    BY <1>items, <2>1, <2>3, PutOfItem DEF Put
  <2> QED BY <2>1, <2>2, <2>3
<1>6. CASE Get
  <2>1. /\ queue # <<>> /\ queue \in Seq(Item) /\ queue' = Tail(queue)
        /\ remembered' = remembered /\ worker' = worker
        /\ received' = received \/ received' = Append(received, Head(queue))
    BY <1>6 DEF Get, TypeOK, Item, run
  <2>2. Queued({"final"})' => Queued({"final"})
    <3>1. \A i \in DOMAIN queue' : \E j \in DOMAIN queue : queue[j] = queue'[i]
      BY <2>1, ItemsOfTail
    <3> QED BY <3>1 DEF Queued
  <2>3. Received({"final"})' => Received({"final"}) \/ Queued({"final"})
    <3>1. received \in Seq(Item) /\ Head(queue) \in Item
      <4>1. StreamItem \subseteq Item /\ received \in Seq(StreamItem)
        BY DEF TypeOK, Item
      <4>2. Head(queue) \in Item
        BY <2>1
      <4> HIDE DEF Item
      <4> QED BY <4>1, <4>2
    <3>2. CASE received' = received
      BY <3>2 DEF Received
    <3>3. CASE received' = Append(received, Head(queue))
      <4>1. ASSUME NEW i \in DOMAIN received', received'[i].event = "final"
            PROVE  Received({"final"}) \/ Head(queue).event = "final"
        BY <3>1, <3>3, <4>1, ItemsOfAppend DEF Received
      <4>2. \E j \in DOMAIN queue : queue[j] = Head(queue)
        BY <2>1, ItemsOfTail
      <4> QED BY <4>1, <4>2 DEF Received, Queued
    <3> QED BY <2>1, <3>2, <3>3
  <2>4. worker' \in {"final", "evict_final"} =>
            remembered' \/ worker \in {"final", "evict_final"}
    BY <2>1
  <2> QED BY <2>1, <2>2, <2>3, <2>4, NoNewFinal
<1>7. CASE \/ YieldStatus \/ EnterLoop \/ Abandon \/ DetectDisconnect \/ Finally
           \/ FinallyCancelRun \/ Join \/ Disconnect \/ CancelRun \/ SignalWorker
  BY <1>7, NoNewFinal DEF YieldStatus, EnterLoop, Abandon, DetectDisconnect,
         Finally, FinallyCancelRun, Join, Disconnect, CancelRun, SignalWorker,
         buffer, run, transport, Received, Queued
<1> QED
  BY <1>0, <1>1, <1>2, <1>3, <1>4, <1>5, <1>6, <1>7
     DEF Next, RunChat, EventStream

\* A client that has read the final event finds its turn in the memory
\* (run_chat calls memory.add before it publishes), for every queue size.
THEOREM FinalFollowsMemory == Spec => []FinalMeansRemembered
<1>1. Init => MemoryFirst
  BY DEF Init, MemoryFirst, Received, Queued
<1>2. StreamInv => TypeOK
  BY DEF StreamInv
<1>3. MemoryFirst => FinalMeansRemembered
  BY DEF MemoryFirst, FinalMeansRemembered
<1> QED BY <1>1, <1>2, <1>3, StreamInvHolds, MemoryFirstStep, PTL DEF Spec
=============================================================================
