-------------------------- MODULE RunReplay_proof ---------------------------
(***************************************************************************)
(* Theorems about RunReplay for any number of writers, events and lost     *)
(* connections: what a client receives is ordered, and a gap in it is an   *)
(* event that committed late.                                              *)
(***************************************************************************)
EXTENDS RunReplay, SequenceIds_proof

Chunk == [event : {"run_event", "run_status"}, id : Nat,
          status : RunStatuses \cup {NotEnded}]

\* The events on the wire w, and their order.
Events(w) == {w[i].id : i \in {j \in DOMAIN w : w[j].event = "run_event"}}

EventsAscend(w) ==
    \A i, j \in DOMAIN w :
        /\ i < j
        /\ w[i].event = "run_event" /\ w[j].event = "run_event"
        => w[i].id < w[j].id

Ascending(s) == \A i, j \in DOMAIN s : i < j => s[i] < s[j]

\* The events of one connection on their way: received, sent and listed.
Flow == ToSet(received) \cup Events(wire) \cup ToSet(batch)

ReplayTypes ==
    /\ TypeOK
    /\ received \in Seq(Ids) /\ wire \in Seq(Chunk)
    /\ Flow \subseteq committed
    /\ \A w \in Writers : inserting[w] <= lastId

\* What is received comes before what is sent, and that before the batch.
FlowAscends ==
    /\ Ascending(received) /\ EventsAscend(wire) /\ Ascending(batch)
    /\ \A d \in ToSet(received), e \in Events(wire) \cup ToSet(batch) : d < e
    /\ \A d \in Events(wire), e \in ToSet(batch) : d < e

\* The cursor is the last event that the connection has sent.
CursorIsLastSent ==
    pc # "closed" =>
        /\ cursor = 0 \/ cursor \in ToSet(received) \cup Events(wire)
        /\ \A d \in ToSet(received) \cup Events(wire) : d <= cursor
        /\ \A e \in ToSet(batch) : cursor < e

\* Whatever has become visible below an event on its way is on its way too,
\* or late.
FlowHasNoGaps ==
    \A b \in Flow, e \in committed : e <= b => e \in Flow \cup late

ListedIsSent ==
    /\ pc \in {"send", "done"} => listed \subseteq Flow \cup late
    /\ ended # NotEnded =>
           pc = "closed" /\ listed \subseteq ToSet(received) \cup late

\* A closed connection holds nothing back; the status is sent last.
StatusComesLast ==
    /\ pc = "closed" => wire = <<>>
    /\ pc # "send" => batch = <<>>
    /\ \A i \in DOMAIN wire :
           wire[i].event = "run_status" => i = Len(wire) /\ pc = "done"

ReplayInv ==
    /\ ReplayTypes /\ FlowAscends /\ CursorIsLastSent
    /\ FlowHasNoGaps /\ ListedIsSent /\ StatusComesLast

-----------------------------------------------------------------------------
(* Sequences of ids and of chunks.                                         *)

LEMMA AppendedIds ==
    ASSUME NEW s \in Seq(Nat), NEW e \in Nat
    PROVE  /\ ToSet(Append(s, e)) = ToSet(s) \cup {e}
           /\ Ascending(s) /\ (\A d \in ToSet(s) : d < e)
              => Ascending(Append(s, e))
<1> DEFINE t == Append(s, e)
<1>1. /\ Len(t) = Len(s) + 1 /\ t[Len(t)] = e
      /\ \A i \in 1 .. Len(s) : t[i] = s[i]
      /\ DOMAIN s = 1 .. Len(s) /\ DOMAIN t = 1 .. Len(t) /\ Len(s) \in Nat
  OBVIOUS
<1> HIDE DEF t
<1>2. \A i \in DOMAIN t : t[i] \in ToSet(s) \cup {e}
  BY <1>1 DEF ToSet
<1>3. e \in ToSet(t) /\ \A i \in DOMAIN s : s[i] \in ToSet(t)
  BY <1>1 DEF ToSet
<1>4. ToSet(t) = ToSet(s) \cup {e}
  BY <1>2, <1>3 DEF ToSet
<1>5. ASSUME Ascending(s), \A d \in ToSet(s) : d < e PROVE Ascending(t)
  <2>1. \A i \in DOMAIN s : s[i] < e
    BY <1>5 DEF ToSet
  <2> QED BY <1>1, <1>5, <2>1 DEF Ascending
<1> QED BY <1>4, <1>5 DEF t

LEMMA FirstId ==
    ASSUME NEW s \in Seq(Nat), s # <<>>
    PROVE  /\ Head(s) \in Nat /\ Tail(s) \in Seq(Nat)
           /\ ToSet(s) = {Head(s)} \cup ToSet(Tail(s))
           /\ Ascending(s) => /\ Ascending(Tail(s))
                              /\ \A e \in ToSet(Tail(s)) : Head(s) < e
<1> DEFINE t == Tail(s)
<1>1. /\ Len(s) = Len(t) + 1 /\ s[1] = Head(s) /\ Len(t) \in Nat
      /\ DOMAIN s = 1 .. Len(s) /\ DOMAIN t = 1 .. Len(t)
      /\ Head(s) \in Nat /\ t \in Seq(Nat)
  OBVIOUS
<1>e. \A i \in DOMAIN t : t[i] = s[i + 1]
  OBVIOUS
<1>s. /\ 1 \in DOMAIN s
      /\ \A i \in DOMAIN t : i + 1 \in DOMAIN s /\ i \in Nat
      /\ \A i \in DOMAIN s : i # 1 => i - 1 \in DOMAIN t /\ (i - 1) + 1 = i
      /\ \A i, j \in DOMAIN t : i < j => i + 1 < j + 1
      /\ \A i \in DOMAIN t : 1 < i + 1
  BY <1>1
<1> HIDE DEF t
<1>2. \A i \in DOMAIN t : t[i] \in ToSet(s)
  BY <1>e, <1>s DEF ToSet
<1>3. \A i \in DOMAIN s : s[i] \in {Head(s)} \cup ToSet(t)
  <2> TAKE i \in DOMAIN s
  <2>1. CASE i = 1
    BY <1>1, <2>1
  <2>2. CASE i # 1
    <3>1. i - 1 \in DOMAIN t /\ t[i - 1] = s[i]
      BY <1>e, <1>s, <2>2
    <3> QED BY <3>1 DEF ToSet
  <2> QED BY <2>1, <2>2
<1>4. ToSet(s) = {Head(s)} \cup ToSet(t)
  <2>1. Head(s) \in ToSet(s)
    BY <1>1, <1>s DEF ToSet
  <2> QED BY <2>1, <1>2, <1>3 DEF ToSet
<1>5. ASSUME Ascending(s)
      PROVE  Ascending(t) /\ \A e \in ToSet(t) : Head(s) < e
  <2>1. Ascending(t)
    BY <1>e, <1>s, <1>5 DEF Ascending
  <2>2. \A i \in DOMAIN t : Head(s) < t[i]
    BY <1>1, <1>e, <1>s, <1>5 DEF Ascending
  <2> QED BY <2>1, <2>2 DEF ToSet
<1> QED BY <1>1, <1>4, <1>5 DEF t

LEMMA AppendedChunk ==
    ASSUME NEW w \in Seq(Chunk), NEW c \in Chunk
    PROVE  /\ Events(Append(w, c)) =
                  Events(w) \cup IF c.event = "run_event" THEN {c.id} ELSE {}
           /\ EventsAscend(w) /\ (\A d \in Events(w) : d < c.id)
              => EventsAscend(Append(w, c))
           /\ EventsAscend(w) /\ c.event # "run_event"
              => EventsAscend(Append(w, c))
<1> DEFINE t == Append(w, c)
<1>1. /\ Len(t) = Len(w) + 1 /\ t[Len(t)] = c
      /\ \A i \in 1 .. Len(w) : t[i] = w[i]
      /\ DOMAIN w = 1 .. Len(w) /\ DOMAIN t = 1 .. Len(t) /\ Len(w) \in Nat
  OBVIOUS
<1> HIDE DEF t
<1>2. \A i \in DOMAIN t : t[i].event = "run_event" =>
          t[i].id \in Events(w) \cup IF c.event = "run_event" THEN {c.id} ELSE {}
  BY <1>1 DEF Events
<1>3. /\ c.event = "run_event" => c.id \in Events(t)
      /\ \A i \in DOMAIN w : w[i].event = "run_event" => w[i].id \in Events(t)
  BY <1>1 DEF Events
<1>4. Events(t) = Events(w) \cup IF c.event = "run_event" THEN {c.id} ELSE {}
  BY <1>2, <1>3 DEF Events
<1>5. ASSUME EventsAscend(w), \A d \in Events(w) : d < c.id
      PROVE  EventsAscend(t)
  <2>1. \A i \in DOMAIN w : w[i].event = "run_event" => w[i].id < c.id
    BY <1>5 DEF Events
  <2> QED BY <1>1, <1>5, <2>1 DEF EventsAscend
<1>6. ASSUME EventsAscend(w), c.event # "run_event" PROVE EventsAscend(t)
  BY <1>1, <1>6 DEF EventsAscend
<1> QED BY <1>4, <1>5, <1>6 DEF t

LEMMA FirstChunk ==
    ASSUME NEW w \in Seq(Chunk), w # <<>>
    PROVE  /\ Head(w) \in Chunk /\ Tail(w) \in Seq(Chunk)
           /\ Events(w) = Events(Tail(w)) \cup
                  IF Head(w).event = "run_event" THEN {Head(w).id} ELSE {}
           /\ EventsAscend(w) =>
                  /\ EventsAscend(Tail(w))
                  /\ Head(w).event = "run_event" =>
                         \A e \in Events(Tail(w)) : Head(w).id < e
<1> DEFINE t == Tail(w)
           c == Head(w)
<1>1. /\ Len(w) = Len(t) + 1 /\ w[1] = c /\ Len(t) \in Nat
      /\ DOMAIN w = 1 .. Len(w) /\ DOMAIN t = 1 .. Len(t)
      /\ c \in Chunk /\ t \in Seq(Chunk)
  OBVIOUS
<1>e. \A i \in DOMAIN t : t[i] = w[i + 1]
  OBVIOUS
<1>s. /\ 1 \in DOMAIN w
      /\ \A i \in DOMAIN t : i + 1 \in DOMAIN w /\ i \in Nat
      /\ \A i \in DOMAIN w : i # 1 => i - 1 \in DOMAIN t /\ (i - 1) + 1 = i
      /\ \A i, j \in DOMAIN t : i < j => i + 1 < j + 1
      /\ \A i \in DOMAIN t : 1 < i + 1
  BY <1>1
<1> HIDE DEF t, c
<1>2. \A i \in DOMAIN t : t[i].event = "run_event" => t[i].id \in Events(w)
  BY <1>e, <1>s DEF Events
<1>3. \A i \in DOMAIN w : w[i].event = "run_event" =>
          w[i].id \in Events(t) \cup IF c.event = "run_event" THEN {c.id} ELSE {}
  <2> TAKE i \in DOMAIN w
  <2>1. CASE i = 1
    BY <1>1, <2>1
  <2>2. CASE i # 1
    <3>1. i - 1 \in DOMAIN t /\ t[i - 1] = w[i]
      BY <1>e, <1>s, <2>2
    <3> QED BY <3>1 DEF Events
  <2> QED BY <2>1, <2>2
<1>4. c.event = "run_event" => c.id \in Events(w)
  BY <1>1 DEF Events
<1>5. Events(w) = Events(t) \cup IF c.event = "run_event" THEN {c.id} ELSE {}
  BY <1>2, <1>3, <1>4 DEF Events
<1>6. ASSUME EventsAscend(w)
      PROVE  /\ EventsAscend(t)
             /\ c.event = "run_event" => \A e \in Events(t) : c.id < e
  <2>1. EventsAscend(t)
    BY <1>e, <1>s, <1>6 DEF EventsAscend
  <2>2. c.event = "run_event" =>
            \A i \in DOMAIN t : t[i].event = "run_event" => c.id < t[i].id
    BY <1>1, <1>e, <1>s, <1>6 DEF EventsAscend
  <2> QED BY <2>1, <2>2 DEF Events
<1> QED BY <1>1, <1>5, <1>6 DEF t, c

\* The last of an ordered list is its greatest.
LEMMA LastIsGreatest ==
    ASSUME ReplayTypes, Ascending(received)
    PROVE  /\ LastReceived \in Nat
           /\ LastReceived = 0 \/ LastReceived \in ToSet(received)
           /\ \A d \in ToSet(received) : d <= LastReceived
<1>1. CASE received = <<>>
  BY <1>1 DEF LastReceived, ToSet
<1>2. CASE received # <<>>
  <2>0. received \in Seq(Ids) /\ Ids \subseteq Nat
    BY DEF ReplayTypes, Ids
  <2>1. /\ DOMAIN received = 1 .. Len(received) /\ Len(received) \in Nat
        /\ Len(received) \in DOMAIN received
        /\ \A i \in DOMAIN received : received[i] \in Nat
    <3>1. DOMAIN received = 1 .. Len(received) /\ Len(received) \in Nat
      BY <2>0
    <3>2. \A i \in DOMAIN received : received[i] \in Nat
      <4>1. \A i \in DOMAIN received : received[i] \in Ids
        BY <2>0
      <4> QED BY <2>0, <4>1
    <3>3. Len(received) # 0
      BY <1>2, <2>0
    <3> QED BY <3>1, <3>2, <3>3
  <2>2. LastReceived = received[Len(received)]
    BY <1>2 DEF LastReceived, Last
  <2>3. \A i \in DOMAIN received : received[i] <= LastReceived
    BY <2>1, <2>2 DEF Ascending
  <2> QED BY <2>1, <2>2, <2>3 DEF ToSet
<1> QED BY <1>1, <1>2

LEMMA EmptyQueues ==
    ToSet(<<>>) = {} /\ Events(<<>>) = {} /\ Ascending(<<>>) /\ EventsAscend(<<>>)
BY DEF ToSet, Events, Ascending, EventsAscend

\* What the types say of the ids on their way.
LEMMA FlowIsOfIds ==
    ASSUME ReplayTypes
    PROVE  /\ received \in Seq(Nat) /\ batch \in Seq(Nat) /\ wire \in Seq(Chunk)
           /\ committed \subseteq 1 .. MaxEvents /\ committed \subseteq Nat
           /\ IsFiniteSet(committed) /\ cursor \in Nat
           /\ ToSet(received) \cup Events(wire) \cup ToSet(batch) \subseteq Nat
<1>1. lastId \in 0 .. MaxEvents /\ committed \subseteq 1 .. lastId
  BY DEF ReplayTypes, TypeOK
<1>2. committed \subseteq 1 .. MaxEvents
  BY <1>1, EventsAreBounded
<1>3. IsFiniteSet(1 .. MaxEvents)
  BY EventsAreBounded, FS_Interval
<1>4. IsFiniteSet(committed)
  BY <1>2, <1>3, FS_Subset
<1>5. Ids \subseteq Nat /\ received \in Seq(Ids) /\ batch \in Seq(Ids)
  BY DEF Ids, ReplayTypes, TypeOK
<1>6. received \in Seq(Nat) /\ batch \in Seq(Nat)
  BY <1>5, WiderSeq
<1>7. cursor \in Nat /\ wire \in Seq(Chunk)
  BY EventsAreBounded DEF ReplayTypes, TypeOK
<1>8. Flow \subseteq committed /\ committed \subseteq Nat
  BY <1>2 DEF ReplayTypes
<1> QED BY <1>2, <1>4, <1>6, <1>7, <1>8 DEF Flow

-----------------------------------------------------------------------------
(* ReplayInv is inductive.                                                 *)

LEMMA ReplayInit == Init => ReplayInv
<1> SUFFICES ASSUME Init PROVE ReplayInv
  OBVIOUS
<1>1. received = <<>> /\ wire = <<>> /\ batch = <<>>
  BY DEF Init
<1>2. ToSet(received) = {} /\ Events(wire) = {} /\ ToSet(batch) = {}
  BY <1>1, EmptyQueues
<1>3. ReplayTypes
  <2>1. received \in Seq(Ids) /\ batch \in Seq(Ids) /\ wire \in Seq(Chunk)
    BY <1>1
  <2>2. TypeOK
    BY <1>2, <2>1, EventsAreBounded DEF Init, TypeOK, RunStatuses, NotEnded
  <2> QED BY <1>2, <2>1, <2>2 DEF Init, ReplayTypes, Flow
<1>4. FlowAscends
  BY <1>1, <1>2, EmptyQueues DEF FlowAscends
<1> QED
  BY <1>1, <1>2, <1>3, <1>4 DEF Init, ReplayInv, CursorIsLastSent, FlowHasNoGaps,
     ListedIsSent, StatusComesLast, Flow, NotEnded

LEMMA InsertKeeps ==
    ASSUME ReplayInv, NEW w \in Writers, InsertEvent(w), UNCHANGED streamVars
    PROVE  ReplayInv'
<1> USE DEF InsertEvent, streamVars
<1>1. lastId' = lastId + 1 /\ lastId < MaxEvents /\ lastId \in 0 .. MaxEvents
  BY DEF ReplayInv, ReplayTypes, TypeOK
<1>2. lastId' \in 0 .. MaxEvents /\ 1 .. lastId \subseteq 1 .. lastId'
  BY <1>1, EventsAreBounded
<1>3. inserting \in [Writers -> 0 .. MaxEvents] /\ \A v \in Writers : inserting[v] <= lastId
  BY DEF ReplayInv, ReplayTypes, TypeOK
<1>4. inserting' = [inserting EXCEPT ![w] = lastId']
  OBVIOUS
<1>5. inserting' \in [Writers -> 0 .. MaxEvents]
  BY <1>2, <1>3, <1>4
<1>6. \A v \in Writers : inserting'[v] <= lastId'
  <2> TAKE v \in Writers
  <2>1. CASE v = w
    BY <1>1, <1>3, <1>4, <2>1, EventsAreBounded
  <2>2. CASE v # w
    <3>1. inserting'[v] = inserting[v] /\ inserting[v] \in Nat
      BY <1>3, <1>4, <2>2, EventsAreBounded
    <3> QED BY <1>1, <1>3, <3>1, EventsAreBounded
  <2> QED BY <2>1, <2>2
<1>7. ReplayTypes'
  BY <1>2, <1>5, <1>6 DEF ReplayInv, ReplayTypes, TypeOK, Flow
<1> QED
  BY <1>7 DEF ReplayInv, FlowAscends, CursorIsLastSent, FlowHasNoGaps,
     ListedIsSent, StatusComesLast, Flow, LastReceived

\* A commit below an event on its way makes the new event a late one.
LEMMA CommitKeeps ==
    ASSUME ReplayInv, NEW w \in Writers, CommitEvent(w), UNCHANGED streamVars
    PROVE  ReplayInv'
<1> USE DEF CommitEvent, streamVars
<1> DEFINE n == inserting[w]
<1>1. /\ n \in 0 .. MaxEvents /\ n # 0 /\ n <= lastId /\ lastId \in 0 .. MaxEvents
      /\ committed' = committed \cup {n}
      /\ inserting' = [inserting EXCEPT ![w] = 0]
      /\ inserting \in [Writers -> 0 .. MaxEvents]
      /\ \A v \in Writers : inserting[v] <= lastId
  BY DEF ReplayInv, ReplayTypes, TypeOK
<1>2. n \in 1 .. lastId /\ n \in Nat
  BY <1>1, EventsAreBounded
<1>3. /\ inserting' \in [Writers -> 0 .. MaxEvents]
      /\ \A v \in Writers : inserting'[v] <= lastId
  BY <1>1, EventsAreBounded
<1>4. ReplayTypes'
  BY <1>1, <1>2, <1>3 DEF ReplayInv, ReplayTypes, TypeOK, Flow
<1>5. late \subseteq late' /\ ((\E e \in committed : e > n) => n \in late')
  BY DEF n
<1>6. Flow' = Flow /\ Flow \subseteq committed /\ committed \subseteq Nat
  BY FlowIsOfIds DEF Flow, ReplayInv, ReplayTypes
<1> HIDE DEF n
<1>7. FlowHasNoGaps'
  <2> SUFFICES ASSUME NEW b \in Flow, NEW e \in committed \cup {n}, e <= b
               PROVE  e \in Flow \cup late'
    BY <1>1, <1>6 DEF FlowHasNoGaps
  <2>1. CASE e \in committed
    BY <1>5, <2>1 DEF ReplayInv, FlowHasNoGaps
  <2>2. CASE e = n /\ n # b
    <3>1. b \in committed /\ b \in Nat
      BY <1>6
    <3>2. b > n
      BY <1>2, <2>2, <3>1
    <3> QED BY <1>5, <2>2, <3>1, <3>2
  <2> QED BY <2>1, <2>2
<1>8. ListedIsSent'
  BY <1>5, <1>6 DEF ReplayInv, ListedIsSent
<1> QED
  BY <1>4, <1>7, <1>8 DEF ReplayInv, FlowAscends, CursorIsLastSent, StatusComesLast

LEMMA SaveKeeps ==
    ASSUME ReplayInv, NEW w \in Writers, SaveStatus(w), UNCHANGED streamVars
    PROVE  ReplayInv'
<1> USE DEF SaveStatus, streamVars
<1>1. status' \in RunStatuses
  BY DEF ReplayInv, ReplayTypes, TypeOK, RunStatuses, ALLOWED_STATUS_TRANSITIONS
<1>2. ReplayTypes'
  BY <1>1 DEF ReplayInv, ReplayTypes, TypeOK, Flow
<1> QED
  BY <1>2 DEF ReplayInv, FlowAscends, CursorIsLastSent, FlowHasNoGaps,
     ListedIsSent, StatusComesLast, Flow

LEMMA ConnectKeeps ==
    ASSUME ReplayInv, Connect, UNCHANGED logVars
    PROVE  ReplayInv'
<1> USE DEF Connect, logVars
<1>1. wire = <<>> /\ batch = <<>> /\ ended = NotEnded /\ pc' = "list"
  BY DEF ReplayInv, StatusComesLast
<1>2. Events(wire) = {} /\ ToSet(batch) = {}
  BY <1>1, EmptyQueues
<1>3. /\ LastReceived \in Nat
      /\ LastReceived = 0 \/ LastReceived \in ToSet(received)
      /\ \A d \in ToSet(received) : d <= LastReceived
  BY LastIsGreatest DEF ReplayInv, FlowAscends
<1>4. LastReceived \in 0 .. MaxEvents
  <2>1. ToSet(received) \subseteq 1 .. MaxEvents
    BY FlowIsOfIds DEF ReplayInv, ReplayTypes, Flow
  <2> QED BY <1>3, <2>1, EventsAreBounded
<1>5. ReplayTypes'
  BY <1>1, <1>4 DEF ReplayInv, ReplayTypes, TypeOK, Flow
<1>6. CursorIsLastSent'
  BY <1>2, <1>3 DEF CursorIsLastSent
<1> QED
  BY <1>1, <1>5, <1>6 DEF ReplayInv, FlowAscends, FlowHasNoGaps, ListedIsSent,
     StatusComesLast, Flow

LEMMA ListKeeps ==
    ASSUME ReplayInv, ListEvents, UNCHANGED logVars
    PROVE  ReplayInv'
<1> USE DEF ListEvents, logVars
<1> DEFINE S == EventsAfter(cursor)
<1>1. /\ batch' = InOrder(S) /\ pc' = "send" /\ pc = "list" /\ batch = <<>>
      /\ listed' = committed /\ ended = NotEnded
  BY DEF OldestFirst, ReplayInv, StatusComesLast, ListedIsSent
<1>2. S = {e \in committed : e > cursor} /\ committed \subseteq Nat /\ cursor \in Nat
  BY FlowIsOfIds DEF EventsAfter, ReplayInv
<1>3. S \in SUBSET Nat /\ IsFiniteSet(S)
  BY <1>2, FlowIsOfIds, FS_Subset DEF ReplayInv
<1>4. /\ batch' \in Seq(S)
      /\ \A e \in S : \E i \in DOMAIN batch' : batch'[i] = e
  BY <1>1, <1>3, InOrderListsRows
<1>5. ToSet(batch') = S
  BY <1>4 DEF ToSet
<1>6. Ascending(batch')
  BY <1>1, <1>3, InOrderAscends DEF Ascending
<1>7. ToSet(batch) = {} /\ Flow = ToSet(received) \cup Events(wire)
  BY <1>1, EmptyQueues DEF Flow
<1>8. Flow' = Flow \cup S
  BY <1>5, <1>7 DEF Flow
<1>9. /\ cursor = 0 \/ cursor \in Flow
      /\ \A d \in Flow : d <= cursor
      /\ Flow \subseteq committed
  BY <1>1, <1>7 DEF ReplayInv, CursorIsLastSent, ReplayTypes
<1>10. ReplayTypes'
  <2>1. S \subseteq Ids
    BY <1>2, FlowIsOfIds DEF Ids, ReplayInv
  <2>2. batch' \in Seq(Ids)
    BY <1>4, <2>1
  <2>3. TypeOK'
    BY <1>1, <2>2 DEF ReplayInv, ReplayTypes, TypeOK, Flow
  <2> QED BY <1>2, <1>8, <1>9, <2>3 DEF ReplayInv, ReplayTypes
<1>11. FlowAscends'
  <2>1. ASSUME NEW d \in Flow, NEW e \in S PROVE d < e
    <3>1. d \in Nat /\ d <= cursor /\ e \in Nat /\ e > cursor
      BY <1>2, <1>9
    <3> QED BY <1>2, <3>1
  <2> QED BY <1>5, <1>6, <1>7, <2>1 DEF ReplayInv, FlowAscends, Flow
<1>12. CursorIsLastSent'
  BY <1>1, <1>2, <1>5, <1>7, <1>9 DEF CursorIsLastSent
<1>13. ASSUME NEW e \in committed PROVE e \in Flow \cup S \cup late
  <2>1. CASE e > cursor
    BY <1>2, <2>1
  <2>2. CASE ~(e > cursor)
    <3>1. e <= cursor /\ e # 0
      BY <1>2, <2>2, FlowIsOfIds DEF ReplayInv
    <3>2. cursor # 0
      BY <1>2, <3>1
    <3> QED BY <1>9, <3>1, <3>2 DEF ReplayInv, FlowHasNoGaps
  <2> QED BY <2>1, <2>2
<1>14. FlowHasNoGaps' /\ ListedIsSent'
  BY <1>1, <1>8, <1>13 DEF FlowHasNoGaps, ListedIsSent
<1> QED
  BY <1>1, <1>10, <1>11, <1>12, <1>14 DEF ReplayInv, StatusComesLast

LEMMA SendKeeps ==
    ASSUME ReplayInv, SendEvent, UNCHANGED logVars
    PROVE  ReplayInv'
<1> USE DEF SendEvent, logVars
<1> DEFINE e == Head(batch)
           c == RunEvent(e)
<1>1. batch \in Seq(Nat) /\ batch # <<>> /\ batch' = Tail(batch)
  BY FlowIsOfIds DEF ReplayInv
<1>2. /\ e \in Nat /\ Tail(batch) \in Seq(Nat)
      /\ ToSet(batch) = {e} \cup ToSet(batch')
      /\ Ascending(batch') /\ \A d \in ToSet(batch') : e < d
  BY <1>1, FirstId DEF ReplayInv, FlowAscends
<1>3. c \in Chunk /\ c.event = "run_event" /\ c.id = e
  BY <1>2 DEF RunEvent, Chunk
<1>4. wire' = Append(wire, c) /\ wire \in Seq(Chunk) /\ received' = received
  BY FlowIsOfIds DEF ReplayInv
<1> HIDE DEF c
<1>5. /\ Events(wire') = Events(wire) \cup {e}
      /\ EventsAscend(wire')
  <2>1. \A d \in Events(wire) : d < e
    BY <1>2 DEF ReplayInv, FlowAscends
  <2> QED BY <1>3, <1>4, <2>1, AppendedChunk DEF ReplayInv, FlowAscends
<1>6. Flow' = Flow /\ e \in Flow /\ Flow \subseteq committed
  BY <1>2, <1>4, <1>5 DEF Flow, ReplayInv, ReplayTypes
<1>7. cursor < e /\ cursor \in Nat /\ pc = "send" /\ e \in 1 .. MaxEvents
  BY <1>2, <1>6, FlowIsOfIds DEF ReplayInv, CursorIsLastSent
<1>8. cursor' = e
  <2>1. cursor' = Max({cursor, e})
    BY DEF Advance
  <2> QED BY <1>2, <1>7, <2>1 DEF Max
<1>9. ReplayTypes'
  <2>1. batch' \in Seq(Ids)
    <3>1. batch \in Seq(Ids)
      BY DEF ReplayInv, ReplayTypes, TypeOK
    <3> QED BY <1>1, <3>1
  <2>2. wire' \in Seq(Chunk)
    BY <1>3, <1>4
  <2>3. cursor' \in 0 .. MaxEvents
    BY <1>7, <1>8
  <2>4. TypeOK'
    BY <2>1, <2>3 DEF ReplayInv, ReplayTypes, TypeOK
  <2> QED BY <1>6, <2>2, <2>4 DEF ReplayInv, ReplayTypes
<1> HIDE DEF e
<1>10. FlowAscends'
  BY <1>2, <1>4, <1>5 DEF ReplayInv, FlowAscends
<1>11. CursorIsLastSent'
  <2>1. \A d \in ToSet(received) \cup Events(wire) : d <= e
    <3> TAKE d \in ToSet(received) \cup Events(wire)
    <3>1. d <= cursor /\ d \in Nat
      BY <1>7, FlowIsOfIds DEF ReplayInv, CursorIsLastSent
    <3> QED BY <1>2, <1>7, <3>1
  <2> QED BY <1>2, <1>4, <1>5, <1>8, <2>1 DEF CursorIsLastSent
<1>12. FlowHasNoGaps' /\ ListedIsSent'
  BY <1>4, <1>6 DEF ReplayInv, FlowHasNoGaps, ListedIsSent
<1>13. StatusComesLast'
  <2>1. \A i \in DOMAIN wire : wire[i].event # "run_status"
    BY <1>7 DEF ReplayInv, StatusComesLast
  <2>2. \A i \in DOMAIN wire' : wire'[i].event # "run_status"
    BY <1>3, <1>4, <2>1
  <2> QED BY <1>7, <2>2 DEF StatusComesLast
<1> QED
  BY <1>9, <1>10, <1>11, <1>12, <1>13 DEF ReplayInv

LEMMA StatusKeeps ==
    ASSUME ReplayInv, ReadStatus, UNCHANGED logVars
    PROVE  ReplayInv'
<1> USE DEF ReadStatus, logVars
<1>1. CASE UNCHANGED wire /\ pc' = "list"
  <2>1. ReplayTypes'
    BY <1>1 DEF ReplayInv, ReplayTypes, TypeOK, Flow
  <2> QED
    BY <1>1, <2>1 DEF ReplayInv, FlowAscends, CursorIsLastSent, FlowHasNoGaps,
       ListedIsSent, StatusComesLast, Flow
<1>2. CASE wire' = Append(wire, StatusEvent(status)) /\ pc' = "done"
  <2> DEFINE c == StatusEvent(status)
  <2>1. c \in Chunk /\ c.event = "run_status" /\ wire \in Seq(Chunk)
    BY FlowIsOfIds DEF ReplayInv, ReplayTypes, TypeOK, StatusEvent, Chunk
  <2>2. wire' = Append(wire, c) /\ batch' = batch /\ received' = received
    BY <1>2
  <2> HIDE DEF c
  <2>3. Events(wire') = Events(wire) /\ EventsAscend(wire')
    BY <2>1, <2>2, AppendedChunk DEF ReplayInv, FlowAscends
  <2>4. Flow' = Flow
    BY <2>2, <2>3 DEF Flow
  <2>5. wire' \in Seq(Chunk)
    BY <2>1, <2>2
  <2>6. ReplayTypes'
    BY <1>2, <2>4, <2>5 DEF ReplayInv, ReplayTypes, TypeOK
  <2>7. StatusComesLast'
    <3>1. \A i \in DOMAIN wire : wire[i].event # "run_status"
      BY DEF ReplayInv, StatusComesLast
    <3>2. \A i \in DOMAIN wire' : wire'[i].event = "run_status" => i = Len(wire')
      BY <2>1, <2>2, <3>1
    <3>3. batch' = <<>>
      OBVIOUS
    <3> QED BY <1>2, <3>2, <3>3 DEF StatusComesLast
  <2> QED
    BY <1>2, <2>2, <2>3, <2>4, <2>6, <2>7 DEF ReplayInv, FlowAscends,
       CursorIsLastSent, FlowHasNoGaps, ListedIsSent
<1> QED BY <1>1, <1>2

LEMMA ReceiveKeeps ==
    ASSUME ReplayInv, Receive, UNCHANGED logVars
    PROVE  ReplayInv'
<1> USE DEF Receive, logVars
<1> DEFINE c == Head(wire)
<1>1. wire \in Seq(Chunk) /\ wire # <<>> /\ wire' = Tail(wire) /\ batch' = batch
  BY FlowIsOfIds DEF ReplayInv
<1>2. /\ c \in Chunk /\ wire' \in Seq(Chunk) /\ EventsAscend(wire')
      /\ Events(wire) = Events(wire') \cup
             IF c.event = "run_event" THEN {c.id} ELSE {}
      /\ c.event = "run_event" => \A d \in Events(wire') : c.id < d
  BY <1>1, FirstChunk DEF ReplayInv, FlowAscends
<1>3. /\ 1 \in DOMAIN wire /\ wire[1] = c
      /\ \A i \in DOMAIN wire' : /\ i + 1 \in DOMAIN wire /\ wire'[i] = wire[i + 1]
                                 /\ i + 1 = Len(wire) => i = Len(wire')
  BY <1>1
<1>4. pc # "closed" /\ ended = NotEnded
  BY <1>1 DEF ReplayInv, StatusComesLast, ListedIsSent
<1>5. received \in Seq(Nat) /\ received \in Seq(Ids)
  BY FlowIsOfIds DEF ReplayInv, ReplayTypes
<1> HIDE DEF c
<1>6. CASE c.event = "run_event"
  <2> DEFINE e == c.id
  <2>1. /\ received' = Append(received, e) /\ ended' = ended /\ pc' = pc
        /\ Events(wire) = {e} \cup Events(wire') /\ e \in Events(wire)
        /\ \A d \in Events(wire') : e < d
    BY <1>2, <1>6 DEF c
  <2> HIDE DEF e
  <2>2. e \in Nat /\ e \in Ids
    BY <2>1, FlowIsOfIds DEF ReplayInv, ReplayTypes, Flow, Ids
  <2>3. \A d \in ToSet(received) : d < e
    BY <2>1 DEF ReplayInv, FlowAscends
  <2>4. ToSet(received') = ToSet(received) \cup {e} /\ Ascending(received')
    BY <1>5, <2>1, <2>2, <2>3, AppendedIds DEF ReplayInv, FlowAscends
  <2>5. Flow' = Flow
    BY <1>1, <2>1, <2>4 DEF Flow
  <2>6. received' \in Seq(Ids)
    BY <1>5, <2>1, <2>2
  <2>7. ReplayTypes'
    BY <1>2, <2>1, <2>4, <2>5, <2>6 DEF ReplayInv, ReplayTypes, TypeOK, Flow
  <2>8. FlowAscends'
    BY <1>1, <1>2, <2>1, <2>4 DEF ReplayInv, FlowAscends
  <2>9. StatusComesLast'
    BY <1>1, <1>3, <1>4, <2>1 DEF ReplayInv, StatusComesLast
  <2> QED
    BY <1>1, <1>4, <2>1, <2>4, <2>5, <2>7, <2>8, <2>9 DEF ReplayInv,
       CursorIsLastSent, FlowHasNoGaps, ListedIsSent
<1>7. CASE c.event = "run_status"
  <2>1. /\ received' = received /\ ended' = c.status /\ pc' = "closed"
        /\ Events(wire') = Events(wire)
    BY <1>2, <1>7 DEF c
  <2>2. pc = "done" /\ Len(wire) = 1 /\ batch = <<>>
    BY <1>3, <1>7 DEF ReplayInv, StatusComesLast
  <2>3. wire' = <<>>
    BY <1>1, <2>2
  <2>4. ToSet(batch) = {} /\ Events(wire) = {}
    BY <2>1, <2>2, <2>3, EmptyQueues
  <2>5. Flow' = Flow /\ Flow = ToSet(received)
    BY <1>1, <2>1, <2>4 DEF Flow
  <2>6. ended' \in RunStatuses \cup {NotEnded}
    BY <1>2, <2>1 DEF Chunk
  <2>7. ReplayTypes'
    BY <1>2, <2>1, <2>5, <2>6 DEF ReplayInv, ReplayTypes, TypeOK
  <2>8. StatusComesLast'
    BY <1>1, <2>2, <2>3 DEF StatusComesLast
  <2> QED
    BY <1>1, <1>2, <2>1, <2>2, <2>5, <2>7, <2>8 DEF ReplayInv, FlowAscends,
       CursorIsLastSent, FlowHasNoGaps, ListedIsSent
<1> QED BY <1>2, <1>6, <1>7 DEF Chunk

\* A lost connection loses what the client had not received: all of it is
\* younger than what it has.
LEMMA DropKeeps ==
    ASSUME ReplayInv, Drop, UNCHANGED logVars
    PROVE  ReplayInv'
<1> USE DEF Drop, logVars
<1>1. /\ wire' = <<>> /\ batch' = <<>> /\ received' = received /\ pc' = "closed"
      /\ ended = NotEnded /\ ended' = NotEnded
  BY DEF ReplayInv, ListedIsSent
<1>2. Events(wire') = {} /\ ToSet(batch') = {} /\ Ascending(batch') /\ EventsAscend(wire')
  BY <1>1, EmptyQueues
<1>3. Flow' = ToSet(received)
  BY <1>1, <1>2 DEF Flow
<1>4. ReplayTypes'
  <2>1. wire' \in Seq(Chunk) /\ batch' \in Seq(Ids)
    BY <1>1
  <2> QED BY <1>1, <1>3, <2>1 DEF ReplayInv, ReplayTypes, TypeOK, Flow
<1>5. ASSUME NEW b \in ToSet(received), NEW e \in committed, e <= b
      PROVE  e \in ToSet(received) \cup late
  <2>1. e \in Flow \cup late
    BY <1>5 DEF ReplayInv, FlowHasNoGaps, Flow
  <2>2. b \in Nat /\ e \in Nat
    BY FlowIsOfIds DEF ReplayInv
  <2>3. ~(b < e)
    BY <1>5, <2>2
  <2> QED BY <2>1, <2>3 DEF ReplayInv, FlowAscends, Flow
<1>6. FlowHasNoGaps'
  BY <1>3, <1>5 DEF FlowHasNoGaps
<1> QED
  BY <1>1, <1>2, <1>4, <1>6 DEF ReplayInv, FlowAscends, CursorIsLastSent,
     ListedIsSent, StatusComesLast

LEMMA ReplayStep == ReplayInv /\ [Next]_vars => ReplayInv'
<1> SUFFICES ASSUME ReplayInv, [Next]_vars PROVE ReplayInv'
  OBVIOUS
<1>1. ASSUME NEW w \in Writers, WriterStep(w), UNCHANGED streamVars
      PROVE  ReplayInv'
  BY <1>1, InsertKeeps, CommitKeeps, SaveKeeps DEF WriterStep
<1>2. CASE (Connect \/ GeneratorStep \/ Receive \/ Drop) /\ UNCHANGED logVars
  BY <1>2, ConnectKeeps, ListKeeps, SendKeeps, StatusKeeps, ReceiveKeeps,
     DropKeeps DEF GeneratorStep
<1>3. CASE UNCHANGED vars
  <2>1. ReplayTypes'
    BY <1>3 DEF vars, ReplayInv, ReplayTypes, TypeOK, Flow
  <2> QED
    BY <1>3, <2>1 DEF vars, ReplayInv, FlowAscends, CursorIsLastSent,
       FlowHasNoGaps, ListedIsSent, StatusComesLast, Flow
<1> QED BY <1>1, <1>2, <1>3 DEF Next

-----------------------------------------------------------------------------
(* Theorems.                                                               *)

LEMMA ReplayInvariant == Spec => []ReplayInv
BY ReplayInit, ReplayStep, PTL DEF Spec

(***************************************************************************)
(* The types of the log and of the stream; in particular a client receives *)
(* only events that have committed.                                        *)
(***************************************************************************)
THEOREM ReplayTypeCorrect == Spec => []TypeOK
<1>1. ReplayInv => TypeOK
  BY DEF ReplayInv, ReplayTypes
<1> QED BY ReplayInvariant, <1>1, PTL

(***************************************************************************)
(* However often the connection of durable_event_stream breaks, the client *)
(* receives the events in the order of their ids and none of them twice.   *)
(***************************************************************************)
THEOREM ReplayOrdered == Spec => []ReplayIsOrdered
<1>1. ReplayInv => ReplayIsOrdered
  BY DEF ReplayInv, FlowAscends, Ascending, ReplayIsOrdered
<1> QED BY ReplayInvariant, <1>1, PTL

(***************************************************************************)
(* A gap in what the client has received is an event that committed after  *)
(* a younger one, or one the stream's last list_events could not see yet.  *)
(***************************************************************************)
THEOREM OnlyLateEventsMissed == Spec => []OnlyLateEventsAreMissed
<1>1. ReplayInv => OnlyLateEventsAreMissed
  <2> SUFFICES ASSUME ReplayInv PROVE OnlyLateEventsAreMissed
    OBVIOUS
  <2>1. ASSUME NEW e \in committed, e < LastReceived
        PROVE  e \in ToSet(received) \cup late
    <3>1. /\ LastReceived \in Nat /\ e \in Nat
          /\ LastReceived = 0 \/ LastReceived \in ToSet(received)
      BY LastIsGreatest, FlowIsOfIds DEF ReplayInv, FlowAscends
    <3>2. LastReceived \in ToSet(received) /\ e <= LastReceived
      BY <2>1, <3>1
    <3>3. e \in Flow \cup late
      BY <3>2 DEF ReplayInv, FlowHasNoGaps, Flow
    <3>4. ~(LastReceived < e)
      BY <2>1, <3>1
    <3> QED BY <3>2, <3>3, <3>4 DEF ReplayInv, FlowAscends, Flow
  <2>2. ended # NotEnded => listed \ ToSet(received) \subseteq late
    BY DEF ReplayInv, ListedIsSent
  <2> QED BY <2>1, <2>2 DEF OnlyLateEventsAreMissed
<1> QED BY ReplayInvariant, <1>1, PTL
=============================================================================
