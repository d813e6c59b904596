----------------------------- MODULE RunReplay ------------------------------
(***************************************************************************)
(* Replaying the durable events of one run (durable_event_stream of        *)
(* app/main.py over AgentRunStore.record_event and list_events).           *)
(*                                                                         *)
(* The processes that work on a run - its worker, a request that cancels   *)
(* it - append events, each in a transaction of its own: MySQL assigns the *)
(* AUTO_INCREMENT sequence_id when the INSERT runs and shows the row when  *)
(* the transaction commits.  A client follows the events, loses its        *)
(* connection and comes back with the last sequence id it received.        *)
(***************************************************************************)
EXTENDS Naturals, Sequences, FiniteSets, SequencesExt, FiniteSetsExt, RunStatus,
        SequenceIds

CONSTANTS
    Writers,       \* processes that record events of the run
    MaxEvents,     \* bound: events recorded
    MaxDrops       \* bound: connections the client loses

ASSUME EventsAreBounded == MaxEvents \in Nat
ASSUME DropsAreBounded == MaxDrops \in Nat

VARIABLES
    lastId,        \* the AUTO_INCREMENT counter of agent_events
    inserting,     \* the sequence id each writer has inserted (0: none)
    committed,     \* the sequence ids a reader can see
    status,        \* agent_runs.status
    pc,            \* where the generator of the current connection is
    follow,        \* the connection's query parameter
    cursor,        \* the generator's cursor
    batch,         \* the events it has listed and not yet sent
    wire,          \* chunks sent and not yet received
    received,      \* the sequence ids the client got, in order
    ended,         \* the status of the run_status event it got
    drops,         \* connections lost so far
    late,          \* history: ids committed after a higher id
    settled,       \* history: ids committed before the status was terminal
    listed         \* history: the ids visible when the last list ran

vars == <<lastId, inserting, committed, status, pc, follow, cursor, batch,
          wire, received, ended, drops, late, settled, listed>>

logVars == <<lastId, inserting, committed, status, late, settled>>
streamVars == <<pc, follow, cursor, batch, wire, received, ended, drops, listed>>

Ids == 1 .. MaxEvents
NotEnded == "none"
RunEvent(e) == [event |-> "run_event", id |-> e, status |-> NotEnded]
StatusEvent(s) == [event |-> "run_status", id |-> cursor, status |-> s]

Init ==
    /\ lastId = 0
    /\ inserting = [w \in Writers |-> 0]
    /\ committed = {}
    /\ status = "running"
    /\ pc = "closed"
    /\ follow = TRUE
    /\ cursor = 0
    /\ batch = <<>>
    /\ wire = <<>>
    /\ received = <<>>
    /\ ended = NotEnded
    /\ drops = 0
    /\ late = {} /\ settled = {} /\ listed = {}

-----------------------------------------------------------------------------
(* AgentRunStore, one statement per transaction.                           *)

InsertEvent(w) ==
    /\ inserting[w] = 0
    /\ lastId < MaxEvents
    /\ lastId' = lastId + 1
    /\ inserting' = [inserting EXCEPT ![w] = lastId']
    /\ UNCHANGED <<committed, status, late, settled>>

CommitEvent(w) ==
    /\ inserting[w] # 0
    /\ committed' = committed \cup {inserting[w]}
    /\ late' = IF \E e \in committed : e > inserting[w]
               THEN late \cup {inserting[w]} ELSE late
    /\ settled' = IF status \in TERMINAL_RUN_STATUSES
                  THEN settled ELSE settled \cup {inserting[w]}
    /\ inserting' = [inserting EXCEPT ![w] = 0]
    /\ UNCHANGED <<lastId, status>>

\* A writer saves the row along the lifecycle table, and records an event of
\* it after.  A run need not end: it may wait for an approval that never
\* comes, or have lost its worker to a restart.
SaveStatus(w) ==
    /\ inserting[w] = 0
    /\ status' \in ALLOWED_STATUS_TRANSITIONS[status]
    /\ UNCHANGED <<lastId, inserting, committed, late, settled>>

-----------------------------------------------------------------------------
(* stream_agent_run_events and its generator.                              *)

LastReceived == IF received = <<>> THEN 0 ELSE Last(received)

\* A request with Last-Event-ID (none on the first connection).
Connect ==
    /\ pc = "closed"
    /\ ended = NotEnded
    /\ follow' \in BOOLEAN
    /\ cursor' = LastReceived
    /\ pc' = "list"
    /\ UNCHANGED <<batch, wire, received, ended, drops, listed>>

\* Plausible bugs of list_events, each before the definition it replaces.
EventsInserted(c) == {e \in 1 .. lastId : e > c}

EventsAfterNext(c) == {e \in committed : e > c + 1}

EventsAfter(c) == {e \in committed : e > c}

OldestLast(S) == Reverse(InOrder(S))

OldestFirst(S) == InOrder(S)

\* list_events: everything visible above the cursor, in order.
ListEvents ==
    /\ pc = "list"
    /\ batch' = OldestFirst(EventsAfter(cursor))
    /\ listed' = committed
    /\ pc' = "send"
    /\ UNCHANGED <<follow, cursor, wire, received, ended, drops>>

\* cursor = max(cursor, sequence_id)
AdvanceNothing(c, e) == c

Advance(c, e) == Max({c, e})

SendEvent ==
    /\ pc = "send"
    /\ batch # <<>>
    /\ cursor' = Advance(cursor, Head(batch))
    /\ wire' = Append(wire, RunEvent(Head(batch)))
    /\ batch' = Tail(batch)
    /\ UNCHANGED <<pc, follow, received, ended, drops, listed>>

\* The status that get_run reads ends the stream when it is terminal.
EndsAtCompletion(s) == s = "completed"

EndsStream(s) == s \in TERMINAL_RUN_STATUSES

ReadStatus ==
    /\ pc = "send"
    /\ batch = <<>>
    /\ IF EndsStream(status) \/ ~follow
       THEN /\ wire' = Append(wire, StatusEvent(status))
            /\ pc' = "done"
       ELSE /\ pc' = "list"
            /\ UNCHANGED wire
    /\ UNCHANGED <<follow, cursor, batch, received, ended, drops, listed>>

-----------------------------------------------------------------------------
(* The client and its connection.                                          *)

Receive ==
    /\ wire # <<>>
    /\ wire' = Tail(wire)
    /\ IF Head(wire).event = "run_event"
       THEN received' = Append(received, Head(wire).id) /\ UNCHANGED ended
       ELSE ended' = Head(wire).status /\ UNCHANGED received
    /\ pc' = IF Head(wire).event = "run_status" THEN "closed" ELSE pc
    /\ UNCHANGED <<follow, cursor, batch, drops, listed>>

\* What was sent and not received is lost; the generator finds the client
\* gone, at its next check or at its next yield.
Drop ==
    /\ pc # "closed"
    /\ drops < MaxDrops
    /\ drops' = drops + 1
    /\ pc' = "closed"
    /\ wire' = <<>>
    /\ batch' = <<>>
    /\ UNCHANGED <<follow, cursor, received, ended, listed>>

-----------------------------------------------------------------------------
WriterStep(w) == InsertEvent(w) \/ CommitEvent(w) \/ SaveStatus(w)
GeneratorStep == ListEvents \/ SendEvent \/ ReadStatus

Next ==
    \/ \E w \in Writers : WriterStep(w) /\ UNCHANGED streamVars
    \/ (Connect \/ GeneratorStep \/ Receive \/ Drop) /\ UNCHANGED logVars

\* The server runs the generator and the network delivers.  Nothing is asked
\* of the run: nobody has to end it, to commit or to record.
Fairness ==
    /\ WF_vars(GeneratorStep /\ UNCHANGED logVars)
    /\ WF_vars(Receive /\ UNCHANGED logVars)

Spec == Init /\ [][Next]_vars /\ Fairness

-----------------------------------------------------------------------------
TypeOK ==
    /\ lastId \in 0 .. MaxEvents
    /\ inserting \in [Writers -> 0 .. MaxEvents]
    /\ committed \subseteq 1 .. lastId
    /\ status \in RunStatuses
    /\ pc \in {"closed", "list", "send", "done"}
    /\ cursor \in 0 .. MaxEvents
    /\ batch \in Seq(Ids)
    /\ ended \in RunStatuses \cup {NotEnded}
    /\ ToSet(received) \cup listed \subseteq committed

(***************************************************************************)
(* However often the connection breaks, the client receives the events in  *)
(* the order of their ids and none of them twice.                          *)
(***************************************************************************)
ReplayIsOrdered ==
    \A i, j \in DOMAIN received : i < j => received[i] < received[j]

(***************************************************************************)
(* A gap in what the client has received is an event that committed after  *)
(* a younger one; and when the stream has ended, what is missing is such   *)
(* an event or one that was not yet visible to the stream's last list.     *)
(***************************************************************************)
OnlyLateEventsAreMissed ==
    /\ \A e \in committed :
          e < LastReceived => e \in ToSet(received) \cup late
    /\ ended # NotEnded => listed \ ToSet(received) \subseteq late

(***************************************************************************)
(* A run that has ended, before its follower came, while it was away or at *)
(* any point of a poll, ends the stream: the client is told the terminal   *)
(* status, or loses that connection.  A client that does not follow is     *)
(* told the status of any run.  (The follower of a run that stays waiting  *)
(* or running is polled for as long as it stays: the loop has no other     *)
(* end.)                                                                   *)
(***************************************************************************)
EndedRunEndsStream ==
    \A d \in 0 .. MaxDrops :
        LET streaming == pc \in {"list", "send"} /\ drops = d
        IN  /\ (streaming /\ status \in TERMINAL_RUN_STATUSES) ~>
                   (ended \in TERMINAL_RUN_STATUSES \/ drops > d)
            /\ (streaming /\ ~follow) ~> (ended # NotEnded \/ drops > d)

-----------------------------------------------------------------------------
(* README.md:863: Last-Event-ID is there "to replay missed events,         *)
(* optionally follow the live run, and return its terminal status".        *)

\* A client told the terminal status has every event recorded before it.
NoEventIsMissed ==
    ended \in TERMINAL_RUN_STATUSES => settled \subseteq ToSet(received)
=============================================================================
