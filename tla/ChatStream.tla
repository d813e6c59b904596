----------------------------- MODULE ChatStream -----------------------------
(***************************************************************************)
(* One POST /chat/stream: the worker thread runs run_chat and publishes to *)
(* a RunStreamBuffer, the event loop drains the buffer in event_stream, the *)
(* client may go away, and the cancel endpoint may stop the run            *)
(* (app/main.py, app/services/run_stream.py).                              *)
(*                                                                         *)
(* The worker is the buffer's only producer, so its lock never blocks, but *)
(* the generator takes items without that lock: a check for a full queue   *)
(* and the eviction that follows it are two steps.                         *)
(***************************************************************************)
EXTENDS RunStatus, Naturals, Sequences

CONSTANTS
    MaxSize,      \* settings.stream_queue_max_size
    MaxTokens     \* bound: tokens the model produces

ASSUME BufferIsLargeEnough == MaxSize \in Nat /\ MaxSize >= 2
ASSUME TokensAreBounded == MaxTokens \in Nat

VARIABLES
    queue,       \* RunStreamBuffer._queue
    cancelled,   \* RunStreamBuffer.cancelled
    tokens,      \* tokens the model has produced so far
    worker,      \* where run_chat is
    status,      \* the run's row, as RunContract lets it move
    remembered,  \* has ConversationMemory.add returned?
    generator,   \* where event_stream is
    finished,    \* its stream_finished
    connected,   \* is the client still there?
    canceller,   \* where a call of the cancel endpoint is
    received     \* history: the events yielded to the client, in order

vars == <<queue, cancelled, tokens, worker, status, remembered,
          generator, finished, connected, canceller, received>>

buffer == <<queue, cancelled>>
run == <<tokens, worker, status, remembered>>
transport == <<generator, finished, connected, received>>

Control == {"final", "error"}
StreamItem == [event : Control \cup {"token"}, delta : 0..MaxTokens]
Token(n) == [event |-> "token", delta |-> n]
ControlItem(event) == [event |-> event, delta |-> 0]
STREAM_CLOSED == ControlItem("closed")

Full == Len(queue) >= MaxSize
Put(item) == queue' = Append(queue, item)

\* A definition whose name extends a following one's (EvictAndPutKeeping, ...)
\* is that definition with a plausible bug; only the mutation runs use it.

\* _discard_oldest, then put_nowait: the generator may have drained the queue.
EvictAndPutKeeping(item) == queue' = Append(queue, item)
EvictAndPutInPlace(item) ==
    queue' = <<item>> \o (IF queue = <<>> THEN queue ELSE Tail(queue))
EvictAndPut(item) ==
    queue' = Append(IF queue = <<>> THEN queue ELSE Tail(queue), item)

Cancellable == status \notin TERMINAL_RUN_STATUSES \cup {"absent"}

-----------------------------------------------------------------------------
(* run_chat, on a pool thread.  AgentRuntime.answer is RunLifecycle's: here *)
(* it creates the row, streams tokens and returns, raises or is cancelled. *)

Create ==
    /\ worker = "submitted"
    /\ status' = "running" /\ worker' = "answering"
    /\ UNCHANGED <<buffer, tokens, remembered, transport, canceller>>

\* memory.get raises, or answer does before it has created the run.
FailBeforeRun ==
    /\ worker = "submitted"
    /\ worker' = "error"
    /\ UNCHANGED <<buffer, tokens, status, remembered, transport, canceller>>

\* publish_token: refused once cancelled, dropped when the queue is full.
PublishToken ==
    /\ worker = "answering"
    /\ tokens < MaxTokens
    /\ tokens' = tokens + 1
    /\ IF cancelled \/ Full THEN UNCHANGED queue ELSE Put(Token(tokens'))
    /\ UNCHANGED <<cancelled, worker, status, remembered, transport, canceller>>

AnswerReturns ==
    /\ worker = "answering"
    /\ status = "running"
    /\ status' \in {"completed", "waiting_for_approval"}
    /\ worker' = "remember"
    /\ UNCHANGED <<buffer, tokens, remembered, transport, canceller>>

\* An exception, or a save that finds the row cancelled by somebody else.
AnswerRaises ==
    /\ worker = "answering"
    /\ status' = IF status = "running" THEN "failed" ELSE status
    /\ worker' = "error"
    /\ UNCHANGED <<buffer, tokens, remembered, transport, canceller>>

\* AgentRunCancelledError: the row is cancelled, nothing is published.
AnswerCancelled ==
    /\ worker = "answering"
    /\ cancelled
    /\ status' = "cancelled"
    /\ worker' = "close"
    /\ UNCHANGED <<buffer, tokens, remembered, transport, canceller>>

RememberLast ==
    /\ worker = "remember"
    /\ worker' \in {"final", "error"}
    /\ UNCHANGED <<buffer, tokens, status, remembered, transport, canceller>>

\* memory.add: the turn is stored, or an exception hides the answer.
Remember ==
    /\ worker = "remember"
    /\ \/ worker' = "final" /\ remembered' = TRUE
       \/ worker' = "error" /\ UNCHANGED remembered
    /\ UNCHANGED <<buffer, tokens, status, transport, canceller>>

\* publish of the only control event: refused once cancelled; when the queue
\* is full, room is made for it in a step of its own.
PublishDropping ==
    /\ worker \in Control
    /\ IF cancelled \/ Full THEN UNCHANGED queue ELSE Put(ControlItem(worker))
    /\ worker' = "close"
    /\ UNCHANGED <<cancelled, tokens, status, remembered, transport, canceller>>

Publish ==
    /\ worker \in Control
    /\ IF cancelled THEN worker' = "close" /\ UNCHANGED queue
       ELSE IF Full
       THEN /\ worker' = IF worker = "final" THEN "evict_final" ELSE "evict_error"
            /\ UNCHANGED queue
       ELSE Put(ControlItem(worker)) /\ worker' = "close"
    /\ UNCHANGED <<cancelled, tokens, status, remembered, transport, canceller>>

PublishEvicting ==
    /\ worker \in {"evict_final", "evict_error"}
    /\ EvictAndPut(ControlItem(IF worker = "evict_final" THEN "final" ELSE "error"))
    /\ worker' = "close"
    /\ UNCHANGED <<cancelled, tokens, status, remembered, transport, canceller>>

CloseIfRoom ==
    /\ worker = "close"
    /\ IF Full THEN UNCHANGED queue ELSE Put(STREAM_CLOSED)
    /\ worker' = "done"
    /\ UNCHANGED <<cancelled, tokens, status, remembered, transport, canceller>>

Close ==
    /\ worker = "close"
    /\ IF Full THEN worker' = "evict_close" /\ UNCHANGED queue
       ELSE worker' = "done" /\ Put(STREAM_CLOSED)
    /\ UNCHANGED <<cancelled, tokens, status, remembered, transport, canceller>>

CloseEvicting ==
    /\ worker = "evict_close"
    /\ EvictAndPut(STREAM_CLOSED)
    /\ worker' = "done"
    /\ UNCHANGED <<cancelled, tokens, status, remembered, transport, canceller>>

RunChat ==
    \/ Create \/ FailBeforeRun
    \/ PublishToken \/ AnswerReturns \/ AnswerRaises \/ AnswerCancelled
    \/ Remember \/ Publish \/ PublishEvicting \/ Close \/ CloseEvicting

-----------------------------------------------------------------------------
(* event_stream, on the event loop.                                        *)

\* The first chunk: the generator is suspended before its try clause.
YieldStatus ==
    /\ generator = "unstarted" /\ connected
    /\ generator' = "status"
    /\ UNCHANGED <<buffer, run, finished, connected, canceller, received>>

EnterLoop ==
    /\ generator = "status" /\ connected
    /\ generator' = "loop"
    /\ UNCHANGED <<buffer, run, finished, connected, canceller, received>>

\* The response is abandoned before the try: no finally clause runs.
Abandon ==
    /\ generator \in {"unstarted", "status"} /\ ~connected
    /\ generator' = "closed"
    /\ UNCHANGED <<buffer, run, finished, connected, canceller, received>>

Get ==
    /\ generator = "loop" /\ connected
    /\ queue # <<>>
    /\ queue' = Tail(queue)
    /\ IF Head(queue) = STREAM_CLOSED
       THEN /\ finished' = TRUE /\ generator' = "finally"
            /\ UNCHANGED received
       ELSE /\ received' = Append(received, Head(queue))
            /\ UNCHANGED <<finished, generator>>
    /\ UNCHANGED <<cancelled, run, connected, canceller>>

DetectDisconnect ==
    /\ generator = "loop" /\ ~connected
    /\ generator' = "finally"
    /\ UNCHANGED <<buffer, run, finished, connected, canceller, received>>

\* The finally clause: raise the flag, then cancel_run, unless all is done.
Finally ==
    /\ generator = "finally"
    /\ IF ~finished /\ worker # "done"
       THEN generator' = "cancel_run" /\ cancelled' = TRUE
       ELSE generator' = "join" /\ UNCHANGED cancelled
    /\ UNCHANGED <<queue, run, finished, connected, canceller, received>>

FinallyCancelRun ==
    /\ generator = "cancel_run"
    /\ status' = IF Cancellable THEN "cancelled" ELSE status
    /\ generator' = "join"
    /\ UNCHANGED <<buffer, tokens, worker, remembered,
                   finished, connected, canceller, received>>

\* Wait for the worker; a wait that times out raises the flag (again).
Join ==
    /\ generator = "join"
    /\ generator' = "closed"
    /\ \/ worker = "done" /\ UNCHANGED cancelled
       \/ worker # "done" /\ cancelled' = TRUE
    /\ UNCHANGED <<queue, run, finished, connected, canceller, received>>

EventStream ==
    \/ YieldStatus \/ EnterLoop \/ Abandon \/ Get \/ DetectDisconnect
    \/ Finally \/ FinallyCancelRun \/ Join

-----------------------------------------------------------------------------
(* The client, and the cancel endpoint, which may be called at any time.   *)

Disconnect ==
    /\ connected /\ generator # "closed"
    /\ connected' = FALSE
    /\ UNCHANGED <<buffer, run, generator, finished, canceller, received>>

CancelRun ==
    /\ canceller = "idle"
    /\ Cancellable
    /\ status' = "cancelled"
    /\ canceller' = "signal"
    /\ UNCHANGED <<buffer, tokens, worker, remembered, transport>>

\* active_run_cancellations.request: the entry goes with the worker.
SignalWorker ==
    /\ canceller = "signal"
    /\ cancelled' = (cancelled \/ worker # "done")
    /\ canceller' = "done"
    /\ UNCHANGED <<queue, run, transport>>

-----------------------------------------------------------------------------

Init ==
    /\ queue = <<>> /\ cancelled = FALSE
    /\ tokens = 0 /\ worker = "submitted" /\ status = "absent"
    /\ remembered = FALSE
    /\ generator = "unstarted" /\ finished = FALSE /\ connected = TRUE
    /\ canceller = "idle" /\ received = <<>>

Next == RunChat \/ EventStream \/ Disconnect \/ CancelRun \/ SignalWorker

Spec == Init /\ [][Next]_vars

\* The pool thread and the event loop keep running; a cancel request that
\* was answered goes on to signal.  Nobody has to disconnect or to cancel.
Fairness ==
    /\ WF_vars(RunChat) /\ WF_vars(EventStream) /\ WF_vars(SignalWorker)

FairSpec == Spec /\ Fairness

-----------------------------------------------------------------------------
(* Properties.                                                             *)

\* Types, and the bound the buffer was built for: it never holds more than
\* MaxSize items, whatever the worker and the generator do between two steps.
TypeOK ==
    /\ queue \in Seq(StreamItem \cup {STREAM_CLOSED}) /\ Len(queue) <= MaxSize
    /\ received \in Seq(StreamItem)
    /\ cancelled \in BOOLEAN /\ remembered \in BOOLEAN
    /\ finished \in BOOLEAN /\ connected \in BOOLEAN
    /\ tokens \in 0..MaxTokens
    /\ worker \in Control \cup
           {"submitted", "answering", "remember", "evict_final", "evict_error",
            "close", "evict_close", "done"}
    /\ status \in {"absent", "running"} \cup
           {"completed", "waiting_for_approval", "failed", "cancelled"}
    /\ generator \in {"unstarted", "status", "loop", "finally", "cancel_run",
                      "join", "closed"}
    /\ canceller \in {"idle", "signal", "done"}

\* Where an item belongs in the stream.
Rank(item) ==
    IF item.event = "token" THEN item.delta
    ELSE IF item.event \in Control THEN MaxTokens + 1
    ELSE MaxTokens + 2
Ordered(items) ==
    \A i, j \in DOMAIN items : i < j => Rank(items[i]) < Rank(items[j])
Received(events) == \E i \in DOMAIN received : received[i].event \in events
Queued(events) == \E i \in DOMAIN queue : queue[i].event \in events

\* Whatever is dropped or evicted, the client reads tokens in the order they
\* were produced, none twice, then at most one control event, then the end
\* (publish, close and get of RunStreamBuffer).
StreamIsOrdered ==
    /\ Ordered(received) /\ Ordered(queue)
    /\ \A i \in DOMAIN received, j \in DOMAIN queue :
           Rank(received[i]) < Rank(queue[j])

\* Token pressure never costs a control event: until the worker closes the
\* buffer, the event it published is in the queue or with the client, unless
\* it was refused because the run was being cancelled (publish).
ControlSurvivesTokens ==
    worker \in {"close", "evict_close"} /\ ~cancelled =>
        Received(Control) \/ Queued(Control)

\* A client that reads the final event can rely on the next prompt knowing
\* the turn: run_chat stores it first.
FinalMeansRemembered ==
    Received({"final"}) => remembered

\* Every response ends; and a client that stays is sent the outcome of its
\* request, when the run was not being cancelled as the worker came to close
\* the buffer and the end of the stream had room.  A cancelled answer has no
\* outcome event, and close may evict one (ControlEventsArePreserved, below).
StreamEnds ==
    /\ <>(generator = "closed")
    /\ (worker = "close" /\ ~cancelled /\ ~Full) ~>
           (Received(Control) \/ ~connected)

-----------------------------------------------------------------------------
(* What the repository says and the code does not do.                      *)

\* RunStreamBuffer: "preserving control/final events over token deltas".
ControlEventsArePreserved ==
    finished /\ ~cancelled => Received(Control)

\* README.md: "The server detects closed clients, propagates cooperative
\* cancellation through the runtime ... and persists the cancelled run state."
ClosedClientStopsRun ==
    generator = "closed" /\ ~connected =>
        finished \/ cancelled \/ worker = "done"
=============================================================================
