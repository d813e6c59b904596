---------------------------- MODULE ToolRuntime -----------------------------
(***************************************************************************)
(* The two thread pools of the server together: the workers of             *)
(* BoundedStreamExecutor run requests, and the tool calls of those requests *)
(* run in the pool of ToolExecutor.  A handler may never return.            *)
(***************************************************************************)
EXTENDS StreamExecutor, ToolExecutor

ASSUME EveryRequestIsStreamed == Streams = Requests

vars == <<stream, permits, accepting, phase, results, attempt, calling, used,
          cache, queue, future>>

Init == StreamInit /\ ToolInit

\* The thread of a request: it calls tools while its worker runs, and ends
\* between two calls or with a call that raises.
RequestStep(r) ==
    \/ /\ stream[r] = "running"
       /\ CallStep(r) \/ WaitStep(r)
       /\ UNCHANGED streamVars
    \/ phase[r] = "idle" /\ WorkerEnds(r) /\ UNCHANGED toolVars
    \/ RaiseStep(r) /\ WorkerEnds(r)

Finished ==
    /\ \A r \in Requests : stream[r] \in {"released", "rejected"}
    /\ UNCHANGED vars

Next ==
    \/ \E r \in Requests : StreamStep(r) /\ UNCHANGED toolVars
    \/ Shutdown /\ UNCHANGED toolVars
    \/ \E r \in Requests : RequestStep(r)
    \/ PoolStep /\ UNCHANGED streamVars
    \/ Finished

\* Threads that can run do run, that of a submit included, and waits time
\* out.  A handler owes nothing: there is no fairness on HandlerEnds.
Fairness ==
    /\ \A r \in Requests : WF_vars(StreamStep(r) /\ UNCHANGED toolVars)
    /\ \A r \in Requests : WF_vars(RequestStep(r))

Spec == Init /\ [][Next]_vars /\ Fairness

-----------------------------------------------------------------------------
TypeOK == StreamTypeOK /\ ToolTypeOK

(***************************************************************************)
(* Every request is refused, or ends and gives its permit back, even when  *)
(* handlers hang and hold every thread of the tool pool: a call that never *)
(* leaves the queue is timed out like one that never returns.              *)
(***************************************************************************)
RequestsEnd == <>(\A r \in Requests : stream[r] \in {"released", "rejected"})
=============================================================================
