--------------------------- MODULE StreamExecutor ---------------------------
(***************************************************************************)
(* BoundedStreamExecutor of app/services/run_stream.py: a thread pool whose *)
(* semaphore caps the running and the pending streams.  The permit of a     *)
(* stream is released by the done callback of its future, after the future  *)
(* has its outcome.                                                        *)
(***************************************************************************)
EXTENDS Naturals, FiniteSets

CONSTANTS
    Streams,       \* streamed requests, each submits its worker once
    MaxWorkers,    \* BoundedStreamExecutor.max_workers
    MaxPending     \* BoundedStreamExecutor.max_pending

ASSUME StreamsAreFinite == IsFiniteSet(Streams)
ASSUME WorkersExist == MaxWorkers \in Nat \ {0}
ASSUME PendingIsNatural == MaxPending \in Nat

VARIABLES
    stream,        \* what became of each request's worker
    permits,       \* the value of the semaphore
    accepting      \* is the thread pool still open?

streamVars == <<stream, permits, accepting>>

StreamState ==
    {"new", "acquired", "pending", "running", "done", "released", "rejected"}

Capacity == MaxWorkers + MaxPending

\* The streams that hold a permit: from submit's acquire to the done callback.
Holders == {r \in Streams : stream[r] \in {"acquired", "pending", "running", "done"}}

Running == {r \in Streams : stream[r] = "running"}

Become(r, s) == stream' = [stream EXCEPT ![r] = s]

StreamInit ==
    /\ stream = [r \in Streams |-> "new"]
    /\ permits = Capacity
    /\ accepting = TRUE

-----------------------------------------------------------------------------
\* submit: a non-blocking acquire, which fails when every permit is taken.
Acquire(r) ==
    /\ stream[r] = "new"
    /\ permits > 0
    /\ permits' = permits - 1
    /\ Become(r, "acquired")
    /\ UNCHANGED accepting

Saturated(r) ==
    /\ stream[r] = "new"
    /\ permits = 0
    /\ Become(r, "rejected")
    /\ UNCHANGED <<permits, accepting>>

\* The pool takes the worker, or raises once it is shut down: submit then
\* gives the permit back itself, for no callback is registered.
Enqueue(r) ==
    /\ stream[r] = "acquired"
    /\ accepting
    /\ Become(r, "pending")
    /\ UNCHANGED <<permits, accepting>>

EnqueueRefusedKeeping(r) ==
    /\ stream[r] = "acquired"
    /\ ~accepting
    /\ Become(r, "rejected")
    /\ UNCHANGED <<permits, accepting>>

EnqueueRefused(r) ==
    /\ stream[r] = "acquired"
    /\ ~accepting
    /\ permits' = permits + 1
    /\ Become(r, "rejected")
    /\ UNCHANGED accepting

\* A pool thread takes a pending worker.
StartWorker(r) ==
    /\ stream[r] = "pending"
    /\ Cardinality(Running) < MaxWorkers
    /\ Become(r, "running")
    /\ UNCHANGED <<permits, accepting>>

\* The worker returns or raises; its future has an outcome.
WorkerEnds(r) ==
    /\ stream[r] = "running"
    /\ Become(r, "done")
    /\ UNCHANGED <<permits, accepting>>

\* shutdown closes the pool and cancels what is pending; the cancelled
\* futures run their callbacks too.
Shutdown ==
    /\ accepting
    /\ accepting' = FALSE
    /\ stream' = [r \in Streams |->
                     IF stream[r] = "pending" THEN "done" ELSE stream[r]]
    /\ UNCHANGED permits

ReleaseCapacity(r) ==
    /\ stream[r] = "done"
    /\ permits' = permits + 1
    /\ Become(r, "released")
    /\ UNCHANGED accepting

StreamStep(r) ==
    \/ Acquire(r) \/ Saturated(r)
    \/ Enqueue(r) \/ EnqueueRefused(r)
    \/ StartWorker(r)
    \/ ReleaseCapacity(r)

-----------------------------------------------------------------------------
StreamTypeOK ==
    /\ stream \in [Streams -> StreamState]
    /\ permits \in 0 .. Capacity
    /\ accepting \in BOOLEAN

(***************************************************************************)
(* No path of submit, of the pool or of the callbacks loses or invents a   *)
(* permit: what is free and what is held is always the whole capacity.     *)
(***************************************************************************)
PermitsConserved == permits + Cardinality(Holders) = Capacity
=============================================================================
