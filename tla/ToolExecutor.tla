---------------------------- MODULE ToolExecutor ----------------------------
(***************************************************************************)
(* ToolExecutor of app/tools/executor.py.  Every request has an executor of *)
(* its own - a budget, an idempotency cache - and calls tools one after     *)
(* another; the handlers run in one thread pool that all requests share.    *)
(* A call waits for its attempt with a timeout: an attempt that is late     *)
(* keeps its pool thread, and its answer arrives when nobody waits for it.  *)
(***************************************************************************)
EXTENDS Naturals, FiniteSets, Sequences

CONSTANTS
    Requests,      \* the requests, each with an executor of its own
    Tools,         \* the registered tools; each is called with one input
    RefusedTool,   \* a tool the registry, a scope, a role or the input
                   \* validation refuses
    IdempotentTools,
    MaxAttempts,   \* ToolSpec.max_attempts
    MaxCalls,      \* ToolBudget.max_calls
    PoolSize,      \* threads of _TOOL_POOL
    CallBound      \* bound: calls of execute a request makes

ASSUME ToolsAreKnown ==
    RefusedTool \notin Tools /\ IdempotentTools \subseteq Tools
ASSUME AttemptsArePositive == MaxAttempts \in Nat \ {0}
ASSUME BudgetIsPositive == MaxCalls \in Nat \ {0}
ASSUME PoolHasThreads == PoolSize \in Nat \ {0}
ASSUME CallBoundIsNatural == CallBound \in Nat

VARIABLES
    phase,         \* where each request's thread is inside execute
    results,       \* the ToolResults each request got, in order; "raised"
                   \* stands for the exception that ended its last call
    attempt,       \* the attempt its current call makes
    calling,       \* the tool of its current call
    used,          \* ToolBudget._call_count
    cache,         \* _idempotency_cache: per request and tool, the result
    queue,         \* the pool's work queue, of attempts
    future         \* the state of every attempt's future

toolVars == <<phase, results, attempt, calling, used, cache, queue, future>>

\* The n-th call of a request and its k-th attempt have a future.
Attempts == Requests \X (1 .. CallBound) \X (1 .. MaxAttempts)

\* What a handler does with its input: "permanent" is an exception that is
\* not transient, or an output that fails its model or is too large.
Outcome == {"ok", "transient", "permanent"}
FutureState == {"none", "queued", "running", "cancelled"} \cup Outcome
ErrorType == {"refused", "budget_exceeded", "timeout", "transient_failure",
              "permanent_failure", "raised"}

NoCall == <<>>

\* A definition whose name extends a following one's is that definition with
\* a plausible bug; only the mutation runs use it.
Call(r) == Len(results[r]) + 1
Current(r) == <<r, Call(r), attempt[r]>>

Success(t, answer, cached) ==
    [tool |-> t, status |-> "succeeded", answer |-> answer, cached |-> cached]
Failure(t, type) ==
    [tool |-> t, status |-> type, answer |-> NoCall, cached |-> FALSE]

ToolInit ==
    /\ phase = [r \in Requests |-> "idle"]
    /\ results = [r \in Requests |-> <<>>]
    /\ attempt = [r \in Requests |-> 0]
    /\ calling = [r \in Requests |-> RefusedTool]
    /\ used = [r \in Requests |-> 0]
    /\ cache = [r \in Requests |-> [t \in Tools |-> NoCall]]
    /\ queue = <<>>
    /\ future = [a \in Attempts |-> "none"]

-----------------------------------------------------------------------------
(* The registry and the checks in front of a call.                         *)

MayCall(r) == phase[r] = "idle" /\ Call(r) <= CallBound

\* execute returns: the request reads its result and may call again.
Return(r, result) ==
    /\ results' = [results EXCEPT ![r] = Append(@, result)]
    /\ phase' = [phase EXCEPT ![r] = "idle"]
    /\ attempt' = [attempt EXCEPT ![r] = 0]
    /\ calling' = [calling EXCEPT ![r] = RefusedTool]

\* Unknown name, missing scope, denied role, invalid input: all come before
\* the cache and the budget.
Refuse(r) ==
    /\ MayCall(r)
    /\ Return(r, Failure(RefusedTool, "refused"))
    /\ UNCHANGED <<used, cache, queue, future>>

\* _cache_key: None for a tool that is not idempotent.
Cacheable(t) == t \in IdempotentTools

Cached(r, t) == Cacheable(t) /\ cache[r][t] # NoCall

ReturnCached(r) ==
    /\ MayCall(r)
    /\ \E t \in Tools :
          /\ Cached(r, t)
          /\ Return(r, Success(t, cache[r][t], TRUE))
    /\ UNCHANGED <<used, cache, queue, future>>

\* ToolBudget.consume
WithinBudgetInclusive(n) == n <= MaxCalls

WithinBudget(n) == n < MaxCalls

RefuseOverBudget(r) ==
    /\ MayCall(r)
    /\ ~WithinBudget(used[r])
    /\ \E t \in Tools :
          /\ ~Cached(r, t)
          /\ Return(r, Failure(t, "budget_exceeded"))
    /\ UNCHANGED <<used, cache, queue, future>>

Submit(a) ==
    /\ future' = [future EXCEPT ![a] = "queued"]
    /\ queue' = Append(queue, a)

StartCall(r) ==
    /\ MayCall(r)
    /\ WithinBudget(used[r])
    /\ \E t \in Tools :
          /\ ~Cached(r, t)
          /\ calling' = [calling EXCEPT ![r] = t]
    /\ used' = [used EXCEPT ![r] = @ + 1]
    /\ attempt' = [attempt EXCEPT ![r] = 1]
    /\ phase' = [phase EXCEPT ![r] = "waiting"]
    /\ Submit(<<r, Call(r), 1>>)
    /\ UNCHANGED <<results, cache>>

-----------------------------------------------------------------------------
(* The pool: external threads that run the handlers.                       *)

Busy == {a \in Attempts : future[a] = "running"}

\* A thread takes the oldest attempt, and skips it if it was cancelled.
PoolTakes ==
    /\ queue # <<>>
    /\ Cardinality(Busy) < PoolSize
    /\ future' = IF future[Head(queue)] = "queued"
                 THEN [future EXCEPT ![Head(queue)] = "running"] ELSE future
    /\ queue' = Tail(queue)
    /\ UNCHANGED <<phase, results, attempt, calling, used, cache>>

HandlerEnds ==
    /\ \E a \in Busy, o \in Outcome : future' = [future EXCEPT ![a] = o]
    /\ UNCHANGED <<phase, results, attempt, calling, used, cache, queue>>

-----------------------------------------------------------------------------
(* _execute_attempts                                                       *)

\* _is_transient: timeouts, TransientToolError, lost connections.
Transient(error) == error \in {"timeout", "transient"}

CanRetryForever(r, error) ==
    /\ Transient(error)
    /\ calling[r] \in IdempotentTools

CanRetryAnyTool(r, error) ==
    /\ Transient(error)
    /\ attempt[r] < MaxAttempts

CanRetry(r, error) ==
    /\ Transient(error)
    /\ calling[r] \in IdempotentTools
    /\ attempt[r] < MaxAttempts

\* _error_type
ErrorTypeOf(error) ==
    IF error = "timeout" THEN "timeout"
    ELSE IF Transient(error) THEN "transient_failure" ELSE "permanent_failure"

RetryOrFail(r, error) ==
    IF CanRetry(r, error)
    THEN /\ phase' = [phase EXCEPT ![r] = "backoff"]
         /\ UNCHANGED <<results, attempt, calling>>
    ELSE Return(r, Failure(calling[r], ErrorTypeOf(error)))

\* A success is cached under the call's key before it is returned.
TakeAnswer(r) ==
    /\ phase[r] = "waiting"
    /\ future[Current(r)] = "ok"
    /\ cache' = IF Cacheable(calling[r])
                THEN [cache EXCEPT ![r][calling[r]] = Current(r)]
                ELSE cache
    /\ Return(r, Success(calling[r], Current(r), FALSE))
    /\ UNCHANGED <<used, queue, future>>

TakeError(r) ==
    /\ phase[r] = "waiting"
    /\ future[Current(r)] \in {"transient", "permanent"}
    /\ RetryOrFail(r, future[Current(r)])
    /\ UNCHANGED <<used, cache, queue, future>>

\* tool_succeeded, and the failure of an output that is too large, are
\* recorded inside the try: what that raises is an error of the attempt,
\* although its handler had answered.
LoseAnswer(r) ==
    /\ phase[r] = "waiting"
    /\ future[Current(r)] \in {"ok", "permanent"}
    /\ \E error \in {"transient", "permanent"} : RetryOrFail(r, error)
    /\ UNCHANGED <<used, cache, queue, future>>

\* future.result gives up; until future.cancel runs the pool may still take
\* the attempt, or finish it.
TimeOutWhenTaken(r) ==
    /\ phase[r] = "waiting"
    /\ future[Current(r)] = "running"
    /\ phase' = [phase EXCEPT ![r] = "expired"]
    /\ UNCHANGED <<results, attempt, calling, used, cache, queue, future>>

TimeOut(r) ==
    /\ phase[r] = "waiting"
    /\ future[Current(r)] \in {"queued", "running"}
    /\ phase' = [phase EXCEPT ![r] = "expired"]
    /\ UNCHANGED <<results, attempt, calling, used, cache, queue, future>>

\* future.cancel succeeds only for an attempt no thread has taken; its entry
\* stays in the pool's queue.
Cancelled(a) ==
    /\ future' = IF future[a] = "queued"
                 THEN [future EXCEPT ![a] = "cancelled"] ELSE future
    /\ UNCHANGED queue

GiveUpTakingLateAnswer(r) ==
    /\ phase[r] = "expired"
    /\ Cancelled(Current(r))
    /\ RetryOrFail(r, "timeout")
    /\ cache' = IF future[Current(r)] # "queued" /\ Cacheable(calling[r])
                THEN [cache EXCEPT ![r][calling[r]] = Current(r)]
                ELSE cache
    /\ UNCHANGED used

GiveUp(r) ==
    /\ phase[r] = "expired"
    /\ Cancelled(Current(r))
    /\ RetryOrFail(r, "timeout")
    /\ UNCHANGED <<used, cache>>

NextAttempt(r) ==
    /\ phase[r] = "backoff"
    /\ attempt' = [attempt EXCEPT ![r] = @ + 1]
    /\ phase' = [phase EXCEPT ![r] = "waiting"]
    /\ Submit(<<r, Call(r), attempt'[r]>>)
    /\ UNCHANGED <<results, calling, used, cache>>

\* Recording tool_started raises: the call was counted, no attempt follows.
RaiseAtStart(r) ==
    /\ MayCall(r)
    /\ WithinBudget(used[r])
    /\ \E t \in Tools : ~Cached(r, t) /\ Return(r, Failure(t, "raised"))
    /\ used' = [used EXCEPT ![r] = @ + 1]
    /\ UNCHANGED <<cache, queue, future>>

\* Recording tool_failed or tool_retried raises once an attempt is over, and a
\* late one cancelled.
RaiseAfterAttempt(r) ==
    /\ phase[r] # "idle"
    /\ phase[r] = "waiting" => future[Current(r)] \in Outcome
    /\ Cancelled(Current(r))
    /\ Return(r, Failure(calling[r], "raised"))
    /\ UNCHANGED <<used, cache>>

\* An exception leaves execute and ends the turn.
RaiseStep(r) == RaiseAtStart(r) \/ RaiseAfterAttempt(r)

CallStep(r) ==
    \/ Refuse(r) \/ ReturnCached(r) \/ RefuseOverBudget(r) \/ StartCall(r)

\* What the request's thread does once it is inside a call.
WaitStep(r) ==
    \/ TakeAnswer(r) \/ TakeError(r) \/ LoseAnswer(r)
    \/ TimeOut(r) \/ GiveUp(r) \/ NextAttempt(r)

PoolStep == PoolTakes \/ HandlerEnds

-----------------------------------------------------------------------------
ToolTypeOK ==
    /\ phase \in [Requests -> {"idle", "waiting", "expired", "backoff"}]
    /\ \A r \in Requests :
          /\ Len(results[r]) <= CallBound
          /\ \A i \in DOMAIN results[r] :
                results[r][i].status \in ErrorType \cup {"succeeded"}
    /\ attempt \in [Requests -> 0 .. MaxAttempts]
    /\ calling \in [Requests -> Tools \cup {RefusedTool}]
    /\ used \in [Requests -> 0 .. MaxCalls]
    /\ cache \in [Requests -> [Tools -> Attempts \cup {NoCall}]]
    /\ queue \in Seq(Attempts)
    /\ future \in [Attempts -> FutureState]

\* The calls of a request that reached the pool.
StartedCalls(r) == {n \in 1 .. CallBound : future[<<r, n, 1>>] # "none"}

\* Attempt k of a call was replaced by a later one, or given up.
LastAttempt(a) == \A k \in a[3] + 1 .. MaxAttempts : future[<<a[1], a[2], k>>] = "none"

\* The i-th result of a request carries the answer of its own call or, from
\* the cache, of an earlier one.
Carries(r, i, a) ==
    /\ a[1] = r
    /\ IF results[r][i].cached THEN a[2] < i ELSE a[2] = i
    /\ future[a] = "ok"
    /\ LastAttempt(a)

(***************************************************************************)
(* A timed-out handler goes on in its thread.  Whatever it returns, and    *)
(* whenever it does, a result only ever carries the answer of the last     *)
(* attempt of a call of its own request, and the cache only what a call    *)
(* has returned as its success: no late answer is handed on or kept.       *)
(***************************************************************************)
LateAnswersAreDropped ==
    \A r \in Requests :
        /\ \A i \in DOMAIN results[r] :
              results[r][i].status = "succeeded" =>
                  Carries(r, i, results[r][i].answer)
        /\ \A t \in Tools :
              cache[r][t] # NoCall =>
                  \E i \in DOMAIN results[r] :
                      results[r][i] = Success(t, cache[r][t], FALSE)

(***************************************************************************)
(* Work is not repeated: a tool that is not idempotent runs one handler    *)
(* for one call, timed out or not, even if recording its success raises;   *)
(* and an idempotent one is not called again by a request that has         *)
(* received its success.                                                   *)
(***************************************************************************)
WorkIsNotRepeated ==
    \A r \in Requests :
        /\ calling[r] \in Tools \ IdempotentTools => attempt[r] <= 1
        /\ \A i \in DOMAIN results[r] :
              LET t == results[r][i].tool IN
              /\ t \in Tools \ IdempotentTools =>
                    \A k \in 2 .. MaxAttempts : future[<<r, i, k>>] = "none"
              /\ t \in IdempotentTools =>
                    \A j \in i + 1 .. Len(results[r]) :
                        /\ results[r][i].status = "succeeded"
                        /\ results[r][j].tool = t
                        => results[r][j].cached

(***************************************************************************)
(* The budget counts every call that reaches the pool, once whatever its   *)
(* retries, its results and its exceptions, and stops at max_calls.        *)
(***************************************************************************)
BudgetBoundsCalls ==
    \A r \in Requests :
        /\ Cardinality(StartedCalls(r)) <= used[r]
        /\ used[r] <= MaxCalls
=============================================================================
