------------------------- MODULE ToolRuntime_proof --------------------------
(***************************************************************************)
(* Theorems about ToolRuntime for any number of requests, tools, attempts, *)
(* calls and threads: permits are conserved, the budget bounds the calls   *)
(* that reach the pool, work is not repeated and late answers are dropped. *)
(***************************************************************************)
EXTENDS ToolRuntime, FiniteSetTheorems, TLAPS

Result ==
    [tool : Tools \cup {RefusedTool}, status : ErrorType \cup {"succeeded"},
     answer : Attempts \cup {NoCall}, cached : BOOLEAN]

ToolTypes == ToolTypeOK /\ results \in [Requests -> Seq(Result)]

\* A future exists only for the calls made so far and, of the call under way,
\* for the attempts made so far.
CallsInOrder ==
    \A r \in Requests, n \in 1 .. CallBound, k \in 1 .. MaxAttempts :
        future[<<r, n, k>>] # "none" =>
            \/ n < Call(r)
            \/ n = Call(r) /\ phase[r] # "idle" /\ k <= attempt[r]

\* What holds of a request while its call is under way: only an idempotent
\* tool without a cached result has come to a second attempt.
CallUnderWay ==
    \A r \in Requests :
        IF phase[r] = "idle"
        THEN attempt[r] = 0 /\ calling[r] = RefusedTool
        ELSE /\ Call(r) <= CallBound
             /\ attempt[r] \in 1 .. MaxAttempts
             /\ calling[r] \in Tools
             /\ ~Cached(r, calling[r])
             /\ future[<<r, Call(r), 1>>] # "none"
             /\ attempt[r] > 1 => calling[r] \in IdempotentTools
             /\ phase[r] = "backoff" =>
                    calling[r] \in IdempotentTools /\ attempt[r] < MaxAttempts

\* The success of an idempotent tool is in the cache for good.
SuccessesAreCached ==
    \A r \in Requests : \A i \in DOMAIN results[r] :
        results[r][i].status = "succeeded" =>
            /\ results[r][i].answer \in Attempts
            /\ results[r][i].tool \in IdempotentTools =>
                   cache[r][results[r][i].tool] # NoCall

ToolInv ==
    /\ ToolTypes
    /\ CallsInOrder /\ CallUnderWay /\ SuccessesAreCached
    /\ LateAnswersAreDropped
    /\ WorkIsNotRepeated
    /\ BudgetBoundsCalls

-----------------------------------------------------------------------------
(* The permits of BoundedStreamExecutor.                                   *)

PermitInv == StreamTypeOK /\ PermitsConserved

LEMMA HoldersAreFinite ==
    /\ IsFiniteSet(Holders) /\ Cardinality(Holders) \in Nat
    /\ Capacity \in Nat
<1>1. Holders \in SUBSET Streams
  BY DEF Holders
<1> QED
  BY <1>1, FS_Subset, FS_CardinalityType, StreamsAreFinite, WorkersExist,
     PendingIsNatural DEF Capacity

\* A step that moves no request in or out of the holders and no permit.
LEMMA PermitsUntouched ==
    ASSUME PermitInv, StreamTypeOK', Holders' = Holders, permits' = permits
    PROVE  PermitInv'
  BY DEF PermitInv, PermitsConserved

\* The state of one stream changes: what that does to the holders.
LEMMA BecomeMoves ==
    ASSUME StreamTypeOK, NEW r \in Streams, NEW s \in StreamState, Become(r, s)
    PROVE  /\ stream' \in [Streams -> StreamState]
           /\ Holders' = IF s \in {"acquired", "pending", "running", "done"}
                         THEN Holders \cup {r} ELSE Holders \ {r}
  BY DEF StreamTypeOK, Become, Holders

LEMMA AcquireKeeps ==
    ASSUME PermitInv, NEW r \in Streams, Acquire(r) PROVE PermitInv'
<1>1. /\ Holders' = Holders \cup {r} /\ r \notin Holders
      /\ stream' \in [Streams -> StreamState]
  BY BecomeMoves DEF PermitInv, Acquire, StreamState, Holders
<1>2. Cardinality(Holders') = Cardinality(Holders) + 1
  BY <1>1, HoldersAreFinite, FS_AddElement
<1> QED
  BY <1>1, <1>2, HoldersAreFinite
     DEF PermitInv, StreamTypeOK, PermitsConserved, Acquire

\* A permit is given back by a stream that holds one.
LEMMA ReleaseKeeps ==
    ASSUME PermitInv, NEW r \in Streams, r \in Holders,
           permits' = permits + 1, accepting' = accepting,
           Become(r, "rejected") \/ Become(r, "released")
    PROVE  PermitInv'
<1>1. /\ Holders' = Holders \ {r} /\ stream' \in [Streams -> StreamState]
  BY BecomeMoves DEF PermitInv, StreamState
<1>2. Cardinality(Holders') = Cardinality(Holders) - 1
  BY <1>1, HoldersAreFinite, FS_RemoveElement
<1>3. Cardinality(Holders') \in Nat
  BY <1>1, HoldersAreFinite, FS_RemoveElement, FS_CardinalityType
<1> QED
  BY <1>1, <1>2, <1>3, HoldersAreFinite
     DEF PermitInv, StreamTypeOK, PermitsConserved

LEMMA ShutdownKeeps == PermitInv /\ Shutdown => PermitInv'
<1> SUFFICES ASSUME PermitInv, Shutdown PROVE PermitInv'
  OBVIOUS
<1>1. /\ stream' \in [Streams -> StreamState]
      /\ Holders' = Holders
  BY DEF PermitInv, StreamTypeOK, Shutdown, Holders, StreamState
<1> QED
  BY <1>1, PermitsUntouched DEF Shutdown, PermitInv, StreamTypeOK

LEMMA StreamStepKeeps ==
    ASSUME PermitInv, NEW r \in Streams, StreamStep(r) \/ WorkerEnds(r)
    PROVE  PermitInv'
<1>1. CASE Acquire(r)
  BY <1>1, AcquireKeeps
<1>2. CASE EnqueueRefused(r) \/ ReleaseCapacity(r)
  BY <1>2, ReleaseKeeps DEF EnqueueRefused, ReleaseCapacity, Holders
<1>3. CASE Saturated(r) \/ Enqueue(r) \/ StartWorker(r) \/ WorkerEnds(r)
  <2>1. PICK s \in {"rejected", "pending", "running", "done"} :
            /\ Become(r, s) /\ UNCHANGED <<permits, accepting>>
            /\ s = "rejected" <=> r \notin Holders
    BY <1>3 DEF Saturated, Enqueue, StartWorker, WorkerEnds, Holders
  <2>2. stream' \in [Streams -> StreamState] /\ Holders' = Holders
    BY <2>1, BecomeMoves DEF PermitInv, StreamState
  <2> QED BY <2>1, <2>2, PermitsUntouched DEF PermitInv, StreamTypeOK
<1> QED BY <1>1, <1>2, <1>3 DEF StreamStep

LEMMA PermitInvHolds == Spec => []PermitInv
<1>1. Init => PermitInv
  <2> SUFFICES ASSUME Init PROVE PermitInv
    OBVIOUS
  <2>1. Holders = {}
    BY DEF Init, StreamInit, Holders
  <2> QED
    BY <2>1, HoldersAreFinite, FS_EmptySet
       DEF Init, StreamInit, PermitInv, StreamTypeOK, PermitsConserved,
           StreamState
<1>2. PermitInv /\ [Next]_vars => PermitInv'
  <2> SUFFICES ASSUME PermitInv, [Next]_vars PROVE PermitInv'
    OBVIOUS
  <2>1. CASE UNCHANGED streamVars
    <3>1. Holders' = Holders /\ permits' = permits
      BY <2>1 DEF streamVars, Holders
    <3> QED BY <2>1, <3>1, PermitsUntouched DEF streamVars, PermitInv, StreamTypeOK
  <2>2. ASSUME NEW r \in Requests, StreamStep(r) \/ WorkerEnds(r)
        PROVE  PermitInv'
    BY <2>2, StreamStepKeeps, EveryRequestIsStreamed
  <2>3. CASE UNCHANGED vars
    BY <2>1, <2>3 DEF vars, streamVars
  <2> QED
    BY <2>1, <2>2, <2>3, ShutdownKeeps DEF Next, RequestStep, Finished
<1> QED BY <1>1, <1>2, PTL DEF Spec

\* Whatever order submit, the pool, a shutdown and the done callbacks take,
\* the permits that are free and those that are held add up to the capacity,
\* for any number of streams and workers.
THEOREM PermitsAreConserved == Spec => []PermitsConserved
<1>1. PermitInv => PermitsConserved
  BY DEF PermitInv
<1> QED BY <1>1, PermitInvHolds, PTL

-----------------------------------------------------------------------------
(* Attempts and their futures.                                             *)

LEMMA AttemptTuples ==
    /\ \A r \in Requests, n \in 1 .. CallBound, k \in 1 .. MaxAttempts :
           <<r, n, k>> \in Attempts /\ <<r, n, k>> # NoCall
    /\ \A a \in Attempts :
           /\ a[1] \in Requests /\ a[2] \in 1 .. CallBound
           /\ a[3] \in 1 .. MaxAttempts
           /\ a = <<a[1], a[2], a[3]>>
  BY DEF Attempts, NoCall

\* The number of the next call, and of the one under way.
LEMMA CallNumbers ==
    ASSUME ToolTypes
    PROVE  \A r \in Requests :
               /\ results[r] \in Seq(Result) /\ Len(results[r]) \in Nat
               /\ Call(r) = Len(results[r]) + 1
               /\ DOMAIN results[r] = 1 .. Len(results[r])
  BY DEF ToolTypes, Call

\* A step after which the futures of returned calls read as before.
PastKept ==
    /\ future' \in [Attempts -> FutureState]
    /\ \A a \in Attempts : a[2] < Call(a[1]) =>
           /\ future[a] = "ok" => future'[a] = "ok"
           /\ future[a] = "none" <=> future'[a] = "none"

\* What the pool, a timeout or a cancelled future does to the futures.
FuturesAdvance ==
    /\ future' \in [Attempts -> FutureState]
    /\ \A a \in Attempts :
           /\ future[a] = "ok" => future'[a] = "ok"
           /\ future[a] = "none" <=> future'[a] = "none"

LEMMA AdvanceKeepsPast == FuturesAdvance => PastKept
  BY DEF FuturesAdvance, PastKept

\* What the invariant says of a success, and that it stays so.
LEMMA PastAnswer ==
    ASSUME PastKept, NEW a \in Attempts, a[2] < Call(a[1]),
           future[a] = "ok", LastAttempt(a)
    PROVE  future'[a] = "ok" /\ LastAttempt(a)'
<1>1. ASSUME NEW k \in a[3] + 1 .. MaxAttempts
      PROVE  future'[<<a[1], a[2], k>>] = "none"
  <2>1. PICK r \in Requests, n \in 1 .. CallBound : a[1] = r /\ a[2] = n
    BY AttemptTuples
  <2>2. k \in 1 .. MaxAttempts
    BY AttemptTuples
  <2>3. <<r, n, k>> \in Attempts /\ <<r, n, k>>[1] = r /\ <<r, n, k>>[2] = n
    BY <2>2, AttemptTuples
  <2>4. future[<<r, n, k>>] = "none"
    BY <1>1, <2>1 DEF LastAttempt
  <2>5. n < Call(r)
    BY <2>1
  <2> QED BY <2>1, <2>3, <2>4, <2>5 DEF PastKept
<1> QED BY <1>1 DEF PastKept, LastAttempt

LEMMA SuccessFacts ==
    ASSUME ToolInv, NEW r \in Requests, NEW i \in DOMAIN results[r],
           results[r][i].status = "succeeded", NEW a, a = results[r][i].answer
    PROVE  a \in Attempts /\ Carries(r, i, a) /\ i \in Nat /\ a[2] < Call(a[1])
<1>1. a \in Attempts
  BY DEF ToolInv, SuccessesAreCached
<1>2. Carries(r, i, a)
  BY DEF ToolInv, LateAnswersAreDropped
<1>3. a[1] = r /\ a[2] <= i
  BY <1>1, <1>2, AttemptTuples, CallNumbers DEF Carries, ToolInv
<1>4. i \in Nat /\ i < Call(r) /\ a[2] \in Nat /\ Call(r) \in Nat
  BY <1>1, CallNumbers, AttemptTuples DEF ToolInv
<1> QED BY <1>1, <1>2, <1>3, <1>4

LEMMA AdvanceKeepsLast ==
    ASSUME FuturesAdvance, NEW a \in Attempts, LastAttempt(a)
    PROVE  LastAttempt(a)'
<1>1. PICK r \in Requests, n \in 1 .. CallBound : a[1] = r /\ a[2] = n
  BY AttemptTuples
<1>2. ASSUME NEW k \in a[3] + 1 .. MaxAttempts
      PROVE  future'[<<r, n, k>>] = "none"
  <2>1. k \in 1 .. MaxAttempts
    BY AttemptTuples
  <2>2. <<r, n, k>> \in Attempts
    BY <2>1, AttemptTuples
  <2>3. future[<<r, n, k>>] = "none"
    BY <1>1, <1>2 DEF LastAttempt
  <2> QED BY <2>2, <2>3 DEF FuturesAdvance
<1> QED BY <1>1, <1>2 DEF LastAttempt

\* The calls of a request that reached the pool, before and after a step.
LEMMA StartedStay ==
    ASSUME NEW r \in Requests,
           \A n \in 1 .. CallBound :
               future[<<r, n, 1>>] = "none" <=> future'[<<r, n, 1>>] = "none"
    PROVE  StartedCalls(r)' = StartedCalls(r)
  BY DEF StartedCalls

LEMMA StartedAreFinite ==
    \A r \in Requests :
        IsFiniteSet(StartedCalls(r)) /\ Cardinality(StartedCalls(r)) \in Nat
<1>1. IsFiniteSet(1 .. CallBound)
  BY FS_Interval, CallBoundIsNatural
<1>2. \A r \in Requests : StartedCalls(r) \in SUBSET (1 .. CallBound)
  BY DEF StartedCalls
<1> QED BY <1>1, <1>2, FS_Subset, FS_CardinalityType

-----------------------------------------------------------------------------
(* The three kinds of steps: a request goes on waiting, its call returns,  *)
(* it submits an attempt.                                                  *)

LEMMA WaitingKeeps ==
    ASSUME ToolInv, FuturesAdvance, queue' \in Seq(Attempts),
           UNCHANGED <<results, attempt, calling, used, cache>>,
           \/ UNCHANGED phase
           \/ \E r \in Requests, next \in {"expired", "backoff"} :
                 /\ phase[r] # "idle"
                 /\ phase' = [phase EXCEPT ![r] = next]
                 /\ next = "backoff" =>
                       calling[r] \in IdempotentTools /\ attempt[r] < MaxAttempts
    PROVE  ToolInv'
<1>1. /\ phase' \in [Requests -> {"idle", "waiting", "expired", "backoff"}]
      /\ \A r \in Requests :
             /\ phase'[r] = "idle" <=> phase[r] = "idle"
             /\ phase'[r] = "backoff" =>
                    \/ phase[r] = "backoff"
                    \/ calling[r] \in IdempotentTools /\ attempt[r] < MaxAttempts
  BY DEF ToolInv, ToolTypes, ToolTypeOK
<1>2. ToolTypes'
  BY <1>1 DEF ToolInv, ToolTypes, ToolTypeOK, FuturesAdvance
<1>3. /\ \A r \in Requests : Call(r)' = Call(r) /\ StartedCalls(r)' = StartedCalls(r)
      /\ \A r \in Requests, t \in Tools : Cached(r, t)' = Cached(r, t)
      /\ \A r \in Requests, n \in 1 .. CallBound, k \in 1 .. MaxAttempts :
             future[<<r, n, k>>] = "none" <=> future'[<<r, n, k>>] = "none"
  <2>1. \A r \in Requests, n \in 1 .. CallBound, k \in 1 .. MaxAttempts :
            future[<<r, n, k>>] = "none" <=> future'[<<r, n, k>>] = "none"
    BY AttemptTuples DEF FuturesAdvance
  <2>2. 1 \in 1 .. MaxAttempts
    BY AttemptsArePositive
  <2> QED BY <2>1, <2>2, StartedStay DEF Call, Cached, Cacheable
<1>4. CallsInOrder'
  BY <1>1, <1>3 DEF ToolInv, CallsInOrder
<1>5. CallUnderWay'
  <2> SUFFICES ASSUME NEW r \in Requests
               PROVE  (IF phase[r] = "idle"
                       THEN attempt[r] = 0 /\ calling[r] = RefusedTool
                       ELSE /\ Call(r) <= CallBound
                            /\ attempt[r] \in 1 .. MaxAttempts
                            /\ calling[r] \in Tools
                            /\ ~Cached(r, calling[r])
                            /\ future[<<r, Call(r), 1>>] # "none"
                            /\ attempt[r] > 1 => calling[r] \in IdempotentTools
                            /\ phase[r] = "backoff" =>
                                   /\ calling[r] \in IdempotentTools
                                   /\ attempt[r] < MaxAttempts)'
    BY DEF CallUnderWay
  <2>1. CASE phase[r] = "idle"
    BY <1>1, <2>1 DEF ToolInv, CallUnderWay
  <2>2. CASE phase[r] # "idle"
    <3>1. Call(r) \in 1 .. CallBound /\ 1 \in 1 .. MaxAttempts
      <4>1. Call(r) <= CallBound
        BY <2>2 DEF ToolInv, CallUnderWay
      <4>2. Call(r) \in Nat /\ Call(r) >= 1
        BY CallNumbers DEF ToolInv
      <4> QED BY <4>1, <4>2, AttemptsArePositive, CallBoundIsNatural
    <3>2. future'[<<r, Call(r), 1>>] # "none"
      BY <1>3, <2>2, <3>1 DEF ToolInv, CallUnderWay
    <3> QED BY <1>1, <1>3, <2>2, <3>2 DEF ToolInv, CallUnderWay
  <2> QED BY <2>1, <2>2
<1>6. SuccessesAreCached'
  BY DEF ToolInv, SuccessesAreCached
<1>7. LateAnswersAreDropped'
  <2>1. ASSUME NEW r \in Requests, NEW i \in DOMAIN results[r],
               results[r][i].status = "succeeded",
               NEW a, a = results[r][i].answer
        PROVE  Carries(r, i, a)'
    <3>1. a \in Attempts /\ Carries(r, i, a) /\ a[2] < Call(a[1])
      BY <2>1, SuccessFacts
    <3>2. future'[a] = "ok" /\ LastAttempt(a)'
      BY <3>1, PastAnswer, AdvanceKeepsPast DEF Carries
    <3> QED BY <3>1, <3>2 DEF Carries
  <2>2. \A r \in Requests, t \in Tools :
            cache[r][t] # NoCall =>
                \E i \in DOMAIN results[r] :
                    results[r][i] = Success(t, cache[r][t], FALSE)
    BY DEF ToolInv, LateAnswersAreDropped
  <2> QED BY <2>1, <2>2 DEF LateAnswersAreDropped
<1>8. WorkIsNotRepeated'
  <2> SUFFICES ASSUME NEW r \in Requests, NEW i \in DOMAIN results[r],
                      results[r][i].tool \in Tools \ IdempotentTools,
                      NEW k \in 2 .. MaxAttempts
               PROVE  future'[<<r, i, k>>] = "none"
    BY DEF ToolInv, WorkIsNotRepeated
  <2>1. future[<<r, i, k>>] = "none" /\ k \in 1 .. MaxAttempts
    BY DEF ToolInv, WorkIsNotRepeated
  <2>2. i \in 1 .. CallBound
    BY CallNumbers, CallBoundIsNatural DEF ToolInv, ToolTypes, ToolTypeOK
  <2> QED BY <1>3, <2>1, <2>2
<1>9. BudgetBoundsCalls'
  BY <1>3 DEF ToolInv, BudgetBoundsCalls
<1> QED BY <1>2, <1>4, <1>5, <1>6, <1>7, <1>8, <1>9 DEF ToolInv

\* What Return does to the results.
LEMMA ReturnAppends ==
    ASSUME ToolTypes, NEW r \in Requests, NEW result \in Result,
           Return(r, result)
    PROVE  /\ results' \in [Requests -> Seq(Result)]
           /\ Len(results'[r]) = Len(results[r]) + 1
           /\ DOMAIN results'[r] = 1 .. Call(r)
           /\ \A i \in DOMAIN results[r] : results'[r][i] = results[r][i]
           /\ results'[r][Call(r)] = result
           /\ Call(r)' = Call(r) + 1 /\ Call(r) \in Nat \ {0}
           /\ \A q \in Requests \ {r} :
                  results'[q] = results[q] /\ Call(q)' = Call(q)
<1>1. /\ results[r] \in Seq(Result)
      /\ results'[r] = Append(results[r], result)
      /\ results' \in [Requests -> Seq(Result)]
      /\ \A q \in Requests \ {r} : results'[q] = results[q]
  BY DEF ToolTypes, Return
<1>2. /\ Len(results[r]) \in Nat /\ Call(r) = Len(results[r]) + 1
      /\ DOMAIN results[r] = 1 .. Len(results[r])
  BY <1>1 DEF Call
<1>3. /\ Len(results'[r]) = Len(results[r]) + 1
      /\ DOMAIN results'[r] = 1 .. Len(results'[r])
      /\ \A i \in 1 .. Len(results[r]) : results'[r][i] = results[r][i]
      /\ results'[r][Len(results[r]) + 1] = result
  BY <1>1
<1> QED BY <1>1, <1>2, <1>3 DEF Call

LEMMA ReturnKeeps ==
    ASSUME ToolInv, FuturesAdvance, queue' \in Seq(Attempts),
           NEW r \in Requests, NEW result \in Result, Return(r, result),
           Call(r) <= CallBound,
           \/ used' = used
           \/ used[r] < MaxCalls /\ used' = [used EXCEPT ![r] = @ + 1],
           \/ cache' = cache
           \/ \E t \in Tools, a \in Attempts :
                 /\ cache' = [cache EXCEPT ![r][t] = a]
                 /\ result = Success(t, a, FALSE),
           result.status = "succeeded" =>
               /\ result.answer \in Attempts
               /\ result.answer[1] = r
               /\ IF result.cached THEN result.answer[2] < Call(r)
                                   ELSE result.answer[2] = Call(r)
               /\ future[result.answer] = "ok"
               /\ LastAttempt(result.answer)
               /\ result.tool \in IdempotentTools =>
                      cache'[r][result.tool] # NoCall,
           result.tool \in Tools \ IdempotentTools =>
               \A k \in 2 .. MaxAttempts : future[<<r, Call(r), k>>] = "none",
           result.tool \in IdempotentTools /\ Cached(r, result.tool) =>
               result.cached
    PROVE  ToolInv'
<1>r. /\ results' \in [Requests -> Seq(Result)]
      /\ Len(results'[r]) = Len(results[r]) + 1
      /\ DOMAIN results'[r] = 1 .. Call(r)
      /\ \A i \in DOMAIN results[r] : results'[r][i] = results[r][i]
      /\ results'[r][Call(r)] = result
      /\ Call(r)' = Call(r) + 1 /\ Call(r) \in 1 .. CallBound
      /\ \A q \in Requests \ {r} :
             results'[q] = results[q] /\ Call(q)' = Call(q)
  BY ReturnAppends, CallBoundIsNatural DEF ToolInv
<1>n. /\ Len(results[r]) \in Nat /\ Call(r) = Len(results[r]) + 1
      /\ DOMAIN results[r] = 1 .. Len(results[r])
  BY CallNumbers DEF ToolInv
<1>o. ASSUME NEW q \in Requests, NEW i \in DOMAIN results'[q],
             ~(q = r /\ i = Call(r))
      PROVE  i \in DOMAIN results[q] /\ results'[q][i] = results[q][i]
  <2>1. CASE q # r
    BY <1>r, <2>1
  <2>2. CASE q = r
    <3>1. i \in 1 .. Call(r) /\ i # Call(r)
      BY <1>o, <1>r, <2>2
    <3>2. i \in DOMAIN results[r]
      BY <1>n, <3>1
    <3> QED BY <1>r, <2>2, <3>2
  <2> QED BY <2>1, <2>2
<1>s. /\ phase' = [phase EXCEPT ![r] = "idle"]
      /\ attempt' = [attempt EXCEPT ![r] = 0]
      /\ calling' = [calling EXCEPT ![r] = RefusedTool]
  BY DEF Return
<1>c. /\ cache' \in [Requests -> [Tools -> Attempts \cup {NoCall}]]
      /\ \A q \in Requests \ {r} : cache'[q] = cache[q]
      /\ \A t \in Tools : cache[r][t] # NoCall => cache'[r][t] # NoCall
      /\ \A t \in Tools :
             \/ cache'[r][t] = cache[r][t]
             \/ result = Success(t, cache'[r][t], FALSE)
  <2>1. cache \in [Requests -> [Tools -> Attempts \cup {NoCall}]]
    BY DEF ToolInv, ToolTypes, ToolTypeOK
  <2>2. CASE cache' = cache
    BY <2>1, <2>2
  <2>3. ASSUME NEW t \in Tools, NEW a \in Attempts,
               cache' = [cache EXCEPT ![r][t] = a],
               result = Success(t, a, FALSE)
        PROVE  /\ cache' \in [Requests -> [Tools -> Attempts \cup {NoCall}]]
               /\ \A q \in Requests \ {r} : cache'[q] = cache[q]
               /\ \A u \in Tools : cache[r][u] # NoCall => cache'[r][u] # NoCall
               /\ \A u \in Tools :
                      \/ cache'[r][u] = cache[r][u]
                      \/ result = Success(u, cache'[r][u], FALSE)
    <3>1. a # NoCall
      BY AttemptTuples
    <3>2. /\ cache'[r] \in [Tools -> Attempts \cup {NoCall}]
          /\ cache'[r][t] = a
          /\ \A u \in Tools \ {t} : cache'[r][u] = cache[r][u]
          /\ \A q \in Requests \ {r} : cache'[q] = cache[q]
      BY <2>1, <2>3
    <3>3. cache' \in [Requests -> [Tools -> Attempts \cup {NoCall}]]
      BY <2>1, <2>3
    <3> QED BY <2>3, <3>1, <3>2, <3>3
  <2> QED BY <2>2, <2>3
<1>f. /\ \A q \in Requests, n \in 1 .. CallBound, k \in 1 .. MaxAttempts :
             future[<<q, n, k>>] = "none" <=> future'[<<q, n, k>>] = "none"
      /\ \A q \in Requests : StartedCalls(q)' = StartedCalls(q)
      /\ 1 \in 1 .. MaxAttempts
  <2>1. \A q \in Requests, n \in 1 .. CallBound, k \in 1 .. MaxAttempts :
            future[<<q, n, k>>] = "none" <=> future'[<<q, n, k>>] = "none"
    BY AttemptTuples DEF FuturesAdvance
  <2>2. 1 \in 1 .. MaxAttempts
    BY AttemptsArePositive
  <2> QED BY <2>1, <2>2, StartedStay
<1>u. /\ used' \in [Requests -> 0 .. MaxCalls]
      /\ \A q \in Requests : used[q] <= used'[q] /\ used'[q] <= MaxCalls
  <2>1. used \in [Requests -> 0 .. MaxCalls]
    BY DEF ToolInv, ToolTypes, ToolTypeOK
  <2>2. CASE used' = used
    BY <2>1, <2>2, BudgetIsPositive
  <2>3. CASE used[r] < MaxCalls /\ used' = [used EXCEPT ![r] = @ + 1]
    BY <2>1, <2>3, BudgetIsPositive
  <2> QED BY <2>2, <2>3
<1>1. ToolTypes'
  <2>1. \A q \in Requests :
            /\ Len(results'[q]) <= CallBound
            /\ \A i \in DOMAIN results'[q] :
                   results'[q][i].status \in ErrorType \cup {"succeeded"}
    <3> SUFFICES ASSUME NEW q \in Requests
                 PROVE  /\ Len(results'[q]) <= CallBound
                        /\ \A i \in DOMAIN results'[q] : results'[q][i] \in Result
      BY DEF Result
    <3>1. Len(results'[q]) <= CallBound
      BY <1>r, <1>n, CallBoundIsNatural DEF ToolInv, ToolTypes, ToolTypeOK
    <3>2. results'[q] \in Seq(Result)
      BY <1>r
    <3> QED BY <3>1, <3>2
  <2>2. RefusedTool \in Tools \cup {RefusedTool} /\ 0 \in 0 .. MaxAttempts
    BY AttemptsArePositive
  <2> QED
    BY <1>r, <1>s, <1>c, <1>u, <2>1, <2>2
       DEF ToolInv, ToolTypes, ToolTypeOK, FuturesAdvance
<1>2. CallsInOrder'
  <2> SUFFICES ASSUME NEW q \in Requests, NEW n \in 1 .. CallBound,
                      NEW k \in 1 .. MaxAttempts, future'[<<q, n, k>>] # "none"
               PROVE  \/ n < Call(q)'
                      \/ n = Call(q)' /\ phase'[q] # "idle" /\ k <= attempt'[q]
    BY DEF CallsInOrder
  <2>1. \/ n < Call(q)
        \/ n = Call(q) /\ phase[q] # "idle" /\ k <= attempt[q]
    BY <1>f DEF ToolInv, CallsInOrder
  <2>2. CASE q = r
    BY <1>r, <2>1, <2>2
  <2>3. CASE q # r
    BY <1>r, <1>s, <2>1, <2>3 DEF ToolInv, ToolTypes, ToolTypeOK
  <2> QED BY <2>2, <2>3
<1>3. CallUnderWay'
  <2> SUFFICES ASSUME NEW q \in Requests
               PROVE  (IF phase[q] = "idle"
                       THEN attempt[q] = 0 /\ calling[q] = RefusedTool
                       ELSE /\ Call(q) <= CallBound
                            /\ attempt[q] \in 1 .. MaxAttempts
                            /\ calling[q] \in Tools
                            /\ ~Cached(q, calling[q])
                            /\ future[<<q, Call(q), 1>>] # "none"
                            /\ attempt[q] > 1 => calling[q] \in IdempotentTools
                            /\ phase[q] = "backoff" =>
                                   /\ calling[q] \in IdempotentTools
                                   /\ attempt[q] < MaxAttempts)'
    BY DEF CallUnderWay
  <2>1. CASE q = r
    BY <1>s, <2>1 DEF ToolInv, ToolTypes, ToolTypeOK
  <2>2. CASE q # r
    <3>1. /\ phase'[q] = phase[q] /\ attempt'[q] = attempt[q]
          /\ calling'[q] = calling[q] /\ Call(q)' = Call(q)
          /\ Cached(q, calling[q])' = Cached(q, calling'[q])
      BY <1>r, <1>s, <1>c, <2>2
         DEF ToolInv, ToolTypes, ToolTypeOK, Cached, Cacheable
    <3>2. CASE phase[q] = "idle"
      BY <3>1, <3>2 DEF ToolInv, CallUnderWay
    <3>3. CASE phase[q] # "idle"
      <4>1. Call(q) <= CallBound /\ future[<<q, Call(q), 1>>] # "none"
        BY <3>3 DEF ToolInv, CallUnderWay
      <4>2. Call(q) \in 1 .. CallBound
        BY <4>1, CallNumbers, CallBoundIsNatural DEF ToolInv
      <4>3. future'[<<q, Call(q), 1>>] # "none"
        BY <1>f, <4>1, <4>2
      <4> QED BY <3>1, <3>3, <4>1, <4>3 DEF ToolInv, CallUnderWay
    <3> QED BY <3>2, <3>3
  <2> QED BY <2>1, <2>2
<1>4. SuccessesAreCached'
  <2> SUFFICES ASSUME NEW q \in Requests, NEW i \in DOMAIN results'[q],
                      results'[q][i].status = "succeeded"
               PROVE  /\ results'[q][i].answer \in Attempts
                      /\ results'[q][i].tool \in IdempotentTools =>
                             cache'[q][results'[q][i].tool] # NoCall
    BY DEF SuccessesAreCached
  <2>1. CASE q = r /\ i = Call(r)
    BY <1>r, <2>1
  <2>2. CASE q # r
    <3>1. results'[q] = results[q] /\ cache'[q] = cache[q]
      BY <1>r, <1>c, <2>2
    <3> QED BY <3>1 DEF ToolInv, SuccessesAreCached
  <2>3. CASE q = r /\ i # Call(r)
    <3>1. i \in DOMAIN results[r] /\ results'[r][i] = results[r][i]
      BY <1>r, <1>n, <2>3
    <3> QED
      BY <1>c, <2>3, <3>1, ToolsAreKnown DEF ToolInv, SuccessesAreCached
  <2> QED BY <2>1, <2>2, <2>3
<1>5. LateAnswersAreDropped'
  <2>1. ASSUME NEW q \in Requests, NEW i \in DOMAIN results'[q],
               results'[q][i].status = "succeeded",
               NEW a, a = results'[q][i].answer
        PROVE  Carries(q, i, a)'
    <3>1. CASE q = r /\ i = Call(r)
      <4>1. /\ a \in Attempts /\ a[1] = r /\ a[2] <= Call(r)
            /\ IF result.cached THEN a[2] < Call(r) ELSE a[2] = Call(r)
            /\ future[a] = "ok" /\ LastAttempt(a)
        BY <1>r, <2>1, <3>1, AttemptTuples
      <4>2. future'[a] = "ok" /\ LastAttempt(a)'
        BY <4>1, AdvanceKeepsLast DEF FuturesAdvance
      <4>3. results'[q][i].cached = result.cached
        BY <1>r, <3>1
      <4> QED BY <3>1, <4>1, <4>2, <4>3 DEF Carries
    <3>2. CASE ~(q = r /\ i = Call(r))
      <4>1. i \in DOMAIN results[q] /\ results'[q][i] = results[q][i]
        BY <1>o, <3>2
      <4>2. a \in Attempts /\ Carries(q, i, a) /\ a[2] < Call(a[1])
        BY <2>1, <4>1, SuccessFacts
      <4>3. future'[a] = "ok" /\ LastAttempt(a)'
        BY <4>2, PastAnswer, AdvanceKeepsPast DEF Carries
      <4> QED BY <4>1, <4>2, <4>3 DEF Carries
    <3> QED BY <3>1, <3>2
  <2>2. ASSUME NEW q \in Requests, NEW t \in Tools, cache'[q][t] # NoCall
        PROVE  \E i \in DOMAIN results'[q] :
                   results'[q][i] = Success(t, cache'[q][t], FALSE)
    <3>1. CASE cache'[q][t] = cache[q][t]
      <4>1. PICK i \in DOMAIN results[q] :
                results[q][i] = Success(t, cache[q][t], FALSE)
        BY <2>2, <3>1 DEF ToolInv, LateAnswersAreDropped
      <4>2. i \in DOMAIN results'[q] /\ results'[q][i] = results[q][i]
        <5>1. CASE q = r
          <6>1. i \in DOMAIN results[r] /\ i \in 1 .. Call(r)
            BY <1>n, <5>1
          <6> QED BY <1>r, <5>1, <6>1
        <5>2. CASE q # r
          BY <1>r, <5>2
        <5> QED BY <5>1, <5>2
      <4> QED BY <3>1, <4>1, <4>2
    <3>2. CASE q = r /\ result = Success(t, cache'[r][t], FALSE)
      <4>1. Call(r) \in DOMAIN results'[r]
        BY <1>r, <1>n
      <4>2. results'[r][Call(r)] = result
        BY <1>r
      <4> QED BY <3>2, <4>1, <4>2
    <3> QED BY <1>c, <3>1, <3>2
  <2> QED BY <2>1, <2>2 DEF LateAnswersAreDropped
<1>6. WorkIsNotRepeated'
  <2>1. \A q \in Requests :
            calling'[q] \in Tools \ IdempotentTools => attempt'[q] <= 1
    BY <1>s DEF ToolInv, ToolTypes, ToolTypeOK, WorkIsNotRepeated
  <2>2. ASSUME NEW q \in Requests, NEW i \in DOMAIN results'[q],
               results'[q][i].tool \in Tools \ IdempotentTools,
               NEW k \in 2 .. MaxAttempts
        PROVE  future'[<<q, i, k>>] = "none"
    <3>1. i \in 1 .. CallBound /\ k \in 1 .. MaxAttempts
      BY <1>1, CallBoundIsNatural DEF ToolTypes, ToolTypeOK
    <3>2. future[<<q, i, k>>] = "none"
      <4>1. CASE q = r /\ i = Call(r)
        BY <1>r, <2>2, <4>1
      <4>2. CASE ~(q = r /\ i = Call(r))
        <5>1. i \in DOMAIN results[q] /\ results'[q][i] = results[q][i]
          BY <1>o, <4>2
        <5> QED BY <2>2, <5>1 DEF ToolInv, WorkIsNotRepeated
      <4> QED BY <4>1, <4>2
    <3> QED BY <1>f, <3>1, <3>2
  <2>3. ASSUME NEW q \in Requests, NEW i \in DOMAIN results'[q],
               results'[q][i].tool \in IdempotentTools,
               NEW j \in i + 1 .. Len(results'[q]),
               results'[q][i].status = "succeeded",
               results'[q][j].tool = results'[q][i].tool
        PROVE  results'[q][j].cached
    <3>1. CASE q # r
      <4>1. results'[q] = results[q]
        BY <1>r, <3>1
      <4> QED BY <2>3, <4>1 DEF ToolInv, WorkIsNotRepeated
    <3>2. CASE q = r
      <4>1. i \in DOMAIN results[r] /\ results'[r][i] = results[r][i]
        BY <1>r, <1>n, <3>2
      <4>2. CASE j = Call(r)
        <5>1. results[r][i].tool \in Tools /\ Cached(r, results[r][i].tool)
          BY <2>3, <3>2, <4>1, ToolsAreKnown
             DEF ToolInv, SuccessesAreCached, Cached, Cacheable
        <5>2. result.tool = results[r][i].tool
          BY <1>r, <2>3, <3>2, <4>1, <4>2
        <5>3. result.cached
          BY <2>3, <3>2, <4>1, <5>1, <5>2
        <5> QED BY <1>r, <3>2, <4>2, <5>3
      <4>3. CASE j # Call(r)
        <5>1. j \in i + 1 .. Call(r) /\ i \in 1 .. Len(results[r])
          BY <1>r, <1>n, <3>2, <4>1
        <5>2. j \in i + 1 .. Len(results[r]) /\ j \in DOMAIN results'[r]
          <6>1. i \in Nat /\ i >= 1 /\ Call(r) = Len(results[r]) + 1
                /\ Len(results[r]) \in Nat
            BY <1>n, <5>1
          <6>2. j \in i + 1 .. Len(results[r]) /\ j \in 1 .. Call(r)
            BY <4>3, <5>1, <6>1
          <6> QED BY <1>r, <6>2
        <5>3. results'[r][j] = results[r][j]
          BY <1>o, <4>3, <5>2
        <5> QED
          BY <2>3, <3>2, <4>1, <5>2, <5>3 DEF ToolInv, WorkIsNotRepeated
      <4> QED BY <4>2, <4>3
    <3> QED BY <3>1, <3>2
  <2> QED BY <2>1, <2>2, <2>3 DEF WorkIsNotRepeated
<1>7. BudgetBoundsCalls'
  <2> SUFFICES ASSUME NEW q \in Requests
               PROVE  /\ Cardinality(StartedCalls(q)') <= used'[q]
                      /\ used'[q] <= MaxCalls
    BY DEF BudgetBoundsCalls
  <2>1. StartedCalls(q)' = StartedCalls(q) /\ Cardinality(StartedCalls(q)) \in Nat
    BY <1>f, StartedAreFinite
  <2>2. Cardinality(StartedCalls(q)) <= used[q] /\ used[q] \in Nat
    BY BudgetIsPositive DEF ToolInv, ToolTypes, ToolTypeOK, BudgetBoundsCalls
  <2> QED BY <1>u, <2>1, <2>2, BudgetIsPositive
<1> QED BY <1>1, <1>2, <1>3, <1>4, <1>5, <1>6, <1>7 DEF ToolInv

LEMMA SubmitKeeps ==
    ASSUME ToolInv, NEW r \in Requests, NEW k \in 1 .. MaxAttempts,
           NEW t \in Tools, ~Cached(r, t), k > 1 => t \in IdempotentTools,
           Call(r) <= CallBound, Submit(<<r, Call(r), k>>),
           UNCHANGED <<results, cache>>,
           phase' = [phase EXCEPT ![r] = "waiting"],
           attempt' = [attempt EXCEPT ![r] = k],
           calling' = [calling EXCEPT ![r] = t],
           \/ /\ k = 1 /\ phase[r] = "idle"
              /\ used[r] < MaxCalls /\ used' = [used EXCEPT ![r] = @ + 1]
           \/ /\ k = attempt[r] + 1 /\ phase[r] # "idle"
              /\ used' = used
    PROVE  ToolInv'
<1> DEFINE b == <<r, Call(r), k>>
<1>t. /\ ToolTypes /\ Call(r) \in 1 .. CallBound /\ 1 \in 1 .. MaxAttempts
      /\ b \in Attempts
  <2>1. Call(r) \in Nat \ {0} /\ ToolTypes
    BY CallNumbers DEF ToolInv
  <2>2. Call(r) \in 1 .. CallBound
    BY <2>1, CallBoundIsNatural
  <2> QED BY <2>1, <2>2, AttemptTuples, AttemptsArePositive
<1>f. /\ future' \in [Attempts -> FutureState] /\ queue' \in Seq(Attempts)
      /\ \A q \in Requests, n \in 1 .. CallBound, m \in 1 .. MaxAttempts :
             future'[<<q, n, m>>] = IF q = r /\ n = Call(r) /\ m = k
                                    THEN "queued" ELSE future[<<q, n, m>>]
      /\ \A a \in Attempts \ {b} : future'[a] = future[a]
  <2>1. /\ future \in [Attempts -> FutureState] /\ queue \in Seq(Attempts)
        /\ future' = [future EXCEPT ![b] = "queued"] /\ queue' = Append(queue, b)
    BY <1>t DEF ToolTypes, ToolTypeOK, Submit
  <2>2. future' \in [Attempts -> FutureState] /\ queue' \in Seq(Attempts)
    BY <1>t, <2>1 DEF FutureState
  <2>3. \A a \in Attempts : future'[a] = IF a = b THEN "queued" ELSE future[a]
    BY <1>t, <2>1
  <2>4. \A q \in Requests, n \in 1 .. CallBound, m \in 1 .. MaxAttempts :
            /\ <<q, n, m>> \in Attempts
            /\ <<q, n, m>> = b <=> q = r /\ n = Call(r) /\ m = k
    BY AttemptTuples
  <2> QED BY <2>2, <2>3, <2>4
<1>b. future[b] = "none"
  <2>1. ~(Call(r) < Call(r))
    BY <1>t
  <2>2. phase[r] # "idle" => ~(k <= attempt[r])
    BY <1>t DEF ToolTypes, ToolTypeOK
  <2> QED BY <1>t, <2>1, <2>2 DEF ToolInv, CallsInOrder
<1>p. PastKept
  <2>1. \A a \in Attempts : a[2] < Call(a[1]) => a # b
    <3> SUFFICES ASSUME b[2] < Call(b[1]) PROVE FALSE
      OBVIOUS
    <3>1. b[2] = Call(r) /\ b[1] = r
      OBVIOUS
    <3> QED BY <1>t, <3>1
  <2> QED BY <1>f, <2>1 DEF PastKept
<1>c. \A q \in Requests : Call(q)' = Call(q)
      /\ \A u \in Tools : Cached(q, u)' = Cached(q, u)
  BY DEF Call, Cached, Cacheable
<1>1. ToolTypes'
  <2>1. used' \in [Requests -> 0 .. MaxCalls]
    <3>1. used \in [Requests -> 0 .. MaxCalls]
      BY DEF ToolInv, ToolTypes, ToolTypeOK
    <3>2. used[r] < MaxCalls => used[r] + 1 \in 0 .. MaxCalls
      BY <3>1, BudgetIsPositive
    <3> QED BY <3>1, <3>2
  <2>2. /\ phase' \in [Requests -> {"idle", "waiting", "expired", "backoff"}]
        /\ attempt' \in [Requests -> 0 .. MaxAttempts]
        /\ calling' \in [Requests -> Tools \cup {RefusedTool}]
    BY <1>t DEF ToolTypes, ToolTypeOK
  <2> QED BY <1>f, <1>t, <2>1, <2>2 DEF ToolTypes, ToolTypeOK
<1>2. CallsInOrder'
  <2> SUFFICES ASSUME NEW q \in Requests, NEW n \in 1 .. CallBound,
                      NEW m \in 1 .. MaxAttempts, future'[<<q, n, m>>] # "none"
               PROVE  \/ n < Call(q)
                      \/ n = Call(q) /\ phase'[q] # "idle" /\ m <= attempt'[q]
    BY <1>c DEF CallsInOrder
  <2>1. CASE q = r /\ n = Call(r) /\ m = k
    BY <1>t, <2>1 DEF ToolTypes, ToolTypeOK
  <2>2. CASE ~(q = r /\ n = Call(r) /\ m = k)
    <3>1. \/ n < Call(q)
          \/ n = Call(q) /\ phase[q] # "idle" /\ m <= attempt[q]
      BY <1>f, <2>2 DEF ToolInv, CallsInOrder
    <3>2. CASE q = r
      BY <1>t, <3>1, <3>2 DEF ToolTypes, ToolTypeOK
    <3>3. CASE q # r
      BY <1>t, <3>1, <3>3 DEF ToolTypes, ToolTypeOK
    <3> QED BY <3>2, <3>3
  <2> QED BY <2>1, <2>2
<1>3. CallUnderWay'
  <2> SUFFICES ASSUME NEW q \in Requests
               PROVE  (IF phase[q] = "idle"
                       THEN attempt[q] = 0 /\ calling[q] = RefusedTool
                       ELSE /\ Call(q) <= CallBound
                            /\ attempt[q] \in 1 .. MaxAttempts
                            /\ calling[q] \in Tools
                            /\ ~Cached(q, calling[q])
                            /\ future[<<q, Call(q), 1>>] # "none"
                            /\ attempt[q] > 1 => calling[q] \in IdempotentTools
                            /\ phase[q] = "backoff" =>
                                   /\ calling[q] \in IdempotentTools
                                   /\ attempt[q] < MaxAttempts)'
    BY DEF CallUnderWay
  <2>1. CASE q = r
    <3>1. phase'[r] = "waiting" /\ attempt'[r] = k /\ calling'[r] = t
      BY <1>t DEF ToolTypes, ToolTypeOK
    <3>2. future'[<<r, Call(r), 1>>] # "none"
      <4>1. CASE k = 1
        BY <1>t, <1>f, <4>1
      <4>2. CASE k # 1
        <5>1. future[<<r, Call(r), 1>>] # "none"
          BY <4>2 DEF ToolInv, CallUnderWay
        <5> QED BY <1>t, <1>f, <5>1
      <4> QED BY <4>1, <4>2
    <3> QED BY <1>c, <2>1, <3>1, <3>2
  <2>2. CASE q # r
    <3>1. phase'[q] = phase[q] /\ attempt'[q] = attempt[q] /\ calling'[q] = calling[q]
      BY <1>t, <2>2 DEF ToolTypes, ToolTypeOK
    <3>2. CASE phase[q] = "idle"
      BY <3>1, <3>2 DEF ToolInv, CallUnderWay
    <3>3. CASE phase[q] # "idle"
      <4>1. Call(q) <= CallBound /\ future[<<q, Call(q), 1>>] # "none"
        BY <3>3 DEF ToolInv, CallUnderWay
      <4>2. Call(q) \in 1 .. CallBound
        BY <1>t, <4>1, CallNumbers, CallBoundIsNatural
      <4>3. future'[<<q, Call(q), 1>>] # "none"
        BY <1>t, <1>f, <4>1, <4>2, <2>2
      <4> QED BY <1>c, <3>1, <3>3, <4>1, <4>3 DEF ToolInv, CallUnderWay
    <3> QED BY <3>2, <3>3
  <2> QED BY <2>1, <2>2
<1>4. SuccessesAreCached'
  BY DEF ToolInv, SuccessesAreCached
<1>5. LateAnswersAreDropped'
  <2>1. ASSUME NEW q \in Requests, NEW i \in DOMAIN results[q],
               results[q][i].status = "succeeded",
               NEW a, a = results[q][i].answer
        PROVE  Carries(q, i, a)'
    <3>1. a \in Attempts /\ Carries(q, i, a) /\ a[2] < Call(a[1])
      BY <2>1, SuccessFacts
    <3>2. future'[a] = "ok" /\ LastAttempt(a)'
      BY <1>p, <3>1, PastAnswer DEF Carries
    <3> QED BY <3>1, <3>2 DEF Carries
  <2>2. \A q \in Requests, u \in Tools :
            cache[q][u] # NoCall =>
                \E i \in DOMAIN results[q] :
                    results[q][i] = Success(u, cache[q][u], FALSE)
    BY DEF ToolInv, LateAnswersAreDropped
  <2> QED BY <2>1, <2>2 DEF LateAnswersAreDropped
<1>6. WorkIsNotRepeated'
  <2>1. \A q \in Requests :
            calling'[q] \in Tools \ IdempotentTools => attempt'[q] <= 1
    BY DEF ToolInv, ToolTypes, ToolTypeOK, WorkIsNotRepeated
  <2>2. ASSUME NEW q \in Requests, NEW i \in DOMAIN results[q],
               results[q][i].tool \in Tools \ IdempotentTools,
               NEW m \in 2 .. MaxAttempts
        PROVE  future'[<<q, i, m>>] = "none"
    <3>1. /\ i \in 1 .. CallBound /\ m \in 1 .. MaxAttempts /\ i # Call(q)
      <4>1. /\ i \in 1 .. Len(results[q]) /\ Call(q) = Len(results[q]) + 1
            /\ Len(results[q]) \in Nat
        BY <1>t, CallNumbers
      <4>2. Len(results[q]) <= CallBound
        BY <1>t DEF ToolTypes, ToolTypeOK
      <4> QED BY <4>1, <4>2, CallBoundIsNatural
    <3>2. future[<<q, i, m>>] = "none"
      BY <2>2 DEF ToolInv, WorkIsNotRepeated
    <3> QED BY <1>f, <3>1, <3>2
  <2> QED BY <2>1, <2>2 DEF ToolInv, WorkIsNotRepeated
<1>7. BudgetBoundsCalls'
  <2>1. ASSUME NEW q \in Requests, q # r \/ k # 1
        PROVE  used'[q] = used[q] /\ StartedCalls(q)' = StartedCalls(q)
    <3>1. used'[q] = used[q]
      BY <1>t, <2>1 DEF ToolTypes, ToolTypeOK
    <3>2. \A n \in 1 .. CallBound :
              future[<<q, n, 1>>] = "none" <=> future'[<<q, n, 1>>] = "none"
      BY <1>t, <1>f, <2>1
    <3> QED BY <3>1, <3>2, StartedStay
  <2>2. ASSUME k = 1
        PROVE  Cardinality(StartedCalls(r)') <= used'[r] /\ used'[r] <= MaxCalls
    <3>1. phase[r] = "idle" /\ used[r] < MaxCalls /\ used'[r] = used[r] + 1
      BY <1>t, <2>2 DEF ToolTypes, ToolTypeOK, ToolInv, CallUnderWay
    <3>2. StartedCalls(r)' = StartedCalls(r) \cup {Call(r)}
      BY <1>t, <1>f, <2>2 DEF StartedCalls
    <3>3. Call(r) \notin StartedCalls(r)
      BY <1>b, <2>2 DEF StartedCalls
    <3>4. Cardinality(StartedCalls(r)') = Cardinality(StartedCalls(r)) + 1
      BY <3>2, <3>3, StartedAreFinite, FS_AddElement
    <3> QED
      BY <1>t, <3>1, <3>4, StartedAreFinite, BudgetIsPositive
         DEF ToolInv, BudgetBoundsCalls, ToolTypes, ToolTypeOK
  <2> QED BY <2>1, <2>2 DEF ToolInv, BudgetBoundsCalls
<1> QED BY <1>1, <1>2, <1>3, <1>4, <1>5, <1>6, <1>7 DEF ToolInv

-----------------------------------------------------------------------------
(* The actions.                                                            *)

LEMMA Unmoved == ToolTypes /\ future' = future => FuturesAdvance
  BY DEF ToolTypes, ToolTypeOK, FuturesAdvance

\* No attempt of the call to come, or after the one under way, has a future.
LEMMA NoLaterFuture ==
    ASSUME ToolInv, NEW r \in Requests, Call(r) <= CallBound
    PROVE  /\ Call(r) \in 1 .. CallBound
           /\ phase[r] = "idle" =>
                  \A k \in 1 .. MaxAttempts : future[<<r, Call(r), k>>] = "none"
           /\ phase[r] # "idle" =>
                  /\ Current(r) \in Attempts /\ LastAttempt(Current(r))
                  /\ calling[r] \in Tools \ IdempotentTools =>
                         \A k \in 2 .. MaxAttempts :
                             future[<<r, Call(r), k>>] = "none"
<1>1. Call(r) \in 1 .. CallBound /\ attempt[r] \in 0 .. MaxAttempts
  <2>1. Call(r) \in Nat \ {0}
    BY CallNumbers DEF ToolInv
  <2> QED BY <2>1, CallBoundIsNatural DEF ToolInv, ToolTypes, ToolTypeOK
<1>2. \A k \in 1 .. MaxAttempts : future[<<r, Call(r), k>>] # "none" =>
          phase[r] # "idle" /\ k <= attempt[r]
  <2>1. ~(Call(r) < Call(r))
    BY <1>1
  <2> QED BY <1>1, <2>1 DEF ToolInv, CallsInOrder
<1>3. ASSUME phase[r] # "idle"
      PROVE  Current(r) \in Attempts /\ LastAttempt(Current(r))
  <2>1. attempt[r] \in 1 .. MaxAttempts
    BY <1>3 DEF ToolInv, CallUnderWay
  <2>2. /\ Current(r) \in Attempts
        /\ Current(r)[1] = r /\ Current(r)[2] = Call(r)
        /\ Current(r)[3] = attempt[r]
    BY <1>1, <2>1, AttemptTuples DEF Current
  <2>3. \A k \in attempt[r] + 1 .. MaxAttempts :
            k \in 1 .. MaxAttempts /\ ~(k <= attempt[r])
    BY <2>1
  <2>4. \A k \in attempt[r] + 1 .. MaxAttempts : future[<<r, Call(r), k>>] = "none"
    BY <1>2, <2>3
  <2> QED BY <2>2, <2>4 DEF LastAttempt
<1>4. ASSUME calling[r] \in Tools \ IdempotentTools, NEW k \in 2 .. MaxAttempts
      PROVE  future[<<r, Call(r), k>>] = "none"
  <2>1. attempt[r] <= 1
    BY <1>4 DEF ToolInv, WorkIsNotRepeated
  <2>2. k \in 1 .. MaxAttempts /\ ~(k <= attempt[r])
    BY <1>1, <2>1
  <2> QED BY <1>2, <2>2
<1> QED BY <1>1, <1>2, <1>3, <1>4

LEMMA FailureKeeps ==
    ASSUME ToolInv, FuturesAdvance, queue' \in Seq(Attempts), used' = used,
           cache' = cache, NEW r \in Requests, phase[r] # "idle",
           NEW type \in ErrorType, Return(r, Failure(calling[r], type))
    PROVE  ToolInv'
<1>1. /\ Call(r) <= CallBound /\ calling[r] \in Tools /\ ~Cached(r, calling[r])
  BY DEF ToolInv, CallUnderWay
<1>2. /\ Failure(calling[r], type) \in Result
      /\ Failure(calling[r], type).status # "succeeded"
      /\ Failure(calling[r], type).tool = calling[r]
  BY <1>1 DEF Failure, Result, ErrorType
<1> QED BY <1>1, <1>2, NoLaterFuture, ReturnKeeps

LEMMA RetryOrFailKeeps ==
    ASSUME ToolInv, FuturesAdvance, queue' \in Seq(Attempts), used' = used,
           cache' = cache, NEW r \in Requests, phase[r] # "idle",
           NEW error \in {"timeout", "transient", "permanent"},
           RetryOrFail(r, error)
    PROVE  ToolInv'
<1>1. CASE CanRetry(r, error)
  BY <1>1, WaitingKeeps DEF RetryOrFail, CanRetry
<1>2. CASE ~CanRetry(r, error)
  <2>1. ErrorTypeOf(error) \in ErrorType
    BY DEF ErrorTypeOf, ErrorType
  <2> QED BY <1>2, <2>1, FailureKeeps DEF RetryOrFail
<1> QED BY <1>1, <1>2

LEMMA TakeAnswerKeeps ==
    ASSUME ToolInv, NEW r \in Requests, TakeAnswer(r) PROVE ToolInv'
<1> DEFINE a == Current(r)
           result == Success(calling[r], a, FALSE)
<1>1. /\ phase[r] # "idle" /\ future[a] = "ok" /\ Return(r, result)
      /\ UNCHANGED <<used, queue, future>>
      /\ cache' = IF calling[r] \in IdempotentTools
                  THEN [cache EXCEPT ![r][calling[r]] = a] ELSE cache
  BY DEF TakeAnswer, Cacheable
<1>2. /\ Call(r) <= CallBound /\ calling[r] \in Tools /\ ~Cached(r, calling[r])
  BY <1>1 DEF ToolInv, CallUnderWay
<1>3. /\ a \in Attempts /\ LastAttempt(a) /\ a # NoCall
      /\ a[1] = r /\ a[2] = Call(r)
      /\ calling[r] \in Tools \ IdempotentTools =>
             \A k \in 2 .. MaxAttempts : future[<<r, Call(r), k>>] = "none"
  <2>1. a \in Attempts /\ a = <<r, Call(r), attempt[r]>>
    BY <1>1, <1>2, NoLaterFuture DEF Current
  <2> QED BY <1>1, <1>2, <2>1, NoLaterFuture, AttemptTuples
<1>4. /\ result \in Result
      /\ result.status = "succeeded" /\ result.answer = a
      /\ result.tool = calling[r] /\ result.cached = FALSE
  BY <1>2, <1>3 DEF Success, Result
<1>5. FuturesAdvance /\ queue' \in Seq(Attempts)
  BY <1>1, Unmoved DEF ToolInv, ToolTypes, ToolTypeOK
<1>6. calling[r] \in IdempotentTools => cache'[r][calling[r]] # NoCall
  BY <1>1, <1>2, <1>3 DEF ToolInv, ToolTypes, ToolTypeOK
<1>7. \/ cache' = cache
      \/ \E t \in Tools, b \in Attempts :
            /\ cache' = [cache EXCEPT ![r][t] = b]
            /\ result = Success(t, b, FALSE)
  BY <1>1, <1>2, <1>3
<1> HIDE DEF a, result
<1> QED BY <1>1, <1>2, <1>3, <1>4, <1>5, <1>6, <1>7, ReturnKeeps

LEMMA ReturnCachedKeeps ==
    ASSUME ToolInv, NEW r \in Requests, ReturnCached(r) PROVE ToolInv'
<1>1. PICK t \in Tools :
          /\ Cached(r, t) /\ Return(r, Success(t, cache[r][t], TRUE))
  BY DEF ReturnCached
<1> DEFINE a == cache[r][t]
           result == Success(t, a, TRUE)
<1>2. /\ phase[r] = "idle" /\ Call(r) <= CallBound
      /\ UNCHANGED <<used, cache, queue, future>>
  BY DEF ReturnCached, MayCall
<1>3. t \in IdempotentTools /\ a \in Attempts /\ a # NoCall
  BY <1>1 DEF Cached, Cacheable, ToolInv, ToolTypes, ToolTypeOK
<1>4. /\ a[1] = r /\ a[2] < Call(r) /\ future[a] = "ok" /\ LastAttempt(a)
  <2>1. PICK i \in DOMAIN results[r] : results[r][i] = Success(t, a, FALSE)
    BY <1>3 DEF ToolInv, LateAnswersAreDropped
  <2>2. results[r][i].status = "succeeded" /\ results[r][i].answer = a
    BY <2>1 DEF Success
  <2>3. Carries(r, i, a) /\ a[2] < Call(a[1])
    BY <2>2, SuccessFacts
  <2> QED BY <2>3 DEF Carries
<1>5. /\ result \in Result
      /\ result.status = "succeeded" /\ result.answer = a
      /\ result.tool = t /\ result.cached = TRUE
  BY <1>3 DEF Success, Result
<1>6. FuturesAdvance /\ queue' \in Seq(Attempts) /\ cache'[r][t] # NoCall
  BY <1>2, <1>3, Unmoved DEF ToolInv, ToolTypes, ToolTypeOK
<1>7. Return(r, result)
  BY <1>1
<1> HIDE DEF a, result
<1> QED BY <1>2, <1>3, <1>4, <1>5, <1>6, <1>7, ReturnKeeps

LEMMA RefusalKeeps ==
    ASSUME ToolInv, NEW r \in Requests, Refuse(r) \/ RefuseOverBudget(r)
    PROVE  ToolInv'
<1>1. PICK t \in Tools \cup {RefusedTool}, type \in ErrorType :
          /\ Return(r, Failure(t, type))
          /\ t \in Tools => ~Cached(r, t)
  BY ToolsAreKnown DEF Refuse, RefuseOverBudget, ErrorType
<1>2. /\ phase[r] = "idle" /\ Call(r) <= CallBound
      /\ UNCHANGED <<used, cache, queue, future>>
  BY DEF Refuse, RefuseOverBudget, MayCall
<1>3. /\ Failure(t, type) \in Result
      /\ Failure(t, type).status # "succeeded" /\ Failure(t, type).tool = t
  BY DEF Failure, Result, ErrorType
<1>4. FuturesAdvance /\ queue' \in Seq(Attempts)
  BY <1>2, Unmoved DEF ToolInv, ToolTypes, ToolTypeOK
<1>5. \A k \in 2 .. MaxAttempts : future[<<r, Call(r), k>>] = "none"
  BY <1>2, NoLaterFuture
<1>6. t \in IdempotentTools => ~Cached(r, t)
  BY <1>1, ToolsAreKnown
<1> QED BY <1>1, <1>2, <1>3, <1>4, <1>5, <1>6, ReturnKeeps

LEMMA CallStepKeeps ==
    ASSUME ToolInv, NEW r \in Requests, CallStep(r) PROVE ToolInv'
<1>1. CASE StartCall(r)
  <2>1. PICK t \in Tools :
            ~Cached(r, t) /\ calling' = [calling EXCEPT ![r] = t]
    BY <1>1 DEF StartCall
  <2>2. 1 \in 1 .. MaxAttempts /\ ~(1 > 1)
    BY AttemptsArePositive
  <2> QED
    BY <1>1, <2>1, <2>2, SubmitKeeps DEF StartCall, MayCall, WithinBudget
<1> QED
  BY <1>1, RefusalKeeps, ReturnCachedKeeps DEF CallStep

LEMMA WaitStepKeeps ==
    ASSUME ToolInv, NEW r \in Requests, WaitStep(r) PROVE ToolInv'
<1>t. ToolTypes /\ queue \in Seq(Attempts) /\ future \in [Attempts -> FutureState]
  BY DEF ToolInv, ToolTypes, ToolTypeOK
<1>1. CASE TakeError(r)
  <2>1. FuturesAdvance /\ UNCHANGED <<queue, used, cache>> /\ phase[r] # "idle"
    BY <1>1, <1>t, Unmoved DEF TakeError
  <2>2. PICK error \in {"transient", "permanent"} : RetryOrFail(r, error)
    BY <1>1 DEF TakeError
  <2> QED BY <1>t, <2>1, <2>2, RetryOrFailKeeps
<1>5. CASE LoseAnswer(r)
  <2>1. FuturesAdvance /\ UNCHANGED <<queue, used, cache>> /\ phase[r] # "idle"
    BY <1>5, <1>t, Unmoved DEF LoseAnswer
  <2>2. PICK error \in {"transient", "permanent"} : RetryOrFail(r, error)
    BY <1>5 DEF LoseAnswer
  <2> QED BY <1>t, <2>1, <2>2, RetryOrFailKeeps
<1>2. CASE TimeOut(r)
  <2>1. FuturesAdvance
    BY <1>2, <1>t, Unmoved DEF TimeOut
  <2> QED BY <1>2, <1>t, <2>1, WaitingKeeps DEF TimeOut
<1>3. CASE GiveUp(r)
  <2>1. FuturesAdvance
    BY <1>3, <1>t DEF GiveUp, Cancelled, FuturesAdvance, FutureState
  <2> QED BY <1>3, <1>t, <2>1, RetryOrFailKeeps DEF GiveUp, Cancelled
<1>4. CASE NextAttempt(r)
  <2>1. /\ phase[r] = "backoff" /\ Call(r) <= CallBound
        /\ attempt[r] \in 1 .. MaxAttempts /\ attempt[r] < MaxAttempts
        /\ calling[r] \in IdempotentTools /\ calling[r] \in Tools
        /\ ~Cached(r, calling[r])
    BY <1>4 DEF NextAttempt, ToolInv, CallUnderWay
  <2>2. attempt[r] + 1 \in 1 .. MaxAttempts
    BY <2>1, AttemptsArePositive
  <2>3. /\ attempt' = [attempt EXCEPT ![r] = attempt[r] + 1]
        /\ Submit(<<r, Call(r), attempt[r] + 1>>)
        /\ calling' = [calling EXCEPT ![r] = calling[r]]
        /\ phase' = [phase EXCEPT ![r] = "waiting"]
        /\ UNCHANGED <<results, cache, used>>
    BY <1>4, <1>t DEF NextAttempt, ToolTypes, ToolTypeOK
  <2> QED BY <2>1, <2>2, <2>3, SubmitKeeps
<1> QED BY <1>1, <1>2, <1>3, <1>4, <1>5, TakeAnswerKeeps DEF WaitStep

\* execute raises: the call that is left counts at most once.
LEMMA RaiseStepKeeps ==
    ASSUME ToolInv, NEW r \in Requests, RaiseStep(r) PROVE ToolInv'
<1>t. ToolTypes /\ queue \in Seq(Attempts) /\ future \in [Attempts -> FutureState]
  BY DEF ToolInv, ToolTypes, ToolTypeOK
<1>1. CASE RaiseAfterAttempt(r)
  <2>1. FuturesAdvance
    BY <1>1, <1>t DEF RaiseAfterAttempt, Cancelled, FuturesAdvance, FutureState
  <2>2. "raised" \in ErrorType
    BY DEF ErrorType
  <2> QED
    BY <1>1, <1>t, <2>1, <2>2, FailureKeeps DEF RaiseAfterAttempt, Cancelled
<1>2. CASE RaiseAtStart(r)
  <2>1. PICK t \in Tools : ~Cached(r, t) /\ Return(r, Failure(t, "raised"))
    BY <1>2 DEF RaiseAtStart
  <2>2. /\ phase[r] = "idle" /\ Call(r) <= CallBound /\ used[r] < MaxCalls
        /\ used' = [used EXCEPT ![r] = @ + 1]
        /\ UNCHANGED <<cache, queue, future>>
    BY <1>2 DEF RaiseAtStart, MayCall, WithinBudget
  <2>3. /\ Failure(t, "raised") \in Result
        /\ Failure(t, "raised").status # "succeeded"
        /\ Failure(t, "raised").tool = t
    BY DEF Failure, Result, ErrorType
  <2>4. FuturesAdvance /\ queue' \in Seq(Attempts)
    BY <1>t, <2>2, Unmoved
  <2>5. \A k \in 2 .. MaxAttempts : future[<<r, Call(r), k>>] = "none"
    BY <2>2, NoLaterFuture
  <2> QED BY <2>1, <2>2, <2>3, <2>4, <2>5, ReturnKeeps
<1> QED BY <1>1, <1>2 DEF RaiseStep

LEMMA PoolStepKeeps == ToolInv /\ PoolStep => ToolInv'
<1> SUFFICES ASSUME ToolInv, PoolStep PROVE ToolInv'
  OBVIOUS
<1>t. ToolTypes /\ queue \in Seq(Attempts) /\ future \in [Attempts -> FutureState]
  BY DEF ToolInv, ToolTypes, ToolTypeOK
<1>1. CASE PoolTakes
  <2>1. Head(queue) \in Attempts /\ Tail(queue) \in Seq(Attempts)
    BY <1>1, <1>t DEF PoolTakes
  <2>2. FuturesAdvance
    BY <1>1, <1>t, <2>1 DEF PoolTakes, FuturesAdvance, FutureState
  <2> QED BY <1>1, <2>1, <2>2, WaitingKeeps DEF PoolTakes
<1>2. CASE HandlerEnds
  <2>1. FuturesAdvance
    BY <1>2, <1>t DEF HandlerEnds, Busy, FuturesAdvance, FutureState, Outcome
  <2> QED BY <1>2, <1>t, <2>1, WaitingKeeps DEF HandlerEnds
<1> QED BY <1>1, <1>2 DEF PoolStep

LEMMA ToolInvHolds == Spec => []ToolInv
<1>1. Init => ToolInv
  <2> SUFFICES ASSUME Init PROVE ToolInv
    OBVIOUS
  <2>1. /\ ToolInit /\ CallBound \in Nat /\ 0 \in 0 .. MaxAttempts
        /\ 0 \in 0 .. MaxCalls
    BY CallBoundIsNatural, AttemptsArePositive, BudgetIsPositive DEF Init
  <2>2. /\ results \in [Requests -> Seq(Result)]
        /\ \A r \in Requests : Len(results[r]) = 0 /\ DOMAIN results[r] = {}
    BY <2>1 DEF ToolInit
  <2>3. ToolTypes
    <3>1. /\ queue \in Seq(Attempts) /\ future \in [Attempts -> FutureState]
          /\ cache \in [Requests -> [Tools -> Attempts \cup {NoCall}]]
      BY <2>1 DEF ToolInit, FutureState
    <3> QED BY <2>1, <2>2, <3>1 DEF ToolInit, ToolTypes, ToolTypeOK
  <2>4. \A a \in Attempts : future[a] = "none"
    BY <2>1 DEF ToolInit
  <2>5. CallsInOrder
    BY <2>4, AttemptTuples DEF CallsInOrder
  <2>6. CallUnderWay /\ SuccessesAreCached
    BY <2>1, <2>2 DEF ToolInit, CallUnderWay, SuccessesAreCached
  <2>7. LateAnswersAreDropped /\ WorkIsNotRepeated
    BY <2>1, <2>2, ToolsAreKnown
       DEF ToolInit, LateAnswersAreDropped, WorkIsNotRepeated
  <2>8. BudgetBoundsCalls
    <3>1. \A r \in Requests : StartedCalls(r) = {}
      BY <2>4, AttemptTuples, AttemptsArePositive DEF StartedCalls
    <3>2. \A r \in Requests : used[r] = 0 /\ Cardinality(StartedCalls(r)) = 0
      BY <2>1, <3>1, FS_EmptySet DEF ToolInit
    <3> QED BY <3>2, BudgetIsPositive DEF BudgetBoundsCalls
  <2> QED BY <2>3, <2>5, <2>6, <2>7, <2>8 DEF ToolInv
<1>2. ToolInv /\ [Next]_vars => ToolInv'
  <2> SUFFICES ASSUME ToolInv, [Next]_vars PROVE ToolInv'
    OBVIOUS
  <2>1. CASE UNCHANGED toolVars
    <3>1. FuturesAdvance /\ queue' \in Seq(Attempts)
      BY <2>1, Unmoved DEF toolVars, ToolInv, ToolTypes, ToolTypeOK
    <3> QED BY <2>1, <3>1, WaitingKeeps DEF toolVars
  <2>2. CASE UNCHANGED vars
    BY <2>1, <2>2 DEF vars, toolVars
  <2>3. ASSUME NEW r \in Requests, RequestStep(r) PROVE ToolInv'
    BY <2>1, <2>3, CallStepKeeps, WaitStepKeeps, RaiseStepKeeps DEF RequestStep
  <2> QED
    BY <2>1, <2>2, <2>3, PoolStepKeeps DEF Next, Finished
<1> QED BY <1>1, <1>2, PTL DEF Spec

-----------------------------------------------------------------------------
(* The theorems.                                                           *)

\* Every variable of the two pools keeps its type, and the semaphore its range.
THEOREM ToolRuntimeTypeCorrect == Spec => []TypeOK
<1>1. PermitInv /\ ToolInv => TypeOK
  BY DEF PermitInv, ToolInv, ToolTypes, TypeOK
<1> QED BY <1>1, PermitInvHolds, ToolInvHolds, PTL

\* What a handler returns after its call has timed out reaches no result and
\* no cache (_execute_attempts), for any number of requests and attempts.
THEOREM LateAnswersDropped == Spec => []LateAnswersAreDropped
<1>1. ToolInv => LateAnswersAreDropped
  BY DEF ToolInv
<1> QED BY <1>1, ToolInvHolds, PTL

\* A tool that is not idempotent runs one handler for one call, and no request
\* runs an idempotent tool again whose success it has received (execute).
THEOREM WorkDoneOnce == Spec => []WorkIsNotRepeated
<1>1. ToolInv => WorkIsNotRepeated
  BY DEF ToolInv
<1> QED BY <1>1, ToolInvHolds, PTL

\* A request's count is at least that of its calls that reach the pool, and
\* at most max_calls (ToolBudget.consume), for every bound.
THEOREM CallsWithinBudget == Spec => []BudgetBoundsCalls
<1>1. ToolInv => BudgetBoundsCalls
  BY DEF ToolInv
<1> QED BY <1>1, ToolInvHolds, PTL
=============================================================================
