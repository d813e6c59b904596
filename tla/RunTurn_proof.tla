--------------------------- MODULE RunTurn_proof ---------------------------
(***************************************************************************)
(* Theorems about RunTurn for every limit, whatever the planners propose    *)
(* and the tools return.                                                    *)
(***************************************************************************)
EXTENDS RunTurn, SequenceIds_proof

BeforeLoop == {"profile", "scope", "scope_note", "branch", "followup", "plan",
               "asked", "planned", "draft"}
Points == BeforeLoop \cup {"decide", "execute", "report", "evidence", "generate",
                           "generated", "done"}
CallPoints == {"profile", "scope", "scope_note", "followup", "execute"}

\* A plan that can be carried out.
Runnable(p) ==
    /\ p = Plan(p.route, p.tools, p.queries, p.sql)
    /\ p.route \in RouteType
    /\ IsSeq(p.tools) /\ IsSeq(p.queries)

TurnTypes ==
    /\ pc \in Points
    /\ outcome \in {"none", "answered", "failed", "cancelled"}
    /\ outcome = "none" <=> pc # "done"
    /\ years \in BOOLEAN /\ grounded \in BOOLEAN /\ calling \in BOOLEAN
    /\ pc \in {"planned", "draft"} => Runnable(plan)
    /\ pc \in BeforeLoop \ {"planned", "draft"} => plan = NoPlan
    /\ plan.route \in RouteType \cup {"investigation"}

\* Between its actions the loop has an observation for each.
LoopInv ==
    /\ IsSeq(taken) /\ IsSeq(observations)
    /\ plannerAttempts \in Nat /\ sqlApprovals \in Nat
    /\ WithinLimits
    /\ pc \in BeforeLoop => taken = <<>>
    /\ pc = "execute" =>
           Len(taken) = Len(observations) + 1 /\ Len(observations) < MaxSteps
    /\ pc \notin {"execute", "done"} => Len(taken) = Len(observations)

Result(v) ==
    v = [id |-> v.id, tool |-> v.tool, input |-> v.input, status |-> v.status,
         data |-> v.data]

\* An invocation is told by its id; the row of a call that is not answered from
\* the cache is new; what a result names as its origin is there.
EvidenceInv ==
    /\ IsSeq(toolRows) /\ IsSeq(invocations)
    /\ results \in [Tools -> Nat]
    /\ calling => pc \in CallPoints
    /\ \A v \in Range(invocations) :
           /\ Result(v) /\ v.id \in 1 .. Len(toolRows)
           /\ v.status = "succeeded" => v.data \in DataOf(v.tool)
    /\ \A u, v \in Range(invocations) : u.id = v.id => u = v
    /\ calling /\ CachedIn(Requested) = {} =>
           /\ toolRows # <<>>
           /\ \A v \in Range(invocations) : v.id < Len(toolRows)
    /\ \A t \in Tools : results[t] # 0 => Succeeds(results[t], t)
    /\ pc \notin {"profile", "done"} => results[Profile] # 0

\* What is shown so far, and what was found confident, has its evidence.
AnswerInv ==
    /\ IsSeq(components)
    /\ \A k \in DOMAIN components :
           Succeeds(components[k].from, components[k].chart)
    /\ grounded => /\ pc \in {"generate", "generated", "done"}
                   /\ plan.route = "retrieval" => Confident
    /\ AnswersRestOnEvidence

PeriodsCover ==
    \E u \in Range(invocations) : u.tool = Periods /\ u.data = "covers"

\* The preflight is the first action, and no other follows it unless the
\* periods cover the years.
YearsInv ==
    /\ pc \in BeforeLoop =>
           /\ ~years
           /\ \A v \in Range(invocations) : v.tool \in {Profile, Properties}
    /\ years =>
           /\ plan.route # "investigation"
           /\ wanted # <<>> /\ wanted[1] = Preflight
           /\ taken # <<>> => taken[1] = Preflight
           /\ Len(taken) > 1 => PeriodsCover
           /\ pc \in {"decide", "execute"} /\ Len(observations) = 1
                 /\ observations[1].data # "misses" => PeriodsCover
    /\ YearsAreChecked

\* The citations that are written are rows of the run, each once; a run
\* completes only after all of them were stored.
StoreInv ==
    /\ row = state
    /\ row \in {"running", "verifying", "completed", "failed", "waiting_for_approval"}
    /\ faults \in Nat
    /\ IsSeq(citations) /\ IsSeq(toStore)
    /\ IsInjective(citations)
    /\ Range(citations) \subseteq DOMAIN toolRows
    /\ Range(toStore) \subseteq {Artifact} \cup Range(citations)
    /\ row = "running" => toStore = <<>> /\ citations = <<>>
    /\ row = "verifying" => Range(citations) \subseteq stored \cup Range(toStore)
    /\ row # "running" => pc = "done"
    /\ CitationsAreStored

CoreInv == TurnTypes /\ LoopInv /\ EvidenceInv /\ AnswerInv /\ YearsInv

TurnInv == CoreInv /\ StoreInv

-----------------------------------------------------------------------------
(* Tool calls.                                                             *)

\* Whatever an invocation supports it supports for good.
LEMMA SucceedsStays ==
    ASSUME Range(invocations) \subseteq Range(invocations'), NEW i, NEW tool,
           Succeeds(i, tool)
    PROVE  Succeeds(i, tool)'
BY DEF Succeeds

\* A step that receives nothing.
LEMMA NothingReceived ==
    ASSUME EvidenceInv,
           calling' = FALSE, UNCHANGED <<invocations, results>>,
           IsSeq(toolRows'), Len(toolRows') = Len(toolRows),
           pc' \notin {"profile", "done"} => pc \notin {"profile", "done"}
    PROVE  EvidenceInv'
<1>1. (\A t \in Tools : results[t] # 0 => Succeeds(results[t], t))'
  BY DEF EvidenceInv, Succeeds
<1>2. \A v \in Range(invocations') :
          Result(v) /\ v.id \in 1 .. Len(toolRows')
          /\ (v.status = "succeeded" => v.data \in DataOf(v.tool))
  BY DEF EvidenceInv
<1>3. \A u, v \in Range(invocations') : u.id = v.id => u = v
  BY DEF EvidenceInv
<1>4. IsSeq(invocations') /\ results' \in [Tools -> Nat]
  BY DEF EvidenceInv
<1>5. pc' \notin {"profile", "done"} => results'[Profile] # 0
  BY DEF EvidenceInv
<1> QED BY <1>1, <1>2, <1>3, <1>4, <1>5 DEF EvidenceInv

\* The result of a call: that of a new row, or one received before.
NewResult(v) ==
    /\ CachedIn(Requested) = {} /\ v.id = Len(toolRows)
    /\ Result(v)
    /\ v.status = "succeeded" => v.data \in DataOf(v.tool)

LEMMA ResultReceived ==
    ASSUME EvidenceInv, calling, NEW v, NewResult(v) \/ v \in Range(invocations),
           calling' = FALSE, invocations' = Append(invocations, v),
           IsSeq(toolRows'), Len(toolRows') = Len(toolRows),
           results' \in [Tools -> Nat],
           \A t \in Tools : results'[t] # results[t] =>
               results'[t] = v.id /\ v.tool = t /\ v.status = "succeeded",
           pc' \notin {"profile", "done"} => results'[Profile] # 0
    PROVE  EvidenceInv' /\ Range(invocations') = Range(invocations) \cup {v}
<1>1. IsSeq(invocations') /\ Range(invocations') = Range(invocations) \cup {v}
  BY AppendSeq DEF EvidenceInv
<1>2. Len(toolRows) \in Nat /\ (toolRows # <<>> => Len(toolRows) > 0)
  BY SeqFacts DEF EvidenceInv
<1>3. Result(v) /\ v.id \in 1 .. Len(toolRows)
      /\ (v.status = "succeeded" => v.data \in DataOf(v.tool))
  BY <1>2 DEF EvidenceInv, NewResult
<1>4. \A u \in Range(invocations) : u.id = v.id => u = v
  BY <1>2 DEF EvidenceInv, NewResult
<1>5. \A u, w \in Range(invocations') : u.id = w.id => u = w
  BY <1>1, <1>4 DEF EvidenceInv
<1>6. \A u \in Range(invocations') :
          Result(u) /\ u.id \in 1 .. Len(toolRows')
          /\ (u.status = "succeeded" => u.data \in DataOf(u.tool))
  BY <1>1, <1>3 DEF EvidenceInv
<1>7. ASSUME NEW t \in Tools, results'[t] # 0
      PROVE  Succeeds(results[t], t)'
  <2>1. CASE results'[t] = results[t]
    <3>1. Succeeds(results[t], t)
      BY <1>7, <2>1 DEF EvidenceInv
    <3> QED BY <1>1, <2>1, <3>1 DEF Succeeds
  <2>2. CASE results'[t] # results[t]
    BY <1>1, <2>2 DEF Succeeds
  <2> QED BY <2>1, <2>2
<1> QED BY <1>1, <1>5, <1>6, <1>7 DEF EvidenceInv

\* What Succeeded receives.
Received(v) ==
    /\ NewResult(v) \/ v \in Range(invocations)
    /\ v.tool = Requested[1] /\ v.status = "succeeded"
    /\ v.data \in DataOf(v.tool)
    /\ calling /\ calling' = FALSE
    /\ invocations' = Append(invocations, v)
    /\ IsSeq(toolRows') /\ Len(toolRows') = Len(toolRows)

LEMMA SucceededReceives ==
    ASSUME EvidenceInv, NEW i, NEW d, Succeeded(i, d)
    PROVE  \E v : Received(v) /\ v.id = i /\ v.data = d
<1> DEFINE v == [id |-> i, tool |-> Requested[1], input |-> Requested[2],
                 status |-> "succeeded", data |-> d]
<1>1. /\ calling /\ calling' = FALSE /\ invocations' = Append(invocations, v)
      /\ Result(v) /\ v.id = i /\ v.data = d /\ v.tool = Requested[1]
      /\ v.status = "succeeded"
  BY DEF Succeeded, Receive, Result
<1>2. CASE /\ Running /\ i = Len(toolRows) /\ d \in DataOf(Requested[1])
           /\ toolRows' = FinishedRow("succeeded")
  <2>1. IsSeq(toolRows') /\ Len(toolRows') = Len(toolRows)
    BY <1>2, ReplaceSeq DEF EvidenceInv, FinishedRow
  <2>2. NewResult(v)
    BY <1>1, <1>2 DEF Running, NewResult
  <2>3. Received(v) /\ v.id = i /\ v.data = d
    <3> HIDE DEF v
    <3> QED BY <1>1, <1>2, <2>1, <2>2 DEF Received
  <2> QED BY <2>3
<1>3. CASE \E u \in CachedIn(Requested) : i = u.id /\ d = u.data /\ toolRows' = toolRows
  <2>1. PICK u \in CachedIn(Requested) : i = u.id /\ d = u.data /\ toolRows' = toolRows
    BY <1>3
  <2>2. /\ u \in Range(invocations) /\ u.status = "succeeded"
        /\ <<u.tool, u.input>> = Requested
    BY <2>1 DEF CachedIn
  <2>3. u.tool = Requested[1] /\ u.input = Requested[2]
    <3> DEFINE q == Requested
    <3>1. <<u.tool, u.input>> = q
      BY <2>2
    <3> HIDE DEF q
    <3>2. u.tool = q[1] /\ u.input = q[2]
      BY <3>1
    <3> QED BY <3>2 DEF q
  <2>4. Result(u) /\ u.data \in DataOf(u.tool)
    BY <2>2 DEF EvidenceInv
  <2>5. u = v
    BY <2>1, <2>2, <2>3, <2>4 DEF Result
  <2>6. IsSeq(toolRows')
    BY <2>1 DEF EvidenceInv
  <2>7. Received(v) /\ v.id = i /\ v.data = d
    <3> HIDE DEF v
    <3> QED BY <1>1, <2>1, <2>2, <2>4, <2>5, <2>6 DEF Received
  <2> QED BY <2>7
<1> QED BY <1>2, <1>3 DEF Succeeded, Receive

\* What a failed call receives.
LEMMA FailureReceived ==
    ASSUME EvidenceInv, CallFails
    PROVE  EvidenceInv'
<1> DEFINE v == [id |-> Len(toolRows), tool |-> Requested[1],
                 input |-> Requested[2], status |-> "failed", data |-> "none"]
<1>1. /\ calling /\ calling' = FALSE /\ invocations' = Append(invocations, v)
      /\ CachedIn(Requested) = {}
      /\ toolRows' = FinishedRow("failed") \/ toolRows' = toolRows
      /\ results' = results /\ pc' = "done"
  BY DEF CallFails, Receive, Running, Raises, Ends
<1>2. NewResult(v)
  BY <1>1 DEF NewResult, Result
<1>3. IsSeq(toolRows') /\ Len(toolRows') = Len(toolRows)
  <2>1. CASE toolRows' = FinishedRow("failed")
    BY <2>1, ReplaceSeq DEF EvidenceInv, FinishedRow
  <2>2. CASE toolRows' = toolRows
    BY <2>2 DEF EvidenceInv
  <2> QED BY <1>1, <2>1, <2>2
<1>4. results' \in [Tools -> Nat]
  BY <1>1 DEF EvidenceInv
<1> HIDE DEF v
<1> QED BY <1>1, <1>2, <1>3, <1>4, ResultReceived

\* A call starts: a row of its own, unless the cache has the answer.
LEMMA StartCallKeeps ==
    ASSUME EvidenceInv, TurnTypes, StartCall
    PROVE  EvidenceInv' /\ IsSeq(toolRows') /\ Len(toolRows') >= Len(toolRows)
<1>1. /\ Requested # <<>> /\ calling' = TRUE
      /\ UNCHANGED <<pc, invocations, results, plan, taken>>
      /\ IF CachedIn(Requested) # {} THEN toolRows' = toolRows
         ELSE \E s : toolRows' = Append(toolRows, s)
  BY DEF StartCall, loopVars
<1>2. Requested' = Requested /\ CachedIn(Requested)' = CachedIn(Requested)
  BY <1>1 DEF Requested, CachedIn
<1>3. pc \in CallPoints
  BY <1>1 DEF Requested, CallPoints
<1>4. /\ Len(toolRows) \in Nat
      /\ IsSeq(toolRows')
      /\ Len(toolRows') >= Len(toolRows)
      /\ CachedIn(Requested) = {} =>
             Len(toolRows') = Len(toolRows) + 1 /\ toolRows' # <<>>
  <2>1. CASE CachedIn(Requested) # {}
    BY <1>1, <2>1, SeqFacts DEF EvidenceInv
  <2>2. CASE CachedIn(Requested) = {}
    <3>1. PICK s : toolRows' = Append(toolRows, s)
      BY <1>1, <2>2
    <3>2. IsSeq(toolRows') /\ Len(toolRows') = Len(toolRows) + 1
      BY <3>1, AppendSeq DEF EvidenceInv
    <3> QED BY <3>2, SeqFacts DEF EvidenceInv
  <2> QED BY <2>1, <2>2
<1>5. \A v \in Range(invocations') :
          Result(v) /\ v.id \in 1 .. Len(toolRows')
          /\ (v.status = "succeeded" => v.data \in DataOf(v.tool))
          /\ (CachedIn(Requested)' = {} => v.id < Len(toolRows'))
  BY <1>1, <1>2, <1>4, SeqFacts DEF EvidenceInv
<1>6. (\A t \in Tools : results[t] # 0 => Succeeds(results[t], t))'
  BY <1>1 DEF EvidenceInv, Succeeds
<1>7. \A u, v \in Range(invocations') : u.id = v.id => u = v
  BY <1>1 DEF EvidenceInv
<1>8. CachedIn(Requested)' = {} => toolRows' # <<>>
  BY <1>2, <1>4
<1>9. IsSeq(invocations') /\ results' \in [Tools -> Nat]
      /\ pc' \in CallPoints /\ (pc' \notin {"profile", "done"} => results'[Profile] # 0)
  BY <1>1, <1>3 DEF EvidenceInv
<1> QED BY <1>4, <1>5, <1>6, <1>7, <1>8, <1>9 DEF EvidenceInv

-----------------------------------------------------------------------------
(* What steps that do their part elsewhere leave as it was.                *)

LEMMA ShownStays ==
    ASSUME AnswerInv, Range(invocations) \subseteq Range(invocations'),
           components' = components
    PROVE  /\ IsSeq(components')
           /\ (\A k \in DOMAIN components :
                  Succeeds(components[k].from, components[k].chart))'
BY DEF AnswerInv, Succeeds

LEMMA SameConfidence ==
    ASSUME invocations' = invocations
    PROVE  Confident' = Confident
BY DEF Confident, SearchIds, DataIn, Invocation

\* A step that gives no answer.
LEMMA NotAnswered ==
    ASSUME AnswerInv, Range(invocations) \subseteq Range(invocations'),
           components' = components, outcome' # "answered",
           grounded' => /\ grounded /\ UNCHANGED <<invocations, plan>>
                        /\ pc' \in {"generate", "generated", "done"}
    PROVE  AnswerInv'
<1>1. grounded' => (plan'.route = "retrieval" => Confident')
  BY SameConfidence DEF AnswerInv
<1> QED BY <1>1, ShownStays DEF AnswerInv, AnswersRestOnEvidence

\* An answer without a chart and a source.
LEMMA PlainAnswer ==
    ASSUME AnswerInv, EvidenceInv',
           Range(invocations) \subseteq Range(invocations'),
           components' = components, ~grounded',
           reply'.components = <<>>, reply'.sources = {},
           \A t \in reply'.results : t \in Tools /\ results'[t] # 0
    PROVE  AnswerInv'
<1>1. (\A t \in reply.results : Succeeds(results[t], t))'
  BY DEF EvidenceInv
<1>2. DOMAIN reply'.components = {}
  BY NothingIsSeq
<1> QED BY <1>1, <1>2, ShownStays DEF AnswerInv, AnswersRestOnEvidence

LEMMA LoopStays ==
    ASSUME LoopInv,
           UNCHANGED <<taken, observations, plannerAttempts, sqlApprovals>>,
           pc' \in BeforeLoop => pc \in BeforeLoop,
           pc' = "execute" => pc = "execute",
           pc' \notin {"execute", "done"} => pc \notin {"execute", "done"}
    PROVE  LoopInv'
BY DEF LoopInv, WithinLimits

\* An action that fails leaves an observation and ends the turn.
LEMMA FailureObserved ==
    ASSUME LoopInv, pc = "execute", ObserveFailure, pc' = "done"
    PROVE  LoopInv'
<1>1. /\ IsSeq(observations') /\ Len(observations') = Len(observations) + 1
      /\ UNCHANGED <<taken, plannerAttempts, sqlApprovals>>
  BY AppendSeq DEF LoopInv, ObserveFailure, Observe
<1>2. Len(observations) \in Nat
  BY SeqFacts DEF LoopInv
<1> QED BY <1>1, <1>2, LimitsAreLegal DEF LoopInv, WithinLimits, BeforeLoop

LEMMA YearsStay ==
    ASSUME YearsInv,
           UNCHANGED <<years, wanted, taken, observations, invocations>>,
           years => plan'.route # "investigation",
           pc' \in BeforeLoop => pc \in BeforeLoop,
           pc' \in {"decide", "execute"} => pc \in {"decide", "execute"} \/ ~years
    PROVE  YearsInv'
<1>1. PeriodsCover' = PeriodsCover
  BY DEF PeriodsCover
<1> QED BY <1>1 DEF YearsInv, YearsAreChecked

\* A call that the loop does not make.
LEMMA YearsNotAsked ==
    ASSUME YearsInv, ~years, ~years',
           pc' \in BeforeLoop => \A v \in Range(invocations') :
                                    v.tool \in {Profile, Properties}
    PROVE  YearsInv'
BY DEF YearsInv, YearsAreChecked

\* A step that receives nothing and does not answer.
Quiet ==
    /\ ~calling /\ UNCHANGED <<calling, toolRows, invocations, results>>
    /\ pc \notin {"profile", "done"}

LEMMA QuietEvidence == EvidenceInv /\ Quiet => EvidenceInv'
<1> SUFFICES ASSUME EvidenceInv, Quiet PROVE EvidenceInv'
  OBVIOUS
<1>1. calling' = FALSE /\ IsSeq(toolRows') /\ Len(toolRows') = Len(toolRows)
  BY DEF Quiet, EvidenceInv
<1> QED BY <1>1, NothingReceived DEF Quiet

LEMMA NotAtACall ==
    ASSUME EvidenceInv, TurnTypes, pc \notin CallPoints
    PROVE  ~calling
BY DEF EvidenceInv

\* An exception ends the turn.
LEMMA Raised ==
    ASSUME CoreInv, pc # "done", Raises("failed") \/ Raises("cancelled"),
           UNCHANGED <<taken, observations, plannerAttempts, sqlApprovals>>,
           UNCHANGED invocations, calling' \in BOOLEAN
    PROVE  TurnTypes' /\ LoopInv' /\ AnswerInv' /\ YearsInv'
<1>1. /\ pc' = "done" /\ outcome' \in {"failed", "cancelled"}
      /\ UNCHANGED <<llm, topic, plan, wanted, years, grounded, results,
                     components, cancelled>>
  BY DEF Raises, Ends
<1>2. LoopInv'
  BY <1>1, LoopStays DEF CoreInv, BeforeLoop
<1>3. AnswerInv'
  BY <1>1, NotAnswered DEF CoreInv
<1>4. YearsInv'
  BY <1>1, YearsStay DEF CoreInv, YearsInv, BeforeLoop
<1>5. pc' \in Points /\ pc' \notin BeforeLoop
  BY <1>1 DEF Points, BeforeLoop
<1> QED BY <1>1, <1>2, <1>3, <1>4, <1>5 DEF CoreInv, TurnTypes

-----------------------------------------------------------------------------
(* Plans.                                                                  *)

LEMMA WithoutRepeatsKeeps ==
    ASSUME NEW s, IsSeq(s)
    PROVE  /\ IsSeq(WithoutRepeats(s)) /\ IsInjective(WithoutRepeats(s))
           /\ Range(WithoutRepeats(s)) \subseteq Range(s)
<1> DEFINE P == {i \in DOMAIN s : \A j \in 1 .. i - 1 : s[j] # s[i]}
           t == MembersAt(s, P)
<1>1. s \in Seq(Range(s)) /\ P \in SUBSET DOMAIN s /\ DOMAIN s = 1 .. Len(s)
      /\ Len(s) \in Nat
  BY SeqFacts DEF IsSeq
<1>2. /\ t \in Seq(Range(s))
      /\ \A n \in DOMAIN t : InOrder(P)[n] \in P /\ t[n] = s[InOrder(P)[n]]
      /\ \A m, n \in DOMAIN t : m < n => InOrder(P)[m] < InOrder(P)[n]
  <2> HIDE DEF P
  <2> QED BY <1>1, MembersAtPlaces
<1>3. \A i, j \in P : i < j => s[i] # s[j]
  BY <1>1
<1> HIDE DEF P
<1>4. DOMAIN t \subseteq Nat
  <2>1. DOMAIN t = 1 .. Len(t)
    BY <1>2
  <2> QED BY <2>1
<1>5. ASSUME NEW m \in DOMAIN t, NEW n \in DOMAIN t, m < n PROVE t[m] # t[n]
  BY <1>2, <1>3, <1>5
<1>6. \A m, n \in DOMAIN t : t[m] = t[n] => m = n
  BY <1>4, <1>5
<1>7. IsSeq(t)
  BY <1>2, SeqOverItsRange
<1>8. \A n \in DOMAIN t : t[n] \in Range(s)
  BY <1>2
<1>9. WithoutRepeats(s) = t
  BY DEF WithoutRepeats, P
<1> HIDE DEF t
<1>10. Range(t) \subseteq Range(s) /\ IsInjective(t)
  BY <1>6, <1>8 DEF IsInjective, Range
<1> QED BY <1>7, <1>9, <1>10

LEMMA CleanToolsIsSeq == ASSUME NEW s, IsSeq(s) PROVE IsSeq(CleanTools(s))
<1> DEFINE P == {i \in DOMAIN s : s[i].name \in StructuredTools}
           known == MembersAt(s, P)
           n == Len(known)
           clean == [i \in DOMAIN known |-> CleanCall(known[i])]
<1>1. n \in Nat /\ DOMAIN known = 1 .. n
  <2>1. P \in SUBSET DOMAIN s
    OBVIOUS
  <2> HIDE DEF P
  <2> QED BY <2>1, ChosenIsSeq
<1> HIDE DEF known, n
<1>2. clean = [i \in 1 .. n |-> clean[i]]
  BY <1>1
<1> HIDE DEF clean
<1>3. IsSeq(clean)
  BY <1>1, <1>2, FunctionIsSeq
<1>4. IsSeq(WithoutRepeats(clean))
  BY <1>3, WithoutRepeatsKeeps
<1> QED BY <1>4 DEF CleanTools, clean, known

LEMMA CleanQueriesIsSeq == ASSUME NEW s, IsSeq(s) PROVE IsSeq(CleanQueries(s))
<1> DEFINE P == {i \in DOMAIN s : s[i].text # ""}
           written == MembersAt(s, P)
           n == Len(written)
           clean == [i \in DOMAIN written |-> CleanQuery(written[i])]
<1>1. n \in Nat /\ DOMAIN written = 1 .. n
  <2>1. P \in SUBSET DOMAIN s
    OBVIOUS
  <2> HIDE DEF P
  <2> QED BY <2>1, ChosenIsSeq
<1> HIDE DEF written, n
<1>2. clean = [i \in 1 .. n |-> clean[i]]
  BY <1>1
<1> HIDE DEF clean
<1>3. IsSeq(clean)
  BY <1>1, <1>2, FunctionIsSeq
<1>4. IsSeq(WithoutRepeats(clean))
  BY <1>3, WithoutRepeatsKeeps
<1> QED BY <1>4 DEF CleanQueries, clean, written

\* Whatever is proposed, what validate_tool_plan returns can be carried out.
LEMMA ValidatedIsRunnable ==
    ASSUME NEW r \in RouteType, NEW ts, IsSeq(ts), NEW qs, IsSeq(qs), NEW sql
    PROVE  Runnable(Validated(Plan(r, ts, qs, sql)))
<1> DEFINE p == Plan(r, CleanTools(ts), CleanQueries(qs), sql)
<1>1. Validated(Plan(r, ts, qs, sql)) = Routed(p)
  <2>1. \A x : [Plan(r, ts, qs, sql) EXCEPT !.tools = x] = Plan(r, x, qs, sql)
    BY DEF Plan
  <2>2. \A x, y : [Plan(r, x, qs, sql) EXCEPT !.queries = y] = Plan(r, x, y, sql)
    BY DEF Plan
  <2>3. /\ Plan(r, ts, qs, sql).tools = ts
        /\ \A x : Plan(r, x, qs, sql).queries = qs
    BY DEF Plan
  <2>4. [Plan(r, ts, qs, sql) EXCEPT !.tools = CleanTools(@)]
            = Plan(r, CleanTools(ts), qs, sql)
    BY <2>1, <2>3
  <2> QED BY <2>2, <2>3, <2>4 DEF Validated
<1>2. IsSeq(CleanTools(ts)) /\ IsSeq(CleanQueries(qs))
  BY CleanToolsIsSeq, CleanQueriesIsSeq
<1>3. /\ p = Plan(p.route, p.tools, p.queries, p.sql)
      /\ p.route = r /\ p.tools = CleanTools(ts) /\ p.queries = CleanQueries(qs)
  BY DEF Plan
<1> HIDE DEF p
<1>4. \A new \in RouteType : Runnable([p EXCEPT !.route = new])
  BY <1>2, <1>3 DEF Runnable, Plan
<1>5. \A new \in RouteType : \A b : Runnable(Plan(new, <<>>, <<>>, b))
  BY NothingIsSeq DEF Runnable, Plan
<1>6. Runnable(p)
  BY <1>2, <1>3 DEF Runnable
<1>7. Runnable(Routed(p))
  BY <1>4, <1>5, <1>6 DEF Routed, Clarification, RouteType
<1> QED BY <1>1, <1>7

LEMMA EarlyPlansRun ==
    ASSUME NEW t, NEW p \in EarlyPlans(t)
    PROVE  Runnable(p)
<1>1. \A r \in RouteType : \A b : Runnable(Plan(r, <<>>, <<>>, b))
  BY NothingIsSeq DEF Runnable, Plan
<1>2. ASSUME NEW q \in PredefinedPlans PROVE Runnable(Validated(q))
  <2>1. PICK r, ts, qs : /\ q = Plan(r, ts, qs, FALSE) /\ r \in RouteType
                         /\ IsSeq(ts) /\ IsSeq(qs)
    BY <1>2, OneIsSeq, NothingIsSeq DEF PredefinedPlans, RetrievalFor, RouteType
  <2> QED BY <2>1, ValidatedIsRunnable
<1> QED BY <1>1, <1>2 DEF EarlyPlans, Clarification, RouteType

LEMMA PlansRun ==
    ASSUME NEW t
    PROVE  /\ \A p \in PlansWithLlm(t) : Runnable(p)
           /\ \A p \in DeterministicPlans(t) : Runnable(Validated(p))
<1>1. ASSUME NEW p \in Proposals PROVE Runnable(Validated(p))
  <2>1. \A S : \A n \in Nat : \A s \in BoundedSeq(S, n) : IsSeq(s)
    <3> SUFFICES ASSUME NEW S, NEW n \in Nat, NEW s \in BoundedSeq(S, n)
                 PROVE  IsSeq(s)
      OBVIOUS
    <3>1. PICK k \in Nat : s \in [1 .. k -> S]
      BY DEF BoundedSeq, SeqOf
    <3>2. s \in Seq(S)
      BY <3>1, FunctionSeq
    <3> QED BY <3>2, SeqOverItsRange
  <2>2. PICK r, ts, qs, b : /\ r \in RouteType
                            /\ p = Plan(r, ts, qs, b) /\ IsSeq(ts) /\ IsSeq(qs)
    <3>1. CASE p = Plan("sql_approval", <<>>, <<>>, TRUE)
      <4>1. "sql_approval" \in RouteType /\ IsSeq(<<>>)
        BY NothingIsSeq DEF RouteType
      <4> QED BY <3>1, <4>1, Zenon
    <3> DEFINE calls == BoundedSeq(ProposedCalls, MaxCallsProposed)
               queries == BoundedSeq(ProposedQueries, MaxQueriesProposed)
    <3>2. CASE p \in [route : RouteType, sql : {FALSE}, tools : calls,
                      queries : queries]
      <4>1. IsSeq(p.tools) /\ IsSeq(p.queries)
        BY <2>1, <3>2, PlanBoundsArePositive
      <4> HIDE DEF calls, queries
      <4>2. p = Plan(p.route, p.tools, p.queries, FALSE) /\ p.route \in RouteType
        BY <3>2 DEF Plan
      <4> QED BY <4>1, <4>2
    <3> QED BY <1>1, <3>1, <3>2 DEF Proposals
  <2> QED BY <2>2, ValidatedIsRunnable
<1>2. \A p \in PlansWithLlm(t) : Runnable(p)
  BY <1>1, EarlyPlansRun DEF PlansWithLlm
<1>3. ASSUME NEW p, Runnable(p) PROVE Runnable(Validated(p))
  <2>1. /\ p = Plan(p.route, p.tools, p.queries, p.sql)
        /\ p.route \in RouteType /\ IsSeq(p.tools) /\ IsSeq(p.queries)
    BY <1>3 DEF Runnable
  <2> QED BY <2>1, ValidatedIsRunnable
<1>4. \A r \in RouteType : \A b : Runnable(Plan(r, <<>>, <<>>, b))
  BY NothingIsSeq DEF Runnable, Plan
<1>5. \A r \in RouteType : \A x : Runnable(Plan(r, <<x>>, <<>>, FALSE))
                              /\ Runnable(Plan(r, <<>>, <<x>>, FALSE))
  BY NothingIsSeq, OneIsSeq DEF Runnable, Plan
<1>6. ASSUME NEW p \in DeterministicPlans(t) PROVE Runnable(p)
  BY <1>4, <1>5, <1>6, EarlyPlansRun
     DEF DeterministicPlans, RetrievalFor, Clarification, RouteType
<1> QED BY <1>2, <1>3, <1>6

\* The preflight comes first.
LEMMA PreflightIsFirst ==
    ASSUME NEW p, Runnable(p)
    PROVE  ActionsFor(p, TRUE) # <<>> /\ ActionsFor(p, TRUE)[1] = Preflight
<1> DEFINE s == <<Preflight>> \o PlannedActions(p)
           P == {i \in DOMAIN s :
                    /\ s[i].tool # Profile
                    /\ \A j \in 1 .. i - 1 : Signature(s[j]) # Signature(s[i])}
           t == MembersAt(s, P)
<1>1. IsSeq(PlannedActions(p))
  <2>1. IsSeq(StructuredActions(p))
    BY FunctionIsSeq, SeqFacts DEF StructuredActions, Runnable
  <2>2. IsSeq(RetrievalActions(p))
    BY FunctionIsSeq, SeqFacts DEF RetrievalActions, Runnable
  <2> QED BY <2>1, <2>2, JoinSeq, NothingIsSeq DEF PlannedActions
<1>2. IsSeq(s) /\ s[1] = Preflight /\ 1 \in DOMAIN s
  <2>1. IsSeq(<<Preflight>>) /\ Len(<<Preflight>>) = 1 /\ <<Preflight>>[1] = Preflight
    BY OneIsSeq
  <2>2. Len(PlannedActions(p)) \in Nat
    BY <1>1, SeqFacts
  <2>3. IsSeq(s) /\ Len(s) = 1 + Len(PlannedActions(p)) /\ s[1] = Preflight
    BY <1>1, <2>1, JoinSeq
  <2>4. DOMAIN s = 1 .. Len(s)
    BY <2>3, SeqFacts
  <2> QED BY <2>2, <2>3, <2>4
<1>3. ActionsFor(p, TRUE) = t
  BY DEF ActionsFor, Added
<1>4. s \in Seq(Range(s)) /\ DOMAIN s \subseteq Nat \ {0}
  <2>1. s \in Seq(Range(s)) /\ DOMAIN s = 1 .. Len(s) /\ Len(s) \in Nat
    BY <1>2, SeqFacts DEF IsSeq
  <2> QED BY <2>1
<1> HIDE DEF s
<1>5. 1 \in P /\ P \in SUBSET DOMAIN s /\ P \subseteq Nat \ {0}
  BY <1>2, <1>4 DEF Preflight, Action, Profile, Periods
<1> HIDE DEF P
<1>6. /\ t \in Seq(Range(s))
      /\ \A n \in DOMAIN t : InOrder(P)[n] \in P /\ t[n] = s[InOrder(P)[n]]
      /\ \A m, n \in DOMAIN t : m < n => InOrder(P)[m] < InOrder(P)[n]
      /\ \E n \in DOMAIN t : InOrder(P)[n] = 1
  BY <1>4, <1>5, MembersAtPlaces
<1>7. PICK n \in DOMAIN t : InOrder(P)[n] = 1
  BY <1>6
<1>8. DOMAIN t = 1 .. Len(t) /\ Len(t) \in Nat
  BY <1>6
<1>9. n = 1
  <2>1. SUFFICES ASSUME n # 1 PROVE FALSE
    OBVIOUS
  <2>2. 1 \in DOMAIN t /\ 1 < n
    BY <1>8, <2>1
  <2>3. InOrder(P)[1] < 1 /\ InOrder(P)[1] \in P
    BY <1>6, <1>7, <2>2
  <2> QED BY <1>5, <2>3
<1>10. t[1] = Preflight /\ t # <<>>
  BY <1>2, <1>6, <1>7, <1>8, <1>9
<1> QED BY <1>3, <1>10

-----------------------------------------------------------------------------
(* Each step keeps the invariant: the steps between the calls.             *)

\* A step that only moves on.
Moves ==
    /\ UNCHANGED <<calling, years, grounded, toolRows, invocations, results,
                   components, outcome>>
    /\ pc \notin CallPoints \cup {"done"} /\ pc' \in Points \ {"profile", "done"}
    /\ grounded => pc' \in {"generate", "generated"} /\ UNCHANGED plan

LEMMA MovedOn == CoreInv /\ Moves => EvidenceInv' /\ AnswerInv' /\ ~calling
<1> SUFFICES ASSUME CoreInv, Moves PROVE EvidenceInv' /\ AnswerInv' /\ ~calling
  OBVIOUS
<1>1. ~calling
  BY NotAtACall DEF CoreInv, Moves
<1>2. EvidenceInv'
  BY <1>1, QuietEvidence DEF CoreInv, Moves, Quiet, CallPoints
<1>3. outcome' # "answered"
  BY DEF CoreInv, Moves, TurnTypes
<1>4. AnswerInv'
  BY <1>3, NotAnswered DEF CoreInv, Moves
<1> QED BY <1>1, <1>2, <1>4

\* A step that moves on with the plan and the loop as they are.
LEMMA MovedAlong ==
    ASSUME CoreInv, Moves, UNCHANGED <<plan, wanted, taken, observations,
                                       plannerAttempts, sqlApprovals>>,
           pc' \in BeforeLoop \ {"planned", "draft"} =>
               pc \in BeforeLoop \ {"planned", "draft"},
           pc' \in {"planned", "draft"} => pc \in {"planned", "draft"},
           pc' \notin {"decide", "execute"}
    PROVE  CoreInv'
<1>1. EvidenceInv' /\ AnswerInv'
  BY MovedOn
<1>2. LoopInv'
  BY LoopStays DEF CoreInv, Moves, BeforeLoop, CallPoints
<1>3. YearsInv'
  BY YearsStay DEF CoreInv, Moves, BeforeLoop, YearsInv
<1>4. TurnTypes'
  BY DEF CoreInv, Moves, TurnTypes, BeforeLoop, Points
<1> QED BY <1>1, <1>2, <1>3, <1>4 DEF CoreInv

LEMMA Answered ==
    ASSUME CoreInv, pc \notin CallPoints \cup {"done"}, ~grounded,
           UNCHANGED <<calling, toolRows, invocations, results, components, years,
                       grounded, plan, wanted, taken, observations,
                       plannerAttempts, sqlApprovals>>,
           pc' = "done", outcome' = "answered", reply'.components = <<>>,
           reply'.sources = {}, \A t \in reply'.results : t \in Tools /\ results[t] # 0
    PROVE  CoreInv'
<1>1. ~calling
  BY NotAtACall DEF CoreInv
<1>2. EvidenceInv'
  BY <1>1, QuietEvidence DEF CoreInv, Quiet, CallPoints
<1>3. AnswerInv'
  BY <1>2, PlainAnswer DEF CoreInv
<1>4. LoopInv'
  BY LoopStays DEF CoreInv, BeforeLoop
<1>5. YearsInv'
  BY YearsStay DEF CoreInv, YearsInv, BeforeLoop
<1>6. TurnTypes'
  BY DEF CoreInv, TurnTypes, BeforeLoop, Points
<1> QED BY <1>2, <1>3, <1>4, <1>5, <1>6 DEF CoreInv

LEMMA AnswersKeeps ==
    ASSUME CoreInv, pc \notin CallPoints \cup {"done", "generate", "generated"},
           NEW kind, Answers(kind)
    PROVE  CoreInv'
<1>1. ~grounded
  BY DEF CoreInv, AnswerInv
<1>2. /\ UNCHANGED <<calling, toolRows, invocations, results, components, years,
                     grounded, plan, wanted, taken, observations,
                     plannerAttempts, sqlApprovals>>
      /\ pc' = "done" /\ outcome' = "answered"
      /\ reply' = [kind |-> kind, components |-> <<>>, sources |-> {},
                   results |-> {t \in Tools : results'[t] # 0}]
  BY DEF Answers, Replies, Ends, Settled, loopVars
<1>3. reply'.components = <<>> /\ reply'.sources = {}
      /\ \A t \in reply'.results : t \in Tools /\ results[t] # 0
  BY <1>2
<1> QED BY <1>1, <1>2, <1>3, Answered

\* An exception between the calls.
LEMMA RaisedBetweenCalls ==
    ASSUME CoreInv, pc # "done", pc \notin CallPoints, Raises("failed"),
           UNCHANGED <<calling, toolRows, invocations, loopVars>>
    PROVE  CoreInv'
<1>1. TurnTypes' /\ LoopInv' /\ AnswerInv' /\ YearsInv'
  BY Raised DEF loopVars, CoreInv, TurnTypes
<1>2. ~calling /\ UNCHANGED results /\ pc # "profile"
  BY NotAtACall DEF CoreInv, Raises, CallPoints
<1>3. EvidenceInv'
  BY <1>2, QuietEvidence DEF CoreInv, Quiet
<1> QED BY <1>1, <1>3 DEF CoreInv

LEMMA ChooseBranchKeeps == CoreInv /\ ChooseBranch => CoreInv'
<1> SUFFICES ASSUME CoreInv, ChooseBranch PROVE CoreInv'
  OBVIOUS
<1>1. pc = "branch" /\ plan = NoPlan /\ ~years /\ ~grounded
  BY DEF ChooseBranch, CoreInv, TurnTypes, YearsInv, AnswerInv, BeforeLoop
<1>2. CASE /\ plan' = [plan EXCEPT !.route = "investigation"]
           /\ Step("decide") /\ UNCHANGED loopVars
  <2>1. Moves /\ pc' = "decide"
    BY <1>1, <1>2 DEF Step, Moves, CallPoints, Points, BeforeLoop
  <2>2. EvidenceInv' /\ AnswerInv'
    BY <2>1, MovedOn
  <2>3. LoopInv'
    BY <1>1, <1>2, <2>1, LoopStays DEF CoreInv, BeforeLoop, loopVars
  <2>4. YearsInv'
    BY <1>1, <1>2, <2>1, YearsNotAsked DEF CoreInv, Step, BeforeLoop
  <2>5. plan'.route = "investigation"
    BY <1>1, <1>2 DEF NoPlan, Clarification, Plan
  <2>6. TurnTypes'
    BY <1>1, <2>1, <2>5 DEF Moves, CoreInv, TurnTypes, BeforeLoop, Points
  <2> QED BY <2>2, <2>3, <2>4, <2>6 DEF CoreInv
<1>3. CASE (Step("followup") \/ Step("plan")) /\ UNCHANGED <<plan, loopVars>>
  <2>1. Moves /\ pc' \in {"followup", "plan"}
    BY <1>1, <1>3 DEF Step, Moves, CallPoints, Points, BeforeLoop
  <2> QED BY <1>1, <1>3, <2>1, MovedAlong DEF Step, loopVars, BeforeLoop
<1>4. CASE Answers("no_edit_in_place") \/ Answers("location")
  BY <1>1, <1>4, AnswersKeeps DEF CallPoints
<1> QED BY <1>2, <1>3, <1>4 DEF ChooseBranch

\* A call of a planner counts, and stays within the limit.
LEMMA AskPlannerKeeps == CoreInv /\ AskPlanner => CoreInv'
<1> SUFFICES ASSUME CoreInv, AskPlanner PROVE CoreInv'
  OBVIOUS
<1>1. /\ pc = "plan" /\ pc' = "asked" /\ ~grounded
      /\ plannerAttempts' = plannerAttempts + 1
      /\ plannerAttempts < MaxPlannerRetries + 1
      /\ UNCHANGED <<taken, observations, sqlApprovals, plan, wanted>>
  BY DEF AskPlanner, CountAttempt, MayPlan, Step, CoreInv, AnswerInv
<1>2. Moves
  BY <1>1 DEF AskPlanner, Step, Moves, CallPoints, Points, BeforeLoop
<1>3. EvidenceInv' /\ AnswerInv'
  BY <1>2, MovedOn
<1>4. LoopInv'
  BY <1>1, LimitsAreLegal DEF CoreInv, LoopInv, WithinLimits, BeforeLoop
<1>5. YearsInv'
  BY <1>1, <1>2, YearsStay DEF CoreInv, YearsInv, Moves, BeforeLoop
<1>6. TurnTypes'
  BY <1>1, <1>2 DEF CoreInv, TurnTypes, Moves, BeforeLoop, Points
<1> QED BY <1>3, <1>4, <1>5, <1>6 DEF CoreInv

\* There is a plan, whoever made it.
LEMMA PlannedKeeps ==
    ASSUME CoreInv, pc \in {"plan", "asked"}, Planned, UNCHANGED loopVars,
           Runnable(plan')
    PROVE  CoreInv'
<1>1. pc' = "planned" /\ ~grounded /\ UNCHANGED <<wanted, years, invocations>>
  BY DEF Planned, CoreInv, AnswerInv
<1>2. Moves
  BY <1>1 DEF Planned, Moves, CallPoints, Points, BeforeLoop
<1>3. EvidenceInv' /\ AnswerInv'
  BY <1>2, MovedOn
<1>4. LoopInv'
  BY <1>1, LoopStays DEF CoreInv, BeforeLoop, loopVars
<1>5. YearsInv'
  BY <1>1, YearsNotAsked DEF CoreInv, YearsInv, BeforeLoop
<1>6. (pc \in {"planned", "draft"} => Runnable(plan))'
  OBVIOUS
<1>7. plan'.route \in RouteType \cup {"investigation"}
  BY DEF Runnable
<1>8. TurnTypes'
  BY <1>1, <1>2, <1>6, <1>7 DEF CoreInv, TurnTypes, Moves, BeforeLoop, Points
<1> QED BY <1>3, <1>4, <1>5, <1>8 DEF CoreInv

LEMMA PlannerAnswersKeeps == CoreInv /\ PlannerAnswers => CoreInv'
<1> SUFFICES ASSUME CoreInv, PlannerAnswers PROVE CoreInv'
  OBVIOUS
<1>1. pc = "asked" /\ ~grounded /\ UNCHANGED loopVars
  BY DEF PlannerAnswers, CoreInv, AnswerInv
<1>2. CASE Step("plan") /\ UNCHANGED plan
  <2>1. Moves /\ pc' = "plan"
    BY <1>1, <1>2 DEF Step, Moves, CallPoints, Points, BeforeLoop
  <2> QED BY <1>1, <1>2, <2>1, MovedAlong DEF Step, loopVars, BeforeLoop
<1>3. CASE plan' \in PlansWithLlm(topic) /\ Planned
  <2>1. PICK p \in PlansWithLlm(topic) : plan' = p
    BY <1>3
  <2>2. Runnable(p)
    BY PlansRun
  <2> QED BY <1>1, <1>3, <2>1, <2>2, PlannedKeeps
<1> QED BY <1>2, <1>3 DEF PlannerAnswers

LEMMA PlanByRulesKeeps == CoreInv /\ PlanByRules => CoreInv'
<1> SUFFICES ASSUME CoreInv, PlanByRules PROVE CoreInv'
  OBVIOUS
<1>1. PICK p \in DeterministicPlans(topic) : plan' = Validated(p)
  BY DEF PlanByRules
<1>2. Runnable(Validated(p))
  BY PlansRun
<1>3. pc = "plan" /\ Planned /\ UNCHANGED loopVars
  BY DEF PlanByRules
<1>4. Runnable(plan')
  BY <1>1, <1>2
<1> QED BY <1>3, <1>4, PlannedKeeps

LEMMA AskBackKeeps == CoreInv /\ AskBack => CoreInv'
BY AnswersKeeps DEF AskBack, CallPoints

LEMMA RequestSqlApprovalKeeps == CoreInv /\ RequestSqlApproval => CoreInv'
<1> SUFFICES ASSUME CoreInv, RequestSqlApproval PROVE CoreInv'
  OBVIOUS
<1>1. pc = "planned" /\ ~grounded
  BY DEF RequestSqlApproval, CoreInv, AnswerInv
<1>2. CASE CountApproval /\ Step("draft") /\ UNCHANGED plan
  <2>1. /\ pc' = "draft" /\ sqlApprovals' = sqlApprovals + 1
        /\ sqlApprovals < MaxSqlApprovals
        /\ UNCHANGED <<taken, observations, plannerAttempts, plan, wanted>>
    BY <1>2 DEF CountApproval, MayRequestApproval, Step
  <2>2. Moves
    BY <1>1, <1>2, <2>1 DEF Step, Moves, CallPoints, Points, BeforeLoop
  <2>3. EvidenceInv' /\ AnswerInv'
    BY <2>2, MovedOn
  <2>4. LoopInv'
    BY <1>1, <2>1, LimitsAreLegal DEF CoreInv, LoopInv, WithinLimits, BeforeLoop
  <2>5. YearsInv'
    BY <1>1, <2>1, <2>2, YearsStay DEF CoreInv, YearsInv, Moves, BeforeLoop
  <2>6. TurnTypes'
    BY <1>1, <2>1, <2>2 DEF CoreInv, TurnTypes, Moves, BeforeLoop, Points
  <2> QED BY <2>3, <2>4, <2>5, <2>6 DEF CoreInv
<1>3. CASE Raises("failed") /\ UNCHANGED <<calling, toolRows, invocations, loopVars>>
  BY <1>1, <1>3, RaisedBetweenCalls DEF CallPoints
<1> QED BY <1>2, <1>3 DEF RequestSqlApproval

\* The draft that waits for approval is shown without a tool call.
LEMMA DraftSqlKeeps == CoreInv /\ DraftSql => CoreInv'
<1> SUFFICES ASSUME CoreInv, DraftSql PROVE CoreInv'
  OBVIOUS
<1>1. pc = "draft" /\ ~grounded
  BY DEF DraftSql, CoreInv, AnswerInv
<1>2. CASE Answers("sql_unavailable")
  BY <1>1, <1>2, AnswersKeeps DEF CallPoints
<1>3. CASE /\ Ends("answered",
                   [kind |-> "sql_approval",
                    components |-> <<[chart |-> "sql_approval", from |-> 0]>>,
                    sources |-> {}, results |-> {t \in Tools : results[t] # 0}])
           /\ UNCHANGED <<calling, llm, topic, plan, wanted, years, grounded, toolRows,
                          invocations, results, components, cancelled, loopVars>>
  <2>1. /\ pc' = "done" /\ outcome' = "answered"
        /\ reply'.components = <<[chart |-> "sql_approval", from |-> 0]>>
        /\ reply'.sources = {} /\ reply'.results = {t \in Tools : results[t] # 0}
        /\ UNCHANGED <<calling, years, grounded, toolRows, invocations, results,
                       components, plan, wanted, taken, observations,
                       plannerAttempts, sqlApprovals>>
    BY <1>3 DEF Ends, loopVars
  <2>2. ~calling
    BY <1>1, NotAtACall DEF CoreInv, CallPoints
  <2>3. EvidenceInv'
    BY <1>1, <2>1, <2>2, QuietEvidence DEF CoreInv, Quiet
  <2>4. \A k \in DOMAIN reply'.components : reply'.components[k].chart = "sql_approval"
    BY <2>1
  <2>5. (\A t \in reply.results : Succeeds(results[t], t))'
    BY <2>1, <2>3 DEF EvidenceInv
  <2>6. AnswerInv'
    BY <1>1, <2>1, <2>4, <2>5, ShownStays DEF CoreInv, AnswerInv, AnswersRestOnEvidence
  <2>7. LoopInv'
    BY <1>1, <2>1, LoopStays DEF CoreInv, BeforeLoop
  <2>8. YearsInv'
    BY <1>1, <2>1, YearsStay DEF CoreInv, YearsInv, BeforeLoop
  <2>9. TurnTypes'
    BY <1>1, <2>1 DEF CoreInv, TurnTypes, BeforeLoop, Points
  <2> QED BY <2>3, <2>6, <2>7, <2>8, <2>9 DEF CoreInv
<1> QED BY <1>2, <1>3 DEF DraftSql

LEMMA TooLateKeeps == CoreInv /\ TooLate => CoreInv'
BY RaisedBetweenCalls DEF TooLate, CallPoints

-----------------------------------------------------------------------------
(* Each step keeps the invariant: the calls.                               *)

LEMMA ReceivedId ==
    ASSUME EvidenceInv, NEW v, Received(v)
    PROVE  v.id \in Nat \ {0}
<1>1. Len(toolRows) \in Nat /\ (toolRows # <<>> => Len(toolRows) > 0)
  BY SeqFacts DEF EvidenceInv
<1>2. v.id \in 1 .. Len(toolRows)
  BY <1>1 DEF EvidenceInv, Received, NewResult
<1> QED BY <1>1, <1>2

\* What a call of the loop asks for: the preflight, or years are covered.
LEMMA PreflightCalled ==
    ASSUME LoopInv, YearsInv, pc = "execute", years
    PROVE  /\ Len(taken) = 1 => Last(taken) = Preflight /\ Requested[1] = Periods
           /\ Len(taken) # 1 => PeriodsCover
<1>1. Len(taken) \in Nat /\ Len(observations) \in Nat /\ taken # <<>>
  BY SeqFacts DEF LoopInv
<1>2. Len(taken) = 1 => Last(taken) = Preflight
  BY <1>1 DEF YearsInv, Last
<1>3. Last(taken) = Preflight => Requested[1] = Periods
  BY DEF Requested, Preflight, Action, CallPoints
<1>4. Len(taken) # 1 => PeriodsCover
  BY <1>1, SeqFacts DEF LoopInv, YearsInv
<1> QED BY <1>2, <1>3, <1>4

\* A result of a call leaves the years checked.
LEMMA YearsReceived ==
    ASSUME LoopInv, YearsInv, EvidenceInv, calling, NEW v, v.tool = Requested[1],
           Range(invocations') = Range(invocations) \cup {v}, years' = years
    PROVE  YearsAreChecked' /\ (PeriodsCover => PeriodsCover')
<1>1. PeriodsCover => PeriodsCover'
  BY DEF PeriodsCover
<1>2. years => pc = "execute"
  BY DEF EvidenceInv, YearsInv, CallPoints, BeforeLoop
<1>3. ASSUME years, NEW u \in Range(invocations')
      PROVE  u.tool \in {Profile, Properties, Periods} \/ PeriodsCover'
  <2>1. CASE u \in Range(invocations)
    BY <1>1, <1>3, <2>1 DEF YearsInv, YearsAreChecked, PeriodsCover
  <2>2. CASE u = v
    BY <1>1, <1>2, <1>3, <2>2, PreflightCalled
  <2> QED BY <2>1, <2>2
<1> QED BY <1>1, <1>3 DEF YearsAreChecked, PeriodsCover

LEMMA YearsEnd ==
    ASSUME YearsInv, UNCHANGED <<years, wanted, taken, plan>>,
           pc' \notin BeforeLoop \cup {"decide", "execute"},
           PeriodsCover => PeriodsCover', YearsAreChecked'
    PROVE  YearsInv'
BY DEF YearsInv

LEMMA StartCallCore == CoreInv /\ StartCall => CoreInv'
<1> SUFFICES ASSUME CoreInv, StartCall PROVE CoreInv'
  OBVIOUS
<1>1. /\ pc \in CallPoints /\ calling' = TRUE
      /\ UNCHANGED <<pc, plan, wanted, years, grounded, invocations, results,
                     components, outcome, reply, taken, observations,
                     plannerAttempts, sqlApprovals>>
  BY DEF StartCall, Requested, CallPoints, loopVars
<1>2. EvidenceInv'
  BY StartCallKeeps DEF CoreInv
<1>3. outcome' # "answered" /\ ~grounded
  BY <1>1 DEF CoreInv, TurnTypes, AnswerInv, CallPoints
<1>4. AnswerInv'
  BY <1>1, <1>3, NotAnswered DEF CoreInv
<1>5. LoopInv'
  BY <1>1, LoopStays DEF CoreInv
<1>6. YearsInv'
  BY <1>1, YearsStay DEF CoreInv, YearsInv
<1>7. TurnTypes'
  BY <1>1 DEF CoreInv, TurnTypes
<1> QED BY <1>2, <1>4, <1>5, <1>6, <1>7 DEF CoreInv

\* A call that ends the turn with an exception.
LEMMA CallRaised ==
    ASSUME CoreInv, pc \in CallPoints, Raises("failed") \/ Raises("cancelled"),
           IF pc = "execute" THEN ObserveFailure ELSE UNCHANGED loopVars,
           calling' = FALSE, EvidenceInv', YearsAreChecked',
           Range(invocations) \subseteq Range(invocations')
    PROVE  CoreInv'
<1>1. /\ pc' = "done" /\ outcome' \in {"failed", "cancelled"}
      /\ UNCHANGED <<plan, wanted, years, grounded, results, components>>
  BY DEF Raises, Ends
<1>2. ~grounded
  BY DEF CoreInv, AnswerInv, CallPoints
<1>3. AnswerInv'
  BY <1>1, <1>2, NotAnswered DEF CoreInv
<1>4. LoopInv' /\ taken' = taken
  <2>1. CASE pc = "execute"
    BY <1>1, <2>1, FailureObserved DEF CoreInv, ObserveFailure, Observe
  <2>2. CASE pc # "execute"
    BY <1>1, <2>2, LoopStays DEF CoreInv, CallPoints, BeforeLoop, loopVars
  <2> QED BY <2>1, <2>2
<1>5. PeriodsCover => PeriodsCover'
  BY DEF PeriodsCover
<1>6. YearsInv'
  BY <1>1, <1>4, <1>5, YearsEnd DEF CoreInv, BeforeLoop
<1>7. TurnTypes'
  BY <1>1 DEF CoreInv, TurnTypes, BeforeLoop, Points
<1> QED BY <1>3, <1>4, <1>6, <1>7 DEF CoreInv

LEMMA CallFailsKeeps == CoreInv /\ CallFails => CoreInv'
<1> SUFFICES ASSUME CoreInv, CallFails PROVE CoreInv'
  OBVIOUS
<1> DEFINE v == [id |-> Len(toolRows), tool |-> Requested[1],
                 input |-> Requested[2], status |-> "failed", data |-> "none"]
<1>1. /\ calling /\ calling' = FALSE /\ invocations' = Append(invocations, v)
      /\ Raises("failed") /\ v.tool = Requested[1]
      /\ IF pc = "execute" THEN ObserveFailure ELSE UNCHANGED loopVars
  BY DEF CallFails, Receive
<1> HIDE DEF v
<1>2. Range(invocations') = Range(invocations) \cup {v}
  BY <1>1, AppendSeq DEF CoreInv, EvidenceInv
<1>3. pc \in CallPoints /\ years' = years
  BY <1>1 DEF CoreInv, EvidenceInv, Raises
<1>4. YearsAreChecked'
  BY <1>1, <1>2, <1>3, YearsReceived DEF CoreInv
<1>5. EvidenceInv'
  BY FailureReceived DEF CoreInv
<1> QED BY <1>1, <1>2, <1>3, <1>4, <1>5, CallRaised

LEMMA InterruptedKeeps == CoreInv /\ Interrupted => CoreInv'
<1> SUFFICES ASSUME CoreInv, Interrupted PROVE CoreInv'
  OBVIOUS
<1>1. /\ calling' = FALSE /\ invocations' = invocations /\ Raises("cancelled")
      /\ IF pc = "execute" THEN ObserveFailure ELSE UNCHANGED loopVars
      /\ calling \/ Requested # <<>>
      /\ toolRows' = toolRows \/ \E s : toolRows' = FinishedRow(s)
  BY DEF Interrupted
<1>2. pc \in CallPoints
  BY <1>1 DEF CoreInv, EvidenceInv, Requested, CallPoints
<1>3. IsSeq(toolRows') /\ Len(toolRows') = Len(toolRows)
  <2>1. CASE toolRows' = toolRows
    BY <2>1 DEF CoreInv, EvidenceInv
  <2>2. CASE \E s : toolRows' = FinishedRow(s)
    <3>1. PICK s : toolRows' = FinishedRow(s)
      BY <2>2
    <3>2. IsSeq(toolRows)
      BY DEF CoreInv, EvidenceInv
    <3> QED BY <3>1, <3>2, ReplaceSeq DEF FinishedRow
  <2> QED BY <1>1, <2>1, <2>2
<1>4. pc' = "done" /\ results' = results /\ years' = years
  BY <1>1 DEF Raises, Ends
<1>5. EvidenceInv'
  BY <1>1, <1>3, <1>4, NothingReceived DEF CoreInv
<1>6. YearsAreChecked'
  BY <1>1, <1>4 DEF CoreInv, YearsInv, YearsAreChecked
<1> QED BY <1>1, <1>2, <1>5, <1>6, CallRaised

\* A call that the loop does not make returns.
LEMMA ReturnsBeforeLoop ==
    ASSUME CoreInv, pc \in {"profile", "scope", "scope_note", "followup"},
           NEW v, Received(v),
           UNCHANGED <<plan, wanted, years, grounded, components, taken,
                       observations, plannerAttempts, sqlApprovals>>,
           \/ results' = results
           \/ v.tool = Profile /\ results' = [results EXCEPT ![Profile] = v.id],
           pc' \in {"scope", "scope_note", "branch", "done"},
           pc' # "done" => v.tool \in {Profile, Properties} /\ results'[Profile] # 0,
           outcome' \in {"none", "answered", "failed"},
           outcome' = "none" <=> pc' # "done",
           outcome' = "answered" =>
               /\ reply'.components = <<>> /\ reply'.sources = {}
               /\ \A t \in reply'.results : t \in Tools /\ results'[t] # 0
    PROVE  CoreInv'
<1>1. results' \in [Tools -> Nat]
      /\ \A t \in Tools : results'[t] # results[t] =>
             results'[t] = v.id /\ v.tool = t /\ v.status = "succeeded"
  <2>1. v.id \in Nat /\ results \in [Tools -> Nat] /\ v.status = "succeeded"
    BY ReceivedId DEF CoreInv, EvidenceInv, Received
  <2> QED BY <2>1
<1>2. EvidenceInv' /\ Range(invocations') = Range(invocations) \cup {v}
  BY <1>1, ResultReceived DEF CoreInv, Received
<1>3. YearsAreChecked' /\ ~years
  BY <1>2, YearsReceived DEF CoreInv, Received, YearsInv, BeforeLoop
<1>4. YearsInv'
  BY <1>2, <1>3, YearsNotAsked DEF CoreInv, YearsInv, BeforeLoop
<1>5. LoopInv'
  BY LoopStays DEF CoreInv, BeforeLoop
<1>6. AnswerInv'
  <2>1. ~grounded /\ Range(invocations) \subseteq Range(invocations')
    BY <1>2 DEF CoreInv, AnswerInv
  <2>2. CASE outcome' = "answered"
    BY <1>2, <2>1, <2>2, PlainAnswer DEF CoreInv
  <2>3. CASE outcome' # "answered"
    BY <2>1, <2>3, NotAnswered DEF CoreInv
  <2> QED BY <2>2, <2>3
<1>7. TurnTypes'
  BY DEF CoreInv, TurnTypes, Received, BeforeLoop, Points
<1> QED BY <1>2, <1>4, <1>5, <1>6, <1>7 DEF CoreInv

LEMMA ProfileReturnsKeeps == CoreInv /\ ProfileReturns => CoreInv'
<1> SUFFICES ASSUME CoreInv, ProfileReturns PROVE CoreInv'
  OBVIOUS
<1>1. PICK i, d :
          /\ Succeeded(i, d)
          /\ IF late
             THEN Raises("failed")
             ELSE /\ results' = IF d = "found" THEN [results EXCEPT ![Profile] = i]
                                ELSE results
                  /\ IF d = "found" THEN pc' = "scope" /\ UNCHANGED <<outcome, reply>>
                     ELSE Replies("unknown_property")
                  /\ Settled
  BY DEF ProfileReturns
<1>2. pc = "profile" /\ UNCHANGED <<taken, observations, plannerAttempts, sqlApprovals>>
  BY DEF ProfileReturns, loopVars
<1>3. PICK v : Received(v) /\ v.id = i /\ v.data = d
  BY <1>1, SucceededReceives DEF CoreInv
<1>4. v.tool = Profile /\ v.id # 0 /\ outcome = "none"
  BY <1>2, <1>3, ReceivedId DEF CoreInv, TurnTypes, Received, Requested
<1>5. CASE late
  <2>1. /\ pc' = "done" /\ outcome' = "failed"
        /\ UNCHANGED <<plan, wanted, years, grounded, components, results>>
    BY <1>1, <1>5 DEF Raises, Ends
  <2> QED BY <1>2, <1>3, <2>1, ReturnsBeforeLoop
<1>6. CASE ~late /\ d = "found"
  <2>1. /\ pc' = "scope" /\ outcome' = "none"
        /\ results' = [results EXCEPT ![Profile] = v.id]
        /\ UNCHANGED <<plan, wanted, years, grounded, components>>
    BY <1>1, <1>3, <1>4, <1>6 DEF Settled
  <2>2. results'[Profile] # 0
    BY <1>4, <2>1 DEF CoreInv, EvidenceInv, Tools
  <2> QED BY <1>2, <1>3, <1>4, <2>1, <2>2, ReturnsBeforeLoop
<1>7. CASE ~late /\ d # "found"
  <2>1. /\ pc' = "done" /\ outcome' = "answered" /\ results' = results
        /\ reply' = [kind |-> "unknown_property", components |-> <<>>, sources |-> {},
                     results |-> {t \in Tools : results'[t] # 0}]
        /\ UNCHANGED <<plan, wanted, years, grounded, components>>
    BY <1>1, <1>7 DEF Settled, Replies, Ends
  <2>2. /\ reply'.components = <<>> /\ reply'.sources = {}
        /\ \A t \in reply'.results : t \in Tools /\ results'[t] # 0
    BY <2>1
  <2> QED BY <1>2, <1>3, <2>1, <2>2, ReturnsBeforeLoop
<1> QED BY <1>5, <1>6, <1>7

LEMMA ScopeReturnsKeeps == CoreInv /\ ScopeReturns => CoreInv'
<1> SUFFICES ASSUME CoreInv, ScopeReturns PROVE CoreInv'
  OBVIOUS
<1>1. PICK i, d : Succeeded(i, d)
  BY DEF ScopeReturns
<1>2. pc \in {"scope", "scope_note"}
      /\ UNCHANGED <<taken, observations, plannerAttempts, sqlApprovals>>
  BY DEF ScopeReturns, loopVars
<1>3. PICK v : Received(v)
  BY <1>1, SucceededReceives DEF CoreInv
<1>4. v.tool = Properties /\ results[Profile] # 0 /\ outcome = "none"
  BY <1>2, <1>3 DEF CoreInv, EvidenceInv, TurnTypes, Received, Requested
<1>5. CASE Raises("failed")
  <2>1. /\ pc' = "done" /\ outcome' = "failed"
        /\ UNCHANGED <<plan, wanted, years, grounded, components, results>>
    BY <1>5 DEF Raises, Ends
  <2> QED BY <1>2, <1>3, <2>1, ReturnsBeforeLoop
<1>6. CASE UNCHANGED results /\ Replies("scope_conflict") /\ Settled
  <2>1. /\ pc' = "done" /\ outcome' = "answered" /\ results' = results
        /\ reply' = [kind |-> "scope_conflict", components |-> <<>>, sources |-> {},
                     results |-> {t \in Tools : results'[t] # 0}]
        /\ UNCHANGED <<plan, wanted, years, grounded, components>>
    BY <1>6 DEF Settled, Replies, Ends
  <2>2. /\ reply'.components = <<>> /\ reply'.sources = {}
        /\ \A t \in reply'.results : t \in Tools /\ results'[t] # 0
    BY <2>1
  <2> QED BY <1>2, <1>3, <2>1, <2>2, ReturnsBeforeLoop
<1>7. CASE pc' \in {"scope_note", "branch"} /\ UNCHANGED <<outcome, reply, results>> /\ Settled
  BY <1>2, <1>3, <1>4, <1>7, ReturnsBeforeLoop DEF Settled
<1> QED BY <1>5, <1>6, <1>7 DEF ScopeReturns

LEMMA FollowupReturnsKeeps == CoreInv /\ FollowupReturns => CoreInv'
<1> SUFFICES ASSUME CoreInv, FollowupReturns PROVE CoreInv'
  OBVIOUS
<1>1. PICK i, d : Succeeded(i, d)
  BY DEF FollowupReturns
<1>2. pc = "followup" /\ UNCHANGED <<taken, observations, plannerAttempts, sqlApprovals>>
  BY DEF FollowupReturns, loopVars
<1>3. PICK v : Received(v)
  BY <1>1, SucceededReceives DEF CoreInv
<1>4. CASE Raises("failed")
  <2>1. /\ pc' = "done" /\ outcome' = "failed"
        /\ UNCHANGED <<plan, wanted, years, grounded, components, results>>
    BY <1>4 DEF Raises, Ends
  <2> QED BY <1>2, <1>3, <2>1, ReturnsBeforeLoop
<1>5. CASE UNCHANGED results /\ Replies("followup_total") /\ Settled
  <2>1. /\ pc' = "done" /\ outcome' = "answered" /\ results' = results
        /\ reply' = [kind |-> "followup_total", components |-> <<>>, sources |-> {},
                     results |-> {t \in Tools : results'[t] # 0}]
        /\ UNCHANGED <<plan, wanted, years, grounded, components>>
    BY <1>5 DEF Settled, Replies, Ends
  <2>2. /\ reply'.components = <<>> /\ reply'.sources = {}
        /\ \A t \in reply'.results : t \in Tools /\ results'[t] # 0
    BY <2>1
  <2> QED BY <1>2, <1>3, <2>1, <2>2, ReturnsBeforeLoop
<1> QED BY <1>4, <1>5 DEF FollowupReturns

-----------------------------------------------------------------------------
(* Each step keeps the invariant: the loop.                                *)

LEMMA EnterLoopKeeps == CoreInv /\ EnterLoop => CoreInv'
<1> SUFFICES ASSUME CoreInv, EnterLoop PROVE CoreInv'
  OBVIOUS
<1>1. /\ pc = "planned" /\ plan.route \in {"structured", "hybrid", "retrieval"}
      /\ ~grounded /\ ~calling /\ outcome # "answered" /\ Runnable(plan)
      /\ taken = <<>>
  BY NotAtACall DEF EnterLoop, CoreInv, AnswerInv, TurnTypes, LoopInv, CallPoints,
                    BeforeLoop
<1>2. CASE Answers("unsupported_metric")
  BY <1>1, <1>2, AnswersKeeps DEF CallPoints
<1>3. ASSUME NEW asked \in BOOLEAN,
             /\ years' = (asked /\ plan.route # "retrieval")
             /\ wanted' = ActionsFor(plan, years')
             /\ pc' = "decide"
             /\ UNCHANGED <<calling, llm, topic, plan, grounded, toolRows, invocations,
                            results, components, cancelled, outcome, reply, loopVars>>
      PROVE  CoreInv'
  <2>1. UNCHANGED <<taken, observations, plannerAttempts, sqlApprovals>>
    BY <1>3 DEF loopVars
  <2>2. EvidenceInv'
    BY <1>1, <1>3, QuietEvidence DEF CoreInv, Quiet
  <2>3. AnswerInv'
    BY <1>1, <1>3, NotAnswered DEF CoreInv
  <2>4. LoopInv'
    BY <1>1, <1>3, <2>1, LoopStays DEF CoreInv, BeforeLoop
  <2>5. Len(taken) = 0 /\ Len(observations) = 0
    BY <1>1, SeqFacts DEF CoreInv, LoopInv
  <2>6. years' => wanted' # <<>> /\ wanted'[1] = Preflight
    BY <1>1, <1>3, PreflightIsFirst
  <2>7. YearsAreChecked'
    BY <1>1, <1>3 DEF CoreInv, YearsInv, YearsAreChecked, BeforeLoop
  <2>8. YearsInv'
    BY <1>1, <1>3, <2>1, <2>5, <2>6, <2>7 DEF YearsInv, BeforeLoop
  <2>9. TurnTypes'
    BY <1>1, <1>3 DEF CoreInv, TurnTypes, BeforeLoop, Points
  <2> QED BY <2>2, <2>3, <2>4, <2>8, <2>9 DEF CoreInv
<1> QED BY <1>2, <1>3 DEF EnterLoop

\* The next action of a plan for given years.
LEMMA NextOfYears ==
    ASSUME LoopInv, YearsInv, pc = "decide", years, NextAction # NoAction
    PROVE  /\ Len(taken) = 0 => NextAction = Preflight
           /\ Len(taken) # 0 => PeriodsCover /\ taken[1] = Preflight
<1>1. /\ Len(taken) = Len(observations) /\ Len(taken) \in Nat
      /\ taken = <<>> <=> Len(taken) = 0
      /\ observations = <<>> <=> Len(observations) = 0
  BY SeqFacts DEF LoopInv
<1>2. NextAction = PlannedNext /\ wanted # <<>> /\ wanted[1] = Preflight
  BY DEF YearsInv, NextAction
<1>3. ~YearsMissing /\ NextAction = wanted[Len(observations) + 1]
  BY <1>2 DEF PlannedNext
<1>4. CASE Len(taken) = 0
  BY <1>1, <1>2, <1>3, <1>4
<1>5. CASE Len(taken) = 1
  <2>1. Last(taken) = Preflight /\ Last(observations) = observations[1]
    BY <1>1, <1>5 DEF YearsInv, Last
  <2>2. observations[1].data # "misses"
    BY <1>1, <1>2, <1>3, <1>5, <2>1 DEF YearsMissing
  <2> QED BY <1>1, <1>5, <2>2 DEF YearsInv
<1>6. CASE Len(taken) > 1
  BY <1>1, <1>6 DEF YearsInv
<1> QED BY <1>1, <1>4, <1>5, <1>6

LEMMA TakeKeepsLimits ==
    ASSUME LoopInv, pc = "decide", NEW a, Take(a), pc' = "execute"
    PROVE  LoopInv'
<1>1. /\ taken' = Append(taken, a) /\ ~Seen(a)
      /\ Len(observations) < MaxSteps /\ Len(taken) < MaxToolCalls
      /\ UNCHANGED <<observations, plannerAttempts, sqlApprovals>>
      /\ Len(taken) = Len(observations)
  BY DEF LoopInv, Take, MayTake, BeforeLoop
<1>2. Len(taken) \in Nat /\ DOMAIN taken = 1 .. Len(taken)
  BY SeqFacts DEF LoopInv
<1>3. /\ IsSeq(taken') /\ Len(taken') = Len(taken) + 1
      /\ \A i \in 1 .. Len(taken) : taken'[i] = taken[i]
      /\ taken'[Len(taken) + 1] = a
  BY <1>1, AppendSeq DEF LoopInv
<1>4. DOMAIN taken' = 1 .. Len(taken) + 1
  BY <1>3, SeqFacts
<1>5. ASSUME NEW i \in DOMAIN taken', NEW j \in DOMAIN taken',
             Signature(taken'[i]) = Signature(taken'[j])
      PROVE  i = j
  <2>1. \A k \in DOMAIN taken : Signature(taken[k]) # Signature(a)
    BY <1>1 DEF Seen
  <2>2. CASE i \in DOMAIN taken /\ j \in DOMAIN taken
    BY <1>2, <1>3, <1>5, <2>2 DEF LoopInv, WithinLimits
  <2>3. CASE i \notin DOMAIN taken \/ j \notin DOMAIN taken
    BY <1>2, <1>3, <1>4, <1>5, <2>1, <2>3
  <2> QED BY <2>2, <2>3
<1>6. (\A i, j \in DOMAIN taken : Signature(taken[i]) = Signature(taken[j]) => i = j)'
  BY <1>5 DEF Signature
<1>7. WithinLimits'
  BY <1>1, <1>2, <1>3, <1>6, LimitsAreLegal DEF LoopInv, WithinLimits
<1> QED BY <1>1, <1>2, <1>3, <1>7 DEF LoopInv, BeforeLoop

LEMMA DecideKeeps == CoreInv /\ Decide => CoreInv'
<1> SUFFICES ASSUME CoreInv, Decide PROVE CoreInv'
  OBVIOUS
<1> DEFINE a == NextAction
<1>1. pc = "decide" /\ ~grounded /\ a # NoAction
  BY DEF Decide, CoreInv, AnswerInv
<1>2. CASE Take(a) /\ Step("execute") /\ UNCHANGED plan
  <2> HIDE DEF a
  <2>1. /\ pc' = "execute" /\ taken' = Append(taken, a)
        /\ UNCHANGED <<observations, wanted, years, plan, invocations>>
    BY <1>2 DEF Take, Step
  <2>2. Moves
    BY <1>1, <1>2, <2>1 DEF Step, Moves, CallPoints, Points
  <2>3. EvidenceInv' /\ AnswerInv'
    BY <2>2, MovedOn
  <2>4. LoopInv'
    BY <1>1, <1>2, <2>1, TakeKeepsLimits DEF CoreInv
  <2>5. /\ Len(taken) \in Nat /\ Len(taken') = Len(taken) + 1
        /\ taken'[Len(taken) + 1] = a
        /\ \A i \in 1 .. Len(taken) : taken'[i] = taken[i]
    BY <2>1, AppendSeq, SeqFacts DEF CoreInv, LoopInv
  <2>6. PeriodsCover' = PeriodsCover
    BY <2>1 DEF PeriodsCover
  <2>7. ASSUME years
        PROVE  /\ taken'[1] = Preflight
               /\ Len(taken') > 1 => PeriodsCover'
    <3>1. /\ Len(taken) = 0 => a = Preflight
          /\ Len(taken) # 0 => PeriodsCover /\ taken[1] = Preflight
      BY <1>1, <2>7, NextOfYears DEF CoreInv, a
    <3>2. CASE Len(taken) = 0
      BY <2>5, <3>1, <3>2
    <3>3. CASE Len(taken) # 0
      BY <2>5, <2>6, <3>1, <3>3
    <3> QED BY <3>2, <3>3
  <2>8. YearsInv'
    BY <1>1, <2>1, <2>6, <2>7 DEF CoreInv, YearsInv, YearsAreChecked, BeforeLoop
  <2>9. TurnTypes'
    BY <1>1, <2>1, <2>2 DEF CoreInv, TurnTypes, Moves, BeforeLoop, Points
  <2> QED BY <2>3, <2>4, <2>8, <2>9 DEF CoreInv
<1>3. CASE Raises("failed") /\ UNCHANGED <<calling, toolRows, invocations, loopVars>>
  BY <1>1, <1>3, RaisedBetweenCalls DEF CallPoints
<1> QED BY <1>2, <1>3 DEF Decide

LEMMA CompleteUnavailableKeeps == CoreInv /\ CompleteUnavailable => CoreInv'
BY AnswersKeeps DEF CompleteUnavailable, CallPoints

LEMMA CompleteKeeps == CoreInv /\ Complete => CoreInv'
<1> SUFFICES ASSUME CoreInv, Complete PROVE CoreInv'
  OBVIOUS
<1>1. pc = "decide" /\ ~grounded /\ UNCHANGED <<plan, loopVars>>
  BY DEF Complete, CoreInv, AnswerInv
<1>2. Moves /\ pc' \in {"report", "evidence"} /\ wanted' = wanted
  BY <1>1 DEF Complete, Step, Moves, CallPoints, Points
<1> QED BY <1>1, <1>2, MovedAlong DEF loopVars, BeforeLoop

\* Between two actions: the observation of the one that returned is there.
LEMMA ActionObserved ==
    ASSUME LoopInv, pc = "execute", NEW data, AfterAction(data)
    PROVE  /\ LoopInv' /\ taken' = taken
           /\ \/ /\ pc' = "decide" /\ UNCHANGED <<outcome, reply>>
                 /\ Len(observations') = Len(observations) + 1
                 /\ observations'[Len(observations) + 1].data = data
              \/ pc' = "done" /\ outcome' = "failed"
<1>1. CASE InTime
  <2> DEFINE o == [status |-> "succeeded", data |-> data]
  <2>1. /\ observations' = Append(observations, o) /\ o.data = data
        /\ UNCHANGED <<taken, plannerAttempts, sqlApprovals, outcome, reply>>
        /\ pc' = "decide"
    BY <1>1 DEF AfterAction, ObserveResult, Observe
  <2> HIDE DEF o
  <2>2. /\ IsSeq(observations') /\ Len(observations') = Len(observations) + 1
        /\ observations'[Len(observations) + 1] = o
        /\ Len(observations) \in Nat
    BY <2>1, AppendSeq, SeqFacts DEF LoopInv
  <2>3. LoopInv'
    BY <2>1, <2>2, LimitsAreLegal DEF LoopInv, WithinLimits, BeforeLoop
  <2> QED BY <2>1, <2>2, <2>3
<1>2. CASE ~InTime
  BY <1>2, FailureObserved DEF AfterAction, Ends, ObserveFailure, Observe
<1> QED BY <1>1, <1>2

\* After an action that the loop took, with what it shows.
LEMMA AfterActionKeeps ==
    ASSUME CoreInv, pc = "execute", NEW data, AfterAction(data), calling' = FALSE,
           EvidenceInv', YearsAreChecked', PeriodsCover => PeriodsCover',
           Range(invocations) \subseteq Range(invocations'),
           NEW tool, NEW i, NEW s, s = <<>> \/ s = <<Chart(tool, i)>>,
           Succeeds(i, tool)', components' = components \o s,
           years /\ Len(taken) = 1 /\ data # "misses" => PeriodsCover',
           UNCHANGED <<plan, wanted, years, grounded>>
    PROVE  CoreInv'
<1>1. /\ LoopInv' /\ taken' = taken
      /\ \/ /\ pc' = "decide" /\ UNCHANGED <<outcome, reply>>
            /\ Len(observations') = Len(observations) + 1
            /\ observations'[Len(observations) + 1].data = data
         \/ pc' = "done" /\ outcome' = "failed"
  BY ActionObserved DEF CoreInv
<1>2. ~grounded /\ outcome = "none" /\ outcome' # "answered"
  BY <1>1 DEF CoreInv, AnswerInv, TurnTypes
<1>3. IsSeq(s) /\ \A k \in 1 .. Len(s) : s[k] = Chart(tool, i)
  <2>1. IsSeq(<<Chart(tool, i)>>) /\ IsSeq(<<>>)
    BY OneIsSeq, NothingIsSeq
  <2>2. CASE s = <<>>
    BY <2>1, <2>2
  <2>3. CASE s = <<Chart(tool, i)>>
    <3> DEFINE c == Chart(tool, i)
    <3> HIDE DEF c
    <3>1. Len(<<c>>) = 1 /\ <<c>>[1] = c
      OBVIOUS
    <3> QED BY <2>1, <2>3, <3>1 DEF c
  <2> QED BY <2>2, <2>3
<1>4. (\A k \in DOMAIN components : Succeeds(components[k].from, components[k].chart))'
      /\ IsSeq(components')
  <2>1. /\ IsSeq(components) /\ Len(components) \in Nat /\ Len(s) \in Nat
        /\ DOMAIN components = 1 .. Len(components)
    BY <1>3, SeqFacts DEF CoreInv, AnswerInv
  <2>2. /\ IsSeq(components') /\ Len(components') = Len(components) + Len(s)
        /\ \A k \in 1 .. Len(components) : components'[k] = components[k]
        /\ \A k \in 1 .. Len(s) : components'[Len(components) + k] = s[k]
    BY <1>3, <2>1, JoinSeq
  <2>3. DOMAIN components' = 1 .. Len(components) + Len(s)
    BY <2>2, SeqFacts
  <2>4. ASSUME NEW k \in DOMAIN components'
        PROVE  (Succeeds(components[k].from, components[k].chart))'
    <3>1. CASE k \in 1 .. Len(components)
      BY <2>1, <2>2, <3>1 DEF CoreInv, AnswerInv, Succeeds
    <3>2. CASE k \notin 1 .. Len(components)
      <4>1. k - Len(components) \in 1 .. Len(s)
            /\ k = Len(components) + (k - Len(components))
        BY <2>1, <2>3, <3>2
      <4>2. components'[k] = Chart(tool, i)
        BY <1>3, <2>2, <4>1
      <4> QED BY <4>2 DEF Chart, Succeeds
    <3> QED BY <3>1, <3>2
  <2> QED BY <2>2, <2>4
<1>5. AnswerInv'
  BY <1>2, <1>4 DEF AnswerInv, AnswersRestOnEvidence
<1>6. YearsInv'
  <2>1. Len(observations) \in Nat /\ Len(taken) = Len(observations) + 1
    BY SeqFacts DEF CoreInv, LoopInv
  <2>2. years' /\ pc' \in {"decide", "execute"} /\ Len(observations') = 1
          /\ observations'[1].data # "misses" => PeriodsCover'
    BY <1>1, <2>1
  <2> QED BY <1>1, <2>2 DEF CoreInv, YearsInv, BeforeLoop
<1>7. TurnTypes'
  BY <1>1, <1>2 DEF CoreInv, TurnTypes, BeforeLoop, Points
<1> QED BY <1>1, <1>5, <1>6, <1>7 DEF CoreInv

LEMMA ShownAreCharts ==
    ASSUME NEW tool, NEW i, NEW s \in Shown(tool, i)
    PROVE  s = <<>> \/ s = <<Chart(tool, i)>>
BY DEF Shown

LEMMA ActionReturnsKeeps == CoreInv /\ ActionReturns => CoreInv'
<1> SUFFICES ASSUME CoreInv, ActionReturns PROVE CoreInv'
  OBVIOUS
<1>0. PICK tool : tool = Requested[1]
  OBVIOUS
<1>1. pc = "execute" /\ UNCHANGED <<plan, wanted, years, grounded>>
  BY DEF ActionReturns
<1>2. PICK i, d :
          /\ Succeeded(i, d)
          /\ results' = [results EXCEPT ![tool] = i]
          /\ \E s \in IF plan.route = "investigation" THEN {<<>>} ELSE Shown(tool, i) :
                components' = components \o s
          /\ AfterAction(KeptData(tool, d))
  BY <1>0 DEF ActionReturns
<1>3. PICK v : Received(v) /\ v.id = i /\ v.data = d
  BY <1>2, SucceededReceives DEF CoreInv
<1>4. PICK s : components' = components \o s /\ (s = <<>> \/ s = <<Chart(tool, i)>>)
  BY <1>2, ShownAreCharts
<1>5. v.tool = tool /\ v.status = "succeeded" /\ v.id \in Nat \ {0}
  BY <1>0, <1>3, ReceivedId DEF CoreInv, Received
<1>6. results' \in [Tools -> Nat] /\ results'[Profile] # 0
      /\ \A t \in Tools : results'[t] # results[t] =>
             results'[t] = v.id /\ v.tool = t /\ v.status = "succeeded"
  <2>1. results \in [Tools -> Nat] /\ results[Profile] # 0
    BY <1>1 DEF CoreInv, EvidenceInv
  <2> QED BY <1>2, <1>3, <1>5, <2>1 DEF Tools
<1>7. EvidenceInv' /\ Range(invocations') = Range(invocations) \cup {v}
  BY <1>3, <1>6, ResultReceived DEF CoreInv, Received
<1>8. YearsAreChecked' /\ (PeriodsCover => PeriodsCover')
  BY <1>1, <1>3, <1>7, YearsReceived DEF CoreInv, Received
<1>9. Succeeds(i, tool)'
  BY <1>3, <1>5, <1>7 DEF Succeeds
<1>10. ASSUME years, Len(taken) = 1, KeptData(tool, d) # "misses" PROVE PeriodsCover'
  <2>1. tool = Periods
    BY <1>0, <1>1, <1>10, PreflightCalled DEF CoreInv
  <2>2. d \in {"covers", "misses"}
    BY <1>3, <1>5, <2>1 DEF Received, DataOf, Periods, Profile, Trend,
                                     Vacant, Search
  <2>3. d = "covers"
    BY <1>10, <2>1, <2>2 DEF KeptData, Periods, Search
  <2> QED BY <1>3, <1>5, <1>7, <2>1, <2>3 DEF PeriodsCover
<1>11. calling' = FALSE
  BY <1>3 DEF Received
<1>12. PICK data : data = KeptData(tool, d)
  OBVIOUS
<1> QED BY <1>1, <1>2, <1>4, <1>7, <1>8, <1>9, <1>10, <1>11, <1>12, AfterActionKeeps

LEMMA ReuseResultKeeps == CoreInv /\ ReuseResult => CoreInv'
<1> SUFFICES ASSUME CoreInv, ReuseResult PROVE CoreInv'
  OBVIOUS
<1> DEFINE tool == Requested[1]
           i == results[tool]
           data == Invocation(i).data
<1>1. /\ pc = "execute" /\ tool \in {Kpis, Periods} /\ i # 0 /\ Last(taken).key # 0
      /\ calling' = FALSE /\ ~calling /\ AfterAction(data)
      /\ UNCHANGED <<calling, toolRows, invocations, results, plan, wanted, years,
                     grounded>>
  BY DEF ReuseResult, AlreadyHeld
<1>2. PICK s : components' = components \o s /\ (s = <<>> \/ s = <<Chart(tool, i)>>)
  BY ShownAreCharts DEF ReuseResult
<1>3. Succeeds(i, tool)
  <2>1. tool \in Tools
    BY <1>1 DEF Tools
  <2> QED BY <1>1, <2>1 DEF CoreInv, EvidenceInv
<1> HIDE DEF tool, i, data
<1>4. PICK j, t : j = i /\ t = tool
  OBVIOUS
<1>5. EvidenceInv'
  BY <1>1, QuietEvidence DEF CoreInv, Quiet
<1>6. YearsAreChecked' /\ PeriodsCover' = PeriodsCover
  BY <1>1 DEF CoreInv, YearsInv, YearsAreChecked, PeriodsCover
<1>7. ASSUME years, Len(taken) = 1 PROVE FALSE
  BY <1>1, <1>7, PreflightCalled DEF CoreInv, Preflight, Action
<1>8. Succeeds(j, t)'
  BY <1>1, <1>3, <1>4 DEF Succeeds
<1>9. PICK x : x = data
  OBVIOUS
<1> QED BY <1>1, <1>2, <1>4, <1>5, <1>6, <1>7, <1>8, <1>9, AfterActionKeeps

-----------------------------------------------------------------------------
(* Each step keeps the invariant: the answer, and what comes from outside.  *)

\* An answer whose charts and sources are told from the results.
LEMMA AnsweredFromEvidence ==
    ASSUME CoreInv, pc \notin CallPoints \cup {"done"},
           UNCHANGED <<calling, toolRows, invocations, results, components, years,
                       grounded, plan, wanted, taken, observations,
                       plannerAttempts, sqlApprovals>>,
           pc' = "done", outcome' = "answered",
           \A k \in DOMAIN reply'.components :
               Succeeds(reply'.components[k].from, reply'.components[k].chart),
           \A i \in reply'.sources : i \in SearchIds /\ DataIn(i) # "empty",
           \A t \in reply'.results : t \in Tools /\ results[t] # 0
    PROVE  CoreInv'
<1>1. ~calling
  BY NotAtACall DEF CoreInv
<1>2. EvidenceInv'
  BY <1>1, QuietEvidence DEF CoreInv, Quiet, CallPoints
<1>3. (\A k \in DOMAIN reply.components :
          Succeeds(reply.components[k].from, reply.components[k].chart))'
  BY DEF Succeeds
<1>4. (\A i \in reply.sources : Succeeds(i, Search) /\ DataIn(i) # "empty")'
  BY DEF SearchIds, Succeeds, DataIn, Invocation
<1>5. (\A t \in reply.results : Succeeds(results[t], t))'
  BY <1>2 DEF EvidenceInv
<1>6. (grounded /\ plan.route = "retrieval" => Confident)'
  BY SameConfidence DEF CoreInv, AnswerInv
<1>7. AnswerInv'
  BY <1>3, <1>4, <1>5, <1>6, ShownStays
     DEF CoreInv, AnswerInv, AnswersRestOnEvidence
<1>8. LoopInv'
  BY LoopStays DEF CoreInv, BeforeLoop
<1>9. YearsInv'
  BY YearsStay DEF CoreInv, YearsInv, BeforeLoop
<1>10. TurnTypes'
  BY DEF CoreInv, TurnTypes, BeforeLoop, Points
<1> QED BY <1>2, <1>7, <1>8, <1>9, <1>10 DEF CoreInv

\* The charts of an investigation are of tools that returned rows.
LEMMA ReportInvestigationKeeps == CoreInv /\ ReportInvestigation => CoreInv'
<1> SUFFICES ASSUME CoreInv, ReportInvestigation PROVE CoreInv'
  OBVIOUS
<1> DEFINE drawn == <<Trend, Vacant, Rent>>
           P == {k \in DOMAIN drawn : results[drawn[k]] # 0
                                      /\ DataIn(results[drawn[k]]) # "empty"}
           filled == MembersAt(drawn, P)
           charts == [k \in DOMAIN filled |-> Chart(filled[k], results[filled[k]])]
<1>1. /\ pc = "report" /\ pc' = "done" /\ outcome' = "answered"
      /\ reply'.components = charts
      /\ reply'.sources = {i \in SearchIds : DataIn(i) = "strong"}
      /\ reply'.results = {t \in Tools : results[t] # 0}
      /\ UNCHANGED <<calling, toolRows, invocations, results, components, years,
                     grounded, plan, wanted, taken, observations,
                     plannerAttempts, sqlApprovals>>
  BY DEF ReportInvestigation, Ends, loopVars
<1>2. ASSUME NEW k \in DOMAIN filled
      PROVE  filled[k] \in Tools /\ results[filled[k]] # 0
  <2>1. drawn \in Seq(Tools)
    BY DEF Tools
  <2>2. P \in SUBSET DOMAIN drawn /\ \A m \in P : results[drawn[m]] # 0
    OBVIOUS
  <2> HIDE DEF drawn, P
  <2>3. InOrder(P)[k] \in P /\ filled[k] = drawn[InOrder(P)[k]]
        /\ filled \in Seq(Tools)
    BY <2>1, <2>2, MembersAtPlaces
  <2> HIDE DEF filled
  <2>4. filled[k] \in Tools
    BY <2>3
  <2> QED BY <2>2, <2>3, <2>4
<1> HIDE DEF filled
<1>3. ASSUME NEW k \in DOMAIN charts PROVE Succeeds(charts[k].from, charts[k].chart)
  BY <1>2, <1>3 DEF CoreInv, EvidenceInv, Chart
<1> HIDE DEF charts
<1>4. \A k \in DOMAIN reply'.components :
          Succeeds(reply'.components[k].from, reply'.components[k].chart)
  BY <1>1, <1>3
<1>5. \A i \in reply'.sources : i \in SearchIds /\ DataIn(i) # "empty"
  BY <1>1
<1>6. \A t \in reply'.results : t \in Tools /\ results[t] # 0
  BY <1>1
<1> QED BY <1>1, <1>4, <1>5, <1>6, AnsweredFromEvidence DEF CallPoints

LEMMA WeighEvidenceKeeps == CoreInv /\ WeighEvidence => CoreInv'
<1> SUFFICES ASSUME CoreInv, WeighEvidence PROVE CoreInv'
  OBVIOUS
<1>1. pc = "evidence" /\ ~grounded /\ outcome # "answered" /\ results[Profile] # 0
  BY DEF WeighEvidence, CoreInv, AnswerInv, TurnTypes, EvidenceInv
<1>2. CASE Step("generate") /\ UNCHANGED <<plan, loopVars>>
  <2>1. Moves /\ pc' = "generate"
    BY <1>1, <1>2 DEF Step, Moves, CallPoints, Points
  <2> QED BY <1>1, <1>2, <2>1, MovedAlong DEF Step, loopVars, BeforeLoop
<1>3. CASE /\ Ends("answered", [kind |-> "no_reviews", components |-> <<>>,
                                sources |-> {}, results |-> {Profile}])
           /\ UNCHANGED <<calling, toolRows, invocations, results, loopVars>>
           /\ Settled
  <2>1. /\ pc' = "done" /\ outcome' = "answered" /\ reply'.components = <<>>
        /\ reply'.sources = {} /\ reply'.results = {Profile}
        /\ UNCHANGED <<calling, toolRows, invocations, results, components, years,
                       grounded, plan, wanted, taken, observations,
                       plannerAttempts, sqlApprovals>>
    BY <1>3 DEF Ends, Settled, loopVars
  <2>2. \A t \in reply'.results : t \in Tools /\ results[t] # 0
    BY <1>1, <2>1 DEF Tools
  <2> QED BY <1>1, <2>1, <2>2, Answered DEF CallPoints
<1>4. ASSUME NEW asksFact \in BOOLEAN, LacksGround(asksFact),
             Answers("no_website_evidence")
      PROVE  CoreInv'
  BY <1>1, <1>4, AnswersKeeps DEF CallPoints
<1>5. ASSUME NEW asksFact \in BOOLEAN, ~LacksGround(asksFact),
             /\ grounded' = asksFact /\ pc' = "generate"
             /\ UNCHANGED <<calling, llm, topic, plan, wanted, years, toolRows,
                            invocations, results, components, cancelled,
                            outcome, reply, loopVars>>
      PROVE  CoreInv'
  <2>1. UNCHANGED <<taken, observations, plannerAttempts, sqlApprovals>>
    BY <1>5 DEF loopVars
  <2>2. ~calling
    BY <1>1, NotAtACall DEF CoreInv, CallPoints
  <2>3. EvidenceInv'
    BY <1>1, <1>5, <2>2, QuietEvidence DEF CoreInv, Quiet
  <2>4. grounded' => (plan'.route = "retrieval" => Confident')
    BY <1>5, SameConfidence DEF LacksGround
  <2>5. AnswerInv'
    BY <1>1, <1>5, <2>4, ShownStays DEF CoreInv, AnswerInv, AnswersRestOnEvidence
  <2>6. LoopInv'
    BY <1>1, <1>5, <2>1, LoopStays DEF CoreInv, BeforeLoop
  <2>7. YearsInv'
    BY <1>1, <1>5, <2>1, YearsStay DEF CoreInv, YearsInv, BeforeLoop
  <2>8. TurnTypes'
    BY <1>1, <1>5 DEF CoreInv, TurnTypes, BeforeLoop, Points
  <2> QED BY <2>3, <2>5, <2>6, <2>7, <2>8 DEF CoreInv
<1> QED BY <1>2, <1>3, <1>4, <1>5 DEF WeighEvidence

LEMMA GenerateKeeps == CoreInv /\ Generate => CoreInv'
<1> SUFFICES ASSUME CoreInv, Generate PROVE CoreInv'
  OBVIOUS
<1>1. pc = "generate"
  BY DEF Generate
<1>2. CASE Step("generated") /\ UNCHANGED <<plan, loopVars>>
  <2>1. Moves /\ pc' = "generated"
    BY <1>1, <1>2 DEF Step, Moves, CallPoints, Points
  <2> QED BY <1>1, <1>2, <2>1, MovedAlong DEF Step, loopVars, BeforeLoop
<1>3. CASE Raises("failed") /\ UNCHANGED <<calling, toolRows, invocations, loopVars>>
  BY <1>1, <1>3, RaisedBetweenCalls DEF CallPoints
<1> QED BY <1>2, <1>3 DEF Generate

LEMMA FinishAnswerKeeps == CoreInv /\ FinishAnswer => CoreInv'
<1> SUFFICES ASSUME CoreInv, FinishAnswer PROVE CoreInv'
  OBVIOUS
<1>1. /\ pc = "generated" /\ pc' = "done" /\ outcome' = "answered"
      /\ reply'.components = components
      /\ reply'.sources = (IF plan.route = "structured" THEN {} ELSE Listed)
      /\ reply'.results = {t \in Tools : results[t] # 0}
      /\ UNCHANGED <<calling, toolRows, invocations, results, components, years,
                     grounded, plan, wanted, taken, observations,
                     plannerAttempts, sqlApprovals>>
  BY DEF FinishAnswer, Ends, loopVars
<1>2. \A k \in DOMAIN reply'.components :
          Succeeds(reply'.components[k].from, reply'.components[k].chart)
  BY <1>1 DEF CoreInv, AnswerInv
<1>3. \A i \in reply'.sources : i \in SearchIds /\ DataIn(i) # "empty"
  BY <1>1 DEF Listed
<1>4. \A t \in reply'.results : t \in Tools /\ results[t] # 0
  BY <1>1
<1> QED BY <1>1, <1>2, <1>3, <1>4, AnsweredFromEvidence DEF CallPoints

\* What the invariant is about does not change.
LEMMA NothingChanges ==
    ASSUME CoreInv, UNCHANGED <<pc, calling, plan, wanted, years, grounded, toolRows,
                                invocations, results, components, outcome, reply,
                                taken, observations, plannerAttempts, sqlApprovals>>
    PROVE  CoreInv'
<1>1. TurnTypes'
  BY DEF CoreInv, TurnTypes
<1>2. LoopInv'
  BY DEF CoreInv, LoopInv, WithinLimits
<1>3. Requested' = Requested
  BY DEF Requested
<1>4. CachedIn(Requested)' = CachedIn(Requested)
  BY <1>3 DEF CachedIn
<1>5. (\A t \in Tools : results[t] # 0 => Succeeds(results[t], t))'
  BY DEF CoreInv, EvidenceInv, Succeeds
<1>6. EvidenceInv'
  BY <1>4, <1>5 DEF CoreInv, EvidenceInv
<1>7. AnswersRestOnEvidence'
  BY SameConfidence DEF CoreInv, AnswerInv, AnswersRestOnEvidence, Succeeds, DataIn,
                        Invocation
<1>8. AnswerInv'
  BY <1>7, ShownStays, SameConfidence DEF CoreInv, AnswerInv
<1>9. YearsInv'
  BY YearsStay DEF CoreInv, YearsInv
<1> QED BY <1>1, <1>2, <1>6, <1>8, <1>9 DEF CoreInv

LEMMA EnvironmentKeeps == CoreInv /\ Environment => CoreInv'
BY NothingChanges DEF Environment, Cancel, Deadline, DeadlinePasses, turnVars, loopVars

\* No step of the turn breaks it.
LEMMA TurnStepKeeps == CoreInv /\ TurnStep => CoreInv'
BY StartCallCore, CallFailsKeeps, InterruptedKeeps, ProfileReturnsKeeps,
   ScopeReturnsKeeps, FollowupReturnsKeeps, ActionReturnsKeeps, ChooseBranchKeeps,
   AskPlannerKeeps, PlannerAnswersKeeps, PlanByRulesKeeps, AskBackKeeps,
   RequestSqlApprovalKeeps, DraftSqlKeeps, EnterLoopKeeps, DecideKeeps,
   CompleteUnavailableKeeps, CompleteKeeps, ReuseResultKeeps,
   ReportInvestigationKeeps, WeighEvidenceKeeps, GenerateKeeps, FinishAnswerKeeps,
   TooLateKeeps
   DEF TurnStep, CallStep

-----------------------------------------------------------------------------
(* The citations of the answer and the statements that store them.         *)

\* An invocation that succeeded has a row.
LEMMA RowOfResult ==
    ASSUME EvidenceInv
    PROVE  /\ \A v \in Range(invocations) : v.id \in DOMAIN toolRows
           /\ \A t \in Tools : results[t] # 0 => results[t] \in DOMAIN toolRows
<1>1. DOMAIN toolRows = 1 .. Len(toolRows)
  BY SeqFacts DEF EvidenceInv
<1> QED BY <1>1 DEF EvidenceInv, Succeeds

LEMMA CitationEvidenceIsKept ==
    ASSUME EvidenceInv
    PROVE  /\ IsSeq(CitationEvidence) /\ IsInjective(CitationEvidence)
           /\ Range(CitationEvidence) \subseteq DOMAIN toolRows
<1> DEFINE n == Len(invocations)
           ids == [k \in DOMAIN invocations |-> invocations[k].id]
           P == {k \in DOMAIN invocations : invocations[k].status = "succeeded"}
<1>1. n \in Nat /\ DOMAIN invocations = 1 .. n
      /\ \A k \in 1 .. n : invocations[k] \in Range(invocations)
  BY SeqFacts DEF EvidenceInv
<1>2. P \in SUBSET DOMAIN ids /\ DOMAIN ids = DOMAIN invocations
  OBVIOUS
<1>3. ids = [k \in 1 .. n |-> ids[k]]
      /\ \A k \in DOMAIN invocations : ids[k] \in DOMAIN toolRows
  BY <1>1, RowOfResult
<1> HIDE DEF n, ids, P
<1>4. IsSeq(ids)
  BY <1>1, <1>3, FunctionIsSeq
<1>5. ids \in Seq(Range(ids))
  BY <1>4 DEF IsSeq
<1>6. /\ IsSeq(MembersAt(ids, P))
      /\ \A k \in DOMAIN MembersAt(ids, P) :
             InOrder(P)[k] \in P /\ MembersAt(ids, P)[k] = ids[InOrder(P)[k]]
  BY <1>2, <1>4, <1>5, ChosenIsSeq, MembersAtPlaces
<1>7. Range(MembersAt(ids, P)) \subseteq DOMAIN toolRows
  <2> DEFINE cited == MembersAt(ids, P)
  <2>1. \A k \in DOMAIN cited : cited[k] \in DOMAIN toolRows
    BY <1>2, <1>3, <1>6
  <2> HIDE DEF cited
  <2>2. Range(cited) \subseteq DOMAIN toolRows
    BY <2>1 DEF Range
  <2> QED BY <2>2 DEF cited
<1>8. CitedIds = MembersAt(ids, P)
  BY DEF CitedIds, ids, P
<1>9. IsSeq(CitedIds) /\ Range(CitedIds) \subseteq DOMAIN toolRows
  BY <1>6, <1>7, <1>8
<1> QED BY <1>9, WithoutRepeatsKeeps DEF CitationEvidence

\* No invocation is held for two tools.
LEMMA ReportCitationsAreKept ==
    ASSUME EvidenceInv
    PROVE  /\ IsSeq(ReportCitations) /\ IsInjective(ReportCitations)
           /\ Range(ReportCitations) \subseteq DOMAIN toolRows
<1> DEFINE four == <<Trend, Vacant, Rent, Search>>
           reported == [k \in 1 .. 4 |-> results[four[k]]]
           P == {k \in 1 .. 4 : /\ reported[k] # 0
                                /\ reported[k] \in SearchIds =>
                                       DataIn(reported[k]) = "strong"}
           cited == MembersAt(reported, P)
<1>1. /\ \A k \in 1 .. 4 : four[k] \in Tools
      /\ \A j, k \in 1 .. 4 : four[j] = four[k] => j = k
  BY DEF Tools, Trend, Vacant, Rent, Search
<1>2. P \in SUBSET DOMAIN reported /\ DOMAIN reported = 1 .. 4
      /\ \A k \in P : k \in 1 .. 4 /\ reported[k] # 0
  OBVIOUS
<1>3. ReportCitations = cited
  BY DEF ReportCitations
<1> HIDE DEF four
<1>4. \A k \in P : /\ reported[k] \in DOMAIN toolRows
                   /\ Succeeds(reported[k], four[k])
  BY <1>1, RowOfResult DEF EvidenceInv
<1>5. ASSUME NEW j \in P, NEW k \in P, reported[j] = reported[k] PROVE j = k
  <2>1. Succeeds(reported[j], four[j]) /\ Succeeds(reported[j], four[k])
    BY <1>4, <1>5
  <2>2. four[j] = four[k]
    BY <2>1 DEF Succeeds, EvidenceInv
  <2> QED BY <1>1, <1>2, <2>2
<1>6. reported = [k \in 1 .. 4 |-> reported[k]]
  OBVIOUS
<1> HIDE DEF reported, P
<1>7. IsSeq(reported)
  BY <1>6, FunctionIsSeq
<1>8. reported \in Seq(Range(reported))
  BY <1>7 DEF IsSeq
<1>9. /\ IsSeq(cited) /\ DOMAIN cited = 1 .. Len(cited) /\ Len(cited) \in Nat
      /\ \A n \in DOMAIN cited : InOrder(P)[n] \in P /\ cited[n] = reported[InOrder(P)[n]]
      /\ \A m, n \in DOMAIN cited : m < n => InOrder(P)[m] < InOrder(P)[n]
  BY <1>2, <1>7, <1>8, ChosenIsSeq, MembersAtPlaces
<1> HIDE DEF cited
<1>10. ASSUME NEW m \in DOMAIN cited, NEW n \in DOMAIN cited, m < n
       PROVE  cited[m] # cited[n]
  <2>1. InOrder(P)[m] \in 1 .. 4 /\ InOrder(P)[n] \in 1 .. 4
        /\ InOrder(P)[m] < InOrder(P)[n]
    BY <1>2, <1>9, <1>10
  <2>2. InOrder(P)[m] # InOrder(P)[n]
    BY <2>1
  <2> QED BY <1>5, <1>9, <2>2
<1>11. \A m, n \in DOMAIN cited : cited[m] = cited[n] => m = n
  BY <1>9, <1>10
<1>12. IsInjective(cited) /\ Range(cited) \subseteq DOMAIN toolRows
  BY <1>4, <1>9, <1>11 DEF IsInjective, Range
<1> QED BY <1>3, <1>9, <1>12

\* What a save has to write: its artifact, and every citation.
LEMMA SavedInOrder ==
    ASSUME NEW ids, IsSeq(ids)
    PROVE  /\ IsSeq(<<Artifact>> \o ids)
           /\ Range(<<Artifact>> \o ids) = {Artifact} \cup Range(ids)
<1> DEFINE one == <<Artifact>>
           all == one \o ids
<1>1. IsSeq(one) /\ Len(one) = 1 /\ one[1] = Artifact /\ Range(one) = {Artifact}
  BY OneIsSeq DEF Range
<1> HIDE DEF one
<1>2. /\ IsSeq(all) /\ Len(all) = 1 + Len(ids) /\ all[1] = Artifact
      /\ \A i \in 1 .. Len(ids) : all[1 + i] = ids[i]
      /\ \A v \in Range(all) : v \in {Artifact} \cup Range(ids)
  <2>1. /\ IsSeq(all) /\ Len(all) = Len(one) + Len(ids)
        /\ \A i \in 1 .. Len(one) : all[i] = one[i]
        /\ \A i \in 1 .. Len(ids) : all[Len(one) + i] = ids[i]
        /\ \A v \in Range(all) : v \in Range(one) \cup Range(ids)
    BY <1>1, JoinSeq
  <2> QED BY <1>1, <2>1
<1> HIDE DEF all
<1>3. Len(ids) \in Nat /\ DOMAIN all = 1 .. 1 + Len(ids)
  BY <1>2, SeqFacts
<1>4. Artifact \in Range(all)
  BY <1>2, <1>3 DEF Range
<1>5. ASSUME NEW v \in Range(ids) PROVE v \in Range(all)
  <2>1. PICK i \in 1 .. Len(ids) : ids[i] = v
    BY SeqFacts
  <2>2. 1 + i \in DOMAIN all /\ all[1 + i] = v
    BY <1>2, <1>3, <2>1
  <2> QED BY <2>2 DEF Range
<1>6. Range(all) = {Artifact} \cup Range(ids)
  BY <1>2, <1>4, <1>5
<1> QED BY <1>2, <1>6 DEF all, one

LEMMA KeptKeeps ==
    ASSUME CoreInv, StoreInv, Kept
    PROVE  StoreInv'
<1>1. PICK ids : ids = Citations
  OBVIOUS
<1>2. IsSeq(ids) /\ IsInjective(ids) /\ Range(ids) \subseteq DOMAIN toolRows
  BY <1>1, CitationEvidenceIsKept, ReportCitationsAreKept DEF CoreInv, Citations
<1>3. PICK kind \in {"approval", "denied", "forbidden", "plain"} : SaveAnswer(ids, kind)
  BY <1>1 DEF Kept
<1>4. /\ citations' = ids /\ report' = kind /\ row' = state'
      /\ row' = CASE kind = "approval" -> "waiting_for_approval"
                  [] kind = "denied" -> "completed"
                  [] kind = "forbidden" -> "failed"
                  [] OTHER -> "verifying"
      /\ toStore' = <<Artifact>> \o ids
      /\ UNCHANGED <<stored, faults>>
  BY <1>3 DEF SaveAnswer, Save
<1>5. IsSeq(toStore') /\ Range(toStore') = {Artifact} \cup Range(ids)
  BY <1>2, <1>4, SavedInOrder
<1>6. /\ pc' = "done" /\ toolRows' = toolRows
  BY DEF Kept, vars, turnVars, CoreInv, TurnTypes
<1>7. CitationsAreStored'
  BY <1>4 DEF CitationsAreStored
<1>8. /\ row' \in {"verifying", "completed", "failed", "waiting_for_approval"}
      /\ row' = "verifying" => Range(citations') \subseteq Range(toStore')
  BY <1>4, <1>5
<1>9. IsSeq(citations') /\ IsInjective(citations')
      /\ Range(citations') \subseteq DOMAIN toolRows'
  BY <1>2, <1>4, <1>6
<1> QED BY <1>4, <1>5, <1>6, <1>7, <1>8, <1>9 DEF StoreInv

\* The handler saves the state as failed; what it does not touch stays.
LEMMA HandlerKeeps ==
    ASSUME StoreInv, Handler, ~Idle, faults' = faults + 1,
           UNCHANGED <<citations, stored, report, pc, toolRows>>
    PROVE  StoreInv'
<1>1. row # "running" /\ pc' = "done" /\ faults' \in Nat /\ faults' > 0
  BY DEF StoreInv, Idle
<1>2. CASE state \in {"verifying", "waiting_for_approval"}
  <2>1. row' = "failed" /\ state' = "failed" /\ toStore' = <<Artifact>> \o citations
    BY <1>2 DEF Handler, Save
  <2>2. IsSeq(toStore') /\ Range(toStore') = {Artifact} \cup Range(citations)
    BY <2>1, SavedInOrder DEF StoreInv
  <2> QED BY <1>1, <2>1, <2>2 DEF StoreInv, CitationsAreStored
<1>3. CASE state \notin {"verifying", "waiting_for_approval"}
  <2>1. toStore' = <<>> /\ UNCHANGED <<row, state>>
    BY <1>3 DEF Handler
  <2>2. IsSeq(toStore') /\ Range(toStore') = {}
    BY <2>1, NothingIsSeq
  <2> QED BY <1>1, <1>3, <2>1, <2>2 DEF StoreInv, CitationsAreStored
<1> QED BY <1>2, <1>3

LEMMA StoreKeeps ==
    ASSUME StoreInv, Store
    PROVE  StoreInv'
<1>1. UNCHANGED <<pc, toolRows>>
  BY DEF Store, vars, turnVars
<1>2. CASE StoreOne(Recorded)
  <2> DEFINE h == Head(toStore)
  <2>1. toStore # <<>> /\ IsSeq(toStore) /\ row # "running"
    BY <1>2 DEF StoreOne, Idle, StoreInv
  <2>2. /\ IsSeq(Tail(toStore)) /\ h \in Range(toStore)
        /\ Range(toStore) = {h} \cup Range(Tail(toStore))
    BY <2>1, HeadAndTail
  <2>3. h = Artifact \/ h \in DOMAIN toolRows
    BY <2>2 DEF StoreInv
  <2>4. ~Refused(citations)
    BY DEF StoreInv, Refused
  <2>5. /\ toStore' = Tail(toStore) /\ stored' = stored \cup {h}
        /\ UNCHANGED <<row, state, citations, report, faults>>
    BY <1>2, <2>3, <2>4 DEF StoreOne, Recorded
  <2> HIDE DEF h
  <2>6. /\ IsSeq(toStore') /\ Range(toStore') \subseteq Range(toStore)
        /\ Range(toStore) \subseteq {h} \cup Range(toStore')
    BY <2>2, <2>5
  <2>7. CitationsAreStored'
    BY <2>5 DEF StoreInv, CitationsAreStored
  <2>8. row' = "verifying" => Range(citations') \subseteq stored' \cup Range(toStore')
    BY <2>5, <2>6 DEF StoreInv
  <2>9. Range(toStore') \subseteq {Artifact} \cup Range(citations')
    BY <2>5, <2>6 DEF StoreInv
  <2> QED BY <1>1, <2>1, <2>5, <2>6, <2>7, <2>8, <2>9 DEF StoreInv
<1>3. CASE StatementFails
  BY <1>1, <1>3, HandlerKeeps DEF StatementFails
<1>4. CASE CompleteRun
  <2>1. /\ row = "verifying" /\ toStore = <<>>
        /\ row' = "completed" /\ state' = "completed"
        /\ toStore' = <<Artifact>> \o citations
        /\ UNCHANGED <<citations, stored, report, faults>>
    BY <1>4 DEF CompleteRun, Save, Idle, StoreInv
  <2>2. IsSeq(toStore') /\ Range(toStore') = {Artifact} \cup Range(citations)
    BY <2>1, SavedInOrder DEF StoreInv
  <2>3. Range(citations) \subseteq stored
    BY <2>1, NothingIsSeq DEF StoreInv
  <2>4. CitationsAreStored'
    BY <2>1, <2>3 DEF CitationsAreStored, ToSet, Range
  <2> QED BY <1>1, <2>1, <2>2, <2>4 DEF StoreInv
<1> QED BY <1>2, <1>3, <1>4 DEF Store, StoreStep

LEMMA NotYetDone == CoreInv /\ (TurnStep \/ Environment) => pc # "done"
<1> SUFFICES ASSUME CoreInv, TurnStep \/ Environment PROVE pc # "done"
  OBVIOUS
<1>1. calling => pc # "done"
  BY DEF CoreInv, EvidenceInv, CallPoints
<1>2. Requested # <<>> => pc # "done"
  BY DEF Requested
<1>3. ASSUME NEW i, NEW d, Succeeded(i, d) PROVE pc # "done"
  BY <1>1, <1>3 DEF Succeeded, Receive
<1>4. CASE CallStep
  BY <1>1, <1>2, <1>4 DEF CallStep, StartCall, CallFails, Receive, Interrupted,
                          ProfileReturns, ScopeReturns, FollowupReturns, ActionReturns
<1>5. CASE ~CallStep /\ TurnStep
  BY <1>5 DEF TurnStep, ChooseBranch, AskPlanner, PlannerAnswers, PlanByRules, AskBack,
              RequestSqlApproval, DraftSql, EnterLoop, Decide, CompleteUnavailable,
              Complete, ReuseResult, AlreadyHeld, ReportInvestigation, WeighEvidence,
              Generate, FinishAnswer, TooLate
<1>6. CASE Environment
  BY <1>6 DEF Environment, Cancel, Deadline
<1> QED BY <1>4, <1>5, <1>6

\* As long as the turn goes on nothing of it is stored.
LEMMA StoreWaits ==
    ASSUME StoreInv, pc # "done", UNCHANGED storeVars
    PROVE  StoreInv'
<1>1. row = "running" /\ citations = <<>> /\ toStore = <<>>
      /\ UNCHANGED <<row, state, citations, toStore, stored, report, faults>>
  BY DEF StoreInv, storeVars
<1> QED BY <1>1, NothingIsSeq DEF StoreInv, CitationsAreStored

LEMMA TurnInvHolds == Spec => []TurnInv
<1>1. Init => CoreInv
  <2> SUFFICES ASSUME Init PROVE CoreInv
    OBVIOUS
  <2>1. /\ pc = "profile" /\ plan = NoPlan /\ ~years /\ ~grounded /\ ~calling
        /\ calling \in BOOLEAN /\ years \in BOOLEAN /\ grounded \in BOOLEAN
        /\ toolRows = <<>> /\ invocations = <<>> /\ components = <<>>
        /\ results = [t \in Tools |-> 0] /\ outcome = "none"
        /\ taken = <<>> /\ observations = <<>>
        /\ plannerAttempts = 0 /\ sqlApprovals = 0
    BY DEF Init, TurnInit, LoopInit
  <2>2. TurnTypes
    BY <2>1 DEF TurnTypes, Points, BeforeLoop, NoPlan, Clarification, Plan, RouteType
  <2>3. LoopInv
    BY <2>1, NothingIsSeq, LimitsAreLegal DEF LoopInv, WithinLimits
  <2>4. EvidenceInv
    BY <2>1, NothingIsSeq DEF EvidenceInv
  <2>5. AnswerInv
    BY <2>1, NothingIsSeq DEF AnswerInv, AnswersRestOnEvidence
  <2>6. YearsInv
    BY <2>1, NothingIsSeq DEF YearsInv, YearsAreChecked
  <2> QED BY <2>2, <2>3, <2>4, <2>5, <2>6 DEF CoreInv
<1>2. Init => StoreInv
  <2>1. IsInjective(<<>>)
    BY DEF IsInjective
  <2> QED BY <2>1, NothingIsSeq DEF Init, StoreInit, StoreInv, CitationsAreStored
<1>3. CoreInv /\ StoreInv /\ [Next]_<<vars, storeVars>> => CoreInv' /\ StoreInv'
  <2> SUFFICES ASSUME CoreInv, StoreInv, [Next]_<<vars, storeVars>>
               PROVE  CoreInv' /\ StoreInv'
    OBVIOUS
  <2>1. CASE Turn
    BY <2>1, TurnStepKeeps, NotYetDone, StoreWaits DEF Turn
  <2>2. CASE Environment /\ UNCHANGED storeVars
    BY <2>2, EnvironmentKeeps, NotYetDone, StoreWaits
  <2>3. ASSUME UNCHANGED vars PROVE CoreInv'
    BY <2>3, NothingChanges DEF vars, turnVars, loopVars
  <2>4. CASE Kept
    BY <2>3, <2>4, KeptKeeps DEF Kept
  <2>5. CASE Store
    BY <2>3, <2>5, StoreKeeps DEF Store
  <2>6. CASE UNCHANGED <<vars, storeVars>>
    <3>1. /\ UNCHANGED vars /\ UNCHANGED <<pc, toolRows>>
          /\ UNCHANGED <<row, state, citations, toStore, stored, report, faults>>
      BY <2>6 DEF vars, turnVars, storeVars
    <3>2. StoreInv'
      BY <3>1 DEF StoreInv, CitationsAreStored
    <3> QED BY <2>3, <3>1, <3>2
  <2> QED BY <2>1, <2>2, <2>4, <2>5, <2>6 DEF Next, Over
<1>4. Init => TurnInv
  BY <1>1, <1>2 DEF TurnInv
<1>5. TurnInv /\ [Next]_<<vars, storeVars>> => TurnInv'
  BY <1>3 DEF TurnInv
<1> QED BY <1>4, <1>5, PTL DEF Spec

-----------------------------------------------------------------------------
(***************************************************************************)
(* Whatever a planner proposes and the tools return, the variables of       *)
(* answer have their types, and max_steps, max_tool_calls, the retries of   *)
(* the planner and the SQL approvals of a run are never exceeded.           *)
(***************************************************************************)
THEOREM TurnTypeCorrect == Spec => []TypeOK
<1>1. TurnInv => TypeOK
  <2> SUFFICES ASSUME CoreInv, StoreInv PROVE TypeOK
    BY DEF TurnInv
  <2>1. DOMAIN toolRows = 1 .. Len(toolRows) /\ Len(toolRows) \in Nat
    BY SeqFacts DEF CoreInv, EvidenceInv
  <2>2. \A t \in Tools : results[t] \in 0 .. Len(toolRows)
    BY <2>1, RowOfResult DEF CoreInv
  <2>3. (outcome = "none") = (pc # "done")
    BY DEF CoreInv, TurnTypes
  <2> QED BY <2>2, <2>3 DEF CoreInv, StoreInv, TurnTypes, LoopInv, TypeOK
<1> QED BY <1>1, TurnInvHolds, PTL

(***************************************************************************)
(* What an answer of LangChainOrchestrator.answer shows rests on what its   *)
(* tools returned, for plans of any length: every chart on a successful     *)
(* call of its tool, every source on a search that found something, every   *)
(* tool result on a call of that tool, and an answer to a question of fact  *)
(* on a confident chunk.                                                    *)
(***************************************************************************)
THEOREM AnswersHaveEvidence == Spec => []AnswersRestOnEvidence
<1>1. TurnInv => AnswersRestOnEvidence
  BY DEF TurnInv, CoreInv, AnswerInv
<1> QED BY <1>1, TurnInvHolds, PTL

(***************************************************************************)
(* The preflight of _execute_tool_plan: no plan for given years, however    *)
(* long, calls another tool before the loaded periods are known to cover    *)
(* them.                                                                    *)
(***************************************************************************)
THEOREM YearsCheckedFirst == Spec => []YearsAreChecked
<1>1. TurnInv => YearsAreChecked
  BY DEF TurnInv, CoreInv, YearsInv
<1> QED BY <1>1, TurnInvHolds, PTL

(***************************************************************************)
(* AgentRunStore.save: however many statements fail, a run that reads       *)
(* completed after verification has every citation of its answer stored,    *)
(* and no citation is refused as a duplicate or for want of its invocation. *)
(***************************************************************************)
THEOREM CitationsKept == Spec => []CitationsAreStored
<1>1. TurnInv => CitationsAreStored
  BY DEF TurnInv, StoreInv
<1> QED BY <1>1, TurnInvHolds, PTL
=============================================================================
