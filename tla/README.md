# Formal verification of the property assistant

This directory holds TLA+ models of the repository's server (`app/`) and of
its rent-roll loader (`scripts/load_rent_roll_mysql.py`), TLC
configurations that check them on small instances, and TLAPS proofs about
them for every instance. The models are translated from the code; line
numbers of each definition are in `PROJECT.json` under `map`.

## The system

One question to the assistant is one **run**. A worker thread executes it
(`AgentRuntime.answer`), writing its progress to MySQL after every phase. A
run whose answer needs custom SQL pauses in `waiting_for_approval`; later
requests approve or reject it (`resolve_sql_approval`), and any request or a
lost client may cancel it (`cancel_run`). Answers are streamed over SSE from a
bounded buffer, and each finished turn is added to a conversation's durable
memory. Inside a run, the orchestrator has a planner choose tools, and a
bounded loop calls them through an executor with a budget, a cache, timeouts and
retries; most tools query the rent-roll tables, which a script loads from
spreadsheets. Requests share MySQL, two thread pools (streamed workers, tool
handlers) and the cancellation flag of a streamed run.

| Component | State | Operations | Interacts with | Hard behaviour |
|---|---|---|---|---|
| Agent runtime `app/agents/runtime.py` | the `AgentState` each call holds in memory | answer, resolve_sql_approval, cancel_run | run store, orchestrator, SQL executor | three programs write one row from private copies; failures in `except` clauses; restarts between statements |
| Run store `app/memory/run_store.py` | agent_runs, agent_steps, agent_checkpoints, agent_events (+ artifacts, evidence, tool invocations) | create, save, checkpoint, claim_approval, claim_cancellation, start/finish_step, record_event | MySQL | only single statements are atomic; only `WHERE` clauses synchronise |
| Run state machine `app/agents/state.py` | none | transition_agent_state | runtime | transitions are checked against the in-memory copy, not the row |
| Authorization `app/core/authorization.py`, `auth.py` | none | role, permission and property checks | all endpoints and tools | the caller who approves is not the one who asked |
| API transport `app/main.py` | per-stream generator | chat, chat_stream, approve, cancel, durable event stream | runtime, stream buffer, memory | disconnects at every await; worker and event loop race |
| Run streaming `app/services/run_stream.py` | queue, cancelled and closed flags, pool permits, registry | publish, close, get, submit, register/request | worker thread, event loop | a full queue; check-then-evict without the queue's lock |
| Conversation memory `app/services/conversation_memory.py`, `app/memory/conversation_store.py` | conversation_threads (summary, summarized_through), conversation_turns | get, add, compaction | MySQL | optimistic update, non-atomic reads, sequence ids given before commit |
| Tool executor `app/tools/executor.py` | per request: budget, idempotency cache; one pool for all | execute: registry and policy checks, cache, budget, attempts with timeout and retry | tools, loop | a timed-out handler runs on; all requests wait for the same threads |
| Agent loop `app/agents/loop.py` | actions, observations, planner attempts, approvals, deadline | plan_with_retries, request_sql_approval, run | orchestrator, executor | four limits that count different things |
| Orchestrator `langchain_orchestrator.py`, planner `llm_tool_planner.py` | one request's invocations, results, components | answer, plan execution, citations | planner models, executor, loop | a planner may propose anything; what an answer shows is collected over many calls |
| Occupancy investigation `app/agents/occupancy_investigation.py` | what its tools returned | decide, analyze, build and verify the brief | loop, repository | its queries run one after another while the tables may change |
| Rent-roll loader `scripts/load_rent_roll_mysql.py`, `sql/schema.sql`, `rent_roll_repository.py` | six tables | parse, generate SQL, run it; the queries of the tools | MySQL, tools | what a row means depends on the rows above it; DDL commits at once |
| SQL drafting and validation `sql_approval.py` | none between calls | draft, validate, execute approved SQL | LLM, MySQL | text processing |
| Retrieval `app/retrieval/` | indexes built offline | hybrid search | orchestrator | rank fusion; floating point |
| Migrations `app/db/migrations.py` | schema_migrations | run_migrations | MySQL | DDL commits before the version row |
| Rate limit, HTTP, logging, config, frontend, scripts, schema | see `PROJECT.json` | | | pure I/O or batch |

`PROJECT.json` lists every component with its status, and the hazards with
the line where each bites and the properties that would catch it.

What makes the modelled components correct:

* *Runs*: approved SQL executes at most once and only if approved; terminal
  outcomes do not change; what events report agrees with the row; a run that
  reads completed did its work; a waiting run can be resumed; a started run
  comes to rest.
* *Streams*: order is kept under eviction; the final event is not lost to
  tokens; every response ends, with the outcome when a client stays and the
  buffer has room for the end; a closed client stops its run.
* *Memory*: no turn is summarised twice, lost, or shown twice; compaction
  keeps up.
* *Replay*: a client that reconnects gets every event once and in order, and
  a run that has ended ends its stream.
* *Tools*: no permit is lost, no late answer is used, no side effect is
  repeated, the budget holds, and a hanging handler blocks nobody for ever.
* *Turns*: every turn ends; what an answer shows, cites and stores is what its
  tools returned; months that are not loaded are never answered about.
* *Rent roll*: charges belong to the unit they are printed under; a load is
  visible whole or not at all; a brief is about the decline it reports.

## Modules

| Module | Models | Notes |
|---|---|---|
| `RunStatus` | `app/agents/state.py` | statuses, the transition table |
| `Authorization` | `app/core/authorization.py` | roles, permissions, `Granted` |
| `RunLifecycle` | `runtime.py`, the run part of `run_store.py` | the core: worker, approval and cancellation requests, one step per SQL statement |
| `RunLifecycleClaims` | | statements of the README and the code's comments that the code does not keep |
| `RunContract` | | abstract specification of a run: row status, decision, executions |
| `ChatStream` | `chat_stream` in `main.py`, `RunStreamBuffer`, the registry | worker, generator, client, cancel endpoint of one streamed request |
| `ConversationMemory` | `conversation_memory.py`, `conversation_store.py` | concurrent `add` and `get` calls on one thread |
| `ConversationLog` | | abstract specification of one conversation thread |
| `RunReplay` | `durable_event_stream`, `record_event`, `list_events` | writers, a generator, a client that reconnects |
| `StreamExecutor` | `BoundedStreamExecutor` | permits of the streamed workers |
| `ToolExecutor` | `app/tools/executor.py` | executors of several requests over one pool of handler threads |
| `ToolRuntime` | | composes the two pools: a streamed worker calls tools |
| `AgentLoop` | `app/agents/loop.py` | the limits and the record of a run |
| `ToolPlan` | `llm_tool_planner.py` | what planners propose, `validate_tool_plan` (pure operators) |
| `ChatTurn` | `LangChainOrchestrator.answer` | one turn over `AgentLoop` and `ToolPlan` |
| `EvidenceStore` | `save`, `_persist_artifacts`, `_persist_citations` | what is kept of an answer, transaction by transaction |
| `RunTurn` | | composes `ChatTurn` and `EvidenceStore` |
| `RentRollFile` | `parse_rent_roll` | the one-pass parser of a sheet |
| `RentRollTables` | `generate_sql`, `run_mysql`, `schema.sql`, three queries | the loader's script against MySQL |
| `OccupancyBrief` | `occupancy_investigation.py` | policy, analysis, report, verifier |
| `RentRoll` | | composes a load and an investigation |
| `SequenceIds` | `ORDER BY sequence_id` of `list_turns` and `list_events` | the rows of a set in the order of their ids, and the members of a sequence at a set of places (`MembersAt`: what a loop collects that skips the others) |
| `RunLifecycle_proof`, `ChatStream_proof`, `ConversationMemory_proof`, `RunReplay_proof`, `ToolRuntime_proof`, `RentRoll_proof`, `RunTurn_proof`, `SequenceIds_proof` | | theorems and proofs, one module per module they are about (`ToolRuntime_proof` covers both pools, `RunTurn_proof` the turn, its loop, its plans and its evidence) |
| `MCRunLifecycle`, `MCConversationMemory`, `MCRentRoll` | | role sets, symmetry and files for TLC |

### RunLifecycle

*Atomicity.* `MySQLDatabase.execute` opens, commits and closes a connection
per call, so a step is one SQL statement with the local code after it. Each
process (the worker, each approval request, each cancellation) has a program
counter `pc`, naming the statement it runs next, and a private copy `st` of
the `AgentState`. The durable tables are `row` (agent_runs), `ckpt` (the
checkpoint of highest sequence number, the only one ever read), `steps` and
`log` (how often each event was recorded). `stepId` is the local variable that
is unassigned until `start_step` returns; `flag` is the streamed run's
cancellation event.

*Actions.* The operators `Checkpoint`, `RecordEvent`, `Save`, `StartStep` and
`FinishStep` are the store's statements; each action is one call of one of
them at one program point, so the order of the actions of a process is the
order of the code's statements. `Throw` is where an exception at a point lands
(the `except Exception` clause or the caller), `Fail` that clause, `Cancel`
the claimed cancellation, `Interrupted` the worker's
`_persist_interrupted_cancellation`. Events no property reads
(`step_started`, `verification_*`, `evidence_recorded`) are merged with the
statement that follows. The three reasons a `run_cancelled` event can carry
are told apart in `log`. Of the state's data the model keeps the status, the
step counter (to see a lost update) and the approval's status.

*Environment.* `StatementFails` lets any statement of any process raise
without effect (a lost connection, a deadlock or a duplicate checkpoint
number are such failures), `Crash` ends every running thread and keeps the
tables, both within a bound. A statement that commits and then reports an
error is not modelled.

### ChatStream

`worker` walks `run_chat`, `generator` walks `event_stream`. `publish` is one
step when the queue has room and two (find it full; evict and put) when it
does not, and so is `close`: the generator's `get` does not take
`_publish_lock`. `status` is the run's row, moved as `RunContract` allows:
what happens inside `AgentRuntime.answer` is `RunLifecycle`'s. A client that
goes away is noticed at the next `is_disconnected`, or, when the generator
hangs at its first `yield` (before its `try`), closes it (`Abandon`).
`received` records what was yielded.

### ConversationMemory

Each `add` is six statements (`EnsureThread`, `InsertTurn`, `CommitTurn`,
`GetThread`, `ListTurns`, `UpdateSummary`), of which the last three repeat at
most twice; each `get` is two. An INSERT takes its AUTO_INCREMENT id when it
runs and becomes visible at its commit, hence two steps. A summary is the
sequence of the turns folded into it, cut to its last `MaxSummary` lines as
the code cuts its last `max_summary_chars` characters. `late` and `folded` are
history variables: turns that committed after a younger one, and turns ever
written to a summary.

### RunReplay

An event's id is assigned by its INSERT and seen by readers at its commit, so
each recorded event is two steps, and two writers may commit in the other
order. The generator lists, sends and reads the status in steps of its own.
`wire` holds what was sent and not received: `Drop` loses it, and the next
`Connect` carries the last id the client received. `late`, `settled` and
`listed` are history variables that say which gaps are whose. The row's status
moves along the lifecycle table (`SaveStatus`; that a failure handler may
overwrite a terminal status is `RunLifecycle_terminal.cfg`'s), and nothing makes
it reach an end: a run may wait for an approval that never comes, or stay
`running` after a restart. The loop of `main.py:434-452` then polls for its
follower until the client goes away; there is no limit on it in the code and no
property here says otherwise.

### StreamExecutor, ToolExecutor, ToolRuntime

A stream's permit is taken before the pool accepts its worker and given back
by the done callback, after the future has its outcome: `Acquire`, `Enqueue`,
`StartWorker`, `WorkerEnds` and `ReleaseCapacity` are separate steps, and
`Shutdown` may come between any two of them. In `ToolExecutor` an attempt is a
triple (request, call, attempt number) with a future; `TimeOut` and `GiveUp`
are two steps because the pool may still take or finish the attempt between
`future.result` giving up and `future.cancel`. The registry, scope, role and
input checks that precede the cache and the budget all end in the same kind of
result and are one action, `Refuse`. A future cancelled while it waits keeps its
place in the queue, and the thread that takes it throws it away, as
`concurrent.futures` does. The event sink writes to MySQL and may raise, and
where it does decides what becomes of the call: `tool_succeeded` is recorded inside
the `try` of its attempt, so the answer is lost and the attempt counts as failed
(`LoseAnswer`: an error like any other, retried if it is transient and the
tool idempotent); `tool_started`, `tool_failed` and `tool_retried` are recorded
outside it, and their exception leaves `execute` (`RaiseAtStart`,
`RaiseAfterAttempt`; the result `raised` stands for it). In `ToolRuntime` a
request calls tools while its worker runs, and ends when no call is open or
with the call that raised.

### AgentLoop, ToolPlan, ChatTurn

`AgentLoop` keeps the counters and the lists of `BoundedAgentLoop`; its `run` is
given `decide` and `execute` by the caller, so the loop's steps are `Decide`,
`Complete`, `ActionReturns` and the failures of `ChatTurn`. `late` says that
`max_run_seconds` have passed, which may happen between any two steps.

`ToolPlan` enumerates what a language model may propose (a junk or too large
argument, a foreign tool, a repetition, an empty query, every route) and
models `validate_tool_plan`, which cleans it. A message is its *topic*: the
first text predicate it meets in the planner's order.

`ChatTurn` walks `answer`: profile, scope, branch, plan, loop, evidence,
answer. A tool call is two steps (`StartCall`, then its result), so that
cancellation and the deadline may come while the handler runs. `invocations`
are the results the request received, `toolRows` the rows the executor wrote
for them; a result from the cache repeats the id of an earlier row. A reply
is a record of its kind, the charts with the invocation each shows, the
sources and the tool results. Predicates of the message's text are choices.

### EvidenceStore, RunTurn

`save` commits the row first, then every artifact and citation in a
transaction of its own, and may be stopped at any of them; a citation whose
invocation is not a row of the run is refused, and so are duplicate ids. The
failure handler saves the same citations again and swallows what that raises.
`RunTurn` gives it the citations that the orchestrator makes of the
invocations (`CitationEvidence`, `ReportCitations`).

### RentRollFile, RentRollTables, OccupancyBrief, RentRoll

The parser reads a sheet row by row; a row is one of the kinds it tells apart
and `parse` is what its loop variables hold. The loader parses the files it is
given, generates a script (`--reset` drops first) and runs it statement by
statement: `Drop` and `Create` are visible at once, the inserts at `Commit`,
and `Abort` may come at any point. `TablesInit` ranges over every state an
earlier load can have left, tables half dropped included. An *edition* is a
file as the earlier load or as this one read it, so that queries can see
either. Files are parsed in the order of their paths (`PlaceOf`), which in the
instance is not that of their months. The market rent and the lease charges of a
summary row are those of its edition (`AmountsOf`), either of them possibly blank.

`OccupancyBrief` computes the policy, the trend analysis, the brief and the
verifier from the rows the queries returned; each query is a step, so the tables
may change between two. `Verified` has the verifier's checks of findings and
metrics, the financial ones included. Its checks of each citation by itself
(`occupancy_investigation.py:391-425`: unique id, property, chunk id,
invocation, source URL, hash) are left out: they compare the citation with the
evidence it was made from a few lines before, its id is a fresh UUID, and both
retrieval stores filter on `property_code` and return it with the chunk's id. In `RentRoll` parsing is taken before the
investigation starts: it touches nothing the investigation reads, so this loses
only reorderings of independent steps.

## Runs

A definition whose name extends another's (`CanSaveUnguarded` for `CanSave`)
is that definition with a plausible bug; each property of each passing run is
broken by one of them (`mutants` in `PROJECT.json`).

| Run | Instance | Shows |
|---|---|---|
| `lifecycle_streamed` | 2 approvals, 2 cancellations or disconnects, no faults | every interleaving: SQL at most once, completed means work done, events agree with the row, one cancellation claimed, a waiting run is resumable, cancelled is final, and the run refines `RunContract`, whose steps are those of the transition table |
| `lifecycle_faults` | 2 approvals, 1 cancellation, 1 failing statement, 1 restart | the inductive invariant of the proofs, which implies that SQL runs at most once, survives them |
| `lifecycle_liveness` | 1 approval, 1 cancellation, fairness | every run comes to rest, every decision reaches an outcome |
| `chatstream` | queue 2, 3 tokens, fairness | bound, order, survival of control events, memory before answer, every response ends, and with the outcome unless it was cancelled or evicted |
| `memory` | 3 adds, 1 get, 1 fault, MaxTurns 1, MaxSummary 2 | two attempts are enough, only late turns are passed over, no turn twice in a history, and, as the refinement of `ConversationLog`, nothing summarised twice or out of order |
| `replay` | 2 writers, 4 events, 2 lost connections, fairness | nothing comes twice or out of order, only late commits and events after the last list are missed, a run that has ended ends the stream |
| `tools` | 2 requests, 1 worker, 1 handler thread, a read and a write tool, 2 attempts, budget 1, 2 calls, a sink that raises, fairness for threads but not for handlers | permits conserved, late answers dropped, no work repeated, the budget, every request that is not refused ends |
| `turn` | MaxSteps 4, MaxToolCalls 5, 1 planner retry, 1 approval, 2 calls and 2 queries proposed, 1 failing statement | limits, evidence of every answer, years checked first, citations stored, every turn ends |
| `rentroll` | 3 rows a sheet, 2 files, 2 percentages, an earlier load that fell from 2 to 1 | loads are whole, charges follow their unit, briefs are grounded and stay on their decline |

Runs that are expected to find a violation, one documented claim
each:

| Run | Claim | What the code does |
|---|---|---|
| `lifecycle_restart` | a run can survive a restart and pause for approval | a restart between `save` and `checkpoint` leaves a waiting run nobody can resume |
| `memory_lost` | recent turns plus a summary of older ones | a turn committed late is never summarised |
| `replay_missed` | Last-Event-ID replays missed events and returns the terminal status | an event recorded between the list and the status read, or committed below the cursor, is never sent |

### Divergences

Five more claims are refuted by configurations that are no runs of
`PROJECT.json`; `tlc -config X.cfg M` shows the counterexample:

| Configuration (module) | Claim | What the code does |
|---|---|---|
| `RunLifecycle_terminal.cfg` (`MCRunLifecycle`) | README.md:665 "Failed and Cancelled are terminal states alongside Completed." | `save` guards only cancelled: a failed run is overwritten by an approval under way |
| `RunLifecycle_cancelled.cfg` (`MCRunLifecycle`) | run_store.py:276 "Atomically prevent a nonterminal run from doing more durable work." | `start_step` inserts a running step for a cancelled run |
| `RunLifecycle_stale.cfg` (`MCRunLifecycle`) | README.md:806 "Run memory retains the current plan, completed and pending steps" | `cancel_run` writes back the snapshot it read before its claim |
| `ChatStream_control.cfg` (`ChatStream`) | run_stream.py:57 "preserving control/final events over token deltas" | `close` can evict the final event (needs the client to drain the queue between two lines) |
| `ChatStream_disconnect.cfg` (`ChatStream`) | README.md:859 "The server detects closed clients, propagates cooperative cancellation" | not at the first chunk |

Smaller ones met while modelling, which no property states:

* README.md:788 says that an investigation with a decline fetches "vacancies and
  rent by unit type for that exact report month"; the policy fetches the
  rents only if the vacancies are not empty (`OccupancyBrief.Decided`).
* When `memory.add` raises, the client is told the run failed although its
  row reads completed (`ChatStream`).
* A `--reset` load that stops in the middle leaves tables missing or empty, for
  its drops are not rolled back; a second load without `--reset` is always
  refused by a unique key (`RentRollTables.Duplicate`).
* A plan that asks for a trend twice, once with the default number of months
  and once with that number spelt out, runs two actions of different
  signatures for one request: the second is answered from the cache, and the
  answer shows the chart twice.

*Why the bounds are enough.* Two approval requests are the fewest that can
compete for a claim, and with `Unstarted` including `refused` a request can
be made again after a refusal; a third adds only a third loser. Two
cancellations plus the worker make three claimants of a cancellation. One
fault and one restart at any statement reach every point where a failure
handler itself is interrupted (the restart) or every statement is the failing
one. A queue of 2 is the smallest the constructor accepts, and 3 tokens
overflow it; `ChatStream_control.cfg` uses a queue of 4, the smallest the
settings accept. With `MaxTurns = 1` two turns already compact; three adds let one
compaction lose to two others. `POST /chat` is covered by the streamed
instances: its run has no flag, and a flag may be raised as late as the run's
end.

Four events are the fewest with a late commit, a drop and events left to
replay after it, and two drops make a client resume from a resumed position.
In `tools` every resource is as scarce as the settings allow, so two requests
compete for each of them: a pool of one thread makes every hang block the other
request, two calls over a budget of one exceed it, and two attempts make one
retry. With one
worker and no pending place one of two streams can be refused, but the two never
call tools at once; `ToolRuntime_two.cfg`, kept to be run by hand because it
takes minutes (3.3 million states), has two workers, and the safety properties of
the run hold of it too. A turn that takes four actions reaches every order of the
investigation and overruns neither, one or both of the limits with the calls
made outside the loop; two calls and two queries are the fewest that can
repeat, and that make a plan hybrid in either order. Two files are a decline,
three rows make a unit, a heading and a charge in any order. The states an
earlier load leaves are all enumerated.

Deadlock checking is off where everything ends and nothing says so: the
requests of `RunLifecycle`, `ChatStream` and `ConversationMemory`, the replayed
stream, the load and the investigation. `tools` and `turn` check it, with
a final stuttering step allowed only when all is over.

*Fairness.* `FairSpec` of `RunLifecycle` has weak fairness on the worker's
steps and on each request that was accepted: a thread that runs keeps
running. It is not assumed that anybody approves, retries or cancels, and
runs with liveness have neither faults nor restarts: after a restart the
code resumes nothing, so a run that was running stays so until cancelled. In
`ChatStream` the pool thread and the event loop keep running; nobody has to
disconnect, and what `StreamEnds` says of the outcome is said of a client that
stays, a run that is not being cancelled and a `close` that finds room: a
cancelled answer publishes nothing, and the eviction of `close` may cost the
final event (`ChatStream_control.cfg`). In `RunReplay` the server runs the
generator and the network delivers. Nobody has to connect, to commit or to end
the run, and `EndedRunEndsStream` starts from a run whose row is terminal. In `ToolRuntime` threads that can run
do, and waits time out, but a handler owes nothing: there is no fairness on
`HandlerEnds`, and `RequestsEnd` holds although handlers may hang for ever.
`RunTurn` has weak fairness on the turn's steps, a tool call's return among
them, which is what `RequestsEnd` provides.

## Proofs

Each theorem holds for every value of the constants that the named
assumptions of its module allow. They say no more than that the kinds of
process are disjoint, that sets of roles are roles, that the sets whose
cardinality is taken are finite, and that bounds are natural numbers, positive
where the code's constructor insists; what `RentRoll` assumes of its
files is named below. Each inductive invariant was first checked
by TLC on the instance of the component's run (those of `RunLifecycle` on the
instances named below).

### RunLifecycle: whatever fails

* `TypeCorrect`: `Spec => []TypeOK`;
* `ApprovalClaimedOnce`: `Spec => []ApprovalInv`;
* `ApprovedSqlOnce`: `Spec => []ApprovedSqlRunsAtMostOnce`;
* `CancelledStays`: `Spec => CancelledIsFinal`;
* `OneCancellation`: `Spec => []CancellationClaimedOnce`.

`ApprovedSqlRunsAtMostOnce` is not inductive: nothing in it says who may still
execute. The inductive invariant `ApprovalInv` adds that (1) a state that is
waiting in memory is only held at points from which it cannot be saved, except
by the worker's final save, and once the row has been waiting the worker is
past that save (`WaitingIsWrittenOnce`); so the row becomes waiting once, the
claim's `WHERE` clause succeeds once, and (2) at most one request is between
its claim and the executor, with the decision it carries and nothing executed
yet (`ClaimIsExclusive`). `ApprovalInv` is what TLC checks in
`lifecycle_faults`. The proof has one lemma per group of actions
(`QuietStep` for those that touch neither the claim nor a waiting state).

One cancellation needs `CancelInv`: a process between its claim and its report
means that the row is cancelled and nothing is reported yet, and there is one
such process at most. It rests on `CancelledStays`: the claim fails on a
cancelled row, which stays one.

### RunLifecycle: as long as no statement has failed

These properties are false once a statement may fail (the failure handler
overwrites what others saved), so they are stated of the states with `faults =
0`; any requests and, unless said otherwise, any restarts are allowed.

* `CompletedRunsDidTheirWork`: `CompletedMeansWorkDone`;
* `ReportedOutcomesHold`: `OutcomeEventsMatchRow`;
* `WaitingRunsCanResume`: `WaitingRunIsResumable`, also before any restart: after
  one it is false, which `lifecycle_restart` shows;
* `RunImplementsContract`: with `MaxFaults = 0`, `Spec => ImplementsContract`.

Every process saves a whole copy of the state, so all four depend on how far
a copy can be behind the row. `CleanInv` says it for each point of each program,
while the row is not cancelled: `WorkerCopy` and `ApproverCopy` give the status a
process holds and those the row may have meanwhile, `OutcomeIsSaved` that a
process about to report an outcome has saved it, `OneResolves` that one approval
at most is under way, `WorkerIsOver` that the worker writes no more once the run
has waited, `WorkIsDone` that its step has succeeded by then, and `Resumable`
that the checkpoint of a waiting run is written or about to be. Each step is
seen twice: by the process that takes it (its own next point) and by the
others (`RowMoves` says what a step may do to a row that somebody else holds a
copy of, `OthersKeepView` that their views bear it). `CleanInv` was checked by
TLC with two approvals, two cancellations and a restart (1.3 million states).
The refinement then maps each action to one step of `RunContract` or a stutter:
`MayWrite` says which save moves the row along which edge of the table.

### ChatStream

For every queue size and any number of tokens:

* `StreamTypeCorrect`: `Spec => []TypeOK`, the bound of the buffer included;
* `StreamOrder`: `Spec => []StreamIsOrdered`;
* `ControlKept`: `Spec => []ControlSurvivesTokens`;
* `FinalFollowsMemory`: `Spec => []FinalMeansRemembered`.

Order is not inductive: it does not say that what the worker publishes next is
new. `NothingAhead` adds that no item in the stream ranks above what the worker
has published so far. Each step is then one of three kinds, each with a lemma:
it leaves the stream alone (`QuietStep`), publishes behind the queue or its tail
(`PublishingStep`, on `AppendKeepsOrder` and `TailKeepsOrder`), or moves the
oldest item to the client (`GetStep`). `FinalMeansRemembered` needs only that
whoever holds the final event, the worker about to publish it or the queue, does so
after the turn was stored (`MemoryFirst`).

### ConversationMemory

For any number of `add` and `get` calls and any `max_turns`:

* `MemoryTypeCorrect`, `PromptsNeverRepeat` (`HistoryNeverRepeats`),
  `OnlyLateTurnsSkipped` (`OnlyLateTurnsAreSkipped`);
* `MemoryImplementsLog`: `Spec => ImplementsLog`, with failing statements;
* `CompactionSuffices`: `Spec => []CompactionCatchesUp`.

A prompt is put together from two reads with updates between them. It repeats
nothing because a summary always leaves `MaxTurns` turns above it
(`SummariesLeaveTurns`), so the turns listed afterwards, at most that many,
are above it even if turns were added; and because `summarized_through` only
grows, the optimistic `WHERE` compares all of the summary it was read with
(`SeenIsOlder`). `FoldsHaveNoGaps` says that what an update folds has no holes
but late turns. From these, an `UPDATE` that takes effect is a step of
`ConversationLog`, and everything else a stutter.

That two attempts are enough is the argument of `CatchUpInv`: a call can lose to
an update twice only if the second one was made by a call that stored its turn
after the first (a `Newcomer`), which therefore reads again what is left. So
whenever more than `MaxTurns` turns are unfolded somebody will still compact
(`SomeoneCompacts`), and whoever's update succeeds leaves few enough, or a
newcomer (`UpdatesSuffice`).

### RunReplay

For any number of writers, events and lost connections:

* `ReplayTypeCorrect`, `ReplayOrdered` (`ReplayIsOrdered`),
  `OnlyLateEventsMissed` (`OnlyLateEventsAreMissed`).

`ReplayInv` treats what a connection has received, has on the wire and is
about to send as one flow that ascends (`FlowAscends`), with the cursor at the
last event sent (`CursorIsLastSent`), and with no gap below any of its events
but the late ones (`FlowHasNoGaps`). The events of the last list are in that
flow or received when the status is sent (`ListedIsSent`, `StatusComesLast`).

`SequenceIds_proof` proves of `ORDER BY sequence_id` what both modules need:
`InOrderListsRows` (every row of a finite set once) and `InOrderAscends`; from
them follows `MembersAtPlaces`, what a filter keeps of a sequence of any length. Counting
rows up to a given one is injective (`PlaceGrows`) and takes every place
(`EveryPlaceIsTaken`), so no induction over a sequence is needed.

### ToolRuntime

For any number of requests, tools, attempts, calls and threads:

* `ToolRuntimeTypeCorrect`;
* `PermitsAreConserved`: `Spec => []PermitsConserved`;
* `LateAnswersDropped`: `Spec => []LateAnswersAreDropped`;
* `WorkDoneOnce`: `Spec => []WorkIsNotRepeated`;
* `CallsWithinBudget`: `Spec => []BudgetBoundsCalls`.

Permits are conserved by themselves once holders are a finite set. The other
three are about attempts that outlive their call: `ToolInv` adds that a future
exists only for calls and attempts made so far (`CallsInOrder`), that a call
with more than one attempt is one of an idempotent tool without a cached
result (`CallUnderWay`), and that the success of an idempotent tool is in the
cache for good (`SuccessesAreCached`). What has been called is settled
(`PastKept`): a late handler changes its own future and nothing a request reads.
The count of a request may exceed its calls that reach the pool by those whose
`tool_started` event raised (`RaiseAtStart`), so the invariant bounds and does not
equate them.

### RunTurn

For plans of any length, any limits, any answers of the tools and any number of
failing statements:

* `TurnTypeCorrect`: `Spec => []TypeOK`, the four limits of the loop included;
* `AnswersHaveEvidence`: `Spec => []AnswersRestOnEvidence`;
* `YearsCheckedFirst`: `Spec => []YearsAreChecked`;
* `CitationsKept`: `Spec => []CitationsAreStored`.

What a tool returned early is used much later, so the invariant `TurnInv`
follows it on its way. `EvidenceInv`: an invocation is told by its id, a call that
is under way and not answered from the cache has a row of its own, and what a
result names as its origin is there (`Succeeds`, which no later step can undo:
`SucceedsStays`). `AnswerInv`: every chart collected so far, and a grounding found
confident, has its evidence already. `YearsInv`: when years are asked about, the
preflight is the first action wanted and taken, and a second action is taken
only when an invocation says that the periods cover them. `LoopInv` says how
many observations the loop has at each of its points, `TurnTypes` what a plan
may look like there. These five are `CoreInv`, kept by one lemma per action;
most actions need only that they change neither the evidence nor the answer
(`MovedOn`, `MovedAlong`). `StoreInv` says of the second half that the
citations are rows of the run, each once, and that each is stored or waits in
`toStore` until the run completes: a citation is refused only when its
invocation is no row, which the evidence excludes (`CitationEvidenceIsKept`,
`ReportCitationsAreKept`).

Of the planners the proof needs that a plan stays a plan after
`validate_tool_plan` (`ValidatedIsRunnable`, `PlansRun`), and that the preflight
precedes all planned actions (`PreflightIsFirst`). Both are about filters, which
the model states as the members at the places that pass (`MembersAt`).

### RentRoll

For any files, sheets of any length, percentages and earlier loads:

* `LoadsSeenWhole`: `Spec => []LoadsAreWhole`;
* `ChargesFollow`: `Spec => []ChargesFollowTheirUnit`;
* `BriefsGrounded`: `Spec => []BriefsAreGrounded`;
* `BriefsOnTheDecline`: `Spec => []BriefsStayOnTheDecline`.

That two tables agree says nothing of how they came to. `WholeInv` adds that no
table shows a row of this load before its commit and every table shows all
of them after it (`CommitIsTheOnlyWay`), and, for that commit to be whole, that
while the script runs a table's rows are either pending or still to be
inserted by the rest of it (`NothingIsSkipped`), which rests on the script's
type (`StatementsType`, `EndOfConcatenation`). One lemma per statement kind
keeps it.

The parser keeps one open unit in a loop variable; the property speaks of the
page, where a charge belongs to the nearest unit above it with no section,
unit or heading between. `FileInv` connects the two: the mode is the part of the
page (`ModeIsPlace`), the open unit is the one nothing has closed yet
(`OpenUnitIsNearest`), every unit row has its unit (`UnitsAreUnitRows`), and each
unit has collected the charges below it so far (`ChargesAreBelow`).

The two theorems about briefs rest on what the analysis makes of a trend, a
sequence of rows by month of which some have no percentage (`IsTrend`): the query
sorts as the analysis does (`SortedStays`); the usable rows are those with a
percentage, in their order (`UsableRows`); `min` over the changes finds one, as low
as any other (`LargestIsLowest`, on `LeastMember`); neighbours among the usable
rows are the rows with nothing usable between them (`NeighboursAreUsable`), so the
decline found is the largest fall (`DeclineIsLargestFall`); and if no change is
negative no later row is below an earlier one (`NeverFell`, by the least
counterexample). What the query returns is such a trend whatever the loader has
done (`AnswerIsTrend`), because a table shows only editions that were read
(`JoinedIsRead`, from `CommitIsTheOnlyWay` and `ReportsInv`). `BriefInv` then says
of the observations that the first is the trend, that there are others only if it
has a decline (`OthersFollowDecline`), and that what is asked for next is about the
month of that decline (`AskedAboutDecline`). The verifier's checks follow one
finding at a time (`FindingIsGrounded`, `MovementIsGrounded`).

The assumptions are that percentages and months are numbers, that files are
finite, that earlier reports are lists of percentages, and that at least one month
is asked for (`months` has `ge=1` in `property_tools.py`).

### Only model-checked

* Liveness, which needs fairness and ENABLED: `RunSettles`, `DecisionSettles`,
  `StreamEnds`, `EndedRunEndsStream`, `RequestsEnd`, `TurnEnds`.

## Not modelled

* Texts: wording of answers, Markdown, the regular expressions that classify
  messages (`intent_router.py`, the planners' predicates), the tokeniser and
  validator of SQL text in `sql_approval.py`, the scores of
  retrieval. Where the control depends on them they are choices.
* The rent-roll queries beside the three of the investigation: each is one
  SELECT, a choice of `ChatTurn.DataOf`.
* The property grant of a principal and the property-scope policies: pure checks
  before a call, `Refuse` stands for them.
* The migration runner: every migration is CREATE TABLE IF NOT EXISTS, so a
  crash before its version row reruns it without effect.
* Read-only endpoints, token verification (external), the rate limiter (a hook
  that allows every request), logging, configuration, HTTP details, the frontend.
* The scraper and the evaluation judge: one-shot programs around web pages
  and a language model.
* A statement that commits and then reports an error.
* An event sink that raises, in `ChatTurn`: there it is the failure of its call
  (`ToolExecutor` has the details), whose row may in fact stay `running`.
* Between a turn's insert and its compaction a history of `MaxTurns` turns may
  miss a turn that is in neither the summary nor the recent turns; the
  repository does not say when a turn becomes part of the summary.

## Plan

What is left, in order of importance:

1. The property grant (`Authorization`) and the policies as operators used by
   `ToolExecutor.Refuse`.
2. `HybridStore`'s rank fusion as pure operators over ranks, and an abstract
   SQL validator.
