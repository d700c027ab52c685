# A verification of the tool-execution engine

This directory holds TLA+ specifications of the support-ticket agent in this
repository, TLC configurations that check them on small instances, and proofs of
the properties that matter most, checked by TLAPS for every value of the
constants. Paths below are relative to the repository's root.

## 1. The system

An agent run takes one ticket and one instruction. An LLM (or a script) proposes
an action; the policy layer judges it; the execution layer applies it to the
ticket, retrying simulated transient failures and refusing to apply the same
command twice; verification compares the ticket before and after; a tracer keeps
the story of the run. Except for the result files of the harness nothing is
persisted: tickets are values handed from node to node, and the idempotency
record, the traces and the ticket store are dictionaries in memory.

| component | source | state it keeps | operations | talks to |
|---|---|---|---|---|
| tools | `src/tools` | none (pure functions on `Ticket`) | `update_ticket_status`, `issue_refund`, `add_ticket_note`; schemas of proposals and commands | called by the wrapper and the MCP server |
| policy | `src/policy` | none | `refund_amount_rule`, `status_transition_rule`, `authorize` | called by the authorize node |
| execution wrapper | `src/execution` | `_idempotency_store`: key -> result | `execute` (lookup, attempts, run, verify, record), `verify` | calls the tools |
| agent graph | `src/graph/{state,nodes,build}.py` | `AgentState` of each run | six nodes, two routers, `invoke` | proposal source, policy, wrapper, tracer |
| tracer | `src/observability` | `_events_by_run` | `_record` and four `record_*`; `events_for_run`, `run_ids` | written by the nodes, read by API and harness |
| providers | `src/graph/providers` | scripted: a cursor; Anthropic: a client, once built | return a proposal or raise | called by the propose node |
| task API | `src/api` | one process-wide `Tracer` | `POST /tasks`, `GET /runs/{id}`, `GET /health` | builds a graph with a fresh wrapper per task |
| MCP server | `src/mcp` | `TicketStore` | `call_tool`: get, apply, put; `list_tools` | tools only: no policy, no wrapper |
| evaluation harness | `src/graph/evaluation.py` | `_TOOL_FUNCTIONS` patched for a while; result files | `run_scenario(s)`, real-provider runs, `persist_results` | builds graphs, stubs tools, injects failures |

### What is hard

* **Check-then-act.** `execute()` looks the key up (executor.py:144), applies the
  effect (:156) and records it (:176) without a lock. `build_agent_graph` invites
  callers to reuse a wrapper across `invoke()` calls (build.py:52-55), and FastAPI
  runs `create_task` on a thread pool. A client that repeats a call after a timeout
  gets into `execute()` while the first call is still there.
* **Two more unlocked pairs.** `_record` reads the length of a run's list and
  appends to it later (tracer.py:92-100); `call_tool` gets a ticket, computes and
  puts it back (server.py:135-141). What keeps the first right is that a run has
  one thread, what keeps the second right that no `await` stands between.
* **Three kinds of bad ending.** A transient failure is retried and leaves
  nothing; a verification failure is final and recorded; an exception is final
  and leaves neither a record nor a terminal node, whatever a replaced tool function
  had done before it (or before `model_validate` rejected what it returned, :157).
* **Replays and copies.** A recorded result carries the ticket as it was then, and
  a task carries the ticket as its client last saw it: both may be stale.
* **Clients that give up.** A task nobody waits for any more still goes on.
* **Untrusted input.** Rules must pass over what they cannot parse and rely on the
  schema check after them; an answer of the model may have any shape.
* **A table for the whole process.** The harness patches `_TOOL_FUNCTIONS` for
  every thread at once, and undoes it in two steps.
* **Results that are filed last.** `persist_results` makes a directory, opens a file
  and writes it (evaluation.py:260-271) when everything has been run and paid for;
  each can fail, and another run may write the same name.
* **Boundaries.** Missing, zero and negative balances, a refund of the whole
  balance, a floor at zero, the last attempt of a loop, an empty script, two files
  in one second.

### What makes each part correct

* policy: what is approved is exactly what the schema and the business rules
  allow; a denial names its cause.
* wrapper: one effect per key; no effect lost, none invented; a recorded outcome
  is final; a failure applied nothing; every call returns.
* graph: only approved effects happen; the final status follows from the
  evidence; a completed run shows its effect; every run ends.
* tracer: at every moment a run's trace is its story so far, in order, although
  recording takes two steps.
* task API: an answer agrees with the trace of its run; who reads a trace reads a
  prefix of it; runs do not mix; the paid API is only called when wanted; every
  task is answered.
* tickets of a client: refunds come out of one account, a closed ticket stays
  closed, an order repeated on one wrapper is paid twice only by calls that were
  inside `execute()` at once.
* MCP server: the store is exactly the seed with the served calls applied, as if
  each call took one step.
* harness: the dispatch table is restored on every path and results are those of the
  scenario alone until harnesses overlap; a stub never makes a run completed; who
  answers with results has all of them; a file that is whole is true.

## 2. The modules

| module | stands for |
|---|---|
| `TicketTools` | the data and the tool functions; `verify` |
| `Policy` | the two rules and `authorize` |
| `Tracer` | events and `_record` in one step |
| `ExecutionWrapper` | `execute()` as the steps of concurrent callers on wrappers |
| `IdempotentExecutor` | abstract: what a wrapper promises (one outcome per key) |
| `AgentGraph` | composition: nodes and routers over policy, wrapper and tracer |
| `TracerThreads` | the tracer alone, `_record` in its two steps, for threads |
| `EventLog` | abstract: a log per run, appended to in one step |
| `AnthropicProvider` | how an answer of the model becomes a proposal |
| `TaskApi` | composition: tasks on threads over the graph, the provider and the tracer, with readers |
| `TicketDesk` | composition: a client that threads one ticket through runs of the graph, and may give up waiting |
| `RefundAccount` | abstract: the refundable amount of a ticket, spent once |
| `McpServer` | `call_tool` on the ticket store, for sessions |
| `AtomicTickets` | abstract: tickets that change in one step |
| `EvalHarness` | the harness, patches, results and files |
| `MCExecutionWrapper`, `MCAgentGraph`, `MCTracerThreads`, `MCTaskApi`, `MCTicketDesk`, `MCMcpServer`, `MCEvalHarness` | instances for TLC |
| `PolicyProofs`, `ExecutionWrapperProofs`, `AgentGraphProofs`, `TicketDeskProofs`, `TracerThreadsProofs`, `TaskApiProofs`, `McpServerProofs`, `EvalHarnessProofs` | theorems and proofs |

An operator whose comment calls it a mutant is a variant of the one after it with
a plausible bug; no specification uses it. It shows that the property it is listed
with in `PROJECT.json` can fail.

### How they correspond to the code

**Data.** A ticket keeps id, status, refundable amount and notes. Amounts are
integers. A refund command also keeps the `digits` its amount was written with:
`Decimal` compares by value, the idempotency key hashes text. `reason` stands for
the free text and the currency, which only the key reads. A proposal is a tool
name (any string) and the arguments pydantic would read from its raw dict, which
may be those of another tool or of none (`malformed`). `TargetsTicket` is
`_ensure_ticket_id_matches`; where it is false the tool raises. Results keep
status, ticket, verified and attempt. Texts of reasons and errors are left out.

**ExecutionWrapper.** One action per step of `execute()` that another thread can
come between, or that takes another branch:

| action | executor.py |
|---|---|
| `Call` | entry, `max_attempts < 1` raises (139-140); computing the key touches nothing shared |
| `LookupHit` / `LookupMiss` | 144-146 |
| `TransientFailure` | 152-154 |
| `RunTool` | 156-174: the tool, the round trip through JSON, `verify`, the result |
| `ToolRaises` | an exception of line 156, before the tool did anything or after, or of line 157 |
| `Record` | 176-177 |
| `Exhaust` | 179-183 |
| `TakeResult` | the caller goes on; the call's locals are gone |

`request[c].should_fail` says whether the caller gave a predicate; if it did, it
may answer either way on each attempt, so `ShouldFail = {TRUE}` covers the calls
without one. Tools in `Stubbed` have been replaced in `_TOOL_FUNCTIONS`, as the tests
and the harness do: a stub returns any ticket of `StubReturns`, or it raises, or it
returns what is no ticket, and when it does either of these it may have done its work.
The tool functions of the code raise before they do anything and always return a
ticket. `ran` is a history variable: how often a tool function ran for a key and
returned a ticket. `unrecorded` is another: the keys for which one may have run before
the call raised.

`Overlap` is an assumption about the callers of one wrapper and nothing the code sees
to: it has no lock and no queue. TRUE lets threads come as they like. FALSE says that a
call starts only when no other is in progress on its wrapper. Of the runs,
`wrapper_serial` and `wrapper_spelling` make it, and `graph_shared` and `wrapper_lost`
of the further configurations; every other one has TRUE. A theorem that needs it says
so (`OneCallPerWrapper`).

**AgentGraph.** A run is a caller of the wrapper with the same name. Each node is
an action: `propose_node`, `authorize_node`, `mark_*_node`; `execute_node` is the
call, the wrapper's steps while it waits, and the return or the exception.
`invoke()` starts a run once. The trace entry, the state update and the routing of
a node are one step: a run has its own `run_id` and its own thread, the state is
local to it, and `TracerThreads` shows that recording is as good as one step then.
`ProposeRaises` is an exhausted script or a failed API call. `WrapperOf` decides
whether runs own their wrapper or share one.

**TracerThreads.** `Build` is tracer.py:92-99 (`setdefault`, then the event with
the length as its number), `AppendEvent` line 100. `recorded` is a history of the
numbers a thread was given. `events_for_run` and `run_ids` are the two readers.
The refinement mapping to `EventLog` leaves the pending events out.

**TaskApi.** A task is a run of `AgentGraph` with a wrapper of its own. `Refuse`
and `Accept` are app.py:90-103, `ProposeScripted` is a request that carries its
proposal, `ProposeWithModel` an answer of the model, `ModelFails` and
`AnswerRaises` an SDK call or a parser that raises; `ContinueRun` is the rest of the
graph, `Respond` and `RespondError` the two ways `create_task` ends, `get_run` a
read of the trace at any moment. `seen` keeps what was read last, `sdk` and
`answered` are histories of clients built and answers received. The API key of the
environment and `app.state`'s injected client are fields of a request, so every
combination occurs.

**AnthropicProvider.** An answer is its content: nothing, a sequence of blocks, or
a value that cannot be iterated over. The first well-formed tool use is the
proposal.

**TicketDesk.** The desk is outside the repository: it uses the runs as the fields
of a task and its answer intend. `Submit` sends the ticket it has, `Work` is a step
of a run, `Collect` files the ticket of a completed run, `GiveUp` stops waiting
while the run goes on. Three histories: `paid` is what the tool function paid out,
`applied` the runs it was applied for, `met` the pairs of runs that were inside
`execute()` on one wrapper at the same time.

**McpServer.** `Refuse` is an unknown tool, bad arguments or an unknown ticket
(server.py:130-137), `Lookup` the read of the ticket, `ToolRaises` and `Serve` what
follows. `OneLoop` says that all sessions run on one event loop, where a handler
runs from its read to its write without giving way (`MayRun`). `refunded`, `noted` and
`served` are histories.

**EvalHarness.** A harness is a thread that runs a list of scenarios: `Start` or
`Skip` (no API key), then for each scenario `Begin` (a provider, patch.dict's copy),
`Patch`, `Invoke` or `ProviderRaises`, `Clear` and `Restore` (patch.dict undone, on
both paths), `Check` or `Propagate`; then `Return` or `persist_results`, which is
`NameFile`, `OpenFile` (what was in the file is gone), `WriteFile` or, from either of
the last two, `PersistRaises`: no results, and perhaps part of them in the file. Two
writers of one name leave the one's file, the other's, or a mixture that is not whole.
`Tick` moves the clock by a second. `overlapped` is a history: two harnesses have been
busy at once. `patch.dict` is external. A run of the graph is one
computation here (`Final`): a scenario has its own wrapper and tracer, so the table
is all it can share. `used` is a history: proposal and table entry of each run.

## 3. The runs

| run | instance | what it shows |
|---|---|---|
| `wrapper_serial` | 2 callers that never overlap, 1 wrapper, a command of each tool, 2 tickets, `max_attempts` 0 or 2, a refund stub that returns any of 3 tickets or raises | one effect per key; no effect lost; successes of each tool show their effect; recorded outcomes final; failures applied nothing; calls return; the abstract executor is implemented |
| `wrapper_overlap` | 3 callers at once, 1 command | what survives overlap: an effect is repeated only as often as calls overlap |
| `wrapper_spelling` | one refund written with one and two zeros | **violated**: `EqualAmountsHashAlike` |
| `graph_run` | 1 run; 19 proposals (refunds -1..3, every status, notes, other ticket, wrong schema, unknown tool); 10 tickets (every status; balance none, -1, 0, 2); refund and status tools that may return any ticket or raise | policy, execution, status and trace agree; a completed run shows its effect whatever the tools do |
| `graph_terminal` | 1 run, no transient failure, provider never raises | **violated**: every run reaches a terminal node |
| `tracer_own` | 3 threads with a run each, 2 records | numbers are positions; recording in two steps implements the log; a listed run gets its event |
| `api_tasks` | 2 tasks at once, 6 requests (scripted good, denied and for another ticket; without proposal: no key, key, injected client), 8 answers of the model, reads at any moment | answers, traces and reads agree; tasks do what they were asked; the paid API is called when wanted; every task is answered |
| `desk_fresh` | 1 ticket of balance 3, 3 runs one after the other with a wrapper each, 7 proposals, transient failures | the balance on file is exact; closed stays closed; the refund account is implemented |
| `desk_retry` | the same ticket, 3 runs on one wrapper, one order of 2, timeouts at any moment, a repeat may enter `execute()` while the first call is in it | the order is paid twice only by calls that met in `execute()`; it is paid once and the ticket on file is right as long as none did; the desk is answered |
| `desk_timeout` | the same with a wrapper for each request | **violated**: `PaidWithinEligibility` |
| `mcp_loop` | 2 sessions on one loop, 12 calls (unknown tool, bad arguments, no such ticket, a ticket stored under another id, balances of 3, none and -1), 4 calls served | the store is the seed with the served calls applied; calls are atomic |
| `eval_harness` | 2 harnesses, in turns or at once, 5 lists of two scenarios (the default ones; stubs that idle or raise; another ticket; an empty script), scripted and against a model, files whose writing may fail | stubs, one's own or another's, never complete a run; results that are answered are all there; whole files are true; tools restored and results those of the scenario alone until harnesses overlap; harnesses end |

Further configurations lie here for the questions next to these. They run the same
way (`tlc -config X.cfg MC...`):

| configuration | module | outcome |
|---|---|---|
| `graph_shared` | `MCAgentGraph` | holds: two runs that take turns on one wrapper, commands repeated on a ticket that changed: status, trace, authorization and replays stay right, every run ends |
| `tracer_shared` | `MCTracerThreads` | holds: if two threads did record for one run, no event would be lost and what was read stays, but numbers may repeat |
| `mcp_threads` | `MCMcpServer` | holds: a store shared by two loops loses updates and invents none |
| `wrapper_lost` | `MCExecutionWrapper` | violated: `RunsAreRemembered`, for a stub that works and then raises |
| `wrapper_overlap_once` | `MCExecutionWrapper` | violated: `AtMostOnce`, for calls that overlap |
| `desk_overlap` | `MCTicketDesk` | violated: `PaidWithinEligibility`, with one wrapper and one order whose repeat overtakes the first call |
| `desk_reused` | `MCTicketDesk` | violated: `PaidWithinEligibility`, with one wrapper for several orders |
| `graph_note_check` | `MCAgentGraph` | violated: a completed note run added its note |
| `tracer_listed` | `MCTracerThreads` | violated: a listed run has an event |
| `api_no_event`, `api_unparsable` | `MCTaskApi` | violated: every task leaves an event; every answer becomes a proposal |
| `eval_leak`, `eval_same_second`, `eval_turns` | `MCEvalHarness` | violated: `StubsStayInTheirScenario`, for harnesses that overlap; runs keep their files; scripts are played to the end |

**Bounds.** The state of a wrapper is per key, and keys do not affect each other,
so a command of each tool on one ticket id already combines a hit, a miss, a stub that
misbehaves and an exception. Two callers are enough for every interleaving of two
calls, the third adds a late arrival between another's lookup and its record.
`max_attempts` 2 has a first, a last and an exhausted attempt; 0 is the refused
argument; the graph uses the code's default 3. Amounts -1..3 around a balance of
2 lie below, at and above the limit and on both sides of the schema's bound. The
graph of a run is a DAG and a run is one `invoke()`, so the graph, API and desk
runs need no bound on their length; they end, and deadlock is therefore not checked
in them. `MaxRecords` (2) bounds the events of a thread: the second is the first
whose number depends on another. Tasks share nothing but the tracer, so two show
all that tasks can do to each other. Three orders are enough to pay a ticket of 3
too often in more than one way. `MaxServed` (4) lets a refund reach the floor and
go below what was left, with a note in between; it stops the run, as `MaxTime` (2
seconds) and the fixed lists do in the harness. No symmetry is used.

**Fairness.** Weak fairness for each thread: `execute()`, once entered, keeps
being scheduled, and so do the thread inside `invoke()`, the thread that serves a
task, the thread of a harness, and a thread inside `_record` (only its append is
fair: nobody need record). Nothing obliges anybody to call, to post a task, to read
or to give up; the clock need not move. The desk takes an answer that is there. A
proposal source is assumed to answer or raise (the scripted one does; the SDK has a
timeout). Transient failures need no fairness: the loop counts. Under
`Overlap = FALSE` a run may find the wrapper busy; it is left idle again since every
call returns, and with finitely many runs weak fairness of a run suffices.

### What disagrees with the texts

By a run:

* `wrapper_spelling`: executor.py:63-65 says an amount is hashed by value; it is
  hashed as it was written, so `20.0` and `20.00` are two commands.
* `graph_terminal`: build.py:3-7 says every path reaches a terminal node; a
  proposal for another ticket is approved, raises in the tool and leaves
  `invoke()` as an exception with no `run_finished` event.
* `desk_timeout`: README.md:116-118 says the in-process idempotency check closes
  the duplicate-effect risk on retry after timeout "for free". `create_task`
  (app.py:101) builds a wrapper for each request, so a repeated task finds no record
  and pays again; One wrapper for both would not be enough:
  `desk_retry` shows that it helps exactly when the repeat comes in after the first call
  has recorded.

By the further configurations:

* `wrapper_overlap_once`, `desk_overlap`: the same claim, with one wrapper: the check
  helps once the first call has recorded, and not while it is in progress.
* `wrapper_lost`: executor.py:81-83 says the store has the commands whose tool function
  has run; a replaced function that does its work and raises, or returns no ticket, has
  run and is not in it. The tool functions of the code cannot do that.
* `desk_reused`: build.py:52-54 invites reuse of a wrapper; an order that is
  repeated after others is answered with the ticket from before them, and a client
  that files it is paid more than schemas.py:83-86 calls the maximum.
* `graph_note_check`: verification.py:12-15 says the expected ticket is re-derived
  and compared; for notes it is only asked whether the text is there.
* `tracer_listed`: tracer.py:133 says that listed runs have an event; the list is
  made before the event.
* `api_no_event`: app.py:120-121 says every run leaves an event; one whose model
  call fails leaves none.
* `api_unparsable`: anthropic_provider.py:83-87 says the parser never raises; it
  iterates over whatever the content is.
* `eval_leak`: evaluation.py:55-58 says a patch lasts for its scenario's run; of two
  that overlap, the one that ends last restores the other's stub for good.
* `eval_same_second`: evaluation.py:253-256 says files never collide; their names
  have a resolution of one second.
* `eval_turns`: evaluation.py:51-53 speaks of multi-turn scripts; the graph asks
  once.

By reading: state.py:83-87 describes `retry_count`, which nothing ever writes.

## 4. The proofs

All theorems are checked by `tlapm` to the last leaf. They assume what the named
ASSUMEs say of the constants: `None` is no number, key, result or authorization; the
commands, tickets and stub results are well typed; every well-formed proposal is
among the commands; the default 3 is among the numbers of attempts; tasks have a
wrapper each, contents of answers are sequences and every parsed one is a proposal;
what a tool or a stub makes of a desk's ticket is among the tickets (`TicketsClosed`)
and `None` is no run of it; lists of scenarios are not empty.
Tickets, commands, callers, wrappers, proposals, stubs, threads, sessions and harnesses
are otherwise arbitrary, and there may be infinitely many (where callers
must be finitely many the theorem says so).

* **PolicyProofs**, facts about operators. `ApprovalIsPermission`: `authorize` is
  the conjunction of the schema and `Permitted`, although the rules defer on what
  they cannot parse; `DenialsHaveACause` says the converse of denials.
  `CorrectToolsAreVerified` and `IdleToolsAreCaught`: verification accepts the real
  tools and, after an approved refund or status change, rejects an untouched ticket.
  The second needs the policy, which rules out refunds of zero and moves of a status
  to itself.
* **ExecutionWrapperProofs**. `TypeOK` is inductive because it also says what a
  caller's position implies of its request and result. `EffectsAccountedFor` is
  inductive next to it, and so is `OutcomesShow`: every success on record or on its way
  shows the effect of its command on some ticket with its id, and on the caller's own
  ticket until it is recorded. `AnswersShowTheEffect` follows. Neither needs to know
  whether calls overlap. `AtMostOnce` is not: it needs to know that a caller in the loop has
  `ran = 0` for its key, which holds because nobody else is between a lookup and a
  record. `SerialExecution` says that, and `Serial == SerialExecution /\ AtMostOnce`
  with `EffectsAccountedFor` and `TypeOK` is the inductive invariant
  (`InductiveSerial`) under `OneCallPerWrapper`: calls do not overlap, or each caller
  has a wrapper of its own. A step keeps it if after the step no two calls are inside
  (`NextAlone`), which the assumption guarantees and the proofs about a desk use without
  it. From it follow `RecordedIsFinal` and
  `FailureAppliedNothing`, as action properties.

  `WrapperImplementsExecutor`, from the same assumption. A key is asked for while its
  caller is inside `execute()`, and settled from the moment the tool ran, one step
  before it is recorded; `Serial` makes that pending outcome unique
  (`PendingIsUnique`) and says that nothing is settled for a caller in the loop
  (`SettledAtStages`). Then `RunTool` is `TakeEffect`, `LookupHit` and `Record` are
  `AnswerOutcome`, `Exhaust` is `AnswerFailure`, `ToolRaises` is `Raise`, and
  `LookupMiss` and `TransientFailure` cannot be seen.

  `RepeatsAreBounded` is what remains when calls do overlap, for finitely many
  callers. The bound on `ran` is not inductive; `RunsCounted` is: before the first
  record of a key its runs are the callers about to record, and after it the runs and
  the callers still in the loop are together at most all callers.

  `CallsDoAdvance` is the half of `CallsReturn` that needs no fairness: `StepsLeft`
  falls with each step of `execute()`, is `max_attempts + 3` at most, and nobody else
  raises it. The other half, that the thread goes on, is the fairness TLC assumes.
* **AgentGraphProofs**. `GraphStepIsWrapperStep`: every step of the graph is a step
  of the wrapper or leaves it alone, so the wrapper's invariants, at most one effect
  per key, the bound under overlap and the refinement carry over (`GraphSerial`,
  `GraphRepeatsAreBounded`, `GraphImplementsExecutor`).
  `CallsFollowApproval` and `GraphTypeOK` are inductive together. `TrustBoundary`
  (`OnlyAuthorizedEffects`) then needs two facts: an effect is added only for the
  key of a run in its execute node, and an approval, once given, stays in the
  state of its run. It holds for any number of runs and wrappers and under any
  overlap. `RunEvidence` says what each node implies of the state of its run; it is
  inductive, and `StatusTellsTheOutcome` and `DeniedRunsNameTheirCause` are read off
  it. `CompletedRunsShowTheEffect` assumes `OwnWrappers`: with a wrapper of its own a
  run cannot be handed another ticket's result (`OwnRun`), so its result is verified
  against its own ticket. `ReplaysDoAgree` assumes `OneCallPerWrapper`: the result of a run
  that executed is the one recorded for its key (`RunsAreRecorded`), and records are
  final. `TracesTellTheirRuns`: `RunTrace` says for each node which events there are
  by then and what each carries. `RunsDoAdvance` does for `RunsEnd` what
  `CallsDoAdvance` does for calls: `StepsToGo` falls with each of the at most 11 steps
  of a run, which needs that the graph asks for three attempts (`ThreeAttempts`).
* **TicketDeskProofs**. `DeskRunsTheGraph`: what the desk files can be submitted
  again (`Resubmittable`, inductive with `GraphInv` and `Evidence`), so every step of
  the desk is one of the graph or leaves it alone; the trust boundary and
  `ReplaysAgree` carry over. The money is right under either of two uses.

  `FreshDesk`: each run has a wrapper of its own, the desk waits for every answer and
  no tool is replaced. `FiledBalanceIsExact` speaks of moments between tasks only, and
  while a run is under way its refund may have been paid and not yet filed. `LeftOver`,
  the balance with the success that is on its way, closes that gap: `Balanced` says
  that it is the first balance less what was paid, and not negative once something was
  paid. It is inductive with `OneAtATime` (nothing but the awaited run moves, on the
  ticket on file) and `ExactEffect` (a success on its way is the permitted command
  applied to that ticket): together `FreshInv`. `FiledBalancesAreExact`,
  `FreshDeskPaysWithinEligibility`, `ClosedTicketsStayClosed` and the refinement
  `DeskImplementsRefundAccount` follow from it.

  `DoublePaymentsMeet` assumes nothing of the desk, its wrappers or its tools. `met` has
  every pair of runs that is inside `execute()` on one wrapper (`MeetingsAreKnown`). A
  run whose tool ran keeps its key, and from then on its outcome is on record or it is
  about to write it; so a run with the same key that is in the loop nevertheless has met
  it (`AppliedRuns`), and the two can be paid only as such a pair.

  `RetryDesk`: one order, repeated on one wrapper with the code's own tools, while the
  desk may give up at any moment, so that any number of runs are under way. `OneOrder`
  says that the tickets in use are the first one and, only once the order is on record,
  the one it makes of it, and that `paid` is the order's amount from the moment the
  tool ran. With the graph's invariants and `Serial` it is `RetryInv`, which lasts until
  two runs meet: `MeetInv` is `met = {} => RetryInv` next to `MeetingsAreKnown`, and it
  is inductive because a step after which nobody has met is one `NextAlone` applies to.
  `RepeatedOrdersAreExact` follows. Once calls do meet, more can be paid
  (`desk_overlap`); with several orders on one wrapper (`desk_reused`) and with a wrapper
  for each request and timeouts (`desk_timeout`) too: the hypotheses are needed.
  `DeskReplaysAgree` is the one theorem about the desk that assumes `OneCallPerWrapper`.
* **TracerThreadsProofs**. `TracesGrow` holds whatever threads do. Under
  `OneThreadPerRun` a pending event has the number that will be its position, which
  makes `SequenceIsPosition` inductive and every append a step of `EventLog`.
* **TaskApiProofs**. A step of the API is a step of the graph or leaves it alone, by the
  way `TaskApi` is written (the lemma `TasksAreRuns`), so that whatever `AgentGraphProofs` shows holds of tasks, the
  trust boundary among it (`TasksRespectTheTrustBoundary`). A task has its own wrapper
  (`TasksOwnTheirWrappers`), hence no effect twice within one task and completed tasks
  that show their effect (`TaskEffectsHappenAtMostOnce`, `CompletedTasksShowTheEffect`).
  With `AllAsked`, which ties the ticket and the proposal of a run to its request or to
  an answer of the model, that gives `TasksAreServedAsAsked`. `ApiInv` joins the
  graph's invariants, `RunEvidence`, `RunTrace` and `ApiTypeOK`; next to it,
  answers are those of a run that has ended (`Answered`), of which `RunTrace` and
  `RunEvidence` tell the trace; what was read is a prefix of what is there
  (`AllRead`), since nodes only append and nothing follows `run_finished`.
* **McpServerProofs**. Under `OneLoop` a held ticket is the stored one
  (`HandlersAlternate`), so a `Serve` applies its command to what is in the store: it
  implements the one step of `AtomicTickets`, and `StoreTellsTheCalls` is inductive
  by arithmetic on the floor at zero. Without the assumption
  `SharedStoreIsGrounded` bounds what can be lost.
* **EvalHarnessProofs**. `HarnessInv` says what the stage of a harness implies of its
  locals. `StubsNeverComplete` uses `IdleToolsAreCaught`: a stub that idles is never
  verified after an approval. It and `OutcomesAreWhole` hold under any overlap, and so
  does `FilesAreTrue`: by `FilesFit` a whole file is its writer's results, and a writer
  that shares its name with nobody finds what it left. `ToolsComeBack` and
  `ResultsDoNotLeak` hold until harnesses overlap: by `Turns` at most one harness is
  busy, the table is what its stage says, and its copy is the real table.

**Only model-checked.** Liveness (`CallsReturn`, `TasksAnswered`, `DeskIsAnswered`,
`HarnessesEnd`, `ListedRunsGetEvents`, and `RunsEnd` of `graph_shared`): the prover
does not do liveness under fairness; the two theorems on advancing prove that the work
is bounded, not that it is done. Every other property of a passing run in the table
above is stated by a theorem. Of the further configurations, `SharedRunsKeepEvents`
is only checked.

## 5. Not modelled

Texts (reasons, errors, prompts, tool definitions, reports, the layout of the JSON
files); timestamps other than those in file names; fields of a ticket that nothing
reads; `conversation_history` and `retry_count`, which nothing writes; Decimal's
28-digit context; package re-exports, which have no state; `GET /health` and
`list_tools`, which answer constants.

External, and modelled only as the code uses it: LangGraph (nodes run one after the
other along the edges), the Anthropic SDK (answers or raises), FastAPI (a thread for
each task), the MCP library (handlers of one event loop), `patch.dict`. Protocols,
transports and serialisation are theirs.

The API's tracer keeps every event for ever (tracer.py:89). There is no limit in
the code, hence nothing to check against one. Processes are not restarted in any
model: a restart forgets every record, trace and ticket, and the code has nothing
to recover from.
