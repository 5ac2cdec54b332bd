# TLA+ for the werewolf agent harness

This directory holds TLA+ models of the harness in `src/` (package paths below
are relative to `src/src/`), the TLC configurations that check them on small
instances, and proofs, checked by TLAPS, of what matters most about the core.
`PROJECT.json` maps every definition to the lines it models, lists the hazards of
the code and says which property watches which.

## 1. The system

The harness runs adversarial games whose seats are played by language models or
humans. An *environment* (Werewolf, or the generic Core environments such as
Cipher Council) asks *agents* for decisions through one boundary, the *decision
runtime*; a *runner* owns the lifecycle of a run and the evidence of it; the *room
manager* does the same for interactive rooms, with WebSocket clients watching.
Everything is asyncio: an interleaving point is an `await`, and every object
below may be entered by several coroutines.

| component | state it keeps | operations | talks to | what is hard |
|---|---|---|---|---|
| decision runtime `harness/decision_runtime.py` | accepted request ids, trace sequence numbers, a buffer of terminal rows, a registry of unresolved tasks | `execute`, `aclose` | calls an agent's `decide` and `on_decision_timeout` as tasks, a validator, a trace callback | concurrent calls, deadlines, tasks that ignore cancellation, caller cancellations during a grace, a callback that raises |
| core runner `harness/core_runner.py`, `environment.py` | the stage, the adopted session, owned tasks, lifecycle rows | `run_environment_run`, `run_prepared_environment_run` | plugin (`create_session`, `run`), session `close`, evidence sink, the quarantine | deadline and cancellation at every await, late sessions, cleanup failures after success |
| rules engine `game/rules.py` | `GameState`: who lives, night actions, votes, potions, queue of last words, hunters who may shoot | submit and resolve nights and votes, shots, last words | nothing: pure state machine | simultaneous effects in one night, ties, alternation of the guard |
| orchestrator `game/orchestrator.py` | phase, round, failure and progress guards, request numbers, pending termination | `run` and everything under it | rules engine, decision runtime, event and trace sinks | guards that trip anywhere in a nested schedule, the winner against the guard, queues of deaths, PK rounds |
| room manager `api/room_manager.py` | rooms, tasks, clients with queues and cursors, capabilities, history | create, join, start, act, connect, rotate, delete, restore | orchestrator, persistence, limits, server | start and rollback over awaits, connect against broadcast, slow clients, restart |
| persistence `api/persistence.py` | SQLite rows per room | save, load, delete, transactions | room manager | a crash between two writes |
| limits `api/limits.py` | windows, leases, budget scopes with reservations | `try_reserve`, `record`, prune | router, server | concurrent reservations, late settlement, pruned scopes |
| LLM router `llm/router.py` | client cache with leases, open and unresolved tasks, permits | `complete_json`, `complete_tools`, `aclose` | providers, limits | eviction of a client in use, retries, settlement after failure |
| agent actor and session `agent/actor.py`, `agent/session.py`, `agent/werewolf_tools.py` | human queue, turns of the tool loop, staged effects, memory | `decide`, `enqueue_human_action`, tool calls | router, memory, decision runtime | late human actions, several tool calls in a turn, budgets |
| Core tool actor `harness/core_llm_actor.py` | the same for Core environments | `decide` | router | the same |
| Cipher Council `environments/cipher_council` | rounds, votes, evidence | `run` | decision runtime | hidden information, quorum |
| run pipeline `harness/runner.py`, `batch.py`, `schedule.py`, `results.py`, ... | immutable specs, rows | run one after another | core runner, artifacts | balance of the schedule |
| transcript, visibility, artifacts `harness/transcript.py`, ... | append-only transcript, files | append, verify, publish | filesystem | publishing atomically |
| offline evaluation `harness/evaluation.py`, `deception.py`, `smoke.py` | none | pure functions over artifacts | | arithmetic |
| frontend `frontend/` | store, sockets | render | server | reconnects |

What each has to guarantee:

* **Decision runtime**: one terminal for each accepted request, in order of
  acceptance; a call its caller cancelled ends in no other way, though a callback
  that raises meanwhile may be what the caller gets (section 4); a late answer changes
  nothing; no task is lost from sight; every request with a deadline ends.
* **Core runner**: a run is reported completed only if everything succeeded;
  nothing it started runs on unowned; a session it adopted is closed; the
  cancellation it put off is raised; the lifecycle ends, unless the evidence sink
  never takes a row.
* **Rules**: death is final and has one reason that decides about the hunter;
  the guard alternates; an exile has a majority.
* **Orchestrator**: no phase begins when a side has won, a guard that trips ends the
  game at once or after the batch it tripped in (though a caller may then play on,
  section 4), the verdict is the one the survivors justify; every death is followed by its last
  words and shot; every round is counted; a game ends.
* **Router and budget ledger**: reservations are never more than the limit leaves
  and each is settled once; what may have reached a provider is charged; no SDK
  client is closed in use or forgotten; every call ends, within the permits.
* **Rooms**: a client sees each event of its audience once, in order and only after it
  is saved, or is told of a gap; a start happens once or is rolled back; a
  revoked capability shows and does nothing more; a verdict that was shown
  survives a restart, and only a shutdown whose cleanup failed may take a success back.
* **Seats**: a human's action answers the request it was made for; tools run for the
  decision in progress only; beliefs agree with what the seat knows; every
  request ends.
* **Cipher Council**: the verdict follows from the missions; rows, memories and
  evidence agree, in whichever order gathered requests end; a private message reaches
  its channel only; a run whose requests end comes to an outcome.
* **Experiments**: the schedule is balanced; a row tells the truth about the artifacts
  it names, whatever crashed; a batch that is resumed gets done or is refused for
  a reason.

## 2. Modules

| module | models | extends / uses |
|---|---|---|
| `DecisionRuntime` | `decision_runtime.py`: every coroutine of concurrent `execute` calls and of `aclose`, one action for each stretch of code between awaits | `DecisionLedger` by refinement |
| `DecisionLedger` | the abstract promise: requests are opened once, the n-th terminal closes the n-th request | |
| `DecisionRuntimeProofs` | theorems about `DecisionRuntime` | `TLAPS`, library theorems |
| `CoreRunner` | `core_runner.py`: one lifecycle, from the first stage to the result | |
| `CoreEnvironmentProofs` | theorems about `CoreRunner` and about `CipherCouncil`, the environment it runs | `TLAPS`, library theorems |
| `WerewolfRules` | `rules.py` as operators on a game record | |
| `Orchestrator`, `MCOrchestrator` | `orchestrator.py`: whole games, composing the rules with the schedule, requests and guards | `WerewolfRules` |
| `OrchestratorProofs` | theorems about `Orchestrator` and the rules | `TLAPS`, library theorems |
| `ProviderBudget` | the reservation ledger of `limits.py` as operators on a ledger value | |
| `LLMRouter`, `MCLLMRouter` | `router.py`: concurrent calls, provider tasks, the client cache and `aclose`, with the rooms that open and close budget scopes | `ProviderBudget` |
| `LLMRouterProofs` | theorems about `LLMRouter` and its ledger | `TLAPS`, `FiniteSetTheorems` |
| `RoomDelivery`, `MCRoomDelivery` | how a room's events reach its pages: streams, sockets, queues, capabilities, the saved row, and the reconnecting page of `frontend/src/lib/ws-client.ts` | `DeliveryLog` by refinement |
| `DeliveryLog` | the abstract promise: each audience has one log that only grows, and a reader goes through it one event at a time or is told of a gap | |
| `RoomDeliveryProofs` | theorems about `RoomDelivery`, the refinement among them | `TLAPS`, library theorems |
| `RoomLifecycle` | `room_manager.py`: create, start, run, verdict, removal, `aclose`, crash and restore of rooms | |
| `RoomLifecycleProofs` | theorems about `RoomLifecycle` | `TLAPS` |
| `AgentActor`, `MCAgentActor` | `actor.py` and `session.py`: one seat's lock, its human request and page, and the tool loop of a model | `AgentHistory`, `PrivateBeliefs` |
| `AgentHistory` | the bounded view of a session's messages | |
| `PrivateBeliefs` | `cognition.py`: the projection of a belief update onto the facts | |
| `AgentActorProofs` | theorems about `AgentActor` and `AgentHistory` | `TLAPS`, library theorems |
| `CipherCouncil`, `MCCipherCouncil` | `cipher_council/plugin.py` with the attempts and memories of `core_llm_actor.py`: a whole run | `CouncilEvidence` |
| `CouncilEvidence` | `cipher_council/evidence.py`: what the verifier recomputes from the rows | |
| `ExperimentSchedule` | `schedule.py` and `ExperimentSpec.expand_runs`: the schedule as a pure function | |
| `ExperimentBatch`, `MCExperimentBatch` | `batch.py`, `artifacts.py`: processes that run, publish, append and resume | `ExperimentSchedule` |
| `ExperimentBatchProofs` | theorems about `ExperimentBatch` | `TLAPS`, `SequenceTheorems`, `FiniteSetTheorems` |

### How state and actions correspond to the code

*DecisionRuntime.* `pc[c]` says at which `await` call `c` stands: `deciding` and
`decideGrace` are the two waits of `_invoke_with_deadline`, `hooking` and
`hookGrace` those of `_notify_agent_timeout`. `task[c]` holds the states of its two
tasks. `ticket`, `buffer` and `next` are `_request_trace_sequence`,
`_terminal_trace_buffer` and `_next_terminal_trace_sequence`; `rows` is what the
trace callback stored. `unresolved` is `_unresolved_tasks`. Each `Execute...`
action is a path of `execute` up to its first await, the `Resume` actions
(`TakeResult`, `EndDecideGrace`, `HookAnswered`, ...) are what it does when it
wakes, including the commit of the terminal row; `CallerCancels` and `CancelAgain`
are the owner's `task.cancel()`; `DecideFinishes` and `HookFinishes` are the
tasks; `Close...` is `aclose`. A timer is a choice: a deadline or grace may end at
any moment. `outcome[c]` is what the caller gets: the exception of the trace callback if
it raised while the call committed its row, also where the call was about to raise
`CancelledError` (114-123), and else what the call ended with.

*CoreRunner.* `pc` is where `_run_environment_lifecycle` stands (in a stage, in the
grace after one was given up, or at the row it is about to write) and `at` the
stage it waits for. The tasks, the adopted session, the owned
tasks, the pending cancellation and the lifecycle rows are variables. A stage
may return, raise, hang until cancelled, or ignore cancellation; a cancellation
may come at each await. A row is written by awaiting the sink (`emit_harness`), which may
take it, raise, be cancelled or never return (`AwaitsSink`). Digests and field values of
rows are left out.

*WerewolfRules.* A game is a record of the fields of `GameState` that rules read.
An operator for each engine call gives the next game; its precondition is the
conjunction of the call's checks. `Orchestrator` calls them in the code's order.

*Orchestrator.* `stage` is the place in the nested schedule of `run`. One action is
one request with its reply, or one decision of the schedule; a reply is a legal
target, `Skip`, or `Fail` (timeout, error, illegal answer), which is what
`_request_agent_decision` and the rules leave of it. `streak` is the consecutive
failure counter and `pending` the reason of a pending termination. `Abort` is the evidence
sink's request to stop, looked at where the code looks at it.

*ProviderBudget.* A ledger is the registered scopes with their counters and the
open reservations; each operator is what one method does under its lock. The
idle time after which a closed scope may be pruned is up to the clock, so any
set of prunable scopes may go. `max_scopes` is left out.

*LLMRouter.* `pc[c]` is where `_complete` stands: `queued` for the semaphore, in an
`attempt` (the wait of `_await_provider_attempt`), in the `grace` after it cancelled
its provider task, or in `backoff`. `task[c]` and `lease[c]` are the provider task of
the current attempt and the client it leases, `unresolved` is
`_unresolved_call_tasks`, and `client` is the state of each SDK client ever
constructed (its entry in the maps and its close task). `closing` is the await at
which `aclose` stands. `ProviderBegins` and `ProviderEnds` are the adapter's
coroutine, with its done callbacks; `TakeResult` and `GraceEnds` the call when it is
resumed. The attempt has a deadline (`timeout` > 0, the configured case). `begun` is
a history variable: the provider tasks that got a client, in each scope.

*RoomDelivery.* The manager's locks are held over sections without an await, so a
section is one action: `Broadcast` stages, saves and enqueues one transaction of
events, `BroadcastNotSaved` rolls it back, `Connect` captures snapshot, replay and
cut and registers the client. `conn[c]` is a socket with its handshake (`todo`), its
queue and its phase; `HandshakeSend` and `WriterSend` are its tasks. A frame that
is in a socket when it closes counts as not sent. `page[r]` is the client's
cursor and whether it still wants the stream: `AfterClose` is what `ws-client.ts` does
with a close code. (The code is taken to reach the page; an ASGI server answers
a close before `accept` with HTTP 403, and the page then retries.) `disk` is the
row; `Crash` loads it back. One event loop owns all sockets, as the service runs.

*RoomLifecycle.* `start[c]` is where a call of `start_game` stands, with the two locks it
holds; `room[r]` the object in memory, `disk[r]` its row. Of the evidence only its
length and its last status are kept. `Ending(r)` are the ways a run ends, and
`MaySave` lets any save fail. The expiry of a terminal room may come at any time.
`uncleaned` is `failure_by_room` of `aclose`, to which `CleanupFailed` adds a room whose
cleanup failed; `CloseSettles` then writes its row as failed, whatever status it had.
Clients, seat configuration, and a provider scope that fails to close are left
out, and so is the legacy `_run_orchestrator` path that `start_game` never takes.

*AgentActor.* `queue` and `deciding` are `_decide_lock`, `at` is the await at which the
decision stands. A human seat goes through `asking`, `human` and `expiring`; `asked`
is `current_human_request`, `inbox` is `human_queue`, and `page` is the request its page
shows. `RequestPhase` and `BoardPhase` are the two phases a request has (section 4).
An action that was accepted need not map to a decision (`UnmappedAction`).
A model seat goes through `head`, `model`, `sleep`, `calls`, `tool` and `grace`, with the
counters of `AgentSessionLimits` in `budget`. A handler is a task `<<request, number>>`
that may outlive its time limit and grace (`pending`). The built-in Werewolf tools
never suspend, but `ToolRegistry` accepts any handler. Trace tasks, private traces
and the legacy `_call_with_retry` are left out.

*AgentHistory, PrivateBeliefs.* The text of a message is its length. Probabilities are
exact fractions, where the code has floats; the likely role, confidence,
evidence and plans are left out.

*CipherCouncil.* `stage` is what the environment asks for and `asked` whose answers
are missing; `Turn(a)` is a model response of an actor, and the steps of
`Continue` are what the environment does with the choices. When a request ends, its
terminal row is written if every request accepted before it has ended, together with the
rows that waited for it (`Released`, as `_emit_terminal_trace` drains its buffer), and
else it waits (`held`); the choice is consumed in the same step, for there is no await
between the two. In the two gathered stages a consumed row may so come before the
terminal row of its request. A team is asked in the order of the actors, which stands for
any order of its nomination.
Texts of messages, the public history, prompts and schemas are left out.

*ExperimentSchedule, ExperimentBatch.* A design is a record of indices and seeds;
`random.Random` is some function of its seed. `step` is what the process does next
for `run`: make its directory, create the temporary file, replace the artifact,
append the row. `dirs` and `jsonl` are the disk, which a crash leaves as it is. An
execution is known by its number (`version`), which stands for its transcript.
Hashes, persona texts and summary statistics are left out.

## 3. Runs

| run | question | distinct states |
|---|---|---|
| `decision_runtime` | can interleavings swallow a cancellation, lose a task, let a late answer in, mix up rows, break the ledger, or keep a request from ending? | 407k |
| `core_runner` | what can one lifecycle leave behind, over all failures? | 561k |
| `core_runner_late_session` | is the documented adoption of a late session always done? (no) | |
| `orchestrator` | is the verdict just, is every round settled, are the rules kept, does every game end, when requests fail, votes tie and the room aborts? | 332k |
| `orchestrator_game_ended` | is a game over once it is announced? (no) | |
| `llm_router` | can concurrent calls overrun a budget or the permits, lose a reservation or a client, close one in use, or hang? | 691k |
| `room_delivery` | can a page miss, repeat or see too early an event, over overflows, reconnects, revocations, failed saves and crashes? | 639k |
| `room_lifecycle` | can a start be half done, a verdict be lost or changed, or somebody wait for ever, over failed saves and crashes? | 67k |
| `actor` | can an action answer the wrong request, a tool outlive its decision unseen, a belief contradict a fact, or a request hang? | 506k |
| `actor_wolf_vote` | can a page answer every request it is shown? (no) | |
| `cipher_council` | do evidence and memories agree with what happened, is the verdict earned, does every run come to an end when its requests do? | 59k |
| `experiment` | is every accepted schedule balanced, and what do crashes leave of a batch that is resumed? | 1.1M |

Several properties are conjunctions of named parts, one for a question: for
example `SuccessIsAttested` of `CoreRunner` is its type invariant, `BackedByTheLifecycle`
and `NoContradictingRows`.

Every property of a passing run has a *mutant*: a variant of one mapped
definition with a plausible bug, for which TLC finds the property violated. The
mutated forms stand next to the definitions they vary and are commented as such.

### Bounds, and why they are enough

* `DecisionRuntime`: two calls with deadlines and hooks. Pairing and the ledger need
  a buffer with a hole, which two calls make; what a cancellation or a leftover
  can do concerns one call and `aclose`, and the second call is there to abandon a
  task while `aclose` waits. `Answers` is the set of the ways a task can end;
  `MaxSinkFailures` bounds how often the callback raises. The proofs cover every
  number of calls and failures.
* `CoreRunner`: one lifecycle with all its stages and both cleanups; no bound is
  needed. (`cancels` stops at 2 because the code's `_cancel_task` does.)
* `Orchestrator`: decks of six seats and three setups. `targets` (seats a reply may
  name) and `failing` (kinds of request that may fail) choose which part of the
  schedule a setup explores; its four limits are the code's own, set low so that
  they are reached. The failure streak is capped at its limit: above it the code
  compares and does nothing else. Seats a setup never names still speak, vote and
  die. `ExileIsCarried` looks at `ResolveVote` over all votes of two to four living
  players, whatever the schedule reaches. The branch of `_run_voting` that loops on
  an unresolved vote cannot be reached from the schedule.
* `LLMRouter`: two calls with different credentials over a cache of one client, so
  that the second evicts the first or gets an ephemeral one; one scope, which
  they share. `MCSetups` are the three routers of the run: two permits under a
  limit of one call, two permits under a limit of three tokens (the calls may
  use four), and one permit with two attempts per call under a limit of two
  calls, which a retry may exhaust. One permit for two calls is what shows that a
  task given up does not run beside the next one.
* `RoomDelivery`: one page of a guarded audience and two sockets, so that a late
  frame or close of the old one meets the new one; four events, so that a history
  of two no longer reaches back to a cursor; a queue of two, which overflows; two
  versions of the capability; one fault (a failed save, a lost socket, a crash). The
  same properties hold with a history of three.
* `RoomLifecycle`: one room, two calls that start it at once, two failed saves and two
  ends of the process; the evidence limit leaves room for a run with one row of
  its own.
* `AgentActor`: two requests, one of them owned by the runtime, so that a late action
  or handler of the first meets the second; two cancellations of each, the second
  while the first is being handled; limits of two or three steps, calls and
  retries, which all run out; a history limit that forces compaction.
* `CipherCouncil`: five actors with two ciphers, three missions of two, a target of two
  and two proposals; the limits on attempts (2), history and memory (3) are reached.
  `MCSetups` are five sets of replies: everything a cipher may answer in the channel,
  three free voters, a team that may be sabotaged, agents that fail or break the run
  in public, and proposers that never make a well-formed call.
* `ExperimentBatch`: a batch of two sequential runs and one ABBA block of four, four
  starts, three faults. The schedules are those of every design with six seats in
  which the control cycle has up to 18 cases.

### Fairness

What the event loop gives: a coroutine whose awaited thing is ready, or whose
timer is due, is resumed. Every `FairSpec`, and `FairCouncilSpec`, is weak fairness of a
component's own steps. What that supposes of others is, for each:

* `DecisionRuntime`: nothing of agents, hooks, tasks or callers. The requests have
  deadlines, and `EveryRequestTerminates` is about those; the trace callback is a
  function, which returns or raises.
* `CoreRunner`: nothing of the plugin's tasks, the session, the caller or the sink. With
  a run timeout every stage and grace is bounded, but `emit_harness` awaits an async sink
  without a limit (`environment.py:160-169`): only steps that do not wait for it are
  fair (`AwaitsSink`), and `LifecycleEnds` says that the lifecycle ends or waits for ever
  at one row.
* `LLMRouter`: nothing of providers, their tasks or callers; an attempt has a deadline
  and its grace a limit. That `aclose` ends is not claimed.
* `Orchestrator`: `GameEnds` is claimed for the setups with decision timeouts (`timed`),
  where every request ends (`DecisionRuntime!EveryRequestTerminates`); the code accepts a
  timeout of 0, and then a request may wait for ever. Event and trace sinks are taken to
  return or raise.
* `RoomLifecycle` has strong fairness of each start and of `aclose`, because `asyncio.Lock`
  serves its waiters in order. It takes a run to end, as `Orchestrator!GameEnds` and
  `CoreRunner!LifecycleEnds` show for rooms with decision timeouts: the sinks of a room are
  the manager's own saves, which return or raise.
* `RoomDelivery` takes sockets to accept what is sent to them, closes to arrive and a
  page to reconnect, each weakly fair; nothing is assumed of overflows or faults.
* `AgentActor` takes the model's turn, a tool call, a grace and a human's wait to end,
  each of which has a time limit in the code or the runtime's deadline, and
  `on_human_request`, which has none, to return or raise; nothing is assumed of a handler
  that was left behind, of the human or of cancellations.
* `CipherCouncil` takes only `run` to go on when what it awaits has ended. A request may
  stay open: `decision_timeout_seconds` is `None` by default (`core_spec.py:56`), `_decide`
  sets no deadline (`plugin.py:629-657`), and the run deadline, which may end such a run,
  belongs to `CoreRunner`. `RunEnds` says that the run ends or waits for ever for one
  request.
* `ExperimentBatch` takes the process to go on while it is there, and so the run it
  executes to return: a batch gives its runs no sink to wait for.

## 4. Where the code does something else than it says

With a run of its own, and quoted in `PROJECT.json`, "findings":

* **The game goes on after `game_ended`** (`orchestrator_game_ended`). A guard that
  trips while last words or a shot are asked for ends and announces the game and
  clears its reason; the caller asks again whether a guard tripped, is told no,
  and `_finish_death_resolution` writes the next phase.
* **A late session is not always adopted** (`core_runner_late_session`). When the
  run deadline comes first and the external cancellation second, the
  `CancelledError` that `_run_stage` raises carries no session, and it is never
  closed, against `docs/ARCHITECTURE.md:175-177`.
* **A human cannot answer some requests** (`actor_wolf_vote`). A wolf's vote, a hunter's
  shot, last words and a PK speech have a phase of their own, which the actor
  matches the action with; the page is told the board's phase, answers with it, is
  refused with `phase_mismatch` and closes the request.

Met while modelling, stated as a property that no run checks (its comment says
that it does not hold) or only described:

* `LLMRouter!CloseClosesClients`: `aclose` may return while the client of a call that has
  just ended is still leased (`llm/router.py:797`); it is closed a moment later, by a
  task nobody waits for. Shown by the constants of `LLMRouter.cfg`.
* `RoomDelivery!PagesCatchUp`: a fresh snapshot skips `room_status` rows in the middle of
  the history (`room_manager.py:3340`), and the page takes the jump for a loss
  (`ws-client.ts:228`), resets and opens afresh, again and again. Shown by
  `RoomDelivery.cfg` with `HistorySize = 3`. Events do follow a lifecycle row: a
  rejected human action or a failed cleanup after the terminal status. The run
  checks the property for logs without lifecycle rows.
* `RoomLifecycle!RoomsSurviveRestart`: a running room that has exactly
  `max_evidence_entries` rows makes `RoomManager.__init__` raise at every start, because
  `_ensure_evidence_capacity` (1346) is called outside any handler. Shown with
  `MaxEvidence = 5`, one call and `MaxCrashes = 1`.
* `ExperimentBatch!PublishedSetVerifies`: a process that ends between `mkstemp` and
  `os.replace` (`artifacts.py:624`) leaves a file that later executions publish
  beside, and the set no longer verifies, so that resuming is refused. Shown with
  `MaxStarts = 2`, `MaxFaults = 1`. A row whose line was torn or not ended also
  refuses every later resumption (`RefusalIsExplained` lists the reasons).
* In an ABBA order with an even number of seats, which policy plays a case first goes
  with the parity of the seat rotation: the two effects cannot be told apart. No
  document promises that they can, and `OrderIsCounterbalanced` does not claim it.
* Decision runtime: a trace callback that raises on the `agent_request` row leaves a
  request without a terminal, and terminals accepted after it stay in the buffer
  (`EveryRequestTerminates` is claimed only while the callback has not raised). One that
  raises while the row of a cancelled call is committed replaces the cancellation: the
  `raise` behind it is not reached, although the comment there says that a cancellation
  "must propagate to the owning run" (`decision_runtime.py:115-116`).
  `CancellationIsNeverSwallowed` allows that one exception and no other ending.
* Core runner: an evidence sink that never returns holds the lifecycle for ever, also past
  the run deadline (`LifecycleEnds` says so: it names the row that is waited for).
* Room manager: a shutdown whose cleanup of a room fails writes the status `failed` over
  the row of that room also when its game had ended (`room_manager.py:3887`):
  `OutcomeIsFinal` allows that one change of a success.
* Room manager: `delete_room` does not take the lifecycle lock, so that a `start_game`
  queued on it may start a game in a room that is no longer listed. A
  save that fails in `_record_shutdown_room_state` ends `aclose` before the rooms after
  it are settled; their rows stay `running` until the next start maps them.
* Cipher Council: both gathers (`plugin.py:463`, `597`) are without `return_exceptions`, so
  that siblings of a decision that raised are still running when the run ends;
  the runner's owned tasks are what reclaims them.

## 5. Proofs

TLAPS proves the following for every value of the constants, from the
assumptions named in the modules (`DeadlinedAssumption`, `SinkAssumption`,
`AnswersAssumption`; `ConstantsAssumption`; `RouterAssumption`, `ClientAssumption`,
`InflightAssumption`; `DeliveryAssumption`, `NobodyAssumption`; `LifecycleAssumption`; `BatchAssumption`,
`DesignsAssumption`, `RunsAssumption`; `ActorAssumption`, `HistoryAssumption`; `SeatsAssumption`,
`DeckAssumption`, `SetupsAssumption`; `CouncilAssumption` and the `SetupsAssumption` of the
council; and that the value that stands for none is none of the values it stands beside,
`NoneAssumption`). Only three of them ask for a finite set: the router's calls, which its
permits count, the runs of a batch, which its design lists, and the six to twelve seats of
a game.

| module | theorem | statement |
|---|---|---|
| `DecisionRuntimeProofs` | `TypeCorrect` | `Spec => [](TypeOK /\ Tickets)` |
| | `CleanClose` | `Spec => CleanCloseLeavesNothing` |
| | `LogCorrect` | `Spec => []LogInv`, the inductive invariant of the log |
| | `RowsArePaired` | `Spec => []PairedRows` |
| | `RowsKeepAcceptanceOrder` | `Spec => []AcceptanceOrder` |
| | `OutcomesCorrect` | `Spec => []Outcomes`, the inductive invariant of the outcomes |
| | `OwnerIsHeeded` | `Spec => []CancellationIsNeverSwallowed` |
| | `LeftoversAreKnown` | `Spec => []LeftoversAreTracked` |
| | `LateResultsAreForgotten` | `Spec => LateResultsAreDropped` |
| | `LogIsALedger` | `Spec => LedgerSpec`: the log implements `DecisionLedger` |
| `CoreEnvironmentProofs` | `CoreCorrect` | `Spec => []CoreInv`, the inductive invariant of a lifecycle |
| | `SuccessIsEarned` | `Spec => []SuccessIsAttested` |
| | `NothingStaysOpen` | `Spec => []NothingIsLeftOpen` |
| | `CancellationComesOut` | `Spec => []CancellationPropagates` |
| | `CouncilCorrect` | `CouncilSpec => []CouncilInv`, the inductive invariant of a council |
| | `VerdictsAreEarned` | `CouncilSpec => []VerdictIsEarned` |
| | `RecordsCorrect` | `CouncilSpec => []RecordsFit`, the inductive invariant of a council's records |
| | `RecordsAlwaysAgree` | `CouncilSpec => []RecordsAgree` |
| `LLMRouterProofs` | `RouterCorrect` | `Spec => []RouterInv`, the inductive invariant of the router |
| | `BudgetsAreKept` | `Spec => []BudgetIsKept` |
| | `TransportsAreCharged` | `Spec => []TransportIsCharged` |
| | `ClientsAreSafe` | `Spec => []ClientsAreKept` |
| | `TasksAreSeen` | `Spec => []TasksAreAccountedFor` |
| `RoomDeliveryProofs` | `DeliveryCorrect` | `Spec => []DeliveryInv`, the inductive invariant of the delivery |
| | `ContiguousDelivery` | `Spec => []DurableBeforeVisible` |
| | `RevocationHolds` | `Spec => RevocationIsFinal` |
| | `DeliveryImplementsLog` | `Spec => DeliverySpec`: the delivery implements `DeliveryLog` |
| `RoomLifecycleProofs` | `RoomsAgree` | `Spec => []RoomInv`, the inductive invariant of the rooms |
| | `StartsAreWhole` | `Spec => []StartIsAllOrNothing` |
| | `VerdictsAreDurable` | `Spec => []VerdictIsDurable` |
| | `OutcomesAreFinal` | `Spec => OutcomeIsFinal` |
| `ExperimentBatchProofs` | `BatchCorrect` | `Spec => []BatchInv`, the inductive invariant of the batch |
| | `RowsStayTrue` | `Spec => []RowsMatchArtifacts` |
| | `RefusalsHaveReasons` | `Spec => []RefusalIsExplained` |
| | `SchedulesAreBalanced` | `Spec => []ScheduleIsBalanced` |
| `AgentActorProofs` | `ActorCorrect` | `Spec => []ActorInv`, the inductive invariant of the seat |
| | `HumanAnswersForItself` | `Spec => []HumanAnswersItsRequest` |
| | `HandlersAreOwned` | `Spec => HandlersAreAccountedFor` |
| | `TurnsSeePairs` | `Spec => []ModelSeesPairedHistory` |
| | `BeliefsFit` | `Spec => BeliefsFitFacts` |
| `OrchestratorProofs` | `GameCorrect` | `Spec => []GameInv`, the inductive invariant of a game |
| | `VerdictsAreJust` | `Spec => []VerdictIsJust` |
| | `RoundsSettle` | `Spec => []RoundsAreSettled` |
| | `RulesHold` | `Spec => RulesAreKept` |
| | `ExileCarried` | `Spec => []ExileIsCarried` |

*The log.* Pairing and order are not inductive: whether a terminal may be stored
depends on which tickets are still in flight. `LogInv` says how the four pieces of
the state account for the tickets: tickets `1 .. next - 1` are closed (stored, or
lost to a raising callback); the buffer holds at most one terminal for a ticket,
all at or above `next`, each under the id accepted with that ticket (`LegalBuffer`);
a waiting call holds a ticket of its own, for which there is no terminal yet
(`Tickets`, `TicketsDiffer`, `Open`); request rows are stored once per id
(`LegalRequests`, `AcceptedOnce`); terminal rows belong to closed tickets and are
increasing in them (`LegalTerminals`, `LegalOrder`). `CommitLegal` shows that one run
of `_emit_terminal_trace` keeps that, for a prefix of any length and for a callback
that raises at any point of it; `AcceptLegal` and `FinishLegal` carry it to the
actions; `LogStep` goes over `Next`.

*The outcomes.* `Outcomes` says that a call whose owner cancelled is still waiting, or
ended cancelled and raised that or the exception of the callback (`HeedsOwner`), and that a task still running after its call
went on is registered, and its call ended as a cleanup failure or cancelled
(`AdmitsLeftovers`). `ExecuteKinds` and `FinishKinds` say which rows a step adds, so
that the outcome of one call is not disturbed by the others' batches.
`LateResultsAreForgotten` and `CleanClose` are action properties, from the same
invariants and `Watched`: a running task is awaited by its call or is registered.

*The ledger.* The refinement maps the terminal rows to the closings of the abstract
ledger (`LedgerClosed`), which a reader gets by dropping the request rows. The
n-th closing is found by its rank among the terminals, so `LedgerInv` says first that
ranks number them without a hole (`Ranked`), and then that the n-th closes one of
the requests `n .. n + sinkFailures`, in the order of acceptance
(`ClosedInOrder`): a raising callback loses a row, and what follows moves up by one.
Each batch of rows a step adds goes through `LedgerGoesOn`: a request adds no rank,
and one run of `_emit_terminal_trace` adds consecutive ones.

*The lifecycle.* What a result says at the end was decided many rows before, so
`CoreInv` carries it from row to row: nothing has gone wrong while the try block runs
(`TryIsClean`), a run that comes out of it without an error has its outcome
(`OutcomeIsEarned`), what still runs is waited for or owned, and quarantined behind
the cleanup (`TasksAreOwned`), a close that was not clean is among the failures, and
a failure becomes an error before the verdict (`CleanupIsAccountedFor`). A
cancellation leaves a flag as soon as the await it interrupted is over
(`CancellationIsKept`). `RowsFit`, `TasksAttest` and `RowsAttest` connect the rows.

*The council.* A verdict is about rows of rounds long past, so `CouncilInv` says of a council that
runs how its variables and its transcript go together. Rounds are opened in the order of
their attempts (`RoundsFit`), and nothing is consumed of what is to come (`NothingAhead`); no
earlier round of the mission was carried, and earlier missions are settled, each with the team
its one carried round sent (`NoneCarriedBefore`, `PastIsSettled`); the score counts them
(`ScoreFits`). Of the current stage, what was consumed in it is what the environment got from
the actors that have answered, and the approvals are the consumed votes up to this turn
(`StageFits`). `SameOf` says that a step left the rows of a kind alone, so that an action has to
answer only for the rows it adds; `SubmitFits` is the one action that adds a choice. The
outcome needs that a commitment is consumed once per member, which follows from who is
still asked (`AskedHaveNoChoice`).

*The council's records.* What the offline verifier recomputes are counts of rows, subsequences
of the transcript and the rows of one request, none of which an action looks at. `RecordsFit`
says how they go together while a council runs. A request ends once, and so is open, ended or
still ahead (`IsAhead` orders stage, turn and round; `TerminalsFit`, `RequestsFit`). It has
ended when its terminal row is there or waits (`Ended`), and a row waits only while a
request accepted before is open (`RecordShape`), so that none waits when the stage is over;
what was consumed, and what an actor has stored, is of a request that has ended
(`ConsumedFit`, `MemoryFits`). `EndTerminals` is about the rows that come out together: they
are the terminals of the requests `Released`, one each. That is why a row that is added is the first of its request, a memory gets an
entry it does not hold, and a message is delivered behind the terminals of its round
(`MessagesFit`). The observations and the history are last parts of what had been delivered
(`SeenFits`), which needs that rows picked from a longer transcript begin with those picked
before (`NthOfUnion`, `PickedOn`, `SuffixGrows`). `CountsFit` carries the requests of the round
that are still open (`Open`): it is why `Ends` never finds the counters in contradiction, and
the sums agree once the run is over. An action either asks (`AsksOn`, `AskedFits`), moves on
without asking (`Moves`) or ends a turn (`EndsAs`, `EndRecords`), also after another agent
broke the run; `HoldsNew` is the memory that drops its first entry for a new one.
`EvidenceFits` then goes through the verifier's conditions one by one.

*The router.* The ledger alone cannot show that reservations balance: an
operation on a reservation is sound only if the call holds it. `LedgerFits` is said of
a ledger and of the set of calls that hold a reservation (`Holders`), with
`Reserving`, `Unreserving` and `Charging` as the three things an operation does to an
account, and each step of a call enters or leaves `Holders` with one of them. What
a transport may have cost needs which reservations have `Sent` something: a provider
task that got its client, at most once, and was not turned away. `PermitsHold` bounds
the alive tasks by the permits through the pause of `_ensure_open`; the lease of a
task is what keeps its client (`TaskFits`, `ClientsAreKept`).

*The delivery.* `DeliveryInv` states every part of a room against the log of its
audience. A stream's cursor is the length of its log, and its bounded history ends
the numbered log (`EndOf`); so does what a restart would number from the saved window,
which is why a restart gives every event the number it had. What a socket still has
to send (`UnsentFits`, the rest of the handshake before the queue) is events of the log
in increasing order, behind a snapshot at most, without a hole from the place where
it starts but for the lifecycle events a fresh snapshot replaces; the snapshot tells
of a gap whenever it leaves out more than those (`SnapshotFits`), and a page that waits
for it has not moved since it asked (`PageWaits`). Registered clients hold the
capability of now (`Holds`). `CommitOf` and `Distributed` show that a transaction adds the
same events to the logs, the streams and the queues, whichever overflow. The mapping
of the refinement takes the page's cursor, what it was shown and told: `PageIsShown`
maps the first frame a socket sends to `Read`, `Start`, `Forget` or a stutter, and every other
step to `Commit`, `Forget` or a stutter (`StepsImplement`).

*The rooms.* `RoomFits` says of each room, listed or not, what the object can be,
given its row, its scope and where the manager is: a waiting room is as new, with its
row (`WaitingFits`); a room that runs has a running row, a task and an open budget
unless the manager is being closed (`RunningFits`); a success has the same success as
its row and no budget (`SuccessFits`). `StartsHold` says what a start that is under
way holds, which is why a removal or a failed save beside it does no harm, and
`ProcessEnds` what is left at a crash for the next process to find. The rooms of a
step other than the one it acts on are carried over by one lemma.

*The batch.* `RowsMatchArtifacts` alone is not inductive: publishing the artifacts of
a run again would make an older row of it false. `BatchInv` adds that the rows of
scheduled runs are those the process resumed or has come past (`RowsAreKnown`), so
that the run in progress has none, and what of its files has been written at each
step (`FilesAreWritten`). `WrittenKeepsRows` shows that a row keeps its place however
the line before it ended. For `RefusalIsExplained`, `ResumeInv` adds that executions are
counted by the processes that were started (`ExecutionsAreCounted`), so that their
numbers stay in the bounds a row is verified against. Two rows of one run then agree, for
`RowsMatchArtifacts` compares both with the same artifacts: what is left to refuse is
a line that is not whole, a temporary file and a row of another design
(`RefusalHasReason`).

*The schedule.* `ScheduleIsBalanced` is about arithmetic, with products and quotients of the
constants, which no backend does by itself: `Division`, `DivisionIsUnique` and
`DivisionTwice` are proved first. `Placed` and `Places` show that the places of a schedule
and the pairs of a policy and a case correspond one to one, in both orders of the runs, with
`Place` as the inverse; `GameIsCase` and `PairedSchedule` follow. For the controls, a case is
written in mixed radix: seat rotation, then persona position, then role layout, then the
repetition (`AxesAreCrossed`), so that every combination is met by as many cases as there are
repetitions (`EqualParts`). That each player also sits on each seat with each profile equally
often is the same count after a shift of two of the digits (`ShiftedRest`).

*The seat.* A decision is made by the action that is taken from `human_queue`; that it
was meant for this request needs that the queue is emptied when a human is asked,
that only actions for the request asked are put into it, and that requests are
asked one at a time (`InboxIsForTheAsked`, `QueueIsOrderly`). That no handler is
forgotten needs that a session numbers its handlers and that the one it awaits is
none of those it left behind (`HandlersAreNumbered`): then what `EndRun` looks at is
all there is. `SessionKnowsItsEnd` is why nothing starts after a terminal action or
once the tokens are spent. `EndRunKeeps`, `SessionGoesOn` and `HumanLeaves` carry the
common part of the actions; `ActorStep` goes over `Next`.

`ModelSeesPairedHistory` has two parts. `HistoryFits` says that the history is paired when
a turn is asked for, and that between the calls of a response it will be paired once the
calls that are left have their results: `ResponsePairs` opens an exchange, `ResultPairs`
answers its first call. The second part is about compaction: `ReplacedIsPaired` shows
that replacing any complete exchanges of a paired history leaves it paired, so that
nothing needs to be known of which ones are chosen. `Replaced` is computed from the end of
the history backwards; the induction is over the messages behind an index, and
`ViewFits` says what the part that has been computed owes to a call in front of it.
`ExchangesEnd` is why it owes nothing where an exchange was replaced.

`BeliefsFitFacts` needs `Total`, a recursion over the subsets of a set: that it exists
is proved by induction on their size (`SubsetRecursion`), and then that it adds up. `ProjectMass`
gives each open seat a share, and the seats that come to more than one wolf are settled first:
`ActiveSettles` follows the loop until none is left above, and what is then left to give is
neither negative nor more than the open seats can hold. `ReducedIsSame` says that
dividing by a common divisor changes no belief, and `ReconciledFits` that a patch, however it
contradicts the facts, ends in beliefs that fit.

*The game.* `GameInv` says of the place in the schedule which phase the board is in
(`PhaseFits`) and that the day counts the rounds (`Counted`); of the board, that nobody
waits for last words who lives, waits twice or has been asked (`QueueFits`), that who
may still shoot is dead, and not of poison (`ShotsFit`), and that a potion is here, in
use tonight, or used once (`PotionsFit`); and between scenes, that the dead have been asked
(`SettledIn`). What the night does needs one more fact about its rows: every stage of
the night wrote one at most, of a legal kind (`ActsFit`), and only earlier stages did
(`InTime`). So there is one victim of the wolves, one seat the guard protects and one
poisoned, and the choices in `resolve_night` have one outcome. Every action either ends the
game or goes on with a game (`Goes`), and `Lands` carries the parts of the invariant
over such a step; `EndEffect` and `ContinueEffect` show what the two branches of
`_terminate_if_pending` write, with the winner the survivors justify. Each `...Keeps`
lemma also says that the dead stay dead and the guard moves on, which with the
invariant is `RulesAreKept`. `ExileIsCarried` is about `resolve_vote` alone: `TopIsTop` and
`LeadersFit` (a leader was voted for) give `ExiledLeads` and `LeaderExiled`.

The proof corrected a property: "no phase begins once a side has won" was stated for every
phase, but `validate_role_deck` accepts a deck half of which are wolves, and nothing looks for
a winner before the first night is over. The decks the run deals hide that.

All of these invariants were first checked by TLC on the instances above, and
`RoomInv` on one with two rooms, four evidence rows and one fault of each kind
(993k states), `RouterInv` with three calls in two scopes (8.5M), `GameInv` also with a
deck half of which are wolves.

*Only model-checked.* Liveness under fairness and `ENABLED` are out of the prover's reach:
`EveryRequestTerminates`, `LifecycleEnds`, `GameEnds`, `CallsEnd`,
`PagesCatchUpOnReplayableEvents`, `RoomsSettle`, `DecisionsEnd`, `RunEnds`, `BatchSettles`.
The library's induction theorems cannot be instantiated; where the proofs need induction
they prove it as a fact about a set of numbers instead (from the well-foundedness of `<`)
or about the subsets of a finite set. Every other property of the passing runs is stated by a
theorem.

## 6. Plan

1. **Failure guard**: the cursor over request numbers of concurrent batches
   (`game/orchestrator.py:498-536`), composed with the orchestrator's schedule.
2. **Provider use**, what is left of it: streams and their deferred closes, the
   capacity of scopes, the sliding windows and the leases of concurrent
   connections (`api/limits.py`).
3. **Rooms**, what is left of them: sockets of other event loops, clients in the
   lifecycle, failures to close a provider scope.

Runs are few on purpose: each module has one that asks all its questions, and one
more where a document is contradicted.

## 7. What is not modelled, and why

Configuration and redaction keep no state that interleaves. Offline evaluation,
statistics and comparison are pure functions over finished data that unit tests
cover better. Wording, digests, hash chains, wire formats and layout are data no
property is about. The assembly of a run from immutable specifications
(`harness/runner.py`, `core_llm_runner.py`, `spec.py`) is sequential and keeps nothing.
Of the frontend only what it does with the protocol is modelled; of the server
only what its endpoints make the managers do. Within modelled components: field
values of rows, the random seat order and the texts are left out; the
orchestrator's observation and memory updates have no effect on its control;
concurrent batches settle in seat order (plan, item 2).
