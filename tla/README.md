# A TLA+ verification project for the liwaisi assistant

The repository holds a conversational assistant: a Go server
(`src/back/go-assistant`) that runs every conversation as a Coloured Petri Net
(CPN), and a web front end. This directory models the parts where concurrency,
failure and order decide correctness, from the executor of the nets to the bubbles
on the screen, checks them with TLC on small instances, and proves with TLAPS, for every
value of the constants, the safety properties of the executor and its refinement of the
token game, of LLM firings, the host gate, PTY sessions, persisted artefacts, the tool
registry, the circuit breaker, and the session service with its repository.

All source paths below are relative to `src/back/go-assistant` unless they begin
with `src/`.

## 1. Inventory

### 1.1 The executor and what it calls (`cpn/`)

| Part | State | Operations | Hard behaviour |
|---|---|---|---|
| CPN executor: `executor.go`, `cpn.go`, `place.go`, `transition.go`, `mode.go` | the tokens of each `Place`, `State`, `Error`, `mode` | `Run`, `collectFirable`, `consumeAll`, `dispatch`, `checkModeSwitch`, `checkCompletionOrDeadlock`, `Reset`, `Validate` | one goroutine per firing, all depositing at once; a firable set that goes stale; errors of several firings; completion against deadlock |
| Human in the loop: `hitl.go`, `session.go` | one response channel of capacity 1 per HITL transition, kept for the life of the session | `fireHITL`, `fireHITLWithRevision`, `ResolveHITL` | answers that are late, repeated or given for an earlier run; cancellation while a gate is blocked; two gates sharing `CPN.State` |
| SubNet children and observers: `subnet.go`, `observer.go` | `activeChildren`, `childWg`, an event bus per child | `fireSubNet` and its goroutine, `drainObservers` | children deposit into the parent while it judges completion, and outlive `Run` |
| Retry and circuit breaker: `retry.go` | `Failures`, `TrippedAt` | `Allow`, `RecordFailure`, `RecordSuccess`, `doRetry` | concurrent reports around the threshold; the answer of `Allow` is stale when used |
| LLM transition: `fire_llm.go`, with the client `infra/openrouter` | the conversation under way, an approval channel of capacity 1, `Root.History`, costs, the token ledger | `fireLLM`, `handleToolCalls`, `Complete`, `CompleteStream` | nested loops (tools, format retry, fallback model, retry of the firing) that each call, charge and record; approvals given late or twice |
| Bash, validate, synthesize, instantiate, register-tool transitions: `fire_*.go` | PTY channels, the tool registry | one `fire` function each | a select over two channels that close at different times |
| Topology mutation, group agent, registry: `cpn_mutate.go`, `fire_topology_mutate.go`, `group_agent.go`, `registry.go` | maps under a mutex | add, remove, register, deregister | mutation while the executor iterates |
| Flow metrics, personality, admin surface | statistics and text | | |

### 1.2 Sessions (`internal/app`, `store/`)

| Part | State | Operations | Hard behaviour |
|---|---|---|---|
| Session service: `internal/app/session_service.go` | `sessions` and `states` maps under `s.mu`; per session `state`, `cancel`, `messages`, `Root.History` | `GetSession`, `SendMessage`, `DeleteSession`, `UpdateSession`, `ForkSession`, `ResolveHITL`, `persistAfterRun`, `flushHistory`, rehydration | busy check and switch to running are apart; the background goroutine outlives the request; three writers of the same history; concurrent misses; restart |
| Session repository: `store/postgres/session.go`, `store/redis/session.go` | tables `sessions` and `messages`, the cached record | `Get`, `AppendMessage`, `Close`, `UpdateTitle`, `SoftDelete` | a cache that `AppendMessage` does not invalidate; `ON CONFLICT DO NOTHING`; records that lack columns |
| Awakening: `internal/app/session_service_awakening.go`, `cpn/awakens` | the first assistant message, the capability snapshot | `runAwakeningAsync`, the net it runs and the probe net it composes | runs while the first user message is served; a plan written by a model becomes a net |
| The nets: `cmd/server/topologies*.go`, `reassess*.go` | places and guards of eight nets | `defaultTopologyFactory` and its like, handlers of tool transitions | guards that must cover every classification; a round counter that travels as a token |

### 1.3 Host, drivers and adapters

| Part | State | Hard behaviour |
|---|---|---|
| Host gate `infra/host/gate`, `cpn/fire_bash.go`, the gated tool calls of `cpn/fire_llm.go` | the policy in the `Holder`, the overlay of learned patterns, the first-run ledger, a HITL channel per transition, the audit queue | patterns change while others classify; the policy is swapped during a call; the ledger fails; a wait for a human; a binary replaced between hash and approval; a full audit queue |
| PTY session manager `infra/host/session_manager.go`, `cpn/fire_bash.go` | open sessions, reader, waiter and watcher goroutines, two bounded channels | process exit against open, Kill, Close and readers |
| Tool registry `cpn/tools`, `store/postgres/tool_registry_store.go` | two indexes over the same entries, a table | the lock is left for the call of the table |
| Persisted artefacts `cpn/persist` | rows, files, two quarantine directories | renames one by one, a crash between any two, a purge by the hour |
| SSE broker, HTTP handlers `internal/driving/httpapi`, chat reducer `src/front/react-assistant/src/hooks` | subscribers with buffered channels, `Session.Stream`, React state | two channels in no order, dropped events, reload while a run goes on |
| Synthesis, rate limiters | linter, token buckets | limits |
| A2A adapter, event batcher | tasks, a queue | close against submit |
| Authentication, configuration, guardrails, billing, activity, login | | parsing, cryptography, I/O |

### 1.4 How the parts interact

An HTTP request calls the session service. `SendMessage` finds or rehydrates the
session, appends the user's message to the session and to the repository, calls
`Root.Reset` and seeds the net, and starts a goroutine that calls `Root.Run`.
`Run` alternates rounds: drain the children's event buses, collect the firable
transitions, consume, fire them concurrently, wait, route errors, recompute the mode,
judge completion. A SubNet firing starts a child CPN in a goroutine that later
deposits into the parent's places. A HITL firing emits a request through the session's
callback and blocks on its channel; `ResolveHITL`, called from another request, puts
the response there. LLM and HITL firings append to `Root.History`; a batch hook of
the executor flushes new rows to the repository during the run, and after it
the goroutine promotes the rest to the session and saves what is left. LLM and bash
firings pass the host gate; a question of the gate or of an LLM's tool call comes back
through the same HITL channels. What the host adapter writes is entered in the provenance ledger,
what the forge writes in the tool registry, and a rollback takes both back. Events go
through a callback of `main.go` to the SSE broker, the end of a failed run to
`Session.Stream`; the SSE handler merges both for the chat reducer of the front end.

What makes the parts correct: a run ends with a verdict that is true of the marking;
no failure and no token is lost or invented; in Centaurian mode neither human nor
agent triggers computation alone; an answer is applied to the question it was given
for; one session has one run at a time and one object; a message that was accepted
is saved once and rehydrated in order; deletion stops the run; a firing runs no more
dangerous commands than humans gave it approvals, and what a human remembered or
blacklisted holds from the next call on; an open breaker is earned and
quiet; every net the server builds comes to its end with nothing left over, and asks
no more often than its cap; each tool call has its result, each approval covers one run,
each response is charged once; files and tools are where their rows say, also after a
restart; a session that is gone has left nothing running; and the screen shows what was
said. The full list of what may go wrong, each at its
line, is `hazards` in `PROJECT.json`.

## 2. Modules

| Module | What it is |
|---|---|
| `CPNExecutor` | executor, HITL gates, SubNet children, observers, retry |
| `TokenGame` | the abstract specification of what `Run` promises to a net |
| `MCExecutorTools`, `MCExecutorHITL`, `MCExecutorSubNet` | nets for TLC |
| `CPNExecutorProofs` | type correctness with lemmas on tokens and markings, the safety theorems of the executor, and the step simulation: `CPNExecutor` implements `TokenGame` |
| `Topologies`, `MCTopologies` | the eight nets the server builds, with guards and handlers |
| `LLMTransition`, `MCLLM`, `LLMTransitionProofs` | LLM firings with tools, approvals and retries over one OpenRouter client, and their theorems |
| `SessionService`, `MCSession`, `SessionServiceProofs` | session service, background run, awakening, fork, repository with cache; three loads; their theorems |
| `HostGate`, `MCHostGate`, `HostGateProofs` | the decision of the host gate, its human approvals, first-run ledger, learned patterns and audit pool, and its theorems |
| `HostSession`, `MCHostSession`, `HostSessionProofs` | a PTY session with its goroutines and the bash firings that use it, and its theorems |
| `ToolRegistry`, `MCToolRegistry`, `ToolRegistryProofs` | the two indexes of the tool registry and the table behind them, and their theorems |
| `Artefacts`, `MCArtefacts`, `ArtefactsProofs` | provenance ledger, rollback, restore and purge over a disk, and their theorems |
| `ChatStream`, `MCChatStream` | from an emitted event to a bubble: callback, broker, SSE handler, EventSource, reducer |
| `CircuitBreaker`, `CircuitBreakerProofs` | the breaker shared by concurrent firings, and its theorems |

The modules meet at the interfaces of the code. A transition of kind `tool` in
`CPNExecutor` is opened up in `LLMTransition`, `HostSession` and `ToolRegistry`; the nets
that are parameters of `CPNExecutor` are listed in `Topologies`, which runs them with
rounds but without the goroutines' inner steps; the rows `LLMTransition` adds to the
history are the rows `SessionService` saves and `ChatStream` shows; the verdict of
`HostGate` is an input of `LLMTransition` and `HostSession`.

Definitions named `X_Word` are slips: plausible mistakes in the code that
the definition `X` stands for. No specification uses them; each is there to show
that a property notices the mistake.

### 2.1 CPNExecutor

The net is a parameter: places, transitions, arcs, colours, spaces, guards, what each
transition may produce (`Outcome`) and which may fail (`Faulty`). A token keeps
its colour, space, payload class, whether a HITL transition made it, and (history) the
run it stems from. Payload text is reduced to the classes that guards tell apart.

- The main goroutine is `pc`. `RunStart` validates and sets the state;
  `LoopTimeout` is the look at `ctx` at the top of the loop; `LoopTop`, `DrainBus` and
  `DrainDone` are `drainObservers`; `Collect` and `CollectDone` are
  `collectFirable`, one transition at a time in map order, because a child
  may deposit between two visits; `Consume` re-checks and takes the heads in ID order;
  `Launch` and `WaitAll` are the goroutines' start and `wg.Wait`; `ProcessError` and
  `ErrorsDone` are the loop over `errCh`; `checkModeSwitch`, `CheckComplete`,
  `LoadChildren` and `ChildrenWait` end the round. The reads of the places and
  of `activeChildren` are separate steps, as in the code.
- A firing goroutine is `fire[t]`: `doRetry` around `dispatch`. `ToolReturns`,
  `ToolFails`, `FireDeposit` (one output at a time), `FireOk`, `SleepOver`,
  `SleepCancelled`; `HITLAsk`, `HITLReceive`, `HITLTimeout`, `RevisionReturns`,
  `RevisionFails` for human gates; `SpawnChild`, `SpawnFails` for SubNets.
- A child goroutine is `child[i]`: it emits, succeeds or fails, delivers token by
  token, and runs its deferred steps (deregister, close of the bus, decrement, `Done`) in
  their order. The child's own `Run` is reduced to its outcome.
- The environment: `Respond` (a human; the service looks at the session's state
  in a step before it sends, so the response may arrive at any later time), `Cancel`,
  `Reset` (the next message).

Kinds that fire synchronously and deposit one token per output (tool, LLM, bash,
validate, ...) are one kind, `tool`. Runtime mutation of the net, the deprecated flag,
metrics and trace events are left out.

`TokenGame` knows neither goroutines nor rounds: a transition takes one token from
each input place at once, a firing that is not over puts tokens into its transition's
places, observers add events, and there is one verdict after which nothing is taken.
The mapping in `CPNExecutor` (`Game`) counts the tokens of a place, counts as open a
firing until it ended well or its error was dealt with, and a child until its deferred
decrement, and takes the result of `Run` for the verdict.

### 2.2 SessionService

One conversation, any number of requests. A request is a process with a location
`pc[p]`; the boundaries between its steps are the unlocks and database calls of the code.
`live` is the entry of both maps (they change together under `s.mu`), an object is a
`cpn.Session` with its `Root` and `sessionState`. A background run has a `phase`:
firing rows into the history, flushing (`BatchFlush`, `FlushSave`, `FlushAdd`),
`RunReturns`, `Sync`, `CollectOutput`, `SetIdle`, `TakeNew`, `PersistAfterRun`. The
repository is `rows`, `closed`, `deleted`, `title` and the Redis record `cached`,
`cache`; `Inserted` is the conditional insert with `ON CONFLICT (id) DO NOTHING`.
Writes named in the `faulty` of the load may fail, and the code then only logs. `Restart`
drops everything in memory and kills the runs.

An object and its `sessionState` are one: an insertion makes a fresh `sessionState`,
so `Insert` resets `busy` and `cancel`. Each rehydration builds a new object, so
this is what the code does.

A `load` says what happens in a behaviour: how many clients there are at a time, what
they ask, whether there is a cache or an awakening, which writes fail, and whether the
session began as a fork of so many messages (`ForkSession`). `usage` and `billed` are the in-memory token ledger and the rows that
`persistAfterRun` writes from it. `AutoTitle` looks at the title of the record read
(`HasTitle`): only a fork's, cached by Redis, has one.

The flushes of a run are taken one after the other. In the code `lastFlushed` has no lock
(`session_service.go:511-526`), so two gates of one round that begin to wait at the same
moment could flush at once; that data race is not in the model.

### 2.3 CircuitBreaker

Every method holds the breaker's mutex, so a call is a step; firings of one
transition and of its clones in children interleave. `CanFire` is the look of
`canFireWith`, `Gate` the one of `doRetry`, `Call`, `Succeeds`, `Fails`, `Wake` and
`Cancelled` its loop. `Tick` lets time pass. `Allow` and `RecordFailure` keep the
order of the code's assignments: an elapsed breaker is reset by whoever asks next.

### 2.4 HostGate

All firings share one gate. An operation is one element of `Cmd`; a pattern is the
set of commands it matches, so a band of the policy is a set of commands. `Inner` is
what `Classify` matches (the script of a plain `sh -c`, otherwise the command),
`Covers` what the pattern that an approval makes of a command line matches. The
record `call[f]` is one call of the gate with its place in the code.

- `Check`, `Bands`, `Record`, `Lookup` and `Final` are `PolicyHostGate.Check` with
  `Evaluate`: awakening mode, kill, forbidden, budget, sandbox, dangerous, first run,
  caution, safe, unknown, in this order. `Evaluate` holds the policy it loaded while
  others change it, and the compiled bands are read without the lock. `Check` reads
  the forbidden band and `Bands` all others: only `Remember` and `Blacklist` write to
  a loaded policy, each writes one band, and two reads of different bands with such
  a write in between give what one of the orders with a single read gives. The hash
  with `FirstRunStore.Record` and `GetBySHA` are steps of their own and may fail.
- `ApproveOnce`, `DenyOnce`, `Remember`, `Blacklist`, `AwaitCancelled` are
  `HandleRequiresHITL`, one per answer; `RecordAgain` and `Approve` the approval of a
  first run. `Remember` and `Blacklist` change the policy that is current then, which
  need not be the one the call was judged by.
- `TakeJob` and `JobDone` are an audit worker; `Submit` drops the record when the
  queue is full.
- The environment: `Answer` (at any time, into a channel of one place, whether or not
  a call waits: the next call that asks takes what it finds), `Cancel` (of the steps that look at the context only
  the wait depends on it, since the calls of the ledger may fail anyway), `Put` and
  `Revoke` (administrator), `Upgrade` (a file is replaced), `AwakenBegin`, `AwakenEnd`,
  `Restart`.

`granted` and `dangers` count the approvals sent to a firing's channel and the dangerous
commands it ran; they are history.

`MaxPatterns` is the cap of `finalize`: a list may grow past it, and the policy is
then not compiled any more. The budget is `headroom`, a constant of a policy, because
`RecordActual` has no caller: nothing is ever charged. `ShutdownAuditPool` has no caller
either. The fan-out of the awakening treats a demand for approval as a denial and
adds nothing to the gate's state.

### 2.5 Topologies

Each net is a table of transitions in ID order with its arcs; a handler or guard is the
operator of its name. What a model, a shell or a human may answer is the set of values
that guards and handlers tell apart. `Validate`, `Collect`, `Settle` and
`checkCompletionOrDeadlock` are the executor's round at the grain where these nets
differ: they have no error places and no retries, so the goroutines of a round only
finish in some order. `Send` is the next message with `Reset` and the seeds of
`SendMessage`, among them the host capabilities if there is a database. The probe net
is composed from a plan by `ValidatePlan`, the slugs and the suffixes of
`composer.go`, so a plan that repeats an ID is composed as the code composes it.

### 2.6 LLMTransition

A firing has a place `pc`, a stack of open calls of the client (`frames`: the
fallback model is a call inside a call, and each has its deferred record), the
conversation `msgs` as calls and results, and the indexes of the tool loop. Every return
of the provider, every tool's outcome, the wait for an approval and the retry of
`doRetry` is an action. `ledger`, `cost`, `reported` follow the money; `billed`,
`granted`, `ran` are history. `formatChatMessages` is what the client makes of the
conversation. `Record` is the deferred call record: the code's condition that the request has a
session ID (`openrouter.go:312, 417`) holds in every net the server runs.

### 2.7 Artefacts, ToolRegistry, HostSession

`Artefacts`: a row is its index, a file the row whose bytes it holds; homes, staging and
final quarantine are functions from paths to files. Every rename, `RemoveAll` and ledger
call is a step and may fail; a Postgres call may also fail after its `COMMIT` took
effect, when the answer is lost. `Crash` forgets the requests in flight. The code leaves
seven cases unguarded (`mishap`), and the properties say which they except.

`ToolRegistry`: each of `RegisterEntry`, `Deprecate`, `Unregister` is a locked look, a
repository call without the lock (which may fail, or take effect and report an error),
and a locked change. Pointers are generations. `raced` is set when a call comes back
to find its entry or row replaced; what then follows is listed below, and
the properties, and the run's constraint, stop there.

`HostSession`: the opener, `readLoop`, `waitLoop`, the watcher, requests to `Kill` or
`Close`, and bash firings are processes; the channels have capacities and
may be closed. `Open` is four steps: the session is put into the map (from then on its ID
is `Known`, and `Kill`, `Close` and firings may come), `readLoop` starts, `waitLoop` starts,
and readiness is reported. `early` is history: a wait for the loops ended before `Open` had started
both. A send on a closed channel sets `crashed`, and so may a `wg.Add` that meets a wait
not yet over. The terminal holds `TTYBuffer` unread lines and then blocks the process. The select of a bash
firing over its session is `SelectDone`, `SelectChunk`, `SelectStatus`, `SelectEnd`, in any order.

### 2.8 ChatStream

The run emits texts in chunks, cards and requests; each event is `Publish`ed to
the buffer of every subscribed tab, or dropped when that is full. `EndOk` and `EndFail`
end a run, the latter through `Session.Stream`, which all tabs share. `HandleEvent` and
`HandleStream` are the SSE handler, the wire and the reducer at once: nothing happens
between them that another process could see. `sendMessage` and `handleResolveHITL` are
what the user does in a tab, `HandleSendMessage`, `HandleResolveHITL` and `Refused` what
the server makes of it (`HITL_ORPHANED`, `useChat.ts:957-963`, is never sent: HITL channels
are registered and never unregistered, so `ErrNoHITLWaiting` does not happen); `Disconnect`, `Subscribe`, `Reload`, `HandleGetSession` and `Loaded`
are the tab's connection and the load of the session. A tab is `calm` as long as
nothing came between it and the run: no drop, no lost connection, no reload, no refused
request, no other reader of `Session.Stream`, no end of a failed run that overtook chunks or
was left over for the next.

## 3. Runs

All runs pass.

| Run | Instance and bounds | What it shows |
|---|---|---|
| `exec_tools` | 2 runs with a Reset in between, concurrent tools, a retry, deposits that fail, one error place, no children | failures are routed (`FailuresRouted`), firings deposit exactly once (`FiringExact`), a deadlock is one (`DeadlockVerdict`), `Run` ends (`RunTerminates`) |
| `exec_hitl` | two gates, one with a revision loop of 1, one retry, late and repeated answers, cancellation, both modes | `CoTrigger`, `BlockedIsWaiting`, `CancelEndsRun` |
| `exec_subnet` | two children in one round, events on a bus of capacity 1, failing children; 290 871 states | `RunTerminates`; `PlaysTokenGame`, the refinement of `TokenGame` |
| `session` | 2 requests, up to 2 runs of 2 firings, failing flushes, reads and writes, cache, awakening, a fork of 2 messages, 1 restart; 4 001 327 states | `OneRun`, `HandedOver`, `Durable`, `RemovedIsCancelled`, `RehydratedComplete` |
| `breaker` | 3 firings of 2 attempts, threshold 2; 56 646 states | `QuietPeriod` |
| `host_gate` | 2 firings, one of them without a HITL channel, 5 operations (dangerous, caution, safe with a binary, the same in `sh -c`, kill), 2 calls, 2 answers, 1 event of the environment, a policy file at its cap; 466 617 states | `DangerAsked`, `BlacklistHolds`, `RememberSticks`, `UnaskedIsKnown`, `CancelEndsCall` |
| `topologies` | all 8 nets, 3 rounds of questions, 2 messages, a plan that repeats an ID and names a mandatory probe, a cap that cuts it; 28 182 states | `OneSafe`, `ProperCompletion`, `DeadlockKnown`, `QuestionsBounded`, `RunEnds` |
| `llm` | 6 configurations of one or two firings, 2 iterations of the tool loop, 2 calls per response, 2 answers, 2 attempts; 52 393 states | `ApprovalsCover`, `CallsAnswered`, `BilledOnce`, `FiringEnds` |
| `artefacts` | 2 files, 2 writes, one administrator next to writer and purge, grace of 2 days, 3 days, 1 fault, 1 crash, both ledgers; 1 583 980 states | `NothingDeleted`, `LedgerMatchesDisk` |
| `tool_registry` | 3 callers, a builtin and a forged tool in 2 versions, one binary, 1 fault, 2 restarts; 1 548 788 states | `IndexesAgree`, `RestartKeeps`, `DeprecatedStays` |
| `host_session` | any number of lines through a terminal and a channel of 1, two firings, or one with a retry, or a one-shot command, a Kill or Close from the moment the session is in the map, and the watcher; 675 988 states | `RemovedIsDone`, `EndsWithCaller` |
| `chat_stream` | 1 tab and any number of other clients, 2 texts or cards of up to 2 chunks, 2 acts of the user, buffers of 3 and 2; 724 872 states | `CardsIntact`, `ShowsWhatWasSaid`, `SpinnerStops` |

The bounds are the smallest at which the hazards happen: two runs to have something
stale, two firings in a round to have a conflict and two errors, two children to exit in
both orders, two requests to race, one restart at any point, three firings so that
reports go past the threshold, two calls and two answers so that the second call meets what a human made of the first,
and an answer left over, a cap of one pattern so that one approval exceeds it; three rounds so that a
second contradiction meets the cap; two iterations so that the loop ends by its cap and
a stale answer meets a second call; two files so that the second rename fails after
the first; three callers so that two can change what the third looked at; buffers smaller
than what is sent, so that channels are full. Where a property excepts
a case (`load.clients = 1`, `mishap`, `raced`, `early`, `calm`) the code does not keep it there;
the case is in the model, TLC reaches it, and it is described below. In `exec_tools` there
are no children because with them `DeadlockVerdict` is false. Requests are symmetric in
`session` and `tool_registry`; no run with a liveness property uses symmetry.

### Disagreements met while modelling

Where the code does something else than the repository says of it, or than a reader would
expect. Each is behaviour of the models; the properties above are stated around them.

Executor:

- `cpn/executor.go:283`: a child delivers and exits after `collectFirable` found
  nothing and before `activeChildren` is read; `Run` fails with `ErrDeadlock` though a
  transition can fire. `cpn/cpn.go:93` says the counter is there to avoid this.
- `cpn/cpn.go:468`: `centaurianGuard` looks at all tokens of the input places,
  `consumeAll` takes the heads: with a human's and an agent's token in one place
  computation runs on the agent's alone. `cpn/mode.go:15` calls the opposite the core
  Centaurian invariant. `CoTriggerHolds` needs places that do not mix them.
- `cpn/session.go:259`: an answer given when the gate does not wait stays in the channel
  and resolves the gate later, even in the next run (`FreshResponse` in `CPNExecutor` states
  the opposite and does not hold). `session_service.go:791` says such a
  response is refused as orphaned.
- `cpn/subnet.go:124`: a child's failure sets the parent to failed, and a later
  `IsComplete` overwrites it with completed. The same assignment hides a gate that waits:
  `BlockedIsWaitingHolds` needs an error place for every SubNet transition.
- `cpn/hitl.go:211`: two gates of one round share `StateWaiting`; the first answer
  hides that the other still waits. `BlockedIsWaiting` is about the only gate of a round.
- `cpn/cpn.go:561`: a child of the old run may deposit after `Reset`.
- `cpn/retry.go:162`: `doRetry` asks the breaker once before its loop, so retries go on
  after it has tripped, and a half-open breaker lets every waiting firing through.
- `cpn/transition.go:211`: a transition with an open breaker is not firable, so `Run` may
  end in `ErrDeadlock` (`cpn/executor.go:283`) before the open time is over. Nobody has to ask
  such a breaker again, so nothing is said of its closing.

Nets:

- `cmd/server/reassess.go:285` says a third round is never permitted; a topic shift or
  the user's choice starts the count anew, without bound. `QuestionsBounded` counts per topic.
- `session_service.go:457`: without a database no capabilities are seeded and every turn
  of the unified net ends in a deadlock.
- The answer given with an escape hatch is dropped; "Request Changes" at `t-review`
  executes the plan all the same; the preamble says "converged" also when the decision was
  another.
- The first transition of the manage-models net always fails its deposit
  (`cpn/executor.go:437`), and the forge net is refused by `Validate` (`cpn/validate.go:117`).
- Discovery with no probe at all deadlocks; the ID a suffix makes
  (`cpn/awakens/fanout/composer.go:54`) may be one the plan already uses.

LLM transition and client:

- `cpn/fire_llm.go:414-419` says that providers want one assistant message with all calls of a
  response, and that each call is written as an assistant message and its result. For two calls
  `openrouter.go:467-498` writes neither, but two assistant messages and then two results.
  `CallsAnswered` states what the code keeps, and no more: every call has
  one result after it, and the calls of a response stand together, followed by their results,
  before the next response.
- `infra/openrouter/openrouter.go:286`: a call that falls back to another model writes two
  call records; `cmd/server/main.go:176` promises one row per invocation.
- `cpn/fire_llm.go:599`: an approval left in the channel approves the next tool call, whatever
  it is; without a channel a tool that requires approval runs without one; a context that
  ends during the wait leaves `StateWaiting`; of two transitions waiting, the first
  answer sets `StateRunning`.
- A retry of the firing executes its tools again and adds its rows to the history again.
  The cost of a tool loop that fails is dropped (`cpn/fire_llm.go:278`).
- A stream that ends without `[DONE]` is accepted as complete.

Sessions:

- `session_service.go:421`: two messages pass the busy check before either sets the state;
  two goroutines run one CPN. `session_service.go:411` promises `ErrSessionBusy`. The second
  overwrites the first one's `cancel`, so a deletion then stops only one of them. Each
  resets and extends the same history, so rows may be handed over twice or not at all:
  `HandedOver` is about one client.
- `cpn/fire_llm.go:349`: rows of `fireLLM` have an empty ID when they are flushed; the
  second conflicts with the first in the table and is dropped. `session_service.go:494` says
  messages are persisted immediately. `Durable` is about rows that have an ID.
- `session_service.go:1712`: a session closed by `DeleteSession` is rehydrated by the
  next GET, and its messages are then refused by the table.
- `store/redis/session.go:73`: until it expires, the cached record lacks the latest
  messages; `RehydratedComplete` is about a server without the cache.
- `store/postgres/session.go:54`: `Get` selects neither `deleted_at` nor the title: a
  soft-deleted session comes back (`session_service.go:1735` says it must not), and the
  automatic title overwrites the user's, also "Fork of: ...", unless the fork's record is still
  in Redis, which keeps the title.
- The record a fork returns has no messages, so the forked session is live
  without its history, and Redis caches that.
- `session_service.go:1564`: the usage of the process so far is added to the ledger after
  every run, so it is counted again with each; `Durable` says that none is missing. The
  calls of an awakening are written only with the next run, and never if none follows;
  `Durable` excepts them.
- `session_service.go:1693`: a request that has read the record may insert its object after
  another has sent a message and a third has deleted the session; that message is in the table
  and not in the object. `RehydratedComplete` is about one client.

Host gate:

- `cpn/session.go:258`: an answer given when no call waits stays in the channel, and
  `session_router.go:180` takes it for the next question, whatever command that is about.
  No answer names its call, so `DangerAsked` counts: a firing has run at most as many dangerous
  commands as approvals were given to it.
- `infra/host/gate/matcher.go:40`: a wrapped command is classified by its script, but
  remembered and blacklisted as it was written, so neither sticks for `sh -c`.
  `spec/spec-process-bugfix-hitl-remember-and-bash-runtime.md:76` says that the next check
  of the same operation must allow it. `RememberSticks` and `BlacklistHolds` are about
  operations that their own pattern matches (`Plain`).
- `infra/host/gate/policy.go:139`: once approvals have pushed a list over its cap,
  `finalize` refuses and a blacklisted pattern is never compiled; both properties say so.
- `infra/host/gate/policy_gate.go:362`: an error of the ledger skips the first-run check.
  `UnaskedIsKnown` is about calls the ledger answered.
- `infra/host/gate/hitl.go:110`: the approval of a first run hashes the file again; if it was
  replaced while the human thought, the new content is approved.
- `Put` replaces the learned patterns in memory, and they are back after the next restart;
  the blacklist is in memory only.

PTY sessions (no production code opens one, `cmd/server/main.go:253`):

- `infra/host/session_manager.go:164`: the session is in the map, and from 173 its ID is
  published, before `wg.Add` at 182 and 186. A `Kill` or `Close` in between waits for nothing
  and removes a session whose loops then start, though 273 says that it "waits for the process to
  exit"; a `wg.Add` that meets its `Wait` may panic. The session's context is cancelled all the
  same, so the process dies. `RemovedIsDone` excepts this case (`early`).
- `infra/host/session_manager.go:191`: the report of readiness may be sent on the
  status channel after the waiter closed it, which panics.
- `session_manager.go:454`: the waiter closes the PTY before the reader has drained it, so
  the last output may be lost; the comment at 469 says it waits for the reader.
- A firing whose chunk channel closes first reports exit 0 for a failed process; one
  with a non-zero exit deposits the result and returns the error, against
  `cpn/fire_bash.go:51`. Sessions that have exited stay in the map.

Tools and artefacts:

- `cpn/tools/registry.go:436`: an entry that is unregistered and registered again in the gap
  of another call is changed through a stale pointer, or inserted twice, or refused as a
  duplicate after its own upsert. `RegisterEntry` ignores `Seal`.
- A rollback deprecates only the first version behind a binary, and a restore
  never un-deprecates.
- `cpn/persist/rollback.go:187`: after a crash in a rollback the retry's reversal
  removes the staging directory with the files in it. Two rollbacks of one set share the
  staging directory. A row still pending is quarantined without a file. A path
  written twice makes the rollback fail.
- The Postgres ledger keeps the first `quarantined_at` of a set that was restored and rolled
  back again, so it is purged early; the memory ledger brings purged rows back;
  a failure of `Ledger.Restore` leaves the set stuck.
- `authored_artefacts_store.go:223`: when the answer to a `COMMIT` is lost, the rollback
  brings the files home and the rows stay quarantined; both properties except it.

Streams and screen:

- `session_service.go:642`: the end of a failed run travels on `Session.Stream` and may
  overtake chunks in the broker (the view then stays "running"), may end the next
  run's text, and reaches only one of several tabs.
- `internal/driving/httpapi/sse_broker.go:117`: what does not fit a client's buffer is dropped;
  a reconnection neither resends nor reloads.
- The service never sets `StateWaiting` for a session, so `handler_session.go:274` never
  answers `hitl_pending`, and a page reloaded during a question shows it as expired. Cards
  for tool approvals are not persisted at all.
- For a fallback card the request is published before the card, so the card is not
  stamped with its transition and an answer does not lock it; a second click leaves a
  stale answer in the channel.
- A snapshot that arrives during a run replaces the chunks shown meanwhile; a refused POST
  leaves the view "running"; the awakening's message is never streamed.

### Fairness

`CPNExecutor!Fairness`: the main goroutine, every firing and every child take
their steps when they can (Go schedules runnable goroutines), and calls of nodes return.
There is no fairness for humans, cancellation or the next message; `RunTerminates`
is checked on nets without human gates, and with gates only `CancelEndsRun`. A
child's emitting has none either: it may be silent.

- `HostGate!Fairness` lets firings and audit workers step; an insert ends within its timeout
  of 5 seconds. Humans, administrators and the end of a context have none, so
  `CancelEndsCall` says what happens once a context has ended.
- `Topologies!Spec`: the executor's steps, and the returns of models, tools and shells, which
  all have timeouts. A human has none: `RunEnds` ends in a verdict or a question.
- `LLMTransition!Spec`: the steps of each firing; the provider answers or fails. A
  human has none, and `FiringEnds` excepts a firing that waits and is not cancelled.
- `HostSession!FairSpec`: each goroutine, the death of a killed process, and each case of
  the select on its own: Go chooses among ready cases at random, so a case that stays ready is
  taken. The process itself may run for ever.
- `ChatStream!Fairness`: publishing, the end of a failed run, the handlers and the
  connection. Nobody has to type or answer, no model has to.
- `CircuitBreaker`, `SessionService`, `Artefacts` and `ToolRegistry` state no liveness.

## 4. Proofs

For every net, set of places, retry policy, number of children and number of
runs (`NetAssumption`, `BehaviourAssumption`, `BoundAssumption`: arcs end in declared
places, outcomes have one token per output, capacities and bounds are naturals):

- `TypeCorrect`: `Spec => []TypeOK`, one lemma per action. The fact that needs
  care is that a firing's attempt stays within its policy and that a failed CPN has an
  error.
- `RoundBarrierHolds`. `RoundBarrier` says nothing of the phases in which
  firings start; `FiringPhase` adds for each location which statuses a firing may have,
  and is inductive.
- `FailuresRoutedHolds`. While `errCh` is drained some failures are not routed yet;
  `ErrorsPending` says that each failure without an error place is still in `errCh`, so
  leaving the loop with an empty channel means all were routed.
- `PlacesWellTypedHolds`. Every step changes the marking by one accepted
  or re-stamped deposit, by taking heads, by draining a bus, or by a Reset
  (`MarkingShape`, `WriterShape`); each keeps the places well typed.
- `CompletedSoundHolds`. `ResultPhase` ties a set result to `returned`; terminal
  places are never consumed from, so the verdict stays true while children of a run
  that has returned still deposit.
- `DeadlockVerdictHolds`, for nets without children (`Child = {}`). `Judged` carries
  the verdict through the round: the transitions visited so far are firable exactly if
  they are in the set, and nothing moves between the scan and the verdict. With
  children the statement is false (section 3).

- `FiringExactHolds`. `Progress` says how far the deposits of the current attempt are
  (the last `slot - 1` tokens put are the first `slot - 1` outputs, and in a first attempt
  there are no others) and `Exact` what is left of it when the firing has ended.
- `CoTriggerHolds`: `Spec /\ []OneOrigin => []CoTrigger`. `OneOrigin`: no input place of a
  transition under the guard holds tokens of both origins at once. The guard looks at all
  tokens and `consumeAll` takes the heads, so without it the statement is false. The net of
  `MCExecutorHITL` satisfies it.
- `BlockedIsWaitingHolds`, for nets whose SubNet transitions have an error place
  (`ChildrenRouted`). `Gates` says who can be blocked, `StateWriters` who may change the
  state while a round is waited for.
- `PlaysTokenGameHolds`: `Spec => PlaysTokenGame`. The initial
  states are initial states of the game, and each of the executor's steps is one step of it
  or a stutter. `Linked` is what the mapping needs beyond the invariants above: a transition
  about to be re-checked has not fired in this round, every entry of `errCh` is that of a
  failed firing, a run that has returned has a result, what a child still delivers belongs to
  its transition, and `activeChildren` is the number of children under way.

For every set of firings, operations, policies, files and bounds (`GateAssumption`:
`Inner` and `Covers` are functions on the operations, policies that are put fit the caps):

- `TypeCorrect`, `DangerAskedHolds`, `BlacklistHoldsAlways`, `RememberSticksAlways` and
  `UnaskedIsKnownAlways`. None is inductive: each speaks of the end of a call whose
  decision was made steps before, on a policy that has changed since. `IInv` adds
  `Learned` (what was remembered or blacklisted is in the current policy if that fits its
  caps) and `Sound` (for each place in the call, what the call already knows: its band is
  still justified by its policy, its hash approved at some time). That it survives other
  firings rests on `Grows`: within a loaded policy the dangerous band never changes and
  the other bands and lists only grow. One lemma per action. `DangerAsked` rests on
  `Balanced`: the dangerous commands a firing has run, and the approvals still owed to it (in
  its channel, or taken by the call under way), are together no more than those given.

For every number of firings, threshold and duration (`BreakerAssumption`):

- `BreakerInvariant`, `OpenIsEarnedHolds` and `QuietPeriodHolds`, from `Memory`: a tripped
  breaker has at least threshold failures and was tripped at the time of the last failure.
  `RoomToRetry` bounds the attempts for the type invariant.

For every finite set of firings with any configurations, any tools and any bound on
iterations, calls and answers (`LLMAssumption`; a server has finitely many firings):

- `TypeCorrect`, as `Typed`.
- `ApprovalsCoverHolds`. Between the answer and the run an approval is in the channel or
  with the tool about to run; `Covered` counts it in both places.
- `ReportsBilledHolds`. `Booked`: in the first attempt all that was billed is in `cost` or
  reported, until the attempt fails; what the tool loop had cost is then dropped, so after a
  retry only the inequality is left.
- `BilledOnceHolds`. The ledger is a sum over the firings. That the sum grows by one when one
  firing is billed is proved by a minimal counterexample among the subsets of a finite set,
  over the folds of `FiniteSetsExt`.
- `CallsAnsweredHolds`. `Conversation`: between tool loops every call has its result (`Full`);
  within a loop all calls of the response are in the conversation, and exactly those before
  the call in hand have theirs (`Partial`); `Blocks`: the responses are in order, and
  no call of a response comes after one of its results.

For every number of requests at a time, objects, runs, firings and restarts, with and without
cache, awakening and fork, and any writes that fail (`SessionAssumption`: finitely many
requests, at least one object):

- `TypeCorrect`, as `Typed`: the control state (`Base`), the session's record (`Books`), the
  counters of runs (`Numbers`) and `Texts`: every message in an object, the table, the cache, a
  record read or a run's rows is one that was made, with the number of messages made so far as
  a bound. What `AppendMessage`, `Get` and the handover make of a sequence are folds of the
  community modules. That such a fold is the last of a chain of single insertions is proved
  from its definition (`InsertedRun`, `ByTimestampRun` and their like), and what it
  returns by the first link of the chain for which the claim would fail.
- `DurableHolds`, for any number of clients. The conditional insert drops a row only if one
  with its ID is there, and an ID other than the empty one is of one message. `Persisted` says it for
  every run that is done, `Bill` that the ledger lags only while some run has still to
  be persisted, `AwakeOnce` that without an awakening nothing else spends.

With a client that sends one request at a time, which the properties say (with more of them
they are false, section 3):

- `OneRunHolds` and `RemovedIsCancelledHolds`. The busy check and the switch to running are
  apart, and so are `arm` and `launch`. `Found` says that the request between them works on
  the object in the maps and that it is not busy; `Prepared` that the run it armed is its own;
  `Unused` that an object about to enter the maps has no run; `Exclusive` that an executing
  run keeps its object busy and is alone there; `Held` that a run that may go on is
  cancelled or in reach of `st.cancel`.
- `HandedOverHolds`. `Hand` says for each phase of a run, in terms of its `historyLen`,
  `lastFlushed` and the rows in hand, which rows of the history are in the session's messages
  exactly once and which are not there yet; `Ready` and `Unflushed` that `historyLen` and
  `lastFlushed` are right when the run begins. That nobody else writes to the history or the
  messages meanwhile is `Exclusive` of the invariant above.
- `RehydratedCompleteHolds`, an action property. After a restart and before anybody sends,
  what a request has read is all of the table (`Reading`), in the record and then in
  the object; `Uncached` keeps it away from Redis.

For every number of firings and of requests to stop a session, any capacity and any output
(`HostSessionAssumption`):

- `TypeCorrect`, with `Counted`: a firing that has begun has a configuration, and one that
  sleeps has an attempt left.
- `RemovedIsDoneHolds`. `Opening` says which loops `Open` has started; `Waited` that who is about
  to remove the session from the map has waited for `sess.wg` and both loops are gone, or `Open`
  had not started both (`early`); `Removed` says the same of a session that is out of the map,
  and `LoopsLeft` what each loop has done by the time it is gone.

For every set of files, every number of administrators, writes, days and crashes
(`ArtefactsAssumption`), with at most one failing call (`OneFault`):

- `NothingDeletedHolds` and `LedgerMatchesDiskHolds`. `Ledger` (rows and bytes fit by path)
  always holds; `Sound` as long as nothing happened but that a row was quarantined whose file
  was not moved; `Exact` as long as nothing happened at all. `Sound` follows each file through
  a rollback (`InHand`: what was moved is where it was moved, and nothing else is there) and a
  restore (`AtHome`, `Current`: the snapshot still tells which rows are quarantined), and says
  that all quarantined rows bear one stamp, so that a purge takes all of them or none. With
  two failing calls both are false: a reversal whose rename fails too leaves a file in
  staging, and `reverse` removes the directory.

For every finite set of names and of callers, any faults and restarts (`RegistryAssumption`:
builtins have a version 1 and a name):

- `TypeCorrect`, as `Typed`, with what a call knows at each of its places (`CallShape`) and
  what a row looks like (`RowShape`).
- `IndexesAgreeHolds`. `Index`: the entries listed under an anchor are those of the names, and
  the builtins stay (`ListedNames`, `BuiltinsKept`), each list strictly descends by version
  (`Sorted`) and lists an entry once (`Once`). What insertion and removal make of a sorted list
  is proved for lists of any length.
- `DeprecatedStaysHolds`. `Flags`: of a name whose deprecation was acknowledged the row is
  marked or gone, and the entry too. The mark in memory comes after the mark in the table, and a
  restart reads the table.
- `RestartKeepsHolds`. It speaks of moments without calls in flight; `TableFollows` says
  what table and memory say of each other at every other moment: the row is gone and the entry
  about to go (`Leaving`), both are there and differ at most by a mark that a call is about to
  set (`SameEntry`), or the row is new and its entry about to come (`Arriving`). `OwnGen`:
  what a caller is about to insert is in no list and in no other caller's hands.

The last three hold as long as the cases described in section 3 (`raced`, and for `RestartKeeps` a
repository call that failed and took effect) have not happened, as the properties say.

Proved and no longer model-checked: the `TypeOK`s, `RoundBarrier`, `PlacesWellTyped`,
`CompletedSound`, `OpenIsEarned`. Proved and model-checked: `FailuresRouted`, `FiringExact`,
`DeadlockVerdict`, `CoTrigger`, `BlockedIsWaiting`, `PlaysTokenGame`, `DangerAsked`,
`BlacklistHolds`, `RememberSticks`, `UnaskedIsKnown`, `QuietPeriod`, `ApprovalsCover`,
`CallsAnswered`, `BilledOnce`, `OneRun`, `RemovedIsCancelled`, `HandedOver`, `Durable`,
`RehydratedComplete`, `RemovedIsDone`, `NothingDeleted`, `LedgerMatchesDisk`, `IndexesAgree`,
`RestartKeeps`, `DeprecatedStays`.

Only model-checked:

- All liveness (`RunTerminates`, `CancelEndsRun`, `CancelEndsCall`, `RunEnds`,
  `FiringEnds`, `EndsWithCaller`, `SpinnerStops`): fairness and `ENABLED` are out of the
  prover's reach.
- The properties of `Topologies`: its nets are particular nets, so TLC's check of them is
  exhaustive but for the plan's size, and a proof would be the same enumeration by hand.
- `CardsIntact` and `ShowsWhatWasSaid` of `ChatStream`: the invariant relates the texts sent to
  the chunks in three channels and on the screen, all of them concatenated; it is not proved.

## 5. Not modelled

- Layout and text: A2UI surfaces, personality, prompts, logging, metrics.
- Cryptography, parsing, SQL and HTTP as such.
- In modelled parts: topology mutation during a run, grandchildren and their buses, the
  model cascade, execution records, errors of Redis itself, the preview of artefacts,
  the activity display of the front end. `ChatStream` follows one tab; others appear by
  what they do to it.
- Components left out whole: synthesize and instantiate (no net of the server contains
  them), topology mutation, group agent, synthesis, rate limiters, the A2A adapter, the event
  batcher; flow metrics (floating point), personality and the model admin surface (text).
- The server configures no circuit breaker at this commit (`SetCircuitBreaker` has
  no caller outside tests); the module checks what the code would do.

Every component, modelled or not, is listed in `PROJECT.json` with the reason.

## 6. Plan

Order: what the most conversations depend on first.

1. Done: executor with HITL and SubNets and its abstract token game, the server's nets, LLM
   transition with client, session service with repository, host gate, circuit breaker, PTY
   sessions, tool registry, artefacts, chat stream.
2. Done: the safety invariants of all modules but two as theorems. Left: `CardsIntact` and
   `ShowsWhatWasSaid` for any number of events, `QuestionsBounded` for any cap of rounds.
3. The tree of SubNets with its buses; topology mutation against `collectFirable`; the event
   batcher, the rate limiters and the A2A executor.
4. An abstract specification of a conversation (accepted messages, saved messages, one run)
   that `SessionService` with one client implements.
