# MLX-Pilot in TLA+

MLX-Pilot is a local daemon (Rust, tokio, axum) that runs language models, agents with tools,
visual flows, scheduled tasks and messaging channels behind an HTTP interface; a desktop shell is
its main client. This directory holds TLA+ models of the parts of the daemon whose correctness
depends on interleavings, failures and time, the TLC configurations that check them on small
instances, and TLAPS proofs of every safety property for instances of any size.
`PROJECT.json` says which source lines every definition translates.

Run `tlc -config X.cfg M` for a run of the table below, `tlapm M.tla` for the `*Proofs` modules.

## 1. Inventory

Paths are under `src/crates/`.

| Component | State | Operations | Who it interacts with | What is hard |
|---|---|---|---|---|
| Background job registry `daemon/src/jobs.rs` | record map under an RwLock, one RwLock per record, a token per job, one semaphore, one broadcast channel per job | spawn, cancel, get, list, subscribe, prune | HTTP `/jobs`, SSE clients, task scheduler | the token is read between two awaits; cancel, outcome and prune race; every exit must return the permit; panics skip all writes |
| Downloads of the catalog `daemon/src/catalog.rs` | job map, cancel flags, the model's directory and its `.part` files | create, cancel, list | network, disk | two locks taken one after the other; two downloads into one directory; cancel against completion |
| Scheduled tasks `daemon/src/jobs.rs` | SQLite tables `scheduled_tasks`, `task_runs` | tick, create, delete, run start, run finish | job registry, clock | the tick works on stale rows; deletes and restarts in between; due rules at the edge of a tick |
| Exec scheduler `agent-tools/src/scheduler.rs` | heap, counters, one unbounded channel, a dispatcher thread | schedule, dispatch, run, complete | builtin tools | slots are freed by messages; limits in total and per domain; priorities; dropped callers; panics |
| Flow graph `flow/src/graph.rs` | the graph of one flow | validate, build | flow engine | two algorithms must agree, on multigraphs, or `expect()` panics |
| Flow engine `flow/src/engine.rs` | one run: node statuses, outputs, level, deadline | run, execute_node, retries | node executors, flow service | parallel nodes of a level, branches, joins, on_error, deadline against attempts and sleeps |
| Flow store `flow/src/store.rs` | one JSON file per flow and per run | save, get, list, delete, save_run, prune | flow service | no lock, a shared temporary name, crashes, dropped requests |
| Flow service `daemon/src/flows.rs` | store, engine, `last_fired` per trigger | routes, webhooks, FlowScheduler | store, engine, agents | runs that outlive their flow, triggers that come and go, overlapping runs and prunes |
| OODA controller `agent-core/src/ooda.rs` | plan, counters, last failure | run: orient, decide, act, replan | agent loop, model | any answer of the model; budgets checked between steps; the plan is rewritten while it is executed |
| Approval of tool calls `agent-core/src/approval.rs` | one mode, pending senders, allowlist, shared by all runs | request, resolve, set_mode | agent loop, HTTP `/agent/approve` | answer against timeout against another answer; the mode changes under a waiting run; dropped requests |
| Agent loop and runtime `agent-core/src/agent_loop.rs`, `agent_runtime.rs` | a run's messages, the event bus, a listener per run | run, execute_tool_call, fallback | providers, tools, approval, sessions | the transcript is written by another task that stops by itself; two runs of one session; a bus that lags; a run that is dropped or made again |
| Sessions and state store `agent-core/src/session.rs`, `state_store.rs` | SQLite rows per session and event, a search index | append, fork, edit, erase, truncate, rename, flag, delete | agent loop, HTTP | counts and index kept by statements of their own, without a transaction; runs that write back a row they read |
| Channels `daemon/src/channels/` | accounts, health, throttles, bridge processes | connect, send, probe, inbound | outside services, config | unlocked load-modify-save, retries, rate limit, circuit breaker |
| Ollama runtime `providers/ollama/src/runtime.rs` | operation lock, cancel flag, status, the server process, `versions/`, `active.json`, `process.json`, `install.lock` | ensure, validate_model, cancel, shutdown | network, disk, a server of its own or of others, a second daemon | phases that fail, are cancelled or dropped half way; a server per attempt; a swap in three steps |
| Configuration, vault `daemon/src/config.rs`, `secrets_vault.rs` | two whole files | load, save, set, remove, and a dozen routes | everybody | load-change-write without a lock; torn files; a reference in one file to a secret in the other |
| Documents and plugins `daemon/src/presentations.rs`, `plugin_host.rs`, `plugin-runtime/` | documents with a history of revisions, packages, grants, access files, two mutexes | get, save, edit, restore; install, enable, configure, remove; invoke and the host's calls | WASM engine, vault, agents | edits computed outside the lock; revoke against a running invocation; saves that fail half way |
| Tool policy `agent-core/src/policy.rs`, `tool_catalog.rs` | rules and profiles | inspect | agent loop | precedence of the rules |
| Builtin tools `agent-tools/src/tools/`, `sandbox.rs`, `checkpoints.rs` | child processes, files, checkpoints | exec, read, write, edit | exec scheduler | pipes against wait; a checkpoint before every write |
| MCP servers, search, research, hardware fit, memory, skills, other providers, doctor, desktop | records, caches, outside processes | requests | outside services | mostly input, output and scoring |

Interactions that the models keep: the scheduler's jobs go through the registry (its view of it:
queued, running, done, cancelled); the engine runs what the graph accepts (a flow of `FlowRun` comes
with the levels that `FlowGraph` makes, and what it takes of them, that an edge leads to a later level,
follows from `FlowGraph.LevelIsDepth`, which is proved), and the service sees of a run that it ends; an
agent run sets the mode of the shared approval service and waits in it; the controller sees the agent
loop as an executor that may answer anything; the health of a channel is kept in the settings file;
an invocation of a plugin calls back into the host that administers it.

What makes each modelled part correct is stated by the properties of section 3; `hazards` in
`PROJECT.json` ties each of them to the line where it could go wrong.

## 2. Modules

| Module | Models | How state and actions correspond |
|---|---|---|
| `JobLifecycle` | what `/jobs` promises, abstractly | one status per job as a client sees it, and who asked for a cancel |
| `JobRegistry` | the registry | a step ends at an await or where a lock is dropped. `task[j]` is the program counter of the job's tokio task, `waiters` the semaphore's queue, `canceller[j]` a cancel handler between its two halves. Shown to implement `JobLifecycle` by the refinement mapping in the module |
| `Downloads` | the downloads of one model | `pc[j]` is where `execute_download` is; each `patch_job` is a step; a cancellation is `Ask`, `Raise`, `Cancelling`, each under a lock of its own |
| `TaskScheduler` | the tick loop and the two tables | `LoadDue` evaluates `is_task_due` on all rows, `SpawnDue` spawns one job, `Pass` is the sleep of 30 s, `RecordRunStart/Finish` are the job's two writes (with the foreign key), `Restart` forgets the jobs and keeps the tables |
| `ExecScheduler` | the dispatcher | `channel` is the unbounded channel, `filling` tells the inner loop from `recv()`; started tasks move only at `recv()`, because they share the dispatcher's single-threaded runtime. A call takes its number (`TakeNumber`) before its message is sent (`SendEnqueue`), so that two calls may be in the channel in the opposite order; `earlier` is a history of the order of sending, for `NoOvertaking` |
| `FlowGraph` | validate and build | an edge is an index of the flow's list of edges, so that two may join the same nodes; the recursion of `dfs` as an explicit stack, one action per edge; Kahn's loop one level per action, `placed` counting the nodes as `build` does |
| `FlowRun` | one run of one flow | `Decide` is the top of the level loop, `Begin/Attempt/ExecuteOk/ExecuteErr/Awake/CutOff/TooLate` are `execute_node`, `Conclude` reads the results of a level. Items are abstracted to the ports that carry any; the levels are given with the flow |
| `FlowService` | flows, their runs and their schedule | a run is loaded, started, saved, listed and pruned step by step, and its record carries the modification time of its file (`stamp`) and the listing that its prune works on; `history` is the set of runs with a file. The scheduler walks the triggers with its `last_fired`; a flow is deleted before its history |
| `FlowCell` | what saving, reading and deleting one flow promise, abstractly | whose version readers get, and how each request ended |
| `FlowStore` | one flow's file | names point at inodes, whose bytes are the version of one save or a mixture; saves, deletes, dropped requests, refused writes and a crash interleave at every file system call. Shown to implement `FlowCell`, as long as saves do not overlap |
| `Ooda` | the controller | `Orient`, `Replan`, `Execute`, `Stop` are the arms of the loop in `run`; a plan is a sequence of steps, ids being positions |
| `Approval` | the approval service and its users | `stage[c]` is where `execute_tool_call` is with call `c`; `mode` is the one mode of the daemon |
| `AgentRuntime` | runs of one session and their listeners | the bus is a queue per listener, with room for so many events; `Listen` writes what the listener takes from it, `Step` is what the run does, in each of its variants |
| `SessionStore` | sessions, events, index | one action per SQL statement; `op[c]` is the request that client `c` is in |
| `ChannelPolicy` | one channel's accounts | a call is loaded, admitted, attempted and recorded; an edit loads the file and saves it; nothing locks it |
| `OllamaRuntime` | the model server's runtime | `op[c].pc` is the phase of the preparation that `c` is in; several daemons share the disk and the port |
| `Settings` | `settings.json` and the vault | `req[c]` is the request of client `c` between its load and its write; a file is `Torn` between truncation and write. One skill's override, one plugin's flag and the agent's key stand for the keys of the file |
| `Studio` | a document and a plugin | a document's text is the set of changes it has; what runs under `gate` is one step; `hostGate` is who holds `host_gate`, which an invocation does for the length of a call |
| `Background` | `JobRegistry` and `Downloads` side by side | as `DaemonState`, below |
| `FlowEngine` | `FlowRun` and `FlowGraph` side by side | as `DaemonState` |
| `FlowFiles` | `FlowStore` and `FlowService` side by side | as `DaemonState` |
| `AgentControl` | `Approval`, `Ooda` and `AgentRuntime` side by side | as `DaemonState` |
| `DaemonState` | `SessionStore`, `ChannelPolicy`, `Settings` and `Studio` side by side | an instance of each with its variables and bounds as parameters, so that theorems and runs speak of the same definitions. They share no variable; in the code the channels' accounts and health are in `settings.json` as well, see section 5 |
| `JobRegistryProofs`, `TaskSchedulerProofs`, `ExecSchedulerProofs`, `FlowRunProofs`, `FlowStoreProofs`, `ApprovalProofs`, `OllamaRuntimeProofs`, `DaemonStateProofs` | proofs | section 4 |
| `*MC` | instances for TLC | model values and the flows considered |

An MC module that holds several parts checks them side by side: a variable `part`, chosen by the
initial state, says which of them moves, and the others stay as they begin. The states are then the
sum and not the product of the parts, and the result is that of a check of each alone. The parts of a
run do not share state in the code, or only through what the modules above say they take from each
other, so their product would show nothing more, but for `settings.json` (section 5). `FlowFilesMC` checks one part, the service, twice with
different bounds, to keep it small: with the runs that requests begin, before any trigger is due, and
with those that the scheduler begins. Runs begun by both are met by the proofs only.

Definitions named `X_Something` and marked `Mutant` are wrong versions of `X` that a plausible bug
would give. They are used by no specification; replacing `X` by one of them must break the property
that `PROJECT.json` names with it, which is how we know that the property depends on the code.

## 3. Runs

| Run | Instance | What it shows |
|---|---|---|
| `background` | 2 jobs on 1 permit, panics, cancels, watchers, pruning; 2 downloads of one model of 2 files, with cancels | `PermitsConserved`, `CancelledInQueueNeverRuns`, `EveryJobSettles`, `ImplementsLifecycle` (with it, that a cancelled job never ends in Error); `StatusTellsDisk`, `EveryDownloadSettles` |
| `task_scheduler` | 2 tasks of any kind, 2 ticks, 1 restart | `RunningHasJob`, `OnceFires` |
| `task_scheduler_once` | 1 task, violation | a one-shot task is spawned again by every tick, see below |
| `exec_scheduler` | 3 calls, 2 domains (limits 2 and 1), 2 priorities, total limit 2 | `CountsExact`, `NoIdleCapacity`, `NoOvertaking` (a call does not start before one of its domain that was sent earlier and is ahead in the heap's order), `EveryCallAnswered` (unless a task panicked) |
| `flow_engine` | all simple graphs of 4 nodes, all multigraphs of 3 with up to 2 copies of an edge; runs of diamonds (plain and behind an `if`), a fan wider than `max_parallel`, a shortcut, with choices of `on_error`, a retried node, a disabled node or none | `NeverPanics`, `LevelIsDepth` against the definition of depth; `RunStatusIsEarned`, `EveryRunEnds` |
| `flow_run_disabled_if` | the same, violation | disabling a `flow.if` skips what is behind it |
| `flow_files` | 3 saves, 1 delete, a crash; 2 runs of a flow with a history of 1, by its requests or by a trigger that occurs once, a restart | `ImplementsCell`; `LatestStays` (a record that no run wrote after is not pruned, whatever prunes overlap), `OrphansWereInFlight`, `OncePerOccurrence` |
| `flow_store_truncated` | the same, violation | overlapping saves can leave a torn file |
| `agent_control` | 2 calls of runs with all pairs of modes, one of which the policy asks about; plans of 3 steps over 2 descriptions, 2 attempts, 2 replans, 5 cycles, 3 tool calls; 2 runs of a session, one classic or OODA, one Hermes | `OneDecisionCounts`, `PendingIsWaiting`, `EveryCallSettles`; `SettledIsKept`, `Terminates`; `TranscriptTellsRun`, `EveryRunReturns` |
| `approval_deny_waits` | the same, violation | a run with mode `deny` waits for a client |
| `agent_runtime_ooda` | the same, violation | what an OODA run does after its plan is not in its session |
| `daemon_state` | 2 sessions, 2 clients, a kill; 2 accounts, 2 callers, an editor, a breaker that opens after 2 failures; 2 daemons over one Ollama root with 3 requests and 1 fault; 2 clients of the settings, with 1 failed write or crash; a document with a history of 2, a page, an invocation, 3 administrations, a failed save | `CountExact`, `IndexTruthful`, `FlagKept` (a run does not bring back or drop the archived flag); `HealthExact`, `OrphanSessionsWereLate`; `NoServerLeaks`, `SettledAtRest`, `ValidIsKept`; `AckedKept`, `ReferencesResolve`; `NoLostEdit`, `ListedIsThere`, `RevokedStaysOut` |

Several of these properties name their exceptions, as ghost variables: an overlap of two load-and-save
requests (`overlapped`), a download that shared the directory with another (`crowded`), a file left torn
(`lost`), a login that was ending (`late`), a save that failed after it pruned (`pruned`). The code has
these gaps; the property says that there are no others, which is what would be lost by a change.

Why the bounds are enough. Each instance is the smallest in which all the parties of a hazard meet:
a job that queues behind another (two jobs, one permit); a task that waits for its domain while
another may start, and one more to be overtaken (three calls, limits 2 and 1); two saves that race
and a third that finds what they left; a join with a slow and a fast branch; a level wider than
`max_parallel`; a step that is retried, given up and revised, with room for another; two daemons, one
with a chat beside its start-up; two requests that load one file; a listener of one run that meets the
end of the other; a page and a plugin that change one document over more revisions than are kept.
Cycles, levels and depths of graphs are exhaustive for four nodes. The exec instance takes one order
of the three calls' kinds for all: the calls are interchangeable. Symmetry is used in `daemon_state`
only, which has no liveness property, between the two clients, which nothing tells apart. Its bounds
are small (two operations on the model server, three administrations). The safety properties of all runs
are proved for every bound in section 4.
Bounds on unbounded things are constants (`MaxTime`, `MaxRestarts`, `MaxFaults`, `MaxOps`,
`CallsPerStep`) or come from the program (`MaxCycles`, `MaxReplans`, `Kept`). Where deadlock is not
checked the system really may stop: every job, call or save is over.

Fairness. Weak fairness is given only to what the runtime schedules: tokio polls ready tasks, the
semaphore and the channels serve in order, timers fire, the dispatcher thread runs. Clients owe
nothing: nobody has to submit, cancel, watch or answer. The work of a job is assumed to end
(`WorkFairness`: the daemon's jobs have bounded rounds and request timeouts), and a started exec task
to answer (its command has a timeout). A flow node's executor may hang for ever, so `FlowRun` gives
`ExecuteOk` and `ExecuteErr` no fairness: the deadline must end the run by itself. `Ooda` assumes that
a call of the executor returns, since the agent loop bounds its iterations and every provider call
has a timeout; `AgentRuntime` assumes the same of its providers and tools, and that a listener is
polled. `Downloads` assumes that the stream yields, ends or fails, and that a cancellation which has
looked goes on.

### What the code does otherwise than it says

The violation runs show five disagreements between the code and what the repository says of it; the
quotations are in `PROJECT.json`.

- `OnceRunsOnce`: nothing writes `last_run_at` or disables a one-shot task (`touch_last_run` and
  `disable_task` have no callers), so each tick after `run_at` spawns it again.
- `DisabledKeepsTheRest`: a disabled node passes its input on port `main`; a `flow.if` has no edge
  from that port, so the rest of the flow is skipped in a run that succeeds.
- `NeverLeftTruncated`: `write_json_atomic` uses one temporary name for all saves of a flow.
- `DenyRunsNeverWait`: the approval mode is one for the daemon and each run overwrites it.
- `OodaTranscriptTellsRun`: the listener of a run stops at the first final answer on the bus, which in
  an OODA run is that of the planning loop; the tool calls of its steps are not written to the session.

Six more are stated in the modules and refuted by TLC when given to it, without a run of their own:
`CancelMarksStatus` (a queued job's cancel is answered with `queued`), `NoOverlap` and
`CronFiresAfterItsTime` (the tick does not look at the task's previous job; a cron task is spawned
up to 60 s early), `ToolCeiling`, `ProviderErrorEndsRun` and `AttemptsAreCapped` (failed steps count
no tool calls, a provider's error is one more failed step, and a repeated description inherits the
attempts of its first occurrence). To see one, add it as INVARIANT or PROPERTY to the cfg of a run
that has its module.

Seen while modelling, without a statement of the repository against it:

- a session renamed by its user gets the name of the run's question again at the next run
  (`agent_runtime.rs:348`);
- settings that do not parse are read as the defaults, and the next save makes them so
  (`config.rs:646`); most requests load the settings with the environment applied and save that copy,
  so an API key from the environment ends up in the file (`agent_api.rs:4764`);
- a cancellation of the Ollama runtime that comes just before a request lowers the flag is lost, the
  server's `process.json` is removed before the port's owner is looked up in it, and a model's validation
  writes the status of a preparation it does not hold the lock of;
- access given to a plugin with one declaration is in force again when a package with another one is
  installed over it and the first comes back (`plugin_host.rs:108`).

Also stated in the modules, and true of the instances above when added to them, but not listed by a
run, where deeper ones took their place: each module's `TypeOK`, `LimitsRespected`, `WholeWithoutOverlap`,
`OldVersionUntilRename`, `RunsBelongToTasks`, `JoinsWait`, `OnlyTakenBranchesRun`, `ReportedCycleIsReal`,
`HistoryBounded`, `ActSeesAllDoneWork`, `StopIsEarned`, `OverrunIsOneStep` and `AnswerComesLast`, which
are proved (`TypeOK` where section 4 has it); `AckedNeverError`, proved, and part of what a step of
`JobLifecycle` is; and `WatcherHearsOfEnd` and `DefaultExists`, which are only model-checked.

## 4. Proofs

Every safety property that a run checks, invariant or action property, is proved. TLAPS proves, for any
sets of jobs, calls, clients, nodes, flows and requests and any limits, each of the following as a
theorem `Spec => []P` (or `Spec => P` for an action property), `Spec` being the specification of the
component, which for one that is composed is `Catalog!Spec`, `Graph!Spec`, `Ooda!Spec` and so on:

| Module | Theorems | Argument |
|---|---|---|
| `JobRegistryProofs`, registry | `TypeCorrect`, `PermitConservation`, `AckedCancelSticks`, `CancelInQueueSticks`, `Refinement` | `IInv` adds to the invariants that a canceller which has signalled has set its token. `TypeOK` alone is not inductive: that `permits` stays within the cap follows from the count of the holders. Every move of a task takes a permit, gives it back or keeps it (lemmas on `Holders`), and a published Error needs a token that is not set. `Refinement`: under `IInv`, every step of the registry is, through the refinement mapping, a step of `JobLifecycle` or a stutter |
| `JobRegistryProofs`, downloads | `StatusesTellTheDisk` | `DownloadsInv` goes by inodes: none is both a part and a finished file, what an inode is named for is a file its download has opened, and who is not `crowded` is alone, so that the part it writes is its own and the files behind it stay whole; a download that has removed the directory has nothing in it ever after |
| `TaskSchedulerProofs` | `TypeCorrect`, `HistoryRefersToTasks`, `RunsAreLive` | the insert of a run and the delete of a task both look at the other's table, and no run is from a start of the daemon that is still to come; a run shown as running has its job, unless a restart forgot it |
| `ExecSchedulerProofs` | `TypeCorrect`, `CountersExact`, `LimitsHold`, `CapacityIsUsed`, `OrderIsKept` | the counters are decremented by messages, so `IInv` speaks of the channel: nothing is in it twice, a completion in it belongs to a task still counted, an enqueued or queued task has not started. A received completion then frees a slot that is really taken, once, and `saturating_sub` never saturates. `CapacityIsUsed` rests on a lemma that a finite non-empty set of tasks that could start has one that is first in the order, which the dispatcher's loop then takes. `OrderIsKept` needs `SendOrder`: what was sent is in the channel or has arrived, calls are in the channel in the order of sending, and when a call has arrived so have those of its domain sent earlier; a task that is started therefore finds them in the heap, with room if it has room itself, or started |
| `FlowRunProofs`, graph | `BuildNeverPanics`, `ReportedCyclesAreReal`, `LevelsAreDepths` | `SearchInv`: the stack is the path to the node being visited, what is finished leads only to what is finished, and no part of the finished nodes is without one that nothing else in it points to. A search that ends has therefore shown that of all nodes. Kahn's loop then never stops early: the nodes not yet placed have one that waits for none of them. A level holds what nothing outside the earlier levels points to, and something of the level before does point to, which makes a node's level its depth |
| `FlowRunProofs`, run | `StatusIsEarned`, `JoinsWaitForAll`, `BranchesAreTaken`, `TypeCorrect` | `RunInv` goes by levels: those before the one being run are settled for good, those after it are untouched, and in it a node is decided against or on its way; a finished run gave up, completed, was cut short or stopped. A result read first or last changes nothing, as the status is a function of the set of results |
| `FlowStoreProofs`, one file | `TypeCorrect`, `WholeFile`, `OldVersionStays`, `Refinement` | as long as no two saves overlapped, at most one is under way, it holds the inode that the temporary name refers to, and that inode holds exactly what the save has got to; no request that has yet to open a file has its inode in use. `Refinement`: a rename then puts the version of its own save into the cell, a removal empties it, and every other step leaves what readers get |
| `FlowStoreProofs`, service | `ServiceIsTyped`, `OrphansAreOfFlight`, `TheLatestStays`, `HistoryIsBounded`, `TriggersFireOnce` | `ServiceInv`: records are stamped in the order of their writing (`Stamps`), and listings hold what was written (`Reads`), so a prune, which removes what has `Keep` newer ones in its listing, spares what none was written after. `Tidy` orders the prunes under way by what their listings know of each other, which bounds the history; `Orphans` accounts for every run whose flow is gone: its history is yet to be listed, or it is on the list, or it outlived it; `Fires`: no trigger is ahead of the clock or of what the scheduler remembers |
| `ApprovalProofs`, approval | `TypeCorrect`, `OneDecision`, `PendingExact` | the entry in `pending` is the right to one acknowledged decision: before a call registers nothing refers to it; while the entry is there nobody was answered Ok and the channel is empty; an expired call's channel is empty; only a settled call has an outcome |
| `ApprovalProofs`, controller | `OodaKeepsTheSettled`, `OodaSeesAllDoneWork`, `OodaStopIsEarned`, `OodaOverrunIsOneStep` | `OodaInv`: what is settled is the front of the plan, a failed step has had its attempts, a reason is given when the run stops. A new plan is what is settled followed by what the model answered, cut to `MaxSteps` (lemmas on the plan); as a plan is never longer than that, what is settled stays |
| `ApprovalProofs`, sessions | `TranscriptsTellRuns`, `AnswersComeLast` | `SessionInv`: a run that is not `shared` has the bus to itself, and what its listener has written followed by what waits in its queue is, in order, what the run did, unless the listener lagged; only the last event in the queue can end the listening |
| `OllamaRuntimeProofs` | `TypeCorrect`, `ServersAreHeld`, `StatusSettles`, `WholeIsKept` | who excludes whom: the operation lock of a daemon belongs to the request that prepares, `install.lock` to the one that installs, no runtime is whole while one is downloaded, extracted or swapped in, and a daemon holds no server between the stop of the last and the start of the next |
| `DaemonStateProofs`, sessions | `CountIsExact`, `SearchIsTruthful`, `FlagIsKept` | `StoreInv`: a session's count and those who have inserted and not yet counted make up its events; an entry of the index is its event's text unless somebody is at it, and who is about to write it has the text it needs; two at one entry tear it. `FlagInv`: every copy of a row in hand has the flag last asked for, and a fork is alone at a session that is not there yet |
| `DaemonStateProofs`, channels | `HealthIsExact`, `OrphansWereLate` | `ChannelInv`: until two updates overlap, who is about to save has the file as it is, each account's health tells its streak, and a session, or a call about to leave one, has its account or was late for its removal |
| `DaemonStateProofs`, settings | `AcknowledgedStays`, `ReferencesFind` | `ConfigInv`: without an overlap the file, and every copy in hand of its version, hold what was asked for, and a torn file is being written; what a copy or the file refers to in the vault is there, and a removal from the vault comes with the copy that refers to it no more |
| `DaemonStateProofs`, documents | `NoEditIsLost`, `HistoryIsThere`, `RevocationHolds` | `PapersInv`: an edit that is ready is of a revision that is there, the current one has all that it was made from; an invocation between its question and its save holds `host_gate`, so the access it was granted is the access there is |

An invariant that a run checks is seldom inductive by itself: the `*Inv` of the table are, and the
theorems `Invariance`, `RunInvariance`, `StoreInvariance`, ... state them. Each has one lemma per kind
of step. The ghosts that excuse a property (`off`, `torn`, `stale`, `late`, `lost`, ...) are part of
the statements, so a theorem also says that these are all the ways in which the code fails it.

Proving them corrected the models three times. `StatusTellsDisk` excepted too few downloads, and was false
of three, which the run with two does not reach: files that one has completed suffer when two later
ones meet, so that it counts as `crowded` too. The arms of `AgentRuntime.Return` overlapped, where the
code's are exclusive. And nothing said that `FlowService`'s `None`, a flow without a file, is no
definition of a flow.

The assumptions are those named in the modules: finite sets where something is counted, limits that
are positive, which `max(1)` and `env_limit` enforce, occurrences of a trigger that are integers, model
values that are no data (`Nobody`, `None`, `Torn`), and for `FlowRun` that a flow's levels partition its
nodes with every edge leading to a later one
(`FlowShape`), which is what `FlowGraph` hands over.

Only model-checked is liveness, all of it, because fairness and ENABLED are beyond the prover:
`EveryJobSettles`, `EveryDownloadSettles`, `OnceFires`, `EveryCallAnswered`, `EveryRunEnds`,
`EveryCallSettles`, `Terminates` and `EveryRunReturns`.

Nothing is proved by induction over data, which the installed provers cannot instantiate. Where the
argument calls for one, as for the depth of the nodes of an acyclic graph, it is given as a least
counterexample: a non-empty finite set of numbers has a least member.

## 5. What is left out

Payloads, prompts, wording, logging and audit text; SQLite errors; the text parser of plans (any
list of steps stands for its result); what a job, a command, a node, a tool, a channel's adapter or a
plugin's code really does (it succeeds, fails, hangs or panics). Providers, the WASM engine, the
network and the file system's own failures beyond a refused write or rename are outside. Of the
partly modelled components:

- agent loop: its prompts, its context window and the choice of tools;
- sessions: the ranking of the search, the import of old files, statistics;
- channels: the adapters, the audit log, the bridge process;
- Ollama runtime: checksums and archives are a payload that is whole or damaged;
- settings: the other keys, which the same requests treat alike; the vault's key file is taken as made.
  `ChannelPolicy` and `Settings` each have the part of `settings.json` they are about and only its own
  writers: a request of the one that overwrites a change of the other is not modelled. It is the overlap
  that each has as an exception (`overlapped`) between writers of its own part;
- documents and plugins: slides, creation and listing, network requests and credentials of plugins.

Components with status `not_modelled` in `PROJECT.json` have their reason there.

## 6. Plan

What is next, the most important behaviour first:

1. `ExecTool`: the child, its two pipes and its timeout inside a slot of `ExecScheduler`. Hazard:
   `tools/exec.rs:305`.
2. The credentials and network requests of plugins in `Studio`; the flags of `plugins/mod.rs` together
   with the packages.
3. `ToolPolicy` as pure operators against a reference order of the rules.
4. MCP servers: a registry of child processes and one request at a time to each.

Each new model gets its section in the proof module of the component it belongs to.
One more refinement would be worth stating besides those of `JobLifecycle` and `FlowCell`: that
`ExecScheduler` is a bounded pool.
