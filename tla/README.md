# A verification development for BigEd's fleet

BigEd runs a fleet of worker processes that take tasks from a SQLite table, execute
them with the help of language models, and are kept alive by a supervisor. This
directory holds TLA+ modules translated from that code, TLC configurations that
check them on small instances, and TLAPS proofs of their safety for instances of
every size. Paths below are relative to `src/`.

Contents: [the system](#the-system) · [modules](#modules) · [runs](#runs) ·
[fairness](#fairness) · [proofs](#proofs) · [what the model leaves
out](#what-the-model-leaves-out) · [disagreements](#where-code-and-text-disagree) ·
[plan](#plan)

## The system

All processes share one SQLite database (`fleet/fleet.db`: tables `tasks`, `agents`,
`messages`, `locks`, ...). There is no broker and no server process in front of it;
every rule about who may do what is a WHERE clause, or the absence of one. `with
get_conn() as conn` opens a transaction at the first *write*, so a helper that
SELECTs and then UPDATEs is two steps with other processes in between, and one that
only UPDATEs is a single step.

| component | state it keeps | operations | with whom |
|---|---|---|---|
| Task queue (`db_tasks.py`) | `tasks`: status, assigned_to, depends_on, conditions, retry count | post, claim, claim two, complete, fail, requeue, reject, promote, cascade, recover stale, cancel, resume chain | everybody |
| DAG processor (`dag_queue.py`) | in each process a queue of events in memory | enqueue, drain a batch, promote, cascade | called by complete and fail, writes `tasks` |
| Worker loop (`worker.py`) | its current task, idle counters, a skill thread | poll, claim, run skill with timeout, review, complete / fail / put back, idle curricula, proposals | `tasks`, `agents`, `messages`, skills |
| Human in the loop (`db_hitl.py`) | status WAITING_HUMAN, message to the operator | ask, list, respond | worker, operator |
| Operator endpoints (`tasks_blueprint.py`, `mcp_server.py`, `lead_client.py`) | none | respond, cancel, remove, requeue, resume | `tasks` |
| Self-healing (`health_monitor.py`) | sweep times, circuit breakers | find stuck agents, kill and reset, retry failed tasks, recover stale tasks, quarantine | `tasks`, `agents`, processes |
| Boot (`boot_sequence.py`) | stage, pid file | check the pid file, fail RUNNING rows of the last session, start the core workers one by one, start or adopt Ollama | `tasks`, process manager |
| Process manager (`process_manager.py`) | process handles, `_worker_next_start`, the Ollama process, training flags | start, stop, check alive, cool down, respawn, shut down; move Ollama between GPU and CPU | workers, Ollama, Dr. Ders |
| Scheduler (`scheduler.py`) | time of last check, scale history | scale up and down by queue, overflow to peers, detect trainings | process manager, `tasks`, federation |
| Supervisor (`supervisor.py`, `pid_manager.py`) | the loop, pid files, `.restart_requested` | one tick of each of the above, in series; signal handler, shutdown, execv | all |
| Named locks (`db_agents.py`) | `locks`: name, holder, acquired_at | acquire, release, check | `skill_train`, Dr. Ders |
| Dr. Ders (`hw_supervisor.py`) | throttle, transition, training flags, `hw_state.json`, `models.local` in `fleet.toml` | poll GPU and Ollama, ping, choose a tier, swap models, evict for a training | Ollama, `locks`, workers and vision tasks through the state file |
| Messages (`comms.py`) | `messages`, notes | post, read unread, mark read | workers, operator |
| Federation (`scheduler.py`, `federation_router.py`, `event_triggers.py`) | the pass of the scheduler; peers, health | post a PENDING task to a peer, mark it FORWARDED, receive one | `tasks` of two fleets |
| Modules (`modules_blueprint.py`, `dep_resolver.py`, `module_snapshotter.py`, the launcher's `hub.py`) | `[launcher.tabs]` of `fleet.toml`, `module_snapshots`, the configuration cached for 5 s | preview a change, apply it, roll back, take and prune snapshots; switch one tab | `fleet.toml`, `module_registry` |
| Experiments (`experiment.py`, `ml_train_suite.py`) | experiment status, GPU row | propose, approve or reject, run, evaluate, deploy, release | `locks`, operator |

The remaining parts (providers, billing, ingestion, security, dashboard, skills, the
Rust port, the launcher) are listed with their reasons in `PROJECT.json`.

What is hard here:

- **Check, then write by id.** cancel, retry, requeue, resume, promote and the gate
  of a proposal decide on a row they have read and write it later by id alone.
  complete_task and fail_task never test the status they overwrite.
- **The event before the commit.** complete_task hands its promotion to a thread
  with its own connection before it commits.
- **Many DAG threads.** Each worker has one, each rescans the whole table; events
  live in memory and die with the process, or with an exception in a batch.
- **Recovery guesses.** A worker deep in a skill does not heartbeat. Stuck and stale
  are told apart by pid files, kills may fail, a respawned worker looks fresh.
- **Leases without refresh, holders without identity** (named locks, the GPU row).
- **Files as messages.** A pid file is checked and written in two steps;
  `hw_state.json` is rewritten by Dr. Ders and by vision tasks, and emptied first;
  `fleet.toml` is edited by operators while Dr. Ders acts on what it read; requests
  that change modules read it, empty it and write it without a lock.
- **Decisions that travel.** A change of modules is computed for a preview, sent to
  the client, and carried out when it comes back, on whatever the file says then.
- **Serial ticks with long memories.** A cool-down, a throttle, a `was_training` or
  an `ollama_evicted_for_training` is decided upon long after what it was set for.
- **Signals in the middle of a tick**, between a Popen and the record of its handle.
- **Requests without an identity.** The answer of a peer is the only link between a
  task and its copy; it can be lost.

What makes each component correct: nobody executes a task that another worker is
executing; nothing runs before what it depends on, or before the operator has
agreed; a row that is claimed is being worked on or is found again; a queued task
ends; a lock excludes; there is one supervisor and one process per role, a shutdown
leaves none, and dead workers come back; the GPU is spared when it is hot and the
model never grows by itself; workers wait out a change of the model and are not left
waiting; the record of an experiment says what its run did; a forwarded job is
neither lost nor done twice; what is switched on has what it requires, and a
rollback brings back what was. The properties below say exactly how far that is
true.

## Modules

| module | models | proofs |
|---|---|---|
| `TaskQueue.tla` | the tasks table and all that writes it: workers, DAG threads, recovery, operator | `TaskQueueProofs.tla` |
| `Dispatch.tla` | what a submitter may rely on; `TaskQueue` implements it | in `TaskQueueProofs.tla` |
| `Lifecycle.tla` | supervisors, their workers, pid files, scaling, respawn, shutdown, restart | `LifecycleProofs.tla` |
| `Hardware.tla` | the GPU: Dr. Ders, the supervisor's Ollama, trainings, vision tasks, the workers' gate | `HardwareProofs.tla` |
| `FleetLock.tla` | the `training` lock around `skill_train` | `FleetLockProofs.tla` |
| `Experiment.tla` | experiments, their approval and their GPU row | `ExperimentProofs.tla` |
| `Federation.tla` | overflow of tasks between fleets | `FederationProofs.tla` |
| `Modules.tla` | changes of modules in `fleet.toml`, snapshots, rollback | `ModulesProofs.tla` |
| `ResolverSearch.tla` | the recursive searches of the resolver, step by step | `ResolverProofs.tla` |
| `MCTaskQueue`, `MCLifecycle`, `MCHardware`, `MCFleetLock`, `MCShared` | instances for TLC | |

Every module names the optional events of an instance in a constant (`Env`,
`Scenes`, `ExpEnv`, `FedEnv`), so that a run can say under which circumstances
something holds and a proof can quantify over all of them. *History* variables are
never read by a guard; they record what the properties speak about.

### TaskQueue

State. `status`, `owner` (assigned_to), `retries` and `matched` (DONE with a result
that has the substring its conditions ask for) are columns of `tasks`. `pc` and
`cur` are the loop of each worker process; `dagq` its event queue and `scan` the
rows its DAG thread has read and not yet written; `lostpid` the live workers whose
agents row has lost its pid. `intent[h]` holds the rows that the helper `h` (cancel,
requeue, retry, resume) has read and is going to write. `gate` follows a proposal
from INSERT to answer. Five *history* variables, never read by an action's guard,
record what the properties speak about: `completed`, `fit`, `reopened` (a FAILED row
was put back), `seized` (a row was taken from a worker that was alive), `slipped` (a
proposal was claimed before its gate closed).

| actions | code |
|---|---|
| `Post` | `post_task`: WAITING iff it has dependencies, pinned or not |
| `AskHuman`, `Respond` | the second statement of a proposal (`worker.py`, `request_human_input`), `respond_to_agent` |
| `Claim`, `ClaimSecond` | `claim_task`: one UPDATE, then the SELECT that returns the *largest* RUNNING id of the worker; the second round of `claim_tasks(n=2)`, whose row the loop drops |
| `Complete`/`CommitComplete`, `Fail`/`CommitFail` | `complete_task`, `fail_task`, split where the event is queued: between the halves the process holds SQLite's write lock (`Unlocked` is false for everybody else) |
| `PutBack` | `requeue_task` on overload, `reject_task` on a failed review |
| `DagScan`, `DagApply`, `DagLost` | `_process_loop`: read the ready or the dependent rows, write them by id, lose a batch to an exception |
| `Crash`, `Respawn` | a process dies with its queue and its open transaction; `check_alive` starts it again |
| `RecoverAgent`, `RecoverAgentKillFails` | `recover_agent` with and without a successful kill |
| `RecoverStale`, `BootSweep` | `recover_stale_tasks`; the boot's `UPDATE ... WHERE status='RUNNING'` |
| `Decide`, then `Cancel`, `Reopen`, `Resume` | the SELECT and the UPDATE of `cancel_task`, dashboard requeue, `retry_failed_task`, `resume_chain` |
| `ResumePromotes` | `resume_chain` with nothing FAILED: only a promotion, by `DagApply(None)` |
| `Unqueue` | the two cancel endpoints whose UPDATE repeats the PENDING test |

### Dispatch

The abstract queue: `running`, `done`, `fit`, and two licences, `shared` and
`forced`. `Start` needs the worker free, the task alone or shared, its dependencies
done or the task forced; `Finish` completes what the worker runs; `Abandon` drops
it; `License` gives licences and never takes one back.
`TaskQueue!ImplementsDispatch` maps `running` to `cur`, `done` to `completed`,
`shared` to the rows that were reopened or seized and `forced` to those that were
reopened. It has no rows, claims, events or sweeps, so the refinement says that all
of these together give away a task in no other way; in particular that a late write
of a DAG thread, a sweep or an operator never completes a task nor starts one.

### Lifecycle

State. `sup[s]` is where supervisor process `s` (a pid) is: unborn, booting before
and after its check of the pid file, up, stopping, restarting, gone. `known[s]` is
the list of disabled agents it read at boot. `proc[s][w]` is the process it started
for role `w`, `handle` and `due` its tables `worker_procs` and `_worker_next_start`.
`supFile` and `pidFile` are the pid files, `disabled` and `flag` the operator's
`disabled_agents` and `.restart_requested`. Histories: `lost` (supervisors that were
killed, or signalled between a Popen and its record), `raced` (two processes were
between check and write of one pid file), `revived` (running because of a respawn),
`overlapped` (started by the scaler while due for a respawn).

| actions | code |
|---|---|
| `Launch`, `CheckPid`, `WritePid` | start of `supervisor.py`; `acquire_pid`: the test for a live process, then the write |
| `BootWorker`, `BootDone` | the boot stage that starts the core workers one by one, then the main loop |
| `CheckAlive` | `check_alive`: dead handles get a cool-down, those whose cool-down is over get a process; disabled ones neither |
| `CheckScaling` | `check_scaling`: stop idle workers, start those the queue asks for up to the cap |
| `MemoryWatchdog`, `SweepSupervisor` | the watchdog that ends a worker and drops its handle; the health sweep that finds the supervisor's own row stuck |
| `SeeFlag` | the restart by flag: stop the fleet, execv |
| `Signal`, `CutStart` | SIGTERM between two ticks, and inside `start_worker` |
| `StopWorker`, `EndShutdown` | `shutdown_all`, worker by worker; then exit or execv |
| `Kill`, `Crash` | a process ends without cleaning up; its file stays |
| `WorkerCheckPid`, `WorkerWritePid` | the pid check of a worker: the second of a role exits |
| `RequestRestart`, `FleetRestart`, `SwitchAgent` | the endpoints: the flag; terminate and launch anew; enable or disable an agent |

### Hardware

State. `conf` is `models.local` in `fleet.toml`; `mode`, `loaded` and `handle` are
Ollama (off, on the GPU, on the CPU), its models and the supervisor's process object
for it; `knows`, `cpuOnly`, `supAt` belong to the supervisor's training detection.
Dr. Ders has its place in the poll (`ders`), its transition (`plan`), and its
memory: `throttled`, `since`, `was`, `evicted`, `evicting`, `rescue`, `fresh`.
`file` is `hw_state.json`, `train` and `row` the two signs of a training, `at` and
`snap` the workers. Histories: `calm` (polls since a hot reading), `clobbered` (a
vision task wrote the file during this transition). Models are named by rank, a
smaller model by a larger number; the model of `fleet.toml` is one of the four tiers
(`Order`) or any other (`Other`), as in the file the repository ships, whose
`models.local` is no tier. Temperature and VRAM are free readings at every poll.

| actions | code |
|---|---|
| `Sense`, `Unread` | the first part of a poll: training, thermal burst, readings, keepalive ping; a poll whose reading fails |
| `Evict` | the eviction thread: unload for a training |
| `Decide`, `Swap`, `Load`, `Settle` | the choice of the tier; announce and write `fleet.toml`; load the model and be ready; end of the dampening |
| `Park`, `Write` | rotation to the vision model, and the write of the state file |
| `DersDies`, `Respawn` | an end or an exception in a poll; the supervisor's watchdog |
| `TrainingStarts`, `GoCpu`, `TrainingEnds`, `GoGpu` | `_check_training`: stop Ollama and start it on the other device, in two steps |
| `SupervisorDies`, `Boot` | the supervisor ends; boots and starts or adopts Ollama |
| `OllamaStops`, `OllamaStarts`, `SwitchModel`, `EditModel`, `Expire` | the operator, and Ollama's keep-alive |
| `Train`, `TrainingLock` | `train.py` and the lock row of `skill_train` |
| `PassGate`, `EndTask` | a worker's look at `hw_state.json` before it claims; the end of its task |
| `Signal`, `Signalled`, `See`, `Cleared` | a vision task: empty and rewrite the file with a request, look at the image, take the request out the same way |

### FleetLock

`lock` and `expired` are the row of `locks`; a run of `skill_train` is `idle`, has
read (`absent`, `stale`), or is `training`. `Read` is `acquire_lock` up to its first
write: no row, an old row of another holder, or a row of its own holder, which lets
it in. `Insert` and `TakeOver` are the two transactions (INSERT OR IGNORE and read
back; DELETE by name and INSERT). `Finish` is the release in the `finally` block,
`Die` a process that ends without it, `Expire` the two hours passing. The holder is
`skill_train:<skill>`, so two runs of the same skill are one holder; that happens
when `run_skill` gives up on a thread after its timeout, the task is put back and
claimed again, while the thread goes on. Two histories, `overtaken` and `orphaned`,
record how a training run lost its row.

### Experiment

`stat` and `auto` are the columns of an experiment, `gpu` the row `gpu_experiment`
of `locks`, `at` the place of its run, `answer` what each operator's request has
read and is going to write. Histories: `cut` (killed, or a write gave up) and
`replaced` (its row was taken over by another run). `Propose` is `propose`; `Check`,
`Blocked`, `TakeGpu`, `Begin`, `TrainFails`, `Evaluate`, `DeployGate`, `WriteFails`,
`Release` are the parts of `run` between its transactions; `KillRun` its end from
outside; `ReadProposal` and `WriteAnswer` the SELECT and the UPDATE of approve and
reject. The GPU row never blocks: its time is written with a `T` in it and read with
a format that has none, so any row counts as old and is replaced.

### Federation

`row`, `home` and `job` are the rows of all fleets, `route` the pass of each
scheduler (peer, rows still to post, the row posted and not yet marked), `busy` the
rows that workers execute, `promoting` the row each DAG thread has read. Histories:
`newest` (last row of a job) and `kept` (rows that stay or run though a peer has
them). `Select` reads the first PENDING rows, at most `Limit`; `PostAnswered`,
`PostUnanswered` and `PostRefused` are the request, whose row appears at the peer in
the first two; `Mark` is the UPDATE to FORWARDED, which tests for PENDING;
`PassEnds` a pass cut short. `ClaimRow`, `EndRow`, `ReadReady` and `PromoteRow` are
what of the local queue may come between (`TaskQueue` has them in full).

### Modules and ResolverSearch

`file` is `[launcher.tabs]`: the tabs that are true (`on`) and those with a line
(`listed`); an empty file has neither. `cached` is what `load_config` read last,
`snaps` the rows of `module_snapshots`. Each client's request has a place (`step`),
the change set it carries (`change`) and the text it has read (`text`); `asked`
counts requests. `fresh` is a history: whether the request's decision (`seen`) and
its test of conflicts (`checked`) were made on what the file said, with no write of
another request since.

| actions | code |
|---|---|
| `Preview`, `Forget` | `preview-change`: `resolve` on a configuration that may be cached; the client has the change set, and may never come back |
| `Validate` | `apply-change` up to its 409: conflicts of what it enables, on a configuration that may be cached |
| `Restore` | rollback apply: `restore_snapshot` compares with the file |
| `TakeSnapshot`, `Prune` | the two transactions of `take_snapshot`: the INSERT; the DELETE of the oldest rows, whose failure is logged and ignored |
| `ReadTabs`, `Truncate`, `Fill` | `_apply_tab_changes`: read, open for writing (which empties), write; then `load_config` for the registry |
| `Switch` | `_set_module_enabled` of the hub, then `Truncate` and `Fill` as well; it adds a line that is missing |
| `GiveUp` | an error or the end of a process in between; after `Truncate` the file stays empty |

`Needed` and `Dependents` take the recursions of the resolver for the least closed
sets they visit; `ResolverSearch` has the recursions as they run. `query` is the
call (what is searched, the manifests' `graph`, which modules are `known`, which are
`on`), `stack` the recursive calls, each with the edges it has not looked at,
`visited` and `result` the sets and lists of the code. Manifests may require
anything: themselves, each other in cycles, modules nobody has a manifest of. Lists
of requirements are sets, whose members come in any order.

| actions | code |
|---|---|
| `Call`, `StartAt`, `Answer` | `resolve` or `topological_sort`: the outermost call (the sort makes one per node not visited), and its return |
| `Descend`, `Skip` | the loop over the requirements, or over the dependents: a recursive call, or its `if target in visited: return` |
| `Raise` | `raise CycleError`, in the sort alone |
| `Return` | the end of a call, which adds its module to `cs.enable` or the sorted list; `cs.disable` gets it on entering |

`MCShared` puts `FleetLock`, `Experiment`, `Federation`, `Modules` and
`ResolverSearch` side by side. They share no variable that changes, so each is
explored while the others stand at their beginning (`part` says which one moves).

## Runs

| run | instance | checks | shows |
|---|---|---|---|
| `queue_dag` | join of 1 (conditional) and 2 into 3, then 4; 2 pinned, 1 and 4 affine; two workers; failures, overload, crash, respawn, lost events, boot, cancel | `TypeOK`, `ImplementsDispatch`, `StrandedOnlyBy` | with two DAG threads working on the same rows the queue implements `Dispatch`; rows are left behind a live owner in three ways only |
| `queue_operator` | a gated proposal and its dependent; operator cancels, requeues, resumes, answers; two workers that crash | `UniqueExecutor`, `DependenciesFirst`, `ApprovedFirst`, `UndoneOnlyBy` | the only ways around approval are `slipped` and `reopened`; a task that is DONE is undone by late writes and shared executions alone |
| `queue_recovery` | a chain of two; crashes, failing kills, respawns, boot sweeps, automatic retries | `UniqueExecutor` | two executors only after `reopened` or `seized` |
| `queue_live` | three tasks, one worker that may die and one that does not | `NoStrandedRow`, `EveryTaskResolves` | claimed rows are found again, queued tasks end |
| `fleet_lifecycle` | two supervisors, two roles, one place in the pool; all events | `LifecycleTypeOK`, `OneSupervisor`, `OneServerPerRole`, `NoOrphans`, `PoolCap`, `StoppedStaysStopped`, `RoleComesBack` | doubles only by a race on the pid file; a shutdown is complete; the cap is exceeded only by respawns; the dead come back |
| `hardware` | three tiers and a model that is none, two workers, a window of two polls, five scenes of events | `HardwareTypeOK`, `OwnOllamaMode`, `ScaleUpOnlyBy`, `ThrottleSparesGpu`, `ThrottleEndsCool`, `GateClosed`, `GateOpens`, `ModelComesBack` | a larger model in the named ways only, a hot GPU spared, workers held during transitions that end, models that come back, Ollama on the device the supervisor believes |
| `lock_held` | four runs of three skills; two experiments and two operators; two fleets, two jobs, four rows, two DAG threads; three modules and three requests by two clients | `LockTypeOK`, `ExclusiveWhileHeld`; `ExpTypeOK`, `RowOfLatest`, `RecordMatchesRun`, `DeployedForGood`; `FedTypeOK`, `NoJobLost`, `OnceUnlessKept`; `ModTypeOK`, `ChangeSound`, `RollbackRestores`, `SearchFindsClosure`, `SortOrdersOrRefuses`, `ListKeepsComplete` | the protocols over shared rows and files, each with its faults; the resolver's searches on all graphs of three modules |
| `queue_promotion`, `queue_order`, `queue_batch`, `lock_exclusive`, `fleet_restart` | the smallest instance that shows it | one property each | see [below](#where-code-and-text-disagree) |

The safety properties name their exceptions instead of excluding the events that
cause them. `UniqueExecutor`, for instance, does not say that two workers never
execute one task (they can: a cancelled row whose task is still running is retried
beside it); it says that crashes, stale recovery, batch claims, late DAG writes,
late cancels and late gates are *not* among the reasons. `OneSupervisor` likewise
leaves the race on the pid file as the only reason, out of crashes that leave the
file, slow shutdowns, execv and restarts; `OnceUnlessKept` lists the four ways in
which a forwarded row stays behind; `StrandedOnlyBy` and `UndoneOnlyBy` list the
steps that leave a RUNNING row to nobody, and that undo a DONE one, each of which
happens in its run; `ScaleUpOnlyBy` does so for Dr. Ders' transitions to a larger
model; and `ChangeSound` and `RollbackRestores` leave a write of another request,
and modules without a line, as the only reasons, out of stale previews, a cached
configuration, pruned snapshots and requests that give up.

Bounds, and why they suffice.

- *Queue.* Two workers are enough for every race of the code, which are all between
  one executor and one writer of its row; the proofs cover more. Two to four tasks
  give a dependency, a join, a condition, a pinned row and an affine row; `Task` is
  a set of numbers because the claim's `ORDER BY id DESC` depends on their order.
  `BatchDepth` (3 in `worker.py`) is 0 to 2 so that batch claims happen with few
  tasks, and 3 where the code's own value matters. `MaxRetries` is 1 (3 in
  `fleet.toml`): a later retry repeats the first. `MaxCommands` bounds the cancels,
  requeues and resumes of the operator; two allow a cancel and a resume against each
  other. At most one helper of each kind is in flight.
- *Lifecycle.* Two supervisors race as well as three. One core role and one that the
  scaler starts and the operator switches; `MaxWorkers` is 1 so that the core role
  fills the pool and a respawn can exceed it. `Bounds` (a constraint) breaks a
  symmetry, `s1` being the first to leave its pid check, and follows a race of
  supervisors no further than to the state in which both lead; the proofs have no
  such bound.
- *Hardware.* The tiers are those of `fleet.toml`, where default and mid are one
  model. A fourth model is no tier and smaller than the default, so that the step
  down from it can go up; one above all tiers never goes up, one below all does so
  as this one does. The critical tier is not installed, so that falling back to the
  smallest installed one can go up as well. A window of two polls has a beginning, a
  middle and an end. Two workers: a vision task and one that waits. The scenes
  combine the events that act on the same variables; all eleven at once would exceed
  what TLC can do, and the safety proofs cover every combination.
- *Locks, experiments, federation.* A third skill lets a late take or a late insert
  meet a row that is neither its own nor the one it read, and a fourth run lets that
  happen while two runs of one skill train. Two experiments displace each other, two
  operators answer one proposal differently. Four rows let a job be forwarded, sent
  back and forwarded again beside a second job; `Limit` is 2 (5 in `scheduler.py`),
  so a pass has a next row. Two DAG threads allow a late promotion in both fleets.
- *Modules.* Two manifests as the repository has them (customers requires accounts)
  and a third that requires one under a profile, conflicts with the other and has no
  line in `fleet.toml` yet. Two clients, each of which may use the hub, and three
  requests: a change, a switch and a rollback against each other. One snapshot is to
  be kept (20 in `fleet.toml`), so that the next one prunes; between the INSERT and
  the prune, and after a prune that failed, there are more. The searches run on all
  graphs of three modules, with every target and every set of modules that are on or
  known: some 260 000 states, with cycles, self-requirements and modules without a
  manifest.

Symmetry is used for interchangeable workers in queue runs without liveness and for
the clients of the module system in `lock_held`, whose action properties treat them
alike. The fleets, jobs and DAG threads of that run are alike as well; there
`FedNamed` of MCShared fixes which of them begins, which costs less than a symmetry
over all five protocols and loses no behaviour but its renamings. Deadlock is
checked in the passing safety runs of the queue. The other runs turn it off because
their instances end: `queue_live` when every task is done (commands are bounded and
its environment never reopens a row), `fleet_lifecycle` when both supervisors have
gone, `lock_held` when experiments have run, rows or requests are used up,
`hardware` because a scene without restarts may end with nothing running.

Every property of a passing run has a mutant: a variant of an action or operator
with a plausible slip (a dropped guard, a kept assignment, an off-by-one) under
which TLC finds it violated. They stand in the modules beside what they vary, marked
*Mutant*.

## Fairness

*Queue.* `FairSpec` has weak fairness for each worker on: claiming (the loop polls
for ever), ending what it runs (`run_skill` has a timeout, so some outcome follows),
committing, its DAG thread's read and write, and the supervisor's stale sweep (a
periodic tick). No fairness is assumed for the operator, for crashes, kills,
respawns, nor for any *particular* outcome of a skill. Fairness on claiming supposes
that the fleet is not paused and the worker not quarantined, the two gates on the
poll that the model leaves out. A worker that polls and finds nothing is not an
action.

*Lifecycle.* `LoopFairness`, used by `fleet_lifecycle`: `check_alive` of a
supervisor that is up is called every 5 s and looks at every role, and cool-downs
end. `Fairness`, used by `fleet_restart`, adds what the code does without waiting
for anybody: a boot goes on, the loop sees the flag, a shutdown ends (its waits have
timeouts), workers take their first steps. Nobody owes the fleet a scale-up, a
crash, a signal or a command.

*Hardware.* Weak fairness on the steps of a poll, on the end of the dampening and on
the respawn by the supervisor's watchdog, which are loops with sleeps. Strong
fairness on `Ping`: again and again a poll reads the GPU and its ping succeeds,
where nothing forbids it. That a model that loads on request loads some day is the
one assumption about Ollama. No fairness on trainings, edits, starts of Ollama or
boots; `GateOpens` and `ModelComesBack` name a supervisor that is down.

## Proofs

Eight proof modules prove the safety properties for every value of the constants
that satisfies the assumption of the module: any finite or infinite set of tasks,
workers, runs, skills, supervisors, experiments, fleets, rows and modules, any
dependency relation, any set of optional events. The assumptions say what is typed
as what, and little of substance: `Role` is finite, because the pool is counted, and
the core roles fit into the pool; the tiers are in order of size and one of them is
installed, while the configured model may be any other model as well; proposals
(`Gated`) have neither dependencies nor a pinned agent, as every place that posts
them does (`worker.py`, the skills `model_recommend` and `clinical_review`).
Acyclicity of `Deps` is not needed.

1. `TypeCorrect`. The commits use `cur[w]` as a task, so types alone are not
   inductive; `LoopShape` adds that a worker has a task exactly when it is neither
   down nor idle.
2. `OneExecutor`. `UniqueExecutor` speaks of two workers; the inductive
   `OwnedByExecutor` of one worker and the row: a row that is executed is owned by
   its executor, or has been reopened or seized. Uniqueness follows because a row
   has one owner. The lemma `StepGrows` (histories only grow, along every step) is
   used here and in the next two.
3. `DependenciesRespected`. `OrderInv`: every row that is or may become runnable has
   *earned* it (all dependencies have once been DONE, with what its conditions ask,
   or it was reopened); so have executed tasks and the rows a DAG thread is about to
   promote. The third part is what makes stale reads harmless: earned stays earned,
   however late the write comes.
4. `ApprovalRespected`. `GateInv`: an unanswered proposal that neither slipped nor
   was reopened is only ever in the statuses its gate allows (`Held`), and the
   writers that might disturb it cannot name it (`WaitersDepend`, `ScansDepend`:
   promotions and cascades touch only tasks with dependencies; `GateAfterPost`).
5. `LockTypeCorrect`, `HeldExclusively`. The strengthening is `RowOfTraining`: a run
   that trains has its row, or has lost it in one of the two recorded ways.
6. `ExclusiveUnlessOrphaned`. Without expiry no run is ever overtaken, so the
   release by a run of the same skill, which `lock_exclusive` exhibits, is the only
   way to trainings of two skills at once.

7. `QueueImplementsDispatch`. Under the invariants of 1 to 3 each action maps to one
   of `Dispatch` or to a stutter: a claim to `Start`, a commit to `Finish`,
   `PutBack`, a commit of a failure and `Crash` to `Abandon`, reopening and taking
   to `License`.
8. `LifecycleTypeCorrect`. A pid file names a process that lives; this needs what
   each kind of end does to the files.
9. `SupervisorsRaceOnly`, `ServersRaceOnly`. `BossFile` and `RoleFile`: as long as
   nobody raced for it, the file names whoever leads (or serves), and one that is
   about to write it is alone in that and finds it empty.
10. `ShutdownIsComplete`. `Tracking`: unless a supervisor was killed or cut short,
    every live worker of it has a handle; a shutdown ends only when no handle is
    left.
11. `PoolWithinCap`, `StoppedByScaler`. Counting: what is alive and not revived is
    among the running handles plus what one step starts, for which the library's
    facts on finite sets are used; and who is due without a handle was started
    during a cool-down.
12. `HardwareTypeCorrect`, `OwnOllamaFollows`, `LargerOnlyByNamedWays`,
    `ThrottledPollsSpare`, `ThrottleOutlastsWindow`, `GateHolds`. An invariant ties
    Dr. Ders' plan to its place in the poll (a plan is not upward unless it was made
    blind, from a model that is no tier, or to the smallest installed model from one
    that is not installed), its `since` to the history `calm` (Window polls below
    the target really were), the file to the transition (it says so unless a vision
    task wrote it), and the supervisor's flag to the device of its own Ollama. The
    action properties follow from it step by step.
13. `ExpTypeCorrect`, `LatestHasRow`, `RecordsMatch`, `DeployedStays`. `ExpInv` adds
    that nothing an operator has read is an automatic approval on its way
    (`AutoUndisturbed`, `AnswersLate`): a proposal is PROPOSED when it is read, and
    an automatic one only becomes so after its evaluation.
14. `FedTypeCorrect`, `JobsSurvive`, `ExecutedOnce`. `NewestStays`: the newest row
    of a job is never FORWARDED, because a row is marked only after a newer one was
    inserted. `OneLive`: of the rows of a job that are neither kept nor in flight at
    most one is not FORWARDED.

15. `NeededComplete`, `DependentsComplete`, `ModTypesCorrect`, `ChangesSound`,
    `RollbacksRestore`. The first two say that the least closed set the resolver
    visits is enough: what is on stays complete after an enable and after a disable.
    `ModTypesCorrect` needs that a write turns `true` only what has a line, and that
    no change set names a module on both sides; it says nothing of the number of
    snapshots, which a failed or a late prune leaves above the limit. The invariant
    behind the action properties is `Decisions`: as long as a request is fresh, its
    change set still fits what it is going to overwrite (`Basis`: the text it has
    read, or the file), and a rollback's goal is reached from there. A write of
    another request clears `fresh`.

16. `StrandingWays`, `NothingStranded`. Every action but `Claim`, `ClaimSecond` and
    `Respawn` leaves no RUNNING row to nobody (one lemma per writer, `LeavesNone`);
    those three do so in the way `StrandedOnlyBy` says. `NoStrandedRow` is inductive
    together with `NoBatch` where nothing is respawned and there are no more tasks
    than the depth from which a worker claims two. Both hypotheses are needed, as
    `queue_batch` and the causes in `StrandedOnlyBy` show.
17. `CompletedStays`. Besides 1 and 2 it needs `DoneElsewhere`: a row that is DONE
    while a worker still executes it has had a second executor, so it is among the
    reopened or seized ones when the late end of that worker undoes it.
18. `MustCompleteFirstHolds`, `ExecutorsApart`: the promises without exceptions, for
    fleets in which nothing is put back from FAILED, or from a live worker. The
    hypotheses are on `Env` alone and exclude single events; everything else still
    happens. The first is the docstring `queue_order` violates, so the automatic
    retry, the requeue and the resume are the only causes of that violation.
    `ShutdownLeavesNone` and `GateTightWithoutVision` do the same for shutdowns (no
    kill, no signal, no restart endpoint) and for the workers' gate (no vision
    task).
19. `NoneForgotten`. A supervisor that boots or is up has what it started in its
    tables, so no start takes the place of a live process; the model has one process
    per supervisor and role, and this is why that is enough.
20. `ForwardedStays`. `MarkedWhileBusy`: a row that is FORWARDED while a worker has
    it is a kept one. A FORWARDED row is written again only by that worker's end or
    by a late promotion, and counts as kept afterwards.
21. `SearchesFindClosure`, `SortsOrderOrRefuse`, `ListsKeepComplete`. No induction
    over the recursion is needed, because the stack is state. `SearchInv`: what a
    call that has returned required has been entered, and what an open call requires
    has been entered or is still before it (`NothingMissed`); each call is reachable
    from those it is nested in (`StackIsPath`); the list has the finished modules
    that belong into it, once each, and in an acyclic graph in order.
    `SearchesFindProposal` concludes that the search lists what `Modules` computes
    in one step, and `SearchesAdvance` that every step lowers a measure (modules not
    entered, then open calls, then edges left), so that recursion ends where the set
    of modules is finite.

Model-checked only: the liveness properties `EveryTaskResolves`, `RoleComesBack`,
`GateOpens` and `ModelComesBack`, which rest on fairness and are out of the prover's
reach. Every safety invariant and every action property that a passing run checks is
also a theorem. The violations are shown by TLC's counterexamples.

## What the model leaves out

In the queue:

- *Order of DAG events*: `dagq` is a set. A promotion rescans everything and
  cascades write disjoint or equal values, so the order inside a queue is not
  observable in the properties. A batch is split into its events, `DagLost` may lose
  any part of it: both allow more than the code.
- *Reads of one event*: `DagScan` reads rows and their dependencies in one step; the
  code reads them row by row.
- *Time and heartbeats*: a sweep may happen whenever the code's condition on ages
  can be true: a dead worker is eventually stale, a worker in a skill may be stuck
  or stale, one between two polls is neither stale.
- *Failing writes*: `_retry_write` gives up after eight attempts. A `complete_task`
  that gives up ends in `fail_task` (the worker's except branch) with its promotion
  event already queued, and a `fail_task` that gives up ends the process (`Crash`).
  Neither is an action of its own.
- *Priority and age* in the claim's order are a free choice, because the operator
  may rewrite priorities at any time; affinity is modelled.
- *Gates on the poll*: pause, quarantine and the `.queue_paused` file. The pause,
  resume and reload messages have no sender in the source.
- *Other writers of `tasks`*: `review_task` (no caller), deletion for data
  protection, skills that insert finished rows, direct INSERTs of the scheduler (as
  `Post`), and the MEMORY_PRESSURE update of Dr. Ders, which tests for `'running'`
  in lower case and so matches no row. FORWARDED rows are in `Federation`.

Elsewhere:

- *Lifecycle*: the wrappers that lower a worker's priority, the dashboard, bridges
  and services that the boot starts too. A pid is not given away twice, so the pid
  of a process that has ended never names another.
- *Hardware*: the conductor model, air gap, hosts without a GPU or with unified
  memory, eco mode, the API's switch of the model, the ping of the boot,
  `shutdown_all`'s part in stopping Ollama, the count of missed heartbeats before a
  respawn. A vision check uses the models read at the start of the poll.
- *Locks*: the release of a lock without a holder is used by tests only.
- *Experiments*: metrics, artifacts and their history; only the verdict of the gate
  is kept. Crossing answers of two operators may let a rejected experiment train; no
  property speaks about it.
- *Modules*: version constraints are parsed by the code and not looked at, so they
  do not appear; recommendations only give warnings; a profile's own conflicts are
  left out. Manifests are those of `fleet/modules`; rows of `module_registry`, which
  a rebuild relabels as coming from disk, are not modelled, nor are the download and
  removal of module files by the hub. The replacement of `name = false` also hits
  keys elsewhere in the file that end in the same name; no name of the repository
  does.
- *Federation*: discovery, heartbeats, approval between fleets, shared data, the
  choice of the peer. A row forwarded loses its dependencies and its pin, and those
  that depend on it wait for ever (a FORWARDED row is never DONE); *executed* in
  `OnceUnlessKept` means being executed or DONE now.

### Not modelled

Components without a module are in `PROJECT.json`, each with its reason. In short:
network input and output and presentation (dashboard, launcher, web UI), statistics
(learning, audit, billing), calls to external services (providers, payments), file
operations (ingestion, the updater, backup), the bodies of the 125 skills, which to
the fleet are calls that return, raise or time out, a game integration, and a second
implementation in another language that is in progress. They make up most of the
lines of the repository, but no protocol between processes runs through them.

## Where code and text disagree

- `queue_promotion` (`WaitingDependentPromoted`): `complete_task` says it will
  "promote any WAITING dependents". The event is queued before the commit; a DAG
  thread that reads in between still sees the task RUNNING, finds nothing to promote
  and drops the event. The dependent stays WAITING unless some other task completes
  later.
- `queue_order` (`MustCompleteFirst`): `post_task` describes depends_on as "task IDs
  that must complete first". The automatic retry puts a task that the cascade had
  failed back to PENDING without looking at its dependencies.
- `queue_batch` (`BatchRestProcessed`): `worker.py` says it will "Process remaining
  batch tasks in subsequent iterations via normal claim". They are RUNNING already
  and a claim takes PENDING rows only; they wait until their worker dies, or until
  the worker's next claim returns the largest RUNNING id.
- `lock_exclusive` (`ExclusiveTraining`): `skill_train.py` takes an "exclusive
  training lock". Two runs of one skill share a holder, the first to finish deletes
  the row, and another skill's run gets in beside the second.
- `fleet_restart` (`RestartComesBack`): on the flag the supervisor logs "restarting
  supervisor", stops its fleet and replaces itself by execv. The pid stays the same
  and exit handlers do not run, so the pid file names a live process, the new
  supervisor itself, which sees that one is running and exits.

Met while modelling, and not the subject of a run:

- `claim_task` says it "retrieves the exact claimed task by its subquery criteria to
  avoid returning a different RUNNING task belonging to this agent"
  (`db_tasks.py:60-63`). The SELECT after the UPDATE (lines 82 and 101) takes the
  largest RUNNING id of the agent. When a row with a larger id was left RUNNING in
  its name (by a batch claim, or a respawn before the sweep), the claim returns that
  row, and the one it has claimed stays RUNNING with nobody executing it.
  `StrandedOnlyBy`, checked in `queue_dag`, does not excuse this silently: it is the
  third of its named ways.
- `hw_supervisor.py:1147` says "Never auto-scale UP — operator controls baseline",
  with one exception for a poll that finds no model. There are three more, all named
  in `ScaleUpOnlyBy`. A baseline that is no tier, which the shipped `fleet.toml` has
  (`gemma4:e4b` in line 68, against the tiers in lines 177 to 180), has no place in
  the tier order: under high VRAM pressure the `ValueError` branch (1273-1277) takes
  the second installed tier, and a throttle or a training takes the critical or the
  low one, whatever their size; from `qwen3:4b`, say, pressure leads up to
  `qwen3:8b`. A tier that is not installed leads to the smallest installed one. And
  an edit during the grace period is overwritten by what was chosen before it.
- `_check_training` (`scheduler.py:491-503`) is to move Ollama to the CPU when the
  VRAM fills up during a training. It calls `gpu.get_gpu_info`, which `gpu.py` does
  not define; the error is caught, and nothing is ever evicted there. The model has
  no such action.
- `take_snapshot` keeps `snapshot_retention` rows by a second transaction after the
  INSERT. Its failure is logged only, so that there may be more rows until the next
  one that succeeds (`Prune`).
- The memory watchdog logs that it is restarting a worker; it ends the process and
  drops the handle, so `check_alive` never sees it. Only a scale-up brings it back.
- The health sweep looks at the supervisor's own row in `agents`; after 300 s
  without a heartbeat of it the supervisor sends itself SIGTERM (`SweepSupervisor`).
- Disabling an agent takes effect when the supervisor boots next: it keeps the list
  it has read.
- `hw_supervisor.py:877-884` announces an "Attempt to restart supervisor"; the code
  logs and does not try. The handler around a poll calls its errors non-fatal and
  then uses names that are not defined (`drders_promoted`, `DRDERS_BOOT_MODEL`), so
  an exception in a poll ends Dr. Ders (`DersDies`).
- With default and mid one model, as `fleet.toml` has it, the step down under high
  VRAM pressure chooses the model that is loaded.
- The GPU row of the experiments never blocks, though
  `docs/audit/2026-03-27-backend-audit.md:52` fears it blocks for ever.
- `experiment.py:438` leaves an experiment "awaiting HITL approval for deploy";
  approving it then deploys nothing, for nobody runs an approved experiment a second
  time.
- A worker in quarantine comes out after one iteration of its loop, against
  `worker.py:644`.
- `apply-change` says it re-validates before applying. It tests conflicts of what it
  enables; a module that was switched off since the preview is not missed, and a
  change set that installs is not tested at all.
- Conflicts between two modules of one change set are not found: `resolve` compares
  with what is on only, and `detect_conflicts`, which would find them, has no caller
  outside the tests. Neither has `topological_sort`.
- A change that names a module without a line in `fleet.toml` succeeds and changes
  nothing, where the hub adds the line.
- An Ollama that the supervisor adopted, and moved to the CPU, is not moved back
  when the supervisor restarts meanwhile (`OwnOllamaMode` is about its own process
  only).

## Plan

The order is by importance to the system's promises.

1. *Done*: task queue with DAG processor, recovery and operator, and the abstract
   `Dispatch` it implements; training lock; processes and pid files; the GPU;
   experiments; overflow between fleets; changes of modules and the resolver's
   searches. Their safety is proved, their liveness checked; the promises without
   exceptions are proved for fleets that do without the events that break them.
   Still worth proving: that `Federation` implements a queue of jobs and `FleetLock`
   a lease, as `TaskQueue` implements `Dispatch`.
2. *Inbox and quarantine* (`worker.py`, `comms.py`, `health_monitor.py`): messages
   read newest first, and heartbeats that overwrite a quarantine, as gates on
   `TaskQueue`'s claim.
3. *Composition* of `Lifecycle` with `TaskQueue`, through `Crash` and `Respawn`:
   what a scale-down in the middle of a skill does to the row.
4. *Marathon, update, module files*: a checkpoint that is resumed, an update that is
   rolled back, the hub's install and uninstall; the next smaller protocols of the
   repository.
5. *The Rust port*, when its queue is complete, as a second implementation of
   `Dispatch`.
