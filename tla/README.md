# Verification of the Open vCenter Agent for Hyper-V

TLA+ models of the agent in `src/` (Go): a Windows service that takes requests from
RabbitMQ, queues them in SQLite, runs each in a worker process of its own, which works on
the VMs of the host by PowerShell, and can replace its own binary. The models are checked
with TLC on small instances. Every safety property of the job queue, of the upgrade and of the
message loop is also proved with TLAPS for every instance. For the handlers of VMs so are the types and
what an edit promises, and, while tasks that shape VMs work on different ones, that no VM loses a disk, that VMs live under
their names, that a clone leaves its source alone, and that nothing is left behind when nothing fails.

Every definition that stands for code is mapped to its lines in `PROJECT.json`
("map"). Definitions written before another one and commented as a mutant (for
example `SlotLeftOffByOne` beside `SlotLeft`) are deliberate faults. Nothing uses them
in the specification; put in the place of their neighbour, each makes the property it is
listed with fail, which shows that the property depends on that code.

## 1. Inventory

| Component | State it keeps | Operations | Interacts with |
|---|---|---|---|
| message loop, `cmd/agent/main.go` | none of its own | decode, duplicate check, Create, acknowledge, conflict answer | consumer, job store, dispatcher's trigger |
| job store, `internal/jobstore` | the rows of `jobs.db` (status, worker_pid, created_at) | Create, UpdateStatus (compare and swap), HasConflict, ListByStatus, RecoverOrphanedJobs, DeleteOlderThan | shared by the service and every worker, through the file |
| dispatcher, `jobqueue/dispatcher.go` | drain mode, trigger channel, locals of a pass | EvaluateAndDispatch, dispatch, EnterDrainMode, launchUpgrade | store, monitor, processes |
| monitor, `jobqueue/monitor.go` | the map of worker entries | Register, handleTermination, checkTimeouts, the HasRunning queries | store, dispatcher (callbacks), publisher |
| scheduler and retention | the next time of each refresh | create a refresh job; delete old rows | store, dispatcher |
| worker process, `internal/worker` | its job id, its connection | read the row, run the task, confirmed publish, record the result | store, RabbitMQ, task handlers |
| classifier, `jobqueue/classifier.go` | none | class of a request, conflicts | dispatcher, message loop |
| agent upgrade, `upgrade`, `tasks/agent_upgrade.go` | binaries on disk, `upgrade-pending.json` | stage, drain, exchange, confirm by the log, roll back, report | service control manager, log, the next agent |
| service wrapper, `internal/service` | the SCM state | Execute, stop | runAgent, upgrade process |
| RabbitMQ, `internal/rabbitmq` | connection, channels, supervisor, watchdog | connect, reconnect, consume, publish with confirms | everything that talks to the backend |
| task handlers, `internal/tasks` | VMs, disks and files of the host | VM lifecycle, clone, create, edit, conversion, inventories, downloads | PowerShell |
| configuration, preflight, host information | files, registry | load, validate | start of the service |

What is hard here:

* *Interleaving.* The RunLoop goroutine, one Wait goroutine per worker, the timeout
  ticker, the drain goroutines and the message loop share the monitor's map and the
  store; a lock is held only for one look or one change. A pass of the dispatcher acts
  on facts it read several locks ago.
* *Processes that outlive each other.* A worker survives the service; the upgrade
  process stops the service that launched it; the new agent cleans up files that the
  upgrade process may need a moment later.
* *Partial failure.* The worker is started before its row is claimed, the answer is
  published before the row is updated, the binaries are exchanged by several renames.
* *Restart.* Recovery looks at the rows once; the map begins empty.
* *Names.* The backend addresses VMs by id, the scripts by name; a clone first bears its
  source's name, a rename and a move part name, folder and disks for a while.
* *Redelivery.* What was not acknowledged comes again, also when the acknowledgement was
  lost; the two ends of a connection learn of its end at different times.
* *Progress.* A lost trigger, an entry never removed, or a row that cannot be read would
  stop the queue.

What makes each part correct:

* dispatcher and monitor: the slot limit, mutual exclusion of writes of one VM and of
  host writes, no task carried out twice, every queued job gets its turn, drain mode
  stops dispatching;
* job store: rows only move forward, whoever writes them; no two active rows conflict;
* worker: a completed row was carried out and answered; the service never reports a
  failure for a completed row;
* upgrade: a working binary is always on disk, only a version that starts is confirmed,
  one success report, an answer in every case, a rollback that brings the old agent back;
* RabbitMQ and message loop: a request leaves the broker only after something was done
  about it, at most once per delivery, a redelivered write does not run beside itself, one
  connection at a time, connected and subscribed again after every fault that does not end its
  start;
* task handlers: no VM loses a disk whichever script fails, nothing stays on disk after a
  handler whose scripts all work, a VM lives in a folder of its name, the source of a clone
  is not touched, an edit answered completed was applied.

## 2. The modules

| Module | What it is |
|---|---|
| `JobClass` | task types, classes and conflicts as operators over kinds `[type, action, vm]` |
| `WorkerGate` | abstract specification: a gate that admits jobs up to a limit and keeps excluding jobs apart |
| `JobQueue` | the job queue in detail: store, message loop, scheduler, dispatcher, monitor, workers, restarts |
| `JobQueueMC` | instances for TLC |
| `JobQueue_proofs`, `JobQueueWork_proofs`, `JobQueueAnswers_proofs` | theorems about `JobQueue`: types, limit, exclusion and the gate; the processes; rows and answers |
| `Delivery` | abstract specification: what the agent promises about a request |
| `Amqp` | broker, connection with supervisor and watchdog, consumer, message loop |
| `AmqpMC` | its instance |
| `Amqp_proofs` | theorems about `Amqp` |
| `VMHost` | the Hyper-V host (VMs, disks, folders) and the frame of a handler: scripts that fail, workers that are killed |
| `VMProvision` | `vm_create`, `vm_clone`, disk conversion, `vm_delete` |
| `VMManage` | the other actions of `vm_management`: power, batches, checkpoints, settings, DVD, HA, migration, rename, move, template export |
| `VMEdit` | `vm_edit` |
| `VMTasks` | several handlers on one host, and the properties |
| `VMTasksMC` | its instances: three hosts and the pairs of requests that meet |
| `VMTasks_proofs`, `VMDisks_proofs`, `VMFiles_proofs` | theorems about `VMTasks`: types and edits; disks, folders and names; what is left behind |
| `Upgrade` | the upgrade: staging worker, drain, upgrade process, boot of the service, operator |
| `UpgradeMC` | its instance |
| `Upgrade_proofs` | theorems about `Upgrade` |

`JobQueue` extends `JobClass` and instantiates `WorkerGate` with
`admitted <- Admitted`, the jobs in the monitor's map and the one between claim and
registration. `JobQueue` and `Upgrade` meet in `LaunchUpgrade`: the first shows when an
upgrade is launched and among which workers, the second what it then does. `Amqp` refines
`Delivery`; its `Create` and `Check` are the intake of `JobQueue` seen from the broker, its
`JobEnds` everything `JobQueue` does with a row. `VMTasks` runs the handlers that
`ExecuteTask` of `JobQueue` stands for: two tasks run together unless they have the same
identifier (`Ident`), which is what `ExclusionKept` proves of the queue.

### JobQueue and the code

*State.* `status`, `workerPid`, `createdAt` are the columns of a row, with "absent" before
Create and "gone" after retention deleted it. `workers` is the monitor's map (the pid of each
entry), `callback` what a Wait goroutine still has to do after the unlock, `dpc` and
the variables after it the RunLoop goroutine and the locals of `EvaluateAndDispatch`.
`proc`, `procJob`, `procOk` are the worker processes. `answers`, `runs`, `launches` are
history: what the backend got, how often a task was started, the upgrades launched.

*Steps.* Each acquisition of the monitor's mutex, each store transaction and each
process start is one action, so everything that the code leaves between two locks can
happen between two steps: `Evaluate`, `CountWorkers`, `CheckHostWrite`, `SnapshotWrites`,
`ListQueued`, `VisitJob`, `Spawn`, `Claim`, `Register` and the failure branches
`SpawnFails`, `ClaimFails`; `KillTimedOut`, `HandleTermination`, `RunCallbacks`;
`ReadJob`, `Connect`, `ExecuteTask`, `AnswerConfirmed`, `AnswerUnconfirmed`,
`RecordResult`, `GiveUp`. An `err` parameter says that a call fails; each failure uses
up one of `MaxFaults`.

*Abstractions.* `workerPid` is cleared when a row becomes terminal, because nobody reads
it afterwards. The duplicate check and Create are one step: only the message loop adds
active rows of requests, so nothing between the two can add a conflict. Deadlines are
nondeterministic: a watched worker may be killed at any time. A pid may be used again once the
service has closed its handle of the old process. Publications on the state queues
and progress messages are left out.

### Amqp and the code

*State.* `conn`, `chan`, `note` are the fields `conn`, `channel` and `connClose` of
`Connection` (connections are numbered, 0 is nil), `sup` and `watch` the supervisor with the
channel it waits on, `fresh` the connection `dial` has not published yet. `csm`, `sub`,
`hand` are `Consumer.Run` with its subscription and the delivery in `pump`, `lpc`, `req`,
`from` the loop of `runAgent`. `linked`, `live` and `subs` say of a connection or
subscription what the network, the client library and the broker believe; `msg`, `holder`
and `returns` are the broker's queue. `rows`, `open`, `told`, `given` are what became of a request.

*Steps.* Each broker round trip, each section under the lock and each store call is one
action. Between Connect and the consumer, `runAgent` declares the response, state and metrics
queues on the shared channel (`main.go:203-220`), while the supervisor already runs: `Declare` is the
success of the last of them, `DeclareFails` the failure of any, on a channel that is gone or by a
fault of the broker. Then `runAgent` returns, `Execute` ends with exit code 1 and the process is gone
("exited"). `reopenChannel` looks a second time whether the connection is still the current
one; it always is, since only the supervisor replaces it, so that branch is not in
`SupReopen`.

*Environment.* A cut connection is noticed by each end at a time of its own; the broker
stops and starts, closes the shared or the consumer's channel (`MaxFaults`); store calls
fail (`MaxErrors`); the service dies or is restarted anywhere, which counts as a fault too (`MaxStops`).
A service that has exited may be started by somebody (`Restart`), nobody need do it: `InstallService`
(`windows.go:127-132`) sets no recovery actions.

### VMTasks and the code

*State.* `vms` maps ids to VMs (name, home folder, power state, disks, settings,
checkpoints, adapters, DVD, HA), `vhds` and `fixed` are the disk files and the fixed ones
among them, `folders` the directories of VMs, templates and exports. `pc[t]` is the script the handler
of `t` runs next, `loc[t]` its locals, `answer[t]` the status it publishes.

*Steps.* A PowerShell script is one action when it changes one thing, and is cut where it
changes several (create, repoint and convert go disk by disk; the conversion goes script line by script
line). A deletion first removes the cluster role of its VM, whose failure is ignored (`DeleteRole`). Every script may fail, after part of its work where it has parts
(`Breakable`, `MaxFaults`), and a worker may be killed between any two. An administrator may
switch a VM on or off at any moment (`MaxActs`), which is what the state checks at the start of a
handler cannot exclude.

*Hyper-V.* How cmdlets act is taken from how the code uses them and marked external: by
name they reach every VM of that name, a running VM holds its disks, `New-VHD` and
`Export-VM` do not overwrite, `Move-VMStorage` moves all or nothing. Its job may also end
without moving and without the state Failed (stopped, say): `vm_rename` takes that for success,
`vm_move` does not, and also looks afterwards, by name, whether the VM is where it should be
(`MoveStorage`; `loc.failed` keeps the unnoticed end as a history).

*Data.* Sizes, memory, VLANs and addresses are left out, disk space is a check that passes
or fails, settings are names, of which some carry a value that is not valid: a `cpu_count` that is not
positive is passed over (`vm_edit.go:151`, `Skipped`), any other makes its script fail. The disks of one
`vm_create` are distinct files: two of one label, which the handler does not refuse (`vm_create.go:239-249`),
are not among the requests. Cleaning up an empty folder (`cleanupEmptyDir`) is a look and a
later removal.

### Upgrade and the code

*State.* `disk` holds `ovc-agent.exe`, `.bak` and `.failed`, `staged` the versions with a file
`ovc-agent-<version>.exe`, `pending` the task named in `upgrade-pending.json`. `broken` are
versions that never get past `config.Load` on this host, chosen at the start. `boot` is
how far `runAgent` has come, `stopping` a stop that was requested. `upg[t]` is the step of the upgrade
process, `job[t]` the worker that stages the binary, `fresh[t]` says whether the log holds
a start line that counts for the process, `peeked[t]` the pending response it read first.

*Steps.* The dispatcher runs from before the pending response is read (`main.go:309`, `318`), so a
worker may start while the agent still boots. `upgrade.Run` is one action per system call or wait (the
steps 1 to 8 of its comment and their rollbacks). `runAgent` is cut where others can look: before the
configuration, before and after Cleanup, before the preflight, before and after the pending response. An
image that runs can be renamed, not deleted or replaced. The service reports
Running before `runAgent` has done anything and StopPending until the process ends, as
`Execute` does.

*Environment.* The operator may stop, kill or start the service at any time
(`MaxRestarts` times), calls may fail and processes die (`MaxFaults` times).

## 3. Runs

| Run | Instance | What it shows |
|---|---|---|
| mixed | two metrics refreshes (writes of the VM "") and a host write, two slots, no faults | `TypeOK`; `SlotExclusion` between every two locks; `RunningIsWatched`: every running row is in the map or about to be; `ImplementsGate` |
| faults | two writes of one VM, two slots, one restart, one fault | `WorkExclusion`: the processes themselves, not only their map entries, exclude each other; `AtMostOnce`; `CompletedWasAnswered`; `ServiceAnswerAgreesWithRow`; `RowsMoveForward`; the inductive invariant `IInv` of the proofs |
| intake | two equal edits and an agent upgrade, one slot, no faults | `WithinLimit`; `NoDuplicates`; `DrainStopsDispatch` |
| progress | two metrics refreshes, one slot, one restart, fairness | `QueuedIsDispatched`: no job waits for ever; `QueuedSettles`: before a restart, every job becomes terminal |
| upgrade | one upgrade to a version that starts or is broken, two faults, three stops or starts | `TypeOK`, `WorkingBinaryOnDisk`, `ConfirmedOnce`, `BrokenNeverConfirmed`, `UpgradeAnswered`, `RollbackRestores` |
| hostwrite | a write, two host writes, two slots | finding: one pass starts a write and a host write together |
| restart | two writes of one VM, one restart | finding: after a restart a second write of the VM starts beside the surviving worker |
| upgrade_falsesuccess | no faults | finding: the rolled-back agent can still report success |
| broker | a write and a request that does not decode, two faults of which one may be a restart, one store error, fairness | `TypeOK`; `NoLeakedConnection`; `OneOutcomePerDelivery`; `NoTwinJobs`: a redelivered write meets its own row; `OneAtATime`; `ImplementsDelivery`; `EventuallyServing` and `RequestsSettle`, unless a fault hit the declarations of a start and the service has exited |
| vm | three hosts (alone, in a cluster, in a cluster and a domain), every pair of requests of `MCScenarios`, two faults, one act of the administrator | `TypeOK`, `DisksIntact`, `NothingLeftBehind`, `LivesUnderItsName`, `SourceUntouched`, `EditAppliesAll` |
| diskloss | an export to a template, one fault | finding: a failed conversion removes the disk it says it kept |
| exclusion | a rename beside a batch, no faults | finding: a batch changes a VM another task works on |

*Bounds.* Exclusion and duplicates are relations between two jobs; two excluding jobs
and, where another class matters, one more show every way two can meet. Two slots are
the smallest limit at which two workers run at once, and one slot the smallest at which one waits. One restart
splits a history into before and after, and one fault at every possible call covers each
error branch; what takes several restarts or faults together is left to the theorems, which have no bounds.
Two pids allow a worker beside its replacement; pids are interchangeable, so the safety
runs use symmetry, the runs with liveness do not. For the upgrade, two faults
cover a failure in the middle of a rollback or a process that dies there, and three
operator actions cover stop, start and stop again around any step. For the broker, one
write is enough for duplicates, since a redelivery meets its own row; two faults (or one and a
restart) and a failing store call can hit any steps of connection, consumer and loop: the
reopening of a channel fails only when the channel and then its connection are lost. For the VMs, two tasks with two
faults show one handler failing twice (a script and its cleanup) and two failing once each;
the pairs are those whose handlers share a VM, a name or a folder, and all pairs of the
single-script actions. Three tasks at a time are not checked.

*Deadlock.* Checked in the runs of `JobQueue`. The upgrade run switches the
check off since the system may stop there: when the operator's actions are used up, a service
that was stopped stays stopped. So does the run of `Amqp`, where a service that has exited during its start
stays so, and so do the runs of `VMTasks`, which end when both tasks have answered.

*Fairness.* `JobQueue`: the RunLoop (its ticker fires every few seconds even
if a trigger is lost), the Wait goroutines and their callbacks, the timeout ticker, the
drain poll, the worker's own steps, and, as an assumption about the environment, the start of a service
that stopped (the operator or, as it is installed for automatic start, the next boot of the host). Nothing is assumed of a task: `ExecuteTask` may never
happen, and then the deadline kills the worker. `Upgrade`: a booting service, a worker, the
drain goroutine and an upgrade process go on; nobody is obliged to start a stopped
service, so `UpgradeAnswered` and `RollbackRestores` are claimed for histories without
faults and operator actions.

`Amqp`: the goroutines go on, the watchdog's ticker fires, both ends notice a lost
connection in time (heartbeats), an unreachable broker comes back, `runAgent` goes on with its
declarations. Jobs need not end. No fairness is put on `Restart`: nobody is obliged to start a service that
exited, so both properties except a behaviour that ends with the service exited after a fault
(`<>[](Exited /\ faults > 0)`); without a fault, and after every fault that leaves the declarations alone, the
agent serves again by itself. `EventuallyServing` is checked with the watchdog and the close notification together, as
they run. `VMTasks` claims no
liveness: its scripts have deadlines and each handler is a finite sequence.

*Names that meet.* The properties of `VMTasks` except `EditAppliesAll` and `TypeOK` assume
`Apart`: no two tasks that run together give the same name to a VM, and no clone's
source is deleted by name while the clone may still bear that name. The queue does not ensure either (findings, and section 4), the
backend has to. It is not all a host can do wrong: an edit that adds a disk to a VM while the clone of that VM
still bears its name reaches both, and no pair of the instance does that.

*Restart as an escape.* `WorkExclusion`, `AtMostOnce` and `ServiceAnswerAgreesWithRow` say
`restarts = 0`, `QueuedSettles` ends with a restart: beyond it the code does not keep
them, as the run restart and section 4 show, and a row claimed by nobody may be spawned
again while its first process still reads it.

## 4. Findings

Each is shown by a run:

1. *Host writes and writes together* (`dispatcher.go:92`, run hostwrite). `hasRunningWrite` is
   read once per pass; a write that the same pass dispatches does not set it, and a write
   never looks for a host write in the pass.
2. *Exclusion is lost at a restart* (`queries.go:27`, run restart). Surviving workers are left
   running but never put into the new monitor's map.
3. *False success* (`upgrade.go:141`, run upgrade_falsesuccess). The old agent is started
   before the pending response is removed. A service restarted between staging and launch
   reads it as well.
4. *A conversion that loses the disk* (`vm_management.go:2404`, run diskloss). The script
   removes the original, then renames the copy; when the rename fails the catch block
   removes the copy. The log says "original disk kept" and the task completes. The
   expansion of clones is the same (`vm_clone.go:520`).
5. *Batches are not kept apart* (`main.go:481`, run exclusion). A batch lists its VMs and has
   no `vm_id`, so the queue runs it beside any task of those VMs; a clone is looked up by `new_name`, which its handler
   does not read.

Read off the models and the code, without a run of their own:

6. *Orphans after the scan* (`queries.go:27`). A surviving worker that dies later leaves
   its row running, and its duplicates are rejected, until the next start.
7. *Drain does not wait for everybody* (`dispatcher.go:264`). A pass that began before drain
   mode goes on, and a worker between spawn and Register is not counted.
8. *Drained for ever* (`dispatcher.go:309`). Drain mode ends only if the launch itself fails;
   an upgrade that fails before it stops the service leaves it drained.
9. *A rollback without a backup* (`upgrade.go:139`). Cleanup of the new agent deletes the
   backup before the start line is logged. If the line is not found, the rollback has nothing to restore.
   With `log_level` warn or error, or a `log_file` elsewhere, that is every upgrade; otherwise
   it takes a line logged before `startTime` is read, which is after the service was started.
10. *Delete by name* (`vm_management.go:755`). `Get-VM -Name ... | Remove-VM` removes every VM
    of the name, so a deletion that runs while a clone of that VM is imported (registered
    under the source's name until `vm_clone.go:336` has renamed it) removes the clone too. `Apart`
    excludes it.
11. *Missing timeouts* (`monitor.go:241-265`). `vm_delete` and
    `vm_migrate` give themselves ten minutes and have no entry, so their worker is killed
    after `task_timeout`, 60 s by default, and the answer is a failure although the VM may be gone.
12. *The refresh after a change* (`tasks/dispatcher.go:531`) runs in a goroutine of a worker
    that exits once its answer is confirmed; it is mostly lost.
13. *Leftovers of failures.* A failed `Export-VM` of a clone leaves its folder, and every later
    clone of that source fails on it (`vm_clone.go:294`); `add_disk` leaves a file that makes
    a retry fail (`vm_edit.go:374`). `NothingLeftBehind` is therefore claimed for scripts that work.
14. *Answers that look away.* `vm_stop` answers with the state "Off" when its script fails
    (`vm_management.go:587`), a batch completes whatever happened to its VMs, and a rename takes
    any end of the storage job other than Failed for success (`vm_management.go:1612`): it answers
    completed with the VM in its old folder under the new name. `MoveStorage` has this end and
    `LivesUnderItsName` excepts it; a move does not accept it (any state but Completed, `vm_management.go:1884`).
    An edit passes over a `cpu_count` of zero or less (`vm_edit.go:151`) and answers completed if another
    section was applied; `EditAppliesAll` asks for the others (`Wanted`).
15. *A host write may starve* (`dispatcher.go:119`) while writes keep coming;
    `created_at` is compared as text, so two rows of one second may change places (`sqlite.go:217`);
    `sc start` follows `sc stop` without waiting (`agent_restart.go:14`).
16. *An exit nobody answers* (`main.go:203-220`). A connection lost while the queues are declared ends
    `runAgent` with an error, and the service. The comment at `main.go:390-392` counts on it that "the service manager
    restarts us", but `InstallService` (`windows.go:127-132`) sets no recovery actions. `EventuallyServing` and
    `RequestsSettle` except this end.

`WorkingBinaryOnDisk` still holds in 9, since the new binary
remains as `.failed`. With two upgrade processes at once (a restart ends drain mode, so a
second upgrade can be staged) one may delete the backup that the other has just made; the instance
has one upgrade, as the backend's duplicate rejection intends. Since jobs are dispatched before the pending response
is read (`main.go:309`, `318`), the worker of a second upgrade could also overwrite that file just then, and the
answer of the first would be lost; `UpgradeAnswered` is claimed for the one.

## 5. Theorems

Those above `UpgradeTypeCorrect` are about `Spec` of `JobQueue`, for every finite set of jobs, every
assignment of kinds, every set of pids and every bound. Assumptions: `KindAssumption`,
`NullAssumption`, `FiniteAssumption`, `BoundAssumption`, `PeriodicAssumption`, which say
that constants have their types and that there are finitely many jobs.

| Theorem | Statement |
|---|---|
| `TypeCorrect` | `Spec => []TypeOK` |
| `LimitKept` | `Spec => []WithinLimit` |
| `ExclusionKept` | `Spec => []SlotExclusion` |
| `QueueIsGate` | `Spec => ImplementsGate` |
| `WorkExclusionKept` | `Spec => []WorkExclusion` |
| `AtMostOnceKept` | `Spec => []AtMostOnce` |
| `InductiveInvariant` | `Spec => []IInv` |
| `RowsForwardKept` | `Spec => RowsMoveForward` |
| `CompletedAnsweredKept` | `Spec => []CompletedWasAnswered` |
| `ServiceAgreesKept` | `Spec => []ServiceAnswerAgreesWithRow` |
| `RunningWatchedKept` | `Spec => []RunningIsWatched` |
| `NoDuplicatesKept` | `Spec => []NoDuplicates` |
| `DrainKept` | `Spec => DrainStopsDispatch` |
| `UpgradeTypeCorrect` | `Spec => []TypeOK` of `Upgrade` |
| `ConfirmedOnceKept` | `Spec => []ConfirmedOnce` of `Upgrade` |
| `WorkingBinaryKept` | `Spec /\ []OneUpgrade => []WorkingBinaryOnDisk` of `Upgrade` |
| `NeverConfirmedBroken` | `Spec /\ []OneUpgrade => BrokenNeverConfirmed` of `Upgrade` |
| `AmqpTypeCorrect` | `Spec => []TypeOK` of `Amqp` |
| `OneConnectionKept` | `Spec => []NoLeakedConnection` of `Amqp` |
| `OneAtATimeKept` | `Spec => []OneAtATime` of `Amqp` |
| `NoTwinsKept` | `Spec => []NoTwinJobs` of `Amqp` |
| `OneOutcomeKept` | `Spec => []OneOutcomePerDelivery` of `Amqp` |
| `DeliveryKept` | `Spec => ImplementsDelivery` of `Amqp` |
| `VMTypeCorrect` | `Spec => []TypeOK` of `VMTasks` |
| `EditAppliedKept` | `Spec /\ LeftAlone => EditAppliesAll` of `VMTasks` |
| `DisksKeptIntact` | `Tidy /\ Spec /\ []Orderly => []DisksIntact` of `VMTasks` |
| `VMsLiveUnderTheirNames` | `Tidy /\ Spec /\ []Orderly => []LivesUnderItsName` of `VMTasks` |
| `SourceNeverTouched` | `Tidy /\ Spec /\ []Orderly => SourceUntouched` of `VMTasks` |
| `NothingStaysBehind` | `Tidy /\ Swept /\ Spec /\ [](Orderly /\ \A t \in Tasks : Gathered(t)) => []NothingLeftBehind` of `VMTasks` |

Those about `Upgrade` hold for any number of upgrade tasks, versions, faults and restarts, under
`VersionAssumption`, `NullAssumption` and `BoundAssumption` of `Upgrade`. `TypeOK` there
includes that a service that runs has a binary and holds a pending response exactly
between reading and publishing it. `ConfirmedOnce` follows from `OnceInv`: without faults
a task is in one place at a time, the worker that has yet to record it, the pending
file, the agent that has read it, or the backend.

Two of them suppose `OneUpgrade`: of all the tasks, at most one had its upgrade process launched. The others
may be staged, refused or waiting, and the process may die and the service be restarted at any
point. That is what the code needs: two processes that overlap do lose the last binary,
without any fault (the second deletes as an old backup what the first has just moved away,
while `ovc-agent.exe` is empty; TLC finds it with two tasks). `FilesInv` says that each rename goes to an empty place, so that
it loses nothing: backup and failed slot are empty until the binary is moved, `ovc-agent.exe` while it is
moved in. `RunsInv` says that whatever runs is on disk, and that a service past `config.Load` has a
binary that starts: deleting the backup is the one step that could lose the last such binary, and
the process that does it runs one that works. `LaunchInv` ties the launch to the task that staged it. For
`BrokenNeverConfirmed`, `VerdictInv`: what runs while the log is polled is the new version or
nothing, and a broken one has not logged a fresh start line.

Those about `Amqp` hold for any set of requests (finite or not), any operations, and any
number of faults, store errors and restarts, under `RequestAssumption` and
`BoundAssumption` of `Amqp`.

In `JobQueue` none of the properties is inductive. `WithinLimit` needs to know that the count
the dispatcher keeps by hand is never too low (`CountInv`): entries may vanish while
it counts, but only it adds them. `SlotExclusion` needs that what `VisitJob` saw still
holds at `Register` (`ExclInv`), and that the slice of rows it walks is never stale
(`QueueInv`): only the dispatcher takes rows out of the queue. `WorkExclusion` needs
that before a restart no process is outside the map and the dispatcher's hands
(`ProcInv`), and that one whose claim failed had done nothing. `AtMostOnce`
needs that a waiting job was never run (`RunsInv`).
`IInv` is their conjunction, checked as an invariant of the run faults.

`JobQueueAnswers_proofs` builds on it. `RowsMoveForward` needs no more than the types: `RowStep` lists the
ways a row changes, and each writer uses one of them. `CompletedWasAnswered` needs `WorkInv`, which holds across restarts:
a process past its status check has been counted, and one about to record a success has sent
it. `ServiceAnswerAgreesWithRow` needs `BlameInv`: a job whose failure was reported, or is about to be, is
in no entry of the map and not in the dispatcher's hands, so nobody is left who could complete its
row. `RunningIsWatched` needs that an entry leaves the map only with its termination (`EntryLeaves`), which
without faults (`Faultless`) settles the row in the same step. `NoDuplicates` is inductive on
the types alone, because the conflict of write tasks is mutual. `DrainStopsDispatch` needs `ProcInv`: in
drain mode, between two passes, an empty map means that no process lives.

In `Amqp` the inductive invariant has seven parts besides the types. `ConnInv`: a connection
that is not about to be published is the published one. `SubInv`: subscription numbers are
not used twice, so a late acknowledgement cannot hit a later delivery. `HoldInv`: while
the broker knows the subscription, what the pump or the loop holds is unacknowledged there
(this is what makes the prefetch of one exclude a second delivery). `PendInv`: a request in
hand is still with the broker; an acknowledgement of one request never settles another.
`OutInv`: the loop acknowledges only what has an outcome. `TwinInv`: between the look for a
conflict and the new row nothing else creates rows. `DueInv` is a count: outcomes,
plus those still possible for what pump, loop and queue hold, never exceed one more than the times
the request went back. The refinement follows: creating a row is `Accept`, a conflict answer
`Refuse` or, when it is lost, `Discard`, an acknowledgement that arrives `Settle`; every
other step, redelivery included, is a stutter.

Actions of `JobQueue` that do not belong to the dispatcher are treated together: they keep its
locals, only remove map entries and take no row out of the queue (`Quiet`).

The theorems about `VMTasks` hold for any hosts, requests, number of tasks and failures, under
`BoundAssumption`, `HostAssumption` (the VMs of a host are numbered and have the fields of one),
`EditAssumption` and `BatchAssumption` (requests have the shape `handleVMEdit` and the batch handlers
decode). `TypeOK` needs `ControlInv`: each step belongs to the handler of
the request, and only the handler of a task moves it on. `EditAppliedKept` needs `EditInv`: at each step, the sections of the
edit before it are applied to the VM, and of the present one what `done` lists. Its hypothesis `LeftAlone`
says that, while the edit itself takes no step, its VM keeps existence, name, settings, disks and adapters. The sections
are the settings but for a `cpu_count` passed over, the disks to add and to remove, and the number of adapters;
how large `edit_disk` makes a disk is not modelled. `LLM.md` promises
as much of writes ("mutually exclusive per VM"); the queue keeps it between tasks that carry
the same identifier (`ExclusionKept`), and the run exclusion shows a batch, which
carries none. The run vm checks `EditAppliesAll` without the hypothesis on the pairs it has. The attempt to
prove it found the model wrong where a disk is added and removed by one edit; the model was corrected, and
the pair is now part of the run.

`VMDisks_proofs` relates the files of every VM to the progress of every handler, so its theorems first say
which hosts and requests they are about:

* `Tidy`, of the initial state: every VM has a folder of its name for itself, its disks are files in folders
  that exist, and no two VMs share a disk or a folder. A host whose VMs were made by the agent is of this kind.
* `Separated`: two tasks that create, clone, delete, migrate, rename, move, export or edit VMs and are under way
  together (`Shaping`) are `Distinct` at that moment: the names of the VMs they change or have looked up (`Names`),
  the folders they work in (`FoldersOf`) and the disks they work on (`FilesOf`) differ, no disk of one is in a folder
  of the other, and none changes a VM that another clones. Several may clone the same VM or template. So with
  `max_concurrent_jobs` at its default of 4, four tasks on four VMs are covered, whichever way their scripts
  interleave. Any number of others (power, batches, checkpoints, DVD, settings, high availability) and an
  administrator may act on the same VMs between any two scripts. For VMs of different names the part about folders
  and disks follows from the invariant (`ApartInv`), but for the folders that requests name, those of new VMs and moves, and the
  disks that edits add. What is left out are two such tasks on one VM, folder or disk: the queue refuses them when they
  carry the same identifier, and for those it lets through the run vm checks the pairs it has (within `Apart`).
* `Sound`, of the requests: a disk that an edit adds lies in an existing folder that is not the home of a VM
  of another name, a VM is moved to a volume for VMs, and a rename or move that gives the VM's present name gives the
  right one. The handlers check none of this; TLC finds a disk lost without the first of these conditions, and a VM
  under a wrong name without the last.

Scripts may fail and workers may be killed at any point, any number of times, and what they leave behind is
what the next task finds.

None of the three is inductive. `HostOK` says of the host that VMs have folders that exist (`HomesInv`), that
a disk which is missing lay in its VM's own folder, so that nobody can have made another in its place (`DisksInv`),
and that VMs of different names share nothing (`ApartInv`). Two VMs of one name may: a clone whose rename failed
keeps its source's name, and an edit by that name adds one disk to both. `Local` says of each handler what it
knows at each step: a create that its folder is used by nobody, a clone that its VM is alone in its folder and that a
missing disk is in the log or in its hands, a delete that the noted disks are of the VM it
removed, a move that its VM shares nothing with any other and that what it cleans up is empty, an export that
it converts files of a template. The others keep it because a task that is no shaper changes neither
names, folders nor disks (`Steady`), and a task that is one stays within what is its own (`Within`): VMs of other names and
folders stay as they are, those it makes or changes have a name, a folder and disks of its own, and no other folders
and files come or go. So what another knows of its VMs, folders and disks stays true (`Elsewhere`,
`ElsewhereLocal`, `OthersLocal`). Each handler has a lemma `...Within` besides its `...Keeps`; `ActsKeep` puts them together. `OthersKept`, part
of those about the clone, is `SourceUntouched` for all VMs but the clone's own. `DisksInvariant` was checked
with TLC before it was proved, for all pairs and many triples of such requests on the hosts of `VMTasksMC`.

`NothingStaysBehind`, in `VMFiles_proofs`, speaks of the runs in which every script works and no worker is
killed (`faults = 0`, as `NothingLeftBehind` itself says: what failures leave is item 13 of section 4). Requests may
still be refused at any point the handlers check. Besides `Tidy` and `Orderly` it supposes

* `Swept`, of the initial state: no export is there, every file lies in a folder that exists and is a VM's or a template's;
* `Gathered`: a VM that is deleted without its files has all its disks in its folder, since "the files of that VM" is
  what `Kept` lets stay;
* `CreateAssumption`: the number of disks of a `vm_create` is a natural number.

Its invariant `LeftInvariant` accounts for every file and every export folder while handlers are under way. A file is a
template's, a VM's, in the hands of a handler (`Held`: disks of a create before they are attached, an export and
what lies in it, a renamed or converted copy, what a deletion or an edit is about to remove), or
kept on purpose by a request that ran (`Spared`). It is needed together with `Sure`, what the handlers know when
no script has failed: a create that its folder holds no file it did not make, a deletion that all disks of the VM it
removes are noted. A step is a `CleanStep` if what it makes it accounts for, and what it accounted for it does not
leave to others; each handler has lemmas `...Cleans`, `ActsClean` puts them together, and `LeftInvariantKept` concludes, since
nobody else's account depends on what a step changes and nobody else is less sure of anything (`ElsewhereSure`). TLC checked `LeftInvariant` before it was proved, for all pairs of
requests on the three hosts of `VMTasksMC`.

*Only model-checked:* liveness (`QueuedIsDispatched`, `QueuedSettles`, `UpgradeAnswered`,
`RollbackRestores`, `EventuallyServing`, `RequestsSettle`), since the prover handles neither
fairness nor ENABLED; and the properties of `VMDisks_proofs` and `VMFiles_proofs` when several shapers work on the same VM, folder
or disk. Every other property of a passing run is stated by a theorem.

## 6. Not modelled

* Publisher: plain publications appear as the conflict answer only, the confirmed one as a step of
  `JobQueue` that succeeds, fails, or is unconfirmed though it arrived. State queues and
  their declarations are left out.
* `handleVMMigrate` and the moves are seen from this host: what the target does with the VM
  is outside.
* The disk expansion of a clone uses `Split-Path -LiteralPath ... -Parent`
  (`vm_clone.go:504`). Some versions of PowerShell have no parameter set with both; there
  the expansion fails on every disk before it has changed one, and only logs it. The models
  assume that the line works.
* Sizes, memory, progress percentages, thumbnails, validation of names: data mapping with unit
  tests of its own.
* Inventories, metrics, host information, PowerShell execution, logging, installation,
  configuration values: pure I/O or data mapping without state of their own.
* Host handlers: single PowerShell or `sc` calls; the detached restart appears as a stop and
  start of the service at any time.

## 7. Plan

1. *Proofs for VM handlers on the same VM*: which pairs keep `DisksIntact` and `NothingLeftBehind` even though they
   share a VM, a folder or a disk, and `Separated` derived from the requests for those that carry different identifiers.
2. *Composition*: two upgrade tasks; three VM tasks on one host.
