------------------------------ MODULE JobQueue ------------------------------
(***************************************************************************)
(* The job queue of the agent: the rows of the job store, the service's    *)
(* intake, scheduler, dispatcher and monitor, the worker processes, and    *)
(* crashes or restarts of the service.                                     *)
(*                                                                         *)
(* Three kinds of actors interleave.  The service process runs the message *)
(* loop, the refresh scheduler, the dispatcher's single RunLoop goroutine, *)
(* one Wait goroutine per registered worker and the timeout ticker; each   *)
(* acquisition of the monitor's mutex and each store transaction is one    *)
(* step.  Worker processes are separate processes that share only the      *)
(* store and survive the service.  The environment stops and starts the    *)
(* service, kills processes and makes calls fail.                          *)
(*                                                                         *)
(* Bounds: MaxRestarts bounds the stops of the service, MaxFaults the      *)
(* calls that fail and the processes that die by themselves.               *)
(***************************************************************************)
EXTENDS FiniteSets, Integers, JobClass

CONSTANTS
  Jobs,               \* the job records that may ever be created
  Kind,               \* task type, action and VM identifier of each
  Periodic,           \* jobs of the scheduler: task id "refresh-..."
  Pids,               \* worker processes that may ever be spawned
  NoJob, NoPid,       \* null values
  MaxConcurrentJobs,  \* max_concurrent_jobs of config.ini
  MaxRestarts, MaxFaults

ASSUME KindAssumption ==
  Kind \in [Jobs -> [type : TaskTypes, action : STRING, vm : STRING]]

ASSUME NullAssumption ==
  NoJob \notin Jobs /\ NoPid \notin Pids

ASSUME FiniteAssumption == IsFiniteSet(Jobs)

ASSUME BoundAssumption ==
  /\ MaxConcurrentJobs \in Nat \ {0}
  /\ MaxRestarts \in Nat
  /\ MaxFaults \in Nat

ASSUME PeriodicAssumption == Periodic \subseteq Jobs

VARIABLES
  \* --- the job store (SQLite file, survives everything) ---
  status,          \* status column; "absent" before Create, "gone" after
  workerPid,       \* worker_pid column while the row is running (it keeps
                   \* its value afterwards, but nobody reads it then)
  createdAt,       \* rank of the row in creation order, 0 before Create
  \* --- the service process ---
  up,              \* is the service running
  triggerCh,       \* the dispatcher's channel of capacity 1 holds a signal
  drainMode,
  drainers,        \* goroutines waiting in EnterDrainMode
  workers,         \* the monitor's map: the pid of each entry, else NoPid
  callback,        \* what the Wait goroutine still owes after unlocking
  \* --- the dispatcher's RunLoop goroutine ---
  dpc, runningCount, hasRunningWrite, readsOnly,
  todo,            \* the queued rows listed by this pass, not yet visited
  cur, curPid,     \* the job being dispatched and its process
  \* --- worker processes ---
  proc,            \* control state of each process
  procJob,         \* the job id on its command line
  procOk,          \* the result of its task
  \* --- the backend's view, history and bounds ---
  answers,         \* terminal responses published for each job
  runs,            \* times the task of each job was started
  launches,        \* upgrade processes launched
  restarts, faults

rowVars      == <<status, workerPid>>
storeVars    == <<rowVars, createdAt>>
passVars     == <<runningCount, hasRunningWrite, readsOnly, todo>>
dispatchVars == <<dpc, passVars, cur, curPid>>
drainVars    == <<drainMode, drainers, launches>>
procVars     == <<proc, procJob, procOk>>
backendVars  == <<answers, runs>>
boundVars    == <<restarts, faults>>

vars == <<storeVars, up, triggerCh, drainVars, workers, callback,
          dispatchVars, procVars, backendVars, boundVars>>

-----------------------------------------------------------------------------
(* Derived state.                                                          *)

Statuses   == {"absent", "queued", "running", "completed", "failed", "gone"}
Terminal   == {"completed", "failed"}
ProcStates == {"free", "started", "connecting", "executing", "answering",
               "recording", "quitting"}
Callbacks  == {"none", "finish", "failed", "completed"}
PassStates == {"idle", "count", "hostcheck", "snapshot", "list", "loop",
               "spawn", "claim", "register"}

Class(j) == Classify(Kind[j])

(* A pid is free before its process starts and again after it has exited.  *)
(* The system gives it to a new process once the service has closed its    *)
(* handle of the old one, rows that still name it notwithstanding.         *)
Alive(p) == proc[p] # "free"

Spawnable(p) ==
  ~Alive(p) /\ p # curPid /\ \A j \in Jobs : workers[j] # p

(* The processes that may be changing the host: past the status check.     *)
Working(p)  == proc[p] \in {"executing", "answering", "recording"}
Executing(p) == proc[p] = "executing"

Queued  == {j \in Jobs : status[j] = "queued"}
Running == {j \in Jobs : status[j] = "running"}
Active  == Queued \union Running

Spend == faults < MaxFaults /\ faults' = faults + 1
Fault(failed) == IF failed THEN Spend ELSE UNCHANGED faults

(* Faulty variants of a definition stand right before it; each breaks one  *)
(* of the properties below (see the README).                               *)
UpdateStatusBlind(j, from, to, pid, err) ==     \* no compare before the swap
  IF ~err
    THEN /\ status' = [status EXCEPT ![j] = to]
         /\ workerPid' = [workerPid EXCEPT ![j] = pid]
    ELSE UNCHANGED rowVars

UpdateStatusTimeout(j, from, to, pid, err) ==   \* record.go's unused "timeout"
  IF status[j] = from /\ ~err
    THEN /\ status' = [status EXCEPT ![j] = IF to = "failed" THEN "timeout" ELSE to]
         /\ workerPid' = [workerPid EXCEPT ![j] = pid]
    ELSE UNCHANGED rowVars

(* UpdateStatus: a compare-and-swap on the status column, in one           *)
(* transaction that also writes worker_pid.  A mismatch and a store error  *)
(* (err) change nothing.                                                   *)
UpdateStatus(j, from, to, pid, err) ==
  IF status[j] = from /\ ~err
    THEN /\ status' = [status EXCEPT ![j] = to]
         /\ workerPid' = [workerPid EXCEPT ![j] = pid]
    ELSE UNCHANGED rowVars

HasConflictRunning(j) == \E k \in Running : Conflicts(Kind[j], Kind[k])

HasConflict(j) == \E k \in Active : Conflicts(Kind[j], Kind[k])

HasExistingRefresh(j) == \E k \in Active : Kind[k].type = Kind[j].type

(* The monitor's queries over its map.                                     *)
Tracked             == {j \in Jobs : workers[j] # NoPid}
RunningCount        == Cardinality(Tracked)
HasRunningHostWrite == \E j \in Tracked : Class(j) = "host_write"
HasRunningWrite     == \E j \in Tracked : Class(j) \in {"write", "host_write"}
HasRunningWriteForVM(vm) ==
  \E j \in Tracked : Class(j) = "write" /\ Kind[j].vm = vm

(* A process moves to another state, or ends with everything it holds.     *)
Goto(p, state) ==
  proc' = [proc EXCEPT ![p] = state] /\ UNCHANGED <<procJob, procOk>>
Exit(p) ==
  /\ proc' = [proc EXCEPT ![p] = "free"]
  /\ procJob' = [procJob EXCEPT ![p] = NoJob]
  /\ procOk' = [procOk EXCEPT ![p] = FALSE]

Answer(j, from, result) ==
  answers' = [answers EXCEPT ![j] = @ \union {[from |-> from, result |-> result]}]

-----------------------------------------------------------------------------
Init ==
  /\ status = [j \in Jobs |-> "absent"]
  /\ workerPid = [j \in Jobs |-> NoPid]
  /\ createdAt = [j \in Jobs |-> 0]
  /\ up = TRUE /\ triggerCh = TRUE
  /\ drainMode = FALSE /\ drainers = 0 /\ launches = 0
  /\ workers = [j \in Jobs |-> NoPid]
  /\ callback = [j \in Jobs |-> "none"]
  /\ dpc = "idle" /\ runningCount = 0
  /\ hasRunningWrite = FALSE /\ readsOnly = FALSE
  /\ todo = {} /\ cur = NoJob /\ curPid = NoPid
  /\ proc = [p \in Pids |-> "free"]
  /\ procJob = [p \in Pids |-> NoJob]
  /\ procOk = [p \in Pids |-> FALSE]
  /\ answers = [j \in Jobs |-> {}]
  /\ runs = [j \in Jobs |-> 0]
  /\ restarts = 0 /\ faults = 0

-----------------------------------------------------------------------------
(* Intake: the message loop of runAgent and the scheduler.                 *)

Created == {k \in Jobs : createdAt[k] # 0}

Create(j) ==
  /\ status' = [status EXCEPT ![j] = "queued"]
  /\ createdAt' = [createdAt EXCEPT ![j] = 1 + Cardinality(Created)]

IntakeUnchanged ==
  UNCHANGED <<workerPid, up, drainVars, workers, callback, dispatchVars,
              procVars, runs, restarts>>

Duplicate(j) == IsWriteTask(Kind[j]) /\ HasConflict(j)

(* A request that is no duplicate becomes a row.  The caller drops an      *)
(* error of the duplicate check, which then reads as "no conflict".        *)
Enqueue(j) ==
  /\ up /\ j \notin Periodic /\ status[j] = "absent"
  /\ Create(j)
  /\ triggerCh' = TRUE
  /\ Fault(Duplicate(j))
  /\ UNCHANGED answers
  /\ IntakeUnchanged

(* publishConflictResponse and Ack: a duplicate is answered, not stored.   *)
RejectDuplicate(j) ==
  /\ up /\ j \notin Periodic /\ status[j] = "absent"
  /\ Duplicate(j)
  /\ status' = [status EXCEPT ![j] = "gone"]
  /\ Answer(j, "intake", "failed")
  /\ UNCHANGED <<createdAt, triggerCh, faults>>
  /\ IntakeUnchanged

(* Create fails: Nack without requeue, so the request is lost unanswered.  *)
DropRequest(j) ==
  /\ up /\ j \notin Periodic /\ status[j] = "absent"
  /\ ~Duplicate(j)
  /\ status' = [status EXCEPT ![j] = "gone"]
  /\ Spend
  /\ UNCHANGED <<createdAt, triggerCh, answers>>
  /\ IntakeUnchanged

(* maybeCreateRefreshJob: one active refresh per task type.  A failed list *)
(* query is skipped and finds nothing.                                     *)
ScheduleRefresh(j) ==
  /\ up /\ j \in Periodic /\ status[j] = "absent"
  /\ Create(j)
  /\ triggerCh' = TRUE
  /\ Fault(HasExistingRefresh(j))
  /\ UNCHANGED answers
  /\ IntakeUnchanged

(* Retention.purge: terminal rows older than a day are deleted.            *)
Purge(j) ==
  /\ up /\ status[j] \in Terminal
  /\ status' = [status EXCEPT ![j] = "gone"]
  /\ UNCHANGED <<createdAt, triggerCh, answers, faults>>
  /\ IntakeUnchanged

-----------------------------------------------------------------------------
(* The dispatcher: EvaluateAndDispatch, one step per lock or transaction.  *)

DispatcherUnchanged ==
  UNCHANGED <<createdAt, up, drainVars, callback, answers, runs, restarts>>

(* RunLoop receives the trigger or the 2 s tick and reads drainMode.       *)
PassStartAlways == "count"

PassStart == IF drainMode THEN "idle" ELSE "count"

Evaluate ==
  /\ up /\ dpc = "idle"
  /\ triggerCh' \in {FALSE, triggerCh}
  /\ dpc' = PassStart
  /\ UNCHANGED <<status, workerPid, workers, passVars, cur, curPid, procVars, faults>>
  /\ DispatcherUnchanged

CountWorkers ==
  /\ dpc = "count"
  /\ IF RunningCount >= MaxConcurrentJobs
       THEN dpc' = "idle" /\ UNCHANGED runningCount
       ELSE dpc' = "hostcheck" /\ runningCount' = RunningCount
  /\ UNCHANGED <<status, workerPid, triggerCh, workers, hasRunningWrite,
                 readsOnly, todo, cur, curPid, procVars, faults>>
  /\ DispatcherUnchanged

CheckHostWrite ==
  /\ dpc = "hostcheck"
  /\ readsOnly' = HasRunningHostWrite
  /\ dpc' = IF HasRunningHostWrite THEN "list" ELSE "snapshot"
  /\ UNCHANGED <<status, workerPid, triggerCh, workers, runningCount,
                 hasRunningWrite, todo, cur, curPid, procVars, faults>>
  /\ DispatcherUnchanged

SnapshotWrites ==
  /\ dpc = "snapshot"
  /\ hasRunningWrite' = HasRunningWrite
  /\ dpc' = "list"
  /\ UNCHANGED <<status, workerPid, triggerCh, workers, runningCount,
                 readsOnly, todo, cur, curPid, procVars, faults>>
  /\ DispatcherUnchanged

(* The pass returns: its locals vanish.                                    *)
Return ==
  /\ dpc' = "idle"
  /\ runningCount' = 0 /\ hasRunningWrite' = FALSE /\ readsOnly' = FALSE
  /\ todo' = {}

ListQueued(err) ==
  /\ dpc = "list"
  /\ IF err
       THEN Return
       ELSE /\ dpc' = "loop" /\ todo' = Queued
            /\ UNCHANGED <<runningCount, hasRunningWrite, readsOnly>>
  /\ Fault(err)
  /\ UNCHANGED <<status, workerPid, triggerCh, workers, cur, curPid, procVars>>
  /\ DispatcherUnchanged

(* The body of the loop for one row, oldest first.  Only ListQueued and    *)
(* this step read the queue: a row created meanwhile waits for the next    *)
(* pass.                                                                   *)
Oldest(j) == j \in todo /\ \A k \in todo : createdAt[j] <= createdAt[k]

EligibleNoVM(j) ==        \* the VM "" taken for "no VM"
  \/ Class(j) = "read"
  \/ /\ ~readsOnly
     /\ CASE Class(j) = "write"      -> Kind[j].vm = NoVM \/ ~HasRunningWriteForVM(Kind[j].vm)
          [] Class(j) = "host_write" -> ~hasRunningWrite /\ ~HasRunningHostWrite
          [] Class(j) = "download"   -> TRUE

Eligible(j) ==
  \/ Class(j) = "read"
  \/ /\ ~readsOnly
     /\ CASE Class(j) = "write"      -> ~HasRunningWriteForVM(Kind[j].vm)
          [] Class(j) = "host_write" -> ~hasRunningWrite /\ ~HasRunningHostWrite
          [] Class(j) = "download"   -> TRUE

SlotLeftOffByOne == runningCount <= MaxConcurrentJobs

SlotLeft == runningCount < MaxConcurrentJobs

VisitJob(j) ==
  /\ dpc = "loop"
  /\ SlotLeft
  /\ Oldest(j)
  /\ todo' = todo \ {j}
  /\ IF Eligible(j)
       THEN /\ dpc' = "spawn" /\ cur' = j
            /\ runningCount' = runningCount + 1
            /\ hasRunningWrite' = (hasRunningWrite \/ Class(j) = "host_write")
       ELSE UNCHANGED <<dpc, cur, runningCount, hasRunningWrite>>
  /\ UNCHANGED <<status, workerPid, triggerCh, workers, readsOnly, curPid,
                 procVars, faults>>
  /\ DispatcherUnchanged

EndPass ==
  /\ dpc = "loop"
  /\ ~SlotLeft \/ todo = {}
  /\ Return
  /\ UNCHANGED <<status, workerPid, triggerCh, workers, cur, curPid, procVars, faults>>
  /\ DispatcherUnchanged

(* dispatch: start the process, claim the row, register the worker.        *)
Spawn(p) ==
  /\ dpc = "spawn" /\ Spawnable(p)
  /\ proc' = [proc EXCEPT ![p] = "started"]
  /\ procJob' = [procJob EXCEPT ![p] = cur]
  /\ curPid' = p
  /\ dpc' = "claim"
  /\ UNCHANGED <<status, workerPid, triggerCh, workers, passVars, cur, procOk, faults>>
  /\ DispatcherUnchanged

(* cmd.Start fails, which also stands for running out of Pids.             *)
SpawnFails ==
  /\ dpc = "spawn"
  /\ Fault(\E p \in Pids : Spawnable(p))
  /\ cur' = NoJob
  /\ dpc' = "loop"
  /\ UNCHANGED <<status, workerPid, triggerCh, workers, passVars, curPid, procVars>>
  /\ DispatcherUnchanged

Claim ==
  /\ dpc = "claim" /\ status[cur] = "queued"
  /\ UpdateStatus(cur, "queued", "running", curPid, FALSE)
  /\ dpc' = "register"
  /\ UNCHANGED <<triggerCh, workers, passVars, cur, curPid, procVars, faults>>
  /\ DispatcherUnchanged

(* The process is killed and not waited for; the row stays queued.         *)
KillUnclaimedSkipped == UNCHANGED procVars

KillUnclaimed == Exit(curPid)

ClaimFails ==
  /\ dpc = "claim"
  /\ Fault(status[cur] = "queued")
  /\ KillUnclaimed
  /\ cur' = NoJob /\ curPid' = NoPid
  /\ dpc' = "loop"
  /\ UNCHANGED <<status, workerPid, triggerCh, workers, passVars>>
  /\ DispatcherUnchanged

Register ==
  /\ dpc = "register"
  /\ workers' = [workers EXCEPT ![cur] = curPid]
  /\ cur' = NoJob /\ curPid' = NoPid
  /\ dpc' = "loop"
  /\ UNCHANGED <<status, workerPid, triggerCh, passVars, procVars, faults>>
  /\ DispatcherUnchanged

-----------------------------------------------------------------------------
(* The monitor.                                                            *)

MonitorUnchanged ==
  UNCHANGED <<createdAt, up, dispatchVars, runs, restarts>>

(* checkTimeouts: a worker past its deadline is killed; its Wait goroutine *)
(* does the rest.  Deadlines are not modelled, any worker may pass its own.*)
KillTimedOut(j) ==
  /\ j \in Tracked /\ Alive(workers[j])
  /\ Exit(workers[j])
  /\ UNCHANGED <<rowVars, triggerCh, drainVars, workers, callback, answers, faults>>
  /\ MonitorUnchanged

(* handleTermination up to the unlock: the whole of it holds the mutex.    *)
(* A failed read (err, or the row is gone) owes only onFinish; a failed    *)
(* update still counts as "failed while running".                          *)
Owe(j, what) == callback' = [callback EXCEPT ![j] = what]

FailRunningRowSkipped(j, err) ==
  /\ status[j] = "running"
  /\ UNCHANGED rowVars
  /\ Owe(j, "failed")

FailRunningRow(j, err) ==
  /\ status[j] = "running"
  /\ UpdateStatus(j, "running", "failed", NoPid, err)
  /\ Owe(j, "failed")

LeaveTerminalRowFailed(j) ==     \* every exit reported as a failure
  status[j] \in Terminal /\ Owe(j, "failed") /\ UNCHANGED rowVars

LeaveTerminalRow(j) ==
  /\ status[j] \in Terminal
  /\ Owe(j, IF status[j] = "completed" THEN "completed" ELSE "finish")
  /\ UNCHANGED rowVars

RemoveEntryIfRow(j) ==           \* not removed when the row cannot be read
  workers' = IF status[j] = "gone" THEN workers ELSE [workers EXCEPT ![j] = NoPid]

RemoveEntry(j) == workers' = [workers EXCEPT ![j] = NoPid]

HandleTermination(j, err) ==
  /\ j \in Tracked /\ ~Alive(workers[j])
  /\ RemoveEntry(j)
  /\ \/ (err \/ status[j] = "gone") /\ Owe(j, "finish") /\ UNCHANGED rowVars
     \/ FailRunningRow(j, err)
     \/ ~err /\ LeaveTerminalRow(j)
  /\ Fault(err)
  /\ UNCHANGED <<triggerCh, drainVars, answers, procVars>>
  /\ MonitorUnchanged

(* The callbacks after the unlock: onFinish always; onWorkerFailed         *)
(* publishes a failure, unless the publish fails (err); onJobCompleted     *)
(* enters drain mode when an agent upgrade was staged, unless it cannot    *)
(* read the row again.                                                     *)
StartsDrain(j) ==
  /\ callback[j] = "completed" /\ Class(j) = "download" /\ status[j] # "gone"

RunCallbacks(j, err) ==
  /\ callback[j] # "none"
  /\ callback' = [callback EXCEPT ![j] = "none"]
  /\ triggerCh' = TRUE
  /\ IF callback[j] = "failed" /\ ~err
       THEN Answer(j, "service", "failed") ELSE UNCHANGED answers
  /\ IF StartsDrain(j) /\ ~err
       THEN drainMode' = TRUE /\ drainers' = drainers + 1
       ELSE UNCHANGED <<drainMode, drainers>>
  /\ err => callback[j] = "failed" \/ StartsDrain(j)
  /\ Fault(err)
  /\ UNCHANGED <<rowVars, launches, workers, procVars>>
  /\ MonitorUnchanged

-----------------------------------------------------------------------------
(* Drain mode: the goroutine of EnterDrainMode polls for an empty map, or  *)
(* gives up after 30 minutes (forced), and launches the upgrade process.   *)
(* Drain mode ends here only when the launch fails (err).                  *)
LaunchUpgrade(forced, err) ==
  /\ drainers > 0
  /\ forced \/ RunningCount = 0
  /\ drainers' = drainers - 1
  /\ IF err
       THEN drainMode' = FALSE /\ triggerCh' = TRUE /\ UNCHANGED launches
       ELSE launches' = launches + 1 /\ UNCHANGED <<drainMode, triggerCh>>
  /\ Fault(err)
  /\ UNCHANGED <<storeVars, up, workers, callback, dispatchVars, procVars,
                 backendVars, restarts>>

-----------------------------------------------------------------------------
(* Worker processes: RunJob.                                               *)

WorkerUnchanged ==
  UNCHANGED <<createdAt, up, triggerCh, drainVars, workers,
              callback, dispatchVars, restarts>>

MayRunAlways(j) == TRUE

MayRun(j) == status[j] = "running"

(* The configuration cannot be loaded or the row not read (err), or the    *)
(* row is not running (yet): the worker exits and touches nothing.         *)
ReadJob(p, err) ==
  /\ proc[p] = "started"
  /\ IF err \/ ~MayRun(procJob[p])
       THEN Exit(p) ELSE Goto(p, "connecting")
  /\ Fault(err)
  /\ UNCHANGED <<rowVars, answers, runs>>
  /\ WorkerUnchanged

(* Connect and DeclareQueue, then the task begins.                         *)
Connect(p, err) ==
  /\ proc[p] = "connecting"
  /\ Goto(p, IF err THEN "quitting" ELSE "executing")
  /\ runs' = IF err THEN runs ELSE [runs EXCEPT ![procJob[p]] = @ + 1]
  /\ Fault(err)
  /\ UNCHANGED <<rowVars, answers>>
  /\ WorkerUnchanged

ExecuteTask(p, ok) ==
  /\ proc[p] = "executing"
  /\ proc' = [proc EXCEPT ![p] = "answering"]
  /\ procOk' = [procOk EXCEPT ![p] = ok]
  /\ UNCHANGED procJob
  /\ UNCHANGED <<rowVars, answers, runs, faults>>
  /\ WorkerUnchanged

(* The response of a staged agent upgrade is "in_progress" on the wire:    *)
(* not a terminal answer.  Periodic refreshes answer nobody.               *)
Result(p) == IF procOk[p] THEN "completed" ELSE "failed"

PublishResponse(p) ==
  IF Class(procJob[p]) = "download" /\ procOk[p]
    THEN UNCHANGED answers
    ELSE Answer(procJob[p], "worker", Result(p))

AnswerConfirmed(p) ==
  /\ proc[p] = "answering"
  /\ IF procJob[p] \in Periodic THEN UNCHANGED answers ELSE PublishResponse(p)
  /\ Goto(p, "recording")
  /\ UNCHANGED <<rowVars, runs, faults>>
  /\ WorkerUnchanged

AnswerUnconfirmedIgnored(p) ==   \* the publish error is not looked at
  /\ proc[p] = "answering" /\ procJob[p] \notin Periodic
  /\ UNCHANGED answers \/ PublishResponse(p)
  /\ Goto(p, "recording")
  /\ Spend
  /\ UNCHANGED <<rowVars, runs>>
  /\ WorkerUnchanged

(* No confirm within the timeout; the broker may have the message or not.  *)
AnswerUnconfirmed(p) ==
  /\ proc[p] = "answering" /\ procJob[p] \notin Periodic
  /\ UNCHANGED answers \/ PublishResponse(p)
  /\ Goto(p, "quitting")
  /\ Spend
  /\ UNCHANGED <<rowVars, runs>>
  /\ WorkerUnchanged

RecordResult(p, err) ==
  /\ proc[p] = "recording"
  /\ UpdateStatus(procJob[p], "running", Result(p), NoPid, err)
  /\ Exit(p)
  /\ Fault(err)
  /\ UNCHANGED <<answers, runs>>
  /\ WorkerUnchanged

(* The row is marked failed because the worker could not connect or its    *)
(* response was not confirmed.                                             *)
GiveUp(p, err) ==
  /\ proc[p] = "quitting"
  /\ UpdateStatus(procJob[p], "running", "failed", NoPid, err)
  /\ Exit(p)
  /\ Fault(err)
  /\ UNCHANGED <<answers, runs>>
  /\ WorkerUnchanged

(* The process is killed or crashes by itself.                             *)
ProcessDies(p) ==
  /\ Alive(p)
  /\ Exit(p)
  /\ Spend
  /\ UNCHANGED <<rowVars, answers, runs>>
  /\ WorkerUnchanged

-----------------------------------------------------------------------------
(* The service stops (crash, "sc stop", host_restart_agent, an upgrade):   *)
(* everything in memory is lost, the workers live on.                      *)
StopService ==
  /\ up /\ restarts < MaxRestarts
  /\ up' = FALSE
  /\ restarts' = restarts + 1
  /\ triggerCh' = FALSE
  /\ drainMode' = FALSE /\ drainers' = 0
  /\ workers' = [j \in Jobs |-> NoPid]
  /\ callback' = [j \in Jobs |-> "none"]
  /\ Return
  /\ cur' = NoJob /\ curPid' = NoPid
  /\ UNCHANGED <<storeVars, launches, procVars, backendVars, faults>>

(* runAgent up to RunLoop: RecoverOrphanedJobs fails the running rows whose*)
(* process is gone, except those whose update fails (missed), and leaves   *)
(* the rows of live workers alone; no entry is made for them.              *)
Orphaned(j) == workerPid[j] = NoPid \/ ~Alive(workerPid[j])

Recovered(missed) == {j \in Running \ missed : Orphaned(j)}

StartService(missed) ==
  /\ ~up
  /\ missed \subseteq {j \in Running : Orphaned(j)}
  /\ up' = TRUE /\ triggerCh' = TRUE
  /\ status' = [j \in Jobs |->
                  IF j \in Recovered(missed) THEN "failed" ELSE status[j]]
  /\ workerPid' = [j \in Jobs |->
                     IF j \in Recovered(missed) THEN NoPid ELSE workerPid[j]]
  /\ Fault(missed # {})
  /\ UNCHANGED <<createdAt, drainVars, workers, callback,
                 dispatchVars, procVars, backendVars, restarts>>

-----------------------------------------------------------------------------
Intake ==
  \E j \in Jobs :
    Enqueue(j) \/ RejectDuplicate(j) \/ DropRequest(j) \/ ScheduleRefresh(j)
               \/ Purge(j)

Dispatch ==
  \/ Evaluate \/ CountWorkers \/ CheckHostWrite \/ SnapshotWrites
  \/ \E err \in BOOLEAN : ListQueued(err)
  \/ \E j \in Jobs : VisitJob(j)
  \/ EndPass
  \/ \E p \in Pids : Spawn(p)
  \/ SpawnFails \/ Claim \/ ClaimFails \/ Register

Monitor ==
  \E j \in Jobs :
    \/ KillTimedOut(j)
    \/ \E err \in BOOLEAN : HandleTermination(j, err) \/ RunCallbacks(j, err)

Drain == \E forced, err \in BOOLEAN : LaunchUpgrade(forced, err)

Worker(p) ==
  \/ \E err \in BOOLEAN :
       \/ ReadJob(p, err) \/ Connect(p, err)
       \/ RecordResult(p, err) \/ GiveUp(p, err)
  \/ AnswerConfirmed(p) \/ AnswerUnconfirmed(p)

Environment ==
  \/ \E p \in Pids : ProcessDies(p) \/ \E ok \in BOOLEAN : ExecuteTask(p, ok)
  \/ StopService
  \/ \E missed \in SUBSET Jobs : StartService(missed)

Next ==
  \/ Intake \/ Dispatch \/ Monitor \/ Drain
  \/ \E p \in Pids : Worker(p)
  \/ Environment

Spec == Init /\ [][Next]_vars

(***************************************************************************)
(* Fairness.  The RunLoop, the Wait goroutines with their callbacks, the   *)
(* 5 s timeout ticker, the drain poll and the worker processes all keep    *)
(* running; by assumption somebody starts a service that stopped (it is    *)
(* installed without recovery actions).  Nothing is assumed of a task,     *)
(* which may hang: its worker is killed at its deadline.                   *)
(***************************************************************************)
Fairness ==
  /\ WF_vars(Dispatch)
  /\ \A j \in Jobs :
       /\ WF_vars(KillTimedOut(j))
       /\ WF_vars(\E err \in BOOLEAN : HandleTermination(j, err))
       /\ WF_vars(\E err \in BOOLEAN : RunCallbacks(j, err))
  /\ WF_vars(\E err \in BOOLEAN : LaunchUpgrade(FALSE, err))
  /\ \A p \in Pids : WF_vars(Worker(p))
  /\ WF_vars(\E missed \in SUBSET Jobs : StartService(missed))

FairSpec == Spec /\ Fairness

-----------------------------------------------------------------------------
(* Properties.                                                             *)

(* Every variable stays in its range.                                      *)
TypeOK ==
  /\ status \in [Jobs -> Statuses]
  /\ workerPid \in [Jobs -> Pids \union {NoPid}]
  /\ createdAt \in [Jobs -> Nat]
  /\ up \in BOOLEAN /\ triggerCh \in BOOLEAN /\ drainMode \in BOOLEAN
  /\ drainers \in Nat /\ launches \in Nat
  /\ workers \in [Jobs -> Pids \union {NoPid}]
  /\ callback \in [Jobs -> Callbacks]
  /\ dpc \in PassStates /\ runningCount \in Nat
  /\ hasRunningWrite \in BOOLEAN /\ readsOnly \in BOOLEAN
  /\ todo \subseteq Jobs
  /\ cur \in Jobs \union {NoJob} /\ curPid \in Pids \union {NoPid}
  /\ proc \in [Pids -> ProcStates]
  /\ procJob \in [Pids -> Jobs \union {NoJob}]
  /\ procOk \in [Pids -> BOOLEAN]
  /\ answers \in [Jobs -> SUBSET [from : {"intake", "worker", "service"},
                                  result : Terminal]]
  /\ runs \in [Jobs -> Nat]
  /\ restarts \in 0 .. MaxRestarts /\ faults \in 0 .. MaxFaults

(* The jobs holding a slot: in the monitor's map, or claimed and about to  *)
(* be registered.                                                          *)
Admitted == Tracked \union (IF dpc = "register" THEN {cur} ELSE {})

(* Never more workers than max_concurrent_jobs, although the count is read *)
(* once at the beginning of a pass and then kept by hand.                  *)
WithinLimit == Cardinality(Admitted) <= MaxConcurrentJobs

(* Two writes of one VM, or two host writes, never hold slots together:    *)
(* the dispatcher's check and the registration it protects are several     *)
(* steps apart.                                                            *)
Excludes(j, k) ==
  \/ SameVMWrites(Kind[j], Kind[k])
  \/ Class(j) = "host_write" /\ Class(k) = "host_write"

SlotExclusion == \A j, k \in Admitted : j # k => ~Excludes(j, k)

(* The same of the processes that are really at work, as long as the       *)
(* service has not been restarted: no working process is outside the map.  *)
WorkExclusion ==
  restarts = 0 =>
    \A p, q \in Pids :
      Working(p) /\ Working(q) /\ p # q => ~Excludes(procJob[p], procJob[q])

(* A running row has a worker that the monitor watches or is about to, or  *)
(* was left behind by a restart or a failed store update.                  *)
RunningIsWatched ==
  restarts = 0 /\ faults = 0 => Running \subseteq Admitted

(* A task is carried out at most once in one service lifetime, although a  *)
(* job may be spawned again after a failed claim.                          *)
AtMostOnce == restarts = 0 => \A j \in Jobs : runs[j] <= 1

(* A completed row has been carried out, and the backend was told so first *)
(* (unless nobody is waiting, or the upgrade goes on).                     *)
CompletedWasAnswered ==
  \A j \in Jobs : status[j] = "completed" =>
    /\ runs[j] >= 1
    /\ \/ j \in Periodic \/ Class(j) = "download"
       \/ [from |-> "worker", result |-> "completed"] \in answers[j]

(* The service never tells the backend that a job failed whose row is      *)
(* completed: the failure answer follows from the row it has just changed. *)
ServiceAnswerAgreesWithRow ==
  restarts = 0 =>
    \A j \in Jobs :
      [from |-> "service", result |-> "failed"] \in answers[j] =>
        status[j] # "completed"

(* Duplicate rejection: no two active rows of write tasks conflict, unless *)
(* a store error hid one from the check.                                   *)
NoDuplicates ==
  faults = 0 =>
    \A j, k \in Active \ Periodic :
      j # k /\ IsWriteTask(Kind[j]) => ~Conflicts(Kind[j], Kind[k])

(* A row only moves forward: whoever writes it last (worker, monitor,      *)
(* recovery, retention) a terminal row never becomes another one and a     *)
(* claimed row is never queued again.                                      *)
Forward ==
  [absent    |-> {"queued", "gone"},
   queued    |-> {"running"},
   running   |-> {"completed", "failed"},
   completed |-> {"gone"},
   failed    |-> {"gone"},
   gone      |-> {}]

RowsMoveForward ==
  [][\A j \in Jobs : status'[j] = status[j] \/ status'[j] \in Forward[status[j]]]_vars

(* Drain mode: once the current pass has ended no process is started until *)
(* drain mode ends, and an upgrade launched then, unless the hard timeout  *)
(* forces it, finds no worker process left.                                *)
DrainStopsDispatch ==
  [][restarts = 0 /\ drainMode /\ dpc = "idle" =>
       /\ drainMode' => dpc' = "idle"
       /\ (\E err \in BOOLEAN : LaunchUpgrade(FALSE, err)) =>
            \A p \in Pids : ~Alive(p)]_vars

(* Queue and gate: within a service lifetime the dispatcher and the        *)
(* monitor implement the abstract gate.                                    *)
Gate == INSTANCE WorkerGate WITH admitted <- Admitted

ImplementsGate == Gate!Spec

(* Every queued job is eventually done with, whatever its class, unless    *)
(* the agent has gone into an upgrade or was restarted meanwhile.          *)
Settled(j) == status[j] \in Terminal \union {"gone"}

QueuedSettles ==
  \A j \in Jobs :
    status[j] = "queued" ~> Settled(j) \/ launches > 0 \/ restarts > 0

(* Whatever fails or restarts, no job is left waiting in the queue: no     *)
(* worker, lost or not, holds its slot or its VM for ever.                 *)
QueuedIsDispatched ==
  \A j \in Jobs : status[j] = "queued" ~> status[j] # "queued" \/ launches > 0

-----------------------------------------------------------------------------
(* The inductive invariant behind WithinLimit, SlotExclusion, AtMostOnce,  *)
(* WorkExclusion and ImplementsGate (JobQueue_proofs).                     *)

InPass      == dpc \notin {"idle", "count"}
Dispatching == dpc \in {"spawn", "claim", "register"}

(* The count kept by hand is never below the number of workers, counting   *)
(* the one being dispatched.                                               *)
CountInv ==
  /\ RunningCount <= MaxConcurrentJobs
  /\ InPass => RunningCount <= runningCount /\ runningCount <= MaxConcurrentJobs
  /\ Dispatching => RunningCount < runningCount

(* The slice of queued rows is never stale: only the dispatcher takes rows *)
(* out of the queue.  A row the monitor tracks has left it.                *)
QueueInv ==
  /\ todo \subseteq Queued
  /\ \A j \in Tracked : status[j] \notin {"absent", "queued"}
  /\ Dispatching => cur \in Jobs \ Tracked /\ cur \notin todo
  /\ dpc \in {"spawn", "claim"} => status[cur] = "queued"
  /\ dpc = "register" => status[cur] \notin {"absent", "queued"}
  /\ dpc \in {"claim", "register"} => curPid \in Pids

(* The check made when a row is visited still holds when it is registered. *)
ExclInv ==
  /\ \A j, k \in Tracked : j # k => ~Excludes(j, k)
  /\ Dispatching => \A k \in Tracked : ~Excludes(cur, k)

(* Before the first restart every live process is the one of a map entry,  *)
(* or the one being dispatched, which does nothing before its row runs.    *)
OwnedBy(p, j) == procJob[p] = j /\ workers[j] = p
BeingDispatched(p) ==
  dpc \in {"claim", "register"} /\ p = curPid /\ procJob[p] = cur

ProcInv ==
  restarts = 0 =>
    /\ \A p \in Pids : Alive(p) => (\E j \in Tracked : OwnedBy(p, j)) \/ BeingDispatched(p)
    /\ dpc = "claim" =>
         /\ \A p \in Pids : p = curPid => proc[p] \in {"free", "started"}
         /\ \A j \in Tracked : workers[j] # curPid

(* A job that waits, or whose process has not begun its task, has not been *)
(* carried out before.                                                     *)
RunsInv ==
  restarts = 0 =>
    /\ \A j \in Jobs : status[j] \in {"absent", "queued"} => runs[j] = 0
    /\ \A p \in Pids : proc[p] \in {"started", "connecting"} => runs[procJob[p]] = 0

IInv == TypeOK /\ CountInv /\ QueueInv /\ ExclInv /\ ProcInv /\ RunsInv

-----------------------------------------------------------------------------
(* What comments and documents say and the code does not do.               *)

(* classifier.go: a host write "blocks all writes"; LLM.md: "a host-write  *)
(* blocks everything".                                                     *)
HostWriteBlocksWrites ==
  \A j, k \in Admitted :
    Class(j) = "host_write" /\ j # k => Class(k) \notin {"write", "host_write"}

(* classifier.go: "Per-VM mutual exclusion"; LLM.md: "writes are mutually  *)
(* exclusive per VM".                                                      *)
VMExclusion ==
  \A p, q \in Pids :
    Executing(p) /\ Executing(q) /\ procJob[p] # procJob[q] =>
      ~SameVMWrites(Kind[procJob[p]], Kind[procJob[q]])

=============================================================================
