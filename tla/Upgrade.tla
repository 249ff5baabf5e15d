------------------------------ MODULE Upgrade ------------------------------
(***************************************************************************)
(* The self-upgrade of the agent.                                          *)
(*                                                                         *)
(* A worker process downloads the new binary beside the running one and    *)
(* leaves a file naming the task that waits for the result; the service    *)
(* drains and launches the new binary with the argument "upgrade"; that    *)
(* process stops the service, exchanges the binaries, starts the service   *)
(* again and watches the log for a sign of life, or rolls back.  Whichever *)
(* agent starts next tells the backend about the result.                   *)
(*                                                                         *)
(* Processes: the service (one at a time, booting or serving), one worker  *)
(* and one upgrade process per task, and the operator, who may stop and    *)
(* start the service at any time ("sc", host_restart_agent, a crash).      *)
(*                                                                         *)
(* Bounds: MaxFaults bounds the calls that fail and the processes that die *)
(* by themselves, MaxRestarts the operator's stops and starts.             *)
(***************************************************************************)
EXTENDS Integers

CONSTANTS
  Tasks,          \* requests for host_update_agent
  Versions,       \* agent binaries
  Target,         \* the version each task asks for
  Old,            \* the version installed at the beginning
  NoTask, NoBin,  \* null values
  LogVisible,     \* log_level is info or lower, log_file is <dir>/agent.log
  MaxFaults, MaxRestarts

ASSUME VersionAssumption == Target \in [Tasks -> Versions] /\ Old \in Versions

ASSUME NullAssumption == NoTask \notin Tasks /\ NoBin \notin Versions

ASSUME BoundAssumption ==
  LogVisible \in BOOLEAN /\ MaxFaults \in Nat /\ MaxRestarts \in Nat

VARIABLES
  \* --- the agent's directory ---
  disk,        \* ovc-agent.exe, its .bak and its .failed
  staged,      \* versions with a file ovc-agent-<version>.exe
  pending,     \* the task named by upgrade-pending.json
  broken,      \* versions that never get past config.Load on this host
  \* --- the service ---
  boot,        \* how far runAgent has come; "off" when no process runs
  svcBin,      \* the binary the process runs
  stopping,    \* a stop was requested
  confirming,  \* the pending response it has read and not yet published
  draining, drainers, watched,   \* drainMode, its goroutines, its workers
  \* --- workers and upgrade processes ---
  job,         \* the worker of each task
  upg,         \* the upgrade process of each task
  peeked,      \* the pending task it read before it began
  fresh,       \* the log has a start line that counts for it
  \* --- the backend's view, bounds ---
  upgraded, refused,   \* terminal answers published for each task
  faults, restarts

dirVars     == <<disk, staged, pending, broken>>
memVars     == <<confirming, draining, drainers, watched>>
svcVars     == <<boot, svcBin, stopping, memVars>>
upgVars     == <<upg, peeked, fresh>>
backendVars == <<upgraded, refused>>

vars == <<dirVars, svcVars, job, upgVars, backendVars, faults, restarts>>

-----------------------------------------------------------------------------
Slots == {"exe", "bak", "failed"}
Boots == {"off", "load", "cleanup", "log", "preflight", "pending", "confirm",
          "serving"}
JobStates == {"idle", "downloading", "placed", "recorded", "completed", "done"}
Steps == {"none", "peek", "check", "stop", "wait", "backup", "swap", "start",
          "unswap", "mark", "poll", "undostop", "undowait", "undofiles", "restart",
          "invalidate", "report", "done"}

Spend == faults < MaxFaults /\ faults' = faults + 1
Fault(failed) == IF failed THEN Spend ELSE UNCHANGED faults

(* What the service manager sees: Execute reports Running before runAgent  *)
(* has done anything, and StopPending until the process ends.              *)
IsRunning == boot # "off" /\ ~stopping
IsStopped == boot = "off"

Upgrading(t) == upg[t] \notin {"none", "done"}

(* A binary that a process runs can be renamed, not deleted or replaced.   *)
InUse(b) ==
  b # NoBin /\ (b = svcBin \/ \E t \in Tasks : Upgrading(t) /\ Target[t] = b)

(* os.Rename replaces its target and fails without a source.               *)
Rename(d, from, to) ==
  IF d[from] = NoBin \/ InUse(d[to]) THEN d
  ELSE [d EXCEPT ![to] = d[from], ![from] = NoBin]

Delete(d, slot) == IF InUse(d[slot]) THEN d ELSE [d EXCEPT ![slot] = NoBin]

-----------------------------------------------------------------------------
Init ==
  /\ disk = [s \in Slots |-> IF s = "exe" THEN Old ELSE NoBin]
  /\ staged = {} /\ pending = NoTask
  /\ broken \in SUBSET (Versions \ {Old})
  /\ boot = "serving" /\ svcBin = Old /\ stopping = FALSE
  /\ confirming = NoTask
  /\ draining = FALSE /\ drainers = {} /\ watched = {}
  /\ job = [t \in Tasks |-> "idle"]
  /\ upg = [t \in Tasks |-> "none"]
  /\ peeked = [t \in Tasks |-> NoTask]
  /\ fresh = [t \in Tasks |-> FALSE]
  /\ upgraded = [t \in Tasks |-> 0] /\ refused = [t \in Tasks |-> 0]
  /\ faults = 0 /\ restarts = 0

-----------------------------------------------------------------------------
(* The service: StartService, runAgent step by step, and its end.          *)

StartSvc ==
  /\ boot' = "load" /\ svcBin' = disk["exe"] /\ stopping' = FALSE
  /\ UNCHANGED memVars

EndSvc ==
  /\ boot' = "off" /\ svcBin' = NoBin /\ stopping' = FALSE
  /\ confirming' = NoTask
  /\ draining' = FALSE /\ drainers' = {} /\ watched' = {}

BootTo(next) == boot' = next /\ UNCHANGED <<svcBin, stopping, memVars>>

BootUnchanged == UNCHANGED <<job, upg, peeked, refused, restarts>>

(* config.Load: a broken version, or a configuration that became invalid   *)
(* (err), ends the process.                                                *)
BootLoadAfterCleanup(err) ==     \* Cleanup called before config.Load
  /\ boot = "load"
  /\ disk' = [disk EXCEPT !["bak"] = NoBin]
  /\ IF err \/ svcBin \in broken THEN EndSvc ELSE BootTo("log")
  /\ Fault(err)
  /\ UNCHANGED <<staged, pending, broken, fresh, upgraded>>
  /\ BootUnchanged

BootLoad(err) ==
  /\ boot = "load"
  /\ IF err \/ svcBin \in broken THEN EndSvc ELSE BootTo("cleanup")
  /\ Fault(err)
  /\ UNCHANGED <<dirVars, fresh, upgraded>>
  /\ BootUnchanged

(* Cleanup: .bak, .failed and every staged binary go, except what cannot   *)
(* be deleted; errors (kept) are only logged.                              *)
BootCleanup(kept) ==
  /\ boot = "cleanup"
  /\ disk' = [s \in Slots |->
                IF s = "exe" \/ s \in kept THEN disk[s] ELSE Delete(disk, s)[s]]
  /\ staged' = IF "staged" \in kept THEN staged ELSE {v \in staged : InUse(v)}
  /\ BootTo("log")
  /\ Fault(kept # {})
  /\ UNCHANGED <<pending, broken, fresh, upgraded>>
  /\ BootUnchanged

(* The line "starting ovc-agent" goes to the log.                          *)
BootLog ==
  /\ boot = "log"
  /\ fresh' = [t \in Tasks |-> fresh[t] \/ LogVisible]
  /\ BootTo("preflight")
  /\ UNCHANGED <<dirVars, upgraded, faults>>
  /\ BootUnchanged

(* The Hyper-V check, the job store, the broker and its queues.            *)
BootPreflight(err) ==
  /\ boot = "preflight"
  /\ IF err THEN EndSvc ELSE BootTo("pending")
  /\ Fault(err)
  /\ UNCHANGED <<dirVars, fresh, upgraded>>
  /\ BootUnchanged

(* ReadPendingResponse; the error of the removal is dropped.               *)
BootPendingKept(err) ==          \* peeked at instead of read
  /\ boot = "pending"
  /\ boot' = IF pending = NoTask THEN "serving" ELSE "confirm"
  /\ confirming' = pending
  /\ Fault(err)
  /\ UNCHANGED <<dirVars, svcBin, stopping, draining, drainers, watched>>
  /\ UNCHANGED <<fresh, upgraded>> /\ BootUnchanged

BootPending(err) ==
  /\ boot = "pending"
  /\ boot' = IF pending = NoTask THEN "serving" ELSE "confirm"
  /\ confirming' = pending
  /\ pending' = IF err THEN pending ELSE NoTask
  /\ Fault(err)
  /\ UNCHANGED <<disk, staged, broken, svcBin, stopping, draining, drainers, watched>>
  /\ UNCHANGED <<fresh, upgraded>> /\ BootUnchanged

(* "upgraded: true" for the pending task; a failed publish is only logged. *)
BootConfirm(err) ==
  /\ boot = "confirm"
  /\ upgraded' = IF err THEN upgraded ELSE [upgraded EXCEPT ![confirming] = @ + 1]
  /\ boot' = "serving" /\ confirming' = NoTask
  /\ Fault(err)
  /\ UNCHANGED <<dirVars, svcBin, stopping, draining, drainers, watched, fresh>>
  /\ BootUnchanged

(* A requested stop takes effect, at the latest after 30 s.                *)
SvcStops ==
  /\ boot # "off" /\ stopping
  /\ EndSvc
  /\ UNCHANGED <<dirVars, fresh, upgraded, faults>>
  /\ BootUnchanged

Boot ==
  \/ \E err \in BOOLEAN :
       BootLoad(err) \/ BootPreflight(err) \/ BootPending(err) \/ BootConfirm(err)
  \/ \E kept \in SUBSET {"bak", "failed", "staged"} : BootCleanup(kept)
  \/ BootLog
  \/ SvcStops

(* The operator, or a crash (killed).                                      *)
OperatorStops(killed) ==
  /\ IsRunning /\ restarts < MaxRestarts
  /\ restarts' = restarts + 1
  /\ IF killed
       THEN EndSvc
       ELSE stopping' = TRUE /\ UNCHANGED <<boot, svcBin, memVars>>
  /\ UNCHANGED <<dirVars, job, upgVars, backendVars, faults>>

OperatorStarts ==
  /\ IsStopped /\ disk["exe"] # NoBin /\ restarts < MaxRestarts
  /\ restarts' = restarts + 1
  /\ StartSvc
  /\ UNCHANGED <<dirVars, job, upgVars, backendVars, faults>>

-----------------------------------------------------------------------------
(* The worker of a task: handleAgentUpgrade.                               *)

Refuse(t) == refused' = [refused EXCEPT ![t] = @ + 1]
JobTo(t, state) == job' = [job EXCEPT ![t] = state]

WorkUnchanged ==
  UNCHANGED <<disk, broken, boot, svcBin, stopping, confirming, draining,
              drainers, upgVars, upgraded, restarts>>

(* The dispatcher starts a worker; the version it already has is refused.  *)
(* HasConflict rejects a request while another one is queued or running.   *)
Working == {t \in Tasks : job[t] \in {"downloading", "placed", "recorded"}}

(* The dispatcher's loop runs from before the pending response is read.    *)
StartJob(t) ==
  /\ job[t] = "idle" /\ Working = {}
  /\ boot \in {"pending", "confirm", "serving"} /\ ~stopping /\ ~draining
  /\ IF Target[t] = svcBin
       THEN JobTo(t, "done") /\ Refuse(t) /\ UNCHANGED watched
       ELSE JobTo(t, "downloading") /\ watched' = watched \union {t} /\ UNCHANGED refused
  /\ UNCHANGED <<staged, pending, faults>>
  /\ WorkUnchanged

(* Download, disk space, checksum or placement fails.                      *)
DownloadFails(t) ==
  /\ job[t] = "downloading"
  /\ JobTo(t, "done") /\ Refuse(t)
  /\ watched' = watched \ {t}
  /\ Spend
  /\ UNCHANGED <<staged, pending>>
  /\ WorkUnchanged

PlaceBinary(t) ==
  /\ job[t] = "downloading"
  /\ JobTo(t, "placed")
  /\ staged' = staged \union {Target[t]}
  /\ UNCHANGED <<pending, watched, refused, faults>>
  /\ WorkUnchanged

(* An error of WritePendingResponse is only logged.                        *)
WritePending(t, err) ==
  /\ job[t] = "placed"
  /\ JobTo(t, "recorded")
  /\ pending' = IF err THEN pending ELSE t
  /\ Fault(err)
  /\ UNCHANGED <<staged, watched, refused>>
  /\ WorkUnchanged

FinishJob(t) ==
  /\ job[t] = "recorded"
  /\ JobTo(t, "completed")
  /\ UNCHANGED <<staged, pending, watched, refused, faults>>
  /\ WorkUnchanged

(* The worker dies; the service that watches it reports the failure.       *)
WorkerDies(t) ==
  /\ t \in Working
  /\ JobTo(t, "done")
  /\ IF t \in watched THEN Refuse(t) ELSE UNCHANGED refused
  /\ watched' = watched \ {t}
  /\ Spend
  /\ UNCHANGED <<staged, pending>>
  /\ WorkUnchanged

Work(t) ==
  \/ PlaceBinary(t) \/ FinishJob(t)
  \/ \E err \in BOOLEAN : WritePending(t, err)

-----------------------------------------------------------------------------
(* Drain mode.                                                             *)

(* onJobCompleted (the row may be unreadable: err) and EnterDrainMode; a   *)
(* worker that outlived its service is watched by nobody.                  *)
EnterDrainMode(t, err) ==
  /\ job[t] = "completed" /\ t \in watched
  /\ JobTo(t, "done")
  /\ watched' = watched \ {t}
  /\ IF err
       THEN UNCHANGED <<draining, drainers>>
       ELSE draining' = TRUE /\ drainers' = drainers \union {t}
  /\ Fault(err)
  /\ UNCHANGED <<dirVars, boot, svcBin, stopping, confirming, upgVars,
                 backendVars, restarts>>

(* launchUpgrade, when no worker is watched or after 30 minutes (a fault): *)
(* it fails if the staged binary is gone, and then drain mode ends.  Drain *)
(* mode goes on after a successful launch.                                 *)
LaunchUpgrade(t, err) ==
  /\ t \in drainers
  /\ drainers' = drainers \ {t}
  /\ IF err \/ Target[t] \notin staged
       THEN draining' = FALSE /\ UNCHANGED upg
       ELSE upg' = [upg EXCEPT ![t] = "peek"] /\ UNCHANGED draining
  /\ Fault(err \/ watched # {})
  /\ UNCHANGED <<dirVars, boot, svcBin, stopping, confirming, watched, job,
                 peeked, fresh, backendVars, restarts>>

-----------------------------------------------------------------------------
(* The upgrade process: handleCommand("upgrade") and upgrade.Run.          *)

Goto(t, step) == upg' = [upg EXCEPT ![t] = step]

UpgUnchanged == UNCHANGED <<broken, job, upgraded, restarts>>
FilesUnchanged == UNCHANGED <<disk, staged, pending>>

Peek(t) ==
  /\ upg[t] = "peek"
  /\ Goto(t, "check")
  /\ peeked' = [peeked EXCEPT ![t] = pending]
  /\ UNCHANGED <<svcVars, fresh, refused, faults>>
  /\ FilesUnchanged /\ UpgUnchanged

(* Steps 1 and 2: the service runs and the directory is writable.          *)
Check(t, err) ==
  /\ upg[t] = "check"
  /\ Goto(t, IF IsRunning /\ ~err THEN "stop" ELSE "report")
  /\ Fault(err)
  /\ UNCHANGED <<svcVars, peeked, fresh, refused>>
  /\ FilesUnchanged /\ UpgUnchanged

(* Step 3: only a running service accepts a stop.                          *)
SendStop(t, err) ==
  /\ upg[t] = "stop"
  /\ Goto(t, IF IsRunning /\ ~err THEN "wait" ELSE "report")
  /\ stopping' = (stopping \/ (IsRunning /\ ~err))
  /\ Fault(err)
  /\ UNCHANGED <<boot, svcBin, memVars, peeked, fresh, refused>>
  /\ FilesUnchanged /\ UpgUnchanged

(* Step 4.  The wait times out when somebody started the service again, or *)
(* when the stop takes too long (a fault).                                 *)
AwaitStop(t) ==
  /\ upg[t] = "wait"
  /\ Goto(t, IF IsStopped THEN "backup" ELSE "report")
  /\ Fault(stopping)
  /\ UNCHANGED <<svcVars, peeked, fresh, refused>>
  /\ FilesUnchanged /\ UpgUnchanged

(* Step 5: an old backup is deleted, then the binary becomes the backup.   *)
BackUp(t) ==
  /\ upg[t] = "backup"
  /\ ~InUse(disk["bak"]) /\ disk["exe"] # NoBin
  /\ disk' = Rename(disk, "exe", "bak")
  /\ Goto(t, "swap")
  /\ UNCHANGED <<staged, pending, svcVars, peeked, fresh, refused, faults>>
  /\ UpgUnchanged

(* The deletion fails (nothing happened yet), or the rename does.          *)
BackUpFails(t, deleted) ==
  /\ upg[t] = "backup"
  /\ disk' = IF deleted THEN Delete(disk, "bak") ELSE disk
  /\ Goto(t, "report")
  /\ Fault(~InUse(disk["bak"]) /\ disk["exe"] # NoBin)
  /\ UNCHANGED <<staged, pending, svcVars, peeked, fresh, refused>>
  /\ UpgUnchanged

(* Step 6: the process renames its own binary into place, or restores.     *)
Swap(t, moved, restored) ==
  /\ upg[t] = "swap"
  /\ IF Target[t] \in staged /\ moved
       THEN /\ disk' = [disk EXCEPT !["exe"] = Target[t]]
            /\ staged' = staged \ {Target[t]}
            /\ Goto(t, "start")
       ELSE /\ disk' = IF restored THEN Rename(disk, "bak", "exe") ELSE disk
            /\ Goto(t, "invalidate") /\ UNCHANGED staged
  /\ Fault(~moved \/ ~restored)
  /\ UNCHANGED <<pending, svcVars, peeked, fresh, refused>>
  /\ UpgUnchanged

(* Step 7: the new service is started.                                     *)
StartNew(t, err) ==
  /\ upg[t] = "start"
  /\ IF IsStopped /\ disk["exe"] # NoBin /\ ~err
       THEN Goto(t, "mark") /\ StartSvc
       ELSE Goto(t, "unswap") /\ UNCHANGED svcVars
  /\ Fault(err)
  /\ UNCHANGED <<peeked, fresh, refused>>
  /\ FilesUnchanged /\ UpgUnchanged

(* Rollback of step 7: the new binary goes back to its staged name (moved) *)
(* and the backup returns (restored); either rename may fail.              *)
Unswap(t, moved, restored) ==
  /\ upg[t] = "unswap"
  /\ LET there == IF moved THEN [disk EXCEPT !["exe"] = NoBin] ELSE disk
     IN  disk' = IF restored THEN Rename(there, "bak", "exe") ELSE there
  /\ staged' = IF moved THEN staged \union ({disk["exe"]} \ {NoBin}) ELSE staged
  /\ Goto(t, "restart")
  /\ Fault(~moved \/ ~restored)
  /\ UNCHANGED <<pending, svcVars, peeked, fresh, refused>>
  /\ UpgUnchanged

(* Step 8: startTime is taken, so older lines no longer count; then the    *)
(* log is polled for 30 s.                                                 *)
MarkKeepsLines(t) ==             \* no timestamp compared
  /\ upg[t] = "mark"
  /\ Goto(t, "poll")
  /\ UNCHANGED <<svcVars, peeked, fresh, refused, faults>>
  /\ FilesUnchanged /\ UpgUnchanged

Mark(t) ==
  /\ upg[t] = "mark"
  /\ fresh' = [fresh EXCEPT ![t] = FALSE]
  /\ Goto(t, "poll")
  /\ UNCHANGED <<svcVars, peeked, refused, faults>>
  /\ FilesUnchanged /\ UpgUnchanged

Confirmed(t) ==
  /\ upg[t] = "poll" /\ fresh[t]
  /\ Goto(t, "done")
  /\ UNCHANGED <<svcVars, peeked, fresh, refused, faults>>
  /\ FilesUnchanged /\ UpgUnchanged

(* No line: none will come any more, or the agent is slow (a fault).       *)
LineMayCome == LogVisible /\ boot \in {"load", "cleanup", "log"} /\ svcBin \notin broken

PollTimesOut(t) ==
  /\ upg[t] = "poll" /\ ~fresh[t]
  /\ Goto(t, "undostop")
  /\ Fault(LineMayCome)
  /\ UNCHANGED <<svcVars, peeked, fresh, refused>>
  /\ FilesUnchanged /\ UpgUnchanged

(* Rollback of step 8: stop, wait up to 30 s, change the binaries back,    *)
(* restart; no error is looked at.                                         *)
UndoStop(t, err) ==
  /\ upg[t] = "undostop"
  /\ stopping' = (stopping \/ (IsRunning /\ ~err))
  /\ Goto(t, "undowait")
  /\ Fault(err)
  /\ UNCHANGED <<boot, svcBin, memVars, peeked, fresh, refused>>
  /\ FilesUnchanged /\ UpgUnchanged

UndoWait(t) ==
  /\ upg[t] = "undowait"
  /\ Goto(t, "undofiles")
  /\ Fault(stopping)
  /\ UNCHANGED <<svcVars, peeked, fresh, refused>>
  /\ FilesUnchanged /\ UpgUnchanged

UndoFilesSwapped(t, moved, restored) ==   \* the backup first
  /\ upg[t] = "undofiles"
  /\ LET there == IF restored THEN Rename(disk, "bak", "exe") ELSE disk
     IN  disk' = IF moved THEN Rename(there, "exe", "failed") ELSE there
  /\ Goto(t, "restart")
  /\ Fault(~moved \/ ~restored)
  /\ UNCHANGED <<staged, pending, svcVars, peeked, fresh, refused>>
  /\ UpgUnchanged

UndoFiles(t, moved, restored) ==
  /\ upg[t] = "undofiles"
  /\ LET there == IF moved THEN Rename(disk, "exe", "failed") ELSE disk
     IN  disk' = IF restored THEN Rename(there, "bak", "exe") ELSE there
  /\ Goto(t, "restart")
  /\ Fault(~moved \/ ~restored)
  /\ UNCHANGED <<staged, pending, svcVars, peeked, fresh, refused>>
  /\ UpgUnchanged

RestartBlindly(t, err) ==        \* whether there is a file to run or not
  /\ upg[t] = "restart"
  /\ IF IsStopped /\ ~err THEN StartSvc ELSE UNCHANGED svcVars
  /\ Goto(t, "invalidate")
  /\ Fault(err)
  /\ UNCHANGED <<peeked, fresh, refused>>
  /\ FilesUnchanged /\ UpgUnchanged

Restart(t, err) ==
  /\ upg[t] = "restart"
  /\ IF IsStopped /\ disk["exe"] # NoBin /\ ~err THEN StartSvc ELSE UNCHANGED svcVars
  /\ Goto(t, "invalidate")
  /\ Fault(err)
  /\ UNCHANGED <<peeked, fresh, refused>>
  /\ FilesUnchanged /\ UpgUnchanged

(* invalidatePendingResponse.                                              *)
Invalidate(t, err) ==
  /\ upg[t] = "invalidate"
  /\ pending' = IF err THEN pending ELSE NoTask
  /\ Goto(t, "report")
  /\ Fault(err)
  /\ UNCHANGED <<disk, staged, svcVars, peeked, fresh, refused>>
  /\ UpgUnchanged

(* publishUpgradeFailure for the task read before the upgrade began.       *)
ReportReadsFile(t, err) ==       \* the pending file read only now
  /\ upg[t] = "report"
  /\ IF pending = NoTask \/ err THEN UNCHANGED refused ELSE Refuse(pending)
  /\ Goto(t, "done")
  /\ Fault(err)
  /\ UNCHANGED <<svcVars, peeked, fresh>>
  /\ FilesUnchanged /\ UpgUnchanged

Report(t, err) ==
  /\ upg[t] = "report"
  /\ IF peeked[t] = NoTask \/ err THEN UNCHANGED refused ELSE Refuse(peeked[t])
  /\ Goto(t, "done")
  /\ Fault(err)
  /\ UNCHANGED <<svcVars, peeked, fresh>>
  /\ FilesUnchanged /\ UpgUnchanged

Step(t) ==
  \/ Peek(t) \/ AwaitStop(t) \/ BackUp(t) \/ Mark(t) \/ Confirmed(t)
  \/ PollTimesOut(t) \/ UndoWait(t)
  \/ \E err \in BOOLEAN :
       \/ Check(t, err) \/ SendStop(t, err) \/ StartNew(t, err)
       \/ UndoStop(t, err) \/ Restart(t, err) \/ Invalidate(t, err) \/ Report(t, err)
       \/ BackUpFails(t, err)
  \/ \E moved, restored \in BOOLEAN :
       \/ Swap(t, moved, restored) \/ Unswap(t, moved, restored)
       \/ UndoFiles(t, moved, restored)

(* The upgrade process is killed, or the machine is switched off.          *)
UpgradeDies(t) ==
  /\ Upgrading(t)
  /\ Goto(t, "done")
  /\ Spend
  /\ UNCHANGED <<svcVars, peeked, fresh, refused>>
  /\ FilesUnchanged /\ UpgUnchanged

-----------------------------------------------------------------------------
Next ==
  \/ Boot \/ OperatorStarts \/ \E killed \in BOOLEAN : OperatorStops(killed)
  \/ \E t \in Tasks :
       \/ StartJob(t) \/ DownloadFails(t) \/ WorkerDies(t) \/ Work(t)
       \/ \E err \in BOOLEAN : EnterDrainMode(t, err) \/ LaunchUpgrade(t, err)
       \/ Step(t) \/ UpgradeDies(t)

Spec == Init /\ [][Next]_vars

(***************************************************************************)
(* Fairness: a booting service, a worker, the drain goroutine and an       *)
(* upgrade process go on.  Nobody is obliged to start a stopped service.   *)
(***************************************************************************)
Fairness ==
  /\ WF_vars(Boot)
  /\ \A t \in Tasks :
       /\ WF_vars(Work(t))
       /\ WF_vars(\E err \in BOOLEAN : EnterDrainMode(t, err))
       /\ WF_vars(\E err \in BOOLEAN : LaunchUpgrade(t, err))
       /\ WF_vars(Step(t))

FairSpec == Spec /\ Fairness

-----------------------------------------------------------------------------
(* Properties.                                                             *)

Bins == Versions \union {NoBin}

(* Every variable stays in its range; a service that runs has a binary,    *)
(* and it holds a pending response exactly between reading and publishing. *)
TypeOK ==
  /\ disk \in [Slots -> Bins] /\ staged \subseteq Versions
  /\ pending \in Tasks \union {NoTask} /\ broken \subseteq Versions \ {Old}
  /\ boot \in Boots /\ svcBin \in Bins /\ stopping \in BOOLEAN
  /\ confirming \in Tasks \union {NoTask}
  /\ boot = "off" <=> svcBin = NoBin
  /\ boot = "confirm" <=> confirming # NoTask
  /\ draining \in BOOLEAN /\ drainers \subseteq Tasks /\ watched \subseteq Tasks
  /\ job \in [Tasks -> JobStates] /\ upg \in [Tasks -> Steps]
  /\ peeked \in [Tasks -> Tasks \union {NoTask}] /\ fresh \in [Tasks -> BOOLEAN]
  /\ upgraded \in [Tasks -> Nat] /\ refused \in [Tasks -> Nat]
  /\ faults \in 0 .. MaxFaults /\ restarts \in 0 .. MaxRestarts

(* Whatever fails, dies or is restarted in between, the directory always   *)
(* holds a binary that can start here, if only as .bak, .failed or staged. *)
WorkingBinaryOnDisk ==
  \E b \in Versions \ broken : b \in staged \/ \E s \in Slots : disk[s] = b

(* The upgrade process ends with success (checkLogForStartup found a line) *)
(* only if the new version starts on this host, whatever older boots have  *)
(* left in the log.                                                        *)
BrokenNeverConfirmed ==
  [][\A t \in Tasks :
       Target[t] \in broken =>
         ~(upg[t] = "poll" /\ upg'[t] = "done" /\ faults' = faults)]_vars

(* A success is reported once, however often the agent is started.         *)
ConfirmedOnce == faults = 0 => \A t \in Tasks : upgraded[t] <= 1

(* A staged upgrade gets its terminal answer, from the new agent or from   *)
(* the upgrade process, unless a call fails or somebody restarts things.   *)
Disturbed == faults > 0 \/ restarts > 0

UpgradeAnswered ==
  \A t \in Tasks :
    job[t] = "recorded" ~> upgraded[t] + refused[t] > 0 \/ Disturbed

(* A version that cannot start is rolled back, and the old agent serves    *)
(* again.                                                                  *)
RollbackRestores ==
  \A t \in Tasks :
    upg[t] = "start" /\ Target[t] \in broken ~>
      (boot = "serving" /\ svcBin = Old) \/ Disturbed

-----------------------------------------------------------------------------
(* What comments say and the code does not do.                             *)

(* invalidatePendingResponse: without it the old agent would "publish a    *)
(* false "upgraded: true" completion".                                     *)
NoFalseUpgraded ==
  [][\A t \in Tasks : upgraded'[t] # upgraded[t] => svcBin = Target[t]]_vars

=============================================================================
