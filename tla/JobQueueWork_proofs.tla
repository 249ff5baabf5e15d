------------------------- MODULE JobQueueWork_proofs -------------------------
(***************************************************************************)
(* What the worker processes do before the first restart of the service,   *)
(* for every instance: no two that exclude each other are at work, and no  *)
(* task is carried out twice.  Both rest on ProcInv: every live process is *)
(* known to the monitor or to the dispatcher.                              *)
(***************************************************************************)
EXTENDS JobQueue_proofs

(* No process appears, and none changes its job.                           *)
ProcsKept ==
  \A p \in Pids : Alive(p)' => Alive(p) /\ procJob'[p] = procJob[p]

(* No process that has not begun its task changes, except that it ends.    *)
NoneAdvances ==
  \A p \in Pids : proc'[p] # proc[p] =>
    \/ proc'[p] = "free"
    \/ proc[p] = "executing" /\ proc'[p] = "answering"

(* The end of a process brings none into being.                            *)
LEMMA ExitKeeps == ASSUME TypeOK, NEW p, Exit(p) PROVE ProcsKept /\ NoneAdvances
BY DEF TypeOK, Exit, ProcsKept, NoneAdvances, Alive

(* Nor does a step that leaves the processes alone.                        *)
LEMMA SameProcsKeep == UNCHANGED procVars => ProcsKept /\ NoneAdvances
BY DEF procVars, ProcsKept, NoneAdvances, Alive

(* The steps of everyone but the dispatcher and the workers.               *)
LEMMA OthersKeep ==
  ASSUME TypeOK, Intake \/ Monitor \/ Drain \/ Environment
  PROVE  ProcsKept /\ NoneAdvances /\ UNCHANGED runs
<1>1. CASE Intake
  <2>1. UNCHANGED <<procVars, runs>>
    BY <1>1 DEF Intake, Enqueue, RejectDuplicate, DropRequest, ScheduleRefresh,
       Purge, IntakeUnchanged
  <2>. QED  BY <2>1, SameProcsKeep
<1>2. CASE Monitor
  <2>1. UNCHANGED runs
    BY <1>2 DEF Monitor, KillTimedOut, HandleTermination, RunCallbacks, MonitorUnchanged
  <2>2. UNCHANGED procVars \/ \E j \in Jobs : Exit(workers[j])
    BY <1>2 DEF Monitor, KillTimedOut, HandleTermination, RunCallbacks
  <2>. QED  BY <2>1, <2>2, SameProcsKeep, ExitKeeps
<1>3. CASE Drain
  <2>1. UNCHANGED <<procVars, runs>>
    BY <1>3 DEF Drain, LaunchUpgrade, backendVars
  <2>. QED  BY <2>1, SameProcsKeep
<1>4. CASE Environment
  <2>1. ASSUME NEW p \in Pids, ProcessDies(p) PROVE Exit(p) /\ UNCHANGED runs
    BY <2>1 DEF ProcessDies
  <2>2. ASSUME NEW p \in Pids, NEW ok \in BOOLEAN, ExecuteTask(p, ok)
        PROVE  ProcsKept /\ NoneAdvances /\ UNCHANGED runs
    BY <2>2 DEF ExecuteTask, ProcsKept, NoneAdvances, Alive, TypeOK
  <2>3. ASSUME StopService \/ \E missed \in SUBSET Jobs : StartService(missed)
        PROVE  UNCHANGED <<procVars, runs>>
    BY <2>3 DEF StopService, StartService, backendVars
  <2>. QED  BY <1>4, <2>1, <2>2, <2>3, ExitKeeps, SameProcsKeep DEF Environment
<1>. QED  BY <1>1, <1>2, <1>3, <1>4

(* A worker ends, or goes on; it goes on from its first state only when its*)
(* row runs, and begins its task only from "connecting".                   *)
Begins(p) ==
  /\ proc[p] = "connecting" /\ proc' = [proc EXCEPT ![p] = "executing"]
  /\ runs' = [runs EXCEPT ![procJob[p]] = @ + 1]

GoesOn(p) ==
  /\ Alive(p) /\ UNCHANGED <<procJob, runs>>
  /\ \/ /\ proc[p] = "started" /\ status[procJob[p]] = "running"
        /\ proc' = [proc EXCEPT ![p] = "connecting"]
     \/ /\ proc[p] # "started"
        /\ \E s \in ProcStates \ {"free", "started", "connecting"} :
             proc' = [proc EXCEPT ![p] = s]

(* A step of a worker ends it or takes it forward.                         *)
LEMMA WorkerStep ==
  ASSUME TypeOK, NEW p \in Pids, Worker(p)
  PROVE  \/ Exit(p) /\ UNCHANGED runs
         \/ Begins(p) /\ UNCHANGED procJob
         \/ GoesOn(p)
<1>1. ASSUME NEW err \in BOOLEAN, ReadJob(p, err)
      PROVE  (Exit(p) /\ UNCHANGED runs) \/ GoesOn(p)
  <2>1. CASE err \/ ~MayRun(procJob[p])
    BY <1>1, <2>1 DEF ReadJob
  <2>2. CASE ~err /\ MayRun(procJob[p])
    BY <1>1, <2>2 DEF ReadJob, MayRun, Goto, GoesOn, Alive
  <2>. QED  BY <2>1, <2>2
<1>2. ASSUME NEW err \in BOOLEAN, Connect(p, err)
      PROVE  (Begins(p) /\ UNCHANGED procJob) \/ GoesOn(p)
  <2>1. CASE err
    BY <1>2, <2>1 DEF Connect, Goto, GoesOn, Alive, ProcStates
  <2>2. CASE ~err
    BY <1>2, <2>2 DEF Connect, Goto, Begins
  <2>. QED  BY <2>1, <2>2
<1>3. ASSUME NEW err \in BOOLEAN, RecordResult(p, err) \/ GiveUp(p, err)
      PROVE  Exit(p) /\ UNCHANGED runs
  BY <1>3 DEF RecordResult, GiveUp
<1>4. ASSUME AnswerConfirmed(p) \/ AnswerUnconfirmed(p) PROVE GoesOn(p)
  <2>1. /\ proc[p] = "answering" /\ UNCHANGED <<procJob, runs>>
        /\ \E s \in {"recording", "quitting"} : proc' = [proc EXCEPT ![p] = s]
    BY <1>4 DEF AnswerConfirmed, AnswerUnconfirmed, Goto
  <2>. QED  BY <2>1 DEF GoesOn, Alive, ProcStates
<1>. QED  BY <1>1, <1>2, <1>3, <1>4 DEF Worker

(* A worker keeps its job.                                                 *)
LEMMA WorkerKeeps == ASSUME TypeOK, NEW p \in Pids, Worker(p) PROVE ProcsKept
<1>1. CASE Exit(p)
  BY <1>1, ExitKeeps
<1>2. CASE Begins(p) /\ UNCHANGED procJob
  BY <1>2 DEF Begins, ProcsKept, Alive, TypeOK
<1>3. CASE GoesOn(p)
  BY <1>3 DEF GoesOn, ProcsKept, Alive, TypeOK
<1>. QED  BY <1>1, <1>2, <1>3, WorkerStep

(* Only the dispatcher's spawn brings a process into being.                *)
LEMMA DispatchKeeps ==
  ASSUME TypeOK, Dispatch, ~(\E p \in Pids : Spawn(p))
  PROVE  ProcsKept /\ NoneAdvances
<1>1. UNCHANGED procVars \/ Exit(curPid)
  BY DEF Dispatch, Evaluate, CountWorkers, CheckHostWrite, SnapshotWrites,
     ListQueued, VisitJob, EndPass, SpawnFails, Claim, ClaimFails, KillUnclaimed,
     Register
<1>. QED  BY <1>1, SameProcsKeep, ExitKeeps

(* The counter of restarts only grows.                                     *)
LEMMA FirstLife ==
  ASSUME TypeOK, [Next]_vars, restarts' = 0
  PROVE  restarts = 0 /\ ~StopService
<1>1. ~StopService
  BY DEF StopService, TypeOK
<1>. SUFFICES UNCHANGED restarts
  BY <1>1
<1>2. CASE Intake
  BY <1>2 DEF Intake, Enqueue, RejectDuplicate, DropRequest, ScheduleRefresh,
     Purge, IntakeUnchanged
<1>3. CASE Monitor
  BY <1>3 DEF Monitor, KillTimedOut, HandleTermination, RunCallbacks, MonitorUnchanged
<1>4. CASE Dispatch
  BY <1>4 DEF Dispatch, Evaluate, CountWorkers, CheckHostWrite, SnapshotWrites,
     ListQueued, VisitJob, EndPass, Spawn, SpawnFails, Claim, ClaimFails, Register,
     DispatcherUnchanged
<1>5. CASE Drain
  BY <1>5 DEF Drain, LaunchUpgrade
<1>6. CASE \E p \in Pids : Worker(p)
  BY <1>6 DEF Worker, ReadJob, Connect, RecordResult, GiveUp, AnswerConfirmed,
     AnswerUnconfirmed, WorkerUnchanged
<1>7. CASE Environment
  BY <1>1, <1>7 DEF Environment, ProcessDies, ExecuteTask, StartService, WorkerUnchanged
<1>8. CASE UNCHANGED vars
  BY <1>8 DEF vars, boundVars
<1>. QED  BY <1>1, <1>2, <1>3, <1>4, <1>5, <1>6, <1>7, <1>8 DEF Next

-----------------------------------------------------------------------------
(* Map entries disappear, and only when their process has ended.           *)
MapKept ==
  \A j \in Jobs : workers'[j] # workers[j] => workers'[j] = NoPid /\ ~Alive(workers[j])

(* Outside Register, entries only go with their process.                   *)
LEMMA NonDispatchKeepsMap ==
  ASSUME TypeOK, ~StopService,
         Intake \/ Monitor \/ Drain \/ (\E p \in Pids : Worker(p)) \/ Environment
  PROVE  UNCHANGED dispatchVars /\ MapKept
<1>1. CASE Monitor
  <2>1. UNCHANGED dispatchVars
    BY <1>1, MonitorQuiet DEF Quiet
  <2>2. ASSUME NEW j \in Jobs, KillTimedOut(j) \/ \E err \in BOOLEAN : RunCallbacks(j, err)
        PROVE  MapKept
    BY <2>2 DEF KillTimedOut, RunCallbacks, MapKept
  <2>3. ASSUME NEW j \in Jobs, NEW err \in BOOLEAN, HandleTermination(j, err)
        PROVE  MapKept
    BY <2>3 DEF HandleTermination, RemoveEntry, MapKept, TypeOK
  <2>. QED  BY <1>1, <2>1, <2>2, <2>3 DEF Monitor
<1>2. CASE Still
  BY <1>2 DEF Still, MapKept
<1>. QED  BY <1>1, <1>2, IntakeQuiet, DrainQuiet, WorkerQuiet, EnvironmentQuiet

(* The process being dispatched waits for its row.                         *)
LEMMA ClaimedWaits ==
  ASSUME DInv, ProcInv, restarts = 0, dpc = "claim", curPid \in Pids,
         NEW p \in Pids, Worker(p)
  PROVE  proc'[curPid] \in {"free", "started"}
<1>1. proc[curPid] \in {"free", "started"} /\ \A j \in Tracked : workers[j] # curPid
  BY DEF ProcInv
<1>2. TypeOK
  BY DEF DInv
<1>3. CASE Exit(p)
  BY <1>1, <1>2, <1>3 DEF Exit, TypeOK
<1>4. CASE Begins(p)
  BY <1>1, <1>2, <1>4 DEF Begins, TypeOK
<1>5. CASE GoesOn(p)
  <2>1. CASE p # curPid
    BY <1>1, <1>2, <1>5, <2>1 DEF GoesOn, TypeOK
  <2>2. CASE p = curPid
    <3>1. Alive(p) /\ status[procJob[p]] = "running"
      BY <1>1, <1>5, <2>2 DEF GoesOn, Alive
    <3>2. procJob[p] = cur
      BY <1>1, <2>2, <3>1 DEF ProcInv, OwnedBy, BeingDispatched
    <3>. QED  BY <3>1, <3>2 DEF DInv, QueueInv
  <2>. QED  BY <2>1, <2>2
<1>. QED  BY <1>2, <1>3, <1>4, <1>5, WorkerStep

(* ProcInv is preserved by everyone but the dispatcher.                    *)
LEMMA ProcNonDispatch ==
  ASSUME DInv, ProcInv, restarts = 0, ~StopService,
         Intake \/ Monitor \/ Drain \/ (\E p \in Pids : Worker(p)) \/ Environment
  PROVE  ProcInv'
<1>1. TypeOK
  BY DEF DInv
<1>2. UNCHANGED <<dpc, cur, curPid>> /\ MapKept /\ ProcsKept
  BY <1>1, NonDispatchKeepsMap, OthersKeep, WorkerKeeps DEF dispatchVars
<1>3. ASSUME NEW p \in Pids, Alive(p)'
      PROVE  (\E j \in Tracked' : OwnedBy(p, j)') \/ BeingDispatched(p)'
  <2>1. Alive(p) /\ procJob'[p] = procJob[p]
    BY <1>2, <1>3 DEF ProcsKept
  <2>2. CASE BeingDispatched(p)
    BY <1>2, <2>1, <2>2 DEF BeingDispatched
  <2>3. ASSUME NEW j \in Tracked, OwnedBy(p, j) PROVE j \in Tracked' /\ OwnedBy(p, j)'
    BY <1>2, <2>1, <2>3 DEF OwnedBy, MapKept, Tracked
  <2>. QED  BY <2>1, <2>2, <2>3 DEF ProcInv
<1>4. ASSUME dpc' = "claim"
      PROVE  /\ \A p \in Pids : p = curPid' => proc'[p] \in {"free", "started"}
             /\ \A j \in Tracked' : workers'[j] # curPid'
  <2>1. curPid \in Pids /\ curPid' = curPid /\ dpc = "claim"
    BY <1>2, <1>4 DEF DInv, QueueInv
  <2>2. proc[curPid] \in {"free", "started"} /\ \A j \in Tracked : workers[j] # curPid
    BY <2>1 DEF ProcInv
  <2>3. \A j \in Tracked' : workers'[j] # curPid
    BY <1>2, <2>1, <2>2, NullAssumption DEF MapKept, Tracked
  <2>4. CASE \E p \in Pids : Worker(p)
    BY <2>1, <2>3, <2>4, ClaimedWaits
  <2>5. CASE Intake \/ Monitor \/ Drain \/ Environment
    <3>1. NoneAdvances
      BY <1>1, <2>5, OthersKeep
    <3>. QED  BY <2>1, <2>2, <2>3, <3>1 DEF NoneAdvances
  <2>. QED  BY <2>4, <2>5
<1>. QED  BY <1>3, <1>4 DEF ProcInv

(* Dispatch steps before the claim, or that end one: no process is being   *)
(* dispatched, so each belongs to a map entry.                             *)
LEMMA OwnedStay ==
  ASSUME Tracked' = Tracked, UNCHANGED workers, ProcsKept,
         NEW p \in Pids, Alive(p)', Alive(p) => \E j \in Tracked : OwnedBy(p, j)
  PROVE  \E j \in Tracked' : OwnedBy(p, j)'
BY DEF ProcsKept, OwnedBy

(* ProcInv is preserved by the dispatcher.                                 *)
LEMMA ProcDispatch ==
  ASSUME DInv, ProcInv, restarts = 0, Dispatch PROVE ProcInv'
<1>1. TypeOK /\ QueueInv
  BY DEF DInv
<1>2. CASE Register
  <2>1. /\ dpc = "register" /\ dpc' = "loop" /\ cur \in Jobs \ Tracked
        /\ curPid \in Pids /\ UNCHANGED procVars
        /\ workers' = [workers EXCEPT ![cur] = curPid]
    BY <1>1, <1>2 DEF Register, QueueInv, Dispatching
  <2>2. \A j \in Tracked \union {cur} : j \in Tracked'
    BY <1>1, <2>1, NullAssumption DEF Tracked, TypeOK
  <2>3. ASSUME NEW p \in Pids, Alive(p)' PROVE \E j \in Tracked' : OwnedBy(p, j)'
    <3>1. Alive(p) /\ procJob' = procJob
      BY <2>1, <2>3 DEF Alive, procVars
    <3>2. CASE BeingDispatched(p)
      <4>. PICK j \in Jobs : j = cur
        BY <2>1
      <4>1. OwnedBy(p, j)'
        BY <1>1, <2>1, <3>1, <3>2 DEF BeingDispatched, OwnedBy, TypeOK
      <4>. QED  BY <2>2, <4>1
    <3>3. ASSUME NEW j \in Tracked, OwnedBy(p, j) PROVE OwnedBy(p, j)'
      BY <2>1, <3>1, <3>3 DEF OwnedBy, Tracked
    <3>. QED  BY <2>2, <3>1, <3>2, <3>3 DEF ProcInv
  <2>. QED  BY <2>1, <2>3 DEF ProcInv
<1>3. CASE ~Register
  <2>1. Tracked' = Tracked /\ UNCHANGED workers
    BY <1>3, DispatchKeepsWorkers DEF Dispatch, Evaluate, CountWorkers,
       CheckHostWrite, SnapshotWrites, ListQueued, VisitJob, EndPass, Spawn,
       SpawnFails, Claim, ClaimFails
  <2>2. ASSUME NEW p \in Pids, Spawn(p) PROVE ProcInv'
    <3>1. /\ dpc = "spawn" /\ dpc' = "claim" /\ curPid' = p /\ cur' = cur
          /\ ~Alive(p) /\ \A j \in Jobs : workers[j] # p
          /\ proc' = [proc EXCEPT ![p] = "started"]
          /\ procJob' = [procJob EXCEPT ![p] = cur]
      BY <2>2 DEF Spawn, Spawnable, passVars
    <3>2. ASSUME NEW q \in Pids \ {p}, Alive(q)' PROVE \E j \in Tracked' : OwnedBy(q, j)'
      <4>1. Alive(q) /\ procJob'[q] = procJob[q]
        BY <1>1, <3>1, <3>2 DEF Alive, TypeOK
      <4>2. \E j \in Tracked : OwnedBy(q, j)
        BY <3>1, <4>1 DEF ProcInv, BeingDispatched
      <4>. QED  BY <2>1, <4>1, <4>2 DEF OwnedBy
    <3>3. BeingDispatched(p)' /\ proc'[p] = "started"
      BY <1>1, <3>1 DEF BeingDispatched, TypeOK
    <3>4. \A j \in Tracked' : workers'[j] # curPid'
      BY <2>1, <3>1 DEF Tracked
    <3>. QED  BY <3>1, <3>2, <3>3, <3>4 DEF ProcInv
  <2>3. CASE Claim
    <3>1. /\ dpc = "claim" /\ dpc' = "register"
          /\ UNCHANGED <<cur, curPid, procVars>>
      BY <2>3 DEF Claim
    <3>. QED  BY <2>1, <3>1 DEF ProcInv, Alive, OwnedBy, BeingDispatched, procVars
  <2>4. CASE ~(\E p \in Pids : Spawn(p)) /\ ~Claim
    <3>1. ProcsKept
      BY <1>1, <2>4, DispatchKeeps
    <3>2. dpc' # "claim"
      <4>1. ASSUME NEW err \in BOOLEAN, ListQueued(err) PROVE dpc' # "claim"
        <5>1. CASE err
          BY <4>1, <5>1 DEF ListQueued, Return
        <5>2. CASE ~err
          BY <4>1, <5>2 DEF ListQueued
        <5>. QED  BY <5>1, <5>2
      <4>. QED
        BY <2>4, <4>1 DEF Dispatch, Evaluate, PassStart, CountWorkers,
           CheckHostWrite, SnapshotWrites, Return, VisitJob, EndPass, SpawnFails,
           ClaimFails, Register
    <3>3. ASSUME NEW p \in Pids, Alive(p)', Alive(p)
          PROVE  \E j \in Tracked : OwnedBy(p, j)
      <4>1. CASE ClaimFails
        BY <1>1, <3>3, <4>1 DEF ClaimFails, KillUnclaimed, Exit, Alive, TypeOK,
           ProcInv, BeingDispatched
      <4>2. CASE ~ClaimFails
        <5>1. dpc \notin {"claim", "register"}
          BY <1>3, <2>4, <4>2 DEF Dispatch, Evaluate, CountWorkers, CheckHostWrite,
             SnapshotWrites, ListQueued, VisitJob, EndPass, SpawnFails
        <5>. QED  BY <3>3, <5>1 DEF ProcInv, BeingDispatched
      <4>. QED  BY <4>1, <4>2
    <3>4. \A p \in Pids : Alive(p)' => \E j \in Tracked' : OwnedBy(p, j)'
      BY <2>1, <3>1, <3>3, OwnedStay
    <3>. QED  BY <3>2, <3>4 DEF ProcInv
  <2>. QED  BY <2>2, <2>3, <2>4
<1>. QED  BY <1>2, <1>3

(* ProcInv is preserved by every step.                                     *)
LEMMA ProcStep == ASSUME DInv, ProcInv, [Next]_vars PROVE ProcInv'
<1>. SUFFICES ASSUME restarts' = 0 PROVE ProcInv'
  BY DEF ProcInv
<1>1. restarts = 0 /\ ~StopService
  BY FirstLife DEF DInv
<1>2. CASE UNCHANGED vars
  BY <1>1, <1>2 DEF vars, dispatchVars, passVars, procVars, ProcInv, Alive, Tracked,
     OwnedBy, BeingDispatched
<1>3. CASE Next
  BY <1>1, <1>3, ProcDispatch, ProcNonDispatch DEF Next
<1>. QED  BY <1>2, <1>3

-----------------------------------------------------------------------------
(* Mutual exclusion of the work itself.                                    *)

(* A process at work is not the one whose row is still unclaimed, so its   *)
(* job is admitted.                                                        *)
LEMMA WorkFollows == DInv /\ ProcInv => WorkExclusion
<1>. SUFFICES ASSUME DInv, ProcInv, restarts = 0,
                     NEW p \in Pids, NEW q \in Pids, Working(p), Working(q), p # q
              PROVE  ~Excludes(procJob[p], procJob[q])
  BY DEF WorkExclusion
<1>1. \A r \in Pids : Working(r) =>
        \/ \E j \in Tracked : OwnedBy(r, j)
        \/ dpc = "register" /\ r = curPid /\ procJob[r] = cur
  BY DEF Working, ProcInv, Alive, BeingDispatched
<1>2. \A j, k \in Tracked : j # k => ~Excludes(j, k)
  BY DEF DInv, ExclInv
<1>3. dpc = "register" => \A k \in Tracked : ~Excludes(cur, k) /\ ~Excludes(k, cur)
  BY ExcludesSymmetric DEF DInv, ExclInv, Dispatching
<1>. QED  BY <1>1, <1>2, <1>3 DEF OwnedBy

(* Before a restart of the service two processes whose jobs exclude each   *)
(* other are never past the status check together, though a process lives  *)
(* on for a while after each of the steps that start and register it.      *)
THEOREM WorkExclusionKept == Spec => []WorkExclusion
<1>1. Init => ProcInv
  BY DEF Init, ProcInv, Alive
<1>2. DInv /\ ProcInv /\ [Next]_vars => ProcInv'
  BY ProcStep
<1>. QED  BY <1>1, <1>2, DispatcherInvariant, WorkFollows, PTL DEF Spec

-----------------------------------------------------------------------------
(* At most once.                                                           *)

Waiting(j) == status[j] \in {"absent", "queued"}

(* No row returns to the queue.                                            *)
LEMMA WaitingShrinks ==
  ASSUME DInv, [Next]_vars, NEW j \in Jobs, Waiting(j)' PROVE Waiting(j)
<1>1. TypeOK /\ QueueInv
  BY DEF DInv
<1>2. CASE QueueKept
  BY <1>2 DEF QueueKept, Waiting
<1>3. CASE Dispatch
  <2>1. CASE Claim
    BY <1>1, <2>1, ClaimStep DEF Waiting, TypeOK
  <2>2. CASE ~Claim
    BY <1>3, <2>2, DispatchKeepsRows DEF Waiting, rowVars
  <2>. QED  BY <2>1, <2>2
<1>4. CASE StopService
  BY <1>4 DEF StopService, storeVars, rowVars, Waiting
<1>5. CASE UNCHANGED vars
  BY <1>5 DEF vars, storeVars, rowVars, Waiting
<1>. QED
  BY <1>1, <1>2, <1>3, <1>4, <1>5, IntakeQuiet, MonitorQuiet, DrainQuiet, WorkerQuiet,
     EnvironmentQuiet DEF Next, Quiet

(* No two processes have the same job.                                     *)
LEMMA OneProcess ==
  ASSUME DInv, ProcInv, restarts = 0, NEW p \in Pids, NEW q \in Pids,
         Alive(p), Alive(q), procJob[p] = procJob[q]
  PROVE  p = q
BY DEF ProcInv, DInv, QueueInv, Dispatching, OwnedBy, BeingDispatched

(* RunsInv is preserved by every step.                                     *)
LEMMA RunsStep ==
  ASSUME DInv, ProcInv, RunsInv, AtMostOnce, [Next]_vars
  PROVE  RunsInv' /\ AtMostOnce'
<1>. SUFFICES ASSUME restarts' = 0 PROVE RunsInv' /\ AtMostOnce'
  BY DEF RunsInv, AtMostOnce
<1>1. restarts = 0 /\ TypeOK
  BY FirstLife DEF DInv
<1>2. /\ \A j \in Jobs : Waiting(j) => runs[j] = 0
      /\ \A j \in Jobs : runs[j] <= 1
      /\ \A p \in Pids : proc[p] \in {"started", "connecting"} => runs[procJob[p]] = 0
  BY <1>1 DEF RunsInv, AtMostOnce, Waiting
<1>3. SUFFICES
        /\ \A j \in Jobs : Waiting(j)' => runs'[j] = 0
        /\ \A j \in Jobs : runs'[j] <= 1
        /\ \A p \in Pids : proc'[p] \in {"started", "connecting"} => runs'[procJob'[p]] = 0
  BY <1>3 DEF RunsInv, AtMostOnce, Waiting
<1>4. ASSUME UNCHANGED runs,
             \A p \in Pids : proc'[p] \in {"started", "connecting"} =>
               \/ proc[p] \in {"started", "connecting"} /\ procJob'[p] = procJob[p]
               \/ procJob'[p] \in Jobs /\ Waiting(procJob'[p])
      PROVE  /\ \A j \in Jobs : Waiting(j)' => runs'[j] = 0
             /\ \A j \in Jobs : runs'[j] <= 1
             /\ \A p \in Pids : proc'[p] \in {"started", "connecting"} =>
                  runs'[procJob'[p]] = 0
  BY <1>2, <1>4, WaitingShrinks
<1>5. CASE ProcsKept /\ NoneAdvances /\ UNCHANGED runs
  BY <1>4, <1>5 DEF ProcsKept, NoneAdvances, Alive
<1>6. CASE Dispatch
  <2>1. UNCHANGED runs
    BY <1>6 DEF Dispatch, Evaluate, CountWorkers, CheckHostWrite, SnapshotWrites,
       ListQueued, VisitJob, EndPass, Spawn, SpawnFails, Claim, ClaimFails, Register,
       DispatcherUnchanged
  <2>2. ASSUME NEW p \in Pids, Spawn(p)
        PROVE  \A q \in Pids : proc'[q] \in {"started", "connecting"} =>
               \/ proc[q] \in {"started", "connecting"} /\ procJob'[q] = procJob[q]
               \/ procJob'[q] \in Jobs /\ Waiting(procJob'[q])
    <3>1. /\ cur \in Jobs /\ Waiting(cur)
          /\ proc' = [proc EXCEPT ![p] = "started"]
          /\ procJob' = [procJob EXCEPT ![p] = cur]
      BY <2>2 DEF Spawn, DInv, QueueInv, Dispatching, Waiting
    <3>. QED  BY <1>1, <3>1 DEF TypeOK
  <2>. QED  BY <1>1, <1>4, <1>5, <1>6, <2>1, <2>2, DispatchKeeps
<1>7. ASSUME NEW p \in Pids, Worker(p)
      PROVE  /\ \A j \in Jobs : Waiting(j)' => runs'[j] = 0
             /\ \A j \in Jobs : runs'[j] <= 1
             /\ \A q \in Pids : proc'[q] \in {"started", "connecting"} =>
                  runs'[procJob'[q]] = 0
  <2>1. CASE Exit(p) /\ UNCHANGED runs
    BY <1>1, <1>5, <2>1, ExitKeeps
  <2>2. CASE GoesOn(p)
    BY <1>1, <1>4, <2>2 DEF GoesOn, TypeOK
  <2>3. CASE Begins(p) /\ UNCHANGED procJob
    <3>1. /\ proc[p] = "connecting" /\ Alive(p)
          /\ proc' = [proc EXCEPT ![p] = "executing"]
          /\ runs' = [runs EXCEPT ![procJob[p]] = @ + 1]
          /\ procJob' = procJob
      BY <2>3 DEF Begins, Alive
    <3>2. runs[procJob[p]] = 0 /\ procJob[p] \in Jobs /\ ~Waiting(procJob[p])
      BY <1>1, <1>2, <3>1 DEF ProcInv, OwnedBy, BeingDispatched, DInv, QueueInv,
         Dispatching, Waiting, Tracked
    <3>3. \A j \in Jobs : runs'[j] = IF j = procJob[p] THEN 1 ELSE runs[j]
      BY <1>1, <3>1, <3>2 DEF TypeOK
    <3>4. \A j \in Jobs : Waiting(j)' => runs'[j] = 0
      BY <1>2, <3>2, <3>3, WaitingShrinks
    <3>5. \A j \in Jobs : runs'[j] <= 1
      BY <1>2, <3>3
    <3>6. ASSUME NEW q \in Pids, proc'[q] \in {"started", "connecting"}
          PROVE  runs'[procJob'[q]] = 0
      <4>1. q # p /\ proc[q] \in {"started", "connecting"} /\ Alive(q)
        BY <1>1, <3>1, <3>6 DEF TypeOK, Alive
      <4>2. procJob[q] # procJob[p]
        BY <1>1, <3>1, <4>1, OneProcess
      <4>3. procJob[q] \in Jobs
        BY <1>1, <4>1 DEF ProcInv, OwnedBy, BeingDispatched, DInv, QueueInv,
           Dispatching, Tracked
      <4>. QED  BY <1>2, <3>1, <3>3, <4>1, <4>2, <4>3
    <3>. QED  BY <3>4, <3>5, <3>6
  <2>. QED  BY <1>1, <1>7, <2>1, <2>2, <2>3, WorkerStep
<1>8. CASE UNCHANGED vars
  <2>1. UNCHANGED <<procVars, runs>>
    BY <1>8 DEF vars, backendVars
  <2>. QED  BY <1>5, <2>1, SameProcsKeep
<1>. QED  BY <1>1, <1>5, <1>6, <1>7, <1>8, OthersKeep DEF Next

(* In one service lifetime no task is started twice, although a job whose  *)
(* claim failed is spawned again: the first process was killed before its  *)
(* row was running, and a row is claimed once.                             *)
THEOREM AtMostOnceKept == Spec => []AtMostOnce
<1>1. Init => ProcInv /\ RunsInv /\ AtMostOnce
  BY DEF Init, ProcInv, RunsInv, AtMostOnce, Alive
<1>2. DInv /\ ProcInv /\ [Next]_vars => ProcInv'
  BY ProcStep
<1>3. DInv /\ ProcInv /\ RunsInv /\ AtMostOnce /\ [Next]_vars => RunsInv' /\ AtMostOnce'
  BY RunsStep
<1>. QED  BY <1>1, <1>2, <1>3, DispatcherInvariant, PTL DEF Spec

(* The inductive invariant that a run checks on a small instance.          *)
THEOREM InductiveInvariant == Spec => []IInv
<1>1. Init => ProcInv /\ RunsInv /\ AtMostOnce
  BY DEF Init, ProcInv, RunsInv, AtMostOnce, Alive
<1>2. DInv /\ ProcInv /\ [Next]_vars => ProcInv'
  BY ProcStep
<1>3. DInv /\ ProcInv /\ RunsInv /\ AtMostOnce /\ [Next]_vars => RunsInv' /\ AtMostOnce'
  BY RunsStep
<1>4. DInv /\ ProcInv /\ RunsInv => IInv
  BY DEF DInv, IInv
<1>. QED  BY <1>1, <1>2, <1>3, <1>4, DispatcherInvariant, PTL DEF Spec

=============================================================================
