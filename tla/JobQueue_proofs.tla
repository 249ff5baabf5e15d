--------------------------- MODULE JobQueue_proofs ---------------------------
(***************************************************************************)
(* The types and the safety of JobQueue, for every set of jobs, every      *)
(* assignment of kinds and every value of the bounds: TypeOK, the          *)
(* dispatcher's part of IInv, the slot limit, mutual exclusion, and the    *)
(* refinement of WorkerGate.                                               *)
(*                                                                         *)
(* Most actions are irrelevant to the dispatcher: they leave its locals    *)
(* alone, only remove map entries and take no row out of the queue         *)
(* (Quiet).  They are dealt with together; the dispatcher's own steps one  *)
(* by one.                                                                 *)
(***************************************************************************)
EXTENDS JobQueue, FiniteSetTheorems, TLAPS

-----------------------------------------------------------------------------
(* Types *)

(* Subsets of Jobs are finite, so their cardinality is a natural number.   *)
LEMMA JobCount ==
  ASSUME NEW S \in SUBSET Jobs
  PROVE  IsFiniteSet(S) /\ Cardinality(S) \in Nat
BY FiniteAssumption, FS_Subset, FS_CardinalityType

(* A duty of a step on the fault counter keeps it in its range.            *)
LEMMA FaultType ==
  ASSUME NEW b, Fault(b), faults \in 0 .. MaxFaults
  PROVE  faults' \in 0 .. MaxFaults
BY BoundAssumption DEF Fault, Spend

(* The initial state is well typed.                                        *)
LEMMA TypeInit == Init => TypeOK
<1>. SUFFICES ASSUME Init PROVE TypeOK
  OBVIOUS
<1>1. /\ status \in [Jobs -> Statuses]
      /\ workerPid \in [Jobs -> Pids \union {NoPid}]
      /\ createdAt \in [Jobs -> Nat]
  BY DEF Init, Statuses
<1>2. /\ workers \in [Jobs -> Pids \union {NoPid}]
      /\ callback \in [Jobs -> Callbacks]
      /\ runs \in [Jobs -> Nat]
  BY DEF Init, Callbacks
<1>3. /\ proc \in [Pids -> ProcStates]
      /\ procJob \in [Pids -> Jobs \union {NoJob}]
  BY DEF Init, ProcStates
<1>4. procOk \in [Pids -> BOOLEAN]
  BY DEF Init
<1>5. answers \in [Jobs -> SUBSET [from : {"intake", "worker", "service"},
                                  result : Terminal]]
  BY DEF Init
<1>6. restarts \in 0 .. MaxRestarts /\ faults \in 0 .. MaxFaults
  BY BoundAssumption DEF Init
<1>. QED
  BY <1>1, <1>2, <1>3, <1>4, <1>5, <1>6 DEF Init, TypeOK, PassStates

(* UpdateStatus writes statuses and pids.                                  *)
LEMMA UpdateType ==
  ASSUME TypeOK, NEW j, NEW from, NEW to \in Statuses, NEW err,
         NEW pid \in Pids \union {NoPid}, UpdateStatus(j, from, to, pid, err)
  PROVE  /\ status' \in [Jobs -> Statuses]
         /\ workerPid' \in [Jobs -> Pids \union {NoPid}]
BY DEF TypeOK, UpdateStatus, rowVars

(* The end of a process leaves the process table well typed.               *)
LEMMA ExitType ==
  ASSUME TypeOK, NEW p, Exit(p)
  PROVE  /\ proc' \in [Pids -> ProcStates]
         /\ procJob' \in [Pids -> Jobs \union {NoJob}]
         /\ procOk' \in [Pids -> BOOLEAN]
BY DEF TypeOK, Exit, ProcStates

(* So does a step of a process.                                            *)
LEMMA GotoType ==
  ASSUME TypeOK, NEW p, NEW s \in ProcStates, Goto(p, s)
  PROVE  /\ proc' \in [Pids -> ProcStates]
         /\ procJob' \in [Pids -> Jobs \union {NoJob}]
         /\ procOk' \in [Pids -> BOOLEAN]
BY DEF TypeOK, Goto, ProcStates

(* Answer records a known sender with a terminal result.                   *)
LEMMA AnswerType ==
  ASSUME TypeOK, NEW j, NEW f \in {"intake", "worker", "service"},
         NEW r \in Terminal, Answer(j, f, r)
  PROVE  answers' \in [Jobs -> SUBSET [from : {"intake", "worker", "service"},
                                       result : Terminal]]
<1>1. [from |-> f, result |-> r] \in [from : {"intake", "worker", "service"},
                                    result : Terminal]
  OBVIOUS
<1>. QED  BY <1>1 DEF TypeOK, Answer

(* Create inserts one queued row with the next rank.                       *)
LEMMA CreateType ==
  ASSUME TypeOK, NEW j, Create(j)
  PROVE  status' \in [Jobs -> Statuses] /\ createdAt' \in [Jobs -> Nat]
<1>1. 1 + Cardinality(Created) \in Nat
  BY JobCount DEF Created
<1>2. status' \in [Jobs -> Statuses]
  BY DEF TypeOK, Create, Statuses
<1>3. createdAt' \in [Jobs -> Nat]
  BY <1>1 DEF TypeOK, Create
<1>. QED  BY <1>2, <1>3

-----------------------------------------------------------------------------
(* The message loop, the scheduler and retention keep the types.           *)
LEMMA TypeIntake == ASSUME TypeOK, Intake PROVE TypeOK'
<1>. SUFFICES ASSUME NEW j \in Jobs,
                     \/ Enqueue(j) \/ RejectDuplicate(j) \/ DropRequest(j)
                     \/ ScheduleRefresh(j) \/ Purge(j)
              PROVE  TypeOK'
  BY DEF Intake
<1>. USE DEF IntakeUnchanged, drainVars, dispatchVars, passVars, procVars
<1>1. CASE Enqueue(j)
  BY <1>1, CreateType, FaultType DEF Enqueue, TypeOK
<1>2. CASE RejectDuplicate(j)
  <2>1. answers' \in [Jobs -> SUBSET [from : {"intake", "worker", "service"},
                                      result : Terminal]]
    BY <1>2, AnswerType DEF RejectDuplicate, Terminal
  <2>. QED  BY <1>2, <2>1 DEF RejectDuplicate, TypeOK, Statuses
<1>3. CASE DropRequest(j)
  <2>1. faults' \in 0 .. MaxFaults
    BY <1>3, BoundAssumption DEF DropRequest, Spend, TypeOK
  <2>. QED  BY <1>3, <2>1 DEF DropRequest, TypeOK, Statuses
<1>4. CASE ScheduleRefresh(j)
  BY <1>4, CreateType, FaultType DEF ScheduleRefresh, TypeOK
<1>5. CASE Purge(j)
  BY <1>5 DEF Purge, TypeOK, Statuses
<1>. QED  BY <1>1, <1>2, <1>3, <1>4, <1>5

-----------------------------------------------------------------------------
(* The RunLoop goroutine keeps the types.                                  *)
LEMMA TypeDispatch == ASSUME TypeOK, Dispatch PROVE TypeOK'
<1>. USE DEF DispatcherUnchanged, drainVars, passVars, procVars
<1>1. CASE Evaluate
  BY <1>1 DEF Evaluate, TypeOK, PassStart, PassStates
<1>2. CASE CountWorkers
  <2>1. RunningCount \in Nat
    BY JobCount DEF RunningCount, Tracked
  <2>. QED  BY <1>2, <2>1 DEF CountWorkers, TypeOK, PassStates
<1>3. CASE CheckHostWrite
  BY <1>3 DEF CheckHostWrite, HasRunningHostWrite, TypeOK, PassStates
<1>4. CASE SnapshotWrites
  BY <1>4 DEF SnapshotWrites, HasRunningWrite, TypeOK, PassStates
<1>5. CASE \E err \in BOOLEAN : ListQueued(err)
  <2>. PICK err \in BOOLEAN : ListQueued(err)
    BY <1>5
  <2>1. faults' \in 0 .. MaxFaults
    BY FaultType DEF ListQueued, TypeOK
  <2>2. CASE err
    <3>1. Return
      BY <2>2 DEF ListQueued
    <3>. QED  BY <2>1, <3>1 DEF ListQueued, Return, TypeOK, PassStates
  <2>3. CASE ~err
    <3>1. /\ dpc' = "loop" /\ todo' = Queued
          /\ UNCHANGED <<runningCount, hasRunningWrite, readsOnly>>
      BY <2>3 DEF ListQueued
    <3>. QED  BY <2>1, <3>1 DEF ListQueued, Queued, TypeOK, PassStates
  <2>. QED  BY <2>2, <2>3
<1>6. CASE \E j \in Jobs : VisitJob(j)
  <2>. PICK j \in Jobs : VisitJob(j)
    BY <1>6
  <2>1. CASE Eligible(j)
    <3>1. (hasRunningWrite \/ Class(j) = "host_write") \in BOOLEAN
      OBVIOUS
    <3>. QED  BY <2>1, <3>1 DEF VisitJob, TypeOK, PassStates
  <2>2. CASE ~Eligible(j)
    BY <2>2 DEF VisitJob, TypeOK, PassStates
  <2>. QED  BY <2>1, <2>2
<1>7. CASE EndPass
  BY <1>7 DEF EndPass, Return, TypeOK, PassStates
<1>8. CASE \E p \in Pids : Spawn(p)
  BY <1>8 DEF Spawn, TypeOK, PassStates, ProcStates
<1>9. CASE SpawnFails
  BY <1>9, FaultType DEF SpawnFails, TypeOK, PassStates
<1>10. CASE Claim
  <2>1. /\ status' \in [Jobs -> Statuses]
        /\ workerPid' \in [Jobs -> Pids \union {NoPid}]
    <3>1. "running" \in Statuses /\ curPid \in Pids \union {NoPid}
      BY DEF Statuses, TypeOK
    <3>. QED  BY <1>10, <3>1, UpdateType DEF Claim
  <2>. QED  BY <1>10, <2>1 DEF Claim, TypeOK, PassStates
<1>11. CASE ClaimFails
  <2>1. faults' \in 0 .. MaxFaults
    BY <1>11, FaultType DEF ClaimFails, TypeOK
  <2>. QED
    BY <1>11, <2>1, ExitType DEF ClaimFails, KillUnclaimed, TypeOK, PassStates
<1>12. CASE Register
  BY <1>12 DEF Register, TypeOK, PassStates
<1>. QED
  BY <1>1, <1>2, <1>3, <1>4, <1>5, <1>6, <1>7, <1>8, <1>9, <1>10, <1>11, <1>12
     DEF Dispatch

-----------------------------------------------------------------------------
(* So does the monitor.                                                    *)
LEMMA TypeMonitor == ASSUME TypeOK, Monitor PROVE TypeOK'
<1>. USE DEF MonitorUnchanged, drainVars, dispatchVars, passVars
<1>1. ASSUME NEW j \in Jobs, KillTimedOut(j) PROVE TypeOK'
  BY <1>1, ExitType DEF KillTimedOut, rowVars, TypeOK
<1>2. ASSUME NEW j \in Jobs, NEW err \in BOOLEAN, HandleTermination(j, err)
      PROVE  TypeOK'
  <2>1. status' \in [Jobs -> Statuses] /\ workerPid' \in [Jobs -> Pids \union {NoPid}]
    <3>1. CASE UNCHANGED rowVars
      BY <3>1 DEF TypeOK, rowVars
    <3>2. CASE FailRunningRow(j, err)
      BY <3>2, UpdateType DEF FailRunningRow, Statuses
    <3>. QED  BY <1>2, <3>1, <3>2 DEF HandleTermination, LeaveTerminalRow
  <2>2. callback' \in [Jobs -> Callbacks]
    BY <1>2 DEF HandleTermination, LeaveTerminalRow, FailRunningRow, Owe, TypeOK, Callbacks
  <2>3. workers' \in [Jobs -> Pids \union {NoPid}]
    BY <1>2 DEF HandleTermination, RemoveEntry, TypeOK
  <2>. QED
    BY <1>2, <2>1, <2>2, <2>3, FaultType DEF HandleTermination, procVars, TypeOK
<1>3. ASSUME NEW j \in Jobs, NEW err \in BOOLEAN, RunCallbacks(j, err)
      PROVE  TypeOK'
  <2>1. answers' \in [Jobs -> SUBSET [from : {"intake", "worker", "service"},
                                      result : Terminal]]
    BY <1>3, AnswerType DEF RunCallbacks, Terminal, TypeOK
  <2>2. drainMode' \in BOOLEAN /\ drainers' \in Nat
    <3>1. CASE StartsDrain(j) /\ ~err
      BY <1>3, <3>1 DEF RunCallbacks, TypeOK
    <3>2. CASE ~(StartsDrain(j) /\ ~err)
      BY <1>3, <3>2 DEF RunCallbacks, TypeOK
    <3>. QED  BY <3>1, <3>2
  <2>3. callback' \in [Jobs -> Callbacks]
    BY <1>3 DEF RunCallbacks, TypeOK, Callbacks
  <2>. QED
    BY <1>3, <2>1, <2>2, <2>3, FaultType DEF RunCallbacks, rowVars, procVars, TypeOK
<1>. QED
  BY <1>1, <1>2, <1>3 DEF Monitor

(* So does the drain goroutine.                                            *)
LEMMA TypeDrain == ASSUME TypeOK, Drain PROVE TypeOK'
<1>. SUFFICES ASSUME NEW forced \in BOOLEAN, NEW err \in BOOLEAN,
                     LaunchUpgrade(forced, err)
              PROVE  TypeOK'
  BY DEF Drain
<1>. USE DEF LaunchUpgrade, storeVars, rowVars, dispatchVars, passVars, procVars,
           backendVars
<1>1. faults' \in 0 .. MaxFaults
  BY FaultType DEF TypeOK
<1>2. drainers' \in Nat
  BY DEF TypeOK
<1>3. CASE err
  BY <1>1, <1>2, <1>3 DEF TypeOK
<1>4. CASE ~err
  BY <1>1, <1>2, <1>4 DEF TypeOK
<1>. QED  BY <1>3, <1>4

-----------------------------------------------------------------------------
(* So do the worker processes.                                             *)
LEMMA TypeWorker == ASSUME TypeOK, NEW p \in Pids, Worker(p) PROVE TypeOK'
<1>. USE DEF WorkerUnchanged, drainVars, dispatchVars, passVars
<1>1. ASSUME NEW err \in BOOLEAN, ReadJob(p, err) PROVE TypeOK'
  BY <1>1, ExitType, GotoType, FaultType DEF ReadJob, rowVars, TypeOK, ProcStates
<1>2. ASSUME NEW err \in BOOLEAN, Connect(p, err) PROVE TypeOK'
  <2>1. runs' \in [Jobs -> Nat]
    <3>1. CASE err
      BY <1>2, <3>1 DEF Connect, TypeOK
    <3>2. CASE ~err
      <4>1. runs' = [runs EXCEPT ![procJob[p]] = @ + 1]
        BY <1>2, <3>2 DEF Connect
      <4>2. runs \in [Jobs -> Nat]
        BY DEF TypeOK
      <4>. DEFINE x == procJob[p]
      <4>3. ASSUME NEW k \in Jobs PROVE runs'[k] \in Nat
        <5>1. CASE k = x
          BY <4>1, <4>2, <5>1
        <5>2. CASE k # x
          BY <4>1, <4>2, <5>2
        <5>. QED  BY <5>1, <5>2
      <4>4. runs' = [k \in Jobs |-> runs'[k]]
        BY <4>1, <4>2
      <4>. QED  BY <4>3, <4>4
    <3>. QED  BY <3>1, <3>2
  <2>. QED
    BY <1>2, <2>1, GotoType, FaultType DEF Connect, rowVars, TypeOK, ProcStates
<1>3. ASSUME NEW err \in BOOLEAN, RecordResult(p, err) PROVE TypeOK'
  BY <1>3, UpdateType, ExitType, FaultType DEF RecordResult, Result, TypeOK, Statuses
<1>4. ASSUME NEW err \in BOOLEAN, GiveUp(p, err) PROVE TypeOK'
  BY <1>4, UpdateType, ExitType, FaultType DEF GiveUp, TypeOK, Statuses
<1>5. ASSUME PublishResponse(p)
      PROVE  answers' \in [Jobs -> SUBSET [from : {"intake", "worker", "service"},
                                          result : Terminal]]
  <2>1. Result(p) \in Terminal
    BY DEF Result, Terminal
  <2>. QED  BY <1>5, <2>1, AnswerType DEF PublishResponse, TypeOK
<1>6. ASSUME AnswerConfirmed(p) PROVE TypeOK'
  BY <1>5, <1>6, GotoType DEF AnswerConfirmed, rowVars, TypeOK, ProcStates
<1>7. ASSUME AnswerUnconfirmed(p) PROVE TypeOK'
  <2>1. faults' \in 0 .. MaxFaults
    BY <1>7, BoundAssumption DEF AnswerUnconfirmed, Spend, TypeOK
  <2>. QED
    BY <1>5, <1>7, <2>1, GotoType DEF AnswerUnconfirmed, rowVars, TypeOK, ProcStates
<1>. QED
  BY <1>1, <1>2, <1>3, <1>4, <1>6, <1>7 DEF Worker

(* So do failing processes and restarts.                                   *)
LEMMA TypeEnvironment == ASSUME TypeOK, Environment PROVE TypeOK'
<1>. USE DEF WorkerUnchanged, drainVars, dispatchVars, passVars
<1>1. ASSUME NEW p \in Pids, ProcessDies(p) PROVE TypeOK'
  <2>1. faults' \in 0 .. MaxFaults
    BY <1>1, BoundAssumption DEF ProcessDies, Spend, TypeOK
  <2>. QED  BY <1>1, <2>1, ExitType DEF ProcessDies, rowVars, TypeOK
<1>2. ASSUME NEW p \in Pids, NEW ok \in BOOLEAN, ExecuteTask(p, ok) PROVE TypeOK'
  BY <1>2 DEF ExecuteTask, rowVars, TypeOK, ProcStates
<1>3. ASSUME StopService PROVE TypeOK'
  <2>1. restarts' \in 0 .. MaxRestarts
    BY <1>3, BoundAssumption DEF StopService, TypeOK
  <2>2. callback' \in [Jobs -> Callbacks] /\ workers' \in [Jobs -> Pids \union {NoPid}]
    BY <1>3 DEF StopService, Callbacks
  <2>. QED
    BY <1>3, <2>1, <2>2 DEF StopService, Return, storeVars, rowVars, procVars,
         backendVars, TypeOK, PassStates
<1>4. ASSUME NEW missed \in SUBSET Jobs, StartService(missed) PROVE TypeOK'
  <2>1. /\ status' \in [Jobs -> Statuses]
        /\ workerPid' \in [Jobs -> Pids \union {NoPid}]
    BY <1>4 DEF StartService, TypeOK, Statuses
  <2>. QED
    BY <1>4, <2>1, FaultType DEF StartService, procVars, backendVars, TypeOK
<1>. QED
  BY <1>1, <1>2, <1>3, <1>4 DEF Environment

(* Every step keeps the types.                                             *)
LEMMA TypeStep == TypeOK /\ [Next]_vars => TypeOK'
<1>. SUFFICES ASSUME TypeOK, [Next]_vars PROVE TypeOK'
  OBVIOUS
<1>1. CASE UNCHANGED vars
  BY <1>1 DEF vars, storeVars, rowVars, drainVars, dispatchVars, passVars,
       procVars, backendVars, boundVars, TypeOK
<1>. QED
  BY <1>1, TypeIntake, TypeDispatch, TypeMonitor, TypeDrain, TypeWorker,
     TypeEnvironment DEF Next

(* Every reachable state is well typed.                                    *)
THEOREM TypeCorrect == Spec => []TypeOK
BY TypeInit, TypeStep, PTL DEF Spec

-----------------------------------------------------------------------------
(* The dispatcher *)

QueueKept ==
  \A j \in Jobs :
    /\ status[j] = "queued" => status'[j] = "queued"
    /\ status[j] \notin {"absent", "queued"} => status'[j] \notin {"absent", "queued"}

Quiet == UNCHANGED dispatchVars /\ Tracked' \subseteq Tracked /\ QueueKept
Still == UNCHANGED <<dispatchVars, workers>>

(* UpdateStatus from "running" takes no row out of the queue.              *)
LEMMA UpdateKeepsQueue ==
  ASSUME TypeOK, NEW j, NEW to \in Terminal, NEW err, NEW pid,
         UpdateStatus(j, "running", to, pid, err)
  PROVE  QueueKept
BY DEF TypeOK, UpdateStatus, rowVars, QueueKept, Terminal

(* A step that writes no row takes none out of the queue.                  *)
LEMMA SameRowsKeepQueue == UNCHANGED rowVars => QueueKept
BY DEF rowVars, QueueKept

(* The message loop, the scheduler and retention only add queued rows or   *)
(* remove terminal ones.                                                   *)
LEMMA IntakeQuiet == ASSUME TypeOK, Intake PROVE Quiet /\ Still
<1>. SUFFICES ASSUME NEW j \in Jobs,
                     \/ Enqueue(j) \/ RejectDuplicate(j) \/ DropRequest(j)
                     \/ ScheduleRefresh(j) \/ Purge(j)
              PROVE  Quiet /\ Still
  BY DEF Intake
<1>1. UNCHANGED <<dispatchVars, workers>>
  BY DEF Enqueue, RejectDuplicate, DropRequest, ScheduleRefresh, Purge, IntakeUnchanged
<1>2. QueueKept
  BY DEF Enqueue, RejectDuplicate, DropRequest, ScheduleRefresh, Purge, Create,
       TypeOK, QueueKept, Terminal
<1>. QED  BY <1>1, <1>2 DEF Quiet, Still, Tracked

(* The monitor only frees slots and writes running rows.                   *)
LEMMA MonitorQuiet == ASSUME TypeOK, Monitor PROVE Quiet
<1>1. ASSUME NEW j \in Jobs, KillTimedOut(j) PROVE Quiet
  <2>1. UNCHANGED <<dispatchVars, workers, rowVars>>
    BY <1>1 DEF KillTimedOut, MonitorUnchanged
  <2>. QED  BY <2>1, SameRowsKeepQueue DEF Quiet, Tracked
<1>2. ASSUME NEW j \in Jobs, NEW err \in BOOLEAN, HandleTermination(j, err) PROVE Quiet
  <2>1. UNCHANGED dispatchVars
    BY <1>2 DEF HandleTermination, MonitorUnchanged
  <2>2. Tracked' \subseteq Tracked
    BY <1>2 DEF HandleTermination, RemoveEntry, Tracked, TypeOK
  <2>3. QueueKept
    <3>1. CASE UNCHANGED rowVars
      BY <3>1, SameRowsKeepQueue
    <3>2. CASE FailRunningRow(j, err)
      BY <3>2, UpdateKeepsQueue DEF FailRunningRow, Terminal
    <3>. QED  BY <1>2, <3>1, <3>2 DEF HandleTermination, LeaveTerminalRow
  <2>. QED  BY <2>1, <2>2, <2>3 DEF Quiet
<1>3. ASSUME NEW j \in Jobs, NEW err \in BOOLEAN, RunCallbacks(j, err) PROVE Quiet
  <2>1. UNCHANGED <<dispatchVars, workers, rowVars>>
    BY <1>3 DEF RunCallbacks, MonitorUnchanged
  <2>. QED  BY <2>1, SameRowsKeepQueue DEF Quiet, Tracked
<1>. QED  BY <1>1, <1>2, <1>3 DEF Monitor

(* The drain goroutine touches neither rows nor map.                       *)
LEMMA DrainQuiet == ASSUME TypeOK, Drain PROVE Quiet /\ Still
<1>1. UNCHANGED <<dispatchVars, workers, rowVars>>
  BY DEF Drain, LaunchUpgrade, storeVars
<1>. QED  BY <1>1, SameRowsKeepQueue DEF Quiet, Still, Tracked

(* A worker writes only its own running row.                               *)
LEMMA WorkerQuiet == ASSUME TypeOK, NEW p \in Pids, Worker(p) PROVE Quiet /\ Still
<1>1. UNCHANGED <<dispatchVars, workers>>
  BY DEF Worker, ReadJob, Connect, RecordResult, GiveUp, AnswerConfirmed,
       AnswerUnconfirmed, WorkerUnchanged
<1>2. QueueKept
  <2>1. CASE UNCHANGED rowVars
    BY <2>1, SameRowsKeepQueue
  <2>2. ASSUME NEW err \in BOOLEAN, RecordResult(p, err) PROVE QueueKept
    BY <2>2, UpdateKeepsQueue DEF RecordResult, Result, Terminal
  <2>3. ASSUME NEW err \in BOOLEAN, GiveUp(p, err) PROVE QueueKept
    BY <2>3, UpdateKeepsQueue DEF GiveUp, Terminal
  <2>. QED
    BY <2>1, <2>2, <2>3 DEF Worker, ReadJob, Connect, AnswerConfirmed, AnswerUnconfirmed
<1>. QED  BY <1>1, <1>2 DEF Quiet, Still, Tracked

(* Of the environment only StopService resets the dispatcher.              *)
LEMMA EnvironmentQuiet ==
  ASSUME TypeOK, Environment, ~StopService PROVE Quiet /\ Still
<1>1. ASSUME NEW p \in Pids, ProcessDies(p) PROVE Quiet /\ Still
  <2>1. UNCHANGED <<dispatchVars, workers, rowVars>>
    BY <1>1 DEF ProcessDies, WorkerUnchanged
  <2>. QED  BY <2>1, SameRowsKeepQueue DEF Quiet, Still, Tracked
<1>2. ASSUME NEW p \in Pids, NEW ok \in BOOLEAN, ExecuteTask(p, ok) PROVE Quiet /\ Still
  <2>1. UNCHANGED <<dispatchVars, workers, rowVars>>
    BY <1>2 DEF ExecuteTask, WorkerUnchanged
  <2>. QED  BY <2>1, SameRowsKeepQueue DEF Quiet, Still, Tracked
<1>3. ASSUME NEW missed \in SUBSET Jobs, StartService(missed) PROVE Quiet /\ Still
  <2>1. UNCHANGED <<dispatchVars, workers>>
    BY <1>3 DEF StartService
  <2>2. QueueKept
    BY <1>3 DEF StartService, Recovered, Running, QueueKept, TypeOK
  <2>. QED  BY <2>1, <2>2 DEF Quiet, Still, Tracked
<1>. QED  BY <1>1, <1>2, <1>3 DEF Environment

-----------------------------------------------------------------------------
(* The part of the invariant that concerns the dispatcher.                 *)
DInv == TypeOK /\ CountInv /\ QueueInv /\ ExclInv

(* The map has finitely many entries.                                      *)
LEMMA TrackedCount ==
  /\ Tracked \in SUBSET Jobs /\ Tracked' \in SUBSET Jobs
  /\ RunningCount \in Nat /\ RunningCount' \in Nat
BY JobCount DEF Tracked, RunningCount

(* Fewer entries, smaller count.                                           *)
LEMMA TrackedShrinks ==
  ASSUME Tracked' \subseteq Tracked PROVE RunningCount' <= RunningCount
BY TrackedCount, JobCount, FS_Subset DEF RunningCount

(* One new entry raises the count by one.                                  *)
LEMMA AddOne ==
  ASSUME NEW S, IsFiniteSet(S), NEW x
  PROVE  /\ IsFiniteSet(S \union {x})
         /\ Cardinality(S \union {x}) <= Cardinality(S) + 1
         /\ Cardinality(S \union {x}) \in Nat
<1>1. /\ IsFiniteSet(S \union {x})
      /\ Cardinality(S \union {x}) = IF x \in S THEN Cardinality(S)
                                                 ELSE Cardinality(S) + 1
  BY FS_AddElement
<1>2. Cardinality(S) \in Nat
  BY FS_CardinalityType
<1>. QED  BY <1>1, <1>2

(* Exclusion is symmetric, so one direction of a check is enough.          *)
LEMMA ExcludesSymmetric ==
  ASSUME NEW j, NEW k, Excludes(j, k) PROVE Excludes(k, j)
BY DEF Excludes, SameVMWrites

(* The invariant holds initially.                                          *)
LEMMA DispatcherInit == Init => CountInv /\ QueueInv /\ ExclInv
<1>. SUFFICES ASSUME Init PROVE CountInv /\ QueueInv /\ ExclInv
  OBVIOUS
<1>1. Tracked = {} /\ RunningCount = 0
  BY FS_EmptySet DEF Init, Tracked, RunningCount
<1>. QED
  BY <1>1, BoundAssumption DEF Init, CountInv, QueueInv, ExclInv, InPass, Dispatching

(* A quiet step preserves it.                                              *)
LEMMA QuietPreserves ==
  ASSUME DInv, Quiet PROVE CountInv' /\ QueueInv' /\ ExclInv'
<1>1. /\ UNCHANGED <<dpc, runningCount, todo, cur, curPid>>
      /\ Tracked' \subseteq Tracked
      /\ QueueKept
  BY DEF Quiet, dispatchVars, passVars
<1>2. CountInv'
  <2>1. RunningCount' <= RunningCount
    BY <1>1, TrackedShrinks
  <2>2. (InPass' <=> InPass) /\ (Dispatching' <=> Dispatching)
    BY <1>1 DEF Dispatching, InPass
  <2>. QED
    BY <1>1, <2>1, <2>2, TrackedCount, BoundAssumption DEF DInv, CountInv, TypeOK
<1>3. QueueInv'
  BY <1>1 DEF DInv, QueueInv, QueueKept, Dispatching, Queued, Tracked
<1>4. ExclInv'
  BY <1>1 DEF DInv, ExclInv, Excludes, Dispatching
<1>. QED  BY <1>2, <1>3, <1>4

(* The end of the service empties the map and ends the pass.               *)
LEMMA StopPreserves ==
  ASSUME DInv, StopService PROVE CountInv' /\ QueueInv' /\ ExclInv'
<1>1. Tracked' = {} /\ dpc' = "idle" /\ todo' = {}
  BY DEF StopService, Return, Tracked
<1>2. RunningCount' = 0
  BY <1>1, FS_EmptySet DEF RunningCount
<1>. QED
  BY <1>1, <1>2, BoundAssumption DEF CountInv, QueueInv, ExclInv, InPass, Dispatching

-----------------------------------------------------------------------------
(* The dispatcher's own steps.                                             *)

(* Until Register the map and the rows other than the claimed one stay.    *)
LEMMA DispatchKeepsWorkers ==
  ASSUME Dispatch, ~Register
  PROVE  Tracked' = Tracked /\ RunningCount' = RunningCount
BY DEF Dispatch, Register, Evaluate, CountWorkers, CheckHostWrite, SnapshotWrites,
     ListQueued, VisitJob, EndPass, Spawn, SpawnFails, Claim, ClaimFails,
     Tracked, RunningCount

(* Claim is the only step of the dispatcher that writes a row.             *)
LEMMA DispatchKeepsRows ==
  ASSUME Dispatch, ~Claim PROVE UNCHANGED rowVars
BY DEF Dispatch, Register, Evaluate, CountWorkers, CheckHostWrite, SnapshotWrites,
     ListQueued, VisitJob, EndPass, Spawn, SpawnFails, Claim, ClaimFails, rowVars

(* Claim takes exactly the current job out of the queue.                   *)
LEMMA ClaimStep ==
  ASSUME TypeOK, QueueInv, Claim
  PROVE  /\ cur \in Jobs /\ dpc' = "register"
         /\ UNCHANGED <<todo, cur, curPid, runningCount, workers>>
         /\ status' = [status EXCEPT ![cur] = "running"]
         /\ workerPid' = [workerPid EXCEPT ![cur] = curPid]
BY DEF Claim, UpdateStatus, QueueInv, Dispatching, passVars, TypeOK

(* The count kept by hand stays high enough.                               *)
LEMMA CountStep == ASSUME DInv, Dispatch PROVE CountInv'
<1>. USE TrackedCount, BoundAssumption DEF DInv, TypeOK, CountInv, InPass, Dispatching
<1>1. CASE ~Register
  <2>. Tracked' = Tracked /\ RunningCount' = RunningCount
    BY <1>1, DispatchKeepsWorkers
  <2>1. CASE Evaluate
    BY <2>1 DEF Evaluate, PassStart
  <2>2. CASE CountWorkers
    BY <2>2 DEF CountWorkers
  <2>3. CASE CheckHostWrite
    BY <2>3 DEF CheckHostWrite
  <2>4. CASE SnapshotWrites
    BY <2>4 DEF SnapshotWrites
  <2>5. CASE \E err \in BOOLEAN : ListQueued(err)
    <3>. PICK err \in BOOLEAN : ListQueued(err)
      BY <2>5
    <3>1. CASE err
      BY <3>1 DEF ListQueued, Return
    <3>2. CASE ~err
      BY <3>2 DEF ListQueued
    <3>. QED  BY <3>1, <3>2
  <2>6. CASE \E j \in Jobs : VisitJob(j)
    <3>1. /\ dpc = "loop" /\ runningCount < MaxConcurrentJobs
          /\ \/ dpc' = "spawn" /\ runningCount' = runningCount + 1
             \/ dpc' = dpc /\ runningCount' = runningCount
      BY <2>6 DEF VisitJob, SlotLeft
    <3>. QED  BY <3>1
  <2>7. CASE EndPass
    BY <2>7 DEF EndPass, Return
  <2>8. CASE \E p \in Pids : Spawn(p)
    BY <2>8 DEF Spawn, passVars
  <2>9. CASE SpawnFails
    BY <2>9 DEF SpawnFails, passVars
  <2>10. CASE Claim
    BY <2>10 DEF Claim, passVars
  <2>11. CASE ClaimFails
    BY <2>11 DEF ClaimFails, passVars
  <2>. QED
    BY <1>1, <2>1, <2>2, <2>3, <2>4, <2>5, <2>6, <2>7, <2>8, <2>9, <2>10, <2>11
       DEF Dispatch
<1>2. CASE Register
  <2>1. Tracked' \subseteq Tracked \union {cur}
    BY <1>2 DEF Register, Tracked
  <2>2. RunningCount' <= RunningCount + 1
    <3>1. IsFiniteSet(Tracked)
      BY JobCount, TrackedCount
    <3>2. /\ IsFiniteSet(Tracked \union {cur})
          /\ Cardinality(Tracked \union {cur}) <= Cardinality(Tracked) + 1
          /\ Cardinality(Tracked \union {cur}) \in Nat
      BY <3>1, AddOne
    <3>3. Cardinality(Tracked') <= Cardinality(Tracked \union {cur})
      BY <2>1, <3>2, FS_Subset
    <3>. QED  BY <3>2, <3>3 DEF RunningCount
  <2>3. dpc = "register" /\ dpc' = "loop" /\ runningCount' = runningCount
    BY <1>2 DEF Register, passVars
  <2>. QED  BY <2>2, <2>3
<1>. QED  BY <1>1, <1>2

(* The listed rows stay queued and the current job stays untracked.        *)
LEMMA QueueStep == ASSUME DInv, Dispatch PROVE QueueInv'
<1>. TypeOK /\ QueueInv /\ status \in [Jobs -> Statuses]
  BY DEF DInv, TypeOK
<1>. USE DEF QueueInv, Dispatching
<1>1. CASE Register
  <2>1. /\ cur \in Jobs /\ status[cur] \notin {"absent", "queued"}
        /\ dpc' = "loop" /\ UNCHANGED <<status, todo>>
    BY <1>1 DEF Register, passVars
  <2>2. Tracked' \subseteq Tracked \union {cur}
    BY <1>1 DEF Register, Tracked, TypeOK
  <2>. QED  BY <2>1, <2>2 DEF Queued
<1>2. CASE Claim
  <2>1. Tracked' = Tracked
    BY <1>2, DispatchKeepsWorkers DEF Claim, Register
  <2>2. /\ cur \in Jobs \ Tracked /\ cur \notin todo /\ dpc' = "register"
        /\ UNCHANGED <<todo, cur, curPid>> /\ curPid \in Pids
        /\ status' = [status EXCEPT ![cur] = "running"]
    BY <1>2, ClaimStep DEF Claim
  <2>3. todo \subseteq Queued'
    BY <2>2 DEF Queued
  <2>4. \A j \in Tracked : status'[j] \notin {"absent", "queued"}
    BY <2>2
  <2>. QED  BY <2>1, <2>2, <2>3, <2>4
<1>3. CASE ~Register /\ ~Claim
  <2>1. Tracked' = Tracked /\ UNCHANGED rowVars
    BY <1>3, DispatchKeepsWorkers, DispatchKeepsRows
  <2>2. UNCHANGED status /\ Queued' = Queued
    BY <2>1 DEF rowVars, Queued
  <2>3. CASE /\ UNCHANGED <<todo, cur>>
             /\ dpc' \notin {"spawn", "claim", "register"}
    BY <2>1, <2>2, <2>3
  <2>4. CASE \E err \in BOOLEAN : ListQueued(err)
    <3>. PICK err \in BOOLEAN : ListQueued(err)
      BY <2>4
    <3>1. CASE err
      BY <2>1, <2>2, <3>1 DEF ListQueued, Return
    <3>2. CASE ~err
      <4>1. dpc' = "loop" /\ todo' = Queued
        BY <3>2 DEF ListQueued
      <4>. QED  BY <2>1, <2>2, <4>1
    <3>. QED  BY <3>1, <3>2
  <2>5. ASSUME NEW j \in Jobs, VisitJob(j) PROVE QueueInv'
    <3>1. /\ j \in todo /\ todo' = todo \ {j}
          /\ dpc = "loop"
          /\ \/ dpc' = "spawn" /\ cur' = j
             \/ dpc' = "loop"
      BY <2>5 DEF VisitJob, Oldest
    <3>2. status[j] = "queued" /\ j \notin Tracked
      BY <3>1 DEF Queued
    <3>. QED  BY <2>1, <2>2, <3>1, <3>2
  <2>6. CASE EndPass
    BY <2>1, <2>2, <2>6 DEF EndPass, Return
  <2>7. CASE \E p \in Pids : Spawn(p)
    BY <2>1, <2>2, <2>7 DEF Spawn, passVars
  <2>8. CASE SpawnFails \/ ClaimFails
    BY <2>1, <2>2, <2>8 DEF SpawnFails, ClaimFails, passVars
  <2>9. CASE Evaluate \/ CountWorkers \/ CheckHostWrite \/ SnapshotWrites
    BY <2>3, <2>9 DEF Evaluate, PassStart, CountWorkers, CheckHostWrite,
         SnapshotWrites, passVars
  <2>. QED  BY <1>3, <2>4, <2>5, <2>6, <2>7, <2>8, <2>9 DEF Dispatch
<1>. QED  BY <1>1, <1>2, <1>3

(* The check of VisitJob still holds at Register.                          *)
LEMMA ExclStep == ASSUME DInv, Dispatch PROVE ExclInv'
<1>. TypeOK /\ ExclInv
  BY DEF DInv
<1>. USE DEF ExclInv, Dispatching
<1>1. CASE Register
  <2>1. dpc = "register" /\ dpc' = "loop" /\ Tracked' \subseteq Tracked \union {cur}
    BY <1>1 DEF Register, Tracked, TypeOK
  <2>2. \A j, k \in Tracked \union {cur} : j # k => ~Excludes(j, k)
    BY <2>1, ExcludesSymmetric
  <2>. QED  BY <2>1, <2>2
<1>2. CASE ~Register
  <2>1. Tracked' = Tracked
    BY <1>2, DispatchKeepsWorkers
  <2>2. ASSUME NEW j \in Jobs, VisitJob(j) PROVE ExclInv'
    <3>1. \/ dpc' = "loop"
          \/ dpc' = "spawn" /\ cur' = j /\ Eligible(j)
      BY <2>2 DEF VisitJob
    <3>2. ASSUME Eligible(j), NEW k \in Tracked PROVE ~Excludes(j, k)
      BY <3>2 DEF Eligible, Excludes, SameVMWrites, Class, HasRunningWriteForVM,
           HasRunningHostWrite
    <3>. QED  BY <2>1, <3>1, <3>2
  <2>3. ASSUME ~(\E j \in Jobs : VisitJob(j)), Dispatching'
        PROVE  Dispatching /\ cur' = cur
    <3>1. CASE \E err \in BOOLEAN : ListQueued(err)
      <4>. PICK err \in BOOLEAN : ListQueued(err)
        BY <3>1
      <4>1. CASE err
        BY <2>3, <4>1 DEF ListQueued, Return
      <4>2. CASE ~err
        BY <2>3, <4>2 DEF ListQueued
      <4>. QED  BY <4>1, <4>2
    <3>. QED
      BY <1>2, <2>3, <3>1 DEF Dispatch, Evaluate, PassStart, CountWorkers,
         CheckHostWrite, SnapshotWrites, Return, EndPass, Spawn, SpawnFails,
         Claim, ClaimFails
  <2>. QED  BY <2>1, <2>2, <2>3
<1>. QED  BY <1>1, <1>2

(* Every step of the system preserves the invariant.                       *)
LEMMA DispatcherStep == ASSUME DInv, [Next]_vars PROVE DInv'
<1>. TypeOK
  BY DEF DInv
<1>1. TypeOK'
  BY TypeStep
<1>2. CountInv' /\ QueueInv' /\ ExclInv'
  <2>1. CASE Quiet
    BY <2>1, QuietPreserves
  <2>2. CASE Dispatch
    BY <2>2, CountStep, QueueStep, ExclStep
  <2>3. CASE StopService
    BY <2>3, StopPreserves
  <2>4. CASE UNCHANGED vars
    <3>1. UNCHANGED <<dispatchVars, workers, rowVars>>
      BY <2>4 DEF vars, storeVars
    <3>. QED  BY <2>1, <3>1, SameRowsKeepQueue DEF Quiet, Tracked
  <2>. QED
    BY <2>1, <2>2, <2>3, <2>4, IntakeQuiet, MonitorQuiet, DrainQuiet, WorkerQuiet,
       EnvironmentQuiet DEF Next
<1>. QED  BY <1>1, <1>2 DEF DInv

(* The dispatcher part of the inductive invariant always holds.            *)
LEMMA DispatcherInvariant == Spec => []DInv
<1>1. Init => DInv
  BY TypeInit, DispatcherInit DEF DInv
<1>2. DInv /\ [Next]_vars => DInv'
  BY DispatcherStep
<1>. QED  BY <1>1, <1>2, PTL DEF Spec

-----------------------------------------------------------------------------
(* The slot limit and the exclusion of admitted jobs.                      *)

(* The slot limit follows from the count.                                  *)
LEMMA LimitFollows == DInv => WithinLimit
<1>. SUFFICES ASSUME DInv PROVE Cardinality(Admitted) <= MaxConcurrentJobs
  BY DEF WithinLimit
<1>1. IsFiniteSet(Tracked)
  BY JobCount, TrackedCount
<1>2. /\ RunningCount <= MaxConcurrentJobs
      /\ dpc = "register" => RunningCount + 1 <= MaxConcurrentJobs
  BY TrackedCount, BoundAssumption DEF DInv, CountInv, InPass, Dispatching, TypeOK
<1>3. CASE dpc = "register"
  <2>1. Cardinality(Tracked \union {cur}) <= Cardinality(Tracked) + 1
        /\ Cardinality(Tracked \union {cur}) \in Nat
    BY <1>1, AddOne
  <2>2. Admitted = Tracked \union {cur}
    BY <1>3 DEF Admitted
  <2>. QED
    BY <1>2, <1>3, <2>1, <2>2, TrackedCount, BoundAssumption DEF RunningCount
<1>4. CASE dpc # "register"
  BY <1>2, <1>4 DEF Admitted, RunningCount
<1>. QED  BY <1>3, <1>4

(* Never more workers than max_concurrent_jobs, whatever the number of     *)
(* jobs, processes, restarts and faults: EvaluateAndDispatch counts once   *)
(* per pass, and the count it then keeps by hand is high enough.           *)
THEOREM LimitKept == Spec => []WithinLimit
BY DispatcherInvariant, LimitFollows, PTL

(* The exclusion of slots follows from ExclInv.                            *)
LEMMA ExclusionFollows == DInv => SlotExclusion
BY ExcludesSymmetric DEF DInv, ExclInv, SlotExclusion, Admitted, Dispatching

(* Two writes of one VM, or two host writes, never hold slots together: no *)
(* worker is registered between VisitJob's check and its own registration. *)
THEOREM ExclusionKept == Spec => []SlotExclusion
BY DispatcherInvariant, ExclusionFollows, PTL

-----------------------------------------------------------------------------
(* The refinement of WorkerGate.                                           *)

(* Both modules mean the same by "excludes".                               *)
LEMMA SameExclusion == ASSUME NEW j, NEW k PROVE Gate!Excludes(j, k) <=> Excludes(j, k)
<1>1. \A kind : Gate!Classify(kind) = Classify(kind)
  BY DEF Gate!Classify, Classify, Gate!ReadTypes, ReadTypes, Gate!HostReads, HostReads
<1>. QED
  BY <1>1 DEF Gate!Excludes, Excludes, Gate!SameVMWrites, SameVMWrites, Class

(* The two copies of Cardinality agree.                                    *)
LEMMA SameCardinality == ASSUME NEW S PROVE Gate!Cardinality(S) = Cardinality(S)
BY Zenon DEF Gate!Cardinality, Cardinality

(* A claim is an admission that the gate allows.                           *)
LEMMA ClaimAdmits == ASSUME DInv, Claim PROVE Gate!Admit(cur)
<1>1. /\ dpc = "claim" /\ dpc' = "register" /\ cur' = cur
      /\ cur \in Jobs \ Tracked
  BY ClaimStep DEF Claim, DInv, QueueInv, Dispatching
<1>2. Tracked' = Tracked
  BY DispatchKeepsWorkers DEF Claim, Register, Dispatch
<1>3. Admitted = Tracked /\ Admitted' = Tracked \union {cur}
  BY <1>1, <1>2 DEF Admitted
<1>4. Cardinality(Tracked) < MaxConcurrentJobs
  BY <1>1, TrackedCount, BoundAssumption
     DEF DInv, TypeOK, CountInv, InPass, Dispatching, RunningCount
<1>5. \A k \in Tracked : ~Gate!Excludes(cur, k)
  BY <1>1, SameExclusion DEF DInv, ExclInv, Dispatching
<1>. QED  BY <1>1, <1>3, <1>4, <1>5, SameCardinality DEF Gate!Admit

(* The termination of a tracked worker is a release.                       *)
LEMMA TerminationReleases ==
  ASSUME DInv, NEW j \in Jobs, NEW err \in BOOLEAN, HandleTermination(j, err)
  PROVE  Gate!Release(j)
<1>1. j \in Tracked /\ UNCHANGED dispatchVars
  BY DEF HandleTermination, MonitorUnchanged
<1>2. Tracked' = Tracked \ {j}
  BY DEF HandleTermination, RemoveEntry, Tracked, DInv, TypeOK
<1>3. dpc = "register" => cur # j
  BY <1>1 DEF DInv, QueueInv, Dispatching
<1>. QED
  BY <1>1, <1>2, <1>3 DEF Gate!Release, Admitted, dispatchVars

(* The other steps of a pass leave the admitted jobs alone.                *)
LEMMA DispatchAway ==
  ASSUME Dispatch, ~Claim, ~Register PROVE dpc # "register" /\ dpc' # "register"
<1>1. ASSUME NEW err \in BOOLEAN, ListQueued(err) PROVE dpc # "register" /\ dpc' # "register"
  <2>1. CASE err
    BY <1>1, <2>1 DEF ListQueued, Return
  <2>2. CASE ~err
    BY <1>1, <2>2 DEF ListQueued
  <2>. QED  BY <2>1, <2>2
<1>. QED
  BY <1>1 DEF Dispatch, Evaluate, PassStart, CountWorkers, CheckHostWrite,
     SnapshotWrites, Return, VisitJob, EndPass, Spawn, SpawnFails, ClaimFails

(* Every step of the system is a step of the gate or a stutter.            *)
LEMMA GateStep == ASSUME DInv, DInv', [Next]_vars PROVE [Gate!Next]_Admitted
<1>. TypeOK
  BY DEF DInv
<1>1. CASE Still
  BY <1>1 DEF Still, dispatchVars, Admitted, Tracked
<1>2. CASE Monitor
  <2>1. ASSUME NEW j \in Jobs, KillTimedOut(j) PROVE Still
    BY <2>1 DEF KillTimedOut, MonitorUnchanged, Still
  <2>2. ASSUME NEW j \in Jobs, NEW err \in BOOLEAN, RunCallbacks(j, err) PROVE Still
    BY <2>2 DEF RunCallbacks, MonitorUnchanged, Still
  <2>3. ASSUME NEW j \in Jobs, NEW err \in BOOLEAN, HandleTermination(j, err)
        PROVE  Gate!Next
    BY <2>3, TerminationReleases DEF Gate!Next
  <2>. QED  BY <1>1, <1>2, <2>1, <2>2, <2>3 DEF Monitor
<1>3. CASE Dispatch
  <2>1. CASE Claim
    BY <2>1, ClaimAdmits DEF Gate!Next, DInv, QueueInv, Dispatching, Claim
  <2>2. CASE Register
    <3>1. /\ dpc = "register" /\ dpc' = "loop"
          /\ cur \in Jobs /\ curPid \in Pids
          /\ workers' = [workers EXCEPT ![cur] = curPid]
      BY <2>2 DEF Register, DInv, QueueInv, Dispatching
    <3>2. Tracked' = Tracked \union {cur}
      BY <3>1, NullAssumption DEF Tracked, TypeOK
    <3>. QED  BY <3>1, <3>2 DEF Admitted
  <2>3. CASE ~Claim /\ ~Register
    <3>1. dpc # "register" /\ dpc' # "register"
      BY <1>3, <2>3, DispatchAway
    <3>. QED  BY <1>3, <2>3, <3>1, DispatchKeepsWorkers DEF Admitted
  <2>. QED  BY <2>1, <2>2, <2>3
<1>4. CASE StopService
  <2>1. Admitted' = {}
    BY <1>4 DEF StopService, Return, Admitted, Tracked
  <2>. QED  BY <2>1 DEF Gate!Next, Gate!Forget
<1>5. CASE UNCHANGED vars
  BY <1>1, <1>5 DEF vars, Still
<1>. QED
  BY <1>1, <1>2, <1>3, <1>4, <1>5, IntakeQuiet, DrainQuiet, WorkerQuiet,
     EnvironmentQuiet DEF Next

(* Within a service lifetime dispatcher and monitor are WorkerGate: Claim  *)
(* admits, handleTermination releases, the end of the service forgets, and *)
(* every other step of the whole system leaves the gate alone.             *)
THEOREM QueueIsGate == Spec => ImplementsGate
<1>1. Init => Gate!Init
  BY DEF Init, Gate!Init, Admitted, Tracked
<1>2. DInv /\ DInv' /\ [Next]_vars => [Gate!Next]_Admitted
  BY GateStep
<1>. QED
  BY <1>1, <1>2, DispatcherInvariant, PTL DEF Spec, ImplementsGate, Gate!Spec

=============================================================================
