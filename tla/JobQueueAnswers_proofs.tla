------------------------ MODULE JobQueueAnswers_proofs ------------------------
(***************************************************************************)
(* What rows and answers mean, for every instance of JobQueue: rows only   *)
(* move forward, a completed row was carried out and answered, the service *)
(* never contradicts the row, duplicates are kept out, running rows have a *)
(* worker, and drain mode stops the dispatcher.  The first two hold across *)
(* restarts and faults.                                                    *)
(***************************************************************************)
EXTENDS JobQueueWork_proofs

-----------------------------------------------------------------------------
(* How a row changes.                                                      *)

(* The process that is about to record a success of this job.              *)
Succeeds(p, j) == proc[p] = "recording" /\ procOk[p] /\ procJob[p] = j

RowStep(j) ==
  \/ status'[j] = status[j]
  \/ status[j] = "absent" /\ status'[j] = "queued" /\ (Enqueue(j) \/ ScheduleRefresh(j))
  \/ status[j] = "absent" /\ status'[j] = "gone"
  \/ status[j] = "queued" /\ status'[j] = "running" /\ Claim /\ j = cur
  \/ status[j] = "running" /\ status'[j] = "failed"
  \/ /\ status[j] = "running" /\ status'[j] = "completed"
     /\ \E p \in Pids : Succeeds(p, j)
  \/ status[j] \in Terminal /\ status'[j] = "gone"

(* Rows that are not written do not change.                                *)
LEMMA SameRows == UNCHANGED status => \A j \in Jobs : RowStep(j)
BY DEF RowStep

(* UpdateStatus from "running" fails or completes the row it names.        *)
LEMMA UpdateRow ==
  ASSUME TypeOK, NEW i, NEW to \in Terminal, NEW err, NEW pid,
         UpdateStatus(i, "running", to, pid, err),
         to = "completed" => \E p \in Pids : Succeeds(p, i)
  PROVE  \A j \in Jobs : RowStep(j)
<1>1. CASE status[i] = "running" /\ ~err
  BY <1>1 DEF UpdateStatus, TypeOK, RowStep, Terminal
<1>2. CASE ~(status[i] = "running" /\ ~err)
  BY <1>2, SameRows DEF UpdateStatus, rowVars
<1>. QED  BY <1>1, <1>2

(* Whoever writes a row, whatever fails and restarts in between.           *)
LEMMA RowSteps == ASSUME TypeOK, [Next]_vars PROVE \A j \in Jobs : RowStep(j)
<1>0. status \in [Jobs -> Statuses]
  BY DEF TypeOK
<1>1. ASSUME NEW i \in Jobs,
             Enqueue(i) \/ RejectDuplicate(i) \/ DropRequest(i)
                        \/ ScheduleRefresh(i) \/ Purge(i)
      PROVE  \A j \in Jobs : RowStep(j)
  BY <1>0, <1>1 DEF Enqueue, RejectDuplicate, DropRequest, ScheduleRefresh, Purge,
     Create, RowStep
<1>2. CASE Dispatch
  <2>1. CASE Claim
    BY <1>0, <2>1 DEF Claim, UpdateStatus, RowStep
  <2>2. CASE ~Claim
    BY <1>2, <2>2, DispatchKeepsRows, SameRows DEF rowVars
  <2>. QED  BY <2>1, <2>2
<1>3. ASSUME NEW i \in Jobs, NEW err \in BOOLEAN, HandleTermination(i, err)
      PROVE  \A j \in Jobs : RowStep(j)
  <2>1. CASE FailRunningRow(i, err)
    BY <2>1, UpdateRow DEF FailRunningRow, Terminal
  <2>2. CASE ~FailRunningRow(i, err)
    BY <1>3, <2>2, SameRows DEF HandleTermination, LeaveTerminalRow, rowVars
  <2>. QED  BY <2>1, <2>2
<1>4. ASSUME NEW i \in Jobs,
             KillTimedOut(i) \/ \E err \in BOOLEAN : RunCallbacks(i, err)
      PROVE  \A j \in Jobs : RowStep(j)
  BY <1>4, SameRows DEF KillTimedOut, RunCallbacks, rowVars
<1>5. CASE Drain
  BY <1>5, SameRows DEF Drain, LaunchUpgrade, storeVars, rowVars
<1>6. ASSUME NEW p \in Pids, Worker(p) PROVE \A j \in Jobs : RowStep(j)
  <2>1. ASSUME NEW err \in BOOLEAN, RecordResult(p, err)
        PROVE  \A j \in Jobs : RowStep(j)
    BY <2>1, UpdateRow DEF RecordResult, Result, Terminal, Succeeds
  <2>2. ASSUME NEW err \in BOOLEAN, GiveUp(p, err) PROVE \A j \in Jobs : RowStep(j)
    BY <2>2, UpdateRow DEF GiveUp, Terminal
  <2>3. ASSUME \/ AnswerConfirmed(p) \/ AnswerUnconfirmed(p)
               \/ \E err \in BOOLEAN : ReadJob(p, err) \/ Connect(p, err)
        PROVE  \A j \in Jobs : RowStep(j)
    BY <2>3, SameRows DEF AnswerConfirmed, AnswerUnconfirmed, ReadJob, Connect, rowVars
  <2>. QED  BY <1>6, <2>1, <2>2, <2>3 DEF Worker
<1>7. CASE Environment
  <2>1. ASSUME NEW missed \in SUBSET Jobs, StartService(missed)
        PROVE  \A j \in Jobs : RowStep(j)
    BY <1>0, <2>1 DEF StartService, Recovered, Running, RowStep
  <2>2. ASSUME ~\E missed \in SUBSET Jobs : StartService(missed)
        PROVE  \A j \in Jobs : RowStep(j)
    BY <1>7, <2>2, SameRows DEF Environment, ProcessDies, ExecuteTask, StopService,
       rowVars, storeVars
  <2>. QED  BY <2>1, <2>2
<1>8. CASE UNCHANGED vars
  BY <1>8, SameRows DEF vars, storeVars, rowVars
<1>. QED
  BY <1>1, <1>2, <1>3, <1>4, <1>5, <1>6, <1>7, <1>8 DEF Next, Intake, Monitor

(* A terminal row never becomes another one and a claimed row is never     *)
(* queued again, whoever writes it last: worker, monitor, recovery,        *)
(* retention, before and after restarts.                                   *)
THEOREM RowsForwardKept == Spec => RowsMoveForward
<1>1. ASSUME TypeOK, [Next]_vars
      PROVE  \A j \in Jobs : status'[j] = status[j] \/ status'[j] \in Forward[status[j]]
  BY <1>1, RowSteps DEF RowStep, Forward, Terminal, TypeOK, Statuses
<1>. QED  BY <1>1, TypeCorrect, PTL DEF Spec, RowsMoveForward

-----------------------------------------------------------------------------
(* A completed row was carried out and answered.                           *)

(* What the backend has to have before the row of a job is completed.      *)
Told(j) ==
  \/ j \in Periodic \/ Class(j) = "download"
  \/ [from |-> "worker", result |-> "completed"] \in answers[j]

(* A process has a job; once past the status check it was counted, and     *)
(* before it records a success it has sent it.                             *)
WorkInv ==
  \A p \in Pids :
    /\ Alive(p) => procJob[p] \in Jobs
    /\ Working(p) => runs[procJob[p]] >= 1
    /\ proc[p] = "recording" /\ procOk[p] => Told(procJob[p])

(* Nothing is taken back: answers are added and runs are counted.          *)
HistoryGrows ==
  \A j \in Jobs : answers[j] \subseteq answers'[j] /\ runs'[j] >= runs[j]

(* An answer is added to those of its job.                                 *)
LEMMA AnswerAdds ==
  ASSUME TypeOK, NEW j, NEW f, NEW r, Answer(j, f, r)
  PROVE  /\ \A k \in Jobs : answers[k] \subseteq answers'[k]
         /\ j \in Jobs => [from |-> f, result |-> r] \in answers'[j]
         /\ \A k \in Jobs : \A a \in answers'[k] :
              a \in answers[k] \/ (k = j /\ a = [from |-> f, result |-> r])
BY DEF TypeOK, Answer

(* A step without answers and without the beginning of a task.             *)
LEMMA SameHistory == ASSUME TypeOK, UNCHANGED <<answers, runs>> PROVE HistoryGrows
BY DEF HistoryGrows, TypeOK

(* The history of answers and runs only grows.                             *)
LEMMA HistoryStep == ASSUME TypeOK, [Next]_vars PROVE HistoryGrows
<1>0. runs \in [Jobs -> Nat]
  BY DEF TypeOK
<1>1. ASSUME UNCHANGED runs, \E j, f, r : Answer(j, f, r) PROVE HistoryGrows
  <2>1. PICK j, f, r : Answer(j, f, r)
    BY <1>1
  <2>2. \A k \in Jobs : answers[k] \subseteq answers'[k]
    BY <2>1, AnswerAdds
  <2>. QED  BY <1>0, <1>1, <2>2 DEF HistoryGrows
<1>2. CASE Intake
  <2>1. UNCHANGED runs /\ (UNCHANGED answers \/ \E j \in Jobs : Answer(j, "intake", "failed"))
    BY <1>2 DEF Intake, Enqueue, RejectDuplicate, DropRequest, ScheduleRefresh, Purge,
       IntakeUnchanged
  <2>. QED  BY <1>1, <2>1, SameHistory
<1>3. CASE Dispatch
  BY <1>3, SameHistory DEF Dispatch, Evaluate, CountWorkers, CheckHostWrite,
     SnapshotWrites, ListQueued, VisitJob, EndPass, Spawn, SpawnFails, Claim, ClaimFails,
     Register, DispatcherUnchanged
<1>4. CASE Monitor
  <2>1. UNCHANGED runs /\ (UNCHANGED answers \/ \E j \in Jobs : Answer(j, "service", "failed"))
    BY <1>4 DEF Monitor, KillTimedOut, HandleTermination, RunCallbacks, MonitorUnchanged
  <2>. QED  BY <1>1, <2>1, SameHistory
<1>5. CASE Drain
  BY <1>5, SameHistory DEF Drain, LaunchUpgrade, backendVars
<1>6. ASSUME NEW p \in Pids, Worker(p) PROVE HistoryGrows
  <2>1. ASSUME NEW err \in BOOLEAN, Connect(p, err) PROVE HistoryGrows
    BY <1>0, <2>1 DEF Connect, HistoryGrows
  <2>2. CASE AnswerConfirmed(p) \/ AnswerUnconfirmed(p)
    <3>1. /\ UNCHANGED runs
          /\ UNCHANGED answers \/ Answer(procJob[p], "worker", Result(p))
      BY <2>2 DEF AnswerConfirmed, AnswerUnconfirmed, PublishResponse
    <3>. QED  BY <1>1, <3>1, SameHistory
  <2>. QED
    BY <1>6, <2>1, <2>2, SameHistory DEF Worker, ReadJob, RecordResult, GiveUp
<1>7. CASE Environment
  BY <1>7, SameHistory DEF Environment, ProcessDies, ExecuteTask, StopService,
     StartService, backendVars
<1>8. CASE UNCHANGED vars
  BY <1>8, SameHistory DEF vars, backendVars
<1>. QED  BY <1>2, <1>3, <1>4, <1>5, <1>6, <1>7, <1>8 DEF Next

(* What was told stays told, what was counted stays counted.               *)
LEMMA ToldStays ==
  ASSUME HistoryGrows, NEW j \in Jobs
  PROVE  /\ Told(j) => Told(j)'
         /\ runs[j] >= 1 /\ runs[j] \in Nat /\ runs'[j] \in Nat => runs'[j] >= 1
BY DEF HistoryGrows, Told

(* What a step does to the processes.                                      *)
LEMMA ProcSteps ==
  ASSUME [Next]_vars
  PROVE  \/ UNCHANGED procVars \/ \E p : Exit(p)
         \/ \E p \in Pids : Spawn(p)
         \/ \E p \in Pids : Worker(p) \/ \E ok \in BOOLEAN : ExecuteTask(p, ok)
BY DEF Next, vars, Intake, Enqueue, RejectDuplicate, DropRequest, ScheduleRefresh,
   Purge, IntakeUnchanged, Dispatch, Evaluate, CountWorkers, CheckHostWrite,
   SnapshotWrites, ListQueued, VisitJob, EndPass, SpawnFails, Claim, ClaimFails,
   KillUnclaimed, Register, Monitor, KillTimedOut, HandleTermination, RunCallbacks,
   Drain, LaunchUpgrade, Environment, ProcessDies, StopService, StartService

(* A process that is as it was keeps what WorkInv says of it.              *)
LEMMA WorkSame ==
  ASSUME TypeOK, TypeOK', WorkInv, HistoryGrows, NEW p \in Pids,
         proc'[p] = proc[p], procJob'[p] = procJob[p], procOk'[p] = procOk[p]
  PROVE  /\ Alive(p)' => procJob'[p] \in Jobs
         /\ Working(p)' => runs'[procJob'[p]] >= 1
         /\ proc'[p] = "recording" /\ procOk'[p] => Told(procJob[p])'
<1>1. Alive(p) => procJob[p] \in Jobs
  BY DEF WorkInv
<1>2. CASE ~Alive(p)
  BY <1>2 DEF Alive, Working
<1>3. CASE Alive(p)
  <2>1. runs[procJob[p]] \in Nat /\ runs'[procJob[p]] \in Nat
    BY <1>1, <1>3 DEF TypeOK
  <2>. QED  BY <1>1, <1>3, <2>1, ToldStays DEF WorkInv, Working, Alive
<1>. QED  BY <1>2, <1>3

(* WorkInv is preserved by every step, restarts included.                  *)
LEMMA WorkStep == ASSUME DInv, WorkInv, [Next]_vars PROVE WorkInv'
<1>1. TypeOK /\ TypeOK' /\ HistoryGrows
  BY TypeStep, HistoryStep DEF DInv
<1>2. /\ proc \in [Pids -> ProcStates] /\ procJob \in [Pids -> Jobs \union {NoJob}]
      /\ procOk \in [Pids -> BOOLEAN] /\ runs \in [Jobs -> Nat] /\ runs' \in [Jobs -> Nat]
  BY <1>1 DEF TypeOK
<1>. SUFFICES ASSUME NEW q \in Pids
              PROVE  /\ Alive(q)' => procJob'[q] \in Jobs
                     /\ Working(q)' => runs'[procJob'[q]] >= 1
                     /\ proc'[q] = "recording" /\ procOk'[q] => Told(procJob[q])'
  BY DEF WorkInv
<1>3. CASE proc'[q] = proc[q] /\ procJob'[q] = procJob[q] /\ procOk'[q] = procOk[q]
  BY <1>1, <1>3, WorkSame
<1>4. ASSUME NEW p, Exit(p)
      PROVE \/ proc'[q] = proc[q] /\ procJob'[q] = procJob[q] /\ procOk'[q] = procOk[q]
            \/ proc'[q] = "free"
  BY <1>2, <1>4 DEF Exit
<1>5. CASE proc'[q] = "free"
  BY <1>5 DEF Alive, Working
<1>6. ASSUME NEW p \in Pids, Spawn(p)
      PROVE \/ proc'[q] = proc[q] /\ procJob'[q] = procJob[q] /\ procOk'[q] = procOk[q]
            \/ proc'[q] = "started" /\ procJob'[q] \in Jobs
  BY <1>2, <1>6 DEF Spawn, DInv, QueueInv, Dispatching
<1>7. CASE proc'[q] = "started" /\ procJob'[q] \in Jobs
  BY <1>7 DEF Alive, Working
<1>8. ASSUME NEW p \in Pids, Worker(p) \/ \E ok \in BOOLEAN : ExecuteTask(p, ok), p # q
      PROVE  proc'[q] = proc[q] /\ procJob'[q] = procJob[q] /\ procOk'[q] = procOk[q]
  BY <1>2, <1>8 DEF Worker, ReadJob, Connect, RecordResult, GiveUp, AnswerConfirmed,
     AnswerUnconfirmed, ExecuteTask, Goto, Exit
<1>9. CASE Alive(q) /\ proc'[q] # "free" /\ Worker(q)
  <2>1. procJob[q] \in Jobs
    BY <1>9 DEF WorkInv
  <2>2. ASSUME NEW err \in BOOLEAN, ReadJob(q, err)
        PROVE  proc'[q] = "connecting" /\ procJob'[q] = procJob[q]
    <3>1. CASE err \/ ~MayRun(procJob[q])
      BY <1>2, <1>9, <2>2, <3>1 DEF ReadJob, Exit
    <3>2. CASE ~(err \/ ~MayRun(procJob[q]))
      BY <1>2, <2>2, <3>2 DEF ReadJob, Goto
    <3>. QED  BY <3>1, <3>2
  <2>3. ASSUME NEW err \in BOOLEAN, Connect(q, err)
        PROVE  /\ procJob'[q] = procJob[q]
               /\ \/ proc'[q] = "quitting"
                  \/ proc'[q] = "executing" /\ runs'[procJob[q]] >= 1
    BY <1>2, <2>1, <2>3 DEF Connect, Goto
  <2>4. ASSUME AnswerConfirmed(q)
        PROVE  /\ proc'[q] = "recording" /\ procJob'[q] = procJob[q]
               /\ procOk'[q] = procOk[q] /\ Working(q)
               /\ procOk[q] => Told(procJob[q])'
    <3>1. /\ proc'[q] = "recording" /\ procJob' = procJob /\ procOk' = procOk /\ Working(q)
      BY <1>2, <2>4 DEF AnswerConfirmed, Goto, Working
    <3>2. ASSUME procOk[q] PROVE Told(procJob[q])'
      <4>1. CASE procJob[q] \in Periodic \/ Class(procJob[q]) = "download"
        BY <3>1, <4>1 DEF Told
      <4>2. CASE ~(procJob[q] \in Periodic \/ Class(procJob[q]) = "download")
        <5>1. Answer(procJob[q], "worker", "completed")
          BY <2>4, <3>2, <4>2 DEF AnswerConfirmed, PublishResponse, Result
        <5>. QED  BY <1>1, <2>1, <3>1, <5>1, AnswerAdds DEF Told
      <4>. QED  BY <4>1, <4>2
    <3>. QED  BY <3>1, <3>2
  <2>5. ASSUME AnswerUnconfirmed(q)
        PROVE  proc'[q] = "quitting" /\ procJob'[q] = procJob[q]
    BY <1>2, <2>5 DEF AnswerUnconfirmed, Goto
  <2>6. ASSUME NEW err \in BOOLEAN, RecordResult(q, err) \/ GiveUp(q, err) PROVE FALSE
    BY <1>2, <1>9, <2>6 DEF RecordResult, GiveUp, Exit
  <2>7. runs[procJob[q]] \in Nat /\ runs'[procJob[q]] \in Nat
    BY <1>2, <2>1
  <2>8. CASE AnswerConfirmed(q)
    <3>1. runs[procJob[q]] >= 1
      BY <2>4, <2>8 DEF WorkInv
    <3>2. runs'[procJob[q]] >= 1
      BY <1>1, <2>1, <2>7, <3>1, ToldStays
    <3>. QED  BY <2>1, <2>4, <2>8, <3>2
  <2>9. CASE ~AnswerConfirmed(q)
    BY <1>9, <2>1, <2>2, <2>3, <2>5, <2>6, <2>9 DEF Worker, Working
  <2>. QED  BY <2>8, <2>9
<1>10. ASSUME NEW ok \in BOOLEAN, ExecuteTask(q, ok)
       PROVE  Alive(q) /\ proc'[q] = "answering" /\ procJob'[q] = procJob[q] /\ Working(q)
  BY <1>2, <1>10 DEF ExecuteTask, Working, Alive
<1>11. CASE \E ok \in BOOLEAN : ExecuteTask(q, ok)
  <2>1. procJob[q] \in Jobs /\ runs[procJob[q]] >= 1
    BY <1>10, <1>11 DEF WorkInv
  <2>2. runs[procJob[q]] \in Nat /\ runs'[procJob[q]] \in Nat
    BY <1>2, <2>1
  <2>. QED  BY <1>1, <1>10, <1>11, <2>1, <2>2, ToldStays
<1>12. Worker(q) => Alive(q)
  BY DEF Worker, ReadJob, Connect, RecordResult, GiveUp, AnswerConfirmed,
     AnswerUnconfirmed, Alive
<1>13. UNCHANGED procVars =>
         proc'[q] = proc[q] /\ procJob'[q] = procJob[q] /\ procOk'[q] = procOk[q]
  BY DEF procVars
<1>. QED
  BY <1>3, <1>4, <1>5, <1>6, <1>7, <1>8, <1>9, <1>11, <1>12, <1>13, ProcSteps

(* The rows that are completed.                                            *)
LEMMA CompletedStep ==
  ASSUME TypeOK, TypeOK', WorkInv, CompletedWasAnswered, [Next]_vars
  PROVE  CompletedWasAnswered'
<1>1. HistoryGrows
  BY HistoryStep
<1>. SUFFICES ASSUME NEW j \in Jobs, status'[j] = "completed"
              PROVE  runs'[j] >= 1 /\ Told(j)'
  BY DEF CompletedWasAnswered, Told
<1>2. runs[j] >= 1 /\ Told(j)
  <2>1. CASE status[j] = "completed"
    BY <2>1 DEF CompletedWasAnswered, Told
  <2>2. CASE \E p \in Pids : Succeeds(p, j)
    BY <2>2 DEF WorkInv, Succeeds, Working
  <2>. QED  BY <2>1, <2>2, RowSteps DEF RowStep
<1>3. runs[j] \in Nat /\ runs'[j] \in Nat
  BY DEF TypeOK
<1>. QED  BY <1>1, <1>2, <1>3, ToldStays

(* The row of a job is completed only after its task was carried out and,  *)
(* unless nobody waits or the upgrade goes on, after the backend was told: *)
(* across restarts of the service, lost confirms and dying workers.        *)
THEOREM CompletedAnsweredKept == Spec => []CompletedWasAnswered
<1>1. Init => WorkInv /\ CompletedWasAnswered
  BY DEF Init, WorkInv, CompletedWasAnswered, Alive, Working
<1>2. DInv /\ WorkInv /\ [Next]_vars => WorkInv'
  BY WorkStep
<1>3. DInv /\ DInv' /\ WorkInv /\ CompletedWasAnswered /\ [Next]_vars
        => CompletedWasAnswered'
  BY CompletedStep DEF DInv
<1>. QED  BY <1>1, <1>2, <1>3, DispatcherInvariant, PTL DEF Spec

-----------------------------------------------------------------------------
(* The service does not contradict the row.                                *)

(* The service has told the backend that the job failed, or will.          *)
Blamed(j) ==
  callback[j] = "failed" \/ [from |-> "service", result |-> "failed"] \in answers[j]

(* Within one service lifetime a blamed job has left the queue, and no     *)
(* worker has or will get it: nobody can complete its row any more.        *)
BlameInv ==
  restarts = 0 =>
    \A j \in Jobs : Blamed(j) =>
      /\ status[j] \in {"running", "failed", "gone"}
      /\ j \notin Tracked
      /\ Dispatching => j # cur

(* Only the termination of a worker whose row runs blames its job.         *)
LEMMA BlameSource ==
  ASSUME TypeOK, [Next]_vars, NEW j \in Jobs, Blamed(j)', ~Blamed(j), ~StopService
  PROVE  \E err \in BOOLEAN : HandleTermination(j, err) /\ FailRunningRow(j, err)
<1>0. callback \in [Jobs -> Callbacks]
  BY DEF TypeOK
<1>1. ~(UNCHANGED <<callback, answers>>)
  BY DEF Blamed
<1>2. ASSUME UNCHANGED callback, NEW i, NEW f \in {"intake", "worker"}, NEW r, Answer(i, f, r)
      PROVE  FALSE
  <2>1. [from |-> f, result |-> r] # [from |-> "service", result |-> "failed"]
    BY <1>2
  <2>. QED  BY <1>2, <2>1, AnswerAdds DEF Blamed
<1>3. CASE Intake
  <2>1. UNCHANGED callback /\ (UNCHANGED answers \/ \E i \in Jobs : Answer(i, "intake", "failed"))
    BY <1>3 DEF Intake, Enqueue, RejectDuplicate, DropRequest, ScheduleRefresh, Purge,
       IntakeUnchanged
  <2>. QED  BY <1>1, <1>2, <2>1
<1>4. ~Dispatch
  BY <1>1 DEF Dispatch, Evaluate, CountWorkers, CheckHostWrite, SnapshotWrites, ListQueued,
     VisitJob, EndPass, Spawn, SpawnFails, Claim, ClaimFails, Register, DispatcherUnchanged
<1>5. ASSUME NEW i \in Jobs, NEW err \in BOOLEAN, RunCallbacks(i, err) PROVE FALSE
  <2>1. /\ callback' = [callback EXCEPT ![i] = "none"]
        /\ UNCHANGED answers \/ (callback[i] = "failed" /\ Answer(i, "service", "failed"))
    BY <1>5 DEF RunCallbacks
  <2>2. callback'[j] = "failed" => callback[j] = "failed"
    BY <1>0, <2>1
  <2>3. CASE UNCHANGED answers
    BY <2>2, <2>3 DEF Blamed
  <2>4. CASE callback[i] = "failed" /\ Answer(i, "service", "failed")
    BY <2>2, <2>4, AnswerAdds DEF Blamed
  <2>. QED  BY <2>1, <2>3, <2>4
<1>6. ASSUME NEW i \in Jobs, NEW err \in BOOLEAN, HandleTermination(i, err)
      PROVE  HandleTermination(j, err) /\ FailRunningRow(j, err)
  <2>1. answers' = answers
    BY <1>6 DEF HandleTermination
  <2>2. callback'[j] = "failed" /\ callback[j] # "failed"
    BY <2>1 DEF Blamed
  <2>3. ASSUME NEW what, Owe(i, what) PROVE i = j /\ what = "failed"
    BY <1>0, <2>2, <2>3 DEF Owe
  <2>4. FailRunningRow(i, err)
    BY <1>6, <2>3 DEF HandleTermination, LeaveTerminalRow
  <2>. QED  BY <1>6, <2>3, <2>4 DEF FailRunningRow
<1>7. ~\E i \in Jobs : KillTimedOut(i)
  BY <1>1 DEF KillTimedOut
<1>8. ~Drain
  BY <1>1 DEF Drain, LaunchUpgrade, backendVars
<1>9. ~\E p \in Pids : Worker(p)
  <2>1. ASSUME NEW p \in Pids, Worker(p)
        PROVE  UNCHANGED callback /\ (UNCHANGED answers \/ \E i, r : Answer(i, "worker", r))
    BY <2>1 DEF Worker, ReadJob, Connect, RecordResult, GiveUp, AnswerConfirmed,
       AnswerUnconfirmed, PublishResponse, WorkerUnchanged
  <2>. QED  BY <1>1, <1>2, <2>1
<1>10. ~Environment
  BY <1>1 DEF Environment, ProcessDies, ExecuteTask, StartService, backendVars, WorkerUnchanged
<1>11. ~UNCHANGED vars
  BY <1>1 DEF vars, backendVars
<1>. QED
  BY <1>3, <1>4, <1>5, <1>6, <1>7, <1>8, <1>9, <1>10, <1>11 DEF Next, Monitor

(* What a step can add to the map, and how the dispatcher comes to register.*)
LEMMA MapGrows ==
  ASSUME DInv, [Next]_vars, ~StopService
  PROVE  /\ \A j \in Tracked' \ Tracked : Register /\ j = cur
         /\ dpc' = "register" => cur' = cur /\ dpc \in {"claim", "register"}
<1>. TypeOK
  BY DEF DInv
<1>1. CASE Quiet
  BY <1>1 DEF Quiet, dispatchVars
<1>2. CASE Dispatch
  <2>1. CASE Claim
    BY <2>1 DEF Claim, Register, Tracked
  <2>2. CASE Register
    BY <2>2 DEF Register, Tracked, TypeOK
  <2>3. CASE ~Claim /\ ~Register
    BY <1>2, <2>3, DispatchAway, DispatchKeepsWorkers
  <2>. QED  BY <2>1, <2>2, <2>3
<1>3. CASE UNCHANGED vars
  BY <1>3 DEF vars, dispatchVars, Tracked
<1>. QED
  BY <1>1, <1>2, <1>3, IntakeQuiet, MonitorQuiet, DrainQuiet, WorkerQuiet, EnvironmentQuiet
  DEF Next

(* BlameInv is preserved by every step.                                    *)
LEMMA BlameStep ==
  ASSUME DInv, DInv', ProcInv, BlameInv, [Next]_vars PROVE BlameInv'
<1>. SUFFICES ASSUME restarts' = 0, NEW j \in Jobs, Blamed(j)'
              PROVE  /\ status'[j] \in {"running", "failed", "gone"}
                     /\ j \notin Tracked'
                     /\ Dispatching' => j # cur'
  BY DEF BlameInv
<1>1. restarts = 0 /\ ~StopService /\ TypeOK
  BY FirstLife DEF DInv
<1>2. ASSUME status'[j] \in {"running", "failed", "gone"},
             dpc' = "register" => j # cur'
      PROVE  Dispatching' => j # cur'
  BY <1>2 DEF DInv, QueueInv, Dispatching
<1>3. CASE Blamed(j)
  <2>1. /\ status[j] \in {"running", "failed", "gone"} /\ j \notin Tracked
        /\ Dispatching => j # cur
    BY <1>1, <1>3 DEF BlameInv
  <2>2. ~\E p \in Pids : Succeeds(p, j)
    BY <1>1, <2>1 DEF ProcInv, Succeeds, Alive, OwnedBy, BeingDispatched, Dispatching
  <2>3. status'[j] \in {"running", "failed", "gone"}
    BY <1>1, <2>1, <2>2, RowSteps DEF RowStep, Terminal
  <2>4. j \notin Tracked' /\ (dpc' = "register" => j # cur')
    BY <1>1, <2>1, MapGrows DEF Dispatching, Register
  <2>. QED  BY <1>2, <2>3, <2>4
<1>4. CASE ~Blamed(j)
  <2>1. PICK err \in BOOLEAN : HandleTermination(j, err) /\ FailRunningRow(j, err)
    BY <1>1, <1>4, BlameSource
  <2>2. /\ j \in Tracked /\ status[j] = "running" /\ UNCHANGED dispatchVars
        /\ workers' = [workers EXCEPT ![j] = NoPid]
        /\ UpdateStatus(j, "running", "failed", NoPid, err)
    BY <2>1 DEF HandleTermination, RemoveEntry, FailRunningRow, MonitorUnchanged
  <2>3. j \notin Tracked'
    BY <1>1, <2>2 DEF Tracked, TypeOK
  <2>4. status'[j] \in {"running", "failed"}
    BY <1>1, <2>2 DEF UpdateStatus, rowVars, TypeOK
  <2>5. dpc' = "register" => j # cur'
    BY <2>2 DEF dispatchVars, DInv, QueueInv, Dispatching
  <2>. QED  BY <1>2, <2>3, <2>4, <2>5
<1>. QED  BY <1>3, <1>4

(* Within a service lifetime the backend never hears from the service that *)
(* a job failed whose row is, or becomes, completed: the worker's last     *)
(* write and the monitor's look at the row may come in any order.          *)
THEOREM ServiceAgreesKept == Spec => []ServiceAnswerAgreesWithRow
<1>1. Init => ProcInv /\ BlameInv
  BY DEF Init, ProcInv, Alive, BlameInv, Blamed
<1>2. DInv /\ ProcInv /\ [Next]_vars => ProcInv'
  BY ProcStep
<1>3. DInv /\ DInv' /\ ProcInv /\ BlameInv /\ [Next]_vars => BlameInv'
  BY BlameStep
<1>4. BlameInv => ServiceAnswerAgreesWithRow
  BY DEF BlameInv, Blamed, ServiceAnswerAgreesWithRow
<1>. QED  BY <1>1, <1>2, <1>3, <1>4, DispatcherInvariant, PTL DEF Spec

-----------------------------------------------------------------------------
(* A running row has a worker.                                             *)

(* The calls that failed are counted and the count never falls.            *)
LEMMA FaultsGrow == ASSUME TypeOK, [Next]_vars PROVE faults' \in Nat /\ faults <= faults'
<1>0. faults \in Nat
  BY BoundAssumption DEF TypeOK
<1>1. ASSUME NEW failed, Fault(failed) PROVE faults' = faults \/ faults' = faults + 1
  BY <1>1 DEF Fault, Spend
<1>2. CASE Intake
  BY <1>0, <1>1, <1>2 DEF Intake, Enqueue, RejectDuplicate, DropRequest, ScheduleRefresh,
     Purge, Spend
<1>3. CASE Dispatch
  <2>1. UNCHANGED faults \/ \E failed : Fault(failed)
    BY <1>3 DEF Dispatch, Evaluate, CountWorkers, CheckHostWrite, SnapshotWrites,
       ListQueued, VisitJob, EndPass, Spawn, SpawnFails, Claim, ClaimFails, Register
  <2>. QED  BY <1>0, <1>1, <2>1
<1>4. CASE Monitor
  BY <1>0, <1>1, <1>4 DEF Monitor, KillTimedOut, HandleTermination, RunCallbacks
<1>5. CASE Drain
  BY <1>0, <1>1, <1>5 DEF Drain, LaunchUpgrade
<1>6. CASE \E p \in Pids : Worker(p)
  BY <1>0, <1>1, <1>6 DEF Worker, ReadJob, Connect, RecordResult, GiveUp, AnswerConfirmed,
     AnswerUnconfirmed, Spend
<1>7. CASE Environment
  BY <1>0, <1>1, <1>7 DEF Environment, ProcessDies, ExecuteTask, StopService, StartService,
     Spend
<1>8. CASE UNCHANGED vars
  BY <1>0, <1>8 DEF vars, boundVars
<1>. QED  BY <1>0, <1>2, <1>3, <1>4, <1>5, <1>6, <1>7, <1>8 DEF Next

(* As long as nothing has failed, nothing fails in the step either.        *)
LEMMA Faultless ==
  ASSUME TypeOK, [Next]_vars, faults' = 0
  PROVE  /\ faults = 0
         /\ \A failed : Fault(failed) => ~failed
<1>1. faults \in Nat
  BY BoundAssumption DEF TypeOK
<1>. QED  BY <1>1, FaultsGrow DEF Fault, Spend

(* Within a service lifetime an entry leaves the map only when the monitor *)
(* handles the termination of its worker.                                  *)
LEMMA EntryLeaves ==
  ASSUME DInv, [Next]_vars, ~StopService, NEW j \in Tracked, j \notin Tracked'
  PROVE  \E err \in BOOLEAN : HandleTermination(j, err)
<1>0. TypeOK /\ QueueInv
  BY DEF DInv
<1>1. ~Still /\ ~UNCHANGED vars
  BY DEF Still, vars, Tracked
<1>2. ~Dispatch
  <2>1. ~Register
    BY <1>0, NullAssumption DEF Register, Tracked, TypeOK, QueueInv
  <2>. QED  BY <2>1, DispatchKeepsWorkers
<1>3. Monitor
  BY <1>0, <1>1, <1>2, IntakeQuiet, DrainQuiet, WorkerQuiet, EnvironmentQuiet DEF Next
<1>4. ASSUME NEW i \in Jobs, NEW err \in BOOLEAN, HandleTermination(i, err) PROVE i = j
  BY <1>0, <1>4 DEF HandleTermination, RemoveEntry, Tracked, TypeOK
<1>. QED  BY <1>3, <1>4 DEF Monitor, KillTimedOut, RunCallbacks, Tracked

(* RunningIsWatched is inductive on top of the dispatcher's invariant.     *)
LEMMA WatchedStep ==
  ASSUME DInv, RunningIsWatched, [Next]_vars PROVE RunningIsWatched'
<1>. SUFFICES ASSUME restarts' = 0, faults' = 0, NEW j \in Jobs, status'[j] = "running"
              PROVE  j \in Admitted'
  BY DEF RunningIsWatched, Running
<1>1. TypeOK /\ restarts = 0 /\ faults = 0 /\ ~StopService
  BY FirstLife, Faultless DEF DInv
<1>2. CASE Claim /\ j = cur
  BY <1>2 DEF Claim, Admitted
<1>3. CASE status[j] = "running"
  <2>1. j \in Admitted
    BY <1>1, <1>3 DEF RunningIsWatched, Running
  <2>2. CASE j \in Tracked
    <3>1. ASSUME NEW err \in BOOLEAN, HandleTermination(j, err) PROVE FALSE
      <4>1. ~err
        BY <1>1, <3>1, Faultless DEF HandleTermination
      <4>2. FailRunningRow(j, err)
        BY <1>3, <3>1, <4>1 DEF HandleTermination, LeaveTerminalRow, Terminal
      <4>3. status'[j] = "failed"
        BY <1>1, <4>1, <4>2 DEF FailRunningRow, UpdateStatus, TypeOK
      <4>. QED  BY <4>3
    <3>2. j \in Tracked'
      BY <1>1, <2>2, <3>1, EntryLeaves
    <3>. QED  BY <3>2 DEF Admitted
  <2>3. CASE dpc = "register" /\ j = cur
    <3>1. CASE Quiet \/ UNCHANGED vars
      BY <2>3, <3>1 DEF Quiet, vars, dispatchVars, Admitted
    <3>2. CASE Dispatch
      <4>1. Register
        BY <2>3, <3>2 DEF Dispatch, Evaluate, CountWorkers, CheckHostWrite,
           SnapshotWrites, ListQueued, VisitJob, EndPass, Spawn, SpawnFails, Claim,
           ClaimFails
      <4>2. curPid \in Pids
        BY <2>3 DEF DInv, QueueInv
      <4>3. j \in Tracked'
        BY <1>1, <2>3, <4>1, <4>2, NullAssumption DEF Register, Tracked, TypeOK
      <4>. QED  BY <4>3 DEF Admitted
    <3>. QED
      BY <1>1, <3>1, <3>2, IntakeQuiet, MonitorQuiet, DrainQuiet, WorkerQuiet,
         EnvironmentQuiet DEF Next
  <2>. QED  BY <2>1, <2>2, <2>3 DEF Admitted
<1>. QED  BY <1>1, <1>2, <1>3, RowSteps DEF RowStep

(* While nothing fails and the service is not restarted, every running row *)
(* belongs to a worker the monitor watches or is about to: the claim and   *)
(* the registration are two steps, and so are the worker's last write, its *)
(* exit and the monitor's look at it.                                      *)
THEOREM RunningWatchedKept == Spec => []RunningIsWatched
<1>1. Init => RunningIsWatched
  BY DEF Init, RunningIsWatched, Running
<1>. QED  BY <1>1, WatchedStep, DispatcherInvariant, PTL DEF Spec

-----------------------------------------------------------------------------
(* Duplicates are kept out.                                                *)

(* A conflict of write tasks is mutual.                                    *)
LEMMA ConflictsMutual ==
  ASSUME NEW k1, NEW k2, IsWriteTask(k1), Conflicts(k1, k2)
  PROVE  IsWriteTask(k2) /\ Conflicts(k2, k1)
BY DEF IsWriteTask, Conflicts

(* Enqueue touches no row but its own, and without a fault it has seen no  *)
(* conflict.                                                               *)
LEMMA EnqueueAdmits ==
  ASSUME TypeOK, [Next]_vars, faults' = 0, NEW j \in Jobs, Enqueue(j)
  PROVE  /\ \A k \in Jobs : k # j => status'[k] = status[k]
         /\ IsWriteTask(Kind[j]) => \A k \in Active : ~Conflicts(Kind[j], Kind[k])
<1>1. ~Duplicate(j)
  BY Faultless DEF Enqueue
<1>. QED  BY <1>1 DEF Duplicate, HasConflict, Enqueue, Create, TypeOK

(* NoDuplicates is inductive on top of the types.                          *)
LEMMA DuplicateStep ==
  ASSUME TypeOK, NoDuplicates, [Next]_vars PROVE NoDuplicates'
<1>. SUFFICES ASSUME faults' = 0, NEW j \in Active' \ Periodic, NEW k \in Active' \ Periodic,
                     j # k, IsWriteTask(Kind[j]), Conflicts(Kind[j], Kind[k])
              PROVE  FALSE
  BY DEF NoDuplicates
<1>1. faults = 0 /\ j \in Jobs /\ k \in Jobs
  BY Faultless DEF Active, Queued, Running
<1>2. IsWriteTask(Kind[k]) /\ Conflicts(Kind[k], Kind[j])
  BY ConflictsMutual
<1>3. ASSUME NEW i \in Active' \ Periodic, i \notin Active PROVE Enqueue(i)
  <2>1. ~ScheduleRefresh(i) /\ i \in Jobs
    BY <1>3 DEF ScheduleRefresh, Active, Queued, Running
  <2>. QED
    BY <1>3, <2>1, RowSteps DEF RowStep, Active, Queued, Running, Terminal, TypeOK
<1>4. ASSUME NEW i \in Jobs, NEW h \in Jobs, i \in Active' \ Periodic, h \in Active',
             i # h, IsWriteTask(Kind[i]), Conflicts(Kind[i], Kind[h])
      PROVE  i \in Active
  <2>. SUFFICES ASSUME i \notin Active PROVE FALSE
    OBVIOUS
  <2>1. Enqueue(i)
    BY <1>3, <1>4
  <2>2. h \in Active
    BY <1>4, <2>1, EnqueueAdmits DEF Active, Queued, Running
  <2>. QED  BY <1>4, <2>1, <2>2, EnqueueAdmits
<1>5. j \in Active /\ k \in Active
  BY <1>1, <1>2, <1>4
<1>. QED  BY <1>1, <1>5 DEF NoDuplicates

(* Unless a store error hides a row from the check, no two active rows of  *)
(* write tasks conflict, restarts and reused process ids notwithstanding:  *)
(* a row that has left the queue for a worker still counts.                *)
THEOREM NoDuplicatesKept == Spec => []NoDuplicates
<1>1. Init => NoDuplicates
  BY DEF Init, NoDuplicates, Active, Queued, Running
<1>. QED  BY <1>1, DuplicateStep, TypeCorrect, PTL DEF Spec

-----------------------------------------------------------------------------
(* Drain mode.                                                             *)

(* In drain mode an idle dispatcher stays idle.                            *)
LEMMA DrainKeepsIdle ==
  ASSUME TypeOK, [Next]_vars, drainMode, dpc = "idle" PROVE dpc' = "idle"
<1>1. CASE Quiet \/ StopService \/ UNCHANGED vars
  BY <1>1 DEF Quiet, StopService, Return, vars, dispatchVars
<1>2. CASE Dispatch
  <2>1. Evaluate
    BY <1>2 DEF Dispatch, CountWorkers, CheckHostWrite, SnapshotWrites, ListQueued,
       VisitJob, EndPass, Spawn, SpawnFails, Claim, ClaimFails, Register
  <2>. QED  BY <2>1 DEF Evaluate, PassStart
<1>. QED
  BY <1>1, <1>2, IntakeQuiet, MonitorQuiet, DrainQuiet, WorkerQuiet, EnvironmentQuiet
  DEF Next

(* An empty map between two passes means that no process is left.          *)
LEMMA EmptyMapNoProcess ==
  ASSUME ProcInv, restarts = 0, dpc = "idle", RunningCount = 0
  PROVE  \A p \in Pids : ~Alive(p)
<1>1. Tracked = {}
  BY TrackedCount, JobCount, FS_EmptySet DEF RunningCount
<1>. QED  BY <1>1 DEF ProcInv, BeingDispatched

(* Once the pass that was under way has ended, drain mode starts nothing,  *)
(* and an upgrade that waited for an empty map is launched when no worker  *)
(* process lives: the check reads the map, not the processes.              *)
THEOREM DrainKept == Spec => DrainStopsDispatch
<1>1. Init => ProcInv
  BY DEF Init, ProcInv, Alive
<1>2. DInv /\ ProcInv /\ [Next]_vars => ProcInv'
  BY ProcStep
<1>3. ASSUME DInv, ProcInv, [Next]_vars, restarts = 0, drainMode, dpc = "idle"
      PROVE  /\ drainMode' => dpc' = "idle"
             /\ (\E err \in BOOLEAN : LaunchUpgrade(FALSE, err)) =>
                  \A p \in Pids : ~Alive(p)
  <2>1. (\E err \in BOOLEAN : LaunchUpgrade(FALSE, err)) => RunningCount = 0
    BY DEF LaunchUpgrade
  <2>. QED  BY <1>3, <2>1, DrainKeepsIdle, EmptyMapNoProcess DEF DInv
<1>. QED  BY <1>1, <1>2, <1>3, DispatcherInvariant, PTL DEF Spec, DrainStopsDispatch

=============================================================================
