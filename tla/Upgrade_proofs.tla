--------------------------- MODULE Upgrade_proofs ---------------------------
(***************************************************************************)
(* Safety of Upgrade for any number of upgrade tasks and versions, and     *)
(* every value of the bounds: type correctness, that a success is reported *)
(* at most once, and, for behaviours in which at most one upgrade process  *)
(* is launched, that a working binary survives on the disk and that no     *)
(* version that cannot start is taken for upgraded.                        *)
(***************************************************************************)
EXTENDS Upgrade, TLAPS

(* A step's duty on the fault counter keeps it in its range.               *)
LEMMA FaultType ==
  ASSUME NEW b, Fault(b), faults \in 0 .. MaxFaults
  PROVE  faults' \in 0 .. MaxFaults
BY BoundAssumption DEF Fault, Spend

(* The file operations keep the three files.                               *)
LEMMA FileTypes ==
  ASSUME NEW d \in [Slots -> Bins], NEW from \in Slots, NEW to \in Slots
  PROVE  Rename(d, from, to) \in [Slots -> Bins] /\ Delete(d, from) \in [Slots -> Bins]
BY DEF Rename, Delete, Slots, Bins

(* A service that is started has the type of a booting one.                *)
SvcOK ==
  /\ boot \in Boots /\ svcBin \in Bins /\ stopping \in BOOLEAN
  /\ confirming \in Tasks \union {NoTask}
  /\ boot = "off" <=> svcBin = NoBin
  /\ boot = "confirm" <=> confirming # NoTask
  /\ draining \in BOOLEAN /\ drainers \subseteq Tasks /\ watched \subseteq Tasks

(* The directory, the workers and upgrade processes, the backend.          *)
DirOK ==
  /\ disk \in [Slots -> Bins] /\ staged \subseteq Versions
  /\ pending \in Tasks \union {NoTask} /\ broken \subseteq Versions \ {Old}

RestOK ==
  /\ job \in [Tasks -> JobStates] /\ upg \in [Tasks -> Steps]
  /\ peeked \in [Tasks -> Tasks \union {NoTask}] /\ fresh \in [Tasks -> BOOLEAN]
  /\ upgraded \in [Tasks -> Nat] /\ refused \in [Tasks -> Nat]
  /\ faults \in 0 .. MaxFaults /\ restarts \in 0 .. MaxRestarts

(* TypeOK is the conjunction of the three parts.                           *)
LEMMA TypeParts == (DirOK /\ SvcOK /\ RestOK) <=> TypeOK
BY DEF TypeOK, DirOK, SvcOK, RestOK

(* StartService gives a service that has a binary.                         *)
LEMMA StartType ==
  ASSUME TypeOK, StartSvc, boot = "off", disk["exe"] # NoBin
  PROVE  SvcOK'
BY DEF TypeOK, SvcOK, StartSvc, memVars, Boots, Slots, Bins

(* The end of the service process leaves none.                             *)
LEMMA EndType == ASSUME TypeOK, EndSvc PROVE SvcOK'
BY NullAssumption DEF TypeOK, SvcOK, EndSvc, Boots, Bins

(* A step of the boot outside the pending response.                        *)
LEMMA BootToType ==
  ASSUME TypeOK, NEW next \in Boots \ {"off", "confirm"}, BootTo(next),
         boot \notin {"off", "confirm"}
  PROVE  SvcOK'
BY DEF TypeOK, SvcOK, BootTo, memVars

(* A service that nobody touches stays what it is.                         *)
LEMMA SvcStays == ASSUME TypeOK, UNCHANGED svcVars PROVE SvcOK'
BY DEF TypeOK, SvcOK, svcVars, memVars

(* A stop request only sets stopping.                                      *)
LEMMA StopType ==
  ASSUME TypeOK, stopping' \in BOOLEAN, UNCHANGED <<boot, svcBin, memVars>>
  PROVE  SvcOK'
BY DEF TypeOK, SvcOK, memVars

(* The initial state is well typed.                                        *)
LEMMA TypeInit == Init => TypeOK
<1>. SUFFICES ASSUME Init PROVE TypeOK
  OBVIOUS
<1>1. DirOK
  <2>1. Old \in Bins /\ NoBin \in Bins
    BY VersionAssumption DEF Bins
  <2>2. disk \in [Slots -> Bins]
    BY <2>1 DEF Init
  <2>. QED  BY <2>2 DEF Init, DirOK
<1>2. SvcOK
  BY VersionAssumption, NullAssumption DEF Init, SvcOK, Boots, Bins
<1>3. RestOK
  BY BoundAssumption DEF Init, RestOK, JobStates, Steps
<1>. QED  BY <1>1, <1>2, <1>3, TypeParts

-----------------------------------------------------------------------------
(* The boot of the service keeps the types.                                *)
LEMMA TypeBoot == ASSUME TypeOK, Boot PROVE TypeOK'
<1>1. ASSUME NEW err \in BOOLEAN, BootLoad(err) PROVE TypeOK'
  <2>1. SvcOK'
    BY <1>1, EndType, BootToType DEF BootLoad, Boots
  <2>2. faults' \in 0 .. MaxFaults
    BY <1>1, FaultType DEF BootLoad, TypeOK
  <2>3. DirOK' /\ RestOK'
    BY <1>1, <2>2 DEF BootLoad, BootUnchanged, TypeOK, DirOK, RestOK, dirVars
  <2>. QED  BY <2>1, <2>3, TypeParts DEF TypeOK, DirOK, SvcOK, RestOK
<1>2. ASSUME NEW err \in BOOLEAN, BootPreflight(err) PROVE TypeOK'
  <2>1. SvcOK'
    BY <1>2, EndType, BootToType DEF BootPreflight, Boots
  <2>2. faults' \in 0 .. MaxFaults
    BY <1>2, FaultType DEF BootPreflight, TypeOK
  <2>3. DirOK' /\ RestOK'
    BY <1>2, <2>2 DEF BootPreflight, BootUnchanged, TypeOK, DirOK, RestOK, dirVars
  <2>. QED  BY <2>1, <2>3 DEF TypeOK, DirOK, SvcOK, RestOK
<1>3. ASSUME NEW err \in BOOLEAN, BootPending(err) PROVE TypeOK'
  <2>1. SvcOK'
    BY <1>3 DEF BootPending, TypeOK, SvcOK, Boots
  <2>2. faults' \in 0 .. MaxFaults
    BY <1>3, FaultType DEF BootPending, TypeOK
  <2>3. pending' \in Tasks \union {NoTask}
    BY <1>3 DEF BootPending, TypeOK
  <2>4. DirOK' /\ RestOK'
    BY <1>3, <2>2, <2>3 DEF BootPending, BootUnchanged, TypeOK, DirOK, RestOK
  <2>. QED  BY <2>1, <2>4 DEF TypeOK, DirOK, SvcOK, RestOK
<1>4. ASSUME NEW err \in BOOLEAN, BootConfirm(err) PROVE TypeOK'
  <2>1. SvcOK'
    BY <1>4, NullAssumption DEF BootConfirm, TypeOK, SvcOK, Boots
  <2>2. faults' \in 0 .. MaxFaults
    BY <1>4, FaultType DEF BootConfirm, TypeOK
  <2>3. upgraded' \in [Tasks -> Nat]
    BY <1>4 DEF BootConfirm, TypeOK
  <2>4. DirOK' /\ RestOK'
    BY <1>4, <2>2, <2>3 DEF BootConfirm, BootUnchanged, TypeOK, DirOK, RestOK, dirVars
  <2>. QED  BY <2>1, <2>4 DEF TypeOK, DirOK, SvcOK, RestOK
<1>5. ASSUME NEW kept \in SUBSET {"bak", "failed", "staged"}, BootCleanup(kept)
      PROVE TypeOK'
  <2>1. SvcOK'
    BY <1>5, BootToType DEF BootCleanup, Boots
  <2>2. faults' \in 0 .. MaxFaults
    BY <1>5, FaultType DEF BootCleanup, TypeOK
  <2>3. disk' \in [Slots -> Bins]
    <3>1. \A s \in Slots : disk[s] \in Bins /\ Delete(disk, s)[s] \in Bins
      BY FileTypes DEF TypeOK
    <3>. QED  BY <1>5, <3>1 DEF BootCleanup
  <2>4. staged' \subseteq Versions
    BY <1>5 DEF BootCleanup, TypeOK
  <2>5. DirOK' /\ RestOK'
    BY <1>5, <2>2, <2>3, <2>4 DEF BootCleanup, BootUnchanged, TypeOK, DirOK, RestOK
  <2>. QED  BY <2>1, <2>5 DEF TypeOK, DirOK, SvcOK, RestOK
<1>6. ASSUME BootLog PROVE TypeOK'
  <2>1. SvcOK'
    BY <1>6, BootToType DEF BootLog, Boots
  <2>2. fresh' \in [Tasks -> BOOLEAN]
    BY <1>6, BoundAssumption DEF BootLog, TypeOK
  <2>3. DirOK' /\ RestOK'
    BY <1>6, <2>2 DEF BootLog, BootUnchanged, TypeOK, DirOK, RestOK, dirVars
  <2>. QED  BY <2>1, <2>3 DEF TypeOK, DirOK, SvcOK, RestOK
<1>7. ASSUME SvcStops PROVE TypeOK'
  <2>1. SvcOK'
    BY <1>7, EndType DEF SvcStops
  <2>2. DirOK' /\ RestOK'
    BY <1>7 DEF SvcStops, BootUnchanged, TypeOK, DirOK, RestOK, dirVars
  <2>. QED  BY <2>1, <2>2 DEF TypeOK, DirOK, SvcOK, RestOK
<1>. QED
  BY <1>1, <1>2, <1>3, <1>4, <1>5, <1>6, <1>7 DEF Boot

-----------------------------------------------------------------------------
(* The operator keeps the types.                                           *)
LEMMA TypeOperator ==
  ASSUME TypeOK, OperatorStarts \/ \E killed \in BOOLEAN : OperatorStops(killed)
  PROVE  TypeOK'
<1>1. ASSUME OperatorStarts PROVE TypeOK'
  <2>1. SvcOK'
    BY <1>1, StartType DEF OperatorStarts, IsStopped
  <2>2. DirOK' /\ RestOK'
    BY <1>1, BoundAssumption
       DEF OperatorStarts, TypeOK, DirOK, RestOK, dirVars, upgVars, backendVars
  <2>. QED  BY <2>1, <2>2 DEF TypeOK, DirOK, SvcOK, RestOK
<1>2. ASSUME NEW killed \in BOOLEAN, OperatorStops(killed) PROVE TypeOK'
  <2>1. SvcOK'
    BY <1>2, EndType, StopType DEF OperatorStops
  <2>2. DirOK' /\ RestOK'
    BY <1>2, BoundAssumption
       DEF OperatorStops, TypeOK, DirOK, RestOK, dirVars, upgVars, backendVars
  <2>. QED  BY <2>1, <2>2 DEF TypeOK, DirOK, SvcOK, RestOK
<1>. QED  BY <1>1, <1>2

(* A refusal is counted.                                                   *)
LEMMA RefuseType ==
  ASSUME TypeOK, NEW t \in Tasks, Refuse(t) PROVE refused' \in [Tasks -> Nat]
BY DEF TypeOK, Refuse

(* The worker stays in its states.                                         *)
LEMMA JobToType ==
  ASSUME TypeOK, NEW t, NEW s \in JobStates, JobTo(t, s) PROVE job' \in [Tasks -> JobStates]
BY DEF TypeOK, JobTo

(* The upgrade process stays in its steps.                                 *)
LEMMA GotoType ==
  ASSUME TypeOK, NEW t, NEW s \in Steps, Goto(t, s) PROVE upg' \in [Tasks -> Steps]
BY DEF TypeOK, Goto

(* The staging worker and the drain goroutine keep the types.              *)
LEMMA TypeWork ==
  ASSUME TypeOK, NEW t \in Tasks,
         \/ StartJob(t) \/ DownloadFails(t) \/ WorkerDies(t) \/ Work(t)
         \/ \E err \in BOOLEAN : EnterDrainMode(t, err) \/ LaunchUpgrade(t, err)
  PROVE  TypeOK'
<1>. DEFINE Step1 == \/ StartJob(t) \/ DownloadFails(t) \/ WorkerDies(t) \/ Work(t)
<1>1. ASSUME Step1 PROVE TypeOK'
  <2>1. /\ WorkUnchanged /\ watched' \subseteq Tasks
        /\ staged' \subseteq Versions /\ pending' \in Tasks \union {NoTask}
    BY <1>1, VersionAssumption DEF TypeOK, StartJob, DownloadFails, WorkerDies, Work,
       PlaceBinary, FinishJob, WritePending
  <2>2. job' \in [Tasks -> JobStates]
    BY <1>1, JobToType DEF StartJob, DownloadFails, WorkerDies, Work,
       PlaceBinary, FinishJob, WritePending, JobStates
  <2>3. refused' \in [Tasks -> Nat]
    BY <1>1, RefuseType DEF TypeOK, StartJob, DownloadFails, WorkerDies, Work,
       PlaceBinary, FinishJob, WritePending
  <2>4. faults' \in 0 .. MaxFaults
    BY <1>1, FaultType, BoundAssumption DEF TypeOK, StartJob, DownloadFails, WorkerDies,
       Work, PlaceBinary, FinishJob, WritePending, Spend
  <2>5. SvcOK'
    BY <2>1 DEF TypeOK, SvcOK, WorkUnchanged
  <2>6. DirOK' /\ RestOK'
    BY <2>1, <2>2, <2>3, <2>4 DEF TypeOK, DirOK, RestOK, WorkUnchanged, upgVars
  <2>. QED  BY <2>5, <2>6 DEF TypeOK, DirOK, SvcOK, RestOK
<1>2. ASSUME NEW err \in BOOLEAN, EnterDrainMode(t, err) PROVE TypeOK'
  <2>1. job' \in [Tasks -> JobStates]
    BY <1>2, JobToType DEF EnterDrainMode, JobStates
  <2>2. faults' \in 0 .. MaxFaults
    BY <1>2, FaultType DEF EnterDrainMode, TypeOK
  <2>3. SvcOK'
    BY <1>2 DEF EnterDrainMode, TypeOK, SvcOK
  <2>4. DirOK' /\ RestOK'
    BY <1>2, <2>1, <2>2
       DEF EnterDrainMode, TypeOK, DirOK, RestOK, dirVars, upgVars, backendVars
  <2>. QED  BY <2>3, <2>4 DEF TypeOK, DirOK, SvcOK, RestOK
<1>3. ASSUME NEW err \in BOOLEAN, LaunchUpgrade(t, err) PROVE TypeOK'
  <2>1. upg' \in [Tasks -> Steps]
    BY <1>3 DEF LaunchUpgrade, TypeOK, Steps
  <2>2. faults' \in 0 .. MaxFaults
    BY <1>3, FaultType DEF LaunchUpgrade, TypeOK
  <2>3. SvcOK'
    BY <1>3 DEF LaunchUpgrade, TypeOK, SvcOK
  <2>4. DirOK' /\ RestOK'
    BY <1>3, <2>1, <2>2 DEF LaunchUpgrade, TypeOK, DirOK, RestOK, dirVars, backendVars
  <2>. QED  BY <2>3, <2>4 DEF TypeOK, DirOK, SvcOK, RestOK
<1>. QED  BY <1>1, <1>2, <1>3

-----------------------------------------------------------------------------
(* The upgrade process keeps the types, part by part: where it goes, what  *)
(* it does to the service, and the files.                                  *)
LEMMA StepGoes == ASSUME TypeOK, NEW t \in Tasks, Step(t) PROVE upg' \in [Tasks -> Steps]
<1>1. \E s \in Steps : Goto(t, s)
  BY DEF Step, Peek, AwaitStop, BackUp, Mark, Confirmed, PollTimesOut, UndoWait, Check,
     SendStop, StartNew, UndoStop, Restart, Invalidate, Report, BackUpFails, Swap,
     Unswap, UndoFiles, Steps
<1>. QED  BY <1>1, GotoType

LEMMA StepSvc == ASSUME TypeOK, NEW t \in Tasks, Step(t) PROVE SvcOK'
<1>1. \/ UNCHANGED svcVars
      \/ stopping' \in BOOLEAN /\ UNCHANGED <<boot, svcBin, memVars>>
      \/ StartSvc /\ boot = "off" /\ disk["exe"] # NoBin
  BY DEF Step, Peek, AwaitStop, BackUp, Mark, Confirmed, PollTimesOut, UndoWait, Check,
     SendStop, StartNew, UndoStop, Restart, Invalidate, Report, BackUpFails, Swap,
     Unswap, UndoFiles, TypeOK, IsStopped, IsRunning
<1>. QED  BY <1>1, SvcStays, StopType, StartType

LEMMA StepFiles == ASSUME TypeOK, NEW t \in Tasks, Step(t) PROVE DirOK'
<1>1. CASE FilesUnchanged /\ UpgUnchanged
  BY <1>1 DEF FilesUnchanged, UpgUnchanged, TypeOK, DirOK
<1>2. ASSUME BackUp(t) PROVE DirOK'
  BY <1>2, FileTypes DEF BackUp, UpgUnchanged, TypeOK, DirOK, Slots
<1>3. ASSUME NEW deleted \in BOOLEAN, BackUpFails(t, deleted) PROVE DirOK'
  BY <1>3, FileTypes DEF BackUpFails, UpgUnchanged, TypeOK, DirOK, Slots
<1>4. ASSUME NEW moved \in BOOLEAN, NEW restored \in BOOLEAN, Swap(t, moved, restored)
      PROVE DirOK'
  <2>1. disk' \in [Slots -> Bins]
    BY <1>4, FileTypes, VersionAssumption DEF Swap, TypeOK, Slots, Bins
  <2>. QED
    BY <1>4, <2>1 DEF Swap, UpgUnchanged, TypeOK, DirOK
<1>5. ASSUME NEW moved \in BOOLEAN, NEW restored \in BOOLEAN, Unswap(t, moved, restored)
      PROVE DirOK'
  <2>. DEFINE there == IF moved THEN [disk EXCEPT !["exe"] = NoBin] ELSE disk
  <2>1. there \in [Slots -> Bins]
    BY DEF TypeOK, Slots, Bins
  <2>2. disk' \in [Slots -> Bins]
    BY <1>5, <2>1, FileTypes DEF Unswap, Slots
  <2>3. staged' \subseteq Versions
    BY <1>5 DEF Unswap, TypeOK, Slots, Bins
  <2>. QED  BY <1>5, <2>2, <2>3 DEF Unswap, UpgUnchanged, TypeOK, DirOK
<1>6. ASSUME NEW moved \in BOOLEAN, NEW restored \in BOOLEAN, UndoFiles(t, moved, restored)
      PROVE DirOK'
  <2>. DEFINE there == IF moved THEN Rename(disk, "exe", "failed") ELSE disk
  <2>1. there \in [Slots -> Bins]
    BY FileTypes DEF TypeOK, Slots
  <2>2. disk' \in [Slots -> Bins]
    BY <1>6, <2>1, FileTypes DEF UndoFiles, Slots
  <2>. QED  BY <1>6, <2>2 DEF UndoFiles, UpgUnchanged, TypeOK, DirOK
<1>7. ASSUME NEW err \in BOOLEAN, Invalidate(t, err) PROVE DirOK'
  BY <1>7 DEF Invalidate, UpgUnchanged, TypeOK, DirOK
<1>. QED
  BY <1>1, <1>2, <1>3, <1>4, <1>5, <1>6, <1>7
     DEF Step, Peek, AwaitStop, Mark, Confirmed, PollTimesOut, UndoWait, Check,
     SendStop, StartNew, UndoStop, Restart, Report

(* Every step of the upgrade process keeps the types.                      *)
LEMMA TypeStepOfUpgrade == ASSUME TypeOK, NEW t \in Tasks, Step(t) PROVE TypeOK'
<1>1. faults' \in 0 .. MaxFaults
  BY FaultType DEF TypeOK, Step, Peek, AwaitStop, BackUp, Mark, Confirmed, PollTimesOut,
     UndoWait, Check, SendStop, StartNew, UndoStop, Restart, Invalidate, Report,
     BackUpFails, Swap, Unswap, UndoFiles
<1>2. refused' \in [Tasks -> Nat]
  BY RefuseType DEF TypeOK, Step, Peek, AwaitStop, BackUp, Mark, Confirmed, PollTimesOut,
     UndoWait, Check, SendStop, StartNew, UndoStop, Restart, Invalidate, Report,
     BackUpFails, Swap, Unswap, UndoFiles
<1>3. /\ peeked' \in [Tasks -> Tasks \union {NoTask}]
      /\ fresh' \in [Tasks -> BOOLEAN]
      /\ UpgUnchanged
  BY DEF TypeOK, Step, Peek, AwaitStop, BackUp, Mark, Confirmed, PollTimesOut,
     UndoWait, Check, SendStop, StartNew, UndoStop, Restart, Invalidate, Report,
     BackUpFails, Swap, Unswap, UndoFiles
<1>4. RestOK'
  BY <1>1, <1>2, <1>3, StepGoes DEF TypeOK, RestOK, UpgUnchanged
<1>. QED
  BY <1>4, StepSvc, StepFiles DEF TypeOK, DirOK, SvcOK, RestOK

(* Every step of the system keeps the types.                               *)
LEMMA TypeStep == TypeOK /\ [Next]_vars => TypeOK'
<1>. SUFFICES ASSUME TypeOK, [Next]_vars PROVE TypeOK'
  OBVIOUS
<1>1. CASE UNCHANGED vars
  BY <1>1 DEF vars, dirVars, svcVars, memVars, upgVars, backendVars, TypeOK
<1>2. ASSUME NEW t \in Tasks, UpgradeDies(t) PROVE TypeOK'
  <2>1. upg' \in [Tasks -> Steps]
    BY <1>2, GotoType DEF UpgradeDies, Steps
  <2>2. faults' \in 0 .. MaxFaults
    BY <1>2, BoundAssumption DEF UpgradeDies, Spend, TypeOK
  <2>. QED
    BY <1>2, <2>1, <2>2
       DEF UpgradeDies, FilesUnchanged, UpgUnchanged, svcVars, memVars, TypeOK
<1>. QED
  BY <1>1, <1>2, TypeBoot, TypeOperator, TypeWork, TypeStepOfUpgrade DEF Next

(* Every reachable state is well typed; in particular the service never    *)
(* runs without a binary, although the restarts of the rollbacks do not    *)
(* look whether there is one.                                              *)
THEOREM UpgradeTypeCorrect == Spec => []TypeOK
BY TypeInit, TypeStep, PTL DEF Spec

-----------------------------------------------------------------------------
(* One success report.  Without faults the task goes from the worker to    *)
(* the file, from there to the agent that reads it and from there to the   *)
(* backend, and is never in two of these places.                           *)
Recording(t) == job[t] \in {"idle", "downloading", "placed"}

OnceInv ==
  faults = 0 => \A t \in Tasks :
    /\ Recording(t) => pending # t /\ confirming # t /\ upgraded[t] = 0
    /\ pending = t => confirming # t /\ upgraded[t] = 0
    /\ confirming = t => upgraded[t] = 0
    /\ upgraded[t] <= 1

(* The fault counter only grows.                                           *)
LEMMA FirstFault == ASSUME TypeOK, [Next]_vars, faults' = 0 PROVE faults = 0
BY DEF TypeOK, Next, vars, Boot, BootLoad, BootPreflight, BootPending, BootConfirm,
   BootCleanup, BootLog, SvcStops, OperatorStarts, OperatorStops, StartJob,
   DownloadFails, WorkerDies, Work, PlaceBinary, FinishJob, WritePending,
   EnterDrainMode, LaunchUpgrade, Step, Peek, AwaitStop, BackUp, Mark, Confirmed,
   PollTimesOut, UndoWait, Check, SendStop, StartNew, UndoStop, Restart, Invalidate,
   Report, BackUpFails, Swap, Unswap, UndoFiles, UpgradeDies, Fault, Spend,
   UpgUnchanged, BootUnchanged

(* Most steps leave the task where it is, or take it out of a place.       *)
Stays ==
  /\ pending' \in {pending, NoTask} /\ confirming' \in {confirming, NoTask}
  /\ UNCHANGED upgraded
  /\ \A t \in Tasks : Recording(t)' => Recording(t)

(* All but the write, the read and the publication of the pending file do. *)
LEMMA OthersStay ==
  ASSUME TypeOK, [Next]_vars,
         \A t \in Tasks, err \in BOOLEAN : ~WritePending(t, err),
         \A err \in BOOLEAN : ~BootPending(err) /\ ~BootConfirm(err)
  PROVE  Stays
<1>1. CASE UNCHANGED vars
  BY <1>1 DEF vars, dirVars, svcVars, memVars, backendVars, Stays, Recording
<1>2. ASSUME Boot PROVE Stays
  BY <1>2 DEF Boot, BootLoad, BootPreflight, BootCleanup, BootLog, SvcStops, EndSvc,
     BootTo, BootUnchanged, memVars, dirVars, Stays, Recording
<1>3. ASSUME OperatorStarts \/ \E killed \in BOOLEAN : OperatorStops(killed) PROVE Stays
  BY <1>3 DEF OperatorStarts, OperatorStops, StartSvc, EndSvc, memVars, dirVars,
     backendVars, Stays, Recording
<1>4. ASSUME NEW t \in Tasks,
             StartJob(t) \/ DownloadFails(t) \/ WorkerDies(t) \/ Work(t)
      PROVE  Stays
  BY <1>4 DEF StartJob, DownloadFails, WorkerDies, Work, PlaceBinary, FinishJob, JobTo,
     WorkUnchanged, TypeOK, Stays, Recording
<1>5. ASSUME NEW t \in Tasks, NEW err \in BOOLEAN,
             EnterDrainMode(t, err) \/ LaunchUpgrade(t, err)
      PROVE  Stays
  BY <1>5 DEF EnterDrainMode, LaunchUpgrade, JobTo, dirVars, backendVars, TypeOK,
     Stays, Recording
<1>6. ASSUME NEW t \in Tasks, Step(t) \/ UpgradeDies(t) PROVE Stays
  <2>1. pending' \in {pending, NoTask} /\ UpgUnchanged
    BY <1>6 DEF Step, Peek, AwaitStop, BackUp, Mark, Confirmed, PollTimesOut, UndoWait,
       Check, SendStop, StartNew, UndoStop, Restart, Invalidate, Report, BackUpFails,
       Swap, Unswap, UndoFiles, UpgradeDies, FilesUnchanged
  <2>2. confirming' = confirming
    BY <1>6 DEF Step, Peek, AwaitStop, BackUp, Mark, Confirmed, PollTimesOut, UndoWait,
       Check, SendStop, StartNew, UndoStop, Restart, Invalidate, Report, BackUpFails,
       Swap, Unswap, UndoFiles, UpgradeDies, StartSvc, svcVars, memVars
  <2>. QED  BY <2>1, <2>2 DEF UpgUnchanged, Stays, Recording
<1>. QED  BY <1>1, <1>2, <1>3, <1>4, <1>5, <1>6 DEF Next

(* Every step of the system preserves OnceInv.                             *)
LEMMA OnceStep == ASSUME TypeOK, OnceInv, [Next]_vars PROVE OnceInv'
<1>. SUFFICES ASSUME faults' = 0
     PROVE  \A t \in Tasks :
              /\ Recording(t)' => pending' # t /\ confirming' # t /\ upgraded'[t] = 0
              /\ pending' = t => confirming' # t /\ upgraded'[t] = 0
              /\ confirming' = t => upgraded'[t] = 0
              /\ upgraded'[t] <= 1
  BY DEF OnceInv
<1>1. /\ faults = 0
      /\ \A t \in Tasks :
           /\ Recording(t) => pending # t /\ confirming # t /\ upgraded[t] = 0
           /\ pending = t => confirming # t /\ upgraded[t] = 0
           /\ confirming = t => upgraded[t] = 0
           /\ upgraded[t] <= 1
  BY FirstFault DEF OnceInv
<1>2. CASE Stays
  BY <1>1, <1>2, NullAssumption DEF Stays
<1>3. ASSUME NEW u \in Tasks, NEW err \in BOOLEAN, WritePending(u, err)
      PROVE  \A t \in Tasks :
              /\ Recording(t)' => pending' # t /\ confirming' # t /\ upgraded'[t] = 0
              /\ pending' = t => confirming' # t /\ upgraded'[t] = 0
              /\ confirming' = t => upgraded'[t] = 0
              /\ upgraded'[t] <= 1
  <2>1. Recording(u) /\ pending' \in {pending, u} /\ UNCHANGED <<confirming, upgraded>>
    BY <1>3 DEF WritePending, WorkUnchanged, Recording
  <2>2. ~Recording(u)' /\ \A t \in Tasks \ {u} : Recording(t)' => Recording(t)
    BY <1>3 DEF WritePending, JobTo, Recording, TypeOK
  <2>. QED  BY <1>1, <2>1, <2>2
<1>4. ASSUME NEW err \in BOOLEAN, BootPending(err)
      PROVE  \A t \in Tasks :
              /\ Recording(t)' => pending' # t /\ confirming' # t /\ upgraded'[t] = 0
              /\ pending' = t => confirming' # t /\ upgraded'[t] = 0
              /\ confirming' = t => upgraded'[t] = 0
              /\ upgraded'[t] <= 1
  <2>1. pending' = NoTask /\ confirming' = pending /\ UNCHANGED <<job, upgraded>>
    BY <1>1, <1>4 DEF BootPending, Fault, Spend, BootUnchanged
  <2>. QED  BY <1>1, <2>1, NullAssumption DEF Recording
<1>5. ASSUME NEW err \in BOOLEAN, BootConfirm(err)
      PROVE  \A t \in Tasks :
              /\ Recording(t)' => pending' # t /\ confirming' # t /\ upgraded'[t] = 0
              /\ pending' = t => confirming' # t /\ upgraded'[t] = 0
              /\ confirming' = t => upgraded'[t] = 0
              /\ upgraded'[t] <= 1
  <2>1. /\ pending' = pending /\ confirming' = NoTask /\ job' = job
        /\ upgraded' = [upgraded EXCEPT ![confirming] = @ + 1]
    BY <1>1, <1>5 DEF BootConfirm, Fault, Spend, BootUnchanged, dirVars
  <2>2. confirming \in Tasks
    BY <1>5 DEF BootConfirm, TypeOK
  <2>3. upgraded'[confirming] = 1 /\ \A t \in Tasks \ {confirming} : upgraded'[t] = upgraded[t]
    BY <1>1, <2>1, <2>2 DEF TypeOK
  <2>. QED  BY <1>1, <2>1, <2>2, <2>3, NullAssumption DEF Recording
<1>. QED  BY <1>2, <1>3, <1>4, <1>5, OthersStay

(* However often the agent is stopped, killed and started, a success is    *)
(* reported at most once, as long as no call fails: ReadPendingResponse    *)
(* takes the file away before the answer is published.                     *)
THEOREM ConfirmedOnceKept == Spec => []ConfirmedOnce
<1>1. Init => OnceInv
  <2>. SUFFICES ASSUME Init PROVE OnceInv
    OBVIOUS
  <2>1. \A t \in Tasks : pending # t /\ confirming # t /\ upgraded[t] = 0
    BY NullAssumption DEF Init
  <2>2. \A t \in Tasks : upgraded[t] \in Nat /\ upgraded[t] <= 1
    <3>. SUFFICES ASSUME NEW t \in Tasks PROVE upgraded[t] \in Nat /\ upgraded[t] <= 1
      OBVIOUS
    <3>1. upgraded[t] = 0
      BY DEF Init
    <3>. QED  BY <3>1
  <2>. QED  BY <2>1, <2>2 DEF OnceInv, Recording
<1>2. TypeOK /\ OnceInv /\ [Next]_vars => OnceInv'
  BY OnceStep
<1>3. OnceInv => ConfirmedOnce
  BY DEF OnceInv, ConfirmedOnce
<1>. QED  BY <1>1, <1>2, <1>3, UpgradeTypeCorrect, PTL DEF Spec

-----------------------------------------------------------------------------
(* The files.  Two upgrade processes that overlap can lose the working     *)
(* binary: the second deletes the backup of the first.  What follows is    *)
(* about the behaviours in which at most one is launched, whatever number  *)
(* of binaries is staged, services are started and calls fail.             *)
OneUpgrade == \A t, u \in Tasks : upg[t] # "none" /\ upg[u] # "none" => t = u

OnDisk(b) == b \in staged \/ \E s \in Slots : disk[s] = b

Early   == {"none", "peek", "check", "stop", "wait", "backup"}
Swapped == {"start", "unswap", "mark", "poll", "undostop", "undowait", "undofiles"}

(* The place a file is renamed to is empty, so that nothing is replaced.   *)
FilesInv ==
  /\ (\A t \in Tasks : upg[t] \in Early) => disk["bak"] = NoBin /\ disk["failed"] = NoBin
  /\ \A t \in Tasks :
       /\ upg[t] = "swap" => disk["exe"] = NoBin /\ disk["failed"] = NoBin
       /\ upg[t] \in Swapped => disk["exe"] = Target[t] /\ disk["failed"] = NoBin

(* What runs has a file, and a service past config.Load can start here.    *)
RunsInv ==
  /\ \A b \in Versions : InUse(b) => OnDisk(b)
  /\ boot \notin {"off", "load"} => svcBin \notin broken

(* A rename into an empty place loses no file, and one onto the binary of  *)
(* a running process does nothing.                                         *)
LEMMA RenameKeeps ==
  ASSUME NEW d \in [Slots -> Bins], NEW from \in Slots, NEW to \in Slots \ {from}
  PROVE  /\ d[to] = NoBin =>
              \A b \in Versions :
                (\E s \in Slots : d[s] = b) => \E s \in Slots : Rename(d, from, to)[s] = b
         /\ d[to] = NoBin => Rename(d, from, to)[from] = NoBin
         /\ InUse(d[to]) => Rename(d, from, to) = d
         /\ \A s \in Slots \ {from, to} : Rename(d, from, to)[s] = d[s]
<1>1. InUse(d[to]) => d[to] # NoBin
  BY DEF InUse
<1>2. CASE d[from] = NoBin \/ InUse(d[to])
  BY <1>1, <1>2 DEF Rename
<1>3. CASE ~(d[from] = NoBin \/ InUse(d[to]))
  <2>1. Rename(d, from, to) = [d EXCEPT ![to] = d[from], ![from] = NoBin]
    BY <1>3 DEF Rename
  <2>2. /\ Rename(d, from, to)[to] = d[from] /\ Rename(d, from, to)[from] = NoBin
        /\ \A s \in Slots \ {from, to} : Rename(d, from, to)[s] = d[s]
    BY <2>1
  <2>3. ASSUME d[to] = NoBin, NEW b \in Versions, NEW s \in Slots, d[s] = b
        PROVE  \E r \in Slots : Rename(d, from, to)[r] = b
    BY <2>2, <2>3, NullAssumption
  <2>. QED  BY <1>3, <2>2, <2>3
<1>. QED  BY <1>2, <1>3

(* An upgrade process has been launched and goes on to some step; it is    *)
(* the only one.                                                           *)
LEMMA StepOfTheOne ==
  ASSUME TypeOK, OneUpgrade, NEW t \in Tasks, Step(t)
  PROVE  /\ upg[t] \notin {"none", "done"} /\ upg'[t] # "none"
         /\ \A u \in Tasks \ {t} : upg[u] = "none" /\ upg'[u] = "none"
<1>1. \E s \in Steps \ {"none"} : Goto(t, s)
  BY DEF Step, Peek, AwaitStop, BackUp, Mark, Confirmed, PollTimesOut, UndoWait, Check,
     SendStop, StartNew, UndoStop, Restart, Invalidate, Report, BackUpFails, Swap,
     Unswap, UndoFiles, Steps
<1>2. upg[t] \notin {"none", "done"}
  BY DEF Step, Peek, AwaitStop, BackUp, Mark, Confirmed, PollTimesOut, UndoWait, Check,
     SendStop, StartNew, UndoStop, Restart, Invalidate, Report, BackUpFails, Swap,
     Unswap, UndoFiles
<1>. QED  BY <1>1, <1>2 DEF Goto, TypeOK, OneUpgrade

(* Nobody else exchanges binaries; cleanup only deletes the other two.     *)
LEMMA OthersKeepFiles ==
  ASSUME TypeOK, [Next]_vars, \A t \in Tasks : ~Step(t)
  PROVE  /\ \/ UNCHANGED disk /\ staged \subseteq staged'
            \/ \E kept \in SUBSET {"bak", "failed", "staged"} : BootCleanup(kept)
         /\ \A t \in Tasks :
              upg'[t] = upg[t] \/ (upg[t] \in Steps /\ upg'[t] \in {"peek", "done"})
<1>1. CASE UNCHANGED vars
  BY <1>1 DEF vars, dirVars, upgVars
<1>2. CASE Boot
  BY <1>2 DEF Boot, BootLoad, BootPreflight, BootPending, BootConfirm, BootLog, SvcStops,
     BootCleanup, BootUnchanged, dirVars
<1>3. CASE OperatorStarts \/ \E killed \in BOOLEAN : OperatorStops(killed)
  BY <1>3 DEF OperatorStarts, OperatorStops, dirVars, upgVars
<1>4. ASSUME NEW t \in Tasks, StartJob(t) \/ DownloadFails(t) \/ WorkerDies(t) \/ Work(t)
      PROVE  UNCHANGED <<disk, upg>> /\ staged \subseteq staged'
  BY <1>4 DEF StartJob, DownloadFails, WorkerDies, Work, PlaceBinary, FinishJob,
     WritePending, WorkUnchanged, upgVars
<1>5. ASSUME NEW t \in Tasks, NEW err \in BOOLEAN,
             EnterDrainMode(t, err) \/ LaunchUpgrade(t, err) \/ UpgradeDies(t)
      PROVE  /\ UNCHANGED <<disk, staged>>
             /\ \A u \in Tasks :
                  upg'[u] = upg[u] \/ (upg[u] \in Steps /\ upg'[u] \in {"peek", "done"})
  BY <1>5 DEF EnterDrainMode, LaunchUpgrade, UpgradeDies, Goto, FilesUnchanged, dirVars,
     upgVars, TypeOK
<1>. QED  BY <1>1, <1>2, <1>3, <1>4, <1>5 DEF Next

(* The upgrade of a task is launched at most once: the goroutine that      *)
(* waits in drain mode is entered after the job and leaves with the launch.*)
LaunchInv ==
  \A t \in Tasks :
    /\ job[t] # "done" => upg[t] = "none" /\ t \notin drainers
    /\ t \in drainers => upg[t] = "none"

(* LaunchInv is preserved by every step.                                   *)
LEMMA LaunchStep == ASSUME TypeOK, LaunchInv, [Next]_vars PROVE LaunchInv'
<1>1. ASSUME \A t \in Tasks :
               /\ upg[t] = "none" => upg'[t] = "none"
               /\ job[t] = "done" => job'[t] = "done"
               /\ t \in drainers' => t \in drainers
      PROVE  LaunchInv'
  BY <1>1 DEF LaunchInv
<1>2. CASE UNCHANGED vars
  BY <1>1, <1>2 DEF vars, svcVars, memVars, upgVars
<1>3. CASE Boot
  BY <1>1, <1>3 DEF Boot, BootLoad, BootPreflight, BootPending, BootConfirm, BootLog,
     SvcStops, BootCleanup, BootUnchanged, EndSvc, BootTo, memVars
<1>4. CASE OperatorStarts \/ \E killed \in BOOLEAN : OperatorStops(killed)
  BY <1>1, <1>4 DEF OperatorStarts, OperatorStops, StartSvc, EndSvc, memVars, upgVars
<1>5. ASSUME NEW t \in Tasks, StartJob(t) \/ DownloadFails(t) \/ WorkerDies(t) \/ Work(t)
      PROVE  LaunchInv'
  <2>1. UNCHANGED <<upg, drainers>>
    BY <1>5 DEF StartJob, DownloadFails, WorkerDies, Work, PlaceBinary, FinishJob,
       WritePending, WorkUnchanged, upgVars
  <2>2. job[t] # "done" /\ \E s : job' = [job EXCEPT ![t] = s]
    BY <1>5 DEF StartJob, DownloadFails, WorkerDies, Work, PlaceBinary, FinishJob,
       WritePending, Working, JobTo
  <2>. QED  BY <1>1, <2>1, <2>2 DEF TypeOK
<1>6. ASSUME NEW t \in Tasks, NEW err \in BOOLEAN, EnterDrainMode(t, err) PROVE LaunchInv'
  <2>1. /\ job[t] = "completed" /\ job' = [job EXCEPT ![t] = "done"] /\ upg' = upg
        /\ drainers' \in {drainers, drainers \union {t}}
    BY <1>6 DEF EnterDrainMode, JobTo, upgVars
  <2>. QED  BY <2>1 DEF LaunchInv, TypeOK
<1>7. ASSUME NEW t \in Tasks, NEW err \in BOOLEAN, LaunchUpgrade(t, err) PROVE LaunchInv'
  <2>1. /\ t \in drainers /\ drainers' = drainers \ {t} /\ job' = job
        /\ \A u \in Tasks \ {t} : upg'[u] = upg[u]
    BY <1>7 DEF LaunchUpgrade, TypeOK
  <2>. QED  BY <2>1 DEF LaunchInv
<1>8. ASSUME NEW t \in Tasks, Step(t) \/ UpgradeDies(t) PROVE LaunchInv'
  <2>1. upg[t] # "none" /\ \E s : upg' = [upg EXCEPT ![t] = s]
    BY <1>8 DEF Step, Peek, AwaitStop, BackUp, Mark, Confirmed, PollTimesOut, UndoWait,
       Check, SendStop, StartNew, UndoStop, Restart, Invalidate, Report, BackUpFails,
       Swap, Unswap, UndoFiles, UpgradeDies, Upgrading, Goto
  <2>2. UNCHANGED <<job, drainers>>
    BY <1>8 DEF Step, Peek, AwaitStop, BackUp, Mark, Confirmed, PollTimesOut, UndoWait,
       Check, SendStop, StartNew, UndoStop, Restart, Invalidate, Report, BackUpFails,
       Swap, Unswap, UndoFiles, UpgradeDies, UpgUnchanged, StartSvc, svcVars, memVars
  <2>. QED  BY <1>1, <2>1, <2>2 DEF TypeOK
<1>. QED  BY <1>2, <1>3, <1>4, <1>5, <1>6, <1>7, <1>8 DEF Next

(* The upgrade process loses no file and finds the places empty.           *)
LEMMA UpgradeFiles ==
  ASSUME TypeOK, FilesInv, OneUpgrade, NEW t \in Tasks, Step(t)
  PROVE  FilesInv' /\ \A b \in Versions : OnDisk(b) => OnDisk(b)'
<1>. DEFINE e == disk["exe"]
            OK == /\ upg'[t] \in Early => disk'["bak"] = NoBin /\ disk'["failed"] = NoBin
                  /\ upg'[t] = "swap" => disk'["exe"] = NoBin /\ disk'["failed"] = NoBin
                  /\ upg'[t] \in Swapped =>
                       disk'["exe"] = Target[t] /\ disk'["failed"] = NoBin
            Kept == \A b \in Versions : OnDisk(b) => OnDisk(b)'
<1>0. /\ disk \in [Slots -> Bins] /\ upg \in [Tasks -> Steps] /\ Target[t] \in Versions
      /\ upg[t] \in Early => disk["bak"] = NoBin /\ disk["failed"] = NoBin
      /\ upg[t] = "swap" => disk["exe"] = NoBin /\ disk["failed"] = NoBin
      /\ upg[t] \in Swapped => disk["exe"] = Target[t] /\ disk["failed"] = NoBin
  BY StepOfTheOne, VersionAssumption DEF TypeOK, FilesInv, Early
<1>1. SUFFICES OK /\ Kept
  BY StepOfTheOne DEF FilesInv, Early, Swapped
<1>2. CASE \/ Peek(t) \/ AwaitStop(t) \/ Mark(t) \/ Confirmed(t) \/ PollTimesOut(t) \/ UndoWait(t)
           \/ \E err \in BOOLEAN :
                \/ Check(t, err) \/ SendStop(t, err) \/ StartNew(t, err) \/ UndoStop(t, err)
                \/ Restart(t, err) \/ Invalidate(t, err) \/ Report(t, err)
  <2>1. UNCHANGED <<disk, staged>>
    BY <1>2 DEF FilesUnchanged, Invalidate, Peek, AwaitStop, Mark, Confirmed, PollTimesOut,
       UndoWait, Check, SendStop, StartNew, UndoStop, Restart, Report
  <2>2. Kept
    BY <2>1 DEF OnDisk
  <2>3. \/ upg[t] \in Early /\ upg'[t] \in Early \union {"report"}
        \/ upg[t] \in Swapped /\ upg'[t] \in Swapped
        \/ upg'[t] \in {"invalidate", "report", "done"}
    BY <1>0, <1>2 DEF Peek, AwaitStop, Mark, Confirmed, PollTimesOut, UndoWait, Check,
       SendStop, StartNew, UndoStop, Restart, Invalidate, Report, Goto, Early, Swapped
  <2>. QED  BY <1>0, <2>1, <2>2, <2>3 DEF Early, Swapped
<1>3. CASE BackUp(t)
  <2>1. /\ upg[t] = "backup" /\ upg'[t] = "swap" /\ staged' = staged
        /\ disk' = Rename(disk, "exe", "bak")
    BY <1>0, <1>3 DEF BackUp, Goto
  <2>. QED
    BY <1>0, <2>1, RenameKeeps DEF Slots, Early, Swapped, OnDisk
<1>4. CASE \E deleted \in BOOLEAN : BackUpFails(t, deleted)
  <2>1. /\ upg[t] = "backup" /\ upg'[t] = "report" /\ staged' = staged
        /\ disk' = Delete(disk, "bak") \/ disk' = disk
    BY <1>0, <1>4 DEF BackUpFails, Goto
  <2>2. disk' = disk
    BY <1>0, <2>1 DEF Delete, Early, Slots
  <2>. QED  BY <2>1, <2>2 DEF Early, Swapped, OnDisk
<1>5. ASSUME NEW moved \in BOOLEAN, NEW restored \in BOOLEAN, Swap(t, moved, restored)
      PROVE  OK /\ Kept
  <2>1. CASE Target[t] \in staged /\ moved
    <3>1. /\ upg[t] = "swap" /\ upg'[t] = "start" /\ staged' = staged \ {Target[t]}
          /\ disk' = [disk EXCEPT !["exe"] = Target[t]]
      BY <1>0, <1>5, <2>1 DEF Swap, Goto
    <3>2. /\ disk'["exe"] = Target[t]
          /\ \A s \in Slots \ {"exe"} : disk'[s] = disk[s]
      BY <1>0, <3>1 DEF Slots
    <3>3. Kept
      BY <1>0, <3>1, <3>2, NullAssumption DEF OnDisk, Slots
    <3>. QED  BY <1>0, <3>1, <3>2, <3>3 DEF Early, Swapped, Slots
  <2>2. CASE ~(Target[t] \in staged /\ moved)
    <3>1. /\ upg[t] = "swap" /\ upg'[t] = "invalidate" /\ staged' = staged
          /\ disk' = Rename(disk, "bak", "exe") \/ disk' = disk
      BY <1>0, <1>5, <2>2 DEF Swap, Goto
    <3>2. Kept
      BY <1>0, <3>1, RenameKeeps DEF OnDisk, Slots
    <3>. QED  BY <3>1, <3>2 DEF Early, Swapped
  <2>. QED  BY <2>1, <2>2
<1>6. InUse(Target[t])
  BY <1>0, StepOfTheOne, NullAssumption DEF InUse, Upgrading
<1>7. ASSUME NEW moved \in BOOLEAN, NEW restored \in BOOLEAN, Unswap(t, moved, restored)
      PROVE  OK /\ Kept
  <2>. DEFINE there == IF moved THEN [disk EXCEPT !["exe"] = NoBin] ELSE disk
  <2>1. /\ upg[t] = "unswap" /\ upg'[t] = "restart"
        /\ staged' = IF moved THEN staged \union ({disk["exe"]} \ {NoBin}) ELSE staged
        /\ disk' = IF restored THEN Rename(there, "bak", "exe") ELSE there
    BY <1>0, <1>7 DEF Unswap, Goto
  <2>2. disk["exe"] = Target[t]
    BY <1>0, <2>1 DEF Swapped
  <2>3. there \in [Slots -> Bins]
    BY <1>0 DEF Slots, Bins
  <2>4. there["exe"] = NoBin \/ InUse(there["exe"])
    BY <1>0, <1>6, <2>2 DEF Slots
  <2>5. ASSUME NEW b \in Versions, \E s \in Slots : there[s] = b
        PROVE  \E s \in Slots : disk'[s] = b
    BY <2>1, <2>3, <2>4, <2>5, RenameKeeps DEF Slots
  <2>6. ASSUME NEW b \in Versions, NEW s \in Slots, disk[s] = b
        PROVE  b \in staged' \/ \E r \in Slots : there[r] = b
    BY <1>0, <2>1, <2>6, NullAssumption DEF Slots
  <2>7. Kept
    BY <2>1, <2>5, <2>6 DEF OnDisk
  <2>. QED  BY <2>1, <2>7 DEF Early, Swapped
<1>8. ASSUME NEW moved \in BOOLEAN, NEW restored \in BOOLEAN, UndoFiles(t, moved, restored)
      PROVE  OK /\ Kept
  <2>. DEFINE there == IF moved THEN Rename(disk, "exe", "failed") ELSE disk
  <2>1. /\ upg[t] = "undofiles" /\ upg'[t] = "restart" /\ staged' = staged
        /\ disk' = IF restored THEN Rename(there, "bak", "exe") ELSE there
    BY <1>0, <1>8 DEF UndoFiles, Goto
  <2>2. disk["exe"] = Target[t] /\ disk["failed"] = NoBin
    BY <1>0, <2>1 DEF Swapped
  <2>3. there \in [Slots -> Bins]
    BY <1>0, FileTypes DEF Slots
  <2>4. there["exe"] = NoBin \/ InUse(there["exe"])
    BY <1>0, <1>6, <2>2, RenameKeeps DEF Slots
  <2>5. ASSUME NEW b \in Versions, \E s \in Slots : there[s] = b
        PROVE  \E s \in Slots : disk'[s] = b
    BY <2>1, <2>3, <2>4, <2>5, RenameKeeps DEF Slots
  <2>6. ASSUME NEW b \in Versions, \E s \in Slots : disk[s] = b
        PROVE  \E s \in Slots : there[s] = b
    BY <1>0, <2>2, <2>6, RenameKeeps DEF Slots
  <2>7. Kept
    BY <2>1, <2>5, <2>6 DEF OnDisk
  <2>. QED  BY <2>1, <2>7 DEF Early, Swapped
<1>. QED
  BY <1>2, <1>3, <1>4, <1>5, <1>7, <1>8 DEF Step, Peek, AwaitStop, Mark, Confirmed,
     PollTimesOut, UndoWait, Check, SendStop, StartNew, UndoStop, Restart, Report

(* FilesInv is preserved by every step of a behaviour with one upgrade.    *)
LEMMA FilesStep ==
  ASSUME TypeOK, LaunchInv, FilesInv, OneUpgrade, OneUpgrade', [Next]_vars PROVE FilesInv'
<1>1. CASE \E t \in Tasks : Step(t)
  BY <1>1, UpgradeFiles
<1>2. CASE \A t \in Tasks : ~Step(t)
  <2>1. /\ UNCHANGED disk \/ \E kept \in SUBSET {"bak", "failed", "staged"} : BootCleanup(kept)
        /\ \A t \in Tasks :
             upg'[t] = upg[t] \/ (upg[t] \in Steps /\ upg'[t] \in {"peek", "done"})
    BY <1>2, OthersKeepFiles
  <2>2. /\ disk'["exe"] = disk["exe"]
        /\ \A s \in {"bak", "failed"} : disk[s] = NoBin => disk'[s] = NoBin
    BY <2>1 DEF BootCleanup, Delete, TypeOK, Slots
  <2>3. \A t \in Tasks : upg'[t] = "peek" /\ upg[t] # "peek" => upg[t] = "none"
    BY <1>2 DEF Next, vars, Boot, BootLoad, BootPreflight, BootPending, BootConfirm,
       BootLog, SvcStops, BootCleanup, BootUnchanged, OperatorStarts, OperatorStops,
       StartJob, DownloadFails, WorkerDies, Work, PlaceBinary, FinishJob, WritePending,
       WorkUnchanged, EnterDrainMode, LaunchUpgrade, UpgradeDies, Goto, upgVars, TypeOK,
       LaunchInv
  <2>4. ASSUME \A t \in Tasks : upg'[t] \in Early
        PROVE  disk'["bak"] = NoBin /\ disk'["failed"] = NoBin
    <3>1. \A t \in Tasks : upg[t] \in Early
      BY <2>1, <2>3, <2>4 DEF Early
    <3>. QED  BY <2>2, <3>1 DEF FilesInv
  <2>5. \A t \in Tasks : upg'[t] \in {"swap"} \union Swapped => upg'[t] = upg[t]
    BY <2>1 DEF Swapped
  <2>. QED  BY <2>2, <2>4, <2>5 DEF FilesInv
<1>. QED  BY <1>1, <1>2

(* A file is lost only by the cleanup, and then nobody runs it.            *)
LEMMA FilesKept ==
  ASSUME TypeOK, FilesInv, OneUpgrade, [Next]_vars, NEW b \in Versions, OnDisk(b), ~OnDisk(b)'
  PROVE  ~InUse(b) /\ \E kept \in SUBSET {"bak", "failed", "staged"} : BootCleanup(kept)
<1>1. \A t \in Tasks : ~Step(t)
  BY UpgradeFiles
<1>2. ~(UNCHANGED disk /\ staged \subseteq staged')
  BY DEF OnDisk
<1>3. PICK kept \in SUBSET {"bak", "failed", "staged"} : BootCleanup(kept)
  BY <1>1, <1>2, OthersKeepFiles
<1>4. ASSUME InUse(b) PROVE FALSE
  <2>1. \A s \in Slots : disk[s] = b => disk'[s] = b
    BY <1>3, <1>4 DEF BootCleanup, Delete
  <2>2. b \in staged => b \in staged'
    BY <1>3, <1>4 DEF BootCleanup
  <2>. QED  BY <2>1, <2>2 DEF OnDisk
<1>. QED  BY <1>3, <1>4

(* The service runs what it ran, nothing, or the file ovc-agent.exe.       *)
LEMMA ServiceBinary == ASSUME TypeOK, [Next]_vars PROVE svcBin' \in {svcBin, NoBin, disk["exe"]}
<1>1. CASE UNCHANGED svcVars \/ UNCHANGED vars
  BY <1>1 DEF svcVars, vars
<1>2. CASE Boot
  BY <1>2 DEF Boot, BootLoad, BootPreflight, BootPending, BootConfirm, BootLog, SvcStops,
     BootCleanup, EndSvc, BootTo
<1>3. CASE OperatorStarts \/ \E killed \in BOOLEAN : OperatorStops(killed)
  BY <1>3 DEF OperatorStarts, OperatorStops, StartSvc, EndSvc
<1>4. ASSUME NEW t \in Tasks, \/ StartJob(t) \/ DownloadFails(t) \/ WorkerDies(t) \/ Work(t)
                              \/ \E err \in BOOLEAN :
                                   EnterDrainMode(t, err) \/ LaunchUpgrade(t, err)
      PROVE  svcBin' = svcBin
  BY <1>4 DEF StartJob, DownloadFails, WorkerDies, Work, PlaceBinary, FinishJob,
     WritePending, WorkUnchanged, EnterDrainMode, LaunchUpgrade
<1>5. ASSUME NEW t \in Tasks, Step(t) \/ UpgradeDies(t)
      PROVE  svcBin' \in {svcBin, disk["exe"]}
  BY <1>5 DEF Step, Peek, AwaitStop, BackUp, Mark, Confirmed, PollTimesOut, UndoWait,
     Check, SendStop, StartNew, UndoStop, Restart, Invalidate, Report, BackUpFails,
     Swap, Unswap, UndoFiles, UpgradeDies, StartSvc, svcVars
<1>. QED  BY <1>1, <1>2, <1>3, <1>4, <1>5 DEF Next

(* A process is started from a file that is there.                         *)
LEMMA UsersHaveFiles ==
  ASSUME TypeOK, [Next]_vars, NEW b \in Versions, InUse(b)' PROVE InUse(b) \/ OnDisk(b)
<1>1. b # NoBin
  BY NullAssumption
<1>2. svcBin' \in {svcBin, NoBin, disk["exe"]}
  BY ServiceBinary
<1>3. ASSUME NEW t \in Tasks, Upgrading(t)', ~Upgrading(t) PROVE Target[t] \in staged
  <2>1. ~\E u \in Tasks : Step(u)
    BY <1>3 DEF Step, Peek, AwaitStop, BackUp, Mark, Confirmed, PollTimesOut, UndoWait,
       Check, SendStop, StartNew, UndoStop, Restart, Invalidate, Report, BackUpFails,
       Swap, Unswap, UndoFiles, Goto, Upgrading, TypeOK
  <2>2. ~UNCHANGED upg
    BY <1>3 DEF Upgrading
  <2>3. \E u \in Tasks, err \in BOOLEAN : LaunchUpgrade(u, err) \/ UpgradeDies(u)
    BY <2>1, <2>2 DEF Next, vars, Boot, BootLoad, BootPreflight, BootPending, BootConfirm,
       BootLog, SvcStops, BootCleanup, BootUnchanged, OperatorStarts, OperatorStops,
       StartJob, DownloadFails, WorkerDies, Work, PlaceBinary, FinishJob, WritePending,
       WorkUnchanged, EnterDrainMode, upgVars
  <2>. QED  BY <1>3, <2>3 DEF LaunchUpgrade, UpgradeDies, Goto, Upgrading, TypeOK
<1>. QED  BY <1>1, <1>2, <1>3 DEF InUse, OnDisk, Slots

(* Whatever runs has a file, and only a binary that loads gets past load.  *)
LEMMA RunsStep ==
  ASSUME TypeOK, FilesInv, OneUpgrade, RunsInv, [Next]_vars PROVE RunsInv'
<1>1. ASSUME NEW b \in Versions, InUse(b)' PROVE OnDisk(b)'
  <2>1. OnDisk(b)
    BY <1>1, UsersHaveFiles DEF RunsInv
  <2>2. ASSUME NEW kept \in SUBSET {"bak", "failed", "staged"}, BootCleanup(kept)
        PROVE  InUse(b)
    BY <1>1, <2>2 DEF BootCleanup, BootTo, BootUnchanged, InUse, Upgrading
  <2>. QED  BY <2>1, <2>2, FilesKept
<1>2. boot' \notin {"off", "load"} => svcBin' \notin broken'
  <2>1. CASE UNCHANGED vars
    BY <2>1 DEF vars, svcVars, dirVars, RunsInv
  <2>2. CASE Boot
    BY <2>2 DEF Boot, BootLoad, BootPreflight, BootPending, BootConfirm, BootLog, SvcStops,
       BootCleanup, EndSvc, BootTo, dirVars, RunsInv
  <2>3. CASE OperatorStarts \/ \E killed \in BOOLEAN : OperatorStops(killed)
    BY <2>3 DEF OperatorStarts, OperatorStops, StartSvc, EndSvc, dirVars, RunsInv
  <2>4. ASSUME NEW t \in Tasks, \/ StartJob(t) \/ DownloadFails(t) \/ WorkerDies(t) \/ Work(t)
                                \/ \E err \in BOOLEAN :
                                     EnterDrainMode(t, err) \/ LaunchUpgrade(t, err)
        PROVE  UNCHANGED <<boot, svcBin, broken>>
    BY <2>4 DEF StartJob, DownloadFails, WorkerDies, Work, PlaceBinary, FinishJob,
       WritePending, WorkUnchanged, EnterDrainMode, LaunchUpgrade, dirVars
  <2>5. ASSUME NEW t \in Tasks, Step(t) \/ UpgradeDies(t)
        PROVE  broken' = broken /\ (UNCHANGED <<boot, svcBin>> \/ boot' = "load")
    BY <2>5 DEF Step, Peek, AwaitStop, BackUp, Mark, Confirmed, PollTimesOut, UndoWait,
       Check, SendStop, StartNew, UndoStop, Restart, Invalidate, Report, BackUpFails,
       Swap, Unswap, UndoFiles, UpgradeDies, StartSvc, UpgUnchanged, svcVars
  <2>. QED  BY <2>1, <2>2, <2>3, <2>4, <2>5 DEF Next, RunsInv
<1>. QED  BY <1>1, <1>2 DEF RunsInv

(* The set of versions that cannot start here does not change.             *)
LEMMA BrokenStays == ASSUME [Next]_vars PROVE broken' = broken
BY DEF Next, vars, dirVars, Boot, BootLoad, BootPreflight, BootPending, BootConfirm,
   BootLog, SvcStops, BootCleanup, OperatorStarts, OperatorStops, StartJob,
   DownloadFails, WorkerDies, Work, PlaceBinary, FinishJob, WritePending, WorkUnchanged,
   EnterDrainMode, LaunchUpgrade, Step, Peek, AwaitStop, BackUp, Mark, Confirmed,
   PollTimesOut, UndoWait, Check, SendStop, StartNew, UndoStop, Restart, Invalidate,
   Report, BackUpFails, Swap, Unswap, UndoFiles, UpgradeDies, UpgUnchanged

(* A cleanup that deletes a working binary is the work of another one.     *)
LEMMA WorkingStep ==
  ASSUME TypeOK, FilesInv, OneUpgrade, RunsInv, WorkingBinaryOnDisk, [Next]_vars
  PROVE  WorkingBinaryOnDisk'
<1>1. PICK b \in Versions \ broken : OnDisk(b)
  BY DEF WorkingBinaryOnDisk, OnDisk
<1>2. SUFFICES \E w \in Versions \ broken : OnDisk(w)'
  BY BrokenStays DEF WorkingBinaryOnDisk, OnDisk
<1>3. CASE OnDisk(b)'
  BY <1>1, <1>3
<1>4. CASE ~OnDisk(b)'
  <2>1. PICK kept \in SUBSET {"bak", "failed", "staged"} : BootCleanup(kept)
    BY <1>1, <1>4, FilesKept
  <2>2. svcBin \in Versions \ broken /\ InUse(svcBin)
    BY <2>1 DEF BootCleanup, TypeOK, RunsInv, InUse, Bins
  <2>. QED  BY <2>2, FilesKept DEF RunsInv
<1>. QED  BY <1>3, <1>4

(* Whatever fails, dies or is restarted during an upgrade, a binary that   *)
(* starts on this host survives in the directory: renames find their       *)
(* target empty or in use, and a cleanup runs only from a binary that      *)
(* itself starts.                                                          *)
THEOREM WorkingBinaryKept == Spec /\ []OneUpgrade => []WorkingBinaryOnDisk
<1>1. Init => LaunchInv /\ FilesInv /\ RunsInv /\ WorkingBinaryOnDisk
  <2>. SUFFICES ASSUME Init PROVE LaunchInv /\ FilesInv /\ RunsInv /\ WorkingBinaryOnDisk
    OBVIOUS
  <2>1. LaunchInv /\ FilesInv
    BY DEF Init, LaunchInv, FilesInv, Slots, Swapped
  <2>2. disk["exe"] = Old /\ "exe" \in Slots /\ Old \in Versions \ broken
    BY VersionAssumption DEF Init, Slots
  <2>3. \A b \in Versions : InUse(b) => b = Old
    BY DEF Init, InUse, Upgrading
  <2>4. OnDisk(Old) /\ svcBin = Old
    BY <2>2 DEF OnDisk, Init
  <2>. QED  BY <2>1, <2>2, <2>3, <2>4 DEF RunsInv, WorkingBinaryOnDisk
<1>2. TypeOK /\ LaunchInv /\ [Next]_vars => LaunchInv'
  BY LaunchStep
<1>3. TypeOK /\ LaunchInv /\ FilesInv /\ OneUpgrade /\ OneUpgrade' /\ [Next]_vars => FilesInv'
  BY FilesStep
<1>4. TypeOK /\ FilesInv /\ OneUpgrade /\ RunsInv /\ [Next]_vars => RunsInv'
  BY RunsStep
<1>5. TypeOK /\ FilesInv /\ OneUpgrade /\ RunsInv /\ WorkingBinaryOnDisk /\ [Next]_vars
        => WorkingBinaryOnDisk'
  BY WorkingStep
<1>. QED  BY <1>1, <1>2, <1>3, <1>4, <1>5, UpgradeTypeCorrect, PTL DEF Spec

-----------------------------------------------------------------------------
(* The verdict of the upgrade process.                                     *)

(* From the start of the new service to the verdict the service is the new *)
(* one or stopped, and the log of a version that cannot start stays silent.*)
VerdictInv ==
  \A t \in Tasks :
    /\ upg[t] \in {"mark", "poll"} => svcBin \in {NoBin, Target[t]}
    /\ upg[t] = "poll" /\ Target[t] \in broken => ~fresh[t]

(* How a process comes to mark and poll the log.                           *)
LEMMA PollSource ==
  ASSUME TypeOK, [Next]_vars, NEW t \in Tasks, upg'[t] \in {"mark", "poll"}, upg'[t] # upg[t]
  PROVE  \/ upg[t] = "start" /\ upg'[t] = "mark" /\ svcBin' = disk["exe"]
         \/ upg[t] = "mark" /\ upg'[t] = "poll" /\ svcBin' = svcBin /\ fresh'[t] = FALSE
<1>1. PICK u \in Tasks : Step(u)
  BY OthersKeepFiles
<1>2. u = t
  <2>1. \E s : Goto(u, s)
    BY <1>1 DEF Step, Peek, AwaitStop, BackUp, Mark, Confirmed, PollTimesOut, UndoWait,
       Check, SendStop, StartNew, UndoStop, Restart, Invalidate, Report, BackUpFails,
       Swap, Unswap, UndoFiles
  <2>. QED  BY <2>1 DEF Goto, TypeOK
<1>3. Mark(t) \/ \E err \in BOOLEAN : StartNew(t, err)
  BY <1>1, <1>2 DEF Step, Peek, AwaitStop, BackUp, Confirmed, PollTimesOut, UndoWait,
     Check, SendStop, UndoStop, Restart, Invalidate, Report, BackUpFails, Swap, Unswap,
     UndoFiles, Goto, TypeOK
<1>4. CASE Mark(t)
  BY <1>4 DEF Mark, Goto, TypeOK, svcVars
<1>5. ASSUME NEW err \in BOOLEAN, StartNew(t, err)
      PROVE  upg[t] = "start" /\ upg'[t] = "mark" /\ svcBin' = disk["exe"]
  BY <1>5 DEF StartNew, Goto, StartSvc, TypeOK
<1>. QED  BY <1>3, <1>4, <1>5

(* A line in the log comes from a binary that has loaded.                  *)
LEMMA FreshSource ==
  ASSUME TypeOK, RunsInv, [Next]_vars, NEW t \in Tasks, fresh'[t], ~fresh[t]
  PROVE  svcBin \in Versions \ broken
<1>1. BootLog
  BY DEF Next, vars, upgVars, Boot, BootLoad, BootPreflight, BootPending, BootConfirm,
     SvcStops, BootCleanup, OperatorStarts, OperatorStops, StartJob, DownloadFails,
     WorkerDies, Work, PlaceBinary, FinishJob, WritePending, WorkUnchanged,
     EnterDrainMode, LaunchUpgrade, Step, Peek, AwaitStop, BackUp, Mark, Confirmed,
     PollTimesOut, UndoWait, Check, SendStop, StartNew, UndoStop, Restart, Invalidate,
     Report, BackUpFails, Swap, Unswap, UndoFiles, UpgradeDies, TypeOK
<1>. QED  BY <1>1 DEF BootLog, TypeOK, Bins, RunsInv

(* VerdictInv is preserved by every step of a behaviour with one upgrade.  *)
LEMMA VerdictStep ==
  ASSUME TypeOK, FilesInv, RunsInv, VerdictInv, [Next]_vars PROVE VerdictInv'
<1>. SUFFICES ASSUME NEW t \in Tasks, upg'[t] \in {"mark", "poll"}
              PROVE  /\ svcBin' \in {NoBin, Target[t]}
                     /\ upg'[t] = "poll" /\ Target[t] \in broken => ~fresh'[t]
  BY BrokenStays DEF VerdictInv
<1>1. CASE upg'[t] = upg[t]
  <2>1. disk["exe"] = Target[t] /\ svcBin \in {NoBin, Target[t]}
    BY <1>1 DEF FilesInv, VerdictInv, Swapped
  <2>2. upg[t] = "poll" /\ Target[t] \in broken => ~fresh'[t]
    BY <2>1, FreshSource, NullAssumption DEF VerdictInv, TypeOK
  <2>. QED  BY <1>1, <2>1, <2>2, ServiceBinary
<1>2. CASE upg'[t] # upg[t]
  BY <1>2, PollSource DEF FilesInv, VerdictInv, Swapped
<1>. QED  BY <1>1, <1>2

(* An upgrade process never ends with success for a version that does not  *)
(* start on this host, whatever lines older boots have left in the log,    *)
(* and however the service is stopped and started during the upgrade.      *)
THEOREM NeverConfirmedBroken == Spec /\ []OneUpgrade => BrokenNeverConfirmed
<1>1. Init => LaunchInv /\ FilesInv /\ RunsInv /\ VerdictInv
  <2>. SUFFICES ASSUME Init PROVE LaunchInv /\ FilesInv /\ RunsInv /\ VerdictInv
    OBVIOUS
  <2>1. LaunchInv /\ FilesInv /\ VerdictInv
    BY DEF Init, LaunchInv, FilesInv, VerdictInv, Slots, Swapped
  <2>2. disk["exe"] = Old /\ "exe" \in Slots /\ Old \notin broken
    BY DEF Init, Slots
  <2>. QED  BY <2>1, <2>2 DEF Init, InUse, Upgrading, OnDisk, RunsInv
<1>2. TypeOK /\ LaunchInv /\ [Next]_vars => LaunchInv'
  BY LaunchStep
<1>3. TypeOK /\ LaunchInv /\ FilesInv /\ OneUpgrade /\ OneUpgrade' /\ [Next]_vars => FilesInv'
  BY FilesStep
<1>4. TypeOK /\ FilesInv /\ OneUpgrade /\ RunsInv /\ [Next]_vars => RunsInv'
  BY RunsStep
<1>5. TypeOK /\ FilesInv /\ RunsInv /\ VerdictInv /\ [Next]_vars => VerdictInv'
  BY VerdictStep
<1>6. ASSUME TypeOK, VerdictInv, [Next]_vars
      PROVE  \A t \in Tasks :
               Target[t] \in broken =>
                 ~(upg[t] = "poll" /\ upg'[t] = "done" /\ faults' = faults)
  <2>. SUFFICES ASSUME NEW t \in Tasks, Target[t] \in broken, upg[t] = "poll",
                       upg'[t] = "done"
                PROVE  faults' # faults
    OBVIOUS
  <2>1. ~fresh[t] /\ TypeOK
    BY <1>6 DEF VerdictInv
  <2>2. ASSUME NEW u \in Tasks, UpgradeDies(u) PROVE faults' # faults
    BY <2>1, <2>2, BoundAssumption DEF UpgradeDies, Spend, TypeOK
  <2>3. ASSUME NEW u \in Tasks, Step(u) PROVE FALSE
    <3>1. u = t
      <4>1. \E s : Goto(u, s)
        BY <2>3 DEF Step, Peek, AwaitStop, BackUp, Mark, Confirmed, PollTimesOut,
           UndoWait, Check, SendStop, StartNew, UndoStop, Restart, Invalidate, Report,
           BackUpFails, Swap, Unswap, UndoFiles
      <4>. QED  BY <2>1, <4>1 DEF Goto, TypeOK
    <3>. QED
      BY <2>1, <2>3, <3>1 DEF Step, Peek, AwaitStop, BackUp, Mark, Confirmed,
         PollTimesOut, UndoWait, Check, SendStop, StartNew, UndoStop, Restart,
         Invalidate, Report, BackUpFails, Swap, Unswap, UndoFiles, Goto, TypeOK
  <2>4. \E u \in Tasks : Step(u) \/ UpgradeDies(u)
    BY <1>6, <2>1 DEF Next, vars, upgVars, Boot, BootLoad, BootPreflight, BootPending, BootConfirm,
       BootLog, SvcStops, BootCleanup, BootUnchanged, OperatorStarts, OperatorStops,
       StartJob, DownloadFails, WorkerDies, Work, PlaceBinary, FinishJob, WritePending,
       WorkUnchanged, EnterDrainMode, LaunchUpgrade, TypeOK
  <2>. QED  BY <2>2, <2>3, <2>4
<1>. QED
  BY <1>1, <1>2, <1>3, <1>4, <1>5, <1>6, UpgradeTypeCorrect, PTL
  DEF Spec, BrokenNeverConfirmed

=============================================================================
