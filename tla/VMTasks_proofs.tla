---------------------------- MODULE VMTasks_proofs ----------------------------
(* Theorems about VMTasks, for every host, every set of tasks and requests and any    *)
(* number of failures: the types, and that an edit that answers completed was applied. *)
EXTENDS VMTasks, TLAPS

-----------------------------------------------------------------------------
(* Control: where a handler can be *)

EditSteps == {"vm_edit", "edit.set", "edit.disks", "edit.add", "edit.grow", "edit.remove",
              "edit.wipe", "edit.nics", "edit.end"}
BatchSteps == {"vm_batch", "batch.next"}
Rest == {"waiting", "done", "killed"}

\* s is a step of the handler of t. Of most handlers it is enough to know what they are not.
InHandler(t, s) ==
  IF Op(t) = "vm_edit" THEN s \in EditSteps
  ELSE IF Op(t) = "vm_batch" THEN s \in BatchSteps
  ELSE s \notin EditSteps \cup BatchSteps \cup Rest /\ (s = "resolve" => Op(t) \in ManageOps)

LocFields == {"vm", "name", "home", "dest", "disks", "done", "failed", "ok", "nics"}

ControlInv ==
  /\ DOMAIN pc = Tasks /\ DOMAIN loc = Tasks
  /\ request \in Scenarios
  /\ \A t \in Tasks : DOMAIN loc[t] = LocFields /\ (Busy(t) => InHandler(t, pc[t]))

States == {"Off", "Running", "Paused"}
Media == {"none", "empty", "iso"}

VMOk(vm) ==
  /\ DOMAIN vm = VMFields
  /\ vm.state \in States /\ vm.dvd \in Media /\ vm.snaps \in Nat /\ vm.nics \in Nat

VMsInv ==
  /\ \A v \in Ids : VMOk(vms[v])
  /\ made \in Nat /\ Ids \subseteq 1..made

HostInv == VMsInv /\ fixed \subseteq vhds

TInv == TypeOK /\ ControlInv /\ HostInv

\* The handler of t goes on to a step of its own or answers, and touches no other task.
Proceeds(t) ==
  /\ request' = request /\ site' = site /\ acts' = acts
  /\ DOMAIN pc' = Tasks /\ DOMAIN loc' = Tasks /\ DOMAIN loc'[t] = LocFields
  /\ answer' \in [Tasks -> {"none", "completed", "failed"}]
  /\ \A u \in Tasks \ {t} : pc'[u] = pc[u] /\ loc'[u] = loc[u] /\ answer'[u] = answer[u]
  /\ \/ InHandler(t, pc'[t]) /\ answer'[t] = "none"
     \/ pc'[t] \in {"done", "killed"} /\ answer'[t] \in {"completed", "failed"}

(* The two ways a step ends, going on and answering, proceed. *)
LEMMA GoProceeds ==
  ASSUME TInv, NEW t \in Tasks, pc[t] = "waiting" \/ Busy(t)
  PROVE  /\ \A s, l : GoWith(t, s, l) /\ InHandler(t, s) /\ DOMAIN l = LocFields => Proceeds(t)
         /\ \A s : Go(t, s) /\ InHandler(t, s) => Proceeds(t)
         /\ \A a \in {"completed", "failed"} : Answer(t, a) => Proceeds(t)
         /\ Fail(t) => Proceeds(t)
<1>1. \A s, l : GoWith(t, s, l) /\ InHandler(t, s) /\ DOMAIN l = LocFields => Proceeds(t)
  BY DEF TInv, TypeOK, ControlInv, GoWith, Proceeds, Outside
<1>2. \A s : Go(t, s) /\ InHandler(t, s) => Proceeds(t)
  BY <1>1 DEF Go, TInv, ControlInv
<1>3. \A a \in {"completed", "failed"} : Answer(t, a) => Proceeds(t)
  BY DEF TInv, TypeOK, ControlInv, Answer, Proceeds, Outside
<1>4. Fail(t) => Proceeds(t)
  BY <1>3 DEF Fail
<1>5. QED
  BY <1>1, <1>2, <1>3, <1>4

(* A step of vm_create, vm_clone or vm_delete proceeds. *)
LEMMA ProvisionProceeds ==
  ASSUME TInv, NEW t \in Tasks, ProvisionStep(t)
  PROVE  Proceeds(t)
<1>1. \A s, l : Busy(t) /\ GoWith(t, s, l) /\ InHandler(t, s) /\ DOMAIN l = LocFields => Proceeds(t)
  BY GoProceeds
<1>2. \A s : (pc[t] = "waiting" \/ Busy(t)) /\ Go(t, s) /\ InHandler(t, s) => Proceeds(t)
  BY GoProceeds
<1>3. Busy(t) /\ (Answer(t, "completed") \/ Answer(t, "failed") \/ Fail(t)) => Proceeds(t)
  BY GoProceeds
<1>4. DOMAIN loc[t] = LocFields /\ (Busy(t) => InHandler(t, pc[t]))
  BY DEF TInv, ControlInv
<1> USE DEF At, Busy, Op, InHandler, EditSteps, BatchSteps, Rest
<1>5. CASE request[t].op = "vm_create" /\ Begin(t, "create.space")
  BY <1>5, <1>2 DEF Begin, ManageOps
<1>6. CASE request[t].op = "vm_clone" /\ Begin(t, "clone.space")
  BY <1>6, <1>2 DEF Begin, ManageOps
<1>7. CASE CreateSpace(t)
  BY <1>7, <1>1, <1>2, <1>3, <1>4 DEF CreateSpace, Space
<1>8. CASE CreateCheck(t)
  BY <1>8, <1>1, <1>2, <1>3, <1>4 DEF CreateCheck
<1>9. CASE CreateDisk(t)
  BY <1>9, <1>1, <1>2, <1>3, <1>4 DEF CreateDisk
<1>10. CASE CreateVM(t)
  BY <1>10, <1>1, <1>2, <1>3, <1>4 DEF CreateVM
<1>11. CASE CreateAttach(t)
  BY <1>11, <1>1, <1>2, <1>3, <1>4 DEF CreateAttach
<1>12. CASE Settle(t)
  BY <1>12, <1>1, <1>2, <1>3, <1>4 DEF Settle
<1>13. CASE FindId(t)
  BY <1>13, <1>1, <1>2, <1>3, <1>4 DEF FindId
<1>14. CASE PowerOn(t)
  BY <1>14, <1>1, <1>2, <1>3, <1>4 DEF PowerOn
<1>15. CASE CloneSpace(t)
  BY <1>15, <1>1, <1>2, <1>3, <1>4 DEF CloneSpace, Space
<1>16. CASE CloneCheck(t)
  BY <1>16, <1>1, <1>2, <1>3, <1>4 DEF CloneCheck
<1>17. CASE CloneSource(t)
  BY <1>17, <1>1, <1>2, <1>3, <1>4 DEF CloneSource
<1>18. CASE CloneExport(t)
  BY <1>18, <1>1, <1>2, <1>3, <1>4 DEF CloneExport
<1>19. CASE CloneImport(t)
  BY <1>19, <1>1, <1>2, <1>3, <1>4 DEF CloneImport
<1>20. CASE CloneName(t)
  BY <1>20, <1>1, <1>2, <1>3, <1>4 DEF CloneName
<1>21. CASE CloneDisk(t)
  <2>1. /\ Busy(t) /\ InHandler(t, "clone.tidy")
        /\ InHandler(t, "clone.point") /\ InHandler(t, "clone.undo")
    BY <1>21, <1>4 DEF CloneDisk
  <2> HIDE DEF Busy, InHandler, Op, EditSteps, BatchSteps, Rest
  <2>2. \A x : DOMAIN [loc[t] EXCEPT !.disks = x] = LocFields
    BY <1>4
  <2>3. QED
    BY <1>21, <1>1, <1>2, <1>3, <2>1, <2>2 DEF CloneDisk
<1>22. CASE ClonePoint(t)
  BY <1>22, <1>1, <1>2, <1>3, <1>4 DEF ClonePoint
<1>23. CASE CloneUndo(t)
  BY <1>23, <1>1, <1>2, <1>3, <1>4 DEF CloneUndo
<1>24. CASE CloneTidy(t)
  BY <1>24, <1>1, <1>2, <1>3, <1>4 DEF CloneTidy
<1>25. CASE ConvertDisk(t)
  <2>1. /\ Busy(t) /\ InHandler(t, "convert")
        /\ InHandler(t, "convert.remove") /\ InHandler(t, After(t))
    BY <1>25, <1>4 DEF ConvertDisk, After
  <2> HIDE DEF Busy, InHandler, Op, EditSteps, BatchSteps, Rest
  <2>2. \A x : DOMAIN [loc[t] EXCEPT !.done = x] = LocFields
    BY <1>4
  <2>3. \A x, y : DOMAIN [loc[t] EXCEPT !.disks = x, !.failed = y] = LocFields
    BY <1>4
  <2>4. QED
    BY <1>25, <1>1, <1>2, <1>3, <2>1, <2>2, <2>3 DEF ConvertDisk
<1>26. CASE ConvertRemove(t)
  <2>1. Busy(t) /\ InHandler(t, "convert") /\ InHandler(t, "convert.rename")
    BY <1>26, <1>4 DEF ConvertRemove
  <2> HIDE DEF Busy, InHandler, Op, EditSteps, BatchSteps, Rest
  <2>2. DOMAIN NextDisk(t) = LocFields /\ DOMAIN Logged(t) = LocFields
    BY <1>4 DEF NextDisk, Logged, LocFields
  <2>3. QED
    BY <1>26, <1>1, <1>2, <1>3, <2>1, <2>2 DEF ConvertRemove
<1>27. CASE ConvertRename(t)
  <2>1. Busy(t) /\ InHandler(t, "convert")
    BY <1>27, <1>4 DEF ConvertRename
  <2> HIDE DEF Busy, InHandler, Op, EditSteps, BatchSteps, Rest
  <2>2. DOMAIN NextDisk(t) = LocFields /\ DOMAIN Logged(t) = LocFields
    BY <1>4 DEF NextDisk, Logged, LocFields
  <2>3. QED
    BY <1>27, <1>1, <1>2, <1>3, <2>1, <2>2 DEF ConvertRename
<1>28. CASE DeleteCheck(t)
  <2>1. Busy(t) /\ InHandler(t, "delete.role")
    BY <1>28, <1>4 DEF DeleteCheck
  <2> HIDE DEF Busy, InHandler, Op, EditSteps, BatchSteps, Rest
  <2>2. \A x, y : DOMAIN [loc[t] EXCEPT !.home = x, !.disks = y] = LocFields
    BY <1>4
  <2>3. QED
    BY <1>28, <1>1, <1>2, <1>3, <2>1, <2>2 DEF DeleteCheck
<1>29. CASE DeleteVM(t)
  BY <1>29, <1>1, <1>2, <1>3, <1>4 DEF DeleteVM
<1>30. CASE DeleteFiles(t)
  BY <1>30, <1>1, <1>2, <1>3, <1>4 DEF DeleteFiles
<1>31. CASE DeleteRole(t)
  BY <1>31, <1>1, <1>2, <1>3, <1>4 DEF DeleteRole
<1>32. QED
  BY <1>5, <1>6, <1>7, <1>8, <1>9, <1>10, <1>11, <1>12, <1>13, <1>14, <1>15, <1>16, <1>17,
     <1>18, <1>19, <1>20, <1>21, <1>22, <1>23, <1>24, <1>25, <1>26, <1>27, <1>28, <1>29, <1>30,
     <1>31
  DEF ProvisionStep

(* A step of a handler of vm_management proceeds. *)
LEMMA ManageProceeds ==
  ASSUME TInv, NEW t \in Tasks, ManageStep(t)
  PROVE  Proceeds(t)
<1>1. \A s, l : Busy(t) /\ GoWith(t, s, l) /\ InHandler(t, s) /\ DOMAIN l = LocFields => Proceeds(t)
  BY GoProceeds
<1>2. \A s : (pc[t] = "waiting" \/ Busy(t)) /\ Go(t, s) /\ InHandler(t, s) => Proceeds(t)
  BY GoProceeds
<1>3. Busy(t) /\ (Answer(t, "completed") \/ Answer(t, "failed") \/ Fail(t)) => Proceeds(t)
  BY GoProceeds
<1>4. DOMAIN loc[t] = LocFields /\ (Busy(t) => InHandler(t, pc[t]))
  BY DEF TInv, ControlInv
<1> USE DEF At, Busy, Op, InHandler, EditSteps, BatchSteps, Rest
<1>5. CASE request[t].op \in ManageOps /\ Begin(t, "resolve")
  BY <1>5, <1>2 DEF Begin, ManageOps
<1>6. CASE request[t].op = "vm_batch" /\ Begin(t, "vm_batch")
  BY <1>6, <1>2 DEF Begin, ManageOps
<1>7. CASE Resolve(t)
  <2>1. Busy(t) /\ InHandler(t, request[t].op)
    BY <1>7, <1>4 DEF Resolve, ManageOps
  <2> HIDE DEF Busy, InHandler, Op, EditSteps, BatchSteps, Rest
  <2>2. \A x : DOMAIN [loc[t] EXCEPT !.name = x] = LocFields
    BY <1>4
  <2>3. QED
    BY <1>7, <1>1, <1>2, <1>3, <2>1, <2>2 DEF Resolve
<1>8. CASE Start(t)
  BY <1>8, <1>1, <1>2, <1>3, <1>4 DEF Start, SetState, Script
<1>9. CASE Pause(t)
  BY <1>9, <1>1, <1>2, <1>3, <1>4 DEF Pause, SetState, Script
<1>10. CASE Resume(t)
  BY <1>10, <1>1, <1>2, <1>3, <1>4 DEF Resume, SetState, Script
<1>11. CASE Restart(t)
  BY <1>11, <1>1, <1>2, <1>3, <1>4 DEF Restart, SetState, Script
<1>12. CASE Shutdown(t)
  BY <1>12, <1>1, <1>2, <1>3, <1>4 DEF Shutdown, SetState, Script
<1>13. CASE Stop(t)
  BY <1>13, <1>1, <1>2, <1>3, <1>4 DEF Stop
<1>14. CASE BatchCheck(t)
  BY <1>14, <1>1, <1>2, <1>3, <1>4 DEF BatchCheck
<1>15. CASE BatchVM(t)
  BY <1>15, <1>1, <1>2, <1>3, <1>4 DEF BatchVM
<1>16. CASE BatchEnd(t)
  BY <1>16, <1>1, <1>2, <1>3, <1>4 DEF BatchEnd
<1>17. CASE Snapshot(t)
  BY <1>17, <1>1, <1>2, <1>3, <1>4 DEF Snapshot, Script
<1>18. CASE Policy(t)
  BY <1>18, <1>1, <1>2, <1>3, <1>4 DEF Policy, Script
<1>19. CASE Unmeter(t)
  BY <1>19, <1>1, <1>2, <1>3, <1>4 DEF Unmeter, Script
<1>20. CASE Refresh(t)
  BY <1>20, <1>1, <1>2, <1>3, <1>4 DEF Refresh, Script
<1>21. CASE Eject(t)
  BY <1>21, <1>1, <1>2, <1>3, <1>4 DEF Eject, Script
<1>22. CASE Mount(t)
  BY <1>22, <1>1, <1>2, <1>3, <1>4 DEF Mount, Script
<1>23. CASE EnableHA(t)
  BY <1>23, <1>1, <1>2, <1>3, <1>4 DEF EnableHA, Script
<1>24. CASE DisableHA(t)
  BY <1>24, <1>1, <1>2, <1>3, <1>4 DEF DisableHA, Script
<1>25. CASE Migrate(t)
  BY <1>25, <1>1, <1>2, <1>3, <1>4 DEF Migrate
<1>26. CASE RelocateCheck(t)
  <2>1. Busy(t) /\ InHandler(t, "rename") /\ InHandler(t, "move")
    BY <1>26, <1>4 DEF RelocateCheck
  <2> HIDE DEF Busy, InHandler, Op, EditSteps, BatchSteps, Rest
  <2>2. \A x, y : DOMAIN [loc[t] EXCEPT !.home = x, !.dest = y] = LocFields
    BY <1>4
  <2>3. QED
    BY <1>26, <1>1, <1>2, <1>3, <2>1, <2>2 DEF RelocateCheck
<1>27. CASE Rename(t)
  BY <1>27, <1>1, <1>2, <1>3, <1>4 DEF Rename
<1>28. CASE MoveStorage(t)
  <2>1. Busy(t) /\ InHandler(t, "clean")
    BY <1>28, <1>4 DEF MoveStorage
  <2> HIDE DEF Busy, InHandler, Op, EditSteps, BatchSteps, Rest
  <2>2. /\ \A x, y : DOMAIN [loc[t] EXCEPT !.home = x, !.ok = y] = LocFields
        /\ \A x : DOMAIN [loc[t] EXCEPT !.failed = x] = LocFields
    BY <1>4
  <2>3. QED
    BY <1>28, <1>1, <1>2, <1>3, <2>1, <2>2 DEF MoveStorage
<1>29. CASE CleanLook(t)
  BY <1>29, <1>1, <1>2, <1>3, <1>4 DEF CleanLook, Verdict
<1>30. CASE CleanRemove(t)
  BY <1>30, <1>1, <1>2, <1>3, <1>4 DEF CleanRemove, Verdict
<1>31. CASE ExportCheck(t)
  BY <1>31, <1>1, <1>2, <1>3, <1>4 DEF ExportCheck, Space
<1>32. CASE Export(t)
  BY <1>32, <1>1, <1>2, <1>3, <1>4 DEF Export
<1>33. CASE ExportMetadata(t)
  BY <1>33, <1>1, <1>2, <1>3, <1>4 DEF ExportMetadata
<1>34. QED
  BY <1>5, <1>6, <1>7, <1>8, <1>9, <1>10, <1>11, <1>12, <1>13, <1>14, <1>15, <1>16, <1>17,
     <1>18, <1>19, <1>20, <1>21, <1>22, <1>23, <1>24, <1>25, <1>26, <1>27, <1>28, <1>29, <1>30,
     <1>31, <1>32, <1>33
  DEF ManageStep

(* A step of an edit proceeds. *)
LEMMA EditProceeds ==
  ASSUME TInv, NEW t \in Tasks, EditStep(t)
  PROVE  Proceeds(t)
<1>1. \A s, l : Busy(t) /\ GoWith(t, s, l) /\ InHandler(t, s) /\ DOMAIN l = LocFields => Proceeds(t)
  BY GoProceeds
<1>2. \A s : (pc[t] = "waiting" \/ Busy(t)) /\ Go(t, s) /\ InHandler(t, s) => Proceeds(t)
  BY GoProceeds
<1>3. Busy(t) /\ (Answer(t, "completed") \/ Answer(t, "failed") \/ Fail(t)) => Proceeds(t)
  BY GoProceeds
<1>4. DOMAIN loc[t] = LocFields /\ (Busy(t) => InHandler(t, pc[t]))
  BY DEF TInv, ControlInv
<1> USE DEF At, Busy, Op, InHandler, EditSteps, BatchSteps, Rest
<1>5. CASE request[t].op = "vm_edit" /\ Begin(t, "vm_edit")
  BY <1>5, <1>2 DEF Begin, ManageOps
<1>6. CASE EditCheck(t)
  <2>1. Busy(t) /\ InHandler(t, "edit.set")
    BY <1>6, <1>4 DEF EditCheck
  <2> HIDE DEF Busy, InHandler, Op, EditSteps, BatchSteps, Rest
  <2>2. \A x, y : DOMAIN [loc[t] EXCEPT !.name = x, !.nics = y] = LocFields
    BY <1>4
  <2>3. QED
    BY <1>6, <1>1, <1>2, <1>3, <2>1, <2>2 DEF EditCheck
<1>7. CASE EditSet(t)
  BY <1>7, <1>1, <1>2, <1>3, <1>4 DEF EditSet
<1>8. CASE EditDisks(t)
  BY <1>8, <1>1, <1>2, <1>3, <1>4 DEF EditDisks, Space
<1>9. CASE EditAdd(t)
  <2>1. Busy(t) /\ InHandler(t, "edit.add") /\ InHandler(t, "edit.grow")
    BY <1>9, <1>4 DEF EditAdd
  <2> HIDE DEF Busy, InHandler, Op, EditSteps, BatchSteps, Rest
  <2>2. \A x : DOMAIN [loc[t] EXCEPT !.done = x] = LocFields
    BY <1>4
  <2>3. QED
    BY <1>9, <1>1, <1>2, <1>3, <2>1, <2>2 DEF EditAdd
<1>10. CASE EditGrow(t)
  BY <1>10, <1>1, <1>2, <1>3, <1>4 DEF EditGrow
<1>11. CASE EditRemove(t)
  <2>1. /\ Busy(t) /\ InHandler(t, "edit.remove")
        /\ InHandler(t, "edit.wipe") /\ InHandler(t, "edit.nics")
    BY <1>11, <1>4 DEF EditRemove
  <2> HIDE DEF Busy, InHandler, Op, EditSteps, BatchSteps, Rest
  <2>2. \A x, y : DOMAIN [loc[t] EXCEPT !.done = x, !.disks = y] = LocFields
    BY <1>4
  <2>3. QED
    BY <1>11, <1>1, <1>2, <1>3, <2>1, <2>2 DEF EditRemove
<1>12. CASE EditWipe(t)
  BY <1>12, <1>1, <1>2, <1>3, <1>4 DEF EditWipe
<1>13. CASE EditNICs(t)
  BY <1>13, <1>1, <1>2, <1>3, <1>4 DEF EditNICs
<1>14. CASE EditEnd(t)
  BY <1>14, <1>1, <1>2, <1>3, <1>4 DEF EditEnd
<1>15. QED
  BY <1>5, <1>6, <1>7, <1>8, <1>9, <1>10, <1>11, <1>12, <1>13, <1>14 DEF EditStep

-----------------------------------------------------------------------------
(* Types: the host *)

\* The host stays well-typed, and faults within their bound.
HostKept == HostInv' /\ faults' \in 0..MaxFaults

(* A VM of which one field is changed, within its range, is a VM. *)
LEMMA FieldChanged ==
  ASSUME NEW vm, VMOk(vm)
  PROVE  /\ \A x : /\ VMOk([vm EXCEPT !.settings = x]) /\ VMOk([vm EXCEPT !.disks = x])
                   /\ VMOk([vm EXCEPT !.name = x]) /\ VMOk([vm EXCEPT !.ha = x])
         /\ \A x, y : VMOk([[vm EXCEPT !.home = x] EXCEPT !.disks = y])
         /\ \A x \in States : VMOk([vm EXCEPT !.state = x])
         /\ \A x \in Media : VMOk([vm EXCEPT !.dvd = x])
         /\ \A x \in Nat : VMOk([vm EXCEPT !.snaps = x]) /\ VMOk([vm EXCEPT !.nics = x])
BY DEF VMOk, VMFields

(* So is a new one. *)
LEMMA NewVMOk ==
  ASSUME NEW name, NEW home, NEW disks
  PROVE  VMOk(NewVM(name, home, disks))
BY DEF VMOk, VMFields, NewVM, States, Media

(* Registering a VM gives it the next number. *)
LEMMA RegisteredOk ==
  ASSUME VMsInv, NEW vm, VMOk(vm), Registered(vm)
  PROVE  VMsInv'
<1>1. made' = made + 1 /\ vms' = [v \in Ids \cup {made + 1} |-> IF v = made + 1 THEN vm ELSE vms[v]]
  BY DEF Registered
<1>2. Ids' = {made + 1} \cup Ids /\ \A v \in Ids' : vms'[v] = IF v = made + 1 THEN vm ELSE vms[v]
  BY <1>1 DEF Ids
<1>3. QED
  BY <1>1, <1>2 DEF VMsInv

(* A step of vm_create, vm_clone or vm_delete keeps the types of the host. *)
LEMMA ProvisionTyped ==
  ASSUME TInv, NEW t \in Tasks, ProvisionStep(t)
  PROVE  HostKept
<1>1. Works \/ (\E c : Breaks(c)) => faults' \in 0..MaxFaults
  BY BoundAssumption DEF Works, Breaks, TInv, TypeOK
<1>2. VMsInv /\ (vms' = vms /\ made' = made => VMsInv')
  BY DEF TInv, HostInv, VMsInv, Ids
<1>3. fixed \subseteq vhds
  BY DEF TInv, HostInv
<1>4. \A v \in DOMAIN vms : VMOk(vms[v])
  BY <1>2 DEF VMsInv, Ids
<1>5. DOMAIN vms' = DOMAIN vms /\ (\A v \in DOMAIN vms : VMOk(vms'[v])) /\ made' = made => VMsInv'
  BY <1>2 DEF VMsInv, Ids
<1>6. CASE request[t].op = "vm_create" /\ Begin(t, "create.space")
  BY <1>6, <1>1, <1>2, <1>3 DEF Begin, HostKept, HostInv, hostVars
<1>7. CASE request[t].op = "vm_clone" /\ Begin(t, "clone.space")
  BY <1>7, <1>1, <1>2, <1>3 DEF Begin, HostKept, HostInv, hostVars
<1>8. CASE CreateSpace(t)
  <2>1. faults' \in 0..MaxFaults
    BY <1>8, <1>1 DEF CreateSpace, Space
  <2>2. fixed' \subseteq vhds'
    BY <1>8, <1>3 DEF CreateSpace, Space, hostVars
  <2>3. VMsInv'
    BY <1>8, <1>2 DEF CreateSpace, Space, hostVars
  <2>4. QED
    BY <2>1, <2>2, <2>3 DEF HostKept, HostInv
<1>9. CASE CreateCheck(t)
  <2>1. faults' \in 0..MaxFaults
    BY <1>9, <1>1 DEF CreateCheck
  <2>2. fixed' \subseteq vhds'
    BY <1>9, <1>3 DEF CreateCheck, hostVars
  <2>3. VMsInv'
    BY <1>9, <1>2 DEF CreateCheck, hostVars
  <2>4. QED
    BY <2>1, <2>2, <2>3 DEF HostKept, HostInv
<1>10. CASE CreateDisk(t)
  <2>1. faults' \in 0..MaxFaults
    BY <1>10, <1>1 DEF CreateDisk
  <2>2. fixed' \subseteq vhds'
    BY <1>10, <1>3 DEF CreateDisk, hostVars
  <2>3. VMsInv'
    BY <1>10, <1>2 DEF CreateDisk, hostVars
  <2>4. QED
    BY <2>1, <2>2, <2>3 DEF HostKept, HostInv
<1>11. CASE CreateVM(t)
  <2>1. faults' \in 0..MaxFaults
    BY <1>11, <1>1 DEF CreateVM
  <2>2. fixed' \subseteq vhds'
    BY <1>11, <1>3 DEF CreateVM, hostVars
  <2>3. VMsInv'
    BY <1>11, <1>2, RegisteredOk, NewVMOk DEF CreateVM, hostVars
  <2>4. QED
    BY <2>1, <2>2, <2>3 DEF HostKept, HostInv
<1>12. CASE CreateAttach(t)
  <2>1. faults' \in 0..MaxFaults
    BY <1>12, <1>1 DEF CreateAttach
  <2>2. fixed' \subseteq vhds'
    BY <1>12, <1>3 DEF CreateAttach, hostVars
  <2>3. \A v \in DOMAIN vms : \A x : VMOk([vms[v] EXCEPT !.disks = x])
    BY <1>4, FieldChanged
  <2>4. /\ made' = made
        /\ \/ vms' = vms
           \/ \E f : vms' = [vms EXCEPT ![The(request[t].name)].disks = @ \cup {f}]
    BY <1>12 DEF CreateAttach
  <2>5. CASE vms' = vms
    BY <2>1, <2>2, <2>4, <2>5, <1>2 DEF HostKept, HostInv
  <2>6. CASE \E f : vms' = [vms EXCEPT ![The(request[t].name)].disks = @ \cup {f}]
    <3>1. PICK f : vms' = [vms EXCEPT ![The(request[t].name)].disks = @ \cup {f}]
      BY <2>6
    <3>2. DOMAIN vms' = DOMAIN vms
      BY <3>1 DEF Changed, Ids
    <3>3. \A v \in DOMAIN vms : VMOk(vms'[v])
      BY <3>1, <3>2, <2>3, <1>4 DEF Changed, Ids
    <3>4. QED
      BY <1>5, <2>1, <2>2, <2>4, <3>2, <3>3 DEF HostKept, HostInv
  <2>7. QED
    BY <2>4, <2>5, <2>6
<1>13. CASE Settle(t)
  <2>1. faults' \in 0..MaxFaults
    BY <1>13, <1>1 DEF Settle, Changed
  <2>2. fixed' \subseteq vhds'
    BY <1>13, <1>3 DEF Settle, Changed, hostVars
  <2>3. \A v \in DOMAIN vms : \A x : VMOk([vms[v] EXCEPT !.settings = x])
    BY <1>4, FieldChanged
  <2>4. DOMAIN vms' = DOMAIN vms /\ made' = made
    BY <1>13 DEF Settle, Changed, Ids
  <2>5. \A v \in DOMAIN vms : VMOk(vms'[v])
    BY <1>13, <1>4, <2>3, <2>4 DEF Settle, Changed, Ids
  <2>6. QED
    BY <1>5, <2>1, <2>2, <2>4, <2>5 DEF HostKept, HostInv
<1>14. CASE FindId(t)
  <2>1. faults' \in 0..MaxFaults
    BY <1>14, <1>1 DEF FindId
  <2>2. fixed' \subseteq vhds'
    BY <1>14, <1>3 DEF FindId, hostVars
  <2>3. VMsInv'
    BY <1>14, <1>2 DEF FindId, hostVars
  <2>4. QED
    BY <2>1, <2>2, <2>3 DEF HostKept, HostInv
<1>15. CASE PowerOn(t)
  <2>1. faults' \in 0..MaxFaults
    BY <1>15, <1>1 DEF PowerOn, Changed
  <2>2. fixed' \subseteq vhds'
    BY <1>15, <1>3 DEF PowerOn, Changed, hostVars
  <2>3. \A v \in DOMAIN vms : \A x \in States : VMOk([vms[v] EXCEPT !.state = x])
    BY <1>4, FieldChanged
  <2>4. DOMAIN vms' = DOMAIN vms /\ made' = made
    BY <1>15 DEF PowerOn, Changed, Ids
  <2>5. \A v \in DOMAIN vms : VMOk(vms'[v])
    BY <1>15, <1>4, <2>3, <2>4 DEF PowerOn, Changed, Ids, States
  <2>6. QED
    BY <1>5, <2>1, <2>2, <2>4, <2>5 DEF HostKept, HostInv
<1>16. CASE CloneSpace(t)
  <2>1. faults' \in 0..MaxFaults
    BY <1>16, <1>1 DEF CloneSpace, Space
  <2>2. fixed' \subseteq vhds'
    BY <1>16, <1>3 DEF CloneSpace, Space, hostVars
  <2>3. VMsInv'
    BY <1>16, <1>2 DEF CloneSpace, Space, hostVars
  <2>4. QED
    BY <2>1, <2>2, <2>3 DEF HostKept, HostInv
<1>17. CASE CloneCheck(t)
  <2>1. faults' \in 0..MaxFaults
    BY <1>17, <1>1 DEF CloneCheck
  <2>2. fixed' \subseteq vhds'
    BY <1>17, <1>3 DEF CloneCheck, hostVars
  <2>3. VMsInv'
    BY <1>17, <1>2 DEF CloneCheck, hostVars
  <2>4. QED
    BY <2>1, <2>2, <2>3 DEF HostKept, HostInv
<1>18. CASE CloneSource(t)
  <2>1. faults' \in 0..MaxFaults
    BY <1>18, <1>1 DEF CloneSource
  <2>2. fixed' \subseteq vhds'
    BY <1>18, <1>3 DEF CloneSource, hostVars
  <2>3. VMsInv'
    BY <1>18, <1>2 DEF CloneSource, hostVars
  <2>4. QED
    BY <2>1, <2>2, <2>3 DEF HostKept, HostInv
<1>19. CASE CloneExport(t)
  <2>1. faults' \in 0..MaxFaults
    BY <1>19, <1>1 DEF CloneExport
  <2>2. fixed' \subseteq vhds'
    BY <1>19, <1>3 DEF CloneExport, CopyAll, CopySome, hostVars
  <2>3. VMsInv'
    BY <1>19, <1>2 DEF CloneExport, hostVars
  <2>4. QED
    BY <2>1, <2>2, <2>3 DEF HostKept, HostInv
<1>20. CASE CloneImport(t)
  <2>1. faults' \in 0..MaxFaults
    BY <1>20, <1>1 DEF CloneImport
  <2>2. fixed' \subseteq vhds'
    BY <1>20, <1>3 DEF CloneImport, CopyAll, CopySome, hostVars
  <2>3. VMsInv'
    BY <1>20, <1>2, RegisteredOk, NewVMOk DEF CloneImport, hostVars
  <2>4. QED
    BY <2>1, <2>2, <2>3 DEF HostKept, HostInv
<1>21. CASE CloneName(t)
  <2>1. faults' \in 0..MaxFaults
    BY <1>21, <1>1 DEF CloneName
  <2>2. fixed' \subseteq vhds'
    BY <1>21, <1>3 DEF CloneName, hostVars
  <2>3. \A v \in DOMAIN vms : \A x : VMOk([vms[v] EXCEPT !.name = x])
    BY <1>4, FieldChanged
  <2>4. DOMAIN vms' = DOMAIN vms /\ made' = made
    BY <1>21 DEF CloneName, Ids
  <2>5. \A v \in DOMAIN vms : VMOk(vms'[v])
    BY <1>21, <1>4, <2>3, <2>4 DEF CloneName, Ids
  <2>6. QED
    BY <1>5, <2>1, <2>2, <2>4, <2>5 DEF HostKept, HostInv
<1>22. CASE CloneDisk(t)
  <2>1. faults' \in 0..MaxFaults
    BY <1>22, <1>1 DEF CloneDisk
  <2>2. fixed' \subseteq vhds'
    BY <1>22, <1>3 DEF CloneDisk, Replace, hostVars
  <2>3. VMsInv'
    BY <1>22, <1>2 DEF CloneDisk, hostVars
  <2>4. QED
    BY <2>1, <2>2, <2>3 DEF HostKept, HostInv
<1>23. CASE ClonePoint(t)
  <2>1. faults' \in 0..MaxFaults
    BY <1>23, <1>1 DEF ClonePoint, Changed
  <2>2. fixed' \subseteq vhds'
    BY <1>23, <1>3 DEF ClonePoint, Changed, hostVars
  <2>3. \A v \in DOMAIN vms : \A x : VMOk([vms[v] EXCEPT !.disks = x])
    BY <1>4, FieldChanged
  <2>4. DOMAIN vms' = DOMAIN vms /\ made' = made
    BY <1>23 DEF ClonePoint, Changed, Ids
  <2>5. \A v \in DOMAIN vms : VMOk(vms'[v])
    BY <1>23, <1>4, <2>3, <2>4 DEF ClonePoint, Changed, Ids
  <2>6. QED
    BY <1>5, <2>1, <2>2, <2>4, <2>5 DEF HostKept, HostInv
<1>24. CASE CloneUndo(t)
  <2>1. faults' \in 0..MaxFaults
    BY <1>24, <1>1 DEF CloneUndo, RemoveExport
  <2>2. fixed' \subseteq vhds'
    BY <1>24, <1>3 DEF CloneUndo, RemoveExport, hostVars
  <2>3. VMsInv'
    BY <1>24, <1>2 DEF CloneUndo, RemoveExport, hostVars
  <2>4. QED
    BY <2>1, <2>2, <2>3 DEF HostKept, HostInv
<1>25. CASE CloneTidy(t)
  <2>1. faults' \in 0..MaxFaults
    BY <1>25, <1>1 DEF CloneTidy, RemoveExport
  <2>2. fixed' \subseteq vhds'
    BY <1>25, <1>3 DEF CloneTidy, RemoveExport, hostVars
  <2>3. VMsInv'
    BY <1>25, <1>2 DEF CloneTidy, RemoveExport, hostVars
  <2>4. QED
    BY <2>1, <2>2, <2>3 DEF HostKept, HostInv
<1>26. CASE ConvertDisk(t)
  <2>1. faults' \in 0..MaxFaults
    BY <1>26, <1>1 DEF ConvertDisk
  <2>2. fixed' \subseteq vhds'
    BY <1>26, <1>3 DEF ConvertDisk, hostVars
  <2>3. VMsInv'
    BY <1>26, <1>2 DEF ConvertDisk, hostVars
  <2>4. QED
    BY <2>1, <2>2, <2>3 DEF HostKept, HostInv
<1>27. CASE ConvertRemove(t)
  <2>1. faults' \in 0..MaxFaults
    BY <1>27, <1>1 DEF ConvertRemove
  <2>2. fixed' \subseteq vhds'
    BY <1>27, <1>3 DEF ConvertRemove, hostVars
  <2>3. VMsInv'
    BY <1>27, <1>2 DEF ConvertRemove, hostVars
  <2>4. QED
    BY <2>1, <2>2, <2>3 DEF HostKept, HostInv
<1>28. CASE ConvertRename(t)
  <2>1. faults' \in 0..MaxFaults
    BY <1>28, <1>1 DEF ConvertRename
  <2>2. fixed' \subseteq vhds'
    BY <1>28, <1>3 DEF ConvertRename, Replace, hostVars
  <2>3. VMsInv'
    BY <1>28, <1>2 DEF ConvertRename, hostVars
  <2>4. QED
    BY <2>1, <2>2, <2>3 DEF HostKept, HostInv
<1>29. CASE DeleteCheck(t)
  <2>1. faults' \in 0..MaxFaults
    BY <1>29, <1>1 DEF DeleteCheck
  <2>2. fixed' \subseteq vhds'
    BY <1>29, <1>3 DEF DeleteCheck, hostVars
  <2>3. VMsInv'
    BY <1>29, <1>2 DEF DeleteCheck, hostVars
  <2>4. QED
    BY <2>1, <2>2, <2>3 DEF HostKept, HostInv
<1>30. CASE DeleteVM(t)
  <2>1. faults' \in 0..MaxFaults
    BY <1>30, <1>1 DEF DeleteVM, Without
  <2>2. fixed' \subseteq vhds'
    BY <1>30, <1>3 DEF DeleteVM, Without, hostVars
  <2>3. VMsInv'
    BY <1>30, <1>2 DEF DeleteVM, Without, hostVars, VMsInv, Ids
  <2>4. QED
    BY <2>1, <2>2, <2>3 DEF HostKept, HostInv
<1>31. CASE DeleteFiles(t)
  <2>1. faults' \in 0..MaxFaults
    BY <1>31, <1>1 DEF DeleteFiles
  <2>2. fixed' \subseteq vhds'
    BY <1>31, <1>3 DEF DeleteFiles, hostVars
  <2>3. VMsInv'
    BY <1>31, <1>2 DEF DeleteFiles, hostVars
  <2>4. QED
    BY <2>1, <2>2, <2>3 DEF HostKept, HostInv
<1>32. CASE DeleteRole(t)
  <2>1. faults' \in 0..MaxFaults
    BY <1>32, <1>1 DEF DeleteRole
  <2>2. fixed' \subseteq vhds'
    BY <1>32, <1>3 DEF DeleteRole
  <2>3. \A v \in DOMAIN vms : VMOk([vms[v] EXCEPT !.ha = FALSE])
    BY <1>4, FieldChanged
  <2>4. DOMAIN vms' = DOMAIN vms /\ made' = made
    BY <1>32 DEF DeleteRole, Changed, Ids
  <2>5. \A v \in DOMAIN vms : VMOk(vms'[v])
    BY <1>32, <1>4, <2>3, <2>4 DEF DeleteRole, Changed, Ids
  <2>6. QED
    BY <1>5, <2>1, <2>2, <2>4, <2>5 DEF HostKept, HostInv
<1>33. QED
  BY <1>6, <1>7, <1>8, <1>9, <1>10, <1>11, <1>12, <1>13, <1>14, <1>15, <1>16, <1>17, <1>18,
     <1>19, <1>20, <1>21, <1>22, <1>23, <1>24, <1>25, <1>26, <1>27, <1>28, <1>29, <1>30, <1>31,
     <1>32
  DEF ProvisionStep

(* A step of a handler of vm_management keeps them. *)
LEMMA ManageTyped ==
  ASSUME TInv, NEW t \in Tasks, ManageStep(t)
  PROVE  HostKept
<1>1. Works \/ (\E c : Breaks(c)) => faults' \in 0..MaxFaults
  BY BoundAssumption DEF Works, Breaks, TInv, TypeOK
<1>2. VMsInv /\ (vms' = vms /\ made' = made => VMsInv')
  BY DEF TInv, HostInv, VMsInv, Ids
<1>3. fixed \subseteq vhds
  BY DEF TInv, HostInv
<1>4. \A v \in DOMAIN vms : VMOk(vms[v])
  BY <1>2 DEF VMsInv, Ids
<1>5. DOMAIN vms' = DOMAIN vms /\ (\A v \in DOMAIN vms : VMOk(vms'[v])) /\ made' = made => VMsInv'
  BY <1>2 DEF VMsInv, Ids
<1>6. CASE request[t].op \in ManageOps /\ Begin(t, "resolve")
  BY <1>6, <1>1, <1>2, <1>3 DEF Begin, HostKept, HostInv, hostVars
<1>7. CASE request[t].op = "vm_batch" /\ Begin(t, "vm_batch")
  BY <1>7, <1>1, <1>2, <1>3 DEF Begin, HostKept, HostInv, hostVars
<1>8. CASE Resolve(t)
  <2>1. faults' \in 0..MaxFaults
    BY <1>8, <1>1 DEF Resolve
  <2>2. fixed' \subseteq vhds'
    BY <1>8, <1>3 DEF Resolve, hostVars
  <2>3. VMsInv'
    BY <1>8, <1>2 DEF Resolve, hostVars
  <2>4. QED
    BY <2>1, <2>2, <2>3 DEF HostKept, HostInv
<1>9. CASE Start(t)
  <2>1. faults' \in 0..MaxFaults
    BY <1>9, <1>1 DEF Start, SetState, Script, Changed
  <2>2. fixed' \subseteq vhds'
    BY <1>9, <1>3 DEF Start, SetState, Script, Changed, hostVars
  <2>3. \A v \in DOMAIN vms : \A x \in States : VMOk([vms[v] EXCEPT !.state = x])
    BY <1>4, FieldChanged
  <2>4. DOMAIN vms' = DOMAIN vms /\ made' = made
    BY <1>9 DEF Start, SetState, Script, Changed, Ids
  <2>5. \A v \in DOMAIN vms : VMOk(vms'[v])
    BY <1>9, <1>4, <2>3, <2>4 DEF Start, SetState, Script, Changed, Ids, States
  <2>6. QED
    BY <1>5, <2>1, <2>2, <2>4, <2>5 DEF HostKept, HostInv
<1>10. CASE Pause(t)
  <2>1. faults' \in 0..MaxFaults
    BY <1>10, <1>1 DEF Pause, SetState, Script, Changed
  <2>2. fixed' \subseteq vhds'
    BY <1>10, <1>3 DEF Pause, SetState, Script, Changed, hostVars
  <2>3. \A v \in DOMAIN vms : \A x \in States : VMOk([vms[v] EXCEPT !.state = x])
    BY <1>4, FieldChanged
  <2>4. DOMAIN vms' = DOMAIN vms /\ made' = made
    BY <1>10 DEF Pause, SetState, Script, Changed, Ids
  <2>5. \A v \in DOMAIN vms : VMOk(vms'[v])
    BY <1>10, <1>4, <2>3, <2>4 DEF Pause, SetState, Script, Changed, Ids, States
  <2>6. QED
    BY <1>5, <2>1, <2>2, <2>4, <2>5 DEF HostKept, HostInv
<1>11. CASE Resume(t)
  <2>1. faults' \in 0..MaxFaults
    BY <1>11, <1>1 DEF Resume, SetState, Script, Changed
  <2>2. fixed' \subseteq vhds'
    BY <1>11, <1>3 DEF Resume, SetState, Script, Changed, hostVars
  <2>3. \A v \in DOMAIN vms : \A x \in States : VMOk([vms[v] EXCEPT !.state = x])
    BY <1>4, FieldChanged
  <2>4. DOMAIN vms' = DOMAIN vms /\ made' = made
    BY <1>11 DEF Resume, SetState, Script, Changed, Ids
  <2>5. \A v \in DOMAIN vms : VMOk(vms'[v])
    BY <1>11, <1>4, <2>3, <2>4 DEF Resume, SetState, Script, Changed, Ids, States
  <2>6. QED
    BY <1>5, <2>1, <2>2, <2>4, <2>5 DEF HostKept, HostInv
<1>12. CASE Restart(t)
  <2>1. faults' \in 0..MaxFaults
    BY <1>12, <1>1 DEF Restart, SetState, Script, Changed
  <2>2. fixed' \subseteq vhds'
    BY <1>12, <1>3 DEF Restart, SetState, Script, Changed, hostVars
  <2>3. \A v \in DOMAIN vms : \A x \in States : VMOk([vms[v] EXCEPT !.state = x])
    BY <1>4, FieldChanged
  <2>4. DOMAIN vms' = DOMAIN vms /\ made' = made
    BY <1>12 DEF Restart, SetState, Script, Changed, Ids
  <2>5. \A v \in DOMAIN vms : VMOk(vms'[v])
    BY <1>12, <1>4, <2>3, <2>4 DEF Restart, SetState, Script, Changed, Ids, States
  <2>6. QED
    BY <1>5, <2>1, <2>2, <2>4, <2>5 DEF HostKept, HostInv
<1>13. CASE Shutdown(t)
  <2>1. faults' \in 0..MaxFaults
    BY <1>13, <1>1 DEF Shutdown, SetState, Script, Changed
  <2>2. fixed' \subseteq vhds'
    BY <1>13, <1>3 DEF Shutdown, SetState, Script, Changed, hostVars
  <2>3. \A v \in DOMAIN vms : \A x \in States : VMOk([vms[v] EXCEPT !.state = x])
    BY <1>4, FieldChanged
  <2>4. DOMAIN vms' = DOMAIN vms /\ made' = made
    BY <1>13 DEF Shutdown, SetState, Script, Changed, Ids
  <2>5. \A v \in DOMAIN vms : VMOk(vms'[v])
    BY <1>13, <1>4, <2>3, <2>4 DEF Shutdown, SetState, Script, Changed, Ids, States
  <2>6. QED
    BY <1>5, <2>1, <2>2, <2>4, <2>5 DEF HostKept, HostInv
<1>14. CASE Stop(t)
  <2>1. faults' \in 0..MaxFaults
    BY <1>14, <1>1 DEF Stop, Changed
  <2>2. fixed' \subseteq vhds'
    BY <1>14, <1>3 DEF Stop, Changed, hostVars
  <2>3. \A v \in DOMAIN vms : \A x \in States : VMOk([vms[v] EXCEPT !.state = x])
    BY <1>4, FieldChanged
  <2>4. DOMAIN vms' = DOMAIN vms /\ made' = made
    BY <1>14 DEF Stop, Changed, Ids
  <2>5. \A v \in DOMAIN vms : VMOk(vms'[v])
    BY <1>14, <1>4, <2>3, <2>4 DEF Stop, Changed, Ids, States
  <2>6. QED
    BY <1>5, <2>1, <2>2, <2>4, <2>5 DEF HostKept, HostInv
<1>15. CASE BatchCheck(t)
  <2>1. faults' \in 0..MaxFaults
    BY <1>15, <1>1 DEF BatchCheck
  <2>2. fixed' \subseteq vhds'
    BY <1>15, <1>3 DEF BatchCheck, hostVars
  <2>3. VMsInv'
    BY <1>15, <1>2 DEF BatchCheck, hostVars
  <2>4. QED
    BY <2>1, <2>2, <2>3 DEF HostKept, HostInv
<1>16. CASE BatchVM(t)
  <2>1. faults' \in 0..MaxFaults
    BY <1>16, <1>1 DEF BatchVM
  <2>2. fixed' \subseteq vhds'
    BY <1>16, <1>3 DEF BatchVM, hostVars
  <2>3. request[t].state \in States
    BY <1>16, EditAssumption, BatchAssumption
    DEF TInv, ControlInv, InHandler, BatchVM, At, Busy, Op, EditSteps, BatchSteps, Rest, States
  <2> DEFINE m == request[t].vms[Cardinality(Handled(t)) + 1].vm
  <2>4. /\ made' = made
        /\ vms' = vms \/ vms' = [vms EXCEPT ![m].state = request[t].state]
    BY <1>16 DEF BatchVM
  <2>5. \A v \in DOMAIN vms : VMOk([vms[v] EXCEPT !.state = request[t].state])
    BY <1>4, <2>3, FieldChanged
  <2>6. /\ DOMAIN vms' = DOMAIN vms
        /\ \A v \in DOMAIN vms : \/ vms'[v] = vms[v]
                               \/ vms'[v] = [vms[v] EXCEPT !.state = request[t].state]
    <3> HIDE DEF m
    <3>1. vms' = vms \/ vms' = [vms EXCEPT ![m].state = request[t].state]
      BY <2>4 DEF m
    <3>2. QED
      BY <3>1
  <2>7. \A v \in DOMAIN vms : VMOk(vms'[v])
    BY <2>5, <2>6, <1>4
  <2>8. QED
    BY <1>5, <2>1, <2>2, <2>4, <2>6, <2>7 DEF HostKept, HostInv
<1>17. CASE BatchEnd(t)
  <2>1. faults' \in 0..MaxFaults
    BY <1>17, <1>1 DEF BatchEnd
  <2>2. fixed' \subseteq vhds'
    BY <1>17, <1>3 DEF BatchEnd, hostVars
  <2>3. VMsInv'
    BY <1>17, <1>2 DEF BatchEnd, hostVars
  <2>4. QED
    BY <2>1, <2>2, <2>3 DEF HostKept, HostInv
<1>18. CASE Snapshot(t)
  <2>1. faults' \in 0..MaxFaults
    BY <1>18, <1>1 DEF Snapshot, Script, Changed
  <2>2. fixed' \subseteq vhds'
    BY <1>18, <1>3 DEF Snapshot, Script, Changed, hostVars
  <2>3. \A v \in DOMAIN vms : /\ vms[v].snaps \in Nat
                             /\ VMOk([vms[v] EXCEPT !.state = "Off"])
                             /\ \A x \in Nat : VMOk([vms[v] EXCEPT !.snaps = x])
    BY <1>4, FieldChanged DEF VMOk, States
  <2>4. DOMAIN vms' = DOMAIN vms /\ made' = made
    BY <1>18 DEF Snapshot, Script, Changed, Ids
  <2>5. \A v \in DOMAIN vms : VMOk(vms'[v])
    <3>1. CASE request[t].op = "snapshot_create"
      <4>1. vms' = vms \/ vms' = [v \in DOMAIN vms |-> IF v \in ByIdentity(t)
                                   THEN [vms[v] EXCEPT !.snaps = @ + 1] ELSE vms[v]]
        BY <1>18, <3>1 DEF Snapshot, Script, Changed, Ids
      <4>2. ASSUME NEW v \in DOMAIN vms
            PROVE  VMOk([vms[v] EXCEPT !.snaps = @ + 1])
        <5>1. vms[v].snaps \in Nat
          BY <2>3
        <5>2. vms[v].snaps + 1 \in Nat
          BY <5>1
        <5>3. QED
          BY <5>2, <2>3
      <4>3. QED
        BY <4>1, <4>2, <1>4
    <3>2. CASE request[t].op = "snapshot_remove"
      <4> DEFINE left(v) == IF request[t].all THEN 0 ELSE vms[v].snaps - 1
      <4>1. \/ vms' = vms
            \/ /\ vms' = [v \in DOMAIN vms |-> IF v \in ByIdentity(t)
                             THEN [vms[v] EXCEPT !.snaps = left(v)] ELSE vms[v]]
               /\ \A v \in ByIdentity(t) : request[t].all \/ vms[v].snaps > 0
        BY <1>18, <3>2 DEF Snapshot, Script, Changed, Ids
      <4>2. ASSUME NEW v \in DOMAIN vms, request[t].all \/ vms[v].snaps > 0
            PROVE  VMOk([vms[v] EXCEPT !.snaps = left(v)])
        <5>1. left(v) \in Nat
          <6>1. vms[v].snaps \in Nat
            BY <2>3
          <6>2. QED
            BY <4>2, <6>1
        <5>2. QED
          BY <5>1, <2>3
      <4> HIDE DEF left
      <4>3. QED
        BY <4>1, <4>2, <1>4
    <3>3. CASE request[t].op = "snapshot_restore"
      <4>1. vms' = vms \/ vms' = [v \in DOMAIN vms |-> IF v \in ByIdentity(t)
                                   THEN [vms[v] EXCEPT !.state = "Off"] ELSE vms[v]]
        BY <1>18, <3>3 DEF Snapshot, Script, Changed, Ids
      <4>2. QED
        BY <4>1, <2>3, <1>4
    <3>4. QED
      BY <1>18, <3>1, <3>2, <3>3 DEF Snapshot
  <2>6. QED
    BY <1>5, <2>1, <2>2, <2>4, <2>5 DEF HostKept, HostInv
<1>19. CASE Policy(t)
  <2>1. faults' \in 0..MaxFaults
    BY <1>19, <1>1 DEF Policy, Script, Changed
  <2>2. fixed' \subseteq vhds'
    BY <1>19, <1>3 DEF Policy, Script, Changed, hostVars
  <2>3. \A v \in DOMAIN vms : \A x : VMOk([vms[v] EXCEPT !.settings = x])
    BY <1>4, FieldChanged
  <2>4. DOMAIN vms' = DOMAIN vms /\ made' = made
    BY <1>19 DEF Policy, Script, Changed, Ids
  <2>5. \A v \in DOMAIN vms : VMOk(vms'[v])
    BY <1>19, <1>4, <2>3, <2>4 DEF Policy, Script, Changed, Ids
  <2>6. QED
    BY <1>5, <2>1, <2>2, <2>4, <2>5 DEF HostKept, HostInv
<1>20. CASE Unmeter(t)
  <2>1. faults' \in 0..MaxFaults
    BY <1>20, <1>1 DEF Unmeter, Script, Changed
  <2>2. fixed' \subseteq vhds'
    BY <1>20, <1>3 DEF Unmeter, Script, Changed, hostVars
  <2>3. \A v \in DOMAIN vms : \A x : VMOk([vms[v] EXCEPT !.settings = x])
    BY <1>4, FieldChanged
  <2>4. DOMAIN vms' = DOMAIN vms /\ made' = made
    BY <1>20 DEF Unmeter, Script, Changed, Ids
  <2>5. \A v \in DOMAIN vms : VMOk(vms'[v])
    BY <1>20, <1>4, <2>3, <2>4 DEF Unmeter, Script, Changed, Ids
  <2>6. QED
    BY <1>5, <2>1, <2>2, <2>4, <2>5 DEF HostKept, HostInv
<1>21. CASE Refresh(t)
  <2>1. faults' \in 0..MaxFaults
    BY <1>21, <1>1 DEF Refresh, Script, Changed
  <2>2. fixed' \subseteq vhds'
    BY <1>21, <1>3 DEF Refresh, Script, Changed, hostVars
  <2>3. DOMAIN vms' = DOMAIN vms /\ made' = made
    BY <1>21 DEF Refresh, Script, Changed, Ids
  <2>4. \A v \in DOMAIN vms : VMOk(vms'[v])
    BY <1>21, <1>4, <2>3 DEF Refresh, Script, Changed, Ids
  <2>5. QED
    BY <1>5, <2>1, <2>2, <2>3, <2>4 DEF HostKept, HostInv
<1>22. CASE Eject(t)
  <2>1. faults' \in 0..MaxFaults
    BY <1>22, <1>1 DEF Eject, Script, Changed
  <2>2. fixed' \subseteq vhds'
    BY <1>22, <1>3 DEF Eject, Script, Changed, hostVars
  <2>3. \A v \in DOMAIN vms : \A x \in Media : VMOk([vms[v] EXCEPT !.dvd = x])
    BY <1>4, FieldChanged
  <2>4. DOMAIN vms' = DOMAIN vms /\ made' = made
    BY <1>22 DEF Eject, Script, Changed, Ids
  <2>5. \A v \in DOMAIN vms : VMOk(vms'[v])
    BY <1>22, <1>4, <2>3, <2>4 DEF Eject, Script, Changed, Ids, Media
  <2>6. QED
    BY <1>5, <2>1, <2>2, <2>4, <2>5 DEF HostKept, HostInv
<1>23. CASE Mount(t)
  <2>1. faults' \in 0..MaxFaults
    BY <1>23, <1>1 DEF Mount, Script, Changed, Inserted
  <2>2. fixed' \subseteq vhds'
    BY <1>23, <1>3 DEF Mount, Script, Changed, Inserted, hostVars
  <2>3. \A v \in DOMAIN vms : \A x \in Media : VMOk([vms[v] EXCEPT !.dvd = x])
    BY <1>4, FieldChanged
  <2>4. DOMAIN vms' = DOMAIN vms /\ made' = made
    BY <1>23 DEF Mount, Script, Changed, Inserted, Ids
  <2>5. \A v \in DOMAIN vms : VMOk(vms'[v])
    BY <1>23, <1>4, <2>3, <2>4 DEF Mount, Script, Changed, Inserted, Ids, Media
  <2>6. QED
    BY <1>5, <2>1, <2>2, <2>4, <2>5 DEF HostKept, HostInv
<1>24. CASE EnableHA(t)
  <2>1. faults' \in 0..MaxFaults
    BY <1>24, <1>1 DEF EnableHA, Script, Changed
  <2>2. fixed' \subseteq vhds'
    BY <1>24, <1>3 DEF EnableHA, Script, Changed, hostVars
  <2>3. \A v \in DOMAIN vms : \A x : VMOk([vms[v] EXCEPT !.ha = x])
    BY <1>4, FieldChanged
  <2>4. DOMAIN vms' = DOMAIN vms /\ made' = made
    BY <1>24 DEF EnableHA, Script, Changed, Ids
  <2>5. \A v \in DOMAIN vms : VMOk(vms'[v])
    BY <1>24, <1>4, <2>3, <2>4 DEF EnableHA, Script, Changed, Ids
  <2>6. QED
    BY <1>5, <2>1, <2>2, <2>4, <2>5 DEF HostKept, HostInv
<1>25. CASE DisableHA(t)
  <2>1. faults' \in 0..MaxFaults
    BY <1>25, <1>1 DEF DisableHA, Script, Changed
  <2>2. fixed' \subseteq vhds'
    BY <1>25, <1>3 DEF DisableHA, Script, Changed, hostVars
  <2>3. \A v \in DOMAIN vms : \A x : VMOk([vms[v] EXCEPT !.ha = x])
    BY <1>4, FieldChanged
  <2>4. DOMAIN vms' = DOMAIN vms /\ made' = made
    BY <1>25 DEF DisableHA, Script, Changed, Ids
  <2>5. \A v \in DOMAIN vms : VMOk(vms'[v])
    BY <1>25, <1>4, <2>3, <2>4 DEF DisableHA, Script, Changed, Ids
  <2>6. QED
    BY <1>5, <2>1, <2>2, <2>4, <2>5 DEF HostKept, HostInv
<1>26. CASE Migrate(t)
  <2>1. faults' \in 0..MaxFaults
    BY <1>26, <1>1 DEF Migrate, Without
  <2>2. fixed' \subseteq vhds'
    BY <1>26, <1>3 DEF Migrate, Without, hostVars
  <2>3. VMsInv'
    BY <1>26, <1>2 DEF Migrate, Without, hostVars, VMsInv, Ids
  <2>4. QED
    BY <2>1, <2>2, <2>3 DEF HostKept, HostInv
<1>27. CASE RelocateCheck(t)
  <2>1. faults' \in 0..MaxFaults
    BY <1>27, <1>1 DEF RelocateCheck
  <2>2. fixed' \subseteq vhds'
    BY <1>27, <1>3 DEF RelocateCheck, hostVars
  <2>3. VMsInv'
    BY <1>27, <1>2 DEF RelocateCheck, hostVars
  <2>4. QED
    BY <2>1, <2>2, <2>3 DEF HostKept, HostInv
<1>28. CASE Rename(t)
  <2>1. faults' \in 0..MaxFaults
    BY <1>28, <1>1 DEF Rename, Changed
  <2>2. fixed' \subseteq vhds'
    BY <1>28, <1>3 DEF Rename, Changed, hostVars
  <2>3. \A v \in DOMAIN vms : \A x : VMOk([vms[v] EXCEPT !.name = x])
    BY <1>4, FieldChanged
  <2>4. DOMAIN vms' = DOMAIN vms /\ made' = made
    BY <1>28 DEF Rename, Changed, Ids
  <2>5. \A v \in DOMAIN vms : VMOk(vms'[v])
    BY <1>28, <1>4, <2>3, <2>4 DEF Rename, Changed, Ids
  <2>6. QED
    BY <1>5, <2>1, <2>2, <2>4, <2>5 DEF HostKept, HostInv
<1>29. CASE MoveStorage(t)
  <2> DEFINE m == CHOOSE x \in Moving(t) : TRUE
             D == vms[m].disks
             New == {Relocated(f, loc[t].dest) : f \in D}
  <2>1. faults' \in 0..MaxFaults /\ made' = made
    BY <1>29, <1>1 DEF MoveStorage
  <2>2. \/ vms' = vms /\ vhds' = vhds /\ fixed' = fixed
        \/ /\ vms' = [vms EXCEPT ![m].home = loc[t].dest, ![m].disks = New]
           /\ vhds' = (vhds \ D) \cup {Relocated(f, loc[t].dest) : f \in vhds \cap D}
           /\ fixed' = (fixed \ D) \cup {Relocated(f, loc[t].dest) : f \in fixed \cap D}
    BY <1>29 DEF MoveStorage
  <2>3. fixed' \subseteq vhds'
    <3> HIDE DEF D
    <3>1. CASE vhds' = vhds /\ fixed' = fixed
      BY <1>3, <3>1
    <3>2. CASE /\ vhds' = (vhds \ D) \cup {Relocated(f, loc[t].dest) : f \in vhds \cap D}
               /\ fixed' = (fixed \ D) \cup {Relocated(f, loc[t].dest) : f \in fixed \cap D}
      <4>1. {Relocated(f, loc[t].dest) : f \in fixed \cap D}
              \subseteq {Relocated(f, loc[t].dest) : f \in vhds \cap D}
        BY <1>3
      <4>2. QED
        BY <4>1, <3>2, <1>3
    <3>3. QED
      BY <3>1, <3>2, <2>2
  <2>4. DOMAIN vms' = DOMAIN vms
    BY <2>2
  <2>5. \A v \in DOMAIN vms : \A x, y : VMOk([[vms[v] EXCEPT !.home = x] EXCEPT !.disks = y])
    BY <1>4, FieldChanged
  <2>6. \A v \in DOMAIN vms : VMOk(vms'[v])
    <3> HIDE DEF m, New
    <3>1. vms' = vms \/ vms' = [vms EXCEPT ![m].home = loc[t].dest, ![m].disks = New]
      BY <2>2
    <3>2. TAKE v \in DOMAIN vms
    <3>3. VMOk(vms[v]) /\ VMOk([[vms[v] EXCEPT !.home = loc[t].dest] EXCEPT !.disks = New])
      BY <2>5, <1>4
    <3>4. \/ vms'[v] = vms[v]
          \/ vms'[v] = [[vms[v] EXCEPT !.home = loc[t].dest] EXCEPT !.disks = New]
      BY <3>1
    <3>5. QED
      BY <3>3, <3>4
  <2>7. QED
    BY <1>5, <2>1, <2>3, <2>4, <2>6 DEF HostKept, HostInv
<1>30. CASE CleanLook(t)
  <2>1. faults' \in 0..MaxFaults
    BY <1>30, <1>1 DEF CleanLook
  <2>2. fixed' \subseteq vhds'
    BY <1>30, <1>3 DEF CleanLook, hostVars
  <2>3. VMsInv'
    BY <1>30, <1>2 DEF CleanLook, hostVars
  <2>4. QED
    BY <2>1, <2>2, <2>3 DEF HostKept, HostInv
<1>31. CASE CleanRemove(t)
  <2>1. faults' \in 0..MaxFaults
    BY <1>31, <1>1 DEF CleanRemove
  <2>2. fixed' \subseteq vhds'
    BY <1>31, <1>3 DEF CleanRemove, hostVars
  <2>3. VMsInv'
    BY <1>31, <1>2 DEF CleanRemove, hostVars
  <2>4. QED
    BY <2>1, <2>2, <2>3 DEF HostKept, HostInv
<1>32. CASE ExportCheck(t)
  <2>1. faults' \in 0..MaxFaults
    BY <1>32, <1>1 DEF ExportCheck, Space
  <2>2. fixed' \subseteq vhds'
    BY <1>32, <1>3 DEF ExportCheck, Space, hostVars
  <2>3. VMsInv'
    BY <1>32, <1>2 DEF ExportCheck, Space, hostVars
  <2>4. QED
    BY <2>1, <2>2, <2>3 DEF HostKept, HostInv
<1>33. CASE Export(t)
  <2>1. faults' \in 0..MaxFaults
    BY <1>33, <1>1 DEF Export
  <2>2. fixed' \subseteq vhds'
    BY <1>33, <1>3 DEF Export, CopyAll, CopySome, hostVars
  <2>3. VMsInv'
    BY <1>33, <1>2 DEF Export, hostVars
  <2>4. QED
    BY <2>1, <2>2, <2>3 DEF HostKept, HostInv
<1>34. CASE ExportMetadata(t)
  <2>1. faults' \in 0..MaxFaults
    BY <1>34, <1>1 DEF ExportMetadata
  <2>2. fixed' \subseteq vhds'
    BY <1>34, <1>3 DEF ExportMetadata, hostVars
  <2>3. VMsInv'
    BY <1>34, <1>2 DEF ExportMetadata, hostVars
  <2>4. QED
    BY <2>1, <2>2, <2>3 DEF HostKept, HostInv
<1>35. QED
  BY <1>6, <1>7, <1>8, <1>9, <1>10, <1>11, <1>12, <1>13, <1>14, <1>15, <1>16, <1>17, <1>18,
     <1>19, <1>20, <1>21, <1>22, <1>23, <1>24, <1>25, <1>26, <1>27, <1>28, <1>29, <1>30, <1>31,
     <1>32, <1>33, <1>34
  DEF ManageStep

(* A step of an edit keeps them. *)
LEMMA EditTyped ==
  ASSUME TInv, NEW t \in Tasks, EditStep(t)
  PROVE  HostKept
<1>1. Works \/ (\E c : Breaks(c)) => faults' \in 0..MaxFaults
  BY BoundAssumption DEF Works, Breaks, TInv, TypeOK
<1>2. VMsInv /\ (vms' = vms /\ made' = made => VMsInv')
  BY DEF TInv, HostInv, VMsInv, Ids
<1>3. fixed \subseteq vhds
  BY DEF TInv, HostInv
<1>4. \A v \in DOMAIN vms : VMOk(vms[v])
  BY <1>2 DEF VMsInv, Ids
<1>5. DOMAIN vms' = DOMAIN vms /\ (\A v \in DOMAIN vms : VMOk(vms'[v])) /\ made' = made => VMsInv'
  BY <1>2 DEF VMsInv, Ids
<1>6. CASE request[t].op = "vm_edit" /\ Begin(t, "vm_edit")
  BY <1>6, <1>1, <1>2, <1>3 DEF Begin, HostKept, HostInv, hostVars
<1>7. CASE EditCheck(t)
  <2>1. faults' \in 0..MaxFaults
    BY <1>7, <1>1 DEF EditCheck
  <2>2. fixed' \subseteq vhds'
    BY <1>7, <1>3 DEF EditCheck, hostVars
  <2>3. VMsInv'
    BY <1>7, <1>2 DEF EditCheck, hostVars
  <2>4. QED
    BY <2>1, <2>2, <2>3 DEF HostKept, HostInv
<1>8. CASE EditSet(t)
  <2>1. faults' \in 0..MaxFaults
    BY <1>8, <1>1 DEF EditSet, Changed
  <2>2. fixed' \subseteq vhds'
    BY <1>8, <1>3 DEF EditSet, Changed, hostVars
  <2>3. \A v \in DOMAIN vms : \A x : VMOk([vms[v] EXCEPT !.settings = x])
    BY <1>4, FieldChanged
  <2>4. DOMAIN vms' = DOMAIN vms /\ made' = made
    BY <1>8 DEF EditSet, Changed, Ids
  <2>5. \A v \in DOMAIN vms : VMOk(vms'[v])
    <3>1. CASE vms' = vms
      BY <3>1, <1>4
    <3>2. CASE vms' # vms
      <4> DEFINE todo == {i \in DOMAIN Order : Order[i] \in Wanted(t) \ loc[t].done}
                 x == Order[CHOOSE i \in todo : \A j \in todo : i <= j]
      <4>1. vms' = [v \in DOMAIN vms |-> IF v \in ByName(EditName(t))
                     THEN [vms[v] EXCEPT !.settings = @ \cup {x}] ELSE vms[v]]
        BY <1>8, <3>2 DEF EditSet, Changed, Ids
      <4> HIDE DEF x
      <4>2. QED
        BY <4>1, <1>4, <2>3
    <3>3. QED
      BY <3>1, <3>2
  <2>6. QED
    BY <1>5, <2>1, <2>2, <2>4, <2>5 DEF HostKept, HostInv
<1>9. CASE EditDisks(t)
  <2>1. faults' \in 0..MaxFaults
    BY <1>9, <1>1 DEF EditDisks, Space
  <2>2. fixed' \subseteq vhds'
    BY <1>9, <1>3 DEF EditDisks, Space, hostVars
  <2>3. VMsInv'
    BY <1>9, <1>2 DEF EditDisks, Space, hostVars
  <2>4. QED
    BY <2>1, <2>2, <2>3 DEF HostKept, HostInv
<1>10. CASE EditAdd(t)
  <2> DEFINE With(f) == [v \in DOMAIN vms |->
                           IF v \in ByName(EditName(t))
                           THEN [vms[v] EXCEPT !.disks = @ \cup {f}] ELSE vms[v]]
  <2>1. faults' \in 0..MaxFaults
    BY <1>10, <1>1 DEF EditAdd, Changed
  <2>2. fixed' \subseteq vhds'
    BY <1>10, <1>3 DEF EditAdd, Changed, hostVars
  <2>3. \A v \in DOMAIN vms : \A x : VMOk([vms[v] EXCEPT !.disks = x])
    BY <1>4, FieldChanged
  <2>4. made' = made /\ (vms' = vms \/ \E f \in request[t].add \ loc[t].done : vms' = With(f))
    BY <1>10 DEF EditAdd, Changed, Ids
  <2>5. CASE vms' = vms
    BY <2>1, <2>2, <2>4, <2>5, <1>2 DEF HostKept, HostInv
  <2>6. CASE \E f \in request[t].add \ loc[t].done : vms' = With(f)
    <3>1. PICK f : vms' = With(f)
      BY <2>6
    <3>2. DOMAIN vms' = DOMAIN vms
      BY <3>1 DEF Changed, Ids
    <3>3. \A v \in DOMAIN vms : VMOk(vms'[v])
      BY <3>1, <3>2, <2>3, <1>4 DEF Changed, Ids
    <3>4. QED
      BY <1>5, <2>1, <2>2, <2>4, <3>2, <3>3 DEF HostKept, HostInv
  <2>7. QED
    BY <2>4, <2>5, <2>6
<1>11. CASE EditGrow(t)
  <2>1. faults' \in 0..MaxFaults
    BY <1>11, <1>1 DEF EditGrow
  <2>2. fixed' \subseteq vhds'
    BY <1>11, <1>3 DEF EditGrow, hostVars
  <2>3. VMsInv'
    BY <1>11, <1>2 DEF EditGrow, hostVars
  <2>4. QED
    BY <2>1, <2>2, <2>3 DEF HostKept, HostInv
<1>12. CASE EditRemove(t)
  <2> DEFINE With(f) == [v \in DOMAIN vms |->
                           IF v \in ByName(EditName(t))
                           THEN [vms[v] EXCEPT !.disks = @ \ {f}] ELSE vms[v]]
  <2>1. faults' \in 0..MaxFaults
    BY <1>12, <1>1 DEF EditRemove, Changed
  <2>2. fixed' \subseteq vhds'
    BY <1>12, <1>3 DEF EditRemove, Changed, hostVars
  <2>3. \A v \in DOMAIN vms : \A x : VMOk([vms[v] EXCEPT !.disks = x])
    BY <1>4, FieldChanged
  <2>4. made' = made /\ (vms' = vms \/ \E f \in request[t].remove \ loc[t].done : vms' = With(f))
    BY <1>12 DEF EditRemove, Changed, Ids
  <2>5. CASE vms' = vms
    BY <2>1, <2>2, <2>4, <2>5, <1>2 DEF HostKept, HostInv
  <2>6. CASE \E f \in request[t].remove \ loc[t].done : vms' = With(f)
    <3>1. PICK f : vms' = With(f)
      BY <2>6
    <3>2. DOMAIN vms' = DOMAIN vms
      BY <3>1 DEF Changed, Ids
    <3>3. \A v \in DOMAIN vms : VMOk(vms'[v])
      BY <3>1, <3>2, <2>3, <1>4 DEF Changed, Ids
    <3>4. QED
      BY <1>5, <2>1, <2>2, <2>4, <3>2, <3>3 DEF HostKept, HostInv
  <2>7. QED
    BY <2>4, <2>5, <2>6
<1>13. CASE EditWipe(t)
  <2>1. faults' \in 0..MaxFaults
    BY <1>13, <1>1 DEF EditWipe
  <2>2. fixed' \subseteq vhds'
    BY <1>13, <1>3 DEF EditWipe, hostVars
  <2>3. VMsInv'
    BY <1>13, <1>2 DEF EditWipe, hostVars
  <2>4. QED
    BY <2>1, <2>2, <2>3 DEF HostKept, HostInv
<1>14. CASE EditNICs(t)
  <2>1. faults' \in 0..MaxFaults
    BY <1>14, <1>1 DEF EditNICs, Changed
  <2>2. fixed' \subseteq vhds'
    BY <1>14, <1>3 DEF EditNICs, Changed, hostVars
  <2>3. request[t].plug \in Nat /\ request[t].tune \in Nat /\ request[t].unplug \in Nat
    BY <1>14, EditAssumption, BatchAssumption
    DEF TInv, ControlInv, InHandler, EditNICs, At, Busy, Op, EditSteps, BatchSteps, Rest, States
  <2>4. \A v \in DOMAIN vms : vms[v].nics \in Nat /\ \A x \in Nat : VMOk([vms[v] EXCEPT !.nics = x])
    BY <1>4, FieldChanged DEF VMOk
  <2> DEFINE S == ByName(EditName(t))
             With(n) == [v \in DOMAIN vms |->
                           IF v \in S THEN [vms[v] EXCEPT !.nics = @ + n] ELSE vms[v]]
  <2>5. made' = made
    BY <1>14 DEF EditNICs
  <2>6. PICK n \in Int : vms' = With(n) /\ \A v \in S : vms[v].nics + n >= 0
    <3>1. \A v \in S : v \in DOMAIN vms
      BY DEF ByName, Ids
    <3>2. CASE /\ vms' = With(request[t].plug - request[t].unplug)
               /\ \/ request[t].plug + request[t].tune + request[t].unplug = 0
                  \/ \A v \in S :
                       vms[v].nics + request[t].plug >= request[t].tune + request[t].unplug
      <4>1. request[t].plug - request[t].unplug \in Int
        BY <2>3
      <4>2. \A v \in S : vms[v].nics + (request[t].plug - request[t].unplug) >= 0
        BY <3>1, <3>2, <2>3, <2>4
      <4>3. QED
        BY <4>1, <4>2, <3>2
    <3>3. CASE \E n \in 0..request[t].plug : vms' = With(n)
      <4>1. PICK n \in 0..request[t].plug : vms' = With(n)
        BY <3>3
      <4>2. n \in Nat
        BY <4>1, <2>3
      <4>3. \A v \in S : vms[v].nics + n >= 0
        BY <4>2, <3>1, <2>4
      <4>4. QED
        <5>1. n \in Int
          BY <4>2
        <5>2. QED
          BY <4>1, <4>3, <5>1
    <3>4. QED
      BY <1>14, <3>2, <3>3 DEF EditNICs, Changed, Ids
  <2>7. DOMAIN vms' = DOMAIN vms
    BY <2>6
  <2>8. \A v \in DOMAIN vms : VMOk(vms'[v])
    <3>1. TAKE v \in DOMAIN vms
    <3>2. CASE v \in S
      <4>1. vms[v].nics + n \in Nat
        BY <2>4, <2>6, <3>2
      <4>2. VMOk([vms[v] EXCEPT !.nics = vms[v].nics + n])
        BY <4>1, <2>4
      <4>3. QED
        BY <4>2, <2>6, <3>2
    <3>3. CASE v \notin S
      BY <2>6, <3>3, <1>4
    <3>4. QED
      BY <3>2, <3>3
  <2>9. QED
    BY <1>5, <2>1, <2>2, <2>5, <2>7, <2>8 DEF HostKept, HostInv
<1>15. CASE EditEnd(t)
  <2>1. faults' \in 0..MaxFaults
    BY <1>15, <1>1 DEF EditEnd
  <2>2. fixed' \subseteq vhds'
    BY <1>15, <1>3 DEF EditEnd, hostVars
  <2>3. VMsInv'
    BY <1>15, <1>2 DEF EditEnd, hostVars
  <2>4. QED
    BY <2>1, <2>2, <2>3 DEF HostKept, HostInv
<1>16. QED
  BY <1>6, <1>7, <1>8, <1>9, <1>10, <1>11, <1>12, <1>13, <1>14, <1>15 DEF EditStep

-----------------------------------------------------------------------------
(* Types: the theorem *)

\* A step of the handler of t, or the end of its worker.
Acts(t) == ProvisionStep(t) \/ ManageStep(t) \/ EditStep(t) \/ Kill(t)

(* Whatever t does, it proceeds and keeps the types of the host. *)
LEMMA ActsProceeds ==
  ASSUME TInv, NEW t \in Tasks, Acts(t)
  PROVE  Proceeds(t) /\ HostKept
<1>1. CASE Kill(t)
  <2>1. Proceeds(t)
    BY <1>1 DEF Kill, TInv, TypeOK, ControlInv, Proceeds, Outside
  <2>2. HostKept
    BY <1>1, BoundAssumption DEF Kill, TInv, TypeOK, HostKept, HostInv, VMsInv, Ids, hostVars
  <2>3. QED
    BY <2>1, <2>2
<1>2. QED
  BY <1>1, ProvisionProceeds, ManageProceeds, EditProceeds, ProvisionTyped, ManageTyped, EditTyped
  DEF Acts

(* An administrator changes the power state of one VM and nothing else. *)
LEMMA SwitchTyped ==
  ASSUME TInv, NEW v \in Ids, Switch(v)
  PROVE  TInv'
<1>1. /\ UNCHANGED <<taskVars, made, vhds, fixed, folders, site, faults>>
      /\ acts' \in 0..MaxActs
  BY BoundAssumption DEF Switch, TInv, TypeOK
<1>2. DOMAIN vms' = DOMAIN vms
  BY DEF Switch
<1>3. \A w \in DOMAIN vms : VMOk(vms[w]) /\ \A x \in States : VMOk([vms[w] EXCEPT !.state = x])
  BY FieldChanged DEF TInv, HostInv, VMsInv, Ids
<1>4. \A w \in DOMAIN vms : VMOk(vms'[w])
  BY <1>3 DEF Switch, States
<1>5. HostInv'
  BY <1>1, <1>2, <1>4 DEF TInv, HostInv, VMsInv, Ids
<1>6. ControlInv'
  BY <1>1 DEF TInv, ControlInv, InHandler, Busy, Op, taskVars
<1>7. TypeOK'
  BY <1>1, <1>5 DEF TInv, TypeOK, HostInv, VMsInv, VMOk, States, Media, Busy, taskVars
<1>8. QED
  BY <1>5, <1>6, <1>7 DEF TInv

(* The invariant is inductive. *)
LEMMA TypesKept ==
  ASSUME TInv, [Next]_vars
  PROVE  TInv'
<1>1. ASSUME NEW t \in Tasks, Acts(t)
      PROVE  TInv'
  <2>1. Proceeds(t) /\ HostKept
    BY <1>1, ActsProceeds
  <2>2. HostInv' /\ faults' \in 0..MaxFaults
    BY <2>1 DEF HostKept
  <2>3. ControlInv'
    <3>1. \A u \in Tasks : Op(u)' = Op(u)
      BY <2>1 DEF Proceeds, Op
    <3>2. \A u \in Tasks : \A s : InHandler(u, s)' <=> InHandler(u, s)
      BY <3>1 DEF InHandler
    <3>3. \A u \in Tasks : DOMAIN loc'[u] = LocFields
      BY <2>1 DEF Proceeds, TInv, ControlInv
    <3>4. \A u \in Tasks : Busy(u)' => InHandler(u, pc'[u])
      BY <2>1 DEF Proceeds, TInv, ControlInv, Busy
    <3>5. QED
      BY <2>1, <3>2, <3>3, <3>4 DEF Proceeds, TInv, ControlInv, InHandler, Op
  <2>4. \A u \in Tasks : answer'[u] = "none" <=> pc'[u] = "waiting" \/ Busy(u)'
    <3>1. \A s : InHandler(t, s) => s \notin Rest
      BY DEF InHandler, EditSteps, BatchSteps, Rest
    <3>2. QED
      BY <2>1, <3>1 DEF Proceeds, TInv, TypeOK, Busy, Rest
  <2>5. TypeOK'
    BY <2>1, <2>2, <2>4 DEF Proceeds, TInv, TypeOK, HostInv, VMsInv, VMOk, States, Media
  <2>6. QED
    BY <2>2, <2>3, <2>5 DEF TInv
<1>2. ASSUME NEW v \in Ids, Switch(v)
      PROVE  TInv'
  BY <1>2, SwitchTyped
<1>3. CASE UNCHANGED vars
  BY <1>3
  DEF vars, taskVars, hostVars, TInv, TypeOK, ControlInv, HostInv, VMsInv, InHandler, Busy,
              Op, Ids
<1>4. QED
  BY <1>1, <1>2, <1>3 DEF Next, Acts

(* It holds at first. *)
LEMMA InitTyped ==
  ASSUME Init
  PROVE  TInv
<1>1. PICK h \in Hosts : /\ vms = h.vms /\ vhds = h.vhds /\ fixed = h.fixed
                         /\ made = Cardinality(DOMAIN h.vms)
  BY DEF Init
<1>2. HostInv
  BY <1>1, HostAssumption DEF HostInv, VMsInv, VMOk, Ids, States, Media
<1>3. ControlInv
  BY DEF Init, ControlInv, Busy, NoLocals, LocFields
<1>4. TypeOK
  BY <1>2, BoundAssumption DEF Init, TypeOK, HostInv, VMsInv, VMOk, States, Media, Busy
<1>5. QED
  BY <1>2, <1>3, <1>4 DEF TInv

(* VMTasks: on every host, whatever its tasks are asked to do and whichever of   *)
(* their scripts fail, VMs keep the fields and states of VMs, numbers of checkpoints and *)
(* adapters do not go below zero, fixed disks are disks, a task has an answer exactly    *)
(* when its worker is gone.                                                              *)
THEOREM VMTypeCorrect == Spec => []TypeOK
<1>1. Init => TInv
  BY InitTyped
<1>2. TInv /\ [Next]_vars => TInv'
  BY TypesKept
<1>3. TInv => TypeOK
  BY DEF TInv
<1>4. QED
  BY <1>1, <1>2, <1>3, PTL DEF Spec

-----------------------------------------------------------------------------
(* vm_edit: what has been applied *)

(* The handler of an edit takes no step of another handler. *)
LEMMA OnlyEdits ==
  ASSUME TInv, NEW t \in Tasks, Op(t) = "vm_edit", Acts(t)
  PROVE  EditStep(t) \/ Kill(t)
<1>1. request[t].op = "vm_edit" /\ pc[t] \in EditSteps \cup Rest
  BY DEF TInv, ControlInv, InHandler, Busy, Op, EditSteps, Rest
<1> USE DEF EditSteps, Rest, At
<1>2. ~(CreateSpace(t) \/ CreateCheck(t) \/ CreateDisk(t) \/ CreateVM(t) \/ CreateAttach(t) \/
      Settle(t))
  BY <1>1 DEF CreateSpace, CreateCheck, CreateDisk, CreateVM, CreateAttach, Settle
<1>3. ~(FindId(t) \/ PowerOn(t) \/ CloneSpace(t) \/ CloneCheck(t) \/ CloneSource(t) \/
      CloneExport(t))
  BY <1>1 DEF FindId, PowerOn, CloneSpace, CloneCheck, CloneSource, CloneExport
<1>4. ~(CloneImport(t) \/ CloneName(t) \/ CloneDisk(t) \/ ClonePoint(t) \/ CloneUndo(t) \/
      CloneTidy(t))
  BY <1>1 DEF CloneImport, CloneName, CloneDisk, ClonePoint, CloneUndo, CloneTidy
<1>5. ~(ConvertDisk(t) \/ ConvertRemove(t) \/ ConvertRename(t) \/ DeleteCheck(t) \/ DeleteRole(t)
      \/ DeleteVM(t) \/ DeleteFiles(t))
  BY <1>1 DEF ConvertDisk, ConvertRemove, ConvertRename, DeleteCheck, DeleteRole, DeleteVM,
              DeleteFiles
<1>6. ~(Resolve(t) \/ Start(t) \/ Pause(t) \/ Resume(t) \/ Restart(t) \/ Shutdown(t))
  BY <1>1 DEF Resolve, Start, Pause, Resume, Restart, Shutdown, SetState
<1>7. ~(Stop(t) \/ BatchCheck(t) \/ BatchVM(t) \/ BatchEnd(t) \/ Snapshot(t) \/ Policy(t))
  BY <1>1 DEF Stop, BatchCheck, BatchVM, BatchEnd, Snapshot, Policy
<1>8. ~(Unmeter(t) \/ Refresh(t) \/ Eject(t) \/ Mount(t) \/ EnableHA(t) \/ DisableHA(t))
  BY <1>1 DEF Unmeter, Refresh, Eject, Mount, EnableHA, DisableHA
<1>9. ~(Migrate(t) \/ RelocateCheck(t) \/ Rename(t) \/ MoveStorage(t) \/ CleanLook(t) \/
      CleanRemove(t))
  BY <1>1 DEF Migrate, RelocateCheck, Rename, MoveStorage, CleanLook, CleanRemove
<1>10. ~(ExportCheck(t) \/ Export(t) \/ ExportMetadata(t))
  BY <1>1 DEF ExportCheck, Export, ExportMetadata
<1>11. ~(request[t].op \in ManageOps \/ request[t].op \in {"vm_create", "vm_clone", "vm_batch"})
  BY <1>1 DEF ManageOps
<1>12. QED
  BY <1>2, <1>3, <1>4, <1>5, <1>6, <1>7, <1>8, <1>9, <1>10, <1>11
  DEF Acts, ProvisionStep, ManageStep

\* The VM of an edit, and the edit that has looked it up and not answered yet.
Edited(t) == request[t].vm
Applying(t) == Op(t) = "vm_edit" /\ pc[t] \in EditSteps \ {"vm_edit"}

\* What the documentation promises of writes (LLM.md), as far as an edit needs it: while it
\* takes no step itself, its VM stays, with its name, its settings, its disks and its adapters.
Alone ==
  \A t \in Tasks : Applying(t) /\ pc'[t] = pc[t] /\ loc'[t] = loc[t] /\ Edited(t) \in Ids =>
    /\ Edited(t) \in DOMAIN vms'
    /\ vms'[Edited(t)].name = vms[Edited(t)].name
    /\ vms'[Edited(t)].settings = vms[Edited(t)].settings
    /\ vms'[Edited(t)].disks = vms[Edited(t)].disks
    /\ vms'[Edited(t)].nics = vms[Edited(t)].nics

LeftAlone == [][Alone]_vars

\* The sections before the present one are applied to vm, and of the present one what done
\* says; the adapters are those that were found until their section is over.
Applied(t, step, l, vm) ==
  LET r == request[t]
  IN  /\ step = "edit.set" => l.done \subseteq vm.settings
      /\ step # "edit.set" => Wanted(t) \subseteq vm.settings
      /\ step \in {"edit.disks", "edit.grow"} => l.done = {}
      /\ step = "edit.add" => l.done \subseteq vm.disks
      /\ step = "edit.grow" => r.add \subseteq vm.disks
      /\ step \in {"edit.remove", "edit.wipe"} => l.done \cap vm.disks = {}
      /\ step \in {"edit.remove", "edit.wipe", "edit.nics", "edit.end"} =>
           (r.add \ r.remove) \subseteq vm.disks
      /\ step \in {"edit.nics", "edit.end"} => r.remove \cap vm.disks = {}
      /\ vm.nics = IF step = "edit.end" THEN l.nics + r.plug - r.unplug ELSE l.nics

EditInv ==
  \A t \in Tasks : Op(t) = "vm_edit" =>
    /\ pc[t] \in {"waiting", "vm_edit"} => loc[t].done = {}
    /\ Applying(t) => /\ Edited(t) \in Ids
                      /\ vms[Edited(t)].name = loc[t].name
                      /\ Applied(t, pc[t], loc[t], vms[Edited(t)])

\* The same for one task, after a step.
EditInvOf(t) ==
  /\ pc'[t] \in {"waiting", "vm_edit"} => loc'[t].done = {}
  /\ pc'[t] \in EditSteps \ {"vm_edit"} =>
       /\ Edited(t) \in DOMAIN vms'
       /\ vms'[Edited(t)].name = loc'[t].name
       /\ Applied(t, pc'[t], loc'[t], vms'[Edited(t)])

AppliedAll(t) ==
  /\ Wanted(t) \subseteq vms[Edited(t)].settings
  /\ (request[t].add \ request[t].remove) \subseteq vms[Edited(t)].disks
  /\ request[t].remove \cap vms[Edited(t)].disks = {}
  /\ vms[Edited(t)].nics = loc[t].nics + request[t].plug - request[t].unplug

(* Each section of an edit applies what it is there for and keeps what the earlier ones did. *)
LEMMA EditApplies ==
  ASSUME TInv, EditInv, NEW t \in Tasks, Op(t) = "vm_edit", EditStep(t) \/ Kill(t)
  PROVE  EditInvOf(t) /\ (answer'[t] = "completed" => AppliedAll(t))
<1>1. /\ DOMAIN pc = Tasks /\ DOMAIN loc = Tasks /\ DOMAIN answer = Tasks
      /\ DOMAIN loc[t] = LocFields
      /\ answer[t] # "completed" \/ ~Busy(t)
  BY DEF TInv, TypeOK, ControlInv, Busy
<1>2. pc[t] \in {"waiting", "vm_edit"} => loc[t].done = {}
  BY DEF EditInv
<1>3. pc[t] \in EditSteps \ {"vm_edit"} =>
        /\ Edited(t) \in DOMAIN vms
        /\ DOMAIN vms[Edited(t)] = VMFields
        /\ vms[Edited(t)].name = loc[t].name
        /\ Edited(t) \in ByName(EditName(t))
        /\ Applied(t, pc[t], loc[t], vms[Edited(t)])
  BY DEF EditInv, Applying, TInv, HostInv, VMsInv, VMOk, Ids, ByName, EditName
<1>4. /\ Wanted(t) \subseteq {Order[i] : i \in DOMAIN Order}
      /\ request[t].plug \in Nat /\ request[t].unplug \in Nat
  BY EditAssumption DEF TInv, ControlInv, Op, Wanted
<1>5. /\ \A s, l : GoWith(t, s, l) => pc'[t] = s /\ loc'[t] = l /\ answer' = answer
      /\ \A s : Go(t, s) => pc'[t] = s /\ loc'[t] = loc[t] /\ answer' = answer
  BY <1>1 DEF GoWith, Go
<1>6. Fail(t) => EditInvOf(t) /\ answer'[t] = "failed"
  BY <1>1 DEF Fail, Answer, EditInvOf, EditSteps
<1>7. CASE request[t].op = "vm_edit" /\ Begin(t, "vm_edit")
  BY <1>7, <1>1, <1>2, <1>5 DEF Begin, At, Busy, TInv, TypeOK, EditInvOf, EditSteps
<1>8. CASE EditCheck(t)
  <2>1. answer[t] # "completed" /\ loc[t].done = {}
    BY <1>8, <1>1, <1>2 DEF EditCheck, At, Busy
  <2>2. CASE /\ GoWith(t, "edit.set", [loc[t] EXCEPT !.name = vms[Edited(t)].name,
                                                     !.nics = vms[Edited(t)].nics])
             /\ Edited(t) \in Ids
    <3>1. /\ loc'[t].name = vms[Edited(t)].name /\ loc'[t].done = {}
          /\ loc'[t].nics = vms[Edited(t)].nics
      <4>1. loc'[t] = [loc[t] EXCEPT !.name = vms[Edited(t)].name, !.nics = vms[Edited(t)].nics]
        BY <2>2, <1>5
      <4>2. QED
        BY <4>1, <2>1, <1>1 DEF LocFields
    <3>2. vms' = vms /\ pc'[t] = "edit.set" /\ answer' = answer
      BY <2>2, <1>8, <1>5 DEF EditCheck, hostVars
    <3>3. QED
      BY <2>1, <2>2, <3>1, <3>2 DEF EditInvOf, Applied, EditSteps, Ids
  <2>3. QED
    BY <2>2, <1>6, <1>8 DEF EditCheck, Edited
<1>9. CASE EditSet(t)
  <2> DEFINE todo == {i \in DOMAIN Order : Order[i] \in Wanted(t) \ loc[t].done}
             x == Order[CHOOSE i \in todo : \A j \in todo : i <= j]
             old == vms[Edited(t)]
             new == vms'[Edited(t)]
  <2>1. /\ pc[t] = "edit.set" /\ answer[t] # "completed" /\ loc[t].done \subseteq old.settings
        /\ DOMAIN old = VMFields /\ old.name = loc[t].name /\ Edited(t) \in ByName(EditName(t))
        /\ Edited(t) \in DOMAIN vms /\ old.nics = loc[t].nics
    BY <1>9, <1>1, <1>3 DEF EditSet, At, Busy, Applied, EditSteps
  <2>2. CASE todo = {}
    <3>1. vms' = vms /\ GoWith(t, "edit.disks", [loc[t] EXCEPT !.done = {}])
      BY <2>2, <1>9 DEF EditSet
    <3>2. /\ loc'[t].done = {} /\ loc'[t].name = loc[t].name /\ loc'[t].nics = loc[t].nics
          /\ pc'[t] = "edit.disks" /\ answer' = answer
      BY <3>1, <1>1, <1>5 DEF LocFields
    <3>3. Wanted(t) \subseteq loc[t].done
      BY <2>2, <1>4
    <3>4. QED
      BY <2>1, <3>1, <3>2, <3>3 DEF EditInvOf, Applied
  <2>3. CASE todo # {} /\ ~Fail(t)
    <3>1. /\ vms' = [w \in DOMAIN vms |-> IF w \in ByName(EditName(t))
                      THEN [vms[w] EXCEPT !.settings = @ \cup {x}] ELSE vms[w]]
          /\ GoWith(t, "edit.set", [loc[t] EXCEPT !.done = @ \cup {x}])
      BY <2>3, <1>9 DEF EditSet, Changed, Ids
    <3> HIDE DEF x, todo
    <3>2. loc'[t].done = loc[t].done \cup {x} /\ loc'[t].name = loc[t].name /\ loc'[t].nics = loc[t].nics
          /\ pc'[t] = "edit.set" /\ answer' = answer
      BY <3>1, <1>1, <1>5 DEF LocFields
    <3>3. Edited(t) \in DOMAIN vms' /\ new.settings = old.settings \cup {x} /\ new.name = old.name
          /\ new.nics = old.nics
      BY <3>1, <2>1 DEF VMFields
    <3>4. QED
      BY <2>1, <3>2, <3>3 DEF EditInvOf, Applied
  <2>4. QED
    BY <2>2, <2>3, <1>6
<1>10. CASE EditDisks(t)
  <2>1. /\ pc[t] = "edit.disks" /\ answer[t] # "completed" /\ vms' = vms
        /\ Wanted(t) \subseteq vms[Edited(t)].settings /\ loc[t].done = {}
        /\ Edited(t) \in DOMAIN vms /\ vms[Edited(t)].name = loc[t].name
        /\ vms[Edited(t)].nics = loc[t].nics
    BY <1>10, <1>1, <1>3 DEF EditDisks, Space, At, Busy, Applied, EditSteps, hostVars
  <2>2. CASE Go(t, "edit.grow") /\ request[t].add = {}
    BY <2>1, <2>2, <1>5 DEF EditInvOf, Applied
  <2>3. CASE Go(t, "edit.add")
    BY <2>1, <2>3, <1>5 DEF EditInvOf, Applied
  <2>4. QED
    BY <2>2, <2>3, <1>6, <1>10 DEF EditDisks, Space, DiskWork
<1>11. CASE EditAdd(t)
  <2> DEFINE old == vms[Edited(t)]
             new == vms'[Edited(t)]
             todo == request[t].add \ loc[t].done
  <2>1. /\ pc[t] = "edit.add" /\ answer[t] # "completed" /\ loc[t].done \subseteq old.disks
        /\ Wanted(t) \subseteq old.settings
        /\ DOMAIN old = VMFields /\ old.name = loc[t].name /\ Edited(t) \in ByName(EditName(t))
        /\ Edited(t) \in DOMAIN vms /\ old.nics = loc[t].nics
    BY <1>11, <1>1, <1>3 DEF EditAdd, At, Busy, Applied, EditSteps
  <2>2. CASE todo = {}
    <3>1. vms' = vms /\ GoWith(t, "edit.grow", [loc[t] EXCEPT !.done = {}])
      BY <2>2, <1>11 DEF EditAdd
    <3>2. /\ loc'[t].done = {} /\ loc'[t].name = loc[t].name /\ loc'[t].nics = loc[t].nics
          /\ pc'[t] = "edit.grow" /\ answer' = answer
      BY <3>1, <1>1, <1>5 DEF LocFields
    <3>3. request[t].add \subseteq loc[t].done
      BY <2>2
    <3>4. QED
      BY <2>1, <3>1, <3>2, <3>3 DEF EditInvOf, Applied
  <2>3. CASE todo # {} /\ ~Fail(t)
    <3>1. PICK f \in todo :
            /\ vms' = [w \in DOMAIN vms |-> IF w \in ByName(EditName(t))
                        THEN [vms[w] EXCEPT !.disks = @ \cup {f}] ELSE vms[w]]
            /\ GoWith(t, "edit.add", [loc[t] EXCEPT !.done = @ \cup {f}])
      BY <2>3, <1>11 DEF EditAdd, Changed, Ids
    <3>2. loc'[t].done = loc[t].done \cup {f} /\ loc'[t].name = loc[t].name /\ loc'[t].nics = loc[t].nics
          /\ pc'[t] = "edit.add" /\ answer' = answer
      BY <3>1, <1>1, <1>5 DEF LocFields
    <3>3. Edited(t) \in DOMAIN vms' /\ new.disks = old.disks \cup {f} /\ new.name = old.name
          /\ new.settings = old.settings /\ new.nics = old.nics
      BY <3>1, <2>1 DEF VMFields
    <3>4. QED
      BY <2>1, <3>2, <3>3 DEF EditInvOf, Applied
  <2>4. QED
    BY <2>2, <2>3, <1>6
<1>12. CASE EditGrow(t)
  <2>1. /\ pc[t] = "edit.grow" /\ answer[t] # "completed" /\ vms' = vms /\ loc[t].done = {}
        /\ Wanted(t) \subseteq vms[Edited(t)].settings
        /\ request[t].add \subseteq vms[Edited(t)].disks
        /\ Edited(t) \in DOMAIN vms /\ vms[Edited(t)].name = loc[t].name
        /\ vms[Edited(t)].nics = loc[t].nics
    BY <1>12, <1>1, <1>3 DEF EditGrow, At, Busy, Applied, EditSteps, hostVars
  <2>2. CASE Go(t, "edit.remove")
    BY <2>1, <2>2, <1>5 DEF EditInvOf, Applied
  <2>3. QED
    BY <2>2, <1>6, <1>12 DEF EditGrow
<1>13. CASE EditRemove(t)
  <2> DEFINE old == vms[Edited(t)]
             new == vms'[Edited(t)]
             todo == request[t].remove \ loc[t].done
  <2>1. /\ pc[t] = "edit.remove" /\ answer[t] # "completed" /\ loc[t].done \cap old.disks = {}
        /\ Wanted(t) \subseteq old.settings
        /\ (request[t].add \ request[t].remove) \subseteq old.disks
        /\ DOMAIN old = VMFields /\ old.name = loc[t].name /\ Edited(t) \in ByName(EditName(t))
        /\ Edited(t) \in DOMAIN vms /\ old.nics = loc[t].nics
    BY <1>13, <1>1, <1>3 DEF EditRemove, At, Busy, Applied, EditSteps
  <2>2. CASE todo = {}
    <3>1. vms' = vms /\ Go(t, "edit.nics")
      BY <2>2, <1>13 DEF EditRemove
    <3>2. request[t].remove \subseteq loc[t].done
      BY <2>2
    <3>3. QED
      BY <2>1, <3>1, <3>2, <1>5 DEF EditInvOf, Applied
  <2>3. CASE todo # {} /\ ~Fail(t)
    <3> DEFINE next == IF request[t].wipe THEN "edit.wipe" ELSE "edit.remove"
    <3>1. PICK f \in todo :
            /\ vms' = [w \in DOMAIN vms |-> IF w \in ByName(EditName(t))
                        THEN [vms[w] EXCEPT !.disks = @ \ {f}] ELSE vms[w]]
            /\ GoWith(t, next, [loc[t] EXCEPT !.done = @ \cup {f}, !.disks = {f}])
      BY <2>3, <1>13 DEF EditRemove, Changed, Ids
    <3>2. loc'[t].done = loc[t].done \cup {f} /\ loc'[t].name = loc[t].name /\ loc'[t].nics = loc[t].nics
          /\ pc'[t] = next /\ answer' = answer
      <4> HIDE DEF next
      <4>1. /\ loc'[t] = [loc[t] EXCEPT !.done = @ \cup {f}, !.disks = {f}]
            /\ pc'[t] = next /\ answer' = answer
        BY <3>1, <1>5
      <4>2. QED
        BY <4>1, <1>1 DEF LocFields
    <3>3. Edited(t) \in DOMAIN vms' /\ new.disks = old.disks \ {f} /\ new.name = old.name
          /\ new.settings = old.settings /\ new.nics = old.nics
      BY <3>1, <2>1 DEF VMFields
    <3>4. QED
      BY <2>1, <3>1, <3>2, <3>3 DEF EditInvOf, Applied
  <2>4. QED
    BY <2>2, <2>3, <1>6
<1>14. CASE EditWipe(t)
  <2>1. pc[t] = "edit.wipe" /\ answer[t] # "completed" /\ vms' = vms /\ Go(t, "edit.remove")
    BY <1>14, <1>1 DEF EditWipe, At, Busy
  <2>2. QED
    BY <2>1, <1>3, <1>5 DEF EditInvOf, Applied, EditSteps
<1>15. CASE EditNICs(t)
  <2>1. /\ pc[t] = "edit.nics" /\ answer[t] # "completed"
        /\ Edited(t) \in DOMAIN vms /\ DOMAIN vms[Edited(t)] = VMFields
        /\ vms[Edited(t)].name = loc[t].name
        /\ Applied(t, "edit.nics", loc[t], vms[Edited(t)])
    BY <1>15, <1>1, <1>3 DEF EditNICs, At, Busy, EditSteps
  <2>2. CASE ~Fail(t)
    <3>1. /\ Go(t, "edit.end")
          /\ vms' = [w \in DOMAIN vms |-> IF w \in ByName(EditName(t))
                      THEN [vms[w] EXCEPT !.nics = @ + (request[t].plug - request[t].unplug)]
                      ELSE vms[w]]
      BY <2>2, <1>15 DEF EditNICs, Changed, Ids
    <3>2. /\ Edited(t) \in DOMAIN vms' /\ vms'[Edited(t)].disks = vms[Edited(t)].disks
          /\ vms'[Edited(t)].settings = vms[Edited(t)].settings
          /\ vms'[Edited(t)].name = vms[Edited(t)].name
      BY <3>1, <2>1 DEF VMFields
    <3>3. vms'[Edited(t)].nics = loc[t].nics + request[t].plug - request[t].unplug
      <4>1. vms'[Edited(t)].nics = vms[Edited(t)].nics + (request[t].plug - request[t].unplug)
        <5> DEFINE n == request[t].plug - request[t].unplug
        <5>1. vms' = [w \in DOMAIN vms |-> IF w \in ByName(EditName(t))
                       THEN [vms[w] EXCEPT !.nics = @ + n] ELSE vms[w]]
          BY <3>1
        <5>2. Edited(t) \in ByName(EditName(t))
          BY <2>1, <1>3, <1>15 DEF EditNICs, At, EditSteps
        <5> HIDE DEF n
        <5>3. vms'[Edited(t)] = [vms[Edited(t)] EXCEPT !.nics = vms[Edited(t)].nics + n]
          BY <5>1, <5>2, <2>1
        <5>4. vms'[Edited(t)].nics = vms[Edited(t)].nics + n
          BY <5>3, <2>1 DEF VMFields
        <5>5. QED
          BY <5>4 DEF n
      <4>2. vms[Edited(t)].nics = loc[t].nics /\ vms[Edited(t)].nics \in Nat
        BY <2>1 DEF Applied, TInv, HostInv, VMsInv, VMOk, Ids
      <4>3. QED
        BY <4>1, <4>2, <1>4
    <3>4. QED
      BY <2>1, <3>1, <3>2, <3>3, <1>5 DEF EditInvOf, Applied
  <2>3. QED
    BY <2>2, <1>6
<1>16. CASE EditEnd(t)
  <2>1. CASE Answer(t, "completed")
    <3>1. pc'[t] = "done"
      BY <2>1, <1>1 DEF Answer
    <3>2. pc[t] = "edit.end"
      BY <1>16 DEF EditEnd, At
    <3>3. QED
      BY <3>1, <3>2, <1>3 DEF EditInvOf, EditSteps, Applied, AppliedAll
  <2>2. QED
    BY <2>1, <1>6, <1>16 DEF EditEnd
<1>17. CASE Kill(t)
  BY <1>17, <1>1 DEF Kill, EditInvOf, EditSteps
<1>18. QED
  BY <1>7, <1>8, <1>9, <1>10, <1>11, <1>12, <1>13, <1>14, <1>15, <1>16, <1>17 DEF EditStep

(* The invariant is inductive, when nobody else changes the VM of an edit. *)
LEMMA EditInvKept ==
  ASSUME TInv, EditInv, [Next]_vars, Alone
  PROVE  /\ EditInv'
         /\ \A t \in Tasks :
              Op(t) = "vm_edit" /\ answer'[t] = "completed" /\ ~Completed(t) => AppliedAll(t)
<1>1. ASSUME NEW t \in Tasks, request' = request, Op(t) = "vm_edit",
             pc'[t] = pc[t], loc'[t] = loc[t], answer'[t] = answer[t]
      PROVE  EditInvOf(t) /\ (answer'[t] = "completed" => Completed(t))
  <2>1. answer'[t] = "completed" => Completed(t)
    BY <1>1 DEF Completed
  <2>2. pc[t] \in {"waiting", "vm_edit"} => loc[t].done = {}
    BY <1>1 DEF EditInv
  <2>3. CASE pc[t] \in EditSteps \ {"vm_edit"}
    <3>1. /\ Edited(t) \in DOMAIN vms' /\ Edited(t) \in Ids
          /\ vms'[Edited(t)].name = vms[Edited(t)].name
          /\ vms'[Edited(t)].settings = vms[Edited(t)].settings
          /\ vms'[Edited(t)].disks = vms[Edited(t)].disks
          /\ vms'[Edited(t)].nics = vms[Edited(t)].nics
      BY <1>1, <2>3 DEF Alone, Applying, EditInv
    <3>2. /\ vms[Edited(t)].name = loc[t].name
          /\ Applied(t, pc[t], loc[t], vms[Edited(t)])
      BY <1>1, <2>3 DEF Applying, EditInv
    <3>3. Applied(t, pc[t], loc[t], vms'[Edited(t)])
      BY <3>1, <3>2 DEF Applied
    <3>4. QED
      BY <1>1, <2>1, <2>2, <3>1, <3>2, <3>3 DEF EditInvOf
  <2>4. QED
    BY <1>1, <2>1, <2>2, <2>3 DEF EditInvOf
<1>2. request' = request /\ \A t \in Tasks : Op(t)' = Op(t)
  <2>1. CASE UNCHANGED vars
    BY <2>1 DEF vars, taskVars, Op
  <2>2. ASSUME NEW v \in Ids, Switch(v)
        PROVE  request' = request
    BY <2>2 DEF Switch, taskVars
  <2>3. ASSUME NEW t \in Tasks, Acts(t)
        PROVE  request' = request
    BY <2>3, ActsProceeds DEF Proceeds
  <2>4. request' = request
    BY <2>1, <2>2, <2>3 DEF Next, Acts, vars, taskVars
  <2>5. QED
    BY <2>4 DEF Op
<1>3. ASSUME NEW t \in Tasks, Op(t) = "vm_edit"
      PROVE  EditInvOf(t) /\ (answer'[t] = "completed" => Completed(t) \/ AppliedAll(t))
  <2>1. CASE UNCHANGED <<pc, loc, answer>>
    BY <2>1, <1>1, <1>2, <1>3
  <2>2. ASSUME NEW v \in Ids, Switch(v)
        PROVE  UNCHANGED <<pc, loc, answer>>
    BY <2>2 DEF Switch, taskVars
  <2>3. CASE Acts(t)
    BY <2>3, <1>3, OnlyEdits, EditApplies
  <2>4. ASSUME NEW u \in Tasks, u # t, Acts(u)
        PROVE  pc'[t] = pc[t] /\ loc'[t] = loc[t] /\ answer'[t] = answer[t]
    BY <2>4, ActsProceeds DEF Proceeds
  <2>5. CASE \E u \in Tasks : u # t /\ Acts(u)
    BY <2>4, <2>5, <1>1, <1>2, <1>3
  <2>6. QED
    BY <2>1, <2>2, <2>3, <2>5 DEF Next, Acts, vars, taskVars
<1>4. EditInv'
  BY <1>2, <1>3 DEF EditInv, EditInvOf, Applying, Applied, Edited, Wanted, Skipped, Ids
<1>5. QED
  BY <1>3, <1>4

(* VMTasks: an edit that answers completed has applied every setting but a number of       *)
(* processors that is not positive, attached its new disks, detached those to be removed   *)
(* and added and removed its adapters, whichever scripts it took and whatever other tasks   *)
(* did between them to other VMs, as long as nobody else changed its VM (handleVMEdit).     *)
THEOREM EditAppliedKept == Spec /\ LeftAlone => EditAppliesAll
<1> DEFINE Good ==
      \A t \in Tasks : Op(t) = "vm_edit" /\ answer'[t] = "completed" /\ ~Completed(t) =>
        LET vm == vms[request[t].vm] IN
          /\ Wanted(t) \subseteq vm.settings
          /\ (request[t].add \ request[t].remove) \subseteq vm.disks
          /\ request[t].remove \cap vm.disks = {}
          /\ vm.nics = loc[t].nics + request[t].plug - request[t].unplug
<1>1. Init => EditInv
  <2>1. NoLocals.done = {}
    BY DEF NoLocals
  <2>2. Init => \A t \in Tasks : pc[t] = "waiting" /\ loc[t] = NoLocals
    BY DEF Init
  <2>3. QED
    BY <2>1, <2>2 DEF EditInv, Applying, EditSteps
<1>2. TInv /\ EditInv /\ [Next]_vars /\ [Alone]_vars => EditInv' /\ [Good]_vars
  <2> SUFFICES ASSUME TInv, EditInv, [Next]_vars, [Alone]_vars
               PROVE  EditInv' /\ [Good]_vars
    OBVIOUS
  <2>1. CASE UNCHANGED vars
    BY <2>1 DEF vars, taskVars, hostVars, EditInv, Applying, Applied, Edited, Wanted, Skipped, Op, Ids
  <2>2. CASE Alone
    BY <2>2, EditInvKept DEF AppliedAll, Edited
  <2>3. QED
    BY <2>1, <2>2
<1>3. Init => TInv
  BY InitTyped
<1>4. TInv /\ [Next]_vars => TInv'
  BY TypesKept
<1>5. QED
  BY <1>1, <1>2, <1>3, <1>4, PTL DEF Spec, LeftAlone, EditAppliesAll

=============================================================================
