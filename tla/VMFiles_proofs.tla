---------------------------- MODULE VMFiles_proofs ----------------------------
(* A theorem about VMTasks: as long as every script works, no handler leaves a disk file or  *)
(* an export behind. It builds on the invariant of VMDisks_proofs.                           *)
EXTENDS VMDisks_proofs

-----------------------------------------------------------------------------
(* What is supposed *)

Owned(f) == \E v \in Ids : f \in vms[v].disks

\* At first all files are in folders and belong to a VM or a template, and no export is there.
Swept ==
  /\ \A d \in folders : d[1] # "export"
  /\ \A f \in vhds : f.dir \in folders /\ (f.dir[1] = "template" \/ Owned(f))

\* A VM that is deleted without its files has them in its folder: Kept is about that one.
Gathered(t) ==
  At(t, "vm_delete") /\ ~request[t].files =>
    \A v \in ByName(loc[t].name) : \A f \in vms[v].disks : f.dir = vms[v].home

-----------------------------------------------------------------------------
(* The invariant *)

\* The export a clone has made.
Exporting == {"clone.import", "clone.name", "clone.disk", "clone.point", "clone.tidy", "clone.undo"}
HasExport(t, d) ==
  Op(t) = "vm_clone" /\ pc[t] \in Exporting /\ Imported(t) /\ d = Exported(t)

\* What a handler has in its hands: disks it makes, renames, converts or is about to remove.
Held(t, f) ==
  \/ Op(t) = "vm_create" /\ pc[t] \in {"create.disk", "create.attach"} /\ f \in DiskFiles(t)
  \/ HasExport(t, f.dir)
  \/ Op(t) = "vm_clone" /\ At(t, "clone.point") /\ \E g \in loc[t].disks : f = Renamed(g)
  \/ /\ Op(t) = "vm_clone" /\ pc[t] \in {"convert.remove", "convert.rename"}
     /\ \E g \in loc[t].done : f = Converted(g)
  \/ Op(t) = "vm_delete" /\ At(t, "delete.files") /\ (f.dir = loc[t].home \/ f \in loc[t].disks)
  \/ Op(t) = "vm_edit" /\ At(t, "edit.wipe") /\ f \in loc[t].disks

\* What it keeps on purpose. A deletion notes its folder first.
Spared(t, f) ==
  Ran(t) /\ Kept(t, f) /\ (Op(t) = "vm_delete" => pc[t] \notin {"resolve", "vm_delete"})

\* A file that is a template's, a VM's, or the handler's business.
Accounted(t, f) == f.dir[1] = "template" \/ Owned(f) \/ Held(t, f) \/ Spared(t, f)

FilesInv == \A f \in vhds : f.dir \in folders
ExportsInv == \A d \in folders : d[1] = "export" => \E t \in Tasks : HasExport(t, d)
LooseInv ==
  \A f \in vhds : f.dir[1] = "template" \/ Owned(f) \/ \E t \in Tasks : Held(t, f) \/ Spared(t, f)

\* What the handlers know besides, as long as all scripts work.
CreateSure(t) ==
  /\ At(t, "create.disk") => FilesIn(Target(t)) \subseteq loc[t].done
  /\ At(t, "create.attach") => \E v \in Ids : Named(t) = {v}
CloneSure(t) == At(t, "clone.point") => loc[t].disks \cap vhds = {}
DeleteSure(t) ==
  pc[t] \in {"delete.role", "delete.vm"} =>
    \A v \in ByName(Name(t)) : \A f \in vms[v].disks :
      IF request[t].files THEN f \in loc[t].disks ELSE f.dir = loc[t].home
ExportSure(t) == pc[t] \in Converting => \A f \in loc[t].disks : f.dir[1] = "template"
EditSure(t) == pc[t] \in {"edit.set", "edit.disks", "edit.add"} => ByName(EditName(t)) # {}

Sure(t) ==
  /\ Op(t) = "vm_create" => CreateSure(t)
  /\ Op(t) = "vm_clone" => CloneSure(t)
  /\ Op(t) = "vm_delete" => DeleteSure(t)
  /\ Op(t) = "vm_export_template" => ExportSure(t)
  /\ Op(t) = "vm_edit" => EditSure(t)

LeftInv == FilesInv /\ ExportsInv /\ LooseInv

LeftInvariant == faults = 0 => LeftInv /\ \A t \in Tasks : Sure(t)

-----------------------------------------------------------------------------
(* A step that leaves nothing behind *)

\* What t makes it accounts for, and what it accounted for it does not leave to others.
CleanStep(t) ==
  /\ FilesInv'
  /\ \A d \in folders' : d[1] = "export" => HasExport(t, d)' \/ (d \in folders /\ ~HasExport(t, d))
  /\ \A f \in vhds' : Accounted(t, f)' \/ (f \in vhds /\ ~Accounted(t, f))

\* Every script works.
AllWork == \A c : ~Breaks(c)

(* As long as there is no fault, all scripts have worked and no worker was killed. *)
LEMMA Faultless ==
  ASSUME TInv, NEW t \in Tasks, Acts(t), faults' = 0
  PROVE  faults = 0 /\ AllWork /\ ~Kill(t)
<1>1. faults \in Nat
  BY BoundAssumption DEF TInv, TypeOK
<1>2. AllWork /\ ~Kill(t)
  BY <1>1 DEF AllWork, Breaks, Kill
<1>3. Works
  <2>1. CASE ProvisionStep(t)
    <3>1. CASE Begins(t) \/ CreateActs(t) \/ Finish(t)
      BY <3>1, <1>2
      DEF Begins, Begin, CreateActs, CreateSpace, Space, CreateCheck, CreateDisk, CreateVM, CreateAttach,
          Finish, Settle, FindId, PowerOn, AllWork
    <3>2. CASE CloneActs(t)
      BY <3>2, <1>2
      DEF CloneActs, CloneSpace, Space, CloneCheck, CloneSource, CloneExport, CloneImport, CloneName,
          CloneDisk, ClonePoint, CloneUndo, CloneTidy, RemoveExport, AllWork
    <3>3. CASE Convert(t) \/ DeleteActs(t)
      BY <3>3, <1>2
      DEF Convert, ConvertDisk, ConvertRemove, ConvertRename, DeleteActs, DeleteCheck, DeleteRole, DeleteVM,
          DeleteFiles, AllWork
    <3>4. QED
      BY <2>1, <3>1, <3>2, <3>3
      DEF ProvisionStep, Begins, CreateActs, CloneActs, Convert, Finish, DeleteActs
  <2>2. CASE ManageStep(t)
    <3>1. CASE Begins(t) \/ Resolve(t) \/ BatchActs(t)
      BY <3>1, <1>2 DEF Begins, Begin, Resolve, BatchActs, BatchCheck, BatchVM, BatchEnd, AllWork
    <3>2. CASE PolicyActs(t)
      BY <3>2, <1>2
      DEF PolicyActs, Start, Pause, Resume, Restart, Shutdown, Stop, SetState, Script, Snapshot, Policy,
          Unmeter, Refresh, Eject, Mount, EnableHA, DisableHA, AllWork
    <3>3. CASE Migrate(t) \/ MoveActs(t) \/ ExportActs(t)
      BY <3>3, <1>2
      DEF Migrate, MoveActs, RelocateCheck, Rename, MoveStorage, CleanLook, CleanRemove, ExportActs,
          ExportCheck, Space, Export, ExportMetadata, AllWork
    <3>4. QED
      BY <2>2, <3>1, <3>2, <3>3 DEF ManageStep, Begins, BatchActs, PolicyActs, MoveActs, ExportActs
  <2>3. CASE EditStep(t)
    BY <2>3, <1>2
    DEF EditStep, Begin, EditCheck, EditSet, EditDisks, Space, EditAdd, EditGrow, EditRemove, EditWipe,
        EditNICs, EditEnd, AllWork
  <2>4. QED
    BY <2>1, <2>2, <2>3, <1>2 DEF Acts
<1>4. QED
  BY <1>2, <1>3 DEF Works

(* What other handlers have made or keep, they go on having and keeping. *)
LEMMA OthersHold ==
  ASSUME TInv, NEW t \in Tasks, Acts(t), NEW u \in Tasks \ {t}
  PROVE  /\ \A d : HasExport(u, d) => HasExport(u, d)'
         /\ \A f : Held(u, f) => Held(u, f)'
         /\ \A f : Spared(u, f) => Spared(u, f)'
<1>1. request' = request /\ site' = site /\ pc'[u] = pc[u] /\ loc'[u] = loc[u]
  BY ActsProceeds DEF Proceeds
<1>2. /\ Op(u)' = Op(u) /\ Imported(u)' = Imported(u) /\ Exported(u)' = Exported(u)
      /\ DiskFiles(u)' = DiskFiles(u) /\ (Ran(u)' <=> Ran(u)) /\ \A s : At(u, s)' <=> At(u, s)
  BY <1>1 DEF Op, Imported, Exported, Source, DiskFiles, Target, Ran, At
<1>3. \A d : HasExport(u, d) => HasExport(u, d)'
  BY <1>1, <1>2 DEF HasExport
<1>4. \A f : Kept(u, f) => Kept(u, f)'
  BY <1>1, <1>2 DEF Kept
<1>5. \A f : Spared(u, f) => Spared(u, f)'
  BY <1>1, <1>2, <1>4 DEF Spared
<1>6. \A f : Held(u, f) => Held(u, f)'
  BY <1>1, <1>2, <1>3 DEF Held
<1>7. QED
  BY <1>3, <1>5, <1>6

(* So it is enough that each step cleans up after itself. *)
LEMMA LeftKept ==
  ASSUME TInv, LeftInv, NEW t \in Tasks, Acts(t), CleanStep(t)
  PROVE  LeftInv'
<1>1. /\ \A u \in Tasks \ {t} : \A d : HasExport(u, d) => HasExport(u, d)'
      /\ \A u \in Tasks \ {t} : \A f : Held(u, f) \/ Spared(u, f) => Held(u, f)' \/ Spared(u, f)'
  BY OthersHold
<1>2. FilesInv'
  BY DEF CleanStep
<1>3. ASSUME NEW d \in folders', d[1] = "export"
      PROVE  \E u \in Tasks : HasExport(u, d)'
  <2>1. CASE HasExport(t, d)'
    BY <2>1
  <2>2. CASE d \in folders /\ ~HasExport(t, d)
    <3>1. PICK u \in Tasks : HasExport(u, d)
      BY <1>3, <2>2 DEF LeftInv, ExportsInv
    <3>2. u # t
      BY <2>2, <3>1
    <3>3. QED
      BY <1>1, <3>1, <3>2
  <2>3. QED
    BY <1>3, <2>1, <2>2 DEF CleanStep
<1>4. ASSUME NEW f \in vhds'
      PROVE  f.dir[1] = "template" \/ Owned(f)' \/ \E u \in Tasks : Held(u, f)' \/ Spared(u, f)'
  <2>1. CASE Accounted(t, f)'
    BY <2>1 DEF Accounted
  <2>2. CASE f \in vhds /\ ~Accounted(t, f)
    <3>1. PICK u \in Tasks : Held(u, f) \/ Spared(u, f)
      BY <2>2 DEF LeftInv, LooseInv, Accounted
    <3>2. u # t
      BY <2>2, <3>1 DEF Accounted
    <3>3. QED
      BY <1>1, <3>1, <3>2
  <2>3. QED
    BY <1>4, <2>1, <2>2 DEF CleanStep
<1>5. ExportsInv'
  BY <1>3 DEF ExportsInv
<1>6. LooseInv'
  BY <1>4 DEF LooseInv
<1>7. QED
  BY <1>2, <1>5, <1>6 DEF LeftInv

(* What a handler spares it goes on to spare: a deletion does not change its mind. *)
LEMMA SparesOn ==
  ASSUME TInv, NEW t \in Tasks, Acts(t),
         Op(t) = "vm_delete" => \/ pc[t] \in {"waiting", "resolve", "vm_delete"}
                                \/ loc'[t] = loc[t] /\ pc'[t] \notin {"resolve", "vm_delete"}
  PROVE  \A f : Spared(t, f) => Spared(t, f)'
<1>1. request' = request /\ site' = site /\ Op(t)' = Op(t) /\ Ran(t)'
  BY ActsProceeds DEF Proceeds, Op, Ran, InHandler, EditSteps, BatchSteps, Rest
<1>2. CASE Op(t) = "vm_delete"
  BY <1>1, <1>2 DEF Spared, Kept, Ran
<1>3. CASE Op(t) # "vm_delete"
  BY <1>1, <1>3 DEF Spared, Kept
<1>4. QED
  BY <1>2, <1>3

(* Where disks stay with their VMs, files with a VM stay so. *)
LEMMA OwnedStay ==
  ASSUME Ids \subseteq Ids', \A v \in Ids : vms'[v].disks = vms[v].disks
  PROVE  \A f : Owned(f) => Owned(f)'
BY DEF Owned

(* A step that changes neither files nor folders and gives nothing up is clean. *)
LEMMA HarmlessStep ==
  ASSUME FilesInv, Steady, NEW t \in Tasks,
         \A f : Spared(t, f) => Spared(t, f)',
         \A f : Held(t, f) => Held(t, f)' \/ Owned(f),
         \A d : HasExport(t, d) => HasExport(t, d)'
  PROVE  CleanStep(t)
<1>1. \A f : Owned(f) => Owned(f)'
  BY OwnedStay DEF Steady, Calm
<1>2. FilesInv'
  BY DEF FilesInv, Steady
<1>3. \A d \in folders' : d[1] = "export" => HasExport(t, d)' \/ (d \in folders /\ ~HasExport(t, d))
  BY DEF Steady
<1>4. \A f : Accounted(t, f) => Accounted(t, f)'
  BY <1>1 DEF Accounted
<1>5. \A f \in vhds' : Accounted(t, f)' \/ (f \in vhds /\ ~Accounted(t, f))
  BY <1>4 DEF Steady
<1>6. QED
  BY <1>2, <1>3, <1>5 DEF CleanStep

-----------------------------------------------------------------------------
(* vm_create *)

(* What a creation makes it attaches to its VM, or holds until it does. *)
LEMMA CreateCleans ==
  ASSUME TInv, HostOK, LeftInv, NEW t \in Tasks, Acts(t), AllWork, Op(t) = "vm_create", CreateLocal(t),
         CreateSure(t), CreateActs(t) \/ Finish(t)
  PROVE  CleanStep(t) /\ CreateSure(t)'
<1>1. /\ Op(t)' = Op(t) /\ request' = request
      /\ Target(t)' = Target(t) /\ DiskFiles(t)' = DiskFiles(t)
  BY ActsProceeds DEF Proceeds, Op, Target, DiskFiles
<1>2. /\ \A s, l : GoWith(t, s, l) => pc'[t] = s /\ loc'[t] = l
      /\ \A s : Go(t, s) => pc'[t] = s /\ loc'[t] = loc[t]
      /\ \A a : Answer(t, a) => pc'[t] = "done"
      /\ Fail(t) => pc'[t] = "done"
  BY Ends
<1>3. DOMAIN loc[t] = LocFields /\ (\A v \in Ids : DOMAIN vms[v] = VMFields)
  BY DEF TInv, ControlInv, HostInv, VMsInv, VMOk
<1>4. /\ \A f \in DiskFiles(t) : f.dir = Target(t)
      /\ Target(t)[1] = "vms"
  BY DEF DiskFiles, Target, Folder, File
<1>5. /\ \A d : ~HasExport(t, d) /\ ~HasExport(t, d)'
      /\ \A f : Held(t, f) <=> pc[t] \in {"create.disk", "create.attach"} /\ f \in DiskFiles(t)
      /\ \A f : Held(t, f)' <=> pc'[t] \in {"create.disk", "create.attach"} /\ f \in DiskFiles(t)
      /\ \A f : Spared(t, f) => Spared(t, f)'
  <2>1. \A d : ~HasExport(t, d) /\ ~HasExport(t, d)'
    BY <1>1 DEF HasExport
  <2>2. \A f : Held(t, f) <=> pc[t] \in {"create.disk", "create.attach"} /\ f \in DiskFiles(t)
    BY <2>1 DEF Held
  <2>3. \A f : Held(t, f)' <=> pc'[t] \in {"create.disk", "create.attach"} /\ f \in DiskFiles(t)
    BY <2>1, <1>1 DEF Held
  <2>4. QED
    BY <2>1, <2>2, <2>3, SparesOn
<1>6. pc'[t] \notin {"create.disk", "create.attach"} => CreateSure(t)'
  BY DEF CreateSure, At
<1>7. FilesInv
  BY DEF LeftInv
<1>8. Steady /\ (pc[t] \in {"create.disk", "create.attach"} => pc'[t] \in {"create.disk", "create.attach"})
        => CleanStep(t)
  BY <1>5, <1>7, HarmlessStep
<1>9. CASE CreateSpace(t)
  <2>1. Steady /\ pc[t] = "create.space" /\ pc'[t] \in {"create.check", "done"}
    BY <1>9, <1>2 DEF CreateSpace, Space, At, hostVars, Steady, Calm, Ids
  <2>2. QED
    BY <2>1, <1>6, <1>8
<1>10. CASE CreateCheck(t)
  <2>1. pc[t] = "create.check" /\ loc[t].done = {} /\ vms' = vms /\ vhds' = vhds
    BY <1>10 DEF CreateCheck, At, CreateLocal
  <2>2. CASE folders' = folders /\ Fail(t)
    BY <2>1, <2>2, <1>2, <1>6, <1>8 DEF Steady, Calm, Ids
  <2>3. CASE ~Taken(t) /\ folders' = folders \cup {Target(t)} /\ Go(t, "create.disk")
    <3>1. pc'[t] = "create.disk"
      BY <2>3, <1>2
    <3>2. \A f \in vhds : f.dir # Target(t)
      BY <2>3, <1>7 DEF Taken, FilesInv
    <3>3. CreateSure(t)'
      BY <2>1, <3>1, <3>2, <1>1 DEF CreateSure, At, FilesIn
    <3>4. FilesInv'
      BY <2>1, <2>3, <1>7 DEF FilesInv
    <3>5. \A f : Owned(f) => Owned(f)'
      BY <2>1 DEF Owned, Ids
    <3>6. \A f \in vhds' : Accounted(t, f)' \/ (f \in vhds /\ ~Accounted(t, f))
      BY <2>1, <3>5, <1>5 DEF Accounted
    <3>7. QED
      BY <2>3, <3>3, <3>4, <3>6, <1>4, <1>5 DEF CleanStep
  <2>4. QED
    BY <2>2, <2>3, <1>10 DEF CreateCheck, AllWork
<1>11. CASE CreateDisk(t)
  <2> DEFINE missing == DiskFiles(t) \ loc[t].done
  <2>1. /\ vms' = vms /\ folders' = folders /\ Target(t) \in folders /\ pc[t] = "create.disk"
        /\ FilesIn(Target(t)) \subseteq loc[t].done
    BY <1>11 DEF CreateDisk, At, CreateLocal, CreateSure
  <2>2. PICK f \in missing :
          \/ vhds' = vhds \cup {f} /\ GoWith(t, "create.disk", [loc[t] EXCEPT !.done = @ \cup {f}])
          \/ f \in vhds
    BY <1>11 DEF CreateDisk, AllWork
  <2>3. f \in DiskFiles(t) /\ f \notin vhds /\ f.dir = Target(t)
    BY <2>1, <1>4 DEF FilesIn
  <2>4. pc'[t] = "create.disk" /\ loc'[t].done = loc[t].done \cup {f} /\ vhds' = vhds \cup {f}
    BY <2>2, <2>3, <1>2, <1>3 DEF LocFields
  <2>5. CreateSure(t)'
    BY <2>1, <2>4, <1>1 DEF CreateSure, At, FilesIn
  <2>6. FilesInv'
    BY <2>1, <2>3, <2>4, <1>7 DEF FilesInv
  <2>7. \A g : Owned(g) => Owned(g)'
    BY <2>1 DEF Owned, Ids
  <2>8. \A g \in vhds' : Accounted(t, g)' \/ (g \in vhds /\ ~Accounted(t, g))
    BY <2>1, <2>3, <2>4, <2>7, <1>5 DEF Accounted
  <2>9. QED
    BY <2>1, <2>5, <2>6, <2>8, <1>5 DEF CleanStep
<1>12. CASE CreateVM(t)
  <2>1. /\ vhds' = vhds /\ folders' = folders /\ Named(t) = {} /\ DiskFiles(t) \subseteq vhds
        /\ pc[t] = "create.disk"
    BY <1>12 DEF CreateVM, At, CreateLocal
  <2>2. CASE OSDisk(t) \notin vhds
    <3>1. vms' = vms /\ Fail(t)
      BY <2>2, <1>12 DEF CreateVM
    <3>2. request[t].disks \in Nat
      BY CreateAssumption DEF TInv, ControlInv, Op
    <3>3. DiskFiles(t) = {}
      BY <2>1, <2>2, <3>2 DEF DiskFiles, OSDisk
    <3>4. \A f : ~Held(t, f)
      BY <3>3, <1>5
    <3>5. CleanStep(t)
      BY <2>1, <3>1, <3>4, <1>5, <1>7, HarmlessStep DEF Steady, Calm, Ids
    <3>6. QED
      BY <3>1, <3>5, <1>2, <1>6
  <2>3. CASE OSDisk(t) \in vhds
    <3> DEFINE v == made + 1
               vm == NewVM(request[t].name, Target(t), {OSDisk(t)})
    <3>1. Registered(vm) /\ Go(t, "create.attach")
      BY <2>3, <1>12 DEF CreateVM, AllWork
    <3>2. v \notin Ids
      BY DEF TInv, HostInv, VMsInv
    <3>3. vm.name = request[t].name
      BY DEF NewVM
    <3>4. vms' = [w \in Ids \cup {v} |-> IF w = v THEN vm ELSE vms[w]]
      BY <3>1 DEF Registered
    <3> HIDE DEF v, vm
    <3>5. Ids' = Ids \cup {v} /\ vms'[v] = vm /\ \A w \in Ids : vms'[w] = vms[w]
      BY <3>2, <3>4 DEF Ids
    <3>6. Named(t)' = {v}
      BY <2>1, <3>3, <3>5, <1>1 DEF Named, ByName
    <3>7. pc'[t] = "create.attach"
      BY <3>1, <1>2
    <3>8. CreateSure(t)'
      BY <3>5, <3>6, <3>7 DEF CreateSure, At
    <3>9. \A f : Owned(f) => Owned(f)'
      BY <3>5, OwnedStay
    <3>10. \A f \in vhds' : Accounted(t, f)' \/ (f \in vhds /\ ~Accounted(t, f))
      BY <2>1, <3>7, <3>9, <1>5 DEF Accounted
    <3>11. QED
      BY <2>1, <3>8, <3>10, <1>5, <1>7 DEF CleanStep, FilesInv
  <2>4. QED
    BY <2>2, <2>3
<1>13. CASE CreateAttach(t)
  <2> DEFINE name == request[t].name
             attached == UNION {vms[v].disks : v \in ByName(name)}
             missing == DiskFiles(t) \ attached
  <2>1. /\ vhds' = vhds /\ folders' = folders /\ DiskFiles(t) \subseteq vhds /\ pc[t] = "create.attach"
    BY <1>13 DEF CreateAttach, At, CreateLocal
  <2>2. PICK v \in Ids : Named(t) = {v}
    BY <1>13 DEF CreateAttach, At, CreateSure
  <2>3. One(name)
    BY <2>2, FS_Singleton DEF Named, One
  <2>4. CASE missing = {}
    <3>1. vms' = vms /\ Go(t, "set")
      BY <2>4, <1>13 DEF CreateAttach
    <3>2. \A f : Held(t, f) => Owned(f)
      BY <2>4, <1>5 DEF Owned, ByName
    <3>3. CleanStep(t)
      BY <2>1, <3>1, <3>2, <1>5, <1>7, HarmlessStep DEF Steady, Calm, Ids
    <3>4. QED
      BY <3>1, <3>3, <1>2, <1>6
  <2>5. CASE missing # {}
    <3>1. PICK f \in missing : /\ vms' = [vms EXCEPT ![The(name)].disks = @ \cup {f}]
                               /\ Go(t, "create.attach")
      BY <2>1, <2>3, <2>5, <1>13 DEF CreateAttach, AllWork
    <3>2. The(name) \in Ids /\ Named(t) = {The(name)}
      BY <2>3, TheOne DEF Named
    <3>3. The(name) = v
      BY <2>2, <3>2
    <3>4. /\ Ids' = Ids /\ vms'[v] = [vms[v] EXCEPT !.disks = @ \cup {f}]
          /\ \A w \in Ids \ {v} : vms'[w] = vms[w]
      BY <3>1, <3>3 DEF Ids
    <3>5. vms'[v].name = vms[v].name /\ vms'[v].disks = vms[v].disks \cup {f}
      BY <3>4, <1>3 DEF VMFields
    <3>6. Named(t)' = {v}
      BY <2>2, <3>4, <3>5, <1>1 DEF Named, ByName
    <3>7. pc'[t] = "create.attach"
      BY <3>1, <1>2
    <3>8. CreateSure(t)'
      BY <3>4, <3>6, <3>7 DEF CreateSure, At
    <3>9. \A g : Owned(g) => Owned(g)'
      BY <3>4, <3>5 DEF Owned
    <3>10. \A g \in vhds' : Accounted(t, g)' \/ (g \in vhds /\ ~Accounted(t, g))
      BY <2>1, <3>7, <3>9, <1>5 DEF Accounted
    <3>11. QED
      BY <2>1, <3>8, <3>10, <1>5, <1>7 DEF CleanStep, FilesInv
  <2>6. QED
    BY <2>4, <2>5
<1>14. CASE Finish(t)
  <2>1. Steady /\ pc[t] \in Ending
    BY <1>14, FinishSteady, Where
  <2>2. pc'[t] \in {"id", "start", "done"}
    BY <1>14, <1>2 DEF Finish, Settle, FindId, PowerOn
  <2>3. QED
    BY <2>1, <2>2, <1>6, <1>8 DEF Ending
<1>15. QED
  BY <1>9, <1>10, <1>11, <1>12, <1>13, <1>14 DEF CreateActs

-----------------------------------------------------------------------------
(* vm_delete and vm_migrate *)

(* A deletion knows the disks it is to remove, or that they are in the folder it keeps. *)
LEMMA DeleteCleans ==
  ASSUME TInv, HostOK, LeftInv, NEW t \in Tasks, Acts(t), AllWork, Op(t) = "vm_delete", DeleteLocal(t),
         DeleteSure(t), Gathered(t), DeleteActs(t)
  PROVE  CleanStep(t) /\ DeleteSure(t)'
<1>1. Op(t)' = Op(t) /\ request' = request /\ site' = site
  BY ActsProceeds DEF Proceeds, Op
<1>2. /\ \A s, l : GoWith(t, s, l) => pc'[t] = s /\ loc'[t] = l
      /\ \A s : Go(t, s) => pc'[t] = s /\ loc'[t] = loc[t]
      /\ \A a : Answer(t, a) => pc'[t] = "done" /\ loc'[t] = loc[t]
      /\ Fail(t) => pc'[t] = "done" /\ loc'[t] = loc[t]
  BY Ends
<1>3. DOMAIN loc[t] = LocFields
  BY DEF TInv, ControlInv
<1>4. /\ \A d : ~HasExport(t, d) /\ ~HasExport(t, d)'
      /\ \A f : Held(t, f) <=> pc[t] = "delete.files" /\ (f.dir = loc[t].home \/ f \in loc[t].disks)
      /\ \A f : Held(t, f)' <=> pc'[t] = "delete.files" /\ (f.dir = loc'[t].home \/ f \in loc'[t].disks)
  BY <1>1 DEF HasExport, Held, At
<1>5. pc'[t] \notin {"delete.role", "delete.vm"} => DeleteSure(t)'
  BY DEF DeleteSure
<1>6. FilesInv
  BY DEF LeftInv
<1>7. CASE DeleteCheck(t)
  <2>1. Steady /\ pc[t] = "vm_delete" /\ vms' = vms /\ Ids' = Ids
    BY <1>7 DEF DeleteCheck, At, hostVars, Steady, Calm, Ids
  <2>2. CleanStep(t)
    <3>1. \A f : Spared(t, f) => Spared(t, f)'
      BY <2>1, SparesOn
    <3>2. (\A f : ~Held(t, f)) /\ \A d : ~HasExport(t, d)
      BY <2>1, <1>4
    <3>3. QED
      BY <2>1, <3>1, <3>2, <1>6, HarmlessStep
  <2>3. CASE Fail(t)
    BY <2>2, <2>3, <1>2, <1>5
  <2>4. CASE ~Fail(t)
    <3> DEFINE v == The(Name(t))
               D == IF request[t].files THEN vms[v].disks ELSE {}
    <3>1. /\ GoWith(t, "delete.role", [loc[t] EXCEPT !.home = vms[v].home, !.disks = D])
          /\ One(Name(t))
      BY <2>4, <1>7 DEF DeleteCheck, Name, AllWork
    <3>2. v \in Ids /\ ByName(Name(t)) = {v}
      BY <3>1, TheOne
    <3>3. request[t].files => D = vms[v].disks
      OBVIOUS
    <3> HIDE DEF v, D
    <3>4. /\ pc'[t] = "delete.role" /\ loc'[t].home = vms[v].home /\ loc'[t].disks = D
          /\ loc'[t].name = loc[t].name
      <4>1. pc'[t] = "delete.role" /\ loc'[t] = [loc[t] EXCEPT !.home = vms[v].home, !.disks = D]
        BY <3>1, <1>2
      <4>2. QED
        BY <4>1, <1>3 DEF LocFields
    <3>5. ByName(Name(t))' = {v}
      BY <3>2, <3>4, <2>1 DEF ByName, Name
    <3>6. ~request[t].files => \A f \in vms[v].disks : f.dir = vms[v].home
      BY <3>2, <2>1 DEF Gathered, At, Name
    <3>7. \A f \in vms'[v].disks : IF request'[t].files THEN f \in loc'[t].disks ELSE f.dir = loc'[t].home
      BY <3>3, <3>4, <3>6, <2>1, <1>1
    <3>8. DeleteSure(t)'
      BY <3>5, <3>7 DEF DeleteSure
    <3>9. QED
      BY <2>2, <3>8
  <2>5. QED
    BY <2>3, <2>4
<1>11. CASE DeleteRole(t)
  <2>1. Steady /\ pc[t] = "delete.role"
    BY <1>11, RoleSteady DEF DeleteRole, At
  <2>2. pc'[t] = "delete.vm" /\ loc'[t] = loc[t]
    BY <1>11, <1>2 DEF DeleteRole
  <2>3. \A f : Spared(t, f) => Spared(t, f)'
    BY <2>1, <2>2, SparesOn
  <2>4. CleanStep(t)
    BY <2>1, <2>3, <1>4, <1>6, HarmlessStep
  <2>5. /\ ByName(Name(t))' = ByName(Name(t))
        /\ \A v \in ByName(Name(t)) : vms'[v].disks = vms[v].disks
    BY <2>1, <2>2 DEF Steady, Calm, ByName, Name
  <2>6. DeleteSure(t)'
    BY <2>1, <2>2, <2>5, <1>1 DEF DeleteSure
  <2>7. QED
    BY <2>4, <2>6
<1>8. CASE DeleteVM(t)
  <2>1. PICK v \in Ids : ByName(Name(t)) = {v}
    BY <1>8 DEF DeleteVM, DeleteLocal, At
  <2>2. /\ vhds' = vhds /\ folders' = folders /\ pc[t] = "delete.vm"
        /\ \A f \in vms[v].disks : IF request[t].files THEN f \in loc[t].disks ELSE f.dir = loc[t].home
    BY <1>8, <2>1 DEF DeleteVM, DeleteSure, At
  <2>3. pc'[t] \in {"delete.files", "done"} /\ loc'[t] = loc[t]
    BY <1>8, <1>2 DEF DeleteVM, AllWork
  <2>4. \A f : Spared(t, f) => Spared(t, f)'
    BY <2>3, SparesOn
  <2>5. CASE vms[v].state = "Off"
    <3>1. /\ vms' = Without({v})
          /\ pc'[t] = IF request[t].files THEN "delete.files" ELSE "done"
      BY <2>1, <2>5, <1>2, <1>8 DEF DeleteVM, Name, AllWork
    <3>2. Ids' = Ids \ {v} /\ \A w \in Ids \ {v} : vms'[w] = vms[w]
      BY <3>1 DEF Without, Ids
    <3>3. \A f \in vms[v].disks : Held(t, f)' \/ Spared(t, f)'
      <4>1. CASE request[t].files
        BY <4>1, <2>2, <2>3, <3>1, <1>4
      <4>2. CASE ~request[t].files
        <5>1. Ran(t)' /\ pc'[t] \notin {"resolve", "vm_delete"}
          BY <2>3 DEF Ran
        <5>2. \A f \in vms[v].disks : Kept(t, f)'
          BY <4>2, <2>2, <2>3, <1>1 DEF Kept
        <5>3. QED
          BY <5>1, <5>2 DEF Spared
      <4>3. QED
        BY <4>1, <4>2
    <3>4. \A f : Owned(f) => Owned(f)' \/ Held(t, f)' \/ Spared(t, f)'
      BY <3>2, <3>3 DEF Owned
    <3>5. \A f : Accounted(t, f) => Accounted(t, f)'
      BY <3>4, <2>2, <2>4, <1>4 DEF Accounted
    <3>6. CleanStep(t)
      BY <3>5, <2>2, <1>4, <1>6 DEF CleanStep, FilesInv
    <3>7. QED
      BY <3>6, <2>3, <1>5
  <2>6. CASE vms[v].state # "Off"
    <3> DEFINE none == {}
    <3>1. PICK S : vms' = Without(S) /\ S = none
      BY <2>1, <2>6, <1>8 DEF DeleteVM, Name
    <3>2. Ids' = Ids /\ \A w \in Ids : vms'[w] = vms[w]
      BY <3>1 DEF Without, Ids
    <3>3. Steady
      BY <3>2, <2>2 DEF Steady, Calm
    <3>4. \A f : ~Held(t, f)
      BY <2>2, <1>4
    <3>5. CleanStep(t)
      BY <2>4, <3>3, <3>4, <1>4, <1>6, HarmlessStep
    <3>6. QED
      BY <3>5, <2>3, <1>5
  <2>7. QED
    BY <2>5, <2>6
<1>9. CASE DeleteFiles(t)
  <2>1. /\ vms' = vms /\ pc[t] = "delete.files" /\ pc'[t] = "done" /\ loc'[t] = loc[t]
        /\ folders' = folders \ {loc[t].home}
        /\ vhds' = vhds \ (FilesIn(loc[t].home) \cup loc[t].disks)
    BY <1>9, <1>2 DEF DeleteFiles, At, AllWork
  <2>2. \A f : Spared(t, f) => Spared(t, f)'
    BY <2>1, SparesOn
  <2>3. \A f \in vhds' : f \in vhds /\ f.dir # loc[t].home /\ f \notin loc[t].disks
    BY <2>1 DEF FilesIn
  <2>4. FilesInv'
    BY <2>1, <2>3, <1>6 DEF FilesInv
  <2>5. \A f : Owned(f) => Owned(f)'
    BY <2>1 DEF Owned, Ids
  <2>6. \A f \in vhds' : Accounted(t, f)' \/ (f \in vhds /\ ~Accounted(t, f))
    BY <2>2, <2>3, <2>5, <1>4 DEF Accounted
  <2>7. CleanStep(t)
    BY <2>1, <2>4, <2>6, <1>4 DEF CleanStep
  <2>8. QED
    BY <2>1, <2>7, <1>5
<1>10. QED
  BY <1>7, <1>8, <1>9, <1>11 DEF DeleteActs

(* What a migration does not take along is kept for the cluster. *)
LEMMA MigrateCleans ==
  ASSUME TInv, HostOK, LeftInv, NEW t \in Tasks, Acts(t), AllWork, Op(t) = "vm_migrate", Migrate(t)
  PROVE  CleanStep(t)
<1>1. Op(t)' = Op(t) /\ request' = request /\ site' = site
  BY ActsProceeds DEF Proceeds, Op
<1>2. pc'[t] = "done" /\ folders' = folders
  BY Ends DEF Migrate
<1>3. /\ \A d : ~HasExport(t, d) /\ ~HasExport(t, d)'
      /\ \A f : ~Held(t, f) /\ ~Held(t, f)'
  BY <1>1 DEF HasExport, Held
<1>4. \A f : Spared(t, f) => Spared(t, f)'
  BY SparesOn
<1>5. FilesInv
  BY DEF LeftInv
<1>6. CASE UNCHANGED <<vms, vhds, fixed>>
  <2>1. Steady
    BY <1>2, <1>6 DEF Steady, Calm, Ids
  <2>2. QED
    BY <2>1, <1>3, <1>4, <1>5, HarmlessStep
<1>7. CASE ~UNCHANGED <<vms, vhds, fixed>>
  <2> DEFINE S == ByName(Name(t))
             moved == UNION {IF WithFiles(t, vms[w]) THEN vms[w].disks ELSE {} : w \in S}
  <2>1. One(Name(t)) /\ vms' = Without(S) /\ vhds' = vhds \ moved
    BY <1>7 DEF Migrate
  <2>2. PICK v \in Ids : S = {v}
    BY <2>1, TheOne
  <2>3. Ids' = Ids \ {v} /\ \A w \in Ids \ {v} : vms'[w] = vms[w]
    BY <2>1, <2>2 DEF Without, Ids
  <2>4. \A f \in vms[v].disks : f \in moved \/ ~WithFiles(t, vms[v])
    BY <2>2
  <2> HIDE DEF S, moved
  <2>5. ~WithFiles(t, vms[v]) => \A f : Spared(t, f)'
    BY <1>1, <1>2 DEF WithFiles, Spared, Ran, Kept
  <2>6. \A f \in vhds' : Owned(f) => Owned(f)' \/ Spared(t, f)'
    BY <2>1, <2>3, <2>4, <2>5 DEF Owned
  <2>7. \A f \in vhds' : Accounted(t, f)' \/ (f \in vhds /\ ~Accounted(t, f))
    BY <2>1, <2>6, <1>3, <1>4 DEF Accounted
  <2>8. FilesInv'
    BY <2>1, <1>2, <1>5 DEF FilesInv
  <2>9. QED
    BY <2>7, <2>8, <1>2, <1>3 DEF CleanStep
<1>8. QED
  BY <1>6, <1>7

-----------------------------------------------------------------------------
(* vm_rename and vm_move *)

(* A VM moves with its disks, and a folder is removed only when no file is in it. *)
LEMMA MoveCleans ==
  ASSUME TInv, HostOK, LeftInv, NEW t \in Tasks, Acts(t), AllWork, Op(t) \in {"vm_rename", "vm_move"},
         MoveLocal(t), MoveActs(t)
  PROVE  CleanStep(t)
<1>0. PICK v : v = request[t].vm
  OBVIOUS
<1>1. Op(t)' = Op(t) /\ (Renames(t) <=> Op(t) = "vm_rename")
  BY ActsProceeds DEF Proceeds, Op, Renames
<1>2. \A w \in Ids : DOMAIN vms[w] = VMFields
  BY DEF TInv, HostInv, VMsInv, VMOk
<1>3. /\ \A d : ~HasExport(t, d) /\ ~HasExport(t, d)'
      /\ \A f : ~Held(t, f) /\ ~Held(t, f)' /\ ~Spared(t, f)
  BY <1>1 DEF HasExport, Held, Spared, Kept
<1>4. FilesInv
  BY DEF LeftInv
<1>5. Steady => CleanStep(t)
  BY <1>3, <1>4, HarmlessStep
<1>6. CASE RelocateCheck(t) \/ CleanLook(t)
  <2>1. Steady
    BY <1>6 DEF RelocateCheck, CleanLook, hostVars, Steady, Calm, Ids
  <2>2. QED
    BY <2>1, <1>5
<1>7. CASE Rename(t)
  <2>1. /\ vhds' = vhds /\ folders' = folders
        /\ \/ vms' = vms
           \/ vms' = [w \in Ids |-> IF w \in ByName(Name(t)) THEN [vms[w] EXCEPT !.name = request[t].new]
                                                             ELSE vms[w]]
    BY <1>7 DEF Rename, Changed
  <2>2. Ids' = Ids
    BY <2>1 DEF Ids
  <2>3. ASSUME NEW w \in Ids
        PROVE  vms'[w].disks = vms[w].disks
    <3>1. vms'[w] = vms[w] \/ vms'[w] = [vms[w] EXCEPT !.name = request[t].new]
      BY <2>1
    <3>2. QED
      BY <3>1, <1>2 DEF VMFields
  <2>4. \A f : Owned(f) => Owned(f)'
    BY <2>2, <2>3, OwnedStay
  <2>5. \A f \in vhds' : Accounted(t, f)' \/ (f \in vhds /\ ~Accounted(t, f))
    BY <2>1, <2>4, <1>3 DEF Accounted
  <2>6. QED
    BY <2>1, <2>5, <1>3, <1>4 DEF CleanStep, FilesInv
<1>8. CASE MoveStorage(t)
  <2> DEFINE dest == loc[t].dest
             disks == vms[v].disks
  <2>1. /\ v \in Ids /\ Away(dest)
        /\ Op(t) = "vm_rename" => vms[v].name = request[t].new
        /\ Op(t) = "vm_move" => ByName(Name(t)) = {v}
    BY <1>0, <1>8 DEF MoveStorage, At, MoveLocal
  <2>2. v \in Moving(t) /\ Moving(t) \subseteq Ids
    BY <2>1, <1>0, <1>1 DEF Moving, ByName, ByIdentity
  <2>3. Cardinality(Moving(t)) = 1 => (CHOOSE x \in Moving(t) : TRUE) = v
    <3>1. ASSUME Cardinality(Moving(t)) = 1
          PROVE  Moving(t) = {v}
      BY <2>2, <3>1, OneVM
    <3>2. QED
      BY <3>1
  <2>4. folders \subseteq folders' /\ \A d \in folders' : d \in folders \/ d = dest
    BY <1>8 DEF MoveStorage
  <2>5. \A d \in folders' : d[1] = "export" => d \in folders
    BY <2>1, <2>4 DEF Away
  <2>6. CASE UNCHANGED <<vms, vhds, fixed>>
    <3>1. \A f : Owned(f) => Owned(f)'
      BY <2>6 DEF Owned, Ids
    <3>2. \A f \in vhds' : Accounted(t, f)' \/ (f \in vhds /\ ~Accounted(t, f))
      BY <2>6, <3>1, <1>3 DEF Accounted
    <3>3. QED
      BY <2>4, <2>5, <2>6, <3>2, <1>3, <1>4 DEF CleanStep, FilesInv
  <2>7. CASE ~UNCHANGED <<vms, vhds, fixed>>
    <3>1. /\ disks \subseteq vhds
          /\ vms' = [vms EXCEPT ![v].home = dest, ![v].disks = {Relocated(f, dest) : f \in @}]
          /\ vhds' = (vhds \ disks) \cup {Relocated(f, dest) : f \in vhds \cap disks}
          /\ folders' = folders \cup {dest}
      BY <1>8, <2>3, <2>7 DEF MoveStorage
    <3>2. /\ Ids' = Ids /\ \A w \in Ids \ {v} : vms'[w] = vms[w]
          /\ vms'[v] = [vms[v] EXCEPT !.home = dest, !.disks = {Relocated(f, dest) : f \in @}]
      BY <2>1, <3>1 DEF Ids
    <3>3. vms'[v].disks = {Relocated(f, dest) : f \in disks}
      BY <2>1, <3>2, <1>2 DEF VMFields
    <3>4. \A f \in disks : Relocated(f, dest).dir = dest
      <4>1. ASSUME NEW f \in disks
            PROVE  Relocated(f, dest).dir = dest
        <5>1. DOMAIN f = {"dir", "n", "as"}
          BY <2>1 DEF HostOK, DisksInv, IsFile
        <5> HIDE DEF dest
        <5>2. QED
          BY <5>1 DEF Relocated
      <4>2. QED
        BY <4>1
    <3> HIDE DEF dest
    <3>5. \A f \in vhds' : (f \in vhds /\ f \notin disks) \/ (f \in vms'[v].disks /\ f.dir = dest)
      BY <3>1, <3>3, <3>4
    <3>6. FilesInv'
      BY <3>1, <3>5, <1>4 DEF FilesInv
    <3>7. \A f \in vhds' : Owned(f) => Owned(f)'
      BY <2>1, <3>2, <3>5 DEF Owned
    <3>8. \A f \in vhds' : f \in vhds \/ Owned(f)'
      BY <2>1, <3>2, <3>5 DEF Owned
    <3>9. \A f \in vhds' : Accounted(t, f)' \/ (f \in vhds /\ ~Accounted(t, f))
      BY <3>7, <3>8, <1>3 DEF Accounted
    <3>10. QED
      BY <2>5, <3>6, <3>9, <1>3 DEF CleanStep
  <2>8. QED
    BY <2>6, <2>7
<1>9. CASE CleanRemove(t)
  <2>1. FilesIn(loc[t].home) = {} /\ vms' = vms
    BY <1>9 DEF CleanRemove, At, MoveLocal
  <2>2. vhds' = vhds /\ folders' = folders \ {loc[t].home}
    BY <1>9, <2>1 DEF CleanRemove, AllWork
  <2>3. \A f \in vhds : f.dir # loc[t].home
    BY <2>1 DEF FilesIn
  <2>4. FilesInv'
    BY <2>2, <2>3, <1>4 DEF FilesInv
  <2>5. \A f : Owned(f) => Owned(f)'
    BY <2>1 DEF Owned, Ids
  <2>6. \A f \in vhds' : Accounted(t, f)' \/ (f \in vhds /\ ~Accounted(t, f))
    BY <2>2, <2>5, <1>3 DEF Accounted
  <2>7. QED
    BY <2>2, <2>4, <2>6, <1>3 DEF CleanStep
<1>10. QED
  BY <1>6, <1>7, <1>8, <1>9 DEF MoveActs

-----------------------------------------------------------------------------
(* vm_export_template *)

(* An export writes into the folders of templates only. *)
LEMMA ExportCleans ==
  ASSUME TInv, LeftInv, NEW t \in Tasks, Acts(t), AllWork, Op(t) = "vm_export_template",
         ExportLocal(t), ExportSure(t), ExportActs(t) \/ Convert(t)
  PROVE  CleanStep(t) /\ ExportSure(t)'
<1>1. Op(t)' = Op(t)
  BY ActsProceeds DEF Proceeds, Op
<1>2. /\ \A s, l : GoWith(t, s, l) => pc'[t] = s /\ loc'[t] = l
      /\ \A s : Go(t, s) => pc'[t] = s /\ loc'[t] = loc[t]
      /\ \A a : Answer(t, a) => pc'[t] = "done"
      /\ Fail(t) => pc'[t] = "done"
  BY Ends
<1>3. DOMAIN loc[t] = LocFields
  BY DEF TInv, ControlInv
<1>4. /\ \A d : ~HasExport(t, d) /\ ~HasExport(t, d)'
      /\ \A f : ~Held(t, f) /\ ~Held(t, f)' /\ ~Spared(t, f)
  BY <1>1 DEF HasExport, Held, Spared, Kept
<1>5. pc'[t] \notin Converting => ExportSure(t)'
  BY DEF ExportSure
<1>6. FilesInv
  BY DEF LeftInv
<1>7. ASSUME vms' = vms, folders \subseteq folders',
             \A d \in folders' : d \in folders \/ d[1] = "template",
             \A f \in vhds' : f \in vhds \/ (f.dir[1] = "template" /\ f.dir \in folders')
      PROVE  CleanStep(t)
  <2>1. \A f : Owned(f) => Owned(f)'
    BY <1>7 DEF Owned, Ids
  <2>2. \A f \in vhds' : Accounted(t, f)' \/ (f \in vhds /\ ~Accounted(t, f))
    BY <1>7, <2>1, <1>4 DEF Accounted
  <2>3. FilesInv'
    BY <1>6, <1>7 DEF FilesInv
  <2>4. \A d \in folders' : d[1] = "export" => d \in folders
    BY <1>7
  <2>5. QED
    BY <2>2, <2>3, <2>4, <1>4 DEF CleanStep
<1>8. CASE ExportCheck(t) \/ ExportMetadata(t)
  <2>1. hostVars' = hostVars /\ pc'[t] \in {"export", "done"}
    BY <1>8, <1>2 DEF ExportCheck, Space, ExportMetadata
  <2>2. CleanStep(t)
    BY <2>1, <1>7 DEF hostVars
  <2>3. QED
    BY <2>1, <2>2, <1>5 DEF Converting
<1>9. CASE Export(t)
  <2> DEFINE disks == vms[The(Name(t))].disks
             todo == IF vms[The(Name(t))].snaps = 0 THEN {Copy(f, Template(t)) : f \in disks} ELSE {}
             raw == Folder("template", Name(t))
  <2>1. Template(t)[1] = "template" /\ raw[1] = "template"
    BY DEF Template, Folder
  <2>2. \A f, d : Copy(f, d).dir = d
    BY DEF Copy, File
  <2> HIDE DEF raw, disks
  <2>3. CleanStep(t)
    <3>1. /\ vms' = vms
          /\ \/ folders' = folders /\ vhds' = vhds
             \/ \E d, S : /\ folders' = folders \cup {d} /\ d[1] = "template"
                          /\ vhds' = vhds \cup {Copy(f, d) : f \in S}
      <4>1. \/ folders' = folders /\ vhds' = vhds
            \/ folders' = folders \cup {Template(t)} /\ CopyAll(disks, Template(t))
            \/ folders' = folders \cup {raw} /\ CopyAll(disks, raw)
        BY <1>9 DEF Export, AllWork, disks, raw
      <4>2. QED
        BY <4>1, <2>1, <1>9 DEF Export, CopyAll
    <3>2. QED
      BY <3>1, <2>2, <1>7
  <2>4. \A f \in todo : f.dir[1] = "template"
    BY <2>1, <2>2
  <2>5. Fail(t) \/ GoWith(t, "convert", [loc[t] EXCEPT !.disks = todo])
    BY <1>9 DEF Export, disks
  <2> HIDE DEF todo
  <2>6. CASE GoWith(t, "convert", [loc[t] EXCEPT !.disks = todo])
    <3>1. pc'[t] = "convert" /\ loc'[t].disks = todo
      BY <2>6, <1>2, <1>3 DEF LocFields
    <3>2. QED
      BY <2>3, <2>4, <3>1 DEF ExportSure
  <2>7. QED
    BY <2>3, <2>5, <2>6, <1>2, <1>5 DEF Converting
<1>10. CASE Convert(t)
  <2>1. \A f \in loc[t].disks : /\ IsFile(f) /\ f.dir[1] = "template"
                                /\ Converted(f).dir = f.dir
    <3>1. \A f \in loc[t].disks : IsFile(f) /\ f.dir[1] = "template"
      BY <1>10, Where DEF ExportLocal, ExportSure
    <3>2. \A f : IsFile(f) => Converted(f).dir = f.dir
      BY DEF IsFile, Converted
    <3>3. QED
      BY <3>1, <3>2
  <2>2. vms' = vms /\ folders' = folders
    BY <1>10 DEF Convert, ConvertDisk, ConvertRemove, ConvertRename
  <2>3. CASE ConvertDisk(t)
    <3>1. CASE vhds' = vhds /\ Go(t, After(t))
      <4>1. pc'[t] = "export.metadata"
        BY <3>1, <1>2 DEF After, Op
      <4>2. QED
        BY <4>1, <2>2, <3>1, <1>5, <1>7 DEF Converting
    <3>2. CASE ~(vhds' = vhds /\ Go(t, After(t)))
      <4>1. PICK f \in ToConvert(t) :
              \/ /\ f \in vhds /\ vhds' = vhds \cup {Converted(f)}
                 /\ GoWith(t, "convert.remove", [loc[t] EXCEPT !.done = {f}])
              \/ /\ vhds' = vhds
                 /\ GoWith(t, "convert", [loc[t] EXCEPT !.disks = @ \ {f}, !.failed = @ \cup {f}])
        BY <2>3, <3>2 DEF ConvertDisk
      <4>2. f \in loc[t].disks
        BY DEF ToConvert, Op
      <4>3. CleanStep(t)
        BY <4>1, <4>2, <2>1, <2>2, <1>6, <1>7 DEF FilesInv
      <4>4. loc'[t].disks \subseteq loc[t].disks
        <5>1. \/ loc'[t] = [loc[t] EXCEPT !.done = {f}]
              \/ loc'[t] = [loc[t] EXCEPT !.disks = @ \ {f}, !.failed = @ \cup {f}]
          BY <4>1, <1>2
        <5>2. QED
          BY <5>1, <1>3 DEF LocFields
      <4>5. QED
        BY <4>3, <4>4, <2>1 DEF ExportSure
    <3>3. QED
      BY <3>1, <3>2
  <2>4. CASE ConvertRemove(t) \/ ConvertRename(t)
    <3>1. PICK f \in loc[t].disks : loc[t].done = {f}
      BY <2>4 DEF ConvertRemove, ConvertRename, At, ExportLocal
    <3>2. (CHOOSE d \in loc[t].done : TRUE) = f
      BY <3>1
    <3>3. vhds' \subseteq vhds \/ (vhds' = Replace(vhds, Converted(f), f))
      BY <2>4, <3>2 DEF ConvertRemove, ConvertRename
    <3>4. \A g \in vhds' : g \in vhds \/ (g.dir[1] = "template" /\ g.dir \in folders')
      BY <3>3, <2>1, <2>2, <1>6 DEF Replace, FilesInv
    <3>5. CleanStep(t)
      BY <3>4, <2>2, <1>7
    <3>6. /\ DOMAIN NextDisk(t) = LocFields /\ NextDisk(t).disks \subseteq loc[t].disks
          /\ Logged(t).disks \subseteq loc[t].disks
      BY <3>1, <1>3 DEF NextDisk, Logged, LocFields
    <3>7. loc'[t].disks \subseteq loc[t].disks
      BY <2>4, <3>6, <1>2 DEF ConvertRemove, ConvertRename
    <3>8. QED
      BY <3>5, <3>7, <2>1 DEF ExportSure
  <2>5. QED
    BY <2>3, <2>4, <1>10 DEF Convert
<1>11. QED
  BY <1>8, <1>9, <1>10 DEF ExportActs

-----------------------------------------------------------------------------
(* vm_edit *)

(* An edit attaches the disks it makes, and wipes those it detaches if it is asked to. *)
LEMMA EditCleans ==
  ASSUME TInv, LeftInv, NEW t \in Tasks, Acts(t), AllWork, Op(t) = "vm_edit", EditSure(t), Sound(t),
         EditStep(t)
  PROVE  CleanStep(t) /\ EditSure(t)'
<1>0. PICK n : n = EditName(t)
  OBVIOUS
<1>1. Op(t)' = Op(t) /\ request' = request
  BY ActsProceeds DEF Proceeds, Op
<1>2. /\ \A s, l : GoWith(t, s, l) => pc'[t] = s /\ loc'[t] = l
      /\ \A s : Go(t, s) => pc'[t] = s /\ loc'[t] = loc[t]
      /\ \A a : Answer(t, a) => pc'[t] = "done"
      /\ Fail(t) => pc'[t] = "done"
  BY Ends
<1>3. DOMAIN loc[t] = LocFields /\ (\A v \in Ids : DOMAIN vms[v] = VMFields)
  BY DEF TInv, ControlInv, HostInv, VMsInv, VMOk
<1>4. /\ \A d : ~HasExport(t, d) /\ ~HasExport(t, d)'
      /\ \A f : Held(t, f) <=> pc[t] = "edit.wipe" /\ f \in loc[t].disks
      /\ \A f : Held(t, f)' <=> pc'[t] = "edit.wipe" /\ f \in loc'[t].disks
  BY <1>1 DEF HasExport, Held, At
<1>5. \A f : Spared(t, f) => Spared(t, f)'
  BY SparesOn
<1>6. FilesInv
  BY DEF LeftInv
<1>7. pc'[t] \notin {"edit.set", "edit.disks", "edit.add"} => EditSure(t)'
  BY DEF EditSure
<1>8. ASSUME pc[t] # "edit.wipe", folders' = folders,
             \A f \in vhds' : f \in vhds \/ (f.dir \in folders /\ Owned(f)'),
             \A f : Owned(f) => Owned(f)' \/ Held(t, f)' \/ Spared(t, f)'
      PROVE  CleanStep(t)
  <2>1. \A f \in vhds' : Accounted(t, f)' \/ (f \in vhds /\ ~Accounted(t, f))
    BY <1>4, <1>5, <1>8 DEF Accounted
  <2>2. FilesInv'
    BY <1>6, <1>8 DEF FilesInv
  <2>3. QED
    BY <2>1, <2>2, <1>4, <1>8 DEF CleanStep
<1>9. vms' = vms => \A f : Owned(f) => Owned(f)'
  BY DEF Owned, Ids
<1>10. ASSUME hostVars' = hostVars, pc[t] # "edit.wipe"
       PROVE  CleanStep(t)
  BY <1>8, <1>9, <1>10 DEF hostVars
<1>11. ASSUME loc'[t].name = n, Ids' = Ids, \A v \in Ids : vms'[v].name = vms[v].name, ByName(n) # {}
       PROVE  EditSure(t)'
  <2>1. EditName(t)' = n
    BY <1>11 DEF EditName
  <2>2. ByName(n)' = ByName(n)
    BY <1>11 DEF ByName
  <2>3. ByName(EditName(t))' # {}
    BY <1>11, <2>1, <2>2 DEF ByName
  <2>4. QED
    BY <2>3 DEF EditSure
<1>12. pc[t] \in {"edit.set", "edit.disks", "edit.add"} => ByName(n) # {}
  BY <1>0 DEF EditSure
<1>13. loc[t].name = n
  BY <1>0 DEF EditName
<1>14. CASE \/ request[t].op = "vm_edit" /\ Begin(t, "vm_edit")
            \/ EditGrow(t) \/ EditEnd(t)
  <2>1. hostVars' = hostVars /\ pc[t] # "edit.wipe" /\ pc'[t] \in {"vm_edit", "edit.remove", "done"}
    BY <1>14, <1>2 DEF Begin, EditGrow, EditEnd, At
  <2>2. QED
    BY <2>1, <1>7, <1>10
<1>15. CASE EditCheck(t)
  <2>1. hostVars' = hostVars /\ pc[t] # "edit.wipe"
    BY <1>15 DEF EditCheck, At
  <2>2. PICK v : v = request[t].vm
    OBVIOUS
  <2>3. CASE Fail(t)
    BY <2>1, <2>3, <1>2, <1>7, <1>10
  <2>4. CASE v \in Ids /\ GoWith(t, "edit.set", [loc[t] EXCEPT !.name = vms[v].name, !.nics = vms[v].nics])
    <3>1. loc'[t] = [loc[t] EXCEPT !.name = vms[v].name, !.nics = vms[v].nics]
      BY <2>4, <1>2
    <3>2. EditName(t)' = vms[v].name
      BY <3>1, <1>3 DEF LocFields, EditName
    <3>3. v \in ByName(EditName(t))'
      BY <3>2, <2>1, <2>4 DEF ByName, hostVars, Ids
    <3>4. QED
      BY <3>3, <2>1, <1>10 DEF EditSure
  <2>5. QED
    BY <2>2, <2>3, <2>4, <1>15 DEF EditCheck
<1>16. CASE EditDisks(t)
  <2>1. hostVars' = hostVars /\ pc[t] = "edit.disks"
    BY <1>16 DEF EditDisks, Space, At
  <2>2. pc'[t] = "done" \/ loc'[t] = loc[t]
    BY <1>16, <1>2 DEF EditDisks, Space
  <2>3. loc'[t] = loc[t] => EditSure(t)'
    BY <2>1, <1>11, <1>12, <1>13 DEF hostVars, Ids
  <2>4. QED
    BY <2>1, <2>2, <2>3, <1>7, <1>10
<1>17. CASE EditSet(t) \/ EditNICs(t)
  <2>1. /\ vhds' = vhds /\ folders' = folders /\ pc[t] \in {"edit.set", "edit.nics"}
        /\ pc[t] = "edit.nics" => pc'[t] \in {"edit.end", "done"}
    BY <1>17, <1>2 DEF EditSet, EditNICs, At
  <2>2. /\ DOMAIN vms' = DOMAIN vms
        /\ \A v \in DOMAIN vms : vms'[v].name = vms[v].name /\ vms'[v].disks = vms[v].disks
    <3> DEFINE S == ByName(EditName(t))
    <3>1. CASE EditSet(t)
      <4>1. \/ vms' = vms
            \/ \E x : vms' = [v \in DOMAIN vms |->
                            IF v \in S THEN [vms[v] EXCEPT !.settings = @ \cup {x}] ELSE vms[v]]
        BY <3>1 DEF EditSet, Changed, Ids
      <4> HIDE DEF S
      <4>2. QED
        BY <4>1, <1>3 DEF VMFields, Ids
    <3>2. CASE EditNICs(t)
      <4>1. \E x : vms' = [v \in DOMAIN vms |->
                        IF v \in S THEN [vms[v] EXCEPT !.nics = @ + x] ELSE vms[v]]
        BY <3>2 DEF EditNICs, Changed, Ids
      <4> HIDE DEF S
      <4>2. QED
        BY <4>1, <1>3 DEF VMFields, Ids
    <3>3. QED
      BY <1>17, <3>1, <3>2
  <2>3. \A f : Owned(f) => Owned(f)'
    BY <2>2 DEF Owned, Ids
  <2>4. CleanStep(t)
    BY <2>1, <2>3, <1>8
  <2>5. CASE EditNICs(t)
    BY <2>1, <2>4, <2>5, <1>7 DEF EditNICs, At
  <2>6. CASE EditSet(t)
    <3>1. pc'[t] = "done" \/ \E x : loc'[t] = [loc[t] EXCEPT !.done = x]
      BY <2>6, <1>2 DEF EditSet
    <3>2. pc'[t] = "done" \/ loc'[t].name = n
      BY <3>1, <1>3, <1>13 DEF LocFields
    <3>3. pc'[t] = "done" => EditSure(t)'
      BY <1>7
    <3>4. ByName(n) # {}
      BY <2>6, <1>12 DEF EditSet, At
    <3>5. loc'[t].name = n => EditSure(t)'
      BY <3>4, <2>2, <1>11 DEF Ids
    <3>6. QED
      BY <3>2, <3>3, <3>5, <2>4
  <2>7. QED
    BY <2>5, <2>6, <1>17
<1>18. CASE EditAdd(t)
  <2>1. folders' = folders /\ pc[t] = "edit.add" /\ ByName(n) # {}
    BY <1>18, <1>12 DEF EditAdd, At
  <2>2. pc'[t] = "done" \/ \E x : loc'[t] = [loc[t] EXCEPT !.done = x]
    BY <1>18, <1>2 DEF EditAdd
  <2>3. pc'[t] = "done" \/ loc'[t].name = n
    BY <2>2, <1>3, <1>13 DEF LocFields
  <2>4. ASSUME Ids' = Ids, \A v \in Ids : vms'[v].name = vms[v].name
        PROVE  EditSure(t)'
    <3>1. pc'[t] = "done" => EditSure(t)'
      BY <1>7
    <3>2. loc'[t].name = n => EditSure(t)'
      BY <2>1, <2>4, <1>11
    <3>3. QED
      BY <2>3, <3>1, <3>2
  <2>5. CASE vms' = vms /\ vhds' = vhds
    <3>1. CleanStep(t)
      BY <2>1, <2>5, <1>8, <1>9
    <3>2. QED
      BY <2>4, <2>5, <3>1 DEF Ids
  <2>6. CASE ~(vms' = vms /\ vhds' = vhds)
    <3>1. PICK f \in request[t].add :
            /\ vhds' = vhds \cup {f}
            /\ vms' = [w \in Ids |-> IF w \in ByName(n) THEN [vms[w] EXCEPT !.disks = @ \cup {f}]
                                                      ELSE vms[w]]
      BY <1>0, <1>18, <2>1, <2>6 DEF EditAdd, Changed, AllWork
    <3>2. f.dir \in folders
      BY <2>1 DEF Sound, At
    <3>3. Ids' = Ids
      BY <3>1 DEF Ids
    <3>4. ASSUME NEW v \in Ids
          PROVE  /\ vms'[v].name = vms[v].name /\ vms[v].disks \subseteq vms'[v].disks
                 /\ v \in ByName(n) => f \in vms'[v].disks
      <4>1. CASE v \in ByName(n)
        <5>1. vms'[v] = [vms[v] EXCEPT !.disks = @ \cup {f}]
          BY <3>1, <4>1
        <5>2. QED
          BY <5>1, <1>3 DEF VMFields
      <4>2. CASE v \notin ByName(n)
        BY <3>1, <4>2
      <4>3. QED
        BY <4>1, <4>2
    <3>5. Owned(f)'
      BY <2>1, <3>3, <3>4 DEF Owned, ByName
    <3>6. \A g : Owned(g) => Owned(g)'
      BY <3>3, <3>4 DEF Owned
    <3>7. CleanStep(t)
      BY <2>1, <3>1, <3>2, <3>5, <3>6, <1>8
    <3>8. QED
      BY <2>4, <3>3, <3>4, <3>7
  <2>7. QED
    BY <2>5, <2>6
<1>19. CASE EditRemove(t)
  <2>1. vhds' = vhds /\ folders' = folders /\ pc[t] = "edit.remove"
    BY <1>19 DEF EditRemove, At
  <2>2. pc'[t] \in {"edit.nics", "edit.wipe", "edit.remove", "done"}
    BY <1>19, <1>2 DEF EditRemove
  <2>3. CASE vms' = vms
    <3>1. CleanStep(t)
      BY <2>1, <2>3, <1>8, <1>9
    <3>2. QED
      BY <2>2, <3>1, <1>7
  <2>4. CASE vms' # vms
    <3> DEFINE next == IF request[t].wipe THEN "edit.wipe" ELSE "edit.remove"
    <3>1. PICK f \in request[t].remove :
            /\ vms' = [w \in Ids |-> IF w \in ByName(n) THEN [vms[w] EXCEPT !.disks = @ \ {f}]
                                                      ELSE vms[w]]
            /\ GoWith(t, next, [loc[t] EXCEPT !.done = @ \cup {f}, !.disks = {f}])
      BY <1>0, <1>19, <2>4 DEF EditRemove, Changed
    <3>2. pc'[t] = next /\ loc'[t].disks = {f}
      <4>1. pc'[t] = next /\ loc'[t] = [loc[t] EXCEPT !.done = @ \cup {f}, !.disks = {f}]
        BY <3>1, <1>2
      <4>2. QED
        BY <4>1, <1>3 DEF LocFields
    <3>3. Held(t, f)' \/ Spared(t, f)'
      <4>1. CASE request[t].wipe
        BY <3>2, <4>1, <1>4
      <4>2. CASE ~request[t].wipe
        BY <3>2, <4>2, <1>1 DEF Spared, Ran, Kept
      <4>3. QED
        BY <4>1, <4>2
    <3>4. Ids' = Ids
      BY <3>1 DEF Ids
    <3>5. ASSUME NEW v \in Ids
          PROVE  vms[v].disks \ {f} \subseteq vms'[v].disks
      <4>1. vms'[v] = vms[v] \/ vms'[v] = [vms[v] EXCEPT !.disks = @ \ {f}]
        BY <3>1
      <4>2. QED
        BY <4>1, <1>3 DEF VMFields
    <3>6. \A g : Owned(g) => Owned(g)' \/ g = f
      BY <3>4, <3>5 DEF Owned
    <3>7. CleanStep(t)
      BY <2>1, <3>3, <3>6, <1>8
    <3>8. QED
      BY <2>2, <3>7, <1>7
  <2>5. QED
    BY <2>3, <2>4
<1>20. CASE EditWipe(t)
  <2>1. /\ vms' = vms /\ folders' = folders /\ vhds' = vhds \ loc[t].disks
        /\ pc[t] = "edit.wipe" /\ pc'[t] = "edit.remove"
    BY <1>20, <1>2 DEF EditWipe, At, AllWork
  <2>2. \A f \in vhds' : Accounted(t, f)' \/ (f \in vhds /\ ~Accounted(t, f))
    BY <2>1, <1>4, <1>5, <1>9 DEF Accounted
  <2>3. FilesInv'
    BY <2>1, <1>6 DEF FilesInv
  <2>4. QED
    BY <2>1, <2>2, <2>3, <1>4, <1>7 DEF CleanStep
<1>21. QED
  BY <1>14, <1>15, <1>16, <1>17, <1>18, <1>19, <1>20 DEF EditStep

-----------------------------------------------------------------------------
(* vm_clone *)

(* What a clone has in its hands. *)
LEMMA CloneHolds ==
  ASSUME TInv, NEW t \in Tasks, Acts(t), Op(t) = "vm_clone"
  PROVE  /\ \A d : HasExport(t, d) <=> pc[t] \in Exporting /\ Imported(t) /\ d = Exported(t)
         /\ \A d : HasExport(t, d)' <=> pc'[t] \in Exporting /\ Imported(t) /\ d = Exported(t)
         /\ \A f : Held(t, f) <=>
              \/ HasExport(t, f.dir)
              \/ pc[t] = "clone.point" /\ \E g \in loc[t].disks : f = Renamed(g)
              \/ pc[t] \in {"convert.remove", "convert.rename"} /\ \E g \in loc[t].done : f = Converted(g)
         /\ \A f : Held(t, f)' <=>
              \/ HasExport(t, f.dir)'
              \/ pc'[t] = "clone.point" /\ \E g \in loc'[t].disks : f = Renamed(g)
              \/ pc'[t] \in {"convert.remove", "convert.rename"} /\ \E g \in loc'[t].done : f = Converted(g)
         /\ \A f : Spared(t, f) => Spared(t, f)'
         /\ pc'[t] # "clone.point" => CloneSure(t)'
         /\ Exported(t)[1] = IF Imported(t) THEN "export" ELSE "template"
<1>1. Op(t)' = Op(t) /\ Imported(t)' = Imported(t) /\ Exported(t)' = Exported(t)
  BY ActsProceeds DEF Proceeds, Op, Imported, Exported, Source
<1>2. /\ \A d : HasExport(t, d) <=> pc[t] \in Exporting /\ Imported(t) /\ d = Exported(t)
      /\ \A d : HasExport(t, d)' <=> pc'[t] \in Exporting /\ Imported(t) /\ d = Exported(t)
  BY <1>1 DEF HasExport
<1>3. \A f : Held(t, f) <=>
        \/ HasExport(t, f.dir)
        \/ pc[t] = "clone.point" /\ \E g \in loc[t].disks : f = Renamed(g)
        \/ pc[t] \in {"convert.remove", "convert.rename"} /\ \E g \in loc[t].done : f = Converted(g)
  BY DEF Held, At
<1>4. \A f : Held(t, f)' <=>
        \/ HasExport(t, f.dir)'
        \/ pc'[t] = "clone.point" /\ \E g \in loc'[t].disks : f = Renamed(g)
        \/ pc'[t] \in {"convert.remove", "convert.rename"} /\ \E g \in loc'[t].done : f = Converted(g)
  BY <1>1 DEF Held, At
<1>5. \A f : Spared(t, f) => Spared(t, f)'
  BY SparesOn
<1>6. pc'[t] # "clone.point" => CloneSure(t)'
  BY DEF CloneSure, At
<1>7. Exported(t)[1] = IF Imported(t) THEN "export" ELSE "template"
  BY DEF Exported, Folder
<1>8. QED
  BY <1>2, <1>3, <1>4, <1>5, <1>6, <1>7

(* Only the export it has made is there before a clone has a VM. *)
LEMMA CloneBeginCleans ==
  ASSUME TInv, LeftInv, NEW t \in Tasks, Acts(t), AllWork, Op(t) = "vm_clone",
         CloneSpace(t) \/ CloneCheck(t) \/ CloneSource(t) \/ CloneExport(t)
  PROVE  CleanStep(t) /\ CloneSure(t)'
<1>1. /\ \A d : HasExport(t, d) <=> pc[t] \in Exporting /\ Imported(t) /\ d = Exported(t)
      /\ \A d : HasExport(t, d)' <=> pc'[t] \in Exporting /\ Imported(t) /\ d = Exported(t)
      /\ \A f : Spared(t, f) => Spared(t, f)'
      /\ pc'[t] # "clone.point" => CloneSure(t)'
      /\ Exported(t)[1] = IF Imported(t) THEN "export" ELSE "template"
  BY CloneHolds
<1>2. \A f : Held(t, f) <=>
        \/ HasExport(t, f.dir)
        \/ pc[t] = "clone.point" /\ \E g \in loc[t].disks : f = Renamed(g)
        \/ pc[t] \in {"convert.remove", "convert.rename"} /\ \E g \in loc[t].done : f = Converted(g)
  BY CloneHolds
<1>3. \A f : HasExport(t, f.dir)' => Held(t, f)'
  BY CloneHolds
<1>4. (\A s : Go(t, s) => pc'[t] = s) /\ (Fail(t) => pc'[t] = "done")
  BY Ends
<1>5. pc[t] \in {"clone.space", "clone.check", "clone.source", "clone.export"} /\ vms' = vms
  BY DEF CloneSpace, Space, CloneCheck, CloneSource, CloneExport, At, hostVars
<1>6. pc'[t] # "clone.point"
  BY <1>4 DEF CloneSpace, Space, CloneCheck, CloneSource, CloneExport
<1>7. (\A d : ~HasExport(t, d)) /\ \A f : ~Held(t, f)
  <2>1. \A d : ~HasExport(t, d)
    BY <1>1, <1>5 DEF Exporting
  <2>2. QED
    BY <2>1, <1>2, <1>5
<1>8. FilesInv
  BY DEF LeftInv
<1>9. CASE vhds' = vhds /\ folders' = folders
  <2>1. Steady
    BY <1>5, <1>9 DEF Steady, Calm, Ids
  <2>2. CleanStep(t)
    BY <2>1, <1>1, <1>7, <1>8, HarmlessStep
  <2>3. QED
    BY <2>2, <1>1, <1>6
<1>10. CASE ~(vhds' = vhds /\ folders' = folders)
  <2>1. PICK S : S = vms[The(Source(t))].disks
    OBVIOUS
  <2>2. /\ folders' = folders \cup {Exported(t)} /\ Go(t, "clone.import")
        /\ vhds' = vhds \cup {Copy(f, Exported(t)) : f \in S}
    BY <1>10, <2>1
    DEF CloneSpace, Space, CloneCheck, CloneSource, CloneExport, hostVars, CopyAll, AllWork
  <2>3. pc'[t] \in Exporting
    BY <2>2, <1>4 DEF Exporting
  <2>4. \A f \in vhds' : f \in vhds \/ f.dir = Exported(t)
    BY <2>2 DEF Copy, File
  <2>5. FilesInv'
    BY <2>2, <2>4, <1>8 DEF FilesInv
  <2>6. \A d \in folders' : d[1] = "export" => HasExport(t, d)' \/ (d \in folders /\ ~HasExport(t, d))
    BY <2>2, <2>3, <1>1, <1>7
  <2>7. \A f : Owned(f) => Owned(f)'
    BY <1>5 DEF Owned, Ids
  <2>8. \A f : f.dir = Exported(t) => Accounted(t, f)'
    BY <2>3, <1>1, <1>3 DEF Accounted
  <2>9. \A f \in vhds' : Accounted(t, f)' \/ (f \in vhds /\ ~Accounted(t, f))
    <3>1. \A f : Accounted(t, f) => Accounted(t, f)'
      BY <2>7, <1>1, <1>7 DEF Accounted
    <3>2. QED
      BY <2>4, <2>8, <3>1
  <2>10. QED
    BY <2>5, <2>6, <2>9, <1>1, <1>6 DEF CleanStep
<1>11. QED
  BY <1>9, <1>10

(* The import gives its copies to the VM it makes. *)
LEMMA CloneImportCleans ==
  ASSUME TInv, LeftInv, NEW t \in Tasks, Acts(t), AllWork, Op(t) = "vm_clone", CloneImport(t)
  PROVE  CleanStep(t) /\ CloneSure(t)'
<1>1. /\ \A d : HasExport(t, d) <=> pc[t] \in Exporting /\ Imported(t) /\ d = Exported(t)
      /\ \A d : HasExport(t, d)' <=> pc'[t] \in Exporting /\ Imported(t) /\ d = Exported(t)
      /\ \A f : Spared(t, f) => Spared(t, f)'
      /\ pc'[t] # "clone.point" => CloneSure(t)'
  BY CloneHolds
<1>2. \A f : Held(t, f) <=>
        \/ HasExport(t, f.dir)
        \/ pc[t] = "clone.point" /\ \E g \in loc[t].disks : f = Renamed(g)
        \/ pc[t] \in {"convert.remove", "convert.rename"} /\ \E g \in loc[t].done : f = Converted(g)
  BY CloneHolds
<1>3. \A f : HasExport(t, f.dir)' => Held(t, f)'
  BY CloneHolds
<1>4. (\A s, l : GoWith(t, s, l) => pc'[t] = s) /\ (\A s : Go(t, s) => pc'[t] = s)
  BY Ends
<1>5. Target(t)[1] = "vms" /\ made + 1 \notin Ids
  BY CloneFacts
<1>6. pc[t] = "clone.import" /\ folders' = folders \cup {Target(t)}
  BY DEF CloneImport, At
<1>7. pc'[t] \in {"clone.name", "clone.undo"}
  BY <1>4 DEF CloneImport, AllWork
<1>8. \A d : HasExport(t, d) => HasExport(t, d)'
  BY <1>1, <1>7 DEF Exporting
<1>9. \A f : Held(t, f) => Held(t, f)'
  BY <1>2, <1>3, <1>6, <1>8
<1>10. \A d \in folders' : d[1] = "export" => HasExport(t, d)' \/ (d \in folders /\ ~HasExport(t, d))
  BY <1>5, <1>6, <1>8
<1>11. PICK v : v = made + 1
  OBVIOUS
<1> DEFINE copies == {Copy(f, Target(t)) : f \in DisksIn(Exported(t))}
           vm == NewVM(Source(t), Target(t), copies)
<1>12. \A f \in copies : f.dir = Target(t)
  BY DEF Copy, File
<1>13. vm.disks = copies
  BY DEF NewVM
<1>14. \/ vhds' = vhds /\ vms' = vms
       \/ vhds' = vhds \cup copies /\ Registered(vm)
  BY DEF CloneImport, CopyAll, AllWork
<1> HIDE DEF copies, vm
<1>15. (\A f : Owned(f) => Owned(f)') /\ \A f \in vhds' : f \in vhds \/ (f \in copies /\ Owned(f)')
  <2>1. CASE vhds' = vhds /\ vms' = vms
    BY <2>1 DEF Owned, Ids
  <2>2. CASE vhds' = vhds \cup copies /\ Registered(vm)
    <3>1. vms' = [w \in Ids \cup {v} |-> IF w = v THEN vm ELSE vms[w]]
      BY <2>2, <1>11 DEF Registered
    <3>2. Ids' = Ids \cup {v} /\ vms'[v] = vm /\ \A w \in Ids : vms'[w] = vms[w]
      BY <3>1, <1>5, <1>11 DEF Ids
    <3>3. QED
      BY <2>2, <3>2, <1>13 DEF Owned
  <2>3. QED
    BY <2>1, <2>2, <1>14
<1>16. FilesInv'
  BY <1>6, <1>12, <1>15 DEF LeftInv, FilesInv
<1>17. \A f \in vhds' : Accounted(t, f)' \/ (f \in vhds /\ ~Accounted(t, f))
  BY <1>1, <1>9, <1>15 DEF Accounted
<1>18. QED
  BY <1>1, <1>7, <1>10, <1>16, <1>17 DEF CleanStep

(* A VM keeps its disks when it gets its name. *)
LEMMA CloneNameCleans ==
  ASSUME TInv, LeftInv, NEW t \in Tasks, Acts(t), AllWork, Op(t) = "vm_clone", CloneName(t)
  PROVE  CleanStep(t) /\ CloneSure(t)'
<1>1. /\ \A d : HasExport(t, d) <=> pc[t] \in Exporting /\ Imported(t) /\ d = Exported(t)
      /\ \A d : HasExport(t, d)' <=> pc'[t] \in Exporting /\ Imported(t) /\ d = Exported(t)
      /\ \A f : Spared(t, f) => Spared(t, f)'
      /\ pc'[t] # "clone.point" => CloneSure(t)'
  BY CloneHolds
<1>2. \A f : Held(t, f) <=>
        \/ HasExport(t, f.dir)
        \/ pc[t] = "clone.point" /\ \E g \in loc[t].disks : f = Renamed(g)
        \/ pc[t] \in {"convert.remove", "convert.rename"} /\ \E g \in loc[t].done : f = Converted(g)
  BY CloneHolds
<1>3. \A f : HasExport(t, f.dir)' => Held(t, f)'
  BY CloneHolds
<1>4. \A s : Go(t, s) => pc'[t] = s
  BY Ends
<1>5. \A v \in Ids : DOMAIN vms[v] = VMFields
  BY CloneFacts
<1>6. pc[t] = "clone.name" /\ vhds' = vhds /\ folders' = folders
  BY DEF CloneName, At
<1>7. pc'[t] \in {"clone.disk", "clone.undo"}
  BY <1>4 DEF CloneName
<1>8. (\A d : HasExport(t, d) => HasExport(t, d)') /\ \A f : Held(t, f) => Held(t, f)'
  <2>1. \A d : HasExport(t, d) => HasExport(t, d)'
    BY <1>1, <1>7 DEF Exporting
  <2>2. QED
    BY <2>1, <1>2, <1>3, <1>6
<1>9. Ids' = Ids /\ \A v \in Ids : vms'[v].disks = vms[v].disks
  <2>1. CASE vms' = vms
    BY <2>1 DEF Ids
  <2>2. CASE vms' = [vms EXCEPT ![Clone(t)].name = request[t].name]
    <3>1. PICK v : v = Clone(t)
      OBVIOUS
    <3>2. Ids' = Ids /\ \A w \in Ids : vms'[w] = vms[w] \/ vms'[w] = [vms[w] EXCEPT !.name = request[t].name]
      BY <2>2, <3>1 DEF Ids
    <3>3. QED
      BY <3>2, <1>5 DEF VMFields
  <2>3. QED
    BY <2>1, <2>2 DEF CloneName
<1>10. \A f : Owned(f) => Owned(f)'
  BY <1>9, OwnedStay
<1>11. \A f \in vhds' : Accounted(t, f)' \/ (f \in vhds /\ ~Accounted(t, f))
  BY <1>1, <1>6, <1>8, <1>10 DEF Accounted
<1>12. QED
  BY <1>1, <1>6, <1>7, <1>8, <1>11 DEF CleanStep, LeftInv, FilesInv

(* A disk file that has its new name is the clone's business until the VM knows it. *)
LEMMA CloneDiskCleans ==
  ASSUME TInv, HostOK, LeftInv, NEW t \in Tasks, Acts(t), AllWork, Op(t) = "vm_clone", CloneLocal(t),
         CloneDisk(t)
  PROVE  CleanStep(t) /\ CloneSure(t)'
<1>1. /\ \A d : HasExport(t, d) <=> pc[t] \in Exporting /\ Imported(t) /\ d = Exported(t)
      /\ \A d : HasExport(t, d)' <=> pc'[t] \in Exporting /\ Imported(t) /\ d = Exported(t)
      /\ \A f : Spared(t, f) => Spared(t, f)'
      /\ pc'[t] # "clone.point" => CloneSure(t)'
  BY CloneHolds
<1>2. \A f : Held(t, f) <=>
        \/ HasExport(t, f.dir)
        \/ pc[t] = "clone.point" /\ \E g \in loc[t].disks : f = Renamed(g)
        \/ pc[t] \in {"convert.remove", "convert.rename"} /\ \E g \in loc[t].done : f = Converted(g)
  BY CloneHolds
<1>3. \A f : Held(t, f)' <=>
        \/ HasExport(t, f.dir)'
        \/ pc'[t] = "clone.point" /\ \E g \in loc'[t].disks : f = Renamed(g)
        \/ pc'[t] \in {"convert.remove", "convert.rename"} /\ \E g \in loc'[t].done : f = Converted(g)
  BY CloneHolds
<1>4. (\A s, l : GoWith(t, s, l) => pc'[t] = s /\ loc'[t] = l) /\ (\A s : Go(t, s) => pc'[t] = s)
  BY Ends
<1>5. DOMAIN loc[t] = LocFields
  BY CloneFacts
<1>6. pc[t] = "clone.disk" /\ vms' = vms /\ folders' = folders
  BY DEF CloneDisk, At
<1>7. pc'[t] \in {"clone.tidy", "clone.undo", "clone.point"}
  BY <1>4 DEF CloneDisk
<1>8. (\A d : HasExport(t, d) => HasExport(t, d)') /\ \A f : Held(t, f) => Held(t, f)'
  <2>1. \A d : HasExport(t, d) => HasExport(t, d)'
    BY <1>1, <1>7 DEF Exporting
  <2>2. QED
    BY <2>1, <1>2, <1>3, <1>6
<1>9. FilesInv
  BY DEF LeftInv
<1>10. CASE vhds' = vhds /\ (Go(t, "clone.tidy") \/ Go(t, "clone.undo"))
  <2>1. Steady
    BY <1>6, <1>10 DEF Steady, Calm, Ids
  <2>2. CleanStep(t)
    BY <2>1, <1>1, <1>8, <1>9, HarmlessStep
  <2>3. pc'[t] # "clone.point"
    BY <1>4, <1>10
  <2>4. QED
    BY <2>2, <2>3, <1>1
<1>11. CASE ~(vhds' = vhds /\ (Go(t, "clone.tidy") \/ Go(t, "clone.undo")))
  <2>1. PICK f \in Misnamed(t) :
          /\ vhds' = Replace(vhds, f, Renamed(f))
          /\ GoWith(t, "clone.point", [loc[t] EXCEPT !.disks = {f}])
    BY <1>11 DEF CloneDisk
  <2>2. pc'[t] = "clone.point" /\ loc'[t].disks = {f}
    BY <2>1, <1>4, <1>5 DEF LocFields
  <2>3. f \in vhds /\ f.as = "copy" /\ IsFile(f)
    <3>1. PICK v \in Ids : f \in vms[v].disks
      BY DEF Misnamed, Named, ByName
    <3>2. IsFile(f)
      BY <3>1 DEF HostOK, DisksInv
    <3>3. QED
      BY <3>2 DEF Misnamed
  <2>4. Renamed(f).dir = f.dir /\ Renamed(f).as = "own"
    BY <2>3 DEF Renamed, IsFile
  <2>5. vhds' = (vhds \ {f}) \cup {Renamed(f)} /\ Renamed(f) # f
    BY <2>1, <2>3, <2>4 DEF Replace
  <2>6. CloneSure(t)'
    BY <2>2, <2>5 DEF CloneSure
  <2>7. FilesInv'
    BY <2>3, <2>4, <2>5, <1>6, <1>9 DEF FilesInv
  <2>8. Held(t, Renamed(f))'
    BY <2>2, <1>3
  <2>9. \A g : Owned(g) => Owned(g)'
    BY <1>6 DEF Owned, Ids
  <2>10. \A g \in vhds' : Accounted(t, g)' \/ (g \in vhds /\ ~Accounted(t, g))
    BY <2>5, <2>8, <2>9, <1>1, <1>8 DEF Accounted
  <2>11. QED
    BY <2>6, <2>7, <2>10, <1>6, <1>8 DEF CleanStep
<1>12. QED
  BY <1>10, <1>11

(* Then the VM gets to know it, in place of the name the file no longer has. *)
LEMMA ClonePointCleans ==
  ASSUME TInv, HostOK, LeftInv, NEW t \in Tasks, Acts(t), AllWork, Op(t) = "vm_clone", CloneLocal(t),
         CloneSure(t), ClonePoint(t)
  PROVE  CleanStep(t) /\ CloneSure(t)'
<1>1. /\ \A d : HasExport(t, d) <=> pc[t] \in Exporting /\ Imported(t) /\ d = Exported(t)
      /\ \A d : HasExport(t, d)' <=> pc'[t] \in Exporting /\ Imported(t) /\ d = Exported(t)
      /\ \A f : Spared(t, f) => Spared(t, f)'
      /\ pc'[t] # "clone.point" => CloneSure(t)'
  BY CloneHolds
<1>2. \A f : Held(t, f) <=>
        \/ HasExport(t, f.dir)
        \/ pc[t] = "clone.point" /\ \E g \in loc[t].disks : f = Renamed(g)
        \/ pc[t] \in {"convert.remove", "convert.rename"} /\ \E g \in loc[t].done : f = Converted(g)
  BY CloneHolds
<1>3. \A f : HasExport(t, f.dir)' => Held(t, f)'
  BY CloneHolds
<1>4. \A s : Go(t, s) => pc'[t] = s
  BY Ends
<1>5. \A w \in Ids : DOMAIN vms[w] = VMFields
  BY CloneFacts
<1>6. PICK v : v = Clone(t)
  OBVIOUS
<1>7. v \in Ids /\ Named(t) = {v}
  BY <1>6, CloneAlone DEF ClonePoint, At, OwnVM
<1>8. PICK f \in vms[v].disks : loc[t].disks = {f}
  BY <1>6 DEF ClonePoint, At, CloneLocal
<1>9. f \notin vhds /\ vhds' = vhds /\ folders' = folders /\ pc[t] = "clone.point"
  BY <1>8 DEF ClonePoint, At, CloneSure
<1> DEFINE new == {IF g \in loc[t].disks THEN Renamed(g) ELSE g : g \in vms[v].disks}
<1>10. /\ vms' = [w \in Ids |-> IF w \in Named(t)
                   THEN [vms[w] EXCEPT !.disks = {IF g \in loc[t].disks THEN Renamed(g) ELSE g : g \in @}]
                   ELSE vms[w]]
       /\ pc'[t] = "clone.disk"
  BY <1>4 DEF ClonePoint, Changed, AllWork
<1>11. /\ Ids' = Ids /\ \A w \in Ids \ {v} : vms'[w] = vms[w]
       /\ vms'[v] = [vms[v] EXCEPT !.disks = new]
  BY <1>7, <1>10 DEF Ids
<1>12. Renamed(f) \in new /\ \A g \in vms[v].disks : g # f => g \in new
  BY <1>8
<1> HIDE DEF new
<1>13. vms'[v].disks = new
  BY <1>5, <1>7, <1>11 DEF VMFields
<1>14. (\A g : Owned(g) => Owned(g)' \/ g = f) /\ Owned(Renamed(f))'
  BY <1>7, <1>11, <1>12, <1>13 DEF Owned
<1>15. \A d : HasExport(t, d) => HasExport(t, d)'
  BY <1>1, <1>10 DEF Exporting
<1>16. \A g : Held(t, g) => Held(t, g)' \/ Owned(g)'
  BY <1>2, <1>3, <1>8, <1>9, <1>14, <1>15
<1>17. \A g \in vhds' : Accounted(t, g)' \/ (g \in vhds /\ ~Accounted(t, g))
  BY <1>1, <1>9, <1>14, <1>16 DEF Accounted
<1>18. QED
  BY <1>1, <1>9, <1>10, <1>15, <1>17 DEF CleanStep, LeftInv, FilesInv

(* The export goes with all its files. *)
LEMMA CloneTidyCleans ==
  ASSUME TInv, LeftInv, NEW t \in Tasks, Acts(t), AllWork, Op(t) = "vm_clone",
         CloneUndo(t) \/ CloneTidy(t)
  PROVE  CleanStep(t) /\ CloneSure(t)'
<1>1. /\ \A d : HasExport(t, d) <=> pc[t] \in Exporting /\ Imported(t) /\ d = Exported(t)
      /\ \A f : Spared(t, f) => Spared(t, f)'
      /\ pc'[t] # "clone.point" => CloneSure(t)'
  BY CloneHolds
<1>2. \A f : Held(t, f) <=>
        \/ HasExport(t, f.dir)
        \/ pc[t] = "clone.point" /\ \E g \in loc[t].disks : f = Renamed(g)
        \/ pc[t] \in {"convert.remove", "convert.rename"} /\ \E g \in loc[t].done : f = Converted(g)
  BY CloneHolds
<1>3. (\A s, l : GoWith(t, s, l) => pc'[t] = s) /\ (Fail(t) => pc'[t] = "done")
  BY Ends
<1>4. pc[t] \in {"clone.undo", "clone.tidy"} /\ vms' = vms /\ RemoveExport(t)
  BY DEF CloneUndo, CloneTidy, At
<1>5. pc'[t] \in {"done", "convert", "set"}
  BY <1>3 DEF CloneUndo, CloneTidy
<1>6. \A f : Held(t, f) <=> HasExport(t, f.dir)
  BY <1>2, <1>4
<1>7. FilesInv
  BY DEF LeftInv
<1>8. \A f : Owned(f) => Owned(f)'
  BY <1>4 DEF Owned, Ids
<1>9. CASE Imported(t)
  <2>1. folders' = folders \ {Exported(t)} /\ vhds' = vhds \ FilesIn(Exported(t))
    BY <1>4, <1>9 DEF RemoveExport, AllWork
  <2>2. \A f \in vhds' : f \in vhds /\ f.dir # Exported(t)
    BY <2>1 DEF FilesIn
  <2>3. FilesInv'
    BY <2>1, <2>2, <1>7 DEF FilesInv
  <2>4. \A d \in folders' : d \in folders /\ ~HasExport(t, d)
    BY <2>1, <1>1
  <2>5. \A f \in vhds' : Accounted(t, f)' \/ (f \in vhds /\ ~Accounted(t, f))
    <3>1. \A f \in vhds' : ~Held(t, f)
      BY <2>2, <1>1, <1>6
    <3>2. QED
      BY <2>2, <3>1, <1>1, <1>8 DEF Accounted
  <2>6. QED
    BY <2>3, <2>4, <2>5, <1>1, <1>5 DEF CleanStep
<1>10. CASE ~Imported(t)
  <2>1. Steady
    BY <1>4, <1>10 DEF RemoveExport, Steady, Calm, Ids
  <2>2. (\A d : ~HasExport(t, d)) /\ \A f : ~Held(t, f)
    BY <1>1, <1>6, <1>10
  <2>3. CleanStep(t)
    BY <2>1, <2>2, <1>1, <1>7, HarmlessStep
  <2>4. QED
    BY <2>3, <1>1, <1>5
<1>11. QED
  BY <1>9, <1>10

(* The converted copy takes the place of its disk, or goes. *)
LEMMA CloneConvertCleans ==
  ASSUME TInv, HostOK, LeftInv, NEW t \in Tasks, Acts(t), AllWork, Op(t) = "vm_clone", CloneLocal(t),
         Convert(t)
  PROVE  CleanStep(t) /\ CloneSure(t)'
<1>1. /\ \A d : HasExport(t, d) <=> pc[t] \in Exporting /\ Imported(t) /\ d = Exported(t)
      /\ \A f : Spared(t, f) => Spared(t, f)'
      /\ pc'[t] # "clone.point" => CloneSure(t)'
  BY CloneHolds
<1>2. \A f : Held(t, f) <=>
        \/ HasExport(t, f.dir)
        \/ pc[t] = "clone.point" /\ \E g \in loc[t].disks : f = Renamed(g)
        \/ pc[t] \in {"convert.remove", "convert.rename"} /\ \E g \in loc[t].done : f = Converted(g)
  BY CloneHolds
<1>3. \A f : Held(t, f)' <=>
        \/ HasExport(t, f.dir)'
        \/ pc'[t] = "clone.point" /\ \E g \in loc'[t].disks : f = Renamed(g)
        \/ pc'[t] \in {"convert.remove", "convert.rename"} /\ \E g \in loc'[t].done : f = Converted(g)
  BY CloneHolds
<1>4. /\ \A s, l : GoWith(t, s, l) => pc'[t] = s /\ loc'[t] = l
      /\ \A s : Go(t, s) => pc'[t] = s /\ loc'[t] = loc[t]
  BY Ends
<1>5. DOMAIN loc[t] = LocFields
  BY CloneFacts
<1>6. PICK v : v = Clone(t)
  OBVIOUS
<1>7. pc[t] \in Converting /\ vms' = vms /\ folders' = folders
  BY Where DEF Convert, ConvertDisk, ConvertRemove, ConvertRename
<1>8. v \in Ids /\ (\A f \in vms[v].disks : IsFile(f)) /\ loc[t].disks \subseteq vms[v].disks
  BY <1>6, <1>7, CloneAlone DEF CloneLocal, OwnVM
<1>9. \A f \in loc[t].disks : Converted(f).dir = f.dir
  <2>1. ASSUME NEW f \in loc[t].disks
        PROVE  Converted(f).dir = f.dir
    <3>1. DOMAIN f = {"dir", "n", "as"}
      BY <1>8 DEF IsFile
    <3>2. QED
      BY <3>1 DEF Converted
  <2>2. QED
    BY <2>1
<1>10. pc'[t] \in {"set", "convert", "convert.remove", "convert.rename"}
  BY <1>4 DEF Convert, ConvertDisk, ConvertRemove, ConvertRename, After, Op
<1>11. \A d : ~HasExport(t, d)
  BY <1>1, <1>7 DEF Exporting, Converting
<1>12. \A f : Owned(f) => Owned(f)'
  BY <1>7 DEF Owned, Ids
<1>13. FilesInv
  BY DEF LeftInv
<1>14. ASSUME FilesInv',
              \A f \in vhds' : (f \in vhds /\ (Held(t, f) => Held(t, f)')) \/ Owned(f)' \/ Held(t, f)'
       PROVE  CleanStep(t) /\ CloneSure(t)'
  <2>1. \A f \in vhds' : Accounted(t, f)' \/ (f \in vhds /\ ~Accounted(t, f))
    BY <1>1, <1>12, <1>14 DEF Accounted
  <2>2. QED
    BY <2>1, <1>1, <1>7, <1>10, <1>11, <1>14 DEF CleanStep
<1>15. CASE ConvertDisk(t)
  <2>1. \A f : ~Held(t, f)
    BY <1>2, <1>11, <1>15 DEF ConvertDisk, At
  <2>2. CASE vhds' = vhds
    BY <2>1, <2>2, <1>7, <1>13, <1>14 DEF FilesInv
  <2>3. CASE vhds' # vhds
    <3>1. PICK f \in ToConvert(t) :
            /\ f \in vhds /\ vhds' = vhds \cup {Converted(f)}
            /\ GoWith(t, "convert.remove", [loc[t] EXCEPT !.done = {f}])
      BY <2>3, <1>15 DEF ConvertDisk
    <3>2. pc'[t] = "convert.remove" /\ loc'[t].done = {f}
      BY <3>1, <1>4, <1>5 DEF LocFields
    <3>3. f \in loc[t].disks
      BY DEF ToConvert, Op
    <3>4. FilesInv'
      BY <3>1, <3>3, <1>7, <1>9, <1>13 DEF FilesInv
    <3>5. Held(t, Converted(f))'
      BY <3>2, <1>3
    <3>6. QED
      BY <2>1, <3>1, <3>4, <3>5, <1>14
  <2>4. QED
    BY <2>2, <2>3
<1>16. CASE ConvertRemove(t) \/ ConvertRename(t)
  <2>1. PICK f \in loc[t].disks : loc[t].done = {f} /\ Converted(f) \in vhds
    BY <1>16 DEF ConvertRemove, ConvertRename, At, CloneLocal
  <2>2. (CHOOSE d \in loc[t].done : TRUE) = f
    BY <2>1
  <2>3. \A g : Held(t, g) => g = Converted(f)
    BY <2>1, <1>2, <1>7, <1>11 DEF Converting
  <2>4. \/ vhds' = vhds \ {f} /\ Go(t, "convert.rename")
        \/ vhds' = Replace(vhds, Converted(f), f)
        \/ vhds' = vhds \ {Converted(f)}
    BY <2>2, <1>16 DEF ConvertRemove, ConvertRename, Leftover
  <2>5. CASE vhds' = vhds \ {f} /\ Go(t, "convert.rename")
    <3>1. Held(t, Converted(f))'
      BY <2>1, <2>5, <1>3, <1>4
    <3>2. QED
      BY <2>3, <2>5, <3>1, <1>7, <1>13, <1>14 DEF FilesInv
  <2>6. CASE vhds' = Replace(vhds, Converted(f), f)
    <3>1. vhds' = (vhds \ {Converted(f)}) \cup {f}
      BY <2>1, <2>6 DEF Replace
    <3>2. Owned(f)'
      BY <2>1, <1>8, <1>12 DEF Owned
    <3>3. FilesInv'
      <4>1. f.dir \in folders
        BY <2>1, <1>9, <1>13 DEF FilesInv
      <4>2. QED
        BY <3>1, <4>1, <1>7, <1>13 DEF FilesInv
    <3>4. QED
      BY <2>3, <3>1, <3>2, <3>3, <1>14
  <2>7. CASE vhds' = vhds \ {Converted(f)}
    BY <2>3, <2>7, <1>7, <1>13, <1>14 DEF FilesInv
  <2>8. QED
    BY <2>4, <2>5, <2>6, <2>7
<1>17. QED
  BY <1>15, <1>16 DEF Convert

(* A clone that ends has nothing left in its hands. *)
LEMMA CloneFinishCleans ==
  ASSUME TInv, LeftInv, NEW t \in Tasks, Acts(t), Op(t) = "vm_clone", Finish(t)
  PROVE  CleanStep(t) /\ CloneSure(t)'
<1>1. /\ \A d : HasExport(t, d) <=> pc[t] \in Exporting /\ Imported(t) /\ d = Exported(t)
      /\ \A f : Spared(t, f) => Spared(t, f)'
      /\ pc'[t] # "clone.point" => CloneSure(t)'
  BY CloneHolds
<1>2. \A f : Held(t, f) <=>
        \/ HasExport(t, f.dir)
        \/ pc[t] = "clone.point" /\ \E g \in loc[t].disks : f = Renamed(g)
        \/ pc[t] \in {"convert.remove", "convert.rename"} /\ \E g \in loc[t].done : f = Converted(g)
  BY CloneHolds
<1>3. Steady /\ pc[t] \in Ending
  BY FinishSteady, Where
<1>4. pc'[t] \in {"id", "start", "done"}
  BY Ends DEF Finish, Settle, FindId, PowerOn
<1>5. (\A d : ~HasExport(t, d)) /\ \A f : ~Held(t, f)
  <2>1. \A d : ~HasExport(t, d)
    BY <1>1, <1>3 DEF Exporting, Ending
  <2>2. QED
    BY <2>1, <1>2, <1>3 DEF Ending
<1>6. CleanStep(t)
  BY <1>1, <1>3, <1>5, HarmlessStep DEF LeftInv
<1>7. QED
  BY <1>1, <1>4, <1>6

(* So no step of a clone leaves anything behind. *)
LEMMA CloneCleans ==
  ASSUME TInv, HostOK, LeftInv, NEW t \in Tasks, Acts(t), AllWork, Op(t) = "vm_clone", CloneLocal(t),
         CloneSure(t), CloneActs(t) \/ Convert(t) \/ Finish(t)
  PROVE  CleanStep(t) /\ CloneSure(t)'
<1>1. CASE CloneSpace(t) \/ CloneCheck(t) \/ CloneSource(t) \/ CloneExport(t)
  BY <1>1, CloneBeginCleans
<1>2. CASE CloneImport(t)
  BY <1>2, CloneImportCleans
<1>3. CASE CloneName(t)
  BY <1>3, CloneNameCleans
<1>4. CASE CloneDisk(t)
  BY <1>4, CloneDiskCleans
<1>5. CASE ClonePoint(t)
  BY <1>5, ClonePointCleans
<1>6. CASE CloneUndo(t) \/ CloneTidy(t)
  BY <1>6, CloneTidyCleans
<1>7. CASE Convert(t)
  BY <1>7, CloneConvertCleans
<1>8. CASE Finish(t)
  BY <1>8, CloneFinishCleans
<1>9. QED
  BY <1>1, <1>2, <1>3, <1>4, <1>5, <1>6, <1>7, <1>8 DEF CloneActs

-----------------------------------------------------------------------------
(* Every step *)

(* Only at these steps a handler has to be sure of something. *)
LEMMA SureElsewhere ==
  ASSUME NEW t, pc'[t] \notin Converting \cup {"create.disk", "create.attach", "clone.point",
                                               "delete.role", "delete.vm", "edit.set", "edit.disks",
                                               "edit.add"}
  PROVE  Sure(t)'
<1>1. CreateSure(t)' /\ CloneSure(t)' /\ DeleteSure(t)' /\ ExportSure(t)' /\ EditSure(t)'
  BY DEF CreateSure, CloneSure, DeleteSure, ExportSure, EditSure, At
<1>2. QED
  BY <1>1 DEF Sure

(* A handler that begins or looks for the name of its VM has nothing yet. *)
LEMMA IdleCleans ==
  ASSUME TInv, LeftInv, NEW t \in Tasks, Acts(t), ~Kill(t), Begins(t) \/ Resolve(t)
  PROVE  CleanStep(t) /\ Sure(t)'
<1>1. pc[t] \in {"waiting", "resolve"}
  BY Where
<1>2. (\A d : ~HasExport(t, d)) /\ (\A f : ~Held(t, f)) /\ \A f : Spared(t, f) => Spared(t, f)'
  <2>1. \A d : ~HasExport(t, d)
    BY <1>1 DEF HasExport, Exporting
  <2>2. \A f : ~Held(t, f)
    BY <2>1, <1>1 DEF Held, At
  <2>3. QED
    BY <2>1, <2>2, <1>1, SparesOn
<1>3. CleanStep(t)
  BY <1>2, IdleSteady, HarmlessStep DEF LeftInv
<1>4. pc'[t] \in {"create.space", "clone.space", "resolve", "vm_batch", "vm_edit", "done"} \cup ManageOps
  <2>1. /\ \A s, l : GoWith(t, s, l) => pc'[t] = s
        /\ \A s : Go(t, s) => pc'[t] = s
        /\ Fail(t) => pc'[t] = "done"
    BY Ends
  <2>2. CASE pc[t] = "waiting"
    BY <2>1, <2>2, Beginnings DEF Begin
  <2>3. CASE Resolve(t)
    <3>1. Op(t) \in ManageOps
      <4>1. pc[t] = "resolve" /\ Busy(t)
        BY <2>3, Where DEF Busy
      <4>2. QED
        BY <4>1 DEF TInv, ControlInv, InHandler, EditSteps, BatchSteps
    <3>2. pc'[t] \in {"done", Op(t)}
      BY <2>1, <2>3 DEF Resolve, Op
    <3>3. QED
      BY <3>1, <3>2
  <2>4. QED
    BY <2>2, <2>3, Where
<1>5. Sure(t)'
  BY <1>4, SureElsewhere DEF ManageOps, Converting
<1>6. QED
  BY <1>3, <1>5

(* The tasks that do not shape VMs make no files. *)
LEMMA PolicyCleans ==
  ASSUME TInv, LeftInv, NEW t \in Tasks, Acts(t), ~Kill(t), pc[t] # "waiting", Op(t) \notin Shapers, Local(t)
  PROVE  CleanStep(t) /\ Sure(t)'
<1>1. Steady
  BY PolicyKeeps
<1>2. (\A d : ~HasExport(t, d)) /\ \A f : ~Held(t, f)
  BY DEF HasExport, Held, Shapers
<1>3. \A f : Spared(t, f) => Spared(t, f)'
  BY SparesOn DEF Shapers
<1>4. CleanStep(t)
  BY <1>1, <1>2, <1>3, HarmlessStep DEF LeftInv
<1>5. Op(t)' = Op(t)
  BY ActsProceeds DEF Proceeds, Op
<1>6. QED
  BY <1>4, <1>5 DEF Sure, Shapers

(* The others clean up. *)
LEMMA ShapersClean ==
  ASSUME TInv, HostOK, LeftInv, NEW t \in Tasks, Acts(t), AllWork, ~Kill(t), pc[t] # "waiting",
         Op(t) \in Shapers, Local(t), Sure(t), Sound(t), Gathered(t)
  PROVE  CleanStep(t) /\ Sure(t)'
<1>1. Op(t)' = Op(t)
  BY ActsProceeds DEF Proceeds, Op
<1>2. ~Begins(t)
  BY Where
<1>3. Resolve(t) => CleanStep(t) /\ Sure(t)'
  BY IdleCleans
<1> USE DEF Local, Sure
<1>4. CASE Op(t) = "vm_create"
  <2>1. CreateActs(t) \/ Finish(t)
    BY <1>2, <1>4, OwnActs
  <2>2. CleanStep(t) /\ CreateSure(t)'
    BY <2>1, <1>4, CreateCleans
  <2>3. QED
    BY <2>2, <1>1, <1>4
<1>5. CASE Op(t) = "vm_clone"
  <2>1. CloneActs(t) \/ Convert(t) \/ Finish(t)
    BY <1>2, <1>5, OwnActs
  <2>2. CleanStep(t) /\ CloneSure(t)'
    BY <2>1, <1>5, CloneCleans
  <2>3. QED
    BY <2>2, <1>1, <1>5
<1>6. CASE Op(t) = "vm_delete"
  <2>1. Resolve(t) \/ DeleteActs(t)
    BY <1>2, <1>6, OwnActs
  <2>2. DeleteActs(t) => CleanStep(t) /\ DeleteSure(t)'
    BY <1>6, DeleteCleans
  <2>3. QED
    BY <2>1, <2>2, <1>1, <1>3, <1>6
<1>7. CASE Op(t) = "vm_migrate"
  <2>1. Resolve(t) \/ Migrate(t)
    BY <1>2, <1>7, OwnActs
  <2>2. Migrate(t) => CleanStep(t)
    BY <1>7, MigrateCleans
  <2>3. QED
    BY <2>1, <2>2, <1>1, <1>3, <1>7
<1>8. CASE Op(t) \in {"vm_rename", "vm_move"}
  <2>1. Resolve(t) \/ MoveActs(t)
    BY <1>2, <1>8, OwnActs
  <2>2. MoveActs(t) => CleanStep(t)
    BY <1>8, MoveCleans
  <2>3. QED
    BY <2>1, <2>2, <1>1, <1>3, <1>8
<1>9. CASE Op(t) = "vm_export_template"
  <2>1. Resolve(t) \/ ExportActs(t) \/ Convert(t)
    BY <1>2, <1>9, OwnActs
  <2>2. ExportActs(t) \/ Convert(t) => CleanStep(t) /\ ExportSure(t)'
    BY <1>9, ExportCleans
  <2>3. QED
    BY <2>1, <2>2, <1>1, <1>3, <1>9
<1>10. CASE Op(t) = "vm_edit"
  <2>1. EditStep(t)
    BY <1>10, OwnActs
  <2>2. CleanStep(t) /\ EditSure(t)'
    BY <2>1, <1>10, EditCleans
  <2>3. QED
    BY <2>2, <1>1, <1>10
<1>11. QED
  BY <1>4, <1>5, <1>6, <1>7, <1>8, <1>9, <1>10 DEF Shapers

(* What a handler is sure of on a host whose VMs and files stay, it goes on to be sure of. *)
LEMMA SteadySure ==
  ASSUME Steady, request' = request, NEW u \in Tasks, Same(u), Sure(u)
  PROVE  Sure(u)'
<1>1. /\ \A n : ByName(n)' = ByName(n)
      /\ \A d : FilesIn(d)' = FilesIn(d)
  BY DEF Steady, Calm, ByName, FilesIn
<1>2. /\ Target(u)' = Target(u) /\ Named(u)' = Named(u) /\ Name(u)' = Name(u) /\ Op(u)' = Op(u)
      /\ EditName(u)' = EditName(u)
      /\ \A s : At(u, s)' <=> At(u, s)
  BY <1>1 DEF Same, Target, Named, Name, EditName, Op, At
<1> USE DEF Same, Steady, Calm
<1>3. CreateSure(u) => CreateSure(u)'
  BY <1>1, <1>2 DEF CreateSure
<1>4. CloneSure(u) => CloneSure(u)'
  BY <1>2 DEF CloneSure
<1>5. DeleteSure(u) => DeleteSure(u)'
  <2>1. ByName(Name(u)) \subseteq Ids
    BY DEF ByName
  <2>2. ByName(Name(u))' = ByName(Name(u))
    BY <1>1, <1>2
  <2>3. QED
    BY <2>1, <2>2, <1>2 DEF DeleteSure
<1>6. ExportSure(u) => ExportSure(u)'
  BY DEF ExportSure
<1>7. EditSure(u) => EditSure(u)'
  <2>1. ByName(EditName(u))' = ByName(EditName(u))
    BY <1>1, <1>2
  <2>2. QED
    BY <2>1 DEF EditSure
<1>8. QED
  BY <1>2, <1>3, <1>4, <1>5, <1>6, <1>7 DEF Sure

(* What a handler is sure of it goes on to be sure of while others that are apart from it run. *)
LEMMA ElsewhereSure ==
  ASSUME NEW t, NEW u \in Tasks, Within(t), Distinct(t, u), Distinct(u, t),
         request' = request, Same(u), Local(u), Sure(u)
  PROVE  Sure(u)'
<1>1. /\ Target(u)' = Target(u) /\ Name(u)' = Name(u) /\ Op(u)' = Op(u)
      /\ EditName(u)' = EditName(u)
      /\ (\A s : At(u, s)' <=> At(u, s)) /\ pc'[u] = pc[u] /\ loc'[u] = loc[u]
  BY DEF Same, Target, Name, EditName, Op, At
<1>2. \A v \in Its(u) : Stays(v)
  BY Elsewhere
<1>3. \A n \in Names(u) : ByName(n)' = ByName(n)
  BY Elsewhere
<1>4. \A f : Claims(u, f) /\ Away(f.dir) => (f \in vhds' <=> f \in vhds)
  BY Elsewhere
<1>5. Op(u) \in {"vm_create", "vm_clone"} =>
        /\ Named(u)' = Named(u) /\ \A v \in Named(u) : v \in Its(u)
        /\ \A f : f.dir = Target(u) => (f \in vhds' <=> f \in vhds)
  <2> SUFFICES ASSUME Op(u) \in {"vm_create", "vm_clone"}
               PROVE  /\ Named(u)' = Named(u) /\ \A v \in Named(u) : v \in Its(u)
                      /\ \A f : f.dir = Target(u) => (f \in vhds' <=> f \in vhds)
    OBVIOUS
  <2>1. request[u].name \in Names(u) /\ Target(u) \in FoldersOf(u)
    BY DEF Names, FoldersOf
  <2>2. Away(Target(u))
    BY DEF Away, Target, Folder
  <2>3. Named(u)' = Named(u)
    BY <2>1, <1>3 DEF Named
  <2>4. \A v \in Named(u) : v \in Its(u)
    BY <2>1 DEF Named, ByName, Its
  <2>5. QED
    BY <2>1, <2>2, <2>3, <2>4, <1>4 DEF Claims
<1>6. ASSUME Op(u) = "vm_create", CreateSure(u)
      PROVE  CreateSure(u)'
  <2>1. FilesIn(Target(u))' = FilesIn(Target(u))
    BY <1>1, <1>5, <1>6 DEF FilesIn
  <2>2. Named(u)' = Named(u) /\ \A v \in Named(u) : v \in Ids'
    BY <1>2, <1>5, <1>6 DEF Stays
  <2>3. At(u, "create.attach")' => \E v \in Ids' : Named(u)' = {v}
    BY <2>2, <1>1, <1>6 DEF CreateSure
  <2>4. QED
    BY <2>1, <2>3, <1>1, <1>6 DEF CreateSure
<1>7. ASSUME Op(u) = "vm_clone", CloneSure(u)
      PROVE  CloneSure(u)'
  <2> SUFFICES ASSUME At(u, "clone.point")
               PROVE  loc[u].disks \cap vhds' = {}
    BY <1>1 DEF CloneSure
  <2>1. CloneLocal(u) /\ pc[u] \in OwnVM
    BY <1>7 DEF Local, OwnVM, At
  <2>2. \A f \in loc[u].disks : f.dir = Target(u)
    BY <2>1 DEF CloneLocal, Settled
  <2>3. loc[u].disks \cap vhds = {}
    BY <1>7 DEF CloneSure
  <2>4. QED
    BY <2>2, <2>3, <1>5, <1>7
<1>8. ASSUME Op(u) = "vm_delete", DeleteSure(u)
      PROVE  DeleteSure(u)'
  <2> SUFFICES ASSUME pc[u] \in {"delete.role", "delete.vm"}
               PROVE  \A v \in ByName(Name(u))' : \A f \in vms'[v].disks :
                        IF request'[u].files THEN f \in loc'[u].disks ELSE f.dir = loc'[u].home
    BY <1>1 DEF DeleteSure
  <2>1. Name(u) \in Names(u)
    BY <1>8 DEF Names, LookedUp, Name, At
  <2>2. ByName(Name(u))' = ByName(Name(u))
    BY <2>1, <1>1, <1>3
  <2>3. \A v \in ByName(Name(u)) : vms'[v].disks = vms[v].disks
    BY <2>1, <1>2 DEF ByName, Its, Stays
  <2>4. QED
    BY <2>2, <2>3, <1>1, <1>8 DEF DeleteSure
<1>9. ExportSure(u) => ExportSure(u)'
  BY <1>1 DEF ExportSure
<1>10. ASSUME Op(u) = "vm_edit", EditSure(u)
       PROVE  EditSure(u)'
  <2> SUFFICES ASSUME pc[u] \in {"edit.set", "edit.disks", "edit.add"}
               PROVE  ByName(EditName(u))' # {}
    BY <1>1 DEF EditSure
  <2>1. EditName(u) \in Names(u)
    BY <1>10 DEF Names, LookedUp, EditName
  <2>2. QED
    BY <2>1, <1>1, <1>3, <1>10 DEF EditSure
<1>11. QED
  BY <1>1, <1>6, <1>7, <1>8, <1>9, <1>10 DEF Sure

(* Nor is any other handler less sure of anything when a task takes a step. *)
LEMMA OthersSure ==
  ASSUME TInv, NEW t \in Tasks, Acts(t), \A u \in Tasks : Local(u) /\ Sure(u),
         Steady \/ (Shaping(t) /\ Separated /\ Within(t))
  PROVE  \A u \in Tasks \ {t} : Sure(u)'
<1> SUFFICES ASSUME NEW u \in Tasks, u # t
             PROVE  Sure(u)'
  OBVIOUS
<1>1. request' = request /\ Same(u) /\ Local(u) /\ Sure(u)
  BY ActsProceeds DEF Proceeds, Same
<1>2. CASE Steady
  BY <1>1, <1>2, SteadySure
<1>3. CASE Op(u) \notin Shapers
  <2>1. Op(u)' = Op(u)
    BY <1>1 DEF Op
  <2>2. QED
    BY <1>3, <2>1 DEF Sure, Shapers
<1>4. CASE Op(u) \in Shapers /\ ~Busy(u)
  <2>1. pc'[u] \in Rest
    BY <1>1, <1>4 DEF Same, Busy, Rest
  <2>2. QED
    BY <2>1, SureElsewhere DEF Rest, Converting
<1>5. CASE Shaping(u) /\ Shaping(t) /\ Separated /\ Within(t)
  <2>1. Distinct(t, u) /\ Distinct(u, t)
    BY <1>5 DEF Separated
  <2>2. QED
    BY <2>1, <1>1, <1>5, ElsewhereSure
<1>6. QED
  BY <1>2, <1>3, <1>4, <1>5 DEF Shaping

(* So no step of a task leaves anything behind, as long as every script works. *)
LEMMA ActsClean ==
  ASSUME DisksInvariant, Orderly, LeftInv, \A u \in Tasks : Sure(u), NEW t \in Tasks, Acts(t),
         Gathered(t), faults' = 0
  PROVE  LeftInv' /\ \A u \in Tasks : Sure(u)'
<1>1. /\ TInv /\ HostOK /\ Local(t) /\ Separated /\ Sound(t) /\ Sure(t)
      /\ \A u \in Tasks : Local(u) /\ Sure(u)
  BY DEF DisksInvariant, Orderly
<1>2. AllWork /\ ~Kill(t)
  BY <1>1, Faultless
<1>3. Sure(t)' /\ (Steady \/ (Shaping(t) /\ Within(t))) => \A u \in Tasks : Sure(u)'
  BY <1>1, OthersSure
<1>4. CASE pc[t] = "waiting"
  <2>1. Begins(t)
    BY <1>1, <1>2, <1>4, BeginKeeps
  <2>2. Steady /\ CleanStep(t) /\ Sure(t)'
    BY <2>1, <1>1, <1>2, IdleSteady, IdleCleans
  <2>3. QED
    BY <2>2, <1>1, <1>3, LeftKept
<1>5. CASE pc[t] # "waiting" /\ Op(t) \notin Shapers
  <2>1. Steady /\ CleanStep(t) /\ Sure(t)'
    BY <1>1, <1>2, <1>5, PolicyKeeps, PolicyCleans
  <2>2. QED
    BY <2>1, <1>1, <1>3, LeftKept
<1>6. CASE pc[t] # "waiting" /\ Op(t) \in Shapers
  <2>1. Shaping(t)
    BY <1>2, <1>6, Beginnings DEF Shaping, Busy
  <2>2. CleanStep(t) /\ Sure(t)'
    BY <1>1, <1>2, <1>6, ShapersClean
  <2>3. Within(t)
    BY <1>1, <1>2, <1>6, ShapersWithin
  <2>4. QED
    BY <2>1, <2>2, <2>3, <1>1, <1>3, LeftKept
<1>7. QED
  BY <1>4, <1>5, <1>6

(* The invariant is inductive. *)
LEMMA LeftInvariantKept ==
  ASSUME DisksInvariant, Orderly, \A t \in Tasks : Gathered(t), LeftInvariant, [Next]_vars
  PROVE  LeftInvariant'
<1> SUFFICES ASSUME faults' = 0
             PROVE  LeftInv' /\ \A u \in Tasks : Sure(u)'
  BY DEF LeftInvariant
<1>1. TInv
  BY DEF DisksInvariant
<1>2. ASSUME NEW t \in Tasks, Acts(t)
      PROVE  LeftInv' /\ \A u \in Tasks : Sure(u)'
  <2>1. faults = 0
    BY <1>1, <1>2, Faultless
  <2>2. LeftInv /\ \A u \in Tasks : Sure(u)
    BY <2>1 DEF LeftInvariant
  <2>3. Gathered(t)
    OBVIOUS
  <2>4. QED
    BY <1>2, <2>2, <2>3, ActsClean
<1>3. ASSUME Steady, UNCHANGED <<request, pc, loc, answer, site, faults>>
      PROVE  LeftInv' /\ \A u \in Tasks : Sure(u)'
  <2>1. LeftInv /\ \A u \in Tasks : Sure(u)
    BY <1>3 DEF LeftInvariant
  <2>2. \A u \in Tasks : Sure(u)'
    BY <2>1, <1>3, SteadySure DEF Same
  <2>3. FilesInv'
    BY <2>1, <1>3 DEF LeftInv, FilesInv, Steady
  <2>4. \A t \in Tasks : \A d : HasExport(t, d)' <=> HasExport(t, d)
    BY <1>3 DEF HasExport, Op, Imported, Exported, Source
  <2>5. \A t \in Tasks : \A f : (Held(t, f)' <=> Held(t, f)) /\ (Spared(t, f)' <=> Spared(t, f))
    <3>1. \A t \in Tasks : \A f : Spared(t, f)' <=> Spared(t, f)
      BY <1>3 DEF Spared, Kept, Ran, Op
    <3>2. \A t \in Tasks : \A f : Held(t, f)' <=> Held(t, f)
      BY <2>4, <1>3 DEF Held, Op, DiskFiles, Target, At
    <3>3. QED
      BY <3>1, <3>2
  <2>6. \A f : Owned(f) => Owned(f)'
    BY <1>3, OwnedStay DEF Steady, Calm
  <2>7. ExportsInv'
    BY <2>1, <2>4, <1>3 DEF LeftInv, ExportsInv, Steady
  <2>8. LooseInv'
    BY <2>1, <2>5, <2>6, <1>3 DEF LeftInv, LooseInv, Steady
  <2>9. QED
    BY <2>2, <2>3, <2>7, <2>8 DEF LeftInv
<1>4. ASSUME NEW v \in Ids, Switch(v)
      PROVE  LeftInv' /\ \A u \in Tasks : Sure(u)'
  <2>1. Steady /\ UNCHANGED <<request, pc, loc, answer, site, faults>>
    BY <1>1, <1>4, SwitchSteady DEF Switch
  <2>2. QED
    BY <2>1, <1>3
<1>5. CASE UNCHANGED vars
  <2>1. Steady /\ UNCHANGED <<request, pc, loc, answer, site, faults>>
    BY <1>5 DEF vars, taskVars, hostVars, Steady, Calm, Ids
  <2>2. QED
    BY <2>1, <1>3
<1>6. QED
  BY <1>2, <1>4, <1>5 DEF Next, Acts

(* It holds at first on a host that is swept. *)
LEMMA InitSwept ==
  ASSUME Init, Swept
  PROVE  LeftInvariant
<1>1. FilesInv /\ ExportsInv /\ LooseInv
  BY DEF Swept, FilesInv, ExportsInv, LooseInv
<1>2. \A t \in Tasks : pc[t] = "waiting"
  BY DEF Init
<1>3. ASSUME NEW t \in Tasks
      PROVE  Sure(t)
  BY <1>2 DEF Sure, CreateSure, CloneSure, DeleteSure, ExportSure, EditSure, At, Converting
<1>4. QED
  BY <1>1, <1>3 DEF LeftInvariant, LeftInv

-----------------------------------------------------------------------------
(* The theorem *)

(* When all handlers are over, no export of a clone is left, and every disk file is a VM's, a *)
(* template's, or one that a request lets stay, as long as every script works, whichever      *)
(* requests are refused, on every host that is tidy and swept at first (handleVMCreate,       *)
(* handleVMClone, handleVMDelete, handleVMMigrate, handleVMRename, handleVMMove,              *)
(* handleVMExportTemplate, handleVMEdit, several together on different VMs, folders and disks,*)
(* beside any number of others).                                                              *)
THEOREM NothingStaysBehind ==
  Tidy /\ Swept /\ Spec /\ [](Orderly /\ \A t \in Tasks : Gathered(t)) => []NothingLeftBehind
<1>1. Init /\ Tidy /\ Swept => DisksInvariant /\ LeftInvariant
  BY InitTidy, InitSwept
<1>2. DisksInvariant /\ LeftInvariant /\ (Orderly /\ \A t \in Tasks : Gathered(t)) /\ [Next]_vars
        => (DisksInvariant /\ LeftInvariant)'
  BY DisksKept, LeftInvariantKept
<1>3. DisksInvariant /\ LeftInvariant => NothingLeftBehind
  <2> SUFFICES ASSUME LeftInvariant, faults = 0, \A t \in Tasks : ~Busy(t)
               PROVE  /\ \A d \in folders : d[1] # "export"
                      /\ \A f \in vhds : \/ f.dir[1] = "template"
                                         \/ \E v \in Ids : f \in vms[v].disks
                                         \/ \E t \in Tasks : Ran(t) /\ Kept(t, f)
    BY DEF NothingLeftBehind
  <2>1. \A t \in Tasks : pc[t] \in {"waiting", "done", "killed"}
    BY DEF Busy
  <2>2. \A t \in Tasks : \A d : ~HasExport(t, d)
    BY <2>1 DEF HasExport, Exporting
  <2>3. \A t \in Tasks : \A f : ~Held(t, f)
    BY <2>1, <2>2 DEF Held, At
  <2>4. LeftInv
    BY DEF LeftInvariant
  <2>5. \A d \in folders : d[1] # "export"
    BY <2>2, <2>4 DEF LeftInv, ExportsInv
  <2>6. \A f \in vhds : \/ f.dir[1] = "template"
                        \/ \E v \in Ids : f \in vms[v].disks
                        \/ \E t \in Tasks : Ran(t) /\ Kept(t, f)
    BY <2>3, <2>4 DEF LeftInv, LooseInv, Owned, Spared
  <2>7. QED
    BY <2>5, <2>6
<1>4. QED
  BY <1>1, <1>2, <1>3, PTL DEF Spec

=============================================================================
