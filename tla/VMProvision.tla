----------------------------- MODULE VMProvision -----------------------------
(* Making and removing VMs: handleVMCreate, handleVMClone with its expansion of   *)
(* disks, and handleVMDelete. None of them undoes what it did before a failure.   *)
EXTENDS VMHost

\* Registers a new VM.
Registered(vm) ==
  /\ made' = made + 1
  /\ vms' = [v \in Ids \cup {made + 1} |-> IF v = made + 1 THEN vm ELSE vms[v]]

Space(t, next) ==
  \/ Works /\ Go(t, next) /\ UNCHANGED hostVars
  \/ Breaks("space") /\ Fail(t) /\ UNCHANGED hostVars

-----------------------------------------------------------------------------
(* vm_create. Every disk a request names is a file of the VM's own folder. *)

Target(t) == Folder("vms", request[t].name)
DiskFiles(t) == {File(Target(t), n, "own") : n \in 1..request[t].disks}
OSDisk(t) == File(Target(t), 1, "own")

\* A request lists its disks.
ASSUME CreateAssumption ==
  \A r \in Scenarios : \A t \in Tasks : r[t].op = "vm_create" => r[t].disks \in Nat

CreateSpace(t) == At(t, "create.space") /\ Space(t, "create.check")

\* The name and the folder are free: make the folder.
Taken(t) == ByName(request[t].name) # {} \/ Target(t) \in folders

CreateCheck(t) ==
  /\ At(t, "create.check")
  /\ \/ Taken(t) /\ Works /\ Fail(t) /\ UNCHANGED folders
     \/ ~Taken(t) /\ folders' = folders \cup {Target(t)} /\ Works /\ Go(t, "create.disk")
     \/ ~Taken(t) /\ folders' = folders \cup {Target(t)} /\ Breaks("folder") /\ Fail(t)
  /\ UNCHANGED <<vms, made, vhds, fixed>>

\* New-VHD, disk by disk in order; it does not overwrite.
CreateDisk(t) ==
  LET missing == DiskFiles(t) \ loc[t].done
  IN  /\ At(t, "create.disk")
      /\ \E f \in missing :
           /\ \A e \in missing : f.n <= e.n
           /\ \/ /\ f \notin vhds /\ Works
                 /\ vhds' = vhds \cup {f}
                 /\ fixed' = IF request[t].fixed THEN fixed \cup {f} ELSE fixed
                 /\ GoWith(t, "create.disk", [loc[t] EXCEPT !.done = @ \cup {f}])
              \/ /\ IF f \in vhds THEN Works ELSE Breaks("disk")
                 /\ Fail(t) /\ UNCHANGED <<vhds, fixed>>
      /\ UNCHANGED <<vms, made, folders>>

\* New-VM with the first disk, then processors, memory and paths; a failure of these leaves
\* the VM.
CreateVM(t) ==
  /\ At(t, "create.disk") /\ DiskFiles(t) \subseteq loc[t].done
  /\ \/ /\ OSDisk(t) \in vhds
        /\ Registered(NewVM(request[t].name, Target(t), {OSDisk(t)}))
        /\ \/ Works /\ Go(t, "create.attach")
           \/ Breaks("configure") /\ Fail(t)
     \/ /\ IF OSDisk(t) \in vhds THEN Breaks("vm") ELSE Works
        /\ Fail(t) /\ UNCHANGED <<vms, made>>
  /\ UNCHANGED <<vhds, fixed, folders>>

\* Add-VMHardDiskDrive for the other disks.
CreateAttach(t) ==
  LET name == request[t].name
      attached == UNION {vms[v].disks : v \in ByName(name)}
      missing == DiskFiles(t) \ attached
      possible == One(name) /\ missing \subseteq vhds
  IN  /\ At(t, "create.attach")
      /\ IF missing = {}
         THEN Works /\ Go(t, "set") /\ UNCHANGED vms
         ELSE \/ /\ possible /\ Works
                 /\ \E f \in missing : vms' = [vms EXCEPT ![The(name)].disks = @ \cup {f}]
                 /\ Go(t, "create.attach")
              \/ /\ IF possible THEN Breaks("attach") ELSE Works
                 /\ Fail(t) /\ UNCHANGED vms
      /\ UNCHANGED <<made, vhds, fixed, folders>>

-----------------------------------------------------------------------------
(* vm_create and vm_clone end alike: optional settings and the start only warn. *)

Settle(t) ==
  LET Apply(S) == vms' = Changed(ByName(request[t].name), LAMBDA vm : [vm EXCEPT !.settings = S])
  IN  /\ At(t, "set")
      /\ \/ Works /\ Apply(request[t].settings)
         \/ Breaks("setting") /\ \E s \in request[t].settings : Apply(request[t].settings \ {s})
      /\ Go(t, "id")
      /\ UNCHANGED <<made, vhds, fixed, folders>>

\* vm_create then asks for the id of its VM, by its name; vm_clone has it already.
FindId(t) ==
  LET known == request[t].op = "vm_create" => ByName(request[t].name) # {}
  IN  /\ At(t, "id")
      /\ \/ known /\ Works /\ Go(t, "start")
         \/ /\ request[t].op = "vm_create"
            /\ IF known THEN Breaks("id") ELSE Works
            /\ Fail(t)
      /\ UNCHANGED hostVars

PowerOn(t) ==
  LET started == IF request[t].start THEN {v \in ByName(request[t].name) : Bootable(vms[v])} ELSE {}
  IN  /\ At(t, "start")
      /\ \/ Works /\ vms' = Changed(started, LAMBDA vm : [vm EXCEPT !.state = "Running"])
         \/ request[t].start /\ Breaks("start") /\ UNCHANGED vms
      /\ Answer(t, "completed")
      /\ UNCHANGED <<made, vhds, fixed, folders>>

-----------------------------------------------------------------------------
(* vm_clone, of a VM ("imported", through an export made for it) or of a template *)

Imported(t) == request[t].type = "imported"
Source(t) == request[t].source
Exported(t) == Folder(IF Imported(t) THEN "export" ELSE "template", Source(t))

\* The sizes of the source's disks; a template that is not there has none.
CloneSpace(t) ==
  /\ At(t, "clone.space")
  /\ IF Imported(t) /\ ByName(Source(t)) = {}
     THEN Works /\ Fail(t) /\ UNCHANGED hostVars
     ELSE Space(t, "clone.check")

\* Nothing is made here, the name and the folder stay free for others.
CloneCheck(t) ==
  /\ At(t, "clone.check") /\ Works
  /\ IF Taken(t) THEN Fail(t) ELSE Go(t, IF Imported(t) THEN "clone.source" ELSE "clone.import")
  /\ UNCHANGED hostVars

CloneSource(t) ==
  LET ready == ByName(Source(t)) # {} /\
               \A v \in ByName(Source(t)) : vms[v].state = "Off" /\ vms[v].snaps = 0
  IN  /\ At(t, "clone.source") /\ Works
      /\ IF ready THEN Go(t, "clone.export") ELSE Fail(t)
      /\ UNCHANGED hostVars

\* The disks of a folder, without the copies of an unfinished conversion.
DisksIn(dir) == {f \in FilesIn(dir) : f.as # "conv"}

\* Copied disks keep their format.
CopyAll(S, dir) ==
  /\ vhds' = vhds \cup {Copy(f, dir) : f \in S}
  /\ fixed' = fixed \cup {Copy(f, dir) : f \in S \cap fixed}

CopySome(S, dir) == \E some \in SUBSET S : CopyAll(some, dir)

\* Export-VM does not write into a folder that is there; what a failed export has written stays.
CloneExport(t) ==
  /\ At(t, "clone.export")
  /\ IF ~One(Source(t)) \/ Exported(t) \in folders
     THEN Works /\ Fail(t) /\ UNCHANGED <<vhds, fixed, folders>>
     ELSE /\ folders' = folders \cup {Exported(t)}
          /\ \/ /\ Works /\ Go(t, "clone.import")
                /\ CopyAll(vms[The(Source(t))].disks, Exported(t))
             \/ /\ Breaks("export") /\ Fail(t)
                /\ CopySome(vms[The(Source(t))].disks, Exported(t))
  /\ UNCHANGED <<vms, made>>

\* Import-VM -Copy: the VM is registered under the source's name, its disks are copied under
\* their old names.
CloneImport(t) ==
  /\ At(t, "clone.import")
  /\ folders' = folders \cup {Target(t)}
  /\ LET found == DisksIn(Exported(t))
         copies == {Copy(f, Target(t)) : f \in found}
         possible == Exported(t) \in folders /\ copies \cap vhds = {}
     IN  \/ /\ possible /\ Works
            /\ CopyAll(found, Target(t))
            /\ Registered(NewVM(Source(t), Target(t), copies))
            /\ GoWith(t, "clone.name", [loc[t] EXCEPT !.vm = made'])
         \/ /\ possible /\ Breaks("import")
            /\ CopySome(found, Target(t))
            /\ Go(t, "clone.undo") /\ UNCHANGED <<vms, made>>
         \/ /\ ~possible /\ Works
            /\ Go(t, "clone.undo") /\ UNCHANGED <<vms, made, vhds, fixed>>

\* The VM this clone has imported. Once it has its name it is looked up by it.
Clone(t) == loc[t].vm
Named(t) == ByName(request[t].name)

\* Mutant: the clone is renamed by the name it was imported under.
CloneNameByName(t) ==
  /\ At(t, "clone.name") /\ Works
  /\ vms' = Changed(ByName(Source(t)), LAMBDA vm : [vm EXCEPT !.name = request[t].name])
  /\ Go(t, "clone.disk")
  /\ UNCHANGED <<made, vhds, fixed, folders>>

CloneName(t) ==
  /\ At(t, "clone.name")
  /\ \/ /\ Clone(t) \in Ids /\ Works
        /\ vms' = [vms EXCEPT ![Clone(t)].name = request[t].name] /\ Go(t, "clone.disk")
     \/ /\ IF Clone(t) \in Ids THEN Breaks("rename") ELSE Works
        /\ Go(t, "clone.undo") /\ UNCHANGED vms
  /\ UNCHANGED <<made, vhds, fixed, folders>>

\* Every disk file gets the new name, then the drive is pointed at it.
Misnamed(t) == {f \in UNION {vms[v].disks : v \in Named(t)} : f.as = "copy" /\ f \in vhds}
Renamed(f) == [f EXCEPT !.as = "own"]

CloneDisk(t) ==
  /\ At(t, "clone.disk")
  /\ IF Misnamed(t) = {}
     THEN Works /\ Go(t, "clone.tidy") /\ UNCHANGED <<vhds, fixed>>
     ELSE \E f \in Misnamed(t) :
            \/ /\ Renamed(f) \notin vhds /\ Works
               /\ vhds' = Replace(vhds, f, Renamed(f)) /\ fixed' = Replace(fixed, f, Renamed(f))
               /\ GoWith(t, "clone.point", [loc[t] EXCEPT !.disks = {f}])
            \/ /\ IF Renamed(f) \notin vhds THEN Breaks("rename") ELSE Works
               /\ Go(t, "clone.undo") /\ UNCHANGED <<vhds, fixed>>
  /\ UNCHANGED <<vms, made, folders>>

\* Mutant: that a drive cannot be pointed at its disk goes unnoticed.
ClonePointSilently(t) ==
  /\ At(t, "clone.point")
  /\ \/ /\ Works
        /\ vms' = Changed(Named(t), LAMBDA vm : [vm EXCEPT !.disks =
                     {IF f \in loc[t].disks THEN Renamed(f) ELSE f : f \in @}])
        /\ Go(t, "clone.disk")
     \/ Breaks("attach") /\ Go(t, "clone.disk") /\ UNCHANGED vms
  /\ UNCHANGED <<made, vhds, fixed, folders>>

ClonePoint(t) ==
  /\ At(t, "clone.point")
  /\ \/ /\ Works
        /\ vms' = Changed(Named(t), LAMBDA vm : [vm EXCEPT !.disks =
                     {IF f \in loc[t].disks THEN Renamed(f) ELSE f : f \in @}])
        /\ Go(t, "clone.disk")
     \/ Breaks("attach") /\ Go(t, "clone.undo") /\ UNCHANGED vms
  /\ UNCHANGED <<made, vhds, fixed, folders>>

\* Mutant: the export is not removed.
RemoveExportNever(t) == Works /\ UNCHANGED <<folders, vhds, fixed>>

\* After a failed import and after a good one, the export made for it is removed, if possible.
RemoveExport(t) ==
  IF Imported(t)
  THEN \/ /\ Works
          /\ folders' = folders \ {Exported(t)}
          /\ vhds' = vhds \ FilesIn(Exported(t)) /\ fixed' = fixed \ FilesIn(Exported(t))
       \/ Breaks("cleanup") /\ UNCHANGED <<folders, vhds, fixed>>
  ELSE Works /\ UNCHANGED <<folders, vhds, fixed>>

CloneUndo(t) ==
  At(t, "clone.undo") /\ RemoveExport(t) /\ Fail(t) /\ UNCHANGED <<vms, made>>

CloneTidy(t) ==
  /\ At(t, "clone.tidy") /\ RemoveExport(t)
  /\ GoWith(t, IF ~Imported(t) /\ request[t].expand THEN "convert" ELSE "set",
            [loc[t] EXCEPT !.disks = UNION {vms[v].disks : v \in Named(t)}])
  /\ UNCHANGED <<vms, made>>

-----------------------------------------------------------------------------
(* Converting disks one by one, to Fixed after a clone or to Dynamic after an export: write  *)
(* a converted copy, remove the disk, give the copy its name. A failure is only logged       *)
(* (loc.failed), and the script then removes the copy.                                       *)

\* The disks in loc.disks that do not have the wanted format.
ToConvert(t) ==
  IF request[t].op = "vm_clone" THEN loc[t].disks \ fixed ELSE loc[t].disks \cap fixed

After(t) == IF request[t].op = "vm_clone" THEN "set" ELSE "export.metadata"
NextDisk(t) == [loc[t] EXCEPT !.disks = @ \ loc[t].done, !.done = {}]
Logged(t) == [NextDisk(t) EXCEPT !.failed = @ \cup loc[t].done]

\* Convert-VHD, or a skip or a failure that keeps the disk as it is.
ConvertDisk(t) ==
  /\ At(t, "convert")
  /\ IF ToConvert(t) = {}
     THEN Works /\ Go(t, After(t)) /\ UNCHANGED <<vhds, fixed>>
     ELSE \E f \in ToConvert(t) :
            \/ /\ f \in vhds /\ ~InUse(f) /\ Works
               /\ vhds' = vhds \cup {Converted(f)}
               /\ fixed' = IF f \in fixed THEN fixed \ {Converted(f)} ELSE fixed \cup {Converted(f)}
               /\ GoWith(t, "convert.remove", [loc[t] EXCEPT !.done = {f}])
            \/ /\ IF f \in vhds /\ ~InUse(f) THEN Breaks("convert") ELSE Works
               /\ GoWith(t, "convert", [loc[t] EXCEPT !.disks = @ \ {f}, !.failed = @ \cup {f}])
               /\ UNCHANGED <<vhds, fixed>>
  /\ UNCHANGED <<vms, made, folders>>

\* What the catch block removes: the copy, whatever has happened to the disk.
Leftover(f) == {Converted(f)}

ConvertRemove(t) ==
  LET f == CHOOSE d \in loc[t].done : TRUE
  IN  /\ At(t, "convert.remove")
      /\ \/ /\ ~InUse(f) /\ Works
            /\ vhds' = vhds \ {f} /\ fixed' = fixed \ {f}
            /\ Go(t, "convert.rename")
         \/ /\ IF InUse(f) THEN Works ELSE Breaks("remove")
            /\ vhds' = vhds \ Leftover(f) /\ fixed' = fixed \ Leftover(f)
            /\ GoWith(t, "convert", Logged(t))
      /\ UNCHANGED <<vms, made, folders>>

ConvertRename(t) ==
  LET f == CHOOSE d \in loc[t].done : TRUE
      c == Converted(f)
  IN  /\ At(t, "convert.rename")
      /\ \/ /\ Works
            /\ vhds' = Replace(vhds, c, f) /\ fixed' = Replace(fixed, c, f)
            /\ GoWith(t, "convert", NextDisk(t))
         \/ /\ Breaks("swap")
            /\ vhds' = vhds \ Leftover(f) /\ fixed' = fixed \ Leftover(f)
            /\ GoWith(t, "convert", Logged(t))
      /\ UNCHANGED <<vms, made, folders>>

-----------------------------------------------------------------------------
(* vm_delete *)

\* The VM is there, alone with its name, and off; its folder and disks are noted. That its
\* disks cannot be listed only warns.
DeleteCheck(t) ==
  LET vm == vms[The(loc[t].name)]
      Noted(D) == [loc[t] EXCEPT !.home = vm.home, !.disks = D]
  IN  /\ At(t, "vm_delete")
      /\ IF One(loc[t].name) /\ vm.state = "Off"
         THEN \/ Works /\ GoWith(t, "delete.role", Noted(IF request[t].files THEN vm.disks ELSE {}))
              \/ request[t].files /\ Breaks("list") /\ GoWith(t, "delete.role", Noted({}))
         ELSE Works /\ Fail(t)
      /\ UNCHANGED hostVars

\* In a cluster the role of the VM goes first, found by the VM's id; that it cannot be removed is
\* ignored, and it is not made again when the VM then stays.
DeleteRole(t) ==
  /\ At(t, "delete.role")
  /\ \/ Works /\ vms' = Changed(IF site.clustered THEN {request[t].vm} ELSE {},
                               LAMBDA vm : [vm EXCEPT !.ha = FALSE])
     \/ site.clustered /\ Breaks("role") /\ UNCHANGED vms
  /\ Go(t, "delete.vm")
  /\ UNCHANGED <<made, vhds, fixed, folders>>

\* Remove-VM for every VM of that name; it refuses one that runs, after others are gone.
DeleteVM(t) ==
  LET S == ByName(loc[t].name)
      removable == S # {} /\ \A v \in S : vms[v].state = "Off"
  IN  /\ At(t, "delete.vm")
      /\ \/ /\ removable /\ Works
            /\ vms' = Without(S)
            /\ IF request[t].files THEN Go(t, "delete.files") ELSE Answer(t, "completed")
         \/ /\ removable /\ Breaks("vm")
            /\ Fail(t) /\ UNCHANGED vms
         \/ /\ ~removable /\ Works
            /\ \E some \in SUBSET {v \in S : vms[v].state = "Off"} : vms' = Without(some)
            /\ Fail(t)
      /\ UNCHANGED <<made, vhds, fixed, folders>>

\* The folder with all in it and the disks elsewhere; a failure leaves some and only warns.
DeleteFiles(t) ==
  LET doomed == FilesIn(loc[t].home) \cup loc[t].disks
  IN  /\ At(t, "delete.files")
      /\ \/ /\ Works
            /\ folders' = folders \ {loc[t].home}
            /\ vhds' = vhds \ doomed /\ fixed' = fixed \ doomed
         \/ /\ Breaks("remove")
            /\ \E some \in SUBSET (doomed \cap vhds) : vhds' = vhds \ some /\ fixed' = fixed \ some
            /\ UNCHANGED folders
      /\ Answer(t, "completed")
      /\ UNCHANGED <<vms, made>>

-----------------------------------------------------------------------------
ProvisionStep(t) ==
  \/ request[t].op = "vm_create" /\ Begin(t, "create.space")
  \/ request[t].op = "vm_clone" /\ Begin(t, "clone.space")
  \/ CreateSpace(t) \/ CreateCheck(t) \/ CreateDisk(t) \/ CreateVM(t) \/ CreateAttach(t)
  \/ Settle(t) \/ FindId(t) \/ PowerOn(t)
  \/ CloneSpace(t) \/ CloneCheck(t) \/ CloneSource(t) \/ CloneExport(t) \/ CloneImport(t)
  \/ CloneName(t) \/ CloneDisk(t) \/ ClonePoint(t) \/ CloneUndo(t) \/ CloneTidy(t)
  \/ ConvertDisk(t) \/ ConvertRemove(t) \/ ConvertRename(t)
  \/ DeleteCheck(t) \/ DeleteRole(t) \/ DeleteVM(t) \/ DeleteFiles(t)
=============================================================================
