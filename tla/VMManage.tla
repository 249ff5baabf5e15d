------------------------------ MODULE VMManage ------------------------------
(* vm_management: the handlers that act on an existing VM. The backend names it by *)
(* id; most handlers look its name up first and go by the name from then on.       *)
EXTENDS VMProvision

Name(t) == loc[t].name

\* Handlers that go by the id do without the name.
ById(t) == request[t].op \in {"snapshot_create", "snapshot_remove", "snapshot_restore", "refresh_status"}

\* The name of the request, or else the one found; the step that follows is the action's.
Resolve(t) ==
  LET Continue(n) ==
        IF n = "" /\ ~ById(t) THEN Fail(t)
                              ELSE GoWith(t, request[t].op, [loc[t] EXCEPT !.name = n])
  IN  /\ At(t, "resolve")
      /\ IF request[t].name # "" THEN Works /\ Continue(request[t].name)
         ELSE IF request[t].vm \notin Ids THEN Works /\ Continue("")
         ELSE \/ Works /\ Continue(vms[request[t].vm].name)
              \/ Breaks("resolve") /\ Continue("")
      /\ UNCHANGED hostVars

\* One script that changes the VMs in S, which must all allow it, and answers.
Script(t, S, Allows(_), Change(_)) ==
  LET possible == S # {} /\ \A v \in S : Allows(vms[v])
  IN  /\ At(t, request[t].op)
      /\ \/ possible /\ Works /\ vms' = Changed(S, Change) /\ Answer(t, "completed")
         \/ /\ IF possible THEN Breaks("script") ELSE Works
            /\ Fail(t) /\ UNCHANGED vms
      /\ UNCHANGED <<made, vhds, fixed, folders>>

Always(vm) == TRUE
ByIdentity(t) == {request[t].vm} \cap Ids

-----------------------------------------------------------------------------
(* Power *)

SetState(t, op, from, to) ==
  /\ request[t].op = op
  /\ Script(t, ByName(Name(t)), LAMBDA vm : vm.state \in from /\ (vm.state = "Off" => Bootable(vm)),
            LAMBDA vm : [vm EXCEPT !.state = to])

Start(t) == SetState(t, "vm_start", {"Off", "Running", "Paused"}, "Running")
Pause(t) == SetState(t, "vm_pause", {"Running", "Paused"}, "Paused")
Resume(t) == SetState(t, "vm_resume", {"Running", "Paused"}, "Running")
Restart(t) == SetState(t, "vm_restart", {"Running"}, "Running")

\* A guest that is asked to shut down need not, within the deadline.
Shutdown(t) == SetState(t, "vm_shutdown", {"Off", "Running"}, "Off")

\* Turning off ignores every error and answers with the state it sees, or with Off.
Stop(t) ==
  /\ At(t, "vm_stop")
  /\ \/ Works /\ vms' = Changed(ByName(Name(t)), LAMBDA vm : [vm EXCEPT !.state = "Off"])
     \/ Breaks("script") /\ UNCHANGED vms
  /\ Answer(t, "completed")
  /\ UNCHANGED <<made, vhds, fixed, folders>>

-----------------------------------------------------------------------------
(* Batches start or stop VMs one by one, each by its id and only under the expected name. *)

ASSUME BatchAssumption ==
  \A r \in Scenarios : \A t \in Tasks : r[t].op = "vm_batch" => r[t].state \in {"Running", "Off"}

\* Targets of a batch: a sequence of [vm, name]; no VM twice.
BatchValid(r) == r.vms # <<>> /\ \A i, j \in DOMAIN r.vms : r.vms[i].vm = r.vms[j].vm => i = j

Handled(t) == loc[t].done \cup loc[t].failed

BatchCheck(t) ==
  /\ At(t, "vm_batch") /\ Works
  /\ IF BatchValid(request[t]) THEN Go(t, "batch.next") ELSE Fail(t)
  /\ UNCHANGED hostVars

BatchVM(t) ==
  LET i == Cardinality(Handled(t)) + 1
      target == request[t].vms[i]
      wanted == request[t].state
      found == target.vm \in Ids /\ vms[target.vm].name = target.name
      possible == found /\ (wanted = "Running" => Bootable(vms[target.vm]))
      Ok == GoWith(t, "batch.next", [loc[t] EXCEPT !.done = @ \cup {target.vm}])
      Failed == GoWith(t, "batch.next", [loc[t] EXCEPT !.failed = @ \cup {target.vm}])
  IN  /\ At(t, "batch.next") /\ i <= Len(request[t].vms)
      /\ \/ /\ possible /\ Works /\ Ok
            /\ vms' = [vms EXCEPT ![target.vm].state = wanted]
         \/ /\ IF possible THEN Breaks("script") ELSE Works
            /\ Failed /\ UNCHANGED vms
         \/ i > 1 /\ Breaks("deadline") /\ Fail(t) /\ UNCHANGED vms
      /\ UNCHANGED <<made, vhds, fixed, folders>>

\* The task is a success whatever the status inside its result.
BatchEnd(t) ==
  /\ At(t, "batch.next") /\ Cardinality(Handled(t)) = Len(request[t].vms)
  /\ Works /\ Answer(t, "completed")
  /\ UNCHANGED hostVars

-----------------------------------------------------------------------------
(* Checkpoints *)

\* Checkpoint-VM, Remove-VMSnapshot and Restore-VMSnapshot; restoring leaves the VM off.
Snapshot(t) ==
  \/ /\ request[t].op = "snapshot_create"
     /\ Script(t, ByIdentity(t), Always, LAMBDA vm : [vm EXCEPT !.snaps = @ + 1])
  \/ /\ request[t].op = "snapshot_remove"
     /\ Script(t, ByIdentity(t), LAMBDA vm : request[t].all \/ vm.snaps > 0,
               LAMBDA vm : [vm EXCEPT !.snaps = IF request[t].all THEN 0 ELSE @ - 1])
  \/ /\ request[t].op = "snapshot_restore"
     /\ Script(t, ByIdentity(t), LAMBDA vm : vm.snaps > 0,
               LAMBDA vm : [vm EXCEPT !.state = "Off"])

-----------------------------------------------------------------------------
(* Settings: notes, start policy, resource metering; refresh changes nothing *)

Policy(t) ==
  LET S == ByName(Name(t))
      Set(vm) == [vm EXCEPT !.settings = @ \cup {request[t].op}]
  IN  /\ request[t].op \in {"notes_edit", "vm_startup_change", "vm_enable_metrics"}
      /\ \/ Script(t, S, Always, Set)
         \/ \* It is set, the status to answer with cannot be read.
            /\ At(t, request[t].op) /\ request[t].op # "vm_enable_metrics"
            /\ S # {} /\ Breaks("status") /\ Fail(t) /\ vms' = Changed(S, Set)
            /\ UNCHANGED <<made, vhds, fixed, folders>>

Unmeter(t) ==
  /\ request[t].op = "vm_disable_metrics"
  /\ Script(t, ByName(Name(t)), Always,
            LAMBDA vm : [vm EXCEPT !.settings = @ \ {"vm_enable_metrics"}])

Refresh(t) ==
  request[t].op = "refresh_status" /\ Script(t, ByIdentity(t), Always, LAMBDA vm : vm)

-----------------------------------------------------------------------------
(* DVD *)

\* Ejecting empties the drive and keeps it.
Eject(t) ==
  /\ request[t].op = "eject_dvd"
  /\ Script(t, ByName(Name(t)), LAMBDA vm : vm.dvd # "none",
            LAMBDA vm : [vm EXCEPT !.dvd = "empty"])

\* A generation 1 VM must be off to get a drive.
Mountable(vm) == vm.dvd = "empty" \/ (vm.dvd = "none" /\ (vm.gen = 1 => vm.state = "Off"))
Inserted(vm) == [vm EXCEPT !.dvd = "iso"]

Mount(t) ==
  LET S == ByName(Name(t))
  IN  /\ request[t].op = "mount_dvd"
      /\ \/ Script(t, S, Mountable, Inserted)
         \/ \* The medium is in, the boot order is not changed.
            /\ At(t, "mount_dvd")
            /\ S # {} /\ \A v \in S : Mountable(vms[v])
            /\ Breaks("boot") /\ Fail(t) /\ vms' = Changed(S, Inserted)
            /\ UNCHANGED <<made, vhds, fixed, folders>>

-----------------------------------------------------------------------------
(* High availability and migration *)

\* Both are idempotent; the cluster goes by id, except for adding the role.
EnableHA(t) ==
  LET already == \E v \in ByIdentity(t) : vms[v].ha
  IN  /\ request[t].op = "enable_ha"
      /\ Script(t, IF already THEN ByIdentity(t) ELSE ByName(Name(t)),
                LAMBDA vm : site.clustered, LAMBDA vm : [vm EXCEPT !.ha = TRUE])

DisableHA(t) ==
  /\ request[t].op = "disable_ha"
  /\ Script(t, ByIdentity(t), LAMBDA vm : site.clustered, LAMBDA vm : [vm EXCEPT !.ha = FALSE])

\* A role of the cluster moves to another node that is up. Any other VM moves live and with
\* its files, from a clustered host only if it is in a domain.
Migratable(t, vm) ==
  LET to == request[t].to
  IN  IF site.clustered /\ to # "stranger"
      THEN to = "up" /\ (vm.ha \/ site.domain)
      ELSE site.clustered => site.domain

WithFiles(t, vm) == ~(site.clustered /\ request[t].to = "up" /\ vm.ha)

Migrate(t) ==
  LET S == ByName(Name(t))
      possible == One(Name(t)) /\ \A v \in S : Migratable(t, vms[v])
      moved == UNION {IF WithFiles(t, vms[v]) THEN vms[v].disks ELSE {} : v \in S}
  IN  /\ At(t, "vm_migrate")
      /\ \/ /\ possible /\ Works
            /\ vms' = Without(S) /\ vhds' = vhds \ moved /\ fixed' = fixed \ moved
            /\ Answer(t, "completed")
         \/ /\ IF possible THEN Breaks("script") ELSE Works
            /\ Fail(t) /\ UNCHANGED <<vms, vhds, fixed>>
      /\ UNCHANGED <<made, folders>>

-----------------------------------------------------------------------------
(* vm_rename and vm_move. Hyper-V moves the storage of a VM as a whole or not at all. *)

Renames(t) == request[t].op = "vm_rename"

\* A renamed VM stays on its volume, a moved one goes to the volume asked for.
Destination(t, vm) ==
  IF Renames(t) THEN Folder(vm.home[1], request[t].new) ELSE Folder(request[t].to, vm.name)

\* The VM is found by its name or else by its id.
Found(t) == IF ByName(Name(t)) # {} THEN ByName(Name(t)) ELSE ByIdentity(t)

\* Only a rename wants the VM off. The destination is looked for and not made.
RelocateCheck(t) ==
  LET v == CHOOSE x \in Found(t) : TRUE
      dest == Destination(t, vms[v])
      ready == /\ Cardinality(Found(t)) = 1 /\ dest \notin folders
               /\ Renames(t) => vms[v].state = "Off"
  IN  /\ At(t, "vm_rename") \/ At(t, "vm_move")
      /\ Works
      /\ IF ready
         THEN GoWith(t, IF Renames(t) THEN "rename" ELSE "move",
                     [loc[t] EXCEPT !.home = vms[v].home, !.dest = dest])
         ELSE Fail(t)
      /\ UNCHANGED hostVars

Rename(t) ==
  /\ At(t, "rename")
  /\ \/ /\ ByName(Name(t)) # {} /\ Works
        /\ vms' = Changed(ByName(Name(t)), LAMBDA vm : [vm EXCEPT !.name = request[t].new])
        /\ Go(t, "move")
     \/ /\ IF ByName(Name(t)) # {} THEN Breaks("script") ELSE Works
        /\ Fail(t) /\ UNCHANGED vms
  /\ UNCHANGED <<made, vhds, fixed, folders>>

\* Move-VMStorage; after a failure its new folder may be there, without files.
Relocated(f, dir) == [f EXCEPT !.dir = dir]

\* A moved role of the cluster is found by its id.
Moving(t) ==
  IF Renames(t) THEN ByName(request[t].new)
  ELSE IF site.clustered /\ \E v \in ByIdentity(t) : vms[v].ha THEN ByIdentity(t)
  ELSE ByName(Name(t))

\* Afterwards a move looks, by the name, whether the VM is where it should be. A rename takes
\* every end of the storage job but a failure for success; that it did not move is only kept as
\* a history, in loc.failed.
MoveStorage(t) ==
  LET dest == loc[t].dest
      v == CHOOSE x \in Moving(t) : TRUE
      disks == vms[v].disks
      possible == Cardinality(Moving(t)) = 1 /\ disks \subseteq vhds
      In(S) == (S \ disks) \cup {Relocated(f, dest) : f \in S \cap disks}
      seen == Renames(t) \/ ByName(Name(t)) = {v}
      Unsuccessful == GoWith(t, "clean", [loc[t] EXCEPT !.home = dest, !.ok = FALSE])
  IN  /\ At(t, "move")
      /\ \/ /\ possible /\ Works
            /\ vms' = [vms EXCEPT ![v].home = dest, ![v].disks = {Relocated(f, dest) : f \in @}]
            /\ vhds' = In(vhds) /\ fixed' = In(fixed) /\ folders' = folders \cup {dest}
            /\ IF seen THEN Go(t, "clean") ELSE Unsuccessful
         \/ /\ IF possible THEN Breaks("move") ELSE Works
            /\ folders' \in {folders, folders \cup {dest}}
            /\ Unsuccessful
            /\ UNCHANGED <<vms, vhds, fixed>>
         \/ /\ possible /\ Renames(t) /\ Breaks("move")
            /\ folders' \in {folders, folders \cup {dest}}
            /\ GoWith(t, "clean", [loc[t] EXCEPT !.failed = {v}])
            /\ UNCHANGED <<vms, vhds, fixed>>
      /\ UNCHANGED made

\* cleanupEmptyDir: look for files in the whole folder, the old one or after a failure the new
\* one, then remove it with all that is in it by then.
HasFiles(dir) == FilesIn(dir) # {} \/ \E v \in Ids : vms[v].home = dir

\* Mutant: a storage move that failed is answered as completed, too.
VerdictUnseen(t) == Answer(t, "completed")
Verdict(t) == Answer(t, IF loc[t].ok THEN "completed" ELSE "failed")

CleanLook(t) ==
  /\ At(t, "clean") /\ Works
  /\ IF loc[t].home \in folders /\ ~HasFiles(loc[t].home) THEN Go(t, "clean.remove") ELSE Verdict(t)
  /\ UNCHANGED hostVars

CleanRemove(t) ==
  LET dir == loc[t].home
      doomed == {f \in FilesIn(dir) : ~InUse(f)}
  IN  /\ At(t, "clean.remove")
      /\ \/ /\ Works
            /\ vhds' = vhds \ doomed /\ fixed' = fixed \ doomed
            /\ folders' = IF doomed = FilesIn(dir) THEN folders \ {dir} ELSE folders
         \/ Breaks("cleanup") /\ UNCHANGED <<folders, vhds, fixed>>
      /\ Verdict(t)
      /\ UNCHANGED <<vms, made>>

-----------------------------------------------------------------------------
(* vm_export_template *)

Template(t) == Folder("template", request[t].template)

ExportCheck(t) ==
  LET ready == /\ ByName(Name(t)) # {} /\ \A v \in ByName(Name(t)) : vms[v].state = "Off"
               /\ Template(t) \notin folders
  IN  /\ At(t, "vm_export_template")
      /\ IF ready THEN Space(t, "export") ELSE Works /\ Fail(t) /\ UNCHANGED hostVars

\* Export-VM makes a folder of the VM's name, which then gets the template's. Checkpoints in
\* the export prevent the conversion.
Export(t) ==
  LET raw == Folder("template", Name(t))
      v == The(Name(t))
      disks == vms[v].disks
      possible == One(Name(t)) /\ raw \notin folders /\ disks \subseteq vhds
      todo == IF vms[v].snaps = 0 THEN {Copy(f, Template(t)) : f \in disks} ELSE {}
  IN  /\ At(t, "export")
      /\ \/ /\ possible /\ Template(t) \notin folders /\ Works
            /\ folders' = folders \cup {Template(t)} /\ CopyAll(disks, Template(t))
            /\ GoWith(t, "convert", [loc[t] EXCEPT !.disks = todo])
         \/ /\ possible /\ Breaks("export") /\ Fail(t)
            /\ folders' = folders \cup {raw} /\ CopySome(disks, raw)
         \/ /\ possible /\ raw # Template(t) /\ Template(t) \in folders /\ Works /\ Fail(t)
            /\ folders' = folders \cup {raw} /\ CopyAll(disks, raw)
         \/ ~possible /\ Works /\ Fail(t) /\ UNCHANGED <<vhds, fixed, folders>>
      /\ UNCHANGED <<vms, made>>

\* Details and metadata only warn.
ExportMetadata(t) ==
  At(t, "export.metadata") /\ Works /\ Answer(t, "completed") /\ UNCHANGED hostVars

-----------------------------------------------------------------------------
ManageOps == {"vm_start", "vm_stop", "vm_shutdown", "vm_restart", "vm_pause", "vm_resume",
              "vm_delete", "eject_dvd", "mount_dvd", "enable_ha", "disable_ha", "vm_migrate",
              "snapshot_create", "snapshot_remove", "snapshot_restore", "refresh_status",
              "notes_edit", "vm_export_template", "vm_rename", "vm_move", "vm_startup_change",
              "vm_enable_metrics", "vm_disable_metrics"}

ManageStep(t) ==
  \/ request[t].op \in ManageOps /\ Begin(t, "resolve")
  \/ request[t].op = "vm_batch" /\ Begin(t, "vm_batch")
  \/ Resolve(t)
  \/ Start(t) \/ Pause(t) \/ Resume(t) \/ Restart(t) \/ Shutdown(t) \/ Stop(t)
  \/ BatchCheck(t) \/ BatchVM(t) \/ BatchEnd(t)
  \/ Snapshot(t) \/ Policy(t) \/ Unmeter(t) \/ Refresh(t) \/ Eject(t) \/ Mount(t)
  \/ EnableHA(t) \/ DisableHA(t) \/ Migrate(t)
  \/ RelocateCheck(t) \/ Rename(t) \/ MoveStorage(t) \/ CleanLook(t) \/ CleanRemove(t)
  \/ ExportCheck(t) \/ Export(t) \/ ExportMetadata(t)
=============================================================================
