------------------------------- MODULE VMTasks -------------------------------
(* The handlers for VMs running together on one host, as the job queue starts them. *)
EXTENDS VMEdit

Next ==
  \/ \E t \in Tasks : ProvisionStep(t) \/ ManageStep(t) \/ EditStep(t) \/ Kill(t)
  \/ \E v \in Ids : Switch(v)

Spec == Init /\ [][Next]_vars

-----------------------------------------------------------------------------
(* Terms of the properties *)

Ran(t) == pc[t] # "waiting"
Completed(t) == answer[t] = "completed"
Op(t) == request[t].op

\* The step is one of t.
StepOf(t) == pc'[t] # pc[t] \/ loc'[t] # loc[t]

\* The name a task gives to a VM, and with it to a folder.
Takes(t) ==
  CASE Op(t) \in {"vm_create", "vm_clone"} -> {request[t].name}
    [] Op(t) = "vm_rename"                 -> {request[t].new}
    [] OTHER                               -> {}

\* What the job queue does not know of: tasks with different identifiers may take the same name,
\* and a VM may be deleted by its name while a clone of it still bears that name.
Apart ==
  \A t, u \in Tasks :
    /\ Takes(t) \cap Takes(u) # {} => Ident(request[t]) = Ident(request[u])
    /\ Op(t) = "vm_clone" /\ Op(u) = "vm_delete" => loc[u].name # request[t].source

TypeOK ==
  /\ \A v \in Ids : /\ vms[v].state \in {"Off", "Running", "Paused"}
                    /\ vms[v].dvd \in {"none", "empty", "iso"}
                    /\ vms[v].snaps \in Nat /\ vms[v].nics \in Nat
  /\ made \in Nat /\ Ids \subseteq 1..made
  /\ fixed \subseteq vhds
  /\ answer \in [Tasks -> {"none", "completed", "failed"}]
  /\ \A t \in Tasks : answer[t] = "none" <=> pc[t] = "waiting" \/ Busy(t)
  /\ faults \in 0..MaxFaults /\ acts \in 0..MaxActs

-----------------------------------------------------------------------------
(* Safety *)

\* Every disk of every VM is a file, unless its clone has not succeeded or has logged that it
\* could not convert the disk (handleVMCreate, handleVMClone, handleVMRename, handleVMMove,
\* handleVMEdit: whichever of their scripts fails).
DisksIntact ==
  Apart => \A v \in Ids : \A f \in vms[v].disks :
             \/ f \in vhds
             \/ \E t \in Tasks : /\ Op(t) = "vm_clone" /\ loc[t].vm = v
                                 /\ Completed(t) => f \in loc[t].failed

\* What a request lets stay on disk: a disk it only detaches, the files of a VM it deletes, the
\* disks of a VM that moves within its cluster.
Kept(t, f) ==
  \/ Op(t) = "vm_edit" /\ f \in request[t].remove /\ ~request[t].wipe
  \/ Op(t) = "vm_delete" /\ ~request[t].files /\ f.dir = loc[t].home
  \/ Op(t) = "vm_migrate" /\ site.clustered /\ request[t].to = "up"

\* As long as every script works, no handler, refused or not, leaves a disk file that no VM
\* has attached, or an export of a clone (handleVMCreate, handleVMClone, handleVMDelete,
\* handleVMEdit).
NothingLeftBehind ==
  Apart /\ faults = 0 /\ (\A t \in Tasks : ~Busy(t)) =>
    /\ \A d \in folders : d[1] # "export"
    /\ \A f \in vhds : \/ f.dir[1] = "template"
                       \/ \E v \in Ids : f \in vms[v].disks
                       \/ \E t \in Tasks : Ran(t) /\ Kept(t, f)

\* A VM lives in a folder that is there, nobody's cleanup removes it, and that has the VM's
\* name, but for one that a clone or a rename has not succeeded with, or whose storage job
\* ended a rename without moving it and without failing (handleVMRename, handleVMMove,
\* handleVMCreate, handleVMClone).
LivesUnderItsName ==
  Apart => \A v \in Ids :
             /\ vms[v].home \in folders
             /\ \/ vms[v].home[2] = vms[v].name
                \/ \E t \in Tasks :
                     /\ Ran(t)
                     /\ \/ Op(t) = "vm_clone" /\ loc[t].vm = v /\ ~Completed(t)
                        \/ /\ Op(t) = "vm_rename" /\ request[t].vm = v
                           /\ Completed(t) => v \in loc[t].failed

\* No step of a clone changes its source or the disks of its source, though the VM it imports
\* bears the source's name at first (the scripts of handleVMClone).
SourceUntouched ==
  [][\A t \in Tasks : Op(t) = "vm_clone" /\ StepOf(t) =>
       \A v \in ByName(request[t].source) \ {loc[t].vm} :
         v \in DOMAIN vms' /\ vms'[v] = vms[v] /\ vms[v].disks \cap vhds \subseteq vhds']_vars

\* An edit that answers completed has applied its sections to its VM: every setting but a number
\* of processors that is not positive, which it passes over, the disks to add and to remove, and
\* the adapters. The sizes of disks are not modelled (handleVMEdit).
EditAppliesAll ==
  [][\A t \in Tasks : Op(t) = "vm_edit" /\ answer'[t] = "completed" /\ ~Completed(t) =>
       LET vm == vms[request[t].vm] IN
         /\ Wanted(t) \subseteq vm.settings
         /\ (request[t].add \ request[t].remove) \subseteq vm.disks
         /\ request[t].remove \cap vm.disks = {}
         /\ vm.nics = loc[t].nics + request[t].plug - request[t].unplug]_vars

-----------------------------------------------------------------------------
(* What the repository says and the code does not keep *)

\* Writes are mutually exclusive per VM (LLM.md): a task does not change a VM that another
\* running task was sent for.
WritesExclusivePerVM ==
  [][\A t, u \in Tasks : \A v \in Ids :
       t # u /\ StepOf(t) /\ Busy(u) /\ Op(u) \in ManageOps \cup {"vm_edit"} /\ request[u].vm = v
         => v \in DOMAIN vms' /\ vms'[v] = vms[v]]_vars

\* A disk that cannot be converted is kept (convertExportedTemplateDisksToDynamic,
\* expandClonedDisksToFixed).
ConversionKeepsDisk ==
  [][\A t \in Tasks : loc'[t].failed \subseteq loc[t].failed \cup vhds']_vars
=============================================================================
