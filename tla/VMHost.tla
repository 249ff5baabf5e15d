------------------------------- MODULE VMHost -------------------------------
(* The Hyper-V host as the task handlers of internal/tasks see it, and the frame *)
(* every handler runs in: a worker that goes through PowerShell scripts one after *)
(* the other, any of which may fail, and that may be killed between two of them.  *)
(* Handlers address VMs by name; the job queue keeps two tasks with the same VM   *)
(* identifier apart (JobQueue, ExclusionKept) and lets all others run together.   *)
EXTENDS Integers, FiniteSets, Sequences, TLC

CONSTANTS
  Tasks,        \* tasks the backend sends
  Scenarios,    \* what it may ask for: a set of functions from Tasks to requests
  Hosts,        \* what the host may look like before: a set of records [vms, vhds, fixed, folders,
                \* site], where site is [clustered, domain]: a node of a cluster, joined to a domain
  Breakable,    \* the kinds of calls that may fail
  MaxFaults,    \* bound on failing calls and killed workers
  MaxActs       \* bound on what an administrator does with Hyper-V's own tools

ASSUME BoundAssumption == MaxFaults \in Nat /\ MaxActs \in Nat

\* A host's VMs are numbered and have all the fields of one; a fixed disk is a disk.
VMFields == {"name", "home", "state", "disks", "settings", "gen", "snaps", "nics", "dvd", "ha"}

ASSUME HostAssumption ==
  \A h \in Hosts :
    /\ Cardinality(DOMAIN h.vms) \in Nat /\ DOMAIN h.vms = 1..Cardinality(DOMAIN h.vms)
    /\ \A v \in DOMAIN h.vms :
         /\ DOMAIN h.vms[v] = VMFields
         /\ h.vms[v].state \in {"Off", "Running", "Paused"}
         /\ h.vms[v].dvd \in {"none", "empty", "iso"}
         /\ h.vms[v].snaps \in Nat /\ h.vms[v].nics \in Nat
    /\ h.fixed \subseteq h.vhds

VARIABLES
  request,   \* what each task asks for
  pc,        \* step of its handler: "waiting", "done", "killed", or the script it runs next
  loc,       \* what the handler remembers
  answer,    \* status of its response
  vms,       \* the registered VMs: a function from their ids
  made,      \* ids given out so far
  vhds,      \* disk files
  fixed,     \* those that are not dynamically expanding
  folders,   \* folders of VMs, templates and exports
  site,      \* what the host belongs to, never changed
  faults, acts

hostVars == <<vms, made, vhds, fixed, folders>>
taskVars == <<request, pc, loc, answer>>
vars == <<taskVars, hostVars, site, faults, acts>>

-----------------------------------------------------------------------------
(* Folders and files *)

\* A folder is where something lives and its name: <<"vms", n>> of VM n, <<"other", n>> of VM n
\* on another volume, <<"export", n>> its export, <<"template", n>> a template.
Folder(root, name) == <<root, name>>

\* A disk file: its folder, its number, and its name, which starts with the VM's ("own"), with
\* the name the VM had before ("copy") or with _ovc_conv_ ("conv").
File(dir, n, as) == [dir |-> dir, n |-> n, as |-> as]

FilesIn(dir) == {f \in vhds : f.dir = dir}
Copy(f, dir) == File(dir, f.n, "copy")
Converted(f) == [f EXCEPT !.as = "conv"]

Replace(S, f, g) == IF f \in S THEN (S \ {f}) \cup {g} ELSE S

-----------------------------------------------------------------------------
(* VMs *)

NewVM(name, home, disks) ==
  [name |-> name, home |-> home, state |-> "Off", disks |-> disks, settings |-> {},
   gen |-> 2, snaps |-> 0, nics |-> 1, dvd |-> "none", ha |-> FALSE]

Ids == DOMAIN vms

\* Get-VM -Name
ByName(name) == {v \in Ids : vms[v].name = name}

\* A command for exactly one VM finds exactly one.
One(name) == Cardinality(ByName(name)) = 1
The(name) == CHOOSE v \in Ids : vms[v].name = name

\* A VM needs its disks to start, and then holds them.
Bootable(vm) == vm.disks \subseteq vhds
InUse(f) == \E v \in Ids : vms[v].state # "Off" /\ f \in vms[v].disks

\* A command by name reaches every VM of that name.
Changed(S, Change(_)) == [v \in Ids |-> IF v \in S THEN Change(vms[v]) ELSE vms[v]]
Without(S) == [v \in Ids \ S |-> vms[v]]

-----------------------------------------------------------------------------
(* Tasks *)

\* extractVMIdentifier: what the job queue keeps apart. vm_clone's parameter has another name
\* than the one that is read, batches have none.
Ident(r) ==
  CASE r.op = "vm_create"             -> r.name
    [] r.op \in {"vm_clone", "vm_batch"} -> ""
    [] OTHER                          -> ToString(r.vm)

Busy(t) == pc[t] \notin {"waiting", "done", "killed"}
At(t, step) == pc[t] = step
NoLocals ==
  [vm |-> 0, name |-> "", home |-> <<>>, dest |-> <<>>, disks |-> {}, done |-> {}, failed |-> {},
   ok |-> TRUE, nics |-> 0]

\* Every step of a handler ends in one of these; none sees to what is outside.
Outside == <<request, site, acts>>
GoWith(t, step, l) ==
  pc' = [pc EXCEPT ![t] = step] /\ loc' = [loc EXCEPT ![t] = l] /\ UNCHANGED <<answer, Outside>>
Go(t, step) == GoWith(t, step, loc[t])
Answer(t, status) ==
  /\ pc' = [pc EXCEPT ![t] = "done"]
  /\ answer' = [answer EXCEPT ![t] = status]
  /\ UNCHANGED <<loc, Outside>>
Fail(t) == Answer(t, "failed")

\* A call of this kind works, or breaks.
Works == UNCHANGED faults
Breaks(call) == call \in Breakable /\ faults < MaxFaults /\ faults' = faults + 1

Init ==
  /\ request \in Scenarios
  /\ pc = [t \in Tasks |-> "waiting"]
  /\ loc = [t \in Tasks |-> NoLocals]
  /\ answer = [t \in Tasks |-> "none"]
  /\ \E h \in Hosts :
       /\ vms = h.vms /\ vhds = h.vhds /\ fixed = h.fixed /\ folders = h.folders
       /\ made = Cardinality(DOMAIN h.vms) /\ site = h.site
  /\ faults = 0 /\ acts = 0

\* The job queue starts a worker.
Begin(t, step) ==
  /\ At(t, "waiting")
  /\ \A u \in Tasks \ {t} : Busy(u) => Ident(request[u]) # Ident(request[t])
  /\ Go(t, step)
  /\ Works /\ UNCHANGED hostVars

\* Mutant: nobody answers for a dead worker.
KillUnanswered(t) ==
  /\ Busy(t) /\ faults < MaxFaults
  /\ faults' = faults + 1
  /\ pc' = [pc EXCEPT ![t] = "killed"]
  /\ UNCHANGED <<answer, loc, hostVars, Outside>>

\* The worker dies or is killed at its deadline; the service answers for it.
Kill(t) ==
  /\ Busy(t) /\ faults < MaxFaults
  /\ faults' = faults + 1
  /\ pc' = [pc EXCEPT ![t] = "killed"]
  /\ answer' = [answer EXCEPT ![t] = "failed"]
  /\ UNCHANGED <<loc, hostVars, Outside>>

\* An administrator switches a VM on or off.
Switch(v) ==
  /\ v \in Ids /\ acts < MaxActs /\ acts' = acts + 1
  /\ vms' = [vms EXCEPT ![v].state = IF @ = "Off" THEN "Running" ELSE "Off"]
  /\ UNCHANGED <<taskVars, made, vhds, fixed, folders, site, faults>>
=============================================================================
