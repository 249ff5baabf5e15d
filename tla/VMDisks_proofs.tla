---------------------------- MODULE VMDisks_proofs ----------------------------
(* Theorems about VMTasks that relate the disks, folders and names of all VMs of a host: no  *)
(* VM loses a disk, VMs live under their names, and a clone leaves its source alone. They    *)
(* hold for every host that is tidy at first, every set of tasks and any number of failures, *)
(* as long as tasks that make, remove, move, export or edit VMs together work on different   *)
(* VMs, folders and disks.                                                                   *)
EXTENDS VMTasks_proofs, FiniteSetTheorems

-----------------------------------------------------------------------------
(* What is supposed *)

IsFile(f) == DOMAIN f = {"dir", "n", "as"}

\* A folder of VMs, and none that an export or a template is put in.
Away(dir) == dir[1] \notin {"export", "template"}

\* Every VM has a folder of its name for itself, and its disks are files that no other VM has.
Tidy ==
  /\ \A v \in Ids : /\ vms[v].home \in folders /\ Away(vms[v].home)
                    /\ vms[v].home[2] = vms[v].name
                    /\ \A f \in vms[v].disks : f \in vhds /\ IsFile(f) /\ f.dir \in folders /\ Away(f.dir)
  /\ \A v, w \in Ids : v # w =>
       /\ vms[v].home # vms[w].home
       /\ vms[v].disks \cap vms[w].disks = {}
       /\ \A f \in vms[w].disks : f.dir # vms[v].home

\* The tasks that make, remove, rename, move, export or edit VMs. Any number of others (power,
\* batches, checkpoints, policies, DVD, high availability) may run beside these.
Shapers == {"vm_create", "vm_clone", "vm_delete", "vm_migrate", "vm_rename", "vm_move",
            "vm_export_template", "vm_edit"}

\* The names of the VMs a task changes: those it gives, and those it has looked up. An export
\* changes no VM, and a clone only reads its source.
LookedUp(t) == IF pc[t] \in {"resolve", "vm_edit"} THEN {} ELSE {loc[t].name}
Names(t) ==
  CASE Op(t) \in {"vm_create", "vm_clone"}             -> {request[t].name}
    [] Op(t) \in {"vm_delete", "vm_migrate", "vm_edit"} -> LookedUp(t)
    [] Op(t) \in {"vm_rename", "vm_move"}               ->
         LookedUp(t) \cup Takes(t) \cup {vms[v].name : v \in ByIdentity(t)}
    [] OTHER                                            -> {}
Reads(t) == IF Op(t) = "vm_clone" THEN {Source(t)} ELSE {}
Its(t) == {v \in Ids : vms[v].name \in Names(t)}

\* The folders it works in and the disks it works on: those of its VMs, and those it has noted.
Relocating == {"rename", "move", "clean", "clean.remove"}
FoldersOf(t) ==
  {vms[v].home : v \in Its(t)}
  \cup (IF Op(t) \in {"vm_create", "vm_clone"} THEN {Target(t)} ELSE {})
  \cup (IF pc[t] \in {"delete.role", "delete.vm", "delete.files"} \cup Relocating THEN {loc[t].home} ELSE {})
  \cup (IF pc[t] \in Relocating THEN {loc[t].dest} ELSE {})
FilesOf(t) ==
  (UNION {vms[v].disks : v \in Its(t)})
  \cup (IF Op(t) \in {"vm_delete", "vm_edit"} THEN loc[t].disks ELSE {})
  \cup (IF Op(t) = "vm_edit" THEN request[t].add ELSE {})

\* Of these tasks, those that run together work on different VMs, folders and disks. Several
\* may clone the same VM or template, and none changes a VM that another clones.
Distinct(t, u) ==
  /\ Names(t) \cap (Names(u) \cup Reads(u)) = {}
  /\ FoldersOf(t) \cap FoldersOf(u) = {}
  /\ FilesOf(t) \cap FilesOf(u) = {}
  /\ \A f \in FilesOf(t) : f.dir \notin FoldersOf(u)
Shaping(t) == Busy(t) /\ Op(t) \in Shapers
Separated == \A t, u \in Tasks : t # u /\ Shaping(t) /\ Shaping(u) => Distinct(t, u)

\* An edit adds disks in folders that are there and are no other VM's, a VM moves to a volume,
\* and a request that gives a name gives that of its VM.
Sound(t) ==
  /\ At(t, "edit.add") => \A f \in request[t].add :
       /\ IsFile(f) /\ f.dir \in folders /\ Away(f.dir)
       /\ \A v \in Ids : vms[v].home = f.dir => vms[v].name = EditName(t)
  /\ Op(t) = "vm_move" => request[t].to \notin {"export", "template"}
  /\ Op(t) \in {"vm_rename", "vm_move"} /\ At(t, "resolve") /\ request[t].name # "" =>
       request[t].vm \in ByName(request[t].name)

Orderly == Separated /\ \A t \in Tasks : Sound(t)

-----------------------------------------------------------------------------
(* The invariant: VMs, disks and folders *)

\* A clone that has not succeeded, or that has logged what it could not convert, may lack disks.
Exempt(v, f) ==
  \E t \in Tasks : /\ Op(t) = "vm_clone" /\ loc[t].vm = v
                   /\ Completed(t) => f \in loc[t].failed
\* A clone or a rename of the VM that has not succeeded, or a rename that has without moving it.
Behind(t, v) ==
  \/ Op(t) = "vm_clone" /\ loc[t].vm = v /\ ~Completed(t)
  \/ Op(t) = "vm_rename" /\ request[t].vm = v /\ (Completed(t) => v \in loc[t].failed)
Unfinished(v) ==
  \E t \in Tasks : Ran(t) /\ Behind(t, v)

HomesInv ==
  \A v \in Ids : /\ vms[v].home \in folders /\ Away(vms[v].home)
                 /\ vms[v].home[2] = vms[v].name \/ Unfinished(v)

\* A disk that is missing was in the VM's own folder, so that nobody makes a new one in its place.
DisksInv ==
  \A v \in Ids : \A f \in vms[v].disks :
    /\ IsFile(f) /\ f.dir \in folders /\ Away(f.dir)
    /\ f \in vhds \/ (Exempt(v, f) /\ f.dir = vms[v].home)

\* Two VMs of one name (a clone that was left unnamed, and its source) may get a disk together,
\* two of different names have nothing in common.
ApartInv ==
  \A v, w \in Ids : v # w =>
    /\ vms[v].home # vms[w].home
    /\ vms[v].name # vms[w].name =>
         /\ vms[v].disks \cap vms[w].disks = {}
         /\ \A f \in vms[w].disks : f.dir # vms[v].home

HostOK == HomesInv /\ DisksInv /\ ApartInv

-----------------------------------------------------------------------------
(* The invariant: what each handler knows at each step *)

Unused(dir) == \A v \in Ids : vms[v].home # dir /\ \A f \in vms[v].disks : f.dir # dir
Lost(t) == vms[Clone(t)].disks \ vhds

CreateSteps == {"create.space", "create.check", "create.disk", "create.attach", "set", "id", "start"}
CreateLocal(t) ==
  /\ pc[t] \in CreateSteps \cup Rest
  /\ pc[t] \in {"waiting", "create.space", "create.check"} => loc[t].done = {}
  /\ At(t, "create.disk") => /\ Named(t) = {} /\ Target(t) \in folders /\ Unused(Target(t))
                             /\ loc[t].done \subseteq vhds \cap DiskFiles(t)
  /\ At(t, "create.attach") => /\ DiskFiles(t) \subseteq vhds
                               /\ \A v \in Named(t) : vms[v].home = Target(t)

Before == {"waiting", "clone.space", "clone.check"}
Free == {"clone.source", "clone.export", "clone.import"}
Converting == {"convert", "convert.remove", "convert.rename"}
Ending == {"set", "id", "start"}
OwnVM == {"clone.disk", "clone.point", "clone.tidy"} \cup Converting \cup Ending
CloneSteps == Before \cup Free \cup {"clone.name", "clone.undo"} \cup OwnVM

\* The clone has a folder for itself, with its disks.
Settled(t) ==
  /\ Clone(t) \in Ids /\ vms[Clone(t)].home = Target(t)
  /\ \A f \in vms[Clone(t)].disks : IsFile(f) /\ f.dir = Target(t) /\ f.as # "conv"

CloneLocal(t) ==
  /\ pc[t] \in CloneSteps \cup Rest
  /\ pc[t] \in Before \cup Free => Clone(t) = 0
  /\ pc[t] \in Free => Named(t) = {} /\ Target(t) \notin folders
  /\ At(t, "clone.name") =>
       /\ Settled(t) /\ vms[Clone(t)].name = Source(t)
       /\ Named(t) \subseteq {Clone(t)} /\ Lost(t) = {}
       /\ \A v \in Ids \ {Clone(t)} : \A f \in vms[v].disks : f.dir # Target(t)
  /\ pc[t] \in OwnVM => Settled(t) /\ Named(t) = {Clone(t)}
  /\ pc[t] \in {"clone.disk", "clone.tidy"} => Lost(t) = {}
  /\ At(t, "clone.point") => /\ \E f \in vms[Clone(t)].disks : loc[t].disks = {f} /\ Renamed(f) \in vhds
                             /\ Lost(t) \subseteq loc[t].disks
  /\ pc[t] \in {"convert", "convert.remove"} \cup Ending => Lost(t) \subseteq loc[t].failed
  /\ At(t, "convert.rename") => Lost(t) \subseteq loc[t].failed \cup loc[t].done
  /\ pc[t] \in Converting => loc[t].disks \subseteq vms[Clone(t)].disks
  /\ pc[t] \in {"convert.remove", "convert.rename"} =>
       \E f \in loc[t].disks : loc[t].done = {f} /\ Converted(f) \in vhds

ExportSteps == {"resolve", "vm_export_template", "export", "export.metadata"} \cup Converting
ExportLocal(t) ==
  /\ pc[t] \in ExportSteps \cup Rest
  /\ pc[t] \in Converting => \A f \in loc[t].disks : IsFile(f) /\ ~Away(f.dir)
  /\ pc[t] \in {"convert.remove", "convert.rename"} => \E f \in loc[t].disks : loc[t].done = {f}

DeleteLocal(t) ==
  /\ pc[t] \in {"resolve", "vm_delete", "delete.role", "delete.vm", "delete.files"} \cup Rest
  /\ pc[t] \in {"delete.role", "delete.vm"} =>
       \E v \in Ids : /\ ByName(Name(t)) = {v} /\ vms[v].home = loc[t].home
                      /\ loc[t].disks \subseteq vms[v].disks
  /\ At(t, "delete.files") => /\ Unused(loc[t].home)
                              /\ \A v \in Ids : vms[v].disks \cap loc[t].disks = {}

\* The VM that moves is the only one of its name, until the rename may have given it another's.
MoveLocal(t) ==
  LET v == request[t].vm
  IN  /\ pc[t] \in {"resolve", "rename", "move", "clean", "clean.remove", Op(t)} \cup Rest
      /\ At(t, "rename") => Op(t) = "vm_rename"
      /\ pc[t] \in {"vm_rename", "vm_move"} => v \in ByName(Name(t))
      /\ At(t, "rename") \/ At(t, "move") =>
           /\ v \in Ids /\ loc[t].dest \notin folders /\ Away(loc[t].dest)
           /\ \A w \in Ids \ {v} :
                /\ vms[w].disks \cap vms[v].disks = {}
                /\ \A f \in vms[w].disks : f.dir # vms[v].home
                /\ \A f \in vms[v].disks : f.dir # vms[w].home
      /\ At(t, "rename") => ByName(Name(t)) = {v} /\ loc[t].dest[2] = request[t].new
      /\ At(t, "move") /\ Op(t) = "vm_rename" =>
           vms[v].name = request[t].new /\ loc[t].dest[2] = request[t].new
      /\ At(t, "move") /\ Op(t) = "vm_move" =>
           ByName(Name(t)) = {v} /\ loc[t].dest[2] = Name(t)
      /\ pc[t] \in Relocating => Away(loc[t].home)
      /\ pc[t] \in {"clean", "clean.remove"} /\ loc[t].ok =>
           \/ v \in Ids /\ vms[v].home[2] = vms[v].name
           \/ Op(t) = "vm_rename" /\ v \in loc[t].failed
      /\ At(t, "clean.remove") => FilesIn(loc[t].home) = {} /\ \A w \in Ids : vms[w].home # loc[t].home

EditLocal(t) ==
  At(t, "edit.wipe") => \A v \in Ids : vms[v].disks \cap loc[t].disks = {}

\* The other handlers are one script each, or a batch.
PolicyOps == {"vm_start", "vm_stop", "vm_shutdown", "vm_restart", "vm_pause", "vm_resume",
              "eject_dvd", "mount_dvd", "enable_ha", "disable_ha", "snapshot_create",
              "snapshot_remove", "snapshot_restore", "refresh_status", "notes_edit",
              "vm_startup_change", "vm_enable_metrics", "vm_disable_metrics"}

Local(t) ==
  /\ Op(t) = "vm_create" => CreateLocal(t)
  /\ Op(t) = "vm_clone" => CloneLocal(t)
  /\ Op(t) = "vm_export_template" => ExportLocal(t)
  /\ Op(t) = "vm_delete" => DeleteLocal(t)
  /\ Op(t) = "vm_migrate" => pc[t] \in {"resolve", "vm_migrate"} \cup Rest
  /\ Op(t) \in {"vm_rename", "vm_move"} => MoveLocal(t)
  /\ Op(t) = "vm_edit" => EditLocal(t)
  /\ Op(t) \in PolicyOps => pc[t] \in {"resolve", Op(t)} \cup Rest
  /\ Op(t) \notin Shapers \cup PolicyOps \cup {"vm_batch"} => pc[t] \in Rest

DisksInvariant == TInv /\ HostOK /\ \A t \in Tasks : Local(t)

-----------------------------------------------------------------------------
(* Steps and the host *)

\* What has been forgiven stays forgiven.
Remembered ==
  \A v \in Ids : /\ \A f : Exempt(v, f) => Exempt(v, f)'
                 /\ Unfinished(v) => Unfinished(v)'

(* The history of clones and renames stays, unless one of them succeeds or imports its VM. *)
LEMMA HistoryKept ==
  ASSUME TInv, NEW t \in Tasks, Acts(t),
         Op(t) \in {"vm_clone", "vm_rename"} => answer'[t] # "completed",
         Op(t) = "vm_clone" => /\ loc'[t].vm = loc[t].vm \/ loc[t].vm \notin Ids
                               /\ loc[t].failed \subseteq loc'[t].failed
  PROVE  Remembered
<1>1. Proceeds(t)
  BY ActsProceeds
<1>2. \A u \in Tasks : Op(u)' = Op(u) /\ request'[u] = request[u]
  BY <1>1 DEF Proceeds, Op
<1>3. \A u \in Tasks \ {t} : (Completed(u)' <=> Completed(u)) /\ (Ran(u)' <=> Ran(u)) /\ loc'[u] = loc[u]
  BY <1>1 DEF Proceeds, Completed, Ran
<1>4. Op(t) \in {"vm_clone", "vm_rename"} => ~Completed(t)' /\ Ran(t)'
  BY <1>1 DEF Proceeds, Completed, Ran, InHandler, Rest
<1>5. ASSUME NEW v \in Ids, NEW f, Exempt(v, f)
      PROVE  Exempt(v, f)'
  BY <1>2, <1>3, <1>4, <1>5 DEF Exempt
<1>6. ASSUME NEW v \in Ids, Unfinished(v)
      PROVE  Unfinished(v)'
  <2>1. PICK u \in Tasks : Ran(u) /\ Behind(u, v)
    BY <1>6 DEF Unfinished
  <2>2. CASE u = t
    <3>1. Ran(u)' /\ ~Completed(u)'
      BY <2>1, <2>2, <1>4 DEF Behind
    <3>2. Behind(u, v)'
      BY <2>1, <2>2, <3>1, <1>2 DEF Behind
    <3>3. QED
      BY <3>1, <3>2 DEF Unfinished
  <2>3. CASE u # t
    <3>1. Ran(u)' /\ Behind(u, v)'
      BY <2>1, <2>3, <1>2, <1>3 DEF Behind
    <3>2. QED
      BY <3>1 DEF Unfinished
  <2>4. QED
    BY <2>2, <2>3
<1>7. QED
  BY <1>5, <1>6 DEF Remembered

(* VMs, disks of a VM or files go, and what remains is intact. *)
LEMMA Shrinks ==
  ASSUME HostOK, Ids' \subseteq Ids,
         \A v \in Ids' : /\ vms'[v].name = vms[v].name /\ vms'[v].home = vms[v].home
                         /\ vms'[v].disks \subseteq vms[v].disks
                         /\ vms[v].home \in folders'
                         /\ vms[v].home[2] = vms[v].name \/ Unfinished(v)',
         \A v \in Ids' : \A f \in vms'[v].disks :
           f.dir \in folders' /\ (f \in vhds' \/ (Exempt(v, f)' /\ f.dir = vms[v].home))
  PROVE  HostOK'
<1>1. HomesInv'
  BY DEF HostOK, HomesInv
<1>2. DisksInv'
  BY DEF HostOK, DisksInv
<1>3. ApartInv'
  BY DEF HostOK, ApartInv
<1>4. QED
  BY <1>1, <1>2, <1>3 DEF HostOK

\* Nothing of names, folders and disks of VMs changes.
Calm ==
  /\ Ids' = Ids
  /\ \A v \in Ids : /\ vms'[v].name = vms[v].name /\ vms'[v].home = vms[v].home
                    /\ vms'[v].disks = vms[v].disks

(* New files and folders, and files that no VM has, do not matter. *)
LEMMA CalmKeeps ==
  ASSUME HostOK, Calm, Remembered, folders \subseteq folders',
         \A v \in Ids : \A f \in vms[v].disks : f \in vhds => f \in vhds'
  PROVE  HostOK'
<1>1. Ids' \subseteq Ids
  BY DEF Calm
<1>2. \A v \in Ids' : /\ vms'[v].name = vms[v].name /\ vms'[v].home = vms[v].home
                      /\ vms'[v].disks \subseteq vms[v].disks
                      /\ vms[v].home \in folders'
                      /\ vms[v].home[2] = vms[v].name \/ Unfinished(v)'
  BY DEF Calm, HostOK, HomesInv, Remembered
<1>3. \A v \in Ids' : \A f \in vms'[v].disks :
        f.dir \in folders' /\ (f \in vhds' \/ (Exempt(v, f)' /\ f.dir = vms[v].home))
  BY DEF Calm, HostOK, DisksInv, Remembered
<1>4. QED
  BY <1>1, <1>2, <1>3, Shrinks

(* A VM, new or not, has all its disks in a folder that no other VM uses. *)
LEMMA Places ==
  ASSUME HostOK, Remembered, NEW v, NEW h,
         Ids' = Ids \cup {v}, vms'[v].home = h, h \in folders', Away(h),
         h[2] = vms'[v].name \/ Unfinished(v)',
         \A f \in vms'[v].disks : IsFile(f) /\ f \in vhds' /\ f.dir = h,
         folders \subseteq folders',
         \A w \in Ids \ {v} :
           /\ vms'[w].name = vms[w].name /\ vms'[w].home = vms[w].home
           /\ vms'[w].disks = vms[w].disks /\ vms[w].home # h
           /\ \A f \in vms[w].disks : f.dir # h /\ (f \in vhds => f \in vhds')
  PROVE  HostOK'
<1>1. HomesInv'
  BY DEF HostOK, HomesInv, Remembered
<1>2. DisksInv'
  BY DEF HostOK, DisksInv, Remembered
<1>3. ASSUME NEW w \in Ids', NEW x \in Ids', w # x
      PROVE  /\ vms'[w].home # vms'[x].home
             /\ vms'[w].name # vms'[x].name =>
                  /\ vms'[w].disks \cap vms'[x].disks = {}
                  /\ \A f \in vms'[x].disks : f.dir # vms'[w].home
  BY <1>3 DEF HostOK, ApartInv
<1>4. ApartInv'
  BY <1>3 DEF ApartInv
<1>5. QED
  BY <1>1, <1>2, <1>4 DEF HostOK

\* A file in nobody else's folder becomes a disk of VMs of one name.
Attached(S, n, f) ==
  /\ S \subseteq ByName(n) /\ Ids' = Ids /\ folders \subseteq folders' /\ vhds \subseteq vhds'
  /\ IsFile(f) /\ f.dir \in folders /\ Away(f.dir) /\ f \in vhds'
  /\ \A v \in Ids : vms[v].name # n => f \notin vms[v].disks /\ vms[v].home # f.dir
  /\ \A v \in Ids : /\ vms'[v].name = vms[v].name /\ vms'[v].home = vms[v].home
                    /\ vms'[v].disks = vms[v].disks \cup (IF v \in S THEN {f} ELSE {})

(* Such a step keeps the host as it should be. *)
LEMMA Attaches ==
  ASSUME HostOK, Remembered, NEW S, NEW n, NEW f, Attached(S, n, f)
  PROVE  HostOK'
<1>0. /\ S \subseteq ByName(n) /\ Ids' = Ids /\ folders \subseteq folders' /\ vhds \subseteq vhds'
      /\ IsFile(f) /\ f.dir \in folders /\ Away(f.dir) /\ f \in vhds'
      /\ \A v \in Ids : vms[v].name # n => f \notin vms[v].disks /\ vms[v].home # f.dir
      /\ \A v \in Ids : /\ vms'[v].name = vms[v].name /\ vms'[v].home = vms[v].home
                        /\ vms'[v].disks = vms[v].disks \cup (IF v \in S THEN {f} ELSE {})
  BY DEF Attached
<1>1. HomesInv'
  BY <1>0 DEF HostOK, HomesInv, Remembered
<1>2. \A v \in S : v \in Ids /\ vms[v].name = n
  BY <1>0 DEF ByName
<1>3. DisksInv'
  BY <1>0, <1>2 DEF HostOK, DisksInv, Remembered
<1>4. ASSUME NEW v \in Ids, NEW w \in Ids, v # w, vms[v].name # vms[w].name
      PROVE  /\ vms'[v].disks \cap vms'[w].disks = {}
             /\ \A g \in vms'[w].disks : g.dir # vms[v].home
  <2>1. /\ vms[v].disks \cap vms[w].disks = {}
        /\ \A g \in vms[w].disks : g.dir # vms[v].home
    BY <1>0, <1>4 DEF HostOK, ApartInv
  <2>2. ~(v \in S /\ w \in S)
    BY <1>0, <1>2, <1>4
  <2>3. w \in S => f.dir # vms[v].home
    BY <1>0, <1>2, <1>4
  <2>4. (w \in S => f \notin vms[v].disks) /\ (v \in S => f \notin vms[w].disks)
    BY <1>0, <1>2, <1>4
  <2>5. QED
    BY <1>0, <2>1, <2>2, <2>3, <2>4
<1>5. ApartInv'
  BY <1>0, <1>4 DEF HostOK, ApartInv
<1>6. QED
  BY <1>1, <1>3, <1>5 DEF HostOK

(* A VM that has nothing in common with any other gets another name. *)
LEMMA NamesAnew ==
  ASSUME HostOK, Remembered, NEW v \in Ids, Unfinished(v)',
         Ids' = Ids, UNCHANGED <<vhds, folders>>,
         \A w \in Ids \ {v} : /\ vms[w].disks \cap vms[v].disks = {}
                              /\ \A f \in vms[w].disks : f.dir # vms[v].home
                              /\ \A f \in vms[v].disks : f.dir # vms[w].home
                              /\ vms'[w].name = vms[w].name,
         \A w \in Ids : vms'[w].home = vms[w].home /\ vms'[w].disks = vms[w].disks
  PROVE  HostOK'
<1>1. HomesInv'
  BY DEF HostOK, HomesInv, Remembered
<1>2. DisksInv'
  BY DEF HostOK, DisksInv, Remembered
<1>3. ApartInv'
  BY DEF HostOK, ApartInv
<1>4. QED
  BY <1>1, <1>2, <1>3 DEF HostOK

-----------------------------------------------------------------------------
(* Control *)

(* How the steps of a handler end. *)
LEMMA Ends ==
  ASSUME TInv, NEW t \in Tasks
  PROVE  /\ \A s, l : GoWith(t, s, l) =>
              pc'[t] = s /\ loc'[t] = l /\ answer' = answer /\ request' = request
         /\ \A s : Go(t, s) =>
              pc'[t] = s /\ loc'[t] = loc[t] /\ answer' = answer /\ request' = request
         /\ \A a : Answer(t, a) =>
              pc'[t] = "done" /\ loc' = loc /\ answer'[t] = a /\ request' = request
         /\ Fail(t) =>
              pc'[t] = "done" /\ loc' = loc /\ answer'[t] = "failed" /\ request' = request
BY DEF TInv, TypeOK, ControlInv, GoWith, Go, Answer, Fail, Outside

\* The handlers' own steps.
Begins(t) == \E s : Begin(t, s)
Finish(t) == Settle(t) \/ FindId(t) \/ PowerOn(t)
Convert(t) == ConvertDisk(t) \/ ConvertRemove(t) \/ ConvertRename(t)
CreateActs(t) ==
  CreateSpace(t) \/ CreateCheck(t) \/ CreateDisk(t) \/ CreateVM(t) \/ CreateAttach(t)
CloneActs(t) ==
  \/ CloneSpace(t) \/ CloneCheck(t) \/ CloneSource(t) \/ CloneExport(t) \/ CloneImport(t)
  \/ CloneName(t) \/ CloneDisk(t) \/ ClonePoint(t) \/ CloneUndo(t) \/ CloneTidy(t)
DeleteActs(t) == DeleteCheck(t) \/ DeleteRole(t) \/ DeleteVM(t) \/ DeleteFiles(t)
MoveActs(t) == RelocateCheck(t) \/ Rename(t) \/ MoveStorage(t) \/ CleanLook(t) \/ CleanRemove(t)
ExportActs(t) == ExportCheck(t) \/ Export(t) \/ ExportMetadata(t)
PolicyActs(t) ==
  \/ Start(t) \/ Pause(t) \/ Resume(t) \/ Restart(t) \/ Shutdown(t) \/ Stop(t)
  \/ Snapshot(t) \/ Policy(t) \/ Unmeter(t) \/ Refresh(t) \/ Eject(t) \/ Mount(t)
  \/ EnableHA(t) \/ DisableHA(t)
BatchActs(t) == BatchCheck(t) \/ BatchVM(t) \/ BatchEnd(t)

(* Where in its handler a step is taken. *)
LEMMA Where ==
  ASSUME NEW t
  PROVE  /\ Begins(t) => pc[t] = "waiting"
         /\ Resolve(t) => pc[t] = "resolve"
         /\ CreateActs(t) => pc[t] \in {"create.space", "create.check", "create.disk", "create.attach"}
         /\ CloneActs(t) => pc[t] \in {"clone.space", "clone.check", "clone.source", "clone.export",
                                       "clone.import", "clone.name", "clone.disk", "clone.point",
                                       "clone.undo", "clone.tidy"}
         /\ Convert(t) => pc[t] \in Converting
         /\ Finish(t) => pc[t] \in Ending
         /\ DeleteActs(t) => pc[t] \in {"vm_delete", "delete.role", "delete.vm", "delete.files"}
         /\ MoveActs(t) => pc[t] \in {"vm_rename", "vm_move", "rename", "move", "clean", "clean.remove"}
         /\ ExportActs(t) => pc[t] \in {"vm_export_template", "export", "export.metadata"}
         /\ Migrate(t) => pc[t] = "vm_migrate"
         /\ BatchActs(t) => pc[t] \in BatchSteps
<1> USE DEF At
<1>1. (Begins(t) => pc[t] = "waiting") /\ (Resolve(t) => pc[t] = "resolve")
  BY DEF Begins, Begin, Resolve
<1>2. CreateActs(t) => pc[t] \in {"create.space", "create.check", "create.disk", "create.attach"}
  BY DEF CreateActs, CreateSpace, CreateCheck, CreateDisk, CreateVM, CreateAttach
<1>3. CloneActs(t) => pc[t] \in {"clone.space", "clone.check", "clone.source", "clone.export",
                                 "clone.import", "clone.name", "clone.disk", "clone.point",
                                 "clone.undo", "clone.tidy"}
  BY DEF CloneActs, CloneSpace, CloneCheck, CloneSource, CloneExport, CloneImport, CloneName,
         CloneDisk, ClonePoint, CloneUndo, CloneTidy
<1>4. Convert(t) => pc[t] \in Converting
  BY DEF Convert, ConvertDisk, ConvertRemove, ConvertRename, Converting
<1>5. Finish(t) => pc[t] \in Ending
  BY DEF Finish, Settle, FindId, PowerOn, Ending
<1>6. DeleteActs(t) => pc[t] \in {"vm_delete", "delete.role", "delete.vm", "delete.files"}
  BY DEF DeleteActs, DeleteCheck, DeleteRole, DeleteVM, DeleteFiles
<1>7. MoveActs(t) => pc[t] \in {"vm_rename", "vm_move", "rename", "move", "clean", "clean.remove"}
  BY DEF MoveActs, RelocateCheck, Rename, MoveStorage, CleanLook, CleanRemove
<1>8. ExportActs(t) => pc[t] \in {"vm_export_template", "export", "export.metadata"}
  BY DEF ExportActs, ExportCheck, Export, ExportMetadata
<1>9. Migrate(t) => pc[t] = "vm_migrate"
  BY DEF Migrate
<1>10. BatchActs(t) => pc[t] \in BatchSteps
  BY DEF BatchActs, BatchCheck, BatchVM, BatchEnd, BatchSteps
<1>11. QED
  BY <1>1, <1>2, <1>3, <1>4, <1>5, <1>6, <1>7, <1>8, <1>9, <1>10

(* The one-script handlers are at the step that has the name of their operation. *)
LEMMA PolicyWhere ==
  ASSUME NEW t, PolicyActs(t)
  PROVE  pc[t] \in PolicyOps
<1> USE DEF At, Op, PolicyOps
<1>1. CASE Start(t) \/ Pause(t) \/ Resume(t) \/ Restart(t) \/ Shutdown(t) \/ Stop(t)
  BY <1>1 DEF Start, Pause, Resume, Restart, Shutdown, Stop, SetState, Script
<1>2. CASE Snapshot(t) \/ Policy(t) \/ Unmeter(t) \/ Refresh(t) \/ Eject(t) \/ Mount(t)
  BY <1>2 DEF Snapshot, Policy, Unmeter, Refresh, Eject, Mount, Script
<1>3. CASE EnableHA(t) \/ DisableHA(t)
  BY <1>3 DEF EnableHA, DisableHA, Script
<1>4. QED
  BY <1>1, <1>2, <1>3 DEF PolicyActs

(* Every step is one of these. *)
LEMMA Groups ==
  ASSUME NEW t, ProvisionStep(t) \/ ManageStep(t)
  PROVE  \/ Begins(t) \/ Resolve(t) \/ CreateActs(t) \/ CloneActs(t) \/ Convert(t) \/ Finish(t)
         \/ DeleteActs(t) \/ MoveActs(t) \/ ExportActs(t) \/ Migrate(t)
         \/ PolicyActs(t) \/ BatchActs(t)
<1>1. CASE ProvisionStep(t)
  BY <1>1 DEF ProvisionStep, Begins, CreateActs, CloneActs, Convert, Finish, DeleteActs
<1>2. CASE ManageStep(t)
  BY <1>2 DEF ManageStep, Begins, MoveActs, ExportActs, PolicyActs, BatchActs
<1>3. QED
  BY <1>1, <1>2

(* So a handler takes only steps of its own. *)
LEMMA OwnActs ==
  ASSUME TInv, NEW t \in Tasks, Local(t), Acts(t), ~Kill(t)
  PROVE  /\ Op(t) = "vm_create" => Begins(t) \/ CreateActs(t) \/ Finish(t)
         /\ Op(t) = "vm_clone" => Begins(t) \/ CloneActs(t) \/ Convert(t) \/ Finish(t)
         /\ Op(t) = "vm_delete" => Begins(t) \/ Resolve(t) \/ DeleteActs(t)
         /\ Op(t) = "vm_migrate" => Begins(t) \/ Resolve(t) \/ Migrate(t)
         /\ Op(t) \in {"vm_rename", "vm_move"} => Begins(t) \/ Resolve(t) \/ MoveActs(t)
         /\ Op(t) = "vm_export_template" => Begins(t) \/ Resolve(t) \/ ExportActs(t) \/ Convert(t)
         /\ Op(t) = "vm_edit" => EditStep(t)
         /\ Op(t) \notin Shapers => Begins(t) \/ Resolve(t) \/ PolicyActs(t) \/ BatchActs(t)
<1> DEFINE PM == ProvisionStep(t) \/ ManageStep(t)
<1>1. PM =>
        \/ Begins(t) \/ Resolve(t) \/ CreateActs(t) \/ CloneActs(t) \/ Convert(t) \/ Finish(t)
        \/ DeleteActs(t) \/ MoveActs(t) \/ ExportActs(t) \/ Migrate(t)
        \/ PolicyActs(t) \/ BatchActs(t)
  BY Groups
<1>2. Busy(t) => InHandler(t, pc[t])
  BY DEF TInv, ControlInv
<1>3. Op(t) # "vm_edit" => PM
  <2>1. EditStep(t) => Op(t) = "vm_edit" \/ pc[t] \in EditSteps
    BY DEF EditStep, EditCheck, EditSet, EditDisks, EditAdd, EditGrow, EditRemove, EditWipe, EditNICs,
           EditEnd, Op, At, EditSteps
  <2>2. EditStep(t) => Op(t) = "vm_edit"
    BY <2>1, <1>2 DEF InHandler, EditSteps, Busy, BatchSteps
  <2>3. QED
    BY <2>2 DEF Acts
<1>4. Op(t) = "vm_edit" => EditStep(t)
  BY OnlyEdits
<1> HIDE DEF PM
<1> USE Where, PolicyWhere DEF PolicyOps, BatchSteps, EditSteps, Rest, Converting, Ending
<1>5. Op(t) = "vm_create" => Begins(t) \/ CreateActs(t) \/ Finish(t)
  BY <1>1, <1>3 DEF Local, CreateLocal, CreateSteps
<1>6. Op(t) = "vm_clone" => Begins(t) \/ CloneActs(t) \/ Convert(t) \/ Finish(t)
  BY <1>1, <1>3 DEF Local, CloneLocal, CloneSteps, Before, Free, OwnVM
<1>7. Op(t) = "vm_delete" => Begins(t) \/ Resolve(t) \/ DeleteActs(t)
  BY <1>1, <1>3 DEF Local, DeleteLocal
<1>8. Op(t) = "vm_migrate" => Begins(t) \/ Resolve(t) \/ Migrate(t)
  BY <1>1, <1>3 DEF Local
<1>9. Op(t) \in {"vm_rename", "vm_move"} => Begins(t) \/ Resolve(t) \/ MoveActs(t)
  BY <1>1, <1>3 DEF Local, MoveLocal
<1>10. Op(t) = "vm_export_template" => Begins(t) \/ Resolve(t) \/ ExportActs(t) \/ Convert(t)
  BY <1>1, <1>3 DEF Local, ExportLocal, ExportSteps
<1>11. Op(t) \notin Shapers => Begins(t) \/ Resolve(t) \/ PolicyActs(t) \/ BatchActs(t)
  <2>1. Op(t) \notin Shapers =>
          pc[t] \in {"resolve", "vm_batch", "batch.next"} \cup PolicyOps \cup Rest
    BY <1>2 DEF Local, InHandler, Busy, Shapers
  <2>2. QED
    BY <2>1, <1>1, <1>3 DEF Shapers
<1>12. QED
  BY <1>4, <1>5, <1>6, <1>7, <1>8, <1>9, <1>10, <1>11

-----------------------------------------------------------------------------
(* Everybody else *)

\* Names, folders and disks of VMs and the files are as they were.
Steady == Calm /\ vhds' = vhds /\ folders' = folders

Same(u) == pc'[u] = pc[u] /\ loc'[u] = loc[u]

(* What a handler knows of such a host stays true. *)
LEMMA SteadyLocal ==
  ASSUME Steady, request' = request, NEW u \in Tasks, Same(u), Local(u)
  PROVE  Local(u)'
<1>1. /\ \A n : ByName(n)' = ByName(n)
      /\ \A d : FilesIn(d)' = FilesIn(d)
  BY DEF Steady, Calm, ByName, FilesIn
<1>2. /\ Target(u)' = Target(u) /\ Named(u)' = Named(u) /\ Clone(u)' = Clone(u) /\ Name(u)' = Name(u)
      /\ DiskFiles(u)' = DiskFiles(u) /\ Op(u)' = Op(u)
      /\ \A s : At(u, s)' <=> At(u, s)
  BY <1>1 DEF Same, Target, Named, Clone, Name, DiskFiles, Op, At
<1>3. \A d : Unused(d) => Unused(d)'
  BY DEF Steady, Calm, Unused
<1>4. /\ Settled(u) => Settled(u)'
      /\ Clone(u) \in Ids => Lost(u)' = Lost(u)
  BY <1>2 DEF Settled, Lost, Steady, Calm
<1> USE DEF Same, Steady, Calm
<1>5. CreateLocal(u) => CreateLocal(u)'
  <2>1. Named(u) \subseteq Ids
    BY DEF Named, ByName
  <2>2. QED
    BY <1>2, <1>3, <2>1 DEF CreateLocal
<1>6. CloneLocal(u) => CloneLocal(u)'
  <2> SUFFICES ASSUME CloneLocal(u) PROVE CloneLocal(u)'
    OBVIOUS
  <2>1. /\ pc'[u] \in CloneSteps \cup Rest
        /\ pc'[u] \in Before \cup Free => Clone(u)' = 0
        /\ pc'[u] \in Free => Named(u)' = {} /\ Target(u)' \notin folders'
    BY <1>2 DEF CloneLocal
  <2>2. At(u, "clone.name")' =>
          /\ Settled(u)' /\ vms'[Clone(u)'].name = Source(u)'
          /\ Named(u)' \subseteq {Clone(u)'} /\ Lost(u)' = {}
          /\ \A v \in Ids' \ {Clone(u)'} : \A f \in vms'[v].disks : f.dir # Target(u)'
    BY <1>2, <1>4 DEF CloneLocal, Settled, Source
  <2>3. pc'[u] \in OwnVM => Settled(u)' /\ Named(u)' = {Clone(u)'}
    BY <1>2, <1>4 DEF CloneLocal
  <2>4. pc[u] \in OwnVM => Lost(u)' = Lost(u) /\ vms'[Clone(u)].disks = vms[Clone(u)].disks
    BY <1>4 DEF CloneLocal, Settled
  <2>5. /\ pc'[u] \in {"clone.disk", "clone.tidy"} => Lost(u)' = {}
        /\ At(u, "clone.point")' =>
             /\ \E f \in vms'[Clone(u)].disks : loc'[u].disks = {f} /\ Renamed(f) \in vhds'
             /\ Lost(u)' \subseteq loc'[u].disks
    BY <1>2, <2>4 DEF CloneLocal, OwnVM, At
  <2>6. /\ pc'[u] \in {"convert", "convert.remove"} \cup Ending => Lost(u)' \subseteq loc'[u].failed
        /\ At(u, "convert.rename")' => Lost(u)' \subseteq loc'[u].failed \cup loc'[u].done
        /\ pc'[u] \in Converting => loc'[u].disks \subseteq vms'[Clone(u)].disks
        /\ pc'[u] \in {"convert.remove", "convert.rename"} =>
             \E f \in loc'[u].disks : loc'[u].done = {f} /\ Converted(f) \in vhds'
    BY <1>2, <2>4 DEF CloneLocal, OwnVM, At, Converting
  <2>7. QED
    BY <1>2, <2>1, <2>2, <2>3, <2>5, <2>6 DEF CloneLocal
<1>7. ExportLocal(u) => ExportLocal(u)'
  BY DEF ExportLocal
<1>8. DeleteLocal(u) => DeleteLocal(u)'
  BY <1>1, <1>2, <1>3 DEF DeleteLocal
<1>9. MoveLocal(u) => MoveLocal(u)'
  BY <1>1, <1>2 DEF MoveLocal, Relocating, Away
<1>10. EditLocal(u) => EditLocal(u)'
  BY <1>2 DEF EditLocal
<1>11. QED
  BY <1>2, <1>5, <1>6, <1>7, <1>8, <1>9, <1>10 DEF Local

(* A handler that has not begun, or is over, knows nothing that could change. *)
LEMMA RestingLocal ==
  ASSUME request' = request, NEW u \in Tasks, Same(u), Local(u), ~Busy(u) \/ Op(u) \notin Shapers
  PROVE  Local(u)'
<1>1. Op(u)' = Op(u) /\ \A s : At(u, s)' <=> At(u, s)
  BY DEF Same, Op, At
<1>2. CASE Op(u) \notin Shapers
  BY <1>1, <1>2 DEF Local, Shapers, Same
<1>3. CASE pc[u] \in Rest
  <2>1. pc'[u] \in Rest /\ loc'[u] = loc[u]
    BY <1>3 DEF Same
  <2>2. CreateLocal(u) => CreateLocal(u)'
    BY <1>1, <1>3, <2>1 DEF CreateLocal, At, Rest, Same
  <2>3. CloneLocal(u) => CloneLocal(u)'
    BY <1>1, <1>3, <2>1
    DEF CloneLocal, At, Rest, Same, Before, Free, OwnVM, Converting, Ending, Clone
  <2>4. ExportLocal(u) => ExportLocal(u)'
    BY <1>1, <1>3, <2>1 DEF ExportLocal, Rest, Converting
  <2>5. DeleteLocal(u) => DeleteLocal(u)'
    BY <1>1, <1>3, <2>1 DEF DeleteLocal, At, Rest
  <2>6. MoveLocal(u)'
    BY <2>1 DEF MoveLocal, At, Rest, Relocating
  <2>7. EditLocal(u)'
    BY <2>1 DEF EditLocal, At, Rest
  <2>8. QED
    BY <1>1, <2>1, <2>2, <2>3, <2>4, <2>5, <2>6, <2>7 DEF Local
<1>4. QED
  BY <1>2, <1>3 DEF Busy, Rest

(* The fields that are not looked at here. *)
LEMMA FieldKept ==
  ASSUME NEW vm, DOMAIN vm = VMFields
  PROVE  /\ \A x : /\ [vm EXCEPT !.settings = x].name = vm.name
                   /\ [vm EXCEPT !.settings = x].home = vm.home
                   /\ [vm EXCEPT !.settings = x].disks = vm.disks
         /\ \A x : /\ [vm EXCEPT !.state = x].name = vm.name
                   /\ [vm EXCEPT !.state = x].home = vm.home
                   /\ [vm EXCEPT !.state = x].disks = vm.disks
         /\ \A x : /\ [vm EXCEPT !.snaps = x].name = vm.name
                   /\ [vm EXCEPT !.snaps = x].home = vm.home
                   /\ [vm EXCEPT !.snaps = x].disks = vm.disks
         /\ \A x : /\ [vm EXCEPT !.dvd = x].name = vm.name
                   /\ [vm EXCEPT !.dvd = x].home = vm.home
                   /\ [vm EXCEPT !.dvd = x].disks = vm.disks
         /\ \A x : /\ [vm EXCEPT !.ha = x].name = vm.name
                   /\ [vm EXCEPT !.ha = x].home = vm.home
                   /\ [vm EXCEPT !.ha = x].disks = vm.disks
         /\ \A x : /\ [vm EXCEPT !.nics = x].name = vm.name
                   /\ [vm EXCEPT !.nics = x].home = vm.home
                   /\ [vm EXCEPT !.nics = x].disks = vm.disks
BY DEF VMFields

(* A power operation, a setting, a checkpoint, a DVD or the cluster does not touch disks. *)
LEMMA PolicySteady ==
  ASSUME TInv, NEW t \in Tasks, PolicyActs(t)
  PROVE  Steady
<1>1. \A v \in DOMAIN vms : DOMAIN vms[v] = VMFields
  BY DEF TInv, HostInv, VMsInv, VMOk, Ids
<1> DEFINE Alike(w, v) == w.name = vms[v].name /\ w.home = vms[v].home /\ w.disks = vms[v].disks
<1>2. /\ \A v \in DOMAIN vms : Alike(vms[v], v)
      /\ \A v \in DOMAIN vms : \A x : Alike([vms[v] EXCEPT !.settings = x], v)
      /\ \A v \in DOMAIN vms : \A x : Alike([vms[v] EXCEPT !.state = x], v)
      /\ \A v \in DOMAIN vms : \A x : Alike([vms[v] EXCEPT !.snaps = x], v)
      /\ \A v \in DOMAIN vms : \A x : Alike([vms[v] EXCEPT !.dvd = x], v)
      /\ \A v \in DOMAIN vms : \A x : Alike([vms[v] EXCEPT !.ha = x], v)
  BY <1>1, FieldKept
<1> HIDE DEF Alike
<1> DEFINE Goal == /\ vhds' = vhds /\ folders' = folders /\ DOMAIN vms' = DOMAIN vms
                   /\ \A v \in DOMAIN vms : Alike(vms'[v], v)
<1>3. CASE Start(t) \/ Pause(t) \/ Resume(t) \/ Restart(t) \/ Shutdown(t)
  <2>1. Start(t) => Goal
    BY SMTT(20), <1>2 DEF Start, SetState, Script, Changed, Ids
  <2>2. Pause(t) => Goal
    BY SMTT(20), <1>2 DEF Pause, SetState, Script, Changed, Ids
  <2>3. Resume(t) => Goal
    BY SMTT(20), <1>2 DEF Resume, SetState, Script, Changed, Ids
  <2>4. Restart(t) => Goal
    BY SMTT(20), <1>2 DEF Restart, SetState, Script, Changed, Ids
  <2>5. Shutdown(t) => Goal
    BY SMTT(20), <1>2 DEF Shutdown, SetState, Script, Changed, Ids
  <2>6. Goal
    BY <1>3, <2>1, <2>2, <2>3, <2>4, <2>5
  <2>7. QED
    BY <2>6 DEF Steady, Calm, Alike, Ids
<1>4. CASE Stop(t) \/ Unmeter(t) \/ Refresh(t) \/ Eject(t)
  <2>1. Stop(t) => Goal
    BY <1>2 DEF Stop, Changed, Ids
  <2>2. Unmeter(t) => Goal
    BY SMTT(20), <1>2 DEF Unmeter, Script, Changed, Ids
  <2>3. Refresh(t) => Goal
    BY SMTT(20), <1>2 DEF Refresh, Script, Changed, Ids
  <2>4. Eject(t) => Goal
    BY SMTT(20), <1>2 DEF Eject, Script, Changed, Ids
  <2>5. Goal
    BY <1>4, <2>1, <2>2, <2>3, <2>4
  <2>6. QED
    BY <2>5 DEF Steady, Calm, Alike, Ids
<1>5. CASE Snapshot(t)
  <2>1. Snapshot(t) /\ request[t].op = "snapshot_create" => Goal
    BY <1>2 DEF Snapshot, Script, Changed, Ids
  <2>2. Snapshot(t) /\ request[t].op = "snapshot_remove" => Goal
    BY <1>2 DEF Snapshot, Script, Changed, Ids
  <2>3. Snapshot(t) /\ request[t].op = "snapshot_restore" => Goal
    BY <1>2 DEF Snapshot, Script, Changed, Ids
  <2>4. Goal
    BY <1>5, <2>1, <2>2, <2>3 DEF Snapshot
  <2>5. QED
    BY <2>4 DEF Steady, Calm, Alike, Ids
<1>6. CASE Policy(t) \/ Mount(t)
  <2>1. Policy(t) => Goal
    BY <1>2 DEF Policy, Script, Changed, Ids
  <2>2. Mount(t) => Goal
    BY <1>2 DEF Mount, Inserted, Script, Changed, Ids
  <2>3. Goal
    BY <1>6, <2>1, <2>2
  <2>4. QED
    BY <2>3 DEF Steady, Calm, Alike, Ids
<1>7. CASE EnableHA(t) \/ DisableHA(t)
  <2>1. ASSUME EnableHA(t) PROVE Goal
    <3> DEFINE S == IF \E v \in ByIdentity(t) : vms[v].ha THEN ByIdentity(t) ELSE ByName(Name(t))
    <3>1. /\ vhds' = vhds /\ folders' = folders
          /\ vms' = vms \/ vms' = Changed(S, LAMBDA vm : [vm EXCEPT !.ha = TRUE])
      BY <2>1 DEF EnableHA, Script
    <3> HIDE DEF S
    <3>2. QED
      BY <1>2, <3>1 DEF Changed, Ids
  <2>2. DisableHA(t) => Goal
    BY SMTT(20), <1>2 DEF DisableHA, Script, Changed, Ids
  <2>3. Goal
    BY <1>7, <2>1, <2>2
  <2>4. QED
    BY <2>3 DEF Steady, Calm, Alike, Ids
<1>8. QED
  BY <1>3, <1>4, <1>5, <1>6, <1>7 DEF PolicyActs

(* Nor does a batch. *)
LEMMA BatchSteady ==
  ASSUME TInv, NEW t \in Tasks, BatchActs(t)
  PROVE  Steady
<1>1. CASE BatchCheck(t) \/ BatchEnd(t)
  BY <1>1 DEF BatchCheck, BatchEnd, hostVars, Steady, Calm, Ids
<1>2. CASE BatchVM(t)
  <2> DEFINE m == request[t].vms[Cardinality(Handled(t)) + 1].vm
  <2>1. /\ vhds' = vhds /\ folders' = folders
        /\ vms' = vms \/ vms' = [vms EXCEPT ![m].state = request[t].state]
    BY <1>2 DEF BatchVM
  <2> HIDE DEF m
  <2>2. \A v \in DOMAIN vms : DOMAIN vms[v] = VMFields
    BY DEF TInv, HostInv, VMsInv, VMOk, Ids
  <2>3. /\ DOMAIN vms' = DOMAIN vms
        /\ \A v \in DOMAIN vms : vms'[v] = vms[v] \/ \E x : vms'[v] = [vms[v] EXCEPT !.state = x]
    BY <2>1
  <2>4. ASSUME NEW v \in DOMAIN vms
        PROVE  /\ vms'[v].name = vms[v].name /\ vms'[v].home = vms[v].home
               /\ vms'[v].disks = vms[v].disks
    <3>1. vms'[v] = vms[v] \/ vms'[v] = [vms[v] EXCEPT !.state = request[t].state]
      BY <2>1
    <3>2. DOMAIN vms[v] = VMFields
      BY <2>2
    <3>3. QED
      BY <3>1, <3>2 DEF VMFields
  <2>5. QED
    BY <2>1, <2>3, <2>4 DEF Steady, Calm, Ids
<1>3. QED
  BY <1>1, <1>2 DEF BatchActs

(* Nor does an administrator who switches a VM on or off. *)
LEMMA SwitchSteady ==
  ASSUME TInv, NEW v \in Ids, Switch(v)
  PROVE  Steady /\ UNCHANGED <<request, pc, loc, answer>>
<1>1. /\ UNCHANGED <<request, pc, loc, answer, vhds, folders>>
      /\ vms' = [vms EXCEPT ![v].state = IF @ = "Off" THEN "Running" ELSE "Off"]
  BY DEF Switch, taskVars
<1>2. \A w \in DOMAIN vms : DOMAIN vms[w] = VMFields
  BY DEF TInv, HostInv, VMsInv, VMOk, Ids
<1>3. /\ DOMAIN vms' = DOMAIN vms
      /\ \A w \in DOMAIN vms : \/ vms'[w] = vms[w]
                             \/ \E x : vms'[w] = [vms[w] EXCEPT !.state = x]
  BY <1>1
<1>4. QED
  BY <1>1, <1>2, <1>3, FieldKept DEF Steady, Calm, Ids

(* Starting a handler, looking up a name and dying leave the host alone. *)
LEMMA IdleSteady ==
  ASSUME NEW t \in Tasks, Begins(t) \/ Resolve(t) \/ Kill(t)
  PROVE  Steady
BY DEF Begins, Begin, Resolve, Kill, hostVars, Steady, Calm, Ids

(* A steady host stays right as long as no clone or rename succeeds meanwhile. *)
LEMMA SteadyKeeps ==
  ASSUME HostOK, Steady, Remembered
  PROVE  HostOK'
BY CalmKeeps DEF Steady

(* Of a handler that is over nothing is asked. *)
LEMMA OverLocal ==
  ASSUME NEW t \in Tasks, Op(t)' = Op(t), pc'[t] \in {"done", "killed"}
  PROVE  Local(t)'
<1>1. /\ CreateLocal(t)' /\ ExportLocal(t)' /\ DeleteLocal(t)' /\ MoveLocal(t)' /\ EditLocal(t)'
  BY DEF CreateLocal, ExportLocal, DeleteLocal, MoveLocal, EditLocal, At, Rest, Converting, Relocating
<1>2. CloneLocal(t)'
  BY DEF CloneLocal, At, Rest, Before, Free, OwnVM, Converting, Ending
<1>3. QED
  BY <1>1, <1>2 DEF Local, Rest

(* A command that finds one VM means that one. *)
LEMMA OneVM ==
  ASSUME TInv, NEW S, S \subseteq Ids, Cardinality(S) = 1
  PROVE  \E v \in Ids : S = {v}
<1>1. IsFiniteSet(1..made) /\ S \in SUBSET (1..made)
  BY FS_Interval DEF TInv, HostInv, VMsInv
<1>2. IsFiniteSet(S)
  BY <1>1, FS_Subset
<1>3. QED
  BY <1>2, FS_Singleton

(* So does one by name. *)
LEMMA TheOne ==
  ASSUME TInv, NEW n, One(n)
  PROVE  The(n) \in Ids /\ ByName(n) = {The(n)}
<1>1. PICK v \in Ids : ByName(n) = {v}
  BY OneVM DEF One, ByName
<1>2. QED
  BY <1>1 DEF The, ByName

(* The last steps of vm_create and vm_clone leave names and disks alone. *)
LEMMA FinishSteady ==
  ASSUME TInv, NEW t \in Tasks, Finish(t)
  PROVE  Steady
<1>1. \A v \in DOMAIN vms : DOMAIN vms[v] = VMFields
  BY DEF TInv, HostInv, VMsInv, VMOk, Ids
<1> DEFINE Alike(w, v) == w.name = vms[v].name /\ w.home = vms[v].home /\ w.disks = vms[v].disks
<1>2. /\ \A v \in DOMAIN vms : Alike(vms[v], v)
      /\ \A v \in DOMAIN vms : \A x : Alike([vms[v] EXCEPT !.settings = x], v)
      /\ \A v \in DOMAIN vms : \A x : Alike([vms[v] EXCEPT !.state = x], v)
  BY <1>1, FieldKept
<1> HIDE DEF Alike
<1>3. vhds' = vhds /\ folders' = folders
  BY DEF Finish, Settle, FindId, PowerOn, hostVars
<1>4. DOMAIN vms' = DOMAIN vms /\ \A v \in DOMAIN vms : Alike(vms'[v], v)
  <2>1. CASE Settle(t)
    BY <2>1, <1>2 DEF Settle, Changed, Ids
  <2>2. CASE FindId(t)
    BY <2>2, <1>2 DEF FindId, hostVars
  <2>3. CASE PowerOn(t)
    BY <2>3, <1>2 DEF PowerOn, Changed, Ids
  <2>4. QED
    BY <2>1, <2>2, <2>3 DEF Finish
<1>5. QED
  BY <1>3, <1>4 DEF Steady, Calm, Alike, Ids

-----------------------------------------------------------------------------
(* vm_create *)

(* A step of vm_create keeps what is right, and its handler knows what it did. *)
LEMMA CreateKeeps ==
  ASSUME TInv, HostOK, NEW t \in Tasks, Acts(t), Op(t) = "vm_create", CreateLocal(t),
         CreateActs(t) \/ Finish(t)
  PROVE  HostOK' /\ CreateLocal(t)'
<1>1. Op(t)' = Op(t) /\ request' = request /\ Target(t)' = Target(t) /\ DiskFiles(t)' = DiskFiles(t)
  BY ActsProceeds DEF Proceeds, Op, Target, DiskFiles
<1>2. Remembered
  BY HistoryKept
<1>3. /\ \A s, l : GoWith(t, s, l) => pc'[t] = s /\ loc'[t] = l
      /\ \A s : Go(t, s) => pc'[t] = s /\ loc'[t] = loc[t]
      /\ \A a : Answer(t, a) => pc'[t] = "done"
      /\ Fail(t) => pc'[t] = "done"
  BY Ends
<1>4. DOMAIN loc[t] = LocFields /\ (\A v \in Ids : DOMAIN vms[v] = VMFields)
  BY DEF TInv, ControlInv, HostInv, VMsInv, VMOk
<1>5. pc'[t] = "done" => CreateLocal(t)'
  BY DEF CreateLocal, At, Rest
<1>6. /\ \A f \in DiskFiles(t) : IsFile(f) /\ f.dir = Target(t)
      /\ Target(t)[1] = "vms" /\ Target(t)[2] = request[t].name /\ Away(Target(t))
      /\ Named(t) \subseteq Ids
  BY DEF DiskFiles, Target, Folder, File, IsFile, Away, Named, ByName
<1>7. Steady => HostOK'
  BY <1>2, SteadyKeeps
<1>8. hostVars' = hostVars => Steady
  BY DEF hostVars, Steady, Calm, Ids
<1>9. CASE CreateSpace(t)
  <2>1. hostVars' = hostVars /\ (pc'[t] = "done" \/ (pc'[t] = "create.check" /\ loc'[t] = loc[t]))
    BY <1>9, <1>3 DEF CreateSpace, Space
  <2>2. loc[t].done = {}
    BY <1>9 DEF CreateSpace, At, CreateLocal
  <2>3. CreateLocal(t)'
    BY <2>1, <2>2, <1>5 DEF CreateLocal, CreateSteps, At
  <2>4. QED
    BY <2>1, <2>3, <1>7, <1>8
<1>10. CASE CreateCheck(t)
  <2>1. vms' = vms /\ vhds' = vhds /\ loc[t].done = {}
    BY <1>10 DEF CreateCheck, At, CreateLocal
  <2>2. Calm
    BY <2>1 DEF Calm, Ids
  <2>3. folders' = folders \/ folders' = folders \cup {Target(t)}
    BY <1>10 DEF CreateCheck
  <2>4. HostOK'
    BY <1>2, <2>1, <2>2, <2>3, CalmKeeps
  <2>5. CASE ~Taken(t) /\ folders' = folders \cup {Target(t)} /\ Go(t, "create.disk")
    <3>1. pc'[t] = "create.disk" /\ loc'[t] = loc[t] /\ Named(t)' = {}
      BY <2>1, <2>5, <1>1, <1>3 DEF Taken, Named, ByName, Ids
    <3>2. Unused(Target(t))
      BY <2>5 DEF Taken, Unused, HostOK, HomesInv, DisksInv
    <3>3. Unused(Target(t))'
      BY <3>2, <2>1, <1>1 DEF Unused, Ids
    <3>4. QED
      BY <2>1, <2>4, <2>5, <3>1, <3>3, <1>1 DEF CreateLocal, CreateSteps, At
  <2>6. QED
    BY <1>10, <2>4, <2>5, <1>3, <1>5 DEF CreateCheck
<1>11. CASE CreateDisk(t)
  <2> DEFINE missing == DiskFiles(t) \ loc[t].done
  <2>1. /\ vms' = vms /\ folders' = folders /\ Named(t) = {} /\ Target(t) \in folders
        /\ Unused(Target(t)) /\ loc[t].done \subseteq vhds \cap DiskFiles(t)
    BY <1>11 DEF CreateDisk, At, CreateLocal
  <2>2. PICK f \in missing :
          \/ vhds' = vhds \cup {f} /\ GoWith(t, "create.disk", [loc[t] EXCEPT !.done = @ \cup {f}])
          \/ vhds' = vhds /\ Fail(t)
    BY <1>11 DEF CreateDisk
  <2>0. f \in DiskFiles(t)
    OBVIOUS
  <2> HIDE DEF missing
  <2>3. Calm
    BY <2>1 DEF Calm, Ids
  <2>4. HostOK'
    BY <1>2, <2>1, <2>2, <2>3, CalmKeeps
  <2>5. Named(t)' = {} /\ Unused(Target(t))' /\ Target(t)' \in folders'
    BY <2>1, <1>1 DEF Named, ByName, Unused, Ids
  <2>6. CASE vhds' = vhds \cup {f} /\ GoWith(t, "create.disk", [loc[t] EXCEPT !.done = @ \cup {f}])
    <3>1. pc'[t] = "create.disk" /\ loc'[t].done = loc[t].done \cup {f}
      BY <2>6, <1>3, <1>4 DEF LocFields
    <3>2. QED
      BY <2>0, <2>1, <2>4, <2>5, <2>6, <3>1, <1>1 DEF CreateLocal, CreateSteps, At
  <2>7. QED
    BY <2>2, <2>4, <2>6, <1>3, <1>5
<1>12. CASE CreateVM(t)
  <2>1. /\ vhds' = vhds /\ folders' = folders /\ Named(t) = {} /\ Target(t) \in folders
        /\ Unused(Target(t)) /\ DiskFiles(t) \subseteq vhds
    BY <1>12 DEF CreateVM, At, CreateLocal
  <2>2. CASE vms' = vms
    <3>1. HostOK'
      BY <2>1, <2>2, <1>7 DEF Steady, Calm, Ids
    <3>2. Fail(t) \/ Registered(NewVM(request[t].name, Target(t), {OSDisk(t)}))
      BY <1>12 DEF CreateVM
    <3>3. made + 1 \notin Ids
      BY DEF TInv, HostInv, VMsInv
    <3>4. Fail(t)
      BY <3>2, <3>3, <2>2 DEF Registered, Ids
    <3>5. QED
      BY <3>1, <3>4, <1>3, <1>5
  <2>3. CASE Registered(NewVM(request[t].name, Target(t), {OSDisk(t)})) /\ OSDisk(t) \in vhds
    <3> DEFINE v == made + 1
               vm == NewVM(request[t].name, Target(t), {OSDisk(t)})
    <3>1. vms' = [w \in Ids \cup {v} |-> IF w = v THEN vm ELSE vms[w]]
      BY <2>3 DEF Registered
    <3>2. v \notin Ids
      BY DEF TInv, HostInv, VMsInv
    <3>3. vm.name = request[t].name /\ vm.home = Target(t) /\ vm.disks = {OSDisk(t)}
      BY DEF NewVM
    <3>4. IsFile(OSDisk(t)) /\ OSDisk(t).dir = Target(t)
      BY DEF OSDisk, File, IsFile
    <3> HIDE DEF v, vm
    <3>5. Ids' = Ids \cup {v} /\ vms'[v] = vm /\ \A w \in Ids : vms'[w] = vms[w]
      BY <3>1, <3>2 DEF Ids
    <3>6. \A w \in Ids : /\ vms[w].home # Target(t)
                         /\ \A f \in vms[w].disks : f.dir # Target(t)
      BY <2>1 DEF Unused
    <3>7. \A f \in vms'[v].disks : IsFile(f) /\ f \in vhds' /\ f.dir = Target(t)
      BY <2>1, <2>3, <3>3, <3>4, <3>5
    <3>8. HostOK'
      BY <1>2, <1>6, <2>1, <3>3, <3>5, <3>6, <3>7, Places
    <3>9. \A w \in Named(t)' : vms'[w].home = Target(t)
      BY <2>1, <3>3, <3>5, <1>1 DEF Named, ByName
    <3>10. (pc'[t] = "create.attach" /\ loc'[t] = loc[t]) \/ pc'[t] = "done"
      BY <1>12, <1>3 DEF CreateVM
    <3>11. pc'[t] = "create.attach" => CreateLocal(t)'
      BY <2>1, <3>9, <1>1 DEF CreateLocal, CreateSteps, At
    <3>12. QED
      BY <3>8, <3>10, <3>11, <1>5
  <2>4. QED
    BY <1>12, <2>2, <2>3 DEF CreateVM
<1>13. CASE CreateAttach(t)
  <2> DEFINE name == request[t].name
             attached == UNION {vms[v].disks : v \in ByName(name)}
             missing == DiskFiles(t) \ attached
  <2>1. /\ vhds' = vhds /\ folders' = folders /\ DiskFiles(t) \subseteq vhds
        /\ \A v \in Named(t) : vms[v].home = Target(t)
    BY <1>13 DEF CreateAttach, At, CreateLocal
  <2>2. CASE vms' = vms /\ (Go(t, "set") \/ Fail(t))
    <3>1. HostOK'
      BY <2>1, <2>2, <1>7 DEF Steady, Calm, Ids
    <3>2. pc'[t] = "set" => CreateLocal(t)'
      BY DEF CreateLocal, CreateSteps, At
    <3>3. QED
      BY <2>2, <3>1, <3>2, <1>3, <1>5
  <2>3. CASE ~(vms' = vms /\ (Go(t, "set") \/ Fail(t)))
    <3>1. PICK f \in missing : /\ vms' = [vms EXCEPT ![The(name)].disks = @ \cup {f}]
                               /\ One(name) /\ Go(t, "create.attach")
      BY <1>13, <2>3 DEF CreateAttach
    <3>2. The(name) \in Ids /\ Named(t) = {The(name)}
      BY <3>1, TheOne DEF Named
    <3> DEFINE v == The(name)
    <3> HIDE DEF v
    <3>3. /\ Ids' = Ids /\ vms'[v] = [vms[v] EXCEPT !.disks = @ \cup {f}] /\ v \in Ids
          /\ \A w \in Ids \ {v} : vms'[w] = vms[w]
      BY <3>1, <3>2 DEF v, Ids
    <3>4. /\ vms'[v].name = vms[v].name /\ vms'[v].home = vms[v].home
          /\ vms'[v].disks = vms[v].disks \cup {f}
      BY <3>3, <1>4 DEF VMFields
    <3>5. /\ IsFile(f) /\ f.dir = Target(t) /\ f \in vhds' /\ vms[v].home = Target(t)
          /\ vms[v].name = name
      BY <2>1, <3>2, <1>6 DEF v, Named, ByName
    <3>6. \A w \in Ids : vms[w].name # name => f \notin vms[w].disks /\ vms[w].home # f.dir
      BY <3>3, <3>5 DEF HostOK, ApartInv
    <3>7. {v} \subseteq ByName(name) /\ f.dir \in folders /\ Away(f.dir)
      BY <3>3, <3>5, <1>6 DEF ByName, HostOK, HomesInv
    <3>8. \A w \in Ids : /\ vms'[w].name = vms[w].name /\ vms'[w].home = vms[w].home
                         /\ vms'[w].disks = vms[w].disks \cup (IF w \in {v} THEN {f} ELSE {})
      BY <3>3, <3>4
    <3>9. folders \subseteq folders' /\ vhds \subseteq vhds'
      BY <2>1
    <3>10. HostOK'
      <4>1. PICK S, n : S = {v} /\ n = name
        OBVIOUS
      <4> HIDE DEF name, missing
      <4>2. S \subseteq ByName(n) /\ Ids' = Ids
        BY <3>3, <3>7, <4>1
      <4>3. /\ IsFile(f) /\ f.dir \in folders /\ Away(f.dir)
            /\ f \in vhds' /\ folders \subseteq folders' /\ vhds \subseteq vhds'
        BY <3>5, <3>7, <3>9
      <4>4. \A w \in Ids : vms[w].name # n => f \notin vms[w].disks /\ vms[w].home # f.dir
        BY <3>6, <4>1
      <4>5. \A w \in Ids : /\ vms'[w].name = vms[w].name /\ vms'[w].home = vms[w].home
                           /\ vms'[w].disks = vms[w].disks \cup (IF w \in S THEN {f} ELSE {})
        BY <3>8, <4>1
      <4>6. Attached(S, n, f)
        BY <4>2, <4>3, <4>4, <4>5 DEF Attached
      <4>7. QED
        BY <1>2, <4>6, Attaches
    <3>11. \A w \in Named(t)' : vms'[w].home = Target(t)
      BY <2>1, <3>3, <3>8, <1>1 DEF Named, ByName
    <3>12. pc'[t] = "create.attach" /\ loc'[t] = loc[t]
      BY <3>1, <1>3
    <3>13. QED
      BY <2>1, <3>10, <3>11, <3>12, <1>1 DEF CreateLocal, CreateSteps, At
  <2>4. QED
    BY <2>2, <2>3
<1>14. CASE Finish(t)
  <2>1. Steady
    BY <1>14, FinishSteady
  <2>2. pc'[t] \in {"id", "start", "done"}
    BY <1>14, <1>3 DEF Finish, Settle, FindId, PowerOn
  <2>3. CreateLocal(t)'
    BY <2>2, <1>5 DEF CreateLocal, CreateSteps, At
  <2>4. QED
    BY <2>1, <2>3, <1>7
<1>15. QED
  BY <1>9, <1>10, <1>11, <1>12, <1>13, <1>14 DEF CreateActs

(* Folders and files that no VM needs may come and go. *)
LEMMA Intact ==
  ASSUME HostOK, Remembered, vms' = vms, \A v \in Ids : vms[v].home \in folders',
         \A v \in Ids : \A f \in vms[v].disks : f.dir \in folders' /\ (f \in vhds => f \in vhds')
  PROVE  HostOK'
<1>1. Ids' = Ids
  BY DEF Ids
<1>2. \A v \in Ids' : /\ vms'[v].name = vms[v].name /\ vms'[v].home = vms[v].home
                      /\ vms'[v].disks \subseteq vms[v].disks
                      /\ vms[v].home \in folders'
                      /\ vms[v].home[2] = vms[v].name \/ Unfinished(v)'
  BY <1>1 DEF HostOK, HomesInv, Remembered
<1>3. \A v \in Ids' : \A f \in vms'[v].disks :
        f.dir \in folders' /\ (f \in vhds' \/ (Exempt(v, f)' /\ f.dir = vms[v].home))
  BY <1>1 DEF HostOK, DisksInv, Remembered
<1>4. QED
  BY <1>1, <1>2, <1>3, Shrinks

-----------------------------------------------------------------------------
(* vm_delete and vm_migrate *)

(* VMs of one name go, and with them files that are not disks of others. *)
LEMMA VMsGone ==
  ASSUME HostOK, Remembered, NEW n, NEW S, S \subseteq ByName(n),
         Ids' = Ids \ S, \A v \in Ids \ S : vms'[v] = vms[v], folders' = folders,
         \A v \in Ids \ S : \A f \in vms[v].disks : f \in vhds => f \in vhds'
  PROVE  HostOK'
<1>1. Ids' \subseteq Ids
  OBVIOUS
<1>2. \A v \in Ids' : /\ vms'[v].name = vms[v].name /\ vms'[v].home = vms[v].home
                      /\ vms'[v].disks \subseteq vms[v].disks
                      /\ vms[v].home \in folders'
                      /\ vms[v].home[2] = vms[v].name \/ Unfinished(v)'
  BY DEF HostOK, HomesInv, Remembered
<1>3. \A v \in Ids' : \A f \in vms'[v].disks :
        f.dir \in folders' /\ (f \in vhds' \/ (Exempt(v, f)' /\ f.dir = vms[v].home))
  BY DEF HostOK, DisksInv, Remembered
<1>4. QED
  BY <1>1, <1>2, <1>3, Shrinks

(* The role of the cluster is none of a VM's name, folder and disks. *)
LEMMA RoleSteady ==
  ASSUME TInv, NEW t \in Tasks, DeleteRole(t)
  PROVE  Steady
<1>1. \A v \in DOMAIN vms : DOMAIN vms[v] = VMFields
  BY DEF TInv, HostInv, VMsInv, VMOk, Ids
<1>2. /\ DOMAIN vms' = DOMAIN vms
      /\ \A v \in DOMAIN vms : vms'[v] = vms[v] \/ vms'[v] = [vms[v] EXCEPT !.ha = FALSE]
  BY DEF DeleteRole, Changed, Ids
<1>3. vhds' = vhds /\ folders' = folders
  BY DEF DeleteRole
<1>4. \A v \in DOMAIN vms : /\ vms'[v].name = vms[v].name /\ vms'[v].home = vms[v].home
                            /\ vms'[v].disks = vms[v].disks
  BY <1>1, <1>2 DEF VMFields
<1>5. QED
  BY <1>2, <1>3, <1>4 DEF Steady, Calm, Ids

(* A step of vm_delete keeps what is right, and its handler knows what it removes. *)
LEMMA DeleteKeeps ==
  ASSUME TInv, HostOK, NEW t \in Tasks, Acts(t), Op(t) = "vm_delete", DeleteLocal(t),
         Resolve(t) \/ DeleteActs(t)
  PROVE  HostOK' /\ DeleteLocal(t)'
<1>1. Op(t)' = Op(t) /\ request' = request
  BY ActsProceeds DEF Proceeds, Op
<1>2. Remembered
  BY HistoryKept
<1>3. /\ \A s, l : GoWith(t, s, l) => pc'[t] = s /\ loc'[t] = l
      /\ \A s : Go(t, s) => pc'[t] = s /\ loc'[t] = loc[t]
      /\ \A a : Answer(t, a) => pc'[t] = "done"
      /\ Fail(t) => pc'[t] = "done"
  BY Ends
<1>4. DOMAIN loc[t] = LocFields
  BY DEF TInv, ControlInv
<1>5. pc'[t] \in {"done", "vm_delete"} => DeleteLocal(t)'
  BY DEF DeleteLocal, At, Rest
<1>6. hostVars' = hostVars => Steady /\ HostOK'
  BY <1>2, SteadyKeeps DEF hostVars, Steady, Calm, Ids
<1>7. CASE Resolve(t)
  <2>1. pc'[t] \in {"done", "vm_delete"}
    BY <1>7, <1>3 DEF Resolve, Op
  <2>2. QED
    BY <2>1, <1>5, <1>6, <1>7 DEF Resolve
<1>8. CASE DeleteCheck(t)
  <2>1. HostOK' /\ vms' = vms
    BY <1>8, <1>6 DEF DeleteCheck, hostVars
  <2>2. CASE Fail(t)
    BY <2>1, <2>2, <1>3, <1>5
  <2>3. CASE ~Fail(t)
    <3> DEFINE v == The(Name(t))
    <3>1. PICK D : /\ GoWith(t, "delete.role", [loc[t] EXCEPT !.home = vms[v].home, !.disks = D])
                   /\ D \subseteq vms[v].disks /\ One(Name(t))
      <4> DEFINE listed == IF request[t].files THEN vms[v].disks ELSE {}
                 Noted(D) == GoWith(t, "delete.role", [loc[t] EXCEPT !.home = vms[v].home, !.disks = D])
                 none == {}
      <4>1. One(Name(t)) /\ (Noted(listed) \/ Noted(none))
        BY <1>8, <2>3 DEF DeleteCheck, Name
      <4>2. listed \subseteq vms[v].disks /\ none \subseteq vms[v].disks
        OBVIOUS
      <4> HIDE DEF listed, none, v
      <4>3. QED
        BY <4>1, <4>2
    <3>2. v \in Ids /\ ByName(Name(t)) = {v}
      BY <3>1, TheOne
    <3> HIDE DEF v
    <3>3. /\ pc'[t] = "delete.role" /\ loc'[t].home = vms[v].home /\ loc'[t].disks = D
          /\ loc'[t].name = loc[t].name
      BY <3>1, <1>3, <1>4 DEF LocFields
    <3>4. ByName(Name(t))' = {v}
      BY <3>2, <3>3, <2>1 DEF ByName, Name, Ids
    <3>5. \E w \in Ids' : /\ ByName(Name(t))' = {w} /\ vms'[w].home = loc'[t].home
                          /\ loc'[t].disks \subseteq vms'[w].disks
      BY <3>1, <3>2, <3>3, <3>4, <2>1 DEF Ids
    <3>6. DeleteLocal(t)'
      BY <3>3, <3>5 DEF DeleteLocal, At
    <3>7. QED
      BY <2>1, <3>6
  <2>4. QED
    BY <2>2, <2>3
<1>12. CASE DeleteRole(t)
  <2>1. PICK v \in Ids : /\ ByName(Name(t)) = {v} /\ vms[v].home = loc[t].home
                         /\ loc[t].disks \subseteq vms[v].disks
    BY <1>12 DEF DeleteRole, DeleteLocal, At
  <2>2. Steady
    BY <1>12, RoleSteady
  <2>3. pc'[t] = "delete.vm" /\ loc'[t] = loc[t]
    BY <1>12, <1>3 DEF DeleteRole
  <2>4. /\ v \in Ids' /\ ByName(Name(t))' = {v} /\ vms'[v].home = loc'[t].home
        /\ loc'[t].disks \subseteq vms'[v].disks
    BY <2>1, <2>2, <2>3 DEF Steady, Calm, ByName, Name
  <2>5. DeleteLocal(t)'
    BY <2>3, <2>4 DEF DeleteLocal, At
  <2>6. QED
    BY <2>2, <2>5, <1>2, SteadyKeeps
<1>9. CASE DeleteVM(t)
  <2>1. PICK v \in Ids : /\ ByName(Name(t)) = {v} /\ vms[v].home = loc[t].home
                         /\ loc[t].disks \subseteq vms[v].disks
    BY <1>9 DEF DeleteVM, DeleteLocal, At
  <2>2. vhds' = vhds /\ folders' = folders
    BY <1>9 DEF DeleteVM
  <2>3. PICK S : /\ Ids' = Ids \ S /\ \A w \in Ids \ S : vms'[w] = vms[w]
                 /\ S \subseteq {v}
                 /\ pc'[t] = "done" \/ (pc'[t] = "delete.files" /\ S = {v} /\ loc'[t] = loc[t])
    <3>1. CASE vms' = vms /\ Fail(t)
      <4> DEFINE none == {}
      <4>1. /\ Ids' = Ids \ none /\ \A w \in Ids \ none : vms'[w] = vms[w]
            /\ none \subseteq {v} /\ pc'[t] = "done"
        BY <3>1, <1>3 DEF Ids
      <4> HIDE DEF none
      <4>2. QED
        BY <4>1
    <3>2. CASE ~(vms' = vms /\ Fail(t))
      <4>1. PICK S : /\ vms' = Without(S) /\ S \subseteq {v}
                     /\ pc'[t] = "done"
                        \/ (pc'[t] = "delete.files" /\ S = {v} /\ loc'[t] = loc[t])
        BY <3>2, <1>3, <1>9, <2>1 DEF DeleteVM, Name
      <4>2. QED
        BY <4>1 DEF Without, Ids
    <3>3. QED
      BY <3>1, <3>2
  <2>4. Ids' = Ids \ S /\ \A w \in Ids \ S : vms'[w] = vms[w]
    BY <2>3
  <2>5. HostOK'
    BY <1>2, <2>1, <2>2, <2>3, <2>4, VMsGone
  <2>6. CASE S = {v} /\ loc'[t] = loc[t] /\ pc'[t] = "delete.files"
    <3>1. \A w \in Ids \ {v} : w \in Ids /\ vms[w].name # vms[v].name
      BY <2>1 DEF ByName
    <3>2. \A w \in Ids \ {v} : /\ vms[w].home # loc[t].home
                               /\ \A f \in vms[w].disks : f.dir # loc[t].home
                               /\ vms[w].disks \cap loc[t].disks = {}
      BY <2>1, <3>1 DEF HostOK, ApartInv
    <3>3. QED
      BY <2>4, <2>5, <2>6, <3>2 DEF DeleteLocal, At, Unused
  <2>7. QED
    BY <2>3, <2>5, <2>6, <1>5
<1>10. CASE DeleteFiles(t)
  <2>1. /\ Unused(loc[t].home) /\ \A v \in Ids : vms[v].disks \cap loc[t].disks = {}
        /\ vms' = vms /\ pc'[t] = "done"
    BY <1>10, <1>3 DEF DeleteFiles, DeleteLocal, At
  <2>2. vhds \ (FilesIn(loc[t].home) \cup loc[t].disks) \subseteq vhds'
    BY <1>10 DEF DeleteFiles
  <2>3. folders \ {loc[t].home} \subseteq folders'
    BY <1>10 DEF DeleteFiles
  <2>4. /\ \A v \in Ids : vms[v].home \in folders'
        /\ \A v \in Ids : \A f \in vms[v].disks : f.dir \in folders' /\ (f \in vhds => f \in vhds')
    BY <2>1, <2>2, <2>3 DEF Unused, FilesIn, HostOK, HomesInv, DisksInv
  <2>5. HostOK'
    BY <2>1, <2>4, <1>2, Intact
  <2>6. QED
    BY <2>1, <2>5, <1>5
<1>11. QED
  BY <1>7, <1>8, <1>9, <1>10, <1>12 DEF DeleteActs

(* A migration takes the one VM of a name away, and its disks with it or not. *)
LEMMA MigrateKeeps ==
  ASSUME TInv, HostOK, NEW t \in Tasks, Acts(t), Op(t) = "vm_migrate", Migrate(t)
  PROVE  HostOK' /\ pc'[t] = "done"
<1>1. Remembered
  BY HistoryKept
<1>2. pc'[t] = "done"
  BY Ends DEF Migrate
<1>3. CASE UNCHANGED <<vms, vhds, fixed>>
  <2>1. Steady
    BY <1>3 DEF Migrate, Steady, Calm, Ids
  <2>2. QED
    BY <1>1, <1>2, <2>1, SteadyKeeps
<1>4. CASE ~UNCHANGED <<vms, vhds, fixed>>
  <2> DEFINE S == ByName(Name(t))
             moved == UNION {IF WithFiles(t, vms[v]) THEN vms[v].disks ELSE {} : v \in S}
  <2>1. One(Name(t)) /\ vms' = Without(S) /\ vhds' = vhds \ moved /\ folders' = folders
    BY <1>4 DEF Migrate
  <2>2. PICK v \in Ids : S = {v}
    BY <2>1, TheOne
  <2>3. moved \subseteq vms[v].disks
    BY <2>2
  <2>4. \A w \in Ids \ S : vms[w].name # vms[v].name
    BY <2>2 DEF ByName
  <2>5. \A w \in Ids \ S : \A f \in vms[w].disks : f \in vhds => f \in vhds'
    BY <2>1, <2>2, <2>3, <2>4 DEF HostOK, ApartInv
  <2>6. Ids' = Ids \ S /\ \A w \in Ids \ S : vms'[w] = vms[w]
    BY <2>1 DEF Without, Ids
  <2>7. S \subseteq ByName(Name(t)) /\ folders' = folders
    BY <2>1
  <2> HIDE DEF S, moved
  <2>8. HostOK'
    BY <1>1, <2>5, <2>6, <2>7, VMsGone
  <2>9. QED
    BY <1>2, <2>8
<1>5. QED
  BY <1>3, <1>4

(* VMs may lose disks. *)
LEMMA LosesDisks ==
  ASSUME HostOK, Remembered, Ids' = Ids, UNCHANGED <<vhds, folders>>,
         \A v \in Ids : /\ vms'[v].name = vms[v].name /\ vms'[v].home = vms[v].home
                        /\ vms'[v].disks \subseteq vms[v].disks
  PROVE  HostOK'
<1>1. \A v \in Ids' : /\ vms'[v].name = vms[v].name /\ vms'[v].home = vms[v].home
                      /\ vms'[v].disks \subseteq vms[v].disks
                      /\ vms[v].home \in folders'
                      /\ vms[v].home[2] = vms[v].name \/ Unfinished(v)'
  BY DEF HostOK, HomesInv, Remembered
<1>2. \A v \in Ids' : \A f \in vms'[v].disks :
        f.dir \in folders' /\ (f \in vhds' \/ (Exempt(v, f)' /\ f.dir = vms[v].home))
  BY DEF HostOK, DisksInv, Remembered
<1>3. Ids' \subseteq Ids
  OBVIOUS
<1>4. QED
  BY <1>1, <1>2, <1>3, Shrinks

-----------------------------------------------------------------------------
(* vm_export_template *)

(* A step of an export keeps what is right: what it writes and removes is in no VM's folder. *)
LEMMA ExportKeeps ==
  ASSUME TInv, HostOK, NEW t \in Tasks, Acts(t), Op(t) = "vm_export_template", ExportLocal(t),
         Resolve(t) \/ ExportActs(t) \/ Convert(t)
  PROVE  HostOK' /\ ExportLocal(t)'
<1>1. Op(t)' = Op(t) /\ request' = request
  BY ActsProceeds DEF Proceeds, Op
<1>2. Remembered
  BY HistoryKept
<1>3. /\ \A s, l : GoWith(t, s, l) => pc'[t] = s /\ loc'[t] = l
      /\ \A s : Go(t, s) => pc'[t] = s /\ loc'[t] = loc[t]
      /\ \A a : Answer(t, a) => pc'[t] = "done"
      /\ Fail(t) => pc'[t] = "done"
  BY Ends
<1>4. DOMAIN loc[t] = LocFields
  BY DEF TInv, ControlInv
<1>5. pc'[t] \in {"done", "vm_export_template", "export", "export.metadata"} => ExportLocal(t)'
  BY DEF ExportLocal, ExportSteps, Rest, Converting
<1>6. hostVars' = hostVars => HostOK'
  BY <1>2, SteadyKeeps DEF hostVars, Steady, Calm, Ids
<1>7. vms' = vms /\ folders \subseteq folders' /\ vhds \subseteq vhds' => HostOK'
  BY <1>2, CalmKeeps DEF Calm, Ids
<1>8. CASE Resolve(t)
  <2>1. pc'[t] \in {"done", "vm_export_template"}
    BY <1>8, <1>3 DEF Resolve, Op
  <2>2. QED
    BY <2>1, <1>5, <1>6, <1>8 DEF Resolve
<1>9. CASE ExportCheck(t)
  <2>1. pc'[t] \in {"done", "export"} /\ hostVars' = hostVars
    BY <1>9, <1>3 DEF ExportCheck, Space
  <2>2. QED
    BY <2>1, <1>5, <1>6
<1>10. CASE Export(t)
  <2> DEFINE disks == vms[The(Name(t))].disks
             todo == IF vms[The(Name(t))].snaps = 0 THEN {Copy(f, Template(t)) : f \in disks} ELSE {}
  <2>1. HostOK'
    <3>1. vms' = vms /\ folders \subseteq folders' /\ vhds \subseteq vhds'
      BY <1>10 DEF Export, CopyAll, CopySome
    <3>2. QED
      BY <3>1, <1>7
  <2>2. Fail(t) \/ GoWith(t, "convert", [loc[t] EXCEPT !.disks = todo])
    BY <1>10 DEF Export
  <2>3. \A f \in todo : IsFile(f) /\ ~Away(f.dir)
    BY DEF Copy, File, IsFile, Away, Template, Folder
  <2> HIDE DEF todo
  <2>4. CASE GoWith(t, "convert", [loc[t] EXCEPT !.disks = todo])
    <3>1. pc'[t] = "convert" /\ loc'[t].disks = todo
      BY <2>4, <1>3, <1>4 DEF LocFields
    <3>2. QED
      BY <2>1, <2>3, <3>1 DEF ExportLocal, ExportSteps, Converting
  <2>5. QED
    BY <2>1, <2>2, <2>4, <1>3, <1>5
<1>11. CASE ExportMetadata(t)
  <2>1. pc'[t] = "done" /\ hostVars' = hostVars
    BY <1>11, <1>3 DEF ExportMetadata
  <2>2. QED
    BY <2>1, <1>5, <1>6
<1>12. CASE ConvertDisk(t)
  <2>1. vms' = vms /\ folders' = folders /\ vhds \subseteq vhds'
    BY <1>12 DEF ConvertDisk
  <2>2. HostOK' /\ \A f \in loc[t].disks : IsFile(f) /\ ~Away(f.dir)
    BY <2>1, <1>7, <1>12 DEF ConvertDisk, At, ExportLocal, Converting
  <2>3. CASE Go(t, After(t))
    <3>1. pc'[t] = "export.metadata"
      BY <2>3, <1>3 DEF After, Op
    <3>2. QED
      BY <2>2, <3>1, <1>5
  <2>4. CASE ~Go(t, After(t))
    <3>1. PICK f \in ToConvert(t) :
            \/ GoWith(t, "convert.remove", [loc[t] EXCEPT !.done = {f}])
            \/ GoWith(t, "convert", [loc[t] EXCEPT !.disks = @ \ {f}, !.failed = @ \cup {f}])
      BY <1>12, <2>4 DEF ConvertDisk
    <3>2. f \in loc[t].disks
      BY DEF ToConvert, Op
    <3>3. CASE GoWith(t, "convert.remove", [loc[t] EXCEPT !.done = {f}])
      <4>1. pc'[t] = "convert.remove" /\ loc'[t].done = {f} /\ loc'[t].disks = loc[t].disks
        BY <3>3, <1>3, <1>4 DEF LocFields
      <4>2. QED
        BY <2>2, <3>2, <4>1 DEF ExportLocal, ExportSteps, Converting
    <3>4. CASE GoWith(t, "convert", [loc[t] EXCEPT !.disks = @ \ {f}, !.failed = @ \cup {f}])
      <4>1. pc'[t] = "convert" /\ loc'[t].disks = loc[t].disks \ {f}
        BY <3>4, <1>3, <1>4 DEF LocFields
      <4>2. QED
        BY <2>2, <4>1 DEF ExportLocal, ExportSteps, Converting
    <3>5. QED
      BY <3>1, <3>3, <3>4
  <2>5. QED
    BY <2>3, <2>4
<1>13. CASE ConvertRemove(t) \/ ConvertRename(t)
  <2>1. PICK f \in loc[t].disks : loc[t].done = {f}
    BY <1>13 DEF ConvertRemove, ConvertRename, At, ExportLocal
  <2>2. \A g \in loc[t].disks : IsFile(g) /\ ~Away(g.dir)
    BY <1>13 DEF ConvertRemove, ConvertRename, At, ExportLocal, Converting
  <2>3. Converted(f).dir = f.dir
    BY <2>1, <2>2 DEF Converted, IsFile
  <2>4. vms' = vms /\ folders' = folders
    BY <1>13 DEF ConvertRemove, ConvertRename
  <2>5. (CHOOSE d \in loc[t].done : TRUE) = f
    BY <2>1
  <2>6. vhds \ {f, Converted(f)} \subseteq vhds'
    BY <1>13, <2>5 DEF ConvertRemove, ConvertRename, Replace, Leftover
  <2>7. \A v \in Ids : \A g \in vms[v].disks : g # f /\ g # Converted(f)
    BY <2>1, <2>2, <2>3 DEF HostOK, DisksInv
  <2>8. HostOK'
    BY <2>4, <2>6, <2>7, <1>2, CalmKeeps DEF Calm, Ids
  <2>9. /\ DOMAIN NextDisk(t) = LocFields /\ NextDisk(t).disks = loc[t].disks \ {f}
        /\ Logged(t).disks = loc[t].disks \ {f}
    BY <2>1, <1>4 DEF NextDisk, Logged, LocFields
  <2>10. \/ pc'[t] = "convert.rename" /\ loc'[t] = loc[t]
         \/ pc'[t] = "convert" /\ loc'[t].disks = loc[t].disks \ {f}
    BY <1>13, <2>9, <1>3 DEF ConvertRemove, ConvertRename
  <2>11. ExportLocal(t)'
    BY <2>1, <2>2, <2>10 DEF ExportLocal, ExportSteps, Converting
  <2>12. QED
    BY <2>8, <2>11
<1>14. QED
  BY <1>8, <1>9, <1>10, <1>11, <1>12, <1>13 DEF ExportActs, Convert

-----------------------------------------------------------------------------
(* vm_edit *)

(* A step of an edit keeps what is right, and what it wipes is no VM's. *)
LEMMA EditKeeps ==
  ASSUME TInv, HostOK, NEW t \in Tasks, Acts(t), Op(t) = "vm_edit", EditLocal(t), Sound(t),
         EditStep(t)
  PROVE  HostOK' /\ EditLocal(t)'
<1>2. Remembered
  BY HistoryKept
<1>3. /\ \A s, l : GoWith(t, s, l) => pc'[t] = s /\ loc'[t] = l
      /\ \A s : Go(t, s) => pc'[t] = s /\ loc'[t] = loc[t]
      /\ \A a : Answer(t, a) => pc'[t] = "done"
      /\ Fail(t) => pc'[t] = "done"
  BY Ends
<1>4. DOMAIN loc[t] = LocFields /\ (\A v \in Ids : DOMAIN vms[v] = VMFields)
  BY DEF TInv, ControlInv, HostInv, VMsInv, VMOk
<1>5. pc'[t] # "edit.wipe" => EditLocal(t)'
  BY DEF EditLocal, At
<1>6. hostVars' = hostVars => HostOK'
  BY <1>2, SteadyKeeps DEF hostVars, Steady, Calm, Ids
<1>7. CASE \/ request[t].op = "vm_edit" /\ Begin(t, "vm_edit")
           \/ EditCheck(t) \/ EditDisks(t) \/ EditGrow(t) \/ EditEnd(t)
  <2>1. hostVars' = hostVars
    BY <1>7 DEF Begin, EditCheck, EditDisks, Space, EditGrow, EditEnd
  <2>2. pc'[t] # "edit.wipe"
    BY <1>7, <1>3 DEF Begin, EditCheck, EditDisks, Space, EditGrow, EditEnd
  <2>3. QED
    BY <2>1, <2>2, <1>5, <1>6
<1>8. CASE EditSet(t) \/ EditNICs(t)
  <2>1. vhds' = vhds /\ folders' = folders /\ pc'[t] # "edit.wipe"
    BY <1>8, <1>3 DEF EditSet, EditNICs
  <2>2. /\ DOMAIN vms' = DOMAIN vms
        /\ \A v \in DOMAIN vms : /\ vms'[v].name = vms[v].name /\ vms'[v].home = vms[v].home
                                 /\ vms'[v].disks = vms[v].disks
    <3> DEFINE S == ByName(EditName(t))
    <3>1. CASE EditSet(t)
      <4>1. \/ vms' = vms
            \/ \E x : vms' = [v \in DOMAIN vms |->
                            IF v \in S THEN [vms[v] EXCEPT !.settings = @ \cup {x}] ELSE vms[v]]
        BY <3>1 DEF EditSet, Changed, Ids
      <4> HIDE DEF S
      <4>2. QED
        BY <4>1, <1>4 DEF VMFields, Ids
    <3>2. CASE EditNICs(t)
      <4>1. \E x : vms' = [v \in DOMAIN vms |->
                        IF v \in S THEN [vms[v] EXCEPT !.nics = @ + x] ELSE vms[v]]
        BY <3>2 DEF EditNICs, Changed, Ids
      <4> HIDE DEF S
      <4>2. QED
        BY <4>1, <1>4 DEF VMFields, Ids
    <3>3. QED
      BY <1>8, <3>1, <3>2
  <2>3. HostOK'
    BY <2>1, <2>2, <1>2, SteadyKeeps DEF Steady, Calm, Ids
  <2>4. QED
    BY <2>1, <2>3, <1>5
<1>9. CASE EditAdd(t)
  <2> DEFINE S == ByName(EditName(t))
  <2>1. folders' = folders /\ pc'[t] # "edit.wipe"
    <3>1. folders' = folders /\ (Fail(t) \/ \E l : GoWith(t, "edit.grow", l) \/ GoWith(t, "edit.add", l))
      BY <1>9 DEF EditAdd
    <3>2. QED
      BY <3>1, <1>3
  <2>2. CASE vms' = vms /\ vhds \subseteq vhds'
    <3>1. HostOK'
      BY <2>1, <2>2, <1>2, CalmKeeps DEF Calm, Ids
    <3>2. QED
      BY <2>1, <3>1, <1>5
  <2>3. CASE ~(vms' = vms /\ vhds \subseteq vhds')
    <3>1. PICK f \in request[t].add :
            /\ f \notin vhds /\ vhds' = vhds \cup {f}
            /\ vms' = [w \in Ids |-> IF w \in S THEN [vms[w] EXCEPT !.disks = @ \cup {f}] ELSE vms[w]]
      BY <1>9, <2>3 DEF EditAdd, Changed
    <3>2. /\ IsFile(f) /\ f.dir \in folders /\ Away(f.dir)
          /\ \A v \in Ids : vms[v].home = f.dir => vms[v].name = EditName(t)
      BY <1>9 DEF EditAdd, Sound
    <3>3. \A v \in Ids : vms[v].name # EditName(t) => f \notin vms[v].disks /\ vms[v].home # f.dir
      BY <3>1, <3>2 DEF HostOK, DisksInv
    <3>4. /\ Ids' = Ids
          /\ \A v \in Ids : /\ vms'[v].name = vms[v].name /\ vms'[v].home = vms[v].home
                            /\ vms'[v].disks = vms[v].disks \cup (IF v \in S THEN {f} ELSE {})
      <4>1. DOMAIN vms' = DOMAIN vms
        BY <3>1 DEF Ids
      <4>2. ASSUME NEW v \in Ids, v \in S
            PROVE  /\ vms'[v].name = vms[v].name /\ vms'[v].home = vms[v].home
                   /\ vms'[v].disks = vms[v].disks \cup {f}
        <5>1. vms'[v] = [vms[v] EXCEPT !.disks = @ \cup {f}]
          BY <3>1, <4>2
        <5>2. QED
          BY <5>1, <1>4 DEF VMFields
      <4>3. \A v \in Ids : v \notin S => vms'[v] = vms[v]
        BY <3>1
      <4>4. QED
        BY <4>1, <4>2, <4>3 DEF Ids
    <3>5. S \subseteq ByName(EditName(t)) /\ f \in vhds' /\ folders \subseteq folders' /\ vhds \subseteq vhds'
      BY <2>1, <3>1
    <3> HIDE DEF S
    <3>6. HostOK'
      <4>1. PICK n : n = EditName(t)
        OBVIOUS
      <4>2. Attached(S, n, f)
        BY <3>2, <3>3, <3>4, <3>5, <4>1 DEF Attached
      <4>3. QED
        BY <1>2, <4>2, Attaches
    <3>7. QED
      BY <2>1, <3>6, <1>5
  <2>4. QED
    BY <2>2, <2>3
<1>10. CASE EditRemove(t)
  <2> DEFINE S == ByName(EditName(t))
  <2>1. vhds' = vhds /\ folders' = folders
    BY <1>10 DEF EditRemove
  <2>2. CASE vms' = vms /\ (Go(t, "edit.nics") \/ Fail(t))
    <3>1. HostOK'
      BY <2>1, <2>2, <1>2, SteadyKeeps DEF Steady, Calm, Ids
    <3>2. QED
      BY <2>2, <3>1, <1>3, <1>5
  <2>3. CASE ~(vms' = vms /\ (Go(t, "edit.nics") \/ Fail(t)))
    <3> DEFINE next == IF request[t].wipe THEN "edit.wipe" ELSE "edit.remove"
    <3>1. PICK f \in request[t].remove :
            /\ \E v \in S : f \in vms[v].disks
            /\ vms' = [w \in Ids |-> IF w \in S THEN [vms[w] EXCEPT !.disks = @ \ {f}] ELSE vms[w]]
            /\ GoWith(t, next, [loc[t] EXCEPT !.done = @ \cup {f}, !.disks = {f}])
      BY <1>10, <2>3 DEF EditRemove, Changed
    <3>2. DOMAIN vms' = DOMAIN vms /\ \A v \in Ids : v \notin S => vms'[v] = vms[v]
      BY <3>1 DEF Ids
    <3>3. ASSUME NEW v \in Ids, v \in S
          PROVE  /\ vms'[v].name = vms[v].name /\ vms'[v].home = vms[v].home
                 /\ vms'[v].disks = vms[v].disks \ {f}
      <4>1. vms'[v] = [vms[v] EXCEPT !.disks = @ \ {f}]
        BY <3>1, <3>3
      <4>2. QED
        BY <4>1, <1>4 DEF VMFields
    <3>4. /\ Ids' = Ids
          /\ \A v \in Ids : /\ vms'[v].name = vms[v].name /\ vms'[v].home = vms[v].home
                            /\ vms'[v].disks \subseteq vms[v].disks
      BY <3>2, <3>3 DEF Ids
    <3>5. HostOK'
      BY <2>1, <3>4, <1>2, LosesDisks
    <3>6. pc'[t] = next /\ loc'[t].disks = {f}
      BY <3>1, <1>3, <1>4 DEF LocFields
    <3>7. \A v \in Ids : f \notin vms'[v].disks
      <4>1. PICK w \in S : f \in vms[w].disks
        BY <3>1
      <4>2. \A v \in Ids \ S : f \notin vms[v].disks
        BY <4>1 DEF ByName, HostOK, ApartInv
      <4>3. QED
        BY <3>2, <3>3, <4>2
    <3>8. EditLocal(t)'
      BY <3>4, <3>6, <3>7 DEF EditLocal
    <3>9. QED
      BY <3>5, <3>8
  <2>4. QED
    BY <2>2, <2>3
<1>11. CASE EditWipe(t)
  <2>1. vms' = vms /\ folders' = folders /\ vhds \ loc[t].disks \subseteq vhds' /\ pc'[t] # "edit.wipe"
    BY <1>11, <1>3 DEF EditWipe
  <2>2. \A v \in Ids : vms[v].disks \cap loc[t].disks = {}
    BY <1>11 DEF EditWipe, EditLocal
  <2>3. \A v \in Ids : \A f \in vms[v].disks : f \in vhds => f \in vhds'
    BY <2>1, <2>2
  <2>4. HostOK'
    BY <2>1, <2>3, <1>2, CalmKeeps DEF Calm, Ids
  <2>5. QED
    BY <2>1, <2>4, <1>5
<1>12. QED
  BY <1>7, <1>8, <1>9, <1>10, <1>11 DEF EditStep

-----------------------------------------------------------------------------
(* vm_rename and vm_move *)

(* A clone or a rename that ends changes the history of its own VM only. *)
LEMMA HistoryOfOthers ==
  ASSUME TInv, NEW t \in Tasks, Acts(t), NEW v \in Ids
  PROVE  /\ \A f : Exempt(v, f) => Exempt(v, f)' \/ (Op(t) = "vm_clone" /\ loc[t].vm = v)
         /\ Unfinished(v) => \/ Unfinished(v)'
                             \/ Op(t) = "vm_clone" /\ loc[t].vm = v
                             \/ Op(t) = "vm_rename" /\ request[t].vm = v
<1>1. Proceeds(t)
  BY ActsProceeds
<1>2. \A u \in Tasks : Op(u)' = Op(u) /\ request'[u] = request[u]
  BY <1>1 DEF Proceeds, Op
<1>3. \A u \in Tasks \ {t} : (Completed(u)' <=> Completed(u)) /\ (Ran(u)' <=> Ran(u)) /\ loc'[u] = loc[u]
  BY <1>1 DEF Proceeds, Completed, Ran
<1>4. ASSUME NEW f, Exempt(v, f), ~(Op(t) = "vm_clone" /\ loc[t].vm = v)
      PROVE  Exempt(v, f)'
  <2>1. PICK u \in Tasks : /\ Op(u) = "vm_clone" /\ loc[u].vm = v
                           /\ Completed(u) => f \in loc[u].failed
    BY <1>4 DEF Exempt
  <2>2. u \in Tasks \ {t}
    BY <1>4, <2>1
  <2>3. Op(u)' = "vm_clone" /\ loc'[u].vm = v /\ (Completed(u)' => f \in loc'[u].failed)
    BY <2>1, <2>2, <1>2, <1>3
  <2>4. QED
    BY <2>3 DEF Exempt
<1>5. ASSUME Unfinished(v), ~(Op(t) = "vm_clone" /\ loc[t].vm = v),
             ~(Op(t) = "vm_rename" /\ request[t].vm = v)
      PROVE  Unfinished(v)'
  <2>1. PICK u \in Tasks : Ran(u) /\ Behind(u, v)
    BY <1>5 DEF Unfinished
  <2>2. u \in Tasks \ {t}
    BY <1>5, <2>1 DEF Behind
  <2>3. Ran(u)' /\ Behind(u, v)'
    BY <2>1, <2>2, <1>2, <1>3 DEF Behind
  <2>4. QED
    BY <2>3 DEF Unfinished
<1>6. QED
  BY <1>4, <1>5

(* The cleanup of a move ends it, and what it removes is nobody's. *)
LEMMA CleanKeeps ==
  ASSUME TInv, HostOK, NEW t \in Tasks, Acts(t), Op(t) \in {"vm_rename", "vm_move"}, MoveLocal(t),
         CleanLook(t) \/ CleanRemove(t)
  PROVE  HostOK' /\ MoveLocal(t)'
<1> DEFINE v == request[t].vm
<1>1. Op(t)' = Op(t) /\ request' = request
  BY ActsProceeds DEF Proceeds, Op
<1>2. /\ \A s : Go(t, s) => pc'[t] = s /\ loc'[t] = loc[t] /\ answer' = answer
      /\ Verdict(t) => /\ pc'[t] = "done"
                       /\ answer'[t] = IF loc[t].ok THEN "completed" ELSE "failed"
  BY Ends DEF Verdict
<1>3. vms' = vms /\ pc[t] \in {"clean", "clean.remove"}
  BY DEF CleanLook, CleanRemove, hostVars, At
<1>4. /\ Away(loc[t].home)
      /\ loc[t].ok =>
           \/ v \in Ids /\ vms[v].home[2] = vms[v].name
           \/ Op(t) = "vm_rename" /\ v \in loc[t].failed
      /\ At(t, "clean.remove") => FilesIn(loc[t].home) = {} /\ \A w \in Ids : vms[w].home # loc[t].home
  BY <1>3 DEF MoveLocal, Relocating
<1>5. \A w \in Ids : Unfinished(w) => Unfinished(w)' \/ vms[w].home[2] = vms[w].name
  <2>1. CASE Verdict(t) /\ loc[t].ok
    <3>1. CASE v \in Ids /\ vms[v].home[2] = vms[v].name
      BY <3>1, HistoryOfOthers
    <3>2. CASE Op(t) = "vm_rename" /\ v \in loc[t].failed
      <4>1. pc'[t] = "done" /\ loc'[t] = loc[t]
        BY <2>1, Ends DEF Verdict
      <4>2. PICK x : x = v
        OBVIOUS
      <4>3. Ran(t)' /\ Behind(t, x)'
        BY <3>2, <4>1, <4>2, <1>1 DEF Ran, Behind
      <4>4. Unfinished(x)'
        BY <4>3 DEF Unfinished
      <4>5. QED
        BY <3>2, <4>2, <4>4, HistoryOfOthers
    <3>3. QED
      BY <2>1, <3>1, <3>2, <1>4
  <2>2. CASE ~(Verdict(t) /\ loc[t].ok)
    <3>1. answer'[t] # "completed"
      <4>1. pc[t] \in {"clean", "clean.remove"} => answer[t] = "none"
        BY DEF TInv, TypeOK, Busy
      <4>2. QED
        BY <4>1, <2>2, <1>2, <1>3 DEF CleanLook, CleanRemove
    <3>2. Remembered
      BY <3>1, HistoryKept
    <3>3. QED
      BY <3>2 DEF Remembered
  <2>3. QED
    BY <2>1, <2>2
<1>6. \A w \in Ids : \A f : Exempt(w, f) => Exempt(w, f)'
  BY HistoryOfOthers
<1>7. vhds' = vhds
  <2>1. CASE CleanLook(t)
    BY <2>1 DEF CleanLook, hostVars
  <2>2. CASE CleanRemove(t)
    <3>1. FilesIn(loc[t].home) = {}
      BY <2>2, <1>4 DEF CleanRemove
    <3>2. QED
      BY <2>2, <3>1 DEF CleanRemove
  <2>3. QED
    BY <2>1, <2>2
<1>8. /\ \A w \in Ids : vms[w].home \in folders'
      /\ \A w \in Ids : \A f \in vms[w].disks : f.dir \in folders'
  <2>1. CASE folders' = folders
    BY <2>1 DEF HostOK, HomesInv, DisksInv
  <2>2. CASE folders' # folders
    <3>1. folders' = folders \ {loc[t].home} /\ At(t, "clean.remove")
      BY <2>2 DEF CleanLook, CleanRemove, hostVars
    <3>2. \A w \in Ids : vms[w].home # loc[t].home
      BY <3>1, <1>4
    <3>3. \A w \in Ids : \A f \in vms[w].disks : f.dir # loc[t].home
      BY <3>1, <3>2, <1>4 DEF FilesIn, HostOK, DisksInv
    <3>4. QED
      BY <3>1, <3>2, <3>3 DEF HostOK, HomesInv, DisksInv
  <2>3. QED
    BY <2>1, <2>2
<1>9. HostOK'
  <2>1. Ids' = Ids
    BY <1>3 DEF Ids
  <2>2. \A w \in Ids' : /\ vms'[w].name = vms[w].name /\ vms'[w].home = vms[w].home
                        /\ vms'[w].disks \subseteq vms[w].disks
                        /\ vms[w].home \in folders'
                        /\ vms[w].home[2] = vms[w].name \/ Unfinished(w)'
    BY <1>3, <1>5, <1>8, <2>1 DEF HostOK, HomesInv
  <2>3. \A w \in Ids' : \A f \in vms'[w].disks :
          f.dir \in folders' /\ (f \in vhds' \/ (Exempt(w, f)' /\ f.dir = vms[w].home))
    BY <1>3, <1>6, <1>7, <1>8, <2>1 DEF HostOK, DisksInv
  <2>4. QED
    BY <2>1, <2>2, <2>3, Shrinks
<1>10. MoveLocal(t)'
  <2>1. CASE pc'[t] = "done"
    BY <2>1 DEF MoveLocal, At, Rest, Relocating
  <2>2. CASE pc'[t] # "done"
    <3>1. /\ pc'[t] = "clean.remove" /\ loc'[t] = loc[t]
          /\ ~HasFiles(loc[t].home)
      BY <2>2, <1>2 DEF CleanLook, CleanRemove
    <3>2. Ids' = Ids /\ FilesIn(loc[t].home)' = {} /\ \A w \in Ids : vms[w].home # loc[t].home
      BY <3>1, <1>3, <1>7 DEF HasFiles, FilesIn, Ids
    <3>3. QED
      BY <3>1, <3>2, <1>1, <1>3, <1>4 DEF MoveLocal, At, Away
  <2>3. QED
    BY <2>1, <2>2
<1>11. QED
  BY <1>9, <1>10

(* A step of a rename or a move keeps what is right, and its VM shares nothing with others. *)
LEMMA MoveKeeps ==
  ASSUME TInv, HostOK, NEW t \in Tasks, Acts(t), Op(t) \in {"vm_rename", "vm_move"}, MoveLocal(t),
         Sound(t), Resolve(t) \/ MoveActs(t)
  PROVE  HostOK' /\ MoveLocal(t)'
<1>0. PICK v : v = request[t].vm
  OBVIOUS
<1> USE <1>0
<1>1. Op(t)' = Op(t) /\ request' = request /\ (Renames(t) <=> Op(t) = "vm_rename")
  BY ActsProceeds DEF Proceeds, Op, Renames
<1>2. answer'[t] # "completed" => Remembered
  BY HistoryKept
<1>3. /\ \A s, l : GoWith(t, s, l) => pc'[t] = s /\ loc'[t] = l /\ answer' = answer
      /\ \A s : Go(t, s) => pc'[t] = s /\ loc'[t] = loc[t] /\ answer' = answer
      /\ Fail(t) => pc'[t] = "done" /\ answer'[t] = "failed"
  BY Ends
<1>4. DOMAIN loc[t] = LocFields /\ (\A w \in Ids : DOMAIN vms[w] = VMFields)
  BY DEF TInv, ControlInv, HostInv, VMsInv, VMOk
<1>5. pc'[t] = "done" => MoveLocal(t)'
  BY DEF MoveLocal, At, Rest, Relocating
<1>6. Busy(t) => answer[t] # "completed"
  BY DEF TInv, TypeOK, Busy
<1>7. hostVars' = hostVars => Steady /\ (Remembered => HostOK')
  BY SteadyKeeps DEF hostVars, Steady, Calm, Ids
<1>8. CASE Resolve(t)
  <2>1. Busy(t) /\ hostVars' = hostVars /\ vms' = vms
    BY <1>8 DEF Resolve, At, Busy, hostVars
  <2>2. Fail(t) \/ \E n : /\ GoWith(t, Op(t), [loc[t] EXCEPT !.name = n]) /\ v \in ByName(n)
    <3>1. CASE request[t].name # ""
      <4>1. GoWith(t, request[t].op, [loc[t] EXCEPT !.name = request[t].name])
        <5>1. At(t, "resolve") /\ \A n : n # "" => (n = "") = FALSE
          BY <1>8 DEF Resolve
        <5>2. QED
          BY <1>8, <3>1, <5>1 DEF Resolve, ById
      <4>2. v \in ByName(request[t].name)
        BY <1>8, <3>1 DEF Resolve, Sound
      <4>3. QED
        BY <4>1, <4>2 DEF Op
    <3>2. CASE request[t].name = ""
      <4>1. ~ById(t)
        BY DEF ById, Op
      <4>2. \/ Fail(t)
            \/ v \in Ids /\ GoWith(t, Op(t), [loc[t] EXCEPT !.name = vms[v].name])
        BY <1>8, <3>2, <4>1 DEF Resolve, Op
      <4>3. v \in Ids => v \in ByName(vms[v].name)
        BY DEF ByName
      <4>4. QED
        BY <4>2, <4>3
    <3>3. QED
      BY <3>1, <3>2
  <2>3. answer'[t] # "completed"
    BY <2>1, <2>2, <1>3, <1>6
  <2>4. HostOK'
    BY <2>1, <2>3, <1>2, <1>7
  <2>5. ASSUME NEW n, GoWith(t, Op(t), [loc[t] EXCEPT !.name = n]), v \in ByName(n)
        PROVE  MoveLocal(t)'
    <3>1. pc'[t] = Op(t) /\ loc'[t].name = n
      BY <2>5, <1>3, <1>4 DEF LocFields
    <3>2. (v \in ByName(Name(t)))'
      BY <3>1, <2>1, <2>5, <1>1 DEF ByName, Name, Ids
    <3>3. QED
      BY <3>1, <3>2, <1>1 DEF MoveLocal, At, Relocating
  <2>6. QED
    BY <2>2, <2>4, <2>5, <1>3, <1>5
<1>9. CASE RelocateCheck(t)
  <2>1. Busy(t) /\ hostVars' = hostVars /\ vms' = vms /\ folders' = folders /\ v \in ByName(Name(t))
    BY <1>9 DEF RelocateCheck, At, Busy, MoveLocal, hostVars
  <2>2. Found(t) = ByName(Name(t)) /\ Found(t) \subseteq Ids /\ v \in Ids /\ vms[v].name = Name(t)
    BY <2>1 DEF Found, ByName
  <2> DEFINE dest == Destination(t, vms[v])
             next == IF Renames(t) THEN "rename" ELSE "move"
  <2>3. \/ Fail(t)
        \/ /\ Found(t) = {v} /\ dest \notin folders
           /\ GoWith(t, next, [loc[t] EXCEPT !.home = vms[v].home, !.dest = dest])
    <3>1. CASE Cardinality(Found(t)) = 1
      <4>1. Found(t) = {v}
        BY <3>1, <2>1, <2>2, OneVM
      <4>2. (CHOOSE x \in Found(t) : TRUE) = v
        BY <4>1
      <4>3. QED
        BY <4>1, <4>2, <1>9 DEF RelocateCheck
    <3>2. CASE Cardinality(Found(t)) # 1
      BY <3>2, <1>9 DEF RelocateCheck
    <3>3. QED
      BY <3>1, <3>2
  <2> HIDE DEF dest, next
  <2>4. answer'[t] # "completed"
    BY <2>1, <2>3, <1>3, <1>6
  <2>5. HostOK'
    BY <2>1, <2>4, <1>2, <1>7
  <2>6. CASE /\ Found(t) = {v} /\ dest \notin folders
             /\ GoWith(t, next, [loc[t] EXCEPT !.home = vms[v].home, !.dest = dest])
    <3>1. pc'[t] = next /\ loc'[t].home = vms[v].home /\ loc'[t].dest = dest /\ Name(t)' = Name(t)
      <4>1. pc'[t] = next /\ loc'[t] = [loc[t] EXCEPT !.home = vms[v].home, !.dest = dest]
        BY <2>6, <1>3
      <4>2. QED
        BY <4>1, <1>4 DEF LocFields, Name
    <3>2. next = IF Op(t) = "vm_rename" THEN "rename" ELSE "move"
      BY <1>1 DEF next
    <3>3. Away(vms[v].home) /\ Away(dest) /\ dest[2] = IF Op(t) = "vm_rename" THEN request[t].new ELSE Name(t)
      BY <2>2, <1>1 DEF dest, Destination, Folder, Away, HostOK, HomesInv, Sound
    <3>4. \A w \in Ids \ {v} : vms[w].name # vms[v].name
      BY <2>2, <2>6 DEF ByName
    <3>5. \A w \in Ids \ {v} : /\ vms[w].disks \cap vms[v].disks = {}
                               /\ \A f \in vms[w].disks : f.dir # vms[v].home
                               /\ \A f \in vms[v].disks : f.dir # vms[w].home
      BY <2>2, <3>4 DEF HostOK, ApartInv
    <3>6. ByName(Name(t))' = {v} /\ Ids' = Ids
      BY <2>1, <2>2, <2>6, <3>1 DEF ByName, Ids
    <3>7. QED
      BY <2>1, <2>2, <2>5, <2>6, <3>1, <3>2, <3>3, <3>5, <3>6, <1>1 DEF MoveLocal, At, Away, Relocating
  <2>7. QED
    BY <2>3, <2>5, <2>6, <1>3, <1>5
<1>10. CASE Rename(t)
  <2>1. /\ Op(t) = "vm_rename" /\ ByName(Name(t)) = {v} /\ v \in Ids
        /\ loc[t].dest[2] = request[t].new
        /\ loc[t].dest \notin folders /\ Away(loc[t].dest)
        /\ \A w \in Ids \ {v} : /\ vms[w].disks \cap vms[v].disks = {}
                                /\ \A f \in vms[w].disks : f.dir # vms[v].home
                                /\ \A f \in vms[v].disks : f.dir # vms[w].home
        /\ Busy(t) /\ vhds' = vhds /\ folders' = folders /\ Away(loc[t].home)
    BY <1>10 DEF Rename, At, Busy, MoveLocal, Relocating
  <2>2. CASE vms' = vms /\ Fail(t)
    <3>1. HostOK'
      BY <2>1, <2>2, <1>2, <1>3, SteadyKeeps DEF Steady, Calm, Ids
    <3>2. QED
      BY <2>2, <3>1, <1>3, <1>5
  <2>3. CASE ~(vms' = vms /\ Fail(t))
    <3>1. /\ vms' = [w \in Ids |-> IF w \in ByName(Name(t)) THEN [vms[w] EXCEPT !.name = request[t].new]
                                                             ELSE vms[w]]
          /\ Go(t, "move")
      BY <1>10, <2>3 DEF Rename, Changed
    <3>2. /\ Ids' = Ids /\ vms'[v] = [vms[v] EXCEPT !.name = request[t].new]
          /\ \A w \in Ids \ {v} : vms'[w] = vms[w]
      BY <2>1, <3>1 DEF Ids
    <3>3. /\ vms'[v].name = request[t].new /\ vms'[v].home = vms[v].home
          /\ vms'[v].disks = vms[v].disks
      BY <2>1, <3>2, <1>4 DEF VMFields
    <3>4. pc'[t] = "move" /\ loc'[t] = loc[t] /\ answer'[t] # "completed"
      BY <2>1, <3>1, <1>3, <1>6
    <3>5. Remembered /\ Unfinished(v)'
      BY <2>1, <3>4, <1>1, <1>2 DEF Unfinished, Behind, Completed, Ran
    <3>6. /\ \A w \in Ids : vms'[w].home = vms[w].home /\ vms'[w].disks = vms[w].disks
          /\ \A w \in Ids \ {v} : vms'[w].name = vms[w].name
      BY <3>2, <3>3
    <3>7. v \in Ids /\ UNCHANGED <<vhds, folders>> /\ Ids' = Ids
      BY <2>1, <3>2
    <3>8. HostOK'
      <4>1. \A w \in Ids \ {v} :
              /\ vms[w].disks \cap vms[v].disks = {}
              /\ \A f \in vms[w].disks : f.dir # vms[v].home
              /\ \A f \in vms[v].disks : f.dir # vms[w].home
              /\ vms'[w].name = vms[w].name
        BY <2>1, <3>6
      <4>2. QED
        BY <4>1, <3>5, <3>6, <3>7, NamesAnew
    <3>9. MoveLocal(t)'
      <4>1. \A w \in Ids' \ {v} :
              /\ vms'[w].disks \cap vms'[v].disks = {}
              /\ \A f \in vms'[w].disks : f.dir # vms'[v].home
              /\ \A f \in vms'[v].disks : f.dir # vms'[w].home
        BY <2>1, <3>6, <3>7
      <4>2. /\ v \in Ids' /\ loc'[t].dest \notin folders' /\ Away(loc'[t].dest)
            /\ vms'[v].name = request[t].new /\ loc'[t].dest[2] = request[t].new
        BY <2>1, <3>3, <3>4, <3>7
      <4>3. QED
        BY <2>1, <3>4, <4>1, <4>2, <1>1 DEF MoveLocal, At, Away
    <3>10. QED
      BY <3>8, <3>9
  <2>4. QED
    BY <2>2, <2>3
<1>11. CASE MoveStorage(t)
  <2> DEFINE dest == loc[t].dest
             disks == vms[v].disks
  <2>1. /\ v \in Ids
        /\ dest \notin folders /\ Away(dest) /\ Away(loc[t].home)
        /\ \A w \in Ids \ {v} : vms[w].disks \cap vms[v].disks = {}
        /\ Op(t) = "vm_rename" => vms[v].name = request[t].new /\ dest[2] = request[t].new
        /\ Op(t) = "vm_move" => ByName(Name(t)) = {v} /\ dest[2] = Name(t)
        /\ Busy(t)
    BY <1>11 DEF MoveStorage, At, Busy, MoveLocal, Relocating
  <2>2. dest[2] = vms[v].name /\ v \in Moving(t) /\ Moving(t) \subseteq Ids
    BY <2>1, <1>1 DEF Moving, ByName, ByIdentity
  <2>3. Cardinality(Moving(t)) = 1 => (CHOOSE x \in Moving(t) : TRUE) = v
    <3>1. ASSUME Cardinality(Moving(t)) = 1
          PROVE  Moving(t) = {v}
      BY <2>2, <3>1, OneVM
    <3>2. QED
      BY <3>1
  <2>4. answer' = answer
    BY <1>11, <1>3 DEF MoveStorage
  <2>5. Remembered
    BY <2>1, <2>4, <1>2, <1>6
  <2>6. CASE UNCHANGED <<vms, vhds, fixed>>
    <3>1. /\ vms' = vms /\ vhds' = vhds /\ folders \subseteq folders'
      BY <1>11, <2>6 DEF MoveStorage
    <3>2. HostOK'
      BY <3>1, <2>5, CalmKeeps DEF Calm, Ids
    <3>3. \/ pc'[t] = "clean" /\ ~loc'[t].ok /\ loc'[t].home = dest
          \/ /\ pc'[t] = "clean" /\ loc'[t].home = loc[t].home
             /\ Op(t) = "vm_rename" /\ v \in loc'[t].failed
          \/ vms' = [vms EXCEPT ![v].home = dest, ![v].disks = {Relocated(f, dest) : f \in @}]
      <4>1. \/ GoWith(t, "clean", [loc[t] EXCEPT !.home = dest, !.ok = FALSE])
            \/ Op(t) = "vm_rename" /\ GoWith(t, "clean", [loc[t] EXCEPT !.failed = {v}])
            \/ vms' = [vms EXCEPT ![v].home = dest, ![v].disks = {Relocated(f, dest) : f \in @}]
        BY <1>11, <1>1, <2>3 DEF MoveStorage
      <4>2. ASSUME GoWith(t, "clean", [loc[t] EXCEPT !.home = dest, !.ok = FALSE])
            PROVE  pc'[t] = "clean" /\ ~loc'[t].ok /\ loc'[t].home = dest
        <5>1. pc'[t] = "clean" /\ loc'[t] = [loc[t] EXCEPT !.home = dest, !.ok = FALSE]
          BY <4>2, <1>3
        <5>2. QED
          BY <5>1, <1>4 DEF LocFields
      <4>3. ASSUME GoWith(t, "clean", [loc[t] EXCEPT !.failed = {v}])
            PROVE  pc'[t] = "clean" /\ loc'[t].home = loc[t].home /\ v \in loc'[t].failed
        <5>1. pc'[t] = "clean" /\ loc'[t] = [loc[t] EXCEPT !.failed = {v}]
          BY <4>3, <1>3
        <5>2. loc'[t].home = loc[t].home /\ loc'[t].failed = {v}
          BY <5>1, <1>4 DEF LocFields
        <5>3. QED
          BY <5>1, <5>2
      <4>4. QED
        BY <4>1, <4>2, <4>3
    <3>4. vms[v].home # dest
      BY <2>1 DEF HostOK, HomesInv
    <3>5. \/ pc'[t] = "clean" /\ ~loc'[t].ok /\ loc'[t].home = dest
          \/ /\ pc'[t] = "clean" /\ loc'[t].home = loc[t].home
             /\ Op(t) = "vm_rename" /\ v \in loc'[t].failed
      <4>1. ASSUME vms' = [vms EXCEPT ![v].home = dest, ![v].disks = {Relocated(f, dest) : f \in @}]
            PROVE  vms'[v].home = dest
        BY <4>1, <2>1, <1>4 DEF Ids, VMFields
      <4>2. QED
        BY <3>1, <3>3, <3>4, <4>1
    <3>6. QED
      BY <2>1, <3>2, <3>5, <1>1 DEF MoveLocal, At, Away
  <2>7. CASE ~UNCHANGED <<vms, vhds, fixed>>
    <3>0. Renames(t) \/ ByName(Name(t)) = {v}
      BY <2>1, <1>1
    <3>1. /\ disks \subseteq vhds
          /\ vms' = [vms EXCEPT ![v].home = dest, ![v].disks = {Relocated(f, dest) : f \in @}]
          /\ vhds' = (vhds \ disks) \cup {Relocated(f, dest) : f \in vhds \cap disks}
          /\ folders' = folders \cup {dest} /\ Go(t, "clean")
      BY <1>11, <2>3, <2>7, <3>0 DEF MoveStorage
    <3>2. /\ Ids' = Ids /\ \A w \in Ids \ {v} : vms'[w] = vms[w]
          /\ vms'[v] = [vms[v] EXCEPT !.home = dest, !.disks = {Relocated(f, dest) : f \in @}]
      BY <2>1, <3>1 DEF Ids
    <3>3. /\ vms'[v].name = vms[v].name /\ vms'[v].home = dest
          /\ vms'[v].disks = {Relocated(f, dest) : f \in disks}
      BY <2>1, <3>2, <1>4 DEF VMFields
    <3>4. \A f \in disks : /\ IsFile(Relocated(f, dest)) /\ Relocated(f, dest).dir = dest
                           /\ Relocated(f, dest) \in vhds'
      <4>1. ASSUME NEW f \in disks
            PROVE  IsFile(Relocated(f, dest)) /\ Relocated(f, dest).dir = dest
        <5>1. DOMAIN f = {"dir", "n", "as"}
          BY <2>1 DEF HostOK, DisksInv, IsFile
        <5> HIDE DEF dest
        <5>2. QED
          BY <5>1 DEF Relocated, IsFile
      <4>2. \A f \in disks : Relocated(f, dest) \in vhds'
        BY <3>1
      <4>3. QED
        BY <4>1, <4>2
    <3>5. \A f \in vms'[v].disks : IsFile(f) /\ f \in vhds' /\ f.dir = dest
      BY <3>3, <3>4
    <3>6. \A w \in Ids \ {v} :
            /\ vms[w].home # dest
            /\ \A f \in vms[w].disks : f.dir # dest /\ (f \in vhds => f \in vhds')
      BY <2>1, <3>1 DEF HostOK, HomesInv, DisksInv
    <3>7. /\ Ids' = Ids \cup {v} /\ dest \in folders' /\ folders \subseteq folders'
          /\ dest[2] = vms'[v].name /\ Away(dest)
      BY <2>1, <2>2, <3>1, <3>2, <3>3
    <3> HIDE DEF dest
    <3>8. HostOK'
      <4>1. \A w \in Ids \ {v} :
              /\ vms'[w].name = vms[w].name /\ vms'[w].home = vms[w].home
              /\ vms'[w].disks = vms[w].disks /\ vms[w].home # dest
              /\ \A f \in vms[w].disks : f.dir # dest /\ (f \in vhds => f \in vhds')
        BY <3>2, <3>6
      <4>2. QED
        BY <2>1, <2>5, <3>3, <3>5, <3>7, <4>1, Places
    <3>9. pc'[t] = "clean" /\ loc'[t] = loc[t]
      BY <3>1, <1>3
    <3>10. MoveLocal(t)'
      BY <2>1, <3>3, <3>7, <3>9, <1>1 DEF MoveLocal, At, Away
    <3>11. QED
      BY <3>8, <3>10
  <2>8. QED
    BY <2>6, <2>7
<1>12. CASE CleanLook(t) \/ CleanRemove(t)
  BY <1>12, CleanKeeps
<1>13. QED
  BY <1>8, <1>9, <1>10, <1>11, <1>12 DEF MoveActs

-----------------------------------------------------------------------------
(* vm_clone: to the imported VM *)

\* Every VM but the clone stays as it is, with its disks.
OthersKept(t) ==
  \A v \in Ids \ {Clone(t)} : v \in Ids' /\ vms'[v] = vms[v] /\ vms[v].disks \cap vhds \subseteq vhds'

(* What the steps of a clone have in common. *)
LEMMA CloneFacts ==
  ASSUME TInv, NEW t \in Tasks, Acts(t), Op(t) = "vm_clone"
  PROVE  /\ Op(t)' = Op(t) /\ request' = request /\ Target(t)' = Target(t)
         /\ DOMAIN loc[t] = LocFields /\ (\A v \in Ids : DOMAIN vms[v] = VMFields)
         /\ Busy(t) => answer[t] # "completed"
         /\ Target(t)[1] = "vms" /\ Target(t)[2] = request[t].name /\ Away(Target(t))
         /\ pc'[t] \in {"done", "clone.undo"} => CloneLocal(t)'
         /\ 0 \notin Ids /\ made + 1 \notin Ids
         /\ Exported(t)[1] \in {"export", "template"} /\ Exported(t) # Target(t)
         /\ ~Away(Exported(t))
<1>1. Op(t)' = Op(t) /\ request' = request /\ Target(t)' = Target(t)
  BY ActsProceeds DEF Proceeds, Op, Target
<1>2. DOMAIN loc[t] = LocFields /\ (\A v \in Ids : DOMAIN vms[v] = VMFields)
  BY DEF TInv, ControlInv, HostInv, VMsInv, VMOk
<1>3. Busy(t) => answer[t] # "completed"
  BY DEF TInv, TypeOK, Busy
<1>4. Target(t)[1] = "vms" /\ Target(t)[2] = request[t].name /\ Away(Target(t))
  BY DEF Target, Folder, Away
<1>5. pc'[t] \in {"done", "clone.undo"} => CloneLocal(t)'
  BY DEF CloneLocal, CloneSteps, At, Rest, Before, Free, OwnVM, Converting, Ending
<1>6. 0 \notin Ids /\ made + 1 \notin Ids
  BY DEF TInv, HostInv, VMsInv
<1>7. Exported(t)[1] \in {"export", "template"}
  BY DEF Exported, Folder
<1>8. Exported(t) # Target(t) /\ ~Away(Exported(t))
  BY <1>4, <1>7 DEF Away
<1>9. QED
  BY <1>1, <1>2, <1>3, <1>4, <1>5, <1>6, <1>7, <1>8

(* The steps before the import keep what is right. *)
LEMMA CloneBeginKeeps ==
  ASSUME TInv, HostOK, NEW t \in Tasks, Acts(t), Op(t) = "vm_clone", CloneLocal(t),
         CloneSpace(t) \/ CloneCheck(t) \/ CloneSource(t) \/ CloneExport(t)
  PROVE  HostOK' /\ CloneLocal(t)' /\ OthersKept(t)
<1>1. /\ Op(t)' = Op(t) /\ request' = request /\ Target(t)' = Target(t)
      /\ Busy(t) => answer[t] # "completed"
      /\ pc'[t] \in {"done", "clone.undo"} => CloneLocal(t)'
      /\ Exported(t) # Target(t)
  BY CloneFacts
<1>2. /\ \A s : Go(t, s) => pc'[t] = s /\ loc'[t] = loc[t] /\ answer' = answer
      /\ Fail(t) => pc'[t] = "done" /\ loc'[t] = loc[t] /\ answer'[t] = "failed"
  BY Ends
<1>3. vms' = vms /\ vhds \subseteq vhds' /\ folders \subseteq folders' /\ Busy(t)
  BY DEF CloneSpace, CloneCheck, CloneSource, CloneExport, Space, CopyAll, CopySome, hostVars, At, Busy
<1>4. \/ pc'[t] = "done" /\ loc'[t] = loc[t] /\ answer'[t] = "failed"
      \/ pc'[t] # "done" /\ loc'[t] = loc[t] /\ answer' = answer
  BY <1>2 DEF CloneSpace, CloneCheck, CloneSource, CloneExport, Space
<1>5. Remembered
  BY <1>1, <1>3, <1>4, HistoryKept
<1>6. HostOK'
  BY <1>3, <1>5, CalmKeeps DEF Calm, Ids
<1>7. OthersKept(t)
  BY <1>3 DEF OthersKept, Ids
<1>8. Named(t)' = Named(t)
  BY <1>1, <1>3 DEF Named, ByName, Ids
<1>9. CASE CloneSpace(t)
  <2>1. Clone(t) = 0 /\ pc'[t] \in {"done", "clone.check"} /\ loc'[t] = loc[t]
    BY <1>9, <1>2 DEF CloneSpace, Space, CloneLocal, Before, At
  <2>2. pc'[t] = "clone.check" => CloneLocal(t)'
    BY <2>1 DEF CloneLocal, CloneSteps, At, Before, Free, OwnVM, Converting, Ending, Clone
  <2>3. QED
    BY <2>1, <2>2, <1>1, <1>6, <1>7
<1>10. CASE CloneCheck(t)
  <2>1. CASE Taken(t)
    BY <2>1, <1>1, <1>2, <1>6, <1>7, <1>10 DEF CloneCheck
  <2>2. CASE ~Taken(t)
    <3>1. Clone(t) = 0 /\ pc'[t] \in Free /\ loc'[t] = loc[t] /\ folders' = folders
      BY <2>2, <1>10, <1>2 DEF CloneCheck, CloneLocal, Before, Free, At, hostVars
    <3>2. Named(t) = {} /\ Target(t) \notin folders
      BY <2>2 DEF Taken, Named
    <3>3. CloneLocal(t)'
      BY <3>1, <3>2, <1>1, <1>8
      DEF CloneLocal, CloneSteps, At, Before, Free, OwnVM, Converting, Ending, Clone
    <3>4. QED
      BY <3>3, <1>6, <1>7
  <2>3. QED
    BY <2>1, <2>2
<1>11. CASE CloneSource(t) \/ CloneExport(t)
  <2>1. /\ Clone(t) = 0 /\ Named(t) = {} /\ Target(t) \notin folders
        /\ pc'[t] \in {"done", "clone.export", "clone.import"} /\ loc'[t] = loc[t]
    BY <1>11, <1>2 DEF CloneSource, CloneExport, CloneLocal, Free, At
  <2>2. Target(t) \notin folders'
    BY <1>11, <2>1, <1>1 DEF CloneSource, CloneExport, hostVars
  <2>3. pc'[t] # "done" => CloneLocal(t)'
    BY <2>1, <2>2, <1>1, <1>8
    DEF CloneLocal, CloneSteps, At, Before, Free, OwnVM, Converting, Ending, Clone
  <2>4. QED
    BY <2>1, <2>3, <1>1, <1>6, <1>7
<1>12. QED
  BY <1>9, <1>10, <1>11

(* The import makes a VM in a folder of its own. *)
LEMMA CloneImportKeeps ==
  ASSUME TInv, HostOK, NEW t \in Tasks, Acts(t), Op(t) = "vm_clone", CloneLocal(t), CloneImport(t)
  PROVE  HostOK' /\ CloneLocal(t)' /\ OthersKept(t)
<1>1. /\ Op(t)' = Op(t) /\ request' = request /\ Target(t)' = Target(t)
      /\ DOMAIN loc[t] = LocFields
      /\ Busy(t) => answer[t] # "completed"
      /\ Away(Target(t)) /\ 0 \notin Ids /\ made + 1 \notin Ids
      /\ pc'[t] \in {"done", "clone.undo"} => CloneLocal(t)'
  BY CloneFacts
<1>2. /\ \A s, l : GoWith(t, s, l) => pc'[t] = s /\ loc'[t] = l /\ answer' = answer
      /\ \A s : Go(t, s) => pc'[t] = s /\ loc'[t] = loc[t] /\ answer' = answer
  BY Ends
<1>3. /\ Busy(t) /\ Clone(t) = 0 /\ Named(t) = {} /\ Target(t) \notin folders
      /\ folders' = folders \cup {Target(t)}
  BY DEF CloneImport, At, Busy, CloneLocal, Free
<1>4. Clone(t) \notin Ids /\ answer' = answer
  BY <1>1, <1>2, <1>3 DEF CloneImport
<1>5. vhds \subseteq vhds'
  BY DEF CloneImport, CopyAll, CopySome
<1>0. PICK v : v = made + 1
  OBVIOUS
<1> DEFINE copies == {Copy(f, Target(t)) : f \in DisksIn(Exported(t))}
           vm == NewVM(Source(t), Target(t), copies)
<1>6. CASE Go(t, "clone.undo") /\ vms' = vms
  <2>1. pc'[t] = "clone.undo" /\ loc'[t] = loc[t] /\ answer'[t] # "completed"
    BY <1>6, <1>1, <1>2, <1>3, <1>4
  <2>2. Remembered
    BY <2>1, HistoryKept
  <2>3. HostOK'
    BY <1>3, <1>5, <1>6, <2>2, CalmKeeps DEF Calm, Ids
  <2>4. QED
    BY <2>1, <2>3, <1>1, <1>5, <1>6 DEF OthersKept, Ids
<1>7. CASE ~(Go(t, "clone.undo") /\ vms' = vms)
  <2>1. /\ copies \subseteq vhds' /\ Registered(vm)
        /\ GoWith(t, "clone.name", [loc[t] EXCEPT !.vm = made'])
    BY <1>7 DEF CloneImport, CopyAll
  <2>2. \A f \in copies : IsFile(f) /\ f.dir = Target(t) /\ f.as = "copy"
    BY DEF Copy, File, IsFile
  <2>3. vm.name = Source(t) /\ vm.home = Target(t) /\ vm.disks = copies
    BY DEF NewVM
  <2> HIDE DEF copies, vm
  <2>4. made' = v /\ vms' = [w \in Ids \cup {v} |-> IF w = v THEN vm ELSE vms[w]]
    BY <2>1, <1>0 DEF Registered
  <2>5. pc'[t] = "clone.name" /\ loc'[t] = [loc[t] EXCEPT !.vm = v]
    BY <2>1, <2>4, <1>2
  <2>6. Ids' = Ids \cup {v} /\ vms'[v] = vm /\ \A w \in Ids \ {v} : vms'[w] = vms[w]
    BY <2>4 DEF Ids
  <2>7. v \notin Ids
    BY <1>0, <1>1
  <2>8. loc'[t].vm = v /\ loc'[t].failed = loc[t].failed /\ answer'[t] # "completed"
    BY <2>5, <1>1, <1>3, <1>4 DEF LocFields
  <2>9. Remembered
    BY <2>8, <1>4, HistoryKept DEF Clone
  <2>10. Unfinished(v)'
    BY <2>5, <2>8, <1>1 DEF Unfinished, Behind, Completed, Ran
  <2>11. \A w \in Ids : vms[w].home # Target(t) /\ \A f \in vms[w].disks : f.dir # Target(t)
    BY <1>3 DEF HostOK, HomesInv, DisksInv
  <2>12. HostOK'
    <3>1. \A f \in vms'[v].disks : IsFile(f) /\ f \in vhds' /\ f.dir = Target(t)
      BY <2>1, <2>2, <2>3, <2>6
    <3>2. \A w \in Ids \ {v} :
            /\ vms'[w].name = vms[w].name /\ vms'[w].home = vms[w].home
            /\ vms'[w].disks = vms[w].disks /\ vms[w].home # Target(t)
            /\ \A f \in vms[w].disks : f.dir # Target(t) /\ (f \in vhds => f \in vhds')
      BY <2>6, <2>11, <1>5
    <3>3. vms'[v].home = Target(t) /\ Target(t) \in folders' /\ folders \subseteq folders'
      BY <2>3, <2>6, <1>3
    <3>4. QED
      BY <3>1, <3>2, <3>3, <2>6, <2>9, <2>10, <1>1, Places
  <2>13. Settled(t)' /\ Lost(t)' = {} /\ (vms[Clone(t)].name = Source(t))'
    BY <2>1, <2>2, <2>3, <2>6, <2>8, <1>1 DEF Settled, Lost, Clone, Source
  <2>14. Named(t)' \subseteq {v}
    BY <2>6, <1>1, <1>3 DEF Named, ByName
  <2>15. \A w \in Ids' \ {v} : \A f \in vms'[w].disks : f.dir # Target(t)
    BY <2>6, <2>11
  <2>16. CloneLocal(t)'
    BY <2>5, <2>8, <2>13, <2>14, <2>15, <1>1
    DEF CloneLocal, CloneSteps, At, Before, Free, OwnVM, Converting, Ending, Clone
  <2>17. OthersKept(t)
    BY <2>6, <2>7, <1>5 DEF OthersKept
  <2>18. QED
    BY <2>12, <2>16, <2>17
<1>8. QED
  BY <1>6, <1>7

-----------------------------------------------------------------------------
(* vm_clone: the imported VM *)

(* The clone shares neither its folder nor its disks. *)
LEMMA CloneAlone ==
  ASSUME HostOK, NEW t \in Tasks, CloneLocal(t), pc[t] \in OwnVM \cup {"clone.name"}
  PROVE  /\ Clone(t) \in Ids /\ vms[Clone(t)].home = Target(t)
         /\ \A f \in vms[Clone(t)].disks : IsFile(f) /\ f.dir = Target(t) /\ f.as # "conv"
         /\ \A w \in Ids \ {Clone(t)} : /\ vms[w].home # Target(t)
                                        /\ \A f \in vms[w].disks : f.dir # Target(t)
         /\ pc[t] \in OwnVM => Named(t) = {Clone(t)} /\ vms[Clone(t)].name = request[t].name
<1>1. Settled(t) /\ (pc[t] \in OwnVM => Named(t) = {Clone(t)})
  BY DEF CloneLocal, At, OwnVM, Converting, Ending
<1>2. Clone(t) \in Ids /\ vms[Clone(t)].home = Target(t)
  BY <1>1 DEF Settled
<1>3. \A w \in Ids \ {Clone(t)} : vms[w].home # Target(t)
  BY <1>2 DEF HostOK, ApartInv
<1>4. pc[t] \in OwnVM =>
        /\ vms[Clone(t)].name = request[t].name
        /\ \A w \in Ids \ {Clone(t)} : vms[w].name # request[t].name
  BY <1>1, <1>2 DEF Named, ByName
<1>5. ASSUME NEW w \in Ids \ {Clone(t)}
      PROVE  \A f \in vms[w].disks : f.dir # Target(t)
  <2>1. CASE pc[t] = "clone.name"
    BY <2>1 DEF CloneLocal, At
  <2>2. CASE pc[t] \in OwnVM
    BY <2>2, <1>2, <1>4 DEF HostOK, ApartInv
  <2>3. QED
    BY <2>1, <2>2
<1>6. QED
  BY <1>1, <1>2, <1>3, <1>4, <1>5 DEF Settled

(* What a clone does to files of its own folder, before it succeeds, is its own business. *)
LEMMA CloneFilesKeep ==
  ASSUME TInv, HostOK, NEW t \in Tasks, Acts(t), Op(t) = "vm_clone", CloneLocal(t),
         pc[t] \in OwnVM, UNCHANGED <<vms, folders>>,
         loc'[t].vm = loc[t].vm, loc[t].failed \subseteq loc'[t].failed, answer'[t] # "completed",
         \A g \in vhds : g \in vhds' \/ (IsFile(g) /\ g.dir = Target(t))
  PROVE  HostOK' /\ OthersKept(t) /\ Settled(t)' /\ Named(t)' = {Clone(t)} /\ Clone(t)' = Clone(t)
<1>1. /\ Clone(t) \in Ids /\ vms[Clone(t)].home = Target(t)
      /\ \A f \in vms[Clone(t)].disks : IsFile(f) /\ f.dir = Target(t) /\ f.as # "conv"
      /\ \A w \in Ids \ {Clone(t)} : /\ vms[w].home # Target(t)
                                     /\ \A f \in vms[w].disks : f.dir # Target(t)
      /\ Named(t) = {Clone(t)}
  BY CloneAlone
<1>2. Op(t)' = Op(t) /\ request' = request /\ Target(t)' = Target(t) /\ Clone(t)' = Clone(t)
  BY CloneFacts DEF Clone
<1>3. Remembered
  BY HistoryKept
<1>4. \A f : Exempt(Clone(t), f)'
  BY <1>2 DEF Exempt, Completed, Clone
<1>5. \A w \in Ids \ {Clone(t)} : \A f \in vms[w].disks : f \in vhds => f \in vhds'
  BY <1>1
<1>6. HostOK'
  <2>1. Ids' = Ids
    BY DEF Ids
  <2>2. \A w \in Ids' : /\ vms'[w].name = vms[w].name /\ vms'[w].home = vms[w].home
                        /\ vms'[w].disks \subseteq vms[w].disks
                        /\ vms[w].home \in folders'
                        /\ vms[w].home[2] = vms[w].name \/ Unfinished(w)'
    BY <2>1, <1>3 DEF HostOK, HomesInv, Remembered
  <2>3. ASSUME NEW w \in Ids', NEW f \in vms'[w].disks
        PROVE  f.dir \in folders' /\ (f \in vhds' \/ (Exempt(w, f)' /\ f.dir = vms[w].home))
    <3>1. CASE w = Clone(t)
      <4>1. Exempt(Clone(t), f)'
        BY <1>4
      <4>2. Exempt(w, f)'
        BY <4>1, <3>1, <1>2 DEF Exempt
      <4>3. QED
        BY <2>1, <2>3, <3>1, <4>2, <1>1 DEF HostOK, DisksInv
    <3>2. CASE w # Clone(t)
      BY <2>1, <2>3, <3>2, <1>3, <1>5 DEF HostOK, DisksInv, Remembered
    <3>3. QED
      BY <3>1, <3>2
  <2>4. QED
    BY <2>1, <2>2, <2>3, Shrinks
<1>7. OthersKept(t)
  BY <1>5 DEF OthersKept, Ids
<1>8. Settled(t)'
  BY <1>1, <1>2 DEF Settled, Ids
<1>9. Named(t)' = {Clone(t)}
  BY <1>1, <1>2 DEF Named, ByName, Ids
<1>10. QED
  BY <1>2, <1>6, <1>7, <1>8, <1>9

(* The steps that give the clone its name and its disks their names keep what is right. *)
LEMMA CloneNameKeeps ==
  ASSUME TInv, HostOK, NEW t \in Tasks, Acts(t), Op(t) = "vm_clone", CloneLocal(t), CloneName(t)
  PROVE  HostOK' /\ CloneLocal(t)' /\ OthersKept(t)
<1>0. PICK v : v = Clone(t)
  OBVIOUS
<1>1. /\ Op(t)' = Op(t) /\ request' = request /\ Target(t)' = Target(t)
      /\ \A w \in Ids : DOMAIN vms[w] = VMFields
      /\ Busy(t) => answer[t] # "completed"
      /\ pc'[t] \in {"done", "clone.undo"} => CloneLocal(t)'
  BY CloneFacts
<1>2. \A s : Go(t, s) => pc'[t] = s /\ loc'[t] = loc[t] /\ answer' = answer
  BY Ends
<1>3. /\ v \in Ids /\ vms[v].home = Target(t)
      /\ \A f \in vms[v].disks : IsFile(f) /\ f.dir = Target(t) /\ f.as # "conv"
      /\ \A w \in Ids \ {v} : /\ vms[w].home # Target(t)
                              /\ \A f \in vms[w].disks : f.dir # Target(t)
  BY <1>0, CloneAlone DEF CloneName, At
<1>4. Busy(t) /\ Named(t) \subseteq {v} /\ Lost(t) = {} /\ vhds' = vhds /\ folders' = folders
  BY <1>0 DEF CloneName, At, Busy, CloneLocal
<1>5. loc'[t] = loc[t] /\ answer'[t] # "completed" /\ pc'[t] \in {"clone.disk", "clone.undo"}
  BY <1>1, <1>2, <1>4 DEF CloneName
<1>6. Remembered
  BY <1>5, HistoryKept
<1>7. CASE vms' = vms /\ pc'[t] = "clone.undo"
  <2>1. HostOK'
    BY <1>4, <1>6, <1>7, SteadyKeeps DEF Steady, Calm, Ids
  <2>2. QED
    BY <2>1, <1>1, <1>4, <1>7 DEF OthersKept, Ids
<1>8. CASE ~(vms' = vms /\ pc'[t] = "clone.undo")
  <2>1. vms' = [vms EXCEPT ![v].name = request[t].name] /\ pc'[t] = "clone.disk"
    BY <1>0, <1>2, <1>8 DEF CloneName
  <2>2. /\ Ids' = Ids /\ vms'[v] = [vms[v] EXCEPT !.name = request[t].name]
        /\ \A w \in Ids \ {v} : vms'[w] = vms[w]
    BY <2>1, <1>3 DEF Ids
  <2>3. /\ vms'[v].name = request[t].name /\ vms'[v].home = vms[v].home
        /\ vms'[v].disks = vms[v].disks
    BY <2>2, <1>1, <1>3 DEF VMFields
  <2>4. Unfinished(v)'
    BY <1>0, <1>1, <1>5, <2>1 DEF Unfinished, Behind, Completed, Ran, Clone
  <2>5. \A w \in Ids \ {v} : /\ vms[w].disks \cap vms[v].disks = {}
                             /\ \A f \in vms[w].disks : f.dir # vms[v].home
                             /\ \A f \in vms[v].disks : f.dir # vms[w].home
                             /\ vms'[w].name = vms[w].name
    BY <1>3, <2>2
  <2>6. \A w \in Ids : vms'[w].home = vms[w].home /\ vms'[w].disks = vms[w].disks
    BY <2>2, <2>3
  <2>7. UNCHANGED <<vhds, folders>>
    BY <1>4
  <2>8. HostOK'
    BY <1>3, <1>6, <2>2, <2>4, <2>5, <2>6, <2>7, NamesAnew
  <2>9. Settled(t)' /\ Lost(t)' = {} /\ Named(t)' = {v} /\ Clone(t)' = v
    <3>1. Clone(t)' = v
      BY <1>0, <1>5 DEF Clone
    <3>2. v \in Ids' /\ vms'[v].home = Target(t)' /\ vms'[v].disks = vms[v].disks
      BY <1>1, <1>3, <2>2, <2>3
    <3>3. Settled(t)'
      BY <1>1, <1>3, <3>1, <3>2 DEF Settled
    <3>4. Lost(t)' = {}
      BY <1>0, <1>4, <3>1, <3>2 DEF Lost
    <3>5. \A w \in Ids' : vms'[w].name = request[t].name <=> w = v
      BY <1>3, <1>4, <2>2, <2>3 DEF Named, ByName
    <3>6. Named(t)' = {v}
      BY <1>1, <3>2, <3>5 DEF Named, ByName
    <3>7. QED
      BY <3>1, <3>3, <3>4, <3>6
  <2>10. CloneLocal(t)'
    BY <2>1, <2>9
    DEF CloneLocal, CloneSteps, At, Before, Free, OwnVM, Converting, Ending
  <2>11. QED
    BY <1>0, <1>4, <2>2, <2>8, <2>10 DEF OthersKept
<1>9. QED
  BY <1>7, <1>8

(* A disk file gets its new name, then the clone gets to know it. *)
LEMMA CloneDiskKeeps ==
  ASSUME TInv, HostOK, NEW t \in Tasks, Acts(t), Op(t) = "vm_clone", CloneLocal(t),
         CloneDisk(t) \/ ClonePoint(t)
  PROVE  HostOK' /\ CloneLocal(t)' /\ OthersKept(t)
<1>0. PICK v : v = Clone(t)
  OBVIOUS
<1>1. /\ Op(t)' = Op(t) /\ request' = request /\ Target(t)' = Target(t)
      /\ DOMAIN loc[t] = LocFields /\ \A w \in Ids : DOMAIN vms[w] = VMFields
      /\ Busy(t) => answer[t] # "completed"
      /\ pc'[t] \in {"done", "clone.undo"} => CloneLocal(t)'
      /\ Target(t)[2] = request[t].name /\ Away(Target(t))
  BY CloneFacts
<1>2. /\ \A s, l : GoWith(t, s, l) => pc'[t] = s /\ loc'[t] = l /\ answer' = answer
      /\ \A s : Go(t, s) => pc'[t] = s /\ loc'[t] = loc[t] /\ answer' = answer
  BY Ends
<1>3. pc[t] \in OwnVM /\ Busy(t) /\ folders' = folders
  BY DEF CloneDisk, ClonePoint, At, OwnVM, Busy
<1>4. /\ v \in Ids /\ vms[v].home = Target(t)
      /\ \A f \in vms[v].disks : IsFile(f) /\ f.dir = Target(t) /\ f.as # "conv"
      /\ \A w \in Ids \ {v} : /\ vms[w].home # Target(t)
                              /\ \A f \in vms[w].disks : f.dir # Target(t)
      /\ Named(t) = {v} /\ vms[v].name = request[t].name
  BY <1>0, <1>3, CloneAlone
<1>5. CASE CloneDisk(t)
  <2>1. Lost(t) = {} /\ vms' = vms
    BY <1>5 DEF CloneDisk, At, CloneLocal
  <2>2. CASE vhds' = vhds /\ (Go(t, "clone.tidy") \/ Go(t, "clone.undo"))
    <3>1. loc'[t] = loc[t] /\ answer'[t] # "completed" /\ pc'[t] \in {"clone.tidy", "clone.undo"}
      BY <2>2, <1>1, <1>2, <1>3
    <3>2. HostOK' /\ OthersKept(t) /\ Settled(t)' /\ Named(t)' = {Clone(t)} /\ Clone(t)' = Clone(t)
      BY <2>1, <2>2, <3>1, <1>3, CloneFilesKeep
    <3>3. Lost(t)' = {}
      BY <2>1, <2>2, <3>2 DEF Lost
    <3>4. CloneLocal(t)'
      BY <3>1, <3>2, <3>3
      DEF CloneLocal, CloneSteps, At, Before, Free, OwnVM, Converting, Ending
    <3>5. QED
      BY <3>2, <3>4
  <2>3. CASE ~(vhds' = vhds /\ (Go(t, "clone.tidy") \/ Go(t, "clone.undo")))
    <3>1. PICK f \in Misnamed(t) :
            /\ vhds' = Replace(vhds, f, Renamed(f))
            /\ GoWith(t, "clone.point", [loc[t] EXCEPT !.disks = {f}])
      BY <2>3, <1>5 DEF CloneDisk
    <3>2. /\ pc'[t] = "clone.point" /\ loc'[t].disks = {f} /\ loc'[t].vm = loc[t].vm
          /\ loc'[t].failed = loc[t].failed /\ answer'[t] # "completed"
      BY <3>1, <1>1, <1>2, <1>3 DEF LocFields
    <3>3. f \in vms[v].disks /\ f \in vhds
      BY <1>4 DEF Misnamed
    <3>4. vhds' = (vhds \ {f}) \cup {Renamed(f)}
      BY <3>1, <3>3 DEF Replace
    <3>5. HostOK' /\ OthersKept(t) /\ Settled(t)' /\ Named(t)' = {Clone(t)} /\ Clone(t)' = Clone(t)
      <4>1. \A g \in vhds : g \in vhds' \/ (IsFile(g) /\ g.dir = Target(t))
        BY <3>3, <3>4, <1>4
      <4>2. QED
        BY <2>1, <3>2, <4>1, <1>3, CloneFilesKeep
    <3>6. Lost(t)' \subseteq {f} /\ Renamed(f) \in vhds' /\ f \in vms'[v].disks
      BY <2>1, <3>3, <3>4, <3>5, <1>0 DEF Lost
    <3>7. CloneLocal(t)'
      BY <3>2, <3>5, <3>6, <1>0
      DEF CloneLocal, CloneSteps, At, Before, Free, OwnVM, Converting, Ending
    <3>8. QED
      BY <3>5, <3>7
  <2>4. QED
    BY <2>2, <2>3
<1>6. CASE ClonePoint(t)
  <2>1. PICK f \in vms[v].disks : loc[t].disks = {f} /\ Renamed(f) \in vhds /\ Lost(t) \subseteq {f}
    BY <1>6, <1>0 DEF ClonePoint, At, CloneLocal
  <2>2. vhds' = vhds /\ loc'[t] = loc[t] /\ answer'[t] # "completed"
    BY <1>6, <1>1, <1>2, <1>3 DEF ClonePoint
  <2>3. Remembered
    BY <2>2, HistoryKept
  <2>4. CASE vms' = vms /\ Go(t, "clone.undo")
    <3>1. HostOK'
      BY <2>2, <2>3, <2>4, <1>3, SteadyKeeps DEF Steady, Calm, Ids
    <3>2. QED
      BY <2>2, <2>4, <3>1, <1>1, <1>2 DEF OthersKept, Ids
  <2>5. CASE ~(vms' = vms /\ Go(t, "clone.undo"))
    <3> DEFINE new == {IF g \in loc[t].disks THEN Renamed(g) ELSE g : g \in vms[v].disks}
    <3>1. /\ vms' = [w \in Ids |-> IF w \in Named(t)
                      THEN [vms[w] EXCEPT !.disks = {IF g \in loc[t].disks THEN Renamed(g) ELSE g : g \in @}]
                      ELSE vms[w]]
          /\ pc'[t] = "clone.disk"
      BY <2>5, <1>2, <1>6 DEF ClonePoint, Changed
    <3>2. /\ Ids' = Ids /\ \A w \in Ids \ {v} : vms'[w] = vms[w]
          /\ vms'[v] = [vms[v] EXCEPT !.disks = new]
      BY <3>1, <1>4 DEF Ids
    <3>3. \A g \in new : g = Renamed(f) \/ (g \in vms[v].disks /\ g # f)
      BY <2>1
    <3> HIDE DEF new
    <3>4. vms'[v].name = vms[v].name /\ vms'[v].home = vms[v].home /\ vms'[v].disks = new
      BY <3>2, <1>1, <1>4 DEF VMFields
    <3>5. IsFile(Renamed(f)) /\ Renamed(f).dir = Target(t) /\ Renamed(f).as = "own"
      <4>1. DOMAIN f = {"dir", "n", "as"} /\ f.dir = Target(t)
        BY <2>1, <1>4 DEF IsFile
      <4>2. QED
        BY <4>1 DEF Renamed, IsFile
    <3>6. \A g \in new : IsFile(g) /\ g \in vhds' /\ g.dir = Target(t) /\ g.as # "conv"
      <4>1. \A g \in vms[v].disks : g # f => g \in vhds
        BY <2>1, <1>0 DEF Lost
      <4>2. QED
        BY <2>1, <2>2, <3>3, <3>5, <4>1, <1>4
    <3>7. \A w \in Ids \ {v} :
            /\ vms'[w].name = vms[w].name /\ vms'[w].home = vms[w].home
            /\ vms'[w].disks = vms[w].disks /\ vms[w].home # Target(t)
            /\ \A g \in vms[w].disks : g.dir # Target(t) /\ (g \in vhds => g \in vhds')
      BY <2>2, <3>2, <1>4
    <3>8. /\ Ids' = Ids \cup {v} /\ Target(t) \in folders' /\ folders \subseteq folders'
          /\ vms'[v].home = Target(t) /\ Target(t)[2] = vms'[v].name
          /\ \A g \in vms'[v].disks : IsFile(g) /\ g \in vhds' /\ g.dir = Target(t)
      BY <3>2, <3>4, <3>6, <1>1, <1>3, <1>4 DEF HostOK, HomesInv
    <3>9. HostOK'
      BY <2>3, <3>7, <3>8, <1>1, Places
    <3>10. Clone(t)' = v /\ Settled(t)' /\ Named(t)' = {v} /\ Lost(t)' = {}
      <4>1. Clone(t)' = v /\ Lost(t)' = {}
        BY <2>2, <3>4, <3>6, <1>0 DEF Clone, Lost
      <4>2. Settled(t)'
        BY <3>2, <3>4, <3>6, <4>1, <1>1, <1>4 DEF Settled
      <4>3. Named(t)' = {v}
        BY <3>2, <3>4, <1>1, <1>4 DEF Named, ByName
      <4>4. QED
        BY <4>1, <4>2, <4>3
    <3>11. CloneLocal(t)'
      BY <3>1, <3>10
      DEF CloneLocal, CloneSteps, At, Before, Free, OwnVM, Converting, Ending
    <3>12. OthersKept(t)
      BY <2>2, <3>2, <1>0 DEF OthersKept
    <3>13. QED
      BY <3>9, <3>11, <3>12
  <2>6. QED
    BY <2>4, <2>5
<1>7. QED
  BY <1>5, <1>6

(* The export made for the clone goes, and with it no file of a VM. *)
LEMMA CloneTidyKeeps ==
  ASSUME TInv, HostOK, NEW t \in Tasks, Acts(t), Op(t) = "vm_clone", CloneLocal(t),
         CloneUndo(t) \/ CloneTidy(t)
  PROVE  HostOK' /\ CloneLocal(t)' /\ OthersKept(t)
<1>1. /\ Op(t)' = Op(t) /\ request' = request /\ Target(t)' = Target(t)
      /\ DOMAIN loc[t] = LocFields
      /\ Busy(t) => answer[t] # "completed"
      /\ pc'[t] \in {"done", "clone.undo"} => CloneLocal(t)'
      /\ ~Away(Exported(t))
  BY CloneFacts
<1>2. /\ \A s, l : GoWith(t, s, l) => pc'[t] = s /\ loc'[t] = l /\ answer' = answer
      /\ Fail(t) => pc'[t] = "done" /\ loc'[t] = loc[t] /\ answer'[t] = "failed"
  BY Ends
<1>3. Busy(t) /\ vms' = vms /\ Ids' = Ids
  BY DEF CloneUndo, CloneTidy, At, Busy, Ids
<1>4. /\ folders \ {Exported(t)} \subseteq folders'
      /\ vhds \ FilesIn(Exported(t)) \subseteq vhds'
  BY DEF CloneUndo, CloneTidy, RemoveExport
<1>5. /\ \A w \in Ids : vms[w].home \in folders'
      /\ \A w \in Ids : \A f \in vms[w].disks : f.dir \in folders' /\ (f \in vhds => f \in vhds')
  BY <1>1, <1>4 DEF FilesIn, HostOK, HomesInv, DisksInv
<1> DEFINE step == IF ~Imported(t) /\ request[t].expand THEN "convert" ELSE "set"
           disks == UNION {vms[w].disks : w \in Named(t)}
<1>6. \/ CloneUndo(t) /\ Fail(t)
      \/ CloneTidy(t) /\ GoWith(t, step, [loc[t] EXCEPT !.disks = disks])
  BY DEF CloneUndo, CloneTidy
<1>7. step \in {"convert", "set"}
  OBVIOUS
<1>8. CloneTidy(t) => pc[t] = "clone.tidy"
  BY DEF CloneTidy, At
<1>9. pc[t] = "clone.tidy" => disks = vms[Clone(t)].disks
  BY DEF CloneLocal, OwnVM
<1> HIDE DEF step, disks
<1>10. ASSUME CloneTidy(t), GoWith(t, step, [loc[t] EXCEPT !.disks = disks])
       PROVE  /\ pc'[t] \in {"convert", "set"} /\ loc'[t].disks = vms[Clone(t)].disks
              /\ loc'[t].vm = loc[t].vm /\ loc'[t].failed = loc[t].failed /\ answer' = answer
  <2>1. pc'[t] = step /\ loc'[t] = [loc[t] EXCEPT !.disks = disks] /\ answer' = answer
    BY <1>10, <1>2
  <2>2. QED
    BY <2>1, <1>1, <1>7, <1>8, <1>9, <1>10 DEF LocFields
<1>11. loc'[t].vm = loc[t].vm /\ loc'[t].failed = loc[t].failed /\ answer'[t] # "completed"
  BY <1>1, <1>2, <1>3, <1>6, <1>10
<1>12. Remembered
  BY <1>11, HistoryKept
<1>13. HostOK'
  BY <1>3, <1>5, <1>12, Intact
<1>14. OthersKept(t)
  BY <1>3, <1>5 DEF OthersKept
<1>15. CASE CloneUndo(t) /\ Fail(t)
  BY <1>1, <1>2, <1>13, <1>14, <1>15
<1>16. CASE CloneTidy(t) /\ GoWith(t, step, [loc[t] EXCEPT !.disks = disks])
  <2>1. pc[t] \in OwnVM /\ Settled(t) /\ Named(t) = {Clone(t)} /\ Lost(t) = {}
    BY <1>8, <1>16 DEF CloneLocal, OwnVM
  <2>2. Clone(t)' = Clone(t) /\ Clone(t) \in Ids
    BY <1>11, <2>1 DEF Clone, Settled
  <2>3. Settled(t)' /\ Named(t)' = {Clone(t)}
    BY <1>1, <1>3, <2>1, <2>2 DEF Settled, Named, ByName
  <2>4. Lost(t)' = {}
    BY <1>3, <1>5, <2>1, <2>2 DEF Lost
  <2>5. pc'[t] \in {"convert", "set"} /\ loc'[t].disks = vms'[Clone(t)].disks
    BY <1>3, <1>10, <1>16
  <2>6. CloneLocal(t)'
    BY <2>2, <2>3, <2>4, <2>5
    DEF CloneLocal, CloneSteps, At, Before, Free, OwnVM, Converting, Ending
  <2>7. QED
    BY <1>13, <1>14, <2>6
<1>17. QED
  BY <1>6, <1>15, <1>16

(* The conversion of the clone's disks loses none that is not logged. *)
LEMMA CloneConvertKeeps ==
  ASSUME TInv, HostOK, NEW t \in Tasks, Acts(t), Op(t) = "vm_clone", CloneLocal(t), Convert(t)
  PROVE  HostOK' /\ CloneLocal(t)' /\ OthersKept(t)
<1>0. PICK v : v = Clone(t)
  OBVIOUS
<1>1. /\ DOMAIN loc[t] = LocFields
      /\ Busy(t) => answer[t] # "completed"
  BY CloneFacts
<1>2. /\ \A s, l : GoWith(t, s, l) => pc'[t] = s /\ loc'[t] = l /\ answer' = answer
      /\ \A s : Go(t, s) => pc'[t] = s /\ loc'[t] = loc[t] /\ answer' = answer
  BY Ends
<1>3. pc[t] \in Converting /\ pc[t] \in OwnVM /\ Busy(t) /\ UNCHANGED <<vms, folders>>
  BY Where DEF Convert, ConvertDisk, ConvertRemove, ConvertRename, Converting, OwnVM, Busy
<1>4. /\ v \in Ids
      /\ \A f \in vms[v].disks : IsFile(f) /\ f.dir = Target(t) /\ f.as # "conv"
  BY <1>0, <1>3, CloneAlone
<1>5. loc[t].disks \subseteq vms[v].disks
  BY <1>0, <1>3 DEF CloneLocal
<1>6. \A f \in vms[v].disks : /\ IsFile(Converted(f)) /\ Converted(f).dir = Target(t)
                              /\ Converted(f) \notin vms[v].disks
  <2>1. ASSUME NEW f \in vms[v].disks
        PROVE  IsFile(Converted(f)) /\ Converted(f).dir = Target(t) /\ Converted(f).as = "conv"
    <3>1. DOMAIN f = {"dir", "n", "as"} /\ f.dir = Target(t)
      BY <1>4 DEF IsFile
    <3>2. QED
      BY <3>1 DEF Converted, IsFile
  <2>2. QED
    BY <1>4, <2>1
<1>7. ASSUME loc'[t].vm = loc[t].vm, loc[t].failed \subseteq loc'[t].failed, answer'[t] # "completed",
             \A g \in vhds : g \in vhds' \/ (IsFile(g) /\ g.dir = Target(t))
      PROVE  /\ HostOK' /\ OthersKept(t) /\ Settled(t)' /\ Named(t)' = {v} /\ Clone(t)' = v
             /\ Lost(t)' = vms[v].disks \ vhds'
  <2>1. HostOK' /\ OthersKept(t) /\ Settled(t)' /\ Named(t)' = {Clone(t)} /\ Clone(t)' = Clone(t)
    BY <1>3, <1>7, CloneFilesKeep
  <2>2. Lost(t)' = vms[v].disks \ vhds'
    BY <2>1, <1>0, <1>3 DEF Lost
  <2>3. QED
    BY <2>1, <2>2, <1>0
<1>8. CASE ConvertDisk(t)
  <2>1. Lost(t) = vms[v].disks \ vhds /\ Lost(t) \subseteq loc[t].failed /\ pc[t] = "convert"
    BY <1>8, <1>0 DEF ConvertDisk, At, Lost, CloneLocal
  <2>2. CASE vhds' = vhds /\ Go(t, After(t))
    <3>1. pc'[t] = "set" /\ loc'[t] = loc[t] /\ answer' = answer
      BY <2>2, <1>2 DEF After, Op
    <3>2. /\ HostOK' /\ OthersKept(t) /\ Settled(t)' /\ Named(t)' = {v} /\ Clone(t)' = v
          /\ Lost(t)' = vms[v].disks \ vhds'
      BY <2>2, <3>1, <1>1, <1>3, <1>7
    <3>3. CloneLocal(t)'
      BY <2>1, <2>2, <3>1, <3>2
      DEF CloneLocal, CloneSteps, At, Before, Free, OwnVM, Converting, Ending
    <3>4. QED
      BY <3>2, <3>3
  <2>3. CASE ~(vhds' = vhds /\ Go(t, After(t)))
    <3>1. PICK f \in ToConvert(t) :
            \/ /\ vhds' = vhds \cup {Converted(f)}
               /\ GoWith(t, "convert.remove", [loc[t] EXCEPT !.done = {f}])
            \/ /\ vhds' = vhds
               /\ GoWith(t, "convert", [loc[t] EXCEPT !.disks = @ \ {f}, !.failed = @ \cup {f}])
      BY <1>8, <2>3 DEF ConvertDisk
    <3>2. f \in loc[t].disks
      BY DEF ToConvert, Op
    <3>3. CASE /\ vhds' = vhds \cup {Converted(f)}
               /\ GoWith(t, "convert.remove", [loc[t] EXCEPT !.done = {f}])
      <4>1. /\ pc'[t] = "convert.remove" /\ loc'[t].done = {f} /\ loc'[t].disks = loc[t].disks
            /\ loc'[t].vm = loc[t].vm /\ loc'[t].failed = loc[t].failed /\ answer' = answer
        BY <3>3, <1>1, <1>2 DEF LocFields
      <4>2. /\ HostOK' /\ OthersKept(t) /\ Settled(t)' /\ Named(t)' = {v} /\ Clone(t)' = v
            /\ Lost(t)' = vms[v].disks \ vhds'
        BY <3>3, <4>1, <1>1, <1>3, <1>7
      <4>3. CloneLocal(t)'
        BY <2>1, <3>2, <3>3, <4>1, <4>2, <1>3, <1>5
        DEF CloneLocal, CloneSteps, At, Before, Free, OwnVM, Converting, Ending
      <4>4. QED
        BY <4>2, <4>3
    <3>4. CASE /\ vhds' = vhds
               /\ GoWith(t, "convert", [loc[t] EXCEPT !.disks = @ \ {f}, !.failed = @ \cup {f}])
      <4>1. /\ pc'[t] = "convert" /\ loc'[t].disks = loc[t].disks \ {f}
            /\ loc'[t].vm = loc[t].vm /\ loc'[t].failed = loc[t].failed \cup {f} /\ answer' = answer
        <5>1. /\ pc'[t] = "convert" /\ answer' = answer
              /\ loc'[t] = [loc[t] EXCEPT !.disks = @ \ {f}, !.failed = @ \cup {f}]
          BY <3>4, <1>2
        <5>2. QED
          BY <5>1, <1>1 DEF LocFields
      <4>2. /\ HostOK' /\ OthersKept(t) /\ Settled(t)' /\ Named(t)' = {v} /\ Clone(t)' = v
            /\ Lost(t)' = vms[v].disks \ vhds'
        BY <3>4, <4>1, <1>1, <1>3, <1>7
      <4>3. CloneLocal(t)'
        BY <2>1, <3>4, <4>1, <4>2, <1>3, <1>5
        DEF CloneLocal, CloneSteps, At, Before, Free, OwnVM, Converting, Ending
      <4>4. QED
        BY <4>2, <4>3
    <3>5. QED
      BY <3>1, <3>3, <3>4
  <2>4. QED
    BY <2>2, <2>3
<1>9. CASE ConvertRemove(t) \/ ConvertRename(t)
  <2>1. PICK f \in loc[t].disks : loc[t].done = {f} /\ Converted(f) \in vhds
    BY <1>9 DEF ConvertRemove, ConvertRename, At, CloneLocal
  <2>2. (CHOOSE d \in loc[t].done : TRUE) = f
    BY <2>1
  <2>3. /\ f \in vms[v].disks /\ IsFile(f) /\ f.dir = Target(t)
        /\ IsFile(Converted(f)) /\ Converted(f).dir = Target(t) /\ Converted(f) \notin vms[v].disks
    BY <2>1, <1>4, <1>5, <1>6
  <2>4. /\ Lost(t) = vms[v].disks \ vhds
        /\ pc[t] = "convert.remove" => Lost(t) \subseteq loc[t].failed
        /\ pc[t] = "convert.rename" => Lost(t) \subseteq loc[t].failed \cup {f}
    BY <2>1, <1>0 DEF Lost, CloneLocal, At
  <2>5. /\ NextDisk(t).disks = loc[t].disks \ {f} /\ NextDisk(t).failed = loc[t].failed
        /\ NextDisk(t).vm = loc[t].vm
        /\ Logged(t).disks = loc[t].disks \ {f} /\ Logged(t).failed = loc[t].failed \cup {f}
        /\ Logged(t).vm = loc[t].vm
    <3>1. /\ DOMAIN NextDisk(t) = LocFields /\ NextDisk(t).disks = loc[t].disks \ {f}
          /\ NextDisk(t).failed = loc[t].failed /\ NextDisk(t).vm = loc[t].vm
      BY <2>1, <1>1 DEF NextDisk, LocFields
    <3>2. QED
      BY <2>1, <3>1 DEF Logged, LocFields
  <2>6. \/ /\ pc[t] = "convert.remove" /\ vhds' = vhds \ {f} /\ Go(t, "convert.rename")
        \/ /\ pc[t] = "convert.rename" /\ vhds' = Replace(vhds, Converted(f), f)
           /\ GoWith(t, "convert", NextDisk(t))
        \/ /\ vhds' = vhds \ {Converted(f)} /\ GoWith(t, "convert", Logged(t))
    BY <2>2, <1>9 DEF ConvertRemove, ConvertRename, At, Leftover
  <2>7. CASE /\ pc[t] = "convert.remove" /\ vhds' = vhds \ {f} /\ Go(t, "convert.rename")
    <3>1. pc'[t] = "convert.rename" /\ loc'[t] = loc[t] /\ answer' = answer
      BY <2>7, <1>2
    <3>2. /\ HostOK' /\ OthersKept(t) /\ Settled(t)' /\ Named(t)' = {v} /\ Clone(t)' = v
          /\ Lost(t)' = vms[v].disks \ vhds'
      BY <2>3, <2>7, <3>1, <1>1, <1>3, <1>7
    <3>3. Lost(t)' \subseteq loc'[t].failed \cup loc'[t].done /\ Converted(f) \in vhds'
      BY <2>1, <2>3, <2>4, <2>7, <3>1, <3>2
    <3>4. CloneLocal(t)'
      BY <2>1, <3>1, <3>2, <3>3, <1>3, <1>5
      DEF CloneLocal, CloneSteps, At, Before, Free, OwnVM, Converting, Ending
    <3>5. QED
      BY <3>2, <3>4
  <2>8. ASSUME NEW l, GoWith(t, "convert", l), l.disks \subseteq loc[t].disks, l.vm = loc[t].vm,
               loc[t].failed \subseteq l.failed,
               \A g \in vhds : g \in vhds' \/ (IsFile(g) /\ g.dir = Target(t)),
               vms[v].disks \ vhds' \subseteq l.failed
        PROVE  HostOK' /\ CloneLocal(t)' /\ OthersKept(t)
    <3>1. pc'[t] = "convert" /\ loc'[t] = l /\ answer' = answer
      BY <2>8, <1>2
    <3>2. /\ HostOK' /\ OthersKept(t) /\ Settled(t)' /\ Named(t)' = {v} /\ Clone(t)' = v
          /\ Lost(t)' = vms[v].disks \ vhds'
      BY <2>8, <3>1, <1>1, <1>3, <1>7
    <3>3. CloneLocal(t)'
      BY <2>8, <3>1, <3>2, <1>3, <1>5
      DEF CloneLocal, CloneSteps, At, Before, Free, OwnVM, Converting, Ending
    <3>4. QED
      BY <3>2, <3>3
  <2>9. CASE /\ pc[t] = "convert.rename" /\ vhds' = Replace(vhds, Converted(f), f)
             /\ GoWith(t, "convert", NextDisk(t))
    <3>1. vhds' = (vhds \ {Converted(f)}) \cup {f}
      BY <2>1, <2>9 DEF Replace
    <3>2. /\ \A g \in vhds : g \in vhds' \/ (IsFile(g) /\ g.dir = Target(t))
          /\ vms[v].disks \ vhds' \subseteq NextDisk(t).failed
      BY <2>3, <2>4, <2>5, <2>9, <3>1
    <3>3. QED
      BY <2>5, <2>8, <2>9, <3>2
  <2>10. CASE vhds' = vhds \ {Converted(f)} /\ GoWith(t, "convert", Logged(t))
    <3>1. /\ \A g \in vhds : g \in vhds' \/ (IsFile(g) /\ g.dir = Target(t))
          /\ vms[v].disks \ vhds' \subseteq Logged(t).failed
      BY <2>3, <2>4, <2>5, <2>10, <1>3, <1>9 DEF ConvertRemove, ConvertRename, At
    <3>2. QED
      BY <2>5, <2>8, <2>10, <3>1
  <2>11. QED
    BY <2>6, <2>7, <2>9, <2>10
<1>10. QED
  BY <1>3, <1>8, <1>9 DEF Convert

(* The end of a clone leaves its disks alone; when it succeeds it has its name, and what it may *)
(* lack is logged.                                                                             *)
LEMMA CloneFinishKeeps ==
  ASSUME TInv, HostOK, NEW t \in Tasks, Acts(t), Op(t) = "vm_clone", CloneLocal(t), Finish(t)
  PROVE  HostOK' /\ CloneLocal(t)' /\ OthersKept(t)
<1>0. PICK v : v = Clone(t)
  OBVIOUS
<1>1. /\ Op(t)' = Op(t) /\ request' = request /\ Target(t)' = Target(t)
      /\ Busy(t) => answer[t] # "completed"
      /\ pc'[t] \in {"done", "clone.undo"} => CloneLocal(t)'
      /\ Target(t)[2] = request[t].name
  BY CloneFacts
<1>2. /\ \A s : Go(t, s) => pc'[t] = s /\ loc'[t] = loc[t] /\ answer' = answer
      /\ \A a : Answer(t, a) => pc'[t] = "done" /\ loc' = loc
      /\ Fail(t) => pc'[t] = "done" /\ loc'[t] = loc[t] /\ answer'[t] = "failed"
  BY Ends
<1>3. pc[t] \in Ending /\ pc[t] \in OwnVM /\ Busy(t)
  BY Where DEF Ending, OwnVM, Busy
<1>4. /\ v \in Ids /\ vms[v].home = Target(t) /\ Named(t) = {v} /\ vms[v].name = request[t].name
      /\ Settled(t)
  BY <1>0, <1>3, CloneAlone DEF CloneLocal
<1>5. Lost(t) \subseteq loc[t].failed /\ Lost(t) = vms[v].disks \ vhds
  BY <1>0, <1>3 DEF CloneLocal, Lost
<1>6. Steady
  BY FinishSteady
<1>7. loc'[t] = loc[t]
  BY <1>2 DEF Finish, Settle, FindId, PowerOn
<1>8. OthersKept(t)
  <2>1. \/ vms' = vms
        \/ /\ DOMAIN vms' = DOMAIN vms
           /\ \A w \in Ids : w \notin Named(t) => vms'[w] = vms[w]
    BY DEF Finish, Settle, FindId, PowerOn, Changed, Named, hostVars, Ids
  <2>2. QED
    BY <2>1, <1>0, <1>4, <1>6 DEF OthersKept, Steady, Ids
<1>9. CASE PowerOn(t)
  <2>1. pc'[t] = "done"
    BY <1>9, <1>2 DEF PowerOn
  <2>2. \A f \in vms[v].disks \ vhds : Exempt(v, f)'
    BY <1>0, <1>1, <1>5, <1>7 DEF Exempt, Clone
  <2>3. /\ \A w \in Ids \ {v} : \A f : Exempt(w, f) => Exempt(w, f)'
        /\ \A w \in Ids \ {v} : Unfinished(w) => Unfinished(w)'
    BY <1>0, <1>1, HistoryOfOthers DEF Clone
  <2>4. Ids' \subseteq Ids
    BY <1>6 DEF Steady, Calm
  <2>5. \A w \in Ids' : /\ vms'[w].name = vms[w].name /\ vms'[w].home = vms[w].home
                        /\ vms'[w].disks \subseteq vms[w].disks
                        /\ vms[w].home \in folders'
                        /\ vms[w].home[2] = vms[w].name \/ Unfinished(w)'
    BY <1>1, <1>4, <1>6, <2>3, <2>4 DEF Steady, Calm, HostOK, HomesInv
  <2>6. \A w \in Ids' : \A f \in vms'[w].disks :
          f.dir \in folders' /\ (f \in vhds' \/ (Exempt(w, f)' /\ f.dir = vms[w].home))
    BY <1>6, <2>2, <2>3, <2>4 DEF Steady, Calm, HostOK, DisksInv
  <2>7. HostOK'
    BY <2>4, <2>5, <2>6, Shrinks
  <2>8. QED
    BY <2>1, <2>7, <1>1, <1>8
<1>10. CASE Settle(t) \/ FindId(t)
  <2>1. answer'[t] # "completed" /\ pc'[t] \in {"id", "start", "done"}
    BY <1>1, <1>2, <1>3, <1>10 DEF Settle, FindId
  <2>2. Remembered
    BY <1>7, <2>1, HistoryKept
  <2>3. HostOK'
    BY <1>6, <2>2, SteadyKeeps
  <2>4. Clone(t)' = v /\ Settled(t)' /\ Named(t)' = {v} /\ Lost(t)' = Lost(t)
    <3>1. Clone(t)' = v
      BY <1>0, <1>7 DEF Clone
    <3>2. Settled(t)'
      BY <3>1, <1>0, <1>1, <1>4, <1>6 DEF Settled, Steady, Calm
    <3>3. Named(t)' = {v}
      BY <1>1, <1>4, <1>6 DEF Named, ByName, Steady, Calm
    <3>4. Lost(t)' = Lost(t)
      BY <3>1, <1>0, <1>4, <1>6 DEF Lost, Steady, Calm
    <3>5. QED
      BY <3>1, <3>2, <3>3, <3>4
  <2>5. pc'[t] \in {"id", "start"} => CloneLocal(t)'
    BY <1>5, <1>7, <2>4
    DEF CloneLocal, CloneSteps, At, Before, Free, OwnVM, Converting, Ending
  <2>6. QED
    BY <2>1, <2>3, <2>5, <1>1, <1>8
<1>11. QED
  BY <1>9, <1>10 DEF Finish

(* A step of vm_clone keeps what is right and every other VM. *)
LEMMA CloneKeeps ==
  ASSUME TInv, HostOK, NEW t \in Tasks, Acts(t), Op(t) = "vm_clone", CloneLocal(t),
         CloneActs(t) \/ Convert(t) \/ Finish(t)
  PROVE  HostOK' /\ CloneLocal(t)' /\ OthersKept(t)
<1>1. CASE CloneSpace(t) \/ CloneCheck(t) \/ CloneSource(t) \/ CloneExport(t)
  BY <1>1, CloneBeginKeeps
<1>2. CASE CloneImport(t)
  BY <1>2, CloneImportKeeps
<1>3. CASE CloneName(t)
  BY <1>3, CloneNameKeeps
<1>4. CASE CloneDisk(t) \/ ClonePoint(t)
  BY <1>4, CloneDiskKeeps
<1>5. CASE CloneUndo(t) \/ CloneTidy(t)
  BY <1>5, CloneTidyKeeps
<1>6. CASE Convert(t)
  BY <1>6, CloneConvertKeeps
<1>7. CASE Finish(t)
  BY <1>7, CloneFinishKeeps
<1>8. QED
  BY <1>1, <1>2, <1>3, <1>4, <1>5, <1>6, <1>7 DEF CloneActs

-----------------------------------------------------------------------------
(* Every step *)

(* A handler that is not over and acts has begun, or begins with the step of its operation. *)
LEMMA Beginnings ==
  ASSUME NEW t \in Tasks, Acts(t), ~Kill(t)
  PROVE  /\ pc[t] \notin {"done", "killed"}
         /\ pc[t] = "waiting" =>
              \/ Op(t) = "vm_create" /\ Begin(t, "create.space")
              \/ Op(t) = "vm_clone" /\ Begin(t, "clone.space")
              \/ Op(t) \in ManageOps /\ Begin(t, "resolve")
              \/ Op(t) = "vm_batch" /\ Begin(t, "vm_batch")
              \/ Op(t) = "vm_edit" /\ Begin(t, "vm_edit")
<1> DEFINE First == \/ Op(t) = "vm_create" /\ Begin(t, "create.space")
                    \/ Op(t) = "vm_clone" /\ Begin(t, "clone.space")
                    \/ Op(t) \in ManageOps /\ Begin(t, "resolve")
                    \/ Op(t) = "vm_batch" /\ Begin(t, "vm_batch")
                    \/ Op(t) = "vm_edit" /\ Begin(t, "vm_edit")
           Later == \/ Resolve(t) \/ CreateActs(t) \/ CloneActs(t) \/ Convert(t) \/ Finish(t)
                    \/ DeleteActs(t) \/ MoveActs(t) \/ ExportActs(t) \/ Migrate(t)
                    \/ PolicyActs(t) \/ BatchActs(t)
           Editing == \/ EditCheck(t) \/ EditSet(t) \/ EditDisks(t) \/ EditAdd(t) \/ EditGrow(t)
                      \/ EditRemove(t) \/ EditWipe(t) \/ EditNICs(t) \/ EditEnd(t)
<1>1. First \/ Later \/ Editing
  <2>1. CASE ProvisionStep(t)
    BY <2>1 DEF ProvisionStep, CreateActs, CloneActs, Convert, Finish, DeleteActs, Op
  <2>2. CASE ManageStep(t)
    BY <2>2 DEF ManageStep, MoveActs, ExportActs, PolicyActs, BatchActs, Op
  <2>3. CASE EditStep(t)
    BY <2>3 DEF EditStep, Op
  <2>4. QED
    BY <2>1, <2>2, <2>3 DEF Acts
<1>2. First => pc[t] = "waiting"
  BY DEF Begin, At
<1>3. Later => pc[t] \notin Rest
  BY Where, PolicyWhere DEF Converting, Ending, BatchSteps, PolicyOps, Rest
<1>4. Editing => pc[t] \notin Rest
  BY DEF EditCheck, EditSet, EditDisks, EditAdd, EditGrow, EditRemove, EditWipe, EditNICs, EditEnd,
         At, Rest
<1> HIDE DEF First, Later, Editing
<1>5. pc[t] \notin {"done", "killed"} /\ (pc[t] = "waiting" => First)
  BY <1>1, <1>2, <1>3, <1>4 DEF Rest
<1>6. QED
  BY <1>5 DEF First

(* When a handler begins it has done nothing yet. *)
LEMMA BeginKeeps ==
  ASSUME TInv, NEW t \in Tasks, Acts(t), ~Kill(t), pc[t] = "waiting", Local(t)
  PROVE  Local(t)' /\ loc'[t] = loc[t] /\ answer' = answer /\ Begins(t)
<1>1. Op(t)' = Op(t) /\ request' = request
  BY ActsProceeds DEF Proceeds, Op
<1>2. \A s : Go(t, s) => pc'[t] = s /\ loc'[t] = loc[t] /\ answer' = answer
  BY Ends
<1>3. \/ Op(t) = "vm_create" /\ Begin(t, "create.space")
      \/ Op(t) = "vm_clone" /\ Begin(t, "clone.space")
      \/ Op(t) \in ManageOps /\ Begin(t, "resolve")
      \/ Op(t) = "vm_batch" /\ Begin(t, "vm_batch")
      \/ Op(t) = "vm_edit" /\ Begin(t, "vm_edit")
  BY Beginnings
<1>4. loc'[t] = loc[t] /\ answer' = answer /\ Begins(t)
  BY <1>2, <1>3 DEF Begin, Begins
<1>5. CASE Op(t) = "vm_create" /\ Begin(t, "create.space")
  <2>1. pc'[t] = "create.space" /\ loc[t].done = {}
    BY <1>2, <1>5 DEF Begin, Local, CreateLocal
  <2>2. CreateLocal(t)'
    BY <2>1, <1>4 DEF CreateLocal, CreateSteps, At
  <2>3. QED
    BY <2>2, <1>1, <1>4, <1>5 DEF Local, PolicyOps, Shapers
<1>6. CASE Op(t) = "vm_clone" /\ Begin(t, "clone.space")
  <2>1. pc'[t] = "clone.space" /\ Clone(t) = 0
    BY <1>2, <1>6 DEF Begin, Local, CloneLocal, Before
  <2>2. CloneLocal(t)'
    BY <2>1, <1>4 DEF CloneLocal, CloneSteps, At, Before, Free, OwnVM, Converting, Ending, Clone
  <2>3. QED
    BY <2>2, <1>1, <1>4, <1>6 DEF Local, PolicyOps, Shapers
<1>7. CASE Op(t) \in ManageOps /\ Begin(t, "resolve")
  <2>1. pc'[t] = "resolve"
    BY <1>2, <1>7 DEF Begin
  <2>2. DeleteLocal(t)' /\ ExportLocal(t)' /\ MoveLocal(t)'
    BY <2>1, <1>1 DEF DeleteLocal, ExportLocal, ExportSteps, Converting, MoveLocal, At, Relocating
  <2>3. QED
    BY <2>1, <2>2, <1>1, <1>4, <1>7 DEF Local, ManageOps, PolicyOps, Shapers
<1>8. CASE Op(t) = "vm_batch" /\ Begin(t, "vm_batch")
  BY <1>1, <1>4, <1>8 DEF Local, PolicyOps, Shapers
<1>9. CASE Op(t) = "vm_edit" /\ Begin(t, "vm_edit")
  <2>1. EditLocal(t)'
    BY <1>2, <1>9 DEF Begin, EditLocal, At
  <2>2. QED
    BY <2>1, <1>1, <1>4, <1>9 DEF Local, PolicyOps, Shapers
<1>10. QED
  BY <1>3, <1>5, <1>6, <1>7, <1>8, <1>9

(* The tasks that do not shape VMs answer after one script, or are batches. *)
LEMMA PolicyKeeps ==
  ASSUME TInv, NEW t \in Tasks, Acts(t), ~Kill(t), pc[t] # "waiting", Op(t) \notin Shapers, Local(t)
  PROVE  Steady /\ Local(t)'
<1>1. Op(t)' = Op(t)
  BY ActsProceeds DEF Proceeds, Op
<1>2. /\ \A s, l : GoWith(t, s, l) => pc'[t] = s
      /\ \A a : Answer(t, a) => pc'[t] = "done"
      /\ Fail(t) => pc'[t] = "done"
  BY Ends
<1>3. Resolve(t) \/ PolicyActs(t) \/ BatchActs(t)
  BY OwnActs, Where
<1>4. Steady
  BY <1>3, IdleSteady, PolicySteady, BatchSteady
<1>5. pc[t] \notin Rest
  BY Beginnings DEF Rest
<1>6. CASE Op(t) = "vm_batch"
  BY <1>1, <1>4, <1>6 DEF Local, PolicyOps
<1>7. CASE Op(t) # "vm_batch"
  <2>1. Op(t) \in PolicyOps /\ pc[t] \in {"resolve", Op(t)}
    BY <1>5, <1>7 DEF Local
  <2>2. ~BatchActs(t)
    BY <2>1, Where DEF BatchSteps, PolicyOps
  <2>3. pc'[t] \in {"resolve", Op(t), "done"}
    <3>1. CASE Resolve(t)
      BY <3>1, <1>2 DEF Resolve, Op
    <3>2. CASE PolicyActs(t)
      BY <3>2, <1>2
      DEF PolicyActs, Start, Pause, Resume, Restart, Shutdown, Stop, SetState, Script, Snapshot,
          Policy, Unmeter, Refresh, Eject, Mount, EnableHA, DisableHA
    <3>3. QED
      BY <3>1, <3>2, <2>2, <1>3
  <2>4. QED
    BY <2>1, <2>3, <1>1, <1>4 DEF Local, PolicyOps, Shapers, Rest
<1>8. QED
  BY <1>6, <1>7

(* Those that do keep what is right. *)
LEMMA ShapersKeep ==
  ASSUME TInv, HostOK, NEW t \in Tasks, Acts(t), ~Kill(t), pc[t] # "waiting", Op(t) \in Shapers,
         Local(t), Sound(t)
  PROVE  HostOK' /\ Local(t)' /\ (Op(t) = "vm_clone" => OthersKept(t))
<1>1. Op(t)' = Op(t)
  BY ActsProceeds DEF Proceeds, Op
<1>2. ~Begins(t)
  BY Where
<1> DEFINE Goal == HostOK' /\ Local(t)' /\ (Op(t) = "vm_clone" => OthersKept(t))
<1> USE DEF Local, PolicyOps, Shapers
<1>3. CASE Op(t) = "vm_create"
  <2>1. CreateActs(t) \/ Finish(t)
    BY <1>2, <1>3, OwnActs
  <2>2. HostOK' /\ CreateLocal(t)'
    BY <2>1, <1>3, CreateKeeps
  <2>3. QED
    BY <2>2, <1>1, <1>3
<1>4. CASE Op(t) = "vm_clone"
  <2>1. CloneActs(t) \/ Convert(t) \/ Finish(t)
    BY <1>2, <1>4, OwnActs
  <2>2. HostOK' /\ CloneLocal(t)' /\ OthersKept(t)
    BY <2>1, <1>4, CloneKeeps
  <2>3. QED
    BY <2>2, <1>1, <1>4
<1>5. CASE Op(t) = "vm_delete"
  <2>1. Resolve(t) \/ DeleteActs(t)
    BY <1>2, <1>5, OwnActs
  <2>2. HostOK' /\ DeleteLocal(t)'
    BY <2>1, <1>5, DeleteKeeps
  <2>3. QED
    BY <2>2, <1>1, <1>5
<1>6. CASE Op(t) \in {"vm_rename", "vm_move"}
  <2>1. Resolve(t) \/ MoveActs(t)
    BY <1>2, <1>6, OwnActs
  <2>2. HostOK' /\ MoveLocal(t)'
    BY <2>1, <1>6, MoveKeeps
  <2>3. QED
    BY <2>2, <1>1, <1>6
<1>7. CASE Op(t) = "vm_export_template"
  <2>1. Resolve(t) \/ ExportActs(t) \/ Convert(t)
    BY <1>2, <1>7, OwnActs
  <2>2. HostOK' /\ ExportLocal(t)'
    BY <2>1, <1>7, ExportKeeps
  <2>3. QED
    BY <2>2, <1>1, <1>7
<1>8. CASE Op(t) = "vm_edit"
  <2>1. EditStep(t)
    BY <1>8, OwnActs
  <2>2. HostOK' /\ EditLocal(t)'
    BY <2>1, <1>8, EditKeeps
  <2>3. QED
    BY <2>2, <1>1, <1>8
<1>9. CASE Op(t) = "vm_migrate"
  <2>1. Resolve(t) \/ Migrate(t)
    BY <1>2, <1>9, OwnActs
  <2>2. CASE Migrate(t)
    <3>1. HostOK' /\ pc'[t] = "done"
      BY <2>2, <1>9, MigrateKeeps
    <3>2. QED
      BY <3>1, <1>1, <1>9 DEF Rest
  <2>3. CASE Resolve(t)
    <3>1. HostOK'
      <4>1. Remembered
        BY <1>9, HistoryKept
      <4>2. QED
        BY <4>1, <2>3, IdleSteady, SteadyKeeps
    <3>2. pc'[t] \in {"done", "vm_migrate"}
      <4>1. /\ \A s, l : GoWith(t, s, l) => pc'[t] = s
            /\ Fail(t) => pc'[t] = "done"
        BY Ends
      <4>2. QED
        BY <4>1, <2>3, <1>9 DEF Resolve, Op
    <3>3. QED
      BY <3>1, <3>2, <1>1, <1>9 DEF Rest
  <2>4. QED
    BY <2>1, <2>2, <2>3
<1>10. QED
  BY <1>3, <1>4, <1>5, <1>6, <1>7, <1>8, <1>9

-----------------------------------------------------------------------------
(* Handlers side by side: what one leaves alone *)

\* A file the task works on, or that is in a folder it works in.
Claims(t, f) == f \in FilesOf(t) \/ f.dir \in FoldersOf(t)

Stays(v) ==
  /\ v \in Ids /\ v \in Ids'
  /\ vms'[v].name = vms[v].name /\ vms'[v].home = vms[v].home /\ vms'[v].disks = vms[v].disks

\* VMs of other names and folders stay, a VM that is new or changed has a name, a folder and disks
\* that are the task's, and only its folders, and files that are its own, come and go.
Within(t) ==
  /\ \A v \in Ids : vms[v].name \notin Names(t) /\ vms[v].home \notin FoldersOf(t) => Stays(v)
  /\ \A v \in Ids' : ~Stays(v) =>
       /\ vms'[v].name \in Names(t) \cup Reads(t) /\ vms'[v].home \in FoldersOf(t)
       /\ \A f \in vms'[v].disks : Claims(t, f)
  /\ \A f : Away(f.dir) /\ ~Claims(t, f) => (f \in vhds' <=> f \in vhds)
  /\ \A d : Away(d) /\ d \notin FoldersOf(t) => (d \in folders' <=> d \in folders)

(* So the VMs, folders and disks of another task stay as they are. *)
LEMMA Elsewhere ==
  ASSUME NEW t, NEW u, Within(t), Distinct(t, u), Distinct(u, t)
  PROVE  /\ \A v \in Ids : vms[v].home \in FoldersOf(u) => Stays(v)
         /\ \A v \in Its(u) : Stays(v)
         /\ \A n \in Names(u) : ByName(n)' = ByName(n)
         /\ \A v \in Ids' : ~Stays(v) =>
              /\ vms'[v].home \notin FoldersOf(u)
              /\ \A f \in vms'[v].disks : f \notin FilesOf(u) /\ f.dir \notin FoldersOf(u)
              /\ \A f \in FilesOf(u) : f.dir # vms'[v].home
         /\ \A d \in FoldersOf(u) : Unused(d) => Unused(d)'
         /\ \A f : Claims(u, f) /\ Away(f.dir) => (f \in vhds' <=> f \in vhds)
         /\ \A d \in FoldersOf(u) : Away(d) => (d \in folders' <=> d \in folders)
<1>1. /\ \A v \in Ids : vms[v].name \notin Names(t) /\ vms[v].home \notin FoldersOf(t) => Stays(v)
      /\ \A v \in Ids' : ~Stays(v) =>
           /\ vms'[v].name \in Names(t) \cup Reads(t) /\ vms'[v].home \in FoldersOf(t)
           /\ \A f \in vms'[v].disks : Claims(t, f)
  BY DEF Within
<1>2. /\ Names(u) \cap (Names(t) \cup Reads(t)) = {} /\ FoldersOf(t) \cap FoldersOf(u) = {}
      /\ FilesOf(t) \cap FilesOf(u) = {}
      /\ \A f \in FilesOf(t) : f.dir \notin FoldersOf(u)
      /\ \A f \in FilesOf(u) : f.dir \notin FoldersOf(t)
  BY DEF Distinct
<1>3. ASSUME NEW v \in Ids, vms[v].home \in FoldersOf(u)
      PROVE  Stays(v)
  <2>1. vms[v].name \in Names(t) => vms[v].home \in FoldersOf(t)
    BY DEF FoldersOf, Its
  <2>2. QED
    BY <1>1, <1>2, <1>3, <2>1
<1>4. ASSUME NEW v \in Its(u)
      PROVE  Stays(v)
  <2>1. v \in Ids /\ vms[v].home \in FoldersOf(u)
    BY DEF FoldersOf, Its
  <2>2. QED
    BY <1>3, <2>1
<1>5. ASSUME NEW n \in Names(u)
      PROVE  ByName(n)' = ByName(n)
  <2>1. ASSUME NEW v \in ByName(n)
        PROVE  v \in Ids' /\ vms'[v].name = n
    <3>1. v \in Its(u) /\ vms[v].name = n
      BY <1>5, <2>1 DEF ByName, Its
    <3>2. QED
      BY <3>1, <1>4 DEF Stays
  <2>2. ASSUME NEW v \in Ids', vms'[v].name = n
        PROVE  v \in ByName(n)
    <3>1. Stays(v)
      BY <1>1, <1>2, <1>5, <2>2
    <3>2. QED
      BY <3>1, <2>2 DEF Stays, ByName
  <2>3. QED
    BY <2>1, <2>2 DEF ByName
<1>6. ASSUME NEW v \in Ids', ~Stays(v)
      PROVE  /\ vms'[v].home \notin FoldersOf(u)
             /\ \A f \in vms'[v].disks : f \notin FilesOf(u) /\ f.dir \notin FoldersOf(u)
             /\ \A f \in FilesOf(u) : f.dir # vms'[v].home
  BY <1>1, <1>2, <1>6 DEF Claims
<1>7. ASSUME NEW d \in FoldersOf(u), Unused(d)
      PROVE  Unused(d)'
  <2>1. ASSUME NEW v \in Ids'
        PROVE  vms'[v].home # d /\ \A f \in vms'[v].disks : f.dir # d
    <3>1. CASE Stays(v)
      BY <3>1, <1>7 DEF Stays, Unused
    <3>2. CASE ~Stays(v)
      BY <3>2, <1>6, <1>7
    <3>3. QED
      BY <3>1, <3>2
  <2>2. QED
    BY <2>1 DEF Unused
<1>8. ASSUME NEW f, Claims(u, f), Away(f.dir)
      PROVE  f \in vhds' <=> f \in vhds
  <2>1. ~Claims(t, f)
    BY <1>2, <1>8 DEF Claims
  <2>2. QED
    BY <2>1, <1>8 DEF Within
<1>9. ASSUME NEW d \in FoldersOf(u), Away(d)
      PROVE  d \in folders' <=> d \in folders
  BY <1>2, <1>9 DEF Within
<1>10. QED
  BY <1>3, <1>4, <1>5, <1>6, <1>7, <1>8, <1>9

(* What a handler knows stays true while others that are apart from it run. *)
LEMMA ElsewhereLocal ==
  ASSUME NEW t, NEW u \in Tasks, Within(t), Distinct(t, u), Distinct(u, t),
         request' = request, Same(u), Local(u)
  PROVE  Local(u)'
<1>1. /\ Target(u)' = Target(u) /\ Clone(u)' = Clone(u) /\ Name(u)' = Name(u)
      /\ DiskFiles(u)' = DiskFiles(u) /\ Op(u)' = Op(u) /\ Source(u)' = Source(u)
      /\ (\A s : At(u, s)' <=> At(u, s)) /\ pc'[u] = pc[u] /\ loc'[u] = loc[u]
  BY DEF Same, Target, Clone, Name, DiskFiles, Op, At, Source
<1>2. \A v \in Ids : vms[v].home \in FoldersOf(u) => Stays(v)
  BY Elsewhere
<1>3. \A v \in Its(u) : Stays(v)
  BY Elsewhere
<1>4. \A n \in Names(u) : ByName(n)' = ByName(n)
  BY Elsewhere
<1>5. \A v \in Ids' : ~Stays(v) =>
        /\ vms'[v].home \notin FoldersOf(u)
        /\ \A f \in vms'[v].disks : f \notin FilesOf(u) /\ f.dir \notin FoldersOf(u)
        /\ \A f \in FilesOf(u) : f.dir # vms'[v].home
  BY Elsewhere
<1>6. \A d \in FoldersOf(u) : Unused(d) => Unused(d)'
  BY Elsewhere
<1>7. \A f : Claims(u, f) /\ Away(f.dir) => (f \in vhds' <=> f \in vhds)
  BY Elsewhere
<1>8. \A d \in FoldersOf(u) : Away(d) => (d \in folders' <=> d \in folders)
  BY Elsewhere
<1>9. Op(u) \in {"vm_create", "vm_clone"} =>
        /\ request[u].name \in Names(u) /\ Target(u) \in FoldersOf(u) /\ Away(Target(u))
        /\ Named(u)' = Named(u)
        /\ \A f : f.dir = Target(u) => (f \in vhds' <=> f \in vhds)
  <2> SUFFICES ASSUME Op(u) \in {"vm_create", "vm_clone"}
               PROVE  /\ request[u].name \in Names(u) /\ Target(u) \in FoldersOf(u) /\ Away(Target(u))
                      /\ Named(u)' = Named(u)
                      /\ \A f : f.dir = Target(u) => (f \in vhds' <=> f \in vhds)
    OBVIOUS
  <2>1. request[u].name \in Names(u) /\ Target(u) \in FoldersOf(u)
    BY DEF Names, FoldersOf
  <2>2. Away(Target(u))
    BY DEF Away, Target, Folder
  <2>3. Named(u)' = Named(u)
    BY <2>1, <1>4 DEF Named
  <2>4. QED
    BY <2>1, <2>2, <2>3, <1>7 DEF Claims
<1>10. ASSUME Op(u) = "vm_create", CreateLocal(u)
       PROVE  CreateLocal(u)'
  <2>1. \A f \in DiskFiles(u) : f.dir = Target(u)
    BY DEF DiskFiles, File
  <2>2. Unused(Target(u)) => Unused(Target(u))'
    BY <1>6, <1>9, <1>10, <1>1
  <2>3. Target(u) \in folders => Target(u)' \in folders'
    BY <1>8, <1>9, <1>10, <1>1
  <2>4. \A v \in Named(u) : v \in Its(u)
    BY <1>9, <1>10 DEF Its, Named, ByName
  <2>5. \A v \in Named(u) : vms'[v].home = vms[v].home
    BY <1>3, <2>4 DEF Stays
  <2>6. loc[u].done \subseteq vhds \cap DiskFiles(u) => loc'[u].done \subseteq vhds' \cap DiskFiles(u)'
    BY <2>1, <1>1, <1>9, <1>10
  <2>7. DiskFiles(u) \subseteq vhds => DiskFiles(u)' \subseteq vhds'
    BY <2>1, <1>1, <1>9, <1>10
  <2>8. At(u, "create.attach")' => /\ DiskFiles(u)' \subseteq vhds'
                                   /\ \A v \in Named(u)' : vms'[v].home = Target(u)'
    BY <2>5, <2>7, <1>1, <1>9, <1>10 DEF CreateLocal
  <2>9. QED
    BY <2>2, <2>3, <2>6, <2>8, <1>1, <1>9, <1>10 DEF CreateLocal
<1>11. ASSUME Op(u) = "vm_clone", CloneLocal(u)
       PROVE  CloneLocal(u)'
  <2>1. Named(u)' = Named(u) /\ Target(u) \in FoldersOf(u)
    BY <1>9, <1>11
  <2>2. Target(u) \notin folders => Target(u)' \notin folders'
    BY <1>1, <1>8, <1>9, <1>11
  <2>3. Settled(u) => /\ Settled(u)' /\ Lost(u)' = Lost(u) /\ vms'[Clone(u)].name = vms[Clone(u)].name
                      /\ vms'[Clone(u)].disks = vms[Clone(u)].disks
                      /\ \A f \in vms[Clone(u)].disks :
                           DOMAIN f = {"dir", "n", "as"} /\ f.dir = Target(u)
    <3> SUFFICES ASSUME Settled(u)
                 PROVE  /\ Settled(u)' /\ Lost(u)' = Lost(u) /\ vms'[Clone(u)].name = vms[Clone(u)].name
                        /\ vms'[Clone(u)].disks = vms[Clone(u)].disks
                        /\ \A f \in vms[Clone(u)].disks :
                             DOMAIN f = {"dir", "n", "as"} /\ f.dir = Target(u)
      OBVIOUS
    <3>1. /\ Clone(u) \in Ids /\ vms[Clone(u)].home = Target(u)
          /\ \A f \in vms[Clone(u)].disks : IsFile(f) /\ f.dir = Target(u) /\ f.as # "conv"
      BY DEF Settled
    <3>2. Stays(Clone(u))
      BY <3>1, <2>1, <1>2
    <3>3. Settled(u)'
      BY <3>1, <3>2, <1>1 DEF Stays, Settled
    <3>4. Lost(u)' = Lost(u)
      BY <3>1, <3>2, <1>1, <1>9, <1>11 DEF Stays, Lost
    <3>5. QED
      BY <3>1, <3>2, <3>3, <3>4 DEF Stays, IsFile
  <2>4. /\ pc'[u] \in CloneSteps \cup Rest
        /\ pc'[u] \in Before \cup Free => Clone(u)' = 0
        /\ pc'[u] \in Free => Named(u)' = {} /\ Target(u)' \notin folders'
    BY <2>1, <2>2, <1>1, <1>11 DEF CloneLocal
  <2>5. At(u, "clone.name")' =>
          /\ Settled(u)' /\ vms'[Clone(u)'].name = Source(u)'
          /\ Named(u)' \subseteq {Clone(u)'} /\ Lost(u)' = {}
          /\ \A v \in Ids' \ {Clone(u)'} : \A f \in vms'[v].disks : f.dir # Target(u)'
    <3> SUFFICES ASSUME At(u, "clone.name")
                 PROVE  /\ Settled(u)' /\ vms'[Clone(u)'].name = Source(u)'
                        /\ Named(u)' \subseteq {Clone(u)'} /\ Lost(u)' = {}
                        /\ \A v \in Ids' \ {Clone(u)'} : \A f \in vms'[v].disks : f.dir # Target(u)'
      BY <1>1
    <3>1. /\ Settled(u) /\ vms[Clone(u)].name = Source(u)
          /\ Named(u) \subseteq {Clone(u)} /\ Lost(u) = {}
          /\ \A v \in Ids \ {Clone(u)} : \A f \in vms[v].disks : f.dir # Target(u)
      BY <1>11 DEF CloneLocal
    <3>2. ASSUME NEW v \in Ids' \ {Clone(u)}
          PROVE  \A f \in vms'[v].disks : f.dir # Target(u)
      <4>1. CASE Stays(v)
        BY <4>1, <3>1 DEF Stays
      <4>2. CASE ~Stays(v)
        BY <4>2, <1>5, <2>1
      <4>3. QED
        BY <4>1, <4>2
    <3>3. QED
      BY <3>1, <3>2, <2>1, <2>3, <1>1
  <2>6. pc'[u] \in OwnVM => Settled(u)' /\ Named(u)' = {Clone(u)'}
    BY <2>1, <2>3, <1>1, <1>11 DEF CloneLocal
  <2>7. pc[u] \in OwnVM => /\ Lost(u)' = Lost(u) /\ vms'[Clone(u)].disks = vms[Clone(u)].disks
                           /\ \A f \in vms[Clone(u)].disks :
                                DOMAIN f = {"dir", "n", "as"} /\ f.dir = Target(u)
    BY <2>3, <1>11 DEF CloneLocal
  <2>8. /\ pc'[u] \in {"clone.disk", "clone.tidy"} => Lost(u)' = {}
        /\ At(u, "clone.point")' =>
             /\ \E f \in vms'[Clone(u)].disks : loc'[u].disks = {f} /\ Renamed(f) \in vhds'
             /\ Lost(u)' \subseteq loc'[u].disks
    <3>1. pc'[u] \in {"clone.disk", "clone.tidy"} => Lost(u)' = {}
      BY <2>7, <1>1, <1>11 DEF CloneLocal, OwnVM, At
    <3>2. ASSUME At(u, "clone.point")
          PROVE  /\ \E f \in vms'[Clone(u)].disks : loc'[u].disks = {f} /\ Renamed(f) \in vhds'
                 /\ Lost(u)' \subseteq loc'[u].disks
      <4>1. /\ pc[u] \in OwnVM /\ Lost(u) \subseteq loc[u].disks
            /\ \E f \in vms[Clone(u)].disks : loc[u].disks = {f} /\ Renamed(f) \in vhds
        BY <3>2, <1>11 DEF CloneLocal, OwnVM, At
      <4>2. PICK f \in vms[Clone(u)].disks : loc[u].disks = {f} /\ Renamed(f) \in vhds
        BY <4>1
      <4>3. Renamed(f).dir = Target(u)
        BY <4>1, <2>7 DEF Renamed
      <4>4. Renamed(f) \in vhds'
        BY <4>2, <4>3, <1>9, <1>11
      <4>5. QED
        BY <4>1, <4>2, <4>4, <2>7, <1>1
    <3>3. QED
      BY <3>1, <3>2, <1>1
  <2>9. /\ pc'[u] \in {"convert", "convert.remove"} \cup Ending => Lost(u)' \subseteq loc'[u].failed
        /\ At(u, "convert.rename")' => Lost(u)' \subseteq loc'[u].failed \cup loc'[u].done
        /\ pc'[u] \in Converting => loc'[u].disks \subseteq vms'[Clone(u)].disks
    BY <2>7, <1>1, <1>11 DEF CloneLocal, OwnVM, At, Converting
  <2>10. ASSUME pc[u] \in {"convert.remove", "convert.rename"}
         PROVE  \E f \in loc'[u].disks : loc'[u].done = {f} /\ Converted(f) \in vhds'
    <3>1. pc[u] \in OwnVM /\ loc[u].disks \subseteq vms[Clone(u)].disks
      BY <2>10, <1>11 DEF CloneLocal, OwnVM, Converting
    <3>2. PICK f \in loc[u].disks : loc[u].done = {f} /\ Converted(f) \in vhds
      BY <2>10, <1>11 DEF CloneLocal
    <3>3. Converted(f).dir = Target(u)
      BY <3>1, <2>7 DEF Converted
    <3>4. Converted(f) \in vhds'
      BY <3>2, <3>3, <1>9, <1>11
    <3>5. QED
      BY <3>2, <3>4, <1>1
  <2>11. QED
    BY <1>1, <2>4, <2>5, <2>6, <2>8, <2>9, <2>10 DEF CloneLocal
<1>12. ExportLocal(u) => ExportLocal(u)'
  BY <1>1 DEF ExportLocal
<1>13. ASSUME Op(u) = "vm_delete", DeleteLocal(u)
       PROVE  DeleteLocal(u)'
  <2>1. pc'[u] \in {"delete.role", "delete.vm"} =>
          \E v \in Ids' : /\ ByName(Name(u))' = {v} /\ vms'[v].home = loc'[u].home
                          /\ loc'[u].disks \subseteq vms'[v].disks
    <3> SUFFICES ASSUME pc[u] \in {"delete.role", "delete.vm"}
                 PROVE  \E v \in Ids' : /\ ByName(Name(u))' = {v} /\ vms'[v].home = loc'[u].home
                                        /\ loc'[u].disks \subseteq vms'[v].disks
      BY <1>1
    <3>1. PICK v \in Ids : /\ ByName(Name(u)) = {v} /\ vms[v].home = loc[u].home
                           /\ loc[u].disks \subseteq vms[v].disks
      BY <1>13 DEF DeleteLocal
    <3>2. Name(u) \in Names(u)
      BY <1>13 DEF Names, LookedUp, Name, At
    <3>3. v \in Its(u)
      BY <3>1, <3>2 DEF Its, ByName
    <3>4. ByName(Name(u))' = {v}
      BY <3>1, <3>2, <1>1, <1>4
    <3>5. QED
      BY <3>1, <3>3, <3>4, <1>1, <1>3 DEF Stays
  <2>2. At(u, "delete.files")' => /\ Unused(loc[u].home)'
                                  /\ \A v \in Ids' : vms'[v].disks \cap loc'[u].disks = {}
    <3> SUFFICES ASSUME At(u, "delete.files")
                 PROVE  /\ Unused(loc[u].home)'
                        /\ \A v \in Ids' : vms'[v].disks \cap loc'[u].disks = {}
      BY <1>1
    <3>1. Unused(loc[u].home) /\ \A v \in Ids : vms[v].disks \cap loc[u].disks = {}
      BY <1>13 DEF DeleteLocal
    <3>2. loc[u].home \in FoldersOf(u) /\ \A f \in loc[u].disks : f \in FilesOf(u)
      <4>1. loc[u].home \in FoldersOf(u)
        BY DEF FoldersOf, At
      <4>2. \A f \in loc[u].disks : f \in FilesOf(u)
        BY <1>13 DEF FilesOf
      <4>3. QED
        BY <4>1, <4>2
    <3>3. Unused(loc[u].home)'
      <4>1. PICK d : d = loc[u].home
        OBVIOUS
      <4>2. Unused(d)'
        BY <3>1, <3>2, <4>1, <1>6
      <4>3. QED
        BY <4>1, <4>2, <1>1 DEF Unused
    <3>4. ASSUME NEW v \in Ids'
          PROVE  vms'[v].disks \cap loc[u].disks = {}
      <4>1. CASE Stays(v)
        BY <4>1, <3>1 DEF Stays
      <4>2. CASE ~Stays(v)
        BY <4>2, <3>2, <1>5
      <4>3. QED
        BY <4>1, <4>2
    <3>5. QED
      BY <3>3, <3>4, <1>1
  <2>3. QED
    BY <2>1, <2>2, <1>1, <1>13 DEF DeleteLocal
<1>14. ASSUME Op(u) = "vm_edit", EditLocal(u)
       PROVE  EditLocal(u)'
  <2> SUFFICES ASSUME At(u, "edit.wipe")
               PROVE  \A v \in Ids' : vms'[v].disks \cap loc'[u].disks = {}
    BY <1>1 DEF EditLocal
  <2>1. \A v \in Ids : vms[v].disks \cap loc[u].disks = {}
    BY <1>14 DEF EditLocal
  <2>2. \A f \in loc[u].disks : f \in FilesOf(u)
    BY <1>14 DEF FilesOf
  <2>3. ASSUME NEW v \in Ids'
        PROVE  vms'[v].disks \cap loc[u].disks = {}
    <3>1. CASE Stays(v)
      BY <3>1, <2>1 DEF Stays
    <3>2. CASE ~Stays(v)
      BY <3>2, <2>2, <1>5
    <3>3. QED
      BY <3>1, <3>2
  <2>4. QED
    BY <2>3, <1>1
<1>15. ASSUME Op(u) \in {"vm_rename", "vm_move"}, MoveLocal(u)
       PROVE  MoveLocal(u)'
  <2>0. PICK v : v = request[u].vm /\ v = request'[u].vm
    OBVIOUS
  <2>1. /\ pc[u] \in {"resolve", "rename", "move", "clean", "clean.remove", Op(u)} \cup Rest
        /\ At(u, "rename") => Op(u) = "vm_rename"
        /\ pc[u] \in {"vm_rename", "vm_move"} => v \in ByName(Name(u))
        /\ At(u, "rename") \/ At(u, "move") =>
             /\ v \in Ids /\ loc[u].dest \notin folders /\ Away(loc[u].dest)
             /\ \A w \in Ids \ {v} :
                  /\ vms[w].disks \cap vms[v].disks = {}
                  /\ \A f \in vms[w].disks : f.dir # vms[v].home
                  /\ \A f \in vms[v].disks : f.dir # vms[w].home
        /\ At(u, "rename") => ByName(Name(u)) = {v} /\ loc[u].dest[2] = request[u].new
        /\ At(u, "move") /\ Op(u) = "vm_rename" =>
             vms[v].name = request[u].new /\ loc[u].dest[2] = request[u].new
        /\ At(u, "move") /\ Op(u) = "vm_move" =>
             ByName(Name(u)) = {v} /\ loc[u].dest[2] = Name(u)
        /\ pc[u] \in Relocating => Away(loc[u].home)
        /\ pc[u] \in {"clean", "clean.remove"} /\ loc[u].ok =>
             \/ v \in Ids /\ vms[v].home[2] = vms[v].name
             \/ Op(u) = "vm_rename" /\ v \in loc[u].failed
        /\ At(u, "clean.remove") => FilesIn(loc[u].home) = {} /\ \A w \in Ids : vms[w].home # loc[u].home
    BY <2>0, <1>15 DEF MoveLocal
  <2>2. pc[u] # "resolve" => Name(u) \in Names(u)
    <3>1. pc[u] # "vm_edit"
      BY <2>1, <1>15 DEF Rest
    <3>2. QED
      BY <3>1, <1>15 DEF Names, LookedUp, Name
  <2>3. pc[u] # "resolve" => ByName(Name(u))' = ByName(Name(u))
    BY <2>2, <1>1, <1>4
  <2>4. v \in Ids => v \in Its(u)
    <3>1. v \in Ids => v \in ByIdentity(u)
      BY <2>0 DEF ByIdentity
    <3>2. v \in Ids => vms[v].name \in Names(u)
      BY <3>1, <1>15 DEF Names
    <3>3. QED
      BY <3>2 DEF Its
  <2>5. v \in Ids => /\ Stays(v) /\ vms[v].home \in FoldersOf(u)
                     /\ \A f \in vms[v].disks : f \in FilesOf(u)
    <3>1. v \in Ids => Stays(v) /\ vms[v].home \in FoldersOf(u)
      BY <2>4, <1>3 DEF FoldersOf
    <3>2. v \in Ids => \A f \in vms[v].disks : f \in FilesOf(u)
      BY <2>4 DEF FilesOf
    <3>3. QED
      BY <3>1, <3>2
  <2>6. pc[u] \in Relocating => loc[u].home \in FoldersOf(u) /\ loc[u].dest \in FoldersOf(u)
    BY DEF FoldersOf
  <2>7. At(u, "rename") \/ At(u, "move") =>
          /\ v \in Ids' /\ loc[u].dest \notin folders' /\ Away(loc[u].dest)
          /\ \A w \in Ids' \ {v} :
               /\ vms'[w].disks \cap vms'[v].disks = {}
               /\ \A f \in vms'[w].disks : f.dir # vms'[v].home
               /\ \A f \in vms'[v].disks : f.dir # vms'[w].home
    <3> SUFFICES ASSUME At(u, "rename") \/ At(u, "move")
                 PROVE  /\ v \in Ids' /\ loc[u].dest \notin folders' /\ Away(loc[u].dest)
                        /\ \A w \in Ids' \ {v} :
                             /\ vms'[w].disks \cap vms'[v].disks = {}
                             /\ \A f \in vms'[w].disks : f.dir # vms'[v].home
                             /\ \A f \in vms'[v].disks : f.dir # vms'[w].home
      OBVIOUS
    <3>1. v \in Ids /\ loc[u].dest \notin folders /\ Away(loc[u].dest) /\ loc[u].dest \in FoldersOf(u)
      BY <2>1, <2>6 DEF At, Relocating
    <3>2. loc[u].dest \notin folders'
      BY <3>1, <1>8
    <3>3. v \in Ids' /\ vms'[v].home = vms[v].home /\ vms'[v].disks = vms[v].disks
      BY <3>1, <2>5 DEF Stays
    <3>4. ASSUME NEW w \in Ids' \ {v}
          PROVE  /\ vms'[w].disks \cap vms[v].disks = {}
                 /\ \A f \in vms'[w].disks : f.dir # vms[v].home
                 /\ \A f \in vms[v].disks : f.dir # vms'[w].home
      <4>1. CASE Stays(w)
        BY <4>1, <2>1 DEF Stays
      <4>2. CASE ~Stays(w)
        BY <4>2, <3>1, <2>5, <1>5
      <4>3. QED
        BY <4>1, <4>2
    <3>5. QED
      BY <3>1, <3>2, <3>3, <3>4
  <2>8. pc[u] \in {"clean", "clean.remove"} /\ loc[u].ok =>
          \/ v \in Ids' /\ vms'[v].home[2] = vms'[v].name
          \/ Op(u) = "vm_rename" /\ v \in loc[u].failed
    BY <2>1, <2>5 DEF Stays
  <2>9. At(u, "move") /\ Op(u) = "vm_rename" => vms'[v].name = request[u].new
    BY <2>1, <2>5 DEF Stays
  <2>10. At(u, "clean.remove") =>
           FilesIn(loc[u].home)' = {} /\ \A w \in Ids' : vms'[w].home # loc[u].home
    <3> SUFFICES ASSUME At(u, "clean.remove")
                 PROVE  FilesIn(loc[u].home)' = {} /\ \A w \in Ids' : vms'[w].home # loc[u].home
      OBVIOUS
    <3>1. /\ FilesIn(loc[u].home) = {} /\ Away(loc[u].home) /\ loc[u].home \in FoldersOf(u)
          /\ \A w \in Ids : vms[w].home # loc[u].home
      BY <2>1, <2>6 DEF At, Relocating
    <3>2. \A f \in vhds' : f.dir # loc[u].home
      BY <3>1, <1>7 DEF FilesIn, Claims
    <3>3. ASSUME NEW w \in Ids'
          PROVE  vms'[w].home # loc[u].home
      BY <3>1, <1>5 DEF Stays
    <3>4. QED
      BY <3>2, <3>3, <1>1 DEF FilesIn
  <2>11. pc[u] \in {"vm_rename", "vm_move", "rename", "move"} => ByName(Name(u))' = ByName(Name(u))
    BY <2>3
  <2>12. QED
    <3>1. request'[u].vm = v /\ request'[u].new = request[u].new
      BY <2>0
    <3>2. /\ pc'[u] \in {"vm_rename", "vm_move"} => v \in ByName(Name(u))'
          /\ At(u, "rename")' => ByName(Name(u))' = {v}
          /\ At(u, "move")' /\ Op(u)' = "vm_move" => ByName(Name(u))' = {v}
      BY <2>1, <2>11, <1>1 DEF At
    <3>3. QED
      BY <2>1, <2>7, <2>8, <2>9, <2>10, <3>1, <3>2, <1>1 DEF MoveLocal
<1>16. QED
  BY <1>1, <1>10, <1>11, <1>12, <1>13, <1>14, <1>15 DEF Local

(* The VMs of a task, with their folders and disks. *)
LEMMA ItsOwn ==
  ASSUME NEW t
  PROVE  /\ \A v \in Its(t) : /\ v \in Ids /\ vms[v].name \in Names(t) /\ vms[v].home \in FoldersOf(t)
                              /\ \A f \in vms[v].disks : f \in FilesOf(t) /\ Claims(t, f)
         /\ \A n \in Names(t) : ByName(n) \subseteq Its(t)
<1>1. \A v \in Its(t) : /\ v \in Ids /\ vms[v].name \in Names(t) /\ vms[v].home \in FoldersOf(t)
                        /\ \A f \in vms[v].disks : f \in FilesOf(t)
  BY DEF Its, FoldersOf, FilesOf
<1>2. \A n \in Names(t) : ByName(n) \subseteq Its(t)
  BY DEF Its, ByName
<1>3. QED
  BY <1>1, <1>2 DEF Claims

\* Of files and folders, only the task's come and go.
OwnFiles(t) ==
  /\ \A f : Away(f.dir) /\ ~Claims(t, f) => (f \in vhds' <=> f \in vhds)
  /\ \A d : Away(d) /\ d \notin FoldersOf(t) => (d \in folders' <=> d \in folders)

(* A step that changes no VM. *)
LEMMA QuietWithin ==
  ASSUME NEW t, Calm, OwnFiles(t)
  PROVE  Within(t)
<1>1. \A v \in Ids : Stays(v)
  BY DEF Calm, Stays
<1>2. \A v \in Ids' : Stays(v)
  BY <1>1 DEF Calm
<1>3. QED
  BY <1>1, <1>2 DEF Within, OwnFiles

(* A step that changes nothing. *)
LEMMA SteadyWithin ==
  ASSUME NEW t, Steady
  PROVE  Within(t)
BY QuietWithin DEF Steady, OwnFiles

(* A step that makes a VM, or changes one in a folder of the task. *)
LEMMA OneWithin ==
  ASSUME NEW t, NEW v, OwnFiles(t), v \in Ids => vms[v].home \in FoldersOf(t), Ids' = Ids \cup {v},
         \A w \in Ids \ {v} : vms'[w] = vms[w],
         vms'[v].name \in Names(t) \cup Reads(t), vms'[v].home \in FoldersOf(t),
         \A f \in vms'[v].disks : Claims(t, f)
  PROVE  Within(t)
<1>1. \A w \in Ids \ {v} : Stays(w)
  BY DEF Stays
<1>2. ASSUME NEW w \in Ids, vms[w].home \notin FoldersOf(t)
      PROVE  Stays(w)
  BY <1>1, <1>2
<1>3. ASSUME NEW w \in Ids', ~Stays(w)
      PROVE  w = v
  BY <1>1, <1>3
<1>4. QED
  BY <1>2, <1>3 DEF Within, OwnFiles

(* A step that changes VMs of the task's, or removes them. *)
LEMMA GroupWithin ==
  ASSUME NEW t, NEW S, OwnFiles(t), S \subseteq Its(t), Ids' = Ids \ S,
         \A w \in Ids \ Its(t) : vms'[w] = vms[w],
         \A w \in Its(t) \ S : /\ vms'[w].name \in Names(t) /\ vms'[w].home \in FoldersOf(t)
                               /\ \A f \in vms'[w].disks : Claims(t, f)
  PROVE  Within(t)
<1>1. \A w \in Ids \ Its(t) : Stays(w)
  BY DEF Stays
<1>2. ASSUME NEW w \in Ids, vms[w].name \notin Names(t)
      PROVE  Stays(w)
  BY <1>1, <1>2 DEF Its
<1>3. ASSUME NEW w \in Ids', ~Stays(w)
      PROVE  w \in Its(t) \ S
  BY <1>1, <1>3
<1>4. QED
  BY <1>2, <1>3 DEF Within, OwnFiles

(* vm_create works in the folder of its VM. *)
LEMMA CreateWithin ==
  ASSUME TInv, HostOK, NEW t \in Tasks, Op(t) = "vm_create", CreateLocal(t), CreateActs(t) \/ Finish(t)
  PROVE  Within(t)
<1>1. /\ request[t].name \in Names(t) /\ Target(t) \in FoldersOf(t)
      /\ \A f \in DiskFiles(t) : f.dir = Target(t)
  BY DEF Names, FoldersOf, DiskFiles, File
<1>2. \A v \in Ids : DOMAIN vms[v] = VMFields
  BY DEF TInv, HostInv, VMsInv, VMOk
<1>3. CASE CreateSpace(t) \/ Finish(t)
  <2>1. Steady
    BY <1>3, FinishSteady DEF CreateSpace, Space, hostVars, Steady, Calm, Ids
  <2>2. QED
    BY <2>1, SteadyWithin
<1>4. CASE CreateCheck(t)
  <2>1. Calm /\ vhds' = vhds /\ (folders' = folders \/ folders' = folders \cup {Target(t)})
    BY <1>4 DEF CreateCheck, Calm, Ids
  <2>2. OwnFiles(t)
    BY <2>1, <1>1 DEF OwnFiles
  <2>3. QED
    BY <2>1, <2>2, QuietWithin
<1>5. CASE CreateDisk(t)
  <2>1. Calm /\ folders' = folders /\ (vhds' = vhds \/ \E f \in DiskFiles(t) : vhds' = vhds \cup {f})
    BY <1>5 DEF CreateDisk, Calm, Ids
  <2>2. OwnFiles(t)
    BY <2>1, <1>1 DEF OwnFiles, Claims
  <2>3. QED
    BY <2>1, <2>2, QuietWithin
<1>6. CASE CreateVM(t)
  <2>1. vhds' = vhds /\ folders' = folders
    BY <1>6 DEF CreateVM
  <2>2. OwnFiles(t)
    BY <2>1 DEF OwnFiles
  <2>3. CASE vms' = vms
    BY <2>2, <2>3, QuietWithin DEF Calm, Ids
  <2>4. CASE vms' # vms
    <3> DEFINE v == made + 1
               vm == NewVM(request[t].name, Target(t), {OSDisk(t)})
    <3>1. vms' = [w \in Ids \cup {v} |-> IF w = v THEN vm ELSE vms[w]]
      BY <1>6, <2>4 DEF CreateVM, Registered
    <3>2. v \notin Ids
      BY DEF TInv, HostInv, VMsInv
    <3>3. vm.name = request[t].name /\ vm.home = Target(t) /\ vm.disks = {OSDisk(t)}
      BY DEF NewVM
    <3>4. Claims(t, OSDisk(t))
      BY <1>1 DEF OSDisk, File, Claims
    <3> HIDE DEF v, vm
    <3>5. Ids' = Ids \cup {v} /\ vms'[v] = vm /\ \A w \in Ids \ {v} : vms'[w] = vms[w]
      BY <3>1, <3>2 DEF Ids
    <3>6. vms'[v].name \in Names(t) /\ vms'[v].home \in FoldersOf(t) /\ \A f \in vms'[v].disks : Claims(t, f)
      BY <3>3, <3>4, <3>5, <1>1
    <3>7. QED
      BY <2>2, <3>2, <3>5, <3>6, OneWithin
  <2>5. QED
    BY <2>3, <2>4
<1>7. CASE CreateAttach(t)
  <2>1. OwnFiles(t)
    BY <1>7 DEF CreateAttach, OwnFiles
  <2>2. CASE vms' = vms
    BY <2>1, <2>2, QuietWithin DEF Calm, Ids
  <2>3. CASE vms' # vms
    <3> DEFINE v == The(request[t].name)
    <3>1. PICK f \in DiskFiles(t) : vms' = [vms EXCEPT ![v].disks = @ \cup {f}] /\ One(request[t].name)
      BY <1>7, <2>3 DEF CreateAttach
    <3>2. v \in Ids /\ ByName(request[t].name) = {v}
      BY <3>1, TheOne
    <3> HIDE DEF v
    <3>3. v \in Its(t)
      BY <3>2, <1>1, ItsOwn
    <3>4. /\ Ids' = Ids \cup {v} /\ (\A w \in Ids \ {v} : vms'[w] = vms[w])
          /\ vms'[v] = [vms[v] EXCEPT !.disks = @ \cup {f}]
      BY <3>1, <3>2 DEF Ids
    <3>5. /\ vms'[v].name = vms[v].name /\ vms'[v].home = vms[v].home
          /\ vms'[v].disks = vms[v].disks \cup {f}
      BY <3>2, <3>4, <1>2 DEF VMFields
    <3>6. /\ vms[v].name \in Names(t) /\ vms[v].home \in FoldersOf(t)
          /\ \A g \in vms[v].disks : Claims(t, g)
      BY <3>3, ItsOwn
    <3>7. Claims(t, f)
      BY <1>1 DEF Claims
    <3>8. QED
      BY <2>1, <3>4, <3>5, <3>6, <3>7, OneWithin
  <2>4. QED
    BY <2>2, <2>3
<1>8. QED
  BY <1>3, <1>4, <1>5, <1>6, <1>7 DEF CreateActs

(* vm_clone works in the folder of its VM, beside the exports. *)
LEMMA CloneWithin ==
  ASSUME TInv, HostOK, NEW t \in Tasks, Acts(t), Op(t) = "vm_clone", CloneLocal(t),
         CloneActs(t) \/ Convert(t) \/ Finish(t)
  PROVE  Within(t)
<1>0. PICK v : v = Clone(t)
  OBVIOUS
<1>1. /\ request[t].name \in Names(t) /\ Target(t) \in FoldersOf(t) /\ Source(t) \in Reads(t)
      /\ \A f : f.dir = Target(t) => Claims(t, f)
  BY DEF Names, FoldersOf, Reads, Claims
<1>2. /\ \A w \in Ids : DOMAIN vms[w] = VMFields
      /\ made + 1 \notin Ids /\ ~Away(Exported(t))
  BY CloneFacts
<1>3. pc[t] \in OwnVM \cup {"clone.name"} =>
        /\ v \in Ids /\ vms[v].home = Target(t)
        /\ \A f \in vms[v].disks : IsFile(f) /\ f.dir = Target(t)
        /\ pc[t] \in OwnVM => Named(t) = {v} /\ vms[v].name = request[t].name
  BY <1>0, CloneAlone
<1>4. CASE CloneSpace(t) \/ CloneCheck(t) \/ CloneSource(t) \/ Finish(t)
  <2>1. Steady
    BY <1>4, FinishSteady DEF CloneSpace, CloneCheck, CloneSource, Space, hostVars, Steady, Calm, Ids
  <2>2. QED
    BY <2>1, SteadyWithin
<1>5. CASE CloneExport(t)
  <2>1. /\ Calm /\ (folders' = folders \/ folders' = folders \cup {Exported(t)})
        /\ \A f : f \in vhds => f \in vhds'
        /\ \A f : f \in vhds' => f \in vhds \/ f.dir = Exported(t)
    BY <1>5 DEF CloneExport, CopyAll, CopySome, Copy, File, Calm, Ids
  <2>2. OwnFiles(t)
    BY <2>1, <1>2 DEF OwnFiles
  <2>3. QED
    BY <2>1, <2>2, QuietWithin
<1>6. CASE CloneImport(t)
  <2>1. /\ folders' = folders \cup {Target(t)}
        /\ \A f : f \in vhds => f \in vhds'
        /\ \A f : f \in vhds' => f \in vhds \/ f.dir = Target(t)
    BY <1>6 DEF CloneImport, CopyAll, CopySome, Copy, File
  <2>2. OwnFiles(t)
    BY <2>1, <1>1 DEF OwnFiles
  <2>3. CASE vms' = vms
    BY <2>2, <2>3, QuietWithin DEF Calm, Ids
  <2>4. CASE vms' # vms
    <3> DEFINE w == made + 1
               copies == {Copy(f, Target(t)) : f \in DisksIn(Exported(t))}
               vm == NewVM(Source(t), Target(t), copies)
    <3>1. vms' = [x \in Ids \cup {w} |-> IF x = w THEN vm ELSE vms[x]]
      BY <1>6, <2>4 DEF CloneImport, Registered
    <3>2. w \notin Ids
      BY <1>2
    <3>3. vm.name = Source(t) /\ vm.home = Target(t) /\ vm.disks = copies
      BY DEF NewVM
    <3>4. \A f \in copies : f.dir = Target(t)
      BY DEF Copy, File
    <3> HIDE DEF w, vm, copies
    <3>5. Ids' = Ids \cup {w} /\ vms'[w] = vm /\ \A x \in Ids \ {w} : vms'[x] = vms[x]
      BY <3>1, <3>2 DEF Ids
    <3>6. /\ vms'[w].name \in Names(t) \cup Reads(t) /\ vms'[w].home \in FoldersOf(t)
          /\ \A f \in vms'[w].disks : Claims(t, f)
      BY <3>3, <3>4, <3>5, <1>1
    <3>7. QED
      BY <2>2, <3>2, <3>5, <3>6, OneWithin
  <2>5. QED
    BY <2>3, <2>4
<1>7. CASE CloneName(t)
  <2>1. OwnFiles(t) /\ pc[t] = "clone.name"
    BY <1>7 DEF CloneName, OwnFiles, At
  <2>2. CASE vms' = vms
    BY <2>1, <2>2, QuietWithin DEF Calm, Ids
  <2>3. CASE vms' # vms
    <3>1. vms' = [vms EXCEPT ![v].name = request[t].name]
      BY <1>0, <1>7, <2>3 DEF CloneName
    <3>2. v \in Ids /\ vms[v].home = Target(t) /\ \A f \in vms[v].disks : f.dir = Target(t)
      BY <2>1, <1>3
    <3>3. /\ Ids' = Ids \cup {v} /\ (\A w \in Ids \ {v} : vms'[w] = vms[w])
          /\ vms'[v] = [vms[v] EXCEPT !.name = request[t].name]
      BY <3>1, <3>2 DEF Ids
    <3>4. /\ vms'[v].name = request[t].name /\ vms'[v].home = vms[v].home
          /\ vms'[v].disks = vms[v].disks
      BY <3>2, <3>3, <1>2 DEF VMFields
    <3>5. /\ vms'[v].name \in Names(t) \cup Reads(t) /\ vms'[v].home \in FoldersOf(t)
          /\ \A f \in vms'[v].disks : Claims(t, f)
      BY <3>2, <3>4, <1>1
    <3>6. QED
      BY <2>1, <3>2, <3>3, <3>5, <1>1, OneWithin
  <2>4. QED
    BY <2>2, <2>3
<1>8. CASE CloneDisk(t)
  <2>1. /\ Calm /\ folders' = folders /\ pc[t] \in OwnVM
        /\ vhds' = vhds \/ \E f \in Misnamed(t) : vhds' = Replace(vhds, f, Renamed(f))
    BY <1>8 DEF CloneDisk, Calm, Ids, At, OwnVM
  <2>2. \A f \in Misnamed(t) : IsFile(f) /\ f.dir = Target(t)
    BY <2>1, <1>3 DEF Misnamed
  <2>3. \A f \in Misnamed(t) : Renamed(f).dir = Target(t)
    BY <2>2 DEF Renamed, IsFile
  <2>4. \A f : f.dir # Target(t) => (f \in vhds' <=> f \in vhds)
    BY <2>1, <2>2, <2>3 DEF Replace
  <2>5. OwnFiles(t)
    BY <2>1, <2>4, <1>1 DEF OwnFiles
  <2>6. QED
    BY <2>1, <2>5, QuietWithin
<1>9. CASE ClonePoint(t)
  <2>1. OwnFiles(t) /\ pc[t] \in OwnVM
    BY <1>9 DEF ClonePoint, OwnFiles, At, OwnVM
  <2>2. /\ v \in Ids /\ vms[v].home = Target(t) /\ Named(t) = {v} /\ vms[v].name = request[t].name
        /\ \A f \in vms[v].disks : DOMAIN f = {"dir", "n", "as"} /\ f.dir = Target(t)
    BY <2>1, <1>3 DEF IsFile
  <2>3. CASE vms' = vms
    BY <2>1, <2>3, QuietWithin DEF Calm, Ids
  <2>4. CASE vms' # vms
    <3> DEFINE new == {IF g \in loc[t].disks THEN Renamed(g) ELSE g : g \in vms[v].disks}
    <3>1. vms' = [w \in Ids |-> IF w \in Named(t)
                     THEN [vms[w] EXCEPT !.disks = {IF g \in loc[t].disks THEN Renamed(g) ELSE g : g \in @}]
                     ELSE vms[w]]
      BY <1>9, <2>4 DEF ClonePoint, Changed
    <3>2. /\ Ids' = Ids \cup {v} /\ \A w \in Ids \ {v} : vms'[w] = vms[w]
          /\ vms'[v] = [vms[v] EXCEPT !.disks = new]
      BY <2>2, <3>1 DEF Ids
    <3>3. \A g \in new : g.dir = Target(t)
      BY <2>2 DEF Renamed
    <3> HIDE DEF new
    <3>4. vms'[v].name = vms[v].name /\ vms'[v].home = vms[v].home /\ vms'[v].disks = new
      BY <2>2, <3>2, <1>2 DEF VMFields
    <3>5. /\ vms'[v].name \in Names(t) \cup Reads(t) /\ vms'[v].home \in FoldersOf(t)
          /\ \A f \in vms'[v].disks : Claims(t, f)
      BY <2>2, <3>3, <3>4, <1>1
    <3>6. QED
      BY <2>1, <2>2, <3>2, <3>5, <1>1, OneWithin
  <2>5. QED
    BY <2>3, <2>4
<1>10. CASE CloneUndo(t) \/ CloneTidy(t)
  <2>1. Calm
    BY <1>10 DEF CloneUndo, CloneTidy, Calm, Ids
  <2>2. /\ folders' = folders \/ folders' = folders \ {Exported(t)}
        /\ vhds' = vhds \/ vhds' = vhds \ FilesIn(Exported(t))
    BY <1>10 DEF CloneUndo, CloneTidy, RemoveExport
  <2>3. OwnFiles(t)
    BY <2>2, <1>2 DEF OwnFiles, FilesIn
  <2>4. QED
    BY <2>1, <2>3, QuietWithin
<1>11. CASE Convert(t)
  <2>1. Calm /\ folders' = folders /\ pc[t] \in Converting /\ pc[t] \in OwnVM
    BY <1>11, Where DEF Convert, ConvertDisk, ConvertRemove, ConvertRename, Calm, Ids, Converting, OwnVM
  <2>2. loc[t].disks \subseteq vms[v].disks
    BY <1>0, <2>1 DEF CloneLocal
  <2>3. \A f \in loc[t].disks : DOMAIN f = {"dir", "n", "as"} /\ f.dir = Target(t)
    BY <2>1, <2>2, <1>3 DEF IsFile
  <2>4. \A f \in loc[t].disks : Converted(f).dir = Target(t)
    BY <2>3 DEF Converted
  <2>5. \A g : g.dir # Target(t) => (g \in vhds' <=> g \in vhds)
    <3>1. CASE ConvertDisk(t)
      <4>1. vhds' = vhds \/ \E f \in loc[t].disks : vhds' = vhds \cup {Converted(f)}
        BY <3>1 DEF ConvertDisk, ToConvert
      <4>2. QED
        BY <4>1, <2>4
    <3>2. CASE ConvertRemove(t) \/ ConvertRename(t)
      <4>1. PICK f \in loc[t].disks : loc[t].done = {f}
        BY <3>2 DEF ConvertRemove, ConvertRename, At, CloneLocal
      <4>2. (CHOOSE d \in loc[t].done : TRUE) = f
        BY <4>1
      <4>3. \/ vhds' = vhds \ {f} \/ vhds' = vhds \ {Converted(f)}
            \/ vhds' = Replace(vhds, Converted(f), f)
        BY <3>2, <4>2 DEF ConvertRemove, ConvertRename, Leftover
      <4>4. QED
        BY <4>3, <2>3, <2>4 DEF Replace
    <3>3. QED
      BY <1>11, <3>1, <3>2 DEF Convert
  <2>6. OwnFiles(t)
    BY <2>1, <2>5, <1>1 DEF OwnFiles
  <2>7. QED
    BY <2>1, <2>6, QuietWithin
<1>12. QED
  BY <1>4, <1>5, <1>6, <1>7, <1>8, <1>9, <1>10, <1>11 DEF CloneActs

(* vm_delete works in the folders of its VMs and on the disks it has noted. *)
LEMMA DeleteWithin ==
  ASSUME TInv, NEW t \in Tasks, Op(t) = "vm_delete", Resolve(t) \/ DeleteActs(t)
  PROVE  Within(t)
<1>1. CASE Resolve(t) \/ DeleteCheck(t) \/ DeleteRole(t)
  <2>1. Steady
    <3>1. CASE Resolve(t) \/ DeleteCheck(t)
      BY <3>1, IdleSteady DEF DeleteCheck, hostVars, Steady, Calm, Ids
    <3>2. CASE DeleteRole(t)
      BY <3>2, RoleSteady
    <3>3. QED
      BY <1>1, <3>1, <3>2
  <2>2. QED
    BY <2>1, SteadyWithin
<1>2. CASE DeleteVM(t)
  <2>1. OwnFiles(t)
    BY <1>2 DEF DeleteVM, OwnFiles
  <2>2. loc[t].name \in Names(t)
    BY <1>2 DEF DeleteVM, At, Names, LookedUp
  <2>3. ByName(loc[t].name) \subseteq Its(t)
    BY <2>2, ItsOwn
  <2>4. CASE vms' = vms
    BY <2>1, <2>4, QuietWithin DEF Calm, Ids
  <2>5. CASE vms' # vms
    <3>1. PICK S : vms' = Without(S) /\ S \subseteq Its(t)
      BY <1>2, <2>3, <2>5 DEF DeleteVM
    <3>2. Ids' = Ids \ S /\ \A w \in Ids \ S : vms'[w] = vms[w]
      BY <3>1 DEF Without, Ids
    <3>3. \A w \in Its(t) \ S : /\ vms'[w].name \in Names(t) /\ vms'[w].home \in FoldersOf(t)
                                /\ \A f \in vms'[w].disks : Claims(t, f)
      BY <3>2, ItsOwn
    <3>4. QED
      BY <2>1, <3>1, <3>2, <3>3, GroupWithin
  <2>6. QED
    BY <2>4, <2>5
<1>3. CASE DeleteFiles(t)
  <2>1. Calm
    BY <1>3 DEF DeleteFiles, Calm, Ids
  <2>2. loc[t].home \in FoldersOf(t) /\ \A f \in loc[t].disks : f \in FilesOf(t)
    <3>1. loc[t].home \in FoldersOf(t)
      BY <1>3 DEF DeleteFiles, At, FoldersOf
    <3>2. \A f \in loc[t].disks : f \in FilesOf(t)
      BY DEF FilesOf
    <3>3. QED
      BY <3>1, <3>2
  <2>3. \A f \in FilesIn(loc[t].home) \cup loc[t].disks : Claims(t, f)
    BY <2>2 DEF FilesIn, Claims
  <2>4. /\ folders' = folders \/ folders' = folders \ {loc[t].home}
        /\ \E S : S \subseteq FilesIn(loc[t].home) \cup loc[t].disks /\ vhds' = vhds \ S
    BY <1>3 DEF DeleteFiles
  <2>5. OwnFiles(t)
    BY <2>2, <2>3, <2>4 DEF OwnFiles
  <2>6. QED
    BY <2>1, <2>5, QuietWithin
<1>4. QED
  BY <1>1, <1>2, <1>3 DEF DeleteActs

(* vm_migrate takes its VM and the disks of it. *)
LEMMA MigrateWithin ==
  ASSUME NEW t \in Tasks, Op(t) = "vm_migrate", Resolve(t) \/ Migrate(t)
  PROVE  Within(t)
<1>1. CASE Resolve(t)
  <2>1. Steady
    BY <1>1, IdleSteady
  <2>2. QED
    BY <2>1, SteadyWithin
<1>2. CASE Migrate(t)
  <2> DEFINE S == ByName(Name(t))
             moved == UNION {IF WithFiles(t, vms[v]) THEN vms[v].disks ELSE {} : v \in S}
  <2>1. Name(t) \in Names(t)
    BY <1>2 DEF Migrate, At, Names, LookedUp, Name
  <2>2. S \subseteq Its(t)
    BY <2>1, ItsOwn
  <2>3. \A f \in moved : Claims(t, f)
    BY <2>2, ItsOwn
  <2>4. folders' = folders /\ (vhds' = vhds \/ vhds' = vhds \ moved) /\ (vms' = vms \/ vms' = Without(S))
    BY <1>2 DEF Migrate
  <2> HIDE DEF S, moved
  <2>5. OwnFiles(t)
    BY <2>3, <2>4 DEF OwnFiles
  <2>6. CASE vms' = vms
    BY <2>5, <2>6, QuietWithin DEF Calm, Ids
  <2>7. CASE vms' = Without(S)
    <3>1. Ids' = Ids \ S /\ \A w \in Ids \ S : vms'[w] = vms[w]
      BY <2>7 DEF Without, Ids
    <3>2. \A w \in Its(t) \ S : /\ vms'[w].name \in Names(t) /\ vms'[w].home \in FoldersOf(t)
                                /\ \A f \in vms'[w].disks : Claims(t, f)
      BY <3>1, ItsOwn
    <3>3. \A w \in Ids \ Its(t) : vms'[w] = vms[w]
      BY <2>2, <3>1
    <3>4. QED
      BY <2>2, <2>5, <3>1, <3>2, <3>3, GroupWithin
  <2>8. QED
    BY <2>4, <2>6, <2>7
<1>3. QED
  BY <1>1, <1>2

(* vm_rename and vm_move work in the old and the new folder of their VM. *)
LEMMA MoveWithin ==
  ASSUME TInv, HostOK, NEW t \in Tasks, Op(t) \in {"vm_rename", "vm_move"}, MoveLocal(t),
         Resolve(t) \/ MoveActs(t)
  PROVE  Within(t)
<1>0. PICK v : v = request[t].vm
  OBVIOUS
<1>1. \A w \in Ids : DOMAIN vms[w] = VMFields
  BY DEF TInv, HostInv, VMsInv, VMOk
<1>2. Renames(t) <=> Op(t) = "vm_rename"
  BY DEF Renames, Op
<1>3. CASE Resolve(t) \/ RelocateCheck(t) \/ CleanLook(t)
  <2>1. Steady
    BY <1>3, IdleSteady DEF RelocateCheck, CleanLook, hostVars, Steady, Calm, Ids
  <2>2. QED
    BY <2>1, SteadyWithin
<1>4. CASE Rename(t)
  <2>1. OwnFiles(t) /\ Op(t) = "vm_rename"
    BY <1>4 DEF Rename, OwnFiles, At, MoveLocal
  <2>2. Name(t) \in Names(t) /\ request[t].new \in Names(t)
    BY <1>4, <2>1 DEF Rename, At, Names, LookedUp, Name, Takes
  <2>3. ByName(Name(t)) \subseteq Its(t)
    BY <2>2, ItsOwn
  <2>4. CASE vms' = vms
    BY <2>1, <2>4, QuietWithin DEF Calm, Ids
  <2>5. CASE vms' # vms
    <3> DEFINE S == ByName(Name(t))
    <3>1. vms' = [w \in Ids |-> IF w \in S THEN [vms[w] EXCEPT !.name = request[t].new] ELSE vms[w]]
      BY <1>4, <2>5 DEF Rename, Changed
    <3> HIDE DEF S
    <3>2. Ids' = Ids /\ \A w \in Ids \ S : vms'[w] = vms[w]
      BY <3>1 DEF Ids
    <3>3. ASSUME NEW w \in Its(t)
          PROVE  /\ vms'[w].name \in Names(t) /\ vms'[w].home \in FoldersOf(t)
                 /\ \A f \in vms'[w].disks : Claims(t, f)
      <4>1. /\ w \in Ids /\ vms[w].name \in Names(t) /\ vms[w].home \in FoldersOf(t)
            /\ \A f \in vms[w].disks : Claims(t, f)
        BY ItsOwn
      <4>2. CASE w \in S
        <5>1. vms'[w] = [vms[w] EXCEPT !.name = request[t].new]
          BY <3>1, <4>1, <4>2
        <5>2. /\ vms'[w].name = request[t].new /\ vms'[w].home = vms[w].home
              /\ vms'[w].disks = vms[w].disks
          BY <4>1, <5>1, <1>1 DEF VMFields
        <5>3. QED
          BY <2>2, <4>1, <5>2
      <4>3. CASE w \notin S
        BY <3>2, <4>1, <4>3
      <4>4. QED
        BY <4>2, <4>3
    <3>4. \A w \in Ids \ Its(t) : vms'[w] = vms[w]
      BY <2>3, <3>2 DEF S
    <3>5. PICK none : none = {}
      OBVIOUS
    <3>6. none \subseteq Its(t) /\ Ids' = Ids \ none
      BY <3>2, <3>5
    <3>7. \A w \in Its(t) \ none : /\ vms'[w].name \in Names(t) /\ vms'[w].home \in FoldersOf(t)
                                   /\ \A f \in vms'[w].disks : Claims(t, f)
      BY <3>3
    <3>8. QED
      BY <2>1, <3>4, <3>6, <3>7, GroupWithin
  <2>6. QED
    BY <2>4, <2>5
<1>5. CASE MoveStorage(t)
  <2> DEFINE dest == loc[t].dest
             disks == vms[v].disks
  <2>1. /\ v \in Ids
        /\ Op(t) = "vm_rename" => vms[v].name = request[t].new
        /\ Op(t) = "vm_move" => ByName(Name(t)) = {v}
    BY <1>0, <1>5 DEF MoveStorage, At, MoveLocal
  <2>2. v \in Its(t)
    <3>1. v \in ByIdentity(t)
      BY <1>0, <2>1 DEF ByIdentity
    <3>2. vms[v].name \in Names(t)
      BY <3>1 DEF Names
    <3>3. QED
      BY <2>1, <3>2 DEF Its
  <2>3. /\ vms[v].name \in Names(t) /\ vms[v].home \in FoldersOf(t)
        /\ \A f \in disks : Claims(t, f)
    BY <2>2, ItsOwn
  <2>4. dest \in FoldersOf(t)
    BY <1>5 DEF MoveStorage, At, FoldersOf, Relocating
  <2>5. v \in Moving(t) /\ Moving(t) \subseteq Ids
    BY <1>0, <1>2, <2>1 DEF Moving, ByName, ByIdentity
  <2>6. Cardinality(Moving(t)) = 1 => (CHOOSE x \in Moving(t) : TRUE) = v
    <3>1. ASSUME Cardinality(Moving(t)) = 1
          PROVE  Moving(t) = {v}
      BY <2>5, <3>1, OneVM
    <3>2. QED
      BY <3>1
  <2>7. folders' = folders \/ folders' = folders \cup {dest}
    BY <1>5 DEF MoveStorage
  <2>8. CASE UNCHANGED <<vms, vhds, fixed>>
    <3>1. OwnFiles(t)
      BY <2>4, <2>7, <2>8 DEF OwnFiles
    <3>2. QED
      BY <2>8, <3>1, QuietWithin DEF Calm, Ids
  <2>9. CASE ~UNCHANGED <<vms, vhds, fixed>>
    <3>1. /\ vms' = [vms EXCEPT ![v].home = dest, ![v].disks = {Relocated(f, dest) : f \in @}]
          /\ vhds' = (vhds \ disks) \cup {Relocated(f, dest) : f \in vhds \cap disks}
      BY <1>5, <2>6, <2>9 DEF MoveStorage
    <3>2. /\ Ids' = Ids \cup {v} /\ \A w \in Ids \ {v} : vms'[w] = vms[w]
          /\ vms'[v] = [vms[v] EXCEPT !.home = dest, !.disks = {Relocated(f, dest) : f \in @}]
      BY <2>1, <3>1 DEF Ids
    <3>3. /\ vms'[v].name = vms[v].name /\ vms'[v].home = dest
          /\ vms'[v].disks = {Relocated(f, dest) : f \in disks}
      BY <2>1, <3>2, <1>1 DEF VMFields
    <3>4. \A f \in disks : Relocated(f, dest).dir = dest
      <4>1. \A f \in disks : DOMAIN f = {"dir", "n", "as"}
        BY <2>1 DEF HostOK, DisksInv, IsFile
      <4> HIDE DEF dest, disks
      <4>2. QED
        BY <4>1 DEF Relocated
    <3>5. \A f \in vms'[v].disks : Claims(t, f)
      BY <2>4, <3>3, <3>4 DEF Claims
    <3>6. \A f : ~Claims(t, f) => (f \in vhds' <=> f \in vhds)
      <4>1. \A f \in disks : Claims(t, Relocated(f, dest))
        BY <2>4, <3>4 DEF Claims
      <4>2. QED
        BY <2>3, <3>1, <4>1
    <3>7. OwnFiles(t)
      BY <2>4, <2>7, <3>6 DEF OwnFiles
    <3> HIDE DEF dest, disks
    <3>8. QED
      BY <2>3, <2>4, <3>2, <3>3, <3>5, <3>7, OneWithin
  <2>10. QED
    BY <2>8, <2>9
<1>6. CASE CleanRemove(t)
  <2>1. Calm
    BY <1>6 DEF CleanRemove, Calm, Ids
  <2>2. loc[t].home \in FoldersOf(t)
    BY <1>6 DEF CleanRemove, At, FoldersOf, Relocating
  <2>3. /\ folders' = folders \/ folders' = folders \ {loc[t].home}
        /\ vhds' \subseteq vhds /\ vhds \ FilesIn(loc[t].home) \subseteq vhds'
    BY <1>6 DEF CleanRemove
  <2>4. OwnFiles(t)
    BY <2>2, <2>3 DEF OwnFiles, FilesIn, Claims
  <2>5. QED
    BY <2>1, <2>4, QuietWithin
<1>7. QED
  BY <1>3, <1>4, <1>5, <1>6 DEF MoveActs

(* vm_export_template writes into folders of templates only. *)
LEMMA ExportWithin ==
  ASSUME NEW t \in Tasks, Op(t) = "vm_export_template", ExportLocal(t),
         Resolve(t) \/ ExportActs(t) \/ Convert(t)
  PROVE  Within(t)
<1>1. CASE Resolve(t) \/ ExportCheck(t) \/ ExportMetadata(t)
  <2>1. Steady
    BY <1>1, IdleSteady DEF ExportCheck, ExportMetadata, Space, hostVars, Steady, Calm, Ids
  <2>2. QED
    BY <2>1, SteadyWithin
<1>2. CASE Export(t)
  <2> DEFINE raw == Folder("template", Name(t))
  <2>1. ~Away(raw) /\ ~Away(Template(t))
    BY DEF Away, Folder, Template
  <2>2. /\ Calm
        /\ \/ folders' = folders \/ folders' = folders \cup {raw}
           \/ folders' = folders \cup {Template(t)}
    BY <1>2 DEF Export, Calm, Ids
  <2>3. /\ \A f : f \in vhds => f \in vhds'
        /\ \A f : f \in vhds' => f \in vhds \/ f.dir = raw \/ f.dir = Template(t)
    BY <1>2 DEF Export, CopyAll, CopySome, Copy, File
  <2> HIDE DEF raw
  <2>4. OwnFiles(t)
    BY <2>1, <2>2, <2>3 DEF OwnFiles
  <2>5. QED
    BY <2>2, <2>4, QuietWithin
<1>3. CASE Convert(t)
  <2>1. Calm /\ folders' = folders /\ pc[t] \in Converting
    BY <1>3, Where DEF Convert, ConvertDisk, ConvertRemove, ConvertRename, Calm, Ids
  <2>2. \A f \in loc[t].disks : DOMAIN f = {"dir", "n", "as"} /\ ~Away(f.dir)
    BY <2>1 DEF ExportLocal, IsFile
  <2>3. \A f \in loc[t].disks : ~Away(Converted(f).dir)
    BY <2>2 DEF Converted
  <2>4. \A g : Away(g.dir) => (g \in vhds' <=> g \in vhds)
    <3>1. CASE ConvertDisk(t)
      <4>1. vhds' = vhds \/ \E f \in loc[t].disks : vhds' = vhds \cup {Converted(f)}
        BY <3>1 DEF ConvertDisk, ToConvert
      <4>2. QED
        BY <4>1, <2>3
    <3>2. CASE ConvertRemove(t) \/ ConvertRename(t)
      <4>1. PICK f \in loc[t].disks : loc[t].done = {f}
        BY <3>2 DEF ConvertRemove, ConvertRename, At, ExportLocal
      <4>2. (CHOOSE d \in loc[t].done : TRUE) = f
        BY <4>1
      <4>3. \/ vhds' = vhds \ {f} \/ vhds' = vhds \ {Converted(f)}
            \/ vhds' = Replace(vhds, Converted(f), f)
        BY <3>2, <4>2 DEF ConvertRemove, ConvertRename, Leftover
      <4>4. QED
        BY <4>3, <2>2, <2>3 DEF Replace
    <3>3. QED
      BY <1>3, <3>1, <3>2 DEF Convert
  <2>5. OwnFiles(t)
    BY <2>1, <2>4 DEF OwnFiles
  <2>6. QED
    BY <2>1, <2>5, QuietWithin
<1>4. QED
  BY <1>1, <1>2, <1>3 DEF ExportActs

(* vm_edit works on the VMs of the name it has looked up, and on the disks it adds or has noted. *)
LEMMA EditWithin ==
  ASSUME TInv, NEW t \in Tasks, Op(t) = "vm_edit", EditStep(t)
  PROVE  Within(t)
<1>1. \A w \in Ids : DOMAIN vms[w] = VMFields
  BY DEF TInv, HostInv, VMsInv, VMOk
<1>2. /\ \A f \in loc[t].disks : f \in FilesOf(t) /\ Claims(t, f)
      /\ \A f \in request[t].add : f \in FilesOf(t) /\ Claims(t, f)
  <2>1. \A f \in loc[t].disks : f \in FilesOf(t)
    BY DEF FilesOf
  <2>2. \A f \in request[t].add : f \in FilesOf(t)
    BY DEF FilesOf
  <2>3. QED
    BY <2>1, <2>2 DEF Claims
<1>3. CASE \/ request[t].op = "vm_edit" /\ Begin(t, "vm_edit")
           \/ EditCheck(t) \/ EditDisks(t) \/ EditGrow(t) \/ EditEnd(t)
  <2>1. Steady
    BY <1>3 DEF Begin, EditCheck, EditDisks, Space, EditGrow, EditEnd, hostVars, Steady, Calm, Ids
  <2>2. QED
    BY <2>1, SteadyWithin
<1>4. CASE EditSet(t) \/ EditNICs(t)
  <2>1. vhds' = vhds /\ folders' = folders
    BY <1>4 DEF EditSet, EditNICs
  <2>2. /\ DOMAIN vms' = DOMAIN vms
        /\ \A v \in DOMAIN vms : /\ vms'[v].name = vms[v].name /\ vms'[v].home = vms[v].home
                                 /\ vms'[v].disks = vms[v].disks
    <3> DEFINE S == ByName(EditName(t))
    <3>1. CASE EditSet(t)
      <4>1. \/ vms' = vms
            \/ \E x : vms' = [v \in DOMAIN vms |->
                            IF v \in S THEN [vms[v] EXCEPT !.settings = @ \cup {x}] ELSE vms[v]]
        BY <3>1 DEF EditSet, Changed, Ids
      <4> HIDE DEF S
      <4>2. QED
        BY <4>1, <1>1 DEF VMFields, Ids
    <3>2. CASE EditNICs(t)
      <4>1. \E x : vms' = [v \in DOMAIN vms |->
                        IF v \in S THEN [vms[v] EXCEPT !.nics = @ + x] ELSE vms[v]]
        BY <3>2 DEF EditNICs, Changed, Ids
      <4> HIDE DEF S
      <4>2. QED
        BY <4>1, <1>1 DEF VMFields, Ids
    <3>3. QED
      BY <1>4, <3>1, <3>2
  <2>3. Steady
    BY <2>1, <2>2 DEF Steady, Calm, Ids
  <2>4. QED
    BY <2>3, SteadyWithin
<1>5. ASSUME pc[t] # "vm_edit", pc[t] # "resolve", OwnFiles(t),
             NEW D, \A f \in D : Claims(t, f),
             Ids' = Ids, \A w \in Ids \ ByName(EditName(t)) : vms'[w] = vms[w],
             \A w \in ByName(EditName(t)) :
               /\ vms'[w].name = vms[w].name /\ vms'[w].home = vms[w].home
               /\ vms'[w].disks \subseteq vms[w].disks \cup D
      PROVE  Within(t)
  <2>1. EditName(t) \in Names(t)
    BY <1>5 DEF Names, LookedUp, EditName
  <2>2. ByName(EditName(t)) \subseteq Its(t)
    BY <2>1, ItsOwn
  <2>3. ASSUME NEW w \in Its(t)
        PROVE  /\ vms'[w].name \in Names(t) /\ vms'[w].home \in FoldersOf(t)
               /\ \A f \in vms'[w].disks : Claims(t, f)
    <3>1. /\ w \in Ids /\ vms[w].name \in Names(t) /\ vms[w].home \in FoldersOf(t)
          /\ \A f \in vms[w].disks : Claims(t, f)
      BY ItsOwn
    <3>2. QED
      BY <1>5, <3>1
  <2>4. PICK none : none = {}
    OBVIOUS
  <2>5. none \subseteq Its(t) /\ Ids' = Ids \ none
    BY <1>5, <2>4
  <2>6. \A w \in Its(t) \ none : /\ vms'[w].name \in Names(t) /\ vms'[w].home \in FoldersOf(t)
                                 /\ \A f \in vms'[w].disks : Claims(t, f)
    BY <2>3
  <2>7. \A w \in Ids \ Its(t) : vms'[w] = vms[w]
    BY <1>5, <2>2
  <2>8. QED
    BY <1>5, <2>5, <2>6, <2>7, GroupWithin
<1>6. CASE EditAdd(t)
  <2> DEFINE S == ByName(EditName(t))
  <2>1. /\ pc[t] = "edit.add" /\ folders' = folders
        /\ vhds' = vhds \/ \E f \in request[t].add : vhds' = vhds \cup {f}
    BY <1>6 DEF EditAdd, At
  <2>2. OwnFiles(t)
    BY <2>1, <1>2 DEF OwnFiles
  <2>3. CASE vms' = vms
    BY <2>2, <2>3, QuietWithin DEF Calm, Ids
  <2>4. CASE vms' # vms
    <3>1. PICK f \in request[t].add :
            vms' = [w \in Ids |-> IF w \in S THEN [vms[w] EXCEPT !.disks = @ \cup {f}] ELSE vms[w]]
      BY <1>6, <2>4 DEF EditAdd, Changed
    <3>2. Ids' = Ids /\ \A w \in Ids \ S : vms'[w] = vms[w]
      BY <3>1 DEF Ids
    <3>3. ASSUME NEW w \in S
          PROVE  /\ vms'[w].name = vms[w].name /\ vms'[w].home = vms[w].home
                 /\ vms'[w].disks \subseteq vms[w].disks \cup request[t].add
      <4>1. w \in Ids
        BY DEF ByName
      <4>2. vms'[w] = [vms[w] EXCEPT !.disks = @ \cup {f}]
        BY <3>1, <4>1
      <4>3. QED
        BY <4>1, <4>2, <1>1 DEF VMFields
    <3>4. QED
      BY <2>1, <2>2, <3>2, <3>3, <1>2, <1>5
  <2>5. QED
    BY <2>3, <2>4
<1>7. CASE EditRemove(t)
  <2> DEFINE S == ByName(EditName(t))
  <2>1. pc[t] = "edit.remove" /\ folders' = folders /\ vhds' = vhds
    BY <1>7 DEF EditRemove, At
  <2>2. OwnFiles(t)
    BY <2>1 DEF OwnFiles
  <2>3. CASE vms' = vms
    BY <2>2, <2>3, QuietWithin DEF Calm, Ids
  <2>4. CASE vms' # vms
    <3>1. PICK f : vms' = [w \in Ids |-> IF w \in S THEN [vms[w] EXCEPT !.disks = @ \ {f}] ELSE vms[w]]
      BY <1>7, <2>4 DEF EditRemove, Changed
    <3>2. Ids' = Ids /\ \A w \in Ids \ S : vms'[w] = vms[w]
      BY <3>1 DEF Ids
    <3>3. ASSUME NEW w \in S
          PROVE  /\ vms'[w].name = vms[w].name /\ vms'[w].home = vms[w].home
                 /\ vms'[w].disks \subseteq vms[w].disks \cup loc[t].disks
      <4>1. w \in Ids
        BY DEF ByName
      <4>2. vms'[w] = [vms[w] EXCEPT !.disks = @ \ {f}]
        BY <3>1, <4>1
      <4>3. QED
        BY <4>1, <4>2, <1>1 DEF VMFields
    <3>4. QED
      BY <2>1, <2>2, <3>2, <3>3, <1>2, <1>5
  <2>5. QED
    BY <2>3, <2>4
<1>8. CASE EditWipe(t)
  <2>1. Calm /\ folders' = folders /\ (vhds' = vhds \/ vhds' = vhds \ loc[t].disks)
    BY <1>8 DEF EditWipe, Calm, Ids
  <2>2. OwnFiles(t)
    BY <2>1, <1>2 DEF OwnFiles
  <2>3. QED
    BY <2>1, <2>2, QuietWithin
<1>9. QED
  BY <1>3, <1>4, <1>6, <1>7, <1>8 DEF EditStep

(* So every step of such a task stays within what is its own. *)
LEMMA ShapersWithin ==
  ASSUME TInv, HostOK, NEW t \in Tasks, Acts(t), ~Kill(t), pc[t] # "waiting", Op(t) \in Shapers, Local(t)
  PROVE  Within(t)
<1>1. ~Begins(t)
  BY Where
<1> USE DEF Local, PolicyOps, Shapers
<1>2. CASE Op(t) = "vm_create"
  <2>1. CreateActs(t) \/ Finish(t)
    BY <1>1, <1>2, OwnActs
  <2>2. QED
    BY <2>1, <1>2, CreateWithin
<1>3. CASE Op(t) = "vm_clone"
  <2>1. CloneActs(t) \/ Convert(t) \/ Finish(t)
    BY <1>1, <1>3, OwnActs
  <2>2. QED
    BY <2>1, <1>3, CloneWithin
<1>4. CASE Op(t) = "vm_delete"
  <2>1. Resolve(t) \/ DeleteActs(t)
    BY <1>1, <1>4, OwnActs
  <2>2. QED
    BY <2>1, <1>4, DeleteWithin
<1>5. CASE Op(t) \in {"vm_rename", "vm_move"}
  <2>1. Resolve(t) \/ MoveActs(t)
    BY <1>1, <1>5, OwnActs
  <2>2. QED
    BY <2>1, <1>5, MoveWithin
<1>6. CASE Op(t) = "vm_export_template"
  <2>1. Resolve(t) \/ ExportActs(t) \/ Convert(t)
    BY <1>1, <1>6, OwnActs
  <2>2. QED
    BY <2>1, <1>6, ExportWithin
<1>7. CASE Op(t) = "vm_edit"
  <2>1. EditStep(t)
    BY <1>7, OwnActs
  <2>2. QED
    BY <2>1, <1>7, EditWithin
<1>8. CASE Op(t) = "vm_migrate"
  <2>1. Resolve(t) \/ Migrate(t)
    BY <1>1, <1>8, OwnActs
  <2>2. QED
    BY <2>1, <1>8, MigrateWithin
<1>9. QED
  BY <1>2, <1>3, <1>4, <1>5, <1>6, <1>7, <1>8

(* What other handlers know stays true. *)
LEMMA OthersLocal ==
  ASSUME TInv, \A u \in Tasks : Local(u), NEW t \in Tasks, Acts(t), Local(t)',
         Steady \/ (Shaping(t) /\ Separated /\ Within(t))
  PROVE  \A u \in Tasks : Local(u)'
<1> SUFFICES ASSUME NEW u \in Tasks, u # t
             PROVE  Local(u)'
  OBVIOUS
<1>1. request' = request /\ Same(u) /\ Local(u)
  BY ActsProceeds DEF Proceeds, Same
<1>2. CASE Steady
  BY <1>1, <1>2, SteadyLocal
<1>3. CASE ~Shaping(u)
  BY <1>1, <1>3, RestingLocal DEF Shaping
<1>4. CASE Shaping(u) /\ Shaping(t) /\ Separated /\ Within(t)
  <2>1. Distinct(t, u) /\ Distinct(u, t)
    BY <1>4 DEF Separated
  <2>2. QED
    BY <2>1, <1>1, <1>4, ElsewhereLocal
<1>5. QED
  BY <1>2, <1>3, <1>4

-----------------------------------------------------------------------------
(* Every step *)

(* So every step of a task keeps what is right, and a step of a clone every other VM. *)
LEMMA ActsKeep ==
  ASSUME DisksInvariant, Orderly, NEW t \in Tasks, Acts(t)
  PROVE  HostOK' /\ (\A u \in Tasks : Local(u)') /\ (Op(t) = "vm_clone" => OthersKept(t))
<1>1. /\ TInv /\ HostOK /\ Local(t) /\ \A u \in Tasks : Local(u)
      /\ Separated /\ Sound(t)
  BY DEF DisksInvariant, Orderly
<1>2. Op(t)' = Op(t)
  BY <1>1, ActsProceeds DEF Proceeds, Op
<1>3. Local(t)' /\ (Steady \/ (Shaping(t) /\ Within(t))) => \A u \in Tasks : Local(u)'
  BY <1>1, OthersLocal
<1>4. hostVars' = hostVars => OthersKept(t)
  BY <1>1, CloneFacts DEF hostVars, OthersKept, Ids
<1>5. CASE Kill(t)
  <2>1. Steady /\ loc' = loc /\ hostVars' = hostVars
    BY <1>5, IdleSteady DEF Kill
  <2>2. pc'[t] = "killed" /\ answer'[t] = "failed"
    BY <1>1, <1>5 DEF Kill, TInv, TypeOK, ControlInv
  <2>3. Remembered
    BY <1>1, <2>1, <2>2, HistoryKept
  <2>4. HostOK'
    BY <1>1, <2>1, <2>3, SteadyKeeps
  <2>5. Local(t)'
    BY <1>2, <2>2, OverLocal
  <2>6. QED
    BY <1>3, <1>4, <2>1, <2>4, <2>5
<1>6. CASE ~Kill(t) /\ pc[t] = "waiting"
  <2>1. Local(t)' /\ loc'[t] = loc[t] /\ answer' = answer /\ Begins(t)
    BY <1>1, <1>6, BeginKeeps
  <2>2. Steady /\ hostVars' = hostVars
    BY <2>1, IdleSteady DEF Begins, Begin
  <2>3. answer'[t] # "completed"
    BY <1>1, <1>6, <2>1 DEF TInv, TypeOK
  <2>4. Remembered
    BY <1>1, <2>1, <2>3, HistoryKept
  <2>5. HostOK'
    BY <1>1, <2>2, <2>4, SteadyKeeps
  <2>6. QED
    BY <1>3, <1>4, <2>1, <2>2, <2>5
<1>7. CASE ~Kill(t) /\ pc[t] # "waiting" /\ Op(t) \notin Shapers
  <2>1. Steady /\ Local(t)'
    BY <1>1, <1>7, PolicyKeeps
  <2>2. Remembered
    BY <1>1, <1>7, HistoryKept DEF Shapers
  <2>3. HostOK'
    BY <1>1, <2>1, <2>2, SteadyKeeps
  <2>4. QED
    BY <1>3, <1>7, <2>1, <2>3 DEF Shapers
<1>8. CASE ~Kill(t) /\ pc[t] # "waiting" /\ Op(t) \in Shapers
  <2>1. Shaping(t)
    BY <1>8, Beginnings DEF Shaping, Busy
  <2>2. HostOK' /\ Local(t)' /\ (Op(t) = "vm_clone" => OthersKept(t))
    BY <1>1, <1>8, ShapersKeep
  <2>3. Within(t)
    BY <1>1, <1>8, ShapersWithin
  <2>4. QED
    BY <1>3, <2>1, <2>2, <2>3
<1>9. QED
  BY <1>5, <1>6, <1>7, <1>8

(* The invariant is inductive. *)
LEMMA DisksKept ==
  ASSUME DisksInvariant, Orderly, [Next]_vars
  PROVE  DisksInvariant'
<1>1. TInv /\ HostOK /\ \A u \in Tasks : Local(u)
  BY DEF DisksInvariant
<1>2. TInv'
  BY <1>1, TypesKept
<1>3. ASSUME NEW t \in Tasks, Acts(t)
      PROVE  HostOK' /\ \A u \in Tasks : Local(u)'
  BY <1>3, ActsKeep
<1>4. ASSUME Steady, UNCHANGED <<request, pc, loc, answer>>
      PROVE  HostOK' /\ \A u \in Tasks : Local(u)'
  <2>1. Remembered
    BY <1>4 DEF Remembered, Exempt, Unfinished, Behind, Completed, Ran, Op
  <2>2. HostOK'
    BY <2>1, <1>1, <1>4, SteadyKeeps
  <2>3. \A u \in Tasks : Local(u)'
    BY <1>1, <1>4, SteadyLocal DEF Same
  <2>4. QED
    BY <2>2, <2>3
<1>5. ASSUME NEW v \in Ids, Switch(v)
      PROVE  HostOK' /\ \A u \in Tasks : Local(u)'
  BY <1>1, <1>4, <1>5, SwitchSteady
<1>6. CASE UNCHANGED vars
  <2>1. Steady /\ UNCHANGED <<request, pc, loc, answer>>
    BY <1>6 DEF vars, taskVars, hostVars, Steady, Calm, Ids
  <2>2. QED
    BY <1>2, <1>4, <2>1 DEF DisksInvariant
<1>7. QED
  BY <1>2, <1>3, <1>5, <1>6 DEF DisksInvariant, Next, Acts

(* It holds at first on a tidy host. *)
LEMMA InitTidy ==
  ASSUME Init, Tidy
  PROVE  DisksInvariant
<1>1. TInv
  BY InitTyped
<1>2. HostOK
  BY DEF Tidy, HostOK, HomesInv, DisksInv, ApartInv
<1>3. ASSUME NEW t \in Tasks
      PROVE  Local(t)
  <2>1. pc[t] = "waiting" /\ loc[t] = NoLocals
    BY DEF Init
  <2>2. loc[t].done = {} /\ loc[t].vm = 0
    <3>1. NoLocals.done = {} /\ NoLocals.vm = 0
      BY Zenon DEF NoLocals
    <3>2. QED
      BY <2>1, <3>1
  <2>3. CreateLocal(t) /\ ExportLocal(t) /\ DeleteLocal(t) /\ MoveLocal(t) /\ EditLocal(t)
    BY <2>1, <2>2
    DEF CreateLocal, ExportLocal, DeleteLocal, MoveLocal, EditLocal, At, Rest, Converting, Relocating
  <2>4. CloneLocal(t)
    BY <2>1, <2>2 DEF CloneLocal, At, Rest, Before, Free, OwnVM, Converting, Ending, Clone
  <2>5. QED
    BY <2>1, <2>3, <2>4 DEF Local, Rest
<1>4. QED
  BY <1>1, <1>2, <1>3 DEF DisksInvariant

-----------------------------------------------------------------------------
(* The theorems *)

(* On a tidy host, while tasks that shape VMs together work on different ones, every disk of   *)
(* every VM is a file, unless its clone has not succeeded or has logged that it could not      *)
(* convert the disk, whatever VMs, disks and requests there are and whichever scripts fail or  *)
(* workers die (handleVMCreate, handleVMClone, handleVMDelete, handleVMMigrate,                *)
(* handleVMRename, handleVMMove, handleVMExportTemplate, handleVMEdit, step by step in any     *)
(* order and beside any number of others).                                                     *)
THEOREM DisksKeptIntact == Tidy /\ Spec /\ []Orderly => []DisksIntact
<1>1. Init /\ Tidy => DisksInvariant
  BY InitTidy
<1>2. DisksInvariant /\ Orderly /\ [Next]_vars => DisksInvariant'
  BY DisksKept
<1>3. DisksInvariant => DisksIntact
  <2>1. ASSUME DisksInvariant, NEW v \in Ids, NEW f \in vms[v].disks
        PROVE  \/ f \in vhds
               \/ \E t \in Tasks : /\ Op(t) = "vm_clone" /\ loc[t].vm = v
                                   /\ Completed(t) => f \in loc[t].failed
    BY <2>1 DEF DisksInvariant, HostOK, DisksInv, Exempt
  <2>2. QED
    BY <2>1 DEF DisksIntact
<1>4. QED
  BY <1>1, <1>2, <1>3, PTL DEF Spec

(* Then every VM also lives in a folder that is there and has its name, but for one that a     *)
(* clone or a rename has not succeeded with, or that a rename answered completed has not moved *)
(* because the storage job ended without moving it and without failing, which handleVMRename   *)
(* takes for success. No cleanup (cleanupEmptyDir, handleVMDelete, removal of an export) takes *)
(* the folder of a VM away, and whatever moves a VM moves it to a folder of its name.          *)
THEOREM VMsLiveUnderTheirNames == Tidy /\ Spec /\ []Orderly => []LivesUnderItsName
<1>1. Init /\ Tidy => DisksInvariant
  BY InitTidy
<1>2. DisksInvariant /\ Orderly /\ [Next]_vars => DisksInvariant'
  BY DisksKept
<1>3. DisksInvariant => LivesUnderItsName
  <2>1. ASSUME DisksInvariant, NEW v \in Ids
        PROVE  /\ vms[v].home \in folders
               /\ vms[v].home[2] = vms[v].name \/ Unfinished(v)
    BY <2>1 DEF DisksInvariant, HostOK, HomesInv
  <2>2. ASSUME NEW v \in Ids, Unfinished(v)
        PROVE  \E t \in Tasks :
                 /\ Ran(t)
                 /\ \/ Op(t) = "vm_clone" /\ loc[t].vm = v /\ ~Completed(t)
                    \/ /\ Op(t) = "vm_rename" /\ request[t].vm = v
                       /\ Completed(t) => v \in loc[t].failed
    BY <2>2 DEF Unfinished, Behind
  <2>3. QED
    BY <2>1, <2>2 DEF LivesUnderItsName
<1>4. QED
  BY <1>1, <1>2, <1>3, PTL DEF Spec

(* And no step of a clone changes its source, or any other VM than its own, or the disks of    *)
(* one, though the VM it imports bears the source's name at first (the scripts of              *)
(* handleVMClone).                                                                             *)
THEOREM SourceNeverTouched == Tidy /\ Spec /\ []Orderly => SourceUntouched
<1> DEFINE Left == \A t \in Tasks : Op(t) = "vm_clone" /\ StepOf(t) =>
                     \A v \in ByName(request[t].source) \ {loc[t].vm} :
                       v \in DOMAIN vms' /\ vms'[v] = vms[v] /\ vms[v].disks \cap vhds \subseteq vhds'
<1>1. Init /\ Tidy => DisksInvariant
  BY InitTidy
<1>2. DisksInvariant /\ Orderly /\ [Next]_vars => DisksInvariant'
  BY DisksKept
<1>3. DisksInvariant /\ Orderly /\ [Next]_vars => [Left]_vars
  <2> SUFFICES ASSUME DisksInvariant, Orderly, Next, NEW t \in Tasks, Op(t) = "vm_clone", StepOf(t)
               PROVE  \A v \in ByName(request[t].source) \ {loc[t].vm} :
                        v \in DOMAIN vms' /\ vms'[v] = vms[v] /\ vms[v].disks \cap vhds \subseteq vhds'
    OBVIOUS
  <2>1. Acts(t)
    <3>1. ASSUME NEW u \in Tasks, Acts(u), u # t
          PROVE  FALSE
      BY <3>1, ActsProceeds DEF DisksInvariant, Proceeds, StepOf
    <3>2. ASSUME NEW v \in Ids, Switch(v)
          PROVE  FALSE
      BY <3>2 DEF Switch, taskVars, StepOf
    <3>3. QED
      BY <3>1, <3>2 DEF Next, Acts
  <2>2. OthersKept(t)
    BY <2>1, ActsKeep
  <2>3. QED
    BY <2>2 DEF OthersKept, ByName, Clone, Ids
<1>4. QED
  BY <1>1, <1>2, <1>3, PTL DEF Spec, SourceUntouched

=============================================================================
