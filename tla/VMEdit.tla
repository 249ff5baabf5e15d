------------------------------- MODULE VMEdit -------------------------------
(* vm_edit: sections that are applied in a fixed order. The first failure ends the *)
(* edit, and what was applied before stays.                                        *)
EXTENDS VMManage

EditName(t) == loc[t].name

\* Settings that only a VM that is off accepts. Order is the order of the sections.
NeedsOff == {"cpu_count", "memory", "nested_virtualization", "secure_boot", "secure_boot_template"}
Order == <<"cpu_count", "memory", "notes", "vlan_id", "nested_virtualization", "secure_boot",
           "secure_boot_template", "automatic_start", "automatic_start_delay", "automatic_stop">>

\* loc.nics is a history: the adapters the edit has found.
EditCheck(t) ==
  LET v == request[t].vm
      wantsOff == request[t].settings \cap NeedsOff # {}
  IN  /\ At(t, "vm_edit") /\ Works
      /\ IF v \in Ids /\ (wantsOff => vms[v].state = "Off")
         THEN GoWith(t, "edit.set", [loc[t] EXCEPT !.name = vms[v].name, !.nics = vms[v].nics])
         ELSE Fail(t)
      /\ UNCHANGED hostVars

\* A request has a field for each setting and for nothing else; adapters are counted.
ASSUME EditAssumption ==
  \A r \in Scenarios : \A t \in Tasks :
    r[t].op = "vm_edit" =>
      /\ r[t].settings \subseteq {Order[i] : i \in DOMAIN Order}
      /\ r[t].plug \in Nat /\ r[t].tune \in Nat /\ r[t].unplug \in Nat

\* A number of processors that is not positive is passed over and its section not applied; any
\* other value that is not valid makes its script fail.
Skipped(t) == {"cpu_count"} \cap request[t].invalid
Wanted(t) == request[t].settings \ Skipped(t)

\* Mutant: a setting that fails is skipped.
EditSetOnwards(t) ==
  LET todo == {i \in DOMAIN Order : Order[i] \in Wanted(t) \ loc[t].done}
      s == Order[CHOOSE i \in todo : \A j \in todo : i <= j]
      S == ByName(EditName(t))
      possible == /\ S # {} /\ s \notin request[t].invalid
                  /\ s \in NeedsOff => \A v \in S : vms[v].state = "Off"
  IN  /\ At(t, "edit.set")
      /\ IF todo = {}
         THEN Works /\ GoWith(t, "edit.disks", [loc[t] EXCEPT !.done = {}]) /\ UNCHANGED vms
         ELSE \/ /\ possible /\ Works
                 /\ vms' = Changed(S, LAMBDA vm : [vm EXCEPT !.settings = @ \cup {s}])
                 /\ GoWith(t, "edit.set", [loc[t] EXCEPT !.done = @ \cup {s}])
              \/ /\ IF possible THEN Breaks("setting") ELSE Works
                 /\ GoWith(t, "edit.set", [loc[t] EXCEPT !.done = @ \cup {s}])
                 /\ UNCHANGED vms
      /\ UNCHANGED <<made, vhds, fixed, folders>>

\* The next setting in order.
EditSet(t) ==
  LET todo == {i \in DOMAIN Order : Order[i] \in Wanted(t) \ loc[t].done}
      s == Order[CHOOSE i \in todo : \A j \in todo : i <= j]
      S == ByName(EditName(t))
      possible == /\ S # {} /\ s \notin request[t].invalid
                  /\ s \in NeedsOff => \A v \in S : vms[v].state = "Off"
  IN  /\ At(t, "edit.set")
      /\ IF todo = {}
         THEN Works /\ GoWith(t, "edit.disks", [loc[t] EXCEPT !.done = {}]) /\ UNCHANGED vms
         ELSE \/ /\ possible /\ Works
                 /\ vms' = Changed(S, LAMBDA vm : [vm EXCEPT !.settings = @ \cup {s}])
                 /\ GoWith(t, "edit.set", [loc[t] EXCEPT !.done = @ \cup {s}])
              \/ /\ IF possible THEN Breaks("setting") ELSE Works
                 /\ Fail(t) /\ UNCHANGED vms
      /\ UNCHANGED <<made, vhds, fixed, folders>>

\* Disks: no checkpoints, and a generation 1 VM must be off. Then the space, and the files of
\* new disks must not be there.
DiskWork(t) == request[t].add \cup request[t].grow \cup request[t].remove

EditDisks(t) ==
  LET S == ByName(EditName(t))
      allowed == /\ S # {}
                 /\ \A v \in S : vms[v].snaps = 0 /\ (vms[v].gen = 1 => vms[v].state = "Off")
  IN  /\ At(t, "edit.disks")
      /\ IF DiskWork(t) = {} \/ (allowed /\ request[t].add = {})
         THEN Works /\ Go(t, "edit.grow") /\ UNCHANGED hostVars
         ELSE IF allowed /\ request[t].add \cap vhds = {}
              THEN Space(t, "edit.add")
              ELSE Works /\ Fail(t) /\ UNCHANGED hostVars

\* New-VHD and Add-VMHardDiskDrive in one script; the file stays when only the second fails.
EditAdd(t) ==
  LET todo == request[t].add \ loc[t].done
      S == ByName(EditName(t))
      Made(f) == /\ vhds' = vhds \cup {f}
                 /\ fixed' = IF request[t].fixed THEN fixed \cup {f} ELSE fixed
  IN  /\ At(t, "edit.add")
      /\ IF todo = {}
         THEN /\ Works /\ GoWith(t, "edit.grow", [loc[t] EXCEPT !.done = {}])
              /\ UNCHANGED <<vms, vhds, fixed>>
         ELSE \E f \in todo :
                \/ /\ f \notin vhds /\ S # {} /\ Works
                   /\ Made(f)
                   /\ vms' = Changed(S, LAMBDA vm : [vm EXCEPT !.disks = @ \cup {f}])
                   /\ GoWith(t, "edit.add", [loc[t] EXCEPT !.done = @ \cup {f}])
                \/ /\ IF f \in vhds THEN Works ELSE Breaks("disk")
                   /\ Fail(t) /\ UNCHANGED <<vms, vhds, fixed>>
                \/ /\ f \notin vhds
                   /\ IF S # {} THEN Breaks("attach") ELSE Works
                   /\ Made(f)
                   /\ Fail(t) /\ UNCHANGED vms
      /\ UNCHANGED <<made, folders>>

\* Disks only grow.
EditGrow(t) ==
  LET possible == request[t].grow \subseteq vhds
  IN  /\ At(t, "edit.grow")
      /\ \/ possible /\ Works /\ Go(t, "edit.remove")
         \/ /\ IF possible THEN request[t].grow # {} /\ Breaks("resize") ELSE Works
            /\ Fail(t)
      /\ UNCHANGED hostVars

\* Detach, then delete the file if asked to, which only warns.
EditRemove(t) ==
  LET todo == request[t].remove \ loc[t].done
      S == ByName(EditName(t))
  IN  /\ At(t, "edit.remove")
      /\ IF todo = {}
         THEN Works /\ Go(t, "edit.nics") /\ UNCHANGED vms
         ELSE \E f \in todo :
                LET possible == \E v \in S : f \in vms[v].disks
                IN  \/ /\ possible /\ Works
                       /\ vms' = Changed(S, LAMBDA vm : [vm EXCEPT !.disks = @ \ {f}])
                       /\ GoWith(t, IF request[t].wipe THEN "edit.wipe" ELSE "edit.remove",
                                 [loc[t] EXCEPT !.done = @ \cup {f}, !.disks = {f}])
                    \/ /\ IF possible THEN Breaks("attach") ELSE Works
                       /\ Fail(t) /\ UNCHANGED vms
      /\ UNCHANGED <<made, vhds, fixed, folders>>

EditWipe(t) ==
  /\ At(t, "edit.wipe")
  /\ \/ Works /\ vhds' = vhds \ loc[t].disks /\ fixed' = fixed \ loc[t].disks
     \/ Breaks("remove") /\ UNCHANGED <<vhds, fixed>>
  /\ Go(t, "edit.remove")
  /\ UNCHANGED <<vms, made, folders>>

\* Adapters, in one step: plug adds them, of which a tagged one gets its VLAN in a second script; tune
\* reconnects, renames or tags one by its id; unplug removes one.
EditNICs(t) ==
  LET r == request[t]
      S == ByName(EditName(t))
      present == S # {} /\ \A v \in S : vms[v].nics + r.plug >= r.tune + r.unplug
      With(n) == vms' = Changed(S, LAMBDA vm : [vm EXCEPT !.nics = @ + n])
      nothing == r.plug + r.tune + r.unplug = 0
  IN  /\ At(t, "edit.nics")
      /\ \/ (nothing \/ present) /\ Works /\ Go(t, "edit.end") /\ With(r.plug - r.unplug)
         \/ \* up to n adapters are in, then one script fails
            /\ ~nothing
            /\ IF present THEN Breaks("nic") ELSE Works
            /\ \E n \in 0..r.plug : With(n)
            /\ Fail(t)
      /\ UNCHANGED <<made, vhds, fixed, folders>>

\* An edit that applied nothing fails.
EditEnd(t) ==
  LET r == request[t]
      nothing == Wanted(t) = {} /\ DiskWork(t) = {} /\ r.plug + r.tune + r.unplug = 0
  IN  /\ At(t, "edit.end") /\ Works
      /\ IF nothing THEN Fail(t) ELSE Answer(t, "completed")
      /\ UNCHANGED hostVars

EditStep(t) ==
  \/ request[t].op = "vm_edit" /\ Begin(t, "vm_edit")
  \/ EditCheck(t) \/ EditSet(t) \/ EditDisks(t) \/ EditAdd(t) \/ EditGrow(t)
  \/ EditRemove(t) \/ EditWipe(t) \/ EditNICs(t) \/ EditEnd(t)
=============================================================================
