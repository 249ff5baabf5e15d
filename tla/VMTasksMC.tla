------------------------------ MODULE VMTasksMC ------------------------------
(* Instances of VMTasks: a small host and pairs of requests that meet on it. *)
EXTENDS VMTasks

CONSTANTS t1, t2

Disk(dir, n) == File(dir, n, "own")
HomeA == Folder("vms", "a")
HomeB == Folder("vms", "b")
Tpl == Folder("template", "tpl")

\* VM 1 (a) has a dynamic and a fixed disk; VM 2 (b) is an old one with a checkpoint.
\* In a cluster one of them is a role.
VMa == [NewVM("a", HomeA, {Disk(HomeA, 1), Disk(HomeA, 2)}) EXCEPT !.dvd = "empty"]
VMb == [NewVM("b", HomeB, {Disk(HomeB, 1)}) EXCEPT !.gen = 1, !.snaps = 1]

Host(clustered, domain) ==
  [vms |-> (1 :> [VMa EXCEPT !.ha = domain]) @@ (2 :> [VMb EXCEPT !.ha = clustered /\ ~domain]),
   vhds |-> VMa.disks \cup VMb.disks \cup {Disk(Tpl, 1)},
   fixed |-> {Disk(HomeA, 2)},
   folders |-> {HomeA, HomeB, Tpl},
   site |-> [clustered |-> clustered, domain |-> domain]]

MCHosts == {Host(FALSE, FALSE), Host(TRUE, FALSE), Host(TRUE, TRUE)}

-----------------------------------------------------------------------------
(* Requests *)

Create(name, disks) == [op |-> "vm_create", name |-> name, disks |-> disks, fixed |-> TRUE,
                        settings |-> {"notes"}, start |-> TRUE]
CloneOf(source, name) == [op |-> "vm_clone", type |-> "imported", source |-> source, name |-> name,
                          expand |-> FALSE, settings |-> {"notes"}, start |-> FALSE]
Deploy(name) == [op |-> "vm_clone", type |-> "exported", source |-> "tpl", name |-> name,
                 expand |-> TRUE, settings |-> {}, start |-> TRUE]
On(v, op) == [op |-> op, vm |-> v, name |-> ""]
Delete(v, files) == On(v, "vm_delete") @@ [files |-> files]
RenameTo(v, new) == On(v, "vm_rename") @@ [new |-> new]
MoveTo(v, root) == On(v, "vm_move") @@ [to |-> root]
MigrateTo(v, node) == On(v, "vm_migrate") @@ [to |-> node]
Unsnap(v, all) == On(v, "snapshot_remove") @@ [all |-> all]
ExportAs(v, template) == On(v, "vm_export_template") @@ [template |-> template]
Batch(vms_, state) == [op |-> "vm_batch", vms |-> vms_, state |-> state]
Target1(v, name) == [vm |-> v, name |-> name]
NoEdit(v) == [op |-> "vm_edit", vm |-> v, settings |-> {}, invalid |-> {}, add |-> {}, grow |-> {},
              fixed |-> TRUE, remove |-> {}, wipe |-> TRUE, plug |-> 0, tune |-> 0, unplug |-> 0]

Pair(r, s) == (t1 :> r) @@ (t2 :> s)

BothUp == Batch(<<Target1(1, "a"), Target1(2, "b")>>, "Running")
FullEdit == [NoEdit(1) EXCEPT !.settings = {"cpu_count", "notes"}, !.add = {Disk(HomeA, 3)},
                              !.grow = {Disk(HomeA, 1)}, !.remove = {Disk(HomeA, 2)},
                              !.plug = 1, !.tune = 1, !.unplug = 1]
NoCPU(v) == [NoEdit(v) EXCEPT !.settings = {"cpu_count"}, !.invalid = {"cpu_count"}]
BadEdit == [NoEdit(1) EXCEPT !.settings = {"notes", "automatic_start"}, !.invalid = {"automatic_start"}]

Meetings ==
  { \* two creations of one name, and next to a clone of another
    Pair(Create("c", 2), Create("c", 1)),
    Pair(Create("c", 2), Deploy("d")),
    \* a clone while its source is started, edited or renamed
    Pair(CloneOf("a", "c"), On(1, "vm_start")),
    Pair(CloneOf("a", "c"), BadEdit),
    Pair(CloneOf("a", "c"), Delete(1, FALSE)),
    Pair(CloneOf("a", "c"), CloneOf("a", "d")),
    Pair(CloneOf("b", "c"), Unsnap(2, TRUE)),
    \* storage that moves
    Pair(RenameTo(1, "c"), MoveTo(1, "other")),
    Pair(RenameTo(1, "c"), BothUp),
    Pair(MoveTo(1, "other"), Delete(1, TRUE)),
    Pair(MoveTo(1, "other"), CloneOf("a", "c")),
    Pair(MoveTo(2, "other"), BothUp),
    Pair(RenameTo(1, "c"), Create("a", 1)),
    Pair(RenameTo(1, "c"), RenameTo(2, "a")),
    Pair(MoveTo(1, "other"), RenameTo(2, "a")),
    Pair(RenameTo(1, "c"), CloneOf("b", "a")),
    Pair(Delete(1, TRUE), Create("a", 1)),
    \* templates and edits
    Pair(ExportAs(1, "new"), FullEdit),
    Pair(ExportAs(1, "new"), ExportAs(2, "new")),
    Pair(ExportAs(2, "b"), ExportAs(2, "new")),
    Pair([Deploy("d") EXCEPT !.source = "gone"], ExportAs(2, "tpl")),
    Pair(FullEdit, BothUp),
    Pair([NoCPU(1) EXCEPT !.add = {Disk(HomeA, 3)}, !.remove = {Disk(HomeA, 3)}], BothUp),
    Pair([FullEdit EXCEPT !.vm = 2, !.remove = {}, !.wipe = FALSE], Unsnap(2, FALSE)),
    Pair(Batch(<<Target1(2, "b"), Target1(2, "b")>>, "Off"), NoCPU(2)) }

\* Everything else, one after the other on one VM.
Singles ==
  LET Small == {On(2, op) : op \in {"vm_start", "vm_stop", "vm_shutdown", "vm_restart", "vm_pause",
                  "vm_resume", "eject_dvd", "mount_dvd", "enable_ha", "disable_ha", "snapshot_create",
                  "snapshot_restore", "refresh_status", "notes_edit", "vm_startup_change",
                  "vm_enable_metrics", "vm_disable_metrics"}}
               \cup {MigrateTo(2, to) : to \in {"up", "stranger"}}
               \cup {Unsnap(2, all) : all \in BOOLEAN}
  IN  {Pair(r, s) : r \in Small, s \in Small}

MCScenarios == Meetings \cup Singles

\* One disk of an export cannot be put in place.
DisklossScenarios == {Pair(ExportAs(1, "new"), NoEdit(2))}
\* A batch has no VM identifier to be kept apart by.
ExclusionScenarios == {Pair(RenameTo(1, "c"), BothUp)}

MCBreakable == {"space", "folder", "disk", "vm", "configure", "attach", "setting", "id", "start",
                "export", "import", "rename", "cleanup", "convert", "remove", "swap", "list",
                "resolve", "script", "status", "deadline", "boot", "move", "resize", "nic", "role"}
=============================================================================
