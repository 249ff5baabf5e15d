------------------------------ MODULE JobClass ------------------------------
(***************************************************************************)
(* The pure rules of the job queue: the concurrency class of a job         *)
(* (internal/jobqueue/classifier.go) and which pairs of jobs are           *)
(* duplicates of each other (cmd/agent/main.go, internal/jobstore).        *)
(*                                                                         *)
(* A job is described by what these rules read of its row: its task type,  *)
(* its action and its VM identifier.                                       *)
(***************************************************************************)
EXTENDS Naturals

NoAction == ""
NoVM     == ""

RefreshTypes == {"vm_inventory", "hardware_inventory", "template_inventory",
                 "iso_inventory", "agent_status", "vm_metrics", "host_metrics"}

WriteTypes == {"vm_edit", "vm_create", "vm_clone", "vm_management"}

TaskTypes == RefreshTypes \union WriteTypes
               \union {"vm_status", "host_management", "artifact_download"}

Classes == {"read", "write", "host_write", "download"}

(***************************************************************************)
(* Classify.  The default is a per-VM write, so the two metrics refreshes, *)
(* which the switch does not name, are writes of the VM "".                *)
(***************************************************************************)
ReadTypes == {"vm_inventory", "hardware_inventory", "vm_status",
              "template_inventory", "iso_inventory", "agent_status"}

HostReads == {"refresh_hardware", "refresh_inventory"}

Classify(kind) ==
  CASE kind.type \in ReadTypes           -> "read"
    [] kind.type = "host_management"     -> IF kind.action \in HostReads
                                              THEN "read" ELSE "host_write"
    [] kind.type = "artifact_download"   -> "download"
    [] OTHER                             -> "write"

(***************************************************************************)
(* isWriteTask and the WHERE clause of HasConflict: a request of kind new  *)
(* is a duplicate of an active row of kind old.  Requests without a VM     *)
(* identifier are never duplicates.                                        *)
(***************************************************************************)
IsWriteTask(kind) == kind.type \in WriteTypes

Conflicts(new, old) ==
  /\ new.vm # NoVM
  /\ old.vm = new.vm
  /\ old.type = new.type
  /\ new.type = "vm_management" => old.action = new.action

(***************************************************************************)
(* The dispatcher's per-VM rule: two writes that name the same VM (also    *)
(* the VM "") exclude each other.                                          *)
(***************************************************************************)
SameVMWrites(k1, k2) ==
  /\ Classify(k1) = "write"
  /\ Classify(k2) = "write"
  /\ k1.vm = k2.vm

=============================================================================
