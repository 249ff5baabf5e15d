----------------------------- MODULE JobQueueMC -----------------------------
(***************************************************************************)
(* Instances of JobQueue for TLC.  Jobs are strings, so that each can have *)
(* its kind; processes are model values and interchangeable.               *)
(***************************************************************************)
EXTENDS JobQueue, TLC

K(type, action, vm) == [type |-> type, action |-> action, vm |-> vm]

AllKinds ==
  [edit     |-> K("vm_edit", NoAction, "vm1"),
   edit2    |-> K("vm_edit", NoAction, "vm1"),
   stop     |-> K("vm_management", "vm_stop", "vm1"),
   suspend  |-> K("host_management", "suspend", NoVM),
   resume   |-> K("host_management", "resume", NoVM),
   metrics  |-> K("vm_metrics", NoAction, NoVM),
   hmetrics |-> K("host_metrics", NoAction, NoVM),
   upgrade  |-> K("artifact_download", "host_update_agent", NoVM)]

KindOf(S) == [j \in S |-> AllKinds[j]]

(* Two metrics refreshes, which are writes of the VM "", and a host write  *)
(* compete for two slots.                                                  *)
MixedJobs == {"metrics", "hmetrics", "suspend"}
MixedKind == KindOf(MixedJobs)
MixedPeriodic == {"metrics", "hmetrics"}

(* Two requests for the same thing, and an agent upgrade.                  *)
IntakeJobs == {"edit", "edit2", "upgrade"}
IntakeKind == KindOf(IntakeJobs)

(* Two writes of one VM, for runs with restarts and faults.                *)
PairJobs == {"edit", "stop"}
PairKind == KindOf(PairJobs)

(* Host writes and a write.                                                *)
HostJobs == {"edit", "suspend", "resume"}
HostKind == KindOf(HostJobs)

(* Two metrics refreshes alone: two writes of the VM "".                   *)
MetricsJobs == {"metrics", "hmetrics"}
MetricsKind == KindOf(MetricsJobs)

NoPeriodic == {}

PidSymmetry == Permutations(Pids)

=============================================================================
