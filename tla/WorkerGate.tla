----------------------------- MODULE WorkerGate -----------------------------
(***************************************************************************)
(* What the dispatcher and the monitor together promise about the workers  *)
(* of one service lifetime: a gate that admits a job only when there is a  *)
(* free slot and no admitted job excludes it, and that every restart of    *)
(* the service empties without asking the workers that are still alive.    *)
(*                                                                         *)
(* The gate says nothing of a write and a host write admitted together:    *)
(* the code does not keep them apart (see HostWriteBlocksWrites in         *)
(* JobQueue).                                                              *)
(***************************************************************************)
EXTENDS FiniteSets, JobClass

CONSTANTS Jobs, Kind, MaxConcurrentJobs

VARIABLE admitted

Excludes(j, k) ==
  \/ SameVMWrites(Kind[j], Kind[k])
  \/ Classify(Kind[j]) = "host_write" /\ Classify(Kind[k]) = "host_write"

Init == admitted = {}

Admit(j) ==
  /\ j \notin admitted
  /\ Cardinality(admitted) < MaxConcurrentJobs
  /\ \A k \in admitted : ~Excludes(j, k)
  /\ admitted' = admitted \union {j}

Release(j) ==
  /\ j \in admitted
  /\ admitted' = admitted \ {j}

Forget == admitted' = {}

Next ==
  \/ \E j \in Jobs : Admit(j) \/ Release(j)
  \/ Forget

Spec == Init /\ [][Next]_admitted

-----------------------------------------------------------------------------

(* No two admitted jobs are writes of one VM, and at most one is a host    *)
(* write: the mutual exclusion HasRunningWriteForVM and                    *)
(* HasRunningHostWrite are there for.                                      *)
Exclusion == \A j, k \in admitted : j # k => ~Excludes(j, k)

(* Never more admitted jobs than max_concurrent_jobs.                      *)
WithinLimit == Cardinality(admitted) <= MaxConcurrentJobs

=============================================================================
