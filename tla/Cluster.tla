------------------------------ MODULE Cluster -------------------------------
(***************************************************************************)
(* The orchestrators that loadgen-scheduler, loadgen-k8s and loadgen-mesh  *)
(* time: one replicated workload on Kubernetes, Nomad or Docker Swarm.     *)
(* External: only what the load generators ask of it and see of it.        *)
(*                                                                         *)
(* A request changes the workload's record; instances follow one at a      *)
(* time.  On Kubernetes the Deployment's status is a copy, made by one     *)
(* controller, of what another one has last seen of the pods.              *)
(***************************************************************************)
EXTENDS Integers, FiniteSets

CONSTANT MaxInstances  \* names of instances (bounds the model)

Ids       == 1 .. MaxInstances
Platforms == {"kubernetes", "nomad", "swarm"}

ASSUME MaxInstancesAssumption == MaxInstances \in Nat \ {0}

VARIABLES
  platform,
  namespace,   \* Kubernetes: "absent", "active" or "terminating"
  job,         \* the Deployment, job or service
  state,       \* per instance: see InstanceStates
  owner,       \* per instance: the incarnation of the workload it belongs to
  killed,      \* the instance that was killed last; its name is not used again
  replicaSet,  \* Kubernetes: the ReplicaSet, with what its controller has seen
  status       \* Kubernetes: the Deployment's status

instances == <<state, owner>>
cluster   == <<platform, namespace, job, instances, killed, replicaSet, status>>

\* condemned: asked to stop, and still listed as running (Nomad); dead: its
\* container was killed, and it is still listed as running (Swarm).
InstanceStates == {"absent", "pending", "running", "condemned", "dead"}

NoReplicaSet == [want |-> 0, replicas |-> 0, ready |-> 0]
NoStatus     == [gen |-> 0, ready |-> 0, updated |-> 0, unavailable |-> 0]

Current(i) == job.exists /\ owner[i] = job.id

\* What the orchestrator takes for the workload's instances, and those that
\* really serve.
Active  == {i \in Ids : Current(i) /\ state[i] # "absent"}
Serving == {i \in Ids : Current(i) /\ state[i] = "running"}

Target == IF platform = "kubernetes" THEN replicaSet.want ELSE job.want

-----------------------------------------------------------------------------
(* Requests.                                                               *)

CreateJob(n) ==
  /\ job' = [id |-> job.id + 1, exists |-> TRUE, going |-> FALSE, want |-> n, gen |-> 1]
  /\ replicaSet' = NoReplicaSet
  /\ status' = NoStatus
  /\ UNCHANGED <<platform, namespace, instances, killed>>

UpdateJob(n) ==
  /\ job' = [job EXCEPT !.want = n, !.gen = @ + 1]
  /\ UNCHANGED <<platform, namespace, instances, killed, replicaSet, status>>

\* In the foreground a Deployment stays until its last pod is gone.
DeleteJob(foreground) ==
  /\ job' = IF foreground THEN [job EXCEPT !.going = TRUE]
                          ELSE [job EXCEPT !.exists = FALSE]
  /\ UNCHANGED <<platform, namespace, instances, killed, replicaSet, status>>

\* A pod deleted without grace is gone at once, an allocation is stopped by the
\* scheduler later, a killed container is noticed later.
KillInstance(i) ==
  /\ state' = [state EXCEPT ![i] = CASE platform = "kubernetes" -> "absent"
                                     [] platform = "nomad"      -> "condemned"
                                     [] platform = "swarm"      -> "dead"]
  /\ killed' = i
  /\ UNCHANGED <<platform, namespace, job, owner, replicaSet, status>>

EnsureNamespace ==
  /\ namespace' = IF namespace = "absent" THEN "active" ELSE namespace
  /\ UNCHANGED <<platform, job, instances, killed, replicaSet, status>>

DeleteNamespace ==
  /\ namespace' = IF namespace = "active" THEN "terminating" ELSE namespace
  /\ UNCHANGED <<platform, job, instances, killed, replicaSet, status>>

-----------------------------------------------------------------------------
(* What happens in the cluster in its own time.                            *)

Spawn(i) ==
  /\ job.exists /\ ~job.going
  /\ namespace # "terminating"
  /\ Cardinality(Active) < Target
  /\ state[i] = "absent" /\ i # killed
  /\ \A j \in Ids : j < i => state[j] # "absent" \/ j = killed
  /\ state' = [state EXCEPT ![i] = "pending"]
  /\ owner' = [owner EXCEPT ![i] = job.id]
  /\ UNCHANGED <<platform, namespace, job, killed, replicaSet, status>>

Become(i, from, to) ==
  /\ state[i] \in from
  /\ state' = [state EXCEPT ![i] = to]
  /\ UNCHANGED <<platform, namespace, job, owner, killed, replicaSet, status>>

Unwanted(i) == ~Current(i) \/ job.going \/ Cardinality(Active) > Target

Start(i)  == Become(i, {"pending"}, "running")
Retire(i) == Unwanted(i) /\ Become(i, {"pending", "running"}, "absent")
Notice(i) == Become(i, {"condemned", "dead"}, "absent")

\* The last pod of a Deployment deleted in the foreground is gone.
FinishDelete ==
  /\ job.exists /\ job.going
  /\ Active = {}
  /\ job' = [job EXCEPT !.exists = FALSE]
  /\ UNCHANGED <<platform, namespace, instances, killed, replicaSet, status>>

\* The ReplicaSet controller counts the pods.
SyncReplicaSet ==
  /\ platform = "kubernetes" /\ job.exists
  /\ replicaSet' = [replicaSet EXCEPT !.replicas = Cardinality(Active),
                                      !.ready = Cardinality(Serving)]
  /\ UNCHANGED <<platform, namespace, job, instances, killed, status>>

\* The Deployment controller hands the number of replicas on, and copies what
\* the ReplicaSet's status says.
SyncDeployment ==
  /\ platform = "kubernetes" /\ job.exists
  /\ replicaSet' = [replicaSet EXCEPT !.want = job.want]
  /\ status' = [gen |-> job.gen, ready |-> replicaSet.ready, updated |-> replicaSet.replicas,
                unavailable |-> IF job.want > replicaSet.ready
                                THEN job.want - replicaSet.ready ELSE 0]
  /\ UNCHANGED <<platform, namespace, job, instances, killed>>

\* A terminating namespace takes everything in it along.
NamespaceGone ==
  /\ namespace = "terminating"
  /\ namespace' = "absent"
  /\ job' = [job EXCEPT !.exists = FALSE]
  /\ state' = [i \in Ids |-> "absent"]
  /\ UNCHANGED <<platform, owner, killed, replicaSet, status>>

Orchestrate ==
  \/ \E i \in Ids : Spawn(i) \/ Start(i) \/ Retire(i) \/ Notice(i)
  \/ FinishDelete
  \/ SyncReplicaSet
  \/ SyncDeployment
  \/ NamespaceGone

\* An earlier run may have left one instance running.
Found(left) ==
  /\ job = [id |-> 1, exists |-> left, going |-> FALSE, want |-> 1, gen |-> 1]
  /\ state = [i \in Ids |-> IF left /\ i = 1 THEN "running" ELSE "absent"]
  /\ owner = [i \in Ids |-> 1]
  /\ killed = 0
  /\ replicaSet = [want |-> 1, replicas |-> 1, ready |-> 1]
  /\ status = [gen |-> 1, ready |-> 1, updated |-> 1, unavailable |-> 0]

ClusterTypeOK ==
  /\ platform \in Platforms
  /\ namespace \in {"absent", "active", "terminating"}
  /\ job \in [id : Nat, exists : BOOLEAN, going : BOOLEAN, want : Nat, gen : Nat]
  /\ state \in [Ids -> InstanceStates]
  /\ owner \in [Ids -> Nat]
  /\ killed \in 0 .. MaxInstances
  /\ replicaSet \in [want : Nat, replicas : 0 .. MaxInstances, ready : 0 .. MaxInstances]
  /\ status \in [gen : Nat, ready : 0 .. MaxInstances, updated : 0 .. MaxInstances,
                 unavailable : Nat]

=============================================================================
