------------------------------ MODULE Rollouts ------------------------------
(***************************************************************************)
(* The load generators that time an orchestrator: loadgen-scheduler        *)
(* (Kubernetes, Nomad, Swarm), loadgen-k8s (its deploy and scale),         *)
(* loadgen-mesh (its inject and footprint), and loadgen-gitops, which      *)
(* leaves the creation of its resources to Argo CD or Flux.                *)
(*                                                                         *)
(* Each is one goroutine that sends requests and polls until the           *)
(* orchestrator shows what was asked for.  Their control flow is a Script, *)
(* a sequence of requests and waits with what an error leads to: it is     *)
(* ignored, alone ("ignore") or with the wait that belongs to the request  *)
(* ("skip"), or it ends the program, after a last cleanup ("final") or at  *)
(* once ("exit").                                                          *)
(***************************************************************************)
EXTENDS Cluster, Sequences

CONSTANTS
  Flags,     \* the command lines, and what the cluster is like at first
  FirstStep  \* replicas of loadgen-k8s's first step (5)

FlagType ==
  [tool : {"scheduler", "k8s", "mesh", "gitops"}, workload : {"deployment", "configmap"},
   name : {"pushed", "anchor"}, platform : Platforms, rounds : Nat,
   replicas : Nat, keep : BOOLEAN, left : BOOLEAN,
   namespace : {"absent", "active", "terminating"}]

\* validateConfig; only loadgen-scheduler knows other platforms.  loadgen-gitops has
\* many resources that do not touch each other: workload is the kind and name the one
\* that is followed, bench-init or one that sync-latency or bulk pushes.
ValidFlags(f) ==
  /\ f.rounds >= 1
  /\ f.replicas >= IF f.tool = "scheduler" THEN 2 ELSE 1
  /\ f.tool = "scheduler" \/ f.platform = "kubernetes"
  /\ f.tool = "scheduler" => f.namespace = "active"
  /\ f.tool = "gitops" => f.namespace # "terminating"
  /\ f.left => f.namespace # "absent"

ASSUME FlagsAssumption     == Flags \subseteq FlagType /\ \A f \in Flags : ValidFlags(f)
ASSUME FirstStepAssumption == FirstStep \in Nat \ {0}

VARIABLES
  flags,
  at,        \* the position in the script
  replicas,  \* runner.replicas of loadgen-scheduler
  victim,    \* the instance Recover has chosen
  manifest,  \* of the resource that loadgen-gitops pushes: "none", "pushed" to
             \* Gitea, or "fetched" by the controller
  errors     \* what errors there were (history): see ErrorKinds

client == <<replicas, victim>>
vars   == <<cluster, flags, at, client, manifest, errors>>

\* ignored; ended the benchmark; ended the program at once; in the last cleanup.
ErrorKinds == {"ignored", "bench", "exit", "final"}

IsScheduler == flags.tool = "scheduler"

-----------------------------------------------------------------------------
(* The scripts.                                                            *)

Do(what, n, e) == [do |-> what, n |-> n, onError |-> e]

Rollout(request, n, e) == <<Do(request, n, e), Do("ready", n, e)>>
Recover == <<Do("pick", 0, "final"), Do("kill", 0, "final"), Do("recovered", 0, "final")>>

Times(n, s) == [i \in 1 .. n * Len(s) |-> s[((i - 1) % Len(s)) + 1]]

\* benchmark of loadgen-scheduler: the first cleanup comes before the defer.
CleanupNoWait(e) == <<Do("delete", 0, e)>>  \* mutant: Cleanup does not wait
Cleanup(e)       == <<Do("delete", 0, e), Do("gone", 0, e)>>

SchedulerRound(f) ==
  Rollout("create", 1, "final") \o Rollout("update", f.replicas, "final")
    \o Recover \o Rollout("update", 1, "final")

SchedulerMain(f) ==
  Cleanup("exit") \o SchedulerRound(f)
    \o Times(f.rounds - 1, Cleanup("final") \o SchedulerRound(f))

SchedulerFinal(f) ==
  IF f.keep THEN <<>> ELSE <<Do("delete", 0, "skip"), Do("gone", 0, "ignore")>>

\* loadgen-k8s, --op all: deploy and scale share a namespace.
DeployRound ==
  <<Do("delete", 0, "ignore"), Do("gone", 0, "final")>> \o Rollout("create", 1, "final")

ScaleSteps(f) ==
  IF f.replicas <= FirstStep THEN <<f.replicas, 1>>
  ELSE <<FirstStep, f.replicas, 1>>

ScaleRound(f) ==
  Cleanup("ignore") \o Rollout("create", 1, "final")
    \o [i \in 1 .. 2 * Len(ScaleSteps(f)) |->
          Do(IF i % 2 = 1 THEN "update" ELSE "ready", ScaleSteps(f)[(i + 1) \div 2], "final")]

K8sMain(f) ==
  <<Do("namespace", 0, "exit")>>
    \o Times(f.rounds, DeployRound) \o Cleanup("ignore")
    \o Times(f.rounds, ScaleRound(f)) \o Cleanup("ignore")

K8sFinal(f) == IF f.keep THEN <<>> ELSE <<Do("deleteNamespace", 0, "ignore")>>

\* loadgen-mesh, inject and footprint of --op all: errors exit at once, and the
\* workload stays as the target of data-plane.
InjectRound(f) ==
  <<Do("delete", 0, "ignore"), Do("gone", 0, "exit")>>
    \o Rollout("create", f.replicas, "exit")

MeshMain(f) ==
  <<Do("namespace", 0, "exit")>> \o Times(f.rounds, InjectRound(f))
    \o <<Do("namespace", 0, "exit")>> \o Rollout("ensure", 1, "exit")

\* loadgen-gitops, --op all, after the setup that run.sh calls before there is a
\* controller; "elsewhere" is what concerns other resources.
Setup(f) ==
  <<Do("namespace", 0, "exit"), Do(IF f.name = "anchor" THEN "push" ELSE "elsewhere", 0, "exit")>>

Await(f) == Do("ready", IF f.workload = "deployment" THEN 1 ELSE 0, "exit")

ReconcileRound(f) == <<Await(f), Do("delete", 0, "exit"), Await(f)>>

PushedName(f) ==
  <<Do("push", 0, "exit"), Do("elsewhere", 0, "exit"), Await(f)>>

GitOpsMain(f) ==
  Setup(f) \o Setup(f) \o <<Do("elsewhere", 0, "exit")>>
    \o IF f.name = "anchor" THEN Times(f.rounds, ReconcileRound(f)) ELSE PushedName(f)

Main(f) ==
  CASE f.tool = "scheduler" -> SchedulerMain(f)
    [] f.tool = "k8s"       -> K8sMain(f)
    [] f.tool = "mesh"      -> MeshMain(f)
    [] f.tool = "gitops"    -> GitOpsMain(f)

Final(f) ==
  CASE f.tool = "scheduler" -> SchedulerFinal(f)
    [] f.tool = "k8s"       -> K8sFinal(f)
    [] OTHER                -> <<>>

\* One for each command line, with the length of what precedes its last cleanup.
Scripts == [f \in Flags |-> Main(f) \o Final(f)]
MainEnd == [f \in Flags |-> Len(Main(f))]
Script  == Scripts[flags]

Finished    == at > Len(Script)
Doing(what) == ~Finished /\ Script[at].do = what
Number      == Script[at].n

-----------------------------------------------------------------------------
(* How a step ends.                                                        *)

Succeed == at' = at + 1 /\ UNCHANGED errors

\* os.Exit in the middle would skip what benchmark has deferred.
ExitAtOnce == Len(Script) + 1  \* mutant: no cleanup after an error
CleanUp    == MainEnd[flags] + 1

After(onError) ==
  CASE onError = "ignore" -> at + 1
    [] onError = "skip"   -> at + 2
    [] onError = "final"  -> CleanUp
    [] onError = "exit"   -> Len(Script) + 1

Kind(onError) ==
  CASE at > MainEnd[flags]     -> "final"
    [] onError = "final"  -> "bench"
    [] onError = "exit"   -> "exit"
    [] OTHER              -> "ignored"

Fail ==
  /\ at' = After(Script[at].onError)
  /\ errors' = errors \union {Kind(Script[at].onError)}

\* A request that was served may still come back as an error.
Served(request) == request /\ (Succeed \/ Fail)
NotServed       == UNCHANGED cluster /\ Fail
NothingToDo     == UNCHANGED cluster /\ Succeed

-----------------------------------------------------------------------------
(* Requests.                                                               *)

\* What loadgen-scheduler notes when a request has been answered.
Note(n) == replicas' = IF IsScheduler /\ errors' = errors THEN n ELSE replicas

\* Only loadgen-scheduler asks for foreground deletion, and on Kubernetes only.
Foreground == IsScheduler /\ platform = "kubernetes"

Delete ==
  /\ Doing("delete")
  /\ \/ job.exists /\ Served(DeleteJob(Foreground))
     \/ ~job.exists /\ NothingToDo
     \/ NotServed
  /\ Note(0)
  /\ UNCHANGED <<flags, victim, manifest>>

\* Nomad's register replaces a job; a Deployment or service must be new.
Create ==
  /\ Doing("create")
  /\ \/ ~job.exists /\ namespace = "active" /\ Served(CreateJob(Number))
     \/ job.exists /\ platform = "nomad" /\ Served(UpdateJob(Number))
     \/ NotServed
  /\ Note(Number)
  /\ UNCHANGED <<flags, victim, manifest>>

\* EnsureEcho takes a Deployment that exists for its own.
Ensure ==
  /\ Doing("ensure")
  /\ \/ ~job.exists /\ namespace = "active" /\ Served(CreateJob(Number))
     \/ job.exists /\ NothingToDo
     \/ NotServed
  /\ UNCHANGED <<flags, client, manifest>>

ReplicasKept(n)  == replicas      \* mutant: Scale does not set runner.replicas
ReplicasSet(n)   == n

Update ==
  /\ Doing("update")
  /\ \/ job.exists /\ Served(UpdateJob(Number))
     \/ NotServed
  /\ Note(ReplicasSet(Number))
  /\ UNCHANGED <<flags, victim, manifest>>

Namespace ==
  /\ \/ Doing("namespace") /\ (Served(EnsureNamespace) \/ NotServed)
     \/ Doing("deleteNamespace") /\ (Served(DeleteNamespace) \/ NotServed)
  /\ UNCHANGED <<flags, client, manifest>>

\* Files are created, or replaced at their last SHA; several files of a resource are
\* one here, and the controller may fetch them once the last is there.
Push ==
  /\ Doing("push")
  /\ UNCHANGED cluster
  /\ \/ manifest' = (IF manifest = "none" THEN "pushed" ELSE manifest) /\ (Succeed \/ Fail)
     \/ UNCHANGED manifest /\ Fail
  /\ UNCHANGED <<flags, client>>

Elsewhere ==
  /\ Doing("elsewhere")
  /\ NothingToDo \/ NotServed
  /\ UNCHANGED <<flags, client, manifest>>

-----------------------------------------------------------------------------
(* What the polls see.                                                     *)

\* Pods are listed by label, allocations by the job's name, tasks by service:
\* those of a service that is deleted are not found, which counts as none.
Listed ==
  CASE platform = "kubernetes" -> {i \in Ids : state[i] \in {"pending", "running"}}
    [] platform = "nomad"      -> {i \in Ids : state[i] \in {"running", "condemned"}}
    [] platform = "swarm"      -> {i \in Ids : Current(i) /\ state[i] \in {"running", "dead"}}

\* waitPods counts the pods that are ready.
Counted == IF platform = "kubernetes" THEN {i \in Listed : state[i] = "running"} ELSE Listed

\* waitDeployReady of loadgen-k8s and loadgen-mesh, and waitReady and
\* waitRunning of loadgen-scheduler.
StatusReached(n) ==
  job.exists /\ status.ready >= n /\ status.updated >= n /\ status.unavailable = 0

StatusEquals(n) ==
  /\ job.exists /\ status.gen >= job.gen
  /\ status.ready = n /\ status.updated = n /\ status.unavailable = 0

SchedulerReadyLax(n) ==  \* mutant: the status of loadgen-k8s
  IF platform = "kubernetes" THEN StatusReached(n) ELSE Cardinality(Counted) = n
SchedulerReady(n) ==
  IF platform = "kubernetes" THEN StatusEquals(n) ELSE Cardinality(Counted) = n

\* AvailableReplicas of a Deployment; a ConfigMap only has to exist.
GitOpsReady(n) == job.exists /\ (n > 0 => status.ready >= n)

Ready(n) ==
  CASE flags.tool = "scheduler" -> SchedulerReady(n)
    [] flags.tool = "gitops"    -> GitOpsReady(n)
    [] OTHER                    -> StatusReached(n)

PodsUnready == Counted = {}  \* mutant: pods that are not ready are overlooked
PodsGone    == Listed = {}

Gone == IF IsScheduler THEN Counted = {} ELSE PodsGone

ReplacedOnly == Cardinality(Counted) = replicas  \* mutant: the victim may be counted
Recovered    == Cardinality(Counted) = replicas /\ victim \notin Listed

\* Each wait has a deadline, and any of its requests may fail.
Wait ==
  /\ \/ Doing("ready") /\ Ready(Number)
     \/ Doing("gone") /\ Gone
     \/ Doing("recovered") /\ Recovered
  /\ NothingToDo
  /\ UNCHANGED <<flags, client, manifest>>

Deadline ==
  /\ Doing("ready") \/ Doing("gone") \/ Doing("recovered")
  /\ NotServed
  /\ UNCHANGED <<flags, client, manifest>>

\* Recover takes the first pod, or the first allocation or task that runs.
Pick ==
  /\ Doing("pick")
  /\ \/ \E i \in Listed : victim' = i /\ NothingToDo
     \/ NotServed /\ UNCHANGED victim
  /\ UNCHANGED <<flags, replicas, manifest>>

Kill ==
  /\ Doing("kill")
  /\ \/ victim \in Listed /\ Served(KillInstance(victim))
     \/ NotServed
  /\ UNCHANGED <<flags, client, manifest>>

-----------------------------------------------------------------------------

Init ==
  /\ flags \in Flags
  /\ platform = flags.platform
  /\ namespace = flags.namespace
  /\ Found(flags.left)
  /\ at = 1
  /\ replicas = 0
  /\ victim = 0
  /\ manifest = "none"
  /\ errors = {}

Client ==
  \/ Delete \/ Create \/ Ensure \/ Update \/ Namespace \/ Push \/ Elsewhere
  \/ Wait \/ Deadline \/ Pick \/ Kill

\* Argo CD or Flux, every 10 seconds: fetch what has been pushed, and create what is
\* missing in the cluster.
Fetch ==
  /\ manifest = "pushed"
  /\ manifest' = "fetched"
  /\ UNCHANGED cluster

Reapply ==
  /\ manifest = "fetched"
  /\ ~job.exists /\ namespace = "active"
  /\ CreateJob(IF flags.workload = "deployment" THEN 1 ELSE 0)
  /\ UNCHANGED manifest

\* A resource of the name that this run pushes, on a cluster that an earlier run kept.
Leftover == flags.tool = "gitops" /\ flags.name = "pushed" /\ flags.left

\* Both controllers are set up to prune.  A new Argo CD knows the leftovers by their
\* label, and until it has fetched what is pushed now the repository does not name
\* them; Flux does not know them, and they stay.
Prune ==
  /\ Leftover /\ manifest # "fetched" /\ job.exists
  /\ DeleteJob(FALSE)
  /\ UNCHANGED <<flags, at, client, manifest, errors>>

Environment ==
  /\ (Orchestrate /\ UNCHANGED manifest) \/ Fetch \/ Reapply
  /\ UNCHANGED <<flags, at, client, errors>>

Done == Finished /\ UNCHANGED vars

Next == Client \/ Environment \/ Prune \/ Done

Spec == Init /\ [][Next]_vars

\* Orchestrators do what is asked of them; nothing has to fail or time out.
FairSpec == Spec /\ WF_vars(Environment) /\ WF_vars(Client /\ UNCHANGED errors)

-----------------------------------------------------------------------------
(* Properties.                                                             *)

TypeOK ==
  /\ ClusterTypeOK
  /\ flags \in Flags
  /\ at \in 1 .. Len(Script) + 1
  /\ replicas \in {0, 1, flags.replicas}
  /\ victim \in 0 .. MaxInstances
  /\ manifest \in {"none", "pushed", "fetched"}
  /\ errors \subseteq ErrorKinds

\* The wait that the program has just come out of, if it was timed.
Timed(what) ==
  /\ at \in 2 .. MainEnd[flags] + 1 /\ errors \subseteq {"ignored"}
  /\ Script[at - 1].do = what

\* "Change from 1 to N instances -> all N instances are running and ready",
\* "exactly one desired instance remains running": when loadgen-scheduler stops
\* the clock, just that number serves, although it looks at copies of copies.
\* (But with two replicas a status of the recovery before may be taken for that
\* of the scale-down.)  The other ones stop it no sooner than enough pods serve; what
\* an earlier run has left may be pruned after that.
ReadyMeansServing ==
  Timed("ready") /\ ~Leftover =>
    LET n == Script[at - 1].n IN
      IF IsScheduler
      THEN \/ Cardinality(Serving) = n
           \/ platform = "kubernetes" /\ flags.replicas = 2 /\ n = 1
      ELSE Cardinality(Serving) >= n

\* How often the resource had been deleted before this step.
Deletions == Cardinality({i \in 1 .. at - 1 : Script[i].do = "delete"})

\* A recovery is over when the victim has been replaced, not before the
\* orchestrator has noticed that it is gone.  A reconcile of loadgen-gitops is over
\* when the controller has created the deleted resource anew, on a kept cluster too;
\* a sync or bulk when it has created what was pushed, on a cluster that has none of
\* that name (see SyncMeasures for one that has).
RecoveryMeasures ==
  /\ Timed("recovered") => Cardinality(Serving) = flags.replicas /\ victim \notin Serving
  /\ flags.tool = "gitops" /\ Timed("ready") /\ ~Leftover =>
       job.exists /\ job.id = Deletions + IF flags.left THEN 1 ELSE 2

\* A deployment is timed on a cluster that has no pod, allocation or task of the
\* previous round left that the waits would count; unless loadgen-k8s ignores,
\* before a scale round, that the pods do not go away.
CleanSlate ==
  Doing("create") /\ errors = {} => Counted = {} /\ (~IsScheduler => Listed = {})

\* Whatever fails, loadgen-scheduler ends with the deletion of its workload, and
\* loadgen-k8s with that of its namespace: unless this fails itself, or nothing
\* had been begun.
NothingLeft ==
  Finished /\ ~flags.keep /\ errors \subseteq {"ignored", "bench"} =>
    /\ IsScheduler => ~job.exists \/ job.going
    /\ flags.tool = "k8s" => namespace # "active"

\* As long as no request fails and no deadline passes, every wait comes to an
\* end; but there is no Deployment to wait for in a namespace that is going away.
WaitsEnd ==
  flags.namespace # "terminating" /\ [](errors = {}) => <>Finished

-----------------------------------------------------------------------------
(* What a comment or a README says, and the code does not do.              *)

\* "RunScale measures time to scale a Deployment: 1->5->maxReplicas->1."
ScaleMeasures ==
  Timed("ready") => Cardinality(Serving) = Script[at - 1].n

\* "Time from git push to resource ready in k8s": when the clock stops, the controller
\* has at least fetched what was pushed.
SyncMeasures ==
  flags.tool = "gitops" /\ flags.name = "pushed" /\ Timed("ready") => manifest = "fetched"

=============================================================================
