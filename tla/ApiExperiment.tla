--------------------------- MODULE ApiExperiment ---------------------------
(***************************************************************************)
(* The API experiments: run.sh starts bench-api, waits until REST answers, *)
(* and runs loadgen-http against it, one command line of which is followed *)
(* here; what other lines, Prometheus or a user ask of the server at the   *)
(* same time are visits.  loadgen-kv and loadgen-mesh have no bench-api    *)
(* and run as they do in Requests.                                         *)
(***************************************************************************)
EXTENDS Requests, BenchApi

CONSTANTS
  Visitors,  \* requests of others, as pairs <<0, k>>
  Busy,      \* the command lines during which there are such requests
  UserIDs    \* the ids that loadgen-http draws, between 1 and 10000

VARIABLE probe  \* run.sh: "no", "sent", "up"

allVars == <<vars, serverVars, probe>>

IsHttp == flags.tool \in Protocols

\* The requests of the load are numbered by call and index, the probe is <<0, 0>>.
ProbeId == <<0, 0>>
Id(i)   == <<Len(results) + 1, i>>

Number(n) == [kind |-> "int", n |-> n]

Asking(p, o, m, nums) ==
  [proto |-> p, names |-> {o}, whole |-> TRUE, inline |-> FALSE, msg |-> m, nums |-> nums]

Nothing == [i \in 1 .. 3 |-> [kind |-> "absent", n |-> 0]]

ProbeRequest == Asking("rest", "echo", "hello", Nothing)

\* The GraphQL echo has its message in the query.
EchoRequest(p) == [Asking(p, "echo", "hello", Nothing) EXCEPT !.inline = (p = "graphql")]
UserRequest(p, u) == Asking(p, "get-user", "", [Nothing EXCEPT ![1] = Number(u)])
OrderRequest(p, u) ==
  Asking(p, "create-order", "", [i \in 1 .. 3 |-> Number(IF i = 1 THEN u ELSE i)])

LoadRequests(p, o) ==
  CASE o = "echo"         -> {EchoRequest(p)}
    [] o = "get-user"     -> {UserRequest(p, u) : u \in UserIDs}
    [] o = "create-order" -> {OrderRequest(p, u) : u \in UserIDs}

\* How many calls loadgen-http makes.
MaxCalls(f) == IF f.op = "all" THEN 3 ELSE 1

ASSUME ExperimentAssumption ==
  /\ Visitors \subseteq Reqs /\ Busy \subseteq Flags
  /\ UserIDs # {} /\ UserIDs \subseteq 1 .. 10000

\* The requests of script and load are among those that the server may get.
ASSUME RequestsAssumption ==
  /\ ProbeId \in Reqs /\ ProbeRequest \in Inputs
  /\ \A p \in Protocols, o \in Operations : LoadRequests(p, o) \subseteq Inputs
  /\ \A f \in Flags : f.tool \in Protocols =>
       (1 .. MaxCalls(f)) \X (0 .. f.count - 1) \subseteq Reqs

-----------------------------------------------------------------------------
(* run.sh.                                                                 *)

\* curl is tried up to 20 times; a try that is refused leaves no trace.
Probe ==
  /\ IsHttp /\ exit = "none" /\ probe = "no"
  /\ Serving("http")
  /\ Submit(ProbeId, ProbeRequest)
  /\ probe' = "sent"
  /\ UNCHANGED vars

ProbeAnswered ==
  /\ probe = "sent"
  /\ client[ProbeId] = "answered"
  /\ probe' = "up"
  /\ UNCHANGED <<vars, serverVars>>

\* The last try has failed: run.sh ends, and with it the experiment.
ProbeGivenUp ==
  /\ IsHttp /\ exit = "none"
  /\ \/ probe = "no"
     \/ probe = "sent" /\ client[ProbeId] = "failed"
  /\ exit' = "fatal"
  /\ UNCHANGED <<flags, calls, running, pool, measured, store, results, serverVars, probe>>

\* Only REST is waited for.
LoadStarted == IsHttp => probe = "up"

-----------------------------------------------------------------------------
(* The load generator.                                                     *)

Sends == IsHttp /\ calls[1] # "unknown"

LoadFetch(w) ==
  /\ Fetch(w)
  /\ IF Sends THEN \E q \in LoadRequests(flags.tool, calls[1]) : Submit(Id(next), q)
     ELSE UNCHANGED serverVars

\* A status other than OK is an error for the gRPC client only.
AnyAnswer(r) == client[r] \in {"answered", "failed"}  \* mutant: the error is ignored
Accepted(r)  ==
  client[r] = "answered" /\ (req[r].proto = "grpc" => reply[r].status = "ok")

LoadSucceed(w) ==
  /\ Succeed(w)
  /\ Sends => Accepted(Id(job[w]))
  /\ UNCHANGED serverVars

LoadFail(w) ==
  /\ Fail(w)
  /\ Sends => client[Id(job[w])] \in {"answered", "failed"} /\ ~Accepted(Id(job[w]))
  /\ UNCHANGED serverVars

LoadWork(w) ==
  /\ \/ LoadFetch(w)
     \/ LoadSucceed(w)
     \/ LoadFail(w)
     \/ (Leave(w) \/ OfferError(w) \/ CountError(w)) /\ UNCHANGED serverVars
  /\ UNCHANGED probe

LoadMain ==
  /\ LoadStarted
  /\ Main
  /\ UNCHANGED <<serverVars, probe>>

\* Others come when the server is up; Prometheus is one of them.
Visit ==
  /\ flags \in Busy /\ exit = "none" /\ probe = "up"
  /\ \/ \E r \in Visitors, q \in Inputs : Submit(r, q)
     \/ \E l \in Followed : BeginScrape(l)
  /\ UNCHANGED <<vars, probe>>

\* The server of an experiment.
Server == IsHttp /\ ServerStep /\ UNCHANGED <<vars, probe>>

ExperimentInit == Init /\ ServerInit /\ probe = "no"

Script == Probe \/ ProbeAnswered \/ ProbeGivenUp

ExperimentNext ==
  \/ Script
  \/ \E w \in Workers : LoadWork(w)
  \/ LoadMain
  \/ Visit
  \/ Server
  \/ Done /\ UNCHANGED <<serverVars, probe>>

ExperimentSpec == ExperimentInit /\ [][ExperimentNext]_allVars

\* Runnable goroutines run, on both sides; connections to a dead process break.
\* Nothing forces a timeout, a visit, a scrape or a kill.
Progress == Open \/ \E r \in Reqs : Serve(r) \/ Drop(r)

FairExperiment ==
  /\ ExperimentSpec
  /\ WF_allVars(IsHttp /\ Progress /\ UNCHANGED <<vars, probe>>)
  /\ WF_allVars(Script)
  /\ WF_allVars(LoadMain)
  /\ WF_allVars(\E w \in Workers : LoadWork(w))

-----------------------------------------------------------------------------
(* Properties.                                                             *)

LoadLabel(o) == IF flags.tool = "graphql" THEN <<"graphql", "request">> ELSE <<flags.tool, o>>

Answered(k) == Indices \ results[k].failures

SentAll == IsHttp /\ flags.op # "unknown" /\ flags.workers > 0

\* The HTTP clients do not look at the status; still every request that is reported
\* without an error was answered OK, and the server's own counters confirm it.
ReportedIsServed ==
  SentAll =>
    \A k \in DOMAIN results :
      /\ \A i \in Answered(k) : reply[<<k, i>>].status = "ok"
      /\ requestsTotal[<<LoadLabel(results[k].op), "ok">>] >= Cardinality(Answered(k))

=============================================================================
