------------------------------ MODULE BenchApi ------------------------------
(***************************************************************************)
(* The benchmark server: one process that serves REST and GraphQL on one   *)
(* port, gRPC on another, and its metrics next to REST.  Every request     *)
(* runs in a goroutine of its own; what they share are the metrics.        *)
(*                                                                         *)
(* An instrumented request passes through                                  *)
(*   received  entered  handled  counted  observed  left  over             *)
(* where it raises the gauge, computes its answer, is counted, observed,   *)
(* leaves the gauge, and only then is its answer sent.  "cut": nothing     *)
(* more will happen to it on the server.                                   *)
(***************************************************************************)
EXTENDS Handlers, FiniteSets

CONSTANTS
  Reqs,   \* the requests that are made in a behaviour
  Inputs, \* what they may ask
  Followed \* the labels that a scrape may be followed in

ASSUME InputsAssumption ==
  /\ Inputs # {} /\ Inputs \subseteq Request
  /\ \A q \in Inputs : WellFormed(q)

ASSUME ReqsAssumption == IsFiniteSet(Reqs)

\* The mux of REST names the operation itself, grpcOperation derives it from the
\* method; GraphQL's operations have one label.
Labels == {"rest", "grpc"} \X Operations \union {<<"graphql", "request">>}

ASSUME FollowedAssumption == Followed \subseteq Labels

VARIABLES
  proc,              \* the process: "running", "no port", "panic", "killed"
  ports,             \* "closed", "open", "failed"
  req,               \* what each request asks, once it is sent
  stage,             \* how far the server is with it
  reply,             \* what its handler has answered
  client,            \* what the client knows: "unsent", "waiting", "answered", "failed"
  inFlightRequests,  \* per label
  requestsTotal,     \* per label and status
  requestDuration,   \* per label: how many durations have been observed
  scrape             \* one scrape of GET /metrics, and one label of it

meters     == <<inFlightRequests, requestsTotal, requestDuration>>
exchange   == <<req, stage, reply, client>>
serverVars == <<proc, ports, exchange, meters, scrape>>

Ports == {"http", "grpc"}

PortOf(q) == IF q.proto = "grpc" THEN "grpc" ELSE "http"

Serving(p) == proc = "running" /\ ports[p] = "open"

-----------------------------------------------------------------------------
(* The metrics.                                                            *)

Label(q) ==
  IF q.proto = "graphql" THEN <<"graphql", "request">> ELSE <<q.proto, Operation(q)>>

Counted == {"ok", "bad request"}

\* gRPC decodes before it calls the interceptor; unknown paths and methods have no
\* handler that could be instrumented.
Instrumented(q) == Operation(q) # "none" /\ ~(q.proto = "grpc" /\ Rejected(q))

-----------------------------------------------------------------------------
(* The process.                                                            *)

Listen(p) ==
  /\ proc = "running"
  /\ ports[p] = "closed"
  /\ ports' = [ports EXCEPT ![p] = "open"]
  /\ UNCHANGED <<proc, exchange, meters, scrape>>

\* log.Fatalf in either goroutine ends the process.
OnlyRESTIsFatal(p) == IF p = "http" THEN "no port" ELSE "running"  \* mutant: log.Printf
ListenError(p)     == "no port"

ListenFails(p) ==
  /\ proc = "running"
  /\ ports[p] = "closed"
  /\ ports' = [ports EXCEPT ![p] = "failed"]
  /\ proc' = ListenError(p)
  /\ UNCHANGED <<exchange, meters, scrape>>

Kill ==
  /\ proc = "running"
  /\ proc' = "killed"
  /\ UNCHANGED <<ports, exchange, meters, scrape>>

-----------------------------------------------------------------------------
(* The client's side of a request.                                         *)

Submit(r, q) ==
  /\ client[r] = "unsent"
  /\ client' = [client EXCEPT ![r] = "waiting"]
  /\ req' = [req EXCEPT ![r] = q]
  /\ UNCHANGED <<proc, ports, stage, reply, meters, scrape>>

\* Nobody listens, or no longer.
Refused(r) ==
  /\ client[r] = "waiting"
  /\ stage[r] = "none"
  /\ ~Serving(PortOf(req[r]))
  /\ client' = [client EXCEPT ![r] = "failed"]
  /\ stage' = [stage EXCEPT ![r] = "cut"]
  /\ UNCHANGED <<proc, ports, req, reply, meters, scrape>>

\* The process ended while it had the request.
Broken(r) ==
  /\ client[r] = "waiting"
  /\ stage[r] # "none"
  /\ proc # "running"
  /\ client' = [client EXCEPT ![r] = "failed"]
  /\ UNCHANGED <<proc, ports, req, stage, reply, meters, scrape>>

\* The HTTP clients have a timeout, the gRPC client has none.  The server goes on.
GiveUp(r) ==
  /\ client[r] = "waiting"
  /\ req[r].proto \in WebProtocols
  /\ client' = [client EXCEPT ![r] = "failed"]
  /\ UNCHANGED <<proc, ports, req, stage, reply, meters, scrape>>

-----------------------------------------------------------------------------
(* The server's side.                                                      *)

Receive(r) ==
  /\ client[r] # "unsent"
  /\ stage[r] = "none"
  /\ Serving(PortOf(req[r]))
  /\ stage' = [stage EXCEPT ![r] = "received"]
  /\ UNCHANGED <<proc, ports, req, reply, client, meters, scrape>>

Bypass(r) ==
  /\ proc = "running"
  /\ stage[r] = "received"
  /\ ~Instrumented(req[r])
  /\ \E a \in Replies(req[r]) : reply' = [reply EXCEPT ![r] = a]
  /\ stage' = [stage EXCEPT ![r] = "left"]
  /\ UNCHANGED <<proc, ports, req, client, meters, scrape>>

Enter(r) ==
  /\ proc = "running"
  /\ stage[r] = "received"
  /\ Instrumented(req[r])
  /\ inFlightRequests' = [inFlightRequests EXCEPT ![Label(req[r])] = @ + 1]
  /\ stage' = [stage EXCEPT ![r] = "entered"]
  /\ UNCHANGED <<proc, ports, req, reply, client, requestsTotal, requestDuration, scrape>>

\* A panic in a handler is caught by net/http, which closes the connection, after
\* the deferred Dec has run; in gRPC it ends the process.
Handle(r) ==
  /\ proc = "running"
  /\ stage[r] = "entered"
  /\ \E a \in Replies(req[r]) :
       LET cut == Panics(a.body) /\ req[r].proto \in WebProtocols
           end == Panics(a.body) /\ req[r].proto = "grpc"
       IN /\ proc' = IF end THEN "panic" ELSE proc
          /\ stage' = [stage EXCEPT ![r] = IF cut THEN "cut" ELSE IF end THEN @ ELSE "handled"]
          /\ reply' = [reply EXCEPT ![r] = IF Panics(a.body) THEN @ ELSE a]
          /\ client' = [client EXCEPT ![r] = IF cut THEN "failed" ELSE @]
          /\ inFlightRequests' =
               [inFlightRequests EXCEPT ![Label(req[r])] = IF cut THEN @ - 1 ELSE @]
  /\ UNCHANGED <<ports, req, requestsTotal, requestDuration, scrape>>

Count(r) ==
  /\ proc = "running"
  /\ stage[r] = "handled"
  /\ requestsTotal' = [requestsTotal EXCEPT ![<<Label(req[r]), reply[r].status>>] = @ + 1]
  /\ stage' = [stage EXCEPT ![r] = "counted"]
  /\ UNCHANGED <<proc, ports, req, reply, client, inFlightRequests, requestDuration, scrape>>

Observe(r) ==
  /\ proc = "running"
  /\ stage[r] = "counted"
  /\ requestDuration' = [requestDuration EXCEPT ![Label(req[r])] = @ + 1]
  /\ stage' = [stage EXCEPT ![r] = "observed"]
  /\ UNCHANGED <<proc, ports, req, reply, client, inFlightRequests, requestsTotal, scrape>>

\* The deferred Dec.
DecOnSuccess(r) ==  \* mutant: Dec only after a good answer
  IF reply[r].status = "ok" THEN [inFlightRequests EXCEPT ![Label(req[r])] = @ - 1]
  ELSE inFlightRequests
Dec(r) == [inFlightRequests EXCEPT ![Label(req[r])] = @ - 1]

Depart(r) ==
  /\ proc = "running"
  /\ stage[r] = "observed"
  /\ inFlightRequests' = Dec(r)
  /\ stage' = [stage EXCEPT ![r] = "left"]
  /\ UNCHANGED <<proc, ports, req, reply, client, requestsTotal, requestDuration, scrape>>

\* An answer that net/http's buffers cannot hold.
TooLong(r) == req[r].proto \in WebProtocols /\ reply[r].body = Echo("long")

\* A client that still waits has its answer once the buffers are flushed: when the
\* handler has returned or, if the answer did not fit, as soon as it is written.
Waits(r) == client' = [client EXCEPT ![r] = IF @ = "waiting" THEN "answered" ELSE @]

BeforeCounting(r) == stage[r] = "handled"  \* mutant: answered first, then counted
Overflows(r)      == stage[r] \in {"handled", "counted", "observed"} /\ TooLong(r)

FlushEarly(r) ==
  /\ proc = "running"
  /\ client[r] = "waiting"
  /\ Overflows(r)
  /\ Waits(r)
  /\ UNCHANGED <<proc, ports, req, stage, reply, meters, scrape>>

Flush(r) ==
  /\ proc = "running"
  /\ stage[r] = "left"
  /\ Waits(r)
  /\ stage' = [stage EXCEPT ![r] = "over"]
  /\ UNCHANGED <<proc, ports, req, reply, meters, scrape>>

-----------------------------------------------------------------------------
(* GET /metrics reads one series after the other, so what it reads of two  *)
(* labels is of two moments: a label is followed on its own.  One scrape   *)
(* in a behaviour, since it leaves nothing behind.                         *)

TotalOf(l) == requestsTotal[<<l, "ok">>] + requestsTotal[<<l, "bad request">>]

AnsweredOf(l) ==
  {r \in Reqs : client[r] = "answered" /\ ~TooLong(r) /\ Instrumented(req[r]) /\ Label(req[r]) = l}

BeginScrape(l) ==
  /\ Serving("http")
  /\ scrape.state = "none"
  /\ scrape' = [state |-> "begun", label |-> l, least |-> Cardinality(AnsweredOf(l)), value |-> 0]
  /\ UNCHANGED <<proc, ports, exchange, meters>>

EndScrape ==
  /\ proc = "running"
  /\ scrape.state = "begun"
  /\ scrape' = [scrape EXCEPT !.state = "done", !.value = TotalOf(scrape.label)]
  /\ UNCHANGED <<proc, ports, exchange, meters>>

-----------------------------------------------------------------------------
ServerInit ==
  /\ proc = "running"
  /\ ports = [p \in Ports |-> "closed"]
  /\ req = [r \in Reqs |-> CHOOSE q \in Inputs : TRUE]
  /\ stage = [r \in Reqs |-> "none"]
  /\ reply = [r \in Reqs |-> Reply("none", NoBody)]
  /\ client = [r \in Reqs |-> "unsent"]
  /\ inFlightRequests = [l \in Labels |-> 0]
  /\ requestsTotal = [k \in Labels \X Counted |-> 0]
  /\ requestDuration = [l \in Labels |-> 0]
  /\ scrape = [state |-> "none", label |-> <<"rest", "echo">>, least |-> 0, value |-> 0]

Open == \E p \in Ports : Listen(p) \/ ListenFails(p)

Serve(r) ==
  Receive(r) \/ Bypass(r) \/ Enter(r) \/ Handle(r) \/ Count(r) \/ Observe(r) \/ Depart(r) \/ Flush(r)

Drop(r) == Refused(r) \/ Broken(r)

\* What happens once the clients have sent what they send.
ServerStep ==
  \/ Open
  \/ Kill
  \/ EndScrape
  \/ \E r \in Reqs : Serve(r) \/ Drop(r) \/ FlushEarly(r) \/ GiveUp(r)

ServerNext ==
  \/ ServerStep
  \/ \E r \in Reqs, q \in Inputs : Submit(r, q)
  \/ \E l \in Followed : BeginScrape(l)

ServerSpec == ServerInit /\ [][ServerNext]_serverVars

-----------------------------------------------------------------------------
(* Properties.                                                             *)

Stages == {"none", "received", "entered", "handled", "counted", "observed", "left", "over", "cut"}

ServerTypeOK ==
  /\ proc \in {"running", "no port", "panic", "killed"}
  /\ ports \in [Ports -> {"closed", "open", "failed"}]
  /\ req \in [Reqs -> Inputs]
  /\ stage \in [Reqs -> Stages]
  /\ client \in [Reqs -> {"unsent", "waiting", "answered", "failed"}]
  /\ \A r \in Reqs : stage[r] \in {"handled", "counted", "observed", "left", "over"}
                       => reply[r] \in Replies(req[r])
  /\ inFlightRequests \in [Labels -> Nat]
  /\ requestsTotal \in [Labels \X Counted -> Nat]
  /\ requestDuration \in [Labels -> Nat]
  /\ scrape \in [state : {"none", "begun", "done"}, label : Labels, least : Nat, value : Nat]

Inside(r)    == stage[r] \in {"entered", "handled", "counted", "observed"}
HasCounted(r)  == stage[r] \in {"counted", "observed", "left", "over"} /\ Instrumented(req[r])
HasObserved(r) == stage[r] \in {"observed", "left", "over"} /\ Instrumented(req[r])

\* Whatever was refused, rejected, given up or interrupted: the gauge is the number
\* of requests between Inc and Dec, and counter and histogram hold each request
\* that got that far once, under its own label and status.
MetersAgree ==
  \A l \in Labels :
    /\ inFlightRequests[l] = Cardinality({r \in Reqs : Inside(r) /\ Label(req[r]) = l})
    /\ requestDuration[l] = Cardinality({r \in Reqs : HasObserved(r) /\ Label(req[r]) = l})
    /\ \A s \in Counted :
         requestsTotal[<<l, s>>] =
           Cardinality({r \in Reqs : HasCounted(r) /\ Label(req[r]) = l /\ reply[r].status = s})

\* A scrape shows every request whose short answer had arrived when it began: a
\* counter read after a run is not behind the run.
ScrapeShowsAnswers == scrape.state = "done" => scrape.value >= scrape.least

\* No request takes the process down: no id makes handleGetUser index below 0, which
\* in gRPC would be the end of all requests in flight.
SurvivesRequests == proc # "panic"

\* bench-api never goes on with one of its servers only: when REST answers, which is
\* what run.sh waits for, gRPC will be listening or the process will end.
ServesBoth ==
  (proc = "running" /\ ports["http"] = "open") ~> (ports["grpc"] = "open" \/ proc # "running")

\* bench-api answers plain requests as Service promises, over all three protocols.
Promise ==
  INSTANCE Service WITH
    answer  <- [r \in Reqs |-> IF client[r] = "answered" THEN reply[r] ELSE Reply("none", NoBody)],
    metered <- {r \in Reqs : HasCounted(r)}
ServerImplements == Promise!Spec

=============================================================================
