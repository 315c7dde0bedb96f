-------------------------- MODULE BenchApi_proofs --------------------------
(***************************************************************************)
(* bench-api survives every request, its meters are exact, and it keeps    *)
(* the promise of Service, for any number of concurrent requests and any   *)
(* requests.                                                               *)
(***************************************************************************)
EXTENDS BenchApi, FiniteSetTheorems, TLAPS

-----------------------------------------------------------------------------
(* The handlers.                                                           *)

\* The parts of a request are where the handlers look for them.
LEMMA InputFacts ==
  ASSUME NEW q \in Inputs
  PROVE  /\ q.proto \in APIProtocols
         /\ q.names \subseteq Operations
         /\ \A i \in 1 .. 3 : q.nums[i] \in Value
BY InputsAssumption DEF Request

\* A request names one operation, or none that the server knows.
LEMMA OperationFacts ==
  ASSUME NEW q \in Inputs
  PROVE  Operation(q) \in Operations \union {"none"}
BY DEF Operation, Operations

\* A number is of one of six kinds, and its n is an integer in each.
LEMMA ValueFacts ==
  ASSUME NEW v \in Value
  PROVE  /\ v.kind \in {"int", "fraction", "above", "below", "text", "absent"}
         /\ v.n \in Int
BY IntAssumption DEF Value, Ints, MinInt

\* Whatever a number looks like and however it is sent, the handler gets an integer.
LEMMA DecodedIsInt ==
  ASSUME NEW q \in Inputs, NEW v \in Value
  PROVE  Decoded(q, v) \subseteq Int
<1> USE IntAssumption, ValueFacts
<1>1. Atoi(v) \in Int
  BY DEF Atoi, MinInt
<1>2. GqlInts(v) \subseteq Int
  BY DEF GqlInts, Ints, MinInt
<1>3. QED
  BY <1>1, <1>2 DEF Decoded

\* The clamp keeps both indices of handleGetUser at 0 or above.
LEMMA UserHarmless ==
  ASSUME NEW i \in Int
  PROVE  ~Panics(GetUser(i))
<1>1. UserId(i) \in Int /\ UserId(i) > 0
  BY DEF UserId
<1>2. Rem(UserId(i), 8) \in Nat /\ Rem(UserId(i), 10) \in Nat
  BY <1>1 DEF Rem
<1>3. GetUser(i).name = Rem(UserId(i), 8) /\ GetUser(i).country = Rem(UserId(i), 10)
  BY DEF GetUser
<1>4. QED
  BY <1>1, <1>2, <1>3 DEF Panics

\* Every answer a request may get: without a panic, and with a status that the
\* counter has a series for if the request is instrumented.
LEMMA ReplyFacts ==
  ASSUME NEW q \in Inputs, NEW a \in Replies(q)
  PROVE  /\ ~Panics(a.body)
         /\ Instrumented(q) => a.status \in Counted
<1>1. CASE Operation(q) = "none"
  <2>1. a = Reply("not found", NoBody) /\ ~Instrumented(q)
    BY <1>1 DEF Replies, Instrumented
  <2>2. QED
    BY <2>1 DEF Reply, NoBody, Panics
<1>2. CASE Operation(q) # "none" /\ Rejected(q)
  <2>1. a = Reply(IF q.proto = "grpc" THEN "internal" ELSE "bad request", NoBody)
    BY <1>2 DEF Replies
  <2>2. a.body = NoBody /\ (q.proto # "grpc" => a.status = "bad request")
    BY <2>1 DEF Reply
  <2>3. Instrumented(q) => a.status \in Counted
    BY <1>2, <2>2 DEF Instrumented, Counted
  <2>4. NoBody.op # "get-user"
    BY DEF NoBody
  <2>5. QED
    BY <2>2, <2>3, <2>4 DEF Panics
<1>3. CASE Operation(q) # "none" /\ ~Rejected(q)
  <2>1. PICK b \in Bodies(q) : a = Reply("ok", b)
    BY <1>3 DEF Replies
  <2>2. a.status = "ok" /\ a.body = b
    BY <2>1 DEF Reply
  <2>3. ~Panics(b)
    <3>1. CASE Operation(q) = "echo"
      <4>1. b = Echo(Message(q))
        BY <3>1 DEF Bodies
      <4>2. b.op = "echo"
        BY <4>1 DEF Echo
      <4>3. QED
        BY <4>2 DEF Panics
    <3>2. CASE Operation(q) = "get-user"
      <4>1. PICK i \in Decoded(q, q.nums[1]) : b = GetUser(i)
        BY <3>2 DEF Bodies
      <4>2. i \in Int
        BY InputFacts, DecodedIsInt
      <4>3. QED
        BY <4>1, <4>2, UserHarmless
    <3>3. CASE Operation(q) = "create-order"
      BY <3>3 DEF Bodies, CreateOrder, Panics
    <3>4. QED
      BY <1>3, <3>1, <3>2, <3>3, OperationFacts DEF Operations
  <2>4. QED
    BY <2>2, <2>3 DEF Counted
<1>4. QED
  BY <1>1, <1>2, <1>3

\* What is instrumented is counted under one of the labels.
LEMMA LabelFacts ==
  ASSUME NEW q \in Inputs, Instrumented(q)
  PROVE  Label(q) \in Labels
<1>1. Operation(q) \in Operations
  BY OperationFacts DEF Instrumented
<1>2. q.proto \in {"rest", "grpc", "graphql"}
  BY InputFacts DEF APIProtocols, WebProtocols
<1>3. QED
  BY <1>1, <1>2 DEF Label, Labels

-----------------------------------------------------------------------------
(* Plain requests.                                                         *)

\* Arithmetic of width int leaves alone what fits.
LEMMA WrapIdentity ==
  ASSUME NEW n \in Int, n <= MaxInt, n >= 0
  PROVE  Wrap(n) = n
<1> DEFINE a == n - MinInt
           m == 2 * MaxInt + 2
<1>1. a \in Nat /\ m \in Nat /\ m > 0 /\ a < m
  BY IntAssumption DEF MinInt
<1> HIDE DEF a, m
<1>2. a % m = a
  BY <1>1
<1>3. Wrap(n) = a + MinInt
  BY <1>2 DEF Wrap, a, m
<1>4. QED
  BY <1>3, IntAssumption DEF a, MinInt

\* A number that is Small arrives as it is, whichever way it is sent.
LEMMA SmallDecoded ==
  ASSUME NEW q \in Inputs, NEW v \in Value, Promise!Small(v), ~q.inline
  PROVE  Decoded(q, v) = {v.n}
<1> USE IntAssumption
<1>1. v.kind = "int" /\ v.n \in 1 .. MaxExact
  BY DEF Promise!Small
<1>2. Atoi(v) = v.n
  BY <1>1 DEF Atoi
<1>3. Floats(v.n) = {v.n}
  BY <1>1 DEF Floats
<1>4. v.n \in Ints
  BY <1>1 DEF Ints, MinInt
<1>5. GqlInts(v) = {v.n}
  BY <1>1, <1>3, <1>4 DEF GqlInts
<1>6. QED
  BY <1>2, <1>5 DEF Decoded

\* Hence a plain request has one answer, and it is the promised one.
LEMMA PlainFacts ==
  ASSUME NEW q \in Inputs, Promise!Plain(q)
  PROVE  /\ Instrumented(q)
         /\ Replies(q) = Promise!MayAnswer(q)
         /\ Promise!Promised(q) = Echo("long") => q.msg = "long"
<1>1. Replies(q) = {Reply("ok", Promise!Promised(q))} /\ Instrumented(q)
  <2>0. q.whole /\ ~q.inline
    BY DEF Promise!Plain
  <2>1. CASE q.names = {"echo"}
    <3>1. Operation(q) = "echo"
      BY <2>1 DEF Operation
    <3>2. ~Rejected(q)
      BY <2>0, <3>1 DEF Rejected, Arguments
    <3>3. Message(q) = q.msg
      BY <2>0 DEF Message
    <3>4. Bodies(q) = {Echo(q.msg)}
      BY <3>1, <3>3 DEF Bodies
    <3>5. Promise!Promised(q) = Echo(q.msg)
      BY <2>1 DEF Promise!Promised, Echo
    <3>6. QED
      BY <3>1, <3>2, <3>4, <3>5 DEF Replies, Instrumented
  <2>2. CASE q.names = {"get-user"}
    <3>1. Operation(q) = "get-user"
      BY <2>2 DEF Operation
    <3> DEFINE n == q.nums[1].n
    <3>2. Promise!Small(q.nums[1]) /\ n * 31 <= MaxInt
      BY <2>2 DEF Promise!Plain
    <3>3. q.nums[1].kind = "int" /\ n \in Nat /\ n > 0
      BY <3>2, IntAssumption DEF Promise!Small
    <3>4. ~Rejected(q)
      BY <2>0, <3>1, <3>3 DEF Rejected, Arguments
    <3>5. Decoded(q, q.nums[1]) = {n}
      BY <2>0, <3>2, InputFacts, SmallDecoded
    <3>6. Bodies(q) = {GetUser(n)}
      BY <3>1, <3>5 DEF Bodies
    <3>7. GetUser(n) = Promise!Promised(q)
      <4>1. UserId(n) = n
        BY <3>3 DEF UserId
      <4>2. Wrap(n * 31) = n * 31 /\ n * 31 \in Nat
        BY <3>2, <3>3, WrapIdentity
      <4>3. /\ Rem(n, 8) = n % 8
            /\ Rem(n, 10) = n % 10
            /\ Rem(n * 31, 1000) = (n * 31) % 1000
        BY <3>3, <4>2 DEF Rem
      <4>4. QED
        BY <2>2, <4>1, <4>2, <4>3 DEF GetUser, Promise!Promised
    <3>8. QED
      BY <3>1, <3>4, <3>6, <3>7 DEF Replies, Instrumented
  <2>3. CASE q.names = {"create-order"}
    <3>1. Operation(q) = "create-order"
      BY <2>3 DEF Operation
    <3> DEFINE u == q.nums[1].n
               p == q.nums[2].n
               n == q.nums[3].n
    <3>2. /\ \A i \in 1 .. 3 : Promise!Small(q.nums[i])
          /\ u * 1000 + p <= MaxInt
      BY <2>3 DEF Promise!Plain
    <3>3. \A i \in 1 .. 3 : q.nums[i].kind = "int" /\ q.nums[i].n \in Nat
      BY <3>2, IntAssumption DEF Promise!Small
    <3>4. ~Rejected(q)
      BY <2>0, <3>1, <3>3 DEF Rejected, Arguments
    <3>5. /\ Decoded(q, q.nums[1]) = {u}
          /\ Decoded(q, q.nums[2]) = {p}
          /\ Decoded(q, q.nums[3]) = {n}
      BY <2>0, <3>2, InputFacts, SmallDecoded
    <3>6. Bodies(q) = {CreateOrder(u, p, n)}
      BY <3>1, <3>5 DEF Bodies
    <3>7. CreateOrder(u, p, n) = Promise!Promised(q)
      <4>1. /\ u * 1000 \in Nat /\ u * 1000 <= MaxInt
            /\ u * 1000 + p \in Nat
        BY <3>2, <3>3, IntAssumption
      <4>2. Wrap(Wrap(u * 1000) + p) = u * 1000 + p
        BY <3>2, <4>1, WrapIdentity
      <4>3. QED
        BY <2>3, <4>2 DEF CreateOrder, Promise!Promised
    <3>8. QED
      BY <3>1, <3>4, <3>6, <3>7 DEF Replies, Instrumented
  <2>4. QED
    BY <2>1, <2>2, <2>3 DEF Promise!Plain
<1>2. Promise!Promised(q) = Echo("long") => q.msg = "long"
  <2>1. SUFFICES ASSUME Promise!Promised(q).op = "echo", Promise!Promised(q).msg = "long"
                 PROVE  q.msg = "long"
    BY DEF Echo
  <2>2. q.names = {"echo"}
    BY <2>1 DEF Promise!Plain, Promise!Promised
  <2>3. QED
    BY <2>1, <2>2 DEF Promise!Promised
<1>3. QED
  BY <1>1, <1>2 DEF Promise!MayAnswer, Reply

-----------------------------------------------------------------------------
(* The inductive invariant: the parts of the state have their shapes, and  *)
(* each request is where its client and its answer say it is.              *)

Replied == {"handled", "counted", "observed", "left", "over"}

Shapes ==
  /\ req \in [Reqs -> Inputs]
  /\ stage \in [Reqs -> Stages]
  /\ client \in [Reqs -> {"unsent", "waiting", "answered", "failed"}]
  /\ DOMAIN reply = Reqs
  /\ inFlightRequests \in [Labels -> Int]
  /\ requestsTotal \in [Labels \X Counted -> Int]
  /\ requestDuration \in [Labels -> Int]

\* Only what was sent is served, only what was handled is answered (short answers
\* only after the handler), and only what is instrumented raises the gauge.
InStep(r) ==
  /\ stage[r] # "none" => client[r] # "unsent"
  /\ stage[r] \in Replied => reply[r] \in Replies(req[r])
  /\ client[r] = "answered" => stage[r] \in Replied
  /\ client[r] = "answered" /\ ~TooLong(r) => stage[r] \in {"left", "over"}
  /\ Inside(r) => Instrumented(req[r])

ServerInv ==
  /\ Shapes
  /\ proc # "panic"
  /\ \A r \in Reqs : InStep(r)

\* The invariant holds before the server listens.
LEMMA InitInv == ServerInit => ServerInv
<1> SUFFICES ASSUME ServerInit PROVE ServerInv
  OBVIOUS
<1>1. (CHOOSE q \in Inputs : TRUE) \in Inputs
  BY InputsAssumption
<1>2. Shapes
  BY <1>1 DEF ServerInit, Shapes, Stages
<1>3. \A r \in Reqs : InStep(r)
  BY DEF ServerInit, InStep, Replied, Inside
<1>4. QED
  BY <1>2, <1>3 DEF ServerInv, ServerInit

\* By ReplyFacts a request that is handled goes on with its answer.
LEMMA HandleFacts ==
  ASSUME ServerInv, NEW r \in Reqs, Handle(r)
  PROVE  /\ stage[r] = "entered" /\ stage' = [stage EXCEPT ![r] = "handled"]
         /\ \E a \in Replies(req[r]) : reply' = [reply EXCEPT ![r] = a]
         /\ UNCHANGED <<proc, ports, req, client, meters, scrape>>
<1>1. PICK a \in Replies(req[r]) :
        LET cut == Panics(a.body) /\ req[r].proto \in WebProtocols
            end == Panics(a.body) /\ req[r].proto = "grpc"
        IN /\ proc' = IF end THEN "panic" ELSE proc
           /\ stage' = [stage EXCEPT ![r] = IF cut THEN "cut" ELSE IF end THEN @ ELSE "handled"]
           /\ reply' = [reply EXCEPT ![r] = IF Panics(a.body) THEN @ ELSE a]
           /\ client' = [client EXCEPT ![r] = IF cut THEN "failed" ELSE @]
           /\ inFlightRequests' =
                [inFlightRequests EXCEPT ![Label(req[r])] = IF cut THEN @ - 1 ELSE @]
  BY DEF Handle
<1>2. req[r] \in Inputs
  BY DEF ServerInv, Shapes
<1>3. ~Panics(a.body)
  BY <1>2, ReplyFacts
<1>4. stage' = [stage EXCEPT ![r] = "handled"] /\ reply' = [reply EXCEPT ![r] = a] /\ proc' = proc
  BY <1>1, <1>3
<1>5. client' = client /\ inFlightRequests' = inFlightRequests
  BY <1>1, <1>3 DEF ServerInv, Shapes
<1>6. QED
  BY <1>4, <1>5 DEF Handle, meters

\* Every step of the server preserves the invariant.
LEMMA StepInv == ServerInv /\ [ServerNext]_serverVars => ServerInv'
<1> SUFFICES ASSUME ServerInv, [ServerNext]_serverVars PROVE ServerInv'
  OBVIOUS
<1> USE DEF ServerInv, Shapes, InStep, Inside, Stages, Replied, TooLong, meters, exchange
<1>1. CASE UNCHANGED serverVars
  BY <1>1 DEF serverVars, Instrumented
<1>2. CASE Open
  BY <1>2 DEF Open, Listen, ListenFails, ListenError
<1>3. CASE Kill
  BY <1>3 DEF Kill
<1>4. CASE EndScrape
  BY <1>4 DEF EndScrape
<1>5. ASSUME NEW l \in Followed, BeginScrape(l) PROVE ServerInv'
  BY <1>5 DEF BeginScrape
<1>6. ASSUME NEW r \in Reqs, NEW q \in Inputs, Submit(r, q) PROVE ServerInv'
  BY <1>6 DEF Submit
<1>7. ASSUME NEW r \in Reqs, Drop(r) \/ FlushEarly(r) \/ GiveUp(r) PROVE ServerInv'
  <2>1. CASE Refused(r)
    BY <2>1 DEF Refused
  <2>2. CASE Broken(r)
    BY <2>2 DEF Broken
  <2>3. CASE GiveUp(r)
    BY <2>3 DEF GiveUp
  <2>4. CASE FlushEarly(r)
    BY <2>4 DEF FlushEarly, Overflows, Waits
  <2>5. QED
    BY <1>7, <2>1, <2>2, <2>3, <2>4 DEF Drop
<1>8. ASSUME NEW r \in Reqs, Serve(r) PROVE ServerInv'
  <2>0. /\ req[r] \in Inputs
        /\ Inside(r) => Label(req[r]) \in Labels
        /\ stage[r] = "handled" => <<Label(req[r]), reply[r].status>> \in Labels \X Counted
    BY LabelFacts, ReplyFacts
  <2>1. CASE Receive(r)
    BY <2>1 DEF Receive
  <2>2. CASE Bypass(r)
    BY <2>2 DEF Bypass
  <2>3. CASE Enter(r)
    BY <2>3, <2>0, LabelFacts DEF Enter
  <2>4. CASE Handle(r)
    BY <2>4, HandleFacts
  <2>5. CASE Count(r)
    BY <2>5, <2>0 DEF Count
  <2>6. CASE Observe(r)
    BY <2>6, <2>0 DEF Observe
  <2>7. CASE Depart(r)
    BY <2>7, <2>0 DEF Depart, Dec
  <2>8. CASE Flush(r)
    BY <2>8 DEF Flush, Waits
  <2>9. QED
    BY <1>8, <2>1, <2>2, <2>3, <2>4, <2>5, <2>6, <2>7, <2>8 DEF Serve
<1>9. QED
  BY <1>1, <1>2, <1>3, <1>4, <1>5, <1>6, <1>7, <1>8 DEF ServerNext, ServerStep

\* The invariant holds in every behaviour of the server.
LEMMA Inductive == ServerSpec => []ServerInv
BY InitInv, StepInv, PTL DEF ServerSpec

\* No request, whatever ids and bodies it has, takes bench-api down: the clamp in
\* handleGetUser covers every integer that any of the decodings can produce.
THEOREM SurvivesAlways == ServerSpec => []SurvivesRequests
<1>1. ServerInv => SurvivesRequests
  BY DEF ServerInv, SurvivesRequests
<1>2. QED
  BY <1>1, Inductive, PTL

-----------------------------------------------------------------------------
(* The meters.  The sets of requests that MetersAgree compares them with   *)
(* change by the one request that takes a step, and only under its label.  *)

InsideOf(l)    == {r \in Reqs : Inside(r) /\ Label(req[r]) = l}
ObservedOf(l)  == {r \in Reqs : HasObserved(r) /\ Label(req[r]) = l}
CountedAs(l, s) == {r \in Reqs : HasCounted(r) /\ Label(req[r]) = l /\ reply[r].status = s}

GaugeAgrees   == \A l \in Labels : inFlightRequests[l] = Cardinality(InsideOf(l))
HistAgrees    == \A l \in Labels : requestDuration[l] = Cardinality(ObservedOf(l))
CounterAgrees ==
  \A l \in Labels, s \in Counted : requestsTotal[<<l, s>>] = Cardinality(CountedAs(l, s))

MetersInv == GaugeAgrees /\ HistAgrees /\ CounterAgrees

\* The three named parts are MetersAgree.
LEMMA MetersInvIs == MetersInv <=> MetersAgree
BY DEF MetersInv, MetersAgree, GaugeAgrees, HistAgrees, CounterAgrees, InsideOf, ObservedOf, CountedAs

\* A set that gains a request counts one more.
LEMMA OneMore ==
  ASSUME NEW S \in SUBSET Reqs, NEW r \in Reqs, r \notin S
  PROVE  Cardinality(S \union {r}) = Cardinality(S) + 1
<1>1. IsFiniteSet(S)
  BY ReqsAssumption, FS_Subset
<1>2. QED
  BY <1>1, FS_AddElement

\* A set that loses a request counts one less.
LEMMA OneLess ==
  ASSUME NEW S \in SUBSET Reqs, NEW r \in S
  PROVE  Cardinality(S \ {r}) = Cardinality(S) - 1
<1>1. IsFiniteSet(S)
  BY ReqsAssumption, FS_Subset
<1>2. QED
  BY <1>1, FS_RemoveElement

\* All meters are at 0, and no request has come.
LEMMA InitMeters == ServerInit => MetersInv
<1> SUFFICES ASSUME ServerInit PROVE MetersInv
  OBVIOUS
<1>1. \A l \in Labels : InsideOf(l) = {} /\ ObservedOf(l) = {}
  BY DEF ServerInit, InsideOf, ObservedOf, Inside, HasObserved
<1>2. \A l \in Labels, s \in Counted : CountedAs(l, s) = {}
  BY DEF ServerInit, CountedAs, HasCounted
<1>3. QED
  BY <1>1, <1>2, FS_EmptySet DEF ServerInit, MetersInv, GaugeAgrees, HistAgrees, CounterAgrees

\* A step that moves no request from one of the sets to another.
LEMMA Unmetered ==
  ASSUME MetersInv, UNCHANGED meters,
         \A r \in Reqs : /\ Inside(r)' <=> Inside(r)
                         /\ HasObserved(r)' <=> HasObserved(r)
                         /\ HasCounted(r)' <=> HasCounted(r)
                         /\ Inside(r) \/ HasCounted(r) \/ HasObserved(r) => UNCHANGED req[r]
                         /\ HasCounted(r) => UNCHANGED reply[r]
  PROVE  MetersInv'
<1>1. \A l \in Labels : InsideOf(l)' = InsideOf(l) /\ ObservedOf(l)' = ObservedOf(l)
  BY DEF InsideOf, ObservedOf
<1>2. \A l \in Labels, s \in Counted : CountedAs(l, s)' = CountedAs(l, s)
  BY DEF CountedAs
<1>3. QED
  BY <1>1, <1>2 DEF MetersInv, GaugeAgrees, HistAgrees, CounterAgrees, meters

\* Every step moves a meter just when the set it counts changes.
LEMMA StepMeters == ServerInv /\ MetersInv /\ [ServerNext]_serverVars => MetersInv'
<1> SUFFICES ASSUME ServerInv, MetersInv, [ServerNext]_serverVars PROVE MetersInv'
  OBVIOUS
<1> USE DEF exchange
<1>0. /\ Shapes
      /\ \A r \in Reqs : InStep(r)
  BY DEF ServerInv
<1>1. ASSUME UNCHANGED <<req, stage, reply, meters>> PROVE MetersInv'
  BY <1>1, Unmetered DEF Inside, HasCounted, HasObserved, Instrumented
<1>2. ASSUME NEW r \in Reqs, NEW q \in Inputs, Submit(r, q) PROVE MetersInv'
  <2>1. stage[r] = "none"
    BY <1>0, <1>2 DEF InStep, Submit
  <2>2. QED
    BY <1>0, <1>2, <2>1, Unmetered
    DEF Submit, Shapes, Inside, HasCounted, HasObserved
<1>3. ASSUME NEW r \in Reqs, Refused(r) \/ Receive(r) \/ Bypass(r) \/ Handle(r) \/ Flush(r)
      PROVE  MetersInv'
  <2>1. CASE Refused(r)
    BY <1>0, <2>1, Unmetered DEF Refused, Shapes, Inside, HasCounted, HasObserved
  <2>2. CASE Receive(r)
    BY <1>0, <2>2, Unmetered DEF Receive, Shapes, Inside, HasCounted, HasObserved
  <2>3. CASE Bypass(r)
    BY <1>0, <2>3, Unmetered DEF Bypass, Shapes, Inside, HasCounted, HasObserved
  <2>4. CASE Handle(r)
    BY <1>0, <2>4, HandleFacts, Unmetered DEF Shapes, Inside, HasCounted, HasObserved
  <2>5. CASE Flush(r)
    BY <1>0, <2>5, Unmetered DEF Flush, Shapes, Inside, HasCounted, HasObserved
  <2>6. QED
    BY <1>3, <2>1, <2>2, <2>3, <2>4, <2>5
<1>4. ASSUME NEW r \in Reqs, Enter(r) PROVE MetersInv'
  <2> DEFINE L == Label(req[r])
  <2>1. L \in Labels
    BY <1>0, <1>4, LabelFacts DEF Enter, Shapes
  <2>2. \A l \in Labels : InsideOf(l)' = IF l = L THEN InsideOf(l) \union {r} ELSE InsideOf(l)
    BY <1>0, <1>4 DEF Enter, Shapes, InsideOf, Inside
  <2>3. r \notin InsideOf(L) /\ InsideOf(L) \subseteq Reqs
    BY <1>4 DEF Enter, InsideOf, Inside
  <2>4. GaugeAgrees'
    BY <1>0, <1>4, <2>1, <2>2, <2>3, OneMore DEF Enter, Shapes, MetersInv, GaugeAgrees
  <2>5. \A l \in Labels : ObservedOf(l)' = ObservedOf(l)
    BY <1>0, <1>4 DEF Enter, Shapes, ObservedOf, HasObserved
  <2>6. \A l \in Labels, s \in Counted : CountedAs(l, s)' = CountedAs(l, s)
    BY <1>0, <1>4 DEF Enter, Shapes, CountedAs, HasCounted
  <2>7. QED
    BY <1>4, <2>4, <2>5, <2>6 DEF Enter, MetersInv, HistAgrees, CounterAgrees
<1>5. ASSUME NEW r \in Reqs, Count(r) PROVE MetersInv'
  <2> DEFINE L == Label(req[r])
             c == reply[r].status
  <2>0. Instrumented(req[r])
    BY <1>0, <1>5 DEF Count, InStep, Inside
  <2>1. L \in Labels /\ c \in Counted
    BY <1>0, <1>5, <2>0, LabelFacts, ReplyFacts DEF Count, Shapes, InStep, Replied
  <2>2. \A l \in Labels, s \in Counted :
          CountedAs(l, s)' = IF l = L /\ s = c THEN CountedAs(l, s) \union {r} ELSE CountedAs(l, s)
    BY <1>0, <1>5, <2>0 DEF Count, Shapes, CountedAs, HasCounted
  <2>3. r \notin CountedAs(L, c) /\ CountedAs(L, c) \subseteq Reqs
    BY <1>5 DEF Count, CountedAs, HasCounted
  <2>4. CounterAgrees'
    <3>1. requestsTotal' = [requestsTotal EXCEPT ![<<L, c>>] = @ + 1]
      BY <1>5 DEF Count
    <3> HIDE DEF L, c
    <3>2. SUFFICES ASSUME NEW l \in Labels, NEW s \in Counted
                   PROVE  requestsTotal'[<<l, s>>] = Cardinality(CountedAs(l, s)')
      BY DEF CounterAgrees
    <3>3. requestsTotal'[<<l, s>>] =
            IF l = L /\ s = c THEN requestsTotal[<<l, s>>] + 1 ELSE requestsTotal[<<l, s>>]
      BY <1>0, <3>1, <2>1 DEF Shapes
    <3>4. requestsTotal[<<l, s>>] = Cardinality(CountedAs(l, s))
      BY DEF MetersInv, CounterAgrees
    <3>5. QED
      BY <3>3, <3>4, <2>2, <2>3, OneMore
  <2>5. \A l \in Labels : InsideOf(l)' = InsideOf(l) /\ ObservedOf(l)' = ObservedOf(l)
    BY <1>0, <1>5 DEF Count, Shapes, ObservedOf, HasObserved, InsideOf, Inside
  <2>6. QED
    BY <1>5, <2>4, <2>5 DEF Count, MetersInv, HistAgrees, GaugeAgrees
<1>6. ASSUME NEW r \in Reqs, Observe(r) PROVE MetersInv'
  <2> DEFINE L == Label(req[r])
  <2>0. Instrumented(req[r])
    BY <1>0, <1>6 DEF Observe, InStep, Inside
  <2>1. L \in Labels
    BY <1>0, <2>0, LabelFacts DEF Shapes
  <2>2. \A l \in Labels : ObservedOf(l)' = IF l = L THEN ObservedOf(l) \union {r} ELSE ObservedOf(l)
    BY <1>0, <1>6, <2>0 DEF Observe, Shapes, ObservedOf, HasObserved
  <2>3. r \notin ObservedOf(L) /\ ObservedOf(L) \subseteq Reqs
    BY <1>6 DEF Observe, ObservedOf, HasObserved
  <2>4. HistAgrees'
    BY <1>0, <1>6, <2>1, <2>2, <2>3, OneMore DEF Observe, Shapes, MetersInv, HistAgrees
  <2>5. \A l \in Labels : InsideOf(l)' = InsideOf(l)
    BY <1>0, <1>6 DEF Observe, Shapes, InsideOf, Inside
  <2>6. \A l \in Labels, s \in Counted : CountedAs(l, s)' = CountedAs(l, s)
    BY <1>0, <1>6 DEF Observe, Shapes, CountedAs, HasCounted
  <2>7. QED
    BY <1>6, <2>4, <2>5, <2>6 DEF Observe, MetersInv, GaugeAgrees, CounterAgrees
<1>7. ASSUME NEW r \in Reqs, Depart(r) PROVE MetersInv'
  <2> DEFINE L == Label(req[r])
  <2>0. Instrumented(req[r])
    BY <1>0, <1>7 DEF Depart, InStep, Inside
  <2>1. L \in Labels
    BY <1>0, <2>0, LabelFacts DEF Shapes
  <2>2. \A l \in Labels : InsideOf(l)' = IF l = L THEN InsideOf(l) \ {r} ELSE InsideOf(l)
    BY <1>0, <1>7 DEF Depart, Shapes, InsideOf, Inside
  <2>3. r \in InsideOf(L) /\ InsideOf(L) \subseteq Reqs
    BY <1>7 DEF Depart, InsideOf, Inside
  <2>4. GaugeAgrees'
    BY <1>0, <1>7, <2>1, <2>2, <2>3, OneLess DEF Depart, Dec, Shapes, MetersInv, GaugeAgrees
  <2>5. \A l \in Labels : ObservedOf(l)' = ObservedOf(l)
    BY <1>0, <1>7 DEF Depart, Shapes, ObservedOf, HasObserved
  <2>6. \A l \in Labels, s \in Counted : CountedAs(l, s)' = CountedAs(l, s)
    BY <1>0, <1>7 DEF Depart, Shapes, CountedAs, HasCounted
  <2>7. QED
    BY <1>7, <2>4, <2>5, <2>6 DEF Depart, MetersInv, HistAgrees, CounterAgrees
<1>8. CASE UNCHANGED serverVars
  BY <1>1, <1>8 DEF serverVars
<1>9. CASE Open \/ Kill \/ EndScrape
  BY <1>1, <1>9 DEF Open, Listen, ListenFails, Kill, EndScrape
<1>10. ASSUME NEW l \in Followed, BeginScrape(l) PROVE MetersInv'
  BY <1>1, <1>10 DEF BeginScrape
<1>11. ASSUME NEW r \in Reqs, Broken(r) \/ FlushEarly(r) \/ GiveUp(r) PROVE MetersInv'
  BY <1>1, <1>11 DEF Broken, FlushEarly, GiveUp
<1>12. QED
  BY <1>2, <1>3, <1>4, <1>5, <1>6, <1>7, <1>8, <1>9, <1>10, <1>11
  DEF ServerNext, ServerStep, Serve, Drop

\* Whatever arrives, is refused, given up, or interrupted by the end of the process:
\* gauge, counter and histogram are those of the requests between their Inc and Dec,
\* counted, and observed, for any number of them at the same time.
THEOREM MetersAlwaysAgree == ServerSpec => []MetersAgree
<1>1. ServerSpec => []MetersInv
  BY Inductive, InitMeters, StepMeters, PTL DEF ServerSpec
<1>2. QED
  BY <1>1, MetersInvIs, PTL

-----------------------------------------------------------------------------
(* A scrape.  The counter never falls, and by the time a short answer has  *)
(* arrived its request is in the set that the counter agrees with.         *)

ScrapeInv ==
  /\ scrape \in [state : {"none", "begun", "done"}, label : Labels, least : Int, value : Int]
  /\ scrape.state = "begun" => scrape.least <= TotalOf(scrape.label)
  /\ ScrapeShowsAnswers

\* The total that a scrape shows for a label is a number.
LEMMA TotalIsInt == Shapes => \A l \in Labels : TotalOf(l) \in Int
<1> SUFFICES ASSUME Shapes, NEW l \in Labels PROVE TotalOf(l) \in Int
  OBVIOUS
<1> DEFINE g == requestsTotal[<<l, "ok">>]
           b == requestsTotal[<<l, "bad request">>]
<1>1. \A s \in Counted : requestsTotal[<<l, s>>] \in Int
  BY DEF Shapes
<1>2. g \in Int /\ b \in Int
  BY <1>1 DEF Counted
<1>3. TotalOf(l) = g + b
  BY DEF TotalOf
<1> HIDE DEF g, b
<1>4. QED
  BY <1>2, <1>3

\* The same in the next state.
LEMMA TotalStaysInt == Shapes' => (\A l \in Labels : TotalOf(l) \in Int)'
BY TotalIsInt, PTL

\* No step of the server lets a counter fall.
LEMMA TotalGrows ==
  ASSUME ServerInv, ServerNext, NEW l \in Labels
  PROVE  TotalOf(l) \in Int /\ TotalOf(l)' \in Int /\ TotalOf(l) <= TotalOf(l)'
<1>0. Shapes /\ Shapes'
  BY StepInv DEF ServerInv
<1>1. TotalOf(l) \in Int /\ TotalOf(l)' \in Int
  BY <1>0, TotalIsInt, TotalStaysInt
<1>2. CASE UNCHANGED requestsTotal
  <2>1. TotalOf(l)' = TotalOf(l)
    BY <1>2 DEF TotalOf
  <2>2. QED
    BY <1>1, <2>1
<1>3. ASSUME NEW r \in Reqs, Count(r) PROVE TotalOf(l) <= TotalOf(l)'
  <2> DEFINE k == <<Label(req[r]), reply[r].status>>
             g == requestsTotal[<<l, "ok">>]
             b == requestsTotal[<<l, "bad request">>]
             gNext == requestsTotal'[<<l, "ok">>]
             bNext == requestsTotal'[<<l, "bad request">>]
  <2>1. requestsTotal' = [requestsTotal EXCEPT ![k] = @ + 1]
    BY <1>3 DEF Count
  <2> HIDE DEF k
  <2>2. \A s \in Counted : /\ requestsTotal[<<l, s>>] \in Int
                           /\ requestsTotal'[<<l, s>>] \in Int
                           /\ requestsTotal[<<l, s>>] <= requestsTotal'[<<l, s>>]
    BY <1>0, <2>1 DEF Shapes
  <2>3. g \in Int /\ gNext \in Int /\ g <= gNext /\ b \in Int /\ bNext \in Int /\ b <= bNext
    BY <2>2 DEF Counted
  <2>4. TotalOf(l) = g + b /\ TotalOf(l)' = gNext + bNext
    BY DEF TotalOf
  <2> HIDE DEF g, b, gNext, bNext
  <2>5. g + b <= gNext + bNext
    BY <2>3
  <2>6. QED
    BY <2>4, <2>5
<1>4. ASSUME NEW r \in Reqs, Handle(r) PROVE UNCHANGED requestsTotal
  BY <1>4 DEF Handle
<1>5. UNCHANGED requestsTotal \/ \E r \in Reqs : Count(r)
  BY <1>4
  DEF ServerNext, ServerStep, Serve, Drop, Open, Listen, ListenFails, Kill, EndScrape, BeginScrape,
      Submit, Refused, Broken, GiveUp, Receive, Bypass, Enter, Observe, Depart, Flush, FlushEarly,
      meters
<1>6. QED
  BY <1>1, <1>2, <1>3, <1>5

\* What has been answered has been counted, as OK or as a bad request.
LEMMA AnsweredAreCounted ==
  ASSUME ServerInv, MetersInv, NEW l \in Labels
  PROVE  Cardinality(AnsweredOf(l)) \in Int /\ Cardinality(AnsweredOf(l)) <= TotalOf(l)
<1> DEFINE G == CountedAs(l, "ok")
           B == CountedAs(l, "bad request")
<1>1. AnsweredOf(l) \subseteq G \union B
  <2>1. ASSUME NEW r \in AnsweredOf(l)
        PROVE  HasCounted(r) /\ reply[r].status \in Counted /\ Label(req[r]) = l
    <3>1. /\ r \in Reqs /\ client[r] = "answered" /\ ~TooLong(r)
          /\ Instrumented(req[r]) /\ Label(req[r]) = l
      BY DEF AnsweredOf
    <3>2. stage[r] \in {"left", "over"} /\ reply[r] \in Replies(req[r]) /\ req[r] \in Inputs
      BY <3>1 DEF ServerInv, InStep, Shapes, Replied
    <3>3. QED
      BY <3>1, <3>2, ReplyFacts DEF HasCounted
  <2>2. QED
    BY <2>1 DEF CountedAs, AnsweredOf, Counted
<1>2. IsFiniteSet(G) /\ IsFiniteSet(B) /\ G \intersect B = {}
  BY ReqsAssumption, FS_Subset DEF CountedAs
<1>3. IsFiniteSet(G \union B)
      /\ Cardinality(G \union B) = Cardinality(G) + Cardinality(B) - Cardinality(G \intersect B)
  BY <1>2, FS_Union
<1>4. Cardinality(G \intersect B) = 0
  BY <1>2, FS_EmptySet
<1>5. Cardinality(AnsweredOf(l)) <= Cardinality(G \union B) /\ IsFiniteSet(AnsweredOf(l))
  BY <1>1, <1>3, FS_Subset
<1>6. TotalOf(l) = Cardinality(G) + Cardinality(B)
  BY DEF MetersInv, CounterAgrees, TotalOf, Counted
<1>7. Cardinality(G) \in Nat /\ Cardinality(B) \in Nat /\ Cardinality(AnsweredOf(l)) \in Nat
  BY <1>2, <1>5, FS_CardinalityType
<1> HIDE DEF G, B
<1>8. Cardinality(AnsweredOf(l)) <= Cardinality(G) + Cardinality(B)
  BY <1>3, <1>4, <1>5, <1>7
<1>9. QED
  BY <1>6, <1>7, <1>8

\* No scrape has begun.
LEMMA InitScrape == ServerInit => ScrapeInv
BY DEF ServerInit, ScrapeInv, ScrapeShowsAnswers, Labels, Operations

\* A scrape shows at least what had been answered when it began, whatever runs meanwhile.
LEMMA StepScrape ==
  ServerInv /\ MetersInv /\ ScrapeInv /\ [ServerNext]_serverVars => ScrapeInv'
<1> SUFFICES ASSUME ServerInv, MetersInv, ScrapeInv, [ServerNext]_serverVars PROVE ScrapeInv'
  OBVIOUS
<1>1. CASE UNCHANGED serverVars
  BY <1>1 DEF serverVars, meters, ScrapeInv, ScrapeShowsAnswers, TotalOf
<1>2. ASSUME NEW l \in Followed, BeginScrape(l) PROVE ScrapeInv'
  <2>1. l \in Labels
    BY FollowedAssumption
  <2>2. scrape' = [state |-> "begun", label |-> l, least |-> Cardinality(AnsweredOf(l)), value |-> 0]
        /\ TotalOf(l)' = TotalOf(l)
    BY <1>2 DEF BeginScrape, TotalOf, meters
  <2>3. QED
    BY <2>1, <2>2, AnsweredAreCounted DEF ScrapeInv, ScrapeShowsAnswers
<1>3. CASE EndScrape
  <2>1. scrape' = [scrape EXCEPT !.state = "done", !.value = TotalOf(scrape.label)]
        /\ scrape.state = "begun" /\ scrape.label \in Labels
    BY <1>3 DEF EndScrape, ScrapeInv
  <2>2. QED
    BY <2>1, TotalIsInt DEF ServerInv, ScrapeInv, ScrapeShowsAnswers
<1>4. CASE ServerNext /\ UNCHANGED scrape
  <2>1. scrape.label \in Labels /\ scrape.least \in Int
    BY DEF ScrapeInv
  <2>2. scrape.state = "begun" => scrape.least <= TotalOf(scrape.label)'
    <3>1. \A l \in Labels : TotalOf(l) \in Int /\ TotalOf(l)' \in Int /\ TotalOf(l) <= TotalOf(l)'
      BY <1>4, TotalGrows
    <3>2. PICK l \in Labels : l = scrape.label
      BY <2>1
    <3>3. TotalOf(scrape.label) = TotalOf(l) /\ TotalOf(scrape.label)' = TotalOf(l)'
      BY <1>4, <3>2 DEF TotalOf
    <3>4. QED
      BY <2>1, <3>1, <3>3 DEF ScrapeInv
  <2>3. QED
    BY <1>4, <2>2 DEF ScrapeInv, ScrapeShowsAnswers, TotalOf
<1>5. ASSUME NEW r \in Reqs, Handle(r) PROVE UNCHANGED scrape
  BY <1>5 DEF Handle
<1>6. ServerNext => UNCHANGED scrape \/ EndScrape \/ \E l \in Followed : BeginScrape(l)
  BY <1>5
  DEF ServerNext, ServerStep, Serve, Drop, Open, Listen, ListenFails, Kill,
      Submit, Refused, Broken, GiveUp, Receive, Bypass, Enter, Count, Observe, Depart, Flush, FlushEarly
<1>7. QED
  BY <1>1, <1>2, <1>3, <1>4, <1>6

\* GET /metrics is never behind the answers that had arrived when it was asked, for
\* any number of requests that are answered, counted and scraped at the same time.
THEOREM ScrapeAlwaysShows == ServerSpec => []ScrapeShowsAnswers
<1>1. ServerSpec => []ScrapeInv
  BY Inductive, InitMeters, StepMeters, InitScrape, StepScrape, PTL DEF ServerSpec
<1>2. ScrapeInv => ScrapeShowsAnswers
  BY DEF ScrapeInv
<1>3. QED
  BY <1>1, <1>2, PTL

-----------------------------------------------------------------------------
(* The promise of Service.                                                 *)

AnswerMap  == [r \in Reqs |-> IF client[r] = "answered" THEN reply[r] ELSE Reply("none", NoBody)]
MeteredMap == {r \in Reqs : HasCounted(r)}

\* The server begins as the promise does.
LEMMA InitImplements == ServerInit => Promise!Init
<1> SUFFICES ASSUME ServerInit PROVE Promise!Init
  OBVIOUS
<1>1. (CHOOSE q \in Inputs : TRUE) \in Inputs
  BY InputsAssumption
<1>2. req \in [Reqs -> Inputs] /\ client = [r \in Reqs |-> "unsent"]
  BY <1>1 DEF ServerInit
<1>3. AnswerMap = [r \in Reqs |-> Promise!NoAnswer]
  BY <1>2 DEF AnswerMap, Reply, NoBody, Promise!NoAnswer
<1>4. MeteredMap = {}
  BY DEF ServerInit, MeteredMap, HasCounted
<1>5. QED
  BY <1>2, <1>3, <1>4 DEF Promise!Init, AnswerMap, MeteredMap

\* What the mapped state looks like after a step that answers nobody.
LEMMA Unanswered ==
  ASSUME \A r \in Reqs : /\ client'[r] = "answered" <=> client[r] = "answered"
                         /\ client[r] = "answered" => reply'[r] = reply[r]
  PROVE  AnswerMap' = AnswerMap
BY DEF AnswerMap

\* A step that changes no request, answer or counted request is no step of the promise.
LEMMA Stutters ==
  ASSUME UNCHANGED <<req, client>>, AnswerMap' = AnswerMap, MeteredMap' = MeteredMap
  PROVE  UNCHANGED Promise!serviceVars
BY DEF Promise!serviceVars, AnswerMap, MeteredMap

\* The moment at which an answer leaves the server.
LEMMA AnswerStep ==
  ASSUME ServerInv, NEW r \in Reqs,
         client[r] = "waiting", client' = [client EXCEPT ![r] = "answered"],
         stage[r] \in Replied, TooLong(r) \/ stage[r] = "left",
         UNCHANGED <<req, reply>>, MeteredMap' = MeteredMap
  PROVE  Promise!Answer(r)
<1>1. req[r] \in Inputs /\ reply[r] \in Replies(req[r])
  BY DEF ServerInv, Shapes, InStep
<1>2. reply[r] \in Promise!MayAnswer(req[r])
  <2>1. CASE Promise!Plain(req[r])
    BY <1>1, <2>1, PlainFacts
  <2>2. CASE ~Promise!Plain(req[r])
    BY <1>1, <2>2 DEF Promise!MayAnswer
  <2>3. QED
    BY <2>1, <2>2
<1>3. ASSUME Promise!Plain(req[r]), req[r].msg # "long" PROVE r \in MeteredMap
  <2>1. Instrumented(req[r])
    BY <1>1, <1>3, PlainFacts
  <2>2. reply[r] = [status |-> "ok", body |-> Promise!Promised(req[r])]
    BY <1>2, <1>3 DEF Promise!MayAnswer
  <2>3. ~TooLong(r)
    BY <1>1, <1>3, <2>2, PlainFacts DEF TooLong
  <2>4. QED
    BY <2>1, <2>3 DEF MeteredMap, HasCounted
<1>4. AnswerMap' = [AnswerMap EXCEPT ![r] = reply[r]]
  BY DEF AnswerMap, ServerInv, Shapes
<1>5. QED
  BY <1>2, <1>3, <1>4 DEF Promise!Answer, AnswerMap, MeteredMap

\* Every step of the server is one of the promise, or none.
LEMMA StepImplements ==
  ServerInv /\ [ServerNext]_serverVars => [Promise!Next]_(Promise!serviceVars)
<1> SUFFICES ASSUME ServerInv, [ServerNext]_serverVars
             PROVE  Promise!Next \/ UNCHANGED Promise!serviceVars
  OBVIOUS
<1> USE DEF exchange
<1>0. /\ Shapes
      /\ \A r \in Reqs : InStep(r)
  BY DEF ServerInv
<1>1. ASSUME UNCHANGED <<req, stage, reply, client>> PROVE UNCHANGED Promise!serviceVars
  BY <1>1, Unanswered, Stutters DEF MeteredMap, HasCounted, Instrumented
<1>2. ASSUME NEW r \in Reqs, NEW q \in Inputs, Submit(r, q) PROVE Promise!Ask(r)
  <2>1. stage[r] = "none"
    BY <1>0, <1>2 DEF InStep, Submit
  <2>2. AnswerMap' = AnswerMap
    BY <1>0, <1>2, Unanswered DEF Submit, Shapes
  <2>3. MeteredMap' = MeteredMap
    BY <1>0, <1>2, <2>1 DEF Submit, Shapes, MeteredMap, HasCounted
  <2>4. QED
    BY <1>2, <2>2, <2>3 DEF Submit, Promise!Ask, AnswerMap, MeteredMap
<1>3. ASSUME NEW r \in Reqs, Refused(r) \/ Broken(r) \/ GiveUp(r) PROVE Promise!Lose(r)
  <2>1. client[r] = "waiting" /\ client' = [client EXCEPT ![r] = "failed"] /\ UNCHANGED <<req, reply>>
    BY <1>3 DEF Refused, Broken, GiveUp
  <2>2. AnswerMap' = AnswerMap
    BY <1>0, <2>1, Unanswered DEF Shapes
  <2>3. MeteredMap' = MeteredMap
    BY <1>0, <1>3 DEF Refused, Broken, GiveUp, Shapes, MeteredMap, HasCounted
  <2>4. QED
    BY <2>1, <2>2, <2>3 DEF Promise!Lose, AnswerMap, MeteredMap
<1>4. ASSUME NEW r \in Reqs, Count(r) PROVE Promise!Meter(r)
  <2>1. Instrumented(req[r]) /\ client[r] # "unsent"
    BY <1>0, <1>4 DEF Count, InStep, Inside
  <2>2. AnswerMap' = AnswerMap
    BY <1>4, Unanswered DEF Count
  <2>3. MeteredMap' = MeteredMap \union {r} /\ r \notin MeteredMap
    BY <1>0, <1>4, <2>1 DEF Count, Shapes, MeteredMap, HasCounted
  <2>4. QED
    BY <1>4, <2>1, <2>2, <2>3 DEF Count, Promise!Meter, AnswerMap, MeteredMap
<1>5. ASSUME NEW r \in Reqs, Receive(r) \/ Bypass(r) \/ Enter(r) \/ Handle(r) \/ Observe(r) \/ Depart(r)
      PROVE  UNCHANGED Promise!serviceVars
  <2>1. UNCHANGED <<req, client>>
    BY <1>5, HandleFacts DEF Receive, Bypass, Enter, Observe, Depart
  <2>2. \A s \in Reqs : client[s] = "answered" => reply'[s] = reply[s]
    <3>1. CASE UNCHANGED reply
      BY <3>1
    <3>2. CASE Bypass(r)
      BY <1>0, <3>2 DEF Bypass, Shapes, InStep, Replied
    <3>3. CASE Handle(r)
      BY <1>0, <3>3, HandleFacts DEF Shapes, InStep, Replied
    <3>4. QED
      BY <1>5, <3>1, <3>2, <3>3 DEF Receive, Enter, Observe, Depart
  <2>3. AnswerMap' = AnswerMap
    BY <2>1, <2>2, Unanswered
  <2>4. MeteredMap' = MeteredMap
    BY <1>0, <1>5, HandleFacts
    DEF Receive, Bypass, Enter, Observe, Depart, Shapes, MeteredMap, HasCounted
  <2>5. QED
    BY <2>1, <2>3, <2>4, Stutters
<1>6. ASSUME NEW r \in Reqs, Flush(r) PROVE Promise!Answer(r) \/ UNCHANGED Promise!serviceVars
  <2>1. MeteredMap' = MeteredMap
    BY <1>0, <1>6 DEF Flush, Shapes, MeteredMap, HasCounted
  <2>2. CASE client[r] = "waiting"
    BY <1>6, <2>1, <2>2, AnswerStep DEF Flush, Waits, Replied
  <2>3. CASE client[r] # "waiting"
    <3>1. client' = client
      BY <1>0, <1>6, <2>3 DEF Flush, Waits, Shapes
    <3>2. QED
      BY <1>6, <2>1, <3>1, Unanswered, Stutters DEF Flush
  <2>4. QED
    BY <2>2, <2>3
<1>7. ASSUME NEW r \in Reqs, FlushEarly(r) PROVE Promise!Answer(r)
  <2>1. MeteredMap' = MeteredMap
    BY <1>7 DEF FlushEarly, MeteredMap, HasCounted, Instrumented
  <2>2. QED
    BY <1>7, <2>1, AnswerStep DEF FlushEarly, Overflows, Waits, Replied
<1>8. CASE UNCHANGED serverVars
  BY <1>1, <1>8 DEF serverVars
<1>9. CASE Open \/ Kill \/ EndScrape
  BY <1>1, <1>9 DEF Open, Listen, ListenFails, Kill, EndScrape
<1>10. ASSUME NEW l \in Followed, BeginScrape(l) PROVE UNCHANGED Promise!serviceVars
  BY <1>1, <1>10 DEF BeginScrape
<1>11. QED
  BY <1>2, <1>3, <1>4, <1>5, <1>6, <1>7, <1>8, <1>9, <1>10
  DEF ServerNext, ServerStep, Serve, Drop, Promise!Next

\* bench-api keeps the promise of Service: a plain request gets the same answer over
\* REST, GraphQL and gRPC, no request gets two, and a short answer has been counted
\* when it arrives; for every width of int and of float64.
THEOREM Implements == ServerSpec => ServerImplements
BY Inductive, InitImplements, StepImplements, PTL DEF ServerSpec, ServerImplements, Promise!Spec

=============================================================================
