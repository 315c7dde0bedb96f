------------------------------ MODULE Handlers ------------------------------
(***************************************************************************)
(* What bench-api answers to a request, from types.go and the decoding in  *)
(* rest.go, graphql.go and grpc.go.  The three protocols share the         *)
(* handlers and differ in how a request names its operation and in what    *)
(* they make of its arguments.                                             *)
(***************************************************************************)
EXTENDS Integers

CONSTANTS
  MaxInt,   \* the largest int: 2^63 - 1
  MaxExact  \* the largest integer up to which float64 has them all: 2^53

ASSUME IntAssumption == MaxInt \in Nat /\ MaxExact \in 1 .. MaxInt

MinInt == -MaxInt - 1
Ints   == MinInt .. MaxInt

Wrap(n) == ((n - MinInt) % (2 * MaxInt + 2)) + MinInt

\* The remainder has the sign of the dividend.
Rem(n, d) == IF n < 0 THEN -((-n) % d) ELSE n % d

-----------------------------------------------------------------------------
(* Requests.                                                               *)

WebProtocols == {"rest", "graphql"}   \* on the HTTP port
APIProtocols == WebProtocols \union {"grpc"}
Operations   == {"echo", "get-user", "create-order"}

\* A message longer than net/http's buffers is "long", a missing one empty.
Messages == {"", "hello", "long"}

\* A number as it is written: an int, one with a fraction (n is what remains
\* without it), one beyond the ints, something else, or nothing at all.
Value == [kind : {"int", "fraction"}, n : Ints]
           \union [kind : {"above", "below", "text", "absent"}, n : {0}]

\* names: the operations that the path, method or query mentions.  whole: the
\* body can be decoded as JSON.  inline: the arguments of a GraphQL operation are
\* written in the query and not passed as variables.  nums: the user's id, or
\* the user, product and quantity of an order.
Request ==
  [proto : APIProtocols, names : SUBSET Operations, whole : BOOLEAN, inline : BOOLEAN,
   msg : Messages, nums : [1 .. 3 -> Value]]

\* REST and gRPC requests name one operation, or none that exists; a path without
\* an id is none.
WellFormed(q) ==
  /\ q.proto \in {"rest", "grpc"} => ~q.inline /\ \A o, p \in q.names : o = p
  /\ q.proto = "rest" /\ q.names # {"create-order"} => q.whole
  /\ q.proto = "rest" /\ q.names = {"get-user"} => q.nums[1].kind # "absent"

-----------------------------------------------------------------------------
(* The handlers.                                                           *)

NoBody == [op |-> "none"]

Echo(m) == [op |-> "echo", msg |-> m]

NoClamp(id) == id  \* mutant
UserId(id)  == IF id <= 0 THEN 1 ELSE id

\* name and country are indices into names and countries.
GetUser(id) ==
  LET i == UserId(id) IN
    [op |-> "get-user", id |-> i, name |-> Rem(i, 8), country |-> Rem(i, 10),
     score |-> Rem(Wrap(i * 31), 1000)]

\* The total is qty times 9.99.
Swapped(user, product, qty) ==  \* mutant
  [op |-> "create-order", id |-> Wrap(Wrap(product * 1000) + user), qty |-> qty]
CreateOrder(user, product, qty) ==
  [op |-> "create-order", id |-> Wrap(Wrap(user * 1000) + product), qty |-> qty]

\* An index below 0 is a run-time panic.
Panics(b) == b.op = "get-user" /\ (b.name < 0 \/ b.country < 0)

-----------------------------------------------------------------------------
(* Decoding.                                                               *)

\* dispatchQuery looks for createOrder, then for getUser; anything else is an
\* echo.  The mux of REST and gRPC's table of methods know three names.
Operation(q) ==
  IF "create-order" \in q.names THEN "create-order"
  ELSE IF "get-user" \in q.names THEN "get-user"
  ELSE IF "echo" \in q.names \/ q.proto = "graphql" THEN "echo"
  ELSE "none"

Arguments(q) ==
  CASE Operation(q) = "get-user"     -> {1}
    [] Operation(q) = "create-order" -> 1 .. 3
    [] OTHER                         -> {}

\* encoding/json puts only ints into a field of type int, and leaves 0 where
\* there is none.  REST decodes a body for orders only; the envelope of GraphQL
\* takes every number.
Rejected(q) ==
  \/ ~q.whole
  \/ /\ q.proto = "grpc" \/ (q.proto = "rest" /\ Operation(q) = "create-order")
     /\ \E i \in Arguments(q) : q.nums[i].kind \notin {"int", "absent"}

\* strconv.Atoi returns the nearest int with its range error, which is ignored,
\* and 0 with a syntax error.
Atoi(v) ==
  CASE v.kind = "int"   -> v.n
    [] v.kind = "above" -> MaxInt
    [] v.kind = "below" -> MinInt
    [] OTHER            -> 0

\* JSON numbers are float64 in an interface{}: beyond MaxExact they are even, and
\* the nearest one differs by no more than n \div MaxExact.
Floats(n) ==
  LET e == (IF n < 0 THEN -n ELSE n) \div MaxExact IN
    IF n \in -MaxExact .. MaxExact THEN {n} ELSE {f \in n - e .. n + e : f % 2 = 0}

\* int(n) of a float beyond the ints depends on the machine.
GqlInts(v) ==
  CASE v.kind = "int" -> (Floats(v.n) \intersect Ints)
                           \union (IF Floats(v.n) \subseteq Ints THEN {} ELSE {MinInt, MaxInt})
    [] v.kind \in {"above", "below"} -> {MinInt, MaxInt}
    [] OTHER                         -> {v.n}

\* What a number can become on its way to the handler.
Decoded(q, v) ==
  IF q.proto = "graphql" THEN IF q.inline THEN {0} ELSE GqlInts(v)
  ELSE IF q.proto = "rest" /\ Operation(q) = "get-user" THEN {Atoi(v)}
  ELSE {v.n}

\* dispatchQuery looks at the variables only.
Message(q) == IF q.inline THEN "" ELSE q.msg

Bodies(q) ==
  CASE Operation(q) = "echo"     -> {Echo(Message(q))}
    [] Operation(q) = "get-user" -> {GetUser(i) : i \in Decoded(q, q.nums[1])}
    [] Operation(q) = "create-order" ->
         {CreateOrder(u, p, n) : u \in Decoded(q, q.nums[1]), p \in Decoded(q, q.nums[2]),
                                 n \in Decoded(q, q.nums[3])}

Statuses == {"ok", "bad request", "internal", "not found"}

Reply(s, b) == [status |-> s, body |-> b]

\* 404 and codes.Unimplemented are the servers' own answers.
Replies(q) ==
  IF Operation(q) = "none" THEN {Reply("not found", NoBody)}
  ELSE IF Rejected(q)
       THEN {Reply(IF q.proto = "grpc" THEN "internal" ELSE "bad request", NoBody)}
  ELSE {Reply("ok", b) : b \in Bodies(q)}

=============================================================================
