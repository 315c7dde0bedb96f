------------------------------ MODULE Service ------------------------------
(***************************************************************************)
(* What the experiments rely on bench-api for: the same answer whichever   *)
(* protocol asks, and a counter that already holds a request when its      *)
(* answer arrives.  Requests may fail, but no request gets two answers.    *)
(***************************************************************************)
EXTENDS Integers

CONSTANTS
  MaxInt, MaxExact,  \* what an int can hold, and what every protocol can carry
  Reqs, Inputs,
  Replies(_)         \* what may be answered to requests about which nothing is promised

VARIABLES
  req,      \* what each request asks
  client,   \* "unsent", "waiting", "answered", "failed"
  answer,   \* what it was answered
  metered   \* the requests that have been counted

serviceVars == <<req, client, answer, metered>>

\* A request as the load generators mean them: one operation, its arguments passed
\* as such, and numbers that every protocol can carry and the result can hold.
Small(v) == v.kind = "int" /\ v.n \in 1 .. MaxExact

Plain(q) ==
  /\ q.whole /\ ~q.inline
  /\ \/ q.names = {"echo"}
     \/ q.names = {"get-user"} /\ Small(q.nums[1]) /\ q.nums[1].n * 31 <= MaxInt
     \/ /\ q.names = {"create-order"}
        /\ Small(q.nums[1]) /\ Small(q.nums[2]) /\ Small(q.nums[3])
        /\ q.nums[1].n * 1000 + q.nums[2].n <= MaxInt

\* Nothing here depends on the protocol.
Promised(q) ==
  CASE q.names = {"echo"} -> [op |-> "echo", msg |-> q.msg]
    [] q.names = {"get-user"} ->
         [op |-> "get-user", id |-> q.nums[1].n, name |-> q.nums[1].n % 8,
          country |-> q.nums[1].n % 10, score |-> (q.nums[1].n * 31) % 1000]
    [] q.names = {"create-order"} ->
         [op |-> "create-order", id |-> q.nums[1].n * 1000 + q.nums[2].n, qty |-> q.nums[3].n]

MayAnswer(q) == IF Plain(q) THEN {[status |-> "ok", body |-> Promised(q)]} ELSE Replies(q)

NoAnswer == [status |-> "none", body |-> [op |-> "none"]]

Ask(r) ==
  /\ client[r] = "unsent"
  /\ client' = [client EXCEPT ![r] = "waiting"]
  /\ \E q \in Inputs : req' = [req EXCEPT ![r] = q]
  /\ UNCHANGED <<answer, metered>>

Meter(r) ==
  /\ client[r] # "unsent"
  /\ r \notin metered
  /\ metered' = metered \union {r}
  /\ UNCHANGED <<req, client, answer>>

\* A long answer may leave the server before it is counted.
Answer(r) ==
  /\ client[r] = "waiting"
  /\ Plain(req[r]) /\ req[r].msg # "long" => r \in metered
  /\ client' = [client EXCEPT ![r] = "answered"]
  /\ \E a \in MayAnswer(req[r]) : answer' = [answer EXCEPT ![r] = a]
  /\ UNCHANGED <<req, metered>>

Lose(r) ==
  /\ client[r] = "waiting"
  /\ client' = [client EXCEPT ![r] = "failed"]
  /\ UNCHANGED <<req, answer, metered>>

Init ==
  /\ req \in [Reqs -> Inputs]
  /\ client = [r \in Reqs |-> "unsent"]
  /\ answer = [r \in Reqs |-> NoAnswer]
  /\ metered = {}

Next == \E r \in Reqs : Ask(r) \/ Meter(r) \/ Answer(r) \/ Lose(r)

Spec == Init /\ [][Next]_serviceVars

=============================================================================
