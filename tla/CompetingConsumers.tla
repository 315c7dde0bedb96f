------------------------- MODULE CompetingConsumers -------------------------
(***************************************************************************)
(* What every Consume of loadgen-msg promises its caller, whatever the     *)
(* broker: a fixed set of workers adds to one tally, a worker that finds   *)
(* the quota met stops for good, and the caller is answered once, after    *)
(* the last worker has stopped.  Consume implements it for four brokers.   *)
(***************************************************************************)
EXTENDS Integers

CONSTANTS
  Workers,  \* the consumer goroutines
  Quota     \* the number of messages the caller asked for

VARIABLES
  tally,    \* messages counted so far, over all workers
  active,   \* the workers that may still count one
  outcome   \* "none" while the call runs, then "stats" or "error"

vars == <<tally, active, outcome>>

-----------------------------------------------------------------------------

Init ==
  /\ tally = 0
  /\ active = Workers
  /\ outcome = "none"

QuotaMet == tally + 1 >= Quota

\* A worker counts one message; the one that finds the quota met is done.
CountOne(w) ==
  /\ w \in active
  /\ tally' = tally + 1
  /\ active' = IF QuotaMet THEN active \ {w} ELSE active
  /\ UNCHANGED outcome

\* A worker gives up: its connection failed, or the others met the quota.
Leave(w) ==
  /\ w \in active
  /\ active' = active \ {w}
  /\ UNCHANGED <<tally, outcome>>

\* The caller is answered when no worker can count any more.
Answer ==
  /\ active = {}
  /\ outcome = "none"
  /\ outcome' \in {"stats", "error"}
  /\ UNCHANGED <<tally, active>>

\* The call fails before any worker has counted anything.
Abort ==
  /\ tally = 0
  /\ outcome = "none"
  /\ active' = {}
  /\ outcome' = "error"
  /\ UNCHANGED tally

Next ==
  \/ \E w \in Workers : CountOne(w) \/ Leave(w)
  \/ Answer
  \/ Abort

Spec == Init /\ [][Next]_vars

=============================================================================
