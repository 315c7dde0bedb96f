----------------------------- MODULE AllOrError -----------------------------
(***************************************************************************)
(* What a load generator promises of a call that writes a known set of     *)
(* items through concurrent workers: it is answered once, with success     *)
(* only when every item has been written, with an error only when          *)
(* something failed.  Insert.tla implements it for seven databases.        *)
(***************************************************************************)

CONSTANT Items  \* what the caller asked to have written

VARIABLES
  written,  \* the items that are in the target
  broken,   \* whether a failure has been recorded
  answer    \* "none" while the call runs, then "ok" or "error"

vars == <<written, broken, answer>>

-----------------------------------------------------------------------------

Init ==
  /\ written = {}
  /\ broken = FALSE
  /\ answer = "none"

\* Some items reach the target, whether or not the caller will learn of it.
Write(S) ==
  /\ answer = "none"
  /\ written' = written \cup S
  /\ UNCHANGED <<broken, answer>>

\* A worker records that something failed; nothing takes it back.
Break ==
  /\ answer = "none"
  /\ broken' = TRUE
  /\ UNCHANGED <<written, answer>>

Answer ==
  /\ answer = "none"
  /\ \/ broken /\ answer' = "error"
     \/ ~broken /\ written = Items /\ answer' = "ok"
  /\ UNCHANGED <<written, broken>>

Next == (\E S \in SUBSET Items : Write(S)) \/ Break \/ Answer

Spec == Init /\ [][Next]_vars

=============================================================================
