----------------------------- MODULE LampRequest ------------------------------
(***************************************************************************)
(* What TapoAdapter::request() promises the child adapter: however many      *)
(* handshakes, attempts and lost messages it takes, it ends in one Outcome,   *)
(* connection_ is the one that belongs to it, and success means that the      *)
(* lamp has done what was asked.  TapoGroup runs its children on exactly      *)
(* this.                                                                      *)
(***************************************************************************)
EXTENDS LampOutcome

VARIABLES
  asking,      \* a request is under way
  carriedOut,  \* the lamp has done what the latest request asked
  outcome,     \* of the latest request
  connection

requestVars == <<asking, carriedOut, outcome, connection>>

Init ==
  /\ asking = FALSE /\ carriedOut = FALSE
  /\ outcome \in Outcome /\ connection = "Offline"

Ask ==
  /\ ~asking /\ asking' = TRUE
  /\ carriedOut' = FALSE
  /\ connection' \in {connection, "Connecting"}
  /\ UNCHANGED outcome

Exchange ==
  /\ asking
  /\ carriedOut' \in {carriedOut, TRUE}
  /\ connection' \in {connection, "Offline", "Online"}
  /\ UNCHANGED <<asking, outcome>>

Return ==
  /\ asking /\ asking' = FALSE
  /\ carriedOut' \in {carriedOut, TRUE}
  /\ outcome' \in Outcome
  /\ MayBeCarriedOut(outcome', carriedOut')
  /\ connection' = ConnectionAfter(outcome')

Next == Ask \/ Exchange \/ Return

Spec == Init /\ [][Next]_requestVars
=============================================================================
