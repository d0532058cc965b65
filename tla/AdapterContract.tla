---------------------------- MODULE AdapterContract ----------------------------
(***************************************************************************)
(* What firmware/include/core/DeviceAdapter.h leaves its users to rely on:   *)
(* a command answered with Pending yields exactly one event later, and no    *)
(* event comes for any other.  main.cpp frees the dispatcher slot of a       *)
(* command on that event, so a missing one blocks the property for ever and  *)
(* a second one could free a slot that is not its own.                        *)
(***************************************************************************)
CONSTANT Ids

VARIABLES
  awaiting,  \* commands answered with Pending, their event still to come
  answered   \* commands whose event waits in the adapter's buffer

contractVars == <<awaiting, answered>>

Init == awaiting = {} /\ answered = {}

Accept(id) ==
  /\ id \notin awaiting \cup answered
  /\ awaiting' = awaiting \cup {id}
  /\ UNCHANGED answered

Resolve(ids) ==
  /\ ids \subseteq awaiting
  /\ awaiting' = awaiting \ ids
  /\ answered' = answered \cup ids

Poll(id) ==
  /\ id \in answered
  /\ answered' = answered \ {id}
  /\ UNCHANGED awaiting

Next ==
  \/ \E id \in Ids : Accept(id) \/ Poll(id)
  \/ \E ids \in SUBSET Ids : Resolve(ids)

Spec == Init /\ [][Next]_contractVars
=============================================================================
