----------------------------- MODULE AtomicConfig -----------------------------
(***************************************************************************)
(* What ConfigStore promises setup(): the configuration behaves as one       *)
(* durable register.  A save takes effect at one instant or not at all,      *)
(* whatever is written half-way; a save that reports success has taken        *)
(* effect and stays; a boot reads the register.  A save that reports failure *)
(* is in doubt until the next successful save or restart: it may have taken   *)
(* effect, and a later save may undo it.                                      *)
(***************************************************************************)
CONSTANTS Config, NoConfig

VARIABLES
  durable,  \* what the next boot will load
  settled,  \* the value to which durable may still fall back
  attempt,  \* the configuration of the save in progress, or NoConfig
  config    \* what this boot loaded, or NoConfig

registerVars == <<durable, settled, attempt, config>>

Init ==
  /\ durable \in Config \cup {NoConfig}
  /\ settled = durable
  /\ attempt = NoConfig
  /\ config = NoConfig

Begin(c) ==
  /\ attempt = NoConfig
  /\ attempt' = c
  /\ UNCHANGED <<durable, settled, config>>

TakeEffect ==
  /\ attempt # NoConfig
  /\ durable' \in {attempt, settled}
  /\ UNCHANGED <<settled, attempt, config>>

Succeed ==
  /\ durable = attempt
  /\ settled' = attempt
  /\ attempt' = NoConfig
  /\ UNCHANGED <<durable, config>>

Fail ==
  /\ attempt # NoConfig
  /\ attempt' = NoConfig
  /\ UNCHANGED <<durable, settled, config>>

Restart ==
  /\ settled' = durable
  /\ attempt' = NoConfig
  /\ config' = NoConfig
  /\ UNCHANGED durable

Boot ==
  /\ settled = durable
  /\ config' = durable
  /\ UNCHANGED <<durable, settled, attempt>>

Next ==
  \/ \E c \in Config : Begin(c)
  \/ TakeEffect \/ Succeed \/ Fail \/ Restart \/ Boot

Spec == Init /\ [][Next]_registerVars
=============================================================================
