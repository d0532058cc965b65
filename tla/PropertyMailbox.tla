--------------------------- MODULE PropertyMailbox ---------------------------
(***************************************************************************)
(* What CommandDispatcher promises its two callers, without slots or        *)
(* sequence numbers.  Presses are numbered in the order they are made.      *)
(*                                                                         *)
(*  - an absolute ("coalescable") press replaces the one that waits for     *)
(*    the same property of the same device, and nothing else;               *)
(*  - an absolute press waits while an older one of its property is being   *)
(*    executed;                                                             *)
(*  - one-shot presses are never merged and start in the order of pressing; *)
(*  - a press may be refused, in which case nothing that waits is lost.     *)
(***************************************************************************)
EXTENDS Naturals

CONSTANTS Device, Kind, CoalescableKind, MaxPresses

VARIABLES
  waiting,   \* the commands accepted and not yet started
  active,    \* the commands started and not yet finished
  lastPress  \* the number of the last press

abstractVars == <<waiting, active, lastPress>>

Press == [device : Device, kind : Kind, id : 1..MaxPresses]

Absolute(c) == c.kind \in CoalescableKind
Property(c) == <<c.device, c.kind>>

Init ==
  /\ waiting = {}
  /\ active = {}
  /\ lastPress = 0

(* A newer absolute press stands in for the one it finds waiting. *)
Accept(c) ==
  /\ c.id > lastPress
  /\ waiting' = {w \in waiting : ~(Absolute(c) /\ Property(w) = Property(c))}
                   \cup {c}
  /\ lastPress' = c.id
  /\ UNCHANGED active

Refuse(c) ==
  /\ c.id > lastPress
  /\ lastPress' = c.id
  /\ UNCHANGED <<waiting, active>>

Begin(c) ==
  /\ c \in waiting
  /\ \/ /\ Absolute(c)
        /\ \A a \in active : Property(a) # Property(c)
     \/ /\ ~Absolute(c)
        /\ \A w \in waiting : ~Absolute(w) => c.id <= w.id
  /\ waiting' = waiting \ {c}
  /\ active' = active \cup {c}
  /\ UNCHANGED lastPress

Finish(c) ==
  /\ c \in active
  /\ active' = active \ {c}
  /\ UNCHANGED <<waiting, lastPress>>

Next ==
  \/ \E c \in Press : Accept(c) \/ Refuse(c)
  \/ \E c \in waiting : Begin(c)
  \/ \E c \in active : Finish(c)

Spec == Init /\ [][Next]_abstractVars
=============================================================================
