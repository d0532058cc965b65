----------------------------- MODULE ConfigStore ------------------------------
(***************************************************************************)
(* firmware/src/ConfigStore.cpp: load() and save() over two checksummed NVS *)
(* slots and a legacy key, with power lost between any two steps.           *)
(*                                                                         *)
(* A slot is what decodeSlot() makes of the stored text: Invalid when it is  *)
(* absent, torn or of a wrong checksum, otherwise a revision and a           *)
(* configuration.  Writing is where the flash may misbehave: the old value,  *)
(* the new one or an unreadable one may be left in the written slot, and in  *)
(* no other.                                                                  *)
(***************************************************************************)
EXTENDS Integers

CONSTANTS
  Config,      \* the structurally valid configurations
  NoConfig,
  Invalid,
  MaxSaves,    \* bound: saves attempted; revisions do not wrap
  LoadMayFail  \* whether Preferences::begin() may fail while load() reads

ASSUME ConfigAssumption ==
  /\ NoConfig \notin Config
  /\ Invalid \notin [revision : Nat, config : Config]
  /\ MaxSaves \in Nat
  /\ LoadMayFail \in BOOLEAN

VARIABLES
  slots,       \* NVS keys config_a and config_b
  legacy,      \* NVS key config
  revision,    \* revision_
  activeSlot,  \* activeSlot_
  config,      \* appConfig as load() left it
  phase,       \* "off", "running", or a step of save()
  candidate,   \* the argument of the save() in progress
  saves        \* saves attempted so far

flash == <<slots, legacy>>
ram == <<revision, activeSlot, config, phase, candidate>>
vars == <<flash, ram, saves>>

Slot == {Invalid} \cup [revision : Nat, config : Config]
Valid(i) == slots[i] # Invalid

(* The valid slot of the higher revision; slot 0 wins a tie. *)
IsSelected(i) ==
  /\ Valid(i)
  /\ \A j \in {0, 1} \ {i} : Valid(j) =>
       \/ slots[i].revision > slots[j].revision
       \/ slots[i].revision = slots[j].revision /\ i = 0

-----------------------------------------------------------------------------
(* load(), once per boot: RAM starts with revision_ 0 and activeSlot_ -1.    *)

LoadSlot(i) ==
  /\ phase = "off"
  /\ IsSelected(i)
  /\ config' = slots[i].config
  /\ revision' = slots[i].revision
  /\ activeSlot' = i
  /\ phase' = "running"
  /\ UNCHANGED <<flash, candidate, saves>>

LoadLegacy ==
  /\ phase = "off"
  /\ ~Valid(0) /\ ~Valid(1)
  /\ legacy # NoConfig
  /\ config' = legacy
  /\ phase' = "running"
  /\ UNCHANGED <<flash, revision, activeSlot, candidate, saves>>

LoadNothing ==
  /\ phase = "off"
  /\ \/ ~Valid(0) /\ ~Valid(1) /\ legacy = NoConfig
     \/ LoadMayFail
  /\ phase' = "running"
  /\ UNCHANGED <<flash, revision, activeSlot, config, candidate, saves>>

-----------------------------------------------------------------------------
(* save(): write the slot that is not active, read it back, then switch.     *)

Target_SameSlot == IF activeSlot = 1 THEN 1 ELSE 0
Target == IF activeSlot = 0 THEN 1 ELSE 0

NewSlot_SameRevision == [revision |-> revision, config |-> candidate]
NewSlot == [revision |-> revision + 1, config |-> candidate]

BeginSave(c) ==
  /\ phase = "running"
  /\ saves < MaxSaves
  /\ saves' = saves + 1
  /\ candidate' = c
  /\ phase' = "writing"
  /\ UNCHANGED <<flash, revision, activeSlot, config>>

Write ==
  /\ phase = "writing"
  /\ \E left \in {slots[Target], NewSlot, Invalid} :
       slots' = [slots EXCEPT ![Target] = left]
  /\ phase' = "verifying"
  /\ UNCHANGED <<legacy, revision, activeSlot, config, candidate, saves>>

SaveSucceeds ==
  /\ phase = "verifying"
  /\ slots[Target] = NewSlot
  /\ activeSlot' = Target
  /\ revision' = revision + 1
  /\ candidate' = NoConfig
  /\ phase' = "running"
  /\ UNCHANGED <<flash, config, saves>>

(* begin() failed, fewer bytes were written, or the readback differs. *)
SaveFails ==
  /\ phase \in {"writing", "verifying"}
  /\ candidate' = NoConfig
  /\ phase' = "running"
  /\ UNCHANGED <<flash, revision, activeSlot, config, saves>>

(* Power loss, the portal's restart or its timeout, between any two steps. *)
Restart ==
  /\ phase' = "off"
  /\ revision' = 0
  /\ activeSlot' = -1
  /\ config' = NoConfig
  /\ candidate' = NoConfig
  /\ UNCHANGED <<flash, saves>>

Init ==
  /\ slots = [i \in {0, 1} |-> Invalid]
  /\ legacy \in Config \cup {NoConfig}
  /\ revision = 0
  /\ activeSlot = -1
  /\ config = NoConfig
  /\ phase = "off"
  /\ candidate = NoConfig
  /\ saves = 0

Next ==
  \/ \E i \in {0, 1} : LoadSlot(i)
  \/ LoadLegacy \/ LoadNothing
  \/ \E c \in Config : BeginSave(c)
  \/ Write \/ SaveSucceeds \/ SaveFails \/ Restart

Spec == Init /\ [][Next]_vars

-----------------------------------------------------------------------------
(* The store's values in range; candidate is set exactly during a save. *)
TypeOK ==
  /\ slots \in [{0, 1} -> Slot]
  /\ legacy \in Config \cup {NoConfig}
  /\ revision \in Nat
  /\ activeSlot \in {-1, 0, 1}
  /\ config \in Config \cup {NoConfig}
  /\ phase \in {"off", "running", "writing", "verifying"}
  /\ candidate \in Config \cup {NoConfig}
  /\ (candidate # NoConfig) <=> (phase \in {"writing", "verifying"})
  /\ saves \in 0..MaxSaves

(* Two valid slots never carry the same revision: the choice of load() does  *)
(* not depend on how it breaks a tie.                                         *)
RevisionsDiffer == Valid(0) /\ Valid(1) => slots[0].revision # slots[1].revision

(* The active slot is valid and holds revision_.  The other one is older, or *)
(* is what a save that was not reported as successful has left.               *)
ActiveIsValid(i) ==
  /\ Valid(i) /\ slots[i].revision = revision
  /\ Valid(1 - i) => \/ slots[1 - i].revision < revision
                     \/ slots[1 - i].revision = revision + 1
NoneIsActive ==
  /\ revision = 0 /\ ~Valid(1)
  /\ Valid(0) => slots[0].revision = 1
ActiveIsSettled ==
  phase # "off" =>
    /\ activeSlot = -1 => NoneIsActive
    /\ activeSlot = 0 => ActiveIsValid(0)
    /\ activeSlot = 1 => ActiveIsValid(1)

(* What a boot now would load. *)
Durable ==
  IF Valid(0) \/ Valid(1)
  THEN slots[CHOOSE i \in {0, 1} : IsSelected(i)].config
  ELSE legacy

(* What the running program took its activeSlot_ from. *)
Settled ==
  IF phase = "off" THEN Durable
  ELSE IF activeSlot # -1 /\ Valid(activeSlot) THEN slots[activeSlot].config ELSE legacy

(* The two slots are one atomic durable register (AtomicConfig), with power  *)
(* lost at any point of save(): "two checksummed NVS slots preserve the      *)
(* previous valid configuration" (README.md:35).                              *)
Register == INSTANCE AtomicConfig WITH
  durable <- Durable, settled <- Settled, attempt <- candidate
ImplementsRegister == Register!Spec

(* A save that returned true is what the next boot loads.                    *)
SuccessIsDurable ==
  [][SaveSucceeds => Durable' = candidate]_vars
=============================================================================
