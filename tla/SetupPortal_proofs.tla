------------------------- MODULE SetupPortal_proofs -------------------------
(***************************************************************************)
(* Proofs about ConfigStore for every set of configurations and any number   *)
(* of saves, power losses and failed writes, and then about SetupPortal for  *)
(* any number of submissions, saves and boots and any timeout: what the      *)
(* portal puts into the store, and that the store stays one register with    *)
(* the portal as its caller.                                                 *)
(***************************************************************************)
EXTENDS SetupPortal, TLAPS

Stored == [revision : Nat, config : Config]

(* A boot that has not loaded yet knows nothing. *)
OffIsBlank ==
  phase = "off" => revision = 0 /\ activeSlot = -1 /\ config = NoConfig

IInv == TypeOK /\ OffIsBlank /\ RevisionsDiffer /\ ActiveIsSettled

-----------------------------------------------------------------------------
(* Types. *)

LEMMA WrittenSlotTyped ==
  ASSUME TypeOK, phase = "writing"
  PROVE  NewSlot \in Stored
  BY DEF TypeOK, NewSlot, Stored

LEMMA ValidIsStored ==
  ASSUME TypeOK, NEW i \in {0, 1}, Valid(i)
  PROVE  slots[i] \in Stored
  BY DEF TypeOK, Valid, Slot, Stored

LEMMA TypeInit == Init => TypeOK
  BY ConfigAssumption DEF Init, TypeOK, Slot

LEMMA TypeNext == TypeOK /\ [Next]_vars => TypeOK'
<1> SUFFICES ASSUME TypeOK, [Next]_vars PROVE TypeOK'
  OBVIOUS
<1> USE ConfigAssumption
<1>1. ASSUME NEW i \in {0, 1}, LoadSlot(i) PROVE TypeOK'
  <2>1. slots[i] \in Stored
    BY <1>1, ValidIsStored DEF LoadSlot, IsSelected
  <2> QED
    BY <1>1, <2>1 DEF LoadSlot, TypeOK, Stored, flash
<1>2. ASSUME LoadLegacy PROVE TypeOK'
  BY <1>2 DEF LoadLegacy, TypeOK, flash
<1>3. ASSUME LoadNothing PROVE TypeOK'
  BY <1>3 DEF LoadNothing, TypeOK, flash
<1>4. ASSUME NEW c \in Config, BeginSave(c) PROVE TypeOK'
  BY <1>4 DEF BeginSave, TypeOK, flash
<1>5. ASSUME Write PROVE TypeOK'
  <2>1. PICK left \in {slots[Target], NewSlot, Invalid} :
          slots' = [slots EXCEPT ![Target] = left]
    BY <1>5 DEF Write
  <2>2. Target \in {0, 1}
    BY DEF Target
  <2>3. left \in Slot
    BY <1>5, <2>1, <2>2, WrittenSlotTyped DEF Write, TypeOK, Slot, Stored
  <2>4. slots' \in [{0, 1} -> Slot]
    BY <2>1, <2>2, <2>3 DEF TypeOK
  <2> QED
    BY <1>5, <2>4 DEF Write, TypeOK
<1>6. ASSUME SaveSucceeds PROVE TypeOK'
  BY <1>6 DEF SaveSucceeds, TypeOK, flash, Target
<1>7. ASSUME SaveFails PROVE TypeOK'
  BY <1>7 DEF SaveFails, TypeOK, flash
<1>8. ASSUME Restart PROVE TypeOK'
  BY <1>8 DEF Restart, TypeOK, flash
<1>9. ASSUME UNCHANGED vars PROVE TypeOK'
  BY <1>9 DEF vars, flash, ram, TypeOK
<1> QED
  BY <1>1, <1>2, <1>3, <1>4, <1>5, <1>6, <1>7, <1>8, <1>9 DEF Next

(* Slots, RAM and the phase of save() keep their types, and a candidate is   *)
(* held exactly while a save() is running (ConfigStore.cpp, save()).         *)
THEOREM StoreTypeCorrect == Spec => []TypeOK
<1>1. Init => TypeOK
  BY TypeInit
<1>2. TypeOK /\ [Next]_vars => TypeOK'
  BY TypeNext
<1> QED
  BY <1>1, <1>2, PTL DEF Spec

-----------------------------------------------------------------------------
(* What load() selects is well defined. *)

LEMMA SelectionUnique ==
  ASSUME TypeOK, NEW i \in {0, 1}, NEW j \in {0, 1}, IsSelected(i), IsSelected(j)
  PROVE  i = j
<1>1. Valid(i) /\ Valid(j)
  BY DEF IsSelected
<1>2. slots[i].revision \in Nat /\ slots[j].revision \in Nat
  BY <1>1, ValidIsStored DEF Stored
<1> QED
  BY <1>1, <1>2 DEF IsSelected

LEMMA SomeSelected ==
  ASSUME TypeOK, Valid(0) \/ Valid(1)
  PROVE  \E i \in {0, 1} : IsSelected(i)
<1>1. CASE Valid(0) /\ Valid(1)
  <2>1. slots[0].revision \in Nat /\ slots[1].revision \in Nat
    BY <1>1, ValidIsStored DEF Stored
  <2> QED
    BY <1>1, <2>1 DEF IsSelected
<1>2. CASE ~(Valid(0) /\ Valid(1))
  BY <1>2 DEF IsSelected
<1> QED
  BY <1>1, <1>2

LEMMA DurableIsSelected ==
  ASSUME TypeOK, NEW i \in {0, 1}, IsSelected(i)
  PROVE  Durable = slots[i].config
<1> DEFINE k == CHOOSE j \in {0, 1} : IsSelected(j)
<1>1. k \in {0, 1} /\ IsSelected(k)
  OBVIOUS
<1>2. k = i
  BY <1>1, SelectionUnique
<1>3. Valid(0) \/ Valid(1)
  BY DEF IsSelected
<1> QED
  BY <1>2, <1>3 DEF Durable

LEMMA DurableIsLegacy ==
  ASSUME ~Valid(0), ~Valid(1)
  PROVE  Durable = legacy
  BY DEF Durable

LEMMA DurableTyped ==
  ASSUME TypeOK
  PROVE  Durable \in Config \cup {NoConfig}
<1>1. CASE Valid(0) \/ Valid(1)
  <2>1. PICK i \in {0, 1} : IsSelected(i)
    BY <1>1, SomeSelected
  <2>2. slots[i] \in Stored
    BY <2>1, ValidIsStored DEF IsSelected
  <2> QED
    BY <2>1, <2>2, DurableIsSelected DEF Stored
<1>2. CASE ~(Valid(0) \/ Valid(1))
  BY <1>2 DEF Durable, TypeOK
<1> QED
  BY <1>1, <1>2

-----------------------------------------------------------------------------
(* The inductive invariant, for a store that can be opened at every boot. *)

LEMMA InitIInv == Init => IInv
<1> SUFFICES ASSUME Init PROVE IInv
  OBVIOUS
<1>1. TypeOK
  BY TypeInit
<1> QED
  BY <1>1 DEF Init, IInv, OffIsBlank, RevisionsDiffer, ActiveIsSettled, Valid

LEMMA LoadSlotIInv ==
  ASSUME IInv, TypeOK', NEW i \in {0, 1}, LoadSlot(i)
  PROVE  IInv'
<1>1. Valid(i) /\ slots' = slots /\ revision' = slots[i].revision /\ activeSlot' = i
      /\ phase' = "running"
  BY DEF LoadSlot, IsSelected, flash
<1>2. \A j \in {0, 1} : Valid(j) => slots[j].revision \in Nat
  BY ValidIsStored DEF Stored, IInv
<1>3. 1 - i \in {0, 1} /\ 1 - i # i
  OBVIOUS
<1>4. Valid(1 - i) => slots[1 - i].revision < slots[i].revision
  BY <1>1, <1>2, <1>3 DEF LoadSlot, IsSelected, IInv, RevisionsDiffer
<1>5. ActiveIsValid(i)'
  BY <1>1, <1>4 DEF ActiveIsValid, Valid
<1>6. ActiveIsSettled'
  BY <1>1, <1>5 DEF ActiveIsSettled
<1>7. RevisionsDiffer' /\ OffIsBlank'
  BY <1>1 DEF IInv, RevisionsDiffer, OffIsBlank, Valid
<1> QED
  BY <1>6, <1>7 DEF IInv

LEMMA LoadNoSlotIInv ==
  ASSUME IInv, TypeOK', ~LoadMayFail, LoadLegacy \/ LoadNothing
  PROVE  IInv'
<1>1. slots' = slots /\ UNCHANGED <<revision, activeSlot>> /\ ~Valid(0) /\ ~Valid(1)
      /\ phase = "off" /\ phase' = "running"
  BY DEF LoadLegacy, LoadNothing, flash
<1>2. activeSlot' = -1 /\ revision' = 0
  BY <1>1 DEF IInv, OffIsBlank
<1> QED
  BY <1>1, <1>2 DEF IInv, OffIsBlank, RevisionsDiffer, ActiveIsSettled, NoneIsActive, Valid

LEMMA WriteIInv ==
  ASSUME IInv, TypeOK', Write
  PROVE  IInv'
<1>1. PICK left \in {slots[Target], NewSlot, Invalid} :
        slots' = [slots EXCEPT ![Target] = left]
  BY DEF Write
<1>2. UNCHANGED <<revision, activeSlot>> /\ phase = "writing" /\ phase' = "verifying"
  BY DEF Write
<1>3. slots \in [{0, 1} -> Slot] /\ revision \in Nat /\ activeSlot \in {-1, 0, 1}
  BY DEF IInv, TypeOK
<1>4. NewSlot.revision = revision + 1 /\ NewSlot # Invalid
  BY <1>2, WrittenSlotTyped, ConfigAssumption DEF IInv, NewSlot, Stored
<1>5. CASE activeSlot = -1
  <2>1. Target = 0 /\ NoneIsActive
    BY <1>2, <1>5 DEF Target, IInv, ActiveIsSettled
  <2>2. slots'[1] = slots[1] /\ slots'[0] = left
    BY <1>1, <1>3, <2>1
  <2>3. NoneIsActive'
    BY <1>1, <1>2, <1>4, <2>1, <2>2 DEF NoneIsActive, Valid
  <2> QED
    BY <1>2, <1>5, <2>3 DEF IInv, OffIsBlank, RevisionsDiffer, ActiveIsSettled, NoneIsActive
<1>6. CASE activeSlot = 0
  <2>1. Target = 1 /\ ActiveIsValid(0)
    BY <1>2, <1>6 DEF Target, IInv, ActiveIsSettled
  <2>2. slots'[0] = slots[0] /\ slots'[1] = left
    BY <1>1, <1>3, <2>1
  <2>3. ActiveIsValid(0)'
    BY <1>1, <1>2, <1>4, <2>1, <2>2 DEF ActiveIsValid, Valid
  <2>4. RevisionsDiffer'
    BY <1>2, <1>3, <2>3 DEF RevisionsDiffer, ActiveIsValid
  <2> QED
    BY <1>2, <1>6, <2>3, <2>4 DEF IInv, OffIsBlank, ActiveIsSettled
<1>7. CASE activeSlot = 1
  <2>1. Target = 0 /\ ActiveIsValid(1)
    BY <1>2, <1>7 DEF Target, IInv, ActiveIsSettled
  <2>2. slots'[1] = slots[1] /\ slots'[0] = left
    BY <1>1, <1>3, <2>1
  <2>3. ActiveIsValid(1)'
    BY <1>1, <1>2, <1>4, <2>1, <2>2 DEF ActiveIsValid, Valid
  <2>4. RevisionsDiffer'
    BY <1>2, <1>3, <2>3 DEF RevisionsDiffer, ActiveIsValid
  <2> QED
    BY <1>2, <1>7, <2>3, <2>4 DEF IInv, OffIsBlank, ActiveIsSettled
<1> QED
  BY <1>3, <1>5, <1>6, <1>7

LEMMA SucceedIInv ==
  ASSUME IInv, TypeOK', SaveSucceeds
  PROVE  IInv'
<1>1. /\ slots' = slots /\ revision' = revision + 1 /\ activeSlot' = Target
      /\ phase = "verifying" /\ phase' = "running" /\ slots[Target] = NewSlot
  BY DEF SaveSucceeds, flash
<1>2. revision \in Nat /\ activeSlot \in {-1, 0, 1}
  BY DEF IInv, TypeOK
<1>3. NewSlot.revision = revision + 1 /\ NewSlot # Invalid
  BY <1>1, ConfigAssumption DEF IInv, TypeOK, NewSlot
<1>4. CASE activeSlot = -1
  <2>1. Target = 0 /\ ~Valid(1)
    BY <1>1, <1>4 DEF Target, IInv, ActiveIsSettled, NoneIsActive
  <2>2. ActiveIsValid(0)'
    BY <1>1, <1>3, <2>1 DEF ActiveIsValid, Valid
  <2> QED
    BY <1>1, <2>1, <2>2 DEF IInv, OffIsBlank, RevisionsDiffer, ActiveIsSettled, Valid
<1>5. CASE activeSlot = 0
  <2>1. Target = 1 /\ ActiveIsValid(0)
    BY <1>1, <1>5 DEF Target, IInv, ActiveIsSettled
  <2>2. ActiveIsValid(1)'
    BY <1>1, <1>2, <1>3, <2>1 DEF ActiveIsValid, Valid
  <2> QED
    BY <1>1, <2>1, <2>2 DEF IInv, OffIsBlank, RevisionsDiffer, ActiveIsSettled, Valid
<1>6. CASE activeSlot = 1
  <2>1. Target = 0 /\ ActiveIsValid(1)
    BY <1>1, <1>6 DEF Target, IInv, ActiveIsSettled
  <2>2. ActiveIsValid(0)'
    BY <1>1, <1>2, <1>3, <2>1 DEF ActiveIsValid, Valid
  <2> QED
    BY <1>1, <2>1, <2>2 DEF IInv, OffIsBlank, RevisionsDiffer, ActiveIsSettled, Valid
<1> QED
  BY <1>2, <1>4, <1>5, <1>6

LEMMA NextIInv == IInv /\ ~LoadMayFail /\ [Next]_vars => IInv'
<1> SUFFICES ASSUME IInv, ~LoadMayFail, [Next]_vars PROVE IInv'
  OBVIOUS
<1>0. TypeOK'
  BY TypeNext DEF IInv
<1>1. ASSUME NEW i \in {0, 1}, LoadSlot(i) PROVE IInv'
  BY <1>0, <1>1, LoadSlotIInv
<1>2. CASE LoadLegacy \/ LoadNothing
  BY <1>0, <1>2, LoadNoSlotIInv
<1>3. CASE Write
  BY <1>0, <1>3, WriteIInv
<1>4. CASE SaveSucceeds
  BY <1>0, <1>4, SucceedIInv
<1>5. CASE (\E c \in Config : BeginSave(c)) \/ SaveFails
  <2>1. slots' = slots /\ UNCHANGED <<revision, activeSlot, config>>
        /\ phase # "off" /\ phase' # "off"
    BY <1>5 DEF BeginSave, SaveFails, flash
  <2> QED
    BY <1>0, <2>1 DEF IInv, OffIsBlank, RevisionsDiffer, ActiveIsSettled, ActiveIsValid,
                      NoneIsActive, Valid
<1>6. CASE Restart
  BY <1>0, <1>6 DEF Restart, flash, IInv, OffIsBlank, RevisionsDiffer, ActiveIsSettled, Valid
<1>7. CASE UNCHANGED vars
  BY <1>0, <1>7 DEF vars, flash, ram, IInv, OffIsBlank, RevisionsDiffer, ActiveIsSettled,
                    ActiveIsValid, NoneIsActive, Valid
<1> QED
  BY <1>1, <1>2, <1>3, <1>4, <1>5, <1>6, <1>7 DEF Next

(* The invariant holds in every run of a store that opens at each boot: load() *)
(* finds at most one newest slot, and a save() writes over none but the        *)
(* inactive one (ConfigStore.cpp:74-122).                                       *)
THEOREM StoreInvariant == ~LoadMayFail /\ Spec => []IInv
<1>1. Init => IInv
  BY InitIInv
<1>2. IInv /\ ~LoadMayFail /\ [Next]_vars => IInv'
  BY NextIInv
<1>3. CASE ~LoadMayFail
  <2>1. IInv /\ [Next]_vars => IInv'
    BY <1>2, <1>3
  <2> QED
    BY <1>1, <2>1, PTL DEF Spec
<1>4. CASE LoadMayFail
  BY <1>4
<1> QED
  BY <1>3, <1>4

-----------------------------------------------------------------------------
(* The refinement: the two slots are one register. *)

LEMMA DurableIsSelectedNext ==
  ASSUME TypeOK', NEW i \in {0, 1}, IsSelected(i)'
  PROVE  Durable' = slots'[i].config
<1> DEFINE Sel(j) == /\ slots'[j] # Invalid
                     /\ \A m \in {0, 1} \ {j} : slots'[m] # Invalid =>
                          \/ slots'[j].revision > slots'[m].revision
                          \/ slots'[j].revision = slots'[m].revision /\ j = 0
           k == CHOOSE j \in {0, 1} : Sel(j)
<1>1. Sel(i)
  BY DEF IsSelected, Valid
<1>2. k \in {0, 1} /\ Sel(k)
  BY <1>1
<1>3. \A j \in {0, 1} : slots'[j] # Invalid => slots'[j].revision \in Nat
  BY DEF TypeOK, Slot
<1>4. k = i
  <2> HIDE DEF k
  <2> QED
    BY <1>1, <1>2, <1>3
<1>5. Durable' = slots'[k].config
  BY <1>1 DEF Durable, IsSelected, Valid
<1> QED
  BY <1>4, <1>5

LEMMA DurableUnchanged ==
  ASSUME UNCHANGED flash
  PROVE  Durable' = Durable
  BY DEF Durable, IsSelected, Valid, flash

LEMMA LoadRefines ==
  ASSUME IInv, ~LoadMayFail,
         (\E i \in {0, 1} : LoadSlot(i)) \/ LoadLegacy \/ LoadNothing
  PROVE  Register!Boot
<1>1. UNCHANGED flash /\ phase = "off" /\ phase' = "running" /\ UNCHANGED candidate
  BY DEF LoadSlot, LoadLegacy, LoadNothing
<1>2. Durable' = Durable /\ Settled = Durable
  BY <1>1, DurableUnchanged DEF Settled
<1>3. CASE \E i \in {0, 1} : LoadSlot(i)
  <2>1. PICK i \in {0, 1} : LoadSlot(i)
    BY <1>3
  <2>2. Durable = slots[i].config /\ Valid(i)
    BY <2>1, DurableIsSelected DEF LoadSlot, IsSelected, IInv
  <2>3. config' = Durable /\ activeSlot' = i
    BY <2>1, <2>2 DEF LoadSlot
  <2>4. Settled' = Durable
    BY <1>1, <2>2, <2>3 DEF Settled, Valid, flash
  <2> QED
    BY <1>1, <1>2, <2>3, <2>4 DEF Register!Boot
<1>4. CASE LoadLegacy \/ LoadNothing
  <2>1. Durable = legacy
    BY <1>4, DurableIsLegacy DEF LoadLegacy, LoadNothing
  <2>2. config' = Durable
    BY <1>1, <1>4, <2>1 DEF LoadLegacy, LoadNothing, IInv, OffIsBlank
  <2>3. activeSlot' = -1
    BY <1>1, <1>4 DEF LoadLegacy, LoadNothing, IInv, OffIsBlank
  <2>4. Settled' = Durable
    BY <1>1, <2>1, <2>3 DEF Settled, flash
  <2> QED
    BY <1>1, <1>2, <2>2, <2>4 DEF Register!Boot
<1> QED
  BY <1>3, <1>4

(* Writing the target slot: it is selected as it was, unreadable, or new. *)
LEMMA WriteRefines ==
  ASSUME IInv, Write, TypeOK'
  PROVE  [Register!Next]_(Register!registerVars)
<1>1. PICK left \in {slots[Target], NewSlot, Invalid} :
        slots' = [slots EXCEPT ![Target] = left]
  BY DEF Write
<1>2. /\ UNCHANGED <<legacy, revision, activeSlot, config, candidate>>
      /\ phase = "writing" /\ phase' = "verifying"
  BY DEF Write
<1>3. slots \in [{0, 1} -> Slot] /\ revision \in Nat /\ activeSlot \in {-1, 0, 1}
  BY DEF IInv, TypeOK
<1>4. /\ NewSlot.revision = revision + 1 /\ NewSlot.config = candidate
      /\ NewSlot # Invalid /\ candidate # NoConfig
  BY <1>2, ConfigAssumption DEF IInv, TypeOK, NewSlot
<1>5. Target \in {0, 1} /\ Target # activeSlot
  BY <1>3 DEF Target
<1>6. slots'[Target] = left /\ \A j \in {0, 1} : j # Target => slots'[j] = slots[j]
  BY <1>1, <1>3, <1>5
<1>7. Settled' = Settled
  BY <1>2, <1>3, <1>5, <1>6 DEF Settled, Valid
<1>8. CASE left = slots[Target]
  <2>1. slots' = slots
    BY <1>1, <1>3, <1>8
  <2>2. Durable' = Durable
    BY <1>2, <2>1, DurableUnchanged DEF flash
  <2> QED
    BY <1>2, <1>7, <2>2 DEF Register!registerVars
<1>9. CASE left = NewSlot
  <2>1. IsSelected(Target)'
    <3>1. \A j \in {0, 1} \ {Target} : Valid(j) => slots[j].revision = revision
      BY <1>2, <1>3 DEF Target, IInv, ActiveIsSettled, ActiveIsValid, NoneIsActive
    <3>2. \A j \in {0, 1} \ {Target} :
            slots'[j] # Invalid => slots'[Target].revision > slots'[j].revision
      BY <1>3, <1>4, <1>6, <1>9, <3>1 DEF Valid
    <3>3. Target' = Target
      BY <1>2 DEF Target
    <3> QED
      BY <1>4, <1>5, <1>6, <1>9, <3>2, <3>3 DEF IsSelected, Valid
  <2>2. Durable' = candidate
    <3> DEFINE t == Target
    <3>1. t' = t
      BY <1>2 DEF Target
    <3>2. \E i \in {0, 1} : i = Target /\ IsSelected(i)'
      BY <1>5, <2>1, <3>1
    <3> QED
      BY <1>4, <1>6, <1>9, <3>2, DurableIsSelectedNext
  <2> QED
    BY <1>2, <1>4, <1>7, <2>2 DEF Register!TakeEffect, Register!Next
<1>10. CASE left = Invalid
  <2>1. Durable' = Settled
    <3>1. CASE activeSlot = -1
      <4>1. slots'[0] = Invalid /\ slots'[1] = Invalid
        BY <1>2, <1>6, <1>10, <3>1 DEF Target, IInv, ActiveIsSettled, NoneIsActive, Valid
      <4>2. Durable' = legacy'
        BY <4>1 DEF Durable, Valid
      <4> QED
        BY <1>2, <3>1, <4>2 DEF Settled
    <3>2. CASE activeSlot # -1
      <4>1. PICK i \in {0, 1} : activeSlot = i
        BY <1>3, <3>2
      <4>2. Valid(i) /\ Target = 1 - i
        BY <1>2, <4>1 DEF Target, IInv, ActiveIsSettled, ActiveIsValid
      <4>3. slots'[i] = slots[i] /\ slots'[1 - i] = Invalid
        BY <1>5, <1>6, <1>10, <4>1, <4>2
      <4>4. IsSelected(i)'
        BY <4>2, <4>3 DEF IsSelected, Valid
      <4>5. Durable' = slots[i].config
        BY <4>3, <4>4, DurableIsSelectedNext
      <4> QED
        BY <1>2, <4>1, <4>2, <4>5 DEF Settled
    <3> QED
      BY <3>1, <3>2
  <2> QED
    BY <1>2, <1>4, <1>7, <2>1 DEF Register!TakeEffect, Register!Next
<1> QED
  BY <1>1, <1>8, <1>9, <1>10

LEMMA SucceedRefines ==
  ASSUME IInv, SaveSucceeds
  PROVE  Register!Succeed
<1>1. /\ UNCHANGED flash /\ slots[Target] = NewSlot /\ activeSlot' = Target
      /\ phase = "verifying" /\ phase' = "running"
      /\ candidate' = NoConfig /\ config' = config
  BY DEF SaveSucceeds
<1>2. revision \in Nat /\ activeSlot \in {-1, 0, 1} /\ Target \in {0, 1}
  BY DEF IInv, TypeOK, Target
<1>3. NewSlot.revision = revision + 1 /\ NewSlot.config = candidate /\ NewSlot # Invalid
  BY <1>1, ConfigAssumption DEF IInv, TypeOK, NewSlot
<1>4. \A j \in {0, 1} \ {Target} : Valid(j) => slots[j].revision = revision
  BY <1>1, <1>2 DEF Target, IInv, ActiveIsSettled, ActiveIsValid, NoneIsActive
<1>5. IsSelected(Target)
  BY <1>1, <1>2, <1>3, <1>4 DEF IsSelected, Valid
<1>6. Durable = candidate
  BY <1>1, <1>2, <1>3, <1>5, DurableIsSelected DEF IInv
<1>7. Durable' = Durable
  BY <1>1, DurableUnchanged
<1>8. Settled' = candidate
  BY <1>1, <1>2, <1>3 DEF Settled, Valid, flash
<1> QED
  BY <1>1, <1>6, <1>7, <1>8 DEF Register!Succeed

(* Where flash, activeSlot_ and "off" stay, both ends of the register stay. *)
LEMMA SettledUnchanged ==
  ASSUME UNCHANGED <<flash, activeSlot>>, phase # "off", phase' # "off"
  PROVE  Durable' = Durable /\ Settled' = Settled
<1>1. Durable' = Durable
  BY DurableUnchanged
<1> QED
  BY <1>1 DEF Settled, Valid, flash

LEMMA StepRefines ==
  ASSUME IInv, ~LoadMayFail, [Next]_vars
  PROVE  [Register!Next]_(Register!registerVars)
<1>1. CASE (\E i \in {0, 1} : LoadSlot(i)) \/ LoadLegacy \/ LoadNothing
  BY <1>1, LoadRefines DEF Register!Next
<1>2. ASSUME NEW c \in Config, BeginSave(c) PROVE Register!Next
  <2>1. UNCHANGED <<flash, activeSlot>> /\ phase # "off" /\ phase' # "off"
    BY <1>2 DEF BeginSave
  <2>2. candidate = NoConfig
    BY <1>2 DEF BeginSave, IInv, TypeOK
  <2>3. Register!Begin(c)
    BY <1>2, <2>1, <2>2, SettledUnchanged DEF BeginSave, Register!Begin
  <2> QED
    BY <2>3 DEF Register!Next
<1>3. CASE Write
  BY <1>3, TypeNext, WriteRefines DEF IInv
<1>4. CASE SaveSucceeds
  BY <1>4, SucceedRefines DEF Register!Next
<1>5. CASE SaveFails
  <2>1. UNCHANGED <<flash, activeSlot>> /\ phase # "off" /\ phase' # "off"
    BY <1>5 DEF SaveFails
  <2>2. candidate # NoConfig
    BY <1>5 DEF SaveFails, IInv, TypeOK
  <2>3. Register!Fail
    BY <1>5, <2>1, <2>2, SettledUnchanged DEF SaveFails, Register!Fail
  <2> QED
    BY <2>3 DEF Register!Next
<1>6. CASE Restart
  <2>1. Durable' = Durable
    BY <1>6, DurableUnchanged DEF Restart
  <2>2. Settled' = Durable'
    BY <1>6 DEF Restart, Settled
  <2>3. Register!Restart
    BY <1>6, <2>1, <2>2 DEF Restart, Register!Restart
  <2> QED
    BY <2>3 DEF Register!Next
<1>7. CASE UNCHANGED vars
  <2>1. Durable' = Durable
    BY <1>7, DurableUnchanged DEF vars
  <2>2. Settled' = Settled
    BY <1>7, <2>1 DEF vars, flash, ram, Settled, Valid
  <2> QED
    BY <1>7, <2>1, <2>2 DEF vars, ram, Register!registerVars
<1> QED
  BY <1>1, <1>2, <1>3, <1>4, <1>5, <1>6, <1>7 DEF Next

(* For every set of configurations, any number of saves and power lost between *)
(* any two steps, load() and save() behave as one atomic durable register, if  *)
(* the store can be opened at each boot (ConfigStore.cpp:74-122).                 *)
THEOREM StoreImplementsRegister == ~LoadMayFail /\ Spec => ImplementsRegister
<1>1. Init => Register!Init
  <2> SUFFICES ASSUME Init PROVE Register!Init
    OBVIOUS
  <2>1. Durable \in Config \cup {NoConfig}
    BY TypeInit, DurableTyped
  <2> QED
    BY <2>1 DEF Init, Register!Init, Settled
<1>2. CASE ~LoadMayFail
  <2>1. IInv /\ [Next]_vars => [Register!Next]_(Register!registerVars)
    BY <1>2, StepRefines
  <2>2. Spec => []IInv
    BY <1>2, StoreInvariant
  <2> QED
    BY <1>1, <2>1, <2>2, PTL DEF Spec, ImplementsRegister, Register!Spec
<1>3. CASE LoadMayFail
  BY <1>3
<1> QED
  BY <1>2, <1>3

-----------------------------------------------------------------------------
(* The steps of the portal in which the store takes no part.                 *)
FormStep ==
  \/ BootNormal
  \/ \E softAp \in BOOLEAN : BootSetup(softAp)
  \/ \E faults \in SUBSET Fault : Submit(faults)
  \/ ShapeWrong \/ ShapeRight \/ WifiJoins \/ WifiFails \/ TapoReads \/ TapoFails
  \/ DysonReports \/ DysonReads \/ DysonFails
  \/ Counting

StoreStep ==
  \/ Load \/ StartSave \/ WriteSlot \/ SaveRefused \/ SaveAccepted \/ UseCandidate
  \/ Restarts

LEMMA StepKinds == PortalNext => FormStep \/ StoreStep
  BY DEF PortalNext, Firmware, FormStep, StoreStep, RestartAfterSave, PowerCycle, PortalTick,
         TimesOut

LEMMA FormStepKeepsStore == FormStep => UNCHANGED vars
  BY DEF FormStep, BootNormal, BootSetup, Submit, Reject, Passes, ShapeWrong, ShapeRight,
         WifiJoins, WifiFails, TapoReads, TapoFails, DysonReports, DysonReads, DysonFails,
         Counting

-----------------------------------------------------------------------------
(* The inductive invariant of what is stored. *)

Checked == {"save", "saved", "restart"}

(* A form that is past a check does not have the fault it looks for.         *)
FormFits ==
  /\ step # "idle" => form \in SUBSET Fault
  /\ step \notin {"idle", "shape"} => "shape" \notin form
  /\ step \in {"tapo", "dyson"} \cup Checked => "wifi" \notin form
  /\ step \in {"dyson"} \cup Checked => "tapo" \notin form
  /\ step \in Checked => "credential" \notin form

(* What save() is writing is the form that is being handled.                 *)
CandidateIsForm == candidate # NoConfig => candidate = Submitted

(* No configuration in flash or in use has a fault but the product type.     *)
Right(c) == c.faults \subseteq {"type"}
RightEverywhere ==
  /\ \A i \in {0, 1} : Valid(i) => Right(slots[i].config)
  /\ legacy # NoConfig => Right(legacy)
  /\ config # NoConfig => Right(config)

(* A program that is running has loaded its configuration.                   *)
LoadedWhenUp == mode # "boot" => phase # "off"

PortalInv == PortalTypeOK /\ FormFits /\ CandidateIsForm /\ RightEverywhere /\ LoadedWhenUp

LEMMA SubmittedTyped ==
  ASSUME PortalInv, step \in Checked
  PROVE  Submitted \in Config /\ Right(Submitted)
<1>1. form \in SUBSET (Fault \ {"shape"}) /\ form \subseteq {"type"}
  BY DEF PortalInv, FormFits, Checked, Fault
<1>2. heard \in BOOLEAN
  BY DEF PortalInv, PortalTypeOK
<1> QED
  BY <1>1, <1>2, PortalAssumption DEF Submitted, Configuration, Right

LEMMA PortalInvInit == PortalInit => PortalInv
<1> SUFFICES ASSUME PortalInit PROVE PortalInv
  OBVIOUS
<1>1. TypeOK
  BY TypeInit DEF PortalInit
<1>2. phase = "off" /\ config = NoConfig /\ candidate = NoConfig
      /\ ~Valid(0) /\ ~Valid(1) /\ (legacy # NoConfig => legacy.faults = {})
  BY DEF PortalInit, Init, Valid
<1>3. 0 \in 0..PortalTimeout /\ 0 \in 0..MaxSubmits /\ 0 \in 0..MaxBoots
  BY PortalAssumption, ConfigAssumption
<1>4. PortalTypeOK
  BY <1>1, <1>2, <1>3 DEF PortalInit, PortalTypeOK
<1> QED
  BY <1>2, <1>4 DEF PortalInit, PortalInv, FormFits, Checked, CandidateIsForm,
                    RightEverywhere, Right, LoadedWhenUp

LEMMA StoreUntouched ==
  ASSUME PortalInv, UNCHANGED vars
  PROVE  /\ TypeOK' /\ RightEverywhere'
         /\ UNCHANGED <<phase, candidate>>
<1>1. UNCHANGED <<slots, legacy, revision, activeSlot, config, phase, candidate, saves>>
  BY DEF vars, flash, ram
<1> QED
  BY <1>1 DEF PortalInv, PortalTypeOK, TypeOK, RightEverywhere, Valid, Right

LEMMA PassesKeepsInv ==
  ASSUME PortalInv, NEW s \in {"shape", "wifi", "tapo", "dyson"},
         NEW t \in {"wifi", "tapo", "dyson", "save"}, Passes(s, t), FormFits'
  PROVE  PortalInv'
<1>1. /\ TypeOK' /\ RightEverywhere' /\ UNCHANGED <<phase, candidate>>
      /\ step = s /\ step' = t /\ UNCHANGED <<bootVars, form, heard, reported, submits>>
  BY StoreUntouched DEF Passes
<1>2. phase \notin {"writing", "verifying"} /\ candidate = NoConfig
  BY <1>1 DEF PortalInv, PortalTypeOK, TypeOK
<1> QED
  BY <1>1, <1>2 DEF PortalInv, PortalTypeOK, bootVars, CandidateIsForm, LoadedWhenUp

LEMMA RejectKeepsInv ==
  ASSUME PortalInv, NEW s \in {"shape", "wifi", "tapo", "dyson"}, Reject(s)
  PROVE  PortalInv'
<1>1. /\ TypeOK' /\ RightEverywhere' /\ UNCHANGED <<phase, candidate>>
      /\ step = s /\ step' = "idle" /\ form' = NoForm
      /\ UNCHANGED <<bootVars, heard, reported, submits>>
  BY StoreUntouched DEF Reject, Refuse
<1>2. phase \notin {"writing", "verifying"} /\ candidate = NoConfig
  BY <1>1 DEF PortalInv, PortalTypeOK, TypeOK
<1> QED
  BY <1>1, <1>2 DEF PortalInv, PortalTypeOK, bootVars, FormFits, Checked, CandidateIsForm,
                    LoadedWhenUp

LEMMA BootKeepsInv ==
  ASSUME PortalInv, BootNormal \/ \E softAp \in BOOLEAN : BootSetup(softAp)
  PROVE  PortalInv'
<1>1. TypeOK' /\ RightEverywhere' /\ UNCHANGED <<phase, candidate>>
  BY StoreUntouched DEF BootNormal, BootSetup
<1>2. /\ mode = "boot" /\ phase = "running" /\ UNCHANGED <<boots, formVars>>
      /\ mode' \in {"setup", "normal"} /\ portal' \in BOOLEAN /\ elapsed' \in {elapsed, 0}
  BY DEF BootNormal, BootSetup, PortalInv, PortalTypeOK
<1>3. step = "idle" /\ candidate = NoConfig
  BY <1>2 DEF PortalInv, PortalTypeOK, TypeOK
<1> QED
  BY <1>1, <1>2, <1>3, PortalAssumption
     DEF PortalInv, PortalTypeOK, formVars, FormFits, Checked, CandidateIsForm, LoadedWhenUp

LEMMA SubmitKeepsInv ==
  ASSUME PortalInv, NEW faults \in SUBSET Fault, Submit(faults)
  PROVE  PortalInv'
<1>1. TypeOK' /\ RightEverywhere' /\ UNCHANGED <<phase, candidate>>
  BY StoreUntouched DEF Submit
<1>2. /\ mode = "setup" /\ portal /\ step = "idle" /\ submits < MaxSubmits
      /\ submits' = submits + 1 /\ form' = faults /\ heard' = FALSE /\ step' = "shape"
      /\ UNCHANGED <<bootVars, reported>>
  BY DEF Submit
<1>3. candidate = NoConfig /\ phase \notin {"writing", "verifying"}
  BY <1>2 DEF PortalInv, PortalTypeOK, TypeOK
<1>4. submits' \in 0..MaxSubmits
  BY <1>2, PortalAssumption, ConfigAssumption DEF PortalInv, PortalTypeOK
<1> QED
  BY <1>1, <1>2, <1>3, <1>4
     DEF PortalInv, PortalTypeOK, bootVars, FormFits, Checked, CandidateIsForm, LoadedWhenUp

LEMMA WaitKeepsInv ==
  ASSUME PortalInv, DysonReports \/ Counting
  PROVE  PortalInv'
<1>1. TypeOK' /\ RightEverywhere' /\ UNCHANGED <<phase, candidate>>
  BY StoreUntouched DEF DysonReports, Counting
<1>2. /\ step \in {"dyson", "idle"} /\ UNCHANGED <<mode, portal, boots, step, form, submits>>
      /\ reported' \in {reported, TRUE} /\ heard' \in {heard, TRUE}
  BY DEF DysonReports, Counting, bootVars, formVars
<1>3. elapsed' \in 0..PortalTimeout
  BY PortalAssumption DEF DysonReports, Counting, bootVars, PortalInv, PortalTypeOK
<1>4. candidate = NoConfig /\ phase \notin {"writing", "verifying"}
  BY <1>2 DEF PortalInv, PortalTypeOK, TypeOK
<1> QED
  BY <1>1, <1>2, <1>3, <1>4
     DEF PortalInv, PortalTypeOK, FormFits, Checked, CandidateIsForm, LoadedWhenUp

(* Each check that is passed adds what FormFits says of the next one.        *)
LEMMA FormStepKeepsInv ==
  ASSUME PortalInv, FormStep
  PROVE  PortalInv'
<1>1. CASE ShapeRight
  <2>1. FormFits'
    BY <1>1 DEF ShapeRight, Passes, PortalInv, PortalTypeOK, FormFits, Checked, Fault, NoForm
  <2> QED
    BY <1>1, <2>1, PassesKeepsInv DEF ShapeRight
<1>2. CASE WifiJoins
  <2>1. FormFits'
    BY <1>2 DEF WifiJoins, Passes, PortalInv, FormFits, Checked
  <2> QED
    BY <1>2, <2>1, PassesKeepsInv DEF WifiJoins
<1>3. CASE TapoReads
  <2>1. FormFits'
    BY <1>3 DEF TapoReads, Passes, PortalInv, FormFits, Checked
  <2> QED
    BY <1>3, <2>1, PassesKeepsInv DEF TapoReads
<1>4. CASE DysonReads
  <2>1. FormFits'
    BY <1>4 DEF DysonReads, Passes, PortalInv, FormFits, Checked
  <2> QED
    BY <1>4, <2>1, PassesKeepsInv DEF DysonReads
<1>5. CASE ShapeWrong \/ WifiFails \/ TapoFails \/ DysonFails
  BY <1>5, RejectKeepsInv DEF ShapeWrong, WifiFails, TapoFails, DysonFails
<1> QED
  BY <1>1, <1>2, <1>3, <1>4, <1>5, BootKeepsInv, SubmitKeepsInv, WaitKeepsInv DEF FormStep

(* Which step of the store a step of the portal is. *)
LEMMA StoreStepIsNext ==
  ASSUME PortalInv, StoreStep
  PROVE  Next \/ UseCandidate
<1>1. CASE StartSave
  BY <1>1, SubmittedTyped DEF StartSave, Checked, Next
<1>2. CASE Load \/ WriteSlot \/ SaveRefused \/ SaveAccepted \/ Restarts
  BY <1>2 DEF Load, WriteSlot, SaveRefused, SaveAccepted, Restarts, Next
<1> QED
  BY <1>1, <1>2 DEF StoreStep

LEMMA StoreStepKeepsType ==
  ASSUME PortalInv, StoreStep
  PROVE  TypeOK'
<1>1. CASE Next
  BY <1>1, TypeNext DEF PortalInv, PortalTypeOK
<1>2. CASE UseCandidate
  <2>1. Submitted \in Config
    BY <1>2, SubmittedTyped DEF UseCandidate, Checked
  <2> QED
    BY <1>2, <2>1 DEF UseCandidate, flash, PortalInv, PortalTypeOK, TypeOK
<1> QED
  BY <1>1, <1>2, StoreStepIsNext

LEMMA StoreStepKeepsRight ==
  ASSUME PortalInv, StoreStep
  PROVE  RightEverywhere'
<1> USE DEF PortalInv
<1>1. CASE Load
  BY <1>1, ValidIsStored DEF Load, LoadSlot, LoadLegacy, LoadNothing, IsSelected, flash,
     RightEverywhere, Right, Valid, PortalTypeOK
<1>2. CASE StartSave \/ SaveRefused \/ SaveAccepted
  BY <1>2 DEF StartSave, BeginSave, SaveRefused, SaveFails, SaveAccepted, SaveSucceeds, flash,
     RightEverywhere, Right, Valid
<1>3. CASE WriteSlot
  <2>1. PICK left \in {slots[Target], NewSlot, Invalid} :
          slots' = [slots EXCEPT ![Target] = left]
    BY <1>3 DEF WriteSlot, Write
  <2>2. UNCHANGED <<legacy, config>> /\ phase = "writing" /\ step = "save"
    BY <1>3 DEF WriteSlot, Write, PortalTypeOK
  <2>3. candidate = Submitted
    BY <2>2 DEF PortalTypeOK, TypeOK, CandidateIsForm
  <2>4. Right(NewSlot.config)
    BY <2>2, <2>3, SubmittedTyped DEF NewSlot, Checked
  <2>5. Target \in {0, 1} /\ slots \in [{0, 1} -> Slot]
    BY DEF Target, PortalTypeOK, TypeOK
  <2>6. \A i \in {0, 1} : slots'[i] # Invalid => Right(slots'[i].config)
    BY <2>1, <2>4, <2>5 DEF RightEverywhere, Valid
  <2> QED
    BY <2>2, <2>6 DEF RightEverywhere, Right, Valid
<1>4. CASE UseCandidate
  <2>1. Right(Submitted)
    BY <1>4, SubmittedTyped DEF UseCandidate, Checked
  <2> QED
    BY <1>4, <2>1 DEF UseCandidate, flash, RightEverywhere, Right, Valid
<1>5. CASE Restarts
  BY <1>5 DEF Restarts, Restart, flash, RightEverywhere, Right, Valid
<1> QED
  BY <1>1, <1>2, <1>3, <1>4, <1>5 DEF StoreStep

LEMMA StoreStepKeepsInv ==
  ASSUME PortalInv, StoreStep
  PROVE  PortalInv'
<1> USE DEF PortalInv
<1>1. TypeOK' /\ RightEverywhere'
  BY StoreStepKeepsType, StoreStepKeepsRight
<1>2. CASE Load
  <2>1. mode = "boot" /\ step = "idle" /\ phase' = "running" /\ UNCHANGED portalVars
    BY <1>2 DEF Load, LoadSlot, LoadLegacy, LoadNothing, PortalTypeOK
  <2> QED
    BY <1>1, <2>1 DEF portalVars, bootVars, formVars, PortalTypeOK, TypeOK, FormFits,
                      CandidateIsForm, Checked, LoadedWhenUp
<1>3. CASE StartSave
  <2>1. step = "save" /\ candidate' = Submitted /\ phase' = "writing" /\ UNCHANGED portalVars
    BY <1>3 DEF StartSave, BeginSave
  <2>2. Submitted' = Submitted
    BY <2>1 DEF portalVars, formVars, Submitted
  <2> QED
    BY <1>1, <2>1, <2>2 DEF portalVars, bootVars, formVars, PortalTypeOK, FormFits, Checked,
                            CandidateIsForm, LoadedWhenUp
<1>4. CASE WriteSlot
  <2>1. /\ step = "save" /\ candidate' = candidate /\ phase' = "verifying"
        /\ UNCHANGED portalVars
    BY <1>4 DEF WriteSlot, Write, PortalTypeOK
  <2>2. Submitted' = Submitted
    BY <2>1 DEF portalVars, formVars, Submitted
  <2> QED
    BY <1>1, <2>1, <2>2 DEF portalVars, bootVars, formVars, PortalTypeOK, FormFits, Checked,
                            CandidateIsForm, LoadedWhenUp
<1>5. CASE SaveRefused
  <2>1. candidate' = NoConfig /\ phase' = "running" /\ step' = "idle" /\ form' = NoForm
        /\ UNCHANGED <<bootVars, heard, reported, submits>>
    BY <1>5 DEF SaveRefused, SaveFails, Refuse
  <2> QED
    BY <1>1, <2>1 DEF bootVars, PortalTypeOK, FormFits, Checked, CandidateIsForm, LoadedWhenUp
<1>6. CASE SaveAccepted
  <2>1. /\ phase = "verifying" /\ candidate' = NoConfig /\ phase' = "running"
        /\ step' = "saved" /\ UNCHANGED <<bootVars, form, heard, reported, submits>>
    BY <1>6 DEF SaveAccepted, SaveSucceeds
  <2>2. step = "save"
    BY <2>1 DEF PortalTypeOK
  <2> QED
    BY <1>1, <2>1, <2>2 DEF bootVars, PortalTypeOK, FormFits, Checked, CandidateIsForm,
                            LoadedWhenUp
<1>7. CASE UseCandidate
  <2>1. /\ step = "saved" /\ step' = "restart" /\ UNCHANGED <<candidate, phase, bootVars>>
        /\ UNCHANGED <<form, heard, reported, submits>>
    BY <1>7 DEF UseCandidate
  <2>2. candidate = NoConfig
    BY <2>1 DEF PortalTypeOK, TypeOK
  <2> QED
    BY <1>1, <2>1, <2>2 DEF bootVars, PortalTypeOK, FormFits, Checked, CandidateIsForm,
                            LoadedWhenUp
<1>8. CASE Restarts
  <2>1. /\ candidate' = NoConfig /\ phase' = "off" /\ step' = "idle" /\ form' = NoForm
        /\ mode' = "boot" /\ portal' = FALSE /\ reported' = FALSE
        /\ boots < MaxBoots /\ boots' = boots + 1
        /\ UNCHANGED <<elapsed, heard, submits>>
    BY <1>8 DEF Restarts, Restart
  <2>2. boots' \in 0..MaxBoots
    BY <2>1, PortalAssumption DEF PortalTypeOK
  <2>3. {reported', heard'} \subseteq BOOLEAN
    BY <2>1 DEF PortalTypeOK
  <2>4. PortalTypeOK'
    BY <1>1, <2>1, <2>2, <2>3 DEF PortalTypeOK
  <2> QED
    BY <1>1, <2>1, <2>4 DEF FormFits, Checked, CandidateIsForm, LoadedWhenUp
<1> QED
  BY <1>2, <1>3, <1>4, <1>5, <1>6, <1>7, <1>8 DEF StoreStep

LEMMA PortalInvNext == PortalInv /\ [PortalNext]_setupVars => PortalInv'
<1> SUFFICES ASSUME PortalInv, [PortalNext]_setupVars PROVE PortalInv'
  OBVIOUS
<1>1. CASE PortalNext
  BY <1>1, StepKinds, FormStepKeepsInv, StoreStepKeepsInv
<1>2. CASE UNCHANGED setupVars
  BY <1>2 DEF setupVars, vars, flash, ram, portalVars, bootVars, formVars, PortalInv,
     PortalTypeOK, TypeOK, FormFits, Checked, CandidateIsForm, Submitted, RightEverywhere,
     Valid, Right, LoadedWhenUp
<1> QED
  BY <1>1, <1>2

LEMMA DurableRight ==
  ASSUME PortalInv, Durable # NoConfig
  PROVE  Right(Durable)
<1>1. TypeOK
  BY DEF PortalInv, PortalTypeOK
<1>2. CASE Valid(0) \/ Valid(1)
  <2>1. PICK i \in {0, 1} : IsSelected(i)
    BY <1>1, <1>2, SomeSelected
  <2>2. Durable = slots[i].config /\ Valid(i)
    BY <1>1, <2>1, DurableIsSelected DEF IsSelected
  <2> QED
    BY <2>2 DEF PortalInv, RightEverywhere
<1>3. CASE ~(Valid(0) \/ Valid(1))
  BY <1>3, DurableIsLegacy DEF PortalInv, RightEverywhere
<1> QED
  BY <1>2, <1>3

LEMMA PortalInvariant == PortalSpec => []PortalInv
  BY PortalInvInit, PortalInvNext, PTL DEF PortalSpec

(* Whatever is submitted, a form is handled only while the portal is up, and *)
(* the store is written only on its behalf (SetupPortal.cpp:40-100).           *)
THEOREM PortalTypeCorrect == PortalSpec => []PortalTypeOK
<1>1. PortalInv => PortalTypeOK
  BY DEF PortalInv
<1> QED
  BY <1>1, PortalInvariant, PTL

(* No sequence of submissions, torn writes, restarts and power losses, even  *)
(* with a store that cannot be opened at some boots, brings a wrong Tapo      *)
(* account or Dyson credential into the store or into use                    *)
(* (main.cpp:777-799, SetupPortal.cpp:40-83).                                  *)
THEOREM WrongSecretsAreNeverStored == PortalSpec => []StoredHasNoWrongSecret
<1>1. PortalInv => StoredHasNoWrongSecret
  BY DurableRight DEF StoredHasNoWrongSecret, PortalInv, RightEverywhere, Right
<1> QED
  BY <1>1, PortalInvariant, PTL

-----------------------------------------------------------------------------
(* The store is one register with the portal as its caller. *)

(* When the portal takes the candidate into use, it is what is stored.       *)
SavedIsStored == step = "saved" => Durable = Submitted /\ Settled = Submitted

StoreInv == PortalInv /\ IInv /\ SavedIsStored

LEMMA UseCandidateKeepsIInv ==
  ASSUME IInv, PortalInv, UseCandidate
  PROVE  IInv'
<1>1. TypeOK'
  BY StoreStepKeepsType DEF StoreStep
<1>2. phase # "off" /\ UNCHANGED <<slots, revision, activeSlot, phase>>
  BY DEF UseCandidate, flash, PortalInv, PortalTypeOK, LoadedWhenUp
<1> QED
  BY <1>1, <1>2 DEF IInv, OffIsBlank, RevisionsDiffer, ActiveIsSettled, ActiveIsValid,
                    NoneIsActive, Valid

LEMMA SavedNext ==
  ASSUME StoreInv, PortalNext
  PROVE  SavedIsStored'
<1> SUFFICES ASSUME step' = "saved"
             PROVE  Durable' = Submitted' /\ Settled' = Submitted'
  BY DEF SavedIsStored
<1>1. SaveAccepted
  BY StepKinds DEF FormStep, StoreStep, BootNormal, BootSetup, Submit, Reject, Refuse, Passes,
     ShapeWrong, ShapeRight, WifiJoins, WifiFails, TapoReads, TapoFails, DysonReports,
     DysonReads, DysonFails, Counting, Load, StartSave, WriteSlot, SaveRefused, UseCandidate,
     Restarts, portalVars, formVars, StoreInv, PortalInv, PortalTypeOK, BeginSave, Write
<1>2. candidate = Submitted /\ Submitted' = Submitted
  BY <1>1 DEF SaveAccepted, SaveSucceeds, Submitted, StoreInv, PortalInv, CandidateIsForm, IInv,
              TypeOK
<1>3. Register!Succeed
  BY <1>1, SucceedRefines DEF SaveAccepted, StoreInv
<1> QED
  BY <1>2, <1>3 DEF Register!Succeed

LEMMA StoreInvNext ==
  ASSUME ~LoadMayFail
  PROVE  StoreInv /\ [PortalNext]_setupVars => StoreInv'
<1> SUFFICES ASSUME StoreInv, [PortalNext]_setupVars PROVE StoreInv'
  OBVIOUS
<1>1. PortalInv'
  BY PortalInvNext DEF StoreInv
<1>2. CASE PortalNext
  <2>1. ASSUME UseCandidate PROVE IInv'
    BY <2>1, UseCandidateKeepsIInv DEF StoreInv
  <2>2. ASSUME [Next]_vars PROVE IInv'
    BY <2>2, NextIInv DEF StoreInv
  <2>3. IInv'
    BY <1>2, <2>1, <2>2, StepKinds, FormStepKeepsStore, StoreStepIsNext DEF StoreInv
  <2> QED
    BY <1>1, <1>2, <2>3, SavedNext DEF StoreInv
<1>3. CASE UNCHANGED setupVars
  <2>1. UNCHANGED vars /\ UNCHANGED <<step, form, heard>>
    BY <1>3 DEF setupVars, portalVars, formVars
  <2>2. IInv'
    BY <2>1, NextIInv DEF StoreInv
  <2>3. Durable' = Durable /\ Settled' = Settled /\ Submitted' = Submitted
    <3>1. Durable' = Durable
      BY <2>1, DurableUnchanged DEF vars
    <3> QED
      BY <2>1, <3>1 DEF vars, flash, ram, Settled, Valid, Submitted
  <2> QED
    BY <1>1, <2>1, <2>2, <2>3 DEF StoreInv, SavedIsStored
<1> QED
  BY <1>2, <1>3

LEMMA PortalStepRefines ==
  ASSUME ~LoadMayFail, StoreInv, [PortalNext]_setupVars
  PROVE  [Register!Next]_(Register!registerVars)
<1>1. CASE UseCandidate
  <2>1. /\ step = "saved" /\ config' = Submitted /\ phase # "off" /\ phase' = phase
        /\ UNCHANGED <<flash, activeSlot, candidate>>
    BY <1>1 DEF UseCandidate, StoreInv, PortalInv, PortalTypeOK, LoadedWhenUp
  <2>2. Durable = Submitted /\ Settled = Submitted
    BY <2>1 DEF StoreInv, SavedIsStored
  <2>3. Durable' = Durable /\ Settled' = Settled
    BY <2>1, SettledUnchanged
  <2> QED
    BY <2>1, <2>2, <2>3 DEF Register!Boot, Register!Next
<1>2. CASE [Next]_vars
  BY <1>2, StepRefines DEF StoreInv
<1>3. UseCandidate \/ [Next]_vars
  BY StepKinds, FormStepKeepsStore, StoreStepIsNext DEF StoreInv, setupVars
<1> QED
  BY <1>1, <1>2, <1>3

LEMMA StoreInvInit == PortalInit => StoreInv
<1> SUFFICES ASSUME PortalInit PROVE StoreInv
  OBVIOUS
<1>1. PortalInv /\ Init
  BY PortalInvInit DEF PortalInit
<1>2. IInv /\ step = "idle"
  BY <1>1, InitIInv DEF PortalInit
<1> QED
  BY <1>1, <1>2 DEF StoreInv, SavedIsStored

(* Whatever forms are saved, refused, torn or cut off, the slots never tie,    *)
(* and the active one is valid and holds revision_ (ConfigStore.cpp:84, 106,  *)
(* 112), if the store can be opened at each boot.                             *)
THEOREM PortalAlwaysInOrder == ~LoadMayFail /\ PortalSpec => []PortalInOrder
<1>1. StoreInv => PortalInOrder
  BY DEF StoreInv, PortalInv, IInv, PortalInOrder
<1>2. CASE ~LoadMayFail
  <2>1. StoreInv /\ [PortalNext]_setupVars => StoreInv'
    BY <1>2, StoreInvNext
  <2> QED
    BY <1>1, <2>1, StoreInvInit, PTL DEF PortalSpec
<1>3. CASE LoadMayFail
  BY <1>3
<1> QED
  BY <1>2, <1>3

(* With forms that are saved, saves that fail or are cut off, restarts and   *)
(* the candidate taken into use, the store is one atomic durable register     *)
(* for the next boot, if it can be opened at each (SetupPortal.cpp:66-83).     *)
THEOREM PortalImplementsRegister == ~LoadMayFail /\ PortalSpec => ImplementsRegister
<1>1. PortalInit => StoreInv /\ Register!Init
  <2> SUFFICES ASSUME PortalInit PROVE StoreInv /\ Register!Init
    OBVIOUS
  <2>1. StoreInv /\ Init
    BY StoreInvInit DEF PortalInit
  <2>2. Durable \in Config \cup {NoConfig}
    BY <2>1, TypeInit, DurableTyped
  <2> QED
    BY <2>1, <2>2 DEF Init, Register!Init, Settled
<1>2. CASE ~LoadMayFail
  <2>1. StoreInv /\ [PortalNext]_setupVars => StoreInv'
    BY <1>2, StoreInvNext
  <2>2. StoreInv /\ [PortalNext]_setupVars => [Register!Next]_(Register!registerVars)
    BY <1>2, PortalStepRefines
  <2> QED
    BY <1>1, <2>1, <2>2, PTL DEF PortalSpec, ImplementsRegister, Register!Spec
<1>3. CASE LoadMayFail
  BY <1>3
<1> QED
  BY <1>2, <1>3
=============================================================================
