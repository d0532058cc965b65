---------------------- MODULE CommandLifecycle_proofs -----------------------
(***************************************************************************)
(* Proofs about CommandDispatcher for every capacity, every set of devices   *)
(* and kinds and every number of presses, and then about CommandLifecycle    *)
(* for every capacity of the table, the pending slots, the buffers and the   *)
(* queue, any number of presses and any deadline.                            *)
(***************************************************************************)
EXTENDS CommandLifecycle, FiniteSetTheorems, TLAPS

(* Sequence numbers and ids are handed out in the same order, so comparing  *)
(* sequences, as the code does, compares presses.                            *)
PressOrder ==
  \A s, t \in Used : s # t =>
    \/ /\ entries[s].sequence < entries[t].sequence
       /\ entries[s].command.id < entries[t].command.id
    \/ /\ entries[t].sequence < entries[s].sequence
       /\ entries[t].command.id < entries[s].command.id

(* Both counters are ahead of everything in the table. *)
CountersAhead ==
  /\ nextSequence <= nextCommandId
  /\ \A s \in Used : /\ entries[s].sequence < nextSequence
                     /\ entries[s].command.id < nextCommandId

(* What waits is newer than what is being executed for the same property. *)
WaitingIsNewer ==
  \A s \in In("Queued"), t \in In("Inflight") :
    /\ Coalescable(entries[s].command)
    /\ SameProperty(entries[s].command, entries[t].command)
    => entries[t].sequence < entries[s].sequence

(* A property with anything unfinished still holds its newest press. *)
NewestIsHeld ==
  \A s \in Used : Coalescable(entries[s].command) =>
    \E t \in Used :
      /\ SameProperty(entries[s].command, entries[t].command)
      /\ entries[t].command.id =
           newest[PropertyOf(entries[s].command)]
      /\ entries[s].command.id <= entries[t].command.id

IInv ==
  /\ TypeOK
  /\ OneWaitingOneActive
  /\ PressOrder
  /\ CountersAhead
  /\ WaitingIsNewer
  /\ NewestIsHeld


(* A used slot holds a well-typed command and sequence. *)
LEMMA UsedEntry ==
  ASSUME TypeOK, NEW s \in Used
  PROVE  /\ s \in Slots
         /\ entries[s].state \in {"Queued", "Inflight"}
         /\ entries[s].command \in Command
         /\ entries[s].command.device \in Device
         /\ entries[s].command.kind \in Kind
         /\ entries[s].command.id \in 1..MaxPresses
         /\ entries[s].sequence \in 1..MaxPresses
BY DEF TypeOK, Used, None, Occupied, Command

(* The empty table satisfies the invariant. *)
LEMMA InitIInv == Init => IInv
<1> SUFFICES ASSUME Init PROVE IInv
  OBVIOUS
<1>1. Used = {} /\ In("Queued") = {}
  BY DEF Init, Used, In, None
<1>2. TypeOK
  BY MaxPressesAssumption DEF Init, TypeOK, Slots, None
<1> QED
  BY <1>1, <1>2 DEF IInv, OneWaitingOneActive, PressOrder, CountersAhead,
     WaitingIsNewer, NewestIsHeld, Init

(* push() of an accepted press: the slot it lands in holds the newest of all. *)
LEMMA EnqueueIInv ==
  ASSUME IInv, NEW device \in Device, NEW kind \in Kind, Enqueue(device, kind)
  PROVE  IInv'
<1> DEFINE c == [device |-> device, kind |-> kind, id |-> nextCommandId]
<1>1. PICK s \in PushTargets(c) :
        /\ \A t \in PushTargets(c) : s <= t
        /\ entries' = [entries EXCEPT ![s] =
             [state |-> "Queued", command |-> c, sequence |-> nextSequence]]
        /\ nextSequence' = nextSequence + 1
  BY DEF Enqueue, Push
<1>2. /\ nextCommandId <= MaxPresses
      /\ nextCommandId' = nextCommandId + 1
      /\ newest' = [newest EXCEPT ![<<device, kind>>] = nextCommandId]
  BY DEF Enqueue
<1>3. /\ TypeOK /\ OneWaitingOneActive /\ PressOrder /\ CountersAhead
      /\ WaitingIsNewer /\ NewestIsHeld
  BY DEF IInv
<1>4. c \in Command /\ s \in Slots /\ nextSequence \in 1..MaxPresses
  BY <1>2, <1>3, MaxPressesAssumption
     DEF TypeOK, CountersAhead, Command, PushTargets, In, Slots
<1>5. /\ \A t \in Slots : t # s => entries'[t] = entries[t]
      /\ entries'[s].state = "Queued"
      /\ entries'[s].command = c
      /\ entries'[s].sequence = nextSequence
      /\ Used' = Used \cup {s}
      /\ In("Queued")' = In("Queued") \cup {s}
      /\ s \notin In("Inflight") /\ In("Inflight")' = In("Inflight")
  BY <1>1, <1>3, <1>4 DEF TypeOK, Used, In, PushTargets
<1>6. TypeOK'
  BY <1>1, <1>2, <1>3, <1>4, MaxPressesAssumption DEF TypeOK, Occupied
<1>7. OneWaitingOneActive'
  <2>1. ASSUME NEW t \in In("Queued"), t # s,
               Coalescable(c), SameProperty(entries[t].command, c)
        PROVE  FALSE
    <3>1. t \in PushTargets(c)
      BY <2>1 DEF PushTargets
    <3>2. s \in In("Queued") /\ SameProperty(entries[s].command, c)
      BY <2>1 DEF PushTargets
    <3>3. /\ Coalescable(entries[s].command)
          /\ SameProperty(entries[s].command, entries[t].command)
          /\ s \in Used /\ t \in Used
          /\ entries[s].state = entries[t].state
      BY <2>1, <3>2 DEF Coalescable, SameProperty, In, Used
    <3> QED
      BY <1>3, <2>1, <3>3 DEF OneWaitingOneActive
  <2> SUFFICES ASSUME NEW t \in Used', NEW u \in Used',
                      Coalescable(entries'[t].command),
                      SameProperty(entries'[t].command, entries'[u].command),
                      entries'[t].state = entries'[u].state,
                      t # u
               PROVE  FALSE
    BY DEF OneWaitingOneActive, Coalescable, SameProperty
  <2>2. CASE t # s /\ u # s
    BY <1>3, <1>5, <2>2 DEF OneWaitingOneActive, Used, In
  <2>3. CASE t = s
    BY <1>5, <2>1, <2>3 DEF Used, In, SameProperty, Coalescable
  <2>4. CASE u = s
    BY <1>5, <2>1, <2>4 DEF Used, In, SameProperty, Coalescable
  <2> QED
    BY <2>2, <2>3, <2>4
<1>8. PressOrder'
  BY <1>3, <1>5, <1>4, UsedEntry DEF PressOrder, CountersAhead, Used
<1>9. CountersAhead'
  <2>1. \A t \in Used : t # s =>
          /\ entries'[t].sequence < nextSequence'
          /\ entries'[t].command.id < nextCommandId'
    BY <1>1, <1>2, <1>3, <1>5, UsedEntry DEF CountersAhead, Used, TypeOK
  <2> QED
    BY <1>1, <1>2, <1>3, <1>5, <2>1 DEF CountersAhead, TypeOK
<1>10. WaitingIsNewer'
  <2> SUFFICES ASSUME NEW t \in In("Queued")', NEW u \in In("Inflight")',
                      Coalescable(entries'[t].command),
                      SameProperty(entries'[t].command, entries'[u].command)
               PROVE  entries'[u].sequence < entries'[t].sequence
    BY DEF WaitingIsNewer, Coalescable, SameProperty
  <2>1. u # s /\ u \in Used /\ entries'[u] = entries[u]
    BY <1>5 DEF In, Used
  <2>2. CASE t = s
    BY <1>3, <1>5, <2>1, <2>2 DEF CountersAhead
  <2>3. CASE t # s
    BY <1>3, <1>5, <2>1, <2>3 DEF WaitingIsNewer, In
  <2> QED
    BY <2>2, <2>3
<1>11. NewestIsHeld'
  <2> SUFFICES ASSUME NEW t \in Used', Coalescable(entries'[t].command)
               PROVE  \E u \in Used' :
                        /\ SameProperty(entries'[t].command, entries'[u].command)
                        /\ entries'[u].command.id =
                             newest'[PropertyOf(entries'[t].command)]
                        /\ entries'[t].command.id <= entries'[u].command.id
    BY DEF NewestIsHeld, Coalescable, SameProperty, PropertyOf
  <2>1. CASE SameProperty(entries'[t].command, c)
    <3>1. newest'[PropertyOf(entries'[t].command)] = nextCommandId
      BY <1>2, <1>3, <2>1 DEF SameProperty, PropertyOf, TypeOK
    <3>2. entries'[t].command.id <= nextCommandId
      BY <1>3, <1>5, UsedEntry DEF CountersAhead, Used, TypeOK
    <3> QED
      BY <1>5, <2>1, <3>1, <3>2 DEF SameProperty
  <2>2. CASE ~SameProperty(entries'[t].command, c)
    <3>1. t # s /\ t \in Used /\ entries'[t] = entries[t]
      BY <1>5, <2>2 DEF SameProperty, Used
    <3>2. PICK u \in Used :
            /\ SameProperty(entries[t].command, entries[u].command)
            /\ entries[u].command.id =
                 newest[PropertyOf(entries[t].command)]
            /\ entries[t].command.id <= entries[u].command.id
      BY <1>3, <3>1 DEF NewestIsHeld, Coalescable
    <3>3. u # s
      <4>1. CASE s \notin Used
        BY <3>2, <4>1
      <4>2. CASE s \in Used
        BY <1>1, <2>2, <3>1, <3>2, <4>2 DEF PushTargets, In, Used, SameProperty
      <4> QED
        BY <4>1, <4>2
    <3>4. newest'[PropertyOf(entries[t].command)] =
            newest[PropertyOf(entries[t].command)]
      <4>1. PropertyOf(entries[t].command) \in Device \X Kind
        BY <1>3, <3>1, UsedEntry DEF PropertyOf
      <4>2. PropertyOf(entries[t].command) # <<device, kind>>
        BY <2>2, <3>1 DEF SameProperty, PropertyOf
      <4> QED
        BY <1>2, <1>3, <4>1, <4>2 DEF TypeOK
    <3>5. entries'[u] = entries[u] /\ u \in Used'
      BY <1>5, <3>2, <3>3 DEF Used
    <3> QED
      BY <3>1, <3>2, <3>4, <3>5 DEF SameProperty
  <2> QED
    BY <2>1, <2>2
<1> QED
  BY <1>6, <1>7, <1>8, <1>9, <1>10, <1>11 DEF IInv

(* A refused press only uses up an id. *)
LEMMA RefusedIInv ==
  ASSUME IInv, NEW device \in Device, NEW kind \in Kind,
         EnqueueRefused(device, kind)
  PROVE  IInv'
<1>1. /\ nextCommandId \in 1..MaxPresses
      /\ nextCommandId' = nextCommandId + 1
      /\ UNCHANGED <<entries, nextSequence, newest>>
  BY DEF EnqueueRefused, IInv, TypeOK
<1>2. Used' = Used /\ In("Queued")' = In("Queued") /\ In("Inflight")' = In("Inflight")
  BY <1>1 DEF Used, In
<1>3. CountersAhead'
  BY <1>1, <1>2, UsedEntry, MaxPressesAssumption DEF IInv, CountersAhead, TypeOK
<1> QED
  BY <1>1, <1>2, <1>3, MaxPressesAssumption
     DEF IInv, TypeOK, OneWaitingOneActive, PressOrder, WaitingIsNewer,
         NewestIsHeld, Coalescable, SameProperty, PropertyOf

(* take(): the taken command had no in-flight command of its property. *)
LEMMA DispatchIInv ==
  ASSUME IInv, NEW s \in Slots, Dispatch(s)
  PROVE  IInv'
<1>1. /\ s \in In("Queued")
      /\ ~BlockedByInflight(entries[s].command)
      /\ entries' = [entries EXCEPT ![s].state = "Inflight"]
      /\ UNCHANGED <<nextSequence, nextCommandId, newest>>
  BY DEF Dispatch, Take, Takeable
<1>2. /\ TypeOK /\ OneWaitingOneActive /\ PressOrder /\ CountersAhead
      /\ WaitingIsNewer /\ NewestIsHeld
  BY DEF IInv
<1>3. s \in Used /\ entries[s] \in Occupied
  BY <1>1, <1>2 DEF In, Used, TypeOK, None
<1>4. /\ entries' \in [Slots -> {None} \cup Occupied]
      /\ entries'[s].state = "Inflight"
      /\ \A t \in Slots : /\ entries'[t].command = entries[t].command
                          /\ entries'[t].sequence = entries[t].sequence
      /\ \A t \in Slots : t # s => entries'[t] = entries[t]
  <2>1. entries'[s] = [entries[s] EXCEPT !.state = "Inflight"]
    BY <1>1, <1>2 DEF TypeOK
  <2>2. /\ entries'[s] \in Occupied
        /\ entries'[s].state = "Inflight"
        /\ entries'[s].command = entries[s].command
        /\ entries'[s].sequence = entries[s].sequence
    BY <1>3, <2>1 DEF Occupied
  <2> QED
    BY <1>1, <1>2, <2>2 DEF TypeOK
<1>5. /\ Used' = Used
      /\ In("Queued")' = In("Queued") \ {s}
      /\ In("Inflight")' = In("Inflight") \cup {s}
  BY <1>1, <1>3, <1>4 DEF Used, In
<1>6. TypeOK'
  BY <1>1, <1>2, <1>4 DEF TypeOK
<1>7. OneWaitingOneActive'
  <2>1. ASSUME NEW t \in In("Inflight"), Coalescable(entries[s].command)
        PROVE  ~SameProperty(entries[t].command, entries[s].command)
    BY <1>1, <2>1 DEF BlockedByInflight
  <2> SUFFICES ASSUME NEW t \in Used, NEW u \in Used,
                      Coalescable(entries[t].command),
                      SameProperty(entries[t].command, entries[u].command),
                      entries'[t].state = entries'[u].state,
                      t # u
               PROVE  FALSE
    BY <1>4, <1>5 DEF OneWaitingOneActive, Coalescable, SameProperty, Used
  <2>2. CASE t # s /\ u # s
    BY <1>2, <1>4, <2>2 DEF OneWaitingOneActive, Used
  <2>3. CASE t = s
    BY <1>4, <2>1, <2>3 DEF Used, In, SameProperty
  <2>4. CASE u = s
    BY <1>4, <2>1, <2>4 DEF Used, In, SameProperty, Coalescable
  <2> QED
    BY <2>2, <2>3, <2>4
<1>8. PressOrder'
  BY <1>2, <1>4, <1>5 DEF PressOrder, Used
<1>9. CountersAhead'
  BY <1>1, <1>2, <1>4, <1>5 DEF CountersAhead, Used
<1>10. WaitingIsNewer'
  <2> SUFFICES ASSUME NEW t \in In("Queued"), t # s,
                      NEW u \in In("Inflight") \cup {s},
                      Coalescable(entries[t].command),
                      SameProperty(entries[t].command, entries[u].command)
               PROVE  entries[u].sequence < entries[t].sequence
    BY <1>4, <1>5 DEF WaitingIsNewer, Coalescable, SameProperty, In
  <2>1. CASE u = s
    BY <1>1, <1>2, <1>3, <2>1 DEF OneWaitingOneActive, In, Used
  <2>2. CASE u # s
    BY <1>2, <2>2 DEF WaitingIsNewer
  <2> QED
    BY <2>1, <2>2
<1>11. NewestIsHeld'
  BY <1>1, <1>2, <1>4, <1>5
     DEF NewestIsHeld, Coalescable, SameProperty, PropertyOf, Used
<1> QED
  BY <1>6, <1>7, <1>8, <1>9, <1>10, <1>11 DEF IInv

(* complete(): what waits for the property, if anything, is its newest press. *)
LEMMA SettleIInv ==
  ASSUME IInv, NEW s \in Slots, Settle(s)
  PROVE  IInv'
<1>1. /\ s \in In("Inflight")
      /\ entries' = [entries EXCEPT ![s] = None]
      /\ UNCHANGED <<nextSequence, nextCommandId, newest>>
  BY DEF Settle, Complete
<1>2. /\ TypeOK /\ OneWaitingOneActive /\ PressOrder /\ CountersAhead
      /\ WaitingIsNewer /\ NewestIsHeld
  BY DEF IInv
<1>3. /\ \A t \in Slots : t # s => entries'[t] = entries[t]
      /\ Used' = Used \ {s}
      /\ In("Queued")' = In("Queued")
      /\ In("Inflight")' = In("Inflight") \ {s}
  BY <1>1, <1>2 DEF TypeOK, Used, In, None
<1>4. TypeOK'
  BY <1>1, <1>2 DEF TypeOK
<1>5. OneWaitingOneActive' /\ PressOrder' /\ CountersAhead' /\ WaitingIsNewer'
  BY <1>1, <1>2, <1>3
     DEF OneWaitingOneActive, PressOrder, CountersAhead, WaitingIsNewer,
         Coalescable, SameProperty, Used, In
<1>6. NewestIsHeld'
  <2> SUFFICES ASSUME NEW t \in Used, t # s, Coalescable(entries[t].command)
               PROVE  \E u \in Used \ {s} :
                        /\ SameProperty(entries[t].command, entries[u].command)
                        /\ entries[u].command.id = newest[PropertyOf(entries[t].command)]
                        /\ entries[t].command.id <= entries[u].command.id
    BY <1>1, <1>3 DEF NewestIsHeld, Coalescable, SameProperty, PropertyOf, Used
  <2>1. PICK u \in Used :
          /\ SameProperty(entries[t].command, entries[u].command)
          /\ entries[u].command.id = newest[PropertyOf(entries[t].command)]
          /\ entries[t].command.id <= entries[u].command.id
    BY <1>2 DEF NewestIsHeld
  <2>2. u # s
    <3> SUFFICES ASSUME u = s PROVE FALSE
      OBVIOUS
    <3>1. entries[t].state # "Inflight"
      BY <1>1, <1>2, <2>1 DEF OneWaitingOneActive, In, Used
    <3>2. t \in In("Queued")
      BY <1>2, <3>1, UsedEntry DEF In
    <3>3. entries[u].sequence < entries[t].sequence
      BY <1>1, <1>2, <2>1, <3>2 DEF WaitingIsNewer
    <3> QED
      BY <1>2, <2>1, <3>3, UsedEntry DEF PressOrder
  <2> QED
    BY <2>1, <2>2
<1> QED
  BY <1>4, <1>5, <1>6 DEF IInv

(* The invariant is inductive. *)
LEMMA NextIInv == IInv /\ [Next]_vars => IInv'
<1> SUFFICES ASSUME IInv, [Next]_vars PROVE IInv'
  OBVIOUS
<1>1. ASSUME NEW device \in Device, NEW kind \in Kind, Enqueue(device, kind)
      PROVE  IInv'
  BY <1>1, EnqueueIInv
<1>2. ASSUME NEW device \in Device, NEW kind \in Kind, EnqueueRefused(device, kind)
      PROVE  IInv'
  BY <1>2, RefusedIInv
<1>3. ASSUME NEW s \in Slots, Dispatch(s)
      PROVE  IInv'
  BY <1>3, DispatchIInv
<1>4. ASSUME NEW s \in Slots, Settle(s)
      PROVE  IInv'
  BY <1>4, SettleIInv
<1>5. CASE UNCHANGED vars
  BY <1>5 DEF vars, IInv, TypeOK, OneWaitingOneActive, PressOrder, CountersAhead,
     WaitingIsNewer, NewestIsHeld, Used, In, Coalescable, SameProperty, PropertyOf
<1> QED
  BY <1>1, <1>2, <1>3, <1>4, <1>5 DEF Next

LEMMA SpecIInv == Spec => []IInv
BY InitIInv, NextIInv, PTL DEF Spec

(* Values stay in range: no slot ever holds half a command. *)
THEOREM TypeCorrect == Spec => []TypeOK
<1>1. IInv => TypeOK
  BY DEF IInv
<1> QED
  BY <1>1, SpecIInv, PTL

(* One command waiting and one executing per absolute property, whatever    *)
(* the capacity and however push, take and complete interleave.             *)
THEOREM OneWaitingOneActiveAlways == Spec => []OneWaitingOneActive
<1>1. IInv => OneWaitingOneActive
  BY DEF IInv
<1> QED
  BY <1>1, SpecIInv, PTL

(* latest() returns the last accepted press of an absolute property: the    *)
(* strengthening ties sequences to ids and keeps the newest press in a slot. *)
THEOREM LatestAlwaysNewest == Spec => []LatestIsNewestPress
<1>1. IInv => LatestIsNewestPress
  <2> SUFFICES ASSUME IInv, NEW device \in Device, NEW kind \in CoalescableKind,
                      NEW s \in Slots, IsLatest(s, device, kind)
               PROVE  entries[s].command.id = newest[<<device, kind>>]
    BY DEF LatestIsNewestPress
  <2>1. /\ s \in Used /\ PropertyOf(entries[s].command) = <<device, kind>>
        /\ Coalescable(entries[s].command)
    BY DEF IsLatest, Holding, PropertyOf, Coalescable
  <2>2. PICK t \in Used :
          /\ SameProperty(entries[s].command, entries[t].command)
          /\ entries[t].command.id = newest[<<device, kind>>]
          /\ entries[s].command.id <= entries[t].command.id
    BY <2>1 DEF IInv, NewestIsHeld
  <2>3. entries[t].sequence <= entries[s].sequence
    BY <2>2 DEF IsLatest, Holding, SameProperty
  <2> QED
    BY <2>1, <2>2, <2>3, UsedEntry DEF IInv, PressOrder
<1> QED
  BY <1>1, SpecIInv, PTL

(* A set of two elements has cardinality two. *)
LEMMA Pair ==
  ASSUME NEW a, NEW b, a # b
  PROVE  IsFiniteSet({a, b}) /\ Cardinality({a, b}) = 2
<1> DEFINE one == {a}
<1>1. IsFiniteSet(one) /\ Cardinality(one) = 1 /\ b \notin one
  BY FS_Singleton
<1>2. {a, b} = one \cup {b}
  OBVIOUS
<1> HIDE DEF one
<1>3. IsFiniteSet(one \cup {b}) /\ Cardinality(one \cup {b}) = 1 + 1
  BY <1>1, FS_AddElement
<1> QED
  BY <1>2, <1>3

(* When a press finds no slot every slot is used: the slots of one-shots,    *)
(* and the others, which map one to one into the pairs of an unfinished      *)
(* property and a state.                                                      *)
LEMMA FullTable ==
  ASSUME IInv, NEW device \in Device, NEW kind \in Kind,
         EnqueueRefused(device, kind)
  PROVE  Capacity <= Cardinality(OneShotSlots) + 2 * Cardinality(Unfinished)
<1> DEFINE states == {"Queued", "Inflight"}
           rest == Slots \ OneShotSlots
           pairs == Unfinished \X states
           c == [device |-> device, kind |-> kind, id |-> nextCommandId]
           property == [s \in rest |-> PropertyOf(entries[s].command)]
           f == [s \in rest |-> <<PropertyOf(entries[s].command), entries[s].state>>]
<1>1. In("Free") = {} /\ Slots = Used
  <2>1. PushTargets(c) = {}
    BY DEF EnqueueRefused
  <2> QED
    BY <2>1 DEF PushTargets, In, Used
<1>2. IsFiniteSet(Slots) /\ Cardinality(Slots) = Capacity
  BY FS_Interval, CapacityAssumption DEF Slots
<1>3. OneShotSlots \subseteq Slots
  BY DEF OneShotSlots, Used
<1>4. /\ IsFiniteSet(OneShotSlots) /\ IsFiniteSet(rest)
      /\ Cardinality(rest) = Capacity - Cardinality(OneShotSlots)
  <2>1. Slots \cap OneShotSlots = OneShotSlots
    BY <1>3
  <2>2. IsFiniteSet(rest) /\ Cardinality(rest) = Cardinality(Slots) - Cardinality(OneShotSlots)
    BY <1>2, <2>1, FS_Difference
  <2>3. IsFiniteSet(OneShotSlots)
    BY <1>2, <1>3, FS_Subset
  <2> QED
    BY <1>2, <2>2, <2>3
<1>5. IsFiniteSet(Unfinished)
  <2>1. Unfinished = {PropertyOf(entries[s].command) : s \in rest}
    BY <1>1 DEF Unfinished
  <2>2. property \in Surjection(rest, Unfinished)
    BY <2>1 DEF Surjection
  <2> HIDE DEF rest, property
  <2> QED
    BY <1>4, <2>2, FS_Surjection
<1>6. ASSUME NEW s \in rest
      PROVE  f[s] \in pairs
  BY <1>1, UsedEntry DEF IInv, Unfinished
<1>7. ASSUME NEW s \in rest, NEW t \in rest, f[s] = f[t]
      PROVE  s = t
  <2>1. /\ SameProperty(entries[s].command, entries[t].command)
        /\ entries[s].state = entries[t].state
    BY <1>7 DEF SameProperty, PropertyOf
  <2>2. s \in Used /\ t \in Used /\ Coalescable(entries[s].command)
    BY <1>1 DEF OneShotSlots
  <2> QED
    BY <2>1, <2>2 DEF IInv, OneWaitingOneActive
<1>8. f \in Injection(rest, pairs)
  BY <1>6, <1>7 DEF Injection, IsInjective
<1>9. IsFiniteSet(states) /\ Cardinality(states) = 2
  BY Pair, "Queued" # "Inflight"
<1>10. IsFiniteSet(pairs) /\ Cardinality(pairs) = Cardinality(Unfinished) * 2
  <2>1. /\ IsFiniteSet(pairs)
        /\ Cardinality(pairs) = Cardinality(Unfinished) * Cardinality(states)
    BY <1>5, <1>9, FS_Product
  <2> QED
    BY <1>9, <2>1
<1>11. Cardinality(rest) <= Cardinality(pairs)
  <2> HIDE DEF f, rest, pairs
  <2> QED
    BY <1>8, <1>10, FS_Injection
<1>12. Cardinality(OneShotSlots) \in Nat /\ Cardinality(Unfinished) \in Nat
  BY <1>4, <1>5, FS_CardinalityType
<1> HIDE DEF pairs, rest, f, states, property
<1> QED
  BY <1>4, <1>10, <1>11, <1>12, CapacityAssumption

(* A press is refused only when the table is full of different unfinished    *)
(* work, however often keys are repeated and however long the worker takes.  *)
THEOREM RefusalsAreJustified == Spec => RefusedOnlyWhenBusy
<1>1. IInv /\ [Next]_vars =>
        [\A device \in Device, kind \in Kind :
           EnqueueRefused(device, kind) =>
             Capacity <= Cardinality(OneShotSlots) + 2 * Cardinality(Unfinished)]_vars
  BY FullTable
<1> QED
  BY <1>1, SpecIInv, PTL DEF Spec, RefusedOnlyWhenBusy

-----------------------------------------------------------------------------
(***************************************************************************)
(* Refinement: each accepted press, take and complete is one mailbox step.  *)
(***************************************************************************)
(* Distinct slots hold distinct commands. *)
LEMMA CommandsDistinct ==
  ASSUME IInv, NEW s \in Used, NEW t \in Used, s # t
  PROVE  entries[s].command # entries[t].command
BY UsedEntry DEF IInv, PressOrder

LEMMA EnqueueRefines ==
  ASSUME IInv, NEW device \in Device, NEW kind \in Kind, Enqueue(device, kind)
  PROVE  Mailbox!Next
<1> DEFINE c == [device |-> device, kind |-> kind, id |-> nextCommandId]
<1>1. PICK s \in PushTargets(c) :
        entries' = [entries EXCEPT ![s] =
          [state |-> "Queued", command |-> c, sequence |-> nextSequence]]
  BY DEF Enqueue, Push
<1>2. c \in Mailbox!Press /\ nextCommandId' = nextCommandId + 1 /\ nextCommandId \in Nat
  BY MaxPressesAssumption DEF Enqueue, IInv, TypeOK, Mailbox!Press
<1>3. /\ s \in Slots /\ entries \in [Slots -> {None} \cup Occupied]
      /\ s \notin In("Inflight")
      /\ entries'[s].state = "Queued" /\ entries'[s].command = c
      /\ \A t \in Slots : t # s => entries'[t] = entries[t]
  BY <1>1 DEF PushTargets, In, IInv, TypeOK
<1>4. In("Inflight")' = In("Inflight") /\ In("Queued")' = In("Queued") \cup {s}
  BY <1>3 DEF In
<1>5. ActiveCommands' = ActiveCommands
  BY <1>3, <1>4 DEF ActiveCommands, In
<1>6. QueuedCommands' = {entries[t].command : t \in In("Queued") \ {s}} \cup {c}
  BY <1>3, <1>4 DEF QueuedCommands, In
<1>7. \A t \in In("Queued") \ {s} : ~(Coalescable(c) /\ SameProperty(entries[t].command, c))
  <2> SUFFICES ASSUME NEW t \in In("Queued") \ {s}, Coalescable(c),
                      SameProperty(entries[t].command, c)
               PROVE  FALSE
    OBVIOUS
  <2>1. s \in In("Queued") /\ SameProperty(entries[s].command, c)
    BY DEF PushTargets
  <2>2. /\ s \in Used /\ t \in Used /\ Coalescable(entries[s].command)
        /\ SameProperty(entries[s].command, entries[t].command)
        /\ entries[s].state = entries[t].state
    BY <2>1 DEF In, Used, SameProperty, Coalescable
  <2> QED
    BY <2>2 DEF IInv, OneWaitingOneActive
<1>8. s \in In("Queued") => Coalescable(c) /\ SameProperty(entries[s].command, c)
  BY DEF PushTargets, In
<1>9. QueuedCommands' =
        {w \in QueuedCommands :
           ~(Mailbox!Absolute(c) /\ Mailbox!Property(w) = Mailbox!Property(c))} \cup {c}
  BY <1>6, <1>7, <1>8
     DEF QueuedCommands, Mailbox!Absolute, Mailbox!Property, Coalescable, SameProperty
<1>10. Mailbox!Accept(c)
  BY <1>2, <1>5, <1>9 DEF Mailbox!Accept
<1> HIDE DEF c
<1> QED
  BY <1>2, <1>10 DEF Mailbox!Next

LEMMA RefusedRefines ==
  ASSUME IInv, NEW device \in Device, NEW kind \in Kind,
         EnqueueRefused(device, kind)
  PROVE  Mailbox!Next
<1> DEFINE c == [device |-> device, kind |-> kind, id |-> nextCommandId]
<1>1. /\ c \in Mailbox!Press /\ nextCommandId' = nextCommandId + 1
      /\ nextCommandId \in Nat /\ UNCHANGED entries
  BY MaxPressesAssumption DEF EnqueueRefused, IInv, TypeOK, Mailbox!Press
<1>2. Mailbox!Refuse(c)
  BY <1>1 DEF Mailbox!Refuse, In, QueuedCommands, ActiveCommands
<1> HIDE DEF c
<1> QED
  BY <1>1, <1>2 DEF Mailbox!Next

LEMMA DispatchRefines ==
  ASSUME IInv, NEW s \in Slots, Dispatch(s)
  PROVE  Mailbox!Next
<1> DEFINE c == entries[s].command
<1>1. /\ s \in In("Queued") /\ ~BlockedByInflight(c)
      /\ \A t \in Takeable : entries[s].sequence <= entries[t].sequence
      /\ entries' = [entries EXCEPT ![s].state = "Inflight"]
      /\ UNCHANGED nextCommandId
  BY DEF Dispatch, Take, Takeable, IsNext
<1>2. /\ s \in Used /\ entries[s] \in Occupied
      /\ entries \in [Slots -> {None} \cup Occupied]
  BY <1>1 DEF In, Used, IInv, TypeOK, None
<1>3. /\ entries'[s].state = "Inflight"
      /\ \A t \in Slots : entries'[t].command = entries[t].command
      /\ \A t \in Slots : t # s => entries'[t] = entries[t]
  <2>1. entries'[s] = [entries[s] EXCEPT !.state = "Inflight"]
    BY <1>1, <1>2
  <2>2. entries'[s].state = "Inflight" /\ entries'[s].command = c
    BY <1>2, <2>1 DEF Occupied
  <2> QED
    BY <1>1, <1>2, <2>2
<1>4. /\ In("Queued")' = In("Queued") \ {s}
      /\ In("Inflight")' = In("Inflight") \cup {s}
  BY <1>1, <1>3 DEF In
<1>5. \A t \in In("Queued") \ {s} : entries[t].command # c
  BY <1>2, CommandsDistinct DEF In, Used
<1>6. QueuedCommands' = QueuedCommands \ {c}
  BY <1>3, <1>4, <1>5 DEF QueuedCommands, In
<1>7. ActiveCommands' = ActiveCommands \cup {c}
  BY <1>3, <1>4 DEF ActiveCommands, In
<1>8. c \in QueuedCommands
  BY <1>1 DEF QueuedCommands
<1>9. \/ /\ Mailbox!Absolute(c)
         /\ \A a \in ActiveCommands : Mailbox!Property(a) # Mailbox!Property(c)
      \/ /\ ~Mailbox!Absolute(c)
         /\ \A w \in QueuedCommands : ~Mailbox!Absolute(w) => c.id <= w.id
  <2>1. CASE Coalescable(c)
    BY <1>1, <2>1 DEF BlockedByInflight, Coalescable, SameProperty, ActiveCommands,
                      Mailbox!Absolute, Mailbox!Property
  <2>2. CASE ~Coalescable(c)
    <3>1. ASSUME NEW t \in In("Queued"), ~Coalescable(entries[t].command)
          PROVE  c.id <= entries[t].command.id
      <4>1. t \in Takeable /\ t \in Used
        BY <3>1 DEF Takeable, BlockedByInflight, In, Used
      <4>2. entries[s].sequence <= entries[t].sequence
        BY <1>1, <4>1
      <4> QED
        BY <1>2, <4>1, <4>2, UsedEntry DEF IInv, PressOrder
    <3> QED
      BY <2>2, <3>1 DEF QueuedCommands, Coalescable, Mailbox!Absolute
  <2> QED
    BY <2>1, <2>2
<1>10. Mailbox!Begin(c)
  BY <1>1, <1>6, <1>7, <1>8, <1>9
     DEF Mailbox!Begin
<1> HIDE DEF c
<1> QED
  BY <1>8, <1>10 DEF Mailbox!Next

LEMMA SettleRefines ==
  ASSUME IInv, NEW s \in Slots, Settle(s)
  PROVE  Mailbox!Next
<1> DEFINE c == entries[s].command
<1>1. /\ s \in In("Inflight") /\ entries' = [entries EXCEPT ![s] = None]
      /\ UNCHANGED nextCommandId
  BY DEF Settle, Complete
<1>2. /\ s \in Used /\ entries \in [Slots -> {None} \cup Occupied]
      /\ entries'[s].state = "Free"
      /\ \A t \in Slots : t # s => entries'[t] = entries[t]
  BY <1>1 DEF In, Used, IInv, TypeOK, None
<1>3. In("Queued")' = In("Queued") /\ In("Inflight")' = In("Inflight") \ {s}
  BY <1>1, <1>2 DEF In
<1>4. \A t \in In("Inflight") \ {s} : entries[t].command # c
  BY <1>2, CommandsDistinct DEF In, Used
<1>5. ActiveCommands' = ActiveCommands \ {c}
  BY <1>2, <1>3, <1>4 DEF ActiveCommands, In
<1>6. QueuedCommands' = QueuedCommands
  BY <1>1, <1>2, <1>3 DEF QueuedCommands, In
<1>7. c \in ActiveCommands
  BY <1>1 DEF ActiveCommands
<1>8. Mailbox!Finish(c)
  BY <1>1, <1>5, <1>6, <1>7 DEF Mailbox!Finish
<1> HIDE DEF c
<1> QED
  BY <1>7, <1>8 DEF Mailbox!Next

(* The slot table implements the mailbox for every capacity: coalescing      *)
(* drops only the command it replaces, and one-shots start in press order.   *)
THEOREM DispatcherImplementsMailbox == Spec => ImplementsMailbox
<1>1. Init => Mailbox!Init
  BY DEF Init, Mailbox!Init, In, None, QueuedCommands, ActiveCommands
<1>2. IInv /\ [Next]_vars => [Mailbox!Next]_(Mailbox!abstractVars)
  <2> SUFFICES ASSUME IInv, [Next]_vars
               PROVE  [Mailbox!Next]_(Mailbox!abstractVars)
    OBVIOUS
  <2>1. ASSUME NEW device \in Device, NEW kind \in Kind, Enqueue(device, kind)
        PROVE  Mailbox!Next
    BY <2>1, EnqueueRefines
  <2>2. ASSUME NEW device \in Device, NEW kind \in Kind, EnqueueRefused(device, kind)
        PROVE  Mailbox!Next
    BY <2>2, RefusedRefines
  <2>3. ASSUME NEW s \in Slots, Dispatch(s)
        PROVE  Mailbox!Next
    BY <2>3, DispatchRefines
  <2>4. ASSUME NEW s \in Slots, Settle(s)
        PROVE  Mailbox!Next
    BY <2>4, SettleRefines
  <2>5. CASE UNCHANGED vars
    BY <2>5 DEF vars, Mailbox!abstractVars, In, QueuedCommands, ActiveCommands
  <2> QED
    BY <2>1, <2>2, <2>3, <2>4, <2>5 DEF Next
<1> QED
  BY <1>1, <1>2, SpecIInv, PTL DEF Spec, ImplementsMailbox, Mailbox!Spec

-----------------------------------------------------------------------------
Elems(q) == {q[i] : i \in DOMAIN q}
Distinct(q) == \A i, j \in DOMAIN q : q[i] = q[j] => i = j

LEMMA AppendElems ==
  ASSUME NEW S, NEW q \in Seq(S), NEW e \in S
  PROVE  /\ Append(q, e) \in Seq(S) /\ Len(Append(q, e)) = Len(q) + 1
         /\ Elems(Append(q, e)) = Elems(q) \cup {e}
         /\ Distinct(q) /\ e \notin Elems(q) => Distinct(Append(q, e))
<1>1. /\ Append(q, e) \in Seq(S) /\ Len(Append(q, e)) = Len(q) + 1
      /\ DOMAIN q = 1..Len(q) /\ DOMAIN Append(q, e) = 1..Len(q) + 1 /\ Len(q) \in Nat
      /\ \A i \in 1..Len(q) : Append(q, e)[i] = q[i]
      /\ Append(q, e)[Len(q) + 1] = e
  OBVIOUS
<1> DEFINE r == Append(q, e)
<1> HIDE DEF r
<1>2. Elems(r) = Elems(q) \cup {e}
  <2>1. \A i \in DOMAIN r : r[i] \in Elems(q) \cup {e}
    BY <1>1 DEF Elems, r
  <2>2. \A x \in Elems(q) : x \in Elems(r)
    BY <1>1 DEF Elems, r
  <2>3. e \in Elems(r)
    BY <1>1 DEF Elems, r
  <2> QED
    BY <2>1, <2>2, <2>3 DEF Elems
<1>3. Distinct(q) /\ e \notin Elems(q) => Distinct(r)
  BY <1>1 DEF Distinct, Elems, r
<1> QED
  BY <1>1, <1>2, <1>3 DEF r

LEMMA TailElems ==
  ASSUME NEW S, NEW q \in Seq(S), q # <<>>
  PROVE  /\ Tail(q) \in Seq(S) /\ Len(Tail(q)) = Len(q) - 1
         /\ Head(q) \in S /\ Head(q) \in Elems(q)
         /\ Distinct(q) => /\ Elems(Tail(q)) = Elems(q) \ {Head(q)}
                           /\ Distinct(Tail(q))
<1>1. /\ Tail(q) \in Seq(S) /\ Len(Tail(q)) = Len(q) - 1 /\ Len(q) \in Nat \ {0}
      /\ DOMAIN q = 1..Len(q) /\ DOMAIN Tail(q) = 1..Len(q) - 1
      /\ \A i \in 1..Len(q) - 1 : Tail(q)[i] = q[i + 1]
      /\ Head(q) = q[1] /\ q[1] \in S
  OBVIOUS
<1> DEFINE r == Tail(q)
<1> HIDE DEF r
<1>2. Head(q) \in Elems(q)
  BY <1>1 DEF Elems
<1>3. ASSUME Distinct(q)
      PROVE  Elems(r) = Elems(q) \ {Head(q)} /\ Distinct(r)
  <2>1. \A i \in DOMAIN r : r[i] \in Elems(q) \ {Head(q)}
    BY <1>1, <1>3 DEF Elems, Distinct, r
  <2>2. ASSUME NEW i \in DOMAIN q, q[i] # Head(q) PROVE q[i] \in Elems(r)
    <3>1. i - 1 \in DOMAIN r /\ r[i - 1] = q[i]
      BY <1>1, <2>2 DEF r
    <3> QED
      BY <3>1 DEF Elems
  <2>3. Distinct(r)
    BY <1>1, <1>3 DEF Distinct, r
  <2> QED
    BY <2>1, <2>2, <2>3 DEF Elems
<1> QED
  BY <1>1, <1>2, <1>3 DEF r

-----------------------------------------------------------------------------
(* What the operations of the table do to the commands in flight. *)

LEMMA EnqueueInflight ==
  ASSUME TypeOK, NEW device \in Device, NEW kind \in Kind, Enqueue(device, kind)
  PROVE  /\ In("Inflight")' = In("Inflight")
         /\ \A s \in In("Inflight") : entries'[s] = entries[s]
<1> DEFINE c == [device |-> device, kind |-> kind, id |-> nextCommandId]
<1>1. PICK s \in PushTargets(c) :
        entries' = [entries EXCEPT ![s] =
          [state |-> "Queued", command |-> c, sequence |-> nextSequence]]
  BY DEF Enqueue, Push
<1>2. s \in Slots /\ entries[s].state \in {"Queued", "Free"}
  BY DEF PushTargets, In
<1> QED
  BY <1>1, <1>2 DEF In, TypeOK

LEMMA InflightFrame ==
  ASSUME In("Inflight")' = In("Inflight"),
         \A s \in In("Inflight") : entries'[s] = entries[s],
         NEW device
  PROVE  Inflight(device)' = Inflight(device)
  BY DEF Inflight

LEMMA DispatchInflight ==
  ASSUME IInv, NEW s \in Slots, Dispatch(s)
  PROVE  LET c == entries[s].command IN
         /\ c \in Command /\ s \in In("Inflight")' /\ entries'[s].command = c
         /\ \A t \in Slots : t # s => entries'[t] = entries[t]
         /\ \A device \in Device :
              /\ c.id \notin Inflight(device)
              /\ Inflight(device)' = Inflight(device) \cup
                   (IF device = c.device THEN {c.id} ELSE {})
<1> DEFINE c == entries[s].command
<1>1. s \in In("Queued") /\ entries' = [entries EXCEPT ![s].state = "Inflight"]
  BY DEF Dispatch, Take, Takeable
<1>2. TypeOK /\ s \in Used
  BY <1>1 DEF IInv, In, Used
<1>3. c \in Command /\ c.id \in Ids
  BY <1>2, UsedEntry DEF Ids
<1>4. /\ entries'[s].state = "Inflight" /\ entries'[s].command = c
      /\ \A t \in Slots : t # s => entries'[t] = entries[t]
  <2>1. entries[s] \in Occupied
    BY <1>2 DEF TypeOK, Used, None
  <2> QED
    BY <1>1, <1>2, <2>1 DEF TypeOK, Occupied
<1>5. In("Inflight")' = In("Inflight") \cup {s} /\ s \notin In("Inflight")
  BY <1>1, <1>4 DEF In
<1>6. \A t \in In("Inflight") : entries[t].command.id # c.id
  <2> SUFFICES ASSUME NEW t \in In("Inflight") PROVE entries[t].command.id # c.id
    OBVIOUS
  <2>1. t \in Used /\ t # s
    BY <1>5 DEF In, Used
  <2> QED
    BY <1>2, <2>1, UsedEntry DEF IInv, PressOrder
<1>7. ASSUME NEW device \in Device
      PROVE  /\ c.id \notin Inflight(device)
             /\ Inflight(device)' = Inflight(device) \cup
                  (IF device = c.device THEN {c.id} ELSE {})
  BY <1>3, <1>4, <1>5, <1>6 DEF Inflight, In
<1> QED
  BY <1>3, <1>4, <1>5, <1>7 DEF In

LEMMA SettleInflight ==
  ASSUME IInv, NEW s \in Slots, Settle(s)
  PROVE  LET c == entries[s].command IN
         /\ c \in Command /\ s \in In("Inflight")
         /\ \A t \in Slots : t # s => entries'[t] = entries[t]
         /\ In("Inflight")' = In("Inflight") \ {s}
         /\ Used' = Used \ {s}
         /\ \A device \in Device :
              Inflight(device)' = Inflight(device) \
                (IF device = c.device THEN {c.id} ELSE {})
<1> DEFINE c == entries[s].command
<1>1. s \in In("Inflight") /\ entries' = [entries EXCEPT ![s] = None]
  BY DEF Settle, Complete
<1>2. TypeOK /\ s \in Used
  BY <1>1 DEF IInv, In, Used
<1>3. c \in Command /\ c.id \in Ids
  BY <1>2, UsedEntry DEF Ids
<1>4. entries'[s] = None /\ \A t \in Slots : t # s => entries'[t] = entries[t]
  BY <1>1, <1>2 DEF TypeOK
<1>5. In("Inflight")' = In("Inflight") \ {s} /\ Used' = Used \ {s}
  BY <1>1, <1>4 DEF In, Used, None
<1>6. \A t \in In("Inflight") \ {s} : entries[t].command.id # c.id
  <2> SUFFICES ASSUME NEW t \in In("Inflight") \ {s} PROVE entries[t].command.id # c.id
    OBVIOUS
  <2>1. t \in Used /\ t # s
    BY DEF In, Used
  <2> QED
    BY <1>2, <2>1, UsedEntry DEF IInv, PressOrder
<1>7. ASSUME NEW device \in Device
      PROVE  Inflight(device)' = Inflight(device) \
               (IF device = c.device THEN {c.id} ELSE {})
  BY <1>3, <1>4, <1>5, <1>6 DEF Inflight, In
<1> QED
  BY <1>1, <1>3, <1>4, <1>5, <1>7

-----------------------------------------------------------------------------
(* The strengthening of InflightHasOneOwner. *)

(* What the network task holds fits the point of the loop it has reached. *)
PhaseFits ==
  /\ phase = "execute" =>
       /\ current \in Command
       /\ \E s \in In("Inflight") : entries[s].command = current
  /\ phase \in {"forward", "send"} => event \in Event
  /\ phase = "forward" /\ event.result = "Pending" =>
       event.id \in pending[event.device]

(* A loop starts with empty event buffers, so that the events of one tick   *)
(* fit: there are never more of them than there were pending slots.          *)
Room ==
  \A device \in Device :
    /\ Cardinality(pending[device]) <= PendingSlots
    /\ phase = "tick" =>
         Cardinality(pending[device]) + Len(outbox[device]) <= PendingSlots

LInv ==
  /\ IInv
  /\ LifecycleTypeOK
  /\ PhaseFits
  /\ Room
  /\ InflightHasOneOwner

Safe == PhaseFits /\ Room /\ InflightHasOneOwner

(* The pending ids of a device are finitely many, so adding and removing    *)
(* one counts as it should.                                                  *)
LEMMA PendingCount ==
  ASSUME NEW S \in SUBSET Ids, NEW id
  PROVE  /\ Cardinality(S) \in Nat
         /\ id \notin S => Cardinality(S \cup {id}) = Cardinality(S) + 1
         /\ id \in S => Cardinality(S \ {id}) = Cardinality(S) - 1
<1>1. IsFiniteSet(Ids)
  BY FS_Interval, MaxPressesAssumption DEF Ids
<1>2. IsFiniteSet(S)
  BY <1>1, FS_Subset
<1> QED
  BY <1>2, FS_CardinalityType, FS_AddElement, FS_RemoveElement

(* InHand, phase by phase. *)
Hand(ph, cur, ev, device) ==
  {id \in Ids : \/ ph = "execute" /\ cur.id = id /\ cur.device = device
                \/ /\ ph = "forward" /\ ev.id = id
                   /\ ev.result = "Terminal" /\ ev.device = device}

LEMMA HandByPhase ==
  ASSUME NEW ph, NEW cur, NEW ev, NEW device
  PROVE  /\ ph = "execute" /\ cur.id \in Ids =>
              Hand(ph, cur, ev, device) =
                IF device = cur.device THEN {cur.id} ELSE {}
         /\ ph = "forward" /\ ev.id \in Ids =>
              Hand(ph, cur, ev, device) =
                IF device = ev.device /\ ev.result = "Terminal" THEN {ev.id} ELSE {}
         /\ ph \notin {"execute", "forward"} => Hand(ph, cur, ev, device) = {}
BY DEF Hand

LEMMA InHandIsHand ==
  ASSUME NEW device
  PROVE  /\ InHand(device) = Hand(phase, current, event, device)
         /\ InHand(device)' = Hand(phase', current', event', device)
BY DEF InHand, Hand

(* A step that leaves the network task, the adapters and what is in flight  *)
(* alone.                                                                    *)
LEMMA QuietSafe ==
  ASSUME Safe, UNCHANGED <<adapterVars, phase, current, event>>,
         In("Inflight")' = In("Inflight"),
         \A s \in In("Inflight") : entries'[s] = entries[s]
  PROVE  Safe'
<1>1. PhaseFits' /\ Room'
  BY DEF Safe, PhaseFits, Room, adapterVars
<1>2. ASSUME NEW device \in Device
      PROVE  /\ Inflight(device)' = Inflight(device)
             /\ InHand(device)' = InHand(device)
             /\ InOutbox(device)' = InOutbox(device)
             /\ pending'[device] = pending[device] /\ outbox'[device] = outbox[device]
  BY InflightFrame DEF InHand, InOutbox, adapterVars
<1>3. InflightHasOneOwner'
  BY <1>2 DEF Safe, InflightHasOneOwner
<1> QED
  BY <1>1, <1>3 DEF Safe

(* One device's share of InflightHasOneOwner. *)
OwnedOnce(flying, held, slots, events) ==
  /\ flying = held \cup slots \cup Elems(events)
  /\ held \cap (slots \cup Elems(events)) = {}
  /\ slots \cap Elems(events) = {}
  /\ Distinct(events)

LEMMA OwnersByDevice ==
  /\ InflightHasOneOwner <=> \A device \in Device :
       OwnedOnce(Inflight(device), InHand(device), pending[device], outbox[device])
  /\ InflightHasOneOwner' <=> \A device \in Device :
       OwnedOnce(Inflight(device)', InHand(device)', pending'[device], outbox'[device])
BY DEF InflightHasOneOwner, OwnedOnce, InOutbox, Elems, Distinct

LEMMA ResolveSafe ==
  ASSUME LInv, NEW device \in Device, NEW id \in Ids, Resolve(device, id)
  PROVE  Safe'
<1> USE DEF LInv
<1>1. /\ phase = "tick" /\ phase' = "tick" /\ id \in pending[device]
      /\ pending' = [pending EXCEPT ![device] = @ \ {id}]
      /\ outbox' = [outbox EXCEPT ![device] = PushEvent(@, id)]
      /\ UNCHANGED entries
  BY DEF Resolve, vars
<1>2. /\ pending \in [Device -> SUBSET Ids] /\ outbox \in [Device -> Seq(Ids)]
      /\ outbox[device] \in Seq(Ids) /\ pending[device] \in SUBSET Ids
  BY DEF LifecycleTypeOK
<1>3. /\ Cardinality(pending[device]) \in Nat
      /\ Cardinality(pending[device] \ {id}) = Cardinality(pending[device]) - 1
      /\ Cardinality(pending[device]) + Len(outbox[device]) <= PendingSlots
  BY <1>1, <1>2, PendingCount DEF Room
<1>4. Len(outbox[device]) # EventSlots /\ Cardinality(pending[device]) # 0
  <2>1. Cardinality(pending[device] \ {id}) \in Nat
    BY <1>2, PendingCount
  <2> QED
    BY <1>2, <1>3, <2>1, SlotsAssumption
<1>5. PushEvent(outbox[device], id) = Append(outbox[device], id)
  BY <1>4 DEF PushEvent
<1>6. PhaseFits'
  BY <1>1 DEF PhaseFits
<1>7. Room'
  <2> SUFFICES ASSUME NEW d \in Device
               PROVE  /\ Cardinality(pending'[d]) <= PendingSlots
                      /\ Cardinality(pending'[d]) + Len(outbox'[d]) <= PendingSlots
    BY DEF Room
  <2>1. CASE d = device
    <3>1. /\ pending'[d] = pending[d] \ {id}
          /\ outbox'[d] = Append(outbox[d], id)
          /\ Len(outbox'[d]) = Len(outbox[d]) + 1
      BY <1>1, <1>2, <1>5, <2>1, AppendElems
    <3> QED
      BY <1>2, <1>3, <2>1, <3>1, SlotsAssumption
  <2>2. CASE d # device
    BY <1>1, <1>2, <2>2 DEF Room
  <2> QED
    BY <2>1, <2>2
<1>8. ASSUME NEW d \in Device
      PROVE  OwnedOnce(Inflight(d)', InHand(d)', pending'[d], outbox'[d])
  <2>1. Inflight(d)' = Inflight(d) /\ InHand(d) = {} /\ InHand(d)' = {}
    BY <1>1, InHandIsHand, HandByPhase DEF Inflight, In
  <2>2. OwnedOnce(Inflight(d), InHand(d), pending[d], outbox[d])
    BY OwnersByDevice
  <2>3. CASE d = device
    <3>1. pending'[d] = pending[d] \ {id} /\ outbox'[d] = Append(outbox[d], id)
      BY <1>1, <1>2, <1>5, <2>3
    <3>2. id \notin Elems(outbox[d])
      BY <1>1, <2>2, <2>3 DEF OwnedOnce
    <3>3. Elems(outbox'[d]) = Elems(outbox[d]) \cup {id} /\ Distinct(outbox'[d])
      BY <1>2, <2>2, <2>3, <3>1, <3>2, AppendElems DEF OwnedOnce
    <3> QED
      BY <1>1, <2>1, <2>2, <2>3, <3>1, <3>2, <3>3 DEF OwnedOnce
  <2>4. CASE d # device
    BY <1>1, <1>2, <2>1, <2>2, <2>4
  <2> QED
    BY <2>3, <2>4
<1> QED
  BY <1>6, <1>7, <1>8, OwnersByDevice DEF Safe

LEMMA EndTickSafe ==
  ASSUME LInv, EndTick
  PROVE  Safe'
<1>1. /\ phase = "tick" /\ phase' = "take"
      /\ UNCHANGED <<entries, pending, outbox>>
  BY DEF EndTick, vars
<1>2. PhaseFits' /\ Room'
  BY <1>1 DEF LInv, PhaseFits, Room
<1>3. ASSUME NEW d \in Device
      PROVE  OwnedOnce(Inflight(d)', InHand(d)', pending'[d], outbox'[d])
  <2>1. Inflight(d)' = Inflight(d) /\ InHand(d) = {} /\ InHand(d)' = {}
    BY <1>1, InHandIsHand, HandByPhase DEF Inflight, In
  <2> QED
    BY <1>1, <2>1, OwnersByDevice DEF LInv
<1> QED
  BY <1>2, <1>3, OwnersByDevice DEF Safe

LEMMA TakeCommandSafe ==
  ASSUME LInv, NEW s \in Slots, TakeCommand(s)
  PROVE  Safe'
<1> DEFINE c == entries[s].command
<1>1. /\ phase = "take" /\ phase' = "execute" /\ current' = c /\ Dispatch(s)
      /\ UNCHANGED <<pending, outbox, event>>
  BY DEF TakeCommand, adapterVars
<1>2. /\ c \in Command /\ s \in In("Inflight")' /\ entries'[s].command = c
      /\ c.id \in Ids
  BY <1>1, DispatchInflight DEF LInv, Command, Ids
<1>3. PhaseFits' /\ Room'
  BY <1>1, <1>2 DEF LInv, PhaseFits, Room
<1>4. ASSUME NEW d \in Device
      PROVE  OwnedOnce(Inflight(d)', InHand(d)', pending'[d], outbox'[d])
  <2>1. /\ c.id \notin Inflight(d)
        /\ Inflight(d)' = Inflight(d) \cup (IF d = c.device THEN {c.id} ELSE {})
    BY <1>1, DispatchInflight DEF LInv
  <2>2. InHand(d) = {} /\ InHand(d)' = IF d = c.device THEN {c.id} ELSE {}
    BY <1>1, <1>2, InHandIsHand, HandByPhase
  <2>3. OwnedOnce(Inflight(d), InHand(d), pending[d], outbox[d])
    BY OwnersByDevice DEF LInv
  <2> QED
    BY <1>1, <2>1, <2>2, <2>3 DEF OwnedOnce
<1> QED
  BY <1>3, <1>4, OwnersByDevice DEF Safe

LEMMA TakeNothingSafe ==
  ASSUME LInv, TakeNothing
  PROVE  Safe'
<1>1. /\ phase = "take" /\ phase' = "drain"
      /\ UNCHANGED <<entries, pending, outbox>>
  BY DEF TakeNothing, vars, adapterVars
<1>2. PhaseFits' /\ Room'
  BY <1>1 DEF LInv, PhaseFits, Room
<1>3. ASSUME NEW d \in Device
      PROVE  OwnedOnce(Inflight(d)', InHand(d)', pending'[d], outbox'[d])
  <2>1. Inflight(d)' = Inflight(d) /\ InHand(d) = {} /\ InHand(d)' = {}
    BY <1>1, InHandIsHand, HandByPhase DEF Inflight, In
  <2> QED
    BY <1>1, <2>1, OwnersByDevice DEF LInv
<1> QED
  BY <1>2, <1>3, OwnersByDevice DEF Safe

(* What execute() answers about is the command it was given. *)
LEMMA AnswerFacts ==
  ASSUME LInv, NEW result \in Results, Answer(result)
  PROVE  /\ phase = "execute" /\ phase' = "forward"
         /\ current \in Command /\ current.id \in Ids /\ current.device \in Device
         /\ event' = [device |-> current.device, id |-> current.id, result |-> result]
         /\ event' \in Event
         /\ UNCHANGED <<entries, outbox>>
         /\ \A d : InHand(d) = IF d = current.device THEN {current.id} ELSE {}
<1>1. /\ phase = "execute" /\ phase' = "forward"
      /\ event' = [device |-> current.device, id |-> current.id, result |-> result]
      /\ UNCHANGED <<entries, outbox>>
  BY DEF Answer, vars
<1>2. current \in Command
  BY <1>1 DEF LInv, PhaseFits
<1>3. current.id \in Ids /\ current.device \in Device
  BY <1>2 DEF Command, Ids
<1> QED
  BY <1>1, <1>2, <1>3, InHandIsHand, HandByPhase DEF Event

LEMMA ExecuteNowSafe ==
  ASSUME LInv, ExecuteNow
  PROVE  Safe'
<1>1. Answer("Terminal") /\ UNCHANGED pending
  BY DEF ExecuteNow
<1>2. "Terminal" \in Results
  BY DEF Results
<1>3. /\ phase' = "forward" /\ event' \in Event /\ current.id \in Ids
      /\ event' = [device |-> current.device, id |-> current.id, result |-> "Terminal"]
      /\ UNCHANGED <<entries, outbox>>
      /\ \A d : InHand(d) = IF d = current.device THEN {current.id} ELSE {}
  BY <1>1, <1>2, AnswerFacts
<1>4. PhaseFits' /\ Room'
  BY <1>1, <1>3 DEF LInv, PhaseFits, Room
<1>5. ASSUME NEW d \in Device
      PROVE  OwnedOnce(Inflight(d)', InHand(d)', pending'[d], outbox'[d])
  <2>1. Inflight(d)' = Inflight(d) /\ InHand(d)' = InHand(d)
    BY <1>3, InHandIsHand, HandByPhase, ZenonT(40) DEF Inflight, In
  <2> QED
    BY <1>1, <1>3, <2>1, OwnersByDevice DEF LInv
<1> QED
  BY <1>4, <1>5, OwnersByDevice DEF Safe

LEMMA ExecuteLaterSafe ==
  ASSUME LInv, ExecuteLater
  PROVE  Safe'
<1> DEFINE owner == current.device
           id == current.id
<1>1. /\ Answer("Pending")
      /\ Cardinality(pending[owner]) < PendingSlots
      /\ pending' = [pending EXCEPT ![owner] = @ \cup {id}]
  BY DEF ExecuteLater
<1>2. "Pending" \in Results
  BY DEF Results
<1>3. /\ phase' = "forward" /\ event' \in Event /\ id \in Ids /\ owner \in Device
      /\ event' = [device |-> owner, id |-> id, result |-> "Pending"]
      /\ UNCHANGED <<entries, outbox>>
      /\ \A d : InHand(d) = IF d = owner THEN {id} ELSE {}
  BY <1>1, <1>2, AnswerFacts
<1>4. pending \in [Device -> SUBSET Ids] /\ pending[owner] \in SUBSET Ids
  BY <1>3 DEF LInv, LifecycleTypeOK
<1>5. OwnedOnce(Inflight(owner), {id}, pending[owner], outbox[owner])
  BY <1>3, OwnersByDevice DEF LInv
<1>6. pending'[owner] = pending[owner] \cup {id} /\ id \notin pending[owner]
  BY <1>1, <1>3, <1>4, <1>5 DEF OwnedOnce
<1>7. PhaseFits'
  BY <1>3, <1>6 DEF PhaseFits
<1>8. Room'
  <2>1. Cardinality(pending'[owner]) <= PendingSlots
    BY <1>1, <1>4, <1>6, PendingCount, SlotsAssumption
  <2>2. \A d \in Device : d # owner => pending'[d] = pending[d]
    BY <1>1, <1>4
  <2> QED
    BY <1>3, <2>1, <2>2 DEF LInv, Room
<1>9. ASSUME NEW d \in Device
      PROVE  OwnedOnce(Inflight(d)', InHand(d)', pending'[d], outbox'[d])
  <2>1. Inflight(d)' = Inflight(d) /\ InHand(d)' = {}
    BY <1>3, InHandIsHand, HandByPhase DEF Inflight, In
  <2>2. CASE d = owner
    BY <1>3, <1>5, <1>6, <2>1, <2>2 DEF OwnedOnce
  <2>3. CASE d # owner
    <3>1. pending'[d] = pending[d] /\ InHand(d) = {}
      BY <1>1, <1>3, <1>4, <2>3
    <3> QED
      BY <1>3, <2>1, <3>1, OwnersByDevice DEF LInv
  <2> QED
    BY <2>2, <2>3
<1> QED
  BY <1>7, <1>8, <1>9, OwnersByDevice DEF Safe

(* The slot that a terminal event frees is the one of its command. *)
LEMMA ForwardFacts ==
  ASSUME LInv, NEW s \in Slots, ForwardTerminal(s)
  PROVE  /\ phase = "forward" /\ phase' = "send" /\ Settle(s)
         /\ UNCHANGED <<pending, outbox, event>>
         /\ event \in Event /\ event.id \in Ids /\ event.device \in Device
         /\ event.result = "Terminal"
         /\ entries[s].command.id = event.id
         /\ entries[s].command.device = event.device
         /\ \A d : InHand(d) = IF d = event.device THEN {event.id} ELSE {}
<1>1. /\ phase = "forward" /\ phase' = "send" /\ Settle(s)
      /\ UNCHANGED <<pending, outbox, event>>
      /\ event.result = "Terminal"
      /\ s \in In("Inflight") /\ entries[s].command.id = event.id
  BY DEF ForwardTerminal, adapterVars
<1>2. event \in Event /\ event.id \in Ids /\ event.device \in Device
  BY <1>1 DEF LInv, PhaseFits, Event
<1>3. \A d : InHand(d) = IF d = event.device THEN {event.id} ELSE {}
  BY <1>1, <1>2, InHandIsHand, HandByPhase
<1>4. event.id \in Inflight(event.device)
  BY <1>2, <1>3, OwnersByDevice DEF LInv, OwnedOnce
<1>5. PICK t \in In("Inflight") :
        /\ entries[t].command.device = event.device
        /\ entries[t].command.id = event.id
  BY <1>4 DEF Inflight
<1>6. s \in Used /\ t \in Used
  BY <1>1, <1>5 DEF In, Used
<1>7. s = t
  BY <1>1, <1>5, <1>6, UsedEntry DEF LInv, IInv, PressOrder
<1> QED
  BY <1>1, <1>2, <1>3, <1>5, <1>7

LEMMA ForwardTerminalSafe ==
  ASSUME LInv, NEW s \in Slots, ForwardTerminal(s)
  PROVE  Safe'
<1>1. PhaseFits' /\ Room'
  BY ForwardFacts DEF LInv, PhaseFits, Room
<1>2. ASSUME NEW d \in Device
      PROVE  OwnedOnce(Inflight(d)', InHand(d)', pending'[d], outbox'[d])
  <2>1. Inflight(d)' = Inflight(d) \ (IF d = event.device THEN {event.id} ELSE {})
    BY ForwardFacts, SettleInflight DEF LInv
  <2>2. /\ InHand(d) = IF d = event.device THEN {event.id} ELSE {}
        /\ InHand(d)' = {}
    BY ForwardFacts, InHandIsHand, HandByPhase
  <2>3. OwnedOnce(Inflight(d), InHand(d), pending[d], outbox[d])
    BY OwnersByDevice DEF LInv
  <2> QED
    BY <2>1, <2>2, <2>3, ForwardFacts DEF OwnedOnce
<1> QED
  BY <1>1, <1>2, OwnersByDevice DEF Safe

LEMMA ForwardPendingSafe ==
  ASSUME LInv, ForwardPending
  PROVE  Safe'
<1>1. /\ phase = "forward" /\ phase' = "send" /\ event.result = "Pending"
      /\ event \in Event /\ event.id \in Ids
      /\ UNCHANGED <<entries, pending, outbox, event>>
  BY DEF ForwardPending, vars, adapterVars, LInv, PhaseFits, Event
<1>2. PhaseFits' /\ Room'
  BY <1>1 DEF LInv, PhaseFits, Room
<1>3. ASSUME NEW d \in Device
      PROVE  OwnedOnce(Inflight(d)', InHand(d)', pending'[d], outbox'[d])
  <2>1. Inflight(d)' = Inflight(d) /\ InHand(d) = {} /\ InHand(d)' = {}
    BY <1>1, InHandIsHand, HandByPhase DEF Inflight, In
  <2> QED
    BY <1>1, <2>1, OwnersByDevice DEF LInv
<1> QED
  BY <1>2, <1>3, OwnersByDevice DEF Safe

LEMMA SendSafe ==
  ASSUME LInv, Send
  PROVE  Safe'
<1>1. /\ phase = "send" /\ phase' = "drain"
      /\ UNCHANGED <<entries, pending, outbox>>
  BY DEF Send, vars, adapterVars
<1>2. PhaseFits' /\ Room'
  BY <1>1 DEF LInv, PhaseFits, Room
<1>3. ASSUME NEW d \in Device
      PROVE  OwnedOnce(Inflight(d)', InHand(d)', pending'[d], outbox'[d])
  <2>1. Inflight(d)' = Inflight(d) /\ InHand(d) = {} /\ InHand(d)' = {}
    BY <1>1, InHandIsHand, HandByPhase DEF Inflight, In
  <2> QED
    BY <1>1, <2>1, OwnersByDevice DEF LInv
<1> QED
  BY <1>2, <1>3, OwnersByDevice DEF Safe

LEMMA DrainSafe ==
  ASSUME LInv, NEW device \in Device, Drain(device)
  PROVE  Safe'
<1> DEFINE q == outbox[device]
           id == Head(q)
<1>1. /\ phase = "drain" /\ phase' = "forward" /\ q # <<>>
      /\ outbox' = [outbox EXCEPT ![device] = Tail(@)]
      /\ event' = [device |-> device, id |-> id, result |-> "Terminal"]
      /\ UNCHANGED <<entries, pending>>
  BY DEF Drain, vars
<1>2. outbox \in [Device -> Seq(Ids)] /\ q \in Seq(Ids)
  BY DEF LInv, LifecycleTypeOK
<1>3. OwnedOnce(Inflight(device), {}, pending[device], q)
  <2>1. InHand(device) = {}
    BY <1>1, InHandIsHand, HandByPhase
  <2> QED
    BY <2>1, OwnersByDevice DEF LInv
<1>4. /\ id \in Ids /\ id \in Elems(q)
      /\ Elems(Tail(q)) = Elems(q) \ {id} /\ Distinct(Tail(q))
  BY <1>1, <1>2, <1>3, TailElems DEF OwnedOnce
<1>5. PhaseFits' /\ Room'
  BY <1>1, <1>4 DEF LInv, PhaseFits, Room, Event, Results
<1>6. ASSUME NEW d \in Device
      PROVE  OwnedOnce(Inflight(d)', InHand(d)', pending'[d], outbox'[d])
  <2>1. /\ Inflight(d)' = Inflight(d) /\ InHand(d) = {}
        /\ InHand(d)' = IF d = device THEN {id} ELSE {}
    BY <1>1, <1>4, InHandIsHand, HandByPhase DEF Inflight, In
  <2>2. CASE d = device
    <3>1. outbox'[d] = Tail(q)
      BY <1>1, <1>2, <2>2
    <3> QED
      BY <1>1, <1>3, <1>4, <2>1, <2>2, <3>1 DEF OwnedOnce
  <2>3. CASE d # device
    <3>1. outbox'[d] = outbox[d]
      BY <1>1, <1>2, <2>3
    <3> QED
      BY <1>1, <2>1, <2>3, <3>1, OwnersByDevice DEF LInv
  <2> QED
    BY <2>2, <2>3
<1> QED
  BY <1>5, <1>6, OwnersByDevice DEF Safe

LEMMA EndLoopSafe ==
  ASSUME LInv, EndLoop
  PROVE  Safe'
<1>1. /\ phase = "drain" /\ phase' = "tick"
      /\ \A device \in Device : outbox[device] = <<>>
      /\ UNCHANGED <<entries, pending, outbox>>
  BY DEF EndLoop, vars, adapterVars
<1>2. PhaseFits'
  BY <1>1 DEF PhaseFits
<1>3. Room'
  <2> SUFFICES ASSUME NEW d \in Device
               PROVE  /\ Cardinality(pending'[d]) <= PendingSlots
                      /\ Cardinality(pending'[d]) + Len(outbox'[d]) <= PendingSlots
    BY DEF Room
  <2>1. pending[d] \in SUBSET Ids
    BY DEF LInv, LifecycleTypeOK
  <2>2. Cardinality(pending[d]) \in Nat /\ Cardinality(pending[d]) <= PendingSlots
    BY <2>1, PendingCount DEF LInv, Room
  <2>3. Len(outbox'[d]) = 0
    BY <1>1
  <2> QED
    BY <1>1, <2>2, <2>3
<1>4. ASSUME NEW d \in Device
      PROVE  OwnedOnce(Inflight(d)', InHand(d)', pending'[d], outbox'[d])
  <2>1. Inflight(d)' = Inflight(d) /\ InHand(d) = {} /\ InHand(d)' = {}
    BY <1>1, InHandIsHand, HandByPhase DEF Inflight, In
  <2> QED
    BY <1>1, <2>1, OwnersByDevice DEF LInv
<1> QED
  BY <1>2, <1>3, <1>4, OwnersByDevice DEF Safe

-----------------------------------------------------------------------------
(* What the tasks do to the table is what the dispatcher allows. *)
LEMMA LifecycleStepsTable == LifecycleNext => [Next]_vars
<1>1. ASSUME NEW device \in Device, NEW kind \in Kind,
             Press(device, kind) \/ PressRefused(device, kind)
      PROVE  Next
  BY <1>1 DEF Press, PressRefused, Next
<1>2. ASSUME NEW s \in Slots, TakeCommand(s) \/ ForwardTerminal(s)
      PROVE  Next
  BY <1>2 DEF TakeCommand, ForwardTerminal, Next
<1>3. ASSUME NEW device, NEW id, Resolve(device, id) PROVE UNCHANGED vars
  BY <1>3 DEF Resolve
<1>4. ASSUME NEW device, Drain(device) PROVE UNCHANGED vars
  BY <1>4 DEF Drain
<1>5. ASSUME \/ Receive \/ EndTick \/ TakeNothing \/ ExecuteNow \/ ExecuteLater
             \/ ForwardPending \/ Send \/ EndLoop
      PROVE  UNCHANGED vars
  BY <1>5 DEF Receive, EndTick, TakeNothing, ExecuteNow, ExecuteLater, Answer,
     ForwardPending, Send, EndLoop
<1> QED
  BY <1>1, <1>2, <1>3, <1>4, <1>5 DEF LifecycleNext, NetworkTask, UiTask, Slots

LEMMA UiTypes ==
  ASSUME LInv, TypeOK', UiTask
  PROVE  LifecycleTypeOK'
<1>1. /\ phase \in {"tick", "take", "execute", "forward", "send", "drain"}
      /\ current \in {NoCommand} \cup [device : Device, kind : Kind, id : Ids]
      /\ event \in {NoEvent} \cup Event
      /\ pending \in [Device -> SUBSET Ids]
      /\ left \in [Ids -> 0..Patience]
      /\ outbox \in [Device -> Seq(Ids)]
      /\ eventQueue \in Seq(Event)
      /\ lastDeviceResult \in [Device -> Results]
      /\ executed \in [Device \X Kind -> 0..MaxPresses]
      /\ dropped \in BOOLEAN
  BY DEF LInv, LifecycleTypeOK
<1>2. UNCHANGED <<phase, current, event, pending, left, outbox, executed, dropped>>
  BY DEF UiTask, Press, PressRefused, Receive, adapterVars, uiVars
<1>3. eventQueue' \in Seq(Event) /\ lastDeviceResult' \in [Device -> Results]
  <2>1. ASSUME NEW device \in Device, NEW kind \in Kind, Press(device, kind)
        PROVE  eventQueue' \in Seq(Event) /\ lastDeviceResult' \in [Device -> Results]
    BY <1>1, <2>1 DEF Press, Results
  <2>2. ASSUME NEW device \in Device, NEW kind \in Kind, PressRefused(device, kind)
        PROVE  eventQueue' \in Seq(Event) /\ lastDeviceResult' \in [Device -> Results]
    BY <1>1, <2>2 DEF PressRefused, uiVars
  <2>3. ASSUME Receive
        PROVE  eventQueue' \in Seq(Event) /\ lastDeviceResult' \in [Device -> Results]
    <3>1. /\ eventQueue # <<>> /\ eventQueue' = Tail(eventQueue)
          /\ lastDeviceResult' =
               [lastDeviceResult EXCEPT ![Head(eventQueue).device] = Head(eventQueue).result]
      BY <2>3 DEF Receive
    <3>2. Head(eventQueue) \in Event /\ Tail(eventQueue) \in Seq(Event)
      BY <1>1, <3>1, TailElems
    <3>3. Head(eventQueue).result \in Results
      BY <3>2 DEF Event
    <3> QED
      BY <1>1, <3>1, <3>2, <3>3
  <2> QED
    BY <2>1, <2>2, <2>3 DEF UiTask
<1> QED
  BY <1>1, <1>2, <1>3 DEF LifecycleTypeOK

LEMMA NetworkTypes ==
  ASSUME LInv, TypeOK', NetworkTask
  PROVE  LifecycleTypeOK'
<1>1. /\ phase \in {"tick", "take", "execute", "forward", "send", "drain"}
      /\ current \in {NoCommand} \cup Command
      /\ event \in {NoEvent} \cup Event
      /\ pending \in [Device -> SUBSET Ids]
      /\ left \in [Ids -> 0..Patience]
      /\ outbox \in [Device -> Seq(Ids)]
      /\ eventQueue \in Seq(Event)
      /\ lastDeviceResult \in [Device -> Results]
      /\ executed \in [Device \X Kind -> 0..MaxPresses]
      /\ dropped \in BOOLEAN
  BY DEF LInv, LifecycleTypeOK, Command, Ids
<1> DEFINE Others == /\ current' \in {NoCommand} \cup Command
                     /\ event' \in {NoEvent} \cup Event
                     /\ pending' \in [Device -> SUBSET Ids]
                     /\ left' \in [Ids -> 0..Patience]
                     /\ outbox' \in [Device -> Seq(Ids)]
                     /\ eventQueue' \in Seq(Event)
                     /\ lastDeviceResult' \in [Device -> Results]
                     /\ executed' \in [Device \X Kind -> 0..MaxPresses]
                     /\ dropped' \in BOOLEAN
<1>2. phase' \in {"tick", "take", "execute", "forward", "send", "drain"}
  BY <1>1 DEF NetworkTask, Resolve, EndTick, TakeCommand, ForwardTerminal, TakeNothing,
     ExecuteNow, ExecuteLater, Answer, ForwardPending, Send, Drain, EndLoop
<1>3. ASSUME NEW device \in Device, NEW id \in Ids, Resolve(device, id)
      PROVE  Others
  <2>1. /\ pending' = [pending EXCEPT ![device] = @ \ {id}]
        /\ outbox' = [outbox EXCEPT ![device] = PushEvent(@, id)]
        /\ UNCHANGED <<left, uiVars, current, event, executed>>
    BY <1>3 DEF Resolve
  <2>2. outbox[device] \in Seq(Ids) /\ pending[device] \ {id} \in SUBSET Ids
    BY <1>1
  <2>3. PushEvent(outbox[device], id) \in Seq(Ids)
    <3>1. CASE Len(outbox[device]) = EventSlots /\ outbox[device] # <<>>
      BY <2>2, <3>1, AppendElems, TailElems DEF PushEvent
    <3>2. CASE Len(outbox[device]) # EventSlots
      BY <2>2, <3>2, AppendElems DEF PushEvent
    <3>3. Len(outbox[device]) = EventSlots => outbox[device] # <<>>
      BY <2>2, SlotsAssumption
    <3> QED
      BY <3>1, <3>2, <3>3
  <2> QED
    BY <1>1, <2>1, <2>2, <2>3 DEF uiVars
<1>4. ASSUME EndTick PROVE Others
  <2>1. left' \in [Ids -> 0..Patience]
    <3>1. \A id \in Ids : left[id] \in 0..Patience
      BY <1>1
    <3>2. \A id \in Ids, device \in Device :
            id \in pending[device] => left[id] - 1 \in 0..Patience
      BY <1>4, <3>1, SlotsAssumption DEF EndTick
    <3> QED
      BY <1>4, <3>1, <3>2 DEF EndTick
  <2> QED
    BY <1>1, <1>4, <2>1 DEF EndTick, uiVars
<1>5. ASSUME NEW s \in Slots, TakeCommand(s) PROVE Others
  <2>1. Dispatch(s) /\ current' = entries[s].command
        /\ UNCHANGED <<adapterVars, uiVars, event, executed>>
    BY <1>5 DEF TakeCommand
  <2>2. current' \in Command
    BY <2>1, DispatchInflight DEF LInv
  <2> QED
    BY <1>1, <2>1, <2>2 DEF adapterVars, uiVars
<1>6. ASSUME NEW s \in Slots, ForwardTerminal(s) PROVE Others
  BY <1>1, <1>6 DEF ForwardTerminal, adapterVars, uiVars
<1>7. ASSUME NEW result \in Results, Answer(result)
      PROVE  /\ current' \in {NoCommand} \cup Command /\ event' \in {NoEvent} \cup Event
             /\ executed' \in [Device \X Kind -> 0..MaxPresses]
             /\ UNCHANGED <<outbox, eventQueue, lastDeviceResult, dropped>>
  <2>1. event' \in Event /\ current \in Command
    BY <1>7, AnswerFacts
  <2>2. current.id \in 0..MaxPresses
    BY <2>1, MaxPressesAssumption DEF Command
  <2> QED
    BY <1>1, <1>7, <2>1, <2>2 DEF Answer, uiVars
<1>8. ASSUME ExecuteNow PROVE Others
  <2>1. Answer("Terminal") /\ "Terminal" \in Results /\ UNCHANGED <<pending, left>>
    BY <1>8 DEF ExecuteNow, Results
  <2> QED
    BY <1>1, <1>7, <2>1
<1>9. ASSUME ExecuteLater PROVE Others
  <2>1. /\ Answer("Pending") /\ "Pending" \in Results
        /\ pending' = [pending EXCEPT ![current.device] = @ \cup {current.id}]
        /\ left' = [left EXCEPT ![current.id] = Patience]
    BY <1>9 DEF ExecuteLater, Results
  <2>2. current.id \in Ids /\ Patience \in 0..Patience
    BY <2>1, AnswerFacts, SlotsAssumption
  <2>3. pending' \in [Device -> SUBSET Ids] /\ left' \in [Ids -> 0..Patience]
    BY <1>1, <2>1, <2>2
  <2> QED
    BY <1>1, <1>7, <2>1, <2>3
<1>10. ASSUME Send PROVE Others
  <2>1. phase = "send" /\ event' = NoEvent
        /\ eventQueue' \in {eventQueue, Append(eventQueue, event)}
        /\ dropped' \in {dropped, TRUE}
        /\ UNCHANGED <<adapterVars, lastDeviceResult, current, executed>>
    BY <1>10 DEF Send
  <2>2. event \in Event
    BY <2>1 DEF LInv, PhaseFits
  <2>3. Append(eventQueue, event) \in Seq(Event)
    BY <1>1, <2>2, AppendElems
  <2> QED
    BY <1>1, <2>1, <2>3 DEF adapterVars
<1>11. ASSUME NEW device \in Device, Drain(device) PROVE Others
  <2>1. /\ outbox[device] # <<>>
        /\ outbox' = [outbox EXCEPT ![device] = Tail(@)]
        /\ event' = [device |-> device, id |-> Head(outbox[device]), result |-> "Terminal"]
        /\ UNCHANGED <<pending, left, uiVars, current, executed>>
    BY <1>11 DEF Drain
  <2>2. Head(outbox[device]) \in Ids /\ Tail(outbox[device]) \in Seq(Ids)
    BY <1>1, <2>1, TailElems
  <2>3. event' \in Event
    BY <2>1, <2>2 DEF Event, Results
  <2> QED
    BY <1>1, <2>1, <2>2, <2>3 DEF uiVars
<1>12. ASSUME TakeNothing \/ ForwardPending \/ EndLoop PROVE Others
  BY <1>1, <1>12 DEF TakeNothing, ForwardPending, EndLoop, adapterVars, uiVars
<1>13. Others
  BY <1>3, <1>4, <1>5, <1>6, <1>8, <1>9, <1>10, <1>11, <1>12 DEF NetworkTask, Slots
<1> QED
  BY <1>2, <1>13 DEF LifecycleTypeOK, Command, Ids

LEMMA NextSafe ==
  ASSUME LInv, LifecycleNext
  PROVE  Safe'
<1>1. Safe
  BY DEF LInv, Safe
<1>2. ASSUME NEW device \in Device, NEW kind \in Kind, Press(device, kind)
      PROVE  Safe'
  BY <1>1, <1>2, EnqueueInflight, QuietSafe DEF Press, LInv, IInv
<1>3. ASSUME NEW device \in Device, NEW kind \in Kind, PressRefused(device, kind)
      PROVE  Safe'
  <2>1. UNCHANGED <<entries, adapterVars, phase, current, event>>
    BY <1>3 DEF PressRefused, EnqueueRefused
  <2> QED
    BY <1>1, <2>1, QuietSafe DEF In
<1>4. ASSUME Receive PROVE Safe'
  <2>1. UNCHANGED <<entries, adapterVars, phase, current, event>>
    BY <1>4 DEF Receive, vars
  <2> QED
    BY <1>1, <2>1, QuietSafe DEF In
<1>5. UiTask => Safe'
  BY <1>2, <1>3, <1>4 DEF UiTask
<1>6. ASSUME NEW device \in Device, NEW id \in Ids, Resolve(device, id) PROVE Safe'
  BY <1>6, ResolveSafe
<1>7. ASSUME NEW s \in Slots, TakeCommand(s) \/ ForwardTerminal(s) PROVE Safe'
  BY <1>7, TakeCommandSafe, ForwardTerminalSafe
<1>8. ASSUME NEW device \in Device, Drain(device) PROVE Safe'
  BY <1>8, DrainSafe
<1>9. NetworkTask => Safe'
  BY <1>6, <1>7, <1>8, EndTickSafe, TakeNothingSafe, ExecuteNowSafe, ExecuteLaterSafe,
     ForwardPendingSafe, SendSafe, EndLoopSafe DEF NetworkTask, Slots
<1> QED
  BY <1>5, <1>9 DEF LifecycleNext

LEMMA InitLInv == LifecycleInit => LInv
<1> SUFFICES ASSUME LifecycleInit PROVE LInv
  OBVIOUS
<1>1. IInv
  BY InitIInv DEF LifecycleInit
<1>2. In("Inflight") = {}
  BY DEF LifecycleInit, Init, In, None
<1>3. LifecycleTypeOK
  <2>1. left \in [Ids -> 0..Patience]
    BY SlotsAssumption DEF LifecycleInit
  <2>2. executed \in [Device \X Kind -> 0..MaxPresses]
    BY MaxPressesAssumption DEF LifecycleInit
  <2>3. TypeOK
    BY <1>1 DEF IInv
  <2>4. /\ phase \in {"tick", "take", "execute", "forward", "send", "drain"}
        /\ current \in {NoCommand} \cup [device : Device, kind : Kind, id : Ids]
        /\ event \in {NoEvent} \cup Event
        /\ pending \in [Device -> SUBSET Ids]
    BY DEF LifecycleInit
  <2>5. outbox \in [Device -> Seq(Ids)] /\ eventQueue \in Seq(Event)
    BY DEF LifecycleInit
  <2>6. lastDeviceResult \in [Device -> Results] /\ dropped \in BOOLEAN
    BY DEF LifecycleInit, Results
  <2> QED
    BY <2>1, <2>2, <2>3, <2>4, <2>5, <2>6 DEF LifecycleTypeOK
<1>4. PhaseFits
  BY DEF LifecycleInit, PhaseFits
<1>5. Room
  <2>1. Cardinality({}) = 0
    BY FS_EmptySet
  <2> QED
    BY <2>1, SlotsAssumption DEF LifecycleInit, Room
<1>6. ASSUME NEW d \in Device
      PROVE  OwnedOnce(Inflight(d), InHand(d), pending[d], outbox[d])
  <2>1. Inflight(d) = {} /\ InHand(d) = {}
    BY <1>2 DEF Inflight, InHand, LifecycleInit
  <2>2. pending[d] = {} /\ outbox[d] = <<>>
    BY DEF LifecycleInit
  <2> QED
    BY <2>1, <2>2 DEF OwnedOnce, Elems, Distinct
<1> QED
  BY <1>1, <1>3, <1>4, <1>5, <1>6, OwnersByDevice DEF LInv

LEMMA NextLInv == LInv /\ [LifecycleNext]_lifecycleVars => LInv'
<1> SUFFICES ASSUME LInv, [LifecycleNext]_lifecycleVars PROVE LInv'
  OBVIOUS
<1>1. CASE LifecycleNext
  <2>1. IInv'
    BY <1>1, LifecycleStepsTable, NextIInv DEF LInv
  <2>2. LifecycleTypeOK'
    BY <1>1, <2>1, UiTypes, NetworkTypes DEF IInv, LifecycleNext
  <2> QED
    BY <1>1, <2>1, <2>2, NextSafe DEF LInv, Safe
<1>2. CASE UNCHANGED lifecycleVars
  <2>1. UNCHANGED <<adapterVars, phase, current, event, entries>>
    BY <1>2 DEF lifecycleVars, vars
  <2>2. Safe'
    BY <2>1, QuietSafe DEF LInv, Safe, In
  <2>3. IInv'
    BY <1>2, NextIInv DEF LInv, lifecycleVars
  <2>4. LifecycleTypeOK'
    BY <1>2, <2>3 DEF LInv, IInv, LifecycleTypeOK, lifecycleVars, adapterVars, uiVars
  <2> QED
    BY <2>2, <2>3, <2>4 DEF LInv, Safe
<1> QED
  BY <1>1, <1>2

LEMMA SpecLInv == LifecycleSpec => []LInv
BY InitLInv, NextLInv, PTL DEF LifecycleSpec

(* Commands, events and icons keep their types in every phase of the loop    *)
(* (main.cpp:868-898).                                                        *)
THEOREM LifecycleTypeCorrect == LifecycleSpec => []LifecycleTypeOK
<1>1. LInv => LifecycleTypeOK
  BY DEF LInv
<1> QED
  BY <1>1, SpecLInv, PTL

(* No in-flight slot is orphaned, completed twice or outlived, for any       *)
(* number of slots and presses, provided an event buffer holds as many       *)
(* events as there are pending slots: 12 and 20 against 8 (main.cpp:801-816, *)
(* EventBuffer.h:11).                                                         *)
THEOREM EveryInflightIsOwned == LifecycleSpec => []InflightHasOneOwner
<1>1. LInv => InflightHasOneOwner
  BY DEF LInv
<1> QED
  BY <1>1, SpecLInv, PTL

-----------------------------------------------------------------------------
(* The strengthening of LastExecutedIsNewest and ExecutionFollowsPresses.    *)
Waits(device, kind) ==
  \E s \in In("Queued") :
    entries[s].command.device = device /\ entries[s].command.kind = kind

(* Nothing in the table is older than what was executed of its property.    *)
ExecutedInOrder ==
  \A device \in Device, kind \in CoalescableKind :
    /\ executed[<<device, kind>>] < nextCommandId
    /\ \A s \in Used :
         entries[s].command.device = device /\ entries[s].command.kind = kind
         => executed[<<device, kind>>] <= entries[s].command.id

(* A property with nothing waiting has its newest press in execute(), or has *)
(* executed it.                                                              *)
NewestReached ==
  \A device \in Device, kind \in CoalescableKind :
    ~Waits(device, kind) =>
      newest[<<device, kind>>] =
        IF phase = "execute" /\ current.device = device /\ current.kind = kind
        THEN current.id ELSE executed[<<device, kind>>]

EInv == LInv /\ ExecutedInOrder /\ NewestReached

LEMMA EnqueueTable ==
  ASSUME TypeOK, NEW device \in Device, NEW kind \in Kind, Enqueue(device, kind)
  PROVE  \E s \in Slots :
           /\ entries'[s].state = "Queued"
           /\ entries'[s].command = [device |-> device, kind |-> kind, id |-> nextCommandId]
           /\ \A t \in Slots : t # s => entries'[t] = entries[t]
           /\ s \in In("Queued") => /\ entries[s].command.device = device
                                    /\ entries[s].command.kind = kind
           /\ entries[s].state \in {"Queued", "Free"}
<1> DEFINE c == [device |-> device, kind |-> kind, id |-> nextCommandId]
<1>1. PICK s \in PushTargets(c) :
        entries' = [entries EXCEPT ![s] =
          [state |-> "Queued", command |-> c, sequence |-> nextSequence]]
  BY DEF Enqueue, Push
<1>2. /\ s \in Slots /\ entries[s].state \in {"Queued", "Free"}
      /\ s \in In("Queued") => SameProperty(entries[s].command, c)
  BY DEF PushTargets, In
<1>3. /\ entries'[s] = [state |-> "Queued", command |-> c, sequence |-> nextSequence]
      /\ \A t \in Slots : t # s => entries'[t] = entries[t]
  BY <1>1, <1>2 DEF TypeOK
<1> QED
  BY <1>2, <1>3 DEF SameProperty

LEMMA PressExecuted ==
  ASSUME EInv, NEW device \in Device, NEW kind \in Kind, Press(device, kind)
  PROVE  ExecutedInOrder' /\ NewestReached'
<1>1. /\ Enqueue(device, kind) /\ UNCHANGED <<phase, current, executed>>
      /\ nextCommandId' = nextCommandId + 1
      /\ newest' = [newest EXCEPT ![<<device, kind>>] = nextCommandId]
  BY DEF Press, Enqueue
<1>2. TypeOK /\ nextCommandId \in Nat /\ executed \in [Device \X Kind -> 0..MaxPresses]
  BY MaxPressesAssumption DEF EInv, LInv, IInv, TypeOK, LifecycleTypeOK
<1>3. PICK s \in Slots :
        /\ entries'[s].state = "Queued"
        /\ entries'[s].command = [device |-> device, kind |-> kind, id |-> nextCommandId]
        /\ \A t \in Slots : t # s => entries'[t] = entries[t]
        /\ s \in In("Queued") => /\ entries[s].command.device = device
                                 /\ entries[s].command.kind = kind
        /\ entries[s].state \in {"Queued", "Free"}
  BY <1>1, <1>2, EnqueueTable
<1>4. /\ entries'[s].command.device = device /\ entries'[s].command.kind = kind
      /\ entries'[s].command.id = nextCommandId
  BY <1>3
<1>5. ASSUME NEW d \in Device, NEW k \in CoalescableKind
      PROVE  /\ executed'[<<d, k>>] < nextCommandId'
             /\ \A t \in Used' :
                  entries'[t].command.device = d /\ entries'[t].command.kind = k
                  => executed'[<<d, k>>] <= entries'[t].command.id
  <2>1. k \in Kind /\ executed[<<d, k>>] \in Nat
    BY <1>2, KindAssumption
  <2>2. /\ executed[<<d, k>>] < nextCommandId
        /\ \A t \in Used :
             entries[t].command.device = d /\ entries[t].command.kind = k
             => executed[<<d, k>>] <= entries[t].command.id
    BY DEF EInv, ExecutedInOrder
  <2>3. \A t \in Used' : t = s \/ (t \in Used /\ entries'[t] = entries[t])
    BY <1>3 DEF Used
  <2> QED
    BY <1>1, <1>2, <1>4, <2>1, <2>2, <2>3
<1>6. ASSUME NEW d \in Device, NEW k \in CoalescableKind, ~Waits(d, k)'
      PROVE  newest'[<<d, k>>] =
               IF phase' = "execute" /\ current'.device = d /\ current'.kind = k
               THEN current'.id ELSE executed'[<<d, k>>]
  <2>1. s \in In("Queued")'
    BY <1>3 DEF In
  <2>2. <<d, k>> # <<device, kind>>
    BY <1>4, <1>6, <2>1 DEF Waits
  <2>3. ~Waits(d, k)
    BY <1>3, <1>6, <2>2 DEF Waits, In
  <2>4. newest'[<<d, k>>] = newest[<<d, k>>]
    BY <1>1, <1>2, <2>2, KindAssumption DEF TypeOK
  <2> QED
    BY <1>1, <2>3, <2>4 DEF EInv, NewestReached
<1> QED
  BY <1>5, <1>6 DEF ExecutedInOrder, NewestReached

LEMMA TakeCommandExecuted ==
  ASSUME EInv, NEW s \in Slots, TakeCommand(s)
  PROVE  ExecutedInOrder' /\ NewestReached'
<1> DEFINE c == entries[s].command
<1>1. /\ phase = "take" /\ phase' = "execute" /\ current' = c /\ Dispatch(s)
      /\ UNCHANGED <<executed, nextCommandId, newest>>
  BY DEF TakeCommand, Dispatch
<1>2. /\ TypeOK /\ OneWaitingOneActive /\ PressOrder /\ WaitingIsNewer /\ NewestIsHeld
  BY DEF EInv, LInv, IInv
<1>3. /\ c \in Command /\ s \in In("Inflight")' /\ entries'[s].command = c
      /\ \A t \in Slots : t # s => entries'[t] = entries[t]
  BY <1>1, DispatchInflight DEF EInv, LInv
<1>4. s \in In("Queued") /\ s \in Used
  BY <1>1 DEF Dispatch, Take, Takeable, In, Used
<1>5. Used' = Used /\ In("Queued")' = In("Queued") \ {s}
  BY <1>3, <1>4 DEF Used, In
<1>6. \A t \in Used : entries'[t].command = entries[t].command
  BY <1>3 DEF Used
<1>7. ExecutedInOrder'
  BY <1>1, <1>5, <1>6 DEF EInv, ExecutedInOrder
<1>8. ASSUME Coalescable(c) PROVE c.id = newest[PropertyOf(c)]
  <2>1. PICK t \in Used : /\ SameProperty(c, entries[t].command)
                          /\ entries[t].command.id = newest[PropertyOf(c)]
                          /\ c.id <= entries[t].command.id
    BY <1>2, <1>4, <1>8 DEF NewestIsHeld
  <2>2. CASE t \in In("Queued")
    <3>1. t = s
      BY <1>2, <1>4, <1>8, <2>1, <2>2 DEF OneWaitingOneActive, In
    <3> QED
      BY <2>1, <3>1
  <2>3. CASE t \in In("Inflight")
    <3>1. entries[t].sequence < entries[s].sequence /\ t # s
      BY <1>2, <1>4, <1>8, <2>1, <2>3 DEF WaitingIsNewer, In
    <3>2. entries[t].command.id < c.id
      BY <1>2, <1>4, <3>1, UsedEntry DEF PressOrder
    <3> QED
      BY <1>2, <1>4, <2>1, <3>2, UsedEntry
  <2> QED
    BY <1>2, <2>2, <2>3, UsedEntry DEF In
<1>9. ASSUME NEW d \in Device, NEW k \in CoalescableKind, ~Waits(d, k)'
      PROVE  newest'[<<d, k>>] =
               IF phase' = "execute" /\ current'.device = d /\ current'.kind = k
               THEN current'.id ELSE executed'[<<d, k>>]
  <2>1. CASE c.device = d /\ c.kind = k
    BY <1>1, <1>8, <2>1 DEF Coalescable, PropertyOf
  <2>2. CASE ~(c.device = d /\ c.kind = k)
    <3>1. ~Waits(d, k)
      BY <1>5, <1>6, <1>9, <2>2 DEF Waits, In, Used
    <3> QED
      BY <1>1, <2>2, <3>1 DEF EInv, NewestReached
  <2> QED
    BY <2>1, <2>2
<1> QED
  BY <1>7, <1>9 DEF NewestReached

LEMMA AnswerExecuted ==
  ASSUME EInv, NEW result \in Results, Answer(result)
  PROVE  /\ ExecutedInOrder' /\ NewestReached'
         /\ \A p \in Device \X CoalescableKind : executed[p] <= executed'[p]
<1>1. /\ phase = "execute" /\ phase' = "forward"
      /\ executed' = [executed EXCEPT ![<<current.device, current.kind>>] = current.id]
      /\ UNCHANGED <<entries, nextCommandId, newest>>
  BY DEF Answer, vars
<1>2. /\ TypeOK /\ OneWaitingOneActive /\ PressOrder /\ WaitingIsNewer /\ CountersAhead
      /\ executed \in [Device \X Kind -> 0..MaxPresses]
  BY DEF EInv, LInv, IInv, LifecycleTypeOK
<1>3. PICK s \in In("Inflight") : entries[s].command = current
  BY <1>1 DEF EInv, LInv, PhaseFits
<1>4. s \in Used /\ current.device \in Device /\ current.kind \in Kind
      /\ current.id \in 1..MaxPresses
  BY <1>2, <1>3, UsedEntry DEF In, Used
<1>5. ASSUME NEW d \in Device, NEW k \in CoalescableKind
      PROVE  /\ executed'[<<d, k>>] < nextCommandId
             /\ executed[<<d, k>>] <= executed'[<<d, k>>]
             /\ \A t \in Used :
                  entries[t].command.device = d /\ entries[t].command.kind = k
                  => executed'[<<d, k>>] <= entries[t].command.id
  <2>1. /\ <<d, k>> \in Device \X Kind
        /\ executed[<<d, k>>] \in Nat
        /\ executed[<<d, k>>] < nextCommandId
        /\ \A t \in Used :
             entries[t].command.device = d /\ entries[t].command.kind = k
             => executed[<<d, k>>] <= entries[t].command.id
    BY <1>2, KindAssumption DEF EInv, ExecutedInOrder
  <2>2. CASE current.device = d /\ current.kind = k
    <3>1. executed'[<<d, k>>] = current.id
      BY <1>1, <1>2, <2>1, <2>2
    <3>2. current.id < nextCommandId
      BY <1>2, <1>3, <1>4 DEF CountersAhead
    <3>3. executed[<<d, k>>] <= current.id
      BY <1>3, <1>4, <2>1, <2>2
    <3>4. ASSUME NEW t \in Used,
                 entries[t].command.device = d, entries[t].command.kind = k
          PROVE  current.id <= entries[t].command.id
      <4>0. /\ Coalescable(entries[s].command) /\ Coalescable(entries[t].command)
            /\ SameProperty(entries[s].command, entries[t].command)
            /\ SameProperty(entries[t].command, entries[s].command)
        BY <1>3, <2>2, <3>4 DEF Coalescable, SameProperty
      <4>1. CASE t \in In("Inflight")
        <5>1. t = s
          BY <1>2, <1>3, <1>4, <4>0, <4>1 DEF OneWaitingOneActive, In
        <5> QED
          BY <1>3, <1>4, <5>1
      <4>2. CASE t \in In("Queued")
        <5>1. entries[s].sequence < entries[t].sequence /\ s # t
          BY <1>2, <1>3, <4>0, <4>2 DEF WaitingIsNewer, In
        <5>2. entries[s].command.id < entries[t].command.id
          BY <1>2, <1>4, <5>1, UsedEntry DEF PressOrder
        <5> QED
          BY <1>2, <1>3, <1>4, <5>2, UsedEntry
      <4> QED
        BY <1>2, <4>1, <4>2, UsedEntry DEF In
    <3> QED
      BY <3>1, <3>2, <3>3, <3>4
  <2>3. CASE ~(current.device = d /\ current.kind = k)
    <3>1. executed'[<<d, k>>] = executed[<<d, k>>]
      BY <1>1, <1>2, <2>1, <2>3
    <3> QED
      BY <2>1, <3>1
  <2> QED
    BY <2>2, <2>3
<1>6. ASSUME NEW d \in Device, NEW k \in CoalescableKind, ~Waits(d, k)'
      PROVE  newest'[<<d, k>>] = executed'[<<d, k>>]
  <2>1. ~Waits(d, k) /\ <<d, k>> \in Device \X Kind
    BY <1>1, <1>6, KindAssumption DEF Waits, In
  <2>2. CASE current.device = d /\ current.kind = k
    BY <1>1, <1>2, <2>1, <2>2 DEF EInv, NewestReached
  <2>3. CASE ~(current.device = d /\ current.kind = k)
    BY <1>1, <1>2, <2>1, <2>3 DEF EInv, NewestReached
  <2> QED
    BY <2>2, <2>3
<1>7. ExecutedInOrder'
  BY <1>1, <1>5 DEF ExecutedInOrder, Used
<1>8. NewestReached'
  BY <1>1, <1>6 DEF NewestReached
<1>9. ASSUME NEW p \in Device \X CoalescableKind PROVE executed[p] <= executed'[p]
  BY <1>5
<1> QED
  BY <1>7, <1>8, <1>9

LEMMA ForwardTerminalExecuted ==
  ASSUME EInv, NEW s \in Slots, ForwardTerminal(s)
  PROVE  ExecutedInOrder' /\ NewestReached'
<1>1. /\ phase = "forward" /\ phase' = "send" /\ Settle(s)
      /\ UNCHANGED <<executed, nextCommandId, newest>>
  BY DEF ForwardTerminal, Settle
<1>2. /\ s \in In("Inflight") /\ Used' = Used \ {s}
      /\ \A t \in Slots : t # s => entries'[t] = entries[t]
  BY <1>1, SettleInflight DEF EInv, LInv
<1>3. \A t \in Used' : t \in Used /\ entries'[t] = entries[t]
  BY <1>2 DEF Used
<1>4. \A t \in In("Queued") : t \in In("Queued")' /\ entries'[t] = entries[t]
  BY <1>2 DEF In
<1>5. ExecutedInOrder'
  BY <1>1, <1>3 DEF EInv, ExecutedInOrder
<1>6. \A d, k : Waits(d, k) => Waits(d, k)'
  BY <1>4 DEF Waits
<1>7. NewestReached'
  BY <1>1, <1>6 DEF EInv, NewestReached
<1> QED
  BY <1>5, <1>7

(* A step that neither touches the table nor begins or ends an execute(). *)
LEMMA QuietExecuted ==
  ASSUME EInv, UNCHANGED <<entries, nextCommandId, newest, executed, current>>,
         phase' = "execute" <=> phase = "execute"
  PROVE  ExecutedInOrder' /\ NewestReached'
<1>1. Used' = Used /\ \A d, k : Waits(d, k)' <=> Waits(d, k)
  BY DEF Used, Waits, In
<1>2. ExecutedInOrder'
  BY <1>1 DEF EInv, ExecutedInOrder
<1>3. NewestReached'
  BY <1>1 DEF EInv, NewestReached
<1> QED
  BY <1>2, <1>3

LEMMA RefusedExecuted ==
  ASSUME EInv, NEW device \in Device, NEW kind \in Kind, PressRefused(device, kind)
  PROVE  ExecutedInOrder' /\ NewestReached'
<1>1. /\ nextCommandId' = nextCommandId + 1
      /\ UNCHANGED <<entries, newest, executed, current, phase>>
  BY DEF PressRefused, EnqueueRefused
<1>2. /\ nextCommandId \in Nat /\ executed \in [Device \X Kind -> 0..MaxPresses]
  BY MaxPressesAssumption DEF EInv, LInv, IInv, TypeOK, LifecycleTypeOK
<1>3. Used' = Used /\ \A d, k : Waits(d, k)' <=> Waits(d, k)
  BY <1>1 DEF Used, Waits, In
<1>4. ExecutedInOrder'
  <2> SUFFICES ASSUME NEW d \in Device, NEW k \in CoalescableKind
               PROVE  /\ executed'[<<d, k>>] < nextCommandId'
                      /\ \A s \in Used' :
                           entries'[s].command.device = d /\ entries'[s].command.kind = k
                           => executed'[<<d, k>>] <= entries'[s].command.id
    BY DEF ExecutedInOrder
  <2>1. executed[<<d, k>>] \in Nat
    BY <1>2, KindAssumption
  <2> QED
    BY <1>1, <1>2, <1>3, <2>1 DEF EInv, ExecutedInOrder
<1>5. NewestReached'
  BY <1>1, <1>3 DEF EInv, NewestReached
<1> QED
  BY <1>4, <1>5

LEMMA NextEInv ==
  ASSUME EInv, [LifecycleNext]_lifecycleVars
  PROVE  /\ EInv'
         /\ \A p \in Device \X CoalescableKind : executed[p] <= executed'[p]
<1> DEFINE Goal == /\ ExecutedInOrder' /\ NewestReached'
                   /\ \A p \in Device \X CoalescableKind : executed[p] <= executed'[p]
<1>1. LInv'
  BY NextLInv DEF EInv
<1>2. executed' = executed =>
        \A p \in Device \X CoalescableKind : executed[p] <= executed'[p]
  <2>1. ASSUME NEW p \in Device \X CoalescableKind PROVE executed[p] \in Nat
    BY KindAssumption, MaxPressesAssumption DEF EInv, LInv, LifecycleTypeOK
  <2> QED
    BY <2>1
<1>3. ASSUME NEW device \in Device, NEW kind \in Kind,
             Press(device, kind) \/ PressRefused(device, kind)
      PROVE  Goal
  BY <1>2, <1>3, PressExecuted, RefusedExecuted DEF Press, PressRefused
<1>4. ASSUME NEW s \in Slots, TakeCommand(s) \/ ForwardTerminal(s) PROVE Goal
  BY <1>2, <1>4, TakeCommandExecuted, ForwardTerminalExecuted
  DEF TakeCommand, ForwardTerminal
<1>5. ASSUME ExecuteNow \/ ExecuteLater PROVE Goal
  <2>1. "Pending" \in Results /\ "Terminal" \in Results
    BY DEF Results
  <2> QED
    BY <1>5, <2>1, AnswerExecuted DEF ExecuteNow, ExecuteLater
<1>6. ASSUME UNCHANGED <<vars, executed, current>>, phase' = "execute" <=> phase = "execute"
      PROVE  Goal
  BY <1>2, <1>6, QuietExecuted DEF vars
<1>7. ASSUME NEW device, NEW id, Resolve(device, id) PROVE Goal
  BY <1>6, <1>7 DEF Resolve
<1>8. ASSUME NEW device, Drain(device) PROVE Goal
  BY <1>6, <1>8 DEF Drain
<1>9. ASSUME EndTick \/ TakeNothing \/ ForwardPending \/ EndLoop PROVE Goal
  BY <1>6, <1>9 DEF EndTick, TakeNothing, ForwardPending, EndLoop
<1>10. ASSUME Send PROVE Goal
  BY <1>6, <1>10 DEF Send
<1>11. ASSUME Receive PROVE Goal
  BY <1>6, <1>11 DEF Receive
<1>12. ASSUME UNCHANGED lifecycleVars PROVE Goal
  BY <1>6, <1>12 DEF lifecycleVars
<1>13. Goal
  BY <1>3, <1>4, <1>5, <1>7, <1>8, <1>9, <1>10, <1>11, <1>12
  DEF LifecycleNext, NetworkTask, UiTask, Slots
<1> QED
  BY <1>1, <1>13 DEF EInv

LEMMA InitEInv == LifecycleInit => EInv
<1> SUFFICES ASSUME LifecycleInit PROVE EInv
  OBVIOUS
<1>1. /\ Used = {} /\ phase = "tick" /\ nextCommandId = 1
      /\ \A p \in Device \X Kind : executed[p] = 0 /\ newest[p] = 0
  BY DEF LifecycleInit, Init, Used, None
<1>2. ExecutedInOrder /\ NewestReached
  BY <1>1, KindAssumption DEF ExecutedInOrder, NewestReached
<1> QED
  BY <1>2, InitLInv DEF EInv

LEMMA SpecEInv == LifecycleSpec => []EInv
<1>1. EInv /\ [LifecycleNext]_lifecycleVars => EInv'
  BY NextEInv
<1> QED
  BY <1>1, InitEInv, PTL DEF LifecycleSpec

(* When nothing of an absolute property is left in the table, the device     *)
(* was last told the newest target that was accepted, however the presses    *)
(* interleaved with the loop and whatever was coalesced (main.cpp:103,       *)
(* 888-896).                                                                  *)
THEOREM LastExecutedAlwaysNewest == LifecycleSpec => []LastExecutedIsNewest
<1>1. EInv => LastExecutedIsNewest
  <2> SUFFICES ASSUME EInv, NEW d \in Device, NEW k \in CoalescableKind, Idle(d, k)
               PROVE  executed[<<d, k>>] = newest[<<d, k>>]
    BY DEF LastExecutedIsNewest
  <2>1. ~Waits(d, k)
    BY DEF Waits, Idle, In, Used
  <2>2. ~(phase = "execute" /\ current.device = d /\ current.kind = k)
    BY DEF EInv, LInv, PhaseFits, Idle, In, Used
  <2> QED
    BY <2>1, <2>2 DEF EInv, NewestReached
<1> QED
  BY <1>1, SpecEInv, PTL

(* No press is executed after a newer one of its property: coalescing and    *)
(* blocking by the command in flight keep the order for every table           *)
(* (CommandDispatcher.h:41-72).                                               *)
THEOREM ExecutionAlwaysFollowsPresses == LifecycleSpec => ExecutionFollowsPresses
<1>1. EInv /\ [LifecycleNext]_lifecycleVars =>
        [\A p \in Device \X CoalescableKind : executed[p] <= executed'[p]]_lifecycleVars
  BY NextEInv
<1> QED
  BY <1>1, SpecEInv, PTL DEF LifecycleSpec, ExecutionFollowsPresses

-----------------------------------------------------------------------------
(* The strengthening of IconSettles. *)
HasWork(device) == \E s \in Used : entries[s].command.device = device

AnswerDue(device) ==
  phase = "send" /\ event.device = device /\ event.result = "Terminal"

EndsAt(q, i, device) == q[i].device = device /\ q[i].result = "Terminal"

(* Whatever turns the icon of a device to pending is followed by something  *)
(* that turns it back.                                                       *)
EndsTerminal(q, icon, device) ==
  /\ \A i \in DOMAIN q :
       q[i].device = device /\ q[i].result = "Pending" =>
         \E j \in DOMAIN q : j > i /\ EndsAt(q, j, device)
  /\ icon = "Pending" => \E j \in DOMAIN q : EndsAt(q, j, device)

IconFollows(device) ==
  \/ HasWork(device)
  \/ AnswerDue(device)
  \/ EndsTerminal(eventQueue, lastDeviceResult[device], device)

PendingHasWork ==
  phase = "send" /\ event.result = "Pending" => HasWork(event.device)

VInv ==
  /\ LInv
  /\ PendingHasWork
  /\ ~dropped => \A device \in Device : IconFollows(device)

LEMMA AppendEnds ==
  ASSUME NEW q \in Seq(Event), NEW e \in Event, NEW icon, NEW device
  PROVE  /\ e.device = device /\ e.result = "Terminal" =>
              EndsTerminal(Append(q, e), icon, device)
         /\ e.device # device /\ EndsTerminal(q, icon, device) =>
              EndsTerminal(Append(q, e), icon, device)
<1>1. /\ DOMAIN q = 1..Len(q) /\ DOMAIN Append(q, e) = 1..Len(q) + 1 /\ Len(q) \in Nat
      /\ \A i \in 1..Len(q) : Append(q, e)[i] = q[i]
      /\ Append(q, e)[Len(q) + 1] = e
  OBVIOUS
<1> DEFINE r == Append(q, e)
<1> HIDE DEF r
<1>2. ASSUME e.device = device, e.result = "Terminal"
      PROVE  EndsTerminal(r, icon, device)
  <2>1. EndsAt(r, Len(q) + 1, device) /\ Len(q) + 1 \in DOMAIN r
    BY <1>1, <1>2 DEF EndsAt, r
  <2>2. ASSUME NEW i \in DOMAIN r, r[i].device = device, r[i].result = "Pending"
        PROVE  \E j \in DOMAIN r : j > i /\ EndsAt(r, j, device)
    <3>1. i # Len(q) + 1
      BY <2>1, <2>2 DEF EndsAt
    <3>2. Len(q) + 1 > i
      BY <1>1, <3>1 DEF r
    <3> QED
      BY <2>1, <3>2
  <2> QED
    BY <2>1, <2>2 DEF EndsTerminal
<1>3. ASSUME e.device # device, EndsTerminal(q, icon, device)
      PROVE  EndsTerminal(r, icon, device)
  <2>1. \A j \in DOMAIN q : j \in DOMAIN r /\ r[j] = q[j]
    BY <1>1 DEF r
  <2>2. ASSUME NEW i \in DOMAIN r, r[i].device = device
        PROVE  i \in DOMAIN q /\ q[i] = r[i]
    BY <1>1, <1>3, <2>2 DEF r
  <2> QED
    BY <1>3, <2>1, <2>2 DEF EndsTerminal, EndsAt
<1> QED
  BY <1>2, <1>3 DEF r

LEMMA TailEnds ==
  ASSUME NEW q \in Seq(Event), q # <<>>, NEW icon, NEW device,
         EndsTerminal(q, icon, device)
  PROVE  EndsTerminal(Tail(q),
           IF Head(q).device = device THEN Head(q).result ELSE icon, device)
<1>1. /\ DOMAIN q = 1..Len(q) /\ DOMAIN Tail(q) = 1..Len(q) - 1 /\ Len(q) \in Nat \ {0}
      /\ \A i \in 1..Len(q) - 1 : Tail(q)[i] = q[i + 1]
      /\ Head(q) = q[1]
  OBVIOUS
<1> DEFINE r == Tail(q)
           first == Head(q)
<1> HIDE DEF r, first
<1>2. ASSUME NEW j \in DOMAIN q, j > 1
      PROVE  j - 1 \in DOMAIN r /\ r[j - 1] = q[j]
  BY <1>1, <1>2 DEF r
<1>3. ASSUME NEW i \in DOMAIN r, r[i].device = device, r[i].result = "Pending"
      PROVE  \E j \in DOMAIN r : j > i /\ EndsAt(r, j, device)
  <2>1. i + 1 \in DOMAIN q /\ q[i + 1] = r[i] /\ i \in Nat \ {0}
    BY <1>1 DEF r
  <2>2. PICK j \in DOMAIN q : j > i + 1 /\ EndsAt(q, j, device)
    BY <1>3, <2>1 DEF EndsTerminal
  <2>3. j \in Nat /\ j > 1 /\ j - 1 > i
    BY <1>1, <2>1, <2>2
  <2> QED
    BY <1>2, <2>2, <2>3 DEF EndsAt
<1>4. ASSUME (IF first.device = device THEN first.result ELSE icon) = "Pending"
      PROVE  \E j \in DOMAIN r : EndsAt(r, j, device)
  <2>1. \E j \in DOMAIN q : j > 1 /\ EndsAt(q, j, device)
    <3>1. CASE first.device = device
      <4>1. 1 \in DOMAIN q /\ q[1].device = device /\ q[1].result = "Pending"
        BY <1>1, <1>4, <3>1 DEF first
      <4> QED
        BY <4>1 DEF EndsTerminal
    <3>2. CASE first.device # device
      <4>1. PICK j \in DOMAIN q : EndsAt(q, j, device)
        BY <1>4, <3>2 DEF EndsTerminal
      <4>2. j # 1 /\ j \in 1..Len(q)
        BY <1>1, <3>2, <4>1 DEF first, EndsAt
      <4> QED
        BY <1>1, <4>1, <4>2
    <3> QED
      BY <3>1, <3>2
  <2> QED
    BY <1>2, <2>1 DEF EndsAt
<1> QED
  BY <1>3, <1>4 DEF EndsTerminal, r, first

(* A command stays in the table until a terminal event frees its slot. *)
LEMMA WorkStays ==
  ASSUME LInv, [LifecycleNext]_lifecycleVars, NEW device,
         HasWork(device),
         \A s \in Slots : ForwardTerminal(s) => event.device # device
  PROVE  HasWork(device)'
<1>1. PICK s \in Used : entries[s].command.device = device
  BY DEF HasWork
<1>2. s \in Slots /\ entries[s].state # "Free" /\ TypeOK
  BY DEF Used, LInv, IInv
<1>3. ASSUME NEW d \in Device, NEW k \in Kind, Press(d, k) PROVE HasWork(device)'
  <2>1. PICK t \in Slots :
          /\ entries'[t].state = "Queued"
          /\ entries'[t].command = [device |-> d, kind |-> k, id |-> nextCommandId]
          /\ \A u \in Slots : u # t => entries'[u] = entries[u]
          /\ t \in In("Queued") => entries[t].command.device = d
          /\ entries[t].state \in {"Queued", "Free"}
    BY <1>2, <1>3, EnqueueTable DEF Press
  <2>2. CASE s = t
    <3>1. entries'[s].command.device = device
      BY <1>1, <1>2, <2>1, <2>2 DEF In
    <3> QED
      BY <1>2, <2>1, <2>2, <3>1 DEF HasWork, Used
  <2>3. CASE s # t
    BY <1>1, <1>2, <2>1, <2>3 DEF HasWork, Used
  <2> QED
    BY <2>2, <2>3
<1>4. ASSUME NEW t \in Slots, TakeCommand(t) PROVE HasWork(device)'
  <2>1. entries'[s].command = entries[s].command /\ entries'[s].state # "Free"
    BY <1>2, <1>4, DispatchInflight DEF TakeCommand, LInv, In
  <2> QED
    BY <1>1, <1>2, <2>1 DEF HasWork, Used
<1>5. ASSUME NEW t \in Slots, ForwardTerminal(t) PROVE HasWork(device)'
  <2>1. s # t
    BY <1>1, <1>5, ForwardFacts
  <2>2. entries'[s] = entries[s]
    BY <1>2, <1>5, <2>1, ForwardFacts, SettleInflight DEF LInv
  <2> QED
    BY <1>1, <1>2, <2>2 DEF HasWork, Used
<1>6. ASSUME UNCHANGED entries PROVE HasWork(device)'
  BY <1>6 DEF HasWork, Used
<1>7. ASSUME NEW d \in Device, NEW k \in Kind, PressRefused(d, k) PROVE UNCHANGED entries
  BY <1>7 DEF PressRefused, EnqueueRefused
<1>8. ASSUME NEW d, NEW id, Resolve(d, id) \/ Drain(d) PROVE UNCHANGED entries
  BY <1>8 DEF Resolve, Drain, vars
<1>9. ASSUME \/ Receive \/ EndTick \/ TakeNothing \/ ExecuteNow \/ ExecuteLater
             \/ ForwardPending \/ Send \/ EndLoop \/ UNCHANGED lifecycleVars
      PROVE  UNCHANGED entries
  BY <1>9 DEF Receive, EndTick, TakeNothing, ExecuteNow, ExecuteLater, Answer,
     ForwardPending, Send, EndLoop, vars, lifecycleVars
<1> QED
  BY <1>3, <1>4, <1>5, <1>6, <1>7, <1>8, <1>9
  DEF LifecycleNext, NetworkTask, UiTask, Slots

LEMMA UiIcon ==
  ASSUME VInv, UiTask
  PROVE  VInv'
<1>1. LInv' /\ LInv /\ [LifecycleNext]_lifecycleVars
  BY NextLInv DEF VInv, LifecycleNext
<1>2. UNCHANGED <<phase, event, dropped>>
  BY DEF UiTask, Press, PressRefused, Receive, uiVars
<1>3. ASSUME NEW d, HasWork(d) PROVE HasWork(d)'
  <2>1. \A s \in Slots : ~ForwardTerminal(s)
    BY <1>2 DEF ForwardTerminal
  <2> QED
    BY <1>1, <1>3, <2>1, WorkStays
<1>4. PendingHasWork'
  BY <1>2, <1>3 DEF VInv, PendingHasWork
<1>5. eventQueue \in Seq(Event) /\ lastDeviceResult \in [Device -> Results] /\ TypeOK
  BY <1>1 DEF LInv, LifecycleTypeOK
<1>6. ASSUME NEW device \in Device, ~dropped' PROVE IconFollows(device)'
  <2>1. IconFollows(device)
    BY <1>2, <1>6 DEF VInv
  <2>2. CASE HasWork(device) \/ AnswerDue(device)
    BY <1>2, <1>3, <2>2 DEF IconFollows, AnswerDue
  <2>3. CASE EndsTerminal(eventQueue, lastDeviceResult[device], device)
    <3>1. ASSUME NEW d \in Device, NEW k \in Kind, Press(d, k)
          PROVE  IconFollows(device)'
      <4>1. CASE d = device
        <5>1. PICK t \in Slots :
                /\ entries'[t].state = "Queued"
                /\ entries'[t].command =
                     [device |-> d, kind |-> k, id |-> nextCommandId]
          BY <1>5, <3>1, EnqueueTable DEF Press
        <5> QED
          BY <4>1, <5>1 DEF IconFollows, HasWork, Used
      <4>2. CASE d # device
        <5>1. eventQueue' = eventQueue /\ lastDeviceResult'[device] = lastDeviceResult[device]
          BY <1>5, <3>1, <4>2 DEF Press
        <5> QED
          BY <2>3, <5>1 DEF IconFollows
      <4> QED
        BY <4>1, <4>2
    <3>2. ASSUME NEW d \in Device, NEW k \in Kind, PressRefused(d, k)
          PROVE  IconFollows(device)'
      BY <2>3, <3>2 DEF PressRefused, uiVars, IconFollows
    <3>3. ASSUME Receive PROVE IconFollows(device)'
      <4>1. /\ eventQueue # <<>> /\ eventQueue' = Tail(eventQueue)
            /\ lastDeviceResult'[device] =
                 IF Head(eventQueue).device = device
                 THEN Head(eventQueue).result ELSE lastDeviceResult[device]
        BY <1>5, <3>3 DEF Receive
      <4>2. EndsTerminal(eventQueue', lastDeviceResult'[device], device)
        BY <1>5, <2>3, <4>1, TailEnds
      <4> QED
        BY <4>2 DEF IconFollows
    <3> QED
      BY <3>1, <3>2, <3>3 DEF UiTask
  <2> QED
    BY <2>1, <2>2, <2>3 DEF IconFollows
<1> QED
  BY <1>1, <1>4, <1>6 DEF VInv

LEMMA SendIcon ==
  ASSUME VInv, Send
  PROVE  VInv'
<1>1. LInv' /\ LInv /\ [LifecycleNext]_lifecycleVars
  BY NextLInv DEF VInv, LifecycleNext, NetworkTask
<1>2. /\ phase = "send" /\ phase' = "drain" /\ event \in Event
      /\ UNCHANGED lastDeviceResult
      /\ dropped' \/ (~dropped /\ eventQueue' = Append(eventQueue, event)) \/ dropped
  BY <1>1 DEF Send, LInv, PhaseFits
<1>3. dropped \/ dropped' \/ eventQueue' = Append(eventQueue, event)
  BY <1>2
<1>4. dropped' \in BOOLEAN /\ (dropped => dropped')
  BY <1>1 DEF Send, LInv, LifecycleTypeOK
<1>5. ASSUME NEW d, HasWork(d) PROVE HasWork(d)'
  <2>1. \A s \in Slots : ~ForwardTerminal(s)
    BY <1>2 DEF ForwardTerminal
  <2> QED
    BY <1>1, <1>5, <2>1, WorkStays
<1>6. ASSUME NEW device \in Device, ~dropped' PROVE IconFollows(device)'
  <2>1. IconFollows(device) /\ eventQueue' = Append(eventQueue, event)
    BY <1>3, <1>4, <1>6 DEF VInv
  <2>2. eventQueue \in Seq(Event)
    BY <1>1 DEF LInv, LifecycleTypeOK
  <2>3. event.result \in {"Pending", "Terminal"}
    BY <1>2 DEF Event, Results
  <2>4. CASE event.device = device /\ event.result = "Terminal"
    <3>1. EndsTerminal(Append(eventQueue, event), lastDeviceResult[device], device)
      BY <1>2, <2>2, <2>4, AppendEnds
    <3> QED
      BY <1>2, <2>1, <3>1 DEF IconFollows
  <2>5. CASE event.device = device /\ event.result = "Pending"
    BY <1>2, <1>5, <2>5 DEF VInv, PendingHasWork, IconFollows
  <2>6. CASE event.device # device
    <3>1. CASE HasWork(device)
      BY <1>5, <3>1 DEF IconFollows
    <3>2. CASE EndsTerminal(eventQueue, lastDeviceResult[device], device)
      <4>1. EndsTerminal(Append(eventQueue, event), lastDeviceResult[device], device)
        BY <1>2, <2>2, <2>6, <3>2, AppendEnds
      <4> QED
        BY <1>2, <2>1, <4>1 DEF IconFollows
    <3> QED
      BY <2>1, <2>6, <3>1, <3>2 DEF IconFollows, AnswerDue
  <2> QED
    BY <2>3, <2>4, <2>5, <2>6
<1> QED
  BY <1>1, <1>2, <1>6 DEF VInv, PendingHasWork

LEMMA ForwardTerminalIcon ==
  ASSUME VInv, NEW s \in Slots, ForwardTerminal(s)
  PROVE  VInv'
<1>1. LInv' /\ LInv /\ [LifecycleNext]_lifecycleVars
  BY NextLInv DEF VInv, LifecycleNext, NetworkTask, Slots
<1>2. /\ phase = "forward" /\ phase' = "send" /\ event' = event
      /\ event.result = "Terminal" /\ UNCHANGED uiVars
  BY DEF ForwardTerminal
<1>3. ASSUME NEW device \in Device, ~dropped' PROVE IconFollows(device)'
  <2>1. CASE event.device = device
    BY <1>2, <2>1 DEF IconFollows, AnswerDue
  <2>2. CASE event.device # device
    <3>1. IconFollows(device) /\ ~AnswerDue(device)
      BY <1>2, <1>3 DEF VInv, uiVars, AnswerDue
    <3>2. HasWork(device) => HasWork(device)'
      BY <1>1, <2>2, WorkStays
    <3> QED
      BY <1>2, <3>1, <3>2 DEF IconFollows, uiVars
  <2> QED
    BY <2>1, <2>2
<1>4. PendingHasWork'
  BY <1>2 DEF PendingHasWork
<1> QED
  BY <1>1, <1>3, <1>4 DEF VInv

(* The other steps of the network task leave queue and icons alone. *)
LEMMA NetworkIcon ==
  ASSUME VInv, [LifecycleNext]_lifecycleVars, UNCHANGED uiVars,
         phase # "send", \A s \in Slots : ~ForwardTerminal(s),
         PendingHasWork'
  PROVE  VInv'
<1>1. LInv' /\ LInv
  BY NextLInv DEF VInv
<1>2. \A d : HasWork(d) => HasWork(d)'
  BY <1>1, WorkStays
<1>3. ASSUME NEW device \in Device, ~dropped' PROVE IconFollows(device)'
  BY <1>2, <1>3 DEF VInv, uiVars, IconFollows, AnswerDue
<1> QED
  BY <1>1, <1>3 DEF VInv

LEMMA ForwardPendingIcon ==
  ASSUME VInv, ForwardPending
  PROVE  VInv'
<1>1. /\ phase = "forward" /\ event.result = "Pending"
      /\ UNCHANGED <<vars, uiVars, event>> /\ LInv
      /\ [LifecycleNext]_lifecycleVars
  BY DEF ForwardPending, VInv, LifecycleNext, NetworkTask
<1>2. event.device \in Device /\ event.id \in pending[event.device]
  BY <1>1 DEF LInv, PhaseFits, Event
<1>3. event.id \in Inflight(event.device)
  BY <1>1, <1>2, OwnersByDevice DEF LInv, OwnedOnce
<1>4. HasWork(event.device)
  BY <1>3 DEF Inflight, HasWork, In, Used
<1>5. PendingHasWork'
  BY <1>1, <1>4 DEF PendingHasWork, HasWork, Used, vars
<1>6. \A s \in Slots : ~ForwardTerminal(s)
  BY <1>1 DEF ForwardTerminal
<1> QED
  BY <1>1, <1>5, <1>6, NetworkIcon

LEMMA NextVInv == VInv /\ [LifecycleNext]_lifecycleVars => VInv'
<1> SUFFICES ASSUME VInv, [LifecycleNext]_lifecycleVars PROVE VInv'
  OBVIOUS
<1>1. ASSUME NEW s \in Slots, TakeCommand(s) \/ ForwardTerminal(s) PROVE VInv'
  <2>1. ASSUME TakeCommand(s)
        PROVE  /\ UNCHANGED uiVars /\ phase # "send" /\ PendingHasWork'
               /\ \A t \in Slots : ~ForwardTerminal(t)
    BY <2>1 DEF TakeCommand, ForwardTerminal, PendingHasWork
  <2> QED
    BY <1>1, <2>1, NetworkIcon, ForwardTerminalIcon
<1>2. ASSUME NEW d, NEW id, Resolve(d, id) \/ Drain(d) PROVE VInv'
  <2>1. /\ UNCHANGED uiVars /\ phase # "send" /\ PendingHasWork'
        /\ \A t \in Slots : ~ForwardTerminal(t)
    BY <1>2 DEF Resolve, Drain, ForwardTerminal, PendingHasWork
  <2> QED
    BY <2>1, NetworkIcon
<1>3. ASSUME EndTick \/ TakeNothing \/ ExecuteNow \/ ExecuteLater \/ EndLoop PROVE VInv'
  <2>1. /\ UNCHANGED uiVars /\ phase # "send" /\ PendingHasWork'
        /\ \A t \in Slots : ~ForwardTerminal(t)
    BY <1>3 DEF EndTick, TakeNothing, ExecuteNow, ExecuteLater, Answer, EndLoop,
       ForwardTerminal, PendingHasWork
  <2> QED
    BY <2>1, NetworkIcon
<1>4. ASSUME UNCHANGED lifecycleVars PROVE VInv'
  BY <1>4, NextLInv DEF VInv, lifecycleVars, vars, uiVars, PendingHasWork, IconFollows,
     HasWork, Used, AnswerDue
<1> QED
  BY <1>1, <1>2, <1>3, <1>4, UiIcon, SendIcon, ForwardPendingIcon
  DEF LifecycleNext, NetworkTask, Slots

LEMMA InitVInv == LifecycleInit => VInv
<1> SUFFICES ASSUME LifecycleInit PROVE VInv
  OBVIOUS
<1>1. PendingHasWork
  BY DEF LifecycleInit, PendingHasWork
<1>2. ASSUME NEW device \in Device PROVE IconFollows(device)
  <2>1. eventQueue = <<>> /\ lastDeviceResult[device] = "Terminal"
    BY DEF LifecycleInit
  <2> QED
    BY <2>1 DEF IconFollows, EndsTerminal
<1> QED
  BY <1>1, <1>2, InitLInv DEF VInv

(* No icon is left at "pending" once its device has nothing to do and the    *)
(* UI task has read the queue, however the accepting press, the forwarded    *)
(* events and the reads interleave, unless a full queue dropped an event      *)
(* (main.cpp:118, 733-750, 810).                                              *)
THEOREM IconAlwaysSettles == LifecycleSpec => []IconSettles
<1>1. VInv => IconSettles
  <2> SUFFICES ASSUME VInv, NEW device \in Device,
                      \A kind \in Kind : Idle(device, kind),
                      eventQueue = <<>>, phase # "send", ~dropped
               PROVE  lastDeviceResult[device] # "Pending"
    BY DEF IconSettles
  <2>1. ~HasWork(device)
    <3>1. TypeOK
      BY DEF VInv, LInv, IInv
    <3>2. \A s \in Used : entries[s].command.kind \in Kind
      BY <3>1, UsedEntry
    <3> QED
      BY <3>2 DEF HasWork, Idle
  <2>2. EndsTerminal(<<>>, lastDeviceResult[device], device)
    BY <2>1 DEF VInv, IconFollows, AnswerDue
  <2> QED
    BY <2>2 DEF EndsTerminal
<1>2. LifecycleSpec => []VInv
  BY InitVInv, NextVInv, PTL DEF LifecycleSpec
<1> QED
  BY <1>1, <1>2, PTL
=============================================================================
