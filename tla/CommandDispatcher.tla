-------------------------- MODULE CommandDispatcher --------------------------
(***************************************************************************)
(* firmware/include/core/CommandDispatcher.h and the enqueue() of main.cpp  *)
(* that feeds it: a fixed table of slots shared by the UI task, which       *)
(* pushes, and one worker task, which takes a command, executes it and      *)
(* completes it by id.  Every call runs under commandMutex, so each is one  *)
(* atomic step; the calls of the two tasks interleave freely.               *)
(*                                                                         *)
(* The payload of a command (value1..value3) is named by its id.            *)
(***************************************************************************)
EXTENDS Naturals, FiniteSets

CONSTANTS
  Capacity,         \* the template parameter: 16 for IR, 24 for the network
  Device,
  Kind,
  CoalescableKind,  \* the kinds commandIsCoalescable() answers true for
  MaxPresses        \* bound: presses made; ids and sequences do not wrap

ASSUME CapacityAssumption == Capacity \in Nat \ {0}
ASSUME KindAssumption == CoalescableKind \subseteq Kind
ASSUME MaxPressesAssumption == MaxPresses \in Nat

VARIABLES
  entries,        \* entries_
  nextSequence,   \* nextSequence_
  nextCommandId,  \* nextCommandId of main.cpp
  newest          \* history: id of the last accepted press of each property

vars == <<entries, nextSequence, nextCommandId, newest>>

Slots == 1..Capacity
Command == [device : Device, kind : Kind, id : 1..MaxPresses]
None == [state |-> "Free", sequence |-> 0]
Occupied == [state : {"Queued", "Inflight"}, command : Command,
             sequence : 1..MaxPresses]

Coalescable(c) == c.kind \in CoalescableKind
PropertyOf(c) == <<c.device, c.kind>>
SameProperty(a, b) == a.device = b.device /\ a.kind = b.kind

In(state) == {s \in Slots : entries[s].state = state}
Used == {s \in Slots : entries[s].state # "Free"}

(***************************************************************************)
(* push(): an absolute command overwrites the queued one of its property,   *)
(* anything else takes the first free slot, and with none it is refused.    *)
(* An in-flight command is never overwritten.                               *)
(***************************************************************************)
PushTargets_OverwritesInflight(c) ==
  LET same == {s \in Used : Coalescable(c) /\ SameProperty(entries[s].command, c)}
  IN  IF same # {} THEN same ELSE In("Free")

PushTargets_NeverCoalesces(c) == In("Free")

PushTargets(c) ==
  LET same == {s \in In("Queued") : /\ Coalescable(c)
                                    /\ SameProperty(entries[s].command, c)}
  IN  IF same # {} THEN same ELSE In("Free")

Push_KeepsOldCommand(c) ==
  \E s \in PushTargets(c) :
    /\ \A t \in PushTargets(c) : s <= t
    /\ entries' = [entries EXCEPT ![s] =
         [state |-> "Queued",
          command |-> IF s \in In("Queued") THEN entries[s].command ELSE c,
          sequence |-> nextSequence]]
    /\ nextSequence' = nextSequence + 1

Push(c) ==
  \E s \in PushTargets(c) :
    /\ \A t \in PushTargets(c) : s <= t
    /\ entries' = [entries EXCEPT ![s] =
         [state |-> "Queued", command |-> c, sequence |-> nextSequence]]
    /\ nextSequence' = nextSequence + 1

(***************************************************************************)
(* take(): the oldest queued command whose property is not in flight.       *)
(***************************************************************************)
BlockedByInflight_Never(c) == FALSE

BlockedByInflight(c) ==
  /\ Coalescable(c)
  /\ \E s \in In("Inflight") : SameProperty(entries[s].command, c)

Takeable == {s \in In("Queued") : ~BlockedByInflight(entries[s].command)}

IsNext(s) == \A t \in Takeable : entries[s].sequence <= entries[t].sequence

Take(s) ==
  /\ s \in Takeable
  /\ IsNext(s)
  /\ entries' = [entries EXCEPT ![s].state = "Inflight"]
  /\ UNCHANGED nextSequence

(***************************************************************************)
(* complete(): frees the in-flight slot of that id.  The code leaves the    *)
(* old command in the free slot and never reads it: the model clears it.    *)
(***************************************************************************)
Complete(s) ==
  /\ s \in In("Inflight")
  /\ entries' = [entries EXCEPT ![s] = None]
  /\ UNCHANGED nextSequence

(***************************************************************************)
(* latest(): the slot holding the newest command of a property, queued or   *)
(* in flight; the UI computes the next target from it.                      *)
(***************************************************************************)
Holding(device, kind) ==
  {s \in Used : entries[s].command.device = device /\ entries[s].command.kind = kind}

IsLatest_FirstSlot(s, device, kind) ==
  /\ s \in Holding(device, kind)
  /\ \A t \in Holding(device, kind) : s <= t

IsLatest(s, device, kind) ==
  /\ s \in Holding(device, kind)
  /\ \A t \in Holding(device, kind) : entries[t].sequence <= entries[s].sequence

(***************************************************************************)
(* enqueue(): every press gets the next id, accepted or not.                *)
(***************************************************************************)
Enqueue(device, kind) ==
  LET c == [device |-> device, kind |-> kind, id |-> nextCommandId] IN
  /\ nextCommandId <= MaxPresses
  /\ nextCommandId' = nextCommandId + 1
  /\ Push(c)
  /\ newest' = [newest EXCEPT ![<<device, kind>>] = nextCommandId]

EnqueueRefused(device, kind) ==
  LET c == [device |-> device, kind |-> kind, id |-> nextCommandId] IN
  /\ nextCommandId <= MaxPresses
  /\ nextCommandId' = nextCommandId + 1
  /\ PushTargets(c) = {}
  /\ UNCHANGED <<entries, nextSequence, newest>>

Dispatch(s) == Take(s) /\ UNCHANGED <<nextCommandId, newest>>
Settle(s) == Complete(s) /\ UNCHANGED <<nextCommandId, newest>>

Init_SequenceZero ==
  /\ entries = [s \in Slots |-> None]
  /\ nextSequence = 0
  /\ nextCommandId = 1
  /\ newest = [p \in Device \X Kind |-> 0]

Init ==
  /\ entries = [s \in Slots |-> None]
  /\ nextSequence = 1
  /\ nextCommandId = 1
  /\ newest = [p \in Device \X Kind |-> 0]

Next ==
  \/ \E device \in Device, kind \in Kind :
       Enqueue(device, kind) \/ EnqueueRefused(device, kind)
  \/ \E s \in Slots : Dispatch(s) \/ Settle(s)

Spec == Init /\ [][Next]_vars

-----------------------------------------------------------------------------
(* Values stay in range and a used slot always holds a command. *)
TypeOK ==
  /\ entries \in [Slots -> {None} \cup Occupied]
  /\ nextSequence \in 1..MaxPresses + 1
  /\ nextCommandId \in 1..MaxPresses + 1
  /\ newest \in [Device \X Kind -> 0..MaxPresses]

(* An absolute property never has two commands waiting, nor two being      *)
(* executed: the newest target replaces the waiting one (push, take and     *)
(* complete together).                                                      *)
OneWaitingOneActive ==
  \A s, t \in Used :
    /\ Coalescable(entries[s].command)
    /\ SameProperty(entries[s].command, entries[t].command)
    /\ entries[s].state = entries[t].state
    => s = t

(* What latest() hands to the UI is the last press of the property that was *)
(* accepted, however the worker interleaved take() and complete(), as long  *)
(* as anything of that property is unfinished.                              *)
LatestIsNewestPress ==
  \A device \in Device, kind \in CoalescableKind, s \in Slots :
    IsLatest(s, device, kind) => entries[s].command.id = newest[<<device, kind>>]

(* The dispatcher implements the mailbox: coalescing loses no command of    *)
(* another property and no one-shot, and one-shots start in press order.    *)
QueuedCommands == {entries[s].command : s \in In("Queued")}
ActiveCommands == {entries[s].command : s \in In("Inflight")}

Mailbox == INSTANCE PropertyMailbox WITH
  waiting <- QueuedCommands,
  active <- ActiveCommands,
  lastPress <- nextCommandId - 1

ImplementsMailbox == Mailbox!Spec

(* The table fills up only with work that is really unfinished: each         *)
(* absolute property takes two slots at most however often its key is        *)
(* pressed, so "rapid ... changes retain the newest target without filling   *)
(* the queue" (CHANGELOG.md).                                                 *)
OneShotSlots == {s \in Used : ~Coalescable(entries[s].command)}
Unfinished == {PropertyOf(entries[s].command) : s \in Used \ OneShotSlots}
RefusedOnlyWhenBusy ==
  [][\A device \in Device, kind \in Kind :
       EnqueueRefused(device, kind) =>
         Capacity <= Cardinality(OneShotSlots) + 2 * Cardinality(Unfinished)]_vars
=============================================================================
