--------------------------- MODULE CommandLifecycle ---------------------------
(***************************************************************************)
(* The life of a network command across the tasks of main.cpp: the UI task  *)
(* presses keys and reads the event queue, the network task loops over      *)
(* tick, take, execute, forward and drain, and the dispatcher table between *)
(* them is guarded by commandMutex.  Each adapter (Dyson, Tapo group) is    *)
(* seen as main.cpp sees it: execute() answers at once with a result or     *)
(* with Pending, and a pending command yields one event later, at its       *)
(* deadline if not before.  DysonAdapter and TapoGroup model the inside.    *)
(***************************************************************************)
EXTENDS CommandDispatcher, Sequences

CONSTANTS
  PendingSlots,  \* pending_ and groupPending_ of the adapters: 8
  EventSlots,    \* EventBuffer of the adapters: 12 and 20
  UiSlots,       \* eventQueue: 24
  Patience       \* bound: loops of the network task in the 3 s deadline

ASSUME SlotsAssumption ==
  /\ PendingSlots \in Nat \ {0} /\ EventSlots \in Nat /\ UiSlots \in Nat \ {0}
  /\ Patience \in Nat \ {0}
  /\ PendingSlots <= EventSlots

VARIABLES
  phase,       \* where the network task is in its loop
  current,     \* its local variable "command"
  event,       \* its local variable "event"
  pending,     \* per device, the ids of the active pending slots
  left,        \* per id, loops left before the deadline of a pending slot
  outbox,      \* per device, events_
  eventQueue,  \* the FreeRTOS queue to the UI task
  lastDeviceResult,
  executed,    \* history: the last id executed for each property
  dropped      \* history: an event was dropped by a full eventQueue

adapterVars == <<pending, left, outbox>>
uiVars == <<eventQueue, lastDeviceResult, dropped>>
lifecycleVars == <<vars, adapterVars, uiVars, phase, current, event, executed>>

Ids == 1..MaxPresses
Results == {"Pending", "Terminal"}
Event == [device : Device, id : Ids, result : Results]
NoCommand == [id |-> 0]
NoEvent == [id |-> 0]

-----------------------------------------------------------------------------
(* The UI task. *)

(* enqueue(): the device icon turns to Pending once the press is accepted. *)
Press(device, kind) ==
  /\ Enqueue(device, kind)
  /\ lastDeviceResult' = [lastDeviceResult EXCEPT ![device] = "Pending"]
  /\ UNCHANGED <<adapterVars, eventQueue, dropped, phase, current, event, executed>>

PressRefused_StillPending(device, kind) ==
  /\ EnqueueRefused(device, kind)
  /\ lastDeviceResult' = [lastDeviceResult EXCEPT ![device] = "Pending"]
  /\ UNCHANGED <<adapterVars, eventQueue, dropped, phase, current, event, executed>>

PressRefused(device, kind) ==
  /\ EnqueueRefused(device, kind)
  /\ UNCHANGED <<adapterVars, uiVars, phase, current, event, executed>>

(* uiTask(): one received event sets the icon of its device. *)
Receive ==
  /\ eventQueue # <<>>
  /\ eventQueue' = Tail(eventQueue)
  /\ lastDeviceResult' =
       [lastDeviceResult EXCEPT ![Head(eventQueue).device] = Head(eventQueue).result]
  /\ UNCHANGED <<vars, adapterVars, dropped, phase, current, event, executed>>

-----------------------------------------------------------------------------
(* The network task: tick() of both adapters. *)

(* EventBuffer::push: a full buffer overwrites its oldest event. *)
PushEvent(buffer, id) ==
  IF Len(buffer) = EventSlots THEN Append(Tail(buffer), id) ELSE Append(buffer, id)

(* A confirmation, or the deadline, turns a pending slot into an event. *)
Resolve(device, id) ==
  /\ phase = "tick"
  /\ id \in pending[device]
  /\ pending' = [pending EXCEPT ![device] = @ \ {id}]
  /\ outbox' = [outbox EXCEPT ![device] = PushEvent(@, id)]
  /\ UNCHANGED <<vars, left, uiVars, phase, current, event, executed>>

(* tick() returns only when every slot past its deadline is resolved. *)
EndTick_IgnoresDeadline ==
  /\ phase = "tick"
  /\ phase' = "take"
  /\ UNCHANGED <<vars, adapterVars, uiVars, current, event, executed>>

EndTick ==
  /\ phase = "tick"
  /\ \A device \in Device : \A id \in pending[device] : left[id] > 0
  /\ left' = [id \in Ids |->
               IF \E device \in Device : id \in pending[device]
               THEN left[id] - 1 ELSE left[id]]
  /\ phase' = "take"
  /\ UNCHANGED <<vars, pending, outbox, uiVars, current, event, executed>>

-----------------------------------------------------------------------------
(* The network task: take() and execute(). *)

TakeCommand(s) ==
  /\ phase = "take"
  /\ Dispatch(s)
  /\ current' = entries[s].command
  /\ phase' = "execute"
  /\ UNCHANGED <<adapterVars, uiVars, event, executed>>

TakeNothing ==
  /\ phase = "take"
  /\ Takeable = {}
  /\ phase' = "drain"
  /\ UNCHANGED <<vars, adapterVars, uiVars, current, event, executed>>

Answer(result) ==
  /\ phase = "execute"
  /\ event' = [device |-> current.device, id |-> current.id, result |-> result]
  /\ current' = NoCommand
  /\ executed' = [executed EXCEPT ![<<current.device, current.kind>>] = current.id]
  /\ phase' = "forward"
  /\ UNCHANGED <<vars, uiVars, outbox>>

(* Offline, unsupported, refused credentials, or no pending slot left. *)
ExecuteNow == Answer("Terminal") /\ UNCHANGED <<pending, left>>

(* rememberPending() with the 3 s deadline. *)
ExecuteLater ==
  /\ Answer("Pending")
  /\ Cardinality(pending[current.device]) < PendingSlots
  /\ pending' = [pending EXCEPT ![current.device] = @ \cup {current.id}]
  /\ left' = [left EXCEPT ![current.id] = Patience]

-----------------------------------------------------------------------------
(* The network task: forwardAdapterEvent() and drainAdapterEvents(). *)

ForwardTerminal_Requeues(s) ==
  /\ phase = "forward"
  /\ event.result = "Terminal"
  /\ s \in In("Inflight") /\ entries[s].command.id = event.id
  /\ entries' = [entries EXCEPT ![s].state = "Queued", ![s].sequence = nextSequence]
  /\ nextSequence' = nextSequence + 1
  /\ phase' = "send"
  /\ UNCHANGED <<nextCommandId, newest, adapterVars, uiVars, current, event, executed>>

(* A terminal event frees the slot under commandMutex; the event is sent    *)
(* afterwards, so the UI task may run in between.                            *)
ForwardTerminal(s) ==
  /\ phase = "forward"
  /\ event.result = "Terminal"
  /\ s \in In("Inflight") /\ entries[s].command.id = event.id
  /\ Settle(s)
  /\ phase' = "send"
  /\ UNCHANGED <<adapterVars, uiVars, current, event, executed>>

ForwardPending ==
  /\ phase = "forward"
  /\ event.result = "Pending"
  /\ phase' = "send"
  /\ UNCHANGED <<vars, adapterVars, uiVars, current, event, executed>>

(* xQueueSend with no wait: a full queue drops the event silently. *)
Send ==
  /\ phase = "send"
  /\ event' = NoEvent
  /\ phase' = "drain"
  /\ \/ /\ Len(eventQueue) < UiSlots
        /\ eventQueue' = Append(eventQueue, event)
        /\ UNCHANGED dropped
     \/ /\ Len(eventQueue) = UiSlots
        /\ dropped' = TRUE
        /\ UNCHANGED eventQueue
  /\ UNCHANGED <<vars, adapterVars, lastDeviceResult, current, executed>>

Drain(device) ==
  /\ phase = "drain"
  /\ outbox[device] # <<>>
  /\ outbox' = [outbox EXCEPT ![device] = Tail(@)]
  /\ event' = [device |-> device, id |-> Head(outbox[device]), result |-> "Terminal"]
  /\ phase' = "forward"
  /\ UNCHANGED <<vars, pending, left, uiVars, current, executed>>

EndLoop_Undrained ==
  /\ phase = "drain"
  /\ phase' = "tick"
  /\ UNCHANGED <<vars, adapterVars, uiVars, current, event, executed>>

EndLoop ==
  /\ phase = "drain"
  /\ \A device \in Device : outbox[device] = <<>>
  /\ phase' = "tick"
  /\ UNCHANGED <<vars, adapterVars, uiVars, current, event, executed>>

-----------------------------------------------------------------------------
LifecycleInit ==
  /\ Init
  /\ phase = "tick"
  /\ current = NoCommand
  /\ event = NoEvent
  /\ pending = [device \in Device |-> {}]
  /\ left = [id \in Ids |-> 0]
  /\ outbox = [device \in Device |-> <<>>]
  /\ eventQueue = <<>>
  /\ lastDeviceResult = [device \in Device |-> "Terminal"]
  /\ executed = [p \in Device \X Kind |-> 0]
  /\ dropped = FALSE

NetworkTask ==
  \/ \E device \in Device, id \in Ids : Resolve(device, id)
  \/ EndTick
  \/ \E s \in 1..Capacity : TakeCommand(s) \/ ForwardTerminal(s)
  \/ TakeNothing \/ ExecuteNow \/ ExecuteLater \/ ForwardPending \/ Send
  \/ \E device \in Device : Drain(device)
  \/ EndLoop

UiTask ==
  \/ \E device \in Device, kind \in Kind : Press(device, kind) \/ PressRefused(device, kind)
  \/ Receive

LifecycleNext == NetworkTask \/ UiTask

(* The network task has a core of its own and never blocks for ever: every  *)
(* socket call has a timeout.  The UI task is also scheduled for ever, but  *)
(* only the network task is needed for a command to finish.                  *)
LifecycleSpec == LifecycleInit /\ [][LifecycleNext]_lifecycleVars /\ WF_lifecycleVars(NetworkTask)

-----------------------------------------------------------------------------
(* Values stay in range in every phase of the loop. *)
LifecycleTypeOK ==
  /\ TypeOK
  /\ phase \in {"tick", "take", "execute", "forward", "send", "drain"}
  /\ current \in {NoCommand} \cup [device : Device, kind : Kind, id : Ids]
  /\ event \in {NoEvent} \cup Event
  /\ pending \in [Device -> SUBSET Ids]
  /\ left \in [Ids -> 0..Patience]
  /\ outbox \in [Device -> Seq(Ids)]
  /\ eventQueue \in Seq(Event)
  /\ lastDeviceResult \in [Device -> Results]
  /\ executed \in [Device \X Kind -> 0..MaxPresses]
  /\ dropped \in BOOLEAN

(* Who will complete an in-flight command: the network task holding it, a   *)
(* pending slot of its adapter, or an event its adapter has not handed out.  *)
InHand(device) ==
  {id \in Ids : \/ phase = "execute" /\ current.id = id /\ current.device = device
                \/ /\ phase = "forward" /\ event.id = id
                   /\ event.result = "Terminal" /\ event.device = device}
InOutbox(device) == {outbox[device][i] : i \in DOMAIN outbox[device]}
Inflight(device) ==
  {id \in Ids : \E s \in In("Inflight") :
     entries[s].command.device = device /\ entries[s].command.id = id}

(* No in-flight slot is ever orphaned (it would block its property until a  *)
(* restart), none has two owners (it would be completed twice), and no      *)
(* owner outlives its slot.  EventBuffer would orphan one by overwriting its *)
(* oldest event; with a drain in every loop it never does.                   *)
InflightHasOneOwner ==
  \A device \in Device :
    /\ Inflight(device) = InHand(device) \cup pending[device] \cup InOutbox(device)
    /\ InHand(device) \cap (pending[device] \cup InOutbox(device)) = {}
    /\ pending[device] \cap InOutbox(device) = {}
    /\ \A i, j \in DOMAIN outbox[device] : outbox[device][i] = outbox[device][j] => i = j

(* Once nothing of an absolute property is left in the table, the last      *)
(* command executed for it is the last press that was accepted.              *)
Idle(device, kind) ==
  \A s \in Used :
    ~(entries[s].command.device = device /\ entries[s].command.kind = kind)
LastExecutedIsNewest ==
  \A device \in Device, kind \in CoalescableKind :
    Idle(device, kind) => executed[<<device, kind>>] = newest[<<device, kind>>]

(* An older press is never executed after a newer one of its property.      *)
ExecutionFollowsPresses ==
  [][\A p \in Device \X CoalescableKind : executed[p] <= executed'[p]]_lifecycleVars

(* When everything of a device is settled and read, its icon is not left at *)
(* "pending", unless an event was dropped by a full eventQueue.              *)
IconSettles ==
  \A device \in Device :
    /\ \A kind \in Kind : Idle(device, kind)
    /\ eventQueue = <<>> /\ phase # "send"
    /\ ~dropped
    => lastDeviceResult[device] # "Pending"

(* Every accepted press is executed and settled, or replaced by a newer one *)
(* of its property, within finitely many loops.                              *)
Held(id) == \E s \in Used : entries[s].command.id = id
EveryPressSettles == \A id \in Ids : Held(id) ~> ~Held(id)
=============================================================================
