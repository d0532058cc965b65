----------------------------- MODULE DysonAdapter -----------------------------
(***************************************************************************)
(* firmware/src/adapters/DysonAdapter.cpp and the fan it talks to over MQTT. *)
(*                                                                         *)
(* The network task calls tick(), execute() and pollEvent() in turn.  tick() *)
(* checks whether the last report is stale, reconnects, reads at most ONE    *)
(* packet (PubSubClient::loop), polls, and resolves the pending table.  The  *)
(* fan, its broker and the remote control act between any two of its steps.  *)
(*                                                                         *)
(* Time is counted in loops of the network task: each deadline is the number *)
(* of loops left, and reportAge the loops since the last message.            *)
(***************************************************************************)
EXTENDS Integers, Sequences, FiniteSets

CONSTANTS
  Kind,            \* the properties of the fan a command sets
  Value,
  MaxCommands,     \* bound: commands executed
  PendingSlots,    \* pending_: 8
  Patience,        \* loops in the 3 s confirmation deadline
  StaleAfter,      \* loops in 90 s
  PollEvery,       \* loops in 30 s
  MaxDelay,        \* loops in the longest reconnect delay, 60 s
  RediscoverAfter, \* loops before a host found by mDNS is looked up again
  FanLag,          \* messages a slow fan may leave unhandled for a loop
  InboxSize,       \* bound: packets waiting to be read
  MaxLeaves,       \* bound: times the fan leaves or our own link is new
  MaxOutage,       \* bound: loops it is away, in all; 0 for no bound
  RemoteChanges    \* bound: changes made with the fan's own remote control

ASSUME DysonAssumption ==
  /\ MaxCommands \in Nat /\ PendingSlots \in Nat \ {0} /\ Patience \in Nat
  /\ StaleAfter \in Nat /\ PollEvery \in Nat \ {0} /\ MaxDelay \in Nat \ {0}
  /\ RediscoverAfter \in Nat \ {0} /\ InboxSize \in Nat \ {0}
  /\ FanLag \in Nat
  /\ MaxLeaves \in Nat /\ MaxOutage \in Nat /\ RemoteChanges \in Nat

VARIABLES
  pc,           \* where the network task is in its loop
  connected,    \* mqtt_.connected()
  host,         \* runtimeHost_: "none", "right" or "wrong" since the fan moved
  connection,   \* connection_
  reconnectIn,  \* nextReconnectMs_, as loops left; 0 is due or unset
  delay,        \* reconnectDelayMs_
  discoverIn,   \* nextDiscoveryMs_
  pollIn,       \* nextPollMs_
  reportAge,    \* state_.lastReportMs; -1 before the first message
  state,        \* state_, the cached fan state
  pending,      \* pending_: the active slots
  events,       \* events_
  commands,     \* commands executed so far: the next command's id
  fanUp,        \* "up", "down", or "refusing" the credential
  leaves,       \* times the fan left, or our own link was new
  outage,       \* loops it was away
  fan,          \* the state of the fan itself
  remote,       \* changes made with the remote control
  toFan,        \* messages published and not yet handled by the fan
  inbox,        \* packets sent to us and not yet read
  applied       \* history: ids of the commands the fan has handled

linkVars == <<connected, host, connection, reconnectIn, delay, discoverIn>>
tableVars == <<pending, events, commands>>
fanVars == <<fanUp, leaves, outage, fan, remote>>
vars == <<pc, linkVars, pollIn, reportAge, state, tableVars, fanVars,
          toFan, inbox, applied>>

Ids == 1..MaxCommands
Command == [id : Ids, kind : Kind, value : Value]
SubAck == [type |-> "suback"]
Sensor == [type |-> "sensor"]
StateReport(s) == [type |-> "state", product |-> s]
Requests == <<[type |-> "request-state"], [type |-> "request-sensor"]>>
Least(a, b) == IF a < b THEN a ELSE b
CountDown(n) == IF n = 0 THEN 0 ELSE n - 1

-----------------------------------------------------------------------------
(* begin(), at boot and whenever the Wi-Fi link or its address is new: the   *)
(* connection is dropped and the host looked up; the pending table, the      *)
(* cached state and the time of its last report are kept.                     *)
Begin ==
  /\ pc' = "stale"
  /\ \/ pc = "begin" /\ UNCHANGED leaves
     \/ pc = "stale" /\ leaves < MaxLeaves /\ leaves' = leaves + 1
  /\ connected' = FALSE /\ inbox' = <<>>
  /\ reconnectIn' = 0
  /\ IF fanUp = "down"
       THEN host' = "none" /\ discoverIn' = 0 /\ connection' = "Offline"
       ELSE host' = "right" /\ discoverIn' = RediscoverAfter /\ connection' = "Connecting"
  /\ UNCHANGED <<delay, pollIn, reportAge, state, tableVars, fanUp, outage, fan, remote,
                 toFan, applied>>

-----------------------------------------------------------------------------
(* tick(): the stale check comes first, before anything is read. *)

StaleCheck ==
  /\ pc = "stale"
  /\ pc' = "reconnect"
  /\ \/ /\ connected /\ reportAge > StaleAfter
        /\ connected' = FALSE /\ inbox' = <<>>
        /\ connection' = "Offline"
        /\ host' = "none" /\ discoverIn' = 0 /\ reconnectIn' = 1
        /\ UNCHANGED delay
     \/ /\ ~(connected /\ reportAge > StaleAfter)
        /\ UNCHANGED <<linkVars, inbox>>
  /\ UNCHANGED <<pollIn, reportAge, state, tableVars, fanVars, toFan, applied>>

-----------------------------------------------------------------------------
(* tick(): reconnect(). *)

NoReconnect ==
  /\ pc = "reconnect"
  /\ \/ connected /\ pc' = "loop"
     \/ ~connected /\ reconnectIn > 0 /\ pc' = "resolve"
  /\ UNCHANGED <<linkVars, pollIn, reportAge, state, tableVars, fanVars,
                 toFan, inbox, applied>>

ReconnectDue == pc = "reconnect" /\ ~connected /\ reconnectIn = 0
MustDiscover_OnlyUnset == host = "none"
MustDiscover == host = "none" \/ discoverIn = 0

(* discoverHost() finds no TP09. *)
DiscoveryFails ==
  /\ ReconnectDue /\ MustDiscover
  /\ fanUp = "down"
  /\ host' = "none"
  /\ connection' = "Offline"
  /\ reconnectIn' = Least(2, MaxDelay)
  /\ pc' = "resolve"
  /\ UNCHANGED <<connected, delay, discoverIn, pollIn, reportAge, state,
                 tableVars, fanVars, toFan, inbox, applied>>

HostAfterDiscovery == IF MustDiscover THEN "right" ELSE host
DiscoverInAfter == IF MustDiscover THEN RediscoverAfter ELSE discoverIn
CanAttempt == ReconnectDue /\ (MustDiscover => fanUp # "down")

Connect_NoStateRequest ==
  /\ CanAttempt
  /\ fanUp = "up" /\ HostAfterDiscovery = "right"
  /\ host' = "right" /\ discoverIn' = DiscoverInAfter
  /\ connected' = TRUE /\ connection' = "Online"
  /\ delay' = 1 /\ reconnectIn' = 0
  /\ inbox' = <<SubAck>>
  /\ pc' = "loop"
  /\ UNCHANGED <<pollIn, reportAge, state, tableVars, fanVars, toFan, applied>>

(* The broker acknowledges the subscription before anything else. *)
Connect ==
  /\ CanAttempt
  /\ fanUp = "up" /\ HostAfterDiscovery = "right"
  /\ host' = "right" /\ discoverIn' = DiscoverInAfter
  /\ connected' = TRUE /\ connection' = "Online"
  /\ delay' = 1 /\ reconnectIn' = 0
  /\ inbox' = <<SubAck>>
  /\ toFan' = toFan \o Requests
  /\ pc' = "loop"
  /\ UNCHANGED <<pollIn, reportAge, state, tableVars, fanVars, applied>>

(* A long series of failures makes the next attempt discover again. *)
ConnectFails ==
  /\ CanAttempt
  /\ ~(fanUp = "up" /\ HostAfterDiscovery = "right")
  /\ host' = HostAfterDiscovery
  /\ connection' = IF fanUp = "refusing" /\ HostAfterDiscovery = "right"
                   THEN "AuthFailed" ELSE "Offline"
  /\ discoverIn' = IF connection' = "Offline" /\ 2 * delay >= MaxDelay
                   THEN 0 ELSE DiscoverInAfter
  /\ reconnectIn' = delay
  /\ delay' = Least(2 * delay, MaxDelay)
  /\ pc' = "resolve"
  /\ UNCHANGED <<connected, pollIn, reportAge, state, tableVars, fanVars,
                 toFan, inbox, applied>>

-----------------------------------------------------------------------------
(* tick(): mqtt_.loop() and the 30 s poll. *)

(* onMessage(): any message that parses renews lastReportMs, whether or not  *)
(* it carries the product state.                                              *)
ReadPacket ==
  /\ pc = "loop"
  /\ connected /\ inbox # <<>>
  /\ inbox' = Tail(inbox)
  /\ LET packet == Head(inbox) IN
       /\ state' = IF packet.type = "state" THEN packet.product ELSE state
       /\ reportAge' = IF packet.type = "suback" THEN reportAge ELSE 0
       /\ pending' = IF packet.type = "suback" THEN pending
                     ELSE {[p EXCEPT !.reported = TRUE] : p \in pending}
  /\ pc' = "poll"
  /\ UNCHANGED <<linkVars, pollIn, events, commands, fanVars, toFan, applied>>

ReadNothing ==
  /\ pc = "loop"
  /\ ~(connected /\ inbox # <<>>)
  /\ connection' = IF connected THEN connection ELSE "Offline"
  /\ pc' = "poll"
  /\ UNCHANGED <<connected, host, reconnectIn, delay, discoverIn, pollIn, reportAge,
                 state, tableVars, fanVars, toFan, inbox, applied>>

(* nextPollMs_ is renewed even when publishing failed. *)
Poll ==
  /\ pc = "poll"
  /\ \/ /\ pollIn = 0
        /\ pollIn' = PollEvery
        /\ toFan' = IF connected THEN toFan \o Requests ELSE toFan
     \/ pollIn > 0 /\ UNCHANGED <<pollIn, toFan>>
  /\ pc' = "resolve"
  /\ UNCHANGED <<linkVars, reportAge, state, tableVars, fanVars, inbox, applied>>

-----------------------------------------------------------------------------
(* resolvePending(), in onMessage() and at the end of tick(): a slot is      *)
(* confirmed when any message came since it was issued and the cached state  *)
(* matches, and times out at its deadline otherwise.  The two calls in one   *)
(* tick see the same state, so the model makes one.                           *)

Confirmed(p) == p.reported /\ state[p.kind] = p.value
Expired_Never(p) == FALSE
Expired(p) == p.left = 0 /\ ~Confirmed(p)

ResolveSlot_KeepsSlot(p) ==
  /\ pc = "resolve"
  /\ Confirmed(p) \/ Expired(p)
  /\ events' = events \cup
       {[id |-> p.id, result |-> IF Confirmed(p) THEN "Succeeded" ELSE "TimedOut"]}
  /\ UNCHANGED <<pc, linkVars, pollIn, reportAge, state, pending, commands, fanVars,
                 toFan, inbox, applied>>

ResolveSlot(p) ==
  /\ pc = "resolve"
  /\ Confirmed(p) \/ Expired(p)
  /\ pending' = pending \ {p}
  /\ events' = events \cup
       {[id |-> p.id, result |-> IF Confirmed(p) THEN "Succeeded" ELSE "TimedOut"]}
  /\ UNCHANGED <<pc, linkVars, pollIn, reportAge, state, commands, fanVars,
                 toFan, inbox, applied>>

EndTick ==
  /\ pc = "resolve"
  /\ \A p \in pending : ~Confirmed(p) /\ ~Expired(p)
  /\ pc' = "execute"
  /\ UNCHANGED <<linkVars, pollIn, reportAge, state, tableVars, fanVars,
                 toFan, inbox, applied>>

-----------------------------------------------------------------------------
(* execute(): publish first, then look for a pending slot. *)

NoCommand ==
  /\ pc = "execute"
  /\ pc' = "drain"
  /\ UNCHANGED <<linkVars, pollIn, reportAge, state, tableVars, fanVars,
                 toFan, inbox, applied>>

(* Not connected, or the publish failed: the result is Offline at once. *)
ExecuteOffline ==
  /\ pc = "execute"
  /\ commands < MaxCommands
  /\ ~connected
  /\ commands' = commands + 1
  /\ pc' = "drain"
  /\ UNCHANGED <<linkVars, pollIn, reportAge, state, pending, events, fanVars,
                 toFan, inbox, applied>>

Publishes(kind, value) ==
  /\ pc = "execute"
  /\ commands < MaxCommands
  /\ connected
  /\ commands' = commands + 1
  /\ toFan' = Append(toFan, [type |-> "set", id |-> commands + 1,
                             kind |-> kind, value |-> value])
  /\ pc' = "drain"
  /\ UNCHANGED <<linkVars, pollIn, reportAge, state, events, fanVars, inbox, applied>>

Execute_Overfull(kind, value) ==
  /\ Publishes(kind, value)
  /\ pending' = pending \cup {[id |-> commands + 1, kind |-> kind, value |-> value,
                               left |-> Patience, reported |-> FALSE]}

(* A message read in the same millisecond, earlier in this loop, counts as   *)
(* one received since the command was issued (lastReportMs >= issuedMs).     *)
Execute(kind, value) ==
  /\ Publishes(kind, value)
  /\ Cardinality(pending) < PendingSlots
  /\ \E same \in {FALSE, reportAge = 0} :
       pending' = pending \cup {[id |-> commands + 1, kind |-> kind, value |-> value,
                                 left |-> Patience, reported |-> same]}

(* "pending table full": reported as TimedOut although it was published.     *)
ExecuteUntracked(kind, value) ==
  /\ Publishes(kind, value)
  /\ Cardinality(pending) = PendingSlots
  /\ UNCHANGED pending

(* pollEvent(), until the buffer is empty; then the next loop, later. *)
PollEvent(e) ==
  /\ pc = "drain"
  /\ e \in events
  /\ events' = events \ {e}
  /\ UNCHANGED <<pc, linkVars, pollIn, reportAge, state, pending, commands, fanVars,
                 toFan, inbox, applied>>

NextLoop ==
  /\ pc = "drain"
  /\ events = {}
  /\ fanUp # "up" => MaxOutage = 0 \/ outage < MaxOutage
  /\ connected => Len(toFan) <= FanLag
  /\ reconnectIn' = CountDown(reconnectIn)
  /\ discoverIn' = CountDown(discoverIn)
  /\ pollIn' = CountDown(pollIn)
  /\ reportAge' = IF reportAge = -1 THEN -1 ELSE Least(reportAge + 1, StaleAfter + 1)
  /\ pending' = {[p EXCEPT !.left = CountDown(@)] : p \in pending}
  /\ outage' = IF fanUp = "up" \/ MaxOutage = 0 THEN outage ELSE outage + 1
  /\ pc' = "stale"
  /\ UNCHANGED <<connected, host, connection, delay, state, events, commands,
                 fanUp, leaves, fan, remote, toFan, inbox, applied>>

-----------------------------------------------------------------------------
(* The fan, its broker and the network around them (external).               *)

Reported(packets) ==
  IF connected
  THEN /\ Len(inbox) + Len(packets) <= InboxSize
       /\ inbox' = inbox \o packets
  ELSE UNCHANGED inbox

FanHandles ==
  /\ toFan # <<>>
  /\ fanUp = "up"
  /\ toFan' = Tail(toFan)
  /\ LET m == Head(toFan) IN
       \/ /\ m.type = "set"
          /\ fan' = [fan EXCEPT ![m.kind] = m.value]
          /\ applied' = applied \cup {m.id}
          /\ Reported(<<StateReport(fan')>>)
       \/ /\ m.type = "request-state"
          /\ Reported(<<StateReport(fan)>>)
          /\ UNCHANGED <<fan, applied>>
       \/ /\ m.type = "request-sensor"
          /\ Reported(<<Sensor>>)
          /\ UNCHANGED <<fan, applied>>
  /\ UNCHANGED <<pc, linkVars, pollIn, reportAge, state, tableVars, fanUp, leaves, outage,
                 remote>>

(* Someone uses the remote control: the fan reports the change by itself.    *)
RemoteControl(kind, value) ==
  /\ remote < RemoteChanges
  /\ remote' = remote + 1
  /\ fan[kind] # value
  /\ fan' = [fan EXCEPT ![kind] = value]
  /\ Reported(<<StateReport(fan')>>)
  /\ UNCHANGED <<pc, linkVars, pollIn, reportAge, state, tableVars, fanUp, leaves, outage,
                 toFan, applied>>

(* The fan leaves the network or refuses us: the connection is gone, and so  *)
(* is what was on its way in either direction.                                *)
FanLeaves(reason) ==
  /\ fanUp = "up"
  /\ leaves < MaxLeaves
  /\ leaves' = leaves + 1
  /\ fanUp' = reason
  /\ connected' = FALSE /\ inbox' = <<>> /\ toFan' = <<>>
  /\ UNCHANGED <<pc, host, connection, reconnectIn, delay, discoverIn, pollIn,
                 reportAge, state, tableVars, outage, fan, remote, applied>>

(* It comes back, possibly with another address. *)
FanReturns ==
  /\ fanUp # "up"
  /\ fanUp' = "up"
  /\ host' \in {host, IF host = "none" THEN "none" ELSE "wrong"}
  /\ UNCHANGED <<pc, connected, connection, reconnectIn, delay, discoverIn, pollIn,
                 reportAge, state, tableVars, leaves, outage, fan, remote, toFan, inbox,
                 applied>>

-----------------------------------------------------------------------------
Init ==
  /\ pc = "begin"
  /\ connected = FALSE /\ host = "none" /\ connection = "Connecting"
  /\ reconnectIn = 0 /\ delay = 1 /\ discoverIn = 0 /\ pollIn = 0
  /\ reportAge = -1
  /\ fan \in [Kind -> Value]
  /\ state \in [Kind -> Value]
  /\ pending = {} /\ events = {} /\ commands = 0
  /\ fanUp = "up" /\ leaves = 0 /\ outage = 0 /\ remote = 0
  /\ toFan = <<>> /\ inbox = <<>>
  /\ applied = {}

Tick ==
  \/ StaleCheck \/ NoReconnect \/ DiscoveryFails \/ Connect \/ ConnectFails
  \/ ReadPacket \/ ReadNothing \/ Poll
  \/ \E p \in pending : ResolveSlot(p)
  \/ EndTick

NetworkTask ==
  \/ Begin \/ Tick
  \/ NoCommand \/ ExecuteOffline
  \/ \E kind \in Kind, value \in Value :
       Execute(kind, value) \/ ExecuteUntracked(kind, value)
  \/ \E e \in events : PollEvent(e)
  \/ NextLoop

Environment ==
  \/ FanHandles
  \/ \E kind \in Kind, value \in Value : RemoteControl(kind, value)
  \/ \E reason \in {"down", "refusing"} : FanLeaves(reason)
  \/ FanReturns

Next == NetworkTask \/ Environment

(* The network task runs for ever, and a fan on the network answers.         *)
Spec == Init /\ [][Next]_vars /\ WF_vars(NetworkTask) /\ WF_vars(FanHandles)

-----------------------------------------------------------------------------
PendingSlot == [id : Ids, kind : Kind, value : Value, left : 0..Patience,
                reported : BOOLEAN]
(* Values in range; the table never outgrows its slots. *)
TypeOK ==
  /\ pc \in {"begin", "stale", "reconnect", "loop", "poll", "resolve", "execute", "drain"}
  /\ connected \in BOOLEAN /\ host \in {"none", "right", "wrong"}
  /\ connection \in {"Connecting", "Online", "Offline", "AuthFailed"}
  /\ reconnectIn \in 0..MaxDelay /\ delay \in 1..MaxDelay
  /\ discoverIn \in 0..RediscoverAfter /\ pollIn \in 0..PollEvery
  /\ reportAge \in -1..StaleAfter + 1
  /\ state \in [Kind -> Value] /\ fan \in [Kind -> Value]
  /\ pending \subseteq PendingSlot /\ Cardinality(pending) <= PendingSlots
  /\ events \subseteq [id : Ids, result : {"Succeeded", "TimedOut"}]
  /\ Len(inbox) <= InboxSize
  /\ leaves \in 0..MaxLeaves /\ outage \in 0..MaxOutage
  /\ commands \in 0..MaxCommands /\ applied \subseteq Ids

(* Every command answered with Pending gets exactly one event, whatever the  *)
(* connection does meanwhile.                                                 *)
Contract == INSTANCE AdapterContract WITH
  awaiting <- {p.id : p \in pending}, answered <- {e.id : e \in events}
ImplementsContract == Contract!Spec

(* ... and gets it: the deadline does not depend on the connection.          *)
EveryPendingAnswered ==
  \A id \in Ids : (\E p \in pending : p.id = id) ~> (\A p \in pending : p.id # id)

(* While connected, once every packet and request is handled the cache holds *)
(* the fan's own state, remote control and reconnections included.           *)
CacheTracksFan ==
  /\ connected
  /\ \A i \in DOMAIN inbox : inbox[i].type # "state"
  /\ \A i \in DOMAIN toFan : toFan[i].type # "request-state"
  => state = fan

(* A command is reported as succeeded only after the fan has received it.    *)
SuccessMeansApplied ==
  \A e \in events : e.result = "Succeeded" => e.id \in applied

(* A fan that stays on the network is connected to again and again, after    *)
(* any outage, change of address, refusal, stale session or new link.         *)
FanIsReconnected == <>[](fanUp = "up") => []<>connected

(* ... and it is heard again.                                                *)
FanIsHeardAgain == <>[](fanUp = "up") => []<>(reportAge = 0)
=============================================================================
