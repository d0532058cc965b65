-------------------------- MODULE DysonAdapter_proofs --------------------------
(***************************************************************************)
(* Proofs about DysonAdapter for any properties of the fan, any values, any   *)
(* number of commands and slots, any deadlines, and any losses of the link.   *)
(***************************************************************************)
EXTENDS DysonAdapter, FiniteSetTheorems, SequenceTheorems, TLAPS

Packet == {SubAck, Sensor} \cup {StateReport(s) : s \in [Kind -> Value]}
Message == {[type |-> "request-state"], [type |-> "request-sensor"]} \cup
           [type : {"set"}, id : Ids, kind : Kind, value : Value]

LinkInv ==
  /\ pc \in {"begin", "stale", "reconnect", "loop", "poll", "resolve", "execute", "drain"}
  /\ connected \in BOOLEAN /\ host \in {"none", "right", "wrong"}
  /\ connection \in {"Connecting", "Online", "Offline", "AuthFailed"}
  /\ reconnectIn \in 0..MaxDelay /\ delay \in 1..MaxDelay
  /\ discoverIn \in 0..RediscoverAfter /\ pollIn \in 0..PollEvery
  /\ reportAge \in -1..StaleAfter + 1
  /\ leaves \in 0..MaxLeaves /\ outage \in 0..MaxOutage
  /\ commands \in 0..MaxCommands

MessagesInv ==
  /\ state \in [Kind -> Value] /\ fan \in [Kind -> Value]
  /\ inbox \in Seq(Packet) /\ Len(inbox) <= InboxSize
  /\ toFan \in Seq(Message)
  /\ applied \subseteq Ids

Slot(n) == [id : 1..n, kind : Kind, value : Value, left : 0..Patience, reported : BOOLEAN]

(* A command has one slot or one event, and only if it was executed.           *)
TableInv ==
  /\ IsFiniteSet(pending) /\ Cardinality(pending) <= PendingSlots
  /\ pending \subseteq Slot(commands)
  /\ events \subseteq [id : 1..commands, result : {"Succeeded", "TimedOut"}]
  /\ \A p, q \in pending : p.id = q.id => p = q
  /\ \A e, f \in events : e.id = f.id => e = f
  /\ \A p \in pending, e \in events : p.id # e.id

LastIs(q, s) ==
  \A i \in DOMAIN q :
    q[i].type = "state" /\ (\A j \in DOMAIN q : j > i => q[j].type # "state")
      => q[i].product = s
NoState(q) == \A i \in DOMAIN q : q[i].type # "state"
StateAsked(q) == \E i \in DOMAIN q : q[i].type = "request-state"

(* The last report on its way is the fan's state; when none is, the cache      *)
(* holds it already or it is being asked for.                                   *)
TrackInv ==
  connected => /\ LastIs(inbox, fan)
               /\ NoState(inbox) => state = fan \/ StateAsked(toFan)

IInv == LinkInv /\ MessagesInv /\ TableInv /\ TrackInv

-----------------------------------------------------------------------------
(* Packets and the queues they wait in.                                       *)

LEMMA PacketTypes ==
  /\ \A p \in Packet : p.type = "state" => p.product \in [Kind -> Value]
  /\ SubAck \in Packet /\ Sensor \in Packet
  /\ SubAck.type # "state" /\ Sensor.type # "state"
  /\ \A s \in [Kind -> Value] : StateReport(s) \in Packet
  /\ \A s : StateReport(s).type = "state" /\ StateReport(s).product = s
<1>1. SubAck.type = "suback" /\ Sensor.type = "sensor"
  BY DEF SubAck, Sensor
<1>2. \A s : StateReport(s).type = "state" /\ StateReport(s).product = s
  BY DEF StateReport
<1>3. \A p \in Packet : p = SubAck \/ p = Sensor \/ \E s \in [Kind -> Value] : p = StateReport(s)
  BY DEF Packet
<1>4. /\ SubAck \in Packet /\ Sensor \in Packet
      /\ \A s \in [Kind -> Value] : StateReport(s) \in Packet
  BY DEF Packet
<1>5. \A p \in Packet : p.type = "state" => p.product \in [Kind -> Value]
  BY <1>1, <1>2, <1>3
<1>6. SubAck.type # "state" /\ Sensor.type # "state"
  BY <1>1
<1>7. QED
  BY <1>2, <1>4, <1>5, <1>6

LEMMA RequestsAreMessages ==
  Requests \in Seq(Message) /\ StateAsked(Requests)
<1>1. Requests \in Seq(Message)
  BY DEF Requests, Message
<1>2. 1 \in DOMAIN Requests /\ Requests[1].type = "request-state"
  BY DEF Requests
<1>3. QED
  BY <1>1, <1>2 DEF StateAsked

(* Appending a report makes it the last; appending another packet does not.    *)
LEMMA ReportIsLast ==
  ASSUME NEW q \in Seq(Packet), NEW s \in [Kind -> Value]
  PROVE  /\ q \o <<StateReport(s)>> \in Seq(Packet)
         /\ LastIs(q \o <<StateReport(s)>>, s) /\ ~NoState(q \o <<StateReport(s)>>)
<1> DEFINE r == q \o <<StateReport(s)>>
           n == Len(q) + 1
<1>1. /\ r \in Seq(Packet) /\ Len(r) = n /\ DOMAIN r = 1..n
      /\ r[n] = StateReport(s)
  BY PacketTypes
<1>2. n \in DOMAIN r /\ \A i \in DOMAIN r : i = n \/ n > i
  BY <1>1
<1>3. r[n].type = "state" /\ r[n].product = s
  BY <1>1, PacketTypes
<1> HIDE DEF r, n
<1>4. LastIs(r, s) /\ ~NoState(r)
  BY <1>2, <1>3 DEF LastIs, NoState
<1>5. QED
  BY <1>1, <1>4 DEF r

LEMMA SensorIsNoReport ==
  ASSUME NEW q \in Seq(Packet), NEW s
  PROVE  /\ q \o <<Sensor>> \in Seq(Packet)
         /\ LastIs(q, s) => LastIs(q \o <<Sensor>>, s)
         /\ NoState(q \o <<Sensor>>) => NoState(q)
<1> DEFINE r == q \o <<Sensor>>
           n == Len(q) + 1
<1>1. /\ r \in Seq(Packet) /\ DOMAIN r = 1..n /\ DOMAIN q = 1..Len(q) /\ Len(q) \in Nat
      /\ r[n] = Sensor /\ \A i \in DOMAIN q : r[i] = q[i]
  BY PacketTypes
<1>2. DOMAIN q \subseteq DOMAIN r /\ \A i \in DOMAIN r : i = n \/ i \in DOMAIN q
  BY <1>1
<1>3. r[n].type # "state"
  BY <1>1, PacketTypes
<1> HIDE DEF r, n
<1>4. (LastIs(q, s) => LastIs(r, s)) /\ (NoState(r) => NoState(q))
  BY <1>1, <1>2, <1>3 DEF LastIs, NoState
<1>5. QED
  BY <1>1, <1>4 DEF r

LEMMA ReadTail ==
  ASSUME NEW q \in Seq(Packet), q # <<>>, NEW s, LastIs(q, s)
  PROVE  /\ Tail(q) \in Seq(Packet) /\ Len(Tail(q)) <= Len(q) /\ Head(q) \in Packet
         /\ LastIs(Tail(q), s)
         /\ NoState(Tail(q)) => \/ Head(q).type # "state" /\ NoState(q)
                                \/ Head(q).type = "state" /\ Head(q).product = s
<1> DEFINE r == Tail(q)
           n == Len(q)
<1>1. /\ r \in Seq(Packet) /\ n \in Nat /\ n > 0 /\ Len(r) = n - 1
      /\ DOMAIN q = 1..n /\ DOMAIN r = 1..(n - 1)
      /\ Head(q) = q[1] /\ q[1] \in Packet /\ \A i \in DOMAIN r : r[i] = q[i + 1]
  BY HeadTailProperties, EmptySeq
<1>2. \A i \in DOMAIN r : i + 1 \in DOMAIN q /\ r[i] = q[i + 1]
  BY <1>1
<1>3. \A i \in DOMAIN q : i # 1 => i - 1 \in DOMAIN r /\ r[i - 1] = q[i]
  BY <1>1
<1>4. 1 \in DOMAIN q /\ Head(q) = q[1]
  BY <1>1
<1> HIDE DEF r
<1>5. LastIs(r, s)
  <2> SUFFICES ASSUME NEW i \in DOMAIN r, r[i].type = "state",
                      \A j \in DOMAIN r : j > i => r[j].type # "state"
               PROVE  r[i].product = s
    BY DEF LastIs
  <2>1. i + 1 \in DOMAIN q /\ r[i] = q[i + 1] /\ i \in 1..(n - 1)
    BY <1>1, <1>2
  <2>2. \A j \in DOMAIN q : j > i + 1 => q[j].type # "state"
    <3> SUFFICES ASSUME NEW j \in DOMAIN q, j > i + 1 PROVE q[j].type # "state"
      OBVIOUS
    <3>1. j # 1 /\ j - 1 > i
      BY <1>1, <2>1
    <3>2. QED
      BY <1>3, <3>1
  <2>3. QED
    BY <2>1, <2>2 DEF LastIs
<1>6. ASSUME NoState(r)
      PROVE  \/ Head(q).type # "state" /\ NoState(q)
             \/ Head(q).type = "state" /\ Head(q).product = s
  <2>1. \A i \in DOMAIN q : i # 1 => q[i].type # "state"
    BY <1>3, <1>6 DEF NoState
  <2>2. CASE Head(q).type # "state"
    BY <1>4, <2>1, <2>2 DEF NoState
  <2>3. CASE Head(q).type = "state"
    <3>1. \A j \in DOMAIN q : j > 1 => q[j].type # "state"
      BY <1>1, <2>1
    <3>2. QED
      BY <1>4, <2>3, <3>1 DEF LastIs
  <2>4. QED
    BY <2>2, <2>3
<1>7. QED
  BY <1>1, <1>5, <1>6 DEF r

(* What is asked for stays asked for behind later messages.                    *)
LEMMA AskedStays ==
  ASSUME NEW q \in Seq(Message), NEW r \in Seq(Message)
  PROVE  /\ q \o r \in Seq(Message)
         /\ StateAsked(q) \/ StateAsked(r) => StateAsked(q \o r)
<1> DEFINE u == q \o r
<1>1. /\ u \in Seq(Message) /\ Len(q) \in Nat /\ Len(r) \in Nat
      /\ DOMAIN q = 1..Len(q) /\ DOMAIN r = 1..Len(r) /\ DOMAIN u = 1..(Len(q) + Len(r))
      /\ \A i \in DOMAIN q : u[i] = q[i]
      /\ \A i \in DOMAIN r : u[i + Len(q)] = r[i]
  OBVIOUS
<1>2. \A i \in DOMAIN q : i \in DOMAIN u
  BY <1>1
<1>3. \A i \in DOMAIN r : i + Len(q) \in DOMAIN u
  BY <1>1
<1> HIDE DEF u
<1>4. StateAsked(q) \/ StateAsked(r) => StateAsked(u)
  BY <1>1, <1>2, <1>3 DEF StateAsked
<1>5. QED
  BY <1>1, <1>4 DEF u

LEMMA AskedTail ==
  ASSUME NEW q \in Seq(Message), q # <<>>
  PROVE  /\ Tail(q) \in Seq(Message) /\ Head(q) \in Message
         /\ StateAsked(q) /\ Head(q).type # "request-state" => StateAsked(Tail(q))
<1> DEFINE r == Tail(q)
           n == Len(q)
<1>1. /\ r \in Seq(Message) /\ n \in Nat /\ n > 0
      /\ DOMAIN q = 1..n /\ DOMAIN r = 1..(n - 1)
      /\ Head(q) = q[1] /\ q[1] \in Message /\ \A i \in DOMAIN r : r[i] = q[i + 1]
  BY HeadTailProperties, EmptySeq
<1>2. \A i \in DOMAIN q : i # 1 => i - 1 \in DOMAIN r /\ r[i - 1] = q[i]
  BY <1>1
<1> HIDE DEF r
<1>3. StateAsked(q) /\ Head(q).type # "request-state" => StateAsked(r)
  BY <1>1, <1>2 DEF StateAsked
<1>4. QED
  BY <1>1, <1>3 DEF r

-----------------------------------------------------------------------------
(* The link and the timers.                                                   *)

LEMMA Ranges ==
  /\ \A k \in Nat : \A n \in 0..k : CountDown(n) \in 0..k
  /\ \A d \in 1..MaxDelay : Least(2 * d, MaxDelay) \in 1..MaxDelay
  /\ Least(2, MaxDelay) \in 0..MaxDelay
  /\ \A a \in -1..StaleAfter + 1 :
       a # -1 => Least(a + 1, StaleAfter + 1) \in -1..StaleAfter + 1
  BY DysonAssumption DEF CountDown, Least

LEMMA BeginLink ==
  ASSUME LinkInv, Begin
  PROVE  LinkInv'
<1>1. leaves' \in 0..MaxLeaves
  BY DysonAssumption DEF LinkInv, Begin
<1>2. /\ pc' = "stale" /\ connected' = FALSE /\ reconnectIn' = 0
      /\ host' \in {"none", "right"} /\ discoverIn' \in {0, RediscoverAfter}
      /\ connection' \in {"Offline", "Connecting"}
      /\ UNCHANGED <<delay, pollIn, reportAge, commands, outage>>
  BY DEF Begin, tableVars
<1>3. reconnectIn' \in 0..MaxDelay /\ discoverIn' \in 0..RediscoverAfter
  BY <1>2, DysonAssumption
<1>4. QED
  BY <1>1, <1>2, <1>3 DEF LinkInv

LEMMA TickLink ==
  ASSUME LinkInv, Tick
  PROVE  LinkInv'
<1>1. CASE StaleCheck
  <2>1. /\ pc' = "reconnect" /\ UNCHANGED <<pollIn, reportAge, commands, leaves, outage>>
        /\ delay' = delay
    BY <1>1 DEF StaleCheck, linkVars, tableVars, fanVars
  <2>2. \/ UNCHANGED <<connected, host, connection, discoverIn, reconnectIn>>
        \/ /\ connected' = FALSE /\ host' = "none" /\ connection' = "Offline"
           /\ discoverIn' = 0 /\ reconnectIn' = 1
    BY <1>1 DEF StaleCheck, linkVars
  <2>3. 0 \in 0..RediscoverAfter /\ 1 \in 0..MaxDelay
    BY DysonAssumption
  <2>4. QED
    BY <2>1, <2>2, <2>3 DEF LinkInv
<1>2. CASE NoReconnect
  BY <1>2 DEF NoReconnect, LinkInv, linkVars, tableVars, fanVars
<1>3. CASE DiscoveryFails
  BY <1>3, Ranges DEF DiscoveryFails, LinkInv, tableVars, fanVars
<1>4. HostAfterDiscovery \in {"none", "right", "wrong"}
      /\ DiscoverInAfter \in 0..RediscoverAfter
  BY DysonAssumption DEF HostAfterDiscovery, DiscoverInAfter, LinkInv
<1>5. CASE Connect
  BY <1>4, <1>5, DysonAssumption DEF Connect, LinkInv, tableVars, fanVars
<1>6. CASE ConnectFails
  <2>1. connection' \in {"AuthFailed", "Offline"} /\ host' \in {"none", "right", "wrong"}
        /\ pc' = "resolve"
    BY <1>4, <1>6 DEF ConnectFails
  <2>2. discoverIn' \in 0..RediscoverAfter
    BY <1>4, <1>6, DysonAssumption DEF ConnectFails
  <2>3. reconnectIn' \in 0..MaxDelay /\ delay' \in 1..MaxDelay
    BY <1>6, Ranges, DysonAssumption DEF ConnectFails, LinkInv
  <2>4. UNCHANGED <<connected, pollIn, reportAge, commands, leaves, outage>>
    BY <1>6 DEF ConnectFails, tableVars, fanVars
  <2>5. QED
    BY <2>1, <2>2, <2>3, <2>4 DEF LinkInv
<1>7. CASE ReadPacket
  <2>1. pc' = "poll" /\ UNCHANGED <<connected, host, connection, reconnectIn, delay, discoverIn,
                                    pollIn, commands, leaves, outage>>
    BY <1>7 DEF ReadPacket, linkVars, fanVars
  <2>2. reportAge' \in {reportAge, 0}
    BY <1>7 DEF ReadPacket
  <2>3. reportAge' \in -1..StaleAfter + 1
    BY <2>2, DysonAssumption DEF LinkInv
  <2>4. QED
    BY <2>1, <2>3 DEF LinkInv
<1>8. CASE ReadNothing
  BY <1>8 DEF ReadNothing, LinkInv, tableVars, fanVars
<1>9. CASE Poll
  BY <1>9, DysonAssumption DEF Poll, LinkInv, linkVars, tableVars, fanVars
<1>10. CASE \E p \in pending : ResolveSlot(p)
  BY <1>10 DEF ResolveSlot, LinkInv, linkVars, fanVars
<1>11. CASE EndTick
  BY <1>11 DEF EndTick, LinkInv, linkVars, tableVars, fanVars
<1>12. QED
  BY <1>1, <1>2, <1>3, <1>5, <1>6, <1>7, <1>8, <1>9, <1>10, <1>11 DEF Tick

LEMMA NextLoopLink ==
  ASSUME LinkInv, NextLoop
  PROVE  LinkInv'
<1>1. /\ reconnectIn' \in 0..MaxDelay /\ discoverIn' \in 0..RediscoverAfter
      /\ pollIn' \in 0..PollEvery /\ reportAge' \in -1..StaleAfter + 1
  BY Ranges, DysonAssumption DEF NextLoop, LinkInv
<1>2. outage' \in 0..MaxOutage
  <2>1. outage' = outage \/ (outage < MaxOutage /\ outage' = outage + 1)
    BY DEF NextLoop
  <2>2. QED
    BY <2>1, DysonAssumption DEF LinkInv
<1>3. pc' = "stale" /\ UNCHANGED <<connected, host, connection, delay, commands, leaves>>
  BY DEF NextLoop
<1>4. QED
  BY <1>1, <1>2, <1>3 DEF LinkInv

LEMMA LinkNext ==
  ASSUME LinkInv, [Next]_vars
  PROVE  LinkInv'
<1>1. CASE UNCHANGED vars
  BY <1>1 DEF vars, LinkInv, linkVars, tableVars, fanVars
<1>2. CASE NoCommand \/ ExecuteOffline
  BY <1>2, DysonAssumption
     DEF NoCommand, ExecuteOffline, LinkInv, linkVars, tableVars, fanVars
<1>3. CASE \E kind \in Kind, value \in Value :
             Execute(kind, value) \/ ExecuteUntracked(kind, value)
  <2>1. PICK kind \in Kind, value \in Value : Publishes(kind, value)
    BY <1>3 DEF Execute, ExecuteUntracked
  <2>2. QED
    BY <2>1, DysonAssumption DEF Publishes, LinkInv, linkVars, fanVars
<1>4. CASE \E e \in events : PollEvent(e)
  BY <1>4 DEF PollEvent, LinkInv, linkVars, fanVars
<1>5. CASE FanHandles \/ \E kind \in Kind, value \in Value : RemoteControl(kind, value)
  BY <1>5 DEF FanHandles, RemoteControl, LinkInv, linkVars, tableVars
<1>6. CASE \E reason \in {"down", "refusing"} : FanLeaves(reason)
  <2>1. /\ leaves < MaxLeaves /\ leaves' = leaves + 1 /\ connected' = FALSE
        /\ UNCHANGED <<pc, host, connection, reconnectIn, delay, discoverIn, pollIn, reportAge,
                       commands, outage>>
    BY <1>6 DEF FanLeaves, tableVars
  <2>2. leaves' \in 0..MaxLeaves
    BY <2>1, DysonAssumption DEF LinkInv
  <2>3. QED
    BY <2>1, <2>2 DEF LinkInv
<1>7. CASE FanReturns
  BY <1>7 DEF FanReturns, LinkInv, tableVars
<1>8. QED
  BY <1>1, <1>2, <1>3, <1>4, <1>5, <1>6, <1>7, BeginLink, TickLink, NextLoopLink
     DEF Next, NetworkTask, Environment

-----------------------------------------------------------------------------
(* Messages, and the cache behind the fan.                                    *)

MessagesTrack == MessagesInv /\ TrackInv

(* Steps that only publish, or lose the connection with all it carried.        *)
LEMMA PublishFrame ==
  ASSUME MessagesTrack, LinkInv, UNCHANGED <<state, fan, applied>>,
         \/ inbox' = inbox /\ connected' = connected
         \/ inbox' = <<>> /\ connected' = FALSE,
         \/ toFan' = toFan
         \/ \E r \in Seq(Message) : toFan' = toFan \o r
  PROVE  MessagesTrack'
<1>1. toFan' \in Seq(Message) /\ (StateAsked(toFan) => StateAsked(toFan'))
  BY AskedStays DEF MessagesTrack, MessagesInv
<1>2. inbox' \in Seq(Packet) /\ Len(inbox') <= InboxSize
  <2>1. CASE inbox' = inbox
    BY <2>1 DEF MessagesTrack, MessagesInv
  <2>2. CASE inbox' = <<>>
    <3>1. <<>> \in Seq(Packet) /\ Len(<<>>) = 0
      BY EmptySeq
    <3>2. QED
      BY <2>2, <3>1, DysonAssumption
  <2>3. QED
    BY <2>1, <2>2
<1>3. MessagesInv'
  BY <1>1, <1>2 DEF MessagesTrack, MessagesInv
<1>4. TrackInv'
  BY <1>1 DEF MessagesTrack, TrackInv
<1>5. QED
  BY <1>3, <1>4 DEF MessagesTrack

LEMMA TickPublishes ==
  ASSUME MessagesTrack, LinkInv, Tick
  PROVE  MessagesTrack'
<1>1. CASE StaleCheck
  <2>1. /\ UNCHANGED <<state, fan, applied, toFan>>
        /\ \/ inbox' = <<>> /\ connected' = FALSE
           \/ inbox' = inbox /\ connected' = connected
    BY <1>1 DEF StaleCheck, linkVars, fanVars
  <2>2. QED
    BY <2>1, PublishFrame
<1>2. CASE NoReconnect \/ EndTick \/ DiscoveryFails \/ ConnectFails \/ ReadNothing
  <2>1. UNCHANGED <<state, fan, applied, inbox, connected, toFan>>
    BY <1>2 DEF NoReconnect, EndTick, DiscoveryFails, ConnectFails, ReadNothing,
                linkVars, fanVars
  <2>2. QED
    BY <2>1, PublishFrame
<1>3. CASE \E p \in pending : ResolveSlot(p)
  <2>1. UNCHANGED <<state, fan, applied, inbox, connected, toFan>>
    BY <1>3 DEF ResolveSlot, linkVars, fanVars
  <2>2. QED
    BY <2>1, PublishFrame
<1>4. CASE Poll
  <2>1. /\ UNCHANGED <<state, fan, applied, inbox, connected>>
        /\ toFan' = toFan \/ toFan' = toFan \o Requests
    BY <1>4 DEF Poll, linkVars, fanVars
  <2>2. QED
    BY <2>1, PublishFrame, RequestsAreMessages
<1>5. CASE Connect
  <2>1. /\ inbox' = <<SubAck>> /\ toFan' = toFan \o Requests
        /\ UNCHANGED <<state, fan, applied>>
    BY <1>5 DEF Connect, fanVars
  <2>2. toFan' \in Seq(Message) /\ StateAsked(toFan')
    BY <2>1, AskedStays, RequestsAreMessages DEF MessagesTrack, MessagesInv
  <2>3. inbox' \in Seq(Packet) /\ Len(inbox') <= InboxSize
    <3>1. <<SubAck>> \in Seq(Packet) /\ Len(<<SubAck>>) = 1
      BY PacketTypes
    <3>2. QED
      BY <2>1, <3>1, DysonAssumption
  <2>4. LastIs(inbox', fan')
    <3>1. \A i \in DOMAIN inbox' : inbox'[i] = SubAck
      BY <2>1
    <3>2. QED
      BY <3>1, PacketTypes DEF LastIs
  <2>5. QED
    BY <2>1, <2>2, <2>3, <2>4 DEF MessagesTrack, MessagesInv, TrackInv
<1>6. CASE ReadPacket
  <2>1. /\ connected /\ inbox # <<>> /\ inbox' = Tail(inbox)
        /\ state' = IF Head(inbox).type = "state" THEN Head(inbox).product ELSE state
        /\ UNCHANGED <<connected, fan, toFan, applied>>
    BY <1>6 DEF ReadPacket, linkVars, fanVars
  <2>2. inbox \in Seq(Packet) /\ LastIs(inbox, fan) /\ Len(inbox) <= InboxSize
    BY <2>1 DEF MessagesTrack, MessagesInv, TrackInv
  <2>3. /\ inbox' \in Seq(Packet) /\ Len(inbox') <= Len(inbox) /\ Head(inbox) \in Packet
        /\ LastIs(inbox', fan)
        /\ NoState(inbox') => \/ Head(inbox).type # "state" /\ NoState(inbox)
                              \/ Head(inbox).type = "state" /\ Head(inbox).product = fan
    BY <2>1, <2>2, ReadTail
  <2>4. Len(inbox') <= InboxSize
    <3>1. Len(inbox) \in Nat /\ Len(inbox') \in Nat /\ InboxSize \in Nat
      BY <2>2, <2>3, LenProperties, DysonAssumption
    <3>2. QED
      BY <2>2, <2>3, <3>1
  <2>5. state' \in [Kind -> Value]
    BY <2>1, <2>3, PacketTypes DEF MessagesTrack, MessagesInv
  <2>6. MessagesInv'
    BY <2>1, <2>3, <2>4, <2>5 DEF MessagesTrack, MessagesInv
  <2>7. NoState(inbox') => state' = fan \/ StateAsked(toFan)
    BY <2>1, <2>3 DEF MessagesTrack, TrackInv
  <2>8. TrackInv'
    BY <2>1, <2>3, <2>7 DEF TrackInv
  <2>9. QED
    BY <2>6, <2>8 DEF MessagesTrack
<1>7. QED
  BY <1>1, <1>2, <1>3, <1>4, <1>5, <1>6 DEF Tick

(* The fan changes, reports it if we are connected, and does not forget what   *)
(* it is still asked.                                                           *)
LEMMA FanReports ==
  ASSUME MessagesTrack, UNCHANGED <<state, connected>>, fan' \in [Kind -> Value],
         applied' \subseteq Ids, toFan' \in Seq(Message),
         IF connected THEN inbox' = inbox \o <<StateReport(fan')>> ELSE inbox' = inbox,
         Len(inbox') <= InboxSize
  PROVE  MessagesTrack'
<1>1. inbox \in Seq(Packet) /\ state \in [Kind -> Value]
  BY DEF MessagesTrack, MessagesInv
<1>2. CASE connected
  <2>1. inbox' \in Seq(Packet) /\ LastIs(inbox', fan') /\ ~NoState(inbox')
    BY <1>1, <1>2, ReportIsLast
  <2>2. QED
    BY <1>1, <2>1 DEF MessagesTrack, MessagesInv, TrackInv
<1>3. CASE ~connected
  BY <1>1, <1>3 DEF MessagesTrack, MessagesInv, TrackInv
<1>4. QED
  BY <1>2, <1>3

LEMMA ReportedRoom ==
  ASSUME MessagesInv, NEW p, Reported(<<p>>), p \in Packet
  PROVE  /\ IF connected THEN inbox' = inbox \o <<p>> ELSE inbox' = inbox
         /\ Len(inbox') <= InboxSize
<1>1. CASE connected
  <2>1. Len(inbox \o <<p>>) = Len(inbox) + Len(<<p>>)
    BY DEF MessagesInv
  <2>2. QED
    BY <1>1, <2>1 DEF Reported
<1>2. CASE ~connected
  BY <1>2 DEF Reported, MessagesInv
<1>3. QED
  BY <1>1, <1>2

LEMMA FanHandlesTracks ==
  ASSUME MessagesTrack, FanHandles
  PROVE  MessagesTrack'
<1> DEFINE m == Head(toFan)
<1>1. toFan # <<>> /\ toFan' = Tail(toFan) /\ UNCHANGED <<state, connected>>
  BY DEF FanHandles, linkVars
<1>2. /\ toFan' \in Seq(Message) /\ m \in Message
      /\ StateAsked(toFan) /\ m.type # "request-state" => StateAsked(toFan')
  BY <1>1, AskedTail DEF MessagesTrack, MessagesInv
<1>3. /\ fan \in [Kind -> Value] /\ applied \subseteq Ids /\ inbox \in Seq(Packet)
      /\ MessagesInv
  BY DEF MessagesTrack, MessagesInv
<1>4. CASE /\ m.type = "set" /\ fan' = [fan EXCEPT ![m.kind] = m.value]
           /\ applied' = applied \cup {m.id} /\ Reported(<<StateReport(fan')>>)
  <2>1. m.value \in Value /\ m.id \in Ids
    BY <1>2, <1>4 DEF Message
  <2>2. fan' \in [Kind -> Value] /\ applied' \subseteq Ids
    BY <1>3, <1>4, <2>1
  <2>3. StateReport(fan') \in Packet
    BY <2>2, PacketTypes
  <2>4. /\ IF connected THEN inbox' = inbox \o <<StateReport(fan')>> ELSE inbox' = inbox
        /\ Len(inbox') <= InboxSize
    BY <1>3, <1>4, <2>3, ReportedRoom
  <2>5. QED
    BY <1>1, <1>2, <2>2, <2>4, FanReports
<1>5. CASE m.type = "request-state" /\ Reported(<<StateReport(fan)>>)
           /\ UNCHANGED <<fan, applied>>
  <2>1. StateReport(fan) \in Packet
    BY <1>3, PacketTypes
  <2>2. /\ IF connected THEN inbox' = inbox \o <<StateReport(fan)>> ELSE inbox' = inbox
        /\ Len(inbox') <= InboxSize
    BY <1>3, <1>5, <2>1, ReportedRoom
  <2>3. QED
    BY <1>1, <1>2, <1>3, <1>5, <2>2, FanReports
<1>6. CASE m.type = "request-sensor" /\ Reported(<<Sensor>>) /\ UNCHANGED <<fan, applied>>
  <2>1. /\ IF connected THEN inbox' = inbox \o <<Sensor>> ELSE inbox' = inbox
        /\ Len(inbox') <= InboxSize
    BY <1>3, <1>6, PacketTypes, ReportedRoom
  <2>2. /\ inbox \o <<Sensor>> \in Seq(Packet)
        /\ LastIs(inbox, fan) => LastIs(inbox \o <<Sensor>>, fan)
        /\ NoState(inbox \o <<Sensor>>) => NoState(inbox)
    BY <1>3, SensorIsNoReport
  <2>3. MessagesInv'
    BY <1>1, <1>2, <1>3, <1>6, <2>1, <2>2 DEF MessagesInv
  <2>4. StateAsked(toFan) => StateAsked(toFan')
    BY <1>2, <1>6
  <2>5. TrackInv'
    BY <1>1, <1>6, <2>1, <2>2, <2>4 DEF MessagesTrack, TrackInv
  <2>6. QED
    BY <2>3, <2>5 DEF MessagesTrack
<1>7. QED
  BY <1>4, <1>5, <1>6 DEF FanHandles

LEMMA MessagesNext ==
  ASSUME MessagesTrack, LinkInv, [Next]_vars
  PROVE  MessagesTrack'
<1>1. CASE UNCHANGED vars
  <2>1. UNCHANGED <<state, fan, applied, inbox, connected, toFan>>
    BY <1>1 DEF vars, linkVars, fanVars
  <2>2. QED
    BY <2>1, PublishFrame
<1>2. CASE Begin
  <2>1. UNCHANGED <<state, fan, applied, toFan>> /\ inbox' = <<>> /\ connected' = FALSE
    BY <1>2 DEF Begin
  <2>2. QED
    BY <2>1, PublishFrame
<1>3. CASE \/ NoCommand \/ ExecuteOffline \/ NextLoop \/ FanReturns
           \/ \E e \in events : PollEvent(e)
  <2>1. UNCHANGED <<state, fan, applied, inbox, connected, toFan>>
    BY <1>3 DEF NoCommand, ExecuteOffline, NextLoop, FanReturns, PollEvent, linkVars, fanVars
  <2>2. QED
    BY <2>1, PublishFrame
<1>4. CASE \E kind \in Kind, value \in Value :
             Execute(kind, value) \/ ExecuteUntracked(kind, value)
  <2>1. PICK kind \in Kind, value \in Value : Publishes(kind, value)
    BY <1>4 DEF Execute, ExecuteUntracked
  <2> DEFINE m == [type |-> "set", id |-> commands + 1, kind |-> kind, value |-> value]
  <2>2. /\ UNCHANGED <<state, fan, applied, inbox, connected>> /\ commands < MaxCommands
        /\ toFan' = Append(toFan, m)
    BY <2>1 DEF Publishes, linkVars, fanVars
  <2>3. m \in Message
    BY <2>2, DysonAssumption DEF Message, Ids, LinkInv
  <2> HIDE DEF m
  <2>4. toFan' = toFan \o <<m>> /\ <<m>> \in Seq(Message)
    BY <2>2, <2>3 DEF MessagesTrack, MessagesInv
  <2>5. QED
    BY <2>2, <2>4, PublishFrame
<1>5. CASE \E kind \in Kind, value \in Value : RemoteControl(kind, value)
  <2>1. PICK kind \in Kind, value \in Value : RemoteControl(kind, value)
    BY <1>5
  <2>2. /\ fan' = [fan EXCEPT ![kind] = value] /\ Reported(<<StateReport(fan')>>)
        /\ UNCHANGED <<state, connected, toFan, applied>>
    BY <2>1 DEF RemoteControl, linkVars
  <2>3. fan' \in [Kind -> Value] /\ MessagesInv
    BY <2>2 DEF MessagesTrack, MessagesInv
  <2>4. StateReport(fan') \in Packet
    BY <2>3, PacketTypes
  <2>5. /\ IF connected THEN inbox' = inbox \o <<StateReport(fan')>> ELSE inbox' = inbox
        /\ Len(inbox') <= InboxSize
    BY <2>2, <2>3, <2>4, ReportedRoom
  <2>6. QED
    BY <2>2, <2>3, <2>5, FanReports DEF MessagesInv
<1>6. CASE \E reason \in {"down", "refusing"} : FanLeaves(reason)
  <2>1. /\ connected' = FALSE /\ inbox' = <<>> /\ toFan' = <<>>
        /\ UNCHANGED <<state, fan, applied>>
    BY <1>6 DEF FanLeaves
  <2>2. /\ inbox' \in Seq(Packet) /\ Len(inbox') <= InboxSize /\ toFan' \in Seq(Message)
    BY <2>1, EmptySeq, DysonAssumption
  <2>3. QED
    BY <2>1, <2>2 DEF MessagesTrack, MessagesInv, TrackInv
<1>7. QED
  BY <1>1, <1>2, <1>3, <1>4, <1>5, <1>6, TickPublishes, FanHandlesTracks
     DEF Next, NetworkTask, Environment

-----------------------------------------------------------------------------
(* The pending table and the events.                                          *)

LEMMA SlotsLater ==
  ASSUME NEW n \in Nat
  PROVE  /\ Slot(n) \subseteq Slot(n + 1)
         /\ [id : 1..n, result : {"Succeeded", "TimedOut"}]
              \subseteq [id : 1..(n + 1), result : {"Succeeded", "TimedOut"}]
  BY DEF Slot

(* Slots changed in place keep the table as large, and its ids.                *)
LEMMA ChangedTable ==
  ASSUME TableInv, UNCHANGED <<events, commands>>,
         NEW f, f = [p \in pending |-> f[p]], pending' = {f[p] : p \in pending},
         \A p \in pending : f[p] \in Slot(commands) /\ f[p].id = p.id
  PROVE  TableInv' /\ UNCHANGED {p.id : p \in pending}
<1>1. f \in Surjection(pending, pending')
  BY DEF Surjection
<1>2. IsFiniteSet(pending') /\ Cardinality(pending') <= Cardinality(pending)
  BY <1>1, FS_Surjection DEF TableInv
<1>3. Cardinality(pending') <= PendingSlots
  <2>1. Cardinality(pending') \in Nat /\ Cardinality(pending) \in Nat
    BY <1>2, FS_CardinalityType DEF TableInv
  <2>2. QED
    BY <1>2, <2>1, DysonAssumption DEF TableInv
<1>4. \A q \in pending' : \E p \in pending : q = f[p] /\ q.id = p.id
  OBVIOUS
<1>5. /\ pending' \subseteq Slot(commands)
      /\ \A p, q \in pending' : p.id = q.id => p = q
      /\ \A p \in pending', e \in events : p.id # e.id
  BY <1>4 DEF TableInv
<1>6. {q.id : q \in pending'} = {p.id : p \in pending}
  BY <1>4
<1>7. QED
  BY <1>2, <1>3, <1>5, <1>6 DEF TableInv

LEMMA TablesChangedInPlace ==
  ASSUME TableInv, LinkInv, ReadPacket \/ NextLoop
  PROVE  TableInv' /\ UNCHANGED {p.id : p \in pending} /\ UNCHANGED {e.id : e \in events}
<1>1. UNCHANGED <<events, commands>>
  BY DEF ReadPacket, NextLoop
<1>2. CASE pending' = pending
  BY <1>1, <1>2 DEF TableInv
<1>3. CASE pending' = {[p EXCEPT !.reported = TRUE] : p \in pending}
  <2> DEFINE f == [p \in pending |-> [p EXCEPT !.reported = TRUE]]
  <2>1. \A p \in pending : f[p] \in Slot(commands) /\ f[p].id = p.id
    BY DEF TableInv, Slot
  <2>2. f = [p \in pending |-> f[p]] /\ pending' = {f[p] : p \in pending}
    BY <1>3
  <2> HIDE DEF f
  <2>3. QED
    BY <1>1, <2>1, <2>2, ChangedTable
<1>4. CASE pending' = {[p EXCEPT !.left = CountDown(@)] : p \in pending}
  <2> DEFINE f == [p \in pending |-> [p EXCEPT !.left = CountDown(@)]]
  <2>1. \A p \in pending : f[p] \in Slot(commands) /\ f[p].id = p.id
    <3>1. \A k \in 0..Patience : CountDown(k) \in 0..Patience
      BY Ranges, DysonAssumption
    <3>2. QED
      BY <3>1 DEF TableInv, Slot
  <2>2. f = [p \in pending |-> f[p]] /\ pending' = {f[p] : p \in pending}
    BY <1>4
  <2> HIDE DEF f
  <2>3. QED
    BY <1>1, <2>1, <2>2, ChangedTable
<1>5. QED
  BY <1>2, <1>3, <1>4 DEF ReadPacket, NextLoop

LEMMA ResolveTable ==
  ASSUME TableInv, NEW p \in pending, ResolveSlot(p)
  PROVE  TableInv' /\ Contract!Resolve({p.id})
<1> DEFINE e == [id |-> p.id, result |-> IF Confirmed(p) THEN "Succeeded" ELSE "TimedOut"]
<1>1. pending' = pending \ {p} /\ events' = events \cup {e} /\ commands' = commands
  BY DEF ResolveSlot
<1>2. e.id = p.id /\ e \in [id : 1..commands, result : {"Succeeded", "TimedOut"}]
  BY DEF TableInv, Slot
<1> HIDE DEF e
<1>3. IsFiniteSet(pending') /\ Cardinality(pending') <= PendingSlots
  <2>1. IsFiniteSet(pending) /\ pending' \subseteq pending
    BY <1>1 DEF TableInv
  <2>2. IsFiniteSet(pending') /\ Cardinality(pending') <= Cardinality(pending)
    BY <2>1, FS_Subset
  <2>3. Cardinality(pending') \in Nat /\ Cardinality(pending) \in Nat
    BY <2>1, <2>2, FS_CardinalityType
  <2>4. QED
    BY <2>2, <2>3, DysonAssumption DEF TableInv
<1>4. TableInv'
  BY <1>1, <1>2, <1>3 DEF TableInv
<1>5. {q.id : q \in pending'} = {q.id : q \in pending} \ {p.id}
  BY <1>1 DEF TableInv
<1>6. {f.id : f \in events'} = {f.id : f \in events} \cup {p.id}
  BY <1>1, <1>2
<1>7. QED
  BY <1>4, <1>5, <1>6 DEF Contract!Resolve

LEMMA ExecuteTable ==
  ASSUME TableInv, LinkInv, NEW kind \in Kind, NEW value \in Value, Execute(kind, value)
  PROVE  TableInv' /\ Contract!Accept(commands + 1) /\ commands + 1 \in Ids
<1>1. PICK same \in BOOLEAN :
        pending' = pending \cup {[id |-> commands + 1, kind |-> kind, value |-> value,
                                  left |-> Patience, reported |-> same]}
  BY DEF Execute
<1> DEFINE s == [id |-> commands + 1, kind |-> kind, value |-> value,
                 left |-> Patience, reported |-> same]
<1>2. /\ commands \in Nat /\ commands < MaxCommands /\ commands' = commands + 1
      /\ events' = events /\ Cardinality(pending) < PendingSlots
  BY DEF Execute, Publishes, LinkInv
<1>3. pending' = pending \cup {s} /\ s.id = commands + 1 /\ s \in Slot(commands + 1)
  BY <1>1, <1>2, DysonAssumption DEF Slot
<1> HIDE DEF s
<1>4. /\ \A p \in pending : p.id \in 1..commands
      /\ \A e \in events : e.id \in 1..commands
  BY DEF TableInv, Slot
<1>5. IsFiniteSet(pending') /\ Cardinality(pending') <= PendingSlots
  <2>1. /\ IsFiniteSet(pending \cup {s}) /\ Cardinality(pending) \in Nat
        /\ Cardinality(pending \cup {s})
             = IF s \in pending THEN Cardinality(pending) ELSE Cardinality(pending) + 1
    BY FS_AddElement, FS_CardinalityType DEF TableInv
  <2> DEFINE w == Cardinality(pending \cup {s})
             u == Cardinality(pending)
  <2>2. (w = u \/ w = u + 1) /\ u \in Nat /\ u < PendingSlots /\ PendingSlots \in Nat
    BY <1>2, <2>1, DysonAssumption
  <2>3. IsFiniteSet(pending') /\ Cardinality(pending') = w
    BY <1>3, <2>1
  <2> HIDE DEF w, u
  <2>4. w <= PendingSlots
    BY <2>2
  <2>5. QED
    BY <2>3, <2>4
<1>6. /\ pending' \subseteq Slot(commands')
      /\ events' \subseteq [id : 1..commands', result : {"Succeeded", "TimedOut"}]
  BY <1>2, <1>3, SlotsLater DEF TableInv
<1>7. commands + 1 \notin 1..commands
  BY <1>2
<1>8. /\ \A p, q \in pending' : p.id = q.id => p = q
      /\ \A p \in pending', e \in events' : p.id # e.id
  BY <1>2, <1>3, <1>4, <1>7 DEF TableInv
<1>9. TableInv'
  BY <1>2, <1>5, <1>6, <1>8 DEF TableInv
<1>10. commands + 1 \in Ids
  BY <1>2, DysonAssumption DEF Ids
<1>11. /\ commands + 1 \notin {p.id : p \in pending} \cup {e.id : e \in events}
       /\ {p.id : p \in pending'} = {p.id : p \in pending} \cup {commands + 1}
  BY <1>3, <1>4, <1>7
<1>12. Contract!Accept(commands + 1)
  BY <1>2, <1>11 DEF Contract!Accept
<1>13. QED
  BY <1>9, <1>10, <1>12

LEMMA PollTable ==
  ASSUME TableInv, NEW e \in events, PollEvent(e)
  PROVE  TableInv' /\ Contract!Poll(e.id)
<1>1. pending' = pending /\ events' = events \ {e} /\ commands' = commands
  BY DEF PollEvent
<1>2. TableInv'
  BY <1>1 DEF TableInv
<1>3. {f.id : f \in events'} = {f.id : f \in events} \ {e.id}
  BY <1>1 DEF TableInv
<1>4. QED
  BY <1>1, <1>2, <1>3 DEF Contract!Poll

(* Every step keeps the tables, and is a step of the contract or a stutter.    *)
LEMMA TableNext ==
  ASSUME TableInv, LinkInv, [Next]_vars
  PROVE  TableInv' /\ [Contract!Next]_(Contract!contractVars)
<1>1. commands \in Nat /\ 1..commands \subseteq Ids
  BY DysonAssumption DEF LinkInv, Ids
<1>2. CASE UNCHANGED <<pending, events>> /\ commands' \in {commands, commands + 1}
  <2>1. /\ Slot(commands) \subseteq Slot(commands')
        /\ [id : 1..commands, result : {"Succeeded", "TimedOut"}]
             \subseteq [id : 1..commands', result : {"Succeeded", "TimedOut"}]
    BY <1>1, <1>2, SlotsLater
  <2>2. TableInv'
    BY <1>2, <2>1 DEF TableInv
  <2>3. UNCHANGED Contract!contractVars
    BY <1>2 DEF Contract!contractVars
  <2>4. QED
    BY <2>2, <2>3
<1>3. CASE ReadPacket \/ NextLoop
  <2>1. TableInv' /\ UNCHANGED {p.id : p \in pending} /\ UNCHANGED {e.id : e \in events}
    BY <1>3, TablesChangedInPlace
  <2>2. QED
    BY <2>1 DEF Contract!contractVars
<1>4. CASE \E p \in pending : ResolveSlot(p)
  <2>1. PICK p \in pending : ResolveSlot(p)
    BY <1>4
  <2>2. TableInv' /\ Contract!Resolve({p.id})
    BY <2>1, ResolveTable
  <2>3. {p.id} \in SUBSET Ids
    BY <1>1 DEF TableInv, Slot
  <2>4. QED
    BY <2>2, <2>3 DEF Contract!Next, Contract!Resolve
<1>5. CASE \E kind \in Kind, value \in Value : Execute(kind, value)
  <2>1. TableInv' /\ Contract!Accept(commands + 1) /\ commands + 1 \in Ids
    BY <1>5, ExecuteTable
  <2>2. QED
    BY <2>1 DEF Contract!Next, Contract!Accept
<1>6. CASE \E e \in events : PollEvent(e)
  <2>1. PICK e \in events : PollEvent(e)
    BY <1>6
  <2>2. TableInv' /\ Contract!Poll(e.id)
    BY <2>1, PollTable
  <2>3. e.id \in Ids
    BY <1>1 DEF TableInv
  <2>4. QED
    BY <2>2, <2>3 DEF Contract!Next, Contract!Poll
<1>7. CASE \/ UNCHANGED vars \/ Begin \/ StaleCheck \/ NoReconnect \/ DiscoveryFails
           \/ Connect \/ ConnectFails \/ ReadNothing \/ Poll \/ EndTick \/ NoCommand
           \/ FanHandles \/ FanReturns
           \/ \E kind, value : RemoteControl(kind, value)
           \/ \E reason : FanLeaves(reason)
  BY <1>2, <1>7 DEF vars, Begin, StaleCheck, NoReconnect, DiscoveryFails, Connect,
       ConnectFails, ReadNothing, Poll, EndTick, NoCommand, FanHandles, FanReturns,
       RemoteControl, FanLeaves, tableVars
<1>8. CASE ExecuteOffline \/ \E kind, value : ExecuteUntracked(kind, value)
  BY <1>2, <1>8 DEF ExecuteOffline, ExecuteUntracked, Publishes
<1>9. QED
  BY <1>3, <1>4, <1>5, <1>6, <1>7, <1>8 DEF Next, NetworkTask, Environment, Tick

-----------------------------------------------------------------------------
LEMMA InitInv ==
  ASSUME Init
  PROVE  IInv
<1>1. LinkInv
  <2>1. /\ 0 \in 0..MaxDelay /\ 1 \in 1..MaxDelay /\ 0 \in 0..RediscoverAfter
        /\ 0 \in 0..PollEvery /\ -1 \in -1..StaleAfter + 1 /\ 0 \in 0..MaxLeaves
        /\ 0 \in 0..MaxOutage /\ 0 \in 0..MaxCommands
    BY DysonAssumption
  <2>2. QED
    BY <2>1 DEF Init, LinkInv
<1>2. MessagesInv
  BY EmptySeq, DysonAssumption DEF Init, MessagesInv
<1>3. TableInv
  BY FS_EmptySet, DysonAssumption DEF Init, TableInv
<1>4. TrackInv
  BY DEF Init, TrackInv
<1>5. QED
  BY <1>1, <1>2, <1>3, <1>4 DEF IInv

LEMMA Invariance == Spec => []IInv
<1>1. Init => IInv
  BY InitInv
<1>2. IInv /\ [Next]_vars => IInv'
  BY LinkNext, MessagesNext, TableNext DEF IInv, MessagesTrack
<1>3. QED
  BY <1>1, <1>2, PTL DEF Spec

(* Values are in range; pending_ never has more than its 8 slots in use.       *)
THEOREM DysonTypeCorrect == Spec => []TypeOK
<1>1. ASSUME IInv
      PROVE  TypeOK
  <2>1. 1..commands \subseteq Ids
    BY <1>1, DysonAssumption DEF IInv, LinkInv, Ids
  <2>2. /\ pending \subseteq PendingSlot
        /\ events \subseteq [id : Ids, result : {"Succeeded", "TimedOut"}]
    BY <1>1, <2>1 DEF IInv, TableInv, Slot, PendingSlot
  <2>3. QED
    BY <1>1, <2>2 DEF TypeOK, IInv, LinkInv, MessagesInv, TableInv
<1>2. QED
  BY <1>1, Invariance, PTL

(* onMessage() and reconnect(): while connected, with no report left to read   *)
(* and no request left to answer, the cached state is the fan's own, whatever   *)
(* the remote control, lost connections and restarts of the link did.          *)
THEOREM CacheIsTheFan == Spec => []CacheTracksFan
<1>1. ASSUME IInv
      PROVE  CacheTracksFan
  BY <1>1 DEF CacheTracksFan, IInv, TrackInv, NoState, StateAsked
<1>2. QED
  BY <1>1, Invariance, PTL

(* The adapter keeps DeviceAdapter.h's contract: one event for every command   *)
(* answered with Pending, and none for any other, connected or not.            *)
THEOREM DysonImplementsContract == Spec => ImplementsContract
<1>1. Init => Contract!Init
  BY DEF Init, Contract!Init
<1>2. IInv /\ [Next]_vars => [Contract!Next]_(Contract!contractVars)
  BY TableNext DEF IInv
<1>3. QED
  BY <1>1, <1>2, Invariance, PTL DEF Spec, ImplementsContract, Contract!Spec
=============================================================================
