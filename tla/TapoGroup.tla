------------------------------- MODULE TapoGroup -------------------------------
(***************************************************************************)
(* firmware/src/adapters/TapoAdapter.cpp in group mode: one child adapter   *)
(* per L530E lamp, a command sent to every child that is online, and one    *)
(* answer put together from theirs.                                         *)
(*                                                                         *)
(* A lamp is named by its host.  A command sets one property to a Value; a  *)
(* request of a child ends as a LampRequest does, which TapoChild is shown   *)
(* to implement.  The children do not share state, so one step runs the whole tick() of a child, and one step  *)
(* the whole execute().  Time is counted in loops of the network task; the  *)
(* 5 s poll and the 60 s discovery may fall due in any loop.                *)
(***************************************************************************)
EXTENDS Naturals, FiniteSets, LampOutcome

CONSTANTS
  Lamp,
  Value,
  MaxCommands,   \* bound: commands executed
  ChildSlots,    \* pending_: 8
  GroupSlots,    \* groupPending_: 8
  Patience,      \* loops in the 3 s confirmation deadlines
  MaxChanges     \* bound: changes of the lamps' availability and of our link

ASSUME TapoAssumption ==
  /\ IsFiniteSet(Lamp)
  /\ MaxCommands \in Nat /\ ChildSlots \in Nat \ {0} /\ GroupSlots \in Nat \ {0}
  /\ Patience \in Nat /\ MaxChanges \in Nat

VARIABLES
  pc,           \* where the network task is in its loop
  unticked,     \* children tick() has still to call in this loop
  children,     \* children_
  connection,   \* connection_ of each child
  state,        \* the property as each child has it in state_
  pollNow,      \* nextPollMs_ of each child is 0
  pending,      \* pending_: the active slots of every child
  childEvents,  \* events_ of every child
  group,        \* groupPending_: the active slots
  events,       \* events_ of the group
  commands,     \* commands executed so far: the next command's id
  reach,        \* each lamp is "up", "down", or "refusing" the credential
  lamp,         \* the property of each lamp itself
  changes,      \* changes of reach and of our own link so far
  applied       \* history: <<lamp, id>> for every command a lamp carried out

childVars == <<connection, state, pollNow, pending>>
lampVars == <<reach, lamp, changes, applied>>
vars == <<pc, unticked, children, childVars, childEvents, group, events,
          commands, lampVars>>

Ids == 1..MaxCommands
Connections == {"Offline", "Online", "AuthFailed"}

-----------------------------------------------------------------------------
(* request(), as LampRequest has it, by what the lamp is like.               *)
Outcomes(l) ==
  CASE reach[l] = "up" -> {"ok", "rejected", "unreachable"}
    [] reach[l] = "down" -> {"unreachable"}
    [] reach[l] = "refusing" -> {"refused"}

-----------------------------------------------------------------------------
(* tick() of one child: a poll when due, then resolveChildPending().         *)

Confirmed(p, value) == p.reported /\ p.value = value

ChildResult(p, value, conn) ==
  IF Confirmed(p, value) THEN "Succeeded"
  ELSE IF conn = "Online" THEN "TimedOut" ELSE conn

(* A failed poll is not repeated before the deadline: the next is 5 s away.  *)
ChildTick(l, polls, outcome) ==
  /\ pc = "tick"
  /\ l \in unticked
  /\ unticked' = unticked \ {l}
  /\ pollNow[l] => polls
  /\ pollNow' = [pollNow EXCEPT ![l] = FALSE]
  /\ LET heard == polls /\ outcome = "ok"
         slots == {p \in pending : p.lamp = l}
         now == {[p EXCEPT !.reported = @ \/ heard] : p \in slots}
         settled == {p \in now : Confirmed(p, state'[l]) \/ p.left = 0}
     IN /\ connection' = IF polls
                         THEN [connection EXCEPT ![l] = ConnectionAfter(outcome)]
                         ELSE connection
        /\ state' = IF heard THEN [state EXCEPT ![l] = lamp[l]] ELSE state
        /\ pending' = (pending \ slots) \cup (now \ settled)
        /\ childEvents' = childEvents \cup
             {[lamp |-> l, id |-> p.id,
               result |-> ChildResult(p, state'[l], connection'[l])] : p \in settled}
  /\ UNCHANGED <<pc, children, group, events, commands, lampVars>>

-----------------------------------------------------------------------------
(* tick() of the group: collectChildEvents() and resolveGroupPending().      *)

Answers(g, result) == Cardinality({e \in childEvents : e.id = g.id /\ e.result = result})

Counted_AnyCommand(g) ==
  [g EXCEPT !.completed = @ + Cardinality(childEvents),
            !.succeeded = @ + Cardinality({e \in childEvents : e.result = "Succeeded"}),
            !.authFailures = @ + Cardinality({e \in childEvents : e.result = "AuthFailed"})]

Counted(g) ==
  [g EXCEPT !.completed = @ + Cardinality({e \in childEvents : e.id = g.id}),
            !.succeeded = @ + Answers(g, "Succeeded"),
            !.authFailures = @ + Answers(g, "AuthFailed")]

Finished_IgnoresDeadline(g) == g.completed >= g.targets
Finished(g) == g.completed >= g.targets \/ g.left = 0

GroupResult(g) ==
  CASE g.succeeded = g.targets -> "Succeeded"
    [] g.succeeded # g.targets /\ g.succeeded > 0 -> "PartiallySucceeded"
    [] g.succeeded # g.targets /\ g.succeeded = 0 /\ g.authFailures > 0 -> "AuthFailed"
    [] OTHER -> "TimedOut"

GroupEvent(g) == [id |-> g.id, result |-> GroupResult(g), succeeded |-> g.succeeded,
                  targets |-> g.targets, total |-> g.total]

Collect_KeepsSlots ==
  /\ pc = "tick" /\ unticked = {}
  /\ childEvents' = {}
  /\ LET counted == {Counted(g) : g \in group} IN
       /\ group' = counted
       /\ events' = events \cup {GroupEvent(g) : g \in {h \in counted : Finished(h)}}
  /\ pc' = "refresh"
  /\ UNCHANGED <<unticked, children, childVars, commands, lampVars>>

Collect ==
  /\ pc = "tick" /\ unticked = {}
  /\ childEvents' = {}
  /\ LET counted == {Counted(g) : g \in group}
         finished == {g \in counted : Finished(g)}
     IN /\ group' = counted \ finished
        /\ events' = events \cup {GroupEvent(g) : g \in finished}
  /\ pc' = "refresh"
  /\ UNCHANGED <<unticked, children, childVars, commands, lampVars>>

-----------------------------------------------------------------------------
(* tick() of the group: refreshGroup(), when the discovery is due.           *)

NotDue ==
  /\ pc = "refresh" /\ pc' = "execute"
  /\ UNCHANGED <<unticked, children, childVars, childEvents, group, events,
                 commands, lampVars>>

(* Nobody answered, or exactly the lamps known answered.                     *)
RefreshNothing(hosts) ==
  /\ pc = "refresh" /\ pc' = "execute"
  /\ hosts = {} \/ hosts = children
  /\ UNCHANGED <<unticked, children, childVars, childEvents, group, events,
                 commands, lampVars>>

(* Every child is replaced, with all its pending commands, by a new one for  *)
(* each lamp whose handshake succeeds.  A request of loadPresets() may take   *)
(* the child offline again.                                                   *)
Rebuild(begun, online) ==
  /\ children' = begun
  /\ connection' = [l \in Lamp |-> IF l \in online THEN "Online" ELSE "Offline"]
  /\ \E value \in Value : state' = [l \in Lamp |-> value]
  /\ pollNow' = [l \in Lamp |-> TRUE]
  /\ pending' = {}

(* The hosts differ: the group is rebuilt, unless no handshake succeeds.     *)
RefreshRebuilds(hosts, begun, online) ==
  /\ pc = "refresh" /\ pc' = "execute"
  /\ hosts # {} /\ hosts # children
  /\ \/ begun # {} /\ Rebuild(begun, online)
     \/ begun = {} /\ UNCHANGED <<children, childVars>>
  /\ UNCHANGED <<unticked, childEvents, group, events, commands, lampVars>>

(* begin(), whenever the Wi-Fi link is new: the children are dropped first.  *)
(* The group's own table is kept.                                             *)
Begin(begun, online) ==
  /\ pc' = "tick" /\ unticked' = begun
  /\ \/ pc = "begin" /\ UNCHANGED changes
     \/ /\ pc = "tick" /\ unticked = children
        /\ changes < MaxChanges /\ changes' = changes + 1
  /\ Rebuild(begun, online)
  /\ UNCHANGED <<childEvents, group, events, commands, reach, lamp, applied>>

-----------------------------------------------------------------------------
(* execute(): every child that is online carries the command out, or fails.  *)

NoCommand ==
  /\ pc = "execute" /\ pc' = "drain"
  /\ UNCHANGED <<unticked, children, childVars, childEvents, group, events,
                 commands, lampVars>>

Targets == {l \in children : connection[l] = "Online"}
Accepts_Anything(outcome) == TRUE
Accepts(outcome) == outcome = "ok"
HasRoom(l) == Cardinality({p \in pending : p.lamp = l}) < ChildSlots

(* A child's deadline runs from its own request, so that it may lie earlier  *)
(* than the group's, which runs from the last request.  The lamps of acted    *)
(* carried the command out, those included whose answers were lost.           *)
Execute(value, outcome, acted, left) ==
  /\ pc = "execute" /\ pc' = "drain"
  /\ commands < MaxCommands
  /\ commands' = commands + 1
  /\ LET id == commands + 1
         ok == {l \in Targets : Accepts(outcome[l])}
         accepted == {l \in ok : HasRoom(l)}
         slot == [id |-> id, left |-> Patience,
                  targets |-> Cardinality(Targets),
                  completed |-> Cardinality(Targets \ accepted), succeeded |-> 0,
                  authFailures |-> Cardinality({l \in Targets : outcome[l] = "refused"}),
                  total |-> Cardinality(children)]
     IN /\ lamp' = [l \in Lamp |-> IF l \in acted THEN value ELSE lamp[l]]
        /\ applied' = applied \cup {<<l, id>> : l \in acted}
        /\ connection' = [l \in Lamp |-> IF l \in Targets
                                         THEN ConnectionAfter(outcome[l])
                                         ELSE connection[l]]
        /\ pollNow' = [l \in Lamp |-> pollNow[l] \/ l \in ok]
        /\ pending' = pending \cup
             {[lamp |-> l, id |-> id, value |-> value, left |-> left[l],
               reported |-> FALSE] : l \in accepted}
        /\ group' = IF accepted # {} /\ Cardinality(group) < GroupSlots
                    THEN group \cup {slot} ELSE group
  /\ UNCHANGED <<unticked, children, state, childEvents, events, reach, changes>>

-----------------------------------------------------------------------------
(* drainAdapterEvents(), then the next loop of the network task.             *)

PollEvent(e) ==
  /\ pc = "drain"
  /\ e \in events
  /\ events' = events \ {e}
  /\ UNCHANGED <<pc, unticked, children, childVars, childEvents, group,
                 commands, lampVars>>

CountDown(n) == IF n = 0 THEN 0 ELSE n - 1

NextLoop ==
  /\ pc = "drain" /\ pc' = "tick"
  /\ events = {}
  /\ unticked' = children
  /\ pending' = {[p EXCEPT !.left = CountDown(@)] : p \in pending}
  /\ group' = {[g EXCEPT !.left = CountDown(@)] : g \in group}
  /\ UNCHANGED <<children, connection, state, pollNow, childEvents, events,
                 commands, lampVars>>

-----------------------------------------------------------------------------
(* The lamps and the network (external).                                     *)

LampChanges(l, r) ==
  /\ changes < MaxChanges
  /\ r # reach[l]
  /\ reach' = [reach EXCEPT ![l] = r]
  /\ changes' = changes + 1
  /\ UNCHANGED <<pc, unticked, children, childVars, childEvents, group, events,
                 commands, lamp, applied>>

-----------------------------------------------------------------------------
Init ==
  /\ pc = "begin"
  /\ unticked = {} /\ children = {}
  /\ connection = [l \in Lamp |-> "Offline"]
  /\ lamp \in [Lamp -> Value] /\ state = lamp
  /\ pollNow = [l \in Lamp |-> TRUE]
  /\ pending = {} /\ childEvents = {} /\ group = {} /\ events = {}
  /\ commands = 0
  /\ reach = [l \in Lamp |-> "up"] /\ changes = 0
  /\ applied = {}

NetworkTask ==
  \/ \E l \in unticked, polls \in BOOLEAN : \E outcome \in Outcomes(l) :
       ChildTick(l, polls, outcome)
  \/ Collect
  \/ NotDue
  \/ \E hosts \in SUBSET {l \in Lamp : reach[l] # "down"} : 
       \/ RefreshNothing(hosts)
       \/ \E begun \in SUBSET {l \in hosts : reach[l] = "up"} :
            \E online \in SUBSET begun : RefreshRebuilds(hosts, begun, online)
  \/ \E begun \in SUBSET {l \in Lamp : reach[l] = "up"} :
       \E online \in SUBSET begun : Begin(begun, online)
  \/ NoCommand
  \/ \E value \in Value, outcome \in [Targets -> UNION {Outcomes(l) : l \in Targets}],
        acted \in SUBSET {l \in Targets : reach[l] # "down"}, left \in [Targets -> 0..Patience] :
       /\ \A l \in Targets :
            outcome[l] \in Outcomes(l) /\ MayBeCarriedOut(outcome[l], l \in acted)
       /\ Execute(value, outcome, acted, left)
  \/ \E e \in events : PollEvent(e)
  \/ NextLoop

Next ==
  \/ NetworkTask
  \/ \E l \in Lamp, r \in {"up", "down", "refusing"} : LampChanges(l, r)

Spec == Init /\ [][Next]_vars /\ WF_vars(NetworkTask)

-----------------------------------------------------------------------------
GroupSlot == [id : Ids, left : 0..Patience, targets : 1..Cardinality(Lamp),
              completed : 0..Cardinality(Lamp), succeeded : 0..Cardinality(Lamp),
              authFailures : 0..Cardinality(Lamp), total : 1..Cardinality(Lamp)]
Owing(g) == {l \in Lamp : \/ \E p \in pending : p.lamp = l /\ p.id = g.id
                          \/ \E e \in childEvents : e.lamp = l /\ e.id = g.id}

(* Values in range, tables within their slots. *)
TypeOK ==
  /\ pc \in {"begin", "tick", "refresh", "execute", "drain"}
  /\ unticked \subseteq children /\ children \subseteq Lamp
  /\ connection \in [Lamp -> Connections]
  /\ state \in [Lamp -> Value] /\ lamp \in [Lamp -> Value]
  /\ pollNow \in [Lamp -> BOOLEAN]
  /\ pending \subseteq [lamp : children, id : Ids, value : Value,
                        left : 0..Patience, reported : BOOLEAN]
  /\ \A l \in Lamp : Cardinality({p \in pending : p.lamp = l}) <= ChildSlots
  /\ childEvents \subseteq [lamp : children, id : Ids,
                            result : Connections \cup {"Succeeded", "TimedOut"}]
  /\ group \subseteq GroupSlot /\ Cardinality(group) <= GroupSlots
  /\ commands \in 0..MaxCommands /\ changes \in 0..MaxChanges
  /\ reach \in [Lamp -> {"up", "down", "refusing"}]
  /\ applied \subseteq Lamp \X Ids

(* No answer of a lamp is counted twice, nor one to another command or of a  *)
(* lamp that was not asked: a group is never finished while a child that     *)
(* could still answer owes its answer, other than at the deadline, and never *)
(* reports more lamps than it asked.                                          *)
CountsEachLampOnce ==
  /\ \A g \in group :
       /\ g.succeeded + g.authFailures <= g.completed
       /\ g.completed + Cardinality(Owing(g)) <= g.targets
  /\ \A e \in events : e.succeeded <= e.targets

(* "all lights confirmed" is said only of a command that every one of its    *)
(* targets has carried out, rebuilding of the group included.                *)
FullSuccessIsReal ==
  \A e \in events : e.result = "Succeeded" =>
    Cardinality({l \in Lamp : <<l, e.id>> \in applied}) >= e.targets

(* Every group command answered with Pending gets exactly one event, though  *)
(* the children that were asked may be gone.                                  *)
Contract == INSTANCE AdapterContract WITH
  awaiting <- {g.id : g \in group}, answered <- {e.id : e \in events}
ImplementsContract == Contract!Spec

(* ... and gets it in time: tick() leaves no group command behind that is    *)
(* past its deadline, whatever became of the children it waits for.          *)
GroupAnsweredInTime ==
  pc \in {"refresh", "execute"} => \A g \in group : g.left > 0

(* With a lamp unavailable a group command does not report full success.     *)
FullSuccessMeansEveryLamp ==
  \A e \in events : e.result = "Succeeded" => e.targets = e.total
=============================================================================
