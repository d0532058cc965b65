--------------------------- MODULE TapoChild_proofs ----------------------------
(***************************************************************************)
(* Proofs about TapoChild for any commands, presets, lamps and bounds: what   *)
(* its state always is, that the end of a session costs no request, that a     *)
(* confirmed command was shown by the lamp, and that every request is one       *)
(* LampRequest.                                                                *)
(***************************************************************************)
EXTENDS TapoChild, FiniteSetTheorems, TLAPS

(* A command as it was issued.                                                *)
Given == [id : Nat, kind : Kind, value1 : Int, value2 : Int, value3 : Int]
Fits(c, n) ==
  /\ c \in Given /\ c.id \in 1..n
  /\ c.kind = "SetBrightness" => c.value1 \in 1..100
  /\ c.kind = "SetHsv" => c.value3 \in 1..100

Slot(n) == {p \in [command : Given, reported : BOOLEAN] : Fits(p.command, n)}

(* What a request for a command carries, while it runs and until execute()    *)
(* has put it into the table.                                                  *)
CommandFits ==
  stage # "none" /\ purpose = "command" =>
    /\ Fits(command, commands)
    /\ command.kind # "Refresh"
    /\ command.kind = "ApplyLightPreset" => command.value1 \in 0..presets - 1

(* The keys outlive the request that leaves the lamp online.                   *)
KeysWhenOnline ==
  stage \in {"none", "done"} /\ connection = "Online" => session

TypeInv ==
  /\ TypeOK
  /\ IsFiniteSet(pending) /\ pending \subseteq Slot(commands)
  /\ CommandFits /\ KeysWhenOnline

(* As long as nothing disturbs a request, the lamp is where its last message   *)
(* left it.                                                                    *)
SessionInv ==
  /\ reach # "up" => disturbed
  /\ stage = "handshake2" => disturbed \/ lampSession = "seeded"
  /\ stage = "post" /\ attempt = 2 => disturbed \/ lampSession = "open"
  /\ SessionLossIsInvisible

Shows(f, c) == \A x \in DOMAIN Params(c) : f[x] = Params(c)[x]
ReadBack(c) == c.kind # "ApplyLightPreset"

(* What a poll has read, from its answer to updateState(); and what the cache *)
(* then says of the commands it is compared with.                              *)
AnswerWitnessed ==
  stage = "done" /\ purpose = "poll" /\ outcome = "ok" =>
    \A p \in pending :
      (p.command.kind # "Refresh" => Shows(shown, p.command)) => p.command.id \in witnessed

CacheWitnessed ==
  \A p \in pending :
    p.reported /\ ReadBack(p.command) /\ Matches(p.command) => p.command.id \in witnessed

(* The cache knows a lamp to be on or off from the lamp alone.                 *)
PowerOK ==
  lamp.power \in BOOLEAN /\ shown.power \in BOOLEAN /\ state.power \in BOOLEAN

ConfirmInv == AnswerWitnessed /\ CacheWitnessed /\ ConfirmedWasShown

-----------------------------------------------------------------------------
(* The parts of TypeOK that the steps of one kind change together.            *)

RequestOK ==
  /\ stage \in {"none", "handshake1", "handshake2", "post", "done"}
  /\ attempt \in {1, 2} /\ outcome \in Outcome
  /\ connection \in {"Connecting", "Online", "Offline", "AuthFailed"}
  /\ session \in BOOLEAN /\ carriedOut \in BOOLEAN /\ disturbed \in BOOLEAN
  /\ stage = "post" => session
  /\ KeysWhenOnline

LampOK ==
  /\ DOMAIN lamp = Field /\ DOMAIN shown = Field
  /\ faults \in 0..MaxFaults
  /\ lampSession \in {"none", "seeded", "open"}
  /\ reach \in {"up", "down", "refusing"}

CacheOK ==
  /\ DOMAIN state = Field
  /\ pollNow \in BOOLEAN
  /\ presets \in {0, Len(LampPresets)} /\ presetIndex \in -1..presets - 1

PendingOK ==
  /\ Cardinality(pending) <= Slots
  /\ IsFiniteSet(pending) /\ pending \subseteq Slot(commands)
  /\ commands \in 0..MaxCommands

LabelsOK ==
  /\ pc \in {"begin", "presets", "tick", "resolve", "execute"}
  /\ purpose \in {"begin", "presets", "poll", "command"}
  /\ command.id \in 0..MaxCommands
  /\ CommandFits

WitnessedOK == witnessed \subseteq 1..MaxCommands

LEMMA TypeParts ==
  TypeInv <=> RequestOK /\ LampOK /\ CacheOK /\ PendingOK /\ LabelsOK /\ WitnessedOK
<1>1. ASSUME pending \subseteq Slot(commands)
      PROVE  \A p \in pending : p.command.id \in 1..commands
  BY <1>1 DEF Slot, Fits
<1>2. {session, pollNow, carriedOut, disturbed} \subseteq BOOLEAN
      <=> session \in BOOLEAN /\ pollNow \in BOOLEAN /\ carriedOut \in BOOLEAN
          /\ disturbed \in BOOLEAN
  OBVIOUS
<1>3. QED
  BY <1>1, <1>2 DEF TypeInv, TypeOK, RequestOK, LampOK, CacheOK, PendingOK, LabelsOK,
                    WitnessedOK, KeysWhenOnline

LEMMA TypePartsNext ==
  RequestOK' /\ LampOK' /\ CacheOK' /\ PendingOK' /\ LabelsOK' /\ WitnessedOK' => TypeInv'
<1>1. ASSUME (pending \subseteq Slot(commands))'
      PROVE  (\A p \in pending : p.command.id \in 1..commands)'
  BY <1>1 DEF Slot, Fits
<1>2. session' \in BOOLEAN /\ pollNow' \in BOOLEAN /\ carriedOut' \in BOOLEAN
      /\ disturbed' \in BOOLEAN
      => {session, pollNow, carriedOut, disturbed}' \subseteq BOOLEAN
  OBVIOUS
<1>3. QED
  BY <1>1, <1>2 DEF TypeInv, TypeOK, RequestOK, LampOK, CacheOK, PendingOK, LabelsOK,
                    WitnessedOK, KeysWhenOnline

-----------------------------------------------------------------------------
(* Every exchange is over within the request it belongs to.                   *)

LEMMA UpdatedDomain == ASSUME NEW f, NEW g PROVE DOMAIN Updated(f, g) = DOMAIN f
  BY DEF Updated

LEMMA OutcomeConnection ==
  ASSUME NEW o \in Outcome
  PROVE  /\ ConnectionAfter(o) \in {"Online", "Offline", "AuthFailed"}
         /\ ConnectionAfter(o) = "Online" <=> o \in {"ok", "rejected"}
  BY DEF Outcome, ConnectionAfter

LEMMA ExchangeFrame ==
  Exchange => UNCHANGED <<pc, purpose, command, cacheVars, pendingVars, reach>>
  BY DEF Exchange, Handshake1, Handshake1Mismatch, Handshake1Fails, Handshake2,
         Handshake2Fails, Handshake2Refused, PostRejected, PostAnswered, PostForbidden,
         PostFails, Retry, Ends, Continues

LEMMA DisturbsOK ==
  ASSUME LampOK, RequestOK, Disturbs
  PROVE  disturbed' = TRUE /\ faults' \in 0..MaxFaults
  BY TapoChildAssumption DEF LampOK, RequestOK, Disturbs

LEMMA ExchangeRequestOK ==
  ASSUME TypeInv, Exchange
  PROVE  RequestOK' /\ LampOK'
<1> USE TypeParts DEF Outcome
<1>0. RequestOK /\ LampOK
  OBVIOUS
<1>1. CASE Handshake1
  BY <1>0, <1>1 DEF Handshake1, Continues, RequestOK, LampOK, KeysWhenOnline
<1>2. CASE Handshake1Mismatch
  BY <1>0, <1>2, OutcomeConnection
     DEF Handshake1Mismatch, Ends, RequestOK, LampOK, KeysWhenOnline
<1>3. CASE Handshake1Fails
  BY <1>0, <1>3, OutcomeConnection, DisturbsOK
     DEF Handshake1Fails, Ends, RequestOK, LampOK, KeysWhenOnline
<1>4. CASE Handshake2
  BY <1>0, <1>4, OutcomeConnection
     DEF Handshake2, Ends, Continues, RequestOK, LampOK, KeysWhenOnline
<1>5. CASE Handshake2Fails
  BY <1>0, <1>5, OutcomeConnection, DisturbsOK
     DEF Handshake2Fails, Ends, RequestOK, LampOK, KeysWhenOnline
<1>6. ASSUME NEW o \in Outcome, Handshake2Refused(o) PROVE RequestOK' /\ LampOK'
  BY <1>0, <1>6, OutcomeConnection
     DEF Handshake2Refused, Ends, RequestOK, LampOK, KeysWhenOnline
<1>7. ASSUME NEW o \in Outcome, PostRejected(o) PROVE RequestOK' /\ LampOK'
  BY <1>0, <1>7, OutcomeConnection, DisturbsOK
     DEF PostRejected, Ends, RequestOK, LampOK, KeysWhenOnline
<1>8. CASE PostAnswered
  BY <1>0, <1>8, UpdatedDomain
     DEF PostAnswered, LampActs, RequestOK, LampOK, KeysWhenOnline
<1>9. CASE PostForbidden
  BY <1>0, <1>9, OutcomeConnection
     DEF PostForbidden, Retry, Ends, Continues, RequestOK, LampOK, KeysWhenOnline
<1>10. CASE PostFails
  <2>1. disturbed' = TRUE /\ faults' \in 0..MaxFaults
    BY <1>0, <1>10, DisturbsOK DEF PostFails
  <2>2. DOMAIN lamp' = Field /\ carriedOut' \in BOOLEAN
    BY <1>0, <1>10, UpdatedDomain DEF PostFails, LampActs, RequestOK, LampOK
  <2>3. session' \in BOOLEAN /\ UNCHANGED <<lampSession, reach, shown>>
    BY <1>10 DEF PostFails, Retry, Continues, Ends
  <2>4. CASE attempt = 1
    BY <1>0, <1>10, <2>1, <2>2, <2>3, <2>4
       DEF PostFails, Retry, Continues, RequestOK, LampOK, KeysWhenOnline
  <2>5. CASE attempt = 2
    BY <1>0, <1>10, <2>1, <2>2, <2>3, <2>5, OutcomeConnection
       DEF PostFails, Retry, Ends, RequestOK, LampOK, KeysWhenOnline
  <2>6. QED
    BY <1>0, <2>4, <2>5 DEF RequestOK
<1>11. QED
  BY <1>1, <1>2, <1>3, <1>4, <1>5, <1>6, <1>7, <1>8, <1>9, <1>10 DEF Exchange

LEMMA ExchangeType ==
  ASSUME TypeInv, Exchange
  PROVE  TypeInv'
<1>1. RequestOK' /\ LampOK'
  BY ExchangeRequestOK
<1>2. UNCHANGED <<pc, purpose, command, cacheVars, pendingVars, reach>>
  BY ExchangeFrame
<1>3. CacheOK' /\ PendingOK'
  BY <1>2, TypeParts DEF cacheVars, pendingVars, CacheOK, PendingOK
<1>4. LabelsOK'
  <2>1. stage # "none"
    BY DEF Exchange, Handshake1, Handshake1Mismatch, Handshake1Fails, Handshake2,
           Handshake2Fails, Handshake2Refused, PostRejected, PostAnswered, PostForbidden,
           PostFails
  <2>2. QED
    BY <1>2, <2>1, TypeParts DEF LabelsOK, CommandFits, cacheVars, pendingVars
<1>5. WitnessedOK'
  <2>1. \A p \in pending : p.command.id \in 1..MaxCommands
    BY TypeParts, TapoChildAssumption DEF PendingOK, Slot, Fits, Given
  <2>2. CASE PostAnswered
    BY <2>1, <2>2, TypeParts DEF PostAnswered, WitnessedOK
  <2>3. CASE UNCHANGED witnessed
    BY <2>3, TypeParts DEF WitnessedOK
  <2>4. QED
    BY <2>2, <2>3
       DEF Exchange, Handshake1, Handshake1Mismatch, Handshake1Fails, Handshake2,
           Handshake2Fails, Handshake2Refused, PostRejected, PostForbidden, PostFails,
           Retry, Ends, Continues
<1>6. QED
  BY <1>1, <1>3, <1>4, <1>5, TypePartsNext
-----------------------------------------------------------------------------
(* A request begins ...                                                        *)

LEMMA IssuedFits ==
  ASSUME TypeInv, NEW c \in Command, commands < MaxCommands
  PROVE  Fits(Issued(c), commands + 1) /\ Issued(c).kind = c.kind
<1>1. c \in [kind : Kind, value1 : Int, value2 : Int, value3 : Int]
  BY TapoChildAssumption
<1>2. commands \in Nat
  BY TypeParts, TapoChildAssumption DEF PendingOK
<1>3. Issued(c) \in Given /\ Issued(c).id \in 1..commands + 1
  BY <1>1, <1>2 DEF Issued, Given
<1>4. QED
  BY <1>3, TapoChildAssumption DEF Fits, Issued

LEMMA RequestBegins ==
  ASSUME TypeInv, NEW for, NEW c, NEW expired \in BOOLEAN,
         Request(for, c, expired), stage = "none",
         connection' \in {connection, "Connecting"},
         connection' # connection => for = "begin",
         UNCHANGED lampVars
  PROVE  RequestOK' /\ LampOK'
<1> USE TypeParts DEF lampVars
<1>1. stage' \in {"handshake1", "post"} /\ session' \in BOOLEAN
  BY DEF Request, FirstExchange, RequestOK
<1>2. stage' = "post" => session'
  BY DEF Request, FirstExchange, RequestOK
<1>3. QED
  BY <1>1, <1>2 DEF Request, RequestOK, LampOK, KeysWhenOnline

LEMMA SlotGrows ==
  ASSUME NEW n \in Nat
  PROVE  /\ \A c : Fits(c, n) => Fits(c, n + 1)
         /\ Slot(n) \subseteq Slot(n + 1)
  BY DEF Fits, Slot

LEMMA BeginType ==
  ASSUME TypeInv, Begin
  PROVE  TypeInv'
<1> USE TypeParts
<1>1. stage = "none" /\ UNCHANGED <<pc, cacheVars, pendingVars, lampVars, witnessed>>
      /\ purpose' = "begin" /\ command' = NoCommand
  BY DEF Begin, Asking, Request
<1>2. RequestOK' /\ LampOK'
  BY <1>1, RequestBegins DEF Begin
<1>3. LabelsOK'
  BY <1>1, TapoChildAssumption DEF LabelsOK, CommandFits, NoCommand
<1>4. CacheOK' /\ PendingOK' /\ WitnessedOK'
  BY <1>1 DEF cacheVars, pendingVars, CacheOK, PendingOK, WitnessedOK
<1>5. QED
  BY <1>2, <1>3, <1>4, TypePartsNext

LEMMA AskType ==
  ASSUME TypeInv, NEW expired \in BOOLEAN, AskPresets(expired) \/ PollDue(expired)
  PROVE  TypeInv'
<1> USE TypeParts
<1>1. /\ stage = "none"
      /\ UNCHANGED <<pc, connection, cacheVars, pendingVars, lampVars, witnessed>>
      /\ purpose' \in {"presets", "poll"} /\ command' = NoCommand
  BY DEF AskPresets, PollDue, Asking, Request
<1>2. RequestOK' /\ LampOK'
  BY <1>1, RequestBegins DEF AskPresets, PollDue
<1>3. LabelsOK'
  BY <1>1, TapoChildAssumption DEF LabelsOK, CommandFits, NoCommand
<1>4. CacheOK' /\ PendingOK' /\ WitnessedOK'
  BY <1>1 DEF cacheVars, pendingVars, CacheOK, PendingOK, WitnessedOK
<1>5. QED
  BY <1>2, <1>3, <1>4, TypePartsNext

LEMMA ExecuteType ==
  ASSUME TypeInv, NEW c \in Command, NEW expired \in BOOLEAN, Execute(c, expired)
  PROVE  TypeInv'
<1> USE TypeParts
<1>1. /\ stage = "none" /\ c.kind # "Refresh" /\ ~Unsupported(c)
      /\ commands < MaxCommands /\ commands' = commands + 1
      /\ UNCHANGED <<pc, connection, cacheVars, pending, lampVars, witnessed>>
      /\ purpose' = "command" /\ command' = Issued(c)
  BY DEF Execute, Takes, Asking, Request
<1>2. RequestOK' /\ LampOK'
  BY <1>1, RequestBegins DEF Execute
<1>3. commands \in Nat /\ commands' \in 0..MaxCommands
  BY <1>1, TapoChildAssumption DEF PendingOK
<1>4. Fits(command', commands') /\ command'.kind = c.kind /\ command'.value1 = c.value1
  BY <1>1, IssuedFits DEF Issued
<1>5. c.kind = "ApplyLightPreset" => c.value1 \in 0..presets - 1
  BY <1>1 DEF Unsupported
<1>6. LabelsOK'
  <2>1. command'.id \in 0..MaxCommands
    BY <1>3, <1>4, TapoChildAssumption DEF Fits
  <2>2. CommandFits'
    BY <1>1, <1>4, <1>5 DEF CommandFits, cacheVars
  <2>3. QED
    BY <1>1, <2>1, <2>2 DEF LabelsOK
<1>7. CacheOK' /\ WitnessedOK'
  BY <1>1 DEF cacheVars, CacheOK, WitnessedOK
<1>8. PendingOK'
  BY <1>1, <1>3, SlotGrows DEF PendingOK
<1>9. QED
  BY <1>2, <1>6, <1>7, <1>8, TypePartsNext

-----------------------------------------------------------------------------
(* ... and returns.                                                           *)

Returns == BeginFails \/ LoadPresets \/ PresetsRead \/ Polled \/ Executed

LEMMA ReturnFrame ==
  ASSUME TypeInv, Returns
  PROVE  /\ stage = "done" /\ stage' = "none"
         /\ UNCHANGED <<lampVars, history, commands, purpose, outcome>>
         /\ RequestOK' /\ LampOK' /\ LabelsOK' /\ WitnessedOK'
<1> USE TypeParts
<1>1. /\ stage = "done" /\ stage' = "none" /\ attempt' = 1 /\ command' = NoCommand
      /\ UNCHANGED <<sessionVars, outcome, purpose, shown, lampVars, history, commands>>
  BY DEF Returns, BeginFails, LoadPresets, PresetsRead, Polled, Executed, Returned, pendingVars
<1>2. RequestOK' /\ LampOK' /\ WitnessedOK'
  BY <1>1 DEF RequestOK, LampOK, WitnessedOK, sessionVars, lampVars, history, KeysWhenOnline
<1>3. pc' \in {"begin", "presets", "tick", "resolve", "execute"}
  BY DEF Returns, BeginFails, LoadPresets, PresetsRead, Polled, Executed, LabelsOK
<1>4. LabelsOK'
  BY <1>1, <1>3, TapoChildAssumption DEF LabelsOK, CommandFits, NoCommand
<1>5. QED
  BY <1>1, <1>2, <1>4

(* Marking every slot keeps the table as it is otherwise.                     *)
LEMMA MarkedPending ==
  ASSUME NEW n \in Nat, NEW S, IsFiniteSet(S), S \subseteq Slot(n)
  PROVE  LET T == {[p EXCEPT !.reported = TRUE] : p \in S} IN
           /\ IsFiniteSet(T) /\ Cardinality(T) <= Cardinality(S) /\ T \subseteq Slot(n)
<1> DEFINE T == {[p EXCEPT !.reported = TRUE] : p \in S}
           mark == [p \in S |-> [p EXCEPT !.reported = TRUE]]
<1>1. T \subseteq Slot(n)
  BY DEF Slot
<1>2. mark \in Surjection(S, T)
  BY DEF Surjection
<1>3. QED
  BY <1>1, <1>2, FS_Surjection

(* rememberPending() adds a slot if one is free.                              *)
LEMMA RememberOK ==
  ASSUME PendingOK, NEW c, Remember(c), Fits(c, commands'),
         commands' \in {commands, commands + 1}, commands' \in 0..MaxCommands
  PROVE  PendingOK'
<1> USE TapoChildAssumption
<1>0. IsFiniteSet(pending)
  BY DEF PendingOK
<1>1. commands \in Nat /\ Cardinality(pending) \in Nat
  BY <1>0, FS_CardinalityType DEF PendingOK
<1>2. pending \subseteq Slot(commands')
  BY <1>1, SlotGrows DEF PendingOK
<1>3. CASE Cardinality(pending) < Slots
  <2> DEFINE p == [command |-> c, reported |-> FALSE]
  <2>1. pending' = pending \cup {p}
    BY <1>3 DEF Remember
  <2>2. p \in Slot(commands')
    BY DEF Slot, Fits
  <2>3. IsFiniteSet(pending') /\ Cardinality(pending') <= Cardinality(pending) + 1
    <3> HIDE DEF p
    <3>1. /\ IsFiniteSet(pending \cup {p})
          /\ Cardinality(pending \cup {p}) \in {Cardinality(pending), Cardinality(pending) + 1}
      BY <1>0, FS_AddElement
    <3>2. QED
      BY <1>1, <2>1, <3>1
  <2>4. Cardinality(pending') <= Slots
    BY <1>1, <1>3, <2>3, FS_CardinalityType
  <2>5. QED
    BY <1>2, <2>1, <2>2, <2>3, <2>4 DEF PendingOK
<1>4. CASE ~(Cardinality(pending) < Slots)
  BY <1>2, <1>4 DEF Remember, PendingOK
<1>5. QED
  BY <1>3, <1>4

LEMMA ReturnType ==
  ASSUME TypeInv, Returns
  PROVE  TypeInv'
<1> USE TypeParts
<1>1. RequestOK' /\ LampOK' /\ LabelsOK' /\ WitnessedOK' /\ UNCHANGED commands
  BY ReturnFrame
<1>2. CASE BeginFails \/ LoadPresets
  <2>1. CacheOK' /\ PendingOK'
    BY <1>2 DEF BeginFails, LoadPresets, cacheVars, pendingVars, CacheOK, PendingOK
  <2>2. QED
    BY <1>1, <2>1, TypePartsNext
<1>3. CASE PresetsRead
  <2>1. CacheOK'
    BY <1>3, TapoChildAssumption DEF PresetsRead, CacheOK
  <2>2. PendingOK'
    BY <1>3 DEF PresetsRead, pendingVars, PendingOK
  <2>3. QED
    BY <1>1, <2>1, <2>2, TypePartsNext
<1>4. CASE Polled
  <2>1. CacheOK'
    BY <1>4, UpdatedDomain DEF Polled, CacheOK
  <2>2. pending' \in {pending, {[p EXCEPT !.reported = TRUE] : p \in pending}}
    BY <1>4 DEF Polled
  <2>3. commands \in Nat /\ IsFiniteSet(pending) /\ pending \subseteq Slot(commands)
        /\ Cardinality(pending) <= Slots
    BY TapoChildAssumption DEF PendingOK
  <2>4. PendingOK'
    <3> DEFINE T == {[p EXCEPT !.reported = TRUE] : p \in pending}
    <3>1. IsFiniteSet(T) /\ Cardinality(T) <= Cardinality(pending)
          /\ T \subseteq Slot(commands)
      BY <2>3, MarkedPending
    <3> HIDE DEF T
    <3>2. Cardinality(pending) \in Nat /\ Cardinality(T) \in Nat
      BY <2>3, <3>1, FS_CardinalityType
    <3>3. Cardinality(T) <= Slots
      BY <2>3, <3>1, <3>2, TapoChildAssumption
    <3>4. pending' \in {pending, T}
      BY <2>2 DEF T
    <3>5. QED
      BY <1>1, <3>1, <3>3, <3>4 DEF PendingOK
  <2>5. QED
    BY <1>1, <2>1, <2>4, TypePartsNext
<1>5. CASE Executed
  <2>1. stage = "done" /\ purpose = "command" /\ UNCHANGED <<state, presets>>
    BY <1>5 DEF Executed, Returned
  <2>2. Fits(command, commands)
        /\ (command.kind = "ApplyLightPreset" => command.value1 \in 0..presets - 1)
    BY <2>1 DEF LabelsOK, CommandFits
  <2>3. CacheOK'
    <3>1. presets' - 1 = presets - 1 /\ presets \in Int
      BY <2>1, TapoChildAssumption DEF CacheOK
    <3>2. presetIndex' \in -1..presets - 1
      BY <1>5, <2>2, <3>1 DEF Executed, CacheOK
    <3>3. QED
      BY <1>5, <2>1, <3>2 DEF Executed, CacheOK
  <2>4. PendingOK'
    <3>1. CASE pending' = pending
      BY <1>1, <3>1 DEF PendingOK
    <3>2. CASE Remember(command)
      BY <1>1, <2>2, <3>2, RememberOK DEF PendingOK
    <3>3. QED
      BY <1>5, <3>1, <3>2 DEF Executed
  <2>5. QED
    BY <1>1, <2>3, <2>4, TypePartsNext
<1>6. QED
  BY <1>2, <1>3, <1>4, <1>5 DEF Returns
-----------------------------------------------------------------------------
(* The rest of the loop, and the lamp.                                        *)

LEMMA LoopType ==
  ASSUME TypeInv,
         \/ PollNotDue \/ NextLoop
         \/ \E late \in SUBSET pending : Resolve(late)
         \/ \E c \in Command : ExecuteUnsupported(c) \/ ExecuteRefresh(c)
  PROVE  TypeInv' /\ UNCHANGED <<requestVars, sessionVars, lampVars, history, state>>
<1> USE TypeParts
<1>1. UNCHANGED <<requestVars, sessionVars, lampVars, history>>
      /\ UNCHANGED <<state, presetIndex, presets>>
      /\ pc' \in {"begin", "presets", "tick", "resolve", "execute"}
  BY DEF PollNotDue, NextLoop, Resolve, ExecuteUnsupported, ExecuteRefresh, cacheVars
<1>2. commands' \in {commands, commands + 1} /\ commands \in Nat /\ commands' \in 0..MaxCommands
  BY TapoChildAssumption
     DEF PollNotDue, NextLoop, Resolve, ExecuteUnsupported, ExecuteRefresh, Takes, PendingOK,
         pendingVars
<1>3. PendingOK'
  <2>1. CASE \E c \in Command : ExecuteRefresh(c)
    <3>1. PICK c \in Command : ExecuteRefresh(c)
      BY <2>1
    <3>2. Remember(Issued(c)) /\ commands' = commands + 1 /\ commands < MaxCommands
      BY <3>1 DEF ExecuteRefresh, Takes
    <3>3. Fits(Issued(c), commands')
      BY <3>2, IssuedFits
    <3>4. QED
      BY <1>2, <3>2, <3>3, RememberOK
  <2>2. CASE pending' \subseteq pending
    <3>1. IsFiniteSet(pending) /\ pending \subseteq Slot(commands)
          /\ Cardinality(pending) <= Slots
      BY DEF PendingOK
    <3>2. /\ IsFiniteSet(pending') /\ Cardinality(pending') <= Cardinality(pending)
          /\ Cardinality(pending) \in Nat /\ Cardinality(pending') \in Nat
      BY <2>2, <3>1, FS_Subset, FS_CardinalityType
    <3>3. Cardinality(pending') <= Slots
      BY <3>1, <3>2, TapoChildAssumption
    <3>4. pending' \subseteq Slot(commands')
      BY <1>2, <2>2, <3>1, SlotGrows
    <3>5. QED
      BY <1>2, <3>2, <3>3, <3>4 DEF PendingOK
  <2>3. QED
    BY <2>1, <2>2 DEF PollNotDue, NextLoop, Resolve, ExecuteUnsupported, pendingVars
<1>4. RequestOK' /\ LampOK' /\ WitnessedOK'
  BY <1>1 DEF RequestOK, LampOK, WitnessedOK, requestVars, sessionVars, lampVars, history,
              KeysWhenOnline
<1>5. CacheOK'
  BY <1>1 DEF CacheOK, PollNotDue, NextLoop, Resolve, ExecuteUnsupported, ExecuteRefresh,
              cacheVars
<1>6. LabelsOK'
  <2>1. stage # "none" => commands' = commands
    BY DEF PollNotDue, NextLoop, Resolve, ExecuteUnsupported, ExecuteRefresh, Takes, Asking,
           pendingVars
  <2>2. QED
    BY <1>1, <2>1 DEF LabelsOK, CommandFits, requestVars
<1>7. QED
  BY <1>1, <1>3, <1>4, <1>5, <1>6, TypePartsNext

LEMMA EnvironmentType ==
  ASSUME TypeInv, Environment
  PROVE  TypeInv' /\ UNCHANGED Untouched /\ disturbed' \in {disturbed, TRUE}
<1> USE TypeParts
<1>1. UNCHANGED Untouched /\ faults' = faults + 1 /\ faults < MaxFaults
      /\ disturbed' \in {disturbed, disturbed \/ Asking, TRUE}
  BY DEF Environment, LampRestarts, ReachChanges, OtherAppSets, Fault
<1>2. disturbed' \in {disturbed, TRUE}
  BY <1>1 DEF RequestOK
<1>3. DOMAIN lamp' = Field /\ lampSession' \in {"none", "seeded", "open"}
      /\ reach' \in {"up", "down", "refusing"}
  BY UpdatedDomain DEF Environment, LampRestarts, ReachChanges, OtherAppSets, LampOK
<1>4. LampOK'
  BY <1>1, <1>3, TapoChildAssumption DEF LampOK, Untouched, requestVars
<1>5. RequestOK'
  BY <1>1, <1>2 DEF Untouched, requestVars, sessionVars, RequestOK, KeysWhenOnline
<1>6. CacheOK' /\ PendingOK' /\ LabelsOK' /\ WitnessedOK'
  BY <1>1 DEF Untouched, cacheVars, pendingVars, requestVars, CacheOK, PendingOK, LabelsOK,
              WitnessedOK, CommandFits
<1>7. QED
  BY <1>1, <1>2, <1>4, <1>5, <1>6, TypePartsNext

LEMMA StutterType ==
  ASSUME TypeInv, UNCHANGED vars
  PROVE  TypeInv'
<1> USE TypeParts DEF vars
<1>1. RequestOK' /\ LampOK' /\ LabelsOK'
  BY DEF requestVars, sessionVars, lampVars, history, pendingVars, cacheVars, RequestOK,
         LampOK, KeysWhenOnline, LabelsOK, CommandFits
<1>2. CacheOK' /\ PendingOK' /\ WitnessedOK'
  BY DEF cacheVars, pendingVars, history, CacheOK, PendingOK, WitnessedOK
<1>3. QED
  BY <1>1, <1>2, TypePartsNext

(* The kinds of steps, as the lemmas take them.                                *)
Asks ==
  \/ Begin
  \/ \E expired \in BOOLEAN : AskPresets(expired) \/ PollDue(expired)
  \/ \E c \in Command, expired \in BOOLEAN : Execute(c, expired)

Loop ==
  \/ PollNotDue \/ NextLoop
  \/ \E late \in SUBSET pending : Resolve(late)
  \/ \E c \in Command : ExecuteUnsupported(c) \/ ExecuteRefresh(c)

LEMMA StepKinds == Next => Exchange \/ Asks \/ Returns \/ Loop \/ Environment
  BY DEF Next, NetworkTask, Poll, Asks, Returns, Loop

LEMMA InitType == Init => TypeInv
<1> SUFFICES ASSUME Init PROVE TypeInv
  OBVIOUS
<1> USE TapoChildAssumption DEF Init
<1>1. IsFiniteSet(pending) /\ Cardinality(pending) = 0
  BY FS_EmptySet
<1>2. DOMAIN state = Field /\ DOMAIN shown = Field /\ DOMAIN lamp = Field
  BY DEF Field
<1>3. RequestOK /\ WitnessedOK
  BY DEF RequestOK, WitnessedOK, Outcome, KeysWhenOnline
<1>4. LampOK
  BY <1>2 DEF LampOK
<1>5. CacheOK /\ PendingOK
  BY <1>1, <1>2 DEF CacheOK, PendingOK
<1>6. LabelsOK
  BY DEF LabelsOK, CommandFits, NoCommand
<1>7. QED
  BY <1>3, <1>4, <1>5, <1>6, TypeParts

LEMMA NextType == TypeInv /\ [Next]_vars => TypeInv'
<1> SUFFICES ASSUME TypeInv, [Next]_vars PROVE TypeInv'
  OBVIOUS
<1>1. CASE Asks
  BY <1>1, BeginType, AskType, ExecuteType DEF Asks
<1>2. CASE Loop
  BY <1>2, LoopType DEF Loop
<1>3. QED
  BY <1>1, <1>2, StepKinds, ExchangeType, ReturnType, EnvironmentType, StutterType

(* TypeOK holds whatever the commands, presets, lamps and bounds: the table   *)
(* stays within its slots, no id is one that was not issued, and nothing is   *)
(* posted, nor the lamp held to be online, without the keys of a handshake.    *)
THEOREM TapoChildTypeCorrect == Spec => []TypeOK
<1>1. TypeInv => TypeOK
  BY DEF TypeInv
<1>2. QED
  BY <1>1, InitType, NextType, PTL DEF Spec

-----------------------------------------------------------------------------
(* The end of a session costs no request.                                      *)

LEMMA ExchangeSession ==
  ASSUME TypeInv, SessionInv, Exchange
  PROVE  SessionInv'
<1> USE TypeParts
<1>0. disturbed \in BOOLEAN /\ reach' = reach /\ attempt \in {1, 2}
      /\ (reach # "up" => disturbed)
  BY ExchangeFrame DEF RequestOK, SessionInv
<1>1. disturbed' \in {disturbed, TRUE}
  BY DEF Exchange, Handshake1, Handshake1Mismatch, Handshake1Fails, Handshake2,
         Handshake2Fails, Handshake2Refused, PostRejected, PostAnswered, PostForbidden,
         PostFails, Disturbs
<1>2. reach' # "up" => disturbed'
  BY <1>0, <1>1
<1>3. stage' = "handshake2" => disturbed' \/ lampSession' = "seeded"
  BY DEF Exchange, Handshake1, Handshake1Mismatch, Handshake1Fails, Handshake2,
         Handshake2Fails, Handshake2Refused, PostRejected, PostAnswered, PostForbidden,
         PostFails, Retry, Ends, Continues
<1>4. stage' = "post" /\ attempt' = 2 => disturbed' \/ lampSession' = "open"
  BY DEF Exchange, Handshake1, Handshake1Mismatch, Handshake1Fails, Handshake2,
         Handshake2Fails, Handshake2Refused, PostRejected, PostAnswered, PostForbidden,
         PostFails, Retry, Ends, Continues
<1>5. SessionLossIsInvisible'
  <2> SUFFICES ASSUME stage' = "done", outcome' # "ok" PROVE disturbed'
    BY DEF SessionLossIsInvisible
  <2>1. CASE Handshake1Mismatch
    BY <1>0, <2>1 DEF Handshake1Mismatch
  <2>2. CASE \E o \in Outcome : Handshake2Refused(o)
    BY <1>0, <2>2 DEF Handshake2Refused, SessionInv
  <2>3. CASE PostForbidden
    BY <1>0, <2>3 DEF PostForbidden, Retry, Continues, LampServes, SessionInv
  <2>4. CASE \E o \in Outcome : PostRejected(o)
    BY <1>0, <2>4 DEF PostRejected, Disturbs
  <2>5. CASE Handshake1Fails \/ Handshake2Fails \/ PostFails
    BY <2>5 DEF Handshake1Fails, Handshake2Fails, PostFails, Disturbs
  <2>6. QED
    BY <2>1, <2>2, <2>3, <2>4, <2>5
       DEF Exchange, Handshake1, Handshake2, PostAnswered, Ends, Continues
<1>6. QED
  BY <1>2, <1>3, <1>4, <1>5 DEF SessionInv

LEMMA NextSession == TypeInv /\ SessionInv /\ [Next]_vars => SessionInv'
<1> SUFFICES ASSUME TypeInv, SessionInv, [Next]_vars PROVE SessionInv'
  OBVIOUS
<1>1. CASE Asks
  <2>1. stage' \in {"handshake1", "post"} /\ attempt' = 1 /\ reach' = reach
    BY <1>1 DEF Asks, Begin, AskPresets, PollDue, Execute, Request, FirstExchange, lampVars
  <2>2. disturbed' = (reach # "up")
    BY <1>1 DEF Asks, Begin, AskPresets, PollDue, Execute, Request
  <2>3. reach' # "up" => disturbed'
    BY <2>1, <2>2
  <2>4. QED
    BY <2>1, <2>3 DEF SessionInv, SessionLossIsInvisible
<1>2. CASE Returns
  BY <1>2, ReturnFrame DEF SessionInv, SessionLossIsInvisible, lampVars, history
<1>3. CASE Loop
  BY <1>3, LoopType
     DEF Loop, SessionInv, SessionLossIsInvisible, lampVars, history, requestVars
<1>4. CASE Environment
  <2>1. stage' = stage /\ attempt' = attempt /\ outcome' = outcome
        /\ disturbed' \in {disturbed, TRUE}
    BY <1>4, EnvironmentType DEF Untouched, requestVars
  <2>2. stage \in {"handshake2", "post"} => disturbed' \/ lampSession' = lampSession
    BY <1>4 DEF Environment, LampRestarts, ReachChanges, OtherAppSets, Asking
  <2>3. reach' # reach => disturbed'
    BY <1>4 DEF Environment, LampRestarts, ReachChanges, OtherAppSets
  <2>4. QED
    BY <2>1, <2>2, <2>3 DEF SessionInv, SessionLossIsInvisible
<1>5. CASE UNCHANGED vars
  BY <1>5 DEF vars, requestVars, lampVars, history, SessionInv, SessionLossIsInvisible
<1>6. QED
  BY <1>1, <1>2, <1>3, <1>4, <1>5, ExchangeSession, StepKinds

(* SessionLossIsInvisible: whatever ended the session, on this side or the    *)
(* lamp's, a request that nothing else disturbs ends well.                    *)
THEOREM EndedSessionIsInvisible == Spec => []SessionLossIsInvisible
<1>1. Init => SessionInv
  BY DEF Init, SessionInv, SessionLossIsInvisible
<1>2. SessionInv => SessionLossIsInvisible
  BY DEF SessionInv
<1>3. QED
  BY <1>1, <1>2, InitType, NextType, NextSession, PTL DEF Spec
-----------------------------------------------------------------------------
(* What is confirmed was shown by the lamp after it was issued.               *)

Readable(c) == c \in Given /\ c.kind \notin {"Refresh", "ApplyLightPreset"}

LEMMA UpdatedPower ==
  ASSUME NEW f, DOMAIN f = Field, f.power \in BOOLEAN,
         NEW c \in Given, c.kind # "Refresh"
  PROVE  Updated(f, Params(c)).power \in BOOLEAN
<1>1. "power" \in Field
  BY DEF Field
<1>2. ASSUME "power" \in DOMAIN Params(c) PROVE Params(c)["power"] \in BOOLEAN
  <2>1. CASE c.kind = "ApplyLightPreset"
    BY <1>2, <2>1 DEF Params
  <2>2. CASE c.kind = "SetPower"
    BY <2>2 DEF Params
  <2>3. CASE c.kind = "SetBrightness"
    BY <2>3 DEF Params
  <2>4. CASE c.kind = "SetColorTemperature"
    BY <2>4 DEF Params
  <2>5. CASE c.kind = "SetHsv"
    BY <2>5 DEF Params
  <2>6. CASE c.kind = "SetLightEffect"
    BY <1>2, <2>6 DEF Params
  <2>7. QED
    BY <2>1, <2>2, <2>3, <2>4, <2>5, <2>6 DEF Given, Kind
<1>3. QED
  BY <1>1, <1>2 DEF Updated

LEMMA NextPower == TypeInv /\ PowerOK /\ [Next]_vars => PowerOK'
<1> SUFFICES ASSUME TypeInv, PowerOK, [Next]_vars PROVE PowerOK'
  OBVIOUS
<1> USE TypeParts
<1>0. DOMAIN lamp = Field /\ DOMAIN shown = Field /\ DOMAIN state = Field
  BY DEF LampOK, CacheOK
<1>1. CASE Exchange
  <2>1. state' = state /\ shown' \in {shown, lamp}
    BY <1>1, ExchangeFrame
       DEF cacheVars, Exchange, Handshake1, Handshake1Mismatch, Handshake1Fails, Handshake2,
           Handshake2Fails, Handshake2Refused, PostRejected, PostAnswered, PostForbidden,
           PostFails, Retry, Ends, Continues
  <2>2. CASE lamp' = lamp
    BY <2>1, <2>2 DEF PowerOK
  <2>3. CASE stage = "post" /\ LampActs
    <3>1. purpose = "command" => command \in Given /\ command.kind # "Refresh"
      BY <2>3 DEF LabelsOK, CommandFits, Fits
    <3>2. lamp'.power \in BOOLEAN
      BY <1>0, <2>3, <3>1, UpdatedPower DEF LampActs, PowerOK
    <3>3. QED
      BY <2>1, <3>2 DEF PowerOK
  <2>4. QED
    BY <1>1, <2>2, <2>3
       DEF Exchange, Handshake1, Handshake1Mismatch, Handshake1Fails, Handshake2,
           Handshake2Fails, Handshake2Refused, PostRejected, PostAnswered, PostForbidden,
           PostFails
<1>2. CASE Asks
  BY <1>2 DEF Asks, Begin, AskPresets, PollDue, Execute, Request, PowerOK, lampVars, cacheVars
<1>3. CASE Returns
  <2>1. lamp' = lamp /\ shown' = shown /\ state' \in {state, Updated(state, shown)}
    BY <1>3 DEF Returns, BeginFails, LoadPresets, PresetsRead, Polled, Executed, lampVars,
                cacheVars
  <2>2. Updated(state, shown).power \in BOOLEAN
    BY <1>0 DEF Updated, PowerOK, Field
  <2>3. QED
    BY <2>1, <2>2 DEF PowerOK
<1>4. CASE Loop
  BY <1>4, LoopType DEF Loop, PowerOK, lampVars, requestVars
<1>5. CASE Environment
  <2>1. UNCHANGED <<shown, state>>
    BY <1>5, EnvironmentType DEF Untouched, requestVars, cacheVars
  <2>2. CASE lamp' = lamp
    BY <2>1, <2>2 DEF PowerOK
  <2>3. CASE \E c \in Command : c.kind \notin {"ApplyLightPreset", "Refresh"} /\ OtherAppSets(c)
    <3>1. PICK c \in Command : c.kind \notin {"ApplyLightPreset", "Refresh"} /\ OtherAppSets(c)
      BY <2>3
    <3> DEFINE d == [id |-> 0, kind |-> c.kind, value1 |-> c.value1, value2 |-> c.value2,
                     value3 |-> c.value3]
    <3>2. d \in Given /\ d.kind # "Refresh"
      BY <3>1, TapoChildAssumption DEF Given
    <3>3. Params(c) = Params(d)
      BY <3>1, TapoChildAssumption DEF Params, Kind
    <3> HIDE DEF d
    <3>4. lamp'.power \in BOOLEAN
      BY <1>0, <3>1, <3>2, <3>3, UpdatedPower DEF OtherAppSets, PowerOK
    <3>5. QED
      BY <2>1, <3>4 DEF PowerOK
  <2>4. QED
    BY <1>5, <2>2, <2>3 DEF Environment, LampRestarts, ReachChanges
<1>6. CASE UNCHANGED vars
  BY <1>6 DEF vars, requestVars, lampVars, cacheVars, PowerOK
<1>7. QED
  BY <1>1, <1>2, <1>3, <1>4, <1>5, <1>6, StepKinds

LEMMA ParamsFields ==
  ASSUME NEW c, Readable(c)
  PROVE  DOMAIN Params(c) \subseteq Field
<1>1. CASE c.kind = "SetPower"
  BY <1>1 DEF Params, Field
<1>2. CASE c.kind = "SetBrightness"
  BY <1>2 DEF Params, Field
<1>3. CASE c.kind = "SetColorTemperature"
  BY <1>3 DEF Params, Field
<1>4. CASE c.kind = "SetHsv"
  BY <1>4 DEF Params, Field
<1>5. CASE c.kind = "SetLightEffect"
  BY <1>5 DEF Params, Field
<1>6. QED
  BY <1>1, <1>2, <1>3, <1>4, <1>5 DEF Readable, Given, Kind

(* A cache that agrees with every field of the parameters shows them.          *)
LEMMA ShowsBrightness ==
  ASSUME NEW f, NEW c, NEW b,
         Params(c) = [power |-> TRUE, brightness |-> b],
         f.power = TRUE, f.brightness = b
  PROVE  Shows(f, c)
<1>1. DOMAIN Params(c) = {"power", "brightness"}
  OBVIOUS
<1>2. Params(c)["power"] = TRUE /\ Params(c)["brightness"] = b
  OBVIOUS
<1>3. f["power"] = TRUE /\ f["brightness"] = b
  OBVIOUS
<1>4. QED
  BY <1>1, <1>2, <1>3 DEF Shows

LEMMA ShowsTemperature ==
  ASSUME NEW f, NEW c, NEW b,
         Params(c) = [power |-> TRUE, temperature |-> b],
         f.power = TRUE, f.temperature = b
  PROVE  Shows(f, c)
<1>1. DOMAIN Params(c) = {"power", "temperature"}
  OBVIOUS
<1>2. Params(c)["power"] = TRUE /\ Params(c)["temperature"] = b
  OBVIOUS
<1>3. f["power"] = TRUE /\ f["temperature"] = b
  OBVIOUS
<1>4. QED
  BY <1>1, <1>2, <1>3 DEF Shows

LEMMA ShowsColour ==
  ASSUME NEW f, NEW c, NEW h, NEW s, NEW b,
         Params(c) = [power |-> TRUE, hue |-> h, saturation |-> s,
                      brightness |-> b, temperature |-> 0],
         f.power = TRUE, f.hue = h, f.saturation = s,
         f.brightness = b, f.temperature = 0
  PROVE  Shows(f, c)
<1>1. DOMAIN Params(c) = {"power", "hue", "saturation", "brightness", "temperature"}
  OBVIOUS
<1>2. Params(c)["power"] = TRUE /\ Params(c)["hue"] = h
      /\ Params(c)["saturation"] = s
      /\ Params(c)["brightness"] = b
      /\ Params(c)["temperature"] = 0
  OBVIOUS
<1>3. f["power"] = TRUE /\ f["hue"] = h /\ f["saturation"] = s
      /\ f["brightness"] = b /\ f["temperature"] = 0
  OBVIOUS
<1>4. QED
  BY <1>1, <1>2, <1>3 DEF Shows

(* commandMatches() compares every field that execute() asks the lamp to set. *)
LEMMA MatchesShows ==
  ASSUME NEW n \in Nat, NEW c, Fits(c, n), Readable(c)
  PROVE  /\ state.power \in BOOLEAN /\ Matches(c) => Shows(state, c)
         /\ state'.power \in BOOLEAN /\ (Matches(c))' => Shows(state', c)
<1> USE DEF Matches, Shows
<1>0. /\ state.power \in BOOLEAN /\ state.power => state.power = TRUE
      /\ state'.power \in BOOLEAN /\ state'.power => state'.power = TRUE
  OBVIOUS
<1>1. CASE c.kind = "SetPower"
  BY <1>1 DEF Params
<1>2. CASE c.kind = "SetBrightness"
  <2>1. Percent(c.value1) = c.value1
    BY <1>2 DEF Fits, Percent
  <2>2. Params(c) = [power |-> TRUE, brightness |-> c.value1]
    BY <1>2, <2>1 DEF Params
  <2>3. Matches(c) <=> state.power /\ state.brightness = c.value1
    BY <1>2
  <2>4. (Matches(c))' <=> state'.power /\ state'.brightness = c.value1
    BY <1>2
  <2> HIDE DEF Matches, Shows
  <2>5. QED
    BY <1>0, <2>2, <2>3, <2>4, ShowsBrightness
<1>3. CASE c.kind = "SetColorTemperature"
  <2>1. Params(c) = [power |-> TRUE, temperature |-> c.value1]
    BY <1>3 DEF Params
  <2>2. Matches(c) <=> state.power /\ state.temperature = c.value1
    BY <1>3
  <2>3. (Matches(c))' <=> state'.power /\ state'.temperature = c.value1
    BY <1>3
  <2> HIDE DEF Matches, Shows
  <2>4. QED
    BY <1>0, <2>1, <2>2, <2>3, ShowsTemperature
<1>4. CASE c.kind = "SetHsv"
  <2>1. Percent(c.value3) = c.value3
    BY <1>4 DEF Fits, Percent
  <2>2. Params(c) = [power |-> TRUE, hue |-> c.value1, saturation |-> c.value2,
                     brightness |-> c.value3, temperature |-> 0]
    BY <1>4, <2>1 DEF Params
  <2>3. Matches(c) <=> /\ state.power /\ state.temperature = 0
                       /\ state.hue = c.value1 /\ state.saturation = c.value2
                       /\ state.brightness = c.value3
    BY <1>4
  <2>4. (Matches(c))' <=> /\ state'.power /\ state'.temperature = 0
                          /\ state'.hue = c.value1 /\ state'.saturation = c.value2
                          /\ state'.brightness = c.value3
    BY <1>4
  <2> HIDE DEF Matches, Shows
  <2>5. QED
    BY <1>0, <2>2, <2>3, <2>4, ShowsColour, ZenonT(40)
<1>5. CASE c.kind = "SetLightEffect"
  BY <1>5 DEF Params
<1>6. QED
  BY <1>1, <1>2, <1>3, <1>4, <1>5 DEF Readable, Given, Kind

LEMMA MatchesFrame ==
  ASSUME NEW c \in Given, ReadBack(c), state' = state
  PROVE  Matches(c) <=> (Matches(c))'
<1> USE DEF Matches
<1>1. CASE c.kind = "SetPower"
  BY <1>1
<1>2. CASE c.kind = "SetBrightness"
  BY <1>2
<1>3. CASE c.kind = "SetColorTemperature"
  BY <1>3
<1>4. CASE c.kind = "SetHsv"
  BY <1>4
<1>5. CASE c.kind = "SetLightEffect"
  BY <1>5
<1>6. CASE c.kind = "Refresh"
  BY <1>6
<1>7. QED
  BY <1>1, <1>2, <1>3, <1>4, <1>5, <1>6 DEF ReadBack, Given, Kind

LEMMA SlotsAre ==
  ASSUME TypeInv, NEW p \in pending
  PROVE  /\ p = [command |-> p.command, reported |-> p.reported]
         /\ p.command \in Given /\ Fits(p.command, commands) /\ commands \in Nat
  BY TypeParts DEF PendingOK, Slot, Fits

(* A step that leaves the cache, the lamp's answer and the marks alone.       *)
LEMMA ConfirmFrame ==
  ASSUME TypeInv, ConfirmInv, state' = state,
         \A p \in pending' : p \in pending \/ ~p.reported,
         \A p \in pending' : p.command \in Given,
         witnessed \subseteq witnessed', events' \subseteq events,
         \/ stage' # "done"
         \/ UNCHANGED <<stage, purpose, outcome, shown>> /\ pending' \subseteq pending
  PROVE  ConfirmInv'
<1>1. CacheWitnessed'
  <2> SUFFICES ASSUME NEW p \in pending', p.reported, ReadBack(p.command),
                      (Matches(p.command))'
               PROVE  p.command.id \in witnessed'
    BY DEF CacheWitnessed, ReadBack
  <2>1. p \in pending /\ p.command \in Given
    OBVIOUS
  <2>2. Matches(p.command)
    BY <2>1, MatchesFrame
  <2>3. QED
    BY <2>1, <2>2 DEF ConfirmInv, CacheWitnessed
<1>2. AnswerWitnessed'
  BY DEF ConfirmInv, AnswerWitnessed, Shows
<1>3. ConfirmedWasShown'
  BY DEF ConfirmInv, ConfirmedWasShown
<1>4. QED
  BY <1>1, <1>2, <1>3 DEF ConfirmInv

LEMMA ExchangeConfirm ==
  ASSUME TypeInv, ConfirmInv, Exchange
  PROVE  ConfirmInv'
<1>1. UNCHANGED <<purpose, state, pending, events>>
  BY ExchangeFrame DEF cacheVars, pendingVars
<1>2. \A p \in pending : p.command \in Given
  BY SlotsAre
<1>3. CASE PostAnswered /\ purpose = "poll"
  <2>1. /\ shown' = lamp
        /\ witnessed' = witnessed \cup
             {p.command.id : p \in {q \in pending : q.command.kind # "Refresh" =>
                 \A x \in DOMAIN Params(q.command) : lamp[x] = Params(q.command)[x]}}
    BY <1>3 DEF PostAnswered
  <2>2. AnswerWitnessed'
    BY <1>1, <2>1 DEF AnswerWitnessed, Shows
  <2>3. CacheWitnessed'
    <3> SUFFICES ASSUME NEW p \in pending', p.reported, ReadBack(p.command),
                        (Matches(p.command))'
                 PROVE  p.command.id \in witnessed'
      BY DEF CacheWitnessed, ReadBack
    <3>1. Matches(p.command)
      BY <1>1, <1>2, MatchesFrame
    <3>2. QED
      BY <1>1, <2>1, <3>1 DEF ConfirmInv, CacheWitnessed
  <2>4. ConfirmedWasShown'
    BY <1>1, <2>1 DEF ConfirmInv, ConfirmedWasShown
  <2>5. QED
    BY <2>2, <2>3, <2>4 DEF ConfirmInv
<1>4. CASE ~PostAnswered \/ purpose # "poll"
  <2>1. witnessed' = witnessed
    BY <1>4
       DEF Exchange, Handshake1, Handshake1Mismatch, Handshake1Fails, Handshake2,
           Handshake2Fails, Handshake2Refused, PostRejected, PostAnswered, PostForbidden,
           PostFails, Retry, Ends, Continues
  <2>2. stage' = "done" => purpose # "poll" \/ outcome' # "ok"
    BY <1>4
       DEF Exchange, Handshake1, Handshake1Mismatch, Handshake1Fails, Handshake2,
           Handshake2Fails, Handshake2Refused, PostRejected, PostAnswered, PostForbidden,
           PostFails, Retry, Ends, Continues
  <2>3. AnswerWitnessed'
    BY <1>1, <2>2 DEF AnswerWitnessed
  <2>4. CacheWitnessed'
    BY <1>1, <1>2, <2>1, MatchesFrame DEF ConfirmInv, CacheWitnessed, ReadBack
  <2>5. ConfirmedWasShown'
    BY <1>1, <2>1 DEF ConfirmInv, ConfirmedWasShown
  <2>6. QED
    BY <2>3, <2>4, <2>5 DEF ConfirmInv
<1>5. QED
  BY <1>3, <1>4

(* updateState() and the marks come after an answer that has been witnessed.  *)
LEMMA PolledConfirm ==
  ASSUME TypeInv, PowerOK, ConfirmInv, Polled
  PROVE  ConfirmInv'
<1>1. /\ stage = "done" /\ purpose = "poll" /\ stage' = "none"
      /\ UNCHANGED <<witnessed, events>>
  BY DEF Polled, Returned, history
<1>2. CASE outcome # "ok"
  <2>1. UNCHANGED <<state, pending>>
    BY <1>2 DEF Polled
  <2>2. QED
    BY <1>1, <2>1, ConfirmFrame, SlotsAre
<1>3. CASE outcome = "ok"
  <2>1. /\ state' = Updated(state, shown)
        /\ pending' = {[p EXCEPT !.reported = TRUE] : p \in pending}
    BY <1>3 DEF Polled
  <2>2. \A x \in Field : state'[x] = shown[x]
    BY <2>1, TypeParts DEF LampOK, CacheOK, Updated
  <2>3. CacheWitnessed'
    <3> SUFFICES ASSUME NEW p \in pending', p.reported, ReadBack(p.command),
                        (Matches(p.command))'
                 PROVE  p.command.id \in witnessed'
      BY DEF CacheWitnessed, ReadBack
    <3>1. PICK q \in pending : p = [q EXCEPT !.reported = TRUE]
      BY <2>1
    <3>2. p.command = q.command
      BY <3>1, SlotsAre
    <3>3. q.command.kind # "Refresh" => Shows(shown, q.command)
      <4> SUFFICES ASSUME q.command.kind # "Refresh" PROVE Shows(shown, q.command)
        OBVIOUS
      <4>1. Readable(q.command) /\ Fits(q.command, commands) /\ commands \in Nat
        BY <3>2, SlotsAre DEF Readable, ReadBack
      <4>2. Shows(state', q.command)
        BY <2>2, <3>2, <4>1, MatchesShows DEF PowerOK, Field
      <4>3. DOMAIN Params(q.command) \subseteq Field
        BY <4>1, ParamsFields
      <4>4. QED
        BY <2>2, <4>2, <4>3 DEF Shows
    <3>4. QED
      BY <1>1, <1>3, <3>2, <3>3 DEF ConfirmInv, AnswerWitnessed
  <2>4. AnswerWitnessed'
    BY <1>1 DEF AnswerWitnessed
  <2>5. ConfirmedWasShown'
    BY <1>1 DEF ConfirmInv, ConfirmedWasShown
  <2>6. QED
    BY <2>3, <2>4, <2>5 DEF ConfirmInv
<1>4. QED
  BY <1>2, <1>3

LEMMA ResolveConfirm ==
  ASSUME TypeInv, ConfirmInv, NEW late \in SUBSET pending, Resolve(late)
  PROVE  ConfirmInv'
<1>1. UNCHANGED <<state, stage, purpose, outcome, shown, witnessed>>
      /\ pending' \subseteq pending
  BY DEF Resolve, requestVars, cacheVars, history
<1>2. \A p \in pending : p.command \in Given
  BY SlotsAre
<1>3. AnswerWitnessed'
  BY <1>1 DEF ConfirmInv, AnswerWitnessed, Shows
<1>4. CacheWitnessed'
  BY <1>1, <1>2, MatchesFrame DEF ConfirmInv, CacheWitnessed, ReadBack
<1>5. ConfirmedWasShown'
  <2> SUFFICES ASSUME NEW e \in events', e.result = "Succeeded",
                      e.command.kind # "ApplyLightPreset"
               PROVE  e.command.id \in witnessed'
    BY DEF ConfirmedWasShown
  <2>1. PICK p \in pending : e = Event(p)
    BY DEF Resolve
  <2>2. e.command = p.command /\ Confirmed(p)
    BY <2>1 DEF Event
  <2>3. QED
    BY <1>1, <2>2 DEF ConfirmInv, CacheWitnessed, Confirmed, ReadBack
<1>6. QED
  BY <1>3, <1>4, <1>5 DEF ConfirmInv
LEMMA NextConfirm == TypeInv /\ PowerOK /\ ConfirmInv /\ [Next]_vars => ConfirmInv'
<1> SUFFICES ASSUME TypeInv, PowerOK, ConfirmInv, [Next]_vars PROVE ConfirmInv'
  OBVIOUS
<1>1. \A p \in pending' : p.command \in Given
  BY NextType, TypeParts DEF TypeInv, Slot
<1>2. CASE Asks
  <2>1. UNCHANGED <<state, pending, witnessed>> /\ events' \subseteq events
        /\ stage' \in {"handshake1", "post"}
    BY <1>2 DEF Asks, Begin, AskPresets, PollDue, Execute, Takes, Request, FirstExchange,
                cacheVars, pendingVars
  <2>2. QED
    BY <1>1, <2>1, ConfirmFrame
<1>3. CASE Returns
  <2>1. CASE BeginFails \/ LoadPresets \/ PresetsRead
    <3>1. UNCHANGED <<state, pending, witnessed, events>> /\ stage' = "none"
      BY <2>1 DEF BeginFails, LoadPresets, PresetsRead, Returned, cacheVars, pendingVars,
                  history
    <3>2. QED
      BY <1>1, <3>1, ConfirmFrame
  <2>2. CASE Executed
    <3>1. /\ UNCHANGED <<state, witnessed, events>> /\ stage' = "none"
          /\ \A p \in pending' : p \in pending \/ ~p.reported
      BY <2>2 DEF Executed, Returned, Remember, history
    <3>2. QED
      BY <1>1, <3>1, ConfirmFrame
  <2>3. QED
    BY <1>3, <2>1, <2>2, PolledConfirm DEF Returns
<1>4. CASE Loop
  <2>1. UNCHANGED <<state, stage, purpose, outcome, shown, witnessed>>
    BY <1>4, LoopType DEF Loop, requestVars, history
  <2>2. CASE PollNotDue \/ NextLoop \/ \E c \in Command : ExecuteUnsupported(c)
    <3>1. pending' = pending /\ events' \subseteq events
      BY <2>2 DEF PollNotDue, NextLoop, ExecuteUnsupported, Takes, pendingVars
    <3>2. QED
      BY <1>1, <2>1, <3>1, ConfirmFrame
  <2>3. CASE \E c \in Command : ExecuteRefresh(c)
    <3>1. /\ stage = "none" /\ events' \subseteq events
          /\ \A p \in pending' : p \in pending \/ ~p.reported
      BY <2>3 DEF ExecuteRefresh, Takes, Remember, Asking
    <3>2. QED
      BY <1>1, <2>1, <3>1, ConfirmFrame
  <2>4. QED
    BY <1>4, <2>2, <2>3, ResolveConfirm DEF Loop
<1>5. CASE Environment
  <2>1. UNCHANGED <<state, stage, purpose, outcome, shown, witnessed, pending, events>>
    BY <1>5, EnvironmentType DEF Untouched, requestVars, cacheVars, pendingVars
  <2>2. QED
    BY <1>1, <2>1, ConfirmFrame
<1>6. CASE UNCHANGED vars
  <2>1. UNCHANGED <<state, stage, purpose, outcome, shown, witnessed, pending, events>>
    BY <1>6 DEF vars, requestVars, cacheVars, pendingVars, history
  <2>2. QED
    BY <1>1, <2>1, ConfirmFrame
<1>7. QED
  BY <1>2, <1>3, <1>4, <1>5, <1>6, ExchangeConfirm, StepKinds

(* ConfirmedWasShown: of every command but a preset that is reported as       *)
(* succeeded, the lamp itself has shown every field after it was issued.       *)
THEOREM ConfirmedIsReadBack == Spec => []ConfirmedWasShown
<1>1. Init => ConfirmInv /\ PowerOK
  BY TapoChildAssumption
     DEF Init, ConfirmInv, AnswerWitnessed, CacheWitnessed, ConfirmedWasShown, PowerOK
<1>2. ConfirmInv => ConfirmedWasShown
  BY DEF ConfirmInv
<1>3. QED
  BY <1>1, <1>2, InitType, NextType, NextPower, NextConfirm, PTL DEF Spec

-----------------------------------------------------------------------------
(* Every request is one LampRequest.                                           *)

lampRequestVars == OneRequest!requestVars

LEMMA SameOutcomes ==
  /\ OneRequest!Outcome = Outcome
  /\ \A o \in Outcome : OneRequest!ConnectionAfter(o) = ConnectionAfter(o)
  /\ \A o, c : (o = "ok" => c) => OneRequest!MayBeCarriedOut(o, c)
  BY DEF OneRequest!Outcome, Outcome, OneRequest!ConnectionAfter, ConnectionAfter,
         OneRequest!MayBeCarriedOut

LEMMA ExchangeIsRequest ==
  ASSUME TypeInv, Exchange
  PROVE  OneRequest!Exchange \/ OneRequest!Return
<1> DEFINE asking == stage \notin {"none", "done"}
<1>1. asking
  BY DEF Exchange, Handshake1, Handshake1Mismatch, Handshake1Fails, Handshake2,
         Handshake2Fails, Handshake2Refused, PostRejected, PostAnswered, PostForbidden,
         PostFails
<1>2. carriedOut' \in {carriedOut, TRUE}
  BY DEF Exchange, Handshake1, Handshake1Mismatch, Handshake1Fails, Handshake2,
         Handshake2Fails, Handshake2Refused, PostRejected, PostAnswered, PostForbidden,
         PostFails, LampActs, Continues
<1>3. ASSUME NEW s \in {"handshake1", "handshake2", "post"},
             NEW c \in {connection, "Online", "Offline"}, Continues(s, c)
      PROVE  OneRequest!Exchange
  BY <1>1, <1>2, <1>3 DEF Continues, OneRequest!Exchange
<1>4. ASSUME NEW o \in Outcome, o # "ok", Ends(o)
      PROVE  OneRequest!Return
  BY <1>1, <1>2, <1>4, SameOutcomes DEF Ends, OneRequest!Return
<1>5. CASE Handshake1
  BY <1>3, <1>5 DEF Handshake1
<1>6. CASE Handshake1Mismatch
  BY <1>4, <1>6 DEF Handshake1Mismatch, Outcome
<1>7. CASE Handshake1Fails
  BY <1>4, <1>7 DEF Handshake1Fails, Outcome
<1>8. CASE Handshake2
  <2>1. CASE purpose = "begin"
    BY <1>1, <1>8, <2>1, SameOutcomes
       DEF Handshake2, Ends, OneRequest!Return, Outcome
  <2>2. CASE purpose # "begin"
    BY <1>3, <1>8, <2>2 DEF Handshake2
  <2>3. QED
    BY <2>1, <2>2
<1>9. CASE Handshake2Fails
  BY <1>4, <1>9 DEF Handshake2Fails, Outcome
<1>10. CASE \E o \in Outcome : Handshake2Refused(o)
  BY <1>4, <1>10 DEF Handshake2Refused
<1>11. CASE \E o \in Outcome : PostRejected(o)
  BY <1>4, <1>11 DEF PostRejected
<1>12. CASE PostAnswered
  BY <1>1, <1>12, SameOutcomes
     DEF PostAnswered, LampActs, OneRequest!Return, Outcome, ConnectionAfter
<1>13. CASE PostForbidden
  BY <1>3, <1>4, <1>13 DEF PostForbidden, Retry, Outcome
<1>14. CASE PostFails
  BY <1>3, <1>4, <1>14 DEF PostFails, Retry, Outcome
<1>15. QED
  BY <1>5, <1>6, <1>7, <1>8, <1>9, <1>10, <1>11, <1>12, <1>13, <1>14 DEF Exchange

LEMMA StepIsRequestStep ==
  TypeInv /\ [Next]_vars => [OneRequest!Next]_lampRequestVars
<1> SUFFICES ASSUME TypeInv, [Next]_vars PROVE [OneRequest!Next]_lampRequestVars
  OBVIOUS
<1> USE DEF lampRequestVars, OneRequest!requestVars
<1>1. CASE Exchange
  BY <1>1, ExchangeIsRequest DEF OneRequest!Next
<1>2. CASE Asks
  BY <1>2
     DEF Asks, Begin, AskPresets, PollDue, Execute, Takes, Asking, Request, FirstExchange,
         OneRequest!Next, OneRequest!Ask
<1>3. CASE Returns
  <2>1. stage = "done" /\ stage' = "none" /\ UNCHANGED <<carriedOut, outcome>>
    BY <1>3, ReturnFrame DEF history
  <2>2. connection' = connection
    BY <1>3 DEF Returns, BeginFails, LoadPresets, PresetsRead, Polled, Executed, sessionVars
  <2>3. QED
    BY <2>1, <2>2
<1>4. CASE Loop
  BY <1>4, LoopType DEF Loop, requestVars, sessionVars, history
<1>5. CASE Environment
  BY <1>5, EnvironmentType DEF Untouched, requestVars, sessionVars
<1>6. CASE UNCHANGED vars
  BY <1>6 DEF vars, requestVars, sessionVars, history
<1>7. QED
  BY <1>1, <1>2, <1>3, <1>4, <1>5, <1>6, StepKinds

(* ImplementsLampRequest: whatever handshakes, retries, losses and restarts a *)
(* request meets, it is one LampRequest, on which TapoGroup builds.            *)
THEOREM ChildImplementsLampRequest == Spec => ImplementsLampRequest
<1>1. Init => OneRequest!Init
  BY SameOutcomes DEF Init, OneRequest!Init, Outcome
<1>2. QED
  BY <1>1, InitType, NextType, StepIsRequestStep, PTL
     DEF Spec, ImplementsLampRequest, OneRequest!Spec, lampRequestVars
=============================================================================
