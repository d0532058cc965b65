---------------------------- MODULE AcPersistence ----------------------------
(***************************************************************************)
(* The last sent A/C state: irTask() of firmware/src/main.cpp reduces every  *)
(* command to a state, sends its frame and publishes it, networkTask() writes *)
(* it to NVS five seconds after the last change, and the next boot restores   *)
(* it.                                                                        *)
(*                                                                         *)
(* The unit never answers, and any frame may be lost.  Power may be lost at   *)
(* any moment.  Each NVS write is atomic and may fail.                        *)
(***************************************************************************)
EXTENDS AcState

CONSTANTS
  Command,       \* the commands taken from the dispatcher: [kind, value]
  NoState,
  MaxSends,      \* bound: frames sent in all
  MaxBoots,      \* bound: times power is lost
  Debounce       \* loops of the network task in 5 s

ASSUME AcAssumption ==
  /\ NoState \notin AcStates
  /\ MaxSends \in Nat /\ MaxBoots \in Nat /\ Debounce \in Nat \ {0}

VARIABLES
  ir,         \* where irTask() is: "off", "idle", "publish" or, after a refusal, "same"
  state,      \* state_ of irAdapter: the last sent state
  sharedAc,
  revision,   \* acStateRevision
  saveDue,    \* acSaveDueMs, as loops left
  loop,       \* where networkTask() is: "copy" or "save"
  toPersist,  \* its local copy of sharedAc
  local,      \* its local copy of acStateRevision
  due,        \* whether its local copy of acSaveDueMs is past
  persisted,  \* persistedAcRevision
  nvs,        \* NVS key ac_state
  sends,      \* frames sent
  boots,      \* times power was lost
  sent,       \* history: the states published since boot, one per revision
  unit,       \* the state of the unit itself
  heard,      \* history: the unit received the latest frame
  drifted     \* history: one-shot fields with an odd number of transitions the unit missed

irVars == <<ir, state>>
sharedVars == <<sharedAc, revision, saveDue>>
netVars == <<loop, toPersist, local, due, persisted>>
counters == <<sends, boots>>
unitVars == <<unit, heard, drifted>>
vars == <<irVars, sharedVars, netVars, nvs, counters, sent, unitVars>>

-----------------------------------------------------------------------------
(* setup() restores the state, irTask() publishes it and starts to listen.   *)
(* Nothing is sent: what was sent after the last save is forgotten here only. *)
Differing(s, t) == {f \in OneShot : s[f] # t[f]}
Toggled(A, B) == (A \cup B) \ (A \cap B)

Boot ==
  /\ ir = "off" /\ ir' = "idle"
  /\ state' = IF nvs = NoState THEN DefaultAc ELSE nvs
  /\ sharedAc' = state'
  /\ sent' = [r \in {0} |-> state']
  /\ heard' = FALSE
  /\ drifted' = Toggled(drifted, Differing(state, state'))
  /\ UNCHANGED <<revision, saveDue, netVars, nvs, counters, unit>>

(* execute(): reduceAc() and the infrared frame.                             *)
Send(c, received) ==
  /\ ir = "idle" /\ ir' = "publish"
  /\ ~Refused(c)
  /\ sends < MaxSends /\ sends' = sends + 1
  /\ state' = Reduced(state, c)
  /\ heard' = received
  /\ IF received
     THEN unit' = Obeyed(unit, state', Pulses(state, c)) /\ UNCHANGED drifted
     ELSE drifted' = Toggled(drifted, Differing(state, state')) /\ UNCHANGED unit
  /\ UNCHANGED <<sharedVars, netVars, nvs, boots, sent>>

(* Refused before anything is sent; the state is published all the same.     *)
Refuse(c) ==
  /\ ir = "idle" /\ ir' = "same"
  /\ Refused(c)
  /\ sends < MaxSends /\ sends' = sends + 1
  /\ UNCHANGED <<state, sharedVars, netVars, nvs, boots, sent, unitVars>>

PublishSame ==
  /\ ir = "same" /\ ir' = "idle"
  /\ sharedAc' = state
  /\ UNCHANGED <<state, revision, saveDue, netVars, nvs, counters, sent, unitVars>>

(* The state, its revision and the due time, all under stateMutex.           *)
PublishState_SameRevision ==
  /\ ir = "publish" /\ ir' = "idle"
  /\ sharedAc' = state
  /\ revision' = IF revision = 0 THEN 1 ELSE revision
  /\ saveDue' = Debounce
  /\ sent' = [r \in DOMAIN sent \cup {revision'} |-> IF r = revision' THEN state ELSE sent[r]]
  /\ UNCHANGED <<state, netVars, nvs, counters, unitVars>>

PublishState ==
  /\ ir = "publish" /\ ir' = "idle"
  /\ sharedAc' = state
  /\ revision' = revision + 1
  /\ saveDue' = Debounce
  /\ sent' = [r \in DOMAIN sent \cup {revision'} |-> IF r = revision' THEN state ELSE sent[r]]
  /\ UNCHANGED <<state, netVars, nvs, counters, unitVars>>

-----------------------------------------------------------------------------
(* networkTask(): copy under stateMutex, then save without it.               *)

Copy ==
  /\ ir # "off"
  /\ loop = "copy" /\ loop' = "save"
  /\ toPersist' = sharedAc /\ local' = revision /\ due' = (saveDue = 0)
  /\ UNCHANGED <<irVars, sharedVars, persisted, nvs, counters, sent, unitVars>>

NeedsSave == loop = "save" /\ local # persisted /\ due
Elapse == saveDue' = IF saveDue = 0 THEN 0 ELSE saveDue - 1

SkipSave ==
  /\ loop = "save" /\ ~NeedsSave
  /\ loop' = "copy"
  /\ Elapse
  /\ UNCHANGED <<irVars, sharedAc, revision, toPersist, local, due, persisted,
                 nvs, counters, sent, unitVars>>

Save_MarksNewest ==
  /\ NeedsSave
  /\ nvs' = toPersist
  /\ persisted' = revision
  /\ loop' = "copy"
  /\ Elapse
  /\ UNCHANGED <<irVars, sharedAc, revision, toPersist, local, due, counters, sent,
                 unitVars>>

(* What was written is what is marked, whatever was sent meanwhile.          *)
Save ==
  /\ NeedsSave
  /\ nvs' = toPersist
  /\ persisted' = local
  /\ loop' = "copy"
  /\ Elapse
  /\ UNCHANGED <<irVars, sharedAc, revision, toPersist, local, due, counters, sent,
                 unitVars>>

(* saveAcState() returned false: the next loop tries again.                  *)
SaveFails ==
  /\ NeedsSave
  /\ loop' = "copy"
  /\ Elapse
  /\ UNCHANGED <<irVars, sharedAc, revision, toPersist, local, due, persisted,
                 nvs, counters, sent, unitVars>>

PowerLost ==
  /\ ir # "off" /\ ir' = "off"
  /\ boots < MaxBoots /\ boots' = boots + 1
  /\ revision' = 0 /\ persisted' = 0 /\ saveDue' = 0
  /\ loop' = "copy" /\ local' = 0 /\ due' = FALSE
  /\ UNCHANGED <<state, sharedAc, toPersist, nvs, sends, sent, unitVars>>

Init ==
  /\ ir = "off" /\ state = DefaultAc /\ sharedAc = DefaultAc
  /\ revision = 0 /\ saveDue = 0
  /\ loop = "copy" /\ toPersist = DefaultAc /\ local = 0 /\ due = FALSE
  /\ persisted = 0
  /\ nvs = NoState
  /\ sends = 0 /\ boots = 0
  /\ sent = [r \in {0} |-> DefaultAc]
  /\ unit = DefaultAc /\ heard = FALSE /\ drifted = {}

IrTask ==
  \/ \E c \in Command, received \in BOOLEAN : Send(c, received)
  \/ \E c \in Command : Refuse(c)
  \/ PublishState \/ PublishSame
NetworkTask == Copy \/ SkipSave \/ Save \/ SaveFails
Next == Boot \/ IrTask \/ NetworkTask \/ PowerLost

(* Both tasks run for ever; NVS does not refuse every write from some point. *)
Spec ==
  /\ Init /\ [][Next]_vars
  /\ WF_vars(Boot) /\ WF_vars(PublishState \/ PublishSame) /\ WF_vars(NetworkTask) /\ SF_vars(Save)

-----------------------------------------------------------------------------
(* Values in range: whatever is commanded, loadAcState() would accept every  *)
(* state that is sent or stored.                                              *)
TypeOK ==
  /\ ir \in {"off", "idle", "publish", "same"}
  /\ state \in AcStates /\ sharedAc \in AcStates /\ toPersist \in AcStates /\ unit \in AcStates
  /\ loop \in {"copy", "save"}
  /\ revision \in 0..MaxSends /\ local \in 0..MaxSends /\ persisted \in 0..MaxSends
  /\ saveDue \in 0..Debounce /\ due \in BOOLEAN
  /\ nvs = NoState \/ nvs \in AcStates
  /\ sends \in 0..MaxSends /\ boots \in 0..MaxBoots
  /\ DOMAIN sent \in {0..n : n \in 0..MaxSends}
  /\ \A r \in DOMAIN sent : sent[r] \in AcStates
  /\ heard \in BOOLEAN /\ drifted \subseteq OneShot

(* The revision marked as persisted is the one NVS holds: a state sent while *)
(* the older one is written is never taken for saved.                        *)
PersistedIsStored ==
  ir # "off" /\ persisted > 0 => nvs = sent[persisted]

(* The state restored is one that was sent, the newest one saved: power lost *)
(* takes back nothing that had been stored.                                  *)
StoredMovesForward ==
  [][nvs' # nvs => local > persisted /\ nvs' = sent[local]]_vars

(* "RG57A Swing, Turbo, Eco, Clean, and LED transitions always emit one-shot *)
(* frames" (CHANGELOG.md:40): a one-shot field of the unit differs from the   *)
(* assumed one exactly if the unit missed an odd number of its transitions,   *)
(* by a lost frame or by a power loss that took back an unsaved one; every    *)
(* other field is right again with the next frame received.                   *)
UnitMatchesAssumption ==
  ir # "off" =>
    /\ drifted = Differing(unit, state)
    /\ heard => \A f \in Absolute : unit[f] = state[f]

(* "The last-sent A/C state is restored after reboot" (firmware/README.md:75):*)
(* once nothing more is sent, the last state reaches NVS, unless power is     *)
(* lost before.                                                               *)
LastStateIsSaved == <>[](ir # "off" => nvs = state \/ revision = 0)
=============================================================================
