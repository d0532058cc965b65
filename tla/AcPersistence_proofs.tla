------------------------ MODULE AcPersistence_proofs --------------------------
(***************************************************************************)
(* Proofs about AcPersistence for every set of commands and any number of    *)
(* frames, losses of power and failed writes.                                 *)
(***************************************************************************)
EXTENDS AcPersistence, TLAPS

(* A state with its fields, of which every one-shot field is a switch.       *)
LEMMA StateFields ==
  ASSUME NEW s \in AcStates
  PROVE  /\ DOMAIN s = OneShot \cup Absolute \cup {"onTimer", "offTimer"}
         /\ \A f \in OneShot \cup {"power", "sleep"} : s[f] \in BOOLEAN
  BY DEF AcStates, OneShot, Absolute

LEMMA DefaultTyped == DefaultAc \in AcStates
  BY DEF DefaultAc, AcStates, Cool

(* A field of an A/C state set to a value of its range.                      *)
Put(s, f, x) == [s EXCEPT ![f] = x]

LEMMA SwitchTyped ==
  ASSUME NEW s \in AcStates, NEW f \in OneShot \cup {"power", "sleep"}, NEW b \in BOOLEAN
  PROVE  Put(s, f, b) \in AcStates
<1>1. CASE f = "power"
  BY <1>1 DEF Put, AcStates
<1>2. CASE f = "sleep"
  BY <1>2 DEF Put, AcStates
<1>3. CASE f = "swing"
  BY <1>3 DEF Put, AcStates
<1>4. CASE f = "turbo"
  BY <1>4 DEF Put, AcStates
<1>5. CASE f = "eco"
  BY <1>5 DEF Put, AcStates
<1>6. CASE f = "clean"
  BY <1>6 DEF Put, AcStates
<1>7. CASE f = "led"
  BY <1>7 DEF Put, AcStates
<1> QED
  BY <1>1, <1>2, <1>3, <1>4, <1>5, <1>6, <1>7 DEF OneShot

(* The ranges of the numeric fields.                                         *)
RangeOf(f) == IF f = "temperature" THEN 17..30
              ELSE IF f \in {"mode", "fan"} THEN 0..3 ELSE 0..1440

LEMMA NumberTyped ==
  ASSUME NEW s \in AcStates,
         NEW f \in {"temperature", "mode", "fan", "onTimer", "offTimer"},
         NEW x \in RangeOf(f)
  PROVE  Put(s, f, x) \in AcStates
<1> DEFINE Celsius == 17..30
           Four == 0..3
           Minutes == 0..1440
           States == [power : BOOLEAN, temperature : Celsius, mode : Four, fan : Four,
                      swing : BOOLEAN, sleep : BOOLEAN, turbo : BOOLEAN, eco : BOOLEAN,
                      clean : BOOLEAN, led : BOOLEAN, onTimer : Minutes, offTimer : Minutes]
<1>1. AcStates = States
  BY DEF AcStates
<1>2. RangeOf(f) = IF f = "temperature" THEN Celsius
                   ELSE IF f \in {"mode", "fan"} THEN Four ELSE Minutes
  BY DEF RangeOf
<1> HIDE DEF Celsius, Four, Minutes
<1>3. s \in States
  BY <1>1
<1>4. CASE f = "temperature"
  <2>1. x \in Celsius
    BY <1>2, <1>4
  <2> QED
    BY <1>1, <1>3, <1>4, <2>1 DEF Put
<1>5. CASE f \in {"mode", "fan"}
  <2>1. x \in Four
    BY <1>2, <1>5
  <2>2. CASE f = "mode"
    BY <1>1, <1>3, <2>1, <2>2 DEF Put
  <2>3. CASE f = "fan"
    BY <1>1, <1>3, <2>1, <2>3 DEF Put
  <2> QED
    BY <1>5, <2>2, <2>3
<1>6. CASE f \in {"onTimer", "offTimer"}
  <2>1. x \in Minutes
    BY <1>2, <1>6
  <2>2. CASE f = "onTimer"
    BY <1>1, <1>3, <2>1, <2>2 DEF Put
  <2>3. CASE f = "offTimer"
    BY <1>1, <1>3, <2>1, <2>3 DEF Put
  <2> QED
    BY <1>6, <2>2, <2>3
<1> QED
  BY <1>4, <1>5, <1>6

(* reduceAc() keeps every field in range, whatever the command.              *)
LEMMA ReducedTyped ==
  ASSUME NEW s \in AcStates, NEW c
  PROVE  Reduced(s, c) \in AcStates
<1>1. CASE c.kind \in DOMAIN Toggles
  <2> DEFINE f == Toggles[c.kind]
             b == ~s[f]
  <2>1. Reduced(s, c) = Put(s, f, b)
    BY <1>1 DEF Reduced, Put
  <2>2. f \in OneShot \cup {"power", "sleep"}
    BY <1>1 DEF Toggles, OneShot
  <2>3. b \in BOOLEAN
    OBVIOUS
  <2> HIDE DEF f, b
  <2> QED
    BY <2>1, <2>2, <2>3, SwitchTyped
<1>2. CASE c.kind \in DOMAIN Sets /\ InRange(c) /\ c.kind \notin DOMAIN Toggles
  <2> DEFINE v == IF c.kind = "SetPower" THEN c.value # 0 ELSE c.value
  <2>1. Reduced(s, c) = Put(s, Sets[c.kind], v)
    BY <1>2 DEF Reduced, Put
  <2>2. CASE c.kind = "SetPower"
    <3>1. Sets[c.kind] = "power" /\ v \in BOOLEAN
      BY <2>2 DEF Sets
    <3> HIDE DEF v
    <3> QED
      BY <2>1, <3>1, SwitchTyped
  <2>3. CASE c.kind # "SetPower"
    <3> DEFINE f == Sets[c.kind]
    <3>1. v = c.value
      BY <2>3
    <3>2. f \in {"temperature", "mode", "fan", "onTimer", "offTimer"}
      BY <1>2, <2>3 DEF Sets
    <3>3. v \in RangeOf(f)
      <4>1. CASE c.kind = "SetTemperature"
        BY <1>2, <3>1, <4>1 DEF Sets, InRange, RangeOf
      <4>2. CASE c.kind = "SetAcMode"
        BY <1>2, <3>1, <4>2 DEF Sets, InRange, RangeOf
      <4>3. CASE c.kind = "SetFanSpeed"
        BY <1>2, <3>1, <4>3 DEF Sets, InRange, RangeOf
      <4>4. CASE c.kind = "SetAcOnTimer"
        BY <1>2, <3>1, <4>4 DEF Sets, InRange, RangeOf
      <4>5. CASE c.kind = "SetAcOffTimer"
        BY <1>2, <3>1, <4>5 DEF Sets, InRange, RangeOf
      <4> QED
        BY <1>2, <2>3, <4>1, <4>2, <4>3, <4>4, <4>5 DEF Sets
    <3> HIDE DEF f, v
    <3> QED
      BY <2>1, <3>2, <3>3, NumberTyped DEF f
  <2> QED
    BY <2>2, <2>3
<1> QED
  BY <1>1, <1>2 DEF Reduced

(* A command turns a one-shot field over exactly if its frame carries the    *)
(* pulse.                                                                     *)
LEMMA ReducedOneShot ==
  ASSUME NEW s \in AcStates, NEW c, NEW f \in OneShot
  PROVE  Reduced(s, c)[f] = IF f \in Pulses(s, c) THEN ~s[f] ELSE s[f]
<1>1. f \in DOMAIN s
  BY StateFields
<1>2. CASE c.kind \in DOMAIN Toggles
  BY <1>1, <1>2 DEF Reduced, Pulses
<1>3. CASE c.kind \notin DOMAIN Toggles
  <2>1. f \notin Pulses(s, c)
    BY <1>3 DEF Pulses
  <2>2. c.kind \in DOMAIN Sets => Sets[c.kind] # f
    BY DEF Sets, OneShot
  <2> QED
    BY <1>1, <1>3, <2>1, <2>2 DEF Reduced
<1> QED
  BY <1>2, <1>3

LEMMA ObeyedTyped ==
  ASSUME NEW u \in AcStates, NEW s \in AcStates, NEW p \in SUBSET OneShot
  PROVE  Obeyed(u, s, p) \in AcStates
<1> DEFINE o == Obeyed(u, s, p)
           pulse(f) == IF f \in p THEN ~u[f] ELSE u[f]
<1>1. o = [power |-> s.power, temperature |-> s.temperature, mode |-> s.mode,
           fan |-> s.fan, swing |-> pulse("swing"), sleep |-> s.sleep,
           turbo |-> pulse("turbo"), eco |-> pulse("eco"), clean |-> pulse("clean"),
           led |-> pulse("led"), onTimer |-> pulse("onTimer"), offTimer |-> pulse("offTimer")]
  BY SMTT(30) DEF Obeyed, AcStates, Absolute
<1>2. /\ \A f \in OneShot : pulse(f) \in BOOLEAN
      /\ "onTimer" \notin p /\ "offTimer" \notin p
  BY StateFields DEF OneShot
<1> HIDE DEF pulse
<1> QED
  BY <1>1, <1>2 DEF AcStates, OneShot, pulse

-----------------------------------------------------------------------------
(* The fields the unit has right. *)

LEMMA ToggledDiffering ==
  ASSUME NEW u \in AcStates, NEW s \in AcStates, NEW t \in AcStates
  PROVE  Toggled(Differing(u, s), Differing(s, t)) = Differing(u, t)
<1>1. \A f \in OneShot : u[f] \in BOOLEAN /\ s[f] \in BOOLEAN /\ t[f] \in BOOLEAN
  BY StateFields
<1> QED
  BY <1>1 DEF Toggled, Differing

LEMMA PulsesAreOneShot ==
  ASSUME NEW s, NEW c
  PROVE  Pulses(s, c) \in SUBSET OneShot
  BY DEF Pulses

(* A frame received turns the same one-shot fields over in the unit as here, *)
(* and brings every other field up to date.                                   *)
LEMMA ObeyedMatches ==
  ASSUME NEW u \in AcStates, NEW s \in AcStates, NEW c
  PROVE  LET t == Reduced(s, c)
             o == Obeyed(u, t, Pulses(s, c))
         IN  Differing(o, t) = Differing(u, s) /\ \A f \in Absolute : o[f] = t[f]
<1> DEFINE t == Reduced(s, c)
           o == Obeyed(u, t, Pulses(s, c))
<1>1. OneShot \cup Absolute \subseteq DOMAIN u
  BY StateFields
<1>2. \A f \in Absolute : o[f] = t[f]
  BY <1>1 DEF Obeyed
<1>3. ASSUME NEW f \in OneShot PROVE o[f] # t[f] <=> u[f] # s[f]
  <2>1. f \notin Absolute
    BY DEF OneShot, Absolute
  <2>2. o[f] = IF f \in Pulses(s, c) THEN ~u[f] ELSE u[f]
    BY <1>1, <2>1 DEF Obeyed
  <2>3. t[f] = IF f \in Pulses(s, c) THEN ~s[f] ELSE s[f]
    BY ReducedOneShot
  <2>4. u[f] \in BOOLEAN /\ s[f] \in BOOLEAN
    BY StateFields
  <2> QED
    BY <2>2, <2>3, <2>4
<1> QED
  BY <1>2, <1>3 DEF Differing

-----------------------------------------------------------------------------
(* The inductive invariant. *)

(* Every frame counted as sent leads to at most one revision.                *)
FramesAhead == IF ir = "publish" THEN revision < sends ELSE revision <= sends

(* After power was lost nothing of the boot before is left in RAM.           *)
OffIsBlank == ir = "off" => revision = 0 /\ persisted = 0 /\ loop = "copy" /\ local = 0

(* The published state is the one of the latest revision, and the task's     *)
(* copy the one of its copied revision.                                       *)
SentIsKnown ==
  ir # "off" =>
    /\ DOMAIN sent = 0..revision
    /\ sharedAc = sent[revision]
    /\ ir # "publish" => state = sharedAc
    /\ local <= revision /\ persisted <= local
    /\ loop = "save" => toPersist = sent[local]

(* The two parts of UnitMatchesAssumption, which hold while power is off too. *)
Drifted == drifted = Differing(unit, state)
Heard == heard => \A f \in Absolute : unit[f] = state[f]

IInv ==
  /\ TypeOK /\ FramesAhead /\ OffIsBlank /\ SentIsKnown /\ PersistedIsStored
  /\ Drifted /\ Heard

LEMMA TypeInit == Init => TypeOK
<1> SUFFICES ASSUME Init PROVE TypeOK
  OBVIOUS
<1>1. DOMAIN sent = 0..0 /\ \A r \in DOMAIN sent : sent[r] \in AcStates
  BY DefaultTyped DEF Init
<1>2. DOMAIN sent \in {0..n : n \in 0..MaxSends}
  BY <1>1, AcAssumption
<1>3. {state, sharedAc, toPersist, unit} \subseteq AcStates
  BY DefaultTyped DEF Init
<1>4. /\ ir = "off" /\ loop = "copy" /\ nvs = NoState /\ heard = FALSE /\ due = FALSE
      /\ drifted = {}
      /\ revision = 0 /\ local = 0 /\ persisted = 0 /\ saveDue = 0 /\ sends = 0 /\ boots = 0
  BY DEF Init
<1>5. 0 \in 0..MaxSends /\ 0 \in 0..MaxBoots /\ 0 \in 0..Debounce
  BY AcAssumption
<1> QED
  BY <1>1, <1>2, <1>3, <1>4, <1>5 DEF TypeOK

LEMMA TypeNext == TypeOK /\ FramesAhead /\ OffIsBlank /\ SentIsKnown /\ [Next]_vars => TypeOK'
<1> SUFFICES ASSUME TypeOK, FramesAhead, OffIsBlank, SentIsKnown, [Next]_vars PROVE TypeOK'
  OBVIOUS
<1> USE AcAssumption
<1>1. ASSUME Boot PROVE TypeOK'
  <2>1. state' \in AcStates
    BY <1>1, DefaultTyped DEF Boot, TypeOK
  <2>2. DOMAIN sent' = 0..0 /\ sent'[0] \in AcStates
    BY <1>1, <2>1 DEF Boot
  <2>3. drifted' \subseteq OneShot
    BY <1>1 DEF Boot, TypeOK, Toggled, Differing
  <2>4. DOMAIN sent' \in {0..n : n \in 0..MaxSends}
    BY <2>2
  <2>5. \A r \in DOMAIN sent' : sent'[r] \in AcStates
    BY <2>2
  <2>6. UNCHANGED <<revision, saveDue, loop, toPersist, local, due, persisted, nvs,
                    sends, boots, unit>> /\ ir' = "idle" /\ sharedAc' = state' /\ heard' = FALSE
    BY <1>1 DEF Boot, netVars, counters
  <2> QED
    BY <2>1, <2>3, <2>4, <2>5, <2>6 DEF TypeOK
<1>2. ASSUME NEW c \in Command, NEW received \in BOOLEAN, Send(c, received) PROVE TypeOK'
  <2>1. state' \in AcStates
    BY <1>2, ReducedTyped DEF Send, TypeOK
  <2>2. unit' \in AcStates
    BY <1>2, <2>1, ObeyedTyped, PulsesAreOneShot DEF Send, TypeOK
  <2>3. drifted' \subseteq OneShot
    BY <1>2 DEF Send, TypeOK, Toggled, Differing
  <2>4. sends' \in 0..MaxSends
    BY <1>2 DEF Send, TypeOK
  <2> QED
    BY <1>2, <2>1, <2>2, <2>3, <2>4 DEF Send, TypeOK, sharedVars, netVars
<1>3. ASSUME NEW c \in Command, Refuse(c) PROVE TypeOK'
  BY <1>3 DEF Refuse, TypeOK, sharedVars, netVars, unitVars
<1>4. ASSUME PublishSame PROVE TypeOK'
  BY <1>4 DEF PublishSame, TypeOK, netVars, counters, unitVars
<1>5. ASSUME PublishState PROVE TypeOK'
  <2>1. revision' \in 0..MaxSends
    BY <1>5 DEF PublishState, TypeOK, FramesAhead
  <2>2. DOMAIN sent' = 0..revision' /\ \A r \in DOMAIN sent' : sent'[r] \in AcStates
    BY <1>5 DEF PublishState, TypeOK, SentIsKnown
  <2> QED
    BY <1>5, <2>1, <2>2 DEF PublishState, TypeOK, netVars, counters, unitVars
<1>6. ASSUME Copy PROVE TypeOK'
  BY <1>6 DEF Copy, TypeOK, irVars, sharedVars, counters, unitVars
<1>7. ASSUME SkipSave \/ Save \/ SaveFails PROVE TypeOK'
  BY <1>7 DEF SkipSave, Save, SaveFails, NeedsSave, Elapse, TypeOK, irVars, counters, unitVars
<1>8. ASSUME PowerLost PROVE TypeOK'
  <2>1. boots' \in 0..MaxBoots
    BY <1>8 DEF PowerLost, TypeOK
  <2>2. 0 \in 0..MaxSends /\ 0 \in 0..Debounce
    OBVIOUS
  <2> QED
    BY <1>8, <2>1, <2>2 DEF PowerLost, TypeOK, unitVars
<1>9. ASSUME UNCHANGED vars PROVE TypeOK'
  BY <1>9 DEF vars, irVars, sharedVars, netVars, counters, unitVars, TypeOK
<1> QED
  BY <1>1, <1>2, <1>3, <1>4, <1>5, <1>6, <1>7, <1>8, <1>9 DEF Next, IrTask, NetworkTask

LEMMA FramesNext == TypeOK /\ FramesAhead /\ [Next]_vars => FramesAhead'
  BY AcAssumption
     DEF TypeOK, FramesAhead, Next, IrTask, NetworkTask, Boot, Send, Refuse, PublishSame,
         PublishState, Copy, SkipSave, Save, SaveFails, PowerLost, vars, irVars, sharedVars,
         netVars, counters, unitVars

LEMMA OffNext == TypeOK /\ OffIsBlank /\ [Next]_vars => OffIsBlank'
  BY AcAssumption
     DEF TypeOK, OffIsBlank, Next, IrTask, NetworkTask, NeedsSave, Boot, Send, Refuse,
         PublishSame, PublishState, Copy, SkipSave, Save, SaveFails, PowerLost, vars, irVars,
         sharedVars, netVars, counters, unitVars

LEMMA SentNext ==
  TypeOK /\ OffIsBlank /\ SentIsKnown /\ PersistedIsStored /\ [Next]_vars
    => SentIsKnown' /\ PersistedIsStored'
<1> SUFFICES ASSUME TypeOK, OffIsBlank, SentIsKnown, PersistedIsStored, [Next]_vars
             PROVE  SentIsKnown' /\ PersistedIsStored'
  OBVIOUS
<1> USE DEF SentIsKnown, PersistedIsStored
<1>1. ASSUME Boot PROVE SentIsKnown' /\ PersistedIsStored'
  <2>1. DOMAIN sent' = 0..0 /\ sent'[0] = state'
    BY <1>1 DEF Boot
  <2> QED
    BY <1>1, <2>1 DEF Boot, OffIsBlank, netVars
<1>2. ASSUME NEW c \in Command, NEW received \in BOOLEAN, Send(c, received)
      PROVE  SentIsKnown' /\ PersistedIsStored'
  BY <1>2 DEF Send, sharedVars, netVars
<1>3. ASSUME NEW c \in Command, Refuse(c) PROVE SentIsKnown' /\ PersistedIsStored'
  BY <1>3 DEF Refuse, sharedVars, netVars
<1>4. ASSUME PublishSame PROVE SentIsKnown' /\ PersistedIsStored'
  BY <1>4 DEF PublishSame, netVars
<1>5. ASSUME PublishState PROVE SentIsKnown' /\ PersistedIsStored'
  <2>1. revision \in Nat /\ local \in Nat /\ persisted \in Nat /\ revision' = revision + 1
    BY <1>5 DEF PublishState, TypeOK
  <2>2. DOMAIN sent' = 0..revision' /\ sent'[revision'] = state
    BY <1>5, <2>1 DEF PublishState
  <2>3. \A r \in 0..revision : sent'[r] = sent[r]
    BY <1>5, <2>1 DEF PublishState
  <2> QED
    BY <1>5, <2>1, <2>2, <2>3 DEF PublishState, netVars
<1>6. ASSUME Copy PROVE SentIsKnown' /\ PersistedIsStored'
  BY <1>6 DEF Copy, irVars, sharedVars, TypeOK
<1>7. ASSUME SkipSave \/ SaveFails PROVE SentIsKnown' /\ PersistedIsStored'
  BY <1>7 DEF SkipSave, SaveFails, NeedsSave, irVars
<1>8. ASSUME Save PROVE SentIsKnown' /\ PersistedIsStored'
  BY <1>8 DEF Save, NeedsSave, irVars, TypeOK
<1>9. ASSUME PowerLost PROVE SentIsKnown' /\ PersistedIsStored'
  BY <1>9 DEF PowerLost
<1>10. ASSUME UNCHANGED vars PROVE SentIsKnown' /\ PersistedIsStored'
  BY <1>10 DEF vars, irVars, sharedVars, netVars
<1> QED
  BY <1>1, <1>2, <1>3, <1>4, <1>5, <1>6, <1>7, <1>8, <1>9, <1>10
     DEF Next, IrTask, NetworkTask

LEMMA UnitNext == TypeOK /\ TypeOK' /\ Drifted /\ Heard /\ [Next]_vars => Drifted' /\ Heard'
<1> SUFFICES ASSUME TypeOK, TypeOK', Drifted, Heard, [Next]_vars PROVE Drifted' /\ Heard'
  OBVIOUS
<1>1. ASSUME Boot PROVE Drifted' /\ Heard'
  BY <1>1, ToggledDiffering DEF Boot, Drifted, Heard, TypeOK
<1>2. ASSUME NEW c \in Command, NEW received \in BOOLEAN, Send(c, received)
      PROVE  Drifted' /\ Heard'
  <2>1. CASE received
    <3>1. unit' = Obeyed(unit, Reduced(state, c), Pulses(state, c))
          /\ state' = Reduced(state, c) /\ drifted' = drifted
      BY <1>2, <2>1 DEF Send
    <3>2. Differing(unit', state') = Differing(unit, state)
          /\ \A f \in Absolute : unit'[f] = state'[f]
      BY <3>1, ObeyedMatches, SMTT(30) DEF TypeOK
    <3> QED
      BY <3>1, <3>2 DEF Drifted, Heard
  <2>2. CASE ~received
    BY <1>2, <2>2, ToggledDiffering DEF Send, Drifted, Heard, TypeOK
  <2> QED
    BY <2>1, <2>2
<1>3. ASSUME UNCHANGED <<state, unitVars>> PROVE Drifted' /\ Heard'
  BY <1>3 DEF Drifted, Heard, unitVars
<1>4. ASSUME NEW c \in Command, Refuse(c) PROVE Drifted' /\ Heard'
  BY <1>3, <1>4 DEF Refuse
<1>5. ASSUME PublishSame \/ PublishState \/ NetworkTask \/ PowerLost \/ UNCHANGED vars
      PROVE  Drifted' /\ Heard'
  BY <1>3, <1>5 DEF PublishSame, PublishState, NetworkTask, Copy, SkipSave, Save, SaveFails,
                    PowerLost, vars, irVars
<1> QED
  BY <1>1, <1>2, <1>4, <1>5 DEF Next, IrTask

LEMMA IInvInit == Init => IInv
<1> SUFFICES ASSUME Init PROVE IInv
  OBVIOUS
<1>1. TypeOK
  BY TypeInit
<1> QED
  BY <1>1 DEF Init, IInv, FramesAhead, OffIsBlank, SentIsKnown, PersistedIsStored, Drifted,
              Differing, Heard

LEMMA IInvNext == IInv /\ [Next]_vars => IInv'
  BY TypeNext, FramesNext, OffNext, SentNext, UnitNext DEF IInv

-----------------------------------------------------------------------------
(* The theorems. *)

(* Whatever is commanded, every state sent, published or stored has its      *)
(* fields in range, so that loadAcState() takes back what was stored          *)
(* (StateReducer.h:7, ConfigStore.cpp:124).                                   *)
THEOREM AcTypeCorrect == Spec => []TypeOK
<1>1. IInv => TypeOK
  BY DEF IInv
<1> QED
  BY <1>1, IInvInit, IInvNext, PTL DEF Spec

(* The revision marked as saved is the one in NVS, with sends, saves, failed *)
(* writes and power losses in any order (main.cpp:845-854, 900-910).          *)
THEOREM PersistedAlwaysStored == Spec => []PersistedIsStored
<1>1. IInv => PersistedIsStored
  BY DEF IInv
<1> QED
  BY <1>1, IInvInit, IInvNext, PTL DEF Spec

(* The unit differs from the assumed state by the one-shot transitions it    *)
(* missed an odd number of times, and by nothing else once it has received a  *)
(* frame (IrAdapter.cpp:39-64).                                               *)
THEOREM UnitAlwaysMatches == Spec => []UnitMatchesAssumption
<1>1. IInv => UnitMatchesAssumption
  BY DEF IInv, Drifted, Heard, UnitMatchesAssumption
<1> QED
  BY <1>1, IInvInit, IInvNext, PTL DEF Spec

(* A save never puts an older state in the place of a newer one.             *)
THEOREM StoredAlwaysMovesForward == Spec => StoredMovesForward
<1>1. IInv /\ [Next]_vars => [nvs' # nvs => local > persisted /\ nvs' = sent[local]]_vars
  <2> SUFFICES ASSUME IInv, [Next]_vars, nvs' # nvs
               PROVE  local > persisted /\ nvs' = sent[local]
    OBVIOUS
  <2>1. Save
    BY DEF Next, IrTask, NetworkTask, Boot, Send, Refuse, PublishSame, PublishState, Copy,
           SkipSave, SaveFails, PowerLost, vars
  <2>2. ir # "off"
    BY <2>1 DEF IInv, OffIsBlank, Save, NeedsSave
  <2> QED
    BY <2>1, <2>2 DEF IInv, SentIsKnown, Save, NeedsSave, TypeOK
<1> QED
  BY <1>1, IInvInit, IInvNext, PTL DEF Spec, StoredMovesForward
=============================================================================
