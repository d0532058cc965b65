------------------------- MODULE RapidPresses_proofs --------------------------
(***************************************************************************)
(* Proofs about RapidPresses for every setting, every state the device may   *)
(* show to begin with and any number of presses.                              *)
(***************************************************************************)
EXTENDS RapidPresses, TLAPS

(* The fields of a setting. *)
Fields(s) == 1..Arity(s)

-----------------------------------------------------------------------------
(* What a key asks for. *)

LEMMA KeyTyped ==
  ASSUME NEW s \in Settings, NEW k \in Keys(s)
  PROVE  /\ k.by \in {-1, 1} /\ k.field \in {1, 2} /\ k.quick \in BOOLEAN
         /\ s # "Hsv" => k.field = 1
         /\ k.quick => s \in {"Temperature", "FanSpeed", "Angles", "Brightness", "ColorTemperature"}
  BY DEF Keys

LEMMA FieldOne ==
  ASSUME NEW s \in Settings
  PROVE  1 \in Fields(s) /\ Fields(s) \subseteq 1..3
  BY DEF Fields, Arity

LEMMA CycleTyped ==
  ASSUME NEW x \in Int, NEW by \in {-1, 1}
  PROVE  CycleTimer(x, by) \in {0, 30, 60, 120}
<1> DEFINE index == IF \E i \in 1..4 : TimerSteps[i] = x
                    THEN CHOOSE i \in 1..4 : TimerSteps[i] = x ELSE 1
           next == ((index - 1 + by + 4) % 4) + 1
<1>1. index \in 1..4
  OBVIOUS
<1> HIDE DEF index
<1>2. next \in 1..4
  BY <1>1
<1> HIDE DEF next
<1>3. TimerSteps[next] \in {0, 30, 60, 120}
  BY <1>2 DEF TimerSteps
<1> QED
  BY <1>3 DEF CycleTimer, index, next

LEMMA StepTyped ==
  ASSUME NEW s \in Settings, NEW k \in Keys(s), NEW f \in Fields(s), NEW x \in Int
  PROVE  Step(s, k, f, x) \in Int
<1>1. /\ k.by \in {-1, 1} /\ k.field \in {1, 2} /\ k.quick \in BOOLEAN
  BY KeyTyped
<1>2. CASE s \in {"AcTimer", "SleepTimer"}
  BY <1>1, <1>2, CycleTyped DEF Step
<1>3. CASE s \in {"AcSwitch", "FanSwitch", "LightPower"}
  BY <1>3 DEF Step, Switched
<1>4. CASE s \in {"Temperature", "FanSpeed", "Brightness"}
  BY <1>1, <1>4 DEF Step, Moved, Bounds
<1>5. CASE s \in {"AcMode", "AcFan", "Angles", "Effect", "Preset"}
  BY <1>1, <1>5 DEF Step
<1>6. CASE s = "ColorTemperature"
  BY <1>1, <1>6 DEF Step, Kelvin
<1>7. CASE s = "Hsv"
  BY <1>1, <1>7 DEF Step
<1> QED
  BY <1>2, <1>3, <1>4, <1>5, <1>6, <1>7
     DEF Settings, AcSettings, FanSettings, LightSettings

LEMMA BoundsTyped ==
  ASSUME NEW s \in DOMAIN Bounds
  PROVE  Bounds[s][1] \in Int /\ Bounds[s][2] \in Int /\ Bounds[s][1] <= Bounds[s][2]
  BY DEF Bounds

LEMMA ConstrainBounds ==
  ASSUME NEW x \in Int, NEW b, b[1] \in Int, b[2] \in Int, b[1] <= b[2]
  PROVE  Constrain(x, b) \in b[1]..b[2]
  BY DEF Constrain

LEMMA TargetTyped ==
  ASSUME NEW s \in Settings, NEW k \in Keys(s), NEW v \in Values(s)
  PROVE  Target(s, k, v) \in Values(s)
<1>1. ASSUME NEW f \in Fields(s) PROVE Step(s, k, f, v[f]) \in Int
  BY StepTyped DEF Values, Fields
<1>2. ASSUME NEW f \in Fields(s), Constrained(s, k, f)
      PROVE  Constrain(Step(s, k, f, v[f]), Bounds[s]) \in Int
  BY <1>1, <1>2, BoundsTyped DEF Constrain, Constrained
<1> QED
  BY <1>1, <1>2 DEF Target, Values, Fields

(* A key takes a setting from what is in its reach to what may be asked for.  *)
LEMMA TargetTaken ==
  ASSUME NEW s \in Settings \ {"Preset", "Angles"}, NEW k \in Keys(s),
         NEW v \in Values(s), Reachable(s, v)
  PROVE  Takes(s, Target(s, k, v))
<1>1. /\ k.by \in {-1, 1} /\ k.field \in {1, 2} /\ k.quick \in BOOLEAN
      /\ s # "Hsv" => k.field = 1
      /\ k.quick => s \in {"Temperature", "FanSpeed", "Angles", "Brightness", "ColorTemperature"}
  BY KeyTyped
<1>2. ASSUME NEW f \in Fields(s) PROVE v[f] \in Int
  BY <1>2 DEF Values, Fields
<1>3. v[1] \in Int
  BY <1>2, FieldOne
<1>4. Target(s, k, v)[1] = IF Constrained(s, k, 1) THEN Constrain(Step(s, k, 1, v[1]), Bounds[s])
                           ELSE Step(s, k, 1, v[1])
  BY FieldOne DEF Target, Values, Fields
<1>5. CASE s \in {"AcSwitch", "FanSwitch", "LightPower", "Brightness"}
  <2>1. CASE s = "AcSwitch"
    BY <2>1 DEF Takes, AcTakes, FanTakes, LampTakes
  <2>2. CASE s = "FanSwitch"
    BY <2>2 DEF Takes, AcTakes, FanTakes, LampTakes
  <2>3. CASE s = "LightPower"
    BY <2>3 DEF Takes, AcTakes, FanTakes, LampTakes
  <2>4. CASE s = "Brightness"
    BY <2>4 DEF Takes, AcTakes, FanTakes, LampTakes
  <2> QED
    BY <1>5, <2>1, <2>2, <2>3, <2>4
<1>6. CASE s = "Temperature"
  <2>1. v[1] \in 17..30
    BY <1>6 DEF Reachable, AcSettings, Takes, AcTakes, FanTakes, LampTakes
  <2>2. Constrained(s, k, 1) <=> ~k.quick
    BY <1>1, <1>6 DEF Constrained, Bounds
  <2>3. Bounds[s][1] = 17 /\ Bounds[s][2] = 30
    BY <1>6 DEF Bounds
  <2>4. Step(s, k, 1, v[1]) = Moved(s, k, 1, v[1])
    BY <1>6 DEF Step
  <2>5. Target(s, k, v)[1] \in 17..30
    BY <1>1, <1>4, <2>1, <2>2, <2>3, <2>4 DEF Moved, Constrain
  <2> QED
    BY <1>6, <2>5 DEF Takes, AcTakes, FanTakes, LampTakes
<1>7. CASE s = "FanSpeed"
  <2>1. v[1] \in 0..10
    BY <1>7 DEF Reachable, Takes, AcTakes, FanTakes, LampTakes
  <2>2. Constrained(s, k, 1) <=> ~k.quick
    BY <1>1, <1>7 DEF Constrained, Bounds
  <2>3. Bounds[s][1] = 1 /\ Bounds[s][2] = 10
    BY <1>7 DEF Bounds
  <2>4. Step(s, k, 1, v[1]) = Moved(s, k, 1, v[1])
    BY <1>7 DEF Step
  <2>5. Target(s, k, v)[1] \in 1..10
    BY <1>1, <1>4, <2>1, <2>2, <2>3, <2>4 DEF Moved, Constrain
  <2> QED
    BY <1>7, <2>5 DEF Takes, AcTakes, FanTakes, LampTakes
<1>8. CASE s \in {"AcMode", "AcFan", "Effect"}
  <2>1. ~Constrained(s, k, 1)
    BY <1>8 DEF Constrained, Bounds
  <2>2. Step(s, k, 1, v[1]) \in IF s = "Effect" THEN 0..2 ELSE 0..3
    BY <1>1, <1>3, <1>8 DEF Step
  <2>3. CASE s = "AcMode"
    BY <1>4, <2>1, <2>2, <2>3 DEF Takes, AcTakes, FanTakes, LampTakes
  <2>4. CASE s = "AcFan"
    BY <1>4, <2>1, <2>2, <2>4 DEF Takes, AcTakes, FanTakes, LampTakes
  <2>5. CASE s = "Effect"
    BY <1>4, <2>1, <2>2, <2>5 DEF Takes, AcTakes, FanTakes, LampTakes
  <2> QED
    BY <1>8, <2>3, <2>4, <2>5
<1>9. CASE s \in {"AcTimer", "SleepTimer"}
  <2>1. ~Constrained(s, k, 1)
    BY <1>9 DEF Constrained, Bounds
  <2>2. Step(s, k, 1, v[1]) \in {0, 30, 60, 120}
    BY <1>1, <1>3, <1>9, CycleTyped DEF Step
  <2>3. CASE s = "AcTimer"
    BY <1>4, <2>1, <2>2, <2>3 DEF Takes, AcTakes, FanTakes, LampTakes
  <2>4. CASE s = "SleepTimer"
    BY <1>4, <2>1, <2>2, <2>4 DEF Takes, AcTakes, FanTakes, LampTakes
  <2> QED
    BY <1>9, <2>3, <2>4
<1>10. CASE s = "ColorTemperature"
  <2>1. Constrained(s, k, 1) <=> ~k.quick
    BY <1>1, <1>10 DEF Constrained, Bounds
  <2>2. Bounds[s] = <<2500, 6500>>
    BY <1>10 DEF Bounds
  <2>3. Step(s, k, 1, v[1]) = Kelvin(k, v[1])
    BY <1>10 DEF Step
  <2> DEFINE t == Target(s, k, v)[1]
             y == Kelvin(k, v[1])
  <2>4. t = IF ~k.quick THEN Constrain(y, <<2500, 6500>>) ELSE y
    BY <1>4, <2>1, <2>2, <2>3
  <2>5. k.quick => y \in {2700, 6500}
    BY DEF Kelvin
  <2>6. ~k.quick => y \in Int
    BY <1>1, <1>3 DEF Kelvin
  <2> HIDE DEF t, y
  <2>7. k.quick => t \in 2500..6500
    <3> SUFFICES ASSUME k.quick PROVE t \in 2500..6500
      OBVIOUS
    <3>1. t \in {2700, 6500}
      BY <2>4, <2>5
    <3> QED
      BY <3>1
  <2>8. ~k.quick => t \in 2500..6500
    <3>1. y \in Int => Constrain(y, <<2500, 6500>>) \in 2500..6500
      BY DEF Constrain
    <3>2. ~k.quick => t = Constrain(y, <<2500, 6500>>)
      BY <2>4
    <3> QED
      BY <2>6, <3>1, <3>2
  <2>9. t \in 2500..6500
    BY <2>7, <2>8
  <2>10. Takes(s, Target(s, k, v)) <=> t \in 2500..6500
    BY <1>10 DEF t, Takes, AcTakes, FanTakes, LampTakes
  <2> QED
    BY <2>9, <2>10
<1>11. CASE s = "Hsv"
  <2>1. Fields(s) = 1..3 /\ v[1] \in 0..360 /\ v[2] \in 0..100
    BY <1>11 DEF Reachable, Takes, AcTakes, FanTakes, LampTakes, Fields, Arity
  <2>2. Target(s, k, v)[2] = IF Constrained(s, k, 2) THEN Constrain(Step(s, k, 2, v[2]), Bounds[s])
                             ELSE Step(s, k, 2, v[2])
    BY <2>1 DEF Target, Values, Fields
  <2>3. Bounds[s][1] = 0 /\ Bounds[s][2] = 100
    BY <1>11 DEF Bounds
  <2>4. ~Constrained(s, k, 1) /\ (Constrained(s, k, 2) <=> k.field = 2)
    BY <1>1, <1>11 DEF Constrained, Bounds
  <2>5. Target(s, k, v)[1] \in 0..360
    BY <1>1, <1>4, <1>11, <2>1, <2>4 DEF Step
  <2>6. k.field = 2 => Target(s, k, v)[2] \in 0..100
    <3>1. Step(s, k, 2, v[2]) \in Int
      BY <1>2, <2>1, StepTyped
    <3> QED
      BY <2>2, <2>3, <2>4, <3>1 DEF Constrain
  <2>7. k.field = 1 => Target(s, k, v)[2] \in 0..100
    BY <1>11, <2>1, <2>2, <2>4 DEF Step
  <2> QED
    BY <1>1, <1>11, <2>5, <2>6, <2>7 DEF Takes, AcTakes, FanTakes, LampTakes
<1> QED
  BY <1>5, <1>6, <1>7, <1>8, <1>9, <1>10, <1>11
     DEF Settings, AcSettings, FanSettings, LightSettings

(* The sweep has its own test. *)
LEMMA AnglesTaken ==
  ASSUME NEW k \in Keys("Angles"), NEW v \in Values("Angles"),
         Takes("Angles", v), Shifts(k, v)
  PROVE  Takes("Angles", Target("Angles", k, v))
<1>1. k.by \in {-1, 1} /\ k.quick \in BOOLEAN
  BY KeyTyped DEF Settings, FanSettings
<1>2. Fields("Angles") = 1..2 /\ v[1] \in Int /\ v[2] \in Int
  BY DEF Fields, Values, Arity
<1>3. ASSUME NEW f \in 1..2 PROVE Target("Angles", k, v)[f] = v[f] + 15 * k.by
  BY <1>2 DEF Target, Values, Fields, Step, Constrained, Bounds
<1>4. v[1] >= 5 /\ v[2] <= 355 /\ v[1] + 30 <= v[2]
  BY DEF Takes, FanTakes
<1>5. /\ v[1] + 15 * k.by >= 5
      /\ v[2] + 15 * k.by <= 355
  BY <1>1, <1>2, <1>4 DEF Shifts
<1> QED
  BY <1>1, <1>2, <1>3, <1>4, <1>5 DEF Takes, AcTakes, FanTakes, LampTakes

-----------------------------------------------------------------------------
(* The inductive invariant. *)

(* An event in the adapter's buffer is that of the command in flight, and the *)
(* adapter holds what it was told, if it was not given up.                    *)
AnsweredRight ==
  /\ answered => active # NoCommand
  /\ answered => failed \/ cache = active

(* Every field read so far is the one the press is to ask for.               *)
ReadRight ==
  key # "idle" => \A f \in Fields(setting) \ unread :
                    got[f] = Target(setting, pressed, Newest)[f]

(* What constrain() has found out about a field it has yet to read.          *)
TestedRight ==
  key # "idle" => \A f \in unread : Constrained(setting, pressed, f) =>
    LET x == Step(setting, pressed, f, Newest[f]) IN
      /\ tests >= 1 => x >= Bounds[setting][1]
      /\ tests = 2 => x <= Bounds[setting][2]

Reads == stale \/ (ReadRight /\ TestedRight)

(* A quick key that shifts the sweep has found room for it, or looked at a   *)
(* stale value, which it will read as well.                                   *)
GuardedRight ==
  key = "read" /\ setting = "Angles" /\ pressed.quick =>
    stale \/ Shifts(pressed, Newest) \/ (Stale /\ unread = Fields(setting))

UnreadAtGuard == key = "guard" => unread = Fields(setting)

(* What is in flight was taken, and while it is, or while the device shows     *)
(* what is within reach, the next command will be.                            *)
ActiveTaken == active # NoCommand => Takes(setting, active)

Within == active # NoCommand \/ Reachable(setting, cache)

WaitingTaken ==
  stale \/ setting = "Preset" \/ (waiting # NoCommand /\ Within => Takes(setting, waiting))

IInv ==
  /\ TypeOK /\ AnsweredRight /\ UnlessStale /\ Reads
  /\ UnreadAtGuard /\ GuardedRight /\ ActiveTaken /\ WaitingTaken

-----------------------------------------------------------------------------
(* Types. *)

LEMMA SettingKnown ==
  ASSUME TypeOK
  PROVE  setting \in Settings
  BY RapidAssumption DEF TypeOK

LEMMA NoCommandOutside ==
  ASSUME TypeOK, NEW v \in Values(setting)
  PROVE  v # NoCommand
  BY RapidAssumption, SettingKnown

LEMMA LatestTyped ==
  ASSUME TypeOK, NEW v \in Values(setting)
  PROVE  Latest(v) \in Values(setting)
  BY DEF TypeOK, Latest

LEMMA NewestTyped ==
  ASSUME TypeOK
  PROVE  Newest \in Values(setting)
  BY LatestTyped DEF TypeOK, Newest

LEMMA ReadTyped ==
  ASSUME TypeOK, key = "read", NEW f \in unread
  PROVE  /\ f \in Fields(setting)
         /\ Step(setting, pressed, f, Latest(copy)[f]) \in Int
         /\ Constrained(setting, pressed, f) => setting \in DOMAIN Bounds
<1>1. f \in Fields(setting)
  BY DEF TypeOK, Fields
<1>2. Latest(copy) \in Values(setting)
  BY LatestTyped DEF TypeOK
<1>3. Latest(copy)[f] \in Int
  BY <1>1, <1>2 DEF Values, Fields
<1> QED
  BY <1>1, <1>3, StepTyped, SettingKnown DEF TypeOK, Constrained

LEMMA TypeInit == Init => TypeOK
<1> SUFFICES ASSUME Init PROVE TypeOK
  OBVIOUS
<1>1. shared \in Values(setting)
  BY StartAssumption DEF Init
<1>2. setting \in DOMAIN Start /\ pressed \in Keys(setting) /\ MaxPresses \in Nat
  BY RapidAssumption DEF Init
<1>3. {copy, got, cache, shared, wanted} \subseteq Values(setting)
  BY <1>1 DEF Init
<1>4. /\ key = "idle" /\ unread = {} /\ tests = 0 /\ presses = 0
      /\ loop \in {"tick", "take"} /\ waiting = NoCommand /\ active = NoCommand
      /\ answered = FALSE /\ stale = FALSE /\ failed = FALSE
  BY DEF Init
<1>5. /\ {waiting, active} \subseteq Values(setting) \cup {NoCommand}
      /\ unread \subseteq 1..Arity(setting)
  BY <1>4
<1>6. presses \in 0..MaxPresses /\ tests \in 0..2
  BY <1>2, <1>4
<1>7. answered \in BOOLEAN /\ stale \in BOOLEAN /\ failed \in BOOLEAN
  BY <1>4
<1> QED
  BY <1>2, <1>3, <1>4, <1>5, <1>6, <1>7 DEF TypeOK

(* The device's task moves commands and leaves the keys alone. *)
LEMMA TypeDevice ==
  ASSUME TypeOK, DeviceTask
  PROVE  TypeOK'
<1>1. /\ {waiting', active'} \subseteq Values(setting) \cup {NoCommand}
      /\ {cache', shared'} \subseteq Values(setting)
  BY DEF DeviceTask, Report, TimesOut, NotYet, Take, Refuse, TakeNothing, Complete,
         NothingToDrain, Publish, TypeOK
<1>2. loop' \in {"tick", "take", "drain", "publish"}
  BY DEF DeviceTask, Report, TimesOut, NotYet, Take, Refuse, TakeNothing, Complete,
         NothingToDrain, Publish
<1>3. answered' \in BOOLEAN /\ stale' \in BOOLEAN /\ failed' \in BOOLEAN
  BY DEF DeviceTask, Report, TimesOut, NotYet, Take, Refuse, TakeNothing, Complete,
         NothingToDrain, Publish, TypeOK, GivesUp
<1>4. UNCHANGED <<setting, keyVars, presses, wanted>>
  BY DEF DeviceTask, Report, TimesOut, NotYet, Take, Refuse, TakeNothing, Complete,
         NothingToDrain, Publish
<1> QED
  BY <1>1, <1>2, <1>3, <1>4 DEF TypeOK, keyVars

LEMMA TypeNext == TypeOK /\ [Next]_vars => TypeOK'
<1> SUFFICES ASSUME TypeOK, [Next]_vars PROVE TypeOK'
  OBVIOUS
<1> USE RapidAssumption
<1>1. ASSUME NEW k \in Keys(setting), CopyStates(k) PROVE TypeOK'
  <2>1. DOMAIN cache = 1..Arity(setting)
    BY DEF TypeOK, Values
  <2> QED
    BY <1>1, <2>1 DEF CopyStates, TypeOK, taskVars
<1>2. ASSUME ReadGuard PROVE TypeOK'
  BY <1>2 DEF ReadGuard, TypeOK, taskVars
<1>3. ASSUME Push PROVE TypeOK'
  <2>1. wanted' \in Values(setting)
    BY <1>3, TargetTyped, SettingKnown DEF Push, TypeOK
  <2>2. presses' \in 0..MaxPresses
    BY <1>3 DEF Push, TypeOK
  <2> QED
    BY <1>3, <2>1, <2>2 DEF Push, TypeOK, taskVars
<1>4. ASSUME NoRoom PROVE TypeOK'
  BY <1>4 DEF NoRoom, TypeOK, taskVars
<1>5. ASSUME NEW f \in unread, ReadField(f) PROVE TypeOK'
  <2> DEFINE x == Step(setting, pressed, f, Latest(copy)[f])
             test == IF Constrained(setting, pressed, f) THEN tests ELSE 2
  <2>1. f \in 1..Arity(setting) /\ x \in Int
    BY <1>5, ReadTyped DEF ReadField, Fields
  <2>2. ASSUME NEW value \in Int, Read(f, value)
        PROVE  /\ got' \in Values(setting) /\ unread' \subseteq 1..Arity(setting)
               /\ tests' \in 0..2
    BY <2>1, <2>2 DEF Read, TypeOK, Values
  <2>3. \/ \E value \in Int : Read(f, value)
        \/ tests' = tests + 1 /\ tests \in {0, 1} /\ UNCHANGED <<unread, got>>
    <3>1. test \in {0, 1} => Bounds[setting][1] \in Int /\ Bounds[setting][2] \in Int
      BY <1>5, ReadTyped, BoundsTyped DEF ReadField
    <3> QED
      BY <1>5, <2>1, <3>1 DEF ReadField
  <2>4. got' \in Values(setting) /\ unread' \subseteq 1..Arity(setting) /\ tests' \in 0..2
    <3>1. CASE \E value \in Int : Read(f, value)
      BY <2>2, <3>1
    <3>2. CASE tests' = tests + 1 /\ tests \in {0, 1} /\ UNCHANGED <<unread, got>>
      BY <3>2 DEF TypeOK
    <3> QED
      BY <2>3, <3>1, <3>2
  <2>5. stale' \in BOOLEAN
    BY <1>5 DEF ReadField, TypeOK, Stale
  <2> QED
    BY <1>5, <2>4, <2>5 DEF ReadField, TypeOK, taskVars
<1>6. ASSUME UNCHANGED vars PROVE TypeOK'
  BY <1>6 DEF vars, keyVars, taskVars, TypeOK
<1> QED
  BY <1>1, <1>2, <1>3, <1>4, <1>5, <1>6, TypeDevice DEF Next, UiTask

-----------------------------------------------------------------------------
(* What the device's task does to the newest value. *)

LEMMA CopyIsCurrent ==
  ASSUME ~Stale
  PROVE  Latest(copy) = Newest
  BY DEF Stale, Nothing, Latest, Newest

LEMMA NewestStays ==
  ASSUME UNCHANGED <<waiting, active, cache>>
  PROVE  Newest' = Newest
  BY DEF Newest, Latest

(* A key that is handled sees the newest value change only when a command is  *)
(* given up, which makes it stale.                                            *)
LEMMA NewestKept ==
  ASSUME TypeOK, DeviceTask, key # "idle", ~stale'
  PROVE  Newest' = Newest
<1>1. CASE Report
  BY <1>1 DEF Report, Newest, Latest
<1>2. CASE TimesOut
  BY <1>2 DEF TimesOut, Newest, Latest
<1>3. CASE Take
  BY <1>3 DEF Take, Newest, Latest
<1>4. CASE Refuse \/ Complete
  <2>1. GivesUp
    BY <1>4 DEF Refuse, Complete
  <2>2. Newest' = Newest
    BY <2>1 DEF GivesUp, Newest
  <2> QED
    BY <2>2
<1>5. CASE NotYet \/ TakeNothing \/ NothingToDrain \/ Publish
  BY <1>5, NewestStays DEF NotYet, TakeNothing, NothingToDrain, Publish
<1> QED
  BY <1>1, <1>2, <1>3, <1>4, <1>5 DEF DeviceTask

(* It leaves the keys alone, and its history only grows. *)
LEMMA DeviceKeeps ==
  ASSUME TypeOK, DeviceTask
  PROVE  /\ UNCHANGED <<setting, key, pressed, unread, tests, copy, got, wanted>>
         /\ stale => stale'
         /\ failed => failed'
<1>1. UNCHANGED <<setting, keyVars, wanted>>
  BY DEF DeviceTask, Report, TimesOut, NotYet, Take, Refuse, TakeNothing, Complete,
         NothingToDrain, Publish
<1>2. (stale => stale') /\ (failed => failed')
  BY DEF DeviceTask, Report, TimesOut, NotYet, Take, Refuse, TakeNothing, Complete,
         NothingToDrain, Publish, GivesUp, TypeOK
<1> QED
  BY <1>1, <1>2 DEF keyVars

LEMMA AnsweredNext == TypeOK /\ AnsweredRight /\ [Next]_vars => AnsweredRight'
<1> SUFFICES ASSUME TypeOK, AnsweredRight, [Next]_vars PROVE AnsweredRight'
  OBVIOUS
<1>1. ASSUME UNCHANGED <<active, answered, cache, failed>> PROVE AnsweredRight'
  BY <1>1 DEF AnsweredRight
<1>2. CASE Report
  BY <1>2 DEF Report, AnsweredRight
<1>3. CASE TimesOut
  BY <1>3 DEF TimesOut, AnsweredRight
<1>4. CASE Take
  BY <1>4 DEF Take, AnsweredRight
<1>5. CASE Refuse
  BY <1>5 DEF Refuse, AnsweredRight
<1>6. CASE Complete
  BY <1>6 DEF Complete, AnsweredRight
<1>7. CASE NotYet \/ TakeNothing \/ NothingToDrain \/ Publish
  BY <1>1, <1>7 DEF NotYet, TakeNothing, NothingToDrain, Publish
<1>8. CASE UiTask \/ UNCHANGED vars
  BY <1>1, <1>8 DEF UiTask, CopyStates, ReadGuard, Push, NoRoom, ReadField, vars, taskVars
<1> QED
  BY <1>2, <1>3, <1>4, <1>5, <1>6, <1>7, <1>8 DEF Next, DeviceTask

-----------------------------------------------------------------------------
(* What is read is what the press is to ask for. *)

LEMMA ReadNext ==
  ASSUME TypeOK, ReadRight, TestedRight, NEW f \in unread, ReadField(f), ~stale'
  PROVE  ReadRight' /\ TestedRight'
<1> DEFINE x == Step(setting, pressed, f, Newest[f])
<1>1. Latest(copy) = Newest
  BY CopyIsCurrent DEF ReadField
<1>2. f \in Fields(setting) /\ x \in Int
  BY <1>1, ReadTyped DEF ReadField
<1>3. Constrained(setting, pressed, f) =>
        Bounds[setting][1] \in Int /\ Bounds[setting][2] \in Int
  BY BoundsTyped, ReadTyped DEF ReadField
<1>4. /\ UNCHANGED <<setting, pressed, key>> /\ key = "read"
      /\ tests \in 0..2 /\ Newest' = Newest
  BY NewestStays DEF ReadField, TypeOK, taskVars
<1>5. Target(setting, pressed, Newest)[f] =
        IF Constrained(setting, pressed, f) THEN Constrain(x, Bounds[setting]) ELSE x
  BY <1>2, NewestTyped DEF Target, Values, Fields
<1>6. \/ /\ Read(f, Target(setting, pressed, Newest)[f])
      \/ /\ Constrained(setting, pressed, f) /\ UNCHANGED <<unread, got>>
         /\ \/ tests = 0 /\ x >= Bounds[setting][1]
            \/ tests = 1 /\ x <= Bounds[setting][2]
         /\ tests' = tests + 1
  <2>1. CASE ~Constrained(setting, pressed, f)
    BY <1>1, <1>5, <2>1 DEF ReadField
  <2>2. CASE Constrained(setting, pressed, f)
    <3>1. /\ tests >= 1 => x >= Bounds[setting][1]
          /\ tests = 2 => x <= Bounds[setting][2]
      BY <1>4, <2>2 DEF TestedRight
    <3> QED
      BY <1>1, <1>2, <1>3, <1>4, <1>5, <2>2, <3>1 DEF ReadField, Constrain
  <2> QED
    BY <2>1, <2>2
<1>7. ASSUME Read(f, Target(setting, pressed, Newest)[f]) PROVE ReadRight' /\ TestedRight'
  BY <1>2, <1>4, <1>7 DEF Read, ReadRight, TestedRight, TypeOK, Values, Fields
<1>8. ASSUME Constrained(setting, pressed, f), UNCHANGED <<unread, got>>,
             \/ tests = 0 /\ x >= Bounds[setting][1]
             \/ tests = 1 /\ x <= Bounds[setting][2],
             tests' = tests + 1
      PROVE  ReadRight' /\ TestedRight'
  <2>1. ReadRight'
    BY <1>4, <1>8 DEF ReadRight
  <2>2. ASSUME NEW g \in unread, Constrained(setting, pressed, g) PROVE g = f
    BY <1>8, <2>2 DEF Constrained
  <2>3. TestedRight'
    BY <1>4, <1>8, <2>2 DEF TestedRight
  <2> QED
    BY <2>1, <2>3
<1> QED
  BY <1>6, <1>7, <1>8

LEMMA ReadsNext == TypeOK /\ Reads /\ [Next]_vars => Reads'
<1> SUFFICES ASSUME TypeOK, Reads, [Next]_vars, ~stale' PROVE ReadRight' /\ TestedRight'
  BY DEF Reads
<1>1. ~stale
  BY DeviceKeeps DEF TypeOK, Next, UiTask, CopyStates, ReadGuard, Push, NoRoom, ReadField, vars
<1>2. ReadRight /\ TestedRight
  BY <1>1 DEF Reads
<1>3. ASSUME NEW k \in Keys(setting), CopyStates(k) PROVE ReadRight' /\ TestedRight'
  <2>1. unread' = Fields(setting) /\ tests' = 0 /\ setting' = setting
    BY <1>3 DEF CopyStates, TypeOK, Values, Fields
  <2> QED
    BY <2>1 DEF ReadRight, TestedRight
<1>4. ASSUME NEW f \in unread, ReadField(f) PROVE ReadRight' /\ TestedRight'
  BY <1>2, <1>4, ReadNext
<1>5. ASSUME ReadGuard PROVE ReadRight' /\ TestedRight'
  <2>1. Newest' = Newest /\ UNCHANGED <<setting, pressed, unread, tests, got>> /\ key = "guard"
    BY <1>5, NewestStays DEF ReadGuard, taskVars
  <2> QED
    BY <1>2, <2>1 DEF ReadRight, TestedRight
<1>6. ASSUME Push \/ NoRoom PROVE ReadRight' /\ TestedRight'
  BY <1>6 DEF Push, NoRoom, ReadRight, TestedRight
<1>7. ASSUME UNCHANGED <<setting, key, pressed, unread, tests, got>>,
             key # "idle" => Newest' = Newest
      PROVE  ReadRight' /\ TestedRight'
  BY <1>2, <1>7 DEF ReadRight, TestedRight
<1>8. ASSUME DeviceTask PROVE ReadRight' /\ TestedRight'
  BY <1>7, <1>8, DeviceKeeps, NewestKept
<1>9. ASSUME UNCHANGED vars PROVE ReadRight' /\ TestedRight'
  BY <1>7, <1>9, NewestStays DEF vars, keyVars, taskVars
<1> QED
  BY <1>3, <1>4, <1>5, <1>6, <1>8, <1>9 DEF Next, UiTask

(* Whoever pushes asks for a step from the newest value. *)
LEMMA PushAsks ==
  ASSUME TypeOK, Reads, Push, ~stale
  PROVE  got = Target(setting, pressed, Newest)
<1>1. Target(setting, pressed, Newest) \in Values(setting) /\ got \in Values(setting)
  BY TargetTyped, NewestTyped, SettingKnown DEF TypeOK
<1>2. \A f \in Fields(setting) : got[f] = Target(setting, pressed, Newest)[f]
  BY DEF Reads, ReadRight, Push
<1>3. got = [f \in Fields(setting) |-> got[f]]
  BY <1>1 DEF Values, Fields
<1>4. Target(setting, pressed, Newest) =
        [f \in Fields(setting) |-> Target(setting, pressed, Newest)[f]]
  BY <1>1 DEF Values, Fields
<1> QED
  BY <1>2, <1>3, <1>4

(* Presses add up. *)
LEMMA AddsUpNext ==
  TypeOK /\ AnsweredRight /\ Reads /\ UnlessStale /\ [Next]_vars => UnlessStale'
<1> SUFFICES ASSUME TypeOK, AnsweredRight, Reads, UnlessStale, [Next]_vars, ~stale', ~failed'
             PROVE  Newest' = wanted'
  BY DEF UnlessStale, EveryPressCounts
<1>1. ~stale /\ ~failed
  BY DeviceKeeps DEF TypeOK, Next, UiTask, CopyStates, ReadGuard, Push, NoRoom, ReadField,
                     vars, taskVars
<1>2. Newest = wanted
  BY <1>1 DEF UnlessStale, EveryPressCounts
<1>3. ASSUME Push PROVE Newest' = wanted'
  <2>1. got = Target(setting, pressed, wanted) /\ got # NoCommand
    BY <1>1, <1>2, <1>3, PushAsks, NoCommandOutside DEF TypeOK
  <2>2. waiting' = got /\ wanted' = Target(setting, pressed, wanted)
    BY <1>3 DEF Push
  <2> QED
    BY <2>1, <2>2 DEF Newest, Latest
<1>4. ASSUME UNCHANGED <<waiting, active, cache, wanted>> PROVE Newest' = wanted'
  BY <1>2, <1>4, NewestStays
<1>5. ASSUME Report PROVE Newest' = wanted'
  BY <1>2, <1>5 DEF Report, Newest, Latest
<1>6. ASSUME Take PROVE Newest' = wanted'
  BY <1>2, <1>6 DEF Take, Newest, Latest
<1>7. ASSUME Complete PROVE Newest' = wanted'
  BY <1>1, <1>2, <1>7 DEF Complete, AnsweredRight, Newest, Latest
<1>8. ~TimesOut /\ ~Refuse
  BY DEF TimesOut, Refuse
<1>9. CASE NotYet \/ TakeNothing \/ NothingToDrain \/ Publish \/ UNCHANGED vars
  BY <1>4, <1>9 DEF NotYet, TakeNothing, NothingToDrain, Publish, vars, taskVars
<1>10. CASE UiTask /\ ~Push
  BY <1>4, <1>10 DEF UiTask, CopyStates, ReadGuard, NoRoom, ReadField, taskVars
<1> QED
  BY <1>3, <1>5, <1>6, <1>7, <1>8, <1>9, <1>10 DEF Next, DeviceTask

-----------------------------------------------------------------------------
(* Presses stay in range. *)

LEMMA GuardedNext == IInv /\ [Next]_vars => GuardedRight'
<1> SUFFICES ASSUME IInv, [Next]_vars PROVE GuardedRight'
  OBVIOUS
<1>1. ASSUME NEW k \in Keys(setting), CopyStates(k) PROVE GuardedRight'
  BY <1>1 DEF CopyStates, GuardedRight
<1>2. ASSUME ReadGuard PROVE GuardedRight'
  <2>1. Stale \/ Latest(copy) = Newest
    BY CopyIsCurrent
  <2>2. UNCHANGED <<setting, stale, Stale, Newest, pressed, unread>>
    BY <1>2, NewestStays DEF ReadGuard, taskVars, Stale, Nothing
  <2>3. unread = Fields(setting)
    BY <1>2 DEF IInv, UnreadAtGuard, ReadGuard
  <2> QED
    BY <1>2, <2>1, <2>2, <2>3 DEF ReadGuard, GuardedRight, Fields
<1>3. ASSUME Push \/ NoRoom PROVE GuardedRight'
  BY <1>3 DEF Push, NoRoom, GuardedRight
<1>4. ASSUME NEW f \in unread, ReadField(f) PROVE GuardedRight'
  <2>1. /\ stale' = (stale \/ Stale) /\ UNCHANGED <<setting, key, pressed>>
        /\ Newest' = Newest
    BY <1>4, NewestStays DEF ReadField, taskVars
  <2> QED
    BY <2>1 DEF IInv, GuardedRight, TypeOK
<1>5. ASSUME UNCHANGED <<setting, key, pressed, unread>>, stale => stale', Stale => Stale',
             key = "read" => stale' \/ Newest' = Newest
      PROVE  GuardedRight'
  BY <1>5 DEF IInv, GuardedRight, Fields
<1>6. ASSUME DeviceTask PROVE GuardedRight'
  <2>1. TypeOK
    BY DEF IInv
  <2>2. Stale => Stale'
    BY <1>6 DEF Stale, Nothing, DeviceTask, Report, TimesOut, NotYet, Take, Refuse,
                TakeNothing, Complete, NothingToDrain, Publish, keyVars, IInv, AnsweredRight
  <2> QED
    BY <1>5, <1>6, <2>1, <2>2, DeviceKeeps, NewestKept
<1>7. ASSUME UNCHANGED vars PROVE GuardedRight'
  BY <1>5, <1>7, NewestStays DEF vars, keyVars, taskVars, Stale, Nothing
<1> QED
  BY <1>1, <1>2, <1>3, <1>4, <1>6, <1>7 DEF Next, UiTask

(* What is taken is within reach, and so is the newest value if the device's  *)
(* own is.                                                                    *)
LEMMA NewestWithin ==
  ASSUME IInv, Within, ~stale, setting # "Preset"
  PROVE  Reachable(setting, Newest) /\ (setting = "Angles" => Takes(setting, Newest))
<1>1. CASE waiting # NoCommand
  BY <1>1 DEF IInv, WaitingTaken, Newest, Latest, Reachable
<1>2. CASE waiting = NoCommand /\ active # NoCommand
  BY <1>2 DEF IInv, ActiveTaken, Newest, Latest, Reachable
<1>3. CASE waiting = NoCommand /\ active = NoCommand
  BY <1>3 DEF Within, Newest, Latest, Reachable
<1> QED
  BY <1>1, <1>2, <1>3

LEMMA PushTaken ==
  ASSUME IInv, Push, Within, ~stale, setting # "Preset"
  PROVE  Takes(setting, got)
<1>1. Reachable(setting, Newest) /\ (setting = "Angles" => Takes(setting, Newest))
  BY NewestWithin
<1>2. got = Target(setting, pressed, Newest)
  BY PushAsks DEF IInv
<1>3. setting \in Settings /\ pressed \in Keys(setting) /\ Newest \in Values(setting)
  BY SettingKnown, NewestTyped DEF IInv, TypeOK
<1>4. CASE setting # "Angles"
  BY <1>1, <1>2, <1>3, <1>4, TargetTaken
<1>5. CASE setting = "Angles"
  <2>1. Shifts(pressed, Newest)
    <3>1. CASE pressed.quick
      <4>1. unread # Fields(setting)
        BY <1>3, FieldOne DEF Push
      <4> QED
        BY <1>5, <3>1, <4>1 DEF IInv, GuardedRight, Push
    <3>2. CASE ~pressed.quick
      <4>1. Newest = [f \in DOMAIN got |-> got[f] - 15 * pressed.by]
        <5>1. pressed.by \in Int
          BY <1>3, KeyTyped
        <5>2. Newest \in [Fields(setting) -> Int] /\ DOMAIN got = Fields(setting)
          BY <1>2, <1>3 DEF Values, Fields, Target
        <5>3. ASSUME NEW f \in Fields(setting)
              PROVE  got[f] = Newest[f] + 15 * pressed.by
          BY <1>2, <1>5, <5>2 DEF Target, Step, Constrained, Bounds
        <5>4. ASSUME NEW f \in Fields(setting)
              PROVE  Newest[f] = got[f] - 15 * pressed.by
          BY <5>1, <5>2, <5>3
        <5> QED
          BY <5>2, <5>4
      <4> QED
        BY <1>5, <3>2, <4>1 DEF Push, MayPush
    <3> QED
      BY <3>1, <3>2
  <2> QED
    BY <1>1, <1>2, <1>3, <1>5, <2>1, AnglesTaken
<1> QED
  BY <1>4, <1>5

LEMMA ActiveNext == IInv /\ [Next]_vars => ActiveTaken'
<1> SUFFICES ASSUME IInv, [Next]_vars PROVE ActiveTaken'
  OBVIOUS
<1>1. CASE Take
  BY <1>1 DEF Take, ActiveTaken
<1>2. CASE Complete
  BY <1>2 DEF Complete, ActiveTaken
<1>3. ASSUME UNCHANGED <<setting, active>> PROVE ActiveTaken'
  BY <1>3 DEF IInv, ActiveTaken
<1>4. CASE Report \/ TimesOut \/ NotYet \/ Refuse \/ TakeNothing \/ NothingToDrain \/ Publish
  BY <1>3, <1>4 DEF Report, TimesOut, NotYet, Refuse, TakeNothing, NothingToDrain, Publish
<1>5. CASE UiTask \/ UNCHANGED vars
  BY <1>3, <1>5 DEF UiTask, CopyStates, ReadGuard, Push, NoRoom, ReadField, vars, taskVars
<1> QED
  BY <1>1, <1>2, <1>4, <1>5 DEF Next, DeviceTask

LEMMA WaitingNext == IInv /\ [Next]_vars => WaitingTaken'
<1> SUFFICES ASSUME IInv, [Next]_vars PROVE WaitingTaken'
  OBVIOUS
<1>1. ASSUME Push PROVE WaitingTaken'
  <2>1. UNCHANGED <<setting, stale, Within>> /\ waiting' = got
    BY <1>1 DEF Push, taskVars, Within
  <2>2. stale \/ setting = "Preset" \/ (Within => Takes(setting, got))
    BY <1>1, PushTaken DEF IInv, TypeOK
  <2> QED
    BY <2>1, <2>2 DEF WaitingTaken
<1>2. ASSUME waiting' = NoCommand PROVE WaitingTaken'
  BY <1>2 DEF WaitingTaken
<1>3. ASSUME UNCHANGED <<setting, waiting>>, stale => stale', Within' => Within
      PROVE  WaitingTaken'
  BY <1>3 DEF IInv, WaitingTaken
<1>4. CASE Take \/ Refuse
  BY <1>2, <1>4 DEF Take, Refuse
<1>5. CASE Report \/ TimesOut
  BY <1>3, <1>5 DEF Report, TimesOut, Within
<1>6. CASE Complete
  <2>1. Within
    BY <1>6 DEF Complete, IInv, AnsweredRight, Within
  <2>2. UNCHANGED <<setting, waiting>> /\ (stale => stale')
    BY <1>6 DEF Complete, GivesUp, IInv, TypeOK
  <2> QED
    BY <1>3, <2>1, <2>2
<1>7. CASE NotYet \/ TakeNothing \/ NothingToDrain \/ Publish
  BY <1>3, <1>7 DEF NotYet, TakeNothing, NothingToDrain, Publish, Within
<1>8. ASSUME NEW f \in unread, ReadField(f) PROVE WaitingTaken'
  BY <1>3, <1>8 DEF ReadField, taskVars, Within, IInv, TypeOK
<1>9. CASE ReadGuard \/ NoRoom \/ (\E k \in Keys(setting) : CopyStates(k)) \/ UNCHANGED vars
  BY <1>3, <1>9 DEF ReadGuard, NoRoom, CopyStates, vars, taskVars, Within
<1> QED
  BY <1>1, <1>4, <1>5, <1>6, <1>7, <1>8, <1>9 DEF Next, UiTask, DeviceTask

LEMMA UnreadNext == IInv /\ [Next]_vars => UnreadAtGuard'
<1> SUFFICES ASSUME IInv, [Next]_vars PROVE UnreadAtGuard'
  OBVIOUS
<1>1. ASSUME NEW k \in Keys(setting), CopyStates(k) PROVE UnreadAtGuard'
  BY <1>1 DEF CopyStates, UnreadAtGuard, IInv, TypeOK, Values, Fields
<1>2. ASSUME ReadGuard \/ Push \/ NoRoom PROVE UnreadAtGuard'
  BY <1>2 DEF ReadGuard, Push, NoRoom, UnreadAtGuard
<1>3. ASSUME NEW f \in unread, ReadField(f) PROVE UnreadAtGuard'
  BY <1>3 DEF ReadField, UnreadAtGuard
<1>4. ASSUME UNCHANGED <<setting, key, unread>> PROVE UnreadAtGuard'
  BY <1>4 DEF UnreadAtGuard, IInv, Fields
<1>5. CASE DeviceTask \/ UNCHANGED vars
  BY <1>4, <1>5, DeviceKeeps DEF vars, keyVars, IInv
<1> QED
  BY <1>1, <1>2, <1>3, <1>5 DEF Next, UiTask

LEMMA IInvInit == Init => IInv
<1> SUFFICES ASSUME Init PROVE IInv
  OBVIOUS
<1>1. TypeOK
  BY TypeInit
<1>2. UnlessStale
  BY DEF Init, UnlessStale, EveryPressCounts, Newest, Latest
<1>3. Reads /\ AnsweredRight
  BY DEF Init, Reads, ReadRight, TestedRight, AnsweredRight
<1>4. ActiveTaken /\ WaitingTaken
  BY DEF Init, ActiveTaken, WaitingTaken
<1> QED
  BY <1>1, <1>2, <1>3, <1>4 DEF Init, IInv, GuardedRight, UnreadAtGuard

LEMMA IInvNext == IInv /\ [Next]_vars => IInv'
  BY TypeNext, AnsweredNext, ReadsNext, AddsUpNext, UnreadNext, GuardedNext, ActiveNext,
     WaitingNext DEF IInv

-----------------------------------------------------------------------------
(* The theorems. *)

(* The handling of a key, the command table's two commands and the three     *)
(* copies of a setting keep their types, for every setting.                   *)
THEOREM RapidTypeCorrect == Spec => []TypeOK
<1>1. IInv => TypeOK
  BY DEF IInv
<1> QED
  BY <1>1, IInvInit, IInvNext, PTL DEF Spec

(* Rapid presses of any key add up, whatever the device's task does between   *)
(* them, unless a command failed or one was handled between the completion of *)
(* a command and the publication of its effect (main.cpp:804, 911).           *)
THEOREM PressesAddUp == Spec => []UnlessStale
<1>1. IInv => UnlessStale
  BY DEF IInv
<1> QED
  BY <1>1, IInvInit, IInvNext, PTL DEF Spec

(* Whatever the device showed to begin with, as wide as its fields are, and    *)
(* whichever commands failed: as soon as it shows what is within reach, no key *)
(* asks for what its adapter refuses, unless it went by a stale value; presets *)
(* excepted (main.cpp:554).                                                   *)
THEOREM KeysStayInRange == Spec => []RefusedOnlyOutOfReach
<1>1. IInv => RefusedOnlyOutOfReach
  BY DEF IInv, WaitingTaken, Within, RefusedOnlyOutOfReach, AsksForWhatIsTaken
<1> QED
  BY <1>1, IInvInit, IInvNext, PTL DEF Spec
=============================================================================
