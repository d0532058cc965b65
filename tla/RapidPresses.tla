----------------------------- MODULE RapidPresses -----------------------------
(***************************************************************************)
(* Keys that change a setting by one step, in firmware/src/main.cpp: the UI  *)
(* task copies the published device states, asks the dispatcher for the      *)
(* newest unfinished command of the setting, one field at a time, and         *)
(* enqueues what Settings says.  Each is a critical section of its own, and   *)
(* the network task or the IR task runs between any two of them.             *)
(*                                                                         *)
(* constrain() is a macro of the Arduino core: it evaluates its argument, and *)
(* with it effectiveValue(), up to three times.  The arguments of a call may  *)
(* be evaluated in any order.                                                 *)
(*                                                                         *)
(* Nothing but these keys changes the setting, and the dispatcher is one       *)
(* mailbox (PropertyMailbox, which CommandDispatcher implements).  A fan or a  *)
(* lamp may fail to answer, or be offline; it does not carry a command out     *)
(* after the command's deadline.                                              *)
(***************************************************************************)
EXTENDS Settings

CONSTANTS
  NoCommand,
  Start,        \* per setting, the values it may have to begin with
  MaxPresses    \* bound: key presses

ASSUME RapidAssumption ==
  /\ DOMAIN Start \subseteq Settings /\ MaxPresses \in Nat
  /\ \A s \in Settings : NoCommand \notin Values(s)

ASSUME StartAssumption ==
  \A s \in DOMAIN Start : \A v \in Start[s] : v \in Values(s) /\ MayHold(s, v)

VARIABLES
  setting,  \* the setting whose keys are pressed
  key,      \* where the handling of a key is: "idle", "guard", "read"
  pressed,  \* the key handled
  unread,   \* the fields it has yet to read
  tests,    \* comparisons of constrain() made
  copy,     \* its local copy of the published value
  got,      \* the fields read, as the new target has them
  waiting,  \* the queued command of the property
  active,   \* the command in flight
  answered, \* its event is in the adapter's buffer
  loop,     \* where the device's task is: "tick", "take", "drain", "publish"
  cache,    \* the value as the adapter has it: what it publishes
  shared,   \* the published value
  presses,  \* key presses accepted
  wanted,   \* history: what the presses so far add up to
  stale,    \* history: a key went by a value that a finished command had changed
  failed    \* history: a command was not carried out

keyVars == <<key, pressed, unread, tests, copy, got>>
taskVars == <<active, answered, loop, cache, shared, failed>>
vars == <<setting, keyVars, waiting, taskVars, presses, wanted, stale>>

(* latestCommand(): the queued command is newer than the one in flight.      *)
Latest_PrefersActive(fallback) ==
  IF active # NoCommand THEN active
  ELSE IF waiting # NoCommand THEN waiting
  ELSE fallback

Latest(fallback) ==
  IF waiting # NoCommand THEN waiting
  ELSE IF active # NoCommand THEN active
  ELSE fallback

Nothing == waiting = NoCommand /\ active = NoCommand

-----------------------------------------------------------------------------
(* The UI task. *)

(* copyDeviceStates(), under stateMutex.                                     *)
CopyStates(k) ==
  /\ key = "idle" /\ presses < MaxPresses
  /\ key' = IF setting = "Angles" /\ k.quick THEN "guard" ELSE "read"
  /\ pressed' = k
  /\ unread' = DOMAIN cache /\ tests' = 0
  /\ copy' = shared /\ got' = shared
  /\ UNCHANGED <<setting, waiting, taskVars, presses, wanted, stale>>

(* A quick key asks whether there is room before it reads what to ask for.   *)
ReadGuard ==
  /\ key = "guard"
  /\ key' = IF Shifts(pressed, Latest(copy)) THEN "read" ELSE "idle"
  /\ UNCHANGED <<setting, pressed, unread, tests, copy, got, waiting, taskVars,
                 presses, wanted, stale>>

(* A value is stale when the dispatcher has nothing left and the copy is     *)
(* older than what the adapter holds by now.                                  *)
Stale == Nothing /\ copy # cache

Read(f, value) ==
  /\ unread' = unread \ {f}
  /\ got' = [got EXCEPT ![f] = value]
  /\ UNCHANGED tests

(* effectiveValue(): each call takes commandMutex by itself.                 *)
ReadField(f) ==
  LET x == Step(setting, pressed, f, Latest(copy)[f])
      bounds == Bounds[setting]
      test == IF Constrained(setting, pressed, f) THEN tests ELSE 2
  IN
  /\ key = "read" /\ f \in unread
  /\ setting = "Angles" /\ ~pressed.quick => \A g \in unread : f <= g
  /\ \/ test = 0 /\ x < bounds[1] /\ Read(f, bounds[1])
     \/ test = 1 /\ x > bounds[2] /\ Read(f, bounds[2])
     \/ test = 2 /\ Read(f, x)
     \/ /\ (test = 0 /\ x >= bounds[1]) \/ (test = 1 /\ x <= bounds[2])
        /\ tests' = tests + 1 /\ UNCHANGED <<unread, got>>
  /\ stale' = (stale \/ Stale)
  /\ UNCHANGED <<setting, key, pressed, copy, waiting, taskVars, presses, wanted>>

(* enqueue(): the newer command takes the place of the waiting one.          *)
Push_Unguarded ==
  /\ key = "read" /\ unread = {} /\ key' = "idle"
  /\ waiting' = got
  /\ presses' = presses + 1
  /\ wanted' = Target(setting, pressed, wanted)
  /\ UNCHANGED <<setting, pressed, unread, tests, copy, got, taskVars, stale>>

MayPush ==
  setting = "Angles" /\ ~pressed.quick =>
    Shifts(pressed, [f \in DOMAIN got |-> got[f] - 15 * pressed.by])

Push ==
  /\ key = "read" /\ unread = {} /\ key' = "idle"
  /\ MayPush
  /\ waiting' = got
  /\ presses' = presses + 1
  /\ wanted' = Target(setting, pressed, wanted)
  /\ UNCHANGED <<setting, pressed, unread, tests, copy, got, taskVars, stale>>

NoRoom ==
  /\ key = "read" /\ unread = {} /\ key' = "idle"
  /\ ~MayPush
  /\ UNCHANGED <<setting, pressed, unread, tests, copy, got, waiting, taskVars,
                 presses, wanted, stale>>

-----------------------------------------------------------------------------
(* The task of the device: networkTask(), or irTask() for the air conditioner,*)
(* which has nothing to wait for between execute() and the event.             *)

Infrared == setting \in AcSettings

(* A command that is given up takes with it what a key handled meanwhile may  *)
(* have read of it.                                                           *)
GivesUp == stale' = (stale \/ (key # "idle" /\ Latest(cache)' # Latest(cache)))

(* tick(): the device shows what it was told, or the deadline passes.  The     *)
(* event waits in the adapter's buffer.                                       *)
Report ==
  /\ loop = "tick" /\ active # NoCommand /\ ~answered
  /\ answered' = TRUE /\ cache' = active
  /\ loop' = IF Infrared THEN "drain" ELSE "take"
  /\ UNCHANGED <<setting, keyVars, waiting, active, shared, failed, presses, wanted, stale>>

TimesOut ==
  /\ loop = "tick" /\ active # NoCommand /\ ~answered /\ ~Infrared
  /\ answered' = TRUE /\ failed' = TRUE
  /\ loop' = "take"
  /\ UNCHANGED <<setting, keyVars, waiting, active, cache, shared, presses, wanted, stale>>

NotYet ==
  /\ loop = "tick" /\ ~Infrared
  /\ loop' = "take"
  /\ UNCHANGED <<setting, keyVars, waiting, active, answered, cache, shared, failed,
                 presses, wanted, stale>>

(* take() and execute(); one in flight blocks the next of its property.      *)
Take ==
  /\ loop = "take" /\ loop' = IF Infrared THEN "tick" ELSE "drain"
  /\ waiting # NoCommand /\ active = NoCommand
  /\ Takes(setting, waiting)
  /\ active' = waiting
  /\ waiting' = NoCommand
  /\ UNCHANGED <<setting, keyVars, answered, cache, shared, failed, presses, wanted, stale>>

(* The adapter answers Unsupported or Offline, or the reduction leaves the    *)
(* state alone.                                                               *)
Refuse ==
  /\ loop = "take" /\ loop' = IF Infrared THEN "publish" ELSE "drain"
  /\ waiting # NoCommand /\ active = NoCommand
  /\ Infrared => ~Takes(setting, waiting)
  /\ waiting' = NoCommand
  /\ failed' = TRUE
  /\ UNCHANGED <<setting, keyVars, active, answered, cache, shared, presses, wanted>>
  /\ GivesUp

TakeNothing ==
  /\ loop = "take" /\ loop' = IF Infrared THEN "take" ELSE "drain"
  /\ waiting = NoCommand \/ active # NoCommand
  /\ UNCHANGED <<setting, keyVars, waiting, active, answered, cache, shared, failed,
                 presses, wanted, stale>>

(* drainAdapterEvents(): forwardAdapterEvent() completes the command.  The new *)
(* state is not published yet.                                                *)
Complete ==
  /\ loop = "drain" /\ answered
  /\ active' = NoCommand /\ answered' = FALSE
  /\ loop' = "publish"
  /\ UNCHANGED <<setting, keyVars, waiting, cache, shared, failed, presses, wanted>>
  /\ GivesUp

NothingToDrain ==
  /\ loop = "drain" /\ ~answered
  /\ loop' = "publish"
  /\ UNCHANGED <<setting, keyVars, waiting, active, answered, cache, shared, failed,
                 presses, wanted, stale>>

(* The snapshot of the adapter, under stateMutex, at the end of the loop.    *)
Publish ==
  /\ loop = "publish" /\ loop' = IF Infrared THEN "take" ELSE "tick"
  /\ shared' = cache
  /\ UNCHANGED <<setting, keyVars, waiting, active, answered, cache, failed,
                 presses, wanted, stale>>

Init ==
  /\ setting \in DOMAIN Start
  /\ shared \in Start[setting]
  /\ copy = shared /\ cache = shared /\ wanted = shared /\ got = shared
  /\ key = "idle" /\ pressed \in {k \in Keys(setting) : k.by = 1 /\ k.field = 1 /\ ~k.quick}
  /\ unread = {} /\ tests = 0
  /\ loop = IF Infrared THEN "take" ELSE "tick"
  /\ waiting = NoCommand /\ active = NoCommand /\ answered = FALSE
  /\ presses = 0 /\ stale = FALSE /\ failed = FALSE

UiTask ==
  \/ \E k \in Keys(setting) : CopyStates(k)
  \/ ReadGuard \/ Push \/ NoRoom
  \/ \E f \in unread : ReadField(f)
DeviceTask ==
  \/ Report \/ TimesOut \/ NotYet
  \/ Take \/ Refuse \/ TakeNothing
  \/ Complete \/ NothingToDrain \/ Publish
Next == UiTask \/ DeviceTask

Spec == Init /\ [][Next]_vars

-----------------------------------------------------------------------------
(* Values in range. *)
TypeOK ==
  /\ setting \in DOMAIN Start /\ pressed \in Keys(setting)
  /\ key \in {"idle", "guard", "read"} /\ unread \subseteq 1..Arity(setting) /\ tests \in 0..2
  /\ loop \in {"tick", "take", "drain", "publish"} /\ answered \in BOOLEAN
  /\ {copy, got, cache, shared, wanted} \subseteq Values(setting)
  /\ {waiting, active} \subseteq Values(setting) \cup {NoCommand}
  /\ presses \in 0..MaxPresses /\ stale \in BOOLEAN /\ failed \in BOOLEAN
  /\ key # "idle" => presses < MaxPresses

Newest == Latest(cache)

(* "rapid presses use the newest pending target rather than a stale          *)
(* snapshot" (README.md:192): the final value matches all presses, if every   *)
(* command was carried out.                                                  *)
EveryPressCounts == failed \/ Newest = wanted

(* A shift of the sweep leaves its width alone.                              *)
ShiftKeepsWidth ==
  setting = "Angles" => failed \/ Newest[2] - Newest[1] = wanted[2] - wanted[1]

(* Presses add up, in whatever order the two tasks run, as long as none of   *)
(* them falls between the completion of a command and the publication of its *)
(* effect, and every command is carried out.                                 *)
UnlessStale == stale \/ EveryPressCounts

(* What a key asks for is what the adapter takes: adapters and keys agree    *)
(* about every range.                                                         *)
AsksForWhatIsTaken == waiting # NoCommand => Takes(setting, waiting)

(* What the device shows is within reach of the keys: it could have been      *)
(* asked for, or the keys step from it into the range all the same.            *)
Reachable(s, v) ==
  s \in AcSettings \cup {"FanSpeed", "Angles", "Hsv"} =>
    Takes(s, v) \/ (s = "FanSpeed" /\ v[1] = 0)

(* No key asks for what its adapter refuses unless the device itself shows    *)
(* what it could not have been asked for: a sweep narrower than the adapter   *)
(* asks for (keys shift it, whatever its width), a speed or a colour out of   *)
(* range. Excepted are keys that went by a stale value, and the presets.      *)
(* Commands that fail or are refused meanwhile make no difference.            *)
RefusedOnlyOutOfReach ==
  ~stale /\ setting # "Preset" /\ Reachable(setting, cache) => AsksForWhatIsTaken
=============================================================================
