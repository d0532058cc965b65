# A TLA+ model of the Cardputer Home Controller

The repository is the firmware of a hand-held controller (M5Cardputer, ESP32-S3)
for three families of devices: an RG57A air conditioner over infrared, a Dyson
TP09 fan over local MQTT, and a group of Tapo L530E lamps over the KLAP protocol.
This directory models the parts of the firmware that carry state across tasks,
messages, failures and restarts, checks them with TLC, and proves the core of
them with TLAPS. Paths below are relative to the repository's root.

## 1. Inventory

### Components, their state and operations

| component | source | state | operations |
|---|---|---|---|
| command dispatcher | `firmware/include/core/CommandDispatcher.h` | a table of 24 (network) or 16 (IR) entries, each free, queued or in flight, with command and sequence; next sequence | `push` (coalesces), `take`, `complete`, `latest`, each under one mutex held by the caller |
| tasks and the life of a command | `firmware/src/main.cpp` | two FreeRTOS tasks for devices (IR, network), one for the UI; an event queue of 24; pending icons | `enqueue`, `networkTask`, `irTask`, `forwardAdapterEvent`, `drainAdapterEvents`, `uiTask` |
| event buffer | `firmware/include/core/EventBuffer.h` | a ring that overwrites its oldest event | `push`, `pop` |
| Dyson adapter | `firmware/src/adapters/DysonAdapter.cpp` | MQTT session, cached host, retry and poll timers, cached fan state, 8 pending confirmations, 12 events | `begin`, `tick`, `execute`, `pollEvent`, `onMessage` |
| one Tapo lamp | `firmware/src/adapters/TapoAdapter.cpp`, `groupMode_` false | KLAP session, connection, cached lamp state, presets, poll timer, 8 pending confirmations | `begin`, `handshake`, `encryptedPost`, `request`, `loadPresets`, `tick`, `execute` |
| Tapo group | the same, `groupMode_` true | children (one per lamp), the group's own 8 slots with counters, the discovery timer | `begin`, `tick`, `refreshGroup`, `collectChildEvents`, `resolveGroupPending`, `execute` |
| Wi-Fi supervision | `main.cpp:859-887` | next attempt, delay, last address, link up at the last loop | the head of `networkTask`'s loop |
| configuration store | `firmware/src/ConfigStore.cpp` | two checksummed NVS slots, a legacy key, `revision_`, `activeSlot_` | `load`, `save` |
| A/C persistence, IR adapter | `main.cpp:818-857, 900-910`, `IrAdapter.cpp`, `StateReducer.h`, `ConfigStore.cpp:124-173` | the adapter's assumed state, its published copy with a revision, the stored copy, the debounce timer | `reduceAc`, `execute`, publication, debounced save, load at boot |
| setup portal | `firmware/src/SetupPortal.cpp`, `main.cpp:777-799, 936-982` | mode, start of the portal, the candidate, what the live adapters keep of earlier candidates | `begin`, `handleSave`, `tick`, `validateSetupCandidate` |
| what a key asks for | `main.cpp:493-628`, `StateReducer.h:47` | none of its own: reads the dispatcher and the published states | `adjustSelected`, `activateSelected`, `handleQuickKey`, `cycleTimer`, `nextLightGroupPowerTarget` |
| UI task | `main.cpp:46-77, 508-758` | page, selected item, sleeping, dimmed, last activity, keys that are down | `handleKeys`, `handleQuickKey`, `tickUiPower`, `wakeDisplay` |
| time and backoff helpers | `TimeUtils.h`, `ProtocolHelpers.h:30-33` | none | `deadlineReached`, `elapsedSince`, `nextReconnectDelay` |

### How they interact

    UI task --enqueue()--> dispatcher --take()--> network / IR task --execute()--> adapter
       ^                      ^                                                     |
       |                      +-- complete() <-- forwardAdapterEvent() <-- pollEvent()
       +---- event queue (24, never waits) <---------+
       +---- published device states (one mutex) <--- network / IR task

* The UI task is the only caller of `enqueue()` and `latest()`, each device task
  the only caller of `take()` and `complete()` of its dispatcher.
* An adapter answers `execute()` with a terminal event (the command leaves the
  dispatcher at once) or with Pending, and owes a terminal event later.
* The network task goes through one loop for Wi-Fi, both adapters' `tick()`, one
  command, the adapters' events, the A/C state's persistence and the publication
  of the device states. None of its I/O is under a lock.
* Adapters live as long as the program; `begin()` runs on every new link and
  inherits what the last session left.

### What is hard

Interleaving of the tasks between short critical sections; confirmations that race
the three-second deadline; tables and queues at their limit; rediscovery and new
links in the middle of unfinished commands; connections, lamps and addresses that
come and go; power loss in the middle of a save; clocks that wrap after 49.7 days;
state that survives in an adapter. `PROJECT.json` lists each place with the
properties that watch it.

### What makes each component correct

* dispatcher: one waiting and one active command per property, the newest press is
  the one found and the last one executed; the table fills up only with real work;
* life of a command: one owner for every command in flight, a settled icon, no
  lost answer, and every press settles;
* adapters: exactly one terminal event per Pending answer, and it comes; the cache
  tracks the device; success means what it says; a session that ended costs nothing; a
  device that is back is found;
* keys: presses add up, whatever the device's task is doing, and do not ask for what the
  adapter refuses unless the device itself is out of the keys' reach;
* A/C: the assumed state differs from the unit by the toggles it missed and no more;
* stores: what a save reported is what the next boot reads, or the save before;
* portal: only what was verified is stored, and setup ends;
* UI: the display sleeps and wakes as documented, and keys operate the device shown.

## 2. Modules

| module | models | composes |
|---|---|---|
| `PropertyMailbox` | abstract: what the dispatcher promises, a waiting and an active command per property | |
| `CommandDispatcher` | the table and its four operations | refines `PropertyMailbox` |
| `CommandLifecycle` | both ends of the dispatcher: UI task, network task, an adapter with its buffer, the event queue | extends `CommandDispatcher` |
| `CommandLifecycle_proofs` | the theorems about the two | extends `CommandLifecycle` |
| `AdapterContract` | abstract: one terminal event for each Pending answer | |
| `DysonAdapter` | the MQTT adapter inside the network task's loop, with the fan | refines `AdapterContract` |
| `DysonAdapter_proofs` | the theorems about it | extends `DysonAdapter` |
| `LampOutcome` | how a request to a lamp ends, and the connection state that belongs to it | |
| `LampRequest` | abstract: what `request()` promises | extends `LampOutcome` |
| `TapoChild` | one lamp's adapter, one HTTP exchange per step, with the lamp | extends `LampOutcome`, refines `LampRequest` |
| `TapoChild_proofs` | the theorems about it | extends `TapoChild` |
| `TapoGroup` | the group and its children inside the network task's loop, with the lamps | extends `LampOutcome`, refines `AdapterContract` |
| `TapoGroup_proofs` | the theorems about it | extends `TapoGroup` |
| `AtomicConfig` | abstract: a register whose write happens or does not | |
| `ConfigStore` | two slots, saves step by step, power loss at any step | refines `AtomicConfig` |
| `SetupPortal` | boot, submissions, validation on live adapters, the steps of the save, timeout | extends `ConfigStore` |
| `SetupPortal_proofs` | the theorems about the two | extends `SetupPortal` |
| `TimeUtils` | wrapping deadlines, the capped doubling of delays | |
| `WifiRetry` | the retry timer and new links | uses `TimeUtils` |
| `Settings` | what each key asks for, and what the adapters take | |
| `RapidPresses` | the keys of every setting against the loop of the network or IR task, lock by lock | extends `Settings` |
| `RapidPresses_proofs` | the theorems about it | extends `RapidPresses` |
| `AcState` | `reduceAc`, the frame with its pulses, and what a unit makes of it | |
| `AcPersistence` | IR task, lost frames, debounced save, power loss | extends `AcState` |
| `AcPersistence_proofs` | the theorems about it | extends `AcPersistence` |
| `UiTask` | keys, pages, wake and sleep | uses the clock of `TimeUtils` |
| `TimeUtils_proofs` | the theorems about what lives on that clock | extends `WifiRetry`, `UiTask` |

`LampRequest` is the joint between the two halves of the Tapo adapter: `TapoChild` shows
that all the handshakes, retries and lost messages of a request end in one outcome with
its connection state, and never in success without the lamp having acted; `TapoGroup` lets
each of its children end a request in exactly these ways (`ConnectionAfter`,
`MayBeCarriedOut`).

A module `MCx` gives `x` its model values; each `MCx*.cfg` is a run.

State and actions follow the code by name: variables keep the code's names where
it has them (`entries`, `nextSequence`, `pending`, `children`, `connection`,
`revision`), and there is one action for each operation together with the caller
that performs it, since callers hold the lock around more than one call (`Enqueue`
is `enqueue()` with `push()`, `Dispatch` is `take()` in the task, `Settle` is
`complete()` in `forwardAdapterEvent()`). Inside a task's loop a variable `pc` keeps
the order of the steps; what other tasks can see between two steps is a step. `map`
in `PROJECT.json` gives the lines of every definition. A definition `X_Something`
in front of `X` is `X` with one plausible mistake; no specification uses it, it is
there to show that a property would notice.

Abstractions that concern every module:

* Commands carry an identity and the property they set, not their payload, except
  where a property is about values (`RapidPresses`, `AcPersistence`, `TapoChild`,
  `TapoGroup`, `DysonAdapter`).
* Times are counted in loops of the task or in ticks of a small wrapping clock.
  A deadline is a countdown; whether an answer is read before or after is open.
* The devices, the router, the keyboard, MQTT, HTTP and the NVS library are
  outside; their behaviour is as nondeterministic as the code's use of them allows.

## 3. Runs

| run | asks | bounds | states |
|---|---|---|---|
| `MCCommandDispatcher` | does the table implement the mailboxes, with justified refusals? | 3 entries, 5 presses, one device, 2 absolute and 2 one-shot kinds | 69 487 |
| `MCCommandLifecycle` | is anything lost, leaked, doubled or reordered between the tasks, and does every press settle? | table 2, adapter slots 1, buffer 1, UI queue 2, 3 presses, 2 devices | 522 059 |
| `MCDysonAdapter` | one event per command, and it comes; does the cache track the fan; is a fan that is back connected to again? | 2 commands, 1 slot, an outage of any length (past the stale limit) or a new link, a change by the remote control | 286 158 |
| `MCTapoChild` | do requests end as promised, is an ended session invisible, was what is confirmed shown by the lamp, is a lamp that is back online again? | 2 commands of 8 kinds and values, 2 presets keys of which the lamp has one, 2 faults (lost messages, restarts, changes of reach or by another app), expiry at any request | 373 872 |
| `MCTapoGroup` | are a group's answers counted right, whatever happens to its children, and does every command get its event in time? | 2 lamps (symmetric), 2 commands, deadlines of 2 loops so that they overlap, 1 change of a lamp or of the link, any discovery result in any loop | 599 331 |
| `MCWifiRetry` | do the retries stay regular, do adapters follow the address? | clock of 64 ticks, uptime below half of it | 14 614 |
| `MCRapidPresses` | do presses of every setting add up, and is any refused without the device being out of reach? | 3 presses of any keys of one setting, 15 settings that start next to, at or beyond their limits (a sweep 20 degrees wide, speeds 0 and 12), any command unanswered or refused, 2 presets | 440 599 |
| `MCAcPersistence` | is the last A/C state kept, and does the unit agree with it? | 3 sends of 5 kinds of commands, any frame lost, 1 reboot, debounce 2 | 61 249 |
| `MCSetupPortal` | what can be stored, is the store one register for the next boot, does setup end? | 3 submissions, 3 boots, timeout 2, any write torn or refused | 47 237 |
| `MCUiTask` | sleep, wake, pages | clock of 6 ticks (wraps), menus of 3, 2 and 2 items, up to two keys down at once | 178 800 |
| `MCDysonAdapterStale` | violation, see below | no command, an outage of any length | |
| `MCRapidPressesCount` | violation, see below | 4 presses of the fan's speed | |

Why the bounds are enough: every table is small enough to be full and large enough
to hold a queued and an in-flight entry of a property next to another property's;
presses exceed the table; clocks wrap within the run or the run says that
they do not; two commands are enough to confuse the events of one with the other's;
two lamps are enough for partial success; two faults hit both attempts of one request;
three presses are one in flight, one waiting and one that replaces it; three submissions
write both slots and the first one again.

The models with bounded commands, saves or boots stop when the bound is used up, and
their configurations switch the deadlock check off for that reason.
`MCRapidPresses` and `MCUiTask` run for ever and check it.

Some invariants have no line of their own in the table above. `StoredMovesForward`,
`LifecycleTypeOK` and the `TypeOK` of `RapidPresses` and `WifiRetry` are proved (section 5);
the `TypeOK` of `ConfigStore` and `PortalTypeOK` are parts of `PortalInOrder`, and `DarkInTime` of
`DarkUntilTouched`. The `TypeOK` of `TapoGroup` is proved too, and holds in its run when added
to the configuration. The store has no run of its own: `MCSetupPortal` checks its refinement with
the portal, the only caller of `save()`, driving it.

### Statements of the repository that the code does not keep

Two of them are runs whose expected result is the violation (`PROJECT.json`,
`findings`):

* `MCDysonAdapterStale`, `FanIsHeardAgain`. `docs/hardware-acceptance.md:30` expects the
  fan back after a router restart. `tick()` looks at the age of the last report before
  it reads a packet, and `reconnect()` does not reset it (`DysonAdapter.cpp:128`): once a
  report is older than 90 s each new connection is dropped by the next `tick()`
  unless a report arrives within the very tick of the connection. What holds instead is
  `FanIsReconnected`.
* `MCRapidPressesCount`, `EveryPressCounts`. `README.md:192` says that rapid presses do
  not use a stale snapshot. They do between `complete()` and the publication
  (`main.cpp:804`, `911`). What holds instead is `UnlessStale`.

The others have a property in their module and a configuration next to it that
reproduces a behaviour; the run of the module states the condition under which all
is well.

| configuration, property | statement | what happens | the run's condition |
|---|---|---|---|
| `MCDysonAdapterReadback`, `SuccessMeansApplied` | success needs a readback (`CHANGELOG.md:33`) | an older report that matches confirms the command (`DysonAdapter.cpp:258`) | one event per command, true or not |
| `MCTapoGroupPartial`, `FullSuccessMeansEveryLamp` | no full success with a lamp unavailable (`docs/hardware-acceptance.md:26`) | offline lamps are not among the targets (`TapoAdapter.cpp:597`) | success of every target |
| `MCWifiRetryLate`, `RetryInTime` | clocks are wrap-safe (`README.md:217`) | the attempt timer 0 is not a time (`main.cpp:879`, `871`); the driver's own reconnection may mask it | uptime below 24.9 days |
| `MCTapoChild` with `PresetWasShown` as its invariant | success needs a readback (`CHANGELOG.md:33`) | a preset is confirmed by the index that `execute()` itself wrote (`TapoAdapter.cpp:676`) | the other kinds of commands |
| `MCRapidPressesPreset`, `AsksForWhatIsTaken` | the lamp's presets, up to seven (`docs/hardware-acceptance.md:24`) | the preset key counts modulo 7 and is stuck where the lamp has no preset (`main.cpp:554`) | presets excepted |
| the same with `Start <- MCNarrow` | a shift of the angle (`firmware/README.md:43`) | a reported sweep is stored whatever its width (`DysonAdapter.cpp:297`), the keys shift it without a look at the width (`main.cpp:531`, `604`, `610`), and the adapter refuses less than 30 degrees (`DysonAdapter.cpp:192`) | a device within reach |
| the same with `Start <- MCFastest` | `constrain(..., 1, 10)` in `adjustSelected()` | `constrain()` is a macro and reads the newest value anew for each comparison; when it is published in between, 11 is asked for and refused (`main.cpp:526`) | no stale read |
| `MCRapidPressesWidth`, `ShiftKeepsWidth` | a shift of the angle (`firmware/README.md:43`) | its two reads are not atomic (`main.cpp:611`) | no stale read |
| `MCSetupPortalOpenFails`, `SuccessIsDurable` | the last valid slot is used (`firmware/README.md:36`) | a save after a failed open may be older than the other slot (`ConfigStore.cpp:76`) | NVS opens at boot |
| `MCSetupPortalInert`, `SetupEnds` | no inert setup screen (`firmware/README.md:36`) | there is one if `softAP()` fails (`SetupPortal.cpp:29`, `85`) | the access point starts |
| `MCSetupPortalVerified`, `StoredWasVerified` | only verified configurations are stored (`firmware/README.md:33`) | a report of an earlier submission counts (`main.cpp:793`) | no wrong secret is stored |
| `MCUiTaskChord`, `WakeKeyOperatesNothing` | the key that wakes the display is never sent (`firmware/README.md:57`) | `handleKeys()` drops one change of the keyboard and forgets the key; if another key goes down, or comes up, before it is released, `keysState()` lists it again and it operates (`main.cpp:681`, `696`) | none: what holds of keys in the dark is `DarkUntilTouched` |

Two more observations that no property is about. A lamp that restarts between the two
handshakes answers the second one with 403, which is reported as a refused account
(`AuthFailed`) until the next poll (`Handshake2Refused`). And a command that was carried
out is reported as timed out when another app changes the lamp before the readback.

### What the properties mean

`RefusedOnlyWhenBusy` deserves a remark. Each absolute property occupies two entries
at most. The UI can enqueue 15 absolute kinds for the network (9 of the fan, 6 of
the lamps) and no one-shot, and the table has 24 entries: up to 11 properties
can be busy at once without any refusal, and only twelve or more that are
all queued and in flight at the same time fill the table.

`IconSettles` allows an icon to stay pending only after the UI queue was full when
its event was sent: the code does not wait and ignores the result.

`UnlessStale` says that the newest command, or the device, has the value that all presses
come to, counted one by one with `Target`, unless a press read a stale snapshot or a command
was not carried out (refused, offline or timed out). A press is stale, too, if it read part
of what it asks for from a command that was then given up.

`RefusedOnlyOutOfReach` is about the ranges, of which each key and each adapter has its own.
Most settings come into range with the next press, whatever the device shows: a brightness of
255, an effect of the lamp's own, a colour temperature of 0. Four do not, or not always, and
there the property asks that the device shows a value that could have been asked for (or, for
the fan's speed, 0, which is AUTO read as a number). It is stated of what the device shows now, so
that it holds again once a device has come back into reach; commands that fail or time out
meanwhile make no difference to it.

`UnitMatchesAssumption` keeps a history of the toggles the unit has missed. The firmware
cannot do better: the pulses have no answer. What would be wrong is a toggle sent twice, a
pulse without a change, or a field that a received frame does not bring up to date.

`SessionLossIsInvisible` looks at single requests: if one fails, something else than the
end of the session (by expiry here or by a restart of the lamp before) happened while it ran.

`EveryPendingAnswered` and `GroupAnsweredInTime` do not depend on the connection or
on the children being there: the deadline is evaluated on every path of `tick()`.

## 4. Fairness

`networkTask`, `irTask`, `uiTask` and `loop()` are endless loops that FreeRTOS
schedules on two cores; none waits for a lock held across I/O, and every I/O call
has a timeout. Weak fairness of each task's next step is therefore assumed, and
nothing stronger. In `DysonAdapter` the fan's handling of a message it has received
is also weakly fair, while it is on the network. Users, outages, losses of power
and remote controls are never fair. The liveness properties are `EveryPressSettles`,
`EveryPendingAnswered`, `FanIsReconnected` (premise: the fan
stays on the network from some time on), `LampComesBack` (premise: the lamp can be reached
and takes the account from some time on), `LastStateIsSaved` and `SetupEnds`. Two strong
fairness assumptions are made, each about something that keeps coming back: the poll of a
lamp falls due (`nextPollMs_` is a time, five seconds ahead), and a write to NVS is not refused
every time from some time on.

## 5. Proofs

`CommandLifecycle_proofs` is about `CommandDispatcher` first, for every capacity, every set of
devices and kinds and any number of presses. The assumptions are the module's own: the capacity and
the bound on presses are natural numbers, the capacity at least one, and the
coalescable kinds are kinds.

| theorem | establishes |
|---|---|
| `TypeCorrect` | `TypeOK` |
| `OneWaitingOneActiveAlways` | at most one queued and one in-flight entry for an absolute property |
| `LatestAlwaysNewest` | `latest()` finds the newest press that is not settled |
| `RefusalsAreJustified` | a refused press finds a table that real work has filled |
| `DispatcherImplementsMailbox` | every behaviour of the table is one of the mailboxes |

The argument. None of the properties is inductive: coalescing re-sequences an
entry, so that "the newest press has the highest sequence" depends on ids and
sequences being handed out together; and a queued entry may only be replaced if
nothing older of its property is queued. The invariant `IInv` adds

* `PressOrder`: ids and sequences of entries are in the same order;
* `CountersAhead`: both counters are ahead of everything in the table;
* `WaitingIsNewer`: a queued entry is newer than one in flight of its property;
* `NewestIsHeld`: the newest unsettled press of a property is in the table.

Each operation is shown to keep each part. `RefusalsAreJustified` then counts:
with no free entry, the entries that are not one-shots map one to one into pairs of
an unfinished property and one of two states. The refinement maps the queued entry
of a property to the waiting command and the one in flight to the active one; take,
complete and push are a step of the mailbox each, a push that finds no entry is a
stutter.

Its second half, about `CommandLifecycle`, takes the table's `IInv` from the first (every step of
the tasks is a step of the table or leaves it alone, `LifecycleStepsTable`) and holds for every size of the
pending tables, event buffers and the UI queue, any devices, kinds and deadlines. Its
assumption (`SlotsAssumption`) is that an event buffer is no smaller than the pending table
that feeds it: 12 and 20 against 8.

| theorem | establishes |
|---|---|
| `LifecycleTypeCorrect` | `LifecycleTypeOK` |
| `EveryInflightIsOwned` | `InflightHasOneOwner` |
| `LastExecutedAlwaysNewest` | `LastExecutedIsNewest` |
| `ExecutionAlwaysFollowsPresses` | `ExecutionFollowsPresses` |
| `IconAlwaysSettles` | `IconSettles` |

The argument has three invariants. `LInv` strengthens `InflightHasOneOwner`: the task's local
command and event fit the point of the loop (`PhaseFits`), and, since a loop begins only when
the buffers are drained, during `tick()` a device's pending slots and buffered events together
are no more than its slots (`Room`), so that `EventBuffer::push` never overwrites the event of
a command in flight. That a terminal event frees the slot of its own device's command follows
from ids being unique in the table (`ForwardFacts`). `EInv` adds that nothing in the table is
older than what was executed of its property (`ExecutedInOrder`), and that a property with
nothing waiting has its newest press in `execute()` or behind it (`NewestReached`). `VInv` adds
that a device whose icon is or will turn to pending has a command in the table, a terminal
event about to be sent, or one in the queue behind every pending one (`IconFollows`).

`SetupPortal_proofs` is about `ConfigStore` first, for every set of configurations, any number of saves and
any initial legacy key.

| theorem | establishes | assumes |
|---|---|---|
| `StoreTypeCorrect` | `TypeOK` | |
| `StoreInvariant` | the inductive invariant `IInv` | NVS opens at every boot |
| `StoreImplementsRegister` | `ImplementsRegister`: the slots are one atomic durable register | NVS opens at every boot |

The assumption is the constant `LoadMayFail` being false; with a boot that cannot open
NVS the refinement is false (`MCSetupPortalOpenFails`: two saves, a boot that cannot open
NVS, and a save that the next boot does not select). The argument: the register's
value is the selected slot, so a write must never touch the slot that is selected while
a save is undecided. `IInv` adds

* `RevisionsDiffer`: two valid slots never tie, so that what `load()` selects is unique;
* `ActiveIsSettled`: the active slot is valid and holds `revision_`; the other one is
  older, or one revision ahead, left by a save that was not reported as successful;
* `OffIsBlank`: before `load()` nothing of an earlier boot is in RAM.

Then the write leaves in the target the new value (which is selected, its revision
being the highest), an unreadable one (the active slot or the legacy key is selected)
or what was there (a stutter), and each is a step of the register.

Its second half, about `SetupPortal`, holds for any number of submissions and boots, any timeout
and any writes that are torn, refused or cut off.

| theorem | establishes | assumes |
|---|---|---|
| `PortalTypeCorrect` | `PortalTypeOK` | |
| `PortalAlwaysInOrder` | `PortalInOrder`: types, `RevisionsDiffer` and `ActiveIsSettled` | NVS opens at every boot |
| `WrongSecretsAreNeverStored` | `StoredHasNoWrongSecret` | |
| `PortalImplementsRegister` | `ImplementsRegister` with the portal as the caller | NVS opens at every boot |

The argument. A form that is past a check lacks the fault that it looks for (`FormFits`), what
`save()` writes is that form (`CandidateIsForm`), and nothing in flash or in use has a fault but
the type of the fan (`RightEverywhere`); a loss of power at any step of the save leaves it so.
For the order of the slots and the register the portal's steps are the store's, or leave it
alone; its one assignment to the configuration in use happens when that is what is stored (`SavedIsStored`).

`TimeUtils_proofs` holds for every range of the clock. Its first part, about `WifiRetry`, holds for
every delay and set of addresses.

| theorem | establishes | assumes |
|---|---|---|
| `WifiTypeCorrect` | `TypeOK` | |
| `AdaptersAlwaysFollow` | `AdaptersFollowAddress` | |
| `RetriesComeInTime` | `RetryInTime` | uptime below half the range of the clock |

The argument. The last address the loop has seen is the one the adapters were begun with
(`LastIsBegun`), and what the loop has sampled is the link's state if that has not changed
since (`SampleIsRight`). The next attempt is at most the longest delay after the last one
(`AttemptComes`); below half the range the wrapping comparison is the true one. With longer
uptimes `RetryInTime` is false (`MCWifiRetryLate`).

The UI's part holds for any set of keys, any menus, any number of keys held down together and
any times to dim and to sleep within the range of the clock.

| theorem | establishes | assumes |
|---|---|---|
| `UiTypeCorrect` | `UiTypeOK` | |
| `CommandsReachThePageShown` | `CommandsGoToThePageShown` | |
| `DarkDisplayStaysDark` | `DarkUntilTouched` | |

The argument. `GoodUi` says of the four values a key reads and writes that a device's page has
its device selected, and so has every command enqueued on such a page; each kind of key keeps it
(`HandleKeyGood`), so that all the keys of one call do, in whatever order the keyboard lists
them (`AfterKeysGood`). That last step is an induction over the keys. The library's induction
theorems cannot be instantiated, so it is done by the least counterexample:
`NatInductive` follows from every set of numbers having a least one (`LeastNumber`, from
`WFMin`), and it also shows that the function which `AfterKeys` defines by recursion exists
(`AfterKeysExists`). `MCUiTask` has up to two
keys down at once; the theorems need no bound.

`RapidPresses_proofs` holds for any number of presses of any keys, at any moments of the
task's loop. The assumptions (`RapidAssumption`, `StartAssumption`, `PresetAssumption`): the device starts
with any value that the adapter's state can hold (`MayHold`: what a fan or a lamp reports is
stored unchecked, as wide as the field is), and the lamp has at most seven presets.

| theorem | establishes |
|---|---|
| `RapidTypeCorrect` | `TypeOK` |
| `PressesAddUp` | `UnlessStale` |
| `KeysStayInRange` | `RefusedOnlyOutOfReach` |

The argument. While nothing was stale or failed, the newest command (or the published
value) is what the presses come to (`UnlessStale` itself), and a key that is being handled has read, for
each field it is past, what it is to ask for (`ReadRight`), and, within `constrain()`, has found
out about the same value (`TestedRight`): in the middle of a key only the device's task
runs, and each of its steps either leaves `effectiveValue()` alone or makes the key's copy
stale. `GuardedRight` says the same of the test for room of the sweep. What a key has
read so far (`Reads`) does not depend on how commands end, for a command that is given up in
the middle of a key makes it stale; only the sum does. What is in flight was taken
(`ActiveTaken`), so that while something is, or the device is within reach, the one waiting
can be taken as well (`WaitingTaken`); `TargetTaken` shows, setting by setting, that a key
leads from a value within reach to one that may be asked for. An event in the adapter's buffer is
that of the command in flight (`AnsweredRight`).

`AcPersistence_proofs` holds for any commands, with any values, any number of sends and
boots and any debounce.

| theorem | establishes |
|---|---|
| `AcTypeCorrect` | `TypeOK`: every state sent, published or stored has its fields in range |
| `PersistedAlwaysStored` | `PersistedIsStored` |
| `UnitAlwaysMatches` | `UnitMatchesAssumption` |
| `StoredAlwaysMovesForward` | `StoredMovesForward` |

The argument. A revision has one state (`SentIsKnown`: the published one, the copy to be saved
and the stored one are those of their revisions, and saved is at most copied is at most
published), power loss forgets all of them (`OffIsBlank`), and the fields in which the unit
differs are the history of missed toggles (`Drifted`) or, once a frame was received, none
(`Heard`): `ReducedOneShot` shows that a one-shot field changes exactly if the frame carries its
pulse, and `ObeyedMatches` that a received frame keeps the difference.

`DysonAdapter_proofs` holds for any kinds and values of the fan's properties, any number of
commands, slots and losses of the link, and any deadline, poll interval and stale limit.

| theorem | establishes |
|---|---|
| `DysonTypeCorrect` | `TypeOK` |
| `CacheIsTheFan` | `CacheTracksFan` |
| `DysonImplementsContract` | `ImplementsContract` |

The argument. `IInv` has four parts that depend on each other in one direction only. `LinkInv`
and `MessagesInv` keep the types of the session and of the messages under way. `TableInv` says
that a command has one slot or one event, never both, and only if it was executed, which makes
the adapter's steps those of `AdapterContract`: `execute()` accepts, resolving a slot and taking
its event are a step each, and everything else is a stutter. `CacheTracksFan` alone is not
inductive, since it says nothing while a message is under way. `TrackInv` does: while the session
lasts, the last report that waits is the fan's state, and if none waits the cache is
that state or a request for it is on its way. A new session has asked for it, the fan reports
each change, and it answers a request with what it then is; a report that is read leaves either
a later one or itself as the cache.

`TapoChild_proofs` holds for any commands in the adapter's ranges, any presets of the lamp, any
number of slots and faults.

| theorem | establishes |
|---|---|
| `TapoChildTypeCorrect` | `TypeOK` |
| `EndedSessionIsInvisible` | `SessionLossIsInvisible` |
| `ConfirmedIsReadBack` | `ConfirmedWasShown` |
| `ChildImplementsLampRequest` | `ImplementsLampRequest` |

The argument. `TypeInv` adds to `TypeOK` that the command of the request under way is one that
was issued (`CommandFits`) and that a lamp held to be online has left its keys
(`KeysWhenOnline`). A request whose post was refused throws its keys away and makes new ones;
`SessionInv` says that unless something else happens the lamp's end of the new session is where
the last message left it, so that the second post is not refused. For a confirmation,
`AnswerWitnessed` says that a pending command whose fields are in the answer to a poll counts as
shown by the lamp, and `CacheWitnessed` that a slot marked as reported agrees with the cache only
if its command was so shown; presets are excepted, as `execute()` writes their index into the
cache itself. The lamp, its answer and the cache keep `power` a Boolean (`PowerOK`). The refinement maps a whole request to `Ask`,
exchanges and one `Return`.

`TapoGroup_proofs` holds for any finite set of lamps, any values, any numbers of commands and
slots and any deadline.

| theorem | establishes |
|---|---|
| `TapoGroupTypeCorrect` | `TypeOK` |
| `EveryLampCountedOnce` | `CountsEachLampOnce` |
| `FullSuccessWasCarriedOut` | `FullSuccessIsReal` |
| `GroupDeadlineIsKept` | `GroupAnsweredInTime` |
| `GroupImplementsContract` | `ImplementsContract` |

The argument is about counting. A child has one slot or one event for a command, never both
(`OnceEach`), and events exist only during `tick()`, of children it has called (`AnswersInv`).
`GroupFits` relates a group's counters to the sets behind them: what it has counted and what is
still owed are no more than its targets, and the lamps it has counted as successful together with
those that still owe an answer are no more than those that carried the command out. A
lamp that owes its answer has already acted, since `execute()` of a child takes a slot only after
its request succeeded; this is where `LampRequest` comes in. When the events of a loop are
collected, those of one command come from different lamps (`EventsOfLamps`), so that adding their
number to the counters takes the same number from what is owed (`CountedFits`). A rediscovery
drops slots, which only lowers what is owed. The type invariant needs a separate part,
`RoomInv`: no child has more slots than it has room for, and the group's own table is never
overfull.

What is model-checked only: liveness, for TLAPS has no ENABLED and no fairness reasoning here
(`EveryPressSettles`, `EveryPendingAnswered`, `FanIsReconnected`, `LampComesBack`,
`LastStateIsSaved`, `SetupEnds`). Every safety property of a passing run is a theorem. Three
of them have a hypothesis, named in the tables above: `ImplementsRegister`, `PortalInOrder` and
`RetryInTime`; section 3 shows what happens without it.

## 6. What is not modelled, and why

* Drawing, HTML, HTTP routing, logging: output without an effect on the state.
* The hashes and ciphers of KLAP, the UDP discovery packets and the bytes of the Midea
  frame: functions with fixed vectors in the native tests. `TapoChild` keeps whether both
  sides hold the same session; discovery's result is an input of `TapoGroup`.
* The frames that a timer of the A/C sends by itself: `AcState` reduces the timers' commands
  and leaves their own frame out.
* Commands of the fan that its adapter refuses at once (unsupported, a publication that
  fails): answered like a command to a device that is offline, within the same step and
  without a trace. What is out of range for an adapter is in `Settings` and `TapoChild`.
* `TogglePower` and `Refresh` of the network devices, which the UI never enqueues, other
  than `Refresh` in `TapoChild`.
* Half-open TCP sessions: in `DysonAdapter` a fan that leaves takes the session with it at
  once (`FanLeaves`), while `mqtt_.connected()` may stay true for a while in the code. Until the
  keep-alive ends it, such a session is one without reports; the stale check ends it at the
  latest.
* A command that is carried out after its deadline: in `RapidPresses` a command that timed
  out never reaches the device, in `DysonAdapter` and `TapoChild` it may.
* What `updateGroupState()` shows of a group whose lamps differ, other than that its power
  counts as on; the order of children within the group; `health()`.
* The real length of a loop: whether a blocking lamp delays the fan's confirmation
  beyond its deadline is open in the models in either direction, and that the IR task
  is not held up by the network task's calls holds in them by the two tasks being two.
* Wrap of the 32-bit ids and sequences, after 2^32 presses.
* The setup screen, the battery readings, the thresholds of the motion sensor.
* `CommandQueue.h` (tests only), the rest of `ProtocolHelpers.h` (byte-level and stateless),
  the Python probe, scripts and tests.

## 7. Plan

Done: the core of the system, each lamp's own adapter, every key, the A/C unit and the
portal over the store, and proofs of every safety property. The suite is held to one run per
module (two more show a disagreement), so that each further step extends a module or replaces a
run by that of a composition. Next:

1. A composition of `CommandLifecycle` with `DysonAdapter` and `TapoGroup` behind
   `AdapterContract`, replacing the generic adapter of `CommandLifecycle`; `WifiRetry` over
   `DysonAdapter`.
2. `updateGroupState()` with a group whose lamps differ.
3. The Python probe's snapshot, write and restore.
