-------------------------------- MODULE UiTask --------------------------------
(***************************************************************************)
(* uiTask() of firmware/src/main.cpp: dimming, sleeping and waking the       *)
(* display, and what a key does on the page it is pressed on.                *)
(*                                                                         *)
(* The keyboard reports a change of the keys held down; handleKeys() then    *)
(* goes through every key that is down, the ones held since before as well.  *)
(* What a command asks for is left to RapidPresses and CommandDispatcher:    *)
(* here it is the key, the page and the device it goes to.                    *)
(***************************************************************************)
EXTENDS TimeUtils, SequencesExt

CONSTANTS
  Key,        \* the keys pressed: names of those handled, "tab" and "enter"
  Items,      \* itemCount() of each device: 12, 9 and 7
  MaxHeld,    \* bound: keys held down together
  DimAfter,   \* 30 s
  SleepAfter  \* 120 s

VARIABLES
  page,            \* currentPage
  selectedDevice,
  selectedItem,
  dimmed,
  sleeping,
  idle,            \* elapsedSince(now, lastActivityMs)
  held,            \* the keys down
  commands,        \* the commands the last change of the keys enqueued
  wokenBy          \* history: keys still down since they woke the display

pageVars == <<page, selectedDevice, selectedItem>>
uiVars == <<pageVars, dimmed, sleeping, idle, held, commands, wokenBy>>

Pages == <<"Quick", "Ac", "Dyson", "DysonAir", "Light", "Diagnostics">>
DeviceOf == [Ac |-> "Ac", Dyson |-> "Dyson", Light |-> "Light"]
Device == DOMAIN DeviceOf

ASSUME UiAssumption ==
  /\ Key \subseteq STRING
  /\ Items \in [Device -> Nat \ {0}] /\ MaxHeld \in Nat
  /\ DimAfter \in Nat \ {0} /\ SleepAfter \in Nat
  /\ DimAfter < SleepAfter /\ SleepAfter < ClockRange

PageKeys == [k \in {"0", "1", "2", "3", "4", "i"} |->
               CASE k = "0" -> "Quick" [] k = "1" -> "Ac" [] k = "2" -> "Dyson"
                 [] k = "3" -> "Light" [] k = "4" -> "DysonAir" [] k = "i" -> "Diagnostics"]
QuickDevice == [k \in {"q", "w", "e", "r", "a", "s", "d", "f", "g", "h", "z", "x", "c", "v"} |->
                  CASE k \in {"q", "w", "e", "r"} -> "Ac"
                    [] k \in {"a", "s", "d", "f", "g", "h"} -> "Dyson"
                    [] k \in {"z", "x", "c", "v"} -> "Light"]

-----------------------------------------------------------------------------
(* One key of handleKeys(), on the UI state u: page, device, item, commands.  *)

UiState == [page |-> page, device |-> selectedDevice, item |-> selectedItem, out |-> {}]

Turned_KeepsDevice(u, p) == [u EXCEPT !.page = p]

(* A device page selects its device. *)
Turned(u, p) ==
  [u EXCEPT !.page = p, !.device = IF p \in Device THEN DeviceOf[p] ELSE @]

Enqueued(u, k, device) ==
  [u EXCEPT !.out = @ \cup {[key |-> k, page |-> u.page, device |-> device]}]

Moved_NoWrap(u, by) == [u EXCEPT !.item[u.device] = @ + by]
Moved(u, by) == [u EXCEPT !.item[u.device] = (@ + by) % Items[u.device]]

HandleKey(k, u) ==
  CASE k \in DOMAIN PageKeys -> Turned(u, PageKeys[k])
    [] k \notin DOMAIN PageKeys /\ u.page = "Quick" ->
         IF k \in DOMAIN QuickDevice THEN Enqueued(u, k, QuickDevice[k]) ELSE u
    [] k \notin DOMAIN PageKeys /\ u.page \in Device ->
         CASE k \in {"w", "k"} -> Moved(u, Items[u.device] - 1)
           [] k \in {"s", "j"} -> Moved(u, 1)
           [] k \in {"a", "h", "d", "l", " "} -> Enqueued(u, k, u.device)
           [] OTHER -> u
    [] OTHER -> u

NextPage == LET i == CHOOSE n \in DOMAIN Pages : Pages[n] = page
            IN Pages[(i % Len(Pages)) + 1]

(* The UI state after each of the keys, from the state u before the first.    *)
AfterKeys(u, order) ==
  LET after[n \in 0..Len(order)] ==
        IF n = 0 THEN u ELSE HandleKey(order[n], after[n - 1])
  IN after

(* Tab turns the page and ends the call; Enter acts on the item; then every  *)
(* other key that is down, in the order the keyboard lists them.              *)
Entered(keys) ==
  IF "enter" \in keys /\ page \in Device
  THEN Enqueued(UiState, "enter", selectedDevice) ELSE UiState

Handled(keys, order) ==
  IF "tab" \in keys THEN Turned(UiState, NextPage)
  ELSE AfterKeys(Entered(keys), order)[Len(order)]

-----------------------------------------------------------------------------
Released == held' = {} /\ commands' = {}

(* The display is dark: the keys only wake it.                               *)
WakeByKey(order) ==
  /\ held' # {} /\ (dimmed \/ sleeping)
  /\ dimmed' = FALSE /\ sleeping' = FALSE /\ idle' = 0
  /\ commands' = {}
  /\ wokenBy' = held'
  /\ UNCHANGED pageVars

Operate(order) ==
  LET u == Handled(held', order) IN
  /\ held' # {} /\ ~dimmed /\ ~sleeping
  /\ idle' = 0
  /\ page' = u.page /\ selectedDevice' = u.device /\ selectedItem' = u.item
  /\ commands' = u.out
  /\ wokenBy' = wokenBy \cap held'
  /\ UNCHANGED <<dimmed, sleeping>>

KeyDown(k) == k \notin held /\ Cardinality(held) < MaxHeld /\ held' = held \cup {k}
KeyUp(k) == k \in held /\ held' = held \ {k}

(* handleKeys(): a change of the keys held down, at least one being down.    *)
KeysChange(k) ==
  /\ KeyDown(k) \/ KeyUp(k)
  /\ \/ /\ Released /\ wokenBy' = {}
        /\ UNCHANGED <<pageVars, dimmed, sleeping, idle>>
     \/ \E order \in SetToSeqs(held' \ {"tab", "enter"}) :
          WakeByKey(order) \/ Operate(order)

(* tickUiPower(): motion wakes; a long idle time dims, then sleeps.          *)
TickPower_Rewakes(motion) ==
  /\ idle' = IF motion THEN 0 ELSE (idle + 1) % ClockRange
  /\ dimmed' = (~motion /\ idle' >= DimAfter)
  /\ sleeping' = (~motion /\ idle' >= SleepAfter)
  /\ UNCHANGED <<pageVars, held, commands, wokenBy>>

TickPower(motion) ==
  /\ idle' = IF motion THEN 0 ELSE (idle + 1) % ClockRange
  /\ dimmed' = (~motion /\ (dimmed \/ idle' >= DimAfter))
  /\ sleeping' = (~motion /\ (sleeping \/ idle' >= SleepAfter))
  /\ UNCHANGED <<pageVars, held, commands, wokenBy>>

UiInit ==
  /\ page = "Quick" /\ selectedDevice = "Ac"
  /\ selectedItem = [d \in Device |-> 0]
  /\ dimmed = FALSE /\ sleeping = FALSE /\ idle = 0
  /\ held = {} /\ commands = {} /\ wokenBy = {}

UiNext ==
  \/ \E k \in Key : KeysChange(k)
  \/ \E motion \in BOOLEAN : TickPower(motion)

UiSpec == UiInit /\ [][UiNext]_uiVars

-----------------------------------------------------------------------------
(* Values in range. *)
UiTypeOK ==
  /\ page \in Range(Pages) /\ selectedDevice \in Device
  /\ selectedItem \in [Device -> Nat] /\ \A d \in Device : selectedItem[d] < Items[d]
  /\ {dimmed, sleeping} \subseteq BOOLEAN /\ idle \in Ticks
  /\ held \subseteq Key /\ wokenBy \subseteq held
  /\ commands \subseteq [key : Key, page : Range(Pages), device : Device]

(* "that first wake key is consumed and never sent as an appliance command"  *)
(* (firmware/README.md:57): as long as it is down, it operates nothing.  The  *)
(* code keeps that until another key goes down or up: handleKeys() then takes *)
(* every key that is down for a key press (main.cpp:685-702).                 *)
WakeKeyOperatesNothing == \A c \in commands : c.key \notin wokenBy

(* On a device page every command goes to the device shown, whatever pages   *)
(* and keys came before.                                                      *)
CommandsGoToThePageShown ==
  \A c \in commands : c.page \in Device => c.device = DeviceOf[c.page]

(* The display dims and sleeps in time, and a display that sleeps is dimmed, *)
(* so that the first key is always known as the one that wakes it.            *)
DarkInTime ==
  /\ idle >= DimAfter => dimmed
  /\ idle >= SleepAfter => sleeping
  /\ sleeping => dimmed

(* A display dark in time becomes brighter by a key or by motion only: time  *)
(* alone never wakes it, not when the clock wraps after 49 days either.       *)
DarkUntilTouched ==
  /\ []DarkInTime
  /\ [][TickPower(FALSE) => (dimmed => dimmed') /\ (sleeping => sleeping')]_uiVars
=============================================================================
