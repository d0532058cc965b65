------------------------------- MODULE AcState --------------------------------
(***************************************************************************)
(* The state of the RG57A air conditioner as the Cardputer assumes it:       *)
(* AcState of core/Models.h, reduceAc() of core/StateReducer.h, the frame    *)
(* IrAdapter makes of it, and what loadAcState() takes back from NVS.         *)
(* Modes and fan speeds are the numbers of their enumerations.                *)
(***************************************************************************)
EXTENDS Naturals

Cool == 1
Heat == 4

AcStates ==
  [power : BOOLEAN, temperature : 17..30, mode : 0..3, fan : 0..3,
   swing : BOOLEAN, sleep : BOOLEAN, turbo : BOOLEAN, eco : BOOLEAN,
   clean : BOOLEAN, led : BOOLEAN, onTimer : 0..1440, offTimer : 0..1440]

DefaultAc ==
  [power |-> FALSE, temperature |-> 24, mode |-> Cool, fan |-> 0,
   swing |-> FALSE, sleep |-> FALSE, turbo |-> FALSE, eco |-> FALSE,
   clean |-> FALSE, led |-> TRUE, onTimer |-> 0, offTimer |-> 0]

(* The field each command sets to its value, or toggles. *)
Sets == [SetPower |-> "power", SetTemperature |-> "temperature", SetAcMode |-> "mode",
         SetFanSpeed |-> "fan", SetAcOnTimer |-> "onTimer", SetAcOffTimer |-> "offTimer"]
Toggles == [TogglePower |-> "power", ToggleSwing |-> "swing", ToggleSleep |-> "sleep",
            ToggleTurbo |-> "turbo", ToggleEco |-> "eco", ToggleClean |-> "clean",
            ToggleLed |-> "led"]

(* A value out of range leaves the state as it is. *)
InRange_OneMore(c) ==
  CASE c.kind = "SetPower" -> TRUE
    [] c.kind = "SetTemperature" -> c.value \in 17..31
    [] c.kind \in {"SetAcMode", "SetFanSpeed"} -> c.value \in 0..3
    [] c.kind \in {"SetAcOnTimer", "SetAcOffTimer"} -> c.value \in 0..1440

InRange(c) ==
  CASE c.kind = "SetPower" -> TRUE
    [] c.kind = "SetTemperature" -> c.value \in 17..30
    [] c.kind \in {"SetAcMode", "SetFanSpeed"} -> c.value \in 0..3
    [] c.kind \in {"SetAcOnTimer", "SetAcOffTimer"} -> c.value \in 0..1440

Reduced(s, c) ==
  IF c.kind \in DOMAIN Toggles THEN [s EXCEPT ![Toggles[c.kind]] = ~@]
  ELSE IF c.kind \in DOMAIN Sets /\ InRange(c)
       THEN [s EXCEPT ![Sets[c.kind]] = IF c.kind = "SetPower" THEN c.value # 0 ELSE c.value]
       ELSE s

-----------------------------------------------------------------------------
(* The frame of applyState(): some fields go out with their values, the      *)
(* others only as a pulse that makes the unit toggle.  Timers are set by      *)
(* frames of their own, which are left out.                                   *)

Absolute == {"power", "temperature", "mode", "fan", "sleep"}
OneShot == {"swing", "turbo", "eco", "clean", "led"}

(* A pulse is sent on every transition, the one to off included.             *)
Pulses_OnlyToOn(before, c) ==
  {f \in OneShot : c.kind \in DOMAIN Toggles /\ Toggles[c.kind] = f /\ ~before[f]}

Pulses(before, c) == {f \in OneShot : c.kind \in DOMAIN Toggles /\ Toggles[c.kind] = f}

(* What the unit makes of a frame that it receives. *)
Obeyed(unit, s, pulses) ==
  [f \in DOMAIN unit |-> IF f \in Absolute THEN s[f]
                         ELSE IF f \in pulses THEN ~unit[f] ELSE unit[f]]

(* Only Heat is refused: no frame is verified for it. *)
Refused(c) == c.kind = "SetAcMode" /\ c.value = Heat
=============================================================================
