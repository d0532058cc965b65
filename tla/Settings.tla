-------------------------------- MODULE Settings --------------------------------
(***************************************************************************)
(* The settings a key of the Cardputer changes by one step: what             *)
(* adjustSelected(), activateSelected() and handleQuickKey() of              *)
(* firmware/src/main.cpp ask for, given the newest value they know of, and    *)
(* what the adapters accept.                                                  *)
(*                                                                         *)
(* A setting is a property of the dispatcher: one device and one kind of      *)
(* command.  "AcSwitch" and "FanSwitch" stand for each switch of their        *)
(* device, "AcTimer" for both timers.  A value is the tuple of the command's  *)
(* value1, value2, value3; a switch is 0 or 1.                                *)
(***************************************************************************)
EXTENDS Integers, Sequences

CONSTANT PresetCount   \* presetCount_: the presets the lamp offers, at most 7

ASSUME PresetAssumption == PresetCount \in 0..7

AcSettings == {"AcSwitch", "Temperature", "AcMode", "AcFan", "AcTimer"}
FanSettings == {"FanSwitch", "FanSpeed", "Angles", "SleepTimer"}
LightSettings == {"LightPower", "Brightness", "ColorTemperature", "Hsv", "Effect", "Preset"}
Settings == AcSettings \cup FanSettings \cup LightSettings

(* The tuples of integers a setting is made of. *)
Arity(setting) == IF setting = "Hsv" THEN 3 ELSE IF setting = "Angles" THEN 2 ELSE 1
Values(setting) == [1..Arity(setting) -> Int]

(* A key: its direction, the field it is about, and whether it is a quick    *)
(* key that works otherwise than the page's keys.                            *)
Keys(setting) ==
  [by : {-1, 1}, field : IF setting = "Hsv" THEN {1, 2} ELSE {1},
   quick : IF setting \in {"Temperature", "FanSpeed", "Angles", "Brightness", "ColorTemperature"}
           THEN BOOLEAN ELSE {FALSE}]

(* The page's keys pass what they add up to constrain(), with these bounds.  *)
Bounds == [Temperature |-> <<17, 30>>, FanSpeed |-> <<1, 10>>, Brightness |-> <<1, 100>>,
           ColorTemperature |-> <<2500, 6500>>, Hsv |-> <<0, 100>>]
Constrained(setting, k, f) ==
  setting \in DOMAIN Bounds /\ ~k.quick /\ f = k.field /\ (setting = "Hsv" => f = 2)
Constrain(x, bounds) == IF x < bounds[1] THEN bounds[1] ELSE IF x > bounds[2] THEN bounds[2] ELSE x

(* x moved by a step, as the quick keys bound it: on the side it moves to.   *)
Moved(setting, k, step, x) ==
  IF ~k.quick THEN x + k.by * step
  ELSE IF k.by = -1 /\ x - step < Bounds[setting][1] THEN Bounds[setting][1]
  ELSE IF k.by = 1 /\ x + step > Bounds[setting][2] THEN Bounds[setting][2]
  ELSE x + k.by * step

(* A time left that is no step of the cycle counts as its first. *)
TimerSteps == <<0, 30, 60, 120>>
CycleTimer(current, by) ==
  LET index == IF \E i \in 1..4 : TimerSteps[i] = current
               THEN CHOOSE i \in 1..4 : TimerSteps[i] = current ELSE 1
  IN  TimerSteps[((index - 1 + by + 4) % 4) + 1]

(* nextLightGroupPowerTarget(): a mixed group (2) counts as switched on.     *)
Switched(value) == IF value = 0 THEN 1 ELSE 0

(* The quick key of the colour temperature goes to and fro between two.      *)
Kelvin(k, x) ==
  IF k.quick THEN IF x >= 4500 THEN 2700 ELSE 6500
  ELSE (IF x = 0 THEN 4000 ELSE x) + 500 * k.by

(* Field f of what is asked for, when its newest value is x. *)
Step(setting, k, f, x) ==
  CASE setting \in {"AcSwitch", "FanSwitch", "LightPower"} -> Switched(x)
    [] setting \in {"Temperature", "FanSpeed"} -> Moved(setting, k, 1, x)
    [] setting \in {"AcMode", "AcFan"} -> (x + k.by + 4) % 4
    [] setting \in {"AcTimer", "SleepTimer"} -> CycleTimer(x, k.by)
    [] setting = "Angles" -> x + 15 * k.by
    [] setting = "Brightness" -> Moved(setting, k, 10, x)
    [] setting = "ColorTemperature" -> Kelvin(k, x)
    [] setting = "Hsv" /\ f = k.field -> IF f = 1 THEN (x + 30 * k.by + 360) % 360 ELSE x + 10 * k.by
    [] setting = "Hsv" /\ f # k.field -> x
    [] setting = "Effect" -> (x + k.by + 3) % 3
    [] setting = "Preset" -> (x + k.by + 7) % 7

(* What a key asks for if nothing happens while it is handled. *)
Target(setting, k, v) ==
  [f \in DOMAIN v |-> IF Constrained(setting, k, f)
                      THEN Constrain(Step(setting, k, f, v[f]), Bounds[setting])
                      ELSE Step(setting, k, f, v[f])]

(* The sweep is not shifted past its limits. The quick keys look at the      *)
(* limit they move towards, the page's keys at both.                         *)
Shifts(k, v) ==
  /\ k.by = -1 \/ ~k.quick => v[1] + 15 * k.by >= 5
  /\ k.by = 1 \/ ~k.quick => v[2] + 15 * k.by <= 355

-----------------------------------------------------------------------------
(* What reduceAc() does not ignore, and what execute() of an adapter does not *)
(* answer with Unsupported.  Anything is good for a switch or a brightness.  *)
AcTakes(setting, v) ==
  /\ setting = "Temperature" => v[1] \in 17..30
  /\ setting \in {"AcMode", "AcFan"} => v[1] \in 0..3
  /\ setting = "AcTimer" => v[1] \in 0..1440

FanTakes(setting, v) ==
  /\ setting = "FanSpeed" => v[1] \in 1..10
  /\ setting = "Angles" => v[1] >= 5 /\ v[2] <= 355 /\ v[1] + 30 <= v[2]
  /\ setting = "SleepTimer" => v[1] \in 0..540

LampTakes(setting, v) ==
  /\ setting = "ColorTemperature" => v[1] \in 2500..6500
  /\ setting = "Hsv" => v[1] \in 0..360 /\ v[2] \in 0..100
  /\ setting = "Effect" => v[1] \in 0..2
  /\ setting = "Preset" => v[1] \in 0..PresetCount - 1

Takes(setting, v) == AcTakes(setting, v) /\ FanTakes(setting, v) /\ LampTakes(setting, v)

(* What the adapter's state may hold.  The air conditioner has only what it   *)
(* took.  The fan and the lamps report what they like, and the adapters store *)
(* it as wide as the field is: a sweep of any width, AUTO as speed 0.         *)
MayHold(setting, v) ==
  CASE setting \in {"AcSwitch", "FanSwitch"} -> v[1] \in 0..1
    [] setting \in {"Temperature", "AcMode", "AcFan", "AcTimer"} -> Takes(setting, v)
    [] setting \in {"FanSpeed", "Brightness"} -> v[1] \in 0..255
    [] setting = "Angles" -> v[1] \in 0..65535 /\ v[2] \in 0..65535
    [] setting = "SleepTimer" -> v[1] \in 0..32767
    [] setting = "LightPower" -> v[1] \in 0..2
    [] setting = "ColorTemperature" -> v[1] \in 0..65535
    [] setting = "Hsv" -> v[1] \in 0..65535 /\ v[2] \in 0..255 /\ v[3] \in 0..255
    [] setting = "Effect" -> v[1] \in 0..2 \cup {255}
    [] setting = "Preset" -> v[1] \in -1..6
=============================================================================
