---------------------------- MODULE MCRapidPresses ----------------------------
(* Every setting, from values next to, at or beyond its limits: three presses  *)
(* are one in flight, one waiting and one that replaces it.                    *)
EXTENDS RapidPresses

One(values) == {<<v>> : v \in values}
MCStart ==
  [AcSwitch |-> One({0}), Temperature |-> One({18, 29}), AcMode |-> One({0}),
   AcFan |-> One({3}), AcTimer |-> One({0}),
   FanSwitch |-> One({1}), FanSpeed |-> One({0, 9, 12}),
   Angles |-> {<<20, 340>>, <<35, 320>>, <<100, 120>>},
   SleepTimer |-> One({0, 45}),
   LightPower |-> One({2}), Brightness |-> One({11, 100}), ColorTemperature |-> One({0, 6000}),
   Hsv |-> {<<0, 90, 50>>}, Effect |-> One({0}), Preset |-> One({-1, 1})]

MCSpeed == [FanSpeed |-> One({9})]
MCSweep == [Angles |-> {<<35, 320>>}]
MCPreset == [Preset |-> One({0})]
MCNarrow == [Angles |-> {<<100, 120>>}]
MCFastest == [FanSpeed |-> One({10})]
=============================================================================
