----------------------------- MODULE MCTapoChild ------------------------------
(* Commands that share fields with values that differ, from each other and    *)
(* from what the cache starts with; a preset the lamp has and one it has not;  *)
(* and a lamp that is on while the cache starts with it off.  Two faults hit   *)
(* both attempts of one request.                                               *)
EXTENDS TapoChild

Do(kind, v1, v2, v3) == [kind |-> kind, value1 |-> v1, value2 |-> v2, value3 |-> v3]

MCCommand ==
  {Do("SetPower", 0, 0, 0), Do("SetBrightness", 1, 0, 0),
   Do("SetColorTemperature", 6500, 0, 0), Do("SetHsv", 360, 100, 50),
   Do("SetLightEffect", 1, 0, 0), Do("ApplyLightPreset", 0, 0, 0),
   Do("ApplyLightPreset", 1, 0, 0), Do("Refresh", 0, 0, 0)}

MCPresets == <<[brightness |-> 20, temperature |-> 2700]>>

MCLamps ==
  {[power |-> TRUE, brightness |-> 100, temperature |-> 2500, hue |-> 0,
    saturation |-> 0, effect |-> 0]}
=============================================================================
