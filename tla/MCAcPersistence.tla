---------------------------- MODULE MCAcPersistence ----------------------------
(* An absolute field at both ends of its range and one past it, a one-shot    *)
(* field, one that is toggled here but sent with its value, and Heat.          *)
EXTENDS AcPersistence

Do(kind, value) == [kind |-> kind, value |-> value]

MCCommand ==
  {Do("SetTemperature", 17), Do("SetTemperature", 31), Do("ToggleSwing", 0),
   Do("ToggleSleep", 0), Do("SetAcMode", Heat)}
=============================================================================
