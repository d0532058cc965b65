------------------------- MODULE MCCommandDispatcher -------------------------
(* Two absolute properties and two one-shots of one device, fewer slots than *)
(* presses: coalescing, blocking, refusal and reuse of a slot all happen.    *)
EXTENDS CommandDispatcher

CONSTANTS ac, setPower, setTemperature, toggleSwing, toggleEco

MCDevice == {ac}
MCKind == {setPower, setTemperature, toggleSwing, toggleEco}
MCCoalescable == {setPower, setTemperature}
=============================================================================
