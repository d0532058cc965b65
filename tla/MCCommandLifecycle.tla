------------------------- MODULE MCCommandLifecycle --------------------------
(* Two devices, one absolute property and one one-shot each, a table smaller *)
(* than the presses: refusal, coalescing, a full pending table and a full    *)
(* event queue all happen.                                                    *)
EXTENDS CommandLifecycle

CONSTANTS dyson, light, setPower, togglePower

MCDevice == {dyson, light}
MCOneDevice == {dyson}
MCKind == {setPower, togglePower}
MCCoalescable == {setPower}
=============================================================================
