---------------------------- MODULE MCDysonAdapter ----------------------------
(* Two properties of two values: an older report can match a newer command.  *)
EXTENDS DysonAdapter

CONSTANTS power, night

MCKind == {power, night}
MCOneKind == {power}
MCValue == {0, 1}
=============================================================================
