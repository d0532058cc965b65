------------------------------ MODULE MCWifiRetry ------------------------------
(* Two addresses; a clock whose lower half outlasts a few retries. *)
EXTENDS WifiRetry

CONSTANTS a1, a2

MCAddress == {a1, a2}
=============================================================================
