------------------------------- MODULE TimeUtils -------------------------------
(***************************************************************************)
(* The clock of the firmware: millis() wraps at ClockRange (2^32), and      *)
(* firmware/include/core/TimeUtils.h compares two of its values.            *)
(***************************************************************************)
EXTENDS Integers

CONSTANT ClockRange

ASSUME ClockAssumption == ClockRange \in Nat \ {0, 1}

Ticks == 0..ClockRange - 1

(* A difference in the lower half of the range is one that is not negative   *)
(* as int32_t.                                                                *)
DeadlineReached(now, deadline) == 2 * ((now - deadline) % ClockRange) < ClockRange

(* ProtocolHelpers.h nextReconnectDelay(), from 1 s up to the longest delay.  *)
NextReconnectDelay_Uncapped(delay, longest) == 2 * delay
NextReconnectDelay(delay, longest) == IF 2 * delay < longest THEN 2 * delay ELSE longest
=============================================================================
