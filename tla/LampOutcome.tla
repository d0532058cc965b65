----------------------------- MODULE LampOutcome ------------------------------
(* How a request to one lamp may end, and what connection_ is afterwards.     *)

(* "rejected" is an answer that reports an error or cannot be read; "refused" *)
(* a lamp that does not accept the account.                                    *)
Outcome == {"ok", "rejected", "refused", "unreachable"}

ConnectionAfter(outcome) ==
  CASE outcome \in {"ok", "rejected"} -> "Online"
    [] outcome = "refused" -> "AuthFailed"
    [] outcome = "unreachable" -> "Offline"

(* A request that failed may have been carried out all the same: its answer   *)
(* was lost, and so was the second attempt.                                    *)
MayBeCarriedOut(outcome, carriedOut) == outcome = "ok" => carriedOut
=============================================================================
