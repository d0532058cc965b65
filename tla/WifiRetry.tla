------------------------------- MODULE WifiRetry -------------------------------
(***************************************************************************)
(* The Wi-Fi part of networkTask() in firmware/src/main.cpp: retry with a   *)
(* growing delay while the link is down, and begin the LAN adapters anew     *)
(* whenever the link or its address is new.                                   *)
(***************************************************************************)
EXTENDS TimeUtils

CONSTANTS
  Address,    \* addresses the router hands out
  NoAddress,
  MaxDelay,   \* the longest retry delay, 60 s
  MaxStep,    \* bound: the longest time one loop takes
  Uptime      \* bound: how long the run lasts

ASSUME WifiAssumption ==
  /\ NoAddress \notin Address
  /\ MaxDelay \in Nat \ {0} /\ MaxStep \in Nat \ {0} /\ Uptime \in Nat

VARIABLES
  phase,       \* "sample" or "act" within the loop
  uptime,      \* time since boot; millis() is its remainder
  link,        \* the address the Wi-Fi link has, or NoAddress
  connected,   \* "connected", sampled at the top of the loop
  wasConnected,
  lastIp,
  nextWifiAttempt,
  wifiRetry,   \* wifiRetryMs
  begun,       \* the address the adapters were last begun with
  quiet,       \* history: time since the last attempt or the last good sample
  steady       \* history: loops finished since the link last changed

loopVars == <<connected, wasConnected, lastIp, nextWifiAttempt, wifiRetry, begun>>
vars == <<phase, uptime, link, loopVars, quiet, steady>>

Now == uptime % ClockRange

Sample ==
  /\ phase = "sample" /\ phase' = "act"
  /\ connected' = (link # NoAddress)
  /\ UNCHANGED <<uptime, link, wasConnected, lastIp, nextWifiAttempt, wifiRetry, begun,
                 quiet, steady>>

(* The rest of the loop takes some time, and the next one starts.             *)
Finish(step) ==
  /\ uptime + step <= Uptime
  /\ uptime' = uptime + step
  /\ phase' = "sample"
  /\ wasConnected' = connected
  /\ steady' = IF steady < 2 THEN steady + 1 ELSE steady
  /\ UNCHANGED <<link, connected>>

Attempt(step) ==
  /\ phase = "act" /\ ~connected
  /\ DeadlineReached(Now, nextWifiAttempt)
  /\ nextWifiAttempt' = (Now + wifiRetry) % ClockRange
  /\ wifiRetry' = NextReconnectDelay(wifiRetry, MaxDelay)
  /\ quiet' = step
  /\ Finish(step)
  /\ UNCHANGED <<lastIp, begun>>

Wait(step) ==
  /\ phase = "act" /\ ~connected
  /\ ~DeadlineReached(Now, nextWifiAttempt)
  /\ quiet' = quiet + step
  /\ Finish(step)
  /\ UNCHANGED <<lastIp, nextWifiAttempt, wifiRetry, begun>>

NewLink_IgnoresAddress == ~wasConnected
NewLink == ~wasConnected \/ link # lastIp

(* A link that was down, or another address, begins both adapters again.     *)
Join(step) ==
  /\ phase = "act" /\ connected /\ NewLink
  /\ lastIp' = link /\ begun' = link
  /\ wifiRetry' = 1 /\ nextWifiAttempt' = 0
  /\ quiet' = 0
  /\ Finish(step)

Stay(step) ==
  /\ phase = "act" /\ connected /\ ~NewLink
  /\ quiet' = 0
  /\ Finish(step)
  /\ UNCHANGED <<lastIp, nextWifiAttempt, wifiRetry, begun>>

(* The router: drop, join, or another address without a drop (external).     *)
LinkChanges(a) ==
  /\ a # link
  /\ link' = a
  /\ steady' = 0
  /\ UNCHANGED <<phase, uptime, loopVars, quiet>>

Init ==
  /\ phase = "sample" /\ uptime = 0
  /\ link = NoAddress /\ connected = FALSE /\ wasConnected = FALSE
  /\ lastIp = NoAddress /\ begun = NoAddress
  /\ nextWifiAttempt = 1 % ClockRange /\ wifiRetry = 1
  /\ quiet = 0 /\ steady = 0

Next ==
  \/ Sample
  \/ \E step \in 1..MaxStep :
       Attempt(step) \/ Wait(step) \/ Join(step) \/ Stay(step)
  \/ \E a \in Address \cup {NoAddress} : LinkChanges(a)

Spec == Init /\ [][Next]_vars

-----------------------------------------------------------------------------
(* Values in range: the delay stays within its bounds.                       *)
TypeOK ==
  /\ phase \in {"sample", "act"} /\ uptime \in 0..Uptime
  /\ {link, lastIp, begun} \subseteq Address \cup {NoAddress}
  /\ connected \in BOOLEAN /\ wasConnected \in BOOLEAN
  /\ nextWifiAttempt \in Ticks /\ wifiRetry \in 1..MaxDelay
  /\ quiet \in Nat /\ steady \in 0..2

(* While the link is down the next attempt comes after the longest delay at  *)
(* the latest, give or take the loops that straddle it.                      *)
RetryInTime == quiet < MaxDelay + 2 * MaxStep

(* Two loops after a change of the link, the adapters run on its address.    *)
AdaptersFollowAddress ==
  steady = 2 /\ link # NoAddress => begun = link
=============================================================================
