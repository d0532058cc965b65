--------------------------- MODULE TimeUtils_proofs ----------------------------
(***************************************************************************)
(* Proofs about the two components that live on the clock of TimeUtils, for   *)
(* every range of it: WifiRetry, for every longest delay, any number of       *)
(* addresses and loops of any bounded length; and UiTask, for any keys and     *)
(* menus, any number of keys held down, and any times to dim and to sleep.     *)
(***************************************************************************)
EXTENDS WifiRetry, UiTask, FiniteSetTheorems, WellFoundedInduction, TLAPS

LEMMA TickTyped ==
  ASSUME NEW n \in Int
  PROVE  n % ClockRange \in Ticks
  BY ClockAssumption DEF Ticks

LEMMA DelayTyped ==
  ASSUME NEW d \in 1..MaxDelay
  PROVE  NextReconnectDelay(d, MaxDelay) \in 1..MaxDelay
  BY WifiAssumption DEF NextReconnectDelay

(* What every loop does at its end. *)
LEMMA FinishTyped ==
  ASSUME TypeOK, NEW step \in 1..MaxStep, Finish(step)
  PROVE  /\ phase' = "sample" /\ wasConnected' = connected
         /\ uptime' \in 0..Uptime /\ uptime' = uptime + step
         /\ steady' \in 0..2 /\ steady' = (IF steady < 2 THEN steady + 1 ELSE steady)
         /\ link' = link /\ connected' = connected
         /\ step \in Nat \ {0}
<1>1. step \in Nat \ {0} /\ step <= MaxStep
  BY WifiAssumption
<1>2. uptime \in Nat /\ uptime + step <= Uptime
  BY WifiAssumption DEF Finish, TypeOK
<1> QED
  BY <1>1, <1>2, WifiAssumption DEF Finish, TypeOK

-----------------------------------------------------------------------------
(* The inductive invariant. *)

(* Joining a link notes its address and begins the adapters with it.         *)
LastIsBegun == lastIp = begun

(* Once a loop has finished since the link changed, the sample is of it.     *)
SampleIsRight == phase = "act" /\ steady >= 1 => connected = (link # NoAddress)

(* The next attempt is at most the longest delay after the last one.         *)
AttemptComes == quiet <= uptime /\ nextWifiAttempt <= uptime - quiet + MaxDelay

IInv == TypeOK /\ LastIsBegun /\ SampleIsRight /\ AdaptersFollowAddress /\ AttemptComes

LEMMA InitIInv == Init => IInv
<1> SUFFICES ASSUME Init PROVE IInv
  OBVIOUS
<1>1. 0 \in 0..Uptime /\ 1 \in 1..MaxDelay
  BY WifiAssumption
<1>2. 1 % ClockRange \in Ticks /\ 1 % ClockRange = 1
  BY ClockAssumption, TickTyped
<1>3. {link, lastIp, begun} \subseteq Address \cup {NoAddress}
  BY DEF Init
<1>4. connected \in BOOLEAN /\ wasConnected \in BOOLEAN
  BY DEF Init
<1>5. nextWifiAttempt \in Ticks /\ phase = "sample" /\ uptime = 0 /\ wifiRetry = 1
      /\ quiet = 0 /\ steady = 0
  BY <1>2 DEF Init
<1>6. TypeOK
  BY <1>1, <1>3, <1>4, <1>5 DEF TypeOK
<1> QED
  BY <1>2, <1>6, WifiAssumption
     DEF Init, IInv, LastIsBegun, SampleIsRight, AdaptersFollowAddress, AttemptComes

LEMMA SampleKeepsIInv == ASSUME IInv, Sample PROVE IInv'
<1>1. TypeOK'
  BY DEF IInv, Sample, TypeOK
<1> QED
  BY <1>1 DEF IInv, Sample, LastIsBegun, SampleIsRight, AdaptersFollowAddress, AttemptComes

LEMMA AttemptKeepsIInv ==
  ASSUME IInv, NEW step \in 1..MaxStep, Attempt(step)
  PROVE  IInv'
<1>1. /\ phase' = "sample" /\ wasConnected' = connected
      /\ uptime' \in 0..Uptime /\ uptime' = uptime + step
      /\ steady' \in 0..2 /\ steady' = (IF steady < 2 THEN steady + 1 ELSE steady)
      /\ link' = link /\ connected' = connected /\ step \in Nat \ {0}
  BY FinishTyped DEF Attempt, IInv
<1>2. /\ ~connected /\ phase = "act" /\ quiet' = step /\ UNCHANGED <<lastIp, begun>>
      /\ nextWifiAttempt' = (Now + wifiRetry) % ClockRange
      /\ wifiRetry' = NextReconnectDelay(wifiRetry, MaxDelay)
  BY DEF Attempt
<1>3. uptime \in Nat /\ Now \in Nat /\ Now <= uptime
  BY WifiAssumption, ClockAssumption DEF IInv, TypeOK, Now
<1>4. wifiRetry \in 1..MaxDelay /\ wifiRetry' \in 1..MaxDelay
  BY <1>2, DelayTyped DEF IInv, TypeOK
<1>5. nextWifiAttempt' \in Ticks
  BY <1>2, <1>3, <1>4, TickTyped, WifiAssumption
<1>6. nextWifiAttempt' <= Now + wifiRetry
  BY <1>2, <1>3, <1>4, ClockAssumption, WifiAssumption
<1>7. TypeOK'
  BY <1>1, <1>2, <1>4, <1>5 DEF IInv, TypeOK
<1>8. AttemptComes'
  BY <1>1, <1>2, <1>3, <1>4, <1>5, <1>6, WifiAssumption, ClockAssumption DEF AttemptComes, Ticks
<1>9. AdaptersFollowAddress'
  BY <1>1, <1>2 DEF IInv, TypeOK, SampleIsRight, AdaptersFollowAddress
<1> QED
  BY <1>1, <1>2, <1>7, <1>8, <1>9 DEF IInv, LastIsBegun, SampleIsRight

LEMMA WaitKeepsIInv ==
  ASSUME IInv, NEW step \in 1..MaxStep, Wait(step)
  PROVE  IInv'
<1>1. /\ phase' = "sample" /\ wasConnected' = connected
      /\ uptime' \in 0..Uptime /\ uptime' = uptime + step
      /\ steady' \in 0..2 /\ steady' = (IF steady < 2 THEN steady + 1 ELSE steady)
      /\ link' = link /\ connected' = connected /\ step \in Nat \ {0}
  BY FinishTyped DEF Wait, IInv
<1>2. /\ ~connected /\ phase = "act" /\ quiet' = quiet + step
      /\ UNCHANGED <<lastIp, nextWifiAttempt, wifiRetry, begun>>
  BY DEF Wait
<1>3. TypeOK'
  BY <1>1, <1>2 DEF IInv, TypeOK
<1>4. AttemptComes'
  BY <1>1, <1>2, WifiAssumption, ClockAssumption DEF IInv, TypeOK, AttemptComes, Ticks
<1>5. AdaptersFollowAddress'
  BY <1>1, <1>2 DEF IInv, TypeOK, SampleIsRight, AdaptersFollowAddress
<1> QED
  BY <1>1, <1>2, <1>3, <1>4, <1>5 DEF IInv, LastIsBegun, SampleIsRight

LEMMA JoinKeepsIInv ==
  ASSUME IInv, NEW step \in 1..MaxStep, Join(step)
  PROVE  IInv'
<1>1. /\ phase' = "sample" /\ wasConnected' = connected
      /\ uptime' \in 0..Uptime /\ uptime' = uptime + step
      /\ steady' \in 0..2 /\ steady' = (IF steady < 2 THEN steady + 1 ELSE steady)
      /\ link' = link /\ connected' = connected /\ step \in Nat \ {0}
  BY FinishTyped DEF Join, IInv
<1>2. /\ lastIp' = link /\ begun' = link /\ wifiRetry' = 1 /\ nextWifiAttempt' = 0
      /\ quiet' = 0
  BY DEF Join
<1>3. 1 \in 1..MaxDelay /\ 0 \in Ticks /\ link \in Address \cup {NoAddress}
  BY WifiAssumption, ClockAssumption DEF Ticks, IInv, TypeOK
<1>4. TypeOK'
  BY <1>1, <1>2, <1>3 DEF IInv, TypeOK
<1>5. AttemptComes'
  BY <1>1, <1>2, WifiAssumption DEF AttemptComes
<1> QED
  BY <1>1, <1>2, <1>4, <1>5
     DEF IInv, LastIsBegun, SampleIsRight, AdaptersFollowAddress

LEMMA StayKeepsIInv ==
  ASSUME IInv, NEW step \in 1..MaxStep, Stay(step)
  PROVE  IInv'
<1>1. /\ phase' = "sample" /\ wasConnected' = connected
      /\ uptime' \in 0..Uptime /\ uptime' = uptime + step
      /\ steady' \in 0..2 /\ steady' = (IF steady < 2 THEN steady + 1 ELSE steady)
      /\ link' = link /\ connected' = connected /\ step \in Nat \ {0}
  BY FinishTyped DEF Stay, IInv
<1>2. /\ quiet' = 0 /\ link = lastIp
      /\ UNCHANGED <<lastIp, nextWifiAttempt, wifiRetry, begun>>
  BY DEF Stay, NewLink
<1>3. TypeOK'
  BY <1>1, <1>2 DEF IInv, TypeOK
<1>4. AttemptComes'
  BY <1>1, <1>2, WifiAssumption, ClockAssumption DEF IInv, TypeOK, AttemptComes, Ticks
<1> QED
  BY <1>1, <1>2, <1>3, <1>4
     DEF IInv, LastIsBegun, SampleIsRight, AdaptersFollowAddress

LEMMA NextIInv == IInv /\ [Next]_vars => IInv'
<1> SUFFICES ASSUME IInv, [Next]_vars PROVE IInv'
  OBVIOUS
<1>1. ASSUME NEW a \in Address \cup {NoAddress}, LinkChanges(a) PROVE IInv'
  <2>1. /\ link' = a /\ steady' = 0 /\ UNCHANGED <<phase, uptime, loopVars, quiet>>
    BY <1>1 DEF LinkChanges
  <2>2. TypeOK'
    BY <2>1 DEF loopVars, IInv, TypeOK
  <2> QED
    BY <2>1, <2>2 DEF loopVars, IInv, LastIsBegun, SampleIsRight, AdaptersFollowAddress,
                      AttemptComes
<1>2. CASE UNCHANGED vars
  BY <1>2 DEF vars, loopVars, IInv, TypeOK, LastIsBegun, SampleIsRight,
              AdaptersFollowAddress, AttemptComes
<1> QED
  BY <1>1, <1>2, SampleKeepsIInv, AttemptKeepsIInv, WaitKeepsIInv, JoinKeepsIInv,
     StayKeepsIInv DEF Next

-----------------------------------------------------------------------------
(* The clock, delays and addresses keep their types; the delay never exceeds *)
(* the longest one (main.cpp:871-886).                                         *)
THEOREM WifiTypeCorrect == Spec => []TypeOK
<1>1. IInv => TypeOK
  BY DEF IInv
<1> QED
  BY <1>1, InitIInv, NextIInv, PTL DEF Spec

(* Two loops after the router's last word the adapters run on the address    *)
(* the link has, with the clock at any value (main.cpp:876-886).               *)
THEOREM AdaptersAlwaysFollow == Spec => []AdaptersFollowAddress
<1>1. IInv => AdaptersFollowAddress
  BY DEF IInv
<1> QED
  BY <1>1, InitIInv, NextIInv, PTL DEF Spec

(* While the clock is in the lower half of its range, a deadline is reached  *)
(* exactly when it is not ahead.                                               *)
LEMMA ReachedWhenPast ==
  ASSUME TypeOK, 2 * Uptime < ClockRange, nextWifiAttempt <= uptime
  PROVE  DeadlineReached(Now, nextWifiAttempt)
<1>1. uptime \in Nat /\ nextWifiAttempt \in Nat /\ uptime <= Uptime
  BY WifiAssumption, ClockAssumption DEF TypeOK, Ticks
<1>2. Now = uptime
  BY <1>1, WifiAssumption, ClockAssumption DEF Now
<1>3. uptime - nextWifiAttempt \in 0..ClockRange - 1
      /\ 2 * (uptime - nextWifiAttempt) < ClockRange
  BY <1>1, WifiAssumption, ClockAssumption
<1>4. (uptime - nextWifiAttempt) % ClockRange = uptime - nextWifiAttempt
  BY <1>3, ClockAssumption
<1> QED
  BY <1>2, <1>3, <1>4 DEF DeadlineReached

(* While the uptime stays below half of the clock's range, attempts come at  *)
(* most the longest delay and two loops apart (main.cpp:869-875).              *)
THEOREM RetriesComeInTime == 2 * Uptime < ClockRange /\ Spec => []RetryInTime
<1>1. Init => RetryInTime
  BY WifiAssumption DEF Init, RetryInTime
<1>2. CASE 2 * Uptime < ClockRange
  <2>1. IInv /\ RetryInTime /\ [Next]_vars => RetryInTime'
    <3> SUFFICES ASSUME IInv, RetryInTime, [Next]_vars PROVE RetryInTime'
      OBVIOUS
    <3>1. ASSUME NEW step \in 1..MaxStep, Wait(step) PROVE RetryInTime'
      <4>1. nextWifiAttempt > uptime
        <5>1. nextWifiAttempt \in Int /\ uptime \in Int
          BY ClockAssumption, WifiAssumption DEF IInv, TypeOK, Ticks
        <5> QED
          BY <1>2, <3>1, <5>1, ReachedWhenPast DEF Wait, IInv
      <4>2. quiet < MaxDelay
        BY <4>1, ClockAssumption, WifiAssumption DEF IInv, TypeOK, Ticks, AttemptComes
      <4> QED
        BY <3>1, <4>2, WifiAssumption DEF Wait, RetryInTime, IInv, TypeOK
    <3>2. ASSUME NEW step \in 1..MaxStep, Attempt(step) \/ Join(step) \/ Stay(step)
          PROVE  RetryInTime'
      BY <3>2, WifiAssumption DEF Attempt, Join, Stay, RetryInTime
    <3>3. CASE Sample \/ (\E a \in Address \cup {NoAddress} : LinkChanges(a)) \/ UNCHANGED vars
      BY <3>3 DEF Sample, LinkChanges, vars, RetryInTime
    <3> QED
      BY <3>1, <3>2, <3>3 DEF Next
  <2> QED
    BY <1>1, <2>1, InitIInv, NextIInv, PTL DEF Spec
<1>3. CASE ~(2 * Uptime < ClockRange)
  BY <1>3
<1> QED
  BY <1>2, <1>3

-----------------------------------------------------------------------------
(* UiTask: keys and pages.                                                    *)

UiCommand == [key : Key, page : Range(Pages), device : Device]
Menus == {m \in [Device -> Nat] : \A d \in Device : m[d] < Items[d]}
Consistent(p, device, out) ==
  /\ p \in Device => device = DeviceOf[p]
  /\ \A c \in out : c.page \in Device => c.device = DeviceOf[c.page]

(* The page shown and the device selected agree, as do they in every command.  *)
GoodUi(u) ==
  /\ u \in [page : Range(Pages), device : Device, item : Menus, out : SUBSET UiCommand]
  /\ Consistent(u.page, u.device, u.out)

HeldInv ==
  /\ held \subseteq Key /\ IsFiniteSet(held) /\ Cardinality(held) <= MaxHeld
  /\ wokenBy \subseteq held

UiInv ==
  /\ GoodUi([page |-> page, device |-> selectedDevice, item |-> selectedItem, out |-> commands])
  /\ dimmed \in BOOLEAN /\ sleeping \in BOOLEAN /\ idle \in Ticks
  /\ HeldInv
  /\ DarkInTime

LEMMA PageNames ==
  /\ Range(Pages) = {"Quick", "Ac", "Dyson", "DysonAir", "Light", "Diagnostics"}
  /\ Device = {"Ac", "Dyson", "Light"} /\ \A p \in Device : DeviceOf[p] = p
<1>1. Pages = <<"Quick", "Ac", "Dyson", "DysonAir", "Light", "Diagnostics">>
  BY DEF Pages
<1>2. Range(Pages) = {Pages[n] : n \in 1..6}
  BY <1>1 DEF Range
<1>3. 1..6 = {1, 2, 3, 4, 5, 6}
  OBVIOUS
<1>4. Range(Pages) = {"Quick", "Ac", "Dyson", "DysonAir", "Light", "Diagnostics"}
  BY <1>1, <1>2, <1>3
<1>5. Device = {"Ac", "Dyson", "Light"} /\ \A p \in Device : DeviceOf[p] = p
  BY DEF Device, DeviceOf
<1>6. QED
  BY <1>4, <1>5

LEMMA TurnedGood ==
  ASSUME NEW u, GoodUi(u), NEW p \in Range(Pages)
  PROVE  GoodUi(Turned(u, p))
<1> DEFINE d == IF p \in Device THEN DeviceOf[p] ELSE u.device
<1>1. d \in Device /\ (p \in Device => d = DeviceOf[p])
  BY PageNames DEF GoodUi
<1>2. Turned(u, p) = [u EXCEPT !.page = p, !.device = d]
  BY DEF Turned, GoodUi
<1> HIDE DEF d
<1>3. QED
  BY <1>1, <1>2 DEF GoodUi, Consistent

LEMMA EnqueuedGood ==
  ASSUME NEW u, GoodUi(u), NEW k \in Key, NEW d \in Device,
         u.page \in Device => d = DeviceOf[u.page]
  PROVE  GoodUi(Enqueued(u, k, d))
<1> DEFINE c == [key |-> k, page |-> u.page, device |-> d]
           o == u.out \cup {c}
<1>1. c \in UiCommand /\ (c.page \in Device => c.device = DeviceOf[c.page])
  BY DEF GoodUi, UiCommand
<1> HIDE DEF c
<1>2. o \in SUBSET UiCommand /\ Consistent(u.page, u.device, o)
  BY <1>1 DEF GoodUi, Consistent
<1>3. Enqueued(u, k, d) = [u EXCEPT !.out = o]
  BY DEF Enqueued, c
<1> HIDE DEF o
<1>4. QED
  BY <1>2, <1>3 DEF GoodUi

LEMMA MovedGood ==
  ASSUME NEW u, GoodUi(u), NEW by \in Nat
  PROVE  GoodUi(Moved(u, by))
<1> DEFINE n == Items[u.device]
           x == u.item[u.device]
           y == (x + by) % n
           m == [u.item EXCEPT ![u.device] = y]
<1>1. u.device \in Device /\ u.item \in Menus
  BY DEF GoodUi
<1>2. n \in Nat \ {0} /\ x \in Nat
  BY <1>1, UiAssumption DEF Menus
<1>3. y \in Nat /\ y < n
  <2> HIDE DEF x, n
  <2>1. x + by \in Nat
    BY <1>2
  <2>2. QED
    BY <1>2, <2>1
<1>4. Moved(u, by) = [u EXCEPT !.item = m]
  BY <1>1 DEF Moved, GoodUi, Menus
<1>5. m \in Menus
  <2> HIDE DEF x, y
  <2>1. QED
    BY <1>1, <1>3 DEF Menus
<1> HIDE DEF m
<1>6. QED
  BY <1>4, <1>5 DEF GoodUi

LEMMA HandleKeyGood ==
  ASSUME NEW u, GoodUi(u), NEW k \in Key
  PROVE  GoodUi(HandleKey(k, u))
<1>1. u.page \in Range(Pages) /\ u.device \in Device /\ Items[u.device] \in Nat \ {0}
  BY UiAssumption DEF GoodUi
<1>2. CASE k \in DOMAIN PageKeys
  <2>1. PageKeys[k] \in Range(Pages)
    BY <1>2, PageNames DEF PageKeys
  <2>2. HandleKey(k, u) = Turned(u, PageKeys[k])
    BY <1>2 DEF HandleKey
  <2>3. QED
    BY <2>1, <2>2, TurnedGood
<1>3. CASE k \notin DOMAIN PageKeys /\ u.page = "Quick"
  <2>1. HandleKey(k, u) = IF k \in DOMAIN QuickDevice THEN Enqueued(u, k, QuickDevice[k]) ELSE u
    BY <1>3, PageNames DEF HandleKey
  <2>2. ASSUME k \in DOMAIN QuickDevice
        PROVE  QuickDevice[k] \in Device /\ u.page \notin Device
    BY <1>3, <2>2, PageNames DEF QuickDevice
  <2>3. QED
    BY <2>1, <2>2, EnqueuedGood
<1>4. CASE k \notin DOMAIN PageKeys /\ u.page # "Quick" /\ u.page \in Device
  <2>1. \/ HandleKey(k, u) = Moved(u, Items[u.device] - 1)
        \/ HandleKey(k, u) = Moved(u, 1)
        \/ HandleKey(k, u) = Enqueued(u, k, u.device)
        \/ HandleKey(k, u) = u
    BY <1>4 DEF HandleKey
  <2>2. Items[u.device] - 1 \in Nat
    BY <1>1
  <2>3. u.device = DeviceOf[u.page]
    BY <1>4 DEF GoodUi, Consistent
  <2>4. GoodUi(Moved(u, Items[u.device] - 1)) /\ GoodUi(Moved(u, 1))
    BY <2>2, MovedGood
  <2>5. GoodUi(Enqueued(u, k, u.device))
    BY <1>1, <2>3, EnqueuedGood
  <2>6. QED
    BY <2>1, <2>4, <2>5
<1>5. CASE k \notin DOMAIN PageKeys /\ u.page # "Quick" /\ u.page \notin Device
  BY <1>5 DEF HandleKey
<1>6. QED
  BY <1>2, <1>3, <1>4, <1>5

-----------------------------------------------------------------------------
(* Induction over the keys of one call, as the least key that breaks a fact.   *)

LEMMA LeastNumber ==
  ASSUME NEW T, T \subseteq Nat, T # {}
  PROVE  \E m \in T : \A k \in T : m <= k
<1> DEFINE R == OpToRel(<, Nat)
<1>1. IsWellFoundedOn(R, Nat)
  BY NatLessThanWellFounded
<1>2. \A a, b \in Nat : a < b => <<a, b>> \in R
  BY DEF OpToRel
<1> HIDE DEF R
<1>3. PICK m \in T : \A k \in T : ~ (<<k, m>> \in R)
  BY <1>1, WFMin
<1>4. ASSUME NEW k \in T
      PROVE  m <= k
  <2>1. k \in Nat /\ m \in Nat
    OBVIOUS
  <2>2. ~ (<<k, m>> \in R)
    BY <1>3
  <2>3. ~ (k < m)
    BY <1>2, <2>1, <2>2
  <2>4. QED
    BY <2>1, <2>3
<1>5. QED
  BY <1>4

(* A set of numbers with 0 and the successor of each of its members is Nat.    *)
LEMMA NatInductive ==
  ASSUME NEW T, 0 \in T, \A n \in Nat : n \in T => n + 1 \in T
  PROVE  Nat \subseteq T
<1> SUFFICES ASSUME Nat \ T # {} PROVE FALSE
  OBVIOUS
<1>1. PICK m \in Nat \ T : \A k \in Nat \ T : m <= k
  <2>1. (Nat \ T) \subseteq Nat
    OBVIOUS
  <2>2. QED
    BY <2>1, LeastNumber
<1>2. m # 0 /\ m - 1 \in Nat /\ m - 1 < m
  BY <1>1
<1>3. m - 1 \in T
  BY <1>1, <1>2
<1>4. (m - 1) + 1 \in T
  BY <1>2, <1>3
<1>5. QED
  BY <1>1, <1>4

KeyStep(u, order, f, n) == IF n = 0 THEN u ELSE HandleKey(order[n], f[n - 1])

LEMMA AfterKeysExists ==
  ASSUME NEW u, NEW order
  PROVE  \A n \in Nat : \E f : f = [i \in 0..n |-> KeyStep(u, order, f, i)]
<1> DEFINE T == {n \in Nat : \E f : f = [i \in 0..n |-> KeyStep(u, order, f, i)]}
<1>1. 0 \in T
  <2> DEFINE f == [i \in 0..0 |-> u]
  <2>1. f = [i \in 0..0 |-> KeyStep(u, order, f, i)]
    BY DEF KeyStep
  <2>2. QED
    BY <2>1
<1>2. ASSUME NEW n \in Nat, n \in T
      PROVE  n + 1 \in T
  <2>1. PICK f : f = [i \in 0..n |-> KeyStep(u, order, f, i)]
    BY <1>2
  <2> DEFINE g == [i \in 0..(n + 1) |-> KeyStep(u, order, f, i)]
  <2>2. \A i \in 0..n : i \in 0..(n + 1)
    OBVIOUS
  <2>3. \A i \in 0..n : g[i] = f[i]
    <3> HIDE DEF T
    <3>1. \A i \in 0..n : f[i] = KeyStep(u, order, f, i)
      BY <2>1
    <3>2. \A i \in 0..(n + 1) : g[i] = KeyStep(u, order, f, i)
      OBVIOUS
    <3>3. QED
      BY <2>2, <3>1, <3>2
  <2>4. \A i \in 0..(n + 1) : i # 0 => i - 1 \in 0..n
    OBVIOUS
  <2>5. \A i \in 0..(n + 1) : KeyStep(u, order, f, i) = KeyStep(u, order, g, i)
    <3> HIDE DEF g
    <3>1. QED
      BY <2>3, <2>4 DEF KeyStep
  <2>6. g = [i \in 0..(n + 1) |-> KeyStep(u, order, g, i)]
    <3>1. g = [i \in 0..(n + 1) |-> KeyStep(u, order, f, i)]
      OBVIOUS
    <3> HIDE DEF g
    <3>2. QED
      BY <2>5, <3>1
  <2>7. n + 1 \in Nat
    OBVIOUS
  <2> HIDE DEF g
  <2>8. QED
    BY <2>6, <2>7
<1> HIDE DEF T
<1>3. Nat \subseteq T
  BY <1>1, <1>2, NatInductive
<1>4. QED
  BY <1>3 DEF T

LEMMA AfterKeysIs ==
  ASSUME NEW u, NEW order, Len(order) \in Nat
  PROVE  \A n \in 0..Len(order) :
           AfterKeys(u, order)[n] = KeyStep(u, order, AfterKeys(u, order), n)
<1> DEFINE D == 0..Len(order)
<1>1. AfterKeys(u, order) = CHOOSE f : f = [n \in D |-> KeyStep(u, order, f, n)]
  BY DEF AfterKeys, KeyStep
<1>2. \E f : f = [n \in D |-> KeyStep(u, order, f, n)]
  BY AfterKeysExists
<1> DEFINE a == AfterKeys(u, order)
<1> HIDE DEF D
<1>3. a = [n \in D |-> KeyStep(u, order, a, n)]
  BY <1>1, <1>2
<1> HIDE DEF a
<1>4. \A n \in D : a[n] = KeyStep(u, order, a, n)
  BY <1>3
<1>5. QED
  BY <1>4 DEF a, D

(* What every key preserves holds after all of them.                           *)
LEMMA AfterKeysGood ==
  ASSUME NEW u, GoodUi(u), NEW order \in Seq(Key)
  PROVE  GoodUi(AfterKeys(u, order)[Len(order)])
<1> DEFINE a == AfterKeys(u, order)
           T == {n \in Nat : n <= Len(order) => GoodUi(a[n])}
<1>1. Len(order) \in Nat /\ \A n \in 1..Len(order) : order[n] \in Key
  OBVIOUS
<1>2. \A n \in 0..Len(order) : a[n] = KeyStep(u, order, a, n)
  BY <1>1, AfterKeysIs
<1> HIDE DEF a
<1>3. 0 \in T
  BY <1>1, <1>2 DEF KeyStep
<1>4. ASSUME NEW n \in Nat, n \in T
      PROVE  n + 1 \in T
  <2> SUFFICES ASSUME n + 1 <= Len(order) PROVE GoodUi(a[n + 1])
    OBVIOUS
  <2>1. GoodUi(a[n])
    BY <1>1, <1>4
  <2>2. n + 1 \in 1..Len(order) /\ n + 1 \in 0..Len(order) /\ n + 1 # 0 /\ (n + 1) - 1 = n
    BY <1>1
  <2>3. a[n + 1] = HandleKey(order[n + 1], a[n])
    BY <1>2, <2>2 DEF KeyStep
  <2>4. order[n + 1] \in Key
    BY <1>1, <2>2
  <2>5. QED
    BY <2>1, <2>3, <2>4, HandleKeyGood
<1>5. Nat \subseteq T
  <2> HIDE DEF T
  <2>1. QED
    BY <1>3, <1>4, NatInductive
<1>6. QED
  BY <1>1, <1>5 DEF a

-----------------------------------------------------------------------------
(* The inductive invariant of UiTask.                                          *)

Shown == [page |-> page, device |-> selectedDevice, item |-> selectedItem, out |-> commands]

LEMMA OrderIsOfKeys ==
  ASSUME NEW S, S \subseteq Key, IsFiniteSet(S), NEW order \in SetToSeqs(S)
  PROVE  order \in Seq(Key)
<1>1. Cardinality(S) \in Nat
  BY FS_CardinalityType
<1>2. order \in [1..Cardinality(S) -> S]
  BY DEF SetToSeqs
<1>3. QED
  BY <1>1, <1>2

LEMMA NextPageIsPage == ASSUME page \in Range(Pages) PROVE NextPage \in Range(Pages)
<1> DEFINE i == CHOOSE n \in DOMAIN Pages : Pages[n] = page
<1>1. DOMAIN Pages = 1..6 /\ Len(Pages) = 6
  BY DEF Pages
<1>2. \E n \in DOMAIN Pages : Pages[n] = page
  BY DEF Range
<1>3. i \in 1..6
  BY <1>1, <1>2
<1>4. NextPage = Pages[(i % 6) + 1]
  BY <1>1 DEF NextPage
<1> HIDE DEF i
<1>5. (i % 6) + 1 \in 1..6
  BY <1>3
<1>6. QED
  BY <1>1, <1>4, <1>5 DEF Range

(* A call of handleKeys() leaves the page, the device, the items and the        *)
(* commands it enqueues consistent, whatever keys are down.                     *)
LEMMA HandledGood ==
  ASSUME GoodUi(Shown), NEW keys, keys \subseteq Key, IsFiniteSet(keys),
         NEW order \in SetToSeqs(keys \ {"tab", "enter"})
  PROVE  GoodUi(Handled(keys, order))
<1>1. GoodUi(UiState) /\ UiState.page = page /\ UiState.device = selectedDevice
  BY DEF GoodUi, Shown, UiState, Consistent
<1>2. page \in Range(Pages) /\ selectedDevice \in Device /\ (page \in Device => selectedDevice = DeviceOf[page])
  BY DEF GoodUi, Shown, Consistent
<1>3. GoodUi(Turned(UiState, NextPage))
  BY <1>1, <1>2, NextPageIsPage, TurnedGood
<1>4. GoodUi(Entered(keys))
  <2>1. CASE "enter" \in keys /\ page \in Device
    <3>1. "enter" \in Key
      BY <2>1
    <3>2. GoodUi(Enqueued(UiState, "enter", selectedDevice))
      BY <1>1, <1>2, <3>1, EnqueuedGood
    <3>3. QED
      BY <2>1, <3>2 DEF Entered
  <2>2. CASE ~("enter" \in keys /\ page \in Device)
    BY <1>1, <2>2 DEF Entered
  <2>3. QED
    BY <2>1, <2>2
<1>5. order \in Seq(Key)
  <2>1. (keys \ {"tab", "enter"}) \subseteq Key /\ IsFiniteSet(keys \ {"tab", "enter"})
    BY FS_Subset
  <2>2. QED
    BY <2>1, OrderIsOfKeys
<1>6. GoodUi(AfterKeys(Entered(keys), order)[Len(order)])
  BY <1>4, <1>5, AfterKeysGood
<1>7. QED
  BY <1>3, <1>6 DEF Handled

LEMMA UiInitInv == UiInit => UiInv
<1> SUFFICES ASSUME UiInit PROVE UiInv
  OBVIOUS
<1>1. selectedItem \in Menus
  BY UiAssumption DEF UiInit, Menus
<1>2. page \in Range(Pages) /\ selectedDevice \in Device /\ page \notin Device
  BY PageNames DEF UiInit
<1>3. commands = {} /\ commands \in SUBSET UiCommand
  BY DEF UiInit
<1>4. GoodUi([page |-> page, device |-> selectedDevice, item |-> selectedItem, out |-> commands])
  BY <1>1, <1>2, <1>3 DEF GoodUi, Consistent
<1>5. idle = 0 /\ 0 \in Ticks
  BY ClockAssumption DEF UiInit, Ticks
<1>6. HeldInv
  BY FS_EmptySet, UiAssumption DEF UiInit, HeldInv
<1>7. DarkInTime
  BY <1>5, UiAssumption DEF UiInit, DarkInTime
<1>8. QED
  BY <1>4, <1>5, <1>6, <1>7 DEF UiInv, UiInit

(* The keys down stay few, and known.                                           *)
LEMMA HeldStaysFew ==
  ASSUME HeldInv, NEW k \in Key, KeyDown(k) \/ KeyUp(k)
  PROVE  held' \subseteq Key /\ IsFiniteSet(held') /\ Cardinality(held') <= MaxHeld
<1>1. IsFiniteSet(held) /\ held \subseteq Key /\ Cardinality(held) \in Nat
      /\ Cardinality(held) <= MaxHeld /\ MaxHeld \in Nat
  BY FS_CardinalityType, UiAssumption DEF HeldInv
<1> DEFINE c == Cardinality(held)
           d == Cardinality(held')
<1>2. CASE KeyDown(k)
  <2>1. held' = held \cup {k} /\ k \notin held /\ c < MaxHeld
    BY <1>2 DEF KeyDown
  <2>2. IsFiniteSet(held') /\ d = IF k \in held THEN c ELSE c + 1
    BY <1>1, <2>1, FS_AddElement
  <2> HIDE DEF c, d
  <2>3. d <= MaxHeld
    BY <1>1, <2>1, <2>2 DEF c
  <2>4. QED
    BY <1>1, <2>1, <2>2, <2>3 DEF d
<1>3. CASE KeyUp(k)
  <2>1. held' = held \ {k} /\ k \in held
    BY <1>3 DEF KeyUp
  <2>2. IsFiniteSet(held') /\ d = IF k \in held THEN c - 1 ELSE c
    BY <1>1, <2>1, FS_RemoveElement
  <2> HIDE DEF c, d
  <2>3. d <= MaxHeld
    BY <1>1, <2>1, <2>2 DEF c
  <2>4. QED
    BY <1>1, <2>1, <2>2, <2>3 DEF d
<1>4. QED
  BY <1>2, <1>3

LEMMA WakeByKeyKeepsInv ==
  ASSUME UiInv, NEW k \in Key, KeyDown(k) \/ KeyUp(k), NEW order, WakeByKey(order)
  PROVE  UiInv'
<1>1. held' \subseteq Key /\ IsFiniteSet(held') /\ Cardinality(held') <= MaxHeld
  BY HeldStaysFew DEF UiInv
<1>2. /\ dimmed' = FALSE /\ sleeping' = FALSE /\ idle' = 0 /\ commands' = {}
      /\ wokenBy' = held' /\ UNCHANGED <<page, selectedDevice, selectedItem>>
  BY DEF WakeByKey, pageVars
<1>3. HeldInv'
  BY <1>1, <1>2 DEF HeldInv
<1>4. 0 \in Ticks /\ ~(0 >= DimAfter) /\ ~(0 >= SleepAfter)
  BY ClockAssumption, UiAssumption DEF Ticks
<1>5. DarkInTime'
  BY <1>2, <1>4 DEF DarkInTime
<1>6. GoodUi([page |-> page, device |-> selectedDevice, item |-> selectedItem, out |-> commands])'
  BY <1>2 DEF UiInv, GoodUi, Consistent
<1>7. QED
  BY <1>2, <1>3, <1>4, <1>5, <1>6 DEF UiInv

LEMMA OperateKeepsInv ==
  ASSUME UiInv, NEW k \in Key, KeyDown(k) \/ KeyUp(k),
         NEW order \in SetToSeqs(held' \ {"tab", "enter"}), Operate(order)
  PROVE  UiInv'
<1> DEFINE u == Handled(held', order)
<1>1. held' \subseteq Key /\ IsFiniteSet(held') /\ Cardinality(held') <= MaxHeld
  BY HeldStaysFew DEF UiInv
<1>2. GoodUi(u)
  BY <1>1, HandledGood DEF UiInv, Shown
<1>3. /\ ~dimmed /\ ~sleeping /\ idle' = 0 /\ UNCHANGED <<dimmed, sleeping>>
      /\ page' = u.page /\ selectedDevice' = u.device /\ selectedItem' = u.item
      /\ commands' = u.out /\ wokenBy' = wokenBy \cap held'
  BY DEF Operate
<1> HIDE DEF u
<1>4. HeldInv'
  BY <1>1, <1>3 DEF HeldInv
<1>5. 0 \in Ticks /\ ~(0 >= DimAfter) /\ ~(0 >= SleepAfter)
  BY ClockAssumption, UiAssumption DEF Ticks
<1>6. DarkInTime'
  BY <1>3, <1>5 DEF DarkInTime
<1>7. GoodUi([page |-> page, device |-> selectedDevice, item |-> selectedItem, out |-> commands])'
  BY <1>2, <1>3 DEF GoodUi, Consistent
<1>8. QED
  BY <1>3, <1>4, <1>5, <1>6, <1>7 DEF UiInv

LEMMA ReleasedKeepsInv ==
  ASSUME UiInv, Released, wokenBy' = {}, UNCHANGED <<pageVars, dimmed, sleeping, idle>>
  PROVE  UiInv'
<1>1. /\ UNCHANGED <<page, selectedDevice, selectedItem, dimmed, sleeping, idle>>
      /\ held' = {} /\ commands' = {} /\ wokenBy' = {}
  BY DEF Released, pageVars
<1>2. HeldInv'
  BY <1>1, FS_EmptySet, UiAssumption DEF HeldInv
<1>3. DarkInTime'
  BY <1>1 DEF UiInv, DarkInTime
<1>4. GoodUi([page |-> page, device |-> selectedDevice, item |-> selectedItem, out |-> commands])'
  BY <1>1 DEF UiInv, GoodUi, Consistent
<1>5. QED
  BY <1>1, <1>2, <1>3, <1>4 DEF UiInv

LEMMA TickPowerKeepsInv ==
  ASSUME UiInv, NEW motion \in BOOLEAN, TickPower(motion)
  PROVE  UiInv'
<1>1. /\ idle' = (IF motion THEN 0 ELSE (idle + 1) % ClockRange)
      /\ dimmed' = (~motion /\ (dimmed \/ idle' >= DimAfter))
      /\ sleeping' = (~motion /\ (sleeping \/ idle' >= SleepAfter))
      /\ UNCHANGED <<page, selectedDevice, selectedItem, held, commands, wokenBy>>
  BY DEF TickPower, pageVars
<1>2. idle' \in Ticks
  BY <1>1, ClockAssumption DEF UiInv, Ticks
<1>3. idle' >= SleepAfter => idle' >= DimAfter
  BY <1>2, UiAssumption, ClockAssumption DEF Ticks
<1>4. motion => ~(idle' >= DimAfter)
  BY <1>1, UiAssumption
<1>5. DarkInTime'
  BY <1>1, <1>3, <1>4 DEF UiInv, DarkInTime
<1>6. dimmed' \in BOOLEAN /\ sleeping' \in BOOLEAN
  BY <1>1
<1>7. HeldInv'
  BY <1>1 DEF UiInv, HeldInv
<1>8. GoodUi([page |-> page, device |-> selectedDevice, item |-> selectedItem, out |-> commands])'
  BY <1>1 DEF UiInv
<1>9. QED
  BY <1>2, <1>5, <1>6, <1>7, <1>8 DEF UiInv

LEMMA UiNextInv == UiInv /\ [UiNext]_uiVars => UiInv'
<1> SUFFICES ASSUME UiInv, [UiNext]_uiVars PROVE UiInv'
  OBVIOUS
<1>1. ASSUME NEW k \in Key, KeysChange(k) PROVE UiInv'
  BY <1>1, ReleasedKeepsInv, WakeByKeyKeepsInv, OperateKeepsInv DEF KeysChange
<1>2. ASSUME NEW motion \in BOOLEAN, TickPower(motion) PROVE UiInv'
  BY <1>2, TickPowerKeepsInv
<1>3. CASE UNCHANGED uiVars
  BY <1>3 DEF uiVars, pageVars, UiInv, HeldInv, DarkInTime, GoodUi, Consistent
<1>4. QED
  BY <1>1, <1>2, <1>3 DEF UiNext

-----------------------------------------------------------------------------
(* Pages, devices, items and commands stay in range for any keys and menus     *)
(* (main.cpp:677-724).                                                         *)
THEOREM UiTypeCorrect == UiSpec => []UiTypeOK
<1>1. UiInv => UiTypeOK
  BY DEF UiInv, GoodUi, HeldInv, Menus, UiCommand, UiTypeOK
<1>2. QED
  BY <1>1, UiInitInv, UiNextInv, PTL DEF UiSpec

(* Whatever keys are held, in any number and order, a command given on a       *)
(* device's page goes to that device (main.cpp:685-723).                        *)
THEOREM CommandsReachThePageShown == UiSpec => []CommandsGoToThePageShown
<1>1. UiInv => CommandsGoToThePageShown
  BY DEF UiInv, GoodUi, Consistent, CommandsGoToThePageShown
<1>2. QED
  BY <1>1, UiInitInv, UiNextInv, PTL DEF UiSpec

(* Time alone only darkens the display, on a clock of any range                 *)
(* (main.cpp:663-674).                                                           *)
THEOREM DarkDisplayStaysDark == UiSpec => DarkUntilTouched
<1>1. UiInv => DarkInTime
  BY DEF UiInv
<1>2. TickPower(FALSE) => (dimmed => dimmed') /\ (sleeping => sleeping')
  BY DEF TickPower
<1>3. QED
  BY <1>1, <1>2, UiInitInv, UiNextInv, PTL DEF UiSpec, DarkUntilTouched
=============================================================================
