----------------------------- MODULE SetupPortal -----------------------------
(***************************************************************************)
(* Setup mode over the configuration store: setup() and loop() of           *)
(* firmware/src/main.cpp, firmware/src/SetupPortal.cpp and                   *)
(* validateSetupCandidate(), whose save() and load() are the steps of        *)
(* ConfigStore.  Power may be lost between any two steps.                     *)
(*                                                                         *)
(* A submitted configuration is abstracted to what is wrong with it: its     *)
(* shape, the Wi-Fi credentials, the Tapo account, the Dyson credential, or  *)
(* a Dyson product type that makes the fan's reports go unheard.  A right    *)
(* value may still fail when its device does not answer.  What is stored     *)
(* carries, as history, whether the fan was heard while it was validated.     *)
(***************************************************************************)
EXTENDS ConfigStore

CONSTANTS
  MaxSubmits,     \* bound: forms submitted
  PortalTimeout,  \* turns of loop() in ten minutes
  MaxBoots,       \* bound: boots
  SoftApMayFail   \* whether WiFi.softAP() may fail

Fault == {"shape", "wifi", "tapo", "credential", "type"}
Configuration == [faults : SUBSET (Fault \ {"shape"}), heard : BOOLEAN]
NoForm == {"none"}

ASSUME PortalAssumption ==
  /\ Config = Configuration
  /\ MaxSubmits \in 0..MaxSaves /\ PortalTimeout \in Nat \ {0} /\ MaxBoots \in Nat
  /\ SoftApMayFail \in BOOLEAN

VARIABLES
  mode,       \* "boot", "setup" or "normal"
  portal,     \* SetupPortal::active_
  elapsed,    \* turns since startedMs_
  step,       \* where handleSave() is; "idle" outside
  form,       \* its candidate, as the set of its faults
  heard,      \* history: a report came for the candidate under validation
  reported,   \* dysonAdapter.snapshot().lastReportMs # 0
  submits,
  boots

bootVars == <<mode, portal, elapsed, boots>>
formVars == <<step, form, heard, reported, submits>>
portalVars == <<bootVars, formVars>>
setupVars == <<vars, portalVars>>

Submitted == [faults |-> form, heard |-> heard]

-----------------------------------------------------------------------------
(* setup(): load(), then configured and the key not held for five seconds,   *)
(* or the portal.                                                             *)

Load ==
  /\ mode = "boot"
  /\ (\E i \in {0, 1} : LoadSlot(i)) \/ LoadLegacy \/ LoadNothing
  /\ UNCHANGED portalVars

BootNormal ==
  /\ mode = "boot" /\ phase = "running" /\ config # NoConfig
  /\ mode' = "normal"
  /\ UNCHANGED <<vars, portal, elapsed, boots, formVars>>

BootSetup(softAp) ==
  /\ mode = "boot" /\ phase = "running"
  /\ SoftApMayFail \/ softAp
  /\ mode' = "setup"
  /\ portal' = softAp
  /\ elapsed' = 0
  /\ UNCHANGED <<vars, boots, formVars>>

-----------------------------------------------------------------------------
(* handleSave() and the validator. *)

Submit(faults) ==
  /\ mode = "setup" /\ portal /\ step = "idle"
  /\ submits < MaxSubmits /\ submits' = submits + 1
  /\ form' = faults
  /\ heard' = FALSE
  /\ step' = "shape"
  /\ UNCHANGED <<vars, bootVars, reported>>

(* An answer of 400 or 500: the form is given up.                            *)
Refuse ==
  /\ step' = "idle" /\ form' = NoForm
  /\ UNCHANGED <<bootVars, heard, reported, submits>>

Reject(s) == step = s /\ Refuse /\ UNCHANGED vars

ShapeWrong == "shape" \in form /\ Reject("shape")
WifiFails == Reject("wifi")
TapoFails == Reject("tapo")

(* No discovery, no connection, a refused credential, or no report within     *)
(* 12 s, or one whose connection is gone again before it is looked at.        *)
DysonFails == Reject("dyson")

Passes(s, t) ==
  /\ step = s /\ step' = t
  /\ UNCHANGED <<vars, bootVars, form, heard, reported, submits>>

ShapeRight == "shape" \notin form /\ Passes("shape", "wifi")
WifiJoins == "wifi" \notin form /\ Passes("wifi", "tapo")

TapoReads_Unchecked == Passes("tapo", "dyson")
TapoReads == "tapo" \notin form /\ Passes("tapo", "dyson")

(* The fan reports on the topic of the candidate's product type.             *)
DysonReports ==
  /\ step = "dyson" /\ ~heard
  /\ {"credential", "type"} \cap form = {}
  /\ reported' = TRUE /\ heard' = TRUE
  /\ UNCHANGED <<vars, bootVars, step, form, submits>>

(* Connected with the candidate's credential, and some report has come.      *)
DysonReads == reported /\ "credential" \notin form /\ Passes("dyson", "save")

(* store_->save(candidate).                                                  *)
StartSave ==
  /\ step = "save"
  /\ BeginSave(Submitted)
  /\ UNCHANGED portalVars

WriteSlot == Write /\ UNCHANGED portalVars

SaveRefused == SaveFails /\ Refuse

SaveAccepted ==
  /\ SaveSucceeds
  /\ step' = "saved"
  /\ UNCHANGED <<bootVars, form, heard, reported, submits>>

(* *config_ = candidate, then the answer of 200.                             *)
UseCandidate ==
  /\ step = "saved" /\ step' = "restart"
  /\ config' = Submitted
  /\ UNCHANGED <<flash, revision, activeSlot, phase, candidate, saves, bootVars,
                 form, heard, reported, submits>>

-----------------------------------------------------------------------------
(* ESP.restart(), or power off and on: flash is all that stays.              *)
Restarts ==
  /\ boots < MaxBoots /\ boots' = boots + 1
  /\ Restart
  /\ mode' = "boot" /\ portal' = FALSE
  /\ reported' = FALSE
  /\ step' = "idle" /\ form' = NoForm
  /\ UNCHANGED <<elapsed, heard, submits>>

RestartAfterSave == step = "restart" /\ Restarts
PowerCycle == Restarts

(* SetupPortal::tick(), between two requests.                                *)
Counting ==
  /\ mode = "setup" /\ portal /\ step = "idle" /\ elapsed < PortalTimeout
  /\ elapsed' = elapsed + 1
  /\ UNCHANGED <<vars, mode, portal, boots, formVars>>

TimesOut_Never == FALSE
TimesOut ==
  /\ mode = "setup" /\ portal /\ step = "idle" /\ elapsed >= PortalTimeout
  /\ Restarts

PortalTick == Counting \/ TimesOut

(* What an older firmware left under the legacy key is taken to be right.    *)
PortalInit ==
  /\ Init
  /\ legacy \in {NoConfig, [faults |-> {}, heard |-> TRUE]}
  /\ mode = "boot" /\ portal = FALSE /\ elapsed = 0
  /\ step = "idle" /\ form = NoForm
  /\ reported = FALSE /\ heard = FALSE
  /\ submits = 0 /\ boots = 0

Firmware ==
  \/ Load \/ BootNormal
  \/ \E softAp \in BOOLEAN : BootSetup(softAp)
  \/ ShapeWrong \/ ShapeRight \/ WifiJoins \/ WifiFails \/ TapoReads \/ TapoFails
  \/ DysonReports \/ DysonReads \/ DysonFails
  \/ StartSave \/ WriteSlot \/ SaveRefused \/ SaveAccepted \/ UseCandidate
  \/ RestartAfterSave \/ PortalTick

PortalNext ==
  \/ Firmware
  \/ \E faults \in SUBSET Fault : Submit(faults)
  \/ PowerCycle

(* loop() runs for ever, and every check has a timeout of its own.           *)
PortalSpec == PortalInit /\ [][PortalNext]_setupVars /\ WF_setupVars(Firmware)

-----------------------------------------------------------------------------
(* Values in range; a form is handled only while the portal is up, and the   *)
(* store is written only on behalf of a form.                                 *)
PortalTypeOK ==
  /\ TypeOK
  /\ mode \in {"boot", "setup", "normal"} /\ portal \in BOOLEAN
  /\ elapsed \in 0..PortalTimeout
  /\ step \in {"idle", "shape", "wifi", "tapo", "dyson", "save", "saved", "restart"}
  /\ form \in (SUBSET Fault) \cup {NoForm}
  /\ {reported, heard} \subseteq BOOLEAN
  /\ submits \in 0..MaxSubmits /\ boots \in 0..MaxBoots
  /\ step # "idle" => mode = "setup" /\ portal
  /\ phase \in {"writing", "verifying"} => step = "save"

(* Portal and store in order: whatever was submitted, refused, torn or cut    *)
(* off by a loss of power, no two slots tie for the next boot's choice, and    *)
(* the slot to be written next is never the one that the running program       *)
(* relies on (ConfigStore.cpp:83-84, 106, 112).                                *)
PortalInOrder == PortalTypeOK /\ RevisionsDiffer /\ ActiveIsSettled

(* A wrong Tapo account or Dyson credential never replaces what the next     *)
(* boot will load, nor reaches the configuration in use, in any sequence of   *)
(* submissions, torn or failed writes, timeouts and power losses.             *)
StoredHasNoWrongSecret ==
  \A c \in {Durable, config} \ {NoConfig} : c.faults \subseteq {"type"}

(* "It then validates KLAP reads and a Dyson MQTT state report. NVS is       *)
(* written only if these checks pass" (firmware/README.md:33): the stored    *)
(* configuration has passed all of them itself.                               *)
StoredWasVerified == Durable # NoConfig => Durable.heard

(* "When setup times out, the unit restarts instead of remaining in an inert *)
(* setup screen" (firmware/README.md:36): setup mode ends.                    *)
SetupEnds == mode = "setup" ~> mode # "setup" \/ boots = MaxBoots
=============================================================================
