------------------------------ MODULE TapoChild -------------------------------
(***************************************************************************)
(* firmware/src/adapters/TapoAdapter.cpp with groupMode_ = false: the        *)
(* adapter of one L530E lamp.  A command is a KLAP request over HTTP, which  *)
(* needs a session made by two handshakes, is tried a second time after a    *)
(* new handshake, and is confirmed by the next poll that reads the value     *)
(* back.                                                                     *)
(*                                                                         *)
(* One step is one HTTP exchange.  Hashes, ciphers and signatures are        *)
(* abstracted to whether both sides hold the same session.  Any poll may be  *)
(* due in any loop (every 5 s), any deadline past (3 s) and any session       *)
(* expired (23 h).  The lamp carries out what it is sent; its session ends    *)
(* with a restart, and another app may operate it as well.                    *)
(***************************************************************************)
EXTENDS Integers, FiniteSets, Sequences, LampOutcome

CONSTANTS
  Command,      \* the commands the group passes on: [kind, value1, value2, value3]
  LampPresets,  \* the presets the lamp has, each a function of some fields
  Lamps,        \* the values the lamp may start with
  MaxCommands,  \* bound: commands executed
  Slots,        \* pending_: 8
  MaxFaults     \* bound: lost messages, restarts and changes made by others

Kind == {"SetPower", "SetBrightness", "SetColorTemperature", "SetHsv", "SetLightEffect",
         "ApplyLightPreset", "Refresh"}
Field == {"power", "brightness", "temperature", "hue", "saturation", "effect"}

(* The UI keeps the brightness it sets within 1..100 (main.cpp:539, 623, 625),  *)
(* and repeats one the lamp has shown with a colour.                            *)
ASSUME TapoChildAssumption ==
  /\ Command \subseteq [kind : Kind, value1 : Int, value2 : Int, value3 : Int]
  /\ \A c \in Command : /\ c.kind = "SetBrightness" => c.value1 \in 1..100
                        /\ c.kind = "SetHsv" => c.value3 \in 1..100
  /\ Len(LampPresets) \in Nat
  /\ \A l \in Lamps : DOMAIN l = Field /\ l.power \in BOOLEAN
  /\ MaxCommands \in Nat /\ Slots \in Nat /\ MaxFaults \in Nat

VARIABLES
  pc,           \* where the network task is: "begin", "tick", "resolve", "execute"
  purpose,      \* what the latest request is for
  stage,        \* the exchange it is at; "none" outside of a request
  attempt,      \* 1, or 2 when retry is false
  outcome,      \* how it ended
  command,      \* the command it carries, with its id
  shown,        \* the fields the answer of the latest poll shows
  connection,   \* connection_
  session,      \* cookie, keys and sessionExpiresMs_ are set
  state,        \* state_
  presetIndex,  \* state_.presetIndex
  presets,      \* presetCount_
  pollNow,      \* nextPollMs_ is 0
  pending,      \* pending_: the active slots
  events,       \* events_, read by the group after every tick
  lamp,         \* the fields of the lamp itself
  lampSession,  \* its session with us: "none", "seeded" by handshake1, or "open"
  reach,        \* "up", "down", or "refusing" the account
  faults,
  commands,     \* commands executed so far
  carriedOut,   \* history: the lamp has done what the latest request asked
  disturbed,    \* history: something else than an ended session hit that request
  witnessed     \* history: ids of commands the lamp showed as done after their issue

requestVars == <<purpose, stage, attempt, outcome, command, shown>>
sessionVars == <<connection, session>>
cacheVars == <<state, presetIndex, presets, pollNow>>
pendingVars == <<pending, events, commands>>
lampVars == <<lamp, lampSession, reach, faults>>
history == <<carriedOut, disturbed, witnessed>>
vars == <<pc, requestVars, sessionVars, cacheVars, pendingVars, lampVars, history>>

NoCommand == [id |-> 0]
Asking == stage # "none"

(* The fields of f, as far as g gives them another value. *)
Updated(f, g) == [x \in DOMAIN f |-> IF x \in DOMAIN g THEN g[x] ELSE f[x]]

-----------------------------------------------------------------------------
(* execute(): what a command asks the lamp to set.                           *)

Percent(n) == IF n < 1 THEN 1 ELSE IF n > 100 THEN 100 ELSE n

Params(c) ==
  CASE c.kind = "SetPower" -> [power |-> c.value1 # 0]
    [] c.kind = "SetBrightness" -> [power |-> TRUE, brightness |-> Percent(c.value1)]
    [] c.kind = "SetColorTemperature" -> [power |-> TRUE, temperature |-> c.value1]
    [] c.kind = "SetHsv" -> [power |-> TRUE, hue |-> c.value1, saturation |-> c.value2,
                             brightness |-> Percent(c.value3), temperature |-> 0]
    [] c.kind = "SetLightEffect" -> [effect |-> c.value1]
    [] c.kind = "ApplyLightPreset" ->
         LET preset == LampPresets[c.value1 + 1] IN
         [x \in DOMAIN preset \cup {"power"} |-> IF x = "power" THEN TRUE ELSE preset[x]]

Unsupported(c) ==
  \/ c.kind = "SetColorTemperature" /\ c.value1 \notin 2500..6500
  \/ c.kind = "SetHsv" /\ (c.value1 \notin 0..360 \/ c.value2 \notin 0..100)
  \/ c.kind = "SetLightEffect" /\ c.value1 \notin 0..2
  \/ c.kind = "ApplyLightPreset" /\ c.value1 \notin 0..presets - 1

(* commandMatches(): the cache against the command. *)
Matches(c) ==
  CASE c.kind = "SetPower" -> state.power = (c.value1 # 0)
    [] c.kind = "SetBrightness" -> state.power /\ state.brightness = c.value1
    [] c.kind = "SetColorTemperature" -> state.power /\ state.temperature = c.value1
    [] c.kind = "SetHsv" ->
         /\ state.power /\ state.temperature = 0
         /\ state.hue = c.value1 /\ state.saturation = c.value2
         /\ state.brightness = c.value3
    [] c.kind = "SetLightEffect" -> state.effect = c.value1
    [] c.kind = "ApplyLightPreset" -> presetIndex = c.value1
    [] c.kind = "Refresh" -> TRUE

-----------------------------------------------------------------------------
(* request(): a handshake unless a session is open, the encrypted request,   *)
(* and once more from the handshake on when no valid answer comes.           *)

FirstExchange(expired) ==
  IF connection # "Online" \/ ~session \/ expired THEN "handshake1" ELSE "post"

Request(for, c, expired) ==
  /\ purpose' = for /\ command' = c
  /\ attempt' = 1
  /\ stage' = FirstExchange(expired)
  /\ session' = (session /\ stage' = "post")
  /\ carriedOut' = FALSE
  /\ disturbed' = (reach # "up")
  /\ UNCHANGED <<outcome, shown>>

Ends_KeepsConnection(o) ==
  /\ stage' = "done" /\ outcome' = o
  /\ UNCHANGED <<pc, purpose, attempt, command, connection, cacheVars, pendingVars, reach,
                 witnessed>>

(* The request returns; TapoAdapter goes on with what it was for.            *)
Ends(o) ==
  /\ stage' = "done" /\ outcome' = o
  /\ connection' = ConnectionAfter(o)
  /\ UNCHANGED <<pc, purpose, attempt, command, cacheVars, pendingVars, reach, witnessed>>

Continues(s, c) ==
  /\ stage' = s
  /\ connection' = c
  /\ UNCHANGED <<pc, purpose, outcome, command, shown, cacheVars, pendingVars, reach,
                 witnessed>>

(* A message is lost on the way, or never sent for want of a connection.     *)
Disturbs ==
  /\ disturbed' = TRUE
  /\ \/ reach = "down" /\ UNCHANGED faults
     \/ reach # "down" /\ faults < MaxFaults /\ faults' = faults + 1

Handshake1 ==
  /\ stage = "handshake1" /\ reach = "up"
  /\ lampSession' = "seeded"
  /\ Continues("handshake2", connection)
  /\ UNCHANGED <<attempt, session, lamp, faults, carriedOut, disturbed>>

(* The lamp's hash is not the one the account gives.                          *)
Handshake1Mismatch ==
  /\ stage = "handshake1" /\ reach = "refusing"
  /\ Ends("refused")
  /\ UNCHANGED <<shown, session, lamp, lampSession, faults, carriedOut, disturbed>>

(* No answer, an answer of another length, or one without a cookie.          *)
Handshake1Fails ==
  /\ stage = "handshake1"
  /\ Disturbs
  /\ lampSession' \in {lampSession} \cup IF reach = "up" THEN {"seeded"} ELSE {}
  /\ Ends("unreachable")
  /\ UNCHANGED <<shown, session, lamp, carriedOut>>

(* begin() makes a handshake on its own. *)
Handshake2 ==
  /\ stage = "handshake2" /\ reach = "up" /\ lampSession = "seeded"
  /\ lampSession' = "open" /\ session' = TRUE
  /\ \/ /\ purpose = "begin"
        /\ Ends("ok") /\ carriedOut' = TRUE
        /\ UNCHANGED shown
     \/ /\ purpose # "begin"
        /\ Continues("post", "Online")
        /\ UNCHANGED <<attempt, carriedOut>>
  /\ UNCHANGED <<lamp, faults, disturbed>>

(* The lamp lost the seeds of handshake1, or refuses the account by now: its  *)
(* 403 is taken for a refusal, any other status for a failure.                *)
Handshake2Refused(o) ==
  /\ stage = "handshake2" /\ reach # "down"
  /\ reach = "refusing" \/ lampSession # "seeded"
  /\ o \in {"refused", "unreachable"} /\ Ends(o)
  /\ UNCHANGED <<shown, session, lamp, lampSession, faults, carriedOut, disturbed>>

Handshake2Fails ==
  /\ stage = "handshake2"
  /\ Disturbs
  /\ lampSession' \in {lampSession} \cup
       IF reach = "up" /\ lampSession = "seeded" THEN {"open"} ELSE {}
  /\ Ends("unreachable")
  /\ UNCHANGED <<shown, session, lamp, carriedOut>>

(* The lamp carries out a command; any other request only reads.             *)
LampActs ==
  /\ carriedOut' = TRUE
  /\ lamp' = IF purpose = "command" THEN Updated(lamp, Params(command)) ELSE lamp

LampServes == reach = "up" /\ lampSession = "open"

PostAnswered ==
  /\ stage = "post" /\ LampServes
  /\ LampActs
  /\ shown' = IF purpose = "poll" THEN lamp ELSE shown
  /\ witnessed' = witnessed \cup
       IF purpose # "poll" THEN {}
       ELSE {p.command.id : p \in {q \in pending : q.command.kind # "Refresh" =>
               \A x \in DOMAIN Params(q.command) : lamp[x] = Params(q.command)[x]}}
  /\ stage' = "done" /\ outcome' = "ok" /\ connection' = "Online"
  /\ UNCHANGED <<pc, purpose, attempt, command, session, cacheVars, pendingVars,
                 lampSession, reach, faults, disturbed>>

(* An error code, of which -1501 is a refusal, or JSON that cannot be read.  *)
PostRejected(o) ==
  /\ stage = "post" /\ reach # "down" /\ lampSession = "open"
  /\ \/ o = "rejected" /\ Disturbs
     \/ o = "refused" /\ reach = "refusing" /\ UNCHANGED <<faults, disturbed>>
  /\ Ends(o)
  /\ UNCHANGED <<shown, session, lamp, lampSession, carriedOut>>

Retry_Never == Ends("unreachable") /\ UNCHANGED shown

Retry_SameSession ==
  \/ attempt = 1 /\ attempt' = 2 /\ Continues("post", "Online")
  \/ attempt = 2 /\ Ends("unreachable") /\ UNCHANGED shown

(* One more attempt, from the handshake on, which clears the session.        *)
Retry ==
  \/ attempt = 1 /\ attempt' = 2 /\ Continues("handshake1", "Offline")
  \/ attempt = 2 /\ Ends("unreachable") /\ UNCHANGED shown

(* The lamp does not know the session: 403.                                   *)
PostForbidden ==
  /\ stage = "post" /\ reach # "down"
  /\ ~LampServes
  /\ session' = FALSE
  /\ Retry
  /\ UNCHANGED <<lamp, lampSession, faults, carriedOut, disturbed>>

(* The request or its answer is lost, or the answer is not a valid one; the  *)
(* keys are kept, unless a retry renews them.                                 *)
PostFails ==
  /\ stage = "post"
  /\ Disturbs
  /\ \/ LampServes /\ LampActs
     \/ UNCHANGED <<lamp, carriedOut>>
  /\ session' = (attempt = 2)
  /\ Retry
  /\ UNCHANGED lampSession

-----------------------------------------------------------------------------
(* begin() and loadPresets().                                                 *)

(* A new child; one whose handshake fails is discarded.                       *)
Begin ==
  /\ pc = "begin" /\ ~Asking
  /\ connection' = "Connecting"
  /\ Request("begin", NoCommand, FALSE)
  /\ UNCHANGED <<pc, cacheVars, pendingVars, lampVars, witnessed>>

Returned(for) ==
  /\ stage = "done" /\ purpose = for
  /\ stage' = "none" /\ attempt' = 1 /\ command' = NoCommand

BeginFails ==
  /\ Returned("begin") /\ outcome # "ok"
  /\ UNCHANGED <<pc, purpose, outcome, shown, sessionVars, cacheVars, pendingVars,
                 lampVars, history>>

LoadPresets ==
  /\ Returned("begin") /\ outcome = "ok"
  /\ pc' = "presets"
  /\ UNCHANGED <<purpose, outcome, shown, sessionVars, cacheVars, pendingVars, lampVars,
                 history>>

AskPresets(expired) ==
  /\ pc = "presets" /\ ~Asking
  /\ Request("presets", NoCommand, expired)
  /\ UNCHANGED <<pc, connection, cacheVars, pendingVars, lampVars, witnessed>>

PresetsRead ==
  /\ Returned("presets")
  /\ presets' = IF outcome = "ok" THEN Len(LampPresets) ELSE presets
  /\ pc' = "tick"
  /\ UNCHANGED <<purpose, outcome, shown, sessionVars, state,
                 presetIndex, pollNow, pendingVars, lampVars, history>>

-----------------------------------------------------------------------------
(* tick(): a poll when due, then resolveChildPending().                      *)

PollDue_OnlineOnly(expired) ==
  /\ pc = "tick" /\ ~Asking /\ connection = "Online"
  /\ Request("poll", NoCommand, expired)
  /\ UNCHANGED <<pc, connection, cacheVars, pendingVars, lampVars, witnessed>>

PollDue(expired) ==
  /\ pc = "tick" /\ ~Asking
  /\ Request("poll", NoCommand, expired)
  /\ UNCHANGED <<pc, connection, cacheVars, pendingVars, lampVars, witnessed>>

PollNotDue ==
  /\ pc = "tick" /\ ~Asking /\ ~pollNow
  /\ pc' = "resolve"
  /\ UNCHANGED <<requestVars, sessionVars, cacheVars, pendingVars, lampVars, history>>

(* updateState(); presetIndex is not part of what the lamp reports.          *)
Polled ==
  /\ Returned("poll")
  /\ pc' = "resolve"
  /\ pollNow' = FALSE
  /\ \/ /\ outcome = "ok"
        /\ state' = Updated(state, shown)
        /\ pending' = {[p EXCEPT !.reported = TRUE] : p \in pending}
     \/ outcome # "ok" /\ UNCHANGED <<state, pending>>
  /\ UNCHANGED <<purpose, outcome, shown, sessionVars, presetIndex,
                 presets, events, commands, lampVars, history>>

Confirmed_FromCache(p) == Matches(p.command)
Confirmed(p) == p.reported /\ Matches(p.command)

Event(p) ==
  [command |-> p.command,
   result |-> IF Confirmed(p) THEN "Succeeded"
              ELSE IF connection \in {"AuthFailed", "Offline"} THEN connection
              ELSE "TimedOut"]

Resolve(late) ==
  /\ pc = "resolve" /\ pc' = "execute"
  /\ LET settled == {p \in pending : Confirmed(p)} \cup late IN
       /\ events' = {Event(p) : p \in settled}
       /\ pending' = pending \ settled
  /\ UNCHANGED <<requestVars, sessionVars, cacheVars, commands, lampVars, history>>

-----------------------------------------------------------------------------
(* The group has read the events and may execute a command on this child.    *)

NextLoop ==
  /\ pc = "execute" /\ ~Asking
  /\ pc' = "tick" /\ events' = {}
  /\ UNCHANGED <<requestVars, sessionVars, cacheVars, pending, commands, lampVars, history>>

Issued(c) ==
  [id |-> commands + 1, kind |-> c.kind,
   value1 |-> c.value1, value2 |-> c.value2, value3 |-> c.value3]

(* rememberPending(): a full table is answered with TimedOut.                *)
Remember(c) ==
  pending' = IF Cardinality(pending) < Slots
             THEN pending \cup {[command |-> c, reported |-> FALSE]} ELSE pending

Takes(c) ==
  /\ pc = "execute" /\ ~Asking
  /\ connection = "Online"
  /\ commands < MaxCommands /\ commands' = commands + 1
  /\ events' = {}

ExecuteUnsupported(c) ==
  /\ Takes(c) /\ Unsupported(c)
  /\ pc' = "tick"
  /\ UNCHANGED <<requestVars, sessionVars, cacheVars, pending, lampVars, history>>

ExecuteRefresh(c) ==
  /\ Takes(c) /\ c.kind = "Refresh"
  /\ pc' = "tick"
  /\ pollNow' = TRUE
  /\ Remember(Issued(c))
  /\ UNCHANGED <<requestVars, sessionVars, state, presetIndex, presets, lampVars, history>>

Execute(c, expired) ==
  /\ Takes(c) /\ c.kind # "Refresh" /\ ~Unsupported(c)
  /\ Request("command", Issued(c), expired)
  /\ UNCHANGED <<pc, connection, cacheVars, pending, lampVars, witnessed>>

(* The preset index is written here, not read back.                          *)
Executed ==
  /\ Returned("command")
  /\ pc' = "tick"
  /\ \/ /\ outcome = "ok"
        /\ pollNow' = TRUE
        /\ Remember(command)
        /\ presetIndex' = IF command.kind = "ApplyLightPreset" THEN command.value1
                          ELSE presetIndex
     \/ outcome # "ok" /\ UNCHANGED <<pollNow, pending, presetIndex>>
  /\ UNCHANGED <<purpose, outcome, shown, sessionVars, state, presets,
                 events, commands, lampVars, history>>

-----------------------------------------------------------------------------
(* The lamp and the network (external).                                      *)

Fault == faults < MaxFaults /\ faults' = faults + 1
Untouched == <<pc, requestVars, sessionVars, cacheVars, pendingVars, carriedOut, witnessed>>

(* A restart between two requests is the end of a session and no more.       *)
LampRestarts ==
  /\ Fault
  /\ lampSession' = "none"
  /\ disturbed' = (disturbed \/ Asking)
  /\ UNCHANGED <<Untouched, lamp, reach>>

ReachChanges(r) ==
  /\ Fault
  /\ r # reach /\ reach' = r
  /\ disturbed' = TRUE
  /\ UNCHANGED <<Untouched, lamp, lampSession>>

OtherAppSets(c) ==
  /\ Fault
  /\ reach # "down"
  /\ lamp' = Updated(lamp, Params(c))
  /\ UNCHANGED <<Untouched, lampSession, reach, disturbed>>

-----------------------------------------------------------------------------
Init ==
  /\ pc = "begin" /\ purpose = "begin" /\ stage = "none" /\ attempt = 1
  /\ outcome = "unreachable" /\ command = NoCommand
  /\ lamp \in Lamps
  /\ connection = "Offline" /\ session = FALSE
  /\ state = [power |-> FALSE, brightness |-> 100, temperature |-> 4000, hue |-> 0,
              saturation |-> 0, effect |-> 0]
  /\ shown = state
  /\ presetIndex = -1 /\ presets = 0 /\ pollNow = TRUE
  /\ pending = {} /\ events = {} /\ commands = 0
  /\ lampSession = "none" /\ reach = "up" /\ faults = 0
  /\ carriedOut = FALSE /\ disturbed = FALSE /\ witnessed = {}

Exchange ==
  \/ Handshake1 \/ Handshake1Mismatch \/ Handshake1Fails
  \/ Handshake2 \/ Handshake2Fails
  \/ \E o \in Outcome : Handshake2Refused(o) \/ PostRejected(o)
  \/ PostAnswered \/ PostForbidden \/ PostFails

Poll == \E expired \in BOOLEAN : PollDue(expired)

NetworkTask ==
  \/ Exchange
  \/ Begin \/ BeginFails
  \/ LoadPresets
  \/ \E expired \in BOOLEAN : AskPresets(expired)
  \/ PresetsRead
  \/ Poll \/ PollNotDue \/ Polled
  \/ \E late \in SUBSET pending : Resolve(late)
  \/ NextLoop
  \/ \E c \in Command : ExecuteUnsupported(c) \/ ExecuteRefresh(c)
  \/ \E c \in Command, expired \in BOOLEAN : Execute(c, expired)
  \/ Executed

Environment ==
  \/ LampRestarts
  \/ \E r \in {"up", "down", "refusing"} : ReachChanges(r)
  \/ \E c \in {d \in Command : d.kind \notin {"ApplyLightPreset", "Refresh"}} : OtherAppSets(c)

Next == NetworkTask \/ Environment

(* Every exchange has a timeout, the loop never stops, and nextPollMs_ comes. *)
Spec == Init /\ [][Next]_vars /\ WF_vars(NetworkTask) /\ SF_vars(Poll)

-----------------------------------------------------------------------------
(* Values in range, the table within its slots; and nothing is ever posted,  *)
(* nor the lamp held to be online, without the keys of a complete handshake. *)
TypeOK ==
  /\ pc \in {"begin", "presets", "tick", "resolve", "execute"}
  /\ purpose \in {"begin", "presets", "poll", "command"}
  /\ stage \in {"none", "handshake1", "handshake2", "post", "done"}
  /\ attempt \in {1, 2} /\ outcome \in Outcome
  /\ command.id \in 0..MaxCommands
  /\ DOMAIN lamp = Field /\ DOMAIN shown = Field /\ DOMAIN state = Field
  /\ connection \in {"Connecting", "Online", "Offline", "AuthFailed"}
  /\ {session, pollNow, carriedOut, disturbed} \subseteq BOOLEAN
  /\ presets \in {0, Len(LampPresets)} /\ presetIndex \in -1..presets - 1
  /\ Cardinality(pending) <= Slots
  /\ \A p \in pending : p.command.id \in 1..commands
  /\ commands \in 0..MaxCommands /\ faults \in 0..MaxFaults
  /\ lampSession \in {"none", "seeded", "open"}
  /\ reach \in {"up", "down", "refusing"} /\ witnessed \subseteq 1..MaxCommands
  /\ stage = "post" \/ (stage = "none" /\ connection = "Online") => session

(* Every request, with its handshakes and its second attempt, ends as one    *)
(* LampRequest: in one outcome, with the connection state that belongs to it, *)
(* and never in success without the lamp having done what was asked.          *)
OneRequest == INSTANCE LampRequest WITH asking <- stage \notin {"none", "done"}
ImplementsLampRequest == OneRequest!Spec

(* A session that ended, by expiry on this side or a restart of the lamp,    *)
(* costs no command and no poll: request() notices and makes a new one.  A    *)
(* request fails only if something else goes wrong while it runs.             *)
SessionLossIsInvisible ==
  stage = "done" /\ outcome # "ok" => disturbed

(* "Dyson and Tapo commands require MQTT or KLAP readback before full        *)
(* success" (CHANGELOG.md:33): the lamp itself has shown every field of a     *)
(* confirmed command after it was issued, whatever was cached before, was     *)
(* lost on the way, or was changed by another app.  Presets are excepted.     *)
ConfirmedWasShown ==
  \A e \in events :
    e.result = "Succeeded" /\ e.command.kind # "ApplyLightPreset" => e.command.id \in witnessed

(* ... and the same of a preset.                                              *)
PresetWasShown ==
  \A e \in events :
    e.result = "Succeeded" /\ e.command.kind = "ApplyLightPreset" => e.command.id \in witnessed

(* A lamp that can be reached again and takes the account is online again    *)
(* without a restart of the Cardputer: the poll asks it anew, or, for a child *)
(* that begin() found unreachable, the next discovery makes another.          *)
LampComesBack == <>[](reach = "up") => <>[](Asking \/ connection = "Online")
=============================================================================
