--------------------------- MODULE SessionActions ---------------------------
(***************************************************************************)
(* What a client may change about a session besides its transcript (model, *)
(* thinking level, permission mode, goal, ...), and how the change gets    *)
(* back to the screen.  The driver POSTs it to the daemon; the daemon      *)
(* announces it on its event stream; the driver's caches follow the        *)
(* stream, and every snapshot it emits is built from the caches.           *)
(*                                                                         *)
(*   polytoken/driver.rs         install_warm, new_session, session_action,*)
(*                               handle_sse_event, execute_effect, reads   *)
(*   polytoken/daemon_client.rs  one method per endpoint, the SSE loop     *)
(*                                                                         *)
(* Two settings stand for all: the permission mode, which GET /state does  *)
(* not carry (monitor_mode is its only cache), and the model, which it     *)
(* does (last_state.active_model).  The hub's applier runs one driver call *)
(* at a time; the stream's consumer runs beside it.                        *)
(***************************************************************************)
EXTENDS Naturals, Sequences, TLC

CONSTANTS
    Modes,        \* PermissionMonitorMode
    ModelNames,
    Unset,        \* Option::None
    MaxSwitches,  \* bound: changes of a setting and other requests
    MaxDrops,     \* bound: losses of the event stream
    MaxRefusals   \* bound: requests that fail or whose answer is lost

VARIABLES
    settings,        \* [mode, model]: the daemon's settings
    was,           \* modes the daemon has been in since the session was opened
    link,          \* is the event stream connected?
    chan,          \* events between the daemon and the consumer task
    effect,        \* the effect the consumer is about to execute
    monitor_mode, active_model, \* WarmSession's caches
    journal,       \* does the hub hold a journal for the session?
    shown,         \* [mode, model] of the journal's last snapshot
    driverCall,            \* the driver call in progress
    said,          \* what the last call told the client
    missed,        \* why the mode may be wrong: a switch that was not told, or told too early
    switches, linkDrops, refusals

daemonVars == <<settings, was, link>>
cachedVars == <<monitor_mode, active_model>>
screenVars == <<journal, shown>>
boundVars == <<switches, linkDrops, refusals>>
actionsVars == <<daemonVars, chan, effect, cachedVars, screenVars, driverCall, said, missed, boundVars>>

-----------------------------------------------------------------------------
Nil == [k |-> "none"]

ActionsInit ==
    /\ settings \in [mode : Modes, model : ModelNames]
    /\ was = {settings.mode} /\ link = FALSE /\ chan = <<>> /\ effect = Nil
    /\ monitor_mode = Unset /\ active_model = Unset
    /\ journal = FALSE /\ shown = [mode |-> Unset, model |-> Unset]
    /\ driverCall = [k |-> "cold"] /\ said = "" /\ missed = {}
    /\ switches = 0 /\ linkDrops = 0 /\ refusals = 0

\* An event of the daemon reaches the consumer's channel while the stream is connected.
Announce(ev) == chan' = IF link THEN Append(chan, ev) ELSE chan

\* The daemon takes a new value.
Takes(setting, v) ==
    /\ settings' = [settings EXCEPT ![setting] = v]
    /\ was' = IF setting = "mode" THEN was \cup {v} ELSE was
    /\ Announce([k |-> setting, v |-> v])
    /\ missed' = IF setting = "mode" /\ ~link THEN missed \cup {"gap"} ELSE missed

Keep == UNCHANGED <<settings, was, chan, missed>>

\* The snapshot the caches give.
snapshot == [mode |-> monitor_mode, model |-> active_model]

\* The hub drops events of a session it has no journal for.
emit(s) == shown' = IF journal THEN s ELSE shown

Answered == refusals' = refusals
Failed == refusals < MaxRefusals /\ refusals' = refusals + 1

-----------------------------------------------------------------------------
(***************************************************************************)
(* DaemonClient's POSTs.  A refusal leaves the daemon as it was; a timeout *)
(* may come after the daemon acted.                                        *)
(***************************************************************************)
post(setting, v, outcome) ==
    CASE outcome = "ok" -> Takes(setting, v) /\ Answered
      [] outcome = "refused" -> Keep /\ Failed
      [] OTHER -> Takes(setting, v) /\ Failed

Outcomes == {"ok", "refused", "lost"}

-----------------------------------------------------------------------------
(***************************************************************************)
(* install_warm: GET /state, subscribe, GET /permission-monitor.           *)
(***************************************************************************)
InstallWarm(stateOk) ==
    /\ driverCall = [k |-> "cold"]
    /\ IF stateOk THEN Answered /\ active_model' = settings.model
                  ELSE Failed /\ active_model' = Unset
    /\ link' = TRUE
    /\ driverCall' = [k |-> "ask_mode"]
    /\ UNCHANGED <<settings, was, chan, effect, monitor_mode, screenVars, said, missed, switches, linkDrops>>

\* The daemon answers; the answer is cached in a later step.
GetPermissionMonitor(ok) ==
    /\ driverCall.k = "ask_mode"
    /\ IF ok THEN Answered /\ driverCall' = [k |-> "cache_mode", v |-> settings.mode, then |-> "picks"]
             ELSE Failed /\ driverCall' = [k |-> "picks"]
    /\ UNCHANGED <<daemonVars, chan, effect, cachedVars, screenVars, said, missed, switches, linkDrops>>

CacheMode ==
    /\ driverCall.k = "cache_mode"
    /\ monitor_mode' = driverCall.v
    /\ driverCall' = [k |-> driverCall.then]
    /\ UNCHANGED <<daemonVars, chan, effect, active_model, screenVars, said, missed, boundVars>>

(***************************************************************************)
(* new_session applies the draft's model, then its permission mode; a      *)
(* resumed session has neither.  A failure becomes a notice in the seed.   *)
(***************************************************************************)
PickModel(m, outcome) ==
    /\ driverCall.k = "picks" /\ switches < MaxSwitches
    /\ switches' = switches + 1
    /\ post("model", m, outcome)
    /\ driverCall' = [k |-> "pick_mode"]
    /\ said' = IF outcome = "ok" THEN said ELSE "warning"
    /\ UNCHANGED <<link, effect, cachedVars, screenVars, linkDrops>>

\* Seeded bug: the pick is cached whatever the daemon answered.
PickMode_unconfirmed(m, outcome) ==
    /\ driverCall.k \in {"picks", "pick_mode"} /\ switches < MaxSwitches
    /\ switches' = switches + 1
    /\ post("mode", m, outcome)
    /\ driverCall' = [k |-> "cache_mode", v |-> m, then |-> "seed"]
    /\ said' = IF outcome = "ok" THEN said ELSE "warning"
    /\ UNCHANGED <<link, effect, cachedVars, screenVars, linkDrops>>

PickMode(m, outcome) ==
    /\ driverCall.k \in {"picks", "pick_mode"} /\ switches < MaxSwitches
    /\ switches' = switches + 1
    /\ post("mode", m, outcome)
    /\ driverCall' = IF outcome = "ok" THEN [k |-> "cache_mode", v |-> m, then |-> "seed"] ELSE [k |-> "seed"]
    /\ said' = IF outcome = "ok" THEN said ELSE "warning"
    /\ UNCHANGED <<link, effect, cachedVars, screenVars, linkDrops>>

\* The seed's snapshot is taken, then GET /history asked.  A switch that was emitted and is still
\* to be cached is in neither the snapshot nor what follows it.
BuildSeed ==
    /\ driverCall.k \in {"picks", "pick_mode", "seed"}
    /\ driverCall' = [k |-> "history", s |-> snapshot]
    /\ missed' = IF effect.k = "set_mode" THEN missed \cup {"seeded"} ELSE missed
    /\ UNCHANGED <<daemonVars, chan, effect, cachedVars, screenVars, said, boundVars>>

\* The hub folds the seed and from then on has a journal (finish_switch): what it was told since
\* the snapshot is dropped, or stands in the journal the seed replaces.  Without a history an opened
\* session is its snapshot, a branch leaves the journal as it is.
Seed(historyOk) ==
    /\ driverCall.k = "history"
    /\ IF historyOk THEN Answered ELSE Failed
    /\ shown' = IF historyOk \/ ~journal THEN driverCall.s ELSE shown
    /\ journal' = TRUE
    /\ driverCall' = Nil
    /\ UNCHANGED <<daemonVars, chan, effect, cachedVars, said, missed, switches, linkDrops>>

-----------------------------------------------------------------------------
(***************************************************************************)
(* session_action on the warm session: POST, then a notice.                *)
(***************************************************************************)
notice(outcome, success) == said' = IF outcome = "ok" THEN success ELSE "warning"

Act(setting, v, outcome, success) ==
    /\ driverCall = Nil /\ switches < MaxSwitches
    /\ switches' = switches + 1
    /\ post(setting, v, outcome)
    /\ notice(outcome, success)
    /\ UNCHANGED <<link, effect, cachedVars, screenVars, driverCall, linkDrops>>

SetModel(m, outcome) == Act("model", m, outcome, "info")

\* The cached mode is left to the stream.
SetPermissionMonitor(m, outcome) == Act("mode", m, outcome, "info")

\* POST /model wants the model too: the cached one is sent along.
SetThinking(outcome) ==
    \/ /\ active_model # Unset
       /\ Act("model", active_model, outcome, "level_set")
    \/ /\ driverCall = Nil /\ active_model = Unset /\ outcome = "refused"
       /\ said' = "warning"
       /\ UNCHANGED <<daemonVars, chan, effect, cachedVars, screenVars, driverCall, missed, boundVars>>

(***************************************************************************)
(* The actions whose outcome only the daemon keeps.  Each method of the    *)
(* client takes some statuses for success; 0 is no answer and stands for  *)
(* every refusal.                                                          *)
(***************************************************************************)
Statuses == {0, 200, 202, 204}

SettingEndpoints ==
    [facet |-> {200}, handoff |-> {200, 202, 204}, autodrain |-> {200}, title |-> {200}]

RuntimeEndpoints == [compact |-> {202}, clear |-> {200}, reset_shell |-> {200}, reload |-> {200}]

GoalEndpoints ==
    [goal_set |-> {200}, goal_pause |-> {200, 204}, goal_resume |-> {200, 204}, goal_clear |-> {200, 204}]

McpEndpoints == [enable |-> {200}, disable |-> {200}, disconnect |-> {200}, reconnect |-> {200}]

DaemonEndpoints == SettingEndpoints @@ RuntimeEndpoints @@ GoalEndpoints @@ McpEndpoints

\* Some succeed without a notice.
Silent == {"title"} \cup DOMAIN RuntimeEndpoints \cup DOMAIN McpEndpoints

OtherAction(e, status) ==
    /\ driverCall = Nil /\ switches < MaxSwitches
    /\ switches' = switches + 1
    /\ LET ok == status \in DaemonEndpoints[e] IN
       /\ IF ok THEN Answered ELSE Failed
       /\ said' = CASE ~ok -> "warning" [] ok /\ e \in Silent -> "" [] OTHER -> "info"
    /\ UNCHANGED <<daemonVars, chan, effect, cachedVars, screenVars, driverCall, missed, linkDrops>>

\* list_jobs, list_file_index: a failure is an empty list, without a notice.
AskDaemon(ok) ==
    /\ driverCall = Nil /\ switches < MaxSwitches
    /\ switches' = switches + 1
    /\ IF ok THEN Answered ELSE Failed
    /\ said' = ""
    /\ UNCHANGED <<daemonVars, chan, effect, cachedVars, screenVars, driverCall, missed, linkDrops>>

\* delete_todo: status and conflict body to TodoDeleteError.
todo_error(status, conflict) ==
    CASE status \in {200, 204} -> ""
      [] status = 404 -> "not_found"
      [] status = 409 /\ conflict # "unreadable" -> conflict
      [] OTHER -> "warning"

DeleteTodo(status, conflict) ==
    /\ driverCall = Nil /\ switches < MaxSwitches
    /\ switches' = switches + 1
    /\ said' = todo_error(status, conflict)
    /\ UNCHANGED <<daemonVars, chan, effect, cachedVars, screenVars, driverCall, missed, linkDrops, refusals>>

\* list_at_refs fills an empty state cache.
ListAtRefs ==
    /\ driverCall = Nil
    /\ active_model' = IF active_model = Unset THEN settings.model ELSE active_model
    /\ UNCHANGED <<daemonVars, chan, effect, monitor_mode, screenVars, driverCall, said, missed, boundVars>>

\* branch_from: rewind, GET /state, a new seed.
BranchFrom(stateOk) ==
    /\ driverCall = Nil
    /\ IF stateOk THEN Answered /\ active_model' = settings.model
                  ELSE Failed /\ active_model' = active_model
    /\ driverCall' = [k |-> "seed"]
    /\ UNCHANGED <<daemonVars, chan, effect, monitor_mode, screenVars, said, missed, switches, linkDrops>>

-----------------------------------------------------------------------------
(***************************************************************************)
(* The daemon on its own: another client or a classifier changes a setting,*)
(* a turn makes the driver fetch the state.                                *)
(***************************************************************************)
DaemonSwitches(setting, v) ==
    /\ driverCall.k # "cold" /\ switches < MaxSwitches /\ settings[setting] # v
    /\ switches' = switches + 1
    /\ Takes(setting, v)
    /\ UNCHANGED <<link, effect, cachedVars, screenVars, driverCall, said, linkDrops, refusals>>

TurnEvent ==
    /\ link /\ switches < MaxSwitches
    /\ switches' = switches + 1
    /\ Announce([k |-> "turn"])
    /\ UNCHANGED <<daemonVars, effect, cachedVars, screenVars, driverCall, said, missed, linkDrops, refusals>>

\* sse_loop: stream error, end or heartbeat timeout, then backoff and a new connection, which starts
\* with a synthetic stream_discontinuity.
LinkDrops ==
    /\ link /\ linkDrops < MaxDrops
    /\ linkDrops' = linkDrops + 1
    /\ link' = FALSE
    /\ UNCHANGED <<settings, was, chan, effect, cachedVars, screenVars, driverCall, said, missed, switches, refusals>>

\* The request names the last event seen, and the daemon may send what was missed after it.
LinkReconnects(replay) ==
    /\ driverCall.k # "cold" /\ ~link
    /\ link' = TRUE
    /\ chan' = Append(chan, [k |-> "gap"])
               \o (IF replay THEN <<[k |-> "mode", v |-> settings.mode], [k |-> "model", v |-> settings.model]>>
                            ELSE <<>>)
    /\ missed' = IF replay THEN missed \ {"gap"} ELSE missed
    /\ UNCHANGED <<settings, was, effect, cachedVars, screenVars, driverCall, said, boundVars>>

-----------------------------------------------------------------------------
(***************************************************************************)
(* The consumer: map, emit, then execute the effects.                      *)
(***************************************************************************)
\* map_daemon_event.  What is emitted while a seed is on its way is lost with the journal's past.
ConsumeEvent ==
    /\ effect = Nil /\ chan # <<>>
    /\ chan' = Tail(chan)
    /\ LET ev == Head(chan) IN
       /\ CASE ev.k \in {"mode", "model"} -> emit([snapshot EXCEPT ![ev.k] = ev.v])
            [] OTHER -> shown' = shown
       /\ effect' = CASE ev.k = "mode" -> [k |-> "set_mode", v |-> ev.v]
                      [] ev.k = "model" -> Nil
                      [] ev.k = "turn" -> [k |-> "fetch_state"]
                      [] OTHER -> [k |-> "reseed"]
       /\ missed' = IF ev.k = "mode" /\ driverCall.k = "history" THEN missed \cup {"dropped"} ELSE missed
    /\ UNCHANGED <<daemonVars, cachedVars, journal, driverCall, said, boundVars>>

\* An answer that is still to be cached is older than this.
SetMonitorMode ==
    /\ effect.k = "set_mode"
    /\ monitor_mode' = effect.v
    /\ effect' = Nil
    /\ missed' = IF driverCall.k = "cache_mode" THEN missed \cup {"overtaken"} ELSE missed
    /\ UNCHANGED <<daemonVars, chan, active_model, screenVars, driverCall, said, boundVars>>

\* FetchState and Reseed: GET /state, then a snapshot.
ExecuteFetchState(ok) ==
    /\ effect.k \in {"fetch_state", "reseed"}
    /\ IF ok THEN Answered /\ active_model' = settings.model
             ELSE Failed /\ active_model' = active_model
    /\ effect' = [k |-> "emit"]
    /\ UNCHANGED <<daemonVars, chan, monitor_mode, screenVars, driverCall, said, missed, switches, linkDrops>>

EmitFetched ==
    /\ effect.k = "emit"
    /\ emit(snapshot)
    /\ effect' = Nil
    /\ UNCHANGED <<daemonVars, chan, cachedVars, journal, driverCall, said, missed, boundVars>>

-----------------------------------------------------------------------------
TodoStatuses == {204, 404, 409, 500}
Conflicts == {"dependents", "turn_in_flight", "unreadable"}

ActionsNext ==
    \/ \E ok \in BOOLEAN : \/ InstallWarm(ok) \/ GetPermissionMonitor(ok) \/ ExecuteFetchState(ok)
                           \/ AskDaemon(ok) \/ BranchFrom(ok) \/ Seed(ok)
    \/ \E o \in Outcomes : \/ \E m \in ModelNames : PickModel(m, o) \/ SetModel(m, o)
                           \/ \E m \in Modes : PickMode(m, o) \/ SetPermissionMonitor(m, o)
                           \/ SetThinking(o)
    \/ \E e \in DOMAIN DaemonEndpoints, s \in Statuses : OtherAction(e, s)
    \/ CacheMode \/ BuildSeed \/ ListAtRefs
    \/ \E s \in TodoStatuses, c \in Conflicts : DeleteTodo(s, c)
    \/ \E m \in Modes : DaemonSwitches("mode", m)
    \/ \E m \in ModelNames : DaemonSwitches("model", m)
    \/ TurnEvent \/ LinkDrops
    \/ \E replay \in BOOLEAN : LinkReconnects(replay)
    \/ ConsumeEvent \/ SetMonitorMode \/ EmitFetched

ActionsSpec == ActionsInit /\ [][ActionsNext]_actionsVars

-----------------------------------------------------------------------------
(***************************************************************************)
(* The permission badge never asserts a mode the daemon was not put in     *)
(* (new_session: "Cache the mode ONLY on success", so that the badge does  *)
(* not say standard while the daemon bypasses approvals): every mode shown *)
(* is one the daemon has been in since the session was opened.             *)
(***************************************************************************)
ShownModeIsReal == shown.mode \in was \cup {Unset}

SettingsQuiet == journal /\ link /\ chan = <<>> /\ effect = Nil /\ driverCall = Nil

(***************************************************************************)
(* Once every event is consumed the badge is the daemon's mode, or is      *)
(* unknown because GET /permission-monitor failed.  The exceptions the     *)
(* code leaves open: a switch while the stream was down is never learned   *)
(* (a reseed fetches the state and the history, not the mode); one         *)
(* consumed while an older answer waits to be cached is overwritten; one   *)
(* emitted just before a seed is built and cached just after is in neither;*)
(* one emitted between the seed's snapshot and its journal is dropped.     *)
(***************************************************************************)
QuietBadgeIsRight == SettingsQuiet /\ missed = {} => shown.mode \in {settings.mode, Unset}

\* The permission badge tells the truth: at any time a mode that was real, at rest the one that is.
BadgeIsTruthful == ShownModeIsReal /\ QuietBadgeIsRight

(***************************************************************************)
(* Stated at DaemonClient::subscribe: after a reconnect, the reseed        *)
(* "handles recovery", so a quiet session shows the daemon's mode.         *)
(***************************************************************************)
ReseedRecoversMode == SettingsQuiet /\ missed \subseteq {"gap"} => shown.mode \in {settings.mode, Unset}

(***************************************************************************)
(* Stated by SetThinking's notice: it changes the level, not the model.    *)
(***************************************************************************)
ThinkingKeepsModel ==
    [][SetThinking("ok") /\ said' = "level_set" => settings'.model = settings.model]_actionsVars
=============================================================================
