---------------------------- MODULE DurableStores ----------------------------
(***************************************************************************)
(* What the server keeps on disk, across crashes and failing writes.       *)
(*                                                                         *)
(*   archive_store.rs       which sessions are archived                    *)
(*   push.rs, main.rs       push subscriptions, the VAPID key, the fan-out *)
(*   settings_store.rs      the operator's settings                        *)
(*   sessions_registry.rs   session.json, a file of the daemon's           *)
(*   config.rs              the move of the data directory                 *)
(*                                                                         *)
(* Every store rewrites its file in place (fs::write: truncate, then the   *)
(* content) and ignores an error: a crash in between leaves a torn file,   *)
(* which the next start reads as an empty one.                             *)
(***************************************************************************)
EXTENDS BackgroundModel

CONSTANTS
    Rows,        \* the sessions with a directory under sessions/
    Subscribers, \* devices that may subscribe
    Names,       \* titles the operator gives
    Shells,      \* login shells
    Specs,       \* background model specs, one of them unset
    Catalogs,    \* model lists of the daemon
    Untitled,    \* no title
    Errands      \* bounds of one behaviour: [on : stores used, ops, faults, restarts]

\* A session's file is none of the server's own; a spec has its suffixes in a row.
ASSUME StoresAssumption ==
    /\ Rows \cap {"archive", "push", "vapid", "settings"} = {}
    /\ \A s \in Specs : s.kind = "plain" => s.suffixes \in Seq(STRING)

VARIABLES
    errand,
    up,                 \* is the server running?
    legacy,             \* the archive in the pre-0.6 data directory, Absent = no such directory
    placed,             \* does the data directory exist?
    file, writing,      \* [store -> content], [store -> content being written, or None]
    damaged,            \* stores a crash or a failed write has ever cost content
    archived, wanted,   \* ArchiveStore, and what the operator asked for
    subs, vapid,        \* PushService: subscriptions <<endpoint, key>>, key
    push,               \* the holder of the push mutex: free, or a fan-out
    gone, acked,        \* endpoints the push service dropped; subscribed and told so
    warm, heldTitle,    \* sessions in the pool; the titles a daemon holds, per session
    renamed, behind,    \* the last accepted rename; renamed behind a running daemon's back
    chosen, told,       \* the operator's settings; the last settings message
    available_models

archiveVars == <<archived, wanted>>
pushVars == <<subs, vapid, push, gone, acked>>
titleVars == <<warm, heldTitle, renamed, behind>>
settingsVars == <<chosen, told, available_models>>
dirVars == <<legacy, placed>>
storesVars == <<errand, up, dirVars, file, writing, damaged, archiveVars, pushVars, titleVars, settingsVars>>

-----------------------------------------------------------------------------
(* Files *)

Stores == {"archive", "push", "vapid", "settings"} \cup Rows
Absent == [st |-> "absent"]
Torn == [st |-> "torn"]
Whole(v) == [st |-> "whole", v |-> v]
NoWrite == Absent

\* Every load: a file that is missing or does not parse is the default.
load(content, default) == IF content.st = "whole" THEN content.v ELSE default

NoSettings == [shell |-> "", model |-> [kind |-> "unset"]]
Blank == [override |-> Untitled, inferred |-> Untitled]

Uses(store) == store \in errand.on
Charge(what) == errand[what] > 0 /\ errand' = [errand EXCEPT ![what] = @ - 1]

\* fs::write: truncated first; or refused, which is logged at most.
persist(store, v) ==
    \/ /\ Charge("ops")
       /\ writing' = [writing EXCEPT ![store] = Whole(v)]
       /\ file' = [file EXCEPT ![store] = Torn]
       /\ damaged' = damaged
    \/ /\ errand.faults > 0 /\ errand.ops > 0
       /\ errand' = [errand EXCEPT !.faults = @ - 1, !.ops = @ - 1]
       /\ damaged' = damaged \cup {store}
       /\ UNCHANGED <<file, writing>>

NotPersisted == Charge("ops") /\ UNCHANGED <<file, writing, damaged>>

WriteEnds(store) ==
    /\ up /\ writing[store] # NoWrite
    /\ file' = [file EXCEPT ![store] = writing[store]]
    /\ writing' = [writing EXCEPT ![store] = NoWrite]
    /\ UNCHANGED <<errand, up, dirVars, damaged, archiveVars, pushVars, titleVars, settingsVars>>

\* Serving, and nobody writes the store.
StoreIdle(store) == up /\ writing[store] = NoWrite /\ writing["vapid"] = NoWrite

-----------------------------------------------------------------------------
(* The process *)

Crash ==
    /\ up /\ Charge("restarts")
    /\ up' = FALSE
    /\ damaged' = damaged \cup {s \in Stores \ {"vapid"} : writing[s] # NoWrite}
    /\ writing' = [s \in Stores |-> NoWrite]
    /\ push' = [pc |-> "free"]
    /\ warm' = {}
    /\ UNCHANGED <<dirVars, file, archiveVars, subs, vapid, gone, acked, heldTitle, renamed, behind, settingsVars>>

\* The files Start finds, and the stores it costs: the old directory is moved only where there is
\* no new one; a move that fails leaves it for good, as the new one exists from now on.
migrate_legacy_data_dir ==
    IF placed \/ legacy = Absent THEN {[file |-> file, costs |-> {}, faults |-> 0]}
    ELSE {[file |-> [file EXCEPT !["archive"] = legacy], costs |-> {}, faults |-> 0]}
         \cup [file : {file}, costs : {{"archive"}}, faults : {1} \cap 1 .. errand.faults]

\* A key that cannot be read is replaced by a new one.
load_or_create_vapid(files, key) ==
    /\ vapid' = load(files["vapid"], key)
    /\ IF files["vapid"].st = "whole" THEN file' = files /\ UNCHANGED writing
       ELSE /\ file' = [files EXCEPT !["vapid"] = Torn]
            /\ writing' = [writing EXCEPT !["vapid"] = Whole(key)]

\* main: every store loads its file before a connection is taken.
Start ==
    /\ ~up /\ up' = TRUE
    /\ \E found \in migrate_legacy_data_dir :
          /\ load_or_create_vapid(found.file, vapid + 1)
          /\ archived' = load(found.file["archive"], {})
          /\ damaged' = damaged \cup found.costs
          /\ errand' = [errand EXCEPT !.faults = @ - found.faults]
    /\ legacy' = (IF damaged' = damaged THEN Absent ELSE legacy) /\ placed' = TRUE
    /\ subs' = load(file["push"], {})
    /\ available_models' = {}
    /\ UNCHANGED <<wanted, push, gone, acked, titleVars, chosen, told>>

-----------------------------------------------------------------------------
(* ArchiveStore::set: written only on a change. *)

set_archived_flag(row, flag) ==
    /\ Uses("archive") /\ StoreIdle("archive")
    /\ wanted' = IF flag THEN wanted \cup {row} ELSE wanted \ {row}
    /\ archived' = IF flag THEN archived \cup {row} ELSE archived \ {row}
    /\ IF (row \in archived) = flag THEN NotPersisted ELSE persist("archive", archived')
    /\ UNCHANGED <<up, dirVars, pushVars, titleVars, settingsVars>>

-----------------------------------------------------------------------------
(* Push.  One async mutex: held by a request for its change and its write, *)
(* by a fan-out from reading the subscriptions to pruning the dead ones.   *)

\* Seeded bug: the fan-out gives the mutex back while it waits for the answers.
push_lock_shared == push.pc \in {"free", "sending"} /\ StoreIdle("push")

push_lock == push.pc = "free" /\ StoreIdle("push")

\* The browser has a new subscription and will post it.
Renews(e) ==
    /\ Uses("push") /\ e \notin acked \ gone
    /\ gone' = gone \ {e} /\ acked' = acked \ {e}
    /\ UNCHANGED <<errand, up, dirVars, file, writing, damaged, archiveVars, subs, vapid, push, titleVars, settingsVars>>

\* PushSubscriptionStore::add replaces what it has of the endpoint.
push_subscribe(e) ==
    /\ Uses("push") /\ push_lock /\ e \notin acked \cup gone
    /\ acked' = acked \cup {e}
    /\ subs' = {s \in subs : s[1] # e} \cup {<<e, vapid>>}
    /\ persist("push", subs')
    /\ UNCHANGED <<up, dirVars, archiveVars, vapid, push, gone, titleVars, settingsVars>>

push_unsubscribe(e) ==
    /\ Uses("push") /\ push_lock
    /\ acked' = acked \ {e}
    /\ subs' = {s \in subs : s[1] # e}
    /\ IF subs' = subs THEN NotPersisted ELSE persist("push", subs')
    /\ UNCHANGED <<up, dirVars, archiveVars, vapid, push, gone, titleVars, settingsVars>>

Expires(e) ==
    /\ Uses("push") /\ e \in acked
    /\ gone' = gone \cup {e}
    /\ UNCHANGED <<errand, up, dirVars, file, writing, damaged, archiveVars, subs, vapid, push, acked, titleVars, settingsVars>>

\* maybe_notify (nobody is connected) or push_test, once it has the mutex.
send_to_all ==
    /\ Uses("push") /\ push_lock /\ subs # {}
    /\ Charge("ops")
    /\ push' = [pc |-> "sending", to |-> subs, dead |-> {}]
    /\ UNCHANGED <<up, dirVars, file, writing, damaged, archiveVars, subs, vapid, gone, acked, titleVars, settingsVars>>

\* classify_send_result: only 404 and 410 are dead; another key than the subscription's is a failure.
classify_send_result(s, dead) ==
    IF s[1] \in gone /\ s[2] = vapid THEN dead \cup {s[1]} ELSE dead

PushAnswers(s) ==
    /\ up /\ push.pc = "sending" /\ s \in push.to
    /\ push' = [push EXCEPT !.to = @ \ {s}, !.dead = classify_send_result(s, @)]
    /\ UNCHANGED <<errand, up, dirVars, file, writing, damaged, archiveVars, subs, vapid, gone, acked, titleVars, settingsVars>>

prune(dead) ==
    /\ subs' = {s \in subs : s[1] \notin dead}
    /\ IF dead = {} THEN UNCHANGED <<errand, file, writing, damaged>>
       ELSE /\ writing' = [writing EXCEPT !["push"] = Whole(subs')]
            /\ file' = [file EXCEPT !["push"] = Torn]
            /\ UNCHANGED <<errand, damaged>>

FanOutEnds ==
    /\ StoreIdle("push") /\ push.pc = "sending" /\ push.to = {}
    /\ prune(push.dead)
    /\ push' = [pc |-> "free"]
    /\ UNCHANGED <<up, dirVars, archiveVars, vapid, gone, acked, titleVars, settingsVars>>

-----------------------------------------------------------------------------
(* Settings, under the hub's lock. *)

\* A field in the patch overwrites, the others stay.
merge_patch(current, patch) ==
    [field \in DOMAIN current |-> IF field \in DOMAIN patch THEN patch[field] ELSE current[field]]

pantoken_settings_msg(content) ==
    LET settings == load(content, NoSettings)
    IN  [settings |-> settings, models |-> available_models,
         warning |-> resolve_background_model(settings.model, available_models).warning]

\* write_pantoken_settings and the broadcast, which reads the file again.
SetSetting(patch) ==
    /\ Uses("settings") /\ StoreIdle("settings")
    /\ chosen' = [field \in DOMAIN chosen |-> IF field \in DOMAIN patch THEN patch[field] ELSE chosen[field]]
    /\ persist("settings", merge_patch(load(file["settings"], NoSettings), patch))
    /\ told' = pantoken_settings_msg(IF writing' = writing THEN file["settings"] ELSE writing'["settings"])
    /\ UNCHANGED <<up, dirVars, archiveVars, pushVars, titleVars, available_models>>

\* add_client: the settings as they are.
Connects ==
    /\ Uses("settings") /\ StoreIdle("settings")
    /\ told' = pantoken_settings_msg(file["settings"])
    /\ UNCHANGED <<errand, up, dirVars, file, writing, damaged, archiveVars, pushVars, titleVars, chosen, available_models>>

\* connect_model_list: the settings are not sent again.
ModelsArrive(models) ==
    /\ Uses("settings") /\ up
    /\ available_models' = models
    /\ UNCHANGED <<errand, up, dirVars, file, writing, damaged, archiveVars, pushVars, titleVars, chosen, told>>

-----------------------------------------------------------------------------
(* Titles.  session.json belongs to the daemon while one runs. *)

Cold(row) == heldTitle[row].st = "absent"

\* Opening starts or finds a daemon, which has read the file.
OpenRow(row) ==
    /\ Uses("titles") /\ StoreIdle(row) /\ row \notin warm /\ Charge("ops")
    /\ warm' = warm \cup {row}
    /\ heldTitle' = IF Cold(row) THEN [heldTitle EXCEPT ![row] = Whole(load(file[row], Blank))] ELSE heldTitle
    /\ UNCHANGED <<up, dirVars, file, writing, damaged, archiveVars, pushVars, renamed, behind, settingsVars>>

\* The daemon infers a title and writes its copy.
DaemonInfers(row, name) ==
    /\ Uses("titles") /\ ~Cold(row) /\ writing[row] = NoWrite /\ heldTitle[row].v.inferred = Untitled
    /\ heldTitle' = [heldTitle EXCEPT ![row].v.inferred = name]
    /\ file' = [file EXCEPT ![row] = heldTitle'[row]]
    /\ UNCHANGED <<errand, up, dirVars, writing, damaged, archiveVars, pushVars, warm, renamed, behind, settingsVars>>

\* Leaving the pool: a daemon that was attached to, not spawned, goes on running.
CloseRow(row, keeps) ==
    /\ Uses("titles") /\ StoreIdle(row) /\ row \in warm /\ Charge("ops")
    /\ warm' = warm \ {row}
    /\ heldTitle' = IF keeps THEN heldTitle ELSE [heldTitle EXCEPT ![row] = Absent]
    /\ UNCHANGED <<up, dirVars, file, writing, damaged, archiveVars, pushVars, renamed, behind, settingsVars>>

\* rename_session of a warm session: POST /title, answered once it is written.
RenameWarm(row, name) ==
    /\ Uses("titles") /\ StoreIdle(row) /\ row \in warm /\ Charge("ops")
    /\ heldTitle' = [heldTitle EXCEPT ![row].v.override = name]
    /\ file' = [file EXCEPT ![row] = heldTitle'[row]]
    /\ renamed' = [renamed EXCEPT ![row] = name]
    /\ behind' = behind \ {row}
    /\ UNCHANGED <<up, dirVars, writing, damaged, archiveVars, pushVars, warm, settingsVars>>

\* write_overridden_title: one key of the file; a file that does not parse is refused.
write_overridden_title(row, name) ==
    /\ Uses("titles") /\ StoreIdle(row) /\ row \notin warm /\ file[row].st = "whole"
    /\ persist(row, [file[row].v EXCEPT !.override = name])
    /\ renamed' = [renamed EXCEPT ![row] = name]
    /\ behind' = IF Cold(row) THEN behind \ {row} ELSE behind \cup {row}
    /\ UNCHANGED <<up, dirVars, archiveVars, pushVars, warm, heldTitle, settingsVars>>

\* cold_session_entry_from_meta: the operator's title first.
display_name(meta) == IF meta.override # Untitled THEN meta.override ELSE meta.inferred

\* list_cold_sessions: one row per readable file; merge_session_lists shows the title of a warm one.
list_sessions ==
    [row \in {r \in Rows : r \in warm \/ file[r].st = "whole"} |->
        display_name(IF row \in warm THEN heldTitle[row].v ELSE file[row].v)]

-----------------------------------------------------------------------------
StoresInit ==
    /\ errand \in Errands
    /\ up = FALSE
    /\ legacy \in {Absent, Whole(Rows)} /\ placed = FALSE
    /\ wanted = load(legacy, {})
    /\ file = [s \in Stores |-> IF s \in Rows THEN Whole(Blank) ELSE Absent]
    /\ writing = [s \in Stores |-> NoWrite] /\ damaged = {}
    /\ archived = {} /\ subs = {} /\ vapid = 0 /\ push = [pc |-> "free"] /\ gone = {} /\ acked = {}
    /\ warm = {} /\ heldTitle = [r \in Rows |-> Absent]
    /\ renamed = [r \in Rows |-> Untitled] /\ behind = {}
    /\ chosen = NoSettings /\ available_models = {}
    /\ told = [settings |-> NoSettings, models |-> {}, warning |-> ""]

StoresNext ==
    \/ Crash \/ Start
    \/ \E s \in Stores : WriteEnds(s)
    \/ \E row \in Rows, flag \in BOOLEAN : set_archived_flag(row, flag)
    \/ \E e \in Subscribers : Renews(e) \/ push_subscribe(e) \/ push_unsubscribe(e) \/ Expires(e)
    \/ send_to_all \/ FanOutEnds
    \/ up /\ push.pc = "sending" /\ \E s \in push.to : PushAnswers(s)
    \/ \E shell \in Shells : SetSetting([shell |-> shell])
    \/ \E spec \in Specs : SetSetting([model |-> spec])
    \/ Connects
    \/ \E models \in Catalogs : ModelsArrive(models)
    \/ \E row \in Rows : OpenRow(row) \/ \E keeps \in BOOLEAN : CloseRow(row, keeps)
    \/ \E row \in Rows, name \in Names :
          DaemonInfers(row, name) \/ RenameWarm(row, name) \/ write_overridden_title(row, name)

StoresSpec == StoresInit /\ [][StoresNext]_storesVars

-----------------------------------------------------------------------------
Settled(store) == up /\ writing[store] = NoWrite /\ store \notin damaged

(***************************************************************************)
(* What a request changed is on disk once it was answered, and a restart   *)
(* brings it back: as long as no crash or failed write hit the file, the   *)
(* archive is what the operator asked for, and every store in memory is    *)
(* its file.                                                               *)
(***************************************************************************)
StoresAreDurable ==
    /\ Settled("archive") => archived = wanted /\ load(file["archive"], {}) = archived
    /\ Settled("push") => load(file["push"], {}) = subs
    /\ Settled("vapid") => load(file["vapid"], 0) = vapid

(***************************************************************************)
(* A device that was told it is subscribed, and that the push service has  *)
(* not dropped, is subscribed under the key the server signs with:  no     *)
(* fan-out that learned of its old death, no restart and no change of key  *)
(* has taken it away.                                                      *)
(***************************************************************************)
SubscriptionsAreUsable ==
    up /\ damaged \cap {"push", "vapid"} = {} => \A e \in acked \ gone : <<e, vapid>> \in subs

(***************************************************************************)
(* Setting one thing leaves the other as it was, and a spec that names no  *)
(* model (of those known when it was sent) never goes out without a        *)
(* warning.                                                                *)
(***************************************************************************)
SettingsAreTold ==
    /\ Settled("settings") => load(file["settings"], NoSettings) = chosen
    /\ told.settings.model.kind = "plain" /\ told.warning # "no_match" =>
           names_a_model(told.settings.model, told.models)

(***************************************************************************)
(* The list shows the last title the operator gave, cold or warm, whatever *)
(* the daemon infers, unless the rename went behind a daemon that was      *)
(* still running.                                                          *)
(***************************************************************************)
RenamesStick ==
    \A row \in DOMAIN list_sessions :
        Settled(row) /\ row \notin behind /\ renamed[row] # Untitled => list_sessions[row] = renamed[row]

\* What was answered lasts, as long as no crash or failed write hit the file: archive, subscriptions
\* and key, settings and titles.
AnsweredChangesLast == StoresAreDurable /\ SubscriptionsAreUsable /\ SettingsAreTold /\ RenamesStick
=============================================================================
