---------------------------- MODULE DesktopShell ----------------------------
(***************************************************************************)
(* The desktop application around a local server: the supervisor thread    *)
(* that spawns, probes and respawns the hub, the updater's periodic loop   *)
(* and tray check, the update card the hub keeps for its clients, and the  *)
(* ways the application ends.                                              *)
(*                                                                         *)
(*   desktop/src/supervisor.rs    run_loop, supervise_one, terminate       *)
(*   desktop/src/updater.rs       run_cycle, run_check                     *)
(*   desktop/src/main.rs, shell.rs, state.rs   events, overlay, teardown   *)
(*   server main.rs, hub.rs       start-up, /health, /update/state         *)
(*                                                                         *)
(* A hub belongs to the launch of the application that spawned it: hub n   *)
(* is the child of the current launch or an orphan of an earlier one.      *)
(***************************************************************************)
EXTENDS Naturals, FiniteSets, PidLock

CONSTANTS
    FirstLock,           \* pantoken.pid at first: no such file, or one that names no pid
    MAX_RAPID_RESTARTS,  \* quick exits before the supervisor gives up
    LIVENESS_STRIKES,    \* failed probes before a healthy hub is restarted
    Versions,            \* release numbers, 1 .. the last one
    MaxHubs,             \* hub processes spawned, over all launches
    MaxLaunches,         \* launches of the application
    MaxClicks,           \* clicks on the update card
    MaxLost,             \* failed installs whose report does not reach the hub
    MaxUpsets            \* crashes, hangs, kills and lost answers, together

ASSUME LimitsAssumption ==
    /\ MAX_RAPID_RESTARTS \in Nat /\ LIVENESS_STRIKES \in Nat \ {0}
    /\ MaxHubs \in Nat /\ MaxLaunches \in Nat \ {0} /\ MaxClicks \in Nat /\ MaxLost \in Nat /\ MaxUpsets \in Nat
    /\ Versions \subseteq Nat \ {0} /\ 1 \in Versions
    /\ {NoLock, Garbled} \cap (0 .. MaxHubs) = {} /\ FirstLock \in {NoLock, Garbled}

NoVersion == 0
Hubs == 1 .. MaxHubs

VARIABLES
    app,       \* [launch, st, version, fatal]: the application process
    sup,       \* the supervisor thread
    hubs,      \* [Hubs -> "none", "starting", "locking", "booting", "serving", "hung", "dead"]
    child,     \* the hub the supervisor holds, 0 for none
    orphans,   \* hubs whose application was killed
    lock,      \* pantoken.pid in the data dir
    looked,    \* [Hubs -> what acquire_pid_lock read of it before it writes]
    raced,     \* did some hub overwrite a lock it had not read?
    card,      \* the child's update card: [sha, applying, force]
    clients,   \* is a client connected to the child?
    busy,      \* is a turn running in it?
    upd,       \* the periodic update thread: [pc, ver, attended]
    manual,    \* the tray check: where it stands
    inFlight,  \* CHECK_IN_FLIGHT
    overlay,   \* is the "Updating" scrim up?
    bundle,    \* the version installed on disk
    latest,    \* the version the release endpoint offers
    clicks, attempts, lost, upsets   \* history: clicks, attended installs, lost reports, disturbances

lockSteps == <<looked, raced>>
hubVars == <<hubs, child, orphans, lock, lockSteps>>
cardVars == <<card, clients, busy>>
updVars == <<upd, manual, inFlight>>
history == <<clicks, attempts, lost>>
vars == <<app, sup, hubs, child, orphans, lock, looked, raced, card, clients, busy, upd, manual, inFlight,
          overlay, bundle, latest, clicks, attempts, lost, upsets>>

-----------------------------------------------------------------------------
(***************************************************************************)
(* Processes.                                                              *)
(***************************************************************************)
Alive == {n \in Hubs : hubs[n] \notin {"none", "dead"}}
Serving == {n \in Hubs : hubs[n] \in {"booting", "serving", "hung"}}
NoCard == [sha |-> NoVersion, applying |-> FALSE, force |-> FALSE]

\* A loopback request reaches the child only while it answers.
Reachable == child # 0 /\ hubs[child] = "serving"

\* Hub n is gone; what it kept in memory goes with it.
Dies(n) ==
    /\ hubs' = [hubs EXCEPT ![n] = "dead"]
    /\ IF n = child THEN card' = NoCard /\ clients' = FALSE /\ busy' = FALSE
       ELSE UNCHANGED cardVars

\* SIGTERM.  The handler exists once the hub serves: it then drops the lock; before, the
\* process just dies.  A hung hub may or may not get to it.
Sigterm(n) ==
    /\ Dies(n)
    /\ \/ hubs[n] \in {"serving", "hung"} /\ lock' = release(lock, n)
       \/ hubs[n] \in {"starting", "locking", "booting"} /\ UNCHANGED lock

Upset == upsets < MaxUpsets /\ upsets' = upsets + 1

\* main: read the lock and leave if a live process holds it...
acquire_read(n) ==
    /\ hubs[n] = "starting"
    /\ \/ /\ lock_decision(lock, n, Alive) = "live"
          /\ Dies(n) /\ UNCHANGED looked
       \/ /\ lock_decision(lock, n, Alive) = "reclaim"
          /\ hubs' = [hubs EXCEPT ![n] = "locking"] /\ looked' = [looked EXCEPT ![n] = lock]
          /\ UNCHANGED cardVars
    /\ UNCHANGED <<app, sup, child, orphans, lock, raced, updVars, overlay, bundle, latest, history, upsets>>

\* ... or write it, whatever the file holds by then, and build the driver and the hub.
acquire_write(n) ==
    /\ hubs[n] = "locking"
    /\ hubs' = [hubs EXCEPT ![n] = "booting"] /\ lock' = Acquired(lock, n)
    /\ looked' = [looked EXCEPT ![n] = NoLock] /\ raced' = (raced \/ lock # looked[n])
    /\ UNCHANGED <<app, sup, child, orphans, cardVars, updVars, overlay, bundle, latest, history, upsets>>

\* axum::serve: from here on /health answers and SIGTERM is handled.
serve(n) ==
    /\ hubs[n] = "booting"
    /\ hubs' = [hubs EXCEPT ![n] = "serving"]
    /\ UNCHANGED <<app, sup, child, orphans, lock, lockSteps, cardVars, updVars, overlay, bundle, latest,
                   history, upsets>>

\* A crash (a panic, a taken port, a kill -9) leaves the lock file behind.
crash(n) ==
    /\ n \in Alive /\ Upset /\ Dies(n)
    /\ UNCHANGED <<app, sup, child, orphans, lock, lockSteps, updVars, overlay, bundle, latest, history>>

hang(n) ==
    /\ hubs[n] = "serving" /\ Upset
    /\ hubs' = [hubs EXCEPT ![n] = "hung"]
    /\ UNCHANGED <<app, sup, child, orphans, lock, lockSteps, cardVars, updVars, overlay, bundle, latest,
                   history>>

recover(n) ==
    /\ hubs[n] = "hung"
    /\ hubs' = [hubs EXCEPT ![n] = "serving"]
    /\ UNCHANGED <<app, sup, child, orphans, lock, lockSteps, cardVars, updVars, overlay, bundle, latest,
                   history, upsets>>

\* Someone stops a hub whose application is gone.
stop_orphan(n) ==
    /\ n \in orphans \cap Alive /\ Sigterm(n)
    /\ orphans' = orphans \ {n}
    /\ UNCHANGED <<app, sup, child, lockSteps, updVars, overlay, bundle, latest, history, upsets>>

-----------------------------------------------------------------------------
(***************************************************************************)
(* The supervisor thread.                                                  *)
(***************************************************************************)
FreshSup == [pc |-> "spawn", started |-> FALSE, healthy |-> FALSE, misses |-> 0, rapid |-> 0,
             stop |-> FALSE]

\* SupervisorEvent::Unrecoverable: the scrim goes and a dialog comes up; its dismissal exits.
Unrecoverable == app' = [app EXCEPT !.fatal = TRUE] /\ overlay' = FALSE

\* run_loop: one more child.
spawn(n) ==
    /\ sup.pc = "spawn" /\ ~sup.stop /\ app.st # "gone"
    /\ hubs[n] = "none" /\ \A k \in 1 .. n - 1 : hubs[k] # "none"
    /\ hubs' = [hubs EXCEPT ![n] = "starting"] /\ child' = n
    /\ sup' = [sup EXCEPT !.pc = "watch", !.healthy = FALSE, !.misses = 0]
    /\ UNCHANGED <<app, orphans, lock, lockSteps, cardVars, updVars, overlay, bundle, latest, history, upsets>>

\* The log cannot be opened or the binary cannot be run: fatal, and the thread ends.
spawn_fails ==
    /\ sup.pc = "spawn" /\ ~sup.stop /\ Upset
    /\ Unrecoverable /\ sup' = [sup EXCEPT !.pc = "done"]
    /\ UNCHANGED <<hubVars, cardVars, updVars, bundle, latest, history>>

loop_ends ==
    /\ sup.pc = "spawn" /\ sup.stop
    /\ sup' = [sup EXCEPT !.pc = "done"]
    /\ UNCHANGED <<app, hubVars, cardVars, updVars, overlay, bundle, latest, history, upsets>>

\* The child is gone.  An exit within 5 s of the spawn is a strike, more than
\* MAX_RAPID_RESTARTS in a row are a crash loop; any other exit resets the count.
AfterExit(quick) ==
    LET strikes == IF quick THEN sup.rapid + 1 ELSE 0 IN
    /\ child' = 0
    /\ IF sup.stop
       THEN sup' = [sup EXCEPT !.pc = "done"] /\ UNCHANGED <<app, overlay>>
       ELSE IF strikes > MAX_RAPID_RESTARTS
       THEN sup' = [sup EXCEPT !.pc = "done", !.rapid = strikes] /\ Unrecoverable
       ELSE sup' = [sup EXCEPT !.pc = "spawn", !.rapid = strikes] /\ UNCHANGED <<app, overlay>>

see_exit ==
    /\ sup.pc = "watch" /\ hubs[child] = "dead"
    /\ \E quick \in BOOLEAN : AfterExit(quick)
    /\ UNCHANGED <<hubs, orphans, lock, lockSteps, cardVars, updVars, bundle, latest, history, upsets>>

see_stop ==
    /\ sup.pc = "watch" /\ sup.stop
    /\ sup' = [sup EXCEPT !.pc = "terminate"]
    /\ UNCHANGED <<app, hubVars, cardVars, updVars, overlay, bundle, latest, history, upsets>>

\* A probe answers.  The first one of a child navigates the window, which drops the scrim; the
\* first one ever also starts the updater.
health_ok ==
    /\ sup.pc = "watch" /\ ~sup.stop /\ Reachable /\ (~sup.healthy \/ sup.misses > 0)
    /\ sup' = [sup EXCEPT !.healthy = TRUE, !.started = TRUE, !.misses = 0]
    /\ overlay' = (overlay /\ sup.healthy)
    /\ upd' = IF sup.started THEN upd ELSE [upd EXCEPT !.pc = "idle"]
    /\ UNCHANGED <<app, hubVars, cardVars, manual, inFlight, bundle, latest, history, upsets>>

\* A hub that was healthy misses a probe; enough of them in a row end it.
probe_missed ==
    /\ sup.pc = "watch" /\ ~sup.stop /\ sup.healthy /\ hubs[child] = "hung"
    /\ sup' = [sup EXCEPT !.misses = @ + 1,
                          !.pc = IF sup.misses + 1 >= LIVENESS_STRIKES THEN "terminate" ELSE @]
    /\ UNCHANGED <<app, hubVars, cardVars, updVars, overlay, bundle, latest, history, upsets>>

\* BOOT_HEALTH_TIMEOUT: reported as fatal, yet the loop goes on to respawn.
boot_deadline ==
    /\ sup.pc = "watch" /\ ~sup.stop /\ ~sup.healthy /\ ~sup.started
    /\ hubs[child] \in {"starting", "locking", "booting", "hung"} /\ Upset
    /\ sup' = [sup EXCEPT !.pc = "terminate"] /\ Unrecoverable
    /\ UNCHANGED <<hubVars, cardVars, updVars, bundle, latest, history>>

\* Seeded bug: the thread gives up on a hub that ignores SIGTERM.
terminate_no_kill ==
    /\ sup.pc = "terminate" /\ AfterExit(FALSE)
    /\ \/ hubs[child] \in {"dead", "hung"} /\ UNCHANGED <<hubs, lock, cardVars>>
       \/ child \in Alive /\ Sigterm(child)
    /\ UNCHANGED <<orphans, lockSteps, updVars, bundle, latest, history, upsets>>

\* SIGTERM, up to 5 s, then SIGKILL, which leaves the lock file.
terminate ==
    /\ sup.pc = "terminate" /\ AfterExit(FALSE)
    /\ \/ hubs[child] = "dead" /\ UNCHANGED <<hubs, lock, cardVars>>
       \/ child \in Alive /\ Sigterm(child)
       \/ hubs[child] = "hung" /\ Dies(child) /\ UNCHANGED lock
    /\ UNCHANGED <<orphans, lockSteps, updVars, bundle, latest, history, upsets>>

\* Tray "Restart Hub": a signal, and the loop respawns.
restart_hub ==
    /\ app.st = "running" /\ child \in Alive /\ Upset /\ Sigterm(child)
    /\ UNCHANGED <<app, sup, child, orphans, lockSteps, updVars, overlay, bundle, latest, history>>

-----------------------------------------------------------------------------
(***************************************************************************)
(* The hub's update card and its clients.                                  *)
(***************************************************************************)
Result(c) == [card |-> [c EXCEPT !.force = FALSE], go |-> c.applying \/ c.force]

\* Seeded bug: a failed install leaves the card applying.
report_keeps_applying(sha, failed) ==
    Result([card EXCEPT !.sha = sha, !.applying = @ /\ sha # NoVersion, !.force = @ /\ ~failed])

\* POST /update/state.  A changed version refreshes the card, no version clears it, a failed
\* install un-sticks it; the answer hands the force click over and forgets it.
report_update(sha, failed) ==
    Result([card EXCEPT !.sha = sha,
                        !.applying = @ /\ sha # NoVersion /\ ~failed,
                        !.force = @ /\ ~failed])

\* What the updater learns of a report, and what the hub keeps: the hub may not answer, and its
\* answer may get lost.
Report(sha, failed, go) ==
    \/ /\ Reachable
       /\ card' = report_update(sha, failed).card /\ go = report_update(sha, failed).go
       /\ UNCHANGED <<lost, upsets>>
    \/ /\ Reachable /\ Upset
       /\ card' = report_update(sha, failed).card /\ go = FALSE
       /\ UNCHANGED lost
    \/ /\ ~Reachable /\ go = FALSE
       /\ IF failed /\ card.applying THEN lost < MaxLost /\ lost' = lost + 1 ELSE UNCHANGED lost
       /\ UNCHANGED <<card, upsets>>

\* GET /health: no answer counts as nobody there.
hub_activity == Reachable /\ (clients \/ busy)

\* A client comes or goes, a turn starts or ends.
client_activity ==
    /\ Reachable
    /\ \/ clients' = ~clients /\ UNCHANGED busy
       \/ busy' = ~busy /\ (busy' => clients) /\ UNCHANGED clients
    /\ UNCHANGED <<app, sup, hubVars, card, updVars, overlay, bundle, latest, history, upsets>>

Click ==
    /\ Reachable /\ clients /\ clicks < MaxClicks /\ clicks' = clicks + 1
    /\ UNCHANGED <<app, sup, hubVars, clients, busy, updVars, overlay, bundle, latest, attempts, lost, upsets>>

ApplyUpdate ==
    /\ Click
    /\ card' = [card EXCEPT !.applying = @ \/ card.sha # NoVersion]

ForceUpdate ==
    /\ Click
    /\ card' = [card EXCEPT !.applying = @ \/ card.sha # NoVersion, !.force = TRUE]

-----------------------------------------------------------------------------
(***************************************************************************)
(* Updates: the periodic loop and the tray check exclude each other with   *)
(* CHECK_IN_FLIGHT.                                                        *)
(***************************************************************************)
\* A release is published, or withdrawn.
publish(v) ==
    /\ \/ v > latest /\ UNCHANGED upsets
       \/ v < latest /\ Upset
    /\ latest' = v
    /\ UNCHANGED <<app, sup, hubVars, cardVars, updVars, overlay, bundle, history>>

Idle == [pc |-> "idle", ver |-> NoVersion, attended |-> FALSE]
CycleEnds == upd' = Idle /\ inFlight' = FALSE

run_cycle ==
    /\ upd.pc = "idle" /\ app.st = "running" /\ ~inFlight
    /\ upd' = [upd EXCEPT !.pc = "check"] /\ inFlight' = TRUE
    /\ UNCHANGED <<app, sup, hubVars, cardVars, manual, overlay, bundle, latest, history, upsets>>

\* The endpoint cannot be reached: the card stays as it is.
check_fails ==
    /\ upd.pc = "check" /\ CycleEnds
    /\ UNCHANGED <<app, sup, hubVars, cardVars, manual, overlay, bundle, latest, history, upsets>>

\* Nothing newer: tell the hub, whose card clears.
up_to_date ==
    /\ upd.pc = "check" /\ latest <= app.version /\ CycleEnds
    /\ \E go \in BOOLEAN : Report(NoVersion, FALSE, go)
    /\ UNCHANGED <<app, sup, hubVars, clients, busy, manual, overlay, bundle, latest, clicks, attempts>>

\* Something newer: install at once if nobody is there, otherwise put the card up first.
check_endpoint ==
    /\ upd.pc = "check" /\ latest > app.version
    /\ upd' = [pc |-> IF hub_activity THEN "defer" ELSE "begin", ver |-> latest, attended |-> hub_activity]
    /\ UNCHANGED <<app, sup, hubVars, cardVars, manual, inFlight, overlay, bundle, latest, history, upsets>>

report_update_state ==
    /\ upd.pc = "defer"
    /\ \E go \in BOOLEAN :
          /\ Report(upd.ver, FALSE, go)
          /\ IF go THEN upd' = [upd EXCEPT !.pc = "begin"] /\ UNCHANGED inFlight ELSE CycleEnds
    /\ UNCHANGED <<app, sup, hubVars, clients, busy, manual, overlay, bundle, latest, clicks, attempts>>

\* updater_stop is looked at once more, then the download begins under the scrim.
begin_install ==
    /\ upd.pc = "begin"
    /\ IF app.st # "running" THEN CycleEnds /\ UNCHANGED <<overlay, attempts>>
       ELSE /\ upd' = [upd EXCEPT !.pc = "install"] /\ overlay' = TRUE
            /\ attempts' = attempts + (IF upd.attended THEN 1 ELSE 0)
            /\ UNCHANGED inFlight
    /\ UNCHANGED <<app, sup, hubVars, cardVars, manual, bundle, latest, clicks, lost, upsets>>

\* request_restart: the event loop exits through teardown and the new bundle is started.
RequestRestart ==
    IF app.st = "running" THEN app' = [app EXCEPT !.st = "restarting"] /\ sup' = [sup EXCEPT !.stop = TRUE]
    ELSE UNCHANGED <<app, sup>>

install_ok ==
    /\ upd.pc = "install" /\ bundle' = upd.ver /\ RequestRestart /\ CycleEnds
    /\ UNCHANGED <<hubVars, cardVars, manual, overlay, latest, history, upsets>>

\* The scrim goes and the card offers a retry.
install_fails ==
    /\ upd.pc = "install" /\ overlay' = FALSE /\ CycleEnds
    /\ \E go \in BOOLEAN : Report(upd.ver, TRUE, go)
    /\ UNCHANGED <<app, sup, hubVars, clients, busy, manual, bundle, latest, clicks, attempts>>

\* The scrim's failsafe timer.
failsafe ==
    /\ overlay /\ overlay' = FALSE
    /\ UNCHANGED <<app, sup, hubVars, cardVars, updVars, bundle, latest, history, upsets>>

\* spawn_check: the tray item.  Every outcome is a dialog the user closes.
spawn_check ==
    /\ app.st = "running" /\ manual = "off" /\ ~inFlight /\ Upset
    /\ manual' = "check" /\ inFlight' = TRUE
    /\ UNCHANGED <<app, sup, hubVars, cardVars, upd, overlay, bundle, latest, history>>

run_check ==
    /\ \/ manual = "check" /\ manual' = (IF latest > app.version THEN "ask" ELSE "off") /\ UNCHANGED overlay
       \/ manual = "check" /\ manual' = "off" /\ UNCHANGED overlay
       \/ manual = "ask" /\ manual' = "off" /\ UNCHANGED overlay
       \/ manual = "ask" /\ manual' = "install" /\ overlay' = TRUE
       \/ manual = "install" /\ manual' = "off" /\ overlay' = FALSE
    /\ inFlight' = (manual' # "off")
    /\ UNCHANGED <<app, sup, hubVars, cardVars, upd, bundle, latest, history, upsets>>

manual_install_ok ==
    /\ manual = "install" /\ manual' = "off" /\ inFlight' = FALSE
    /\ bundle' = latest /\ RequestRestart
    /\ UNCHANGED <<hubVars, cardVars, upd, overlay, latest, history, upsets>>

-----------------------------------------------------------------------------
(***************************************************************************)
(* The application's own life.                                             *)
(***************************************************************************)
\* The application's threads end with it.
ThreadsEnd == upd' = [Idle EXCEPT !.pc = "off"] /\ manual' = "off" /\ inFlight' = FALSE /\ overlay' = FALSE

\* Tray "Quit", a signal, or the fatal dialog's dismissal: RunEvent::Exit.
quit ==
    /\ app.st = "running"
    /\ app' = [app EXCEPT !.st = "quitting"] /\ sup' = [sup EXCEPT !.stop = TRUE]
    /\ UNCHANGED <<hubVars, cardVars, updVars, overlay, bundle, latest, history, upsets>>

\* Supervisor::stop joins the thread, then the process ends.
teardown ==
    /\ app.st = "quitting" /\ sup.pc = "done"
    /\ app' = [app EXCEPT !.st = "gone"] /\ ThreadsEnd
    /\ UNCHANGED <<sup, hubVars, cardVars, bundle, latest, history, upsets>>

Launch ==
    /\ app.launch < MaxLaunches
    /\ app' = [launch |-> app.launch + 1, st |-> "running", version |-> bundle, fatal |-> FALSE]
    /\ sup' = FreshSup /\ child' = 0 /\ ThreadsEnd
    /\ UNCHANGED <<hubs, orphans, lock, lockSteps, cardVars, bundle, latest, history, upsets>>

relaunch == app.st = "restarting" /\ sup.pc = "done" /\ Launch
start == app.st = "gone" /\ Launch

\* kill -9 of the application: its hub lives on, on a port nobody asks any more.
killed ==
    /\ app.st # "gone" /\ Upset
    /\ app' = [app EXCEPT !.st = "gone"] /\ sup' = [sup EXCEPT !.pc = "done"]
    /\ orphans' = orphans \cup ({child} \cap Alive) /\ child' = 0
    /\ card' = NoCard /\ clients' = FALSE /\ busy' = FALSE /\ ThreadsEnd
    /\ UNCHANGED <<hubs, lock, lockSteps, bundle, latest, history>>

-----------------------------------------------------------------------------
Init ==
    /\ app = [launch |-> 1, st |-> "running", version |-> 1, fatal |-> FALSE]
    /\ sup = FreshSup
    /\ hubs = [n \in Hubs |-> "none"] /\ child = 0 /\ orphans = {} /\ lock = FirstLock
    /\ looked = [n \in Hubs |-> NoLock] /\ raced = FALSE
    /\ card = NoCard /\ clients = FALSE /\ busy = FALSE
    /\ upd = [Idle EXCEPT !.pc = "off"] /\ manual = "off" /\ inFlight = FALSE /\ overlay = FALSE
    /\ bundle = 1 /\ latest = 1
    /\ clicks = 0 /\ attempts = 0 /\ lost = 0 /\ upsets = 0

HubSteps == \E n \in Hubs : acquire_read(n) \/ acquire_write(n) \/ serve(n)
SupervisorSteps ==
    \/ \E n \in Hubs : spawn(n)
    \/ loop_ends \/ see_exit \/ see_stop \/ health_ok \/ probe_missed \/ terminate
UpdaterSteps ==
    \/ run_cycle \/ up_to_date \/ check_endpoint \/ report_update_state \/ begin_install
    \/ install_ok \/ install_fails

Next ==
    \/ HubSteps \/ SupervisorSteps \/ UpdaterSteps
    \/ \E n \in Hubs : crash(n) \/ hang(n) \/ recover(n) \/ stop_orphan(n)
    \/ spawn_fails \/ boot_deadline \/ restart_hub
    \/ client_activity \/ ApplyUpdate \/ ForceUpdate
    \/ \E v \in Versions : publish(v)
    \/ check_fails \/ failsafe \/ spawn_check \/ run_check \/ manual_install_ok
    \/ quit \/ teardown \/ relaunch \/ start \/ killed

Spec == Init /\ [][Next]_vars

\* The hub, the supervisor and the updater run; the release endpoint answers now and then and a
\* dialog is answered sometime; nobody has to click, publish or crash.
FairSpec ==
    /\ Spec
    /\ WF_vars(HubSteps) /\ WF_vars(SupervisorSteps) /\ WF_vars(teardown) /\ WF_vars(relaunch)
    /\ SF_vars(run_cycle) /\ SF_vars(up_to_date \/ check_endpoint)
    /\ WF_vars(report_update_state) /\ WF_vars(begin_install) /\ WF_vars(install_ok \/ install_fails)
    /\ WF_vars(run_check \/ manual_install_ok)

-----------------------------------------------------------------------------
TypeOK ==
    /\ app \in [launch : 1 .. MaxLaunches, st : {"running", "restarting", "quitting", "gone"},
                version : Versions, fatal : BOOLEAN]
    /\ sup \in [pc : {"spawn", "watch", "terminate", "done"}, started : BOOLEAN, healthy : BOOLEAN,
                misses : 0 .. LIVENESS_STRIKES, rapid : 0 .. MAX_RAPID_RESTARTS + 1, stop : BOOLEAN]
    /\ hubs \in [Hubs -> {"none", "starting", "locking", "booting", "serving", "hung", "dead"}]
    /\ child \in 0 .. MaxHubs /\ orphans \subseteq Hubs /\ lock \in Hubs \cup {NoLock, Garbled}
    /\ looked \in [Hubs -> Hubs \cup {NoLock, Garbled}] /\ raced \in BOOLEAN
    /\ card \in [sha : Versions \cup {NoVersion}, applying : BOOLEAN, force : BOOLEAN]
    /\ clients \in BOOLEAN /\ busy \in BOOLEAN
    /\ upd \in [pc : {"off", "idle", "check", "defer", "begin", "install"},
                ver : Versions \cup {NoVersion}, attended : BOOLEAN]
    /\ manual \in {"off", "check", "ask", "install"} /\ inFlight \in BOOLEAN /\ overlay \in BOOLEAN
    /\ bundle \in Versions /\ latest \in Versions
    /\ clicks \in 0 .. MaxClicks /\ attempts \in Nat /\ lost \in 0 .. MaxLost /\ upsets \in 0 .. MaxUpsets

\* At most one server is past the lock on the data dir, whatever crashed, hung, was killed or was
\* restarted, and a hub an application left behind by being killed still counts (two would fight
\* over the stores and the push keys).  The lock is read and then written, with nothing to hold the
\* file in between (pidlock.rs:180, 198): two hubs that start at once, one of a killed launch and
\* one of the next, can each find it free.  That is excepted: `raced' says some hub overwrote a
\* file it had not read.
OneServer == raced \/ Cardinality(Serving) <= 1

\* A hub outlives its application only if the application was killed: quitting and updating both
\* wait for the supervisor, which waits for its child or kills it (AppState::teardown,
\* Supervisor::stop, terminate).
HubsAreOwned == Alive \subseteq {child} \cup orphans

\* What the loop installs although its check found a client or a running turn was asked for: each
\* such attempt has its own click, or follows a failed one whose report could not be delivered
\* (run_cycle_locked, report_update's read-once force and its reset on a failed apply).  The code
\* looks once, at the check: a client that connects, a turn that starts or a hung hub that recovers
\* before the install is not seen by it and not counted here.
AttendedInstallsAreAsked == attempts <= clicks + lost

\* updater.rs:12, "Never restarts mid-turn (/health `busy` gates it)".  The gate is passed before
\* the download, and a turn can start until the application restarts.
NeverRestartsMidTurn ==
    [][upd.pc = "install" /\ app.st = "running" /\ app'.st = "restarting" => ~busy]_vars

\* A card that says "Updating" does not say so for ever: the install ends in a relaunch, a failure
\* that un-sticks it, or a withdrawn release (report_update, run_cycle_locked).
CardSettles == card.applying ~> ~card.applying
=============================================================================
