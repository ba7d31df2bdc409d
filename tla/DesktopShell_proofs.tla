------------------------ MODULE DesktopShell_proofs ------------------------
(***************************************************************************)
(* Proofs about the desktop application and its local server: one server   *)
(* past the lock, no hub without an owner, no attended install without a   *)
(* click.                                                                  *)
(***************************************************************************)
EXTENDS DesktopShell, FiniteSetTheorems, TLAPS

-----------------------------------------------------------------------------
(* The inductive invariant *)

\* The supervisor's counters stay below their limits while it goes on.
Counted ==
    /\ sup.pc # "done" => sup.rapid <= MAX_RAPID_RESTARTS
    /\ sup.pc = "watch" => sup.misses < LIVENESS_STRIKES

\* What is deferred or installed is a release.
Chosen == upd.pc \in {"defer", "begin", "install"} => upd.ver \in Versions

\* The supervisor holds a child exactly while it watches or ends one, and is
\* through when its application is gone.
Watching ==
    /\ sup.pc \in {"watch", "terminate"} => child \in Hubs
    /\ sup.pc \in {"spawn", "done"} => child = 0
    /\ app.st = "gone" => sup.pc = "done"

\* A card is kept by a living child.
CardHeld == card # NoCard => child \in Alive

\* Until a hub overwrites a lock it had not read: the file names whoever is past it, and while it
\* is still what a hub in between read of it, nobody is.
HoldsLock ==
    ~raced =>
        /\ \A n \in Serving : lock = n
        /\ \A n \in Hubs : hubs[n] = "locking" /\ looked[n] = lock => Serving = {}

\* A hub that has not written the lock is not named by it, nor by what another hub read of it.
NotNamed ==
    \A n \in Hubs : hubs[n] \in {"none", "starting", "locking"} =>
        lock # n /\ \A m \in Hubs : looked[m] # n

\* The updater starts with the first healthy probe.
Started == ~sup.started => upd.pc = "off"

One(b) == IF b THEN 1 ELSE 0

\* The attended installs that may still begin on clicks already made: the one under way, and the
\* one the card will ask for at the next report.  What a click began stays on the card ("applying")
\* until the install ends, which clears it, restarts the application, or is counted as lost.
OwedBy(u, c) ==
    CASE u.pc = "begin" -> One(u.attended) + One(c.force /\ ~c.applying)
      [] u.pc = "install" -> One(c.force /\ ~c.applying)
      [] OTHER -> One(c.force \/ c.applying)

Asked ==
    /\ attempts <= clicks + lost
    /\ app.st = "running" => attempts + OwedBy(upd, card) <= clicks + lost

Inv ==
    /\ TypeOK /\ Counted /\ Chosen /\ Watching /\ CardHeld /\ HoldsLock /\ NotNamed
    /\ HubsAreOwned /\ Started /\ Asked

-----------------------------------------------------------------------------
(* Types *)

LEMMA Limits ==
    /\ MAX_RAPID_RESTARTS \in Nat /\ LIVENESS_STRIKES \in Nat \ {0}
    /\ MaxHubs \in Nat /\ MaxLaunches \in Nat \ {0} /\ MaxClicks \in Nat /\ MaxLost \in Nat /\ MaxUpsets \in Nat
    /\ Versions \subseteq Nat \ {0} /\ 1 \in Versions
    /\ \A n \in Hubs : n \in Nat \ {0} /\ n # NoLock /\ n # Garbled
    /\ 0 \notin Hubs /\ FirstLock \in {NoLock, Garbled}
<1>1. \A n \in Hubs : n \in 0 .. MaxHubs /\ n \in Nat \ {0}
  BY LimitsAssumption DEF Hubs
<1>2. 0 \notin Hubs
  BY LimitsAssumption DEF Hubs
<1> QED BY <1>1, <1>2, LimitsAssumption

\* The parts of the state.
AppTypes ==
    /\ app \in [launch : 1 .. MaxLaunches, st : {"running", "restarting", "quitting", "gone"},
                version : Versions, fatal : BOOLEAN]
    /\ sup \in [pc : {"spawn", "watch", "terminate", "done"}, started : BOOLEAN, healthy : BOOLEAN,
                misses : 0 .. LIVENESS_STRIKES, rapid : 0 .. MAX_RAPID_RESTARTS + 1, stop : BOOLEAN]
    /\ overlay \in BOOLEAN

HubTypes ==
    /\ hubs \in [Hubs -> {"none", "starting", "locking", "booting", "serving", "hung", "dead"}]
    /\ child \in 0 .. MaxHubs /\ orphans \subseteq Hubs /\ lock \in Hubs \cup {NoLock, Garbled}
    /\ looked \in [Hubs -> Hubs \cup {NoLock, Garbled}] /\ raced \in BOOLEAN

CardTypes ==
    /\ card \in [sha : Versions \cup {NoVersion}, applying : BOOLEAN, force : BOOLEAN]
    /\ clients \in BOOLEAN /\ busy \in BOOLEAN
    /\ clicks \in 0 .. MaxClicks /\ lost \in 0 .. MaxLost

UpdTypes ==
    /\ upd \in [pc : {"off", "idle", "check", "defer", "begin", "install"},
                ver : Versions \cup {NoVersion}, attended : BOOLEAN]
    /\ manual \in {"off", "check", "ask", "install"} /\ inFlight \in BOOLEAN
    /\ bundle \in Versions /\ latest \in Versions /\ attempts \in Nat

LEMMA TypesSplit == TypeOK <=> AppTypes /\ HubTypes /\ CardTypes /\ UpdTypes /\ upsets \in 0 .. MaxUpsets
BY DEF TypeOK, AppTypes, HubTypes, CardTypes, UpdTypes

LEMMA TypesAgain ==
    ASSUME AppTypes', HubTypes', CardTypes', UpdTypes', upsets' \in 0 .. MaxUpsets
    PROVE  TypeOK'
BY DEF TypeOK, AppTypes, HubTypes, CardTypes, UpdTypes

\* A hub ends.
LEMMA DiesTypes ==
    ASSUME HubTypes, CardTypes, NEW n \in Hubs, Dies(n)
    PROVE  /\ hubs' \in [Hubs -> {"none", "starting", "locking", "booting", "serving", "hung", "dead"}]
           /\ hubs' = [hubs EXCEPT ![n] = "dead"]
           /\ card' \in [sha : Versions \cup {NoVersion}, applying : BOOLEAN, force : BOOLEAN]
           /\ clients' \in BOOLEAN /\ busy' \in BOOLEAN
           /\ IF n = child THEN card' = NoCard ELSE card' = card
<1>1. hubs' = [hubs EXCEPT ![n] = "dead"]
  BY DEF Dies
<1>2. IF n = child THEN card' = NoCard /\ clients' = FALSE /\ busy' = FALSE
      ELSE card' = card /\ clients' = clients /\ busy' = busy
  BY DEF Dies, cardVars
<1>3. NoCard \in [sha : Versions \cup {NoVersion}, applying : BOOLEAN, force : BOOLEAN]
  BY DEF NoCard
<1>4. hubs' \in [Hubs -> {"none", "starting", "locking", "booting", "serving", "hung", "dead"}]
  BY <1>1 DEF HubTypes
<1> QED BY <1>1, <1>2, <1>3, <1>4 DEF CardTypes

LEMMA SigtermTypes ==
    ASSUME HubTypes, NEW n \in Hubs, Sigterm(n)
    PROVE  lock' \in Hubs \cup {NoLock, Garbled} /\ Dies(n) /\ (lock' = lock \/ lock' = release(lock, n))
BY DEF HubTypes, Sigterm, release

LEMMA AliveIs == \A n : n \in Alive => n \in Hubs /\ hubs[n] \notin {"none", "dead"}
BY DEF Alive

LEMMA ReportTypes ==
    ASSUME CardTypes, NEW sha \in Versions \cup {NoVersion}, NEW failed \in BOOLEAN, NEW go \in BOOLEAN,
           Report(sha, failed, go), upsets \in 0 .. MaxUpsets
    PROVE  /\ card' \in [sha : Versions \cup {NoVersion}, applying : BOOLEAN, force : BOOLEAN]
           /\ lost' \in 0 .. MaxLost /\ upsets' \in 0 .. MaxUpsets /\ lost' >= lost
<1> DEFINE c == [card EXCEPT !.sha = sha, !.applying = @ /\ sha # NoVersion /\ ~failed, !.force = @ /\ ~failed]
<1>1. c \in [sha : Versions \cup {NoVersion}, applying : BOOLEAN, force : BOOLEAN]
  BY DEF CardTypes
<1>2. report_update(sha, failed).card = [c EXCEPT !.force = FALSE]
  BY DEF report_update, Result
<1> HIDE DEF c
<1>3. [c EXCEPT !.force = FALSE] \in [sha : Versions \cup {NoVersion}, applying : BOOLEAN, force : BOOLEAN]
  BY <1>1
<1>4. card' \in {card, report_update(sha, failed).card}
  BY DEF Report
<1>5. lost' \in {lost, lost + 1} /\ upsets' \in {upsets, upsets + 1}
      /\ (lost' # lost => lost < MaxLost) /\ (upsets' # upsets => upsets < MaxUpsets)
  BY DEF Report, Upset
<1>6. lost' \in 0 .. MaxLost /\ upsets' \in 0 .. MaxUpsets /\ lost' >= lost
  BY <1>5, Limits DEF CardTypes
<1> QED BY <1>2, <1>3, <1>4, <1>6 DEF CardTypes


Parts == AppTypes /\ HubTypes /\ CardTypes /\ UpdTypes /\ upsets \in 0 .. MaxUpsets /\ Counted /\ Chosen

LEMMA UpsetTypes ==
    ASSUME upsets \in 0 .. MaxUpsets, Upset
    PROVE  upsets' \in 0 .. MaxUpsets
BY Limits DEF Upset

HubStep(n) ==
    acquire_read(n) \/ acquire_write(n) \/ serve(n) \/ crash(n) \/ hang(n) \/ recover(n) \/ stop_orphan(n)

LEMMA HubStepTypes ==
    ASSUME Parts, NEW n \in Hubs, HubStep(n)
    PROVE  Parts'
<1>1. UNCHANGED <<app, sup, child, overlay, upd, manual, inFlight, bundle, latest, clicks, attempts, lost>>
  BY DEF HubStep, acquire_read, acquire_write, serve, crash, hang, recover, stop_orphan, updVars, history
<1>2. AppTypes' /\ Counted' /\ UpdTypes' /\ Chosen'
  BY <1>1 DEF Parts, AppTypes, Counted, UpdTypes, Chosen
<1>3. upsets' \in 0 .. MaxUpsets
  BY UpsetTypes DEF Parts, HubStep, acquire_read, acquire_write, serve, crash, hang, recover, stop_orphan
<1>4. looked' \in [Hubs -> Hubs \cup {NoLock, Garbled}] /\ raced' \in BOOLEAN
  <2>1. \/ looked' = looked
        \/ looked' = [looked EXCEPT ![n] = lock]
        \/ looked' = [looked EXCEPT ![n] = NoLock]
    BY DEF HubStep, acquire_read, acquire_write, serve, crash, hang, recover, stop_orphan, lockSteps
  <2>2. raced' = raced \/ raced' = (raced \/ lock # looked[n])
    BY DEF HubStep, acquire_read, acquire_write, serve, crash, hang, recover, stop_orphan, lockSteps
  <2> QED BY <2>1, <2>2 DEF Parts, HubTypes
<1>5. CASE Dies(n)
  <2>1. lock' \in Hubs \cup {NoLock, Garbled} /\ orphans' \subseteq Hubs
    BY <1>5, SigtermTypes
       DEF HubStep, acquire_read, acquire_write, serve, crash, hang, recover, stop_orphan, Parts, HubTypes, Acquired
  <2> QED BY <1>1, <1>2, <1>3, <1>4, <1>5, <2>1, DiesTypes DEF Parts, HubTypes, CardTypes
<1>6. CASE ~Dies(n)
  <2>1. /\ hubs' \in {[hubs EXCEPT ![n] = "locking"], [hubs EXCEPT ![n] = "booting"],
                       [hubs EXCEPT ![n] = "serving"], [hubs EXCEPT ![n] = "hung"]}
        /\ lock' \in {lock, n} /\ UNCHANGED <<orphans, card, clients, busy>>
    BY <1>6 DEF HubStep, acquire_read, acquire_write, serve, crash, hang, recover, stop_orphan, Sigterm, Acquired,
                cardVars
  <2> QED BY <1>1, <1>2, <1>3, <1>4, <2>1 DEF Parts, HubTypes, CardTypes
<1> QED BY <1>5, <1>6

LEMMA AfterExitTypes ==
    ASSUME Parts, sup.pc # "done", NEW quick \in BOOLEAN, AfterExit(quick)
    PROVE  AppTypes' /\ Counted' /\ child' = 0
<1> DEFINE strikes == IF quick THEN sup.rapid + 1 ELSE 0
<1>1. strikes \in 0 .. MAX_RAPID_RESTARTS + 1
  BY Limits DEF Parts, AppTypes, Counted
<1>2. /\ child' = 0
      /\ \/ sup' = [sup EXCEPT !.pc = "done"] /\ UNCHANGED <<app, overlay>>
         \/ sup' = [sup EXCEPT !.pc = "done", !.rapid = strikes] /\ Unrecoverable
         \/ /\ ~(strikes > MAX_RAPID_RESTARTS)
            /\ sup' = [sup EXCEPT !.pc = "spawn", !.rapid = strikes] /\ UNCHANGED <<app, overlay>>
  BY DEF AfterExit
<1> HIDE DEF strikes
<1>3. AppTypes'
  BY <1>1, <1>2 DEF Parts, AppTypes, Unrecoverable
<1>4. Counted'
  <2>1. sup'.pc = "done" \/ (sup'.pc = "spawn" /\ sup'.rapid = strikes /\ ~(strikes > MAX_RAPID_RESTARTS))
    BY <1>2 DEF Parts, AppTypes
  <2>2. sup'.pc # "done" => sup'.rapid <= MAX_RAPID_RESTARTS
    BY <1>1, <2>1, Limits
  <2> QED BY <2>1, <2>2 DEF Counted
<1> QED BY <1>2, <1>3, <1>4

LEMMA SupStepTypes ==
    ASSUME Parts,
           \/ spawn_fails \/ loop_ends \/ see_exit \/ see_stop \/ health_ok \/ probe_missed
           \/ boot_deadline \/ quit \/ \E n \in Hubs : spawn(n)
    PROVE  Parts'
<1>1. UNCHANGED <<orphans, lock, looked, raced, card, clients, busy, manual, inFlight, bundle, latest, clicks,
                  attempts, lost>>
  BY DEF spawn_fails, loop_ends, see_exit, see_stop, health_ok, probe_missed, boot_deadline, quit, spawn,
         hubVars, lockSteps, cardVars, updVars, history
<1>2. CardTypes'
  BY <1>1 DEF Parts, CardTypes
<1>3. upsets' \in 0 .. MaxUpsets
  BY UpsetTypes DEF Parts, spawn_fails, loop_ends, see_exit, see_stop, health_ok, probe_missed, boot_deadline, quit,
                    spawn
<1>4. HubTypes'
  <2>1. CASE \E n \in Hubs : spawn(n)
    <3>1. PICK n \in Hubs : hubs' = [hubs EXCEPT ![n] = "starting"] /\ child' = n
      BY <2>1 DEF spawn
    <3> QED BY <1>1, <3>1 DEF Parts, HubTypes, Hubs
  <2>2. CASE ~ \E n \in Hubs : spawn(n)
    <3>1. hubs' = hubs /\ child' \in {0, child}
      BY <2>2 DEF spawn_fails, loop_ends, see_exit, see_stop, health_ok, probe_missed, boot_deadline, quit, AfterExit,
                  hubVars, lockSteps
    <3> QED BY <1>1, <3>1, Limits DEF Parts, HubTypes
  <2> QED BY <2>1, <2>2
<1>5. UpdTypes' /\ Chosen'
  <2>1. upd' = upd \/ upd' = [upd EXCEPT !.pc = "idle"]
    BY DEF spawn_fails, loop_ends, see_exit, see_stop, health_ok, probe_missed, boot_deadline, quit, spawn, updVars
  <2> QED BY <1>1, <2>1 DEF Parts, UpdTypes, Chosen
<1>6. AppTypes' /\ Counted'
  <2>1. CASE see_exit
    BY <2>1, AfterExitTypes DEF see_exit
  <2>2. CASE probe_missed
    <3>1. sup.misses + 1 \in 0 .. LIVENESS_STRIKES
      BY <2>2, Limits DEF probe_missed, Parts, AppTypes, Counted
    <3>2. /\ sup' = [sup EXCEPT !.misses = sup.misses + 1,
                                !.pc = IF sup.misses + 1 >= LIVENESS_STRIKES THEN "terminate" ELSE sup.pc]
          /\ UNCHANGED <<app, overlay>> /\ sup.pc = "watch"
      BY <2>2 DEF probe_missed
    <3>3. AppTypes'
      BY <3>1, <3>2 DEF Parts, AppTypes
    <3>4. Counted'
      BY <3>1, <3>2, Limits DEF Parts, AppTypes, Counted
    <3> QED BY <3>3, <3>4
  <2>3. CASE \/ spawn_fails \/ loop_ends \/ see_stop \/ health_ok \/ boot_deadline \/ quit
             \/ \E n \in Hubs : spawn(n)
    <3>1. /\ app' \in {app, [app EXCEPT !.fatal = TRUE], [app EXCEPT !.st = "quitting"]}
          /\ overlay' \in BOOLEAN
      BY <2>3 DEF Parts, AppTypes, spawn_fails, loop_ends, see_stop, health_ok, boot_deadline, quit, spawn,
                  Unrecoverable
    <3>2. \/ sup' \in {[sup EXCEPT !.pc = "done"], [sup EXCEPT !.pc = "terminate"]}
          \/ sup' = [sup EXCEPT !.pc = "watch", !.healthy = FALSE, !.misses = 0] /\ sup.pc = "spawn"
          \/ sup' = [sup EXCEPT !.healthy = TRUE, !.started = TRUE, !.misses = 0]
          \/ sup' = [sup EXCEPT !.stop = TRUE]
      BY <2>3 DEF spawn_fails, loop_ends, see_stop, health_ok, boot_deadline, quit, spawn
    <3>3. /\ sup.pc = "done" => sup' = [sup EXCEPT !.stop = TRUE]
      BY <2>3 DEF spawn_fails, loop_ends, see_stop, health_ok, boot_deadline, quit, spawn
    <3>4. 0 \in 0 .. LIVENESS_STRIKES /\ 0 < LIVENESS_STRIKES
      BY Limits
    <3>5. sup' \in [pc : {"spawn", "watch", "terminate", "done"}, started : BOOLEAN, healthy : BOOLEAN,
                    misses : 0 .. LIVENESS_STRIKES, rapid : 0 .. MAX_RAPID_RESTARTS + 1, stop : BOOLEAN]
      BY <3>2, <3>4 DEF Parts, AppTypes
    <3>6. AppTypes'
      <4>1. app' \in [launch : 1 .. MaxLaunches, st : {"running", "restarting", "quitting", "gone"},
                      version : Versions, fatal : BOOLEAN]
        BY <3>1 DEF Parts, AppTypes
      <4> QED BY <3>1, <3>5, <4>1 DEF AppTypes
    <3>7. /\ sup'.rapid = sup.rapid /\ sup'.misses \in {sup.misses, 0}
          /\ sup'.pc = "watch" => sup.pc = "watch" \/ sup'.misses = 0
          /\ sup'.pc # "done" => sup.pc # "done"
      BY <3>2, <3>3 DEF Parts, AppTypes
    <3>8. Counted'
      BY <3>4, <3>7 DEF Parts, Counted
    <3> QED BY <3>6, <3>8
  <2> QED BY <2>1, <2>2, <2>3
<1> QED BY <1>2, <1>3, <1>4, <1>5, <1>6 DEF Parts


LEMMA EndStepTypes ==
    ASSUME Parts, Watching, terminate \/ restart_hub
    PROVE  Parts'
<1>1. UNCHANGED <<orphans, looked, raced, upd, manual, inFlight, bundle, latest, clicks, attempts, lost>>
  BY DEF terminate, restart_hub, lockSteps, updVars, history
<1>2. UpdTypes' /\ Chosen'
  BY <1>1 DEF Parts, UpdTypes, Chosen
<1>3. upsets' \in 0 .. MaxUpsets
  BY UpsetTypes DEF Parts, terminate, restart_hub
<1>4. AppTypes' /\ Counted' /\ child' \in {0, child}
  BY AfterExitTypes DEF terminate, restart_hub, Parts, AppTypes, Counted
<1>5. child \in Hubs
  BY DEF terminate, restart_hub, Watching, Alive
<1>6. CASE Dies(child)
  <2>1. lock' \in Hubs \cup {NoLock, Garbled}
    BY <1>5, <1>6, SigtermTypes DEF terminate, restart_hub, Parts, HubTypes
  <2>2. HubTypes' /\ CardTypes'
    BY <1>1, <1>4, <1>5, <1>6, <2>1, DiesTypes, Limits DEF Parts, HubTypes, CardTypes
  <2> QED BY <1>2, <1>3, <1>4, <2>2 DEF Parts
<1>7. CASE ~Dies(child)
  <2>1. UNCHANGED <<hubs, lock, looked, raced, card, clients, busy>>
    BY <1>1, <1>7 DEF terminate, restart_hub, Sigterm, cardVars
  <2>2. HubTypes' /\ CardTypes'
    BY <1>1, <1>4, <2>1, Limits DEF Parts, HubTypes, CardTypes
  <2> QED BY <1>2, <1>3, <1>4, <2>2 DEF Parts
<1> QED BY <1>6, <1>7

LEMMA ClientStepTypes ==
    ASSUME Parts, client_activity \/ ApplyUpdate \/ ForceUpdate
    PROVE  Parts'
<1>1. UNCHANGED <<app, sup, hubs, child, orphans, lock, looked, raced, upd, manual, inFlight, overlay, bundle, latest, attempts, lost,
                  upsets>>
  BY DEF client_activity, ApplyUpdate, ForceUpdate, Click, hubVars, lockSteps, updVars, history
<1>2. AppTypes' /\ Counted' /\ HubTypes' /\ UpdTypes' /\ Chosen' /\ upsets' \in 0 .. MaxUpsets
  BY <1>1 DEF Parts, AppTypes, Counted, HubTypes, UpdTypes, Chosen
<1>3. CardTypes'
  <2>1. clicks' \in {clicks, clicks + 1} /\ (clicks' # clicks => clicks < MaxClicks)
    BY DEF client_activity, ApplyUpdate, ForceUpdate, Click, history
  <2>2. clicks' \in 0 .. MaxClicks
    BY <2>1, Limits DEF Parts, CardTypes
  <2>3. clients' \in BOOLEAN /\ busy' \in BOOLEAN
    BY DEF client_activity, ApplyUpdate, ForceUpdate, Click, Parts, CardTypes
  <2>4. card' \in [sha : Versions \cup {NoVersion}, applying : BOOLEAN, force : BOOLEAN]
    BY DEF client_activity, ApplyUpdate, ForceUpdate, Parts, CardTypes
  <2> QED BY <1>1, <2>2, <2>3, <2>4 DEF Parts, CardTypes
<1> QED BY <1>2, <1>3 DEF Parts

LEMMA IdleTypes ==
    ASSUME upd' = Idle
    PROVE  /\ upd' \in [pc : {"off", "idle", "check", "defer", "begin", "install"},
                        ver : Versions \cup {NoVersion}, attended : BOOLEAN]
           /\ Chosen'
<1>1. upd' = [pc |-> "idle", ver |-> NoVersion, attended |-> FALSE]
  BY DEF Idle
<1>2. upd'.pc = "idle"
  BY <1>1
<1> QED BY <1>1, <1>2 DEF Chosen

UpdaterQuiet ==
    run_cycle \/ check_fails \/ check_endpoint \/ begin_install \/ install_ok

LEMMA UpdaterStepTypes ==
    ASSUME Parts, UpdaterQuiet
    PROVE  Parts'
<1>1. UNCHANGED <<hubs, child, orphans, lock, looked, raced, card, clients, busy, latest, clicks, lost, upsets, manual>>
  BY DEF UpdaterQuiet, run_cycle, check_fails, check_endpoint, begin_install, install_ok, hubVars, lockSteps, cardVars, history
<1>2. HubTypes' /\ CardTypes' /\ upsets' \in 0 .. MaxUpsets
  BY <1>1 DEF Parts, HubTypes, CardTypes
<1>3. AppTypes' /\ Counted'
  <2>1. UNCHANGED <<app, sup>> \/ (/\ app' = [app EXCEPT !.st = "restarting"]
                                    /\ sup' = [sup EXCEPT !.stop = TRUE])
    BY DEF UpdaterQuiet, run_cycle, check_fails, check_endpoint, begin_install, install_ok, RequestRestart
  <2>2. overlay' \in BOOLEAN
    BY DEF UpdaterQuiet, run_cycle, check_fails, check_endpoint, begin_install, install_ok, Parts, AppTypes
  <2> QED BY <2>1, <2>2 DEF Parts, AppTypes, Counted
<1>4. UpdTypes' /\ Chosen'
  <2>1. bundle' \in Versions
    BY DEF UpdaterQuiet, run_cycle, check_fails, check_endpoint, begin_install, install_ok, Parts, UpdTypes, Chosen
  <2>2. inFlight' \in BOOLEAN
    BY DEF UpdaterQuiet, run_cycle, check_fails, check_endpoint, begin_install, install_ok, Parts, UpdTypes, CycleEnds
  <2>3. attempts' \in Nat
    BY DEF UpdaterQuiet, run_cycle, check_fails, check_endpoint, begin_install, install_ok, Parts, UpdTypes, history
  <2>4. hub_activity \in BOOLEAN
    BY DEF hub_activity
  <2>5. \/ upd' = [upd EXCEPT !.pc = "check"]
        \/ upd' = Idle
        \/ upd.pc = "begin" /\ upd' = [upd EXCEPT !.pc = "install"]
        \/ /\ upd' = [pc |-> IF hub_activity THEN "defer" ELSE "begin", ver |-> latest, attended |-> hub_activity]
    BY DEF UpdaterQuiet, run_cycle, check_fails, check_endpoint, begin_install, install_ok, CycleEnds
  <2>6. /\ upd' \in [pc : {"off", "idle", "check", "defer", "begin", "install"},
                  ver : Versions \cup {NoVersion}, attended : BOOLEAN]
        /\ Chosen'
    <3>1. CASE upd' = Idle
      BY <3>1, IdleTypes
    <3>2. CASE upd' = [upd EXCEPT !.pc = "check"]
      BY <3>2 DEF Parts, UpdTypes, Chosen
    <3>3. CASE upd.pc = "begin" /\ upd' = [upd EXCEPT !.pc = "install"]
      BY <3>3 DEF Parts, UpdTypes, Chosen
    <3>4. CASE upd' = [pc |-> IF hub_activity THEN "defer" ELSE "begin", ver |-> latest, attended |-> hub_activity]
      <4>1. latest \in Versions
        BY DEF Parts, UpdTypes
      <4> HIDE DEF hub_activity
      <4> QED BY <2>4, <3>4, <4>1 DEF Chosen
    <3> QED BY <2>5, <3>1, <3>2, <3>3, <3>4
  <2> QED BY <1>1, <2>1, <2>2, <2>3, <2>6 DEF Parts, UpdTypes
<1> QED BY <1>2, <1>3, <1>4 DEF Parts

Reports == up_to_date \/ report_update_state \/ install_fails

LEMMA ReportsTo ==
    ASSUME Parts, Reports
    PROVE  \E sha \in Versions \cup {NoVersion}, failed \in BOOLEAN, go \in BOOLEAN : Report(sha, failed, go)
<1>1. NoVersion \in Versions \cup {NoVersion} /\ TRUE \in BOOLEAN /\ FALSE \in BOOLEAN
  OBVIOUS
<1>2. upd.ver \in Versions \cup {NoVersion}
  BY DEF Parts, UpdTypes
<1>3. CASE up_to_date
  BY <1>1, <1>3 DEF up_to_date
<1>4. CASE report_update_state
  BY <1>1, <1>2, <1>4 DEF report_update_state
<1>5. CASE install_fails
  BY <1>1, <1>2, <1>5 DEF install_fails
<1> QED BY <1>3, <1>4, <1>5 DEF Reports

LEMMA ReportStepTypes ==
    ASSUME Parts, Reports
    PROVE  Parts'
<1>1. UNCHANGED <<app, sup, hubs, child, orphans, lock, looked, raced, clients, busy, latest, clicks, manual, bundle, attempts>>
  BY DEF Reports, up_to_date, report_update_state, install_fails, hubVars, lockSteps
<1>2. HubTypes' /\ Counted'
  BY <1>1 DEF Parts, HubTypes, Counted
<1>3. CardTypes' /\ upsets' \in 0 .. MaxUpsets
  BY <1>1, ReportsTo, ReportTypes DEF Parts, CardTypes
<1>4. AppTypes'
  <2>1. overlay' \in BOOLEAN
    BY DEF Reports, up_to_date, report_update_state, install_fails, Parts, AppTypes
  <2> QED BY <1>1, <2>1 DEF Parts, AppTypes
<1>5. UpdTypes' /\ Chosen'
  <2>1. \/ upd' = Idle /\ inFlight' = FALSE
        \/ upd.pc = "defer" /\ upd' = [upd EXCEPT !.pc = "begin"] /\ inFlight' = inFlight
    BY DEF Reports, up_to_date, report_update_state, install_fails, CycleEnds
  <2>2. /\ upd' \in [pc : {"off", "idle", "check", "defer", "begin", "install"},
                     ver : Versions \cup {NoVersion}, attended : BOOLEAN]
        /\ Chosen'
    <3>1. CASE upd' = Idle
      BY <3>1, IdleTypes
    <3>2. CASE upd.pc = "defer" /\ upd' = [upd EXCEPT !.pc = "begin"]
      BY <3>2 DEF Parts, UpdTypes, Chosen
    <3> QED BY <2>1, <3>1, <3>2
  <2>3. inFlight' \in BOOLEAN
    BY <2>1 DEF Parts, UpdTypes
  <2> QED BY <1>1, <2>2, <2>3 DEF Parts, UpdTypes
<1> QED BY <1>2, <1>3, <1>4, <1>5 DEF Parts


LEMMA ThreadsEndTypes ==
    ASSUME ThreadsEnd
    PROVE  /\ upd' \in [pc : {"off", "idle", "check", "defer", "begin", "install"},
                        ver : Versions \cup {NoVersion}, attended : BOOLEAN]
           /\ upd'.pc = "off" /\ Chosen' /\ manual' = "off" /\ inFlight' = FALSE /\ overlay' = FALSE
<1>1. upd' = [pc |-> "off", ver |-> NoVersion, attended |-> FALSE]
  BY DEF ThreadsEnd, Idle
<1>2. upd'.pc = "off"
  BY <1>1
<1>3. manual' = "off" /\ inFlight' = FALSE /\ overlay' = FALSE
  BY DEF ThreadsEnd
<1>4. Chosen'
  BY <1>2 DEF Chosen
<1>5. upd' \in [pc : {"off", "idle", "check", "defer", "begin", "install"},
                ver : Versions \cup {NoVersion}, attended : BOOLEAN]
  BY <1>1
<1> QED BY <1>2, <1>3, <1>4, <1>5

LEMMA LifeStepTypes ==
    ASSUME Parts, teardown \/ relaunch \/ start \/ killed
    PROVE  Parts'
<1>1. UNCHANGED <<hubs, lock, looked, raced, bundle, latest, clicks, attempts, lost>> /\ ThreadsEnd
  BY DEF teardown, relaunch, start, killed, Launch, hubVars, lockSteps, history
<1>2. UpdTypes' /\ Chosen' /\ overlay' \in BOOLEAN
  BY <1>1, ThreadsEndTypes DEF Parts, UpdTypes
<1>3. upsets' \in 0 .. MaxUpsets
  BY UpsetTypes DEF Parts, teardown, relaunch, start, killed, Launch
<1>4. HubTypes'
  <2>1. child' \in {0, child} /\ orphans' \subseteq orphans \cup Alive
    BY DEF teardown, relaunch, start, killed, Launch, hubVars, lockSteps
  <2> QED BY <1>1, <2>1, AliveIs, Limits DEF Parts, HubTypes
<1>5. CardTypes'
  <2>1. NoCard \in [sha : Versions \cup {NoVersion}, applying : BOOLEAN, force : BOOLEAN]
    BY DEF NoCard
  <2>2. card' \in {card, NoCard} /\ clients' \in {clients, FALSE} /\ busy' \in {busy, FALSE}
    BY DEF teardown, relaunch, start, killed, Launch, cardVars
  <2> QED BY <1>1, <2>1, <2>2 DEF Parts, CardTypes
<1>6. AppTypes' /\ Counted'
  <2>1. CASE Launch
    <3>1. app.launch + 1 \in 1 .. MaxLaunches /\ bundle \in Versions
      BY <2>1, Limits DEF Launch, Parts, AppTypes, UpdTypes
    <3>2. /\ app' = [launch |-> app.launch + 1, st |-> "running", version |-> bundle, fatal |-> FALSE]
          /\ sup' = [pc |-> "spawn", started |-> FALSE, healthy |-> FALSE, misses |-> 0, rapid |-> 0, stop |-> FALSE]
      BY <2>1 DEF Launch, FreshSup
    <3>3. 0 \in 0 .. LIVENESS_STRIKES /\ 0 \in 0 .. MAX_RAPID_RESTARTS + 1 /\ 0 <= MAX_RAPID_RESTARTS
      BY Limits
    <3> QED BY <1>2, <3>1, <3>2, <3>3 DEF AppTypes, Counted
  <2>2. CASE teardown \/ killed
    BY <1>2, <2>2 DEF teardown, killed, Parts, AppTypes, Counted
  <2> QED BY <2>1, <2>2 DEF relaunch, start
<1> QED BY <1>2, <1>3, <1>4, <1>5, <1>6 DEF Parts

TrayAndRelease == failsafe \/ spawn_check \/ run_check \/ manual_install_ok \/ \E v \in Versions : publish(v)

LEMMA TrayStepTypes ==
    ASSUME Parts, TrayAndRelease
    PROVE  Parts'
<1>1. UNCHANGED <<hubs, child, orphans, lock, looked, raced, card, clients, busy, upd, clicks, lost, attempts>>
  BY DEF TrayAndRelease, publish, failsafe, spawn_check, run_check, manual_install_ok, hubVars, lockSteps, cardVars, updVars,
         history
<1>2. HubTypes' /\ CardTypes' /\ Chosen'
  BY <1>1 DEF Parts, HubTypes, CardTypes, Chosen
<1>3. upsets' \in 0 .. MaxUpsets
  BY UpsetTypes DEF Parts, TrayAndRelease, publish, failsafe, spawn_check, run_check, manual_install_ok
<1>4. AppTypes' /\ Counted'
  <2>1. UNCHANGED <<app, sup>> \/ (/\ app' = [app EXCEPT !.st = "restarting"]
                                    /\ sup' = [sup EXCEPT !.stop = TRUE])
    BY DEF TrayAndRelease, publish, failsafe, spawn_check, run_check, manual_install_ok, RequestRestart
  <2>2. overlay' \in BOOLEAN
    BY DEF TrayAndRelease, publish, failsafe, spawn_check, run_check, manual_install_ok, Parts, AppTypes
  <2> QED BY <2>1, <2>2 DEF Parts, AppTypes, Counted
<1>5. UpdTypes'
  <2>1. manual' \in {"off", "check", "ask", "install"}
    BY DEF TrayAndRelease, publish, failsafe, spawn_check, run_check, manual_install_ok, Parts, UpdTypes, updVars
  <2>2. inFlight' \in BOOLEAN
    BY DEF TrayAndRelease, publish, failsafe, spawn_check, run_check, manual_install_ok, Parts, UpdTypes, updVars
  <2>3. bundle' \in Versions /\ latest' \in Versions
    BY DEF TrayAndRelease, publish, failsafe, spawn_check, run_check, manual_install_ok, Parts, UpdTypes
  <2> QED BY <1>1, <2>1, <2>2, <2>3 DEF Parts, UpdTypes
<1> QED BY <1>2, <1>3, <1>4, <1>5 DEF Parts

SupStep ==
    \/ spawn_fails \/ loop_ends \/ see_exit \/ see_stop \/ health_ok \/ probe_missed
    \/ boot_deadline \/ quit \/ \E n \in Hubs : spawn(n)

\* The steps, by what they change.
LEMMA Steps ==
    ASSUME Next
    PROVE  \/ \E n \in Hubs : HubStep(n)
           \/ SupStep
           \/ terminate \/ restart_hub
           \/ client_activity \/ ApplyUpdate \/ ForceUpdate
           \/ UpdaterQuiet \/ Reports
           \/ teardown \/ relaunch \/ start \/ killed
           \/ TrayAndRelease
BY DEF Next, HubSteps, SupervisorSteps, UpdaterSteps, HubStep, SupStep, UpdaterQuiet, Reports, TrayAndRelease

LEMMA TypesKeep ==
    ASSUME Parts, Watching, [Next]_vars
    PROVE  Parts'
<1>1. CASE UNCHANGED vars
  BY <1>1 DEF vars, Parts, AppTypes, HubTypes, CardTypes, UpdTypes, Counted, Chosen
<1>2. CASE Next
  BY <1>2, Steps, HubStepTypes, SupStepTypes, EndStepTypes, ClientStepTypes, UpdaterStepTypes, ReportStepTypes,
     LifeStepTypes, TrayStepTypes DEF HubStep, SupStep
<1> QED BY <1>1, <1>2


-----------------------------------------------------------------------------
(* Hubs, their owner and the lock *)

HubInv == Watching /\ CardHeld /\ HoldsLock /\ NotNamed /\ HubsAreOwned

\* The supervisor's child is none but the one it watches or ends.
LEMMA SameHubs ==
    ASSUME HubInv, UNCHANGED <<hubs, child, orphans, lock, looked, raced>>,
           card' = card \/ card' = NoCard \/ child \in Alive,
           sup'.pc = sup.pc \/ (sup.pc \in {"watch", "terminate"} /\ sup'.pc \in {"watch", "terminate"})
                            \/ (sup.pc \in {"spawn", "done"} /\ sup'.pc \in {"spawn", "done"}),
           app'.st = "gone" => sup'.pc = "done"
    PROVE  HubInv'
<1>1. Alive' = Alive /\ Serving' = Serving
  BY DEF Alive, Serving
<1>2. Watching'
  BY DEF HubInv, Watching
<1>3. CardHeld' /\ HoldsLock' /\ NotNamed' /\ HubsAreOwned'
  BY <1>1 DEF HubInv, CardHeld, HoldsLock, NotNamed, HubsAreOwned
<1> QED BY <1>2, <1>3 DEF HubInv

\* A hub that dies leaves the others as they are, its card with it, and a lock that is not theirs.
LEMMA DiesKeeps ==
    ASSUME HubInv, HubTypes, NEW n \in Hubs, Dies(n),
           lock' = lock \/ (lock' = release(lock, n) /\ n \in Serving),
           UNCHANGED <<looked, raced>>,
           child' = child \/ (child' = 0 /\ n = child),
           orphans' = orphans \/ orphans' = orphans \ {n},
           Watching'
    PROVE  HubInv'
<1>1. /\ hubs' = [hubs EXCEPT ![n] = "dead"]
      /\ IF n = child THEN card' = NoCard ELSE card' = card
  BY DEF Dies, cardVars
<1>2. /\ \A m \in Hubs : hubs'[m] = IF m = n THEN "dead" ELSE hubs[m]
  BY <1>1 DEF HubTypes
<1>3. Alive' = Alive \ {n} /\ Serving' = Serving \ {n}
  BY <1>2 DEF Alive, Serving
<1>4. CardHeld'
  BY <1>1, <1>3, Limits DEF HubInv, CardHeld
<1>5. HoldsLock'
  <2> SUFFICES ASSUME ~raced
               PROVE  /\ \A m \in Serving' : lock' = m
                      /\ \A m \in Hubs : hubs'[m] = "locking" /\ looked[m] = lock' => Serving' = {}
    BY DEF HoldsLock
  <2>1. \A m \in Serving : lock = m
    BY DEF HubInv, HoldsLock
  <2>2. CASE lock' = lock
    BY <1>2, <1>3, <2>1, <2>2 DEF HubInv, HoldsLock
  <2>3. CASE n \in Serving
    <3>1. Serving' = {}
      BY <1>3, <2>1, <2>3
    <3> QED BY <3>1
  <2> QED BY <2>2, <2>3
<1>6. NotNamed'
  <2>1. lock' = lock \/ lock' = NoLock
    BY DEF release
  <2> QED BY <1>2, <2>1, Limits DEF HubInv, NotNamed
<1>7. HubsAreOwned'
  BY <1>3 DEF HubInv, HubsAreOwned
<1> QED BY <1>4, <1>5, <1>6, <1>7 DEF HubInv

\* A hub that goes on after its look at the lock has found nobody alive behind it.
LEMMA ReadKeeps ==
    ASSUME HubInv, HubTypes, NEW n \in Hubs, acquire_read(n)
    PROVE  HubInv'
<1>1. hubs[n] = "starting" /\ UNCHANGED <<app, sup, child, orphans, lock, raced>>
  BY DEF acquire_read
<1>2. Watching'
  BY <1>1 DEF HubInv, Watching
<1>3. CASE Dies(n) /\ UNCHANGED looked
  BY <1>1, <1>2, <1>3, DiesKeeps
<1>4. CASE /\ lock_decision(lock, n, Alive) = "reclaim" /\ hubs' = [hubs EXCEPT ![n] = "locking"]
           /\ looked' = [looked EXCEPT ![n] = lock] /\ UNCHANGED card
  <2>1. \A m \in Hubs : hubs'[m] = IF m = n THEN "locking" ELSE hubs[m]
    BY <1>4 DEF HubTypes
  <2>2. \A m \in Hubs : looked'[m] = IF m = n THEN lock ELSE looked[m]
    BY <1>4 DEF HubTypes
  <2>3. Alive' = Alive /\ Serving' = Serving
    BY <1>1, <2>1 DEF Alive, Serving
  <2>4. ASSUME ~raced, NEW m \in Serving PROVE FALSE
    <3>1. lock = m /\ m \in Hubs /\ m \in Alive /\ m # n
      BY <1>1, <2>4 DEF HubInv, HoldsLock, Serving, Alive
    <3>2. parse_lock(lock) = m
      BY <3>1, Limits DEF parse_lock
    <3>3. lock_decision(lock, n, Alive) = "live"
      BY <3>1, <3>2 DEF lock_decision
    <3> QED BY <1>4, <3>3
  <2>5. HoldsLock'
    BY <1>1, <2>1, <2>2, <2>3, <2>4 DEF HubInv, HoldsLock
  <2>6. NotNamed'
    <3>1. ASSUME NEW x \in Hubs, hubs'[x] \in {"none", "starting", "locking"}
          PROVE  lock' # x /\ \A y \in Hubs : looked'[y] # x
      <4>1. hubs[x] \in {"none", "starting", "locking"}
        BY <1>1, <2>1, <3>1
      <4>2. lock # x /\ \A y \in Hubs : looked[y] # x
        BY <4>1 DEF HubInv, NotNamed
      <4> QED BY <1>1, <2>2, <4>2
    <3> QED BY <3>1 DEF NotNamed
  <2>7. CardHeld' /\ HubsAreOwned'
    BY <1>1, <1>4, <2>3 DEF HubInv, CardHeld, HubsAreOwned
  <2> QED BY <1>2, <2>5, <2>6, <2>7 DEF HubInv
<1> QED BY <1>3, <1>4 DEF acquire_read, cardVars

\* The lock is the writer's, and nobody else's while it held what the writer had read.
LEMMA WriteKeeps ==
    ASSUME HubInv, HubTypes, NEW n \in Hubs, acquire_write(n)
    PROVE  HubInv'
<1>1. /\ hubs[n] = "locking" /\ hubs' = [hubs EXCEPT ![n] = "booting"] /\ lock' = n
      /\ looked' = [looked EXCEPT ![n] = NoLock] /\ raced' = (raced \/ lock # looked[n])
      /\ UNCHANGED <<app, sup, child, orphans, card>>
  BY DEF acquire_write, Acquired, cardVars
<1>2. \A m \in Hubs : hubs'[m] = IF m = n THEN "booting" ELSE hubs[m]
  BY <1>1 DEF HubTypes
<1>3. \A m \in Hubs : looked'[m] = IF m = n THEN NoLock ELSE looked[m]
  BY <1>1 DEF HubTypes
<1>4. Alive' = Alive /\ Serving' = Serving \cup {n}
  BY <1>1, <1>2 DEF Alive, Serving
<1>5. \A m \in Hubs : looked[m] # n
  BY <1>1 DEF HubInv, NotNamed
<1>6. HoldsLock'
  <2> SUFFICES ASSUME ~raced'
               PROVE  /\ \A m \in Serving' : lock' = m
                      /\ \A m \in Hubs : hubs'[m] = "locking" /\ looked'[m] = lock' => Serving' = {}
    BY DEF HoldsLock
  <2>1. ~raced /\ lock = looked[n]
    BY <1>1
  <2>2. Serving = {}
    BY <1>1, <2>1 DEF HubInv, HoldsLock
  <2> QED BY <1>1, <1>2, <1>3, <1>4, <1>5, <2>2
<1>7. NotNamed'
  <2>1. ASSUME NEW x \in Hubs, hubs'[x] \in {"none", "starting", "locking"}
        PROVE  lock' # x /\ \A y \in Hubs : looked'[y] # x
    <3>1. x # n /\ hubs[x] \in {"none", "starting", "locking"} /\ x # NoLock
      BY <1>2, <2>1, Limits
    <3>2. \A y \in Hubs : looked[y] # x
      BY <3>1 DEF HubInv, NotNamed
    <3> QED BY <1>1, <1>3, <3>1, <3>2
  <2> QED BY <2>1 DEF NotNamed
<1>8. Watching' /\ CardHeld' /\ HubsAreOwned'
  BY <1>1, <1>4 DEF HubInv, Watching, CardHeld, HubsAreOwned
<1> QED BY <1>6, <1>7, <1>8 DEF HubInv

LEMMA HubStepKeeps ==
    ASSUME HubInv, HubTypes, NEW n \in Hubs, HubStep(n)
    PROVE  HubInv'
<1>1. CASE acquire_read(n) \/ acquire_write(n)
  BY <1>1, ReadKeeps, WriteKeeps
<1>2. CASE serve(n) \/ hang(n) \/ recover(n)
  <2>1. /\ hubs[n] \in {"booting", "serving", "hung"}
        /\ hubs' \in {[hubs EXCEPT ![n] = "serving"], [hubs EXCEPT ![n] = "hung"]}
        /\ UNCHANGED <<app, sup, child, orphans, lock, looked, raced, card>>
    BY <1>2 DEF serve, hang, recover, cardVars, lockSteps
  <2>2. /\ \A m \in Hubs : m # n => hubs'[m] = hubs[m]
        /\ hubs'[n] \in {"serving", "hung"}
    BY <2>1 DEF HubTypes
  <2>3. Alive' = Alive /\ Serving' = Serving
    BY <2>1, <2>2 DEF Alive, Serving
  <2>4. HoldsLock' /\ NotNamed'
    BY <2>1, <2>2, <2>3 DEF HubInv, HoldsLock, NotNamed
  <2> QED BY <2>1, <2>3, <2>4 DEF HubInv, Watching, CardHeld, HubsAreOwned
<1>3. CASE crash(n) \/ stop_orphan(n)
  <2>1. UNCHANGED <<app, sup, child, looked, raced>> /\ Dies(n)
    BY <1>3 DEF crash, stop_orphan, Sigterm, lockSteps
  <2>2. /\ lock' = lock \/ (lock' = release(lock, n) /\ n \in Serving)
        /\ orphans' = orphans \/ orphans' = orphans \ {n}
    BY <1>3 DEF crash, stop_orphan, Sigterm, lockSteps, Serving
  <2>3. Watching'
    BY <2>1 DEF HubInv, Watching
  <2> QED BY <2>1, <2>2, <2>3, DiesKeeps
<1> QED BY <1>1, <1>2, <1>3 DEF HubStep


\* The supervisor lets go of a child only when it is dead.
LEMMA LetGoKeeps ==
    ASSUME HubInv, child \notin Alive, child' = 0, UNCHANGED <<hubs, orphans, lock, looked, raced>>,
           card' = card \/ card' = NoCard, Watching'
    PROVE  HubInv'
<1>1. Alive' = Alive /\ Serving' = Serving
  BY DEF Alive, Serving
<1>2. card' = NoCard
  BY DEF HubInv, CardHeld
<1>3. CardHeld' /\ HoldsLock' /\ NotNamed' /\ HubsAreOwned'
  BY <1>1, <1>2 DEF HubInv, CardHeld, HoldsLock, NotNamed, HubsAreOwned
<1> QED BY <1>3 DEF HubInv

LEMMA AfterExitWatching ==
    ASSUME HubInv, AppTypes, sup.pc # "done", NEW quick \in BOOLEAN, AfterExit(quick)
    PROVE  Watching'
<1>1. child' = 0 /\ app'.st = app.st /\ sup'.pc \in {"done", "spawn"}
  BY DEF AfterExit, Unrecoverable, AppTypes
<1>2. app.st # "gone"
  BY DEF HubInv, Watching
<1> QED BY <1>1, <1>2 DEF Watching

LEMMA SpawnKeeps ==
    ASSUME HubInv, HubTypes, AppTypes, NEW n \in Hubs, spawn(n)
    PROVE  HubInv'
<1>1. /\ hubs[n] = "none" /\ hubs' = [hubs EXCEPT ![n] = "starting"] /\ child' = n
      /\ UNCHANGED <<app, orphans, lock, looked, raced, card>> /\ app.st # "gone" /\ sup.pc = "spawn"
      /\ sup' = [sup EXCEPT !.pc = "watch", !.healthy = FALSE, !.misses = 0]
  BY DEF spawn, cardVars, lockSteps
<1>2. sup'.pc = "watch"
  BY <1>1 DEF AppTypes
<1>3. \A m \in Hubs : hubs'[m] = IF m = n THEN "starting" ELSE hubs[m]
  BY <1>1 DEF HubTypes
<1>4. Alive' = Alive \cup {n} /\ Serving' = Serving
  BY <1>1, <1>3 DEF Alive, Serving
<1>5. child = 0 /\ child \notin Alive
  BY <1>1, Limits DEF HubInv, Watching, Alive
<1>6. Watching'
  BY <1>1, <1>2 DEF Watching
<1>7. CardHeld'
  BY <1>1, <1>4, <1>5 DEF HubInv, CardHeld
<1>8. HubsAreOwned'
  BY <1>1, <1>4, <1>5 DEF HubInv, HubsAreOwned
<1>9. HoldsLock'
  <2>1. \A m \in Hubs : hubs'[m] = "locking" => hubs[m] = "locking"
    BY <1>3
  <2> QED BY <1>1, <1>4, <2>1 DEF HubInv, HoldsLock
<1>10. NotNamed'
  <2>1. \A m \in Hubs : hubs'[m] \in {"none", "starting", "locking"} =>
           hubs[m] \in {"none", "starting", "locking"}
    BY <1>1, <1>3
  <2> QED BY <1>1, <2>1 DEF HubInv, NotNamed
<1> QED BY <1>6, <1>7, <1>8, <1>9, <1>10 DEF HubInv

LEMMA SupStepKeeps ==
    ASSUME HubInv, Parts, SupStep
    PROVE  HubInv'
<1>0. AppTypes /\ HubTypes
  BY DEF Parts
<1>1. CASE \E n \in Hubs : spawn(n)
  BY <1>0, <1>1, SpawnKeeps
<1>2. CASE see_exit
  <2>1. sup.pc = "watch" /\ hubs[child] = "dead" /\ UNCHANGED <<hubs, orphans, lock, looked, raced, card>> /\ child' = 0
    BY <1>2 DEF see_exit, AfterExit, cardVars, lockSteps
  <2>2. child \notin Alive
    BY <2>1 DEF Alive
  <2>3. Watching'
    BY <1>0, <1>2, <2>1, AfterExitWatching DEF see_exit
  <2> QED BY <2>1, <2>2, <2>3, LetGoKeeps
<1>3. CASE spawn_fails \/ loop_ends \/ see_stop \/ health_ok \/ probe_missed \/ boot_deadline \/ quit
  <2>1. UNCHANGED <<hubs, child, orphans, lock, looked, raced, card>>
    BY <1>3 DEF spawn_fails, loop_ends, see_stop, health_ok, probe_missed, boot_deadline, quit, hubVars, lockSteps, cardVars
  <2>2. app' \in {app, [app EXCEPT !.fatal = TRUE], [app EXCEPT !.st = "quitting"]}
    BY <1>3 DEF spawn_fails, loop_ends, see_stop, health_ok, probe_missed, boot_deadline, quit, Unrecoverable
  <2>3. \/ sup' \in {[sup EXCEPT !.pc = "done"]} /\ sup.pc = "spawn"
        \/ sup' = [sup EXCEPT !.pc = "terminate"] /\ sup.pc = "watch"
        \/ sup' = [sup EXCEPT !.healthy = TRUE, !.started = TRUE, !.misses = 0] /\ sup.pc = "watch"
        \/ sup' = [sup EXCEPT !.misses = sup.misses + 1,
                                !.pc = IF sup.misses + 1 >= LIVENESS_STRIKES THEN "terminate" ELSE sup.pc]
           /\ sup.pc = "watch"
        \/ sup' = [sup EXCEPT !.stop = TRUE]
    BY <1>3 DEF spawn_fails, loop_ends, see_stop, health_ok, probe_missed, boot_deadline, quit
  <2>4. \/ sup'.pc = sup.pc
        \/ sup.pc = "spawn" /\ sup'.pc = "done"
        \/ sup.pc = "watch" /\ sup'.pc = "terminate"
    BY <1>0, <2>3 DEF AppTypes
  <2>5. app'.st \in {app.st, "quitting"}
    BY <1>0, <2>2 DEF AppTypes
  <2>6. app'.st = "gone" => sup'.pc = "done"
    BY <2>4, <2>5 DEF HubInv, Watching
  <2> QED BY <2>1, <2>4, <2>6, SameHubs
<1> QED BY <1>1, <1>2, <1>3 DEF SupStep

LEMMA EndStepKeeps ==
    ASSUME HubInv, Parts, terminate \/ restart_hub
    PROVE  HubInv'
<1>0. AppTypes /\ HubTypes
  BY DEF Parts
<1>1. child \in Hubs /\ UNCHANGED orphans
  BY DEF terminate, restart_hub, HubInv, Watching, Alive
<1>2. CASE restart_hub
  <2>1. /\ UNCHANGED <<app, sup, child, looked, raced>> /\ Dies(child)
        /\ lock' = lock \/ (lock' = release(lock, child) /\ child \in Serving)
    BY <1>1, <1>2 DEF restart_hub, Sigterm, lockSteps, Serving
  <2>2. Watching'
    BY <2>1 DEF HubInv, Watching
  <2> QED BY <1>0, <1>1, <2>1, <2>2, DiesKeeps
<1>3. CASE terminate
  <2>1. child' = 0 /\ Watching'
    BY <1>0, <1>3, AfterExitWatching DEF terminate, AfterExit
  <2>2. CASE Dies(child)
    <3>1. /\ lock' = lock \/ (lock' = release(lock, child) /\ child \in Serving)
          /\ UNCHANGED <<looked, raced>>
      BY <1>1, <1>3 DEF terminate, Sigterm, lockSteps, Serving
    <3> QED BY <1>0, <1>1, <2>1, <2>2, <3>1, DiesKeeps
  <2>3. CASE ~Dies(child)
    <3>1. hubs[child] = "dead" /\ UNCHANGED <<hubs, lock, looked, raced, card>>
      BY <1>3, <2>3 DEF terminate, Sigterm, cardVars, lockSteps
    <3>2. child \notin Alive
      BY <3>1 DEF Alive
    <3> QED BY <1>1, <2>1, <3>1, <3>2, LetGoKeeps
  <2> QED BY <2>2, <2>3
<1> QED BY <1>2, <1>3

\* Steps of clients, updater and tray leave the hubs alone; a card changes only where it is kept.
LEMMA QuietStepKeeps ==
    ASSUME HubInv, Parts,
           client_activity \/ ApplyUpdate \/ ForceUpdate \/ UpdaterQuiet \/ Reports \/ TrayAndRelease \/ teardown
    PROVE  HubInv'
<1>1. UNCHANGED <<hubs, child, orphans, lock, looked, raced>>
  BY DEF client_activity, ApplyUpdate, ForceUpdate, Click, UpdaterQuiet, run_cycle, check_fails, check_endpoint,
         begin_install, install_ok, Reports, up_to_date, report_update_state, install_fails, TrayAndRelease, publish,
         failsafe, spawn_check, run_check, manual_install_ok, teardown, hubVars, lockSteps
<1>2. card' = card \/ Reachable
  BY DEF client_activity, ApplyUpdate, ForceUpdate, Click, UpdaterQuiet, run_cycle, check_fails, check_endpoint,
         begin_install, install_ok, Reports, up_to_date, report_update_state, install_fails, TrayAndRelease, publish,
         failsafe, spawn_check, run_check, manual_install_ok, teardown, cardVars, Report
<1>3. \/ UNCHANGED <<app, sup>>
      \/ app' = [app EXCEPT !.st = "restarting"] /\ sup' = [sup EXCEPT !.stop = TRUE] /\ app.st = "running"
      \/ app' = [app EXCEPT !.st = "gone"] /\ sup' = sup /\ sup.pc = "done"
  BY DEF client_activity, ApplyUpdate, ForceUpdate, Click, UpdaterQuiet, run_cycle, check_fails, check_endpoint,
         begin_install, install_ok, Reports, up_to_date, report_update_state, install_fails, TrayAndRelease, publish,
         failsafe, spawn_check, run_check, manual_install_ok, teardown, RequestRestart
<1>4. sup'.pc = sup.pc
  BY <1>3 DEF Parts, AppTypes
<1>5. app'.st = "gone" => sup'.pc = "done"
  BY <1>3, <1>4 DEF Parts, AppTypes, HubInv, Watching
<1>6. Reachable => child \in Alive
  BY DEF Reachable, Alive, Parts, HubTypes, Hubs
<1> QED BY <1>1, <1>2, <1>4, <1>5, <1>6, SameHubs

LEMMA LifeStepKeeps ==
    ASSUME HubInv, Parts, relaunch \/ start \/ killed
    PROVE  HubInv'
<1>1. CASE killed
  <2>1. /\ UNCHANGED <<hubs, lock, looked, raced>> /\ orphans' = orphans \cup ({child} \cap Alive) /\ child' = 0 /\ card' = NoCard
        /\ app' = [app EXCEPT !.st = "gone"] /\ sup' = [sup EXCEPT !.pc = "done"]
    BY <1>1 DEF killed, lockSteps
  <2>2. Alive' = Alive /\ Serving' = Serving
    BY <2>1 DEF Alive, Serving
  <2>3. sup'.pc = "done"
    BY <2>1 DEF Parts, AppTypes
  <2>4. Watching'
    BY <2>1, <2>3 DEF Watching
  <2>5. CardHeld' /\ HoldsLock' /\ NotNamed' /\ HubsAreOwned'
    BY <2>1, <2>2 DEF HubInv, CardHeld, HoldsLock, NotNamed, HubsAreOwned
  <2> QED BY <2>4, <2>5 DEF HubInv
<1>2. CASE relaunch \/ start
  <2>1. sup.pc = "done"
    BY <1>2 DEF relaunch, start, HubInv, Watching
  <2>2. /\ UNCHANGED <<hubs, orphans, lock, looked, raced, card>> /\ child' = 0 /\ app'.st = "running" /\ sup'.pc = "spawn"
    BY <1>2 DEF relaunch, start, Launch, FreshSup, cardVars, lockSteps
  <2>3. child = 0
    BY <2>1 DEF HubInv, Watching
  <2> QED BY <2>1, <2>2, <2>3, SameHubs
<1> QED BY <1>1, <1>2

LEMMA HubsKeep ==
    ASSUME HubInv, Parts, [Next]_vars
    PROVE  HubInv'
<1>1. CASE UNCHANGED vars
  <2>1. UNCHANGED <<app, sup, hubs, child, orphans, lock, looked, raced, card>>
    BY <1>1 DEF vars
  <2>2. app.st = "gone" => sup.pc = "done"
    BY DEF HubInv, Watching
  <2> QED BY <2>1, <2>2, SameHubs
<1>2. CASE Next
  <2>1. HubTypes
    BY DEF Parts
  <2> QED BY <1>2, <2>1, Steps, HubStepKeeps, SupStepKeeps, EndStepKeeps, QuietStepKeeps, LifeStepKeeps
<1> QED BY <1>1, <1>2


-----------------------------------------------------------------------------
(* Clicks and attended installs *)

AskInv == Started /\ Asked

Cards == [sha : Versions \cup {NoVersion}, applying : BOOLEAN, force : BOOLEAN]

Upds == [pc : {"off", "idle", "check", "defer", "begin", "install"}, ver : Versions \cup {NoVersion}, attended : BOOLEAN]

LEMMA OwedIs ==
    ASSUME NEW u \in Upds, NEW c \in Cards
    PROVE  /\ OwedBy(u, c) \in 0 .. 2
           /\ u.pc = "begin" => OwedBy(u, c) = (IF u.attended THEN 1 ELSE 0) + (IF c.force /\ ~c.applying THEN 1 ELSE 0)
           /\ u.pc = "install" => OwedBy(u, c) = (IF c.force /\ ~c.applying THEN 1 ELSE 0)
           /\ u.pc \notin {"begin", "install"} => OwedBy(u, c) = (IF c.force \/ c.applying THEN 1 ELSE 0)
BY DEF Upds, Cards, OwedBy, One

LEMMA AskNumbers ==
    ASSUME Parts
    PROVE  upd \in Upds /\ card \in Cards /\ attempts \in Nat /\ clicks \in Nat /\ lost \in Nat
BY Limits DEF Parts, UpdTypes, CardTypes, Upds, Cards

\* Nothing more is owed.
LEMMA NoMoreOwed ==
    ASSUME Parts, Parts', AskInv, attempts' = attempts, clicks' >= clicks, lost' >= lost,
           app'.st = "running" => \/ app.st = "running" /\ OwedBy(upd, card)' <= OwedBy(upd, card)
                                  \/ OwedBy(upd, card)' = 0
    PROVE  Asked'
<1>1. /\ upd \in Upds /\ card \in Cards /\ attempts \in Nat /\ clicks \in Nat /\ lost \in Nat
      /\ upd' \in Upds /\ card' \in Cards /\ attempts' \in Nat /\ clicks' \in Nat /\ lost' \in Nat
  BY AskNumbers, Limits DEF Parts, UpdTypes, CardTypes, Upds, Cards
<1>2. OwedBy(upd, card) \in Nat /\ OwedBy(upd', card') \in Nat
  BY <1>1, OwedIs
<1>3. /\ attempts <= clicks + lost
      /\ app.st = "running" => attempts + OwedBy(upd, card) <= clicks + lost
  BY DEF AskInv, Asked
<1>4. attempts' <= clicks' + lost'
  <2> SUFFICES ASSUME NEW a \in Nat, NEW c \in Nat, NEW l \in Nat, NEW d \in Nat, NEW m \in Nat,
                      a <= c + l, d >= c, m >= l
               PROVE  a <= d + m
    BY <1>1, <1>3
  <2> QED OBVIOUS
<1>5. app'.st = "running" => attempts' + OwedBy(upd', card') <= clicks' + lost'
  BY <1>1, <1>2, <1>3, <1>4
<1> QED BY <1>4, <1>5 DEF Asked

\* A card that is lost asks for nothing.
LEMMA CardGone ==
    ASSUME NEW u \in Upds, NEW c \in Cards
    PROVE  OwedBy(u, NoCard) <= OwedBy(u, c)
<1>1. NoCard \in Cards /\ NoCard.force = FALSE /\ NoCard.applying = FALSE
  BY DEF NoCard, Cards
<1>2. u.attended \in BOOLEAN /\ c.force \in BOOLEAN /\ c.applying \in BOOLEAN
  BY DEF Upds, Cards
<1> QED BY <1>1, <1>2, OwedIs

\* Steps of hubs, supervisor, tray and endpoint: the updater at most starts.
LEMMA IdleAskKeeps ==
    ASSUME Parts, Parts', AskInv, UNCHANGED <<attempts, clicks, lost>>,
           upd' = upd \/ (upd.pc = "off" /\ upd' = [upd EXCEPT !.pc = "idle"] /\ sup'.started),
           card' = card \/ card' = NoCard, app'.st = "running" => app.st = "running",
           sup.started => sup'.started
    PROVE  AskInv'
<1>1. /\ upd \in Upds /\ card \in Cards /\ upd' \in Upds /\ card' \in Cards /\ clicks \in Nat /\ lost \in Nat
  BY AskNumbers DEF Parts, UpdTypes, CardTypes, Upds, Cards
<1>2. OwedBy(upd', card) <= OwedBy(upd, card)
  <2>1. CASE upd' = upd
    BY <1>1, <2>1, OwedIs
  <2>2. CASE upd.pc = "off" /\ upd' = [upd EXCEPT !.pc = "idle"]
    <3>1. upd'.pc = "idle"
      BY <1>1, <2>2 DEF Upds
    <3>2. OwedBy(upd', card) = OwedBy(upd, card)
      BY <1>1, <2>2, <3>1, OwedIs
    <3> QED BY <1>1, <3>2, OwedIs
  <2> QED BY <2>1, <2>2
<1>3. OwedBy(upd', card') <= OwedBy(upd, card)
  <2>1. CASE card' = card
    BY <1>2, <2>1
  <2>2. CASE card' = NoCard
    <3>1. OwedBy(upd', card') <= OwedBy(upd', card)
      BY <1>1, <2>2, CardGone
    <3>2. OwedBy(upd', card') \in Nat /\ OwedBy(upd', card) \in Nat /\ OwedBy(upd, card) \in Nat
      BY <1>1, OwedIs
    <3> QED BY <1>2, <3>1, <3>2
  <2> QED BY <2>1, <2>2
<1>4. Asked'
  BY <1>1, <1>3, NoMoreOwed
<1>5. Started'
  BY DEF AskInv, Started
<1> QED BY <1>4, <1>5 DEF AskInv

LEMMA IdleStepAsks ==
    ASSUME Parts, Parts', AskInv,
           \/ \E n \in Hubs : HubStep(n)
           \/ SupStep \/ terminate \/ restart_hub \/ TrayAndRelease \/ client_activity
    PROVE  AskInv'
<1>1. UNCHANGED <<attempts, clicks, lost>>
  BY DEF HubStep, acquire_read, acquire_write, serve, crash, hang, recover, stop_orphan, SupStep, spawn_fails, loop_ends, see_exit,
         see_stop, health_ok, probe_missed, boot_deadline, quit, spawn, terminate, restart_hub, TrayAndRelease, publish,
         failsafe, spawn_check, run_check, manual_install_ok, client_activity, history
<1>2. card' = card \/ card' = NoCard
  BY DEF HubStep, acquire_read, acquire_write, serve, crash, hang, recover, stop_orphan, SupStep, spawn_fails, loop_ends, see_exit,
         see_stop, health_ok, probe_missed, boot_deadline, quit, spawn, terminate, restart_hub, TrayAndRelease, publish,
         failsafe, spawn_check, run_check, manual_install_ok, client_activity, cardVars, Dies, Sigterm
<1>3. upd' = upd \/ (health_ok /\ ~sup.started /\ upd' = [upd EXCEPT !.pc = "idle"])
  BY DEF HubStep, acquire_read, acquire_write, serve, crash, hang, recover, stop_orphan, SupStep, spawn_fails, loop_ends, see_exit,
         see_stop, health_ok, probe_missed, boot_deadline, quit, spawn, terminate, restart_hub, TrayAndRelease, publish,
         failsafe, spawn_check, run_check, manual_install_ok, client_activity, updVars
<1>4. health_ok => sup'.started
  BY DEF health_ok, Parts, AppTypes
<1>5. upd' = upd \/ (upd.pc = "off" /\ upd' = [upd EXCEPT !.pc = "idle"] /\ sup'.started)
  BY <1>3, <1>4 DEF AskInv, Started
<1>6. app'.st = "running" => app.st = "running"
  <2>1. \/ app' = app \/ app' = [app EXCEPT !.fatal = TRUE]
        \/ app' = [app EXCEPT !.st = "restarting"] \/ app' = [app EXCEPT !.st = "quitting"]
    BY DEF HubStep, acquire_read, acquire_write, serve, crash, hang, recover, stop_orphan, SupStep, spawn_fails, loop_ends, see_exit,
         see_stop, health_ok, probe_missed, boot_deadline, quit, spawn, terminate, restart_hub, TrayAndRelease, publish,
         failsafe, spawn_check, run_check, manual_install_ok, client_activity, AfterExit, Unrecoverable, RequestRestart
  <2> QED BY <2>1 DEF Parts, AppTypes
<1>7. sup.started => sup'.started
  <2>1. \/ sup' \in {sup, [sup EXCEPT !.stop = TRUE], [sup EXCEPT !.pc = "done"], [sup EXCEPT !.pc = "terminate"]}
        \/ sup' = [sup EXCEPT !.pc = "watch", !.healthy = FALSE, !.misses = 0]
        \/ health_ok \/ probe_missed \/ \E quick \in BOOLEAN : AfterExit(quick)
    BY DEF HubStep, acquire_read, acquire_write, serve, crash, hang, recover, stop_orphan, SupStep, spawn_fails, loop_ends, see_exit,
         see_stop, boot_deadline, quit, spawn, terminate, restart_hub, TrayAndRelease, publish,
         failsafe, spawn_check, run_check, manual_install_ok, client_activity, RequestRestart
  <2>2. CASE \/ sup' \in {sup, [sup EXCEPT !.stop = TRUE], [sup EXCEPT !.pc = "done"], [sup EXCEPT !.pc = "terminate"]}
             \/ sup' = [sup EXCEPT !.pc = "watch", !.healthy = FALSE, !.misses = 0]
    BY <2>2 DEF Parts, AppTypes
  <2>3. CASE probe_missed
    BY <2>3 DEF probe_missed, Parts, AppTypes
  <2>4. CASE \E quick \in BOOLEAN : AfterExit(quick)
    BY <2>4 DEF AfterExit, Parts, AppTypes
  <2> QED BY <1>4, <2>1, <2>2, <2>3, <2>4
<1> QED BY <1>1, <1>2, <1>5, <1>6, <1>7, IdleAskKeeps


\* A click pays for what it makes the card ask for.
LEMMA ClickAsks ==
    ASSUME Parts, Parts', AskInv, ApplyUpdate \/ ForceUpdate
    PROVE  AskInv'
<1>1. /\ upd \in Upds /\ card \in Cards /\ attempts \in Nat /\ clicks \in Nat /\ lost \in Nat
  BY AskNumbers
<1>2. /\ UNCHANGED <<app, sup, upd, attempts, lost>> /\ clicks' = clicks + 1
      /\ \/ card' = [card EXCEPT !.applying = card.applying \/ card.sha # NoVersion]
         \/ card' = [card EXCEPT !.applying = card.applying \/ card.sha # NoVersion, !.force = TRUE]
  BY DEF ApplyUpdate, ForceUpdate, Click, updVars
<1>3. card' \in Cards
  BY <1>1, <1>2 DEF Cards
<1>4. OwedBy(upd, card') <= OwedBy(upd, card) + 1
  <2>1. upd.attended \in BOOLEAN
    BY <1>1 DEF Upds
  <2> QED BY <1>1, <1>3, <2>1, OwedIs
<1>5. OwedBy(upd, card) \in Nat /\ OwedBy(upd, card') \in Nat
  BY <1>1, <1>3, OwedIs
<1>6. Asked'
  <2>1. attempts' <= clicks' + lost'
    BY <1>1, <1>2 DEF AskInv, Asked
  <2>2. app.st = "running" => attempts + OwedBy(upd, card') <= (clicks + 1) + lost
    BY <1>1, <1>4, <1>5 DEF AskInv, Asked
  <2> QED BY <1>2, <2>1, <2>2 DEF Asked
<1>7. Started'
  BY <1>2 DEF AskInv, Started
<1> QED BY <1>6, <1>7 DEF AskInv

\* The updater's own steps: what an attended install pays is what the click that began it left.
LEMMA UpdaterAsks ==
    ASSUME Parts, Parts', AskInv, UpdaterQuiet
    PROVE  AskInv'
<1>1. /\ upd \in Upds /\ card \in Cards /\ attempts \in Nat /\ clicks \in Nat /\ lost \in Nat /\ upd' \in Upds
      /\ upd.attended \in BOOLEAN /\ card.force \in BOOLEAN /\ card.applying \in BOOLEAN
  BY AskNumbers DEF Parts, UpdTypes, Upds, Cards
<1>2. UNCHANGED <<card, clicks, lost>>
  BY DEF UpdaterQuiet, run_cycle, check_fails, check_endpoint, begin_install, install_ok, cardVars, history
<1>3. app' = app \/ (app' = [app EXCEPT !.st = "restarting"])
  BY DEF UpdaterQuiet, run_cycle, check_fails, check_endpoint, begin_install, install_ok, RequestRestart
<1>4. app'.st = "running" => app.st = "running"
  BY <1>3 DEF Parts, AppTypes
<1>5. Started'
  <2>1. sup'.started = sup.started
    BY DEF UpdaterQuiet, run_cycle, check_fails, check_endpoint, begin_install, install_ok, RequestRestart, Parts,
           AppTypes
  <2>2. upd.pc # "off"
    BY DEF UpdaterQuiet, run_cycle, check_fails, check_endpoint, begin_install, install_ok
  <2> QED BY <2>1, <2>2 DEF AskInv, Started
<1>6. CASE run_cycle \/ check_fails \/ check_endpoint
  <2>1. attempts' = attempts /\ upd.pc \in {"idle", "check"}
    BY <1>6 DEF run_cycle, check_fails, check_endpoint, history
  <2>2. upd'.pc \in {"idle", "check", "defer"} \/ (upd'.pc = "begin" /\ ~upd'.attended)
    <3>1. \/ upd' = [upd EXCEPT !.pc = "check"] \/ upd' = Idle
          \/ upd' = [pc |-> IF hub_activity THEN "defer" ELSE "begin", ver |-> latest, attended |-> hub_activity]
      BY <1>6 DEF run_cycle, check_fails, check_endpoint, CycleEnds
    <3>2. hub_activity \in BOOLEAN
      BY DEF hub_activity
    <3>3. CASE upd' = [upd EXCEPT !.pc = "check"]
      BY <1>1, <3>3 DEF Upds
    <3>4. CASE upd' = Idle
      BY <3>4 DEF Idle
    <3>5. CASE upd' = [pc |-> IF hub_activity THEN "defer" ELSE "begin", ver |-> latest, attended |-> hub_activity]
      <4>1. upd'.pc = (IF hub_activity THEN "defer" ELSE "begin") /\ upd'.attended = hub_activity
        BY <3>5
      <4> QED BY <3>2, <4>1
    <3> QED BY <3>1, <3>3, <3>4, <3>5
  <2>3. OwedBy(upd', card) <= OwedBy(upd, card)
    <3>1. OwedBy(upd, card) = IF card.force \/ card.applying THEN 1 ELSE 0
      BY <1>1, <2>1, OwedIs
    <3>2. OwedBy(upd', card) = (IF card.force \/ card.applying THEN 1 ELSE 0)
          \/ OwedBy(upd', card) = (IF card.force /\ ~card.applying THEN 1 ELSE 0)
      BY <1>1, <2>2, OwedIs
    <3> QED BY <1>1, <3>1, <3>2
  <2>4. Asked'
    BY <1>1, <1>2, <1>4, <2>1, <2>3, NoMoreOwed
  <2> QED BY <1>5, <2>4 DEF AskInv
<1>7. CASE begin_install
  <2>1. upd.pc = "begin" /\ app' = app
    BY <1>7 DEF begin_install
  <2>2. CASE app.st # "running"
    <3>1. attempts' = attempts /\ app'.st # "running"
      BY <1>7, <2>1, <2>2 DEF begin_install
    <3>2. Asked'
      BY <1>1, <1>2, <3>1 DEF AskInv, Asked
    <3> QED BY <1>5, <3>2 DEF AskInv
  <2>3. CASE app.st = "running"
    <3>1. attempts' = attempts + (IF upd.attended THEN 1 ELSE 0) /\ upd' = [upd EXCEPT !.pc = "install"]
      BY <1>7, <2>3 DEF begin_install
    <3>2. upd'.pc = "install"
      BY <1>1, <3>1 DEF Upds
    <3>3. /\ OwedBy(upd, card) = (IF upd.attended THEN 1 ELSE 0) + (IF card.force /\ ~card.applying THEN 1 ELSE 0)
          /\ OwedBy(upd', card) = IF card.force /\ ~card.applying THEN 1 ELSE 0
      BY <1>1, <2>1, <3>2, OwedIs
    <3>4. attempts + OwedBy(upd, card) <= clicks + lost
      BY <2>3 DEF AskInv, Asked
    <3>5. attempts' + OwedBy(upd', card) <= clicks + lost /\ attempts' <= clicks + lost
      BY <1>1, <3>1, <3>3, <3>4
    <3>6. Asked'
      BY <1>2, <3>5 DEF Asked
    <3> QED BY <1>5, <3>6 DEF AskInv
  <2> QED BY <2>2, <2>3
<1>8. CASE install_ok
  <2>1. attempts' = attempts /\ app'.st # "running"
    BY <1>8 DEF install_ok, RequestRestart, history, Parts, AppTypes
  <2>2. Asked'
    BY <1>1, <1>2, <2>1 DEF AskInv, Asked
  <2> QED BY <1>5, <2>2 DEF AskInv
<1> QED BY <1>6, <1>7, <1>8 DEF UpdaterQuiet


\* A report is delivered, and clears what it hands over, or it is not, and a failure is counted as
\* lost when the card still says "applying".
LEMMA ReportIs ==
    ASSUME Parts, NEW sha \in Versions \cup {NoVersion}, NEW failed \in BOOLEAN, NEW go \in BOOLEAN,
           Report(sha, failed, go)
    PROVE  \/ /\ ~card'.force /\ (card'.applying => card.applying /\ ~failed) /\ lost' = lost
              /\ go => card.applying \/ card.force
           \/ /\ card' = card /\ go = FALSE
              /\ lost' = IF failed /\ card.applying THEN lost + 1 ELSE lost
<1> DEFINE c == [card EXCEPT !.sha = sha, !.applying = @ /\ sha # NoVersion /\ ~failed, !.force = @ /\ ~failed]
<1>0. card \in Cards
  BY AskNumbers
<1>1. c \in Cards /\ (c.applying => card.applying /\ ~failed) /\ (c.force => card.force)
  BY <1>0 DEF Cards
<1>2. /\ report_update(sha, failed).card = [c EXCEPT !.force = FALSE]
      /\ report_update(sha, failed).go = (c.applying \/ c.force)
  BY DEF report_update, Result
<1> HIDE DEF c
<1>3. CASE /\ Reachable /\ card' = report_update(sha, failed).card
           /\ (go = report_update(sha, failed).go \/ go = FALSE) /\ lost' = lost
  <2>1. card' = [c EXCEPT !.force = FALSE]
    BY <1>2, <1>3
  <2>2. ~card'.force /\ card'.applying = c.applying
    BY <1>1, <2>1 DEF Cards
  <2>3. go => c.applying \/ c.force
    BY <1>2, <1>3
  <2> QED BY <1>1, <1>3, <2>2, <2>3
<1>4. CASE /\ ~Reachable /\ go = FALSE /\ card' = card
           /\ lost' = IF failed /\ card.applying THEN lost + 1 ELSE lost
  BY <1>4
<1> QED BY <1>3, <1>4 DEF Report

LEMMA ReportAsks ==
    ASSUME Parts, Parts', AskInv, Reports
    PROVE  AskInv'
<1>1. /\ upd \in Upds /\ card \in Cards /\ attempts \in Nat /\ clicks \in Nat /\ lost \in Nat /\ upd' \in Upds
      /\ card' \in Cards /\ lost' \in Nat
  BY AskNumbers, Limits DEF Parts, UpdTypes, CardTypes, Upds, Cards
<1>2. UNCHANGED <<app, sup, attempts, clicks>> /\ upd.pc # "off"
  BY DEF Reports, up_to_date, report_update_state, install_fails
<1>3. Started'
  BY <1>2 DEF AskInv, Started
<1>4. PICK owed \in Nat : owed = OwedBy(upd, card)
  BY <1>1, OwedIs
<1>5. PICK due \in Nat : due = OwedBy(upd', card')
  BY <1>1, OwedIs
<1>6. /\ upd.attended \in BOOLEAN /\ card.force \in BOOLEAN /\ card.applying \in BOOLEAN
      /\ upd'.attended \in BOOLEAN /\ card'.force \in BOOLEAN /\ card'.applying \in BOOLEAN
  BY <1>1 DEF Upds, Cards
<1>7. lost' >= lost /\ due + lost <= owed + lost'
  <2>1. CASE up_to_date
    <3>1. upd.pc = "check" /\ upd'.pc = "idle" /\ \E go \in BOOLEAN : Report(NoVersion, FALSE, go)
      BY <2>1 DEF up_to_date, CycleEnds, Idle
    <3>2. lost' = lost /\ (card'.force => card.force) /\ (card'.applying => card.applying)
      <4>1. NoVersion \in Versions \cup {NoVersion} /\ FALSE \in BOOLEAN
        OBVIOUS
      <4>2. PICK go \in BOOLEAN : Report(NoVersion, FALSE, go)
        BY <3>1
      <4> QED BY <4>1, <4>2, ReportIs
    <3>3. owed = (IF card.force \/ card.applying THEN 1 ELSE 0) /\ due = IF card'.force \/ card'.applying THEN 1 ELSE 0
      BY <1>1, <1>4, <1>5, <3>1, OwedIs
    <3> QED BY <1>1, <1>6, <3>2, <3>3
  <2>2. CASE report_update_state
    <3>1. PICK go \in BOOLEAN :
             /\ Report(upd.ver, FALSE, go)
             /\ IF go THEN upd' = [upd EXCEPT !.pc = "begin"] ELSE upd' = Idle
      BY <2>2 DEF report_update_state, CycleEnds
    <3>2. upd.pc = "defer" /\ upd.ver \in Versions \cup {NoVersion} /\ FALSE \in BOOLEAN
      BY <1>1, <2>2 DEF report_update_state, Upds
    <3>3. /\ lost' = lost /\ (card'.force => card.force) /\ (card'.applying => card.applying)
          /\ go => ~card'.force /\ (card.force \/ card.applying)
      BY <3>1, <3>2, ReportIs
    <3>4. owed = IF card.force \/ card.applying THEN 1 ELSE 0
      BY <1>1, <1>4, <3>2, OwedIs
    <3>5. CASE go
      <4>1. upd'.pc = "begin"
        BY <1>1, <3>1, <3>5 DEF Upds
      <4>2. due = (IF upd'.attended THEN 1 ELSE 0) + (IF card'.force /\ ~card'.applying THEN 1 ELSE 0)
        BY <1>1, <1>5, <4>1, OwedIs
      <4> QED BY <1>1, <1>6, <3>3, <3>4, <3>5, <4>2
    <3>6. CASE ~go
      <4>1. upd'.pc = "idle"
        BY <3>1, <3>6 DEF Idle
      <4>2. due = IF card'.force \/ card'.applying THEN 1 ELSE 0
        BY <1>1, <1>5, <4>1, OwedIs
      <4> QED BY <1>1, <1>6, <3>3, <3>4, <4>2
    <3> QED BY <3>5, <3>6
  <2>3. CASE install_fails
    <3>1. upd.pc = "install" /\ upd'.pc = "idle" /\ \E go \in BOOLEAN : Report(upd.ver, TRUE, go)
      BY <2>3 DEF install_fails, CycleEnds, Idle
    <3>2. \/ ~card'.force /\ ~card'.applying /\ lost' = lost
          \/ card' = card /\ lost' = IF card.applying THEN lost + 1 ELSE lost
      <4>1. upd.ver \in Versions \cup {NoVersion} /\ TRUE \in BOOLEAN
        BY <1>1 DEF Upds
      <4>2. PICK go \in BOOLEAN : Report(upd.ver, TRUE, go)
        BY <3>1
      <4> QED BY <4>1, <4>2, ReportIs
    <3>3. /\ owed = IF card.force /\ ~card.applying THEN 1 ELSE 0
          /\ due = IF card'.force \/ card'.applying THEN 1 ELSE 0
      BY <1>1, <1>4, <1>5, <3>1, OwedIs
    <3>4. CASE ~card'.force /\ ~card'.applying /\ lost' = lost
      <4>1. due = 0
        BY <3>3, <3>4
      <4> QED BY <1>1, <3>4, <4>1
    <3>5. CASE card' = card /\ card.applying /\ lost' = lost + 1
      <4>1. due = 1 /\ owed = 0
        BY <3>3, <3>5
      <4> QED BY <1>1, <3>5, <4>1
    <3>6. CASE card' = card /\ ~card.applying /\ lost' = lost
      <4>1. due = owed
        BY <3>3, <3>6
      <4> QED BY <1>1, <3>6, <4>1
    <3> QED BY <3>2, <3>4, <3>5, <3>6
  <2> QED BY <2>1, <2>2, <2>3 DEF Reports
<1>8. Asked'
  <2>1. /\ attempts <= clicks + lost
        /\ app.st = "running" => attempts + owed <= clicks + lost
    BY <1>4 DEF AskInv, Asked
  <2>2. \A a, c, k, l, o, d \in Nat : k <= l /\ d + k <= o + l
            => (a <= c + k => a <= c + l) /\ (a + o <= c + k => a + d <= c + l)
    OBVIOUS
  <2>3. /\ attempts <= clicks + lost => attempts <= clicks + lost'
        /\ attempts + owed <= clicks + lost => attempts + due <= clicks + lost'
    BY <1>1, <1>7, <2>2
  <2> QED BY <1>2, <1>5, <2>1, <2>3 DEF Asked
<1> QED BY <1>3, <1>8 DEF AskInv

\* A new launch owes nothing: there is no child, and so no card.
LEMMA LifeAsks ==
    ASSUME Parts, Parts', HubInv, AskInv, teardown \/ relaunch \/ start \/ killed
    PROVE  AskInv'
<1>1. UNCHANGED <<attempts, clicks, lost>> /\ upd'.pc = "off"
  BY ThreadsEndTypes DEF teardown, relaunch, start, killed, Launch, history
<1>2. Started'
  BY <1>1 DEF Started
<1>3. upd' \in Upds /\ card' \in Cards /\ clicks \in Nat /\ lost \in Nat
  BY AskNumbers DEF Parts, UpdTypes, CardTypes, Upds, Cards
<1>4. CASE teardown \/ killed
  <2>1. app'.st # "running"
    BY <1>4 DEF teardown, killed, Parts, AppTypes
  <2> QED BY <1>1, <1>2, <1>3, <2>1, NoMoreOwed DEF AskInv
<1>5. CASE relaunch \/ start
  <2>1. sup.pc = "done" /\ card' = card
    BY <1>5 DEF relaunch, start, Launch, cardVars, HubInv, Watching
  <2>2. child = 0
    BY <2>1 DEF HubInv, Watching
  <2>3. card' = NoCard
    BY <2>1, <2>2, Limits DEF HubInv, CardHeld, Alive
  <2>4. OwedBy(upd', card') = 0
    <3>1. card'.force = FALSE /\ card'.applying = FALSE
      BY <2>3 DEF NoCard
    <3> QED BY <1>1, <1>3, <3>1, OwedIs
  <2> QED BY <1>1, <1>2, <1>3, <2>4, NoMoreOwed DEF AskInv
<1> QED BY <1>4, <1>5

LEMMA AsksKeep ==
    ASSUME Parts, Parts', HubInv, AskInv, [Next]_vars
    PROVE  AskInv'
<1>1. CASE UNCHANGED vars
  BY <1>1 DEF vars, AskInv, Started, Asked
<1>2. CASE Next
  BY <1>2, Steps, IdleStepAsks, ClickAsks, UpdaterAsks, ReportAsks, LifeAsks
<1> QED BY <1>1, <1>2

-----------------------------------------------------------------------------
(* The theorems *)

LEMMA InvSplit == Inv <=> Parts /\ HubInv /\ AskInv
BY TypesSplit DEF Inv, Parts, HubInv, AskInv

LEMMA InvSplitNext == Inv' <=> Parts' /\ HubInv' /\ AskInv'
<1>1. TypeOK' <=> AppTypes' /\ HubTypes' /\ CardTypes' /\ UpdTypes' /\ upsets' \in 0 .. MaxUpsets
  BY DEF TypeOK, AppTypes, HubTypes, CardTypes, UpdTypes
<1> QED BY <1>1 DEF Inv, Parts, HubInv, AskInv

LEMMA InitInv ==
    ASSUME Init
    PROVE  Inv
<1>0. /\ 1 \in 1 .. MaxLaunches /\ 1 \in Versions /\ 0 \in 0 .. LIVENESS_STRIKES /\ 0 \in 0 .. MAX_RAPID_RESTARTS + 1
      /\ 0 \in 0 .. MaxHubs /\ 0 \in 0 .. MaxClicks /\ 0 \in 0 .. MaxLost /\ 0 \in 0 .. MaxUpsets /\ 0 \in Nat
      /\ 0 <= MAX_RAPID_RESTARTS /\ 0 < LIVENESS_STRIKES
  BY Limits
<1>1. AppTypes /\ Counted
  <2>1. app = [launch |-> 1, st |-> "running", version |-> 1, fatal |-> FALSE] /\ overlay = FALSE
    BY DEF Init
  <2>2. sup = [pc |-> "spawn", started |-> FALSE, healthy |-> FALSE, misses |-> 0, rapid |-> 0, stop |-> FALSE]
    BY DEF Init, FreshSup
  <2>3. Counted
    BY <1>0, <2>2 DEF Counted
  <2> QED BY <1>0, <2>1, <2>2, <2>3 DEF AppTypes
<1>2. HubTypes /\ \A n \in Hubs : hubs[n] = "none"
  BY <1>0, Limits DEF Init, HubTypes
<1>n. NoCard \in Cards /\ NoCard.force = FALSE /\ NoCard.applying = FALSE
  BY DEF NoCard, Cards
<1>3. CardTypes
  BY <1>0, <1>n DEF Init, CardTypes, Cards
<1>4. upd = [pc |-> "off", ver |-> NoVersion, attended |-> FALSE] /\ upd.pc = "off" /\ upd \in Upds
  BY DEF Init, Idle, Upds
<1>5. UpdTypes /\ Chosen
  BY <1>0, <1>4 DEF Init, UpdTypes, Chosen, Upds
<1>6. Parts
  BY <1>0, <1>1, <1>2, <1>3, <1>5 DEF Init, Parts
<1>7. Alive = {} /\ Serving = {}
  BY <1>2 DEF Alive, Serving
<1>8. HubInv
  <2>1. HoldsLock
    BY <1>7 DEF HoldsLock
  <2>2. NotNamed
    <3>1. \A n \in Hubs : lock # n /\ looked[n] = NoLock /\ n # NoLock
      BY Limits DEF Init
    <3> QED BY <3>1 DEF NotNamed
  <2> QED BY <1>7, <2>1, <2>2 DEF Init, FreshSup, HubInv, Watching, CardHeld, HubsAreOwned
<1>9. AskInv
  <2>1. card \in Cards /\ upd \in Upds /\ card.force = FALSE /\ card.applying = FALSE
    BY <1>4, <1>n DEF Init
  <2>2. OwedBy(upd, card) = 0
    BY <1>4, <2>1, OwedIs
  <2> QED BY <1>4, <2>2 DEF Init, AskInv, Started, Asked
<1> QED BY <1>6, <1>8, <1>9, InvSplit

LEMMA InvHolds == Spec => []Inv
<1>1. Init => Inv
  BY InitInv
<1>2. Inv /\ [Next]_vars => Inv'
  <2>1. ASSUME Inv, [Next]_vars PROVE Inv'
    <3>1. Parts /\ HubInv /\ AskInv
      BY <2>1, InvSplit
    <3>2. Parts'
      BY <2>1, <3>1, TypesKeep DEF HubInv
    <3>3. HubInv' /\ AskInv'
      BY <2>1, <3>1, <3>2, HubsKeep, AsksKeep
    <3> QED BY <3>2, <3>3, InvSplitNext
  <2> QED BY <2>1
<1> QED BY <1>1, <1>2, PTL DEF Spec

\* Every variable keeps its type, the strike and probe counters (AfterExit, probe_missed) included.
THEOREM TypeCorrect == Spec => []TypeOK
<1>1. Inv => TypeOK
  BY DEF Inv
<1> QED BY <1>1, InvHolds, PTL

\* Whatever crashes, hangs, is killed or restarted, at most one hub is past the lock on the data
\* dir (acquire_pid_lock, PidLock's Drop), as long as none overwrites a lock it had not read: then
\* whoever is past it is the one the lock file names.
THEOREM OneServerCorrect == Spec => []OneServer
<1>1. Inv => OneServer
  <2> SUFFICES ASSUME Inv, ~raced PROVE OneServer
    BY DEF OneServer
  <2>1. Serving \subseteq {lock}
    BY DEF Inv, HoldsLock
  <2>2. IsFiniteSet({lock}) /\ Cardinality({lock}) = 1
    BY FS_Singleton
  <2>3. IsFiniteSet(Serving) /\ Cardinality(Serving) <= Cardinality({lock})
    BY <2>1, <2>2, FS_Subset
  <2> QED BY <2>2, <2>3 DEF OneServer
<1> QED BY <1>1, InvHolds, PTL

\* A hub outlives its application only when the application was killed (run_loop, terminate,
\* Supervisor::stop, AppState::teardown).
THEOREM HubsAreOwnedCorrect == Spec => []HubsAreOwned
<1>1. Inv => HubsAreOwned
  BY DEF Inv
<1> QED BY <1>1, InvHolds, PTL

\* An install the updater begins although its check found a client or a running turn was asked for
\* on the card, or follows a failed one whose report was lost (run_cycle_locked, report_update);
\* whoever arrives after the check is not seen by it.
THEOREM AttendedCorrect == Spec => []AttendedInstallsAreAsked
<1>1. Inv => AttendedInstallsAreAsked
  BY DEF Inv, Asked, AttendedInstallsAreAsked
<1> QED BY <1>1, InvHolds, PTL
=============================================================================
