----------------------------- MODULE RemoteLink -----------------------------
(***************************************************************************)
(* The desktop's remote hosts: the profile commands, the connection task   *)
(* each host gets (Docker preflight, provisioning, then the loopback       *)
(* bridge), the relay each browser connection gets, and the connection     *)
(* state they all write to.                                                *)
(*                                                                         *)
(*   desktop/src/remote_commands.rs    ensure, disconnect, acknowledge     *)
(*   desktop/src/state.rs              the session map, stop, teardown     *)
(*   desktop/src/remote_executor.rs    preflight, the pinned container     *)
(*   desktop/src/provisioning/         probe, compatibility, installs      *)
(*   desktop/src/bridge.rs             listener, relays, SSH exits         *)
(*   desktop/src/remote_connection.rs  the state sink                      *)
(***************************************************************************)
EXTENDS RemoteHost

CONSTANTS
    Hosts,           \* profile ids
    Profiles,        \* the profiles the user may save
    Containers,      \* container ids
    Inspect,         \* [Containers -> [mounts : set of mounts]]
    OnPath,          \* what `polytoken --version` may say on the machine
    Targets,         \* the platforms the probe may report
    Fused,           \* may a finished exit future be polled again?
    AllowOverlap,    \* may a host be connected again while an earlier task still runs?
    MaxSessions,     \* connection attempts
    MaxRelays,       \* browser connections
    MaxAttempts,     \* ReconnectPolicy.max_attempts
    MaxUpsets        \* lost commands, bad downloads, taken ports, replaced
                     \* containers and profile edits, together

ASSUME LinkAssumption ==
    /\ Fused \subseteq BOOLEAN /\ Fused # {} /\ AllowOverlap \in BOOLEAN
    /\ MaxSessions \in Nat /\ MaxRelays \in Nat /\ MaxAttempts \in Nat
    /\ {"host", None} \cap Containers = {} /\ None # "host"

Sids == 1 .. MaxSessions
Rids == 1 .. MaxRelays
Machines == {"host"} \cup Containers

VARIABLES
    profiles,   \* [Hosts -> profile or None]: remote-profiles.json
    sessions,   \* [Hosts -> 0..MaxSessions]: AppState.remote, 0 for no entry
    task,       \* [Sids -> the spawned connection task, None before it is spawned]
    state,      \* [Sids -> RemoteConnection.state]
    cancelled,  \* set of session ids whose token is cancelled
    relay,      \* [Rids -> a browser connection's relay task or None]
    up,         \* the running container of the configured name, or None
    disk,       \* [{"host"} \cup Containers -> Disk]
    onPath,     \* the machine's own polytoken
    platform,   \* the machine's platform
    granted,    \* risks the user has acknowledged, ever
    ran,        \* <<host, profile, container>> in which something was installed or run
    upsets      \* how many of the bounded disturbances have happened

machine == <<up, disk, onPath, platform>>
user == <<profiles, granted>>
vars == <<profiles, sessions, task, state, cancelled, relay, up, disk, onPath, platform,
          granted, ran, upsets>>

-----------------------------------------------------------------------------
(***************************************************************************)
(* Values.                                                                 *)
(***************************************************************************)
Preflight == {"access", "locate", "inspect", "identity"}
Remote == Preflight \cup {"probe", "compat", "upload", "record", "check"}
Pcs == Remote \cup {"begin", "cleanup", "fetch", "script", "bind", "listen", "done"}
States == {"disconnected", "testingSsh", "preflight", "awaiting", "connecting",
           "provisioning", "starting", "ready", "reconnecting", "failed"}

(* RemoteProfile::validate, for what the profiles here differ in. *)
validate(p) == /\ p.port # 0
               /\ p.kind = "docker" => p.user # "" /\ p.path # <<>>

NoAcks == [k \in RiskKinds |-> None]

(* What preflight may ask, and the profiles that get stored: a form sends  *)
(* a new one without answers.                                              *)
Risks == UNION {RisksOf(h, p, c, Inspect[c]) : h \in Hosts, p \in Profiles, c \in Containers}
WithAcks(p, acks) == [p EXCEPT !.acks = acks]
Profile == {WithAcks(p, a) : p \in Profiles, a \in [RiskKinds -> Risks \cup {None}]}

ASSUME ProfilesAssumption ==
    \A p \in Profiles :
        /\ p = [kind |-> p.kind, port |-> p.port, user |-> p.user, path |-> p.path,
                absolute |-> p.absolute, policy |-> p.policy, acks |-> NoAcks]
        /\ p.kind \in {"host", "docker"}

(* The connection task: its place, the artifact and the script command it  *)
(* is at, the bytes it fetched, whether the desktop has lost sight of it,  *)
(* the container it is pinned to and the risks it ended with.              *)
Task == [host : Hosts, prof : Profile, pc : Pcs, art : Artifacts, cmd : 1 .. 9,
         got : Bits, orphan : BOOLEAN, target : Containers \cup {None}, pending : SUBSET Risks]
Relay == [sid : Sids, pc : {"spawning", "relaying", "backoff", "gone"},
          attempt : 0 .. MaxAttempts, lost : BOOLEAN]

ASSUME NoneAssumption ==
    None \notin Dir /\ None \notin Risks /\ None \notin Profile /\ None \notin Task /\ None \notin Relay

(* Provisioning works under remote_root(): the override, or "~/..." when   *)
(* there is none.  docker exec is given only absolute paths.               *)
UsableRoot(p) == p.kind = "host" \/ p.absolute

Live(s) == task[s] # None /\ task[s].pc # "done"

(* docker exec names the container by the id pinned at preflight, and      *)
(* fails when that container no longer runs.                               *)
DockerExec(t) == IF t.target = up THEN up ELSE None

(* Where a command of the task runs. *)
(* Seeded bug: docker exec is given the container's name. *)
exec_by_name(t) == IF t.prof.kind = "host" THEN "host" ELSE up

ExecIn(t) == IF t.prof.kind = "host" THEN "host" ELSE DockerExec(t)

Ran(t) == ran' = ran \cup (IF ExecIn(t) \in Containers
                           THEN {<<t.host, t.prof, ExecIn(t)>>} ELSE {})

(* RemoteConnection::on_state: whatever the state was. *)
OnState(s, st) == state' = [state EXCEPT ![s] = st]

Goto(s, pc) == task' = [task EXCEPT ![s].pc = pc]
Fail(s) == OnState(s, "failed") /\ Goto(s, "done")

-----------------------------------------------------------------------------
(***************************************************************************)
(* Commands.  They run one at a time on the main thread.                   *)
(***************************************************************************)
add_remote_profile(h, p) ==
    /\ profiles[h] = None /\ validate(p)
    /\ profiles' = [profiles EXCEPT ![h] = p]
    /\ UNCHANGED <<sessions, task, state, cancelled, relay, machine, granted, ran, upsets>>

(* The form sends back the answers it was opened with. *)
update_remote_profile(h, p) ==
    /\ profiles[h] # None /\ validate(p) /\ upsets < MaxUpsets
    /\ \E acks \in {NoAcks, profiles[h].acks} :
          profiles' = [profiles EXCEPT ![h] = WithAcks(p, acks)]
    /\ upsets' = upsets + 1
    /\ UNCHANGED <<sessions, task, state, cancelled, relay, machine, granted, ran>>

(* Seeded bug: the session leaves the map with its bridge running. *)
stop_without_cancel(h) ==
    /\ sessions' = [sessions EXCEPT ![h] = 0]
    /\ state' = IF sessions[h] = 0 THEN state ELSE [state EXCEPT ![sessions[h]] = "disconnected"]
    /\ UNCHANGED cancelled

(* stop_remote: out of the map, state reset, token cancelled.  The wait is *)
(* bounded and nothing is aborted, so the task may go on after it.         *)
stop_remote(h) ==
    /\ sessions' = [sessions EXCEPT ![h] = 0]
    /\ state' = IF sessions[h] = 0 THEN state ELSE [state EXCEPT ![sessions[h]] = "disconnected"]
    /\ cancelled' = IF sessions[h] = 0 THEN cancelled ELSE cancelled \cup {sessions[h]}

delete_remote_profile(h) ==
    /\ profiles[h] # None /\ upsets < MaxUpsets
    /\ stop_remote(h)
    /\ profiles' = [profiles EXCEPT ![h] = None]
    /\ upsets' = upsets + 1
    /\ UNCHANGED <<task, relay, machine, granted, ran>>

disconnect_host(h) ==
    /\ sessions[h] # 0
    /\ stop_remote(h)
    /\ UNCHANGED <<task, relay, machine, user, ran, upsets>>

(* An existing session is returned as it is, failed or not. *)
ensure_remote_host(h) ==
    /\ profiles[h] # None /\ sessions[h] = 0
    /\ AllowOverlap \/ \A s \in Sids : ~Live(s)
    /\ \E s \in Sids :
        /\ task[s] = None /\ \A x \in 1 .. s - 1 : task[x] # None
        /\ task' = [task EXCEPT ![s] =
              [host |-> h, prof |-> profiles[h], pc |-> "begin", art |-> "polytoken", cmd |-> 1,
               got |-> "none", orphan |-> FALSE, target |-> None, pending |-> {}]]
        /\ sessions' = [sessions EXCEPT ![h] = s]
        /\ OnState(s, "testingSsh")
    /\ UNCHANGED <<cancelled, relay, machine, user, ran, upsets>>

(* The risk must be one the current attempt is waiting on; the answer is   *)
(* stored in the profile as it is now, and the attempt ends.               *)
acknowledge_risk(h, r) ==
    LET s == sessions[h] IN
    /\ s # 0 /\ state[s] = "awaiting" /\ r \in task[s].pending
    /\ profiles' = [profiles EXCEPT ![h].acks[r[1]] = r]
    /\ granted' = granted \cup {r}
    /\ stop_remote(h)
    /\ UNCHANGED <<task, relay, machine, ran, upsets>>

(* teardown: every session is stopped and the runtime dropped, which ends  *)
(* the tasks; a script already running on the machine goes on.             *)
teardown ==
    /\ \E h \in Hosts : sessions[h] # 0
    /\ sessions' = [h \in Hosts |-> 0]
    /\ cancelled' = cancelled \cup {s \in Sids : task[s] # None}
    /\ task' = [s \in Sids |->
          IF ~Live(s) THEN task[s]
          ELSE IF task[s].pc = "script" THEN [task[s] EXCEPT !.orphan = TRUE]
          ELSE [task[s] EXCEPT !.pc = "done"]]
    /\ relay' = [r \in Rids |-> IF relay[r] = None THEN None ELSE [relay[r] EXCEPT !.pc = "gone"]]
    /\ UNCHANGED <<state, machine, user, ran, upsets>>

Commands ==
    \/ \E h \in Hosts, p \in Profiles : add_remote_profile(h, p) \/ update_remote_profile(h, p)
    \/ \E h \in Hosts : \/ delete_remote_profile(h)
                        \/ disconnect_host(h)
                        \/ ensure_remote_host(h)
                        \/ \E r \in UNION {task[s].pending : s \in {x \in Sids : task[x] # None}} :
                              acknowledge_risk(h, r)
    \/ teardown

-----------------------------------------------------------------------------
(***************************************************************************)
(* The connection task.  Between two of its steps it awaits the machine;   *)
(* it never looks at the cancellation token before it listens.             *)
(***************************************************************************)
At(s, pc) == task[s] # None /\ task[s].pc = pc
quiet == <<sessions, cancelled, relay, machine, user>>

begin(s) ==
    /\ At(s, "begin")
    /\ IF task[s].prof.kind = "docker"
       THEN OnState(s, "preflight") /\ Goto(s, "access")
       ELSE OnState(s, "provisioning") /\ Goto(s, "probe")
    /\ UNCHANGED <<quiet, ran, upsets>>

(* docker version; docker container ls, by exact name, running; inspect of *)
(* the id found, which may have stopped or been replaced since.            *)
preflight_docker(s) ==
    /\ \/ At(s, "access") /\ Goto(s, "locate")
       \/ At(s, "locate") /\ up # None
          /\ task' = [task EXCEPT ![s].pc = "inspect", ![s].target = up]
       \/ At(s, "inspect") /\ task[s].target = up /\ Goto(s, "identity")
    /\ OnState(s, "preflight")
    /\ UNCHANGED <<quiet, ran, upsets>>

pending_risks(h, p, cid, i) == PendingRisks(h, p, cid, i)

(* The identity probe ran in the container; the rest is decided here. *)
preflight_outcome(s) ==
    LET t == task[s]
        i == Inspect[t.target] IN
    /\ At(s, "identity") /\ ExecIn(t) # None
    /\ LET risks == pending_risks(t.host, t.prof, t.target, i) IN
       CASE persistence_facts(t.prof.path, i.mounts).class = "readOnly" -> Fail(s)
         [] persistence_facts(t.prof.path, i.mounts).class # "readOnly" /\ risks # {} ->
              /\ OnState(s, "awaiting")
              /\ task' = [task EXCEPT ![s].pc = "done", ![s].pending = risks]
         [] OTHER -> OnState(s, "provisioning") /\ Goto(s, "probe")
    /\ UNCHANGED <<quiet, ran, upsets>>

(* A remote command fails when its container is gone, and may fail anyway. *)
command_fails(s) ==
    /\ task[s] # None /\ task[s].pc \in Remote
    /\ LET t == task[s]
           gone == CASE t.pc \in {"access"}  -> FALSE
                     [] t.pc = "locate"      -> up = None
                     [] t.pc = "inspect"     -> t.target # up
                     [] OTHER                -> ExecIn(t) = None
       IN IF gone THEN upsets' = upsets ELSE upsets < MaxUpsets /\ upsets' = upsets + 1
    /\ Fail(s)
    /\ UNCHANGED <<quiet, ran>>

probe_remote(s) ==
    /\ At(s, "probe") /\ ExecIn(task[s]) # None
    /\ IF platform \in {"linux-x86_64-glibc", "darwin-arm64"}
       THEN Goto(s, "compat") /\ UNCHANGED state
       ELSE Fail(s)
    /\ UNCHANGED <<quiet, ran, upsets>>

(* The version on PATH decides; a polytoken installed here before is not   *)
(* on it.                                                                  *)
check_compatibility(s) ==
    /\ At(s, "compat") /\ ExecIn(task[s]) # None
    /\ CASE onPath = "compatible" -> Goto(s, "check") /\ UNCHANGED state
         [] onPath \in {"missing", "old"} ->
              IF task[s].prof.policy = "requireExisting" THEN Fail(s)
              ELSE Goto(s, "cleanup") /\ UNCHANGED state
         [] OTHER -> Fail(s)   \* not a version
    /\ UNCHANGED <<quiet, ran, upsets>>

(* Its result is not looked at: the install goes on when it failed. *)
cleanup_staging(s) ==
    LET t == task[s] IN
    /\ At(s, "cleanup")
    /\ \/ /\ ExecIn(t) # None
          /\ disk' = [disk EXCEPT ![ExecIn(t)] = build_cleanup_staging_command(@, "polytoken")]
          /\ UNCHANGED upsets
       \/ /\ IF ExecIn(t) = None THEN upsets' = upsets ELSE upsets < MaxUpsets /\ upsets' = upsets + 1
          /\ UNCHANGED disk
    /\ Goto(s, "fetch")
    /\ UNCHANGED <<state, sessions, cancelled, relay, up, onPath, platform, user, ran>>

(* Download and verify, on the desktop. *)
fetch(s) ==
    /\ At(s, "fetch")
    /\ \/ task' = [task EXCEPT ![s].pc = "upload", ![s].got = "whole"] /\ UNCHANGED <<state, upsets>>
       \/ /\ upsets < MaxUpsets /\ upsets' = upsets + 1
          /\ \/ Fail(s)
             \/ IF verify_checksum("corrupt")
                THEN task' = [task EXCEPT ![s].pc = "upload", ![s].got = "corrupt"] /\ UNCHANGED state
                ELSE Fail(s)
    /\ UNCHANGED <<quiet, ran>>

(* cat > archive: a lost connection leaves it cut short.  In a container   *)
(* the destination must be absolute.                                       *)
upload(s) ==
    LET t == task[s] IN
    /\ At(s, "upload") /\ ExecIn(t) # None
    /\ \/ ~UsableRoot(t.prof) /\ Fail(s) /\ UNCHANGED <<disk, ran, upsets>>
       \/ /\ UsableRoot(t.prof)
          /\ \/ /\ disk' = [disk EXCEPT ![ExecIn(t)].cache[t.art] = t.got]
                /\ task' = [task EXCEPT ![s].pc = "script", ![s].cmd = 1]
                /\ UNCHANGED <<state, upsets>>
             \/ /\ upsets < MaxUpsets /\ upsets' = upsets + 1
                /\ disk' = [disk EXCEPT ![ExecIn(t)].cache[t.art] = "partial"]
                /\ Fail(s)
          /\ Ran(t)
    /\ UNCHANGED <<sessions, cancelled, relay, up, onPath, platform, user>>

(* One command of the install script. *)
run_script(s) ==
    LET t == task[s]
        c == build_install_command(t.art)[t.cmd]
        last == t.cmd = Len(build_install_command(t.art)) IN
    /\ At(s, "script") /\ ExecIn(t) # None
    /\ IF Succeeds(disk[ExecIn(t)], t.art, c)
       THEN /\ disk' = [disk EXCEPT ![ExecIn(t)] = After(@, t.art, c)]
            /\ task' = [task EXCEPT ![s].cmd = IF last THEN 1 ELSE @ + 1,
                                    ![s].pc = CASE last /\ t.orphan -> "done"
                                                [] last /\ ~t.orphan -> "record"
                                                [] OTHER -> @]
            /\ UNCHANGED state
       ELSE IF t.orphan THEN Goto(s, "done") /\ UNCHANGED <<disk, state>>
       ELSE Fail(s) /\ UNCHANGED disk
    /\ Ran(t)
    /\ UNCHANGED <<sessions, cancelled, relay, up, onPath, platform, user, upsets>>

(* The connection is lost: the desktop gives up, the script may go on. *)
script_lost(s) ==
    /\ At(s, "script") /\ ~task[s].orphan
    /\ IF ExecIn(task[s]) = None THEN upsets' = upsets ELSE upsets < MaxUpsets /\ upsets' = upsets + 1
    /\ OnState(s, "failed")
    /\ task' = [task EXCEPT ![s].orphan = TRUE]
    /\ UNCHANGED <<quiet, ran>>

script_dies(s) ==
    /\ At(s, "script") /\ task[s].orphan
    /\ Goto(s, "done")
    /\ UNCHANGED <<quiet, state, ran, upsets>>

(* install.json, after which the server's turn comes, or the bridge's. *)
record_provenance(s) ==
    /\ At(s, "record") /\ ExecIn(task[s]) # None
    /\ IF task[s].art = "polytoken" THEN Goto(s, "check") /\ UNCHANGED state
       ELSE Goto(s, "bind") /\ OnState(s, "starting")
    /\ UNCHANGED <<quiet, ran, upsets>>

ensure_server_installed(s) ==
    LET t == task[s] IN
    /\ At(s, "check") /\ ExecIn(t) # None
    /\ IF check_server_installed(disk[ExecIn(t)])
       THEN Goto(s, "bind") /\ OnState(s, "starting")
       ELSE task' = [task EXCEPT ![s].pc = "fetch", ![s].art = "server"] /\ UNCHANGED state
    /\ UNCHANGED <<quiet, ran, upsets>>

(* A port taken meanwhile is printed and the task ends. *)
bridge_bind(s) ==
    /\ At(s, "bind")
    /\ \/ Goto(s, "listen") /\ UNCHANGED upsets
       \/ upsets < MaxUpsets /\ upsets' = upsets + 1 /\ Goto(s, "done")
    /\ UNCHANGED <<quiet, state, ran>>

bridge_cancelled(s) ==
    /\ At(s, "listen") /\ s \in cancelled
    /\ Goto(s, "done")
    /\ UNCHANGED <<quiet, state, ran, upsets>>

TaskStep(s) ==
    \/ begin(s) \/ preflight_docker(s) \/ preflight_outcome(s) \/ command_fails(s)
    \/ probe_remote(s) \/ check_compatibility(s) \/ cleanup_staging(s)
    \/ fetch(s) \/ upload(s) \/ run_script(s) \/ script_lost(s) \/ script_dies(s)
    \/ record_provenance(s) \/ ensure_server_installed(s)
    \/ bridge_bind(s) \/ bridge_cancelled(s)

-----------------------------------------------------------------------------
(***************************************************************************)
(* The bridge: one relay for each browser connection, all writing to the   *)
(* session's one state.                                                    *)
(***************************************************************************)
RelayAt(r, pc) == relay[r] # None /\ relay[r].pc = pc
GotoR(r, pc) == relay' = [relay EXCEPT ![r].pc = pc]
still == <<sessions, task, cancelled, machine, user>>

(* A browser connects: the upgraded connection reports Connecting and, with *)
(* no await between, Starting.                                             *)
accept(s) ==
    /\ At(s, "listen") /\ s \notin cancelled
    /\ \E r \in Rids :
        /\ relay[r] = None /\ \A x \in 1 .. r - 1 : relay[x] # None
        /\ relay' = [relay EXCEPT ![r] = [sid |-> s, pc |-> "spawning", attempt |-> 0, lost |-> FALSE]]
    /\ OnState(s, "starting")
    /\ UNCHANGED <<still, ran, upsets>>

(* Ready is reported once ssh is spawned, before anything has answered. *)
spawn_proxy(r) ==
    LET t == task[relay[r].sid] IN
    /\ RelayAt(r, "spawning")
    /\ IF UsableRoot(t.prof)
       THEN GotoR(r, "relaying") /\ OnState(relay[r].sid, "ready") /\ Ran(t) /\ UNCHANGED upsets
       ELSE GotoR(r, "gone") /\ OnState(relay[r].sid, "failed") /\ UNCHANGED <<ran, upsets>>
    /\ UNCHANGED still

spawn_fails(r) ==
    /\ RelayAt(r, "spawning") /\ upsets < MaxUpsets /\ upsets' = upsets + 1
    /\ GotoR(r, "gone") /\ OnState(relay[r].sid, "failed")
    /\ UNCHANGED <<still, ran>>

relay_cancelled(r) ==
    /\ relay[r] # None /\ relay[r].pc \in {"relaying", "backoff"}
    /\ relay[r].sid \in cancelled
    /\ GotoR(r, "gone")
    /\ UNCHANGED <<still, state, ran, upsets>>

(* The browser went away, or ssh closed its output first: no state is      *)
(* reported.                                                               *)
stream_ends(r) ==
    /\ relay[r] # None /\ relay[r].pc \in {"relaying", "backoff"}
    /\ GotoR(r, "gone")
    /\ UNCHANGED <<still, state, ran, upsets>>

(* How ssh can end: its exit code and what its stderr says. *)
ExitInfos == {[code |-> 0, says |-> ""], [code |-> 1, says |-> ""], [code |-> 255, says |-> ""]}
             \cup [code : {255}, says : {"permission denied", "host key", "connection refused", "refused"}]

classify_exit(i) ==
    CASE i.code = 0   -> "CleanExit"
      [] i.code = 255 -> CASE i.says = "permission denied"        -> "SshAuthFailed"
                           [] i.says \in {"host key", "refused"} -> "HostKeyUnknown"
                           [] i.says = "connection refused"       -> "SshUnreachable"
                           [] OTHER                               -> "UnknownError"
      [] OTHER        -> "UnknownError"
is_retryable(x) == x \in {"SshUnreachable", "UnknownError"}
to_failure_state(x) == x # "CleanExit"

is_exhausted(attempt) == attempt >= MaxAttempts

(* ssh's exit is seen first.  The exit future has completed, and awaiting  *)
(* it again is where the task ends unless the transport's future can be    *)
(* polled again (Fused); only then is the exit classified.                 *)
Lose(r, x) == relay' = [relay EXCEPT ![r].pc = "gone", ![r].lost = x # "CleanExit"]

ssh_exit(r) ==
    LET s == relay[r].sid IN
    /\ RelayAt(r, "relaying") /\ s \notin cancelled
    /\ \E fused \in Fused, x \in {classify_exit(i) : i \in ExitInfos} :
        CASE ~fused -> Lose(r, x) /\ UNCHANGED state
          [] fused /\ ~is_retryable(x) ->
               /\ Lose(r, x)
               /\ IF to_failure_state(x) THEN OnState(s, "failed") ELSE UNCHANGED state
          [] fused /\ is_retryable(x) /\ is_exhausted(relay[r].attempt) ->
               Lose(r, x) /\ OnState(s, "failed")
          [] OTHER ->
               /\ relay' = [relay EXCEPT ![r].pc = "backoff", ![r].attempt = @ + 1]
               /\ OnState(s, "reconnecting")
    /\ UNCHANGED <<still, ran, upsets>>

backoff_over(r) ==
    /\ RelayAt(r, "backoff")
    /\ GotoR(r, "spawning") /\ OnState(relay[r].sid, "starting")
    /\ UNCHANGED <<still, ran, upsets>>

RelayStep(r) == \/ spawn_proxy(r) \/ spawn_fails(r) \/ relay_cancelled(r) \/ backoff_over(r)
RelayEnv(r) == stream_ends(r) \/ ssh_exit(r)

(* Someone replaces the container of that name: another id with its own    *)
(* disk.                                                                   *)
replace_container(c) ==
    /\ upsets < MaxUpsets /\ c # up
    /\ up' = c /\ upsets' = upsets + 1
    /\ UNCHANGED <<profiles, sessions, task, state, cancelled, relay, disk, onPath, platform,
                   granted, ran>>

Init ==
    /\ profiles = [h \in Hosts |-> None] /\ sessions = [h \in Hosts |-> 0]
    /\ task = [s \in Sids |-> None] /\ state = [s \in Sids |-> "disconnected"]
    /\ cancelled = {} /\ relay = [r \in Rids |-> None]
    /\ up \in Containers
    /\ disk = [m \in Machines |-> EmptyDisk]
    /\ onPath \in OnPath /\ platform \in Targets
    /\ granted = {} /\ ran = {} /\ upsets = 0

Next == \/ Commands
        \/ \E s \in Sids : TaskStep(s) \/ accept(s)
        \/ \E r \in Rids : RelayStep(r) \/ RelayEnv(r)
        \/ \E c \in Containers \cup {None} : replace_container(c)

Spec == Init /\ [][Next]_vars

(* Remote commands end, and the runtime polls what is ready.  Nothing is   *)
(* assumed of the user, the browser, or the SSH link.                      *)
LinkFairness ==
    /\ \A s \in Sids : WF_vars(TaskStep(s))
    /\ \A r \in Rids : WF_vars(RelayStep(r))

FairSpec == Spec /\ LinkFairness

-----------------------------------------------------------------------------
(***************************************************************************)
(* Properties.                                                             *)
(***************************************************************************)
(* A task's command is one of its script. *)
InScript(t) == t.cmd \in 1 .. Len(build_install_command(t.art))

(* Every variable has the shape the code gives it. *)
TypeOK ==
    /\ profiles \in [Hosts -> Profile \cup {None}]
    /\ sessions \in [Hosts -> 0 .. MaxSessions]
    /\ task \in [Sids -> Task \cup {None}]
    /\ \A s \in Sids : task[s] # None => InScript(task[s])
    /\ state \in [Sids -> States]
    /\ cancelled \subseteq Sids
    /\ relay \in [Rids -> Relay \cup {None}]
    /\ up \in Containers \cup {None}
    /\ disk \in [Machines -> Disk]
    /\ granted \subseteq Risks
    /\ ran \subseteq Hosts \X Profile \X Containers

(* Nothing is installed or run in a container until the user has           *)
(* acknowledged every risk of running that profile in that very container: *)
(* not when the container of that name is replaced between preflight and   *)
(* use, and not on the strength of an answer given for another container   *)
(* (preflight_docker's pinned id and fingerprints).                        *)
RunsOnlyWhereAcknowledged ==
    \A x \in ran : RisksOf(x[1], x[2], x[3], Inspect[x[3]]) \subseteq granted

(* An executable server binary at the path check_server_installed tests is *)
(* the published one, whole, whatever was lost or cut short before it got  *)
(* there: a later connection trusts it without looking again.              *)
InstalledServerIsWhole ==
    \A m \in DOMAIN disk :
        check_server_installed(disk[m]) => disk[m].final["server"].bin = "whole"

(* A host that was disconnected or deleted goes quiet: its task ends and   *)
(* every relay, with its ssh, is gone, unless it is connected again first  *)
(* (RemoteSession::stop, the child tokens of Bridge::run).                 *)
QuietAfterStop ==
    \A h \in Hosts :
        sessions[h] = 0 ~>
            \/ sessions[h] # 0
            \/ /\ \A s \in Sids : Live(s) => task[s].host # h
               /\ \A r \in Rids : relay[r] # None /\ task[relay[r].sid].host = h => relay[r].pc = "gone"

(* A browser connection that ended because ssh failed has left a mark on   *)
(* the host's state: it is not shown as ready with no ssh behind it        *)
(* (bridge.rs: "classifies the exit ... and either retries ... or surfaces *)
(* an actionable failure to the state machine").                           *)
ExitIsSurfaced ==
    \A r \in Rids :
        (/\ relay[r] # None /\ relay[r].lost
         /\ \A q \in Rids : relay[q] # None /\ relay[q].sid = relay[r].sid => relay[q].pc = "gone")
        => state[relay[r].sid] # "ready"
=============================================================================
