---------------------------- MODULE DaemonSession ----------------------------
(***************************************************************************)
(* One polytoken session, the daemon processes that serve it and the       *)
(* driver that starts, attaches to, leaves and stops them.                 *)
(*                                                                         *)
(*   server polytoken/daemon_client.rs    spawning, /health, the           *)
(*                                        attachment lease, close, kill    *)
(*   server polytoken/driver.rs           new_session, open_session,       *)
(*                                        reload_session, detach_session,  *)
(*                                        dispose_warm, set_archived,      *)
(*                                        cleanup_worktree, reap_worktree  *)
(*   server polytoken/process_identity.rs verify                           *)
(*                                                                         *)
(* The hub runs the driver's operations one at a time (HubOps), so one     *)
(* operation is in progress, in steps that end where the code awaits.      *)
(* The daemons, the operating system's process table, a terminal that      *)
(* attaches to the same session and an agent that edits the worktree move  *)
(* between any two steps.  A process is named by its birth number, which   *)
(* is also its start time, its port and the credential it was born with.   *)
(***************************************************************************)
EXTENDS Worktrees, Naturals, FiniteSets

CONSTANTS
    None,
    Pids,           \* process ids the system hands out, again and again
    MaxBirths,      \* processes started
    MaxFaults,      \* crashes, hangs, failed commands, lost calls
    MaxTreeFaults   \* the same when the session has a worktree

ASSUME DaemonAssumption ==
    /\ MaxBirths \in Nat /\ MaxFaults \in Nat /\ MaxTreeFaults \in 0..MaxFaults
    /\ IsFiniteSet(Pids) /\ None \notin Nat /\ None \notin Pids

Births == 1..MaxBirths
Tokens == 0..(MaxBirths + 1)

VARIABLES
    proc,      \* the process table: None or a process
    births,    \* processes started so far
    startup,   \* startup.json: None, or what a daemon wrote
    cred,      \* the token in credential.json, 0 for none
    cwd,       \* where the session runs: "none" before it exists, "dir" or "tree"
    tree,      \* its worktree
    warm,      \* the attached client, or None
    op,        \* the operation in progress, or None
    faults,
    strays,    \* ghost: daemons left running that startup.json or the credential no longer reach
    struck,    \* ghost: wrong processes that kill() signalled: was the start time truly read?
    lost       \* ghost: uncommitted changes deleted without force: by which vcs, and were there
               \* none when it looked?

vars == <<proc, births, startup, cred, cwd, tree, warm, op, faults, strays, struck, lost>>

-----------------------------------------------------------------------------
(***************************************************************************)
(* Processes.  A child whose handle is held stays in the table as a zombie *)
(* until it is waited for, so its pid is not handed out again.             *)
(***************************************************************************)
Processes ==
    [born : Births, is : {"daemon", "other"}, token : Tokens,
     phase : {"starting", "ready", "hung", "failed", "zombie"},
     drain : BOOLEAN, holder : {"none", "pantoken", "tui"}]

Daemon(b, phase, token) ==
    [born |-> b, is |-> "daemon", token |-> token, phase |-> phase, drain |-> FALSE, holder |-> "none"]

\* DaemonClient: the port and token it calls with, the pid and start time health() stored, the
\* lease it believes it holds and its heartbeat task, the Child handle.
Client(port, token, child) ==
    [port |-> port, token |-> token, pid |-> None, start |-> None, lease |-> FALSE,
     beat |-> FALSE, child |-> child]

ClientTypes ==
    [port : Births, token : Tokens, pid : Pids \cup {None}, start : Births \cup {None},
     lease : BOOLEAN, beat : BOOLEAN, child : Pids \cup {None}]

Startups == [state : {"ready", "failed"}, pid : Pids, port : Births]

\* What an operation does next, the answer or the end of a command it waits for in vain, and of
\* a removal: whether it is forced and whether the tree had no changes when it looked.
Operations ==
    [name : {"new", "new_tree", "open", "reload", "dispose", "detach", "reap"},
     at : {"create", "add", "spawn", "failed", "cold", "resume", "startup", "stderr", "reap", "output",
           "probe", "health", "capture", "claim", "install", "child", "close", "kill", "detach",
           "look", "remove", "mark"},
     wait : {"no", "answer", "command"},
     client : ClientTypes \cup {None}, force : BOOLEAN, seen : BOOLEAN]

LostTypes == [vcs : Vcs, clean : BOOLEAN]

ASSUME NoneAssumption ==
    /\ None \notin Processes /\ None \notin ClientTypes
    /\ None \notin Startups /\ None \notin Operations

Runs(p) == proc[p] # None /\ proc[p].phase # "zombie"
Serves(p, b) == Runs(p) /\ proc[p].is = "daemon" /\ proc[p].born = b
Alive(b) == \E p \in Pids : Serves(p, b)
Daemons == {p \in Pids : Runs(p) /\ proc[p].is = "daemon"}

\* Is the pid's process the child whose handle somebody holds?
Held(p) == (warm # None /\ warm.child = p) \/ (op # None /\ op.client # None /\ op.client.child = p)

Exited(p) == IF Held(p) THEN [proc[p] EXCEPT !.phase = "zombie"] ELSE None

\* The table once a client's Child handle is dropped.
Unheld(c) == IF c.child # None /\ ~Runs(c.child) THEN [proc EXCEPT ![c.child] = None] ELSE proc

Fault ==
    /\ faults < IF tree.entry = "none" THEN MaxFaults ELSE MaxTreeFaults
    /\ faults' = faults + 1

\* A command that does not run: the system has no process left to give, or it fails.
CannotSpawn ==
    IF births = MaxBirths \/ \A p \in Pids : proc[p] # None THEN UNCHANGED faults ELSE Fault

\* What an HTTP call of a client gets: the daemon's answer, or no answer at all.
Answers(c, p) == Serves(p, c.port) /\ proc[p].phase = "ready" /\ proc[p].token = c.token
Unanswered(c) ==
    \/ (\A p \in Pids : ~Answers(c, p)) /\ UNCHANGED faults
    \/ Fault

\* The ghost count of daemons left behind need not exceed the number there can be.
More == IF strays < MaxBirths THEN strays + 1 ELSE strays

Op(name, at, client) ==
    [name |-> name, at |-> at, wait |-> "no", client |-> client, force |-> FALSE, seen |-> FALSE]
Goto(at) == op' = [op EXCEPT !.at = at]
At(at) == op # None /\ op.at = at /\ op.wait = "no"
Begin == op = None

Files == <<startup, cred>>
Trees == <<cwd, tree, lost>>
Table == <<proc, births>>
Ghosts == <<strays, struck>>

-----------------------------------------------------------------------------
(***************************************************************************)
(* The rest of the world.                                                  *)
(***************************************************************************)
\* A resume daemon binds its port and writes startup.json, or says that it cannot.
DaemonStarts(p) ==
    /\ Runs(p) /\ proc[p].phase = "starting"
    /\ \E phase \in {"ready", "failed"} :
         /\ proc' = [proc EXCEPT ![p].phase = phase]
         /\ startup' = [state |-> phase, pid |-> p, port |-> proc[p].born]
         /\ IF phase = "failed" THEN Fault ELSE UNCHANGED faults
    /\ UNCHANGED <<births, cred, warm, op, Trees, Ghosts>>

DaemonHangs(p) ==
    /\ Runs(p) /\ proc[p].phase \in {"starting", "ready"}
    /\ Fault
    /\ proc' = [proc EXCEPT ![p].phase = "hung"]
    /\ UNCHANGED <<births, warm, op, Files, Trees, Ghosts>>

\* A daemon that was told to stop, or that failed to start, exits in its own time; any process
\* may end at any time.
Exits(p) ==
    /\ Runs(p)
    /\ IF proc[p].is = "other" \/ proc[p].phase = "failed" \/ (proc[p].drain /\ proc[p].phase # "hung")
       THEN UNCHANGED faults
       ELSE Fault
    /\ proc' = [proc EXCEPT ![p] = Exited(p)]
    /\ UNCHANGED <<births, warm, op, Files, Trees, Ghosts>>

\* The system gives a free pid to a process that has nothing to do with the session.
Stranger(p) ==
    /\ proc[p] = None /\ births < MaxBirths
    /\ births' = births + 1
    /\ proc' = [proc EXCEPT ![p] = [Daemon(births', "ready", 0) EXCEPT !.is = "other"]]
    /\ UNCHANGED <<warm, op, faults, Files, Trees, Ghosts>>

\* A terminal takes the lease or gives it up.
TuiAttaches(p) ==
    /\ Runs(p) /\ proc[p].is = "daemon" /\ proc[p].phase = "ready" /\ proc[p].holder = "none"
    /\ Fault
    /\ proc' = [proc EXCEPT ![p].holder = "tui"]
    /\ UNCHANGED <<births, warm, op, Files, Trees, Ghosts>>

TuiDetaches(p) ==
    /\ Runs(p) /\ proc[p].holder = "tui"
    /\ proc' = [proc EXCEPT ![p].holder = "none"]
    /\ UNCHANGED <<births, warm, op, faults, Files, Trees, Ghosts>>

\* A lease nobody renews lapses; one whose heartbeats are lost lapses too.
LeaseLapses(p) ==
    /\ Runs(p) /\ proc[p].holder = "pantoken"
    /\ IF warm # None /\ warm.beat /\ Serves(p, warm.port) THEN Fault ELSE UNCHANGED faults
    /\ proc' = [proc EXCEPT ![p].holder = "none"]
    /\ UNCHANGED <<births, warm, op, Files, Trees, Ghosts>>

\* The heartbeat is told 404 or 409 and its task ends; the client's lease stays set.
HeartbeatEnds ==
    /\ warm # None /\ warm.beat
    /\ \E p \in Pids : Answers(warm, p) /\ proc[p].holder # "pantoken"
    /\ warm' = [warm EXCEPT !.beat = FALSE]
    /\ UNCHANGED <<op, faults, Table, Files, Trees, Ghosts>>

\* The agent edits its worktree, or its work is committed.
AgentEdits ==
    /\ cwd = "tree" /\ tree.dir /\ Daemons # {}
    /\ tree' = [tree EXCEPT !.dirty = ~@]
    /\ UNCHANGED <<cwd, lost, warm, op, faults, Table, Files, Ghosts>>

\* Is there a child of a start that runs and that startup.json does not name?
Unnamed ==
    /\ op # None /\ op.at \in {"startup", "stderr", "reap", "health"} /\ op.client.child # None
    /\ Runs(op.client.child) /\ proc[op.client.child].born # startup.port

\* The server is killed and started again: its memory is gone, its children run on.
ServerCrashes ==
    /\ Fault
    /\ warm' = None /\ op' = None
    /\ proc' = [p \in Pids |-> IF Runs(p) THEN proc[p] ELSE None]
    /\ strays' = IF Unnamed THEN More ELSE strays
    /\ UNCHANGED <<births, struck, Files, Trees>>

\* safe_fetch limits the time to the headers of an answer, not to its body: a daemon that hangs
\* in between keeps the operation.  (A spawned daemon's /health, and close(), are under limits
\* of their own.)
Stalls(p) ==
    /\ \E at \in {"probe", "claim", "install", "detach"} : At(at)
    /\ Answers(op.client, p) /\ Fault
    /\ proc' = [proc EXCEPT ![p].phase = "hung"]
    /\ op' = [op EXCEPT !.wait = "answer"]
    /\ UNCHANGED <<births, warm, Files, Trees, Ghosts>>

\* Nothing limits a command of polytoken, git or jj, nor a pipe that somebody keeps open.
Hangs ==
    /\ \/ \E at \in {"create", "spawn", "stderr", "output", "look", "remove"} : At(at)
       \/ At("failed") /\ op.name = "new_tree"
    /\ Fault
    /\ op' = [op EXCEPT !.wait = "command"]
    /\ UNCHANGED <<warm, Table, Files, Trees, Ghosts>>

-----------------------------------------------------------------------------
(***************************************************************************)
(* new_session                                                             *)
(***************************************************************************)
new_session ==
    /\ Begin /\ cwd = "none"
    /\ op' = Op("new", "spawn", None) \/ op' = Op("new_tree", "create", None)
    /\ UNCHANGED <<warm, faults, Table, Files, Trees, Ghosts>>

\* A worktree that cannot be made is the end of the new session.
create_worktree ==
    /\ At("create")
    /\ \/ (\E vcs \in Vcs : tree' = create(tree, vcs)) /\ Goto("add") /\ UNCHANGED faults
       \/ op' = None /\ Fault /\ UNCHANGED tree
    /\ UNCHANGED <<cwd, lost, warm, Table, Files, Ghosts>>

add_worktree ==
    /\ At("add")
    /\ tree' = add(tree) /\ Goto("spawn")
    /\ UNCHANGED <<cwd, lost, warm, faults, Table, Files, Ghosts>>

\* `polytoken new --no-attach`: the daemon it leaves behind is nobody's child.  Output that
\* cannot be read is an error though the daemon runs; output that the daemon itself keeps open
\* never ends.
spawn_new_daemon ==
    /\ At("spawn")
    /\ \/ /\ births < MaxBirths
          /\ \E p \in Pids :
               /\ proc[p] = None
               /\ births' = births + 1
               /\ proc' = [proc EXCEPT ![p] = Daemon(births', "ready", births')]
               /\ startup' = [state |-> "ready", pid |-> p, port |-> births']
          /\ cred' = births'
          /\ cwd' = IF op.name = "new_tree" THEN "tree" ELSE "dir"
          /\ \/ op' = [op EXCEPT !.at = "health", !.client = Client(births', births', None)] /\ UNCHANGED faults
             \/ (Goto("failed") \/ op' = [op EXCEPT !.wait = "command"]) /\ Fault
       \/ Goto("failed") /\ CannotSpawn /\ UNCHANGED <<Table, Files, cwd>>
    /\ UNCHANGED <<tree, lost, warm, Ghosts>>

-----------------------------------------------------------------------------
(***************************************************************************)
(* open_session                                                            *)
(***************************************************************************)
\* Seeded bug: a session that is not warm always gets a daemon of its own.
Attach_never(name) == op' = IF warm # None THEN None ELSE Op(name, "cold", None)

\* A warm session is there already.  A startup.json with a port is a daemon to attach to, with
\* the token the credential file holds now.
Attach(name) ==
    op' = IF warm # None THEN None
          ELSE IF startup # None THEN Op(name, "probe", Client(startup.port, cred, None))
          ELSE Op(name, "cold", None)

open_session ==
    /\ Begin /\ cwd # "none"
    /\ Attach("open")
    /\ UNCHANGED <<warm, faults, Table, Files, Trees, Ghosts>>

\* warm_session_resume: no directory, no daemon; else a fresh token is written over the old one.
resume_prepare ==
    /\ At("cold")
    /\ IF cwd = "tree" /\ ~tree.dir
       THEN op' = None /\ UNCHANGED cred
       ELSE cred' = births + 1 /\ Goto("resume")
    /\ UNCHANGED <<startup, warm, faults, Table, Trees, Ghosts>>

\* spawn_resume_daemon: a child in the foreground.
spawn_resume_daemon ==
    /\ At("resume")
    /\ \/ /\ births < MaxBirths
          /\ \E p \in Pids :
               /\ proc[p] = None
               /\ births' = births + 1
               /\ proc' = [proc EXCEPT ![p] = Daemon(births', "starting", cred)]
               /\ op' = [op EXCEPT !.at = "startup", !.client = Client(births', cred, p)]
          /\ UNCHANGED faults
       \/ op' = None /\ CannotSpawn /\ UNCHANGED Table
    /\ UNCHANGED <<warm, Files, Trees, Ghosts>>

\* A ready file counts when it carries the pid of the child.
startup_ready == startup # None /\ startup.state = "ready" /\ startup.pid = op.client.child

startup_failed == startup # None /\ startup.state = "failed" /\ startup.pid = op.client.child

\* wait_for_daemon_startup: the file, then the child, then the deadline, which passes when the
\* child will not write the file any more or another daemon has written it since.
wait_for_daemon_startup ==
    /\ At("startup")
    /\ \/ /\ startup_ready
          /\ op' = [op EXCEPT !.at = "health", !.client.port = startup.port] /\ UNCHANGED faults
       \/ startup_failed /\ Goto("reap") /\ UNCHANGED faults
       \/ ~startup_ready /\ ~Runs(op.client.child) /\ Goto("reap") /\ UNCHANGED faults
       \/ /\ ~startup_ready /\ ~startup_failed
          /\ Runs(op.client.child) /\ proc[op.client.child].phase # "starting"
          /\ Goto("stderr") /\ UNCHANGED faults
    /\ UNCHANGED <<warm, Table, Files, Trees, Ghosts>>

\* read_child_stderr reads to the end of the pipe, which a running child keeps open.
read_child_stderr ==
    /\ At("stderr") /\ ~Runs(op.client.child)
    /\ Goto("reap")
    /\ UNCHANGED <<warm, faults, Table, Files, Trees, Ghosts>>

\* The child is killed and waited for.
reap_child ==
    /\ At("reap")
    /\ proc' = [proc EXCEPT ![op.client.child] = None]
    /\ op' = [op EXCEPT !.at = "output", !.client = None]
    /\ UNCHANGED <<births, warm, faults, Files, Trees, Ghosts>>

\* wait_with_output reads what is left in its pipes, to their end.
wait_with_output ==
    /\ At("output")
    /\ op' = None
    /\ UNCHANGED <<warm, faults, Table, Files, Trees, Ghosts>>

-----------------------------------------------------------------------------
(***************************************************************************)
(* install_warm                                                            *)
(***************************************************************************)
\* The client is dropped with its handle: the process runs on, a zombie is reaped.
Drop(next) ==
    /\ proc' = Unheld(op.client)
    /\ op' = [op EXCEPT !.client = None, !.at = next]

\* Where a failed install leads: an attach falls back to a cold start, the others give up.
Otherwise == IF op.client.child = None /\ op.name \in {"open", "reload"} THEN "cold" ELSE "failed"

\* Does the failed install leave a daemon running that a cold start will not find?
Stray ==
    IF Otherwise = "cold"
    THEN Alive(op.client.port)
    ELSE op.client.child # None /\ Runs(op.client.child) /\ proc[op.client.child].born # op.client.port

\* Attach tries /health once; a spawned daemon has ten seconds, which only one that does not
\* answer uses up.
health ==
    /\ At("probe") \/ At("health")
    /\ \/ \E p \in Pids :
            /\ Answers(op.client, p)
            /\ op' = [op EXCEPT !.at = "capture", !.client.pid = p]
            /\ UNCHANGED <<proc, faults, strays>>
       \/ /\ Unanswered(op.client)
          /\ Drop(Otherwise)
          /\ strays' = IF Stray THEN More ELSE strays
    /\ UNCHANGED <<births, warm, struck, Files, Trees>>

\* The start time is read after the answer came: the pid may be free, or another's, by then, or
\* the system may not tell.
capture_start_time ==
    /\ At("capture")
    /\ LET p == op.client.pid  read == [op EXCEPT !.at = "claim"] IN
       \/ proc[p] # None /\ op' = [read EXCEPT !.client.start = proc[p].born] /\ UNCHANGED faults
       \/ op' = read /\ IF proc[p] = None THEN UNCHANGED faults ELSE Fault
    /\ UNCHANGED <<warm, Table, Files, Trees, Ghosts>>

\* claim_lease: granted when nobody holds it, and the heartbeat starts.
claim_lease ==
    /\ At("claim")
    /\ \/ \E p \in Pids :
            /\ Answers(op.client, p) /\ proc[p].holder = "none"
            /\ proc' = [proc EXCEPT ![p].holder = "pantoken"]
            /\ op' = [op EXCEPT !.at = "install", !.client.lease = TRUE, !.client.beat = TRUE]
            /\ UNCHANGED <<faults, strays>>
       \/ /\ \/ Unanswered(op.client)
             \/ \E p \in Pids : Answers(op.client, p) /\ proc[p].holder # "none" /\ UNCHANGED faults
          /\ Drop(Otherwise)
          /\ strays' = IF Stray THEN More ELSE strays
    /\ UNCHANGED <<births, warm, struck, Files, Trees>>

\* State, stream and monitor mode degrade when they fail; the session is warm in any case.
install_warm ==
    /\ At("install")
    /\ warm' = op.client /\ op' = None
    /\ UNCHANGED <<faults, Table, Files, Trees, Ghosts>>

\* A new session that failed takes its worktree with it, whatever the removal says.
new_session_failed ==
    /\ At("failed")
    /\ \/ op.name # "new_tree" /\ op' = None /\ UNCHANGED <<tree, faults>>
       \/ /\ op.name = "new_tree" /\ Goto("mark")
          /\ \/ tree' \in remove_plan(tree, TRUE) /\ UNCHANGED faults
             \/ UNCHANGED tree /\ Fault
    /\ UNCHANGED <<cwd, lost, warm, Table, Files, Ghosts>>

\* A body that never came is an error once the daemon is gone.
answer_ends ==
    /\ op # None /\ op.wait = "answer" /\ ~Alive(op.client.port)
    /\ op' = [op EXCEPT !.wait = "no"]
    /\ UNCHANGED <<warm, faults, Table, Files, Trees, Ghosts>>

-----------------------------------------------------------------------------
(***************************************************************************)
(* Leaving a session                                                       *)
(***************************************************************************)
\* reload_session, eviction, shutdown: the session leaves the pool first.
Teardown(name) ==
    /\ Begin /\ warm # None
    /\ op' = Op(name, IF warm.child # None THEN "child" ELSE "close", warm)
    /\ warm' = None
    /\ UNCHANGED <<faults, Table, Files, Trees, Ghosts>>

reload_session == Teardown("reload")
dispose_warm == Teardown("dispose")

\* detach_session: the session leaves the pool, then only the lease is given back.
detach_session ==
    /\ Begin /\ warm # None
    /\ op' = Op("detach", "detach", warm)
    /\ warm' = None
    /\ UNCHANGED <<faults, Table, Files, Trees, Ghosts>>

release_lease ==
    /\ At("detach")
    /\ \/ /\ \E p \in Pids : /\ Answers(op.client, p)
                             /\ proc' = [proc EXCEPT ![p].holder = IF @ = "pantoken" THEN "none" ELSE @]
          /\ UNCHANGED faults
       \/ Unanswered(op.client) /\ proc' = Unheld(op.client)
    /\ op' = None
    /\ UNCHANGED <<births, warm, Files, Trees, Ghosts>>

\* After a teardown a reload opens the session again.
Then == IF op.name = "reload" THEN Attach("reload") ELSE op' = None

\* Seeded bug: the child is waited for without being killed.
kill_child_waits ==
    /\ At("child") /\ ~Runs(op.client.child)
    /\ proc' = [proc EXCEPT ![op.client.child] = None]
    /\ Then
    /\ UNCHANGED <<births, warm, faults, Files, Trees, Ghosts>>

\* A child that runs is killed and waited for; close_without_kill then talks to nobody.
kill_child ==
    /\ At("child")
    /\ proc' = [proc EXCEPT ![op.client.child] = None]
    /\ Then
    /\ UNCHANGED <<births, warm, faults, Files, Trees, Ghosts>>

\* close(): the lease released and the daemon told to stop, within two seconds.
close ==
    /\ At("close")
    /\ \/ \E p \in Pids, told \in BOOLEAN :
            /\ Answers(op.client, p)
            /\ proc' = [proc EXCEPT ![p].holder = IF @ = "pantoken" THEN "none" ELSE @, ![p].drain = @ \/ told]
            /\ IF told THEN UNCHANGED faults ELSE Fault
       \/ Unanswered(op.client) /\ UNCHANGED proc
    /\ Goto("kill")
    /\ UNCHANGED <<births, warm, Files, Trees, Ghosts>>

\* Seeded bug: the pid is trusted.
verify_never(p, stored) == TRUE

\* process_identity::verify: no start time, no check.
verify(p, stored) == stored = None \/ (proc[p] # None /\ proc[p].born = stored)

\* kill(): SIGTERM to the pid of /health if it is still the same process.
kill ==
    /\ At("kill")
    /\ LET c == op.client  p == c.pid IN
       IF p # None /\ verify(p, c.start) /\ proc[p] # None
       THEN /\ proc' = [proc EXCEPT ![p].drain = TRUE]
            /\ struck' = IF proc[p].born = c.port THEN struck ELSE struck \cup {c.start = c.port}
       ELSE UNCHANGED <<proc, struck>>
    /\ Then
    /\ UNCHANGED <<births, warm, faults, strays, Files, Trees>>

-----------------------------------------------------------------------------
(***************************************************************************)
(* Worktrees of sessions that exist                                        *)
(***************************************************************************)
\* reap_worktree begins with a look at the tree, unless forced.
Reap(force) ==
    op' = IF ~live(tree) THEN None
          ELSE [Op("reap", IF force THEN "remove" ELSE "look", None) EXCEPT !.force = force]

\* set_archived(TRUE): the session may well be warm.
set_archived ==
    /\ Begin /\ cwd = "tree"
    /\ Reap(FALSE)
    /\ UNCHANGED <<warm, faults, Table, Files, Trees, Ghosts>>

\* cleanup_worktree: never that of a warm session.
cleanup_worktree ==
    /\ Begin /\ cwd = "tree" /\ warm = None
    /\ \E force \in BOOLEAN : Reap(force)
    /\ UNCHANGED <<warm, faults, Table, Files, Trees, Ghosts>>

look ==
    /\ At("look")
    /\ \/ /\ is_clean(tree)
          /\ op' = [op EXCEPT !.at = "remove", !.seen = tree.dir /\ ~tree.dirty] /\ UNCHANGED faults
       \/ op' = None /\ IF is_clean(tree) THEN Fault ELSE UNCHANGED faults
    /\ UNCHANGED <<warm, Table, Files, Trees, Ghosts>>

\* The command runs some time after the look; one that fails leaves the tree in the index.
remove ==
    /\ At("remove")
    /\ \/ /\ tree' \in remove_plan(tree, op.force) /\ Goto("mark") /\ UNCHANGED faults
          /\ lost' = IF tree.dirty /\ ~op.force
                     THEN lost \cup {[vcs |-> tree.vcs, clean |-> op.seen]} ELSE lost
       \/ /\ IF tree.dir /\ remove_plan(tree, op.force) # {} THEN Fault ELSE UNCHANGED faults
          /\ op' = None /\ UNCHANGED <<tree, lost>>
    /\ UNCHANGED <<cwd, warm, Table, Files, Ghosts>>

\* The index is told after the directory is gone.
mark ==
    /\ At("mark")
    /\ tree' = mark_reaped(tree) /\ op' = None
    /\ UNCHANGED <<cwd, lost, warm, faults, Table, Files, Ghosts>>

-----------------------------------------------------------------------------
Driver ==
    \/ create_worktree \/ add_worktree \/ spawn_new_daemon
    \/ resume_prepare \/ spawn_resume_daemon \/ wait_for_daemon_startup
    \/ read_child_stderr \/ reap_child \/ wait_with_output
    \/ health \/ capture_start_time \/ claim_lease \/ install_warm \/ new_session_failed
    \/ kill_child \/ close \/ kill \/ release_lease \/ answer_ends
    \/ look \/ remove \/ mark

Asks ==
    \/ new_session \/ open_session \/ reload_session \/ dispose_warm \/ detach_session
    \/ set_archived \/ cleanup_worktree

World ==
    \/ \E p \in Pids :
         \/ DaemonStarts(p) \/ DaemonHangs(p) \/ Exits(p) \/ Stranger(p)
         \/ TuiAttaches(p) \/ TuiDetaches(p) \/ LeaseLapses(p) \/ Stalls(p)
    \/ HeartbeatEnds \/ AgentEdits \/ ServerCrashes \/ Hangs

Init ==
    /\ proc = [p \in Pids |-> None] /\ births = 0
    /\ startup = None /\ cred = 0
    /\ cwd = "none" /\ tree = NoTree /\ lost = {}
    /\ warm = None /\ op = None
    /\ faults = 0 /\ strays = 0 /\ struck = {}

Next == Driver \/ Asks \/ World

Spec == Init /\ [][Next]_vars

\* The task that runs an operation goes on unless it waits for what never comes (Stalls, Hangs
\* and a stderr that a living child keeps open), and a daemon that starts gets on with it;
\* nothing else is promised.
Fairness ==
    /\ WF_vars(Driver)
    /\ \A p \in Pids : WF_vars(DaemonStarts(p))

FairSpec == Spec /\ Fairness

-----------------------------------------------------------------------------
\* Every variable has the values its declaration says.
TypeOK ==
    /\ proc \in [Pids -> Processes \cup {None}]
    /\ births \in 0..MaxBirths /\ cred \in Tokens /\ startup \in Startups \cup {None}
    /\ tree \in TreeTypes /\ cwd \in {"none", "dir", "tree"}
    /\ warm \in ClientTypes \cup {None} /\ op \in Operations \cup {None}
    /\ faults \in 0..MaxFaults /\ strays \in 0..MaxBirths
    /\ struck \subseteq BOOLEAN /\ lost \subseteq LostTypes

\* A pid that was handed to another process is never signalled when the start time of the daemon
\* was read after /health: only a start time that the system would not tell leaves kill() without
\* an identity to check (process_identity.rs verify, daemon_client.rs kill).
StrangersAreSpared == TRUE \notin struck

\* However operations fail, hang, crash or are repeated, the session has one daemon, and at most
\* one more, told to stop or not, for each attach or start that gave up on a daemon that lives
\* and for each crash of the server in a start whose child startup.json does not name yet: every
\* other crash and failure leaves a daemon to attach to, never one beside it (driver.rs
\* open_session, warm_session_attach, daemon_client.rs spawn_resume_daemon).
DaemonsAreAccounted == Cardinality(Daemons) <= 1 + strays

\* Work that was not committed is deleted without force only in a jj workspace, and only if it
\* was done after reap_worktree had looked and found none (driver.rs reap_worktree,
\* shared/worktree.rs remove, is_clean).
UncommittedWorkSurvives == \A l \in lost : l.vcs = "jj" /\ l.clean

\* Does the operation wait for something without a time limit that does not come?
Waiting ==
    \/ op.wait = "command"
    \/ op.wait = "answer" /\ Alive(op.client.port)
    \/ op.at = "stderr" /\ Runs(op.client.child)

\* Every operation ends, so that the hub goes on to the next one, unless a command, or a pipe
\* that somebody holds, never ends, or a daemon hangs in the middle of an answer and lives: a
\* daemon that does not start, does not answer at all, refuses or dies, a child that is killed
\* and a crash between any two steps hold up none (hub.rs run_hub_op_applier, daemon_client.rs
\* wait_for_daemon_startup, safe_fetch, close).
OpsEndUnlessHung == []<>(op = None \/ Waiting)

\* "polling every 100ms up to `timeout_ms`": every operation ends.
OpsEnd == []<>(op = None)
=============================================================================
