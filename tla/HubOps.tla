------------------------------- MODULE HubOps -------------------------------
(***************************************************************************)
(* The hub's operation queue: what connections ask for that needs the      *)
(* driver is queued, and one applier runs the queue, an operation at a     *)
(* time.  The hub's lock is not held while an operation awaits the driver, *)
(* so connections come and go, ask for more, and events arrive in between. *)
(*                                                                         *)
(* A session switch (open, reload, branch, new) moves the focus of its     *)
(* connection and queues the lists that belong to the new focus.  The      *)
(* command, facet, file and @-reference lists are queued together and      *)
(* delivered in the same way: `scoped` stands for each of them.  The       *)
(* session list is known by the version of the session directory it was    *)
(* read from.                                                              *)
(***************************************************************************)
EXTENDS Integers, Sequences

CONSTANTS
    None,
    Conns,        \* connection keys, each used once (next_client_key)
    Sessions,
    Landings,     \* sessions a new connection may find itself on
    Menus,        \* sets of kinds of request, of which a behaviour makes one
    MaxRequests,  \* bounds: requests that reach the queue,
    MaxTitles,    \* changes the daemons make to the session directory,
    MaxTicks      \* and live-refresh passes that are queued

VARIABLES
    conn,      \* connection -> "new", "on" or "gone"
    focus,     \* ClientConn.focused_id
    inFlight,  \* ClientConn.switch_in_flight
    lists,     \* connection -> the lists it received last
    owesJobs,  \* connection has a seed for which it has not asked the jobs yet
    ops,       \* HubOpReceiver.rx, oldest first
    cur,       \* the operation the applier is running, or None
    disk,      \* version of the session directory and its side flags
    dirty,     \* SessionHub.session_list_dirty
    untold,    \* sessions changed by their daemon, event not handled yet
    asked,     \* requests that reached the hub
    served,    \* numbers of the requests that were served
    shownBy,   \* version every edit that was served must be visible in
    menu,      \* the kinds of request made in this behaviour
    used       \* counters behind the bounds
vars == <<conn, focus, inFlight, lists, owesJobs, ops, cur, disk, dirty,
          untold, asked, served, shownBy, menu, used>>

clientVars == <<conn, focus, inFlight, lists, owesJobs>>

Focuses == Sessions \union {None}

\* A queued operation: the request it serves (0: none), for which connection
\* (None: all), what it does and the session captured when it was queued.
Op(n, c, does, s) == [n |-> n, conn |-> c, does |-> does, session |-> s]

Switches == {"open", "reload", "branch", "new"}
Edits == {"archive", "rename", "cleanup", "detach"}

OpTypes ==
    [n : 0..MaxRequests, conn : Conns \union {None},
     does : Switches \union Edits \union
            {"connect_list", "session_list", "scoped", "jobs", "jobs_on_update", "reply"},
     session : Focuses]

\* An operation the applier is running, at one of its awaits, with the version of the list it read.
Running == [op : OpTypes, at : {"call", "list", "send", "refresh"}, got : Nat \union {None}]

ASSUME HubOpsAssumption ==
    /\ None \notin Sessions \union Conns \union Running
    /\ Landings \subseteq Sessions \union {None}
    /\ MaxRequests \in Nat /\ MaxTitles \in Nat /\ MaxTicks \in Nat

On(c) == conn[c] = "on"

Init ==
    /\ conn = [c \in Conns |-> "new"]
    /\ focus = [c \in Conns |-> None]
    /\ inFlight = [c \in Conns |-> FALSE]
    /\ lists = [c \in Conns |-> [scoped |-> None, jobs |-> None, version |-> 0, active |-> None]]
    /\ owesJobs = {}
    /\ ops = <<>> /\ cur = None
    /\ disk = 1 /\ dirty = TRUE /\ untold = {}
    /\ asked = 0 /\ served = {} /\ shownBy = 0
    /\ menu \in Menus
    /\ used = [titles |-> 0, ticks |-> 0]

-----------------------------------------------------------------------------
(* Connections                                                             *)

\* spawn_connect_lists: the session list with the focus at connect as active
\* id and the lists scoped to that focus (the model list and the model
\* defaults, which depend on no session, are left out here and below).
connect_lists(c, s) ==
    <<Op(0, c, "connect_list", s), Op(0, c, "scoped", s)>>

\* add_client: a seed for the focus is sent at once, the lists are queued.
add_client(c, s) ==
    /\ conn[c] = "new"
    /\ conn' = [conn EXCEPT ![c] = "on"]
    /\ focus' = [focus EXCEPT ![c] = s]
    /\ owesJobs' = owesJobs \union {c}
    /\ ops' = ops \o connect_lists(c, s)
    /\ UNCHANGED <<menu, inFlight, lists, cur, disk, dirty, untold, asked, served, shownBy, used>>

\* remove_client: what is queued for the connection stays queued.
remove_client(c) ==
    /\ On(c) /\ "leave" \in menu
    /\ conn' = [conn EXCEPT ![c] = "gone"]
    /\ inFlight' = [inFlight EXCEPT ![c] = FALSE]
    /\ owesJobs' = owesJobs \ {c}
    /\ UNCHANGED <<menu, focus, lists, ops, cur, disk, dirty, untold, asked, served, shownBy, used>>

-----------------------------------------------------------------------------
(* What connections ask for                                                *)

\* A request is queued with what it captures now.
Ask(c, does, s) ==
    /\ On(c) /\ asked < MaxRequests /\ does \in menu
    /\ asked' = asked + 1
    /\ ops' = Append(ops, Op(asked + 1, c, does, s))
    /\ UNCHANGED <<menu, clientVars, cur, disk, dirty, untold, served, shownBy, used>>

OpenSession(c, s) == Ask(c, "open", s)
ReloadSession(c, s) == Ask(c, "reload", s)
NewSession(c, s) == Ask(c, "new", s)

\* Branch is refused at once while the session has a turn running.
Branch(c) ==
    \/ focus[c] # None /\ Ask(c, "branch", focus[c])
    \/ /\ On(c) /\ asked < MaxRequests /\ "branch" \in menu
       /\ asked' = asked + 1 /\ served' = served \union {asked + 1}
       /\ UNCHANGED <<menu, clientVars, ops, cur, disk, dirty, untold, shownBy, used>>

SetArchived(c) == Ask(c, "archive", None)
RenameSession(c) == Ask(c, "rename", None)
CleanupWorktree(c) == Ask(c, "cleanup", None)
DetachSession(c) == Ask(c, "detach", None)
ListSessions(c) == Ask(c, "session_list", None)
ListCommands(c) == Ask(c, "scoped", focus[c])

\* Calls and queries whose completion sends at most one message to the asker:
\* session actions, the queued texts, a todo to delete, files, directories.
SessionAction(c) == Ask(c, "reply", focus[c])
RestoreQueue(c) == Ask(c, "reply", focus[c])
DeleteTodo(c) == Ask(c, "reply", focus[c])
QueryFiles(c) == Ask(c, "reply", focus[c])

\* The client asks for the jobs of its focus when it has adopted a seed.
FetchJobs(c) ==
    /\ On(c) /\ c \in owesJobs /\ "jobs" \in menu
    /\ owesJobs' = owesJobs \ {c}
    /\ ops' = Append(ops, Op(0, c, "jobs", focus[c]))
    /\ UNCHANGED <<menu, conn, focus, inFlight, lists, cur, disk, dirty, untold, asked, served,
                   shownBy, used>>

-----------------------------------------------------------------------------
(* Events and the live-refresh ticker                                      *)

\* External: a daemon gives its session a title, or a turn changes what the
\* session directory says of it; the event about it is on its way.
DaemonChanges(s) ==
    /\ used.titles < MaxTitles /\ "title" \in menu /\ s \notin untold
    /\ used' = [used EXCEPT !.titles = @ + 1]
    /\ disk' = disk + 1 /\ untold' = untold \union {s}
    /\ UNCHANGED <<menu, clientVars, ops, cur, dirty, asked, served, shownBy>>

\* on_event of sessionUpdated: the list is out of date, and the jobs of the
\* session are fetched for whoever looks at it by then.
on_event_SessionUpdated(s) ==
    /\ s \in untold
    /\ untold' = untold \ {s} /\ dirty' = TRUE
    /\ ops' = Append(ops, Op(0, None, "jobs_on_update", s))
    /\ UNCHANGED <<menu, clientVars, cur, disk, asked, served, shownBy, used>>

\* enqueue_live_refresh: every tick that finds the list dirty queues a pass.
enqueue_live_refresh ==
    /\ dirty /\ used.ticks < MaxTicks /\ "tick" \in menu
    /\ used' = [used EXCEPT !.ticks = @ + 1]
    /\ ops' = Append(ops, Op(0, None, "session_list", None))
    /\ UNCHANGED <<menu, clientVars, cur, disk, dirty, untold, asked, served, shownBy>>

-----------------------------------------------------------------------------
(* The applier                                                             *)

Serving(does) == cur # None /\ cur.op.does \in does

At(does, at) == Serving(does) /\ cur.at = at

Served(n) == IF n = 0 THEN served ELSE served \union {n}

\* run_hub_op_applier takes the next operation; a switch claims its connection
\* (the coalescing branch of switch_to waits for the applier it runs on: see
\* ClaimedOnlyBySwitch).
run_hub_op_applier ==
    /\ cur = None /\ ops # <<>>
    /\ LET op == Head(ops) IN
         /\ op.does \in Switches => ~inFlight[op.conn]
         /\ cur' = [op |-> op, at |-> "call", got |-> None]
         /\ inFlight' = IF op.does \in Switches /\ On(op.conn)
                        THEN [inFlight EXCEPT ![op.conn] = TRUE] ELSE inFlight
    /\ ops' = Tail(ops)
    /\ UNCHANGED <<menu, conn, focus, lists, owesJobs, disk, dirty, untold, asked, served, shownBy, used>>

release(c) == [inFlight EXCEPT ![c] = FALSE]

\* Seeded bug: a failed swap is swallowed, its asker never hears of it.
switch_fails_silently ==
    /\ At(Switches, "call")
    /\ inFlight' = release(cur.op.conn) /\ cur' = None
    /\ UNCHANGED <<menu, conn, focus, lists, owesJobs, ops, disk, dirty, untold, asked, served,
                   shownBy, used>>

\* The swap failed, or its seed was empty: an error for the asker, the claim
\* released.
switch_fails ==
    /\ At(Switches, "call")
    /\ inFlight' = release(cur.op.conn)
    /\ served' = Served(cur.op.n) /\ cur' = None
    /\ UNCHANGED <<menu, conn, focus, lists, owesJobs, ops, disk, dirty, untold, asked, shownBy, used>>

\* finish_switch, under one lock: the focus moves and the seed goes out.
finish_switch ==
    /\ At(Switches, "call")
    /\ LET c == cur.op.conn  s == cur.op.session IN
         /\ focus' = IF On(c) THEN [focus EXCEPT ![c] = s] ELSE focus
         /\ owesJobs' = IF On(c) THEN owesJobs \union {c} ELSE owesJobs
    /\ served' = Served(cur.op.n)
    /\ cur' = [cur EXCEPT !.at = "refresh"]
    /\ UNCHANGED <<menu, conn, inFlight, lists, ops, disk, dirty, untold, asked, shownBy, used>>

\* The lists that follow a switch, for the session the switch went to.
switch_lists(c, s) ==
    <<Op(0, None, "session_list", None), Op(0, c, "scoped", s)>>

\* ... then a reload or a branch reseeds the other viewers, and the refreshes
\* are queued behind whatever was queued meanwhile.
refresh_after_switch ==
    /\ At(Switches, "refresh")
    /\ LET c == cur.op.conn  s == cur.op.session IN
         /\ owesJobs' = IF cur.op.does \in {"reload", "branch"}
                        THEN owesJobs \union {d \in Conns \ {c} : On(d) /\ focus[d] = s}
                        ELSE owesJobs
         /\ ops' = ops \o switch_lists(c, s)
         /\ inFlight' = release(c)
    /\ cur' = None
    /\ UNCHANGED <<menu, conn, focus, lists, disk, dirty, untold, asked, served, shownBy, used>>

\* An edit's driver call returns, having changed what the list shows or not,
\* and a fresh list follows.
then_list(changed) ==
    /\ disk' = IF changed THEN disk + 1 ELSE disk
    /\ cur' = [cur EXCEPT !.at = "list"]
    /\ UNCHANGED <<menu, clientVars, ops, dirty, untold, asked, served, shownBy, used>>

\* ... or none does.
no_list(changed) ==
    /\ disk' = IF changed THEN disk + 1 ELSE disk
    /\ served' = Served(cur.op.n) /\ cur' = None
    /\ UNCHANGED <<menu, clientVars, ops, dirty, untold, asked, shownBy, used>>

\* The flag is flipped first.  When the worktree has changes and stays, the
\* asker is told so and no list is sent.
set_archived == At({"archive"}, "call") /\ (then_list(TRUE) \/ no_list(TRUE))

rename_session == At({"rename"}, "call") /\ \E renamed \in BOOLEAN : then_list(renamed)

cleanup_worktree == At({"cleanup"}, "call") /\ \E removed \in BOOLEAN : then_list(removed)

\* A path that names no session is reported and ends there.
detach_session == At({"detach"}, "call") /\ (then_list(TRUE) \/ no_list(FALSE))

Listing == {"session_list", "connect_list"}

\* Seeded bug: two lists read at once, the later one sent first (an applier
\* that does not wait): the list sent is the one read when it was queued.
list_sessions_stale ==
    /\ At(Listing, "call") \/ At(Edits, "list")
    /\ cur' = [cur EXCEPT !.at = "send", !.got = IF cur.op.n = 0 THEN 1 ELSE disk]
    /\ UNCHANGED <<menu, clientVars, ops, disk, dirty, untold, asked, served, shownBy, used>>

\* list_sessions reads the directory without the hub's lock.
list_sessions ==
    /\ At(Listing, "call") \/ At(Edits, "list")
    /\ cur' = [cur EXCEPT !.at = "send", !.got = disk]
    /\ UNCHANGED <<menu, clientVars, ops, disk, dirty, untold, asked, served, shownBy, used>>

\* Seeded bug: only the connection that asked hears of its edit.
send_list_to_asker(v) ==
    [c \in Conns |-> IF On(c) /\ cur.op.conn \in {c, None}
                     THEN [lists[c] EXCEPT !.version = v, !.active = focus[c]] ELSE lists[c]]

\* broadcast_session_list_with: to everybody, each with its own focus.
broadcast_session_list_with(v) ==
    [c \in Conns |-> IF On(c) THEN [lists[c] EXCEPT !.version = v, !.active = focus[c]]
                     ELSE lists[c]]

broadcast_session_list ==
    /\ At(Edits \union {"session_list"}, "send")
    /\ lists' = broadcast_session_list_with(cur.got)
    /\ dirty' = FALSE
    /\ shownBy' = IF cur.op.does \in Edits THEN cur.got ELSE shownBy
    /\ served' = Served(cur.op.n) /\ cur' = None
    /\ UNCHANGED <<menu, conn, focus, inFlight, owesJobs, ops, disk, untold, asked, used>>

\* The connect-time list goes to its connection alone, with the focus captured
\* at connect, and leaves the dirty flag set.
send_connect_list ==
    /\ At({"connect_list"}, "send")
    /\ lists' = IF On(cur.op.conn)
                THEN [lists EXCEPT ![cur.op.conn].version = cur.got,
                                   ![cur.op.conn].active = cur.op.session]
                ELSE lists
    /\ cur' = None
    /\ UNCHANGED <<menu, conn, focus, inFlight, owesJobs, ops, disk, dirty, untold, asked, served,
                   shownBy, used>>

\* list_commands and its kin answer for the session that was captured.
send_scoped ==
    /\ At({"scoped", "jobs"}, "call")
    /\ lists' = IF ~On(cur.op.conn) THEN lists
                ELSE IF cur.op.does = "jobs"
                THEN [lists EXCEPT ![cur.op.conn].jobs = cur.op.session]
                ELSE [lists EXCEPT ![cur.op.conn].scoped = cur.op.session]
    /\ served' = Served(cur.op.n) /\ cur' = None
    /\ UNCHANGED <<menu, conn, focus, inFlight, owesJobs, ops, disk, dirty, untold, asked, shownBy, used>>

\* fetch_jobs_on_update: to those who look at the session when it is sent.
clients_focused(s) == {c \in Conns : On(c) /\ focus[c] = s}

fetch_jobs_on_update ==
    /\ At({"jobs_on_update"}, "call")
    /\ lists' = [c \in Conns |-> IF c \in clients_focused(cur.op.session)
                                 THEN [lists[c] EXCEPT !.jobs = cur.op.session] ELSE lists[c]]
    /\ cur' = None
    /\ UNCHANGED <<menu, conn, focus, inFlight, owesJobs, ops, disk, dirty, untold, asked, served,
                   shownBy, used>>

\* Everything else the queue runs: one call, at most one message.
reply ==
    /\ At({"reply"}, "call")
    /\ served' = Served(cur.op.n) /\ cur' = None
    /\ UNCHANGED <<menu, clientVars, ops, disk, dirty, untold, asked, shownBy, used>>

Applier ==
    \/ run_hub_op_applier
    \/ switch_fails \/ finish_switch \/ refresh_after_switch
    \/ set_archived \/ rename_session \/ cleanup_worktree \/ detach_session
    \/ list_sessions \/ broadcast_session_list \/ send_connect_list
    \/ send_scoped \/ fetch_jobs_on_update \/ reply

Next ==
    \/ \E c \in Conns :
         \/ \E s \in Landings : add_client(c, s)
         \/ remove_client(c)
         \/ \E s \in Sessions : OpenSession(c, s) \/ ReloadSession(c, s) \/ NewSession(c, s)
         \/ Branch(c)
         \/ SetArchived(c) \/ RenameSession(c) \/ CleanupWorktree(c) \/ DetachSession(c)
         \/ ListSessions(c) \/ ListCommands(c) \/ FetchJobs(c)
         \/ SessionAction(c) \/ RestoreQueue(c) \/ DeleteTodo(c) \/ QueryFiles(c)
    \/ \E s \in Sessions : DaemonChanges(s) \/ on_event_SessionUpdated(s)
    \/ enqueue_live_refresh
    \/ Applier

\* The applier is a task of its own and the driver's calls return (every call
\* to a daemon has a timeout); nothing is assumed of connections or daemons.
Spec == Init /\ [][Next]_vars /\ WF_vars(Applier)

-----------------------------------------------------------------------------
\* Every variable keeps its type.
TypeOK ==
    /\ conn \in [Conns -> {"new", "on", "gone"}]
    /\ focus \in [Conns -> Focuses]
    /\ inFlight \in [Conns -> BOOLEAN]
    /\ lists \in [Conns -> [scoped : Focuses, jobs : Focuses, version : Nat, active : Focuses]]
    /\ owesJobs \subseteq Conns
    /\ ops \in Seq(OpTypes)
    /\ cur \in Running \union {None}
    /\ disk \in Nat /\ dirty \in BOOLEAN /\ untold \subseteq Sessions
    /\ asked \in 0..MaxRequests /\ served \subseteq 1..MaxRequests /\ shownBy \in Nat
    /\ menu \in Menus
    /\ used \in [titles : 0..MaxTitles, ticks : 0..MaxTicks]

Idle == ops = <<>> /\ cur = None

\* A connection is claimed (switch_in_flight) only while its own switch is
\* being run.  A claim left behind would make the connection's next switch
\* wait, inside the only applier, for that applier: nothing queued by anybody
\* would run again (the coalescing branch of switch_to).
ClaimedOnlyBySwitch ==
    \A c \in Conns : inFlight[c] => Serving(Switches) /\ cur.op.conn = c

\* When the queue is drained, the commands, files and jobs that a connection
\* was sent last are those of the session it looks at, whatever it switched
\* to, and asked for, while switches and fetches were queued; and its session
\* list marks that session as the active one.
ListsMatchFocus ==
    Idle => \A c \in Conns : On(c) =>
        /\ lists[c].scoped = focus[c]
        /\ lists[c].active = focus[c]
        /\ c \notin owesJobs => lists[c].jobs = focus[c]

\* When the queue is drained, everybody's session list shows every rename,
\* archive, clean-up and detach that was served with a list, whoever made it.
EditsAreShown ==
    Idle => \A c \in Conns : On(c) => lists[c].version >= shownBy

\* When the queue is drained nobody is left claimed and every list is right.
DrainedListsAreRight == ClaimedOnlyBySwitch /\ ListsMatchFocus /\ EditsAreShown

\* A session list a connection receives is never older than one it had: the
\* directory is read without the lock, and several reads are queued at once.
ListsNeverGoBack ==
    [][\A c \in Conns : lists'[c].version >= lists[c].version]_vars

\* SessionHub.session_list_dirty, "whether the session list needs rebroadcast":
\* when nothing is queued or under way and the flag is clear, the lists that
\* were sent are the session directory as it is.
CleanListIsCurrent ==
    Idle /\ ~dirty /\ untold = {} =>
        \A c \in Conns : On(c) => lists[c].version = disk

\* The queue as its users see it.
RequestOf(op) == [n |-> op.n, conn |-> op.conn, switch |-> op.does \in Switches]

Pending == {ops[i] : i \in DOMAIN ops} \union (IF cur = None THEN {} ELSE {cur.op})

Waiting == {RequestOf(op) : op \in {p \in Pending : p.n \notin served \union {0}}}

Service == INSTANCE OpService WITH waiting <- Waiting

\* The queue with its internal operations, awaits and refreshes implements a
\* service that takes requests one at a time in order, serves every one of
\* them, and moves a focus only for a switch its own connection asked for.
ImplementsOpService == Service!Spec
=============================================================================
