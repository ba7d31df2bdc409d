--------------------------- MODULE RemoteRuntime ---------------------------
(***************************************************************************)
(* The persistent runtime on a remote host and the stdio proxies that find *)
(* it, start it and relay to it.                                           *)
(*                                                                         *)
(*   server remote/runtime.rs    connect_with_bootstrap, wait_for_socket,  *)
(*                               probe_identity, run_remote_runtime        *)
(*   server main.rs              run_remote_runtime_mode                   *)
(*   server remote/lifecycle.rs  run_lifecycle_loop                        *)
(*   server pidlock.rs           acquire_pid_lock, in its two file steps   *)
(*   server polytoken/driver.rs  dispose_idle_warm                         *)
(*                                                                         *)
(* A proxy is one process per connection, a runtime one per bootstrap.     *)
(* Any of them may be killed; a killed process runs no Drop.               *)
(***************************************************************************)
EXTENDS PidLock, Naturals, FiniteSets

CONSTANTS
    Proxies, Runtimes,  \* pids: numbers, handed out in order
    Openable,           \* polytoken sessions a client may open
    ReapAfter,          \* idle checks that make idle_reap_ms
    ExitAfter,          \* idle checks that make hub_idle_ms
    MaxFaults           \* kills

ASSUME RuntimeAssumption ==
    /\ Proxies \cup Runtimes \subseteq Nat
    /\ Proxies \cap Runtimes = {} /\ {NoLock, Garbled} \cap (Proxies \cup Runtimes) = {}
    /\ ReapAfter \in Nat \ {0} /\ ExitAfter \in Nat /\ ReapAfter <= ExitAfter /\ MaxFaults \in Nat

Pids == Proxies \cup Runtimes

VARIABLES
    pc,        \* where each process is
    file,      \* run/pantoken.pid
    seen,      \* what acquire_pid_lock read before it writes
    sock,      \* who bound run/server.sock, or NoLock
    conn,      \* the runtime a proxy is connected to, or NoLock
    clients,   \* proxies whose session is registered with its hub
    attached,      \* the sessions a runtime's driver has attached
    turns,     \* those with a turn in flight
    todo,      \* dispose_idle_warm: what it set out to dispose
    idle,      \* idle checks in a row
    exit_tx,   \* runtimes whose exit signal is set
    faults,    \* processes killed or not started
    raced      \* did some acquire overwrite a file it had not read?

vars == <<pc, file, seen, sock, conn, clients, attached, turns, todo, idle, exit_tx, faults, raced>>
Hub == <<attached, turns, todo, idle, exit_tx>>

\* The next process of its kind to be started.
Fresh(x, kind) == pc[x] \in {"off", "none"} /\ \A y \in kind : pc[y] \in {"off", "none"} => x <= y
Alive == {x \in Pids : pc[x] \notin {"off", "none", "failed", "done"}}
Listening(s) == s \in Runtimes /\ pc[s] \in {"serve", "reap"}
Holding == {p \in Proxies : pc[p] \in {"spawn", "wait_held"}}
ClientsOf(r) == {p \in clients : conn[p] = r}

\* The process is over: its memory and its connections are gone, and a relay whose runtime is
\* gone ends too.
Gone(x) ==
    LET cut == {p \in Proxies : conn[p] = x /\ pc[p] = "relay"} IN
    /\ pc' = [y \in Pids |-> IF y \in cut \cup {x} THEN "done" ELSE pc[y]]
    /\ conn' = [p \in Proxies |-> IF p = x \/ p \in cut THEN NoLock ELSE conn[p]]
    /\ clients' = clients \ (cut \cup {x})
    /\ attached' = [r \in Runtimes |-> IF r = x THEN {} ELSE attached[r]]
    /\ turns' = [r \in Runtimes |-> IF r = x THEN {} ELSE turns[r]]
    /\ todo' = [r \in Runtimes |-> IF r = x THEN {} ELSE todo[r]]
    /\ idle' = [r \in Runtimes |-> IF r = x THEN 0 ELSE idle[r]]
    /\ exit_tx' = exit_tx \ {x}

Goes(x, to) == pc' = [pc EXCEPT ![x] = to]

-----------------------------------------------------------------------------
(***************************************************************************)
(* acquire_pid_lock, one step per file access.                             *)
(***************************************************************************)
\* The read and the decision: a live holder sends the process to `refused`.
acquire_read(x, refused) ==
    IF lock_decision(file, x, Alive) = "live"
    THEN Goes(x, refused) /\ UNCHANGED seen
    ELSE Goes(x, "write") /\ seen' = [seen EXCEPT ![x] = file]

\* The write, whatever the file holds by now.
acquire_write(x, next) ==
    /\ pc[x] = "write" /\ Goes(x, next)
    /\ file' = Acquired(file, x)
    /\ raced' = (raced \/ file # seen[x])
    /\ seen' = [seen EXCEPT ![x] = NoLock]

-----------------------------------------------------------------------------
(***************************************************************************)
(* The proxy.                                                              *)
(***************************************************************************)
\* ssh starts the proxy.
run_stdio_proxy(p) ==
    /\ Fresh(p, Proxies) /\ Goes(p, "connect")
    /\ UNCHANGED <<file, seen, sock, conn, clients, faults, raced, Hub>>

\* The identity probe that follows on a connection of its own decides nothing: the runtime always
\* answers Running, and an error is only logged.
Connected(p) == conn' = [conn EXCEPT ![p] = sock]

\* Steps 1 and 2: connect, or look at the lock.  (The look at run/server.pid in between finds
\* nothing: the lock is run/pantoken.pid, and nobody writes the other.)
connect(p) ==
    /\ pc[p] = "connect"
    /\ \/ Listening(sock) /\ Goes(p, "relay") /\ Connected(p)
       \/ ~Listening(sock) /\ Goes(p, "read") /\ UNCHANGED conn
    /\ UNCHANGED <<file, seen, sock, clients, faults, raced, Hub>>

proxy_reads(p) ==
    /\ pc[p] = "read" /\ acquire_read(p, "retry")
    /\ UNCHANGED <<file, sock, conn, clients, faults, raced, Hub>>

proxy_writes(p) ==
    /\ p \in Proxies /\ acquire_write(p, "spawn")
    /\ UNCHANGED <<sock, conn, clients, faults, Hub>>

\* The lock was lost to another proxy: connect again, or wait for its runtime.
retry(p) ==
    /\ pc[p] = "retry"
    /\ \/ Listening(sock) /\ Goes(p, "relay") /\ Connected(p)
       \/ ~Listening(sock) /\ Goes(p, "wait") /\ UNCHANGED conn
    /\ UNCHANGED <<file, seen, sock, clients, faults, raced, Hub>>

\* The lock is held, and stays held, while the runtime is spawned and waited for.
spawn(p, r) ==
    /\ pc[p] = "spawn" /\ Fresh(r, Runtimes)
    /\ pc' = [pc EXCEPT ![p] = "wait_held", ![r] = "read"]
    /\ UNCHANGED <<file, seen, sock, conn, clients, faults, raced, Hub>>

\* The process table is full (Runtimes is the bound): the error is returned.
spawn_fails(p) ==
    /\ pc[p] = "spawn" /\ \A r \in Runtimes : pc[r] # "none"
    /\ Goes(p, "failed") /\ file' = release(file, p) /\ faults' = faults + 1
    /\ UNCHANGED <<seen, sock, conn, clients, raced, Hub>>

\* _pid_lock is dropped when connect_with_bootstrap returns.
Drop(p) == file' = IF p \in Holding THEN release(file, p) ELSE file

wait_for_socket(p) ==
    /\ pc[p] \in {"wait", "wait_held"} /\ Listening(sock)
    /\ Goes(p, "relay") /\ Connected(p) /\ Drop(p)
    /\ UNCHANGED <<seen, sock, clients, faults, raced, Hub>>

\* Thirty seconds without a socket.  A runtime that is starting is up or gone well before.
Starting == {r \in Runtimes : pc[r] \in {"read", "write", "unlink", "bind"}}

\* Seeded bug: the wait has no deadline.
wait_forever(p) == FALSE /\ UNCHANGED vars

wait_times_out(p) ==
    /\ pc[p] \in {"wait", "wait_held"} /\ ~Listening(sock) /\ Starting = {}
    /\ Goes(p, "failed") /\ Drop(p)
    /\ UNCHANGED <<seen, sock, conn, clients, faults, raced, Hub>>

\* The relayed hello passes the gate and the session registers with the hub.
register(p) ==
    /\ pc[p] = "relay" /\ p \notin clients /\ clients' = clients \cup {p}
    /\ UNCHANGED <<pc, file, seen, sock, conn, faults, raced, Hub>>

\* stdin ends: the relay returns and the proxy exits.
disconnect(p) ==
    /\ pc[p] = "relay" /\ Gone(p)
    /\ UNCHANGED <<file, seen, sock, faults, raced>>

-----------------------------------------------------------------------------
(***************************************************************************)
(* The runtime.                                                            *)
(***************************************************************************)
\* run_remote_runtime_mode: exit(1) when the lock is held.
runtime_reads(r) ==
    /\ pc[r] = "read" /\ acquire_read(r, "done")
    /\ UNCHANGED <<file, sock, conn, clients, faults, raced, Hub>>

runtime_writes(r) ==
    /\ r \in Runtimes /\ acquire_write(r, "unlink")
    /\ UNCHANGED <<sock, conn, clients, faults, Hub>>

\* run_remote_runtime: remove whatever socket there is, then bind.
remove_socket(r) ==
    /\ pc[r] = "unlink" /\ sock' = NoLock /\ Goes(r, "bind")
    /\ UNCHANGED <<file, seen, conn, clients, faults, raced, Hub>>

\* A path that is taken again makes bind fail, and exit(1) runs no Drop.
bind(r) ==
    /\ pc[r] = "bind"
    /\ \/ sock = NoLock /\ sock' = r /\ Goes(r, "serve")
       \/ sock # NoLock /\ Goes(r, "done") /\ UNCHANGED sock
    /\ UNCHANGED <<file, seen, conn, clients, faults, raced, Hub>>

\* A client opens a session, starts a turn, and the turn ends.
open_session(p, s) ==
    /\ p \in clients /\ s \notin attached[conn[p]]
    /\ attached' = [attached EXCEPT ![conn[p]] = @ \cup {s}]
    /\ UNCHANGED <<pc, file, seen, sock, conn, clients, turns, todo, idle, exit_tx, faults, raced>>

start_turn(p, s) ==
    /\ p \in clients /\ s \in attached[conn[p]] \ turns[conn[p]]
    /\ turns' = [turns EXCEPT ![conn[p]] = @ \cup {s}]
    /\ UNCHANGED <<pc, file, seen, sock, conn, clients, attached, todo, idle, exit_tx, faults, raced>>

end_turn(r, s) ==
    /\ Listening(r) /\ s \in turns[r] /\ turns' = [turns EXCEPT ![r] = @ \ {s}]
    /\ UNCHANGED <<pc, file, seen, sock, conn, clients, attached, todo, idle, exit_tx, faults, raced>>

\* The end of a check: signal the exit after hub_idle_ms when nothing is warm.
Signal(r, checks, left) ==
    exit_tx' = IF checks >= ExitAfter /\ left = {} THEN exit_tx \cup {r} ELSE exit_tx

Capped(n) == IF n > ExitAfter THEN ExitAfter ELSE n

\* One turn of run_lifecycle_loop: a client or a turn restarts the clock; else, after
\* idle_reap_ms, what is warm is disposed of first.
lifecycle_check(r) ==
    LET checks == Capped(idle[r] + 1) IN
    /\ pc[r] = "serve" /\ r \notin exit_tx
    /\ IF ClientsOf(r) # {} \/ turns[r] # {}
       THEN idle' = [idle EXCEPT ![r] = 0] /\ UNCHANGED <<pc, todo, exit_tx>>
       ELSE /\ idle' = [idle EXCEPT ![r] = checks]
            /\ IF checks >= ReapAfter /\ attached[r] # {}
               THEN Goes(r, "reap") /\ todo' = [todo EXCEPT ![r] = attached[r] \ turns[r]] /\ UNCHANGED exit_tx
               ELSE Signal(r, checks, attached[r]) /\ UNCHANGED <<pc, todo>>
    /\ UNCHANGED <<file, seen, sock, conn, clients, attached, turns, faults, raced>>

\* dispose_idle_warm comes back from its awaits: what has no turn by now leaves the warm map,
\* disposed or not.
dispose_idle_warm(r) ==
    /\ pc[r] = "reap" /\ Goes(r, "serve")
    /\ attached' = [attached EXCEPT ![r] = @ \cap turns[r]]
    /\ todo' = [todo EXCEPT ![r] = {}]
    /\ Signal(r, idle[r], attached[r] \cap turns[r])
    /\ UNCHANGED <<file, seen, sock, conn, clients, turns, idle, faults, raced>>

\* The accept loop sees the signal within a second and main returns: the lock is dropped, the
\* sessions being served are cut, the socket file stays.
stop_accepting(r) ==
    /\ pc[r] = "serve" /\ r \in exit_tx
    /\ Gone(r) /\ file' = release(file, r)
    /\ UNCHANGED <<seen, sock, faults, raced>>

\* Any process may be killed.
kill(x) ==
    /\ x \in Alive /\ faults < MaxFaults /\ faults' = faults + 1
    /\ Gone(x) /\ seen' = [seen EXCEPT ![x] = NoLock]
    /\ UNCHANGED <<file, sock, raced>>

-----------------------------------------------------------------------------
Init ==
    /\ pc = [x \in Pids |-> IF x \in Proxies THEN "off" ELSE "none"]
    /\ file = NoLock /\ sock = NoLock
    /\ seen = [x \in Pids |-> NoLock]
    /\ conn = [p \in Proxies |-> NoLock] /\ clients = {}
    /\ attached = [r \in Runtimes |-> {}] /\ turns = [r \in Runtimes |-> {}]
    /\ todo = [r \in Runtimes |-> {}] /\ idle = [r \in Runtimes |-> 0]
    /\ exit_tx = {} /\ faults = 0 /\ raced = FALSE

ProxyStep(p) ==
    \/ connect(p) \/ proxy_reads(p) \/ proxy_writes(p) \/ retry(p)
    \/ \E r \in Runtimes : spawn(p, r)
    \/ spawn_fails(p) \/ wait_for_socket(p) \/ wait_times_out(p)

RuntimeStep(r) ==
    \/ runtime_reads(r) \/ runtime_writes(r) \/ remove_socket(r) \/ bind(r)
    \/ lifecycle_check(r) \/ dispose_idle_warm(r) \/ stop_accepting(r)

Next ==
    \/ \E p \in Proxies :
        \/ run_stdio_proxy(p) \/ ProxyStep(p) \/ register(p) \/ disconnect(p)
        \/ \E s \in Openable : open_session(p, s) \/ start_turn(p, s)
    \/ \E r \in Runtimes : RuntimeStep(r) \/ \E s \in Openable : end_turn(r, s)
    \/ \E x \in Pids : kill(x)

Spec == Init /\ [][Next]_vars

\* Processes run: the code of a live process goes on, and timers fire.  Nothing makes a user
\* connect or leave, and a turn lasts as long as it lasts.
FairSpec ==
    /\ Spec
    /\ \A p \in Proxies : WF_vars(ProxyStep(p))
    /\ \A r \in Runtimes : WF_vars(RuntimeStep(r))

-----------------------------------------------------------------------------
ProxyStages == {"off", "connect", "read", "write", "retry", "spawn", "wait", "wait_held", "relay",
                "failed", "done"}
RuntimeStages == {"none", "read", "write", "unlink", "bind", "serve", "reap", "done"}

TypeOK ==
    /\ \A p \in Proxies : pc[p] \in ProxyStages /\ conn[p] \in Runtimes \cup {NoLock}
    /\ \A r \in Runtimes : pc[r] \in RuntimeStages
    /\ file \in Pids \cup {NoLock, Garbled} /\ sock \in Runtimes \cup {NoLock}
    /\ clients \subseteq {p \in Proxies : conn[p] # NoLock} /\ exit_tx \subseteq Runtimes

\* Two runtimes never serve the same remote root, whoever is killed and whoever comes back, unless
\* the lock file changed between one process's reading it and writing it (pidlock.rs: the lock is
\* a read followed by a write).
OneRuntime == raced \/ Cardinality({r \in Runtimes : pc[r] \in {"unlink", "bind"} \/ Listening(r)}) <= 1

\* A proxy never hangs: it reaches the relay, gives up or is killed, whatever happens to the
\* holder of the lock and to the runtime it waits for (connect_with_bootstrap).
ProxySettles ==
    \A p \in Proxies : pc[p] = "connect" ~> pc[p] \in {"relay", "failed", "done"}

\* A runtime that stays without clients and turns reaps what is warm and then exits: neither
\* keeps the other from happening (run_lifecycle_loop).
IdleRuntimeExits ==
    (\E r \in Runtimes : Listening(r)) ~>
        \/ clients # {} \/ \E r \in Runtimes : turns[r] # {}
        \/ \A r \in Runtimes : ~Listening(r)

\* Neither end of the bootstrap waits for ever: the proxy settles, the idle runtime exits.
BothEndsSettle == ProxySettles /\ IdleRuntimeExits

\* What the comment on the proxy says ("Bootstrap the runtime if absent (race-safe)"): with
\* no process lost, a proxy does not give up.
BootstrapSucceeds == faults = 0 => \A p \in Proxies : pc[p] # "failed"
=============================================================================
