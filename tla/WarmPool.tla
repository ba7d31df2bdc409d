------------------------------- MODULE WarmPool -------------------------------
(***************************************************************************)
(* The driver's pool of warm sessions: attaching to (or spawning) daemons, *)
(* the event stream and the one consumer task of each attachment, the      *)
(* cached GET /state, least-recently-focused eviction, reload, detach, the *)
(* idle reaper, and how what the consumers emit becomes the hub's journals  *)
(* and running set.                                                        *)
(*                                                                         *)
(* A daemon's transcript is the rows 1..rows.  A connection is one         *)
(* WarmSession; it outlives its place in the pool as long as somebody      *)
(* holds it.  The hub awaits one driver call at a time (`op`), the         *)
(* consumers, the hub's listener and the reaper run beside it.             *)
(***************************************************************************)
EXTENDS Integers, Sequences, SequencesExt, FiniteSets

CONSTANTS
    Null,
    Sessions,
    Opened,     \* sessions attached before, least recently focused first
    Busy,       \* those of them with a turn in flight
    WarmCap,    \* PolytokenInner.warm_cap, 0 for unbounded
    MaxConns,   \* bounds: attachments,
    MaxOps,     \* driver calls,
    MaxRows,    \* rows per transcript,
    MaxExtras   \* and, together: state_changed events, streams lost, idle reaps

Conns == 1..MaxConns
Rows == 1..MaxRows

StreamEvent == [kind : {"start", "complete", "failed", "state", "gap"}]
               \cup [kind : {"row"}, n : Rows]

BusEvent == [kind : {"row"}, sid : Sessions, n : Rows]
            \cup [kind : {"updated"}, sid : Sessions, running : BOOLEAN]
            \cup [kind : {"history"}, sid : Sessions, upto : 0..MaxRows, running : BOOLEAN]
            \cup [kind : {"failed", "closed"}, sid : Sessions]

Effect == [kind : {"complete", "state", "gap"}]
          \cup [kind : {"replay"}, upto : 0..MaxRows, running : BOOLEAN]

Conn == [sid : Sessions, pid : Conns, live : BOOLEAN, cached : BOOLEAN,
         sse : {"connecting", "open", "lost"}, inbox : Seq(StreamEvent),
         effect : Effect \cup {Null}]

\* A call of the hub into the driver, from the await it is at.
Calling == [sid : Sessions, pc : {"dispose", "install", "insert", "evict", "finish", "detach", "echo"},
            reseed : BOOLEAN, conn : Conns \cup {Null}, cold : BOOLEAN, victims : Seq(Sessions),
            closing : Conns \cup {Null}, upto : (0..MaxRows) \cup {Null}, running : BOOLEAN]

ASSUME OpenedAssumption == Opened \in Seq(Sessions) /\ IsInjective(Opened)
ASSUME BusyAssumption == Busy \subseteq ToSet(Opened)
ASSUME ConnsAssumption == MaxConns \in Nat /\ Len(Opened) <= MaxConns /\ MaxRows \in Nat
ASSUME WarmCapAssumption == WarmCap \in Nat
ASSUME NullAssumption ==
    /\ Null \notin Conns /\ Null \notin Conn /\ Null \notin Effect /\ Null \notin Calling
    /\ Null # {}

VARIABLES
    daemon,     \* session -> its process (pid Null: not running), turn, rows
    conns,      \* attachment -> WarmSession, Null before it is made
    warm,       \* PolytokenInner.warm: session -> its attachment, or Null
    order,      \* PolytokenInner.order, least recently focused first
    bus,        \* events emitted and not yet handled by the hub
    journaled,  \* hub: session -> rows of its journal, or Null
    running,    \* hub: sessions shown as running
    viewed,     \* hub: the session the client looks at, or Null
    connected,  \* hub.client_count() > 0
    op,         \* the driver call the hub awaits, or Null
    reap,       \* attachments the reaper has still to dispose, or Null
    owed,       \* history: rows streamed into a live, journaled session
    ops, looks, lapses, reaps   \* bounds used up

pool == <<conns, warm, order>>
hub == <<journaled, running, viewed, connected>>
budget == <<ops, looks, lapses, reaps>>
poolVars == <<daemon, pool, bus, hub, op, reap, owed, budget>>

Spare == looks + lapses + reaps < MaxExtras

Live(i) == conns[i] # Null /\ conns[i].live
IsWarm(s) == warm[s] # Null
Cached(s) == IsWarm(s) /\ conns[warm[s]].cached
Upto(n) == [k \in 1..n |-> k]
Place(s) == CHOOSE i \in DOMAIN Opened : Opened[i] = s

-----------------------------------------------------------------------------
(* Daemons and their event streams *)

\* An event of s's daemon reaches every attachment whose stream is open.
Streamed(s, ev) ==
    [i \in Conns |->
        IF Live(i) /\ conns[i].sid = s /\ conns[i].pid = daemon[s].pid /\ conns[i].sse = "open"
        THEN [conns[i] EXCEPT !.inbox = Append(@, ev)] ELSE conns[i]]

Switching(s) == op # Null /\ op.sid = s /\ op.pc \in {"dispose", "install", "insert", "evict", "finish"}

Watched(s) ==
    /\ IsWarm(s) /\ Live(warm[s]) /\ conns[warm[s]].sse = "open"
    /\ conns[warm[s]].pid = daemon[s].pid
    /\ journaled[s] # Null
    /\ ~Switching(s)

DaemonRow(s) ==
    LET n == daemon[s].rows + 1
    IN  /\ daemon[s].turn /\ n \in Rows
        /\ daemon' = [daemon EXCEPT ![s].rows = n]
        /\ conns' = Streamed(s, [kind |-> "row", n |-> n])
        /\ owed' = IF Watched(s) THEN [owed EXCEPT ![s] = @ \cup {n}] ELSE owed
        /\ UNCHANGED <<warm, order, bus, hub, op, reap, budget>>

\* A turn ends: message_complete, the same after a model_error ("failed"), or
\* turn_cancelled, which like session_state_changed only says "look again".
DaemonEnds(s, how) ==
    /\ daemon[s].turn
    /\ daemon' = [daemon EXCEPT ![s].turn = FALSE]
    /\ conns' = Streamed(s, [kind |-> how])
    /\ UNCHANGED <<warm, order, bus, hub, op, reap, owed, budget>>

\* session_state_changed, facet_switch and the other events that make the
\* consumer fetch GET /state again.
DaemonState(s) ==
    /\ daemon[s].pid # Null /\ Spare
    /\ conns' = Streamed(s, [kind |-> "state"])
    /\ looks' = looks + 1
    /\ UNCHANGED <<daemon, warm, order, bus, hub, op, reap, owed, ops, lapses, reaps>>

\* The stream loop of `subscribe`: connected some time after subscribe returned;
\* lost; connected again, with a synthetic stream_discontinuity in front.
SseOpens(i) ==
    /\ Live(i) /\ conns[i].sse # "open" /\ conns[i].pid = daemon[conns[i].sid].pid
    /\ conns' = [conns EXCEPT ![i].sse = "open",
                              ![i].inbox = IF conns[i].sse = "lost"
                                           THEN Append(@, [kind |-> "gap"]) ELSE @]
    /\ UNCHANGED <<daemon, warm, order, bus, hub, op, reap, owed, budget>>

SseLost(i) ==
    /\ Live(i) /\ conns[i].sse = "open" /\ Spare
    /\ conns' = [conns EXCEPT ![i].sse = "lost"]
    /\ lapses' = lapses + 1
    /\ UNCHANGED <<daemon, warm, order, bus, hub, op, reap, owed, ops, looks, reaps>>

-----------------------------------------------------------------------------
(* The consumer task of an attachment *)

Emit(ev) == bus' = Append(bus, ev)

Updated(s, run) == [kind |-> "updated", sid |-> s, running |-> run]

\* handle_sse_event: emit what the event maps to, then its effect, if it has one.
Consume(i) ==
    LET ev == Head(conns[i].inbox)
        s == conns[i].sid
    IN  /\ Live(i) /\ conns[i].effect = Null /\ conns[i].inbox # <<>>
        /\ conns' = [conns EXCEPT
                       ![i].inbox = Tail(@),
                       ![i].effect = IF ev.kind \in {"complete", "state", "gap"}
                                     THEN [kind |-> ev.kind] ELSE Null]
        /\ bus' = CASE ev.kind = "row" -> Append(bus, [kind |-> "row", sid |-> s, n |-> ev.n])
                    [] ev.kind = "start" -> Append(bus, Updated(s, TRUE))
                    [] ev.kind = "failed" -> Append(bus, [kind |-> "failed", sid |-> s])
                    [] OTHER -> bus
        /\ UNCHANGED <<daemon, warm, order, hub, op, reap, owed, budget>>

\* The answer to GET /state: the process's own turn, or what was known.
State(i) ==
    LET d == daemon[conns[i].sid]
    IN  IF d.pid = conns[i].pid THEN d.turn ELSE conns[i].cached

\* DaemonEffect::FetchState: refresh the cache, then runCompleted (always idle)
\* or sessionUpdated (the refreshed status).
FetchState(i) ==
    /\ Live(i) /\ conns[i].effect # Null /\ conns[i].effect.kind \in {"complete", "state"}
    /\ conns' = [conns EXCEPT ![i].cached = State(i), ![i].effect = Null]
    /\ Emit(Updated(conns[i].sid, conns[i].effect.kind = "state" /\ State(i)))
    /\ UNCHANGED <<daemon, warm, order, hub, op, reap, owed, budget>>

\* DaemonEffect::Reseed: GET /state and GET /history, and nothing if they fail.
Reseed(i) ==
    LET d == daemon[conns[i].sid]
    IN  /\ Live(i) /\ conns[i].effect # Null /\ conns[i].effect.kind = "gap"
        /\ conns' = [conns EXCEPT
                       ![i].cached = State(i),
                       ![i].effect = IF d.pid = conns[i].pid
                                     THEN [kind |-> "replay", upto |-> d.rows, running |-> d.turn]
                                     ELSE Null]
        /\ UNCHANGED <<daemon, warm, order, bus, hub, op, reap, owed, budget>>

\* build_reseed_events: sessionReset, the history, the settling sessionUpdated.
ReplayHistory(i) ==
    LET e == conns[i].effect
    IN  /\ Live(i) /\ e # Null /\ e.kind = "replay"
        /\ conns' = [conns EXCEPT ![i].effect = Null]
        /\ Emit([kind |-> "history", sid |-> conns[i].sid, upto |-> e.upto, running |-> e.running])
        /\ UNCHANGED <<daemon, warm, order, hub, op, reap, owed, budget>>

-----------------------------------------------------------------------------
(* The hub's listener: on_event *)

SetRunning(s, run) == running' = IF run THEN running \cup {s} ELSE running \ {s}

\* A closed session loses its journal unless somebody looks at it.
Ingested(ev) ==
    LET s == ev.sid
    IN  IF ev.kind = "closed" /\ viewed # s THEN [journaled EXCEPT ![s] = Null]
        ELSE IF journaled[s] = Null THEN journaled
        ELSE CASE ev.kind = "row" -> [journaled EXCEPT ![s] = Append(@, ev.n)]
               [] ev.kind = "history" -> [journaled EXCEPT ![s] = Upto(ev.upto)]
               [] OTHER -> journaled

on_event ==
    LET ev == Head(bus)
    IN  /\ bus # <<>>
        /\ bus' = Tail(bus)
        /\ SetRunning(ev.sid, CASE ev.kind = "row" -> TRUE
                                [] ev.kind \in {"updated", "history"} -> ev.running
                                [] OTHER -> FALSE)
        /\ journaled' = Ingested(ev)
        /\ owed' = IF Ingested(ev)[ev.sid] = Null THEN [owed EXCEPT ![ev.sid] = {}] ELSE owed
        /\ UNCHANGED <<daemon, pool, viewed, connected, op, reap, budget>>

\* With a resume token whose journal still covers it, focused on that session.
add_client ==
    /\ ~connected
    /\ connected' = TRUE
    /\ viewed' \in {Null} \cup {s \in Sessions : journaled[s] # Null}
    /\ UNCHANGED <<daemon, pool, bus, journaled, running, op, reap, owed, budget>>

remove_client ==
    /\ connected
    /\ connected' = FALSE
    /\ viewed' = Null
    /\ UNCHANGED <<daemon, pool, bus, journaled, running, op, reap, owed, budget>>

-----------------------------------------------------------------------------
(* Driver calls.  The hub awaits them one at a time. *)

Call(s, pc) ==
    [sid |-> s, pc |-> pc, reseed |-> FALSE, conn |-> Null, cold |-> FALSE,
     victims |-> <<>>, closing |-> Null, upto |-> Null, running |-> FALSE]

Begins == op = Null /\ ops < MaxOps /\ ops' = ops + 1

\* The ids of o that are in `keep`, in their order (Vec::retain).
retain(o, keep) ==
    LET kept[n \in 0..Len(o)] ==
            IF n = 0 THEN <<>>
            ELSE IF o[n] \in keep THEN Append(kept[n - 1], o[n]) ELSE kept[n - 1]
    IN  kept[Len(o)]

\* focus: to the back of the recency order.
focused(o, s) == Append(retain(o, Sessions \ {s}), s)

\* Stop the stream, abort the consumer: what it had not emitted is gone.
Stopped(i) ==
    [conns EXCEPT ![i].live = FALSE, ![i].sse = "connecting", ![i].inbox = <<>>, ![i].effect = Null]

\* child.kill, or /terminate and SIGTERM after an identity check: only the
\* process this attachment was made to.
Killed(i) ==
    LET s == conns[i].sid
    IN  IF daemon[s].pid = conns[i].pid
        THEN [daemon EXCEPT ![s].pid = Null, ![s].turn = FALSE] ELSE daemon

\* Seeded bug in eviction_plan: one too few.
eviction_plan_short(o, protected, evictable) ==
    LET candidates == retain(o, evictable \ {protected})
        need == Len(o) - WarmCap - 1
    IN  IF WarmCap = 0 \/ need <= 0 THEN <<>>
        ELSE SubSeq(candidates, 1, IF need < Len(candidates) THEN need ELSE Len(candidates))

\* The least recently focused evictable ids, as many as exceed the cap.
eviction_plan(o, protected, evictable) ==
    LET candidates == retain(o, evictable \ {protected})
        need == Len(o) - WarmCap
    IN  IF WarmCap = 0 \/ need <= 0 THEN <<>>
        ELSE SubSeq(candidates, 1, IF need < Len(candidates) THEN need ELSE Len(candidates))

\* open_session of a warm session answers from the cache: no history.
OpenWarm(s) ==
    /\ Begins /\ IsWarm(s)
    /\ order' = focused(order, s)
    /\ op' = [Call(s, "finish") EXCEPT !.running = conns[warm[s]].cached]
    /\ UNCHANGED <<daemon, conns, warm, bus, hub, reap, owed, looks, lapses, reaps>>

OpenCold(s) ==
    /\ Begins /\ ~IsWarm(s)
    /\ op' = Call(s, "install")
    /\ UNCHANGED <<daemon, pool, bus, hub, reap, owed, looks, lapses, reaps>>

\* reload_session takes the session out of the pool (not out of the order),
\* disposes it and opens it again.
ReloadSession(s) ==
    /\ Begins
    /\ op' = [Call(s, IF IsWarm(s) THEN "dispose" ELSE "install")
                EXCEPT !.reseed = TRUE, !.conn = warm[s]]
    /\ warm' = [warm EXCEPT ![s] = Null]
    /\ owed' = [owed EXCEPT ![s] = {}]
    /\ UNCHANGED <<daemon, conns, order, bus, hub, reap, looks, lapses, reaps>>

DisposeReloaded ==
    /\ op # Null /\ op.pc = "dispose"
    /\ conns' = Stopped(op.conn)
    /\ daemon' = Killed(op.conn)
    /\ op' = [op EXCEPT !.pc = "install", !.conn = Null]
    /\ UNCHANGED <<warm, order, bus, hub, reap, owed, budget>>

\* install_warm up to the subscription: attach to the running daemon, or spawn
\* one.  A daemon grants its lease to one attachment.
Install(i) ==
    LET s == op.sid
        spawn == daemon[s].pid = Null
        pid == IF spawn THEN i ELSE daemon[s].pid
    IN  /\ op # Null /\ op.pc = "install"
        /\ conns[i] = Null /\ \A k \in Conns : k < i => conns[k] # Null
        /\ ~ \E k \in Conns : Live(k) /\ conns[k].sid = s /\ conns[k].pid = pid
        /\ daemon' = [daemon EXCEPT ![s].pid = pid]
        /\ conns' = [conns EXCEPT ![i] = [sid |-> s, pid |-> pid, live |-> TRUE,
                                          cached |-> daemon[s].turn, sse |-> "connecting",
                                          inbox |-> <<>>, effect |-> Null]]
        /\ op' = [op EXCEPT !.pc = "insert", !.conn = i, !.cold = spawn]
        /\ UNCHANGED <<warm, order, bus, hub, reap, owed, budget>>

\* No lease, no health, no directory, no spawn: the error goes to the client.
InstallFails ==
    /\ op # Null /\ op.pc = "install"
    /\ op' = Null
    /\ UNCHANGED <<daemon, pool, bus, hub, reap, owed, budget>>

\* Into the pool, to the back of the order, and the victims are chosen.
Insert ==
    LET s == op.sid
        o == focused(order, s)
    IN  /\ op # Null /\ op.pc = "insert"
        /\ warm' = [warm EXCEPT ![s] = op.conn]
        /\ order' = o
        /\ op' = [op EXCEPT !.pc = "evict",
                            !.victims = eviction_plan(o, s, {t \in Sessions : t = s \/ ~Cached(t)})]
        /\ UNCHANGED <<daemon, conns, bus, hub, reap, owed, budget>>

\* A victim leaves the pool and is announced closed; its consumer still runs.
EvictClose ==
    LET v == Head(op.victims)
    IN  /\ op # Null /\ op.pc = "evict" /\ op.closing = Null /\ op.victims # <<>>
        /\ op' = [op EXCEPT !.victims = Tail(@), !.closing = warm[v]]
        /\ warm' = [warm EXCEPT ![v] = Null]
        /\ bus' = IF IsWarm(v) THEN Append(bus, [kind |-> "closed", sid |-> v]) ELSE bus
        /\ owed' = [owed EXCEPT ![v] = {}]
        /\ UNCHANGED <<daemon, conns, order, hub, reap, budget>>

\* dispose_warm of the victim.
EvictDispose ==
    /\ op # Null /\ op.pc = "evict" /\ op.closing # Null
    /\ conns' = Stopped(op.closing)
    /\ daemon' = Killed(op.closing)
    /\ order' = retain(order, Sessions \ {conns[op.closing].sid})
    /\ op' = [op EXCEPT !.closing = Null]
    /\ UNCHANGED <<warm, bus, hub, reap, owed, budget>>

\* The seed: status from the cache, rows from GET /history.  Without an answer
\* an attach falls back to a cold start, which finds the session warm and asks
\* again; a cold start returns no seed, an error to the client.
History ==
    LET s == op.sid
        d == daemon[s]
    IN  /\ op # Null /\ op.pc = "evict" /\ op.closing = Null /\ op.victims = <<>>
        /\ order' = focused(order, s)
        /\ op' = CASE d.pid = conns[op.conn].pid ->
                        [op EXCEPT !.pc = "finish", !.upto = d.rows, !.running = conns[op.conn].cached]
                   [] d.pid # conns[op.conn].pid /\ ~op.cold /\ ~IsWarm(s) ->
                        [op EXCEPT !.pc = "install", !.conn = Null]
                   [] OTHER -> Null
        /\ UNCHANGED <<daemon, conns, warm, bus, hub, reap, owed, budget>>

\* finish_switch: an existing journal is kept unless this is a reload.
finish_switch ==
    LET s == op.sid
    IN  /\ op # Null /\ op.pc = "finish"
        /\ SetRunning(s, op.running)
        /\ journaled' = IF op.reseed \/ journaled[s] = Null
                       THEN [journaled EXCEPT ![s] = IF op.upto = Null THEN <<>> ELSE Upto(op.upto)]
                       ELSE journaled
        /\ viewed' = IF connected THEN s ELSE viewed
        /\ op' = Null
        /\ UNCHANGED <<daemon, pool, bus, connected, reap, owed, budget>>

\* detach_session: out of the pool, stop the consumer, release the lease; the
\* daemon goes on.  A session that is not warm is left alone.
DetachSession(s) ==
    /\ Begins /\ IsWarm(s)
    /\ op' = [Call(s, "detach") EXCEPT !.conn = warm[s]]
    /\ warm' = [warm EXCEPT ![s] = Null]
    /\ owed' = [owed EXCEPT ![s] = {}]
    /\ UNCHANGED <<daemon, conns, order, bus, hub, reap, looks, lapses, reaps>>

\* Seeded bug in FinishDetach: the lease is released, the consumer never stopped.
FinishDetach_leaks ==
    /\ op # Null /\ op.pc = "detach"
    /\ Emit([kind |-> "closed", sid |-> op.sid])
    /\ op' = Null
    /\ UNCHANGED <<daemon, conns, warm, order, hub, reap, owed, budget>>

FinishDetach ==
    /\ op # Null /\ op.pc = "detach"
    /\ conns' = Stopped(op.conn)
    /\ Emit([kind |-> "closed", sid |-> op.sid])
    /\ op' = Null
    /\ UNCHANGED <<daemon, warm, order, hub, reap, owed, budget>>

\* prompt: POST, and the user's row is echoed once the daemon has taken it.  A
\* prompt during a turn is queued by the daemon; without a process it fails.
Prompt(s) ==
    LET n == daemon[s].rows + 1
        taken == daemon[s].pid = conns[warm[s]].pid /\ ~daemon[s].turn
    IN  /\ Begins /\ IsWarm(s)
        /\ order' = focused(order, s)
        /\ taken => n \in Rows
        /\ IF taken
           THEN /\ daemon' = [daemon EXCEPT ![s].rows = n, ![s].turn = TRUE]
                /\ conns' = Streamed(s, [kind |-> "start"])
                /\ op' = [Call(s, "echo") EXCEPT !.upto = n]
           ELSE UNCHANGED <<daemon, conns, op>>
        /\ UNCHANGED <<warm, bus, hub, reap, owed, looks, lapses, reaps>>

Echo ==
    /\ op # Null /\ op.pc = "echo"
    /\ Emit([kind |-> "row", sid |-> op.sid, n |-> op.upto])
    /\ op' = Null
    /\ UNCHANGED <<daemon, pool, hub, reap, owed, budget>>

-----------------------------------------------------------------------------
(* The idle reaper: run_lifecycle_loop and dispose_idle_warm *)

ReapStart ==
    /\ reap = Null /\ Spare
    /\ ~connected
    /\ \E s \in Sessions : IsWarm(s)
    /\ \A s \in Sessions : ~Cached(s)
    /\ reap' = {warm[s] : s \in {t \in Sessions : IsWarm(t)}}
    /\ reaps' = reaps + 1
    /\ UNCHANGED <<daemon, pool, bus, hub, op, owed, ops, looks, lapses>>

ReapDispose(i) ==
    /\ reap # Null /\ i \in reap
    /\ conns' = Stopped(i)
    /\ daemon' = Killed(i)
    /\ reap' = reap \ {i}
    /\ owed' = [owed EXCEPT ![conns[i].sid] = {}]
    /\ UNCHANGED <<warm, order, bus, hub, op, budget>>

\* Then the map keeps the sessions with a turn in flight.
ReapFinish ==
    /\ reap = {}
    /\ reap' = Null
    /\ warm' = [s \in Sessions |-> IF Cached(s) THEN warm[s] ELSE Null]
    /\ owed' = [s \in Sessions |-> IF Cached(s) THEN owed[s] ELSE {}]
    /\ UNCHANGED <<daemon, conns, order, bus, hub, op, budget>>

-----------------------------------------------------------------------------
\* A pool in use: each opened session attached, journaled and up to date.
PoolInit ==
    /\ daemon = [s \in Sessions |-> [pid |-> IF s \in ToSet(Opened) THEN Place(s) ELSE Null,
                                     turn |-> s \in Busy, rows |-> 0]]
    /\ conns = [i \in Conns |->
                  IF i \in DOMAIN Opened
                  THEN [sid |-> Opened[i], pid |-> i, live |-> TRUE, cached |-> Opened[i] \in Busy,
                        sse |-> "open", inbox |-> <<>>, effect |-> Null]
                  ELSE Null]
    /\ warm = [s \in Sessions |-> IF s \in ToSet(Opened) THEN Place(s) ELSE Null]
    /\ order = Opened
    /\ bus = <<>>
    /\ journaled = [s \in Sessions |-> IF s \in ToSet(Opened) THEN <<>> ELSE Null]
    /\ running = Busy
    /\ viewed = Null
    /\ connected = FALSE
    /\ op = Null
    /\ reap = Null
    /\ owed = [s \in Sessions |-> {}]
    /\ ops = 0 /\ looks = 0 /\ lapses = 0 /\ reaps = 0

PoolNext ==
    \/ \E s \in Sessions :
          \/ DaemonRow(s) \/ DaemonState(s)
          \/ \E how \in {"complete", "failed", "state"} : DaemonEnds(s, how)
          \/ OpenWarm(s) \/ OpenCold(s) \/ ReloadSession(s) \/ DetachSession(s) \/ Prompt(s)
    \/ \E i \in Conns :
          \/ SseOpens(i) \/ SseLost(i) \/ Consume(i) \/ FetchState(i) \/ Reseed(i) \/ ReplayHistory(i)
          \/ Install(i) \/ ReapDispose(i)
    \/ on_event \/ add_client \/ remove_client
    \/ DisposeReloaded \/ InstallFails \/ Insert \/ EvictClose \/ EvictDispose \/ History
    \/ finish_switch \/ FinishDetach \/ Echo
    \/ ReapStart \/ ReapFinish

PoolSpec == PoolInit /\ [][PoolNext]_poolVars

-----------------------------------------------------------------------------
(* Properties *)

\* The shape of the driver's maps, the channels and the hub's tables; every
\* attachment in the pool is to the session it is filed under.
PoolTypeOK ==
    /\ daemon \in [Sessions -> [pid : Conns \cup {Null}, turn : BOOLEAN, rows : 0..MaxRows]]
    /\ conns \in [Conns -> Conn \cup {Null}]
    /\ warm \in [Sessions -> Conns \cup {Null}]
    /\ \A s \in Sessions : IsWarm(s) => conns[warm[s]] # Null /\ conns[warm[s]].sid = s
    /\ order \in Seq(Sessions)
    /\ bus \in Seq(BusEvent)
    /\ journaled \in [Sessions -> Seq(Rows) \cup {Null}]
    /\ running \subseteq Sessions
    /\ viewed \in Sessions \cup {Null}
    /\ connected \in BOOLEAN
    /\ op \in Calling \cup {Null}
    /\ reap = Null \/ reap \subseteq Conns
    /\ owed \in [Sessions -> SUBSET Rows]
    /\ {ops, looks, lapses, reaps} \subseteq Nat

\* Eviction works on the recency order, not on the pool, and reload, detach and
\* the reaper leave ids in it that are no longer warm.  Nothing warm is ever
\* missing from it, and no id is in it twice.
PoolIsOrdered ==
    /\ \A s \in Sessions : IsWarm(s) => s \in ToSet(order)
    /\ \A a, b \in DOMAIN order : order[a] = order[b] => a = b

\* Whatever stale ids the order holds, a new session leaves the pool within its
\* cap, or only the new one and sessions with a turn known to be in flight stay.
CapRespected ==
    [][op # Null /\ op.pc = "insert" /\ op'.pc = "evict" =>
          LET stay == {s \in Sessions : warm'[s] # Null} \ ToSet(op'.victims)
          IN  \/ WarmCap = 0
              \/ Cardinality(stay) <= WarmCap
              \/ \A s \in stay \ {op.sid} : conns[warm[s]].cached]_poolVars

\* A consumer runs for every warm session and for nothing else, but for the
\* attachment a driver call has in hand: what is torn down is torn down whole.
\* The reaper forgets attachments made while it disposes of the others, so this
\* is claimed until it first runs.
LiveIffWarm ==
    reaps = 0 =>
        \A i \in Conns :
            /\ Live(i) => warm[conns[i].sid] = i \/ (op # Null /\ i \in {op.conn, op.closing})
            /\ \A s \in Sessions : warm[s] = i => Live(i)

\* Row n of s is on its way to the journal, or there.
Kept(s, n) ==
    \/ n \in ToSet(journaled[s])
    \/ \E k \in DOMAIN conns[warm[s]].inbox : conns[warm[s]].inbox[k] = [kind |-> "row", n |-> n]
    \/ \E k \in DOMAIN bus : /\ bus[k].sid = s
                             /\ \/ bus[k].kind = "row" /\ bus[k].n = n
                                \/ bus[k].kind = "history" /\ bus[k].upto >= n

\* An attachment the reaper forgot, made while it disposed of the others: it
\* consumes on though nobody holds it.
Forgotten(s) ==
    \E i \in Conns : /\ Live(i) /\ conns[i].sid = s /\ warm[s] # i
                     /\ op = Null \/ i \notin {op.conn, op.closing}

\* A row streamed while its session is warm, connected and journaled is never
\* lost between the stream, the consumer, the listener and the journal, however
\* gaps, reseeds, switches of other sessions and evictions fall in between.  A
\* forgotten attachment may still replay what it read before.
LiveRowsKept == \A s \in Sessions : Forgotten(s) \/ \A n \in owed[s] : Kept(s, n)

\* The pool, its recency order, its consumers and their rows belong together.
WarmSessionsAreWhole == PoolIsOrdered /\ LiveIffWarm /\ LiveRowsKept

\* install_warm and warm_cap.rs: a session with a running turn is never evicted.
TurnsSurviveEviction ==
    [][op # Null /\ op.closing # Null /\ op' # Null /\ op'.closing = Null =>
          ~daemon[conns[op.closing].sid].turn]_poolVars
=============================================================================
