----------------------------- MODULE SessionSync -----------------------------
(***************************************************************************)
(* How a transcript reaches a browser tab and stays right there.           *)
(*                                                                         *)
(* The hub keeps one journal per live session (hub.rs, journal.rs).  Every *)
(* driver event is stamped <<epoch, seq>> by the journal and pushed with   *)
(* try_send into the bounded channel of each client focused on the         *)
(* session.  The tab (store.svelte.ts) folds what arrives behind a         *)
(* watermark, asks for a fresh seed when it sees a gap, and presents the   *)
(* watermark as a resume token when its socket comes back.  Session        *)
(* switches run as operations on the hub's single serial queue.            *)
(*                                                                         *)
(* A transcript is the sequence of its events.  Delta coalescing replaces  *)
(* adjacent events by one that folds to the same state, so it is invisible *)
(* here; module SessionFold is about that.                                 *)
(***************************************************************************)
EXTENDS Integers, Sequences, FiniteSets

CONSTANTS
    Session,        \* session ids
    Client,         \* browser tabs
    Event,          \* driver events
    Seeds,          \* transcripts the driver may hand out on attach / reset
    DefaultFocus,   \* landing session of the mock driver, None in production
    None,           \* "no session", "no journal", "no operation", "client gone"
    TailMaxFrames,  \* journal.rs TAIL_MAX_FRAMES
    ChanCap,        \* slots of a client's outbound mpsc channel (128 in add_client)
    MaxEpoch,       \* bound: journals ever created
    MaxSeq,         \* bound: events stamped per epoch
    MaxOpens,       \* bound: sessions opened by users
    MaxReloads,     \* bound: sessions reloaded by users
    MaxDrops,       \* bound: lost connections and hub restarts
    MaxUpsets,      \* bound: reloads, lost connections and restarts together
    MaxUp           \* bound: client messages in flight on one socket

ASSUME DefaultAssumption == DefaultFocus \in Session \cup {None}
ASSUME SeedsAssumption == Seeds \subseteq Seq(Event) \ {<<>>}
ASSUME CapAssumption == TailMaxFrames \in Nat /\ ChanCap \in Nat \ {0}

VARIABLES
    journals,   \* hub.journals: Session -> journal or None
    epochCounter, \* hub.epoch_counter, as an offset from its start value
    focus,      \* hub.clients[c].focused_id
    clients,    \* DOMAIN hub.clients: the tabs with an open, greeted socket
    chan,       \* outbound channel of each connection, oldest first
    up,         \* client messages on their way to the hub, oldest first
    opq,        \* hub_ops: the serial operation queue
    cur,        \* the switch the applier is executing, or None
    store,      \* the tab's fold: watermark, transcript and seed bookkeeping
    opens,      \* sessions opened by users so far
    reloads,    \* sessions reloaded by users so far
    drops,      \* connections lost and restarts so far
    hist        \* history variable: hist[e] is everything epoch e ever stood for

hubVars == <<journals, epochCounter, hist>>
netVars == <<clients, chan, up>>
opVars == <<opq, cur>>
bounds == <<opens, reloads, drops>>
vars == <<hubVars, focus, netVars, opVars, store, bounds>>

-----------------------------------------------------------------------------
(* Types *)

Frame == [seq: Nat, ev: Event]
Journal == [epoch: Nat, seq: Nat, compacted: Seq(Event), tail: Seq(Frame)]
Epoch == [sid: Session, base: Nat, events: Seq(Event)]

HelloMsg == [type: {"hello"}]
SeedMsg == [type: {"seed"}, sid: Session \cup {None}, epoch: Nat, seq: Nat,
            events: Seq(Event)]
EventMsg == [type: {"event"}, epoch: Nat, seq: Nat, ev: Event]
ListMsg == [type: {"sessionList"}, active: Session \cup {None}]
ServerMsg == HelloMsg \cup SeedMsg \cup EventMsg \cup ListMsg

ClientMsg == [type: {"requestSeed"}]
             \cup [type: {"openSession", "reloadSession"}, sid: Session]

\* `client` is None once the connection that asked is gone: its client_key is
\* never reused, so a later connection of the same tab is not addressed.
SwitchOp == [kind: {"switch"}, client: Client \cup {None}, sid: Session,
             reseed: BOOLEAN]
ListOp == [kind: {"connectList"}, client: Client \cup {None},
           active: Session \cup {None}]
          \cup [kind: {"switchList"}]
Op == SwitchOp \cup ListOp

Switch == [phase: {"fetching", "switched"}, client: Client \cup {None},
           sid: Session, reseed: BOOLEAN]
          \cup [phase: {"reseeding"}, client: Client \cup {None}, msg: SeedMsg]

Store == [sid: Session \cup {None}, epoch: Nat, seq: Nat, view: Seq(Event),
          requested: BOOLEAN, booted: BOOLEAN,
          restore: Session \cup {None}, active: Session \cup {None}]

\* Absence is none of the things that can be absent.
ASSUME NoneAssumption ==
    None \notin Session /\ None \notin Client /\ None \notin Journal /\ None \notin Switch

TypeOK ==
    /\ journals \in [Session -> Journal \cup {None}]
    /\ epochCounter \in Nat
    /\ focus \in [Client -> Session \cup {None}]
    /\ clients \in SUBSET Client
    /\ chan \in [Client -> Seq(ServerMsg)]
    /\ up \in [Client -> Seq(ClientMsg)]
    /\ opq \in Seq(Op)
    /\ cur \in Switch \cup {None}
    /\ store \in [Client -> Store]
    /\ opens \in Nat /\ reloads \in Nat
    /\ drops \in Nat
    /\ hist \in Seq(Epoch)

-----------------------------------------------------------------------------
(* journal.rs *)

create_journal(epoch, seed) ==
    [epoch |-> epoch, seq |-> 0, compacted |-> seed, tail |-> <<>>]

\* Events of a run of frames, oldest first.
EventsOf(frames) == [i \in 1..Len(frames) |-> frames[i].ev]

\* Seeded bug in append_event: evicted frames are forgotten, not compacted.
append_event_forgets(j, ev, evict) ==
    LET ring == Append(j.tail, [seq |-> j.seq + 1, ev |-> ev])
    IN  [j EXCEPT !.seq = @ + 1, !.tail = SubSeq(ring, evict + 1, Len(ring))]

\* The new frame joins the ring; the oldest frames leave it for the compacted
\* prefix while the ring is over its frame cap or its byte cap.  Sizes are not
\* modelled: the byte cap may evict any number of frames, all of them included.
append_event(j, ev, evict) ==
    LET ring == Append(j.tail, [seq |-> j.seq + 1, ev |-> ev])
    IN  [j EXCEPT !.seq = @ + 1,
                  !.compacted = @ \o EventsOf(SubSeq(ring, 1, evict)),
                  !.tail = SubSeq(ring, evict + 1, Len(ring))]

Evictions(j) == {k \in 0..Len(j.tail) + 1 : Len(j.tail) + 1 - k <= TailMaxFrames}

\* Seeded bug in tail_covers: any watermark the journal has passed is covered.
tail_covers_any(j, seq) == seq <= j.seq

tail_covers(j, seq) ==
    /\ seq <= j.seq
    /\ \/ seq = j.seq
       \/ j.tail # <<>> /\ j.tail[1].seq <= seq + 1

build_seed(j) == j.compacted \o EventsOf(j.tail)

\* The frames a resuming client lacks.  Ring seqs ascend, so they are what is
\* left after the frames at or below its watermark.
Replay(j, seq) ==
    LET have == Cardinality({i \in 1..Len(j.tail) : j.tail[i].seq <= seq})
        missed == SubSeq(j.tail, have + 1, Len(j.tail))
    IN  [i \in 1..Len(missed) |-> [type |-> "event", epoch |-> j.epoch,
                                   seq |-> missed[i].seq, ev |-> missed[i].ev]]

-----------------------------------------------------------------------------
(* hub.rs helpers *)

HasJournal(s) == journals[s] # None

\* Seeded bug in seed_msg: the ring is left out, stamp and all.
seed_msg_compacted(js, s) ==
    IF s # None /\ js[s] # None
    THEN [type |-> "seed", sid |-> s, epoch |-> js[s].epoch,
          seq |-> js[s].seq - Len(js[s].tail), events |-> js[s].compacted]
    ELSE [type |-> "seed", sid |-> s, epoch |-> 0, seq |-> 0, events |-> <<>>]

seed_msg(js, s) ==
    IF s # None /\ js[s] # None
    THEN [type |-> "seed", sid |-> s, epoch |-> js[s].epoch, seq |-> js[s].seq,
          events |-> build_seed(js[s])]
    ELSE [type |-> "seed", sid |-> s, epoch |-> 0, seq |-> 0, events |-> <<>>]

list_msg(active) == [type |-> "sessionList", active |-> active]

\* try_send: what does not fit into the channel is silently dropped.
try_send(q, msgs) ==
    LET all == q \o msgs
    IN  IF Len(all) <= ChanCap THEN all ELSE SubSeq(all, 1, ChanCap)

clients_focused(s) == {c \in clients : focus[c] = s}

\* Push the same message to a set of clients.
Push(to, msg) ==
    [c \in Client |-> IF c \in to THEN try_send(chan[c], <<msg>>) ELSE chan[c]]

enqueue(op) == opq' = Append(opq, op)

\* Start a journal for s under the next epoch.
StartEpoch(s, seed) ==
    /\ epochCounter < MaxEpoch
    /\ epochCounter' = epochCounter + 1
    /\ journals' = [journals EXCEPT ![s] = create_journal(epochCounter + 1, seed)]
    /\ hist' = Append(hist, [sid |-> s, base |-> Len(seed), events |-> seed])

-----------------------------------------------------------------------------
(* Driver events: hub.on_event *)

\* Seeded bug in IngestNow: the frame carries the stamp before the append.
IngestNow_stale_stamp(s) ==
    /\ HasJournal(s)
    /\ journals[s].seq < MaxSeq
    /\ \E ev \in Event, k \in Evictions(journals[s]) :
          LET j == append_event(journals[s], ev, k)
          IN  /\ journals' = [journals EXCEPT ![s] = j]
              /\ hist' = [hist EXCEPT ![j.epoch].events = Append(@, ev)]
              /\ chan' = Push(clients_focused(s), [type |-> "event",
                              epoch |-> j.epoch, seq |-> journals[s].seq, ev |-> ev])
    /\ UNCHANGED <<epochCounter, focus, clients, up, opVars, store, bounds>>

\* An ordinary event of a session: stamped if the session has a journal and
\* routed to the clients focused on it; otherwise dropped.
IngestNow(s) ==
    /\ HasJournal(s)
    /\ journals[s].seq < MaxSeq
    /\ \E ev \in Event, k \in Evictions(journals[s]) :
          LET j == append_event(journals[s], ev, k)
          IN  /\ journals' = [journals EXCEPT ![s] = j]
              /\ hist' = [hist EXCEPT ![j.epoch].events = Append(@, ev)]
              /\ chan' = Push(clients_focused(s), [type |-> "event",
                              epoch |-> j.epoch, seq |-> j.seq, ev |-> ev])
    /\ UNCHANGED <<epochCounter, focus, clients, up, opVars, store, bounds>>

\* sessionReset: the journal restarts under a new epoch from the meta prefix of
\* the folded state, and every viewer gets the new seed.
SessionReset(s) ==
    /\ HasJournal(s)
    /\ \E meta \in Seeds : StartEpoch(s, meta)
    /\ chan' = Push(clients_focused(s), seed_msg(journals', s))
    /\ UNCHANGED <<focus, clients, up, opVars, store, bounds>>

\* sessionClosed is stamped and routed like any event (IngestNow), and then
\* drops the journal, stamp included, of a session that is neither the landing
\* session nor viewed by anyone.
SessionClosed(s) ==
    /\ HasJournal(s)
    /\ s # DefaultFocus
    /\ clients_focused(s) = {}
    /\ journals' = [journals EXCEPT ![s] = None]
    /\ UNCHANGED <<epochCounter, hist, focus, netVars, opVars, store, bounds>>

-----------------------------------------------------------------------------
(* Connections: connection/mod.rs run, hub.add_client, hub.remove_client *)

\* The resume token of the tab's hello: the watermark, once it has one.
HasToken(st) == st.sid # None /\ st.epoch > 0

\* The journal can serve the token from its tail.
Resumable(st) ==
    /\ HasToken(st)
    /\ HasJournal(st.sid)
    /\ journals[st.sid].epoch = st.epoch
    /\ tail_covers(journals[st.sid], st.seq)

\* Focus of a fresh connection.
GreetFocus(st) == IF Resumable(st) THEN st.sid ELSE DefaultFocus

\* Greeting after the hello: the missed frames; a full seed of the session the
\* token names; or, if that has no journal, the landing seed.
Greeting(st) ==
    IF Resumable(st) THEN Replay(journals[st.sid], st.seq)
    ELSE IF HasToken(st) /\ HasJournal(st.sid) THEN <<seed_msg(journals, st.sid)>>
    ELSE <<seed_msg(journals, DefaultFocus)>>

\* A tab's socket opens, its hello is accepted and the hub registers it.  No
\* message can reach the tab in between, so the token is still its watermark.
Connect(c) ==
    /\ c \notin clients
    /\ clients' = clients \cup {c}
    /\ focus' = [focus EXCEPT ![c] = GreetFocus(store[c])]
    /\ chan' = [chan EXCEPT ![c] =
                  try_send(<<[type |-> "hello"]>>, Greeting(store[c]))]
    /\ enqueue([kind |-> "connectList", client |-> c,
                active |-> GreetFocus(store[c])])
    /\ UNCHANGED <<hubVars, up, cur, store, bounds>>

\* An operation queued by a connection that is gone.
Orphan(op, gone) ==
    IF op.kind # "switchList" /\ op.client \in gone THEN [op EXCEPT !.client = None]
    ELSE op

\* The socket is lost: whatever was in flight either way is gone with it.
Disconnect(c) ==
    /\ c \in clients
    /\ drops < MaxDrops /\ drops + reloads < MaxUpsets
    /\ drops' = drops + 1
    /\ clients' = clients \ {c}
    /\ focus' = [focus EXCEPT ![c] = None]
    /\ chan' = [chan EXCEPT ![c] = <<>>]
    /\ up' = [up EXCEPT ![c] = <<>>]
    /\ opq' = [i \in 1..Len(opq) |-> Orphan(opq[i], {c})]
    /\ cur' = IF cur # None /\ cur.client = c THEN [cur EXCEPT !.client = None]
              ELSE cur
    /\ UNCHANGED <<hubVars, store, opens, reloads>>

\* The hub process is replaced (crash, update).  Tabs survive with their
\* watermarks.  epoch_counter restarts from the clock, which is taken to be
\* ahead of every epoch the old process issued.
Restart ==
    /\ drops < MaxDrops /\ drops + reloads < MaxUpsets
    /\ drops' = drops + 1
    /\ clients' = {}
    /\ focus' = [c \in Client |-> None]
    /\ chan' = [c \in Client |-> <<>>]
    /\ up' = [c \in Client |-> <<>>]
    /\ opq' = <<>>
    /\ cur' = None
    /\ \/ /\ DefaultFocus = None
          /\ journals' = [s \in Session |-> None]
          /\ UNCHANGED <<epochCounter, hist>>
       \/ /\ DefaultFocus # None
          /\ epochCounter < MaxEpoch
          /\ epochCounter' = epochCounter + 1
          /\ \E seed \in Seeds :
               /\ journals' = [s \in Session |->
                     IF s = DefaultFocus THEN create_journal(epochCounter', seed)
                     ELSE None]
               /\ hist' = Append(hist, [sid |-> DefaultFocus, base |-> Len(seed),
                                        events |-> seed])
    /\ UNCHANGED <<store, opens, reloads>>

-----------------------------------------------------------------------------
(* The tab: store.svelte.ts *)

\* session.ref: named by the folded events, so absent after an empty seed.
Shown(st) == IF st.view = <<>> THEN None ELSE st.sid

\* The tab takes the oldest message of its channel.
Receives(c, type) ==
    /\ c \in clients
    /\ chan[c] # <<>>
    /\ Head(chan[c]).type = type
    /\ chan' = [chan EXCEPT ![c] = Tail(@)]
    /\ UNCHANGED <<hubVars, focus, clients, opVars, bounds>>

send(c, msg) ==
    /\ Len(up[c]) < MaxUp
    /\ up' = [up EXCEPT ![c] = Append(@, msg)]

\* A hello after the first is a reconnect: remember what is on screen.
OnHello(c) ==
    /\ Receives(c, "hello")
    /\ store' = [store EXCEPT ![c].booted = TRUE,
                              ![c].restore = IF store[c].booted
                                             THEN Shown(store[c]) ELSE @]
    /\ UNCHANGED up

\* Adopt the seed and its watermark; it also settles an open seed request.
OnSeed(c) ==
    /\ Receives(c, "seed")
    /\ LET m == Head(chan[c])
       IN  store' = [store EXCEPT ![c].sid = m.sid, ![c].epoch = m.epoch,
                                  ![c].seq = m.seq, ![c].view = m.events,
                                  ![c].requested = FALSE]
    /\ UNCHANGED up

\* Seeded bug in OnEvent: a gap is folded over.
OnEvent_ungated(c) ==
    /\ Receives(c, "event")
    /\ LET m == Head(chan[c]) st == store[c]
       IN  IF m.epoch = st.epoch /\ m.seq > st.seq
           THEN store' = [store EXCEPT ![c].seq = m.seq, ![c].view = Append(@, m.ev)]
           ELSE UNCHANGED store
    /\ UNCHANGED up

\* The stamp gate.  Another epoch: drop the frame.  The next seq: fold it.
\* Any other seq: drop it and ask for a seed, once.
OnEvent(c) ==
    /\ Receives(c, "event")
    /\ LET m == Head(chan[c]) st == store[c]
       IN  \/ /\ m.epoch # st.epoch
              /\ UNCHANGED <<store, up>>
           \/ /\ m.epoch = st.epoch
              /\ m.seq = st.seq + 1
              /\ store' = [store EXCEPT ![c].seq = m.seq,
                                        ![c].view = Append(@, m.ev),
                                        ![c].requested = FALSE]
              /\ UNCHANGED up
           \/ /\ m.epoch = st.epoch
              /\ m.seq # st.seq + 1
              /\ store' = [store EXCEPT ![c].requested = TRUE]
              /\ IF st.requested THEN UNCHANGED up
                 ELSE send(c, [type |-> "requestSeed"])

\* The list names the focus the hub has for this tab.  maybeRestoreFocus then
\* reopens the session that was on screen before a reconnect, if it no longer
\* is; openSession sends nothing when the hub is already there.
OnSessionList(c) ==
    /\ Receives(c, "sessionList")
    /\ LET m == Head(chan[c])
           want == store[c].restore
       IN  /\ store' = [store EXCEPT ![c].active = m.active, ![c].restore = None]
           /\ IF want # None /\ Shown(store[c]) # want /\ want # m.active
              THEN send(c, [type |-> "openSession", sid |-> want])
              ELSE UNCHANGED up

\* The user picks another session in the sidebar.
UserOpen(c, s) ==
    /\ c \in clients
    /\ opens < MaxOpens
    /\ opens' = opens + 1
    /\ s # store[c].active
    /\ send(c, [type |-> "openSession", sid |-> s])
    /\ UNCHANGED <<hubVars, focus, clients, chan, opVars, store, reloads, drops>>

\* The user reloads a session from disk.
UserReload(c, s) ==
    /\ c \in clients
    /\ reloads < MaxReloads /\ drops + reloads < MaxUpsets
    /\ reloads' = reloads + 1
    /\ send(c, [type |-> "reloadSession", sid |-> s])
    /\ UNCHANGED <<hubVars, focus, clients, chan, opVars, store, opens, drops>>

-----------------------------------------------------------------------------
(* hub.handle_client *)

Handles(c, types) ==
    /\ c \in clients
    /\ up[c] # <<>>
    /\ Head(up[c]).type \in types
    /\ up' = [up EXCEPT ![c] = Tail(@)]
    /\ UNCHANGED <<hubVars, focus, clients, cur, store, bounds>>

\* RequestSeed is answered at once, for the focus the hub has for the client.
HandleRequestSeed(c) ==
    /\ Handles(c, {"requestSeed"})
    /\ chan' = Push({c}, seed_msg(journals, focus[c]))
    /\ UNCHANGED opq

\* OpenSession and ReloadSession only queue the switch.
HandleSwitch(c) ==
    /\ Handles(c, {"openSession", "reloadSession"})
    /\ LET m == Head(up[c])
       IN  enqueue([kind |-> "switch", client |-> c, sid |-> m.sid,
                    reseed |-> m.type = "reloadSession"])
    /\ UNCHANGED chan

-----------------------------------------------------------------------------
(* The operation applier: run_hub_op_applier, switch_to, finish_switch *)

\* The applier starts a switch: the driver is asked for the transcript.
StartSwitch ==
    /\ cur = None
    /\ opq # <<>>
    /\ Head(opq).kind = "switch"
    /\ cur' = [phase |-> "fetching", client |-> Head(opq).client,
               sid |-> Head(opq).sid, reseed |-> Head(opq).reseed]
    /\ opq' = Tail(opq)
    /\ UNCHANGED <<hubVars, focus, netVars, store, bounds>>

\* The driver failed or returned no event: the requester gets an error message,
\* which moves nothing here.
FailSwitch ==
    /\ cur # None /\ cur.phase = "fetching"
    /\ cur' = None
    /\ UNCHANGED <<hubVars, focus, netVars, opq, store, bounds>>

\* The fetched transcript starts a journal, unless the session has one and the
\* switch does not reseed; the requester, if still there, is focused and seeded
\* under the same lock.  A plain open is then over; a reseed goes on.
FinishSwitch ==
    /\ cur # None /\ cur.phase = "fetching"
    /\ LET s == cur.sid
       IN  /\ \/ /\ cur.reseed \/ ~HasJournal(s)
                 /\ \E seed \in Seeds : StartEpoch(s, seed)
              \/ /\ ~cur.reseed /\ HasJournal(s)
                 /\ UNCHANGED hubVars
           /\ IF cur.client = None THEN UNCHANGED <<focus, chan>>
              ELSE /\ focus' = [focus EXCEPT ![cur.client] = s]
                   /\ chan' = Push({cur.client}, seed_msg(journals', s))
    /\ IF cur.reseed
       THEN cur' = [cur EXCEPT !.phase = "switched"] /\ UNCHANGED opq
       ELSE cur' = None /\ enqueue([kind |-> "switchList"])
    /\ UNCHANGED <<clients, up, store, bounds>>

\* Reseed of the other viewers, first half: the message is built under the lock.
BuildReseed ==
    /\ cur # None /\ cur.phase = "switched"
    /\ cur' = [phase |-> "reseeding", client |-> cur.client,
               msg |-> seed_msg(journals, cur.sid)]
    /\ UNCHANGED <<hubVars, focus, netVars, opq, store, bounds>>

\* Second half: the viewers are looked up and sent that message.  Events may
\* have been stamped and routed since.
SendReseed ==
    /\ cur # None /\ cur.phase = "reseeding"
    /\ chan' = Push(clients_focused(cur.msg.sid) \ {cur.client}, cur.msg)
    /\ cur' = None
    /\ enqueue([kind |-> "switchList"])
    /\ UNCHANGED <<hubVars, focus, clients, up, store, bounds>>

\* connect_session_list: to one client, with the focus it had when it connected.
RunConnectList ==
    /\ cur = None
    /\ opq # <<>>
    /\ Head(opq).kind = "connectList"
    /\ chan' = IF Head(opq).client = None THEN chan
               ELSE Push({Head(opq).client}, list_msg(Head(opq).active))
    /\ opq' = Tail(opq)
    /\ UNCHANGED <<hubVars, focus, clients, up, cur, store, bounds>>

\* broadcast_session_list_with: to everyone, each with its own focus.
RunSwitchList ==
    /\ cur = None
    /\ opq # <<>>
    /\ Head(opq).kind = "switchList"
    /\ chan' = [c \in Client |-> IF c \in clients
                                 THEN try_send(chan[c], <<list_msg(focus[c])>>)
                                 ELSE chan[c]]
    /\ opq' = Tail(opq)
    /\ UNCHANGED <<hubVars, focus, clients, up, cur, store, bounds>>

-----------------------------------------------------------------------------
(* Specification *)

\* Seeded bug in EmptyStore: the watermark starts at a sentinel, not at zero.
EmptyStore_sentinel ==
    [sid |-> None, epoch |-> 0, seq |-> -1, view |-> <<>>, requested |-> FALSE,
     booted |-> FALSE, restore |-> None, active |-> None]

EmptyStore == [sid |-> None, epoch |-> 0, seq |-> 0, view |-> <<>>,
               requested |-> FALSE, booted |-> FALSE, restore |-> None,
               active |-> None]

\* SessionHub::new with seed_default; no tab has connected yet.
Init ==
    /\ \/ /\ DefaultFocus = None
          /\ journals = [s \in Session |-> None]
          /\ epochCounter = 0
          /\ hist = <<>>
       \/ /\ DefaultFocus # None
          /\ epochCounter = 1
          /\ \E seed \in Seeds :
               /\ journals = [s \in Session |->
                     IF s = DefaultFocus THEN create_journal(1, seed) ELSE None]
               /\ hist = <<[sid |-> DefaultFocus, base |-> Len(seed),
                            events |-> seed]>>
    /\ focus = [c \in Client |-> None]
    /\ clients = {}
    /\ chan = [c \in Client |-> <<>>]
    /\ up = [c \in Client |-> <<>>]
    /\ opq = <<>>
    /\ cur = None
    /\ store = [c \in Client |-> EmptyStore]
    /\ opens = 0 /\ reloads = 0
    /\ drops = 0

Applier == \/ StartSwitch \/ FailSwitch \/ FinishSwitch \/ BuildReseed
           \/ SendReseed \/ RunConnectList \/ RunSwitchList

TabReceives(c) == OnHello(c) \/ OnSeed(c) \/ OnEvent(c) \/ OnSessionList(c)

HubHandles(c) == HandleRequestSeed(c) \/ HandleSwitch(c)

Next ==
    \/ \E s \in Session : IngestNow(s) \/ SessionReset(s) \/ SessionClosed(s)
    \/ \E c \in Client : \/ Connect(c) \/ Disconnect(c)
                         \/ TabReceives(c) \/ HubHandles(c)
    \/ \E c \in Client, s \in Session : UserOpen(c, s) \/ UserReload(c, s)
    \/ Restart
    \/ Applier

Spec == Init /\ [][Next]_vars

-----------------------------------------------------------------------------
(* Properties *)

\* `events` is epoch e of session s up to stamp `seq`, or the empty landing, in
\* the history h.
Truthful(h, s, e, seq, events) ==
    \/ e = 0 /\ seq = 0 /\ events = <<>>
    \/ /\ e \in 1..Len(h)
       /\ h[e].sid = s
       /\ Len(events) = h[e].base + seq
       /\ Len(events) <= Len(h[e].events)
       /\ \A i \in 1..Len(events) : events[i] = h[e].events[i]

\* What a tab shows is, at every instant, a transcript the hub really had: the
\* seed of one epoch of one session followed by the first seq events stamped in
\* that epoch, none missing, repeated, reordered or mixed in from another epoch
\* or session, whatever was dropped, resumed, reset, reseeded or restarted.
\* (store.svelte.ts stamp gate, hub add_client resume.)
ViewIsPrefix ==
    \A c \in Client :
       Truthful(hist, store[c].sid, store[c].epoch, store[c].seq, store[c].view)

\* A seed carries a whole prefix of its epoch, an event frame the event that
\* epoch stamped with that seq.
MsgTruthful(h, m) ==
    /\ m.type = "seed" => Truthful(h, m.sid, m.epoch, m.seq, m.events)
    /\ m.type = "event" =>
          /\ m.epoch \in 1..Len(h)
          /\ m.seq \in 1..Len(h[m.epoch].events) - h[m.epoch].base
          /\ m.ev = h[m.epoch].events[h[m.epoch].base + m.seq]

Entries(q) == {q[i] : i \in 1..Len(q)}

\* No message in flight, and no reseed the applier still holds, ever lies about
\* the epoch it is stamped with, however long it waits in a channel.
InFlightTruthful ==
    /\ \A c \in Client : \A m \in Entries(chan[c]) : MsgTruthful(hist, m)
    /\ cur # None /\ cur.phase = "reseeding" => MsgTruthful(hist, cur.msg)

\* The journal of a session stands for its whole epoch: compacted prefix and
\* ring together are every event since the seed, and the ring is the contiguous
\* run of stamps that ends at seq, whatever was evicted (journal.rs:8-9).
JournalTruthful(h, s, j) ==
    /\ j.epoch \in 1..Len(h)
    /\ h[j.epoch].sid = s
    /\ build_seed(j) = h[j.epoch].events
    /\ h[j.epoch].base + j.seq = Len(h[j.epoch].events)
    /\ Len(j.tail) <= j.seq
    /\ \A i \in 1..Len(j.tail) : j.tail[i].seq = j.seq - Len(j.tail) + i

\* Every live journal stands for its whole epoch, and a resume served from its
\* ring can therefore miss nothing (journal.rs append_event, tail_covers).
JournalsTruthful ==
    \A s \in Session : HasJournal(s) => JournalTruthful(hist, s, journals[s])

\* A client the hub routes events to always has a journal behind its focus:
\* sessionClosed, switches, reconnects and restarts never leave a viewer on a
\* session whose events on_event would discard.
FocusHasJournal ==
    \A c \in Client : focus[c] # None => c \in clients /\ HasJournal(focus[c])

\* Nothing is on its way to or from a tab, and the operation queue is idle.
Quiet ==
    /\ opq = <<>> /\ cur = None
    /\ \A c \in Client : chan[c] = <<>> /\ up[c] = <<>>

Current(c) ==
    /\ store[c].sid = focus[c]
    /\ store[c].epoch = journals[focus[c]].epoch
    /\ store[c].seq = journals[focus[c]].seq

\* Once everything sent has arrived, a focused tab shows the whole journal of
\* its focus, if no channel ever filled up (journal.rs:8-9).
QuietViewsCurrent ==
    Quiet => \A c \in clients : focus[c] # None => Current(c)

\* A viewer is served: there is always a journal behind its focus, and at rest the
\* tab shows all of it.
ViewersAreServed == FocusHasJournal /\ QuietViewsCurrent

\* Once everything sent has arrived, the hub routes to a tab the events of the
\* session it shows (store.svelte.ts maybeRestoreFocus after a reconnect).
QuietViewsRouted ==
    Quiet => \A c \in clients : Shown(store[c]) # None => focus[c] = Shown(store[c])

\* A tab that asked for a seed gets out of that state: the one request it may
\* have outstanding is never lost for good (store.svelte.ts requestSeed).
GapHeals ==
    \A c \in Client : store[c].requested ~> ~store[c].requested

\* A tab's watermark never runs backwards within an epoch: no seed takes away
\* events the tab already showed (finish_switch, requestSeed, resume).
ViewNeverRegresses ==
    [][\A c \in Client : store'[c].epoch = store[c].epoch => store'[c].seq >= store[c].seq]_vars

\* The runtime keeps running the applier and the socket tasks: whatever is
\* queued is eventually handled.  Nothing is assumed of users, of the driver's
\* events or of connections.
Fairness ==
    /\ WF_vars(Applier)
    /\ \A c \in Client : WF_vars(TabReceives(c)) /\ WF_vars(HubHandles(c))

FairSpec == Spec /\ Fairness
=============================================================================
