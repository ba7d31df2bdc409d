------------------------------ MODULE HubIngest ------------------------------
(***************************************************************************)
(* How the hub takes in the events of one session and what its journal     *)
(* makes of them: assistant deltas are held back and joined for a flush    *)
(* window, the ring is evicted into a coalesced prefix, and a sessionReset *)
(* replaces the whole journal by a prefix synthesised from its fold.       *)
(*                                                                         *)
(* One tab has been following since the journal was created; its channel   *)
(* is left to module SessionSync, so here it folds what is routed at once. *)
(***************************************************************************)
EXTENDS SessionFold

CONSTANTS
    Alphabet,       \* workload -> events the driver may emit, without their stamps
    Seed,           \* the transcript the journal is created from
    Waiting,        \* prompts that may wait in the daemon's queue
    TailMaxFrames,  \* journal.rs TAIL_MAX_FRAMES
    MaxEvents       \* bound: events the driver emits

Snapshots == {"sessionOpened", "sessionUpdated", "runCompleted"}

Types ==
    Snapshots \cup
    {"userMessage", "customMessage", "extensionCompatibilityIssue", "queuedMessageStarted",
     "queueUpdated", "toolStarted", "toolUpdated", "toolFinished", "usageUpdated", "runFailed",
     "hostUiRequest", "hostUiResolved", "sessionClosed", "sessionReset"}

Surfaces == {"dialog", "status", "notify", "reset", "editorText"}

\* What an event that is no delta brings for the fold to read.
Carries(ev) ==
    /\ "type" \in DOMAIN ev /\ ev.type \in Types
    /\ ev.type \in Snapshots =>
         /\ "snapshot" \in DOMAIN ev
         /\ ev.snapshot.queued # None => ev.snapshot.queued \in Seq(Waiting)
    /\ ev.type = "queueUpdated" => "messages" \in DOMAIN ev /\ ev.messages \in Seq(Waiting)
    /\ ev.type = "toolStarted" => "call" \in DOMAIN ev
    /\ ev.type = "hostUiRequest" => "kind" \in DOMAIN ev /\ ev.kind \in Surfaces

Channel == {"text", "thinking"}

\* The runs of deltas the hub holds back, joined into one.
Runs ==
    [type : {"assistantDelta"}, channel : Channel, entry : {None}, text : Seq(Nat), ts : Nat]

ASSUME OptionsAssumption == None # Omit /\ None \notin Seq(Waiting) /\ None \notin Runs

ASSUME AlphabetAssumption ==
    \A w \in DOMAIN Alphabet : \A ev \in Alphabet[w] :
      \/ Carries(ev)
      \/ /\ {"type", "channel"} \subseteq DOMAIN ev
         /\ ev.type = "assistantDelta" /\ ev.channel \in Channel

\* The driver opens a session before it replays the transcript, and no call
\* starts twice in one.
ASSUME SeedAssumption ==
    /\ Seed \in Seq(ToSet(Seed))
    /\ \A i \in DOMAIN Seed :
         \/ Carries(Seed[i])
         \/ /\ {"type", "channel", "entry", "text", "ts"} \subseteq DOMAIN Seed[i]
            /\ Seed[i].type = "assistantDelta"
            /\ Seed[i].text \in Seq(ToSet(Seed[i].text))
    /\ \E i \in DOMAIN Seed : Seed[i].type \in Snapshots
    /\ \A i, k \in DOMAIN Seed :
         Seed[i].type = "toolStarted" /\ Seed[k].type = "toolStarted" /\ Seed[i].call = Seed[k].call
           => i = k

VARIABLES
    workload,   \* which of the alphabets the driver draws from
    compacted,  \* journal.compacted
    tail,       \* journal.tail: events of the ring, oldest first
    pending,    \* hub.pending_deltas[sid]: the held run of deltas, or None
    timer,      \* the flush timer of the held run is still asleep
    flushes,    \* delta_flush operations on the hub's queue
    tab,        \* state folded by the following tab
    all,        \* history: state of a tab that folds every event as it comes
    clock       \* events emitted so far, the stamp of the next one

vars == <<workload, compacted, tail, pending, timer, flushes, tab, all, clock>>

build_seed(prefix, ring) == coalesce_events(prefix \o ring)

\* An event list with the stamps it was created with.
Stamped(ev, ts) ==
    IF ev.type = "assistantDelta"
    THEN [type |-> ev.type, channel |-> ev.channel, entry |-> None, text |-> <<ts>>,
          ts |-> ts]
    ELSE [x \in DOMAIN ev \cup {"ts"} |-> IF x = "ts" THEN ts ELSE ev[x]]

\* append_event on the journal <<prefix, ring>>: `evict` frames leave the ring.
append_event(j, ev, evict) ==
    LET ring == Append(j.ring, ev)
    IN  [prefix |-> compacted_append_all(j.prefix, SubSeq(ring, 1, evict)),
         ring |-> SubSeq(ring, evict + 1, Len(ring)),
         tab |-> fold_event("tab", j.tab, ev)]

\* The journal restarts from the meta prefix and the tab adopts the new seed.
restart_journal(j, ev) ==
    LET st == fold_event("hub", fold_all("hub", build_seed(j.prefix, j.ring)), ev)
        meta == coalesce_events(meta_seed_events(st, ev.ts))
    IN  [prefix |-> meta, ring |-> <<>>,
         tab |-> fold_all("tab", build_seed(meta, <<>>))]

\* The ring keeps at most TailMaxFrames; the byte cap may evict any more.
Kept(j, evict) == Len(j.ring) + 1 - evict <= TailMaxFrames

ingest_now(j, ev, evict) ==
    IF ev.type = "sessionReset" THEN restart_journal(j, ev)
    ELSE append_event(j, ev, evict)

Journal == [prefix |-> compacted, ring |-> tail, tab |-> tab]

Becomes(j) ==
    /\ compacted' = j.prefix
    /\ tail' = j.ring
    /\ tab' = j.tab

\* The tool calls a transcript shows.
Calls(items) == {it.id : it \in {x \in ToSet(items) : x.kind = "tool"}}

\* The driver emits an event, never the same call twice; the reference tab
\* folds it at once.
Emits(ev) ==
    /\ clock < MaxEvents
    /\ clock' = clock + 1
    /\ UNCHANGED workload
    /\ ev.type = "toolStarted" => ev.call \notin Calls(all.items)
    /\ all' = fold_event("tab", all, Stamped(ev, clock'))

\* A delta that continues the held run joins it.
JoinDelta(ev) ==
    /\ Emits(ev)
    /\ ev.type = "assistantDelta"
    /\ pending # None
    /\ mergeable(pending, Stamped(ev, clock'))
    /\ pending' = try_merge(pending, Stamped(ev, clock'))
    /\ UNCHANGED <<compacted, tail, timer, flushes, tab>>

\* Seeded bug in HoldDelta: the new run inherits the timer of the flushed one.
HoldDelta_no_timer(ev) ==
    /\ Emits(ev)
    /\ ev.type = "assistantDelta"
    /\ pending # None => ~mergeable(pending, Stamped(ev, clock'))
    /\ IF pending = None THEN UNCHANGED <<compacted, tail, tab>>
       ELSE \E k \in 0..Len(tail) + 1 :
              /\ Kept(Journal, k)
              /\ Becomes(ingest_now(Journal, pending, k))
    /\ pending' = Stamped(ev, clock')
    /\ timer' = (pending = None)
    /\ UNCHANGED flushes

\* Any other delta starts a run of its own, with its own timer, after the held
\* run, if any, has been flushed.
HoldDelta(ev) ==
    /\ Emits(ev)
    /\ ev.type = "assistantDelta"
    /\ pending # None => ~mergeable(pending, Stamped(ev, clock'))
    /\ IF pending = None THEN UNCHANGED <<compacted, tail, tab>>
       ELSE \E k \in 0..Len(tail) + 1 :
              /\ Kept(Journal, k)
              /\ Becomes(ingest_now(Journal, pending, k))
    /\ pending' = Stamped(ev, clock')
    /\ timer' = TRUE
    /\ UNCHANGED flushes

\* Seeded bug in IngestOther: the held run stays held.
IngestOther_overtakes(ev) ==
    /\ Emits(ev)
    /\ ev.type # "assistantDelta"
    /\ \E k \in 0..Len(tail) + 1 :
         /\ Kept(Journal, k)
         /\ Becomes(ingest_now(Journal, Stamped(ev, clock'), k))
    /\ UNCHANGED <<pending, timer, flushes>>

\* Everything else flushes the held run and is stamped at once.
IngestOther(ev) ==
    /\ Emits(ev)
    /\ ev.type # "assistantDelta"
    /\ \E k \in 0..Len(tail) + 1, n \in 0..Len(tail) + 2 :
         LET flushed == IF pending = None THEN Journal
                        ELSE ingest_now(Journal, pending, k)
         IN  /\ pending = None => k = 0
             /\ pending # None => Kept(Journal, k)
             /\ n <= Len(flushed.ring) + 1
             /\ Kept(flushed, n)
             /\ Becomes(ingest_now(flushed, Stamped(ev, clock'), n))
    /\ pending' = None
    /\ timer' = FALSE
    /\ UNCHANGED flushes

\* The flush window is over: a delta_flush joins the hub's serial queue.
TimerFires ==
    /\ timer
    /\ timer' = FALSE
    /\ flushes' = flushes + 1
    /\ UNCHANGED <<workload, compacted, tail, pending, tab, all, clock>>

\* The applier runs a delta_flush: it flushes whatever run is held by then,
\* and aborts the timer of that run.
RunFlush ==
    /\ flushes > 0
    /\ flushes' = flushes - 1
    /\ IF pending = None THEN UNCHANGED <<compacted, tail, tab>>
       ELSE \E k \in 0..Len(tail) + 1 :
              /\ Kept(Journal, k)
              /\ Becomes(ingest_now(Journal, pending, k))
    /\ pending' = None
    /\ timer' = FALSE
    /\ UNCHANGED <<workload, all, clock>>

Init ==
    /\ workload \in DOMAIN Alphabet
    /\ compacted = coalesce_events(Seed)
    /\ tail = <<>>
    /\ pending = None
    /\ timer = FALSE
    /\ flushes = 0
    /\ tab = fold_all("tab", compacted)
    /\ all = fold_all("tab", Seed)
    /\ clock = 0

Next ==
    \/ \E ev \in Alphabet[workload] : JoinDelta(ev) \/ HoldDelta(ev) \/ IngestOther(ev)
    \/ TimerFires
    \/ RunFlush

Spec == Init /\ [][Next]_vars

-----------------------------------------------------------------------------
(* Properties *)

\* Types, and the frame cap of the ring.
TypeOK ==
    /\ workload \in DOMAIN Alphabet
    /\ Len(tail) <= TailMaxFrames
    /\ \A ev \in ToSet(compacted \o tail) : "type" \in DOMAIN ev
    /\ pending \in Runs \cup {None}
    /\ timer \in BOOLEAN
    /\ flushes \in Nat
    /\ clock \in 0..MaxEvents

\* The journal's own invariant: folding its seed from nothing, as the hub does
\* and as a tab that connects now does, gives exactly the state a connected tab
\* has folded event by event, whatever was joined, evicted, coalesced or
\* restarted (journal.rs:8-9).
SeedFoldsToView ==
    LET seed == build_seed(compacted, tail)
    IN  fold_all("hub", seed) = tab /\ fold_all("tab", seed) = tab

\* Holding deltas back loses and reorders nothing: the tab's state plus the
\* held run is the state of a tab that folds every event the moment the driver
\* emits it, across resets too (hub.rs ingest, meta_seed_events).
NothingLost ==
    (IF pending = None THEN tab ELSE fold_event("tab", tab, pending)) = all

Held(n) == pending # None /\ pending.ts = n

\* Streaming text reaches the viewers even if the driver falls silent: no held
\* run, named by the stamp of its first delta, is held for ever (hub.rs ingest).
HeldRunReachesViewers == \A n \in 1..MaxEvents : Held(n) ~> ~Held(n)

\* Timers fire and the applier runs; nothing is assumed of the driver.
FairSpec == Spec /\ WF_vars(TimerFires) /\ WF_vars(RunFlush)
=============================================================================
