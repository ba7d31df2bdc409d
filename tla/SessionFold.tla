----------------------------- MODULE SessionFold -----------------------------
(***************************************************************************)
(* What a sequence of driver events means: the fold of state.rs, run by    *)
(* the hub, and of state.ts, run by every tab; and what journal.rs does to *)
(* event sequences without changing their meaning.                         *)
(*                                                                         *)
(* An event carries its arrival stamp `ts`.  A delta carries the stamps of *)
(* the fragments of text it was made from, so that text is the sequence of *)
(* its fragments.  The optional fields of a snapshot (facet, permission    *)
(* monitor, plan, flags, todos, servers, ...) are handled alike: one of    *)
(* them, facet, stands for all.  The ambient status bar stands for the     *)
(* widgets and the title too.                                              *)
(***************************************************************************)
EXTENDS Integers, Sequences, SequencesExt

CONSTANTS
    None,       \* an absent optional value
    Omit        \* a goal the snapshot does not mention (None clears it)

-----------------------------------------------------------------------------
(* The folded state *)

initial_session_state ==
    [ref |-> FALSE, status |-> "idle", usage |-> None, facet |-> None,
     goal |-> None, queued |-> <<>>, items |-> <<>>, approvals |-> <<>>,
     ambient |-> [k \in {} |-> None]]

open_assistant(items) ==
    items # <<>> /\ Last(items).kind = "assistant" /\ Last(items).streaming

\* `at` is the stamp of the event that ends the turn, None for one that only
\* interrupts the bubble.
close_open_assistant(items, at) ==
    IF open_assistant(items)
    THEN [items EXCEPT ![Len(items)].streaming = FALSE,
                       ![Len(items)].completed = IF at = None THEN @ ELSE at]
    ELSE items

interrupt_running_tools(items, at) ==
    [i \in DOMAIN items |->
       IF items[i].kind = "tool" /\ items[i].status = "running"
       THEN [items[i] EXCEPT !.status = "interrupted", !.finished = at]
       ELSE items[i]]

\* Backfill the branch handle of the most recent item of a kind.
stamp_last_entry_id(items, kind, entry) ==
    LET hits == {i \in DOMAIN items : items[i].kind = kind}
    IN  IF entry = None THEN items
        ELSE [i \in DOMAIN items |->
                IF i \in hits /\ \A k \in hits : k <= i THEN [items[i] EXCEPT !.entry = entry]
                ELSE items[i]]

\* What retain keeps: everything but the one that is done.
without(s, id) ==
    LET kept[n \in 0..Len(s)] ==
          IF n = 0 THEN <<>> ELSE IF s[n] = id THEN kept[n - 1] ELSE Append(kept[n - 1], s[n])
    IN  kept[Len(s)]

\* An item that ends whatever bubble was open.
push_item(st, item) ==
    [st EXCEPT !.items = Append(close_open_assistant(@, None), item)]

\* A snapshot field that may be absent.
carried(new, old) == IF new = None THEN old ELSE new

fold_snapshot(st, ev) ==
    LET s == ev.snapshot
        closed == IF s.status = "running" THEN st.items
                  ELSE close_open_assistant(st.items, ev.ts)
        settled == IF ev.type # "runCompleted" THEN closed
                   ELSE stamp_last_entry_id(
                          stamp_last_entry_id(interrupt_running_tools(closed, ev.ts),
                                              "assistant", ev.assistantEntry),
                          "user", ev.userEntry)
    IN  [st EXCEPT !.ref = TRUE, !.status = s.status, !.items = settled,
                   !.usage = carried(s.usage, @), !.facet = carried(s.facet, @),
                   !.goal = IF s.goal = Omit THEN @ ELSE s.goal,
                   !.queued = carried(s.queued, @)]

fold_delta(st, ev) ==
    LET opened == IF open_assistant(st.items) THEN st.items
                  ELSE Append(st.items,
                         [kind |-> "assistant", ts |-> ev.ts, text |-> <<>>,
                          thinking |-> <<>>, streaming |-> TRUE,
                          completed |-> None, entry |-> ev.entry])
        n == Len(opened)
    IN  [st EXCEPT !.items =
           IF ev.channel = "thinking"
           THEN [opened EXCEPT ![n].thinking = @ \o ev.text]
           ELSE [opened EXCEPT ![n].text = @ \o ev.text]]

\* The tool cards an event addresses: the hub takes every card of that call,
\* a tab the first.
tool_cards(side, items, call) ==
    LET hits == {i \in DOMAIN items : items[i].kind = "tool" /\ items[i].id = call}
    IN  IF side = "hub" THEN hits
        ELSE {i \in hits : \A k \in hits : i <= k}

fold_tool_updated(side, st, ev) ==
    LET cards == tool_cards(side, st.items, ev.call)
    IN  [st EXCEPT !.items = [i \in DOMAIN @ |->
           IF i \in cards
           THEN [@[i] EXCEPT !.progress = carried(ev.progress, st.items[i].progress)]
           ELSE @[i]]]

fold_tool_finished(side, st, ev) ==
    LET cards == tool_cards(side, st.items, ev.call)
    IN  [st EXCEPT !.items = [i \in DOMAIN @ |->
           IF i \in cards THEN [@[i] EXCEPT !.status = ev.status, !.finished = ev.ts]
           ELSE @[i]]]

fold_host_ui(st, ev) ==
    CASE ev.kind = "dialog" ->
           IF ev.id \in ToSet(st.approvals) THEN st
           ELSE [st EXCEPT !.approvals = Append(@, ev.id)]
      [] ev.kind = "status" ->
           [st EXCEPT !.ambient =
              [k \in (IF ev.text = None THEN DOMAIN @ \ {ev.id} ELSE DOMAIN @ \cup {ev.id}) |->
                 IF k = ev.id THEN ev.text ELSE @[k]]]
      [] ev.kind = "notify" -> push_item(st, [kind |-> "notice", ts |-> ev.ts])
      [] ev.kind = "reset" -> [st EXCEPT !.ambient = [k \in {} |-> None]]
      [] ev.kind = "editorText" -> st

fold_event(side, st, ev) ==
    CASE ev.type \in {"sessionOpened", "sessionUpdated", "runCompleted"} ->
           fold_snapshot(st, ev)
      [] ev.type = "userMessage" ->
           push_item(st, [kind |-> "user", ts |-> ev.ts, entry |-> ev.entry])
      [] ev.type \in {"customMessage", "extensionCompatibilityIssue"} ->
           push_item(st, [kind |-> "notice", ts |-> ev.ts])
      [] ev.type = "queuedMessageStarted" ->
           [push_item(st, [kind |-> "user", ts |-> ev.created, entry |-> None])
              EXCEPT !.queued = without(@, ev.id)]
      [] ev.type = "queueUpdated" -> [st EXCEPT !.queued = ev.messages]
      [] ev.type = "assistantDelta" -> fold_delta(st, ev)
      [] ev.type = "toolStarted" ->
           push_item(st, [kind |-> "tool", id |-> ev.call, ts |-> ev.ts,
                          status |-> "running", progress |-> None,
                          finished |-> None])
      [] ev.type = "toolUpdated" -> fold_tool_updated(side, st, ev)
      [] ev.type = "toolFinished" -> fold_tool_finished(side, st, ev)
      [] ev.type = "usageUpdated" -> [st EXCEPT !.usage = ev.usage]
      [] ev.type = "runFailed" ->
           [st EXCEPT !.status = "failed",
                      !.items = Append(interrupt_running_tools(
                                         close_open_assistant(@, None), ev.ts),
                                       [kind |-> "notice", ts |-> ev.ts])]
      [] ev.type = "hostUiRequest" -> fold_host_ui(st, ev)
      [] ev.type = "hostUiResolved" ->
           [st EXCEPT !.approvals = without(@, ev.id)]
      [] ev.type = "sessionClosed" ->
           [st EXCEPT !.status = IF ev.failed THEN "failed" ELSE "idle",
                      !.items = interrupt_running_tools(
                                  close_open_assistant(@, ev.ts), ev.ts)]
      [] ev.type = "sessionReset" -> [st EXCEPT !.items = <<>>]

fold_all_from(side, st, events) ==
    LET folded[n \in 0..Len(events)] ==
          IF n = 0 THEN st ELSE fold_event(side, folded[n - 1], events[n])
    IN  folded[Len(events)]

fold_all(side, events) == fold_all_from(side, initial_session_state, events)

-----------------------------------------------------------------------------
(* journal.rs: sequences of events that fold alike *)

\* Seeded bug in mergeable: the channel of a delta does not matter.
mergeable_any_channel(a, b) ==
    \/ a.type = "assistantDelta" /\ b.type = "assistantDelta"
    \/ a.type = "usageUpdated" /\ b.type = "usageUpdated"

mergeable(a, b) ==
    \/ a.type = "assistantDelta" /\ b.type = "assistantDelta" /\ a.channel = b.channel
    \/ a.type = "usageUpdated" /\ b.type = "usageUpdated"

\* Two adjacent deltas join under the identity of the first; of two usage
\* reports the later one counts.
try_merge(a, b) ==
    IF a.type = "assistantDelta" THEN [a EXCEPT !.text = @ \o b.text] ELSE b

compacted_append(compacted, ev) ==
    IF compacted # <<>> /\ mergeable(Last(compacted), ev)
    THEN Append(Front(compacted), try_merge(Last(compacted), ev))
    ELSE Append(compacted, ev)

compacted_append_all(compacted, events) ==
    LET grown[n \in 0..Len(events)] ==
          IF n = 0 THEN compacted ELSE compacted_append(grown[n - 1], events[n])
    IN  grown[Len(events)]

coalesce_events(events) == compacted_append_all(<<>>, events)

\* The prefix that reproduces everything of a folded state but its items.
meta_seed_events(st, ts) ==
    LET keys == SetToSeq(DOMAIN st.ambient)
    IN  <<[type |-> "sessionOpened", ts |-> ts,
           snapshot |-> [status |-> st.status, usage |-> st.usage,
                         facet |-> st.facet,
                         goal |-> IF st.goal = None THEN Omit ELSE st.goal,
                         queued |-> st.queued]]>>
        \o [i \in DOMAIN keys |->
              [type |-> "hostUiRequest", ts |-> ts, kind |-> "status",
               id |-> keys[i], text |-> st.ambient[keys[i]]]]
        \o [i \in DOMAIN st.approvals |->
              [type |-> "hostUiRequest", ts |-> ts, kind |-> "dialog",
               id |-> st.approvals[i], text |-> None]]
=============================================================================
