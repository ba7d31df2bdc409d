----------------------------- MODULE HistorySeed -----------------------------
(***************************************************************************)
(* history_seed.rs and its callers in driver.rs: the stored history of a   *)
(* session, replayed as driver events.  The live stream and the replay     *)
(* must fold to the same transcript.                                       *)
(*                                                                         *)
(* A history item is a user prompt, one block of an assistant's message    *)
(* (an item with several blocks is the sequence of them), a tool result or *)
(* metadata.                                                               *)
(***************************************************************************)
EXTENDS EventMap

user_events(item) ==
    <<[type |-> "userMessage", ts |-> item.prompt, entry |-> item.prompt]>>

\* Redacted and opaque thinking has no text to show.
assistant_events(item) ==
    CASE item.type \in {"text", "thinking"} ->
           <<[type |-> "assistantDelta", ts |-> 0, text |-> item.text,
              channel |-> item.type, entry |-> item.prompt]>>
      [] item.type = "tool_use" ->
           <<[type |-> "toolStarted", ts |-> 0, call |-> item.call, input |-> None]>>
      [] OTHER -> <<>>

tool_result_events(item) ==
    <<[type |-> "toolFinished", ts |-> 0, call |-> item.call,
       status |-> IF item.isError THEN "error" ELSE "ok"]>>

\* The replayed switch says idle: a snapshot at the end has to say what holds.
model_switch_events(item) ==
    <<sessionUpdated([status |-> "idle", usage |-> None, facet |-> item.model,
                      goal |-> Omit, queued |-> None])>>

MetadataRows == {"system_reminder", "compaction_fencepost", "context_cleared",
                 "session_lifecycle"}

\* The events of one history item.
item_events(item) ==
    CASE item.type = "user" -> user_events(item)
      [] item.type = "tool_result" -> tool_result_events(item)
      [] item.type = "model_switch" -> model_switch_events(item)
      [] item.type \in MetadataRows -> <<customMessage>>
      [] OTHER -> assistant_events(item)

\* A call whose result never came is settled as interrupted.
orphans(items) ==
    LET started == SelectSeq(items, LAMBDA it : it.type = "tool_use")
        finished == {items[i].call : i \in {j \in DOMAIN items : items[j].type = "tool_result"}}
        open == SelectSeq(started, LAMBDA it : it.call \notin finished)
    IN  [i \in DOMAIN open |->
           [type |-> "toolFinished", ts |-> 0, call |-> open[i].call,
            status |-> "interrupted"]]

history_to_seed_events(items) ==
    FlattenSeq([i \in DOMAIN items |-> item_events(items[i])]) \o orphans(items)

\* Opening: replaces everything, and re-asserts the status the replay disturbed.
build_branch_seed(snapshot, items) ==
    LET history == history_to_seed_events(items)
    IN  <<[type |-> "sessionOpened", ts |-> 0, snapshot |-> snapshot]>> \o history
        \o IF history = <<>> THEN <<>> ELSE <<sessionUpdated(snapshot)>>

\* Seeded bug: nothing re-asserts the status after the replay.
build_reseed_events_no_settle(snapshot, items) ==
    <<[type |-> "sessionReset", ts |-> 0]>> \o history_to_seed_events(items)

\* Reseeding an open session: clears only the transcript.
build_reseed_events(snapshot, items) ==
    <<[type |-> "sessionReset", ts |-> 0]>> \o history_to_seed_events(items)
    \o <<sessionUpdated(snapshot)>>
=============================================================================
