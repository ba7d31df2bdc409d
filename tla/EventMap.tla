------------------------------ MODULE EventMap -------------------------------
(***************************************************************************)
(* event_map.rs: what one frame of the daemon's event stream means.  A     *)
(* frame is mapped, with an accumulator, to driver events to emit at once  *)
(* and to effects (HTTP calls) the driver executes after it has emitted.   *)
(*                                                                         *)
(* Text is a sequence of fragments.  The optional fields of a snapshot     *)
(* stand behind one, facet, as in SessionFold; here it is the model in     *)
(* use.  Timestamps carry no meaning and are 0, except that the stamp of a *)
(* user row is the prompt it shows.                                        *)
(***************************************************************************)
EXTENDS SessionFold, UiBridge

-----------------------------------------------------------------------------
(* Accumulator *)

create_accumulator ==
    [block |-> None, buffer |-> <<>>, tool |-> None, turnError |-> FALSE]

reset_accumulator(acc) == create_accumulator

-----------------------------------------------------------------------------
(* Snapshots.  ctx is the driver's cached GET /state. *)

snapshot_from_state(ctx, status) ==
    [status |-> status, usage |-> None, facet |-> ctx.model, goal |-> ctx.goal,
     queued |-> None]

live_status(ctx) == IF ctx.inFlight THEN "running" ELSE "idle"

live_snapshot(ctx) == snapshot_from_state(ctx, live_status(ctx))

sessionUpdated(snapshot) ==
    [type |-> "sessionUpdated", ts |-> 0, snapshot |-> snapshot]

runCompleted(snapshot, entry) ==
    [type |-> "runCompleted", ts |-> 0, snapshot |-> snapshot,
     userEntry |-> entry, assistantEntry |-> entry]

notify == [type |-> "hostUiRequest", ts |-> 0, kind |-> "notify", id |-> None, text |-> None]

customMessage == [type |-> "customMessage", ts |-> 0]

FetchState(emit, prompt) == [effect |-> "fetchState", emit |-> emit, prompt |-> prompt]
Reseed == [effect |-> "reseed"]
RefetchQueue == [effect |-> "refetchQueue"]

\* The event that follows a FetchState, built from the refreshed cache.
build_post_fetch_event(emit, ctx, prompt) ==
    IF emit = "runCompleted"
    THEN runCompleted(snapshot_from_state(ctx, "idle"), prompt)
    ELSE sessionUpdated(live_snapshot(ctx))

-----------------------------------------------------------------------------
(* Helpers of single frames *)

\* The channel a delta goes to, None when it does not fit the open block.
delta_channel(block, payload) ==
    CASE block # payload -> None
      [] payload = "text" -> "text"
      [] payload \in {"thinking", "redacted_thinking", "reasoning_opaque"} -> "thinking"
      [] OTHER -> None

\* A tool call names its tool, or the open tool_use block does.
resolved_call(ev, acc) ==
    IF ev.call # None THEN ev.call
    ELSE IF acc.tool # None THEN acc.tool ELSE None

parse_tool_input(buffer) == IF buffer = <<>> THEN None ELSE buffer

\* The daemon does not say how much is left in the queue after a drain of one.
drained_events(ev) ==
    <<[type |-> "queuedMessageStarted", ts |-> 0, id |-> Head(ev.items),
       created |-> Head(ev.items)]>>
    \o IF Len(ev.items) <= 1
       THEN <<[type |-> "queueUpdated", ts |-> 0, messages |-> <<>>]>> ELSE <<>>

\* A card carries the id of the question and the labels it offers; what is
\* needed to translate the answer back is registered by an effect, after the
\* card has been emitted.
interrogative_mapping(ev) ==
    LET choices == prune_approval_options(ev.keep)
        permission == ev.ask = "permission"
    IN  [event |-> [type |-> "hostUiRequest", ts |-> 0, kind |-> "dialog",
                    id |-> ev.id, text |-> None,
                    options |-> IF permission THEN offered_labels(choices) ELSE ev.labels],
         pending |-> [id |-> ev.id, type |-> ev.ask, labels |-> ev.labels,
                      keys |-> ev.keys,
                      choices |-> IF permission THEN choices ELSE <<>>]]

fold_result(acc, events, effects) == [acc |-> acc, events |-> events, effects |-> effects]

-----------------------------------------------------------------------------
(* The mapper *)

map_message_start(ev, acc, ctx) ==
    fold_result([acc EXCEPT !.turnError = FALSE],
                <<sessionUpdated(snapshot_from_state(ctx, "running"))>>, <<>>)

map_message_complete(ev, acc, ctx) ==
    IF acc.turnError
    THEN fold_result([acc EXCEPT !.turnError = FALSE],
                     <<[type |-> "runFailed", ts |-> 0, turn |-> ev.prompt]>>, <<>>)
    ELSE fold_result(acc, <<>>, <<FetchState("runCompleted", ev.prompt)>>)

map_block_start(ev, acc, ctx) ==
    fold_result([acc EXCEPT !.block = ev.block, !.buffer = <<>>,
                            !.tool = IF ev.block = "tool_use" THEN ev.call ELSE None],
                <<>>, <<>>)

map_block_delta(ev, acc, ctx) ==
    LET ch == delta_channel(acc.block, ev.payload)
    IN  CASE ch # None ->
               fold_result(acc, <<[type |-> "assistantDelta", ts |-> 0, text |-> ev.text,
                                   channel |-> ch, entry |-> None]>>, <<>>)
          [] ev.payload = "tool_use" /\ acc.block = "tool_use" ->
               fold_result([acc EXCEPT !.buffer = @ \o ev.text], <<>>, <<>>)
          [] OTHER -> fold_result(acc, <<>>, <<>>)

map_tool_call(ev, acc, ctx) ==
    fold_result(acc, <<[type |-> "toolStarted", ts |-> 0, call |-> resolved_call(ev, acc),
                        input |-> IF ev.input # None THEN ev.input
                                  ELSE parse_tool_input(acc.buffer)]>>, <<>>)

map_tool_result(ev, acc, ctx) ==
    fold_result(acc, <<[type |-> "toolFinished", ts |-> 0, call |-> ev.call,
                        status |-> IF ev.isError THEN "error" ELSE "ok"]>>, <<>>)

map_drained(ev, acc, ctx) ==
    fold_result(acc, drained_events(ev),
                IF Len(ev.items) <= 1 THEN <<>> ELSE <<RefetchQueue>>)

map_discarded(ev, acc, ctx) ==
    fold_result(acc, IF ev.missing THEN <<notify>> ELSE <<>>, <<RefetchQueue>>)

\* Values the event carries are put on a snapshot of the cached state.
map_model_switch(ev, acc, ctx) ==
    fold_result(acc, <<sessionUpdated([live_snapshot(ctx) EXCEPT !.facet = ev.model])>>, <<>>)

map_goal_update(ev, acc, ctx) ==
    fold_result(acc,
                IF ev.goal # None \/ ev.cleared
                THEN <<sessionUpdated([live_snapshot(ctx) EXCEPT !.goal = ev.goal])>>
                ELSE <<>>,
                <<FetchState("sessionUpdated", None)>>)

map_interrogative(ev, acc, ctx) ==
    LET mapping == interrogative_mapping(ev)
    IN  fold_result(acc, <<mapping.event>>,
                    <<[effect |-> "register", pending |-> mapping.pending]>>)

\* A stop hook that blocks ends the turn although the agent goes on.
map_stop_hook(ev, acc, ctx) ==
    fold_result(acc, <<runCompleted(snapshot_from_state(ctx, "idle"), None), customMessage>>,
                <<>>)

\* Toasts: a wait before a retry, a blocked tool, a fallback model, the stages of
\* a compaction, a queued notification, the life of an MCP server.
RetryNotices == {"retry_wait"}
ToolNotices == {"agent_block_violation", "tool_exposure_changed"}
CompactionNotices == {"compaction_started", "compaction_cancelled", "compaction_failed",
                      "subagent_compaction_notice", "notification_queued"}
McpNotices == {"mcp_server_connected", "mcp_server_disconnected",
               "mcp_server_reconnecting", "mcp_server_disabled"}

\* Frames that carry a value put it on a snapshot at the live status; the mode of
\* the permission monitor and the autodrain flag are cached by an effect as well.
ValueFrames == {"session_title_changed", "permission_monitor_switch",
                "notification_autodrain_switch"}

\* Frames that only say that something changed: the state is fetched.
StaleFrames == {"turn_cancelled", "session_state_changed", "facet_switch",
                "subagent_started", "subagent_completed"}

\* The transcript no longer follows from what was shown: replay it.
ReseedFrames == {"stream_discontinuity", "session_rewound", "context_cleared"}

map_model_error(ev, acc, ctx) ==
    fold_result([acc EXCEPT !.turnError = TRUE], <<notify>>, <<>>)

map_compaction_complete(ev, acc, ctx) ==
    fold_result(acc, <<notify>>, <<FetchState("sessionUpdated", None)>>)

map_system_reminder(ev, acc, ctx) == fold_result(acc, <<customMessage>>, <<>>)

\* Frames of a nested subagent's turn stay out of the transcript.
subagent_handle(ev) == ev.subagent

map_daemon_event(ev, acc, ctx) ==
    IF subagent_handle(ev) THEN fold_result(acc, <<>>, <<>>)
    ELSE
    CASE ev.type = "message_start" -> map_message_start(ev, acc, ctx)
      [] ev.type = "message_complete" -> map_message_complete(ev, acc, ctx)
      [] ev.type = "content_block_start" -> map_block_start(ev, acc, ctx)
      [] ev.type = "content_block_delta" -> map_block_delta(ev, acc, ctx)
      [] ev.type = "content_block_stop" ->
           fold_result([acc EXCEPT !.block = None], <<>>, <<>>)
      [] ev.type = "tool_call" -> map_tool_call(ev, acc, ctx)
      [] ev.type = "tool_result" -> map_tool_result(ev, acc, ctx)
      [] ev.type \in {"turn_input_queued", "turn_input_dequeued"} ->
           fold_result(acc, <<>>, <<RefetchQueue>>)
      [] ev.type = "turn_input_discarded" -> map_discarded(ev, acc, ctx)
      [] ev.type = "turn_input_drained" -> map_drained(ev, acc, ctx)
      [] ev.type = "model_error" -> map_model_error(ev, acc, ctx)
      [] ev.type \in RetryNotices \cup ToolNotices \cup CompactionNotices \cup McpNotices ->
           fold_result(acc, <<notify>>, <<>>)
      [] ev.type = "compaction_complete" -> map_compaction_complete(ev, acc, ctx)
      [] ev.type = "system_reminder" -> map_system_reminder(ev, acc, ctx)
      [] ev.type \in StaleFrames -> fold_result(acc, <<>>, <<FetchState("sessionUpdated", None)>>)
      [] ev.type \in ReseedFrames -> fold_result(acc, <<>>, <<Reseed>>)
      [] ev.type \in ValueFrames -> fold_result(acc, <<sessionUpdated(live_snapshot(ctx))>>, <<>>)
      [] ev.type = "model_switch" -> map_model_switch(ev, acc, ctx)
      [] ev.type = "goal_driver_update" -> map_goal_update(ev, acc, ctx)
      [] ev.type = "interrogative" -> map_interrogative(ev, acc, ctx)
      [] ev.type = "stop_hook_blocked" -> map_stop_hook(ev, acc, ctx)
      [] OTHER -> fold_result(acc, <<>>, <<>>)
=============================================================================
