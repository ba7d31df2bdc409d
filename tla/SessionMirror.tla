---------------------------- MODULE SessionMirror ----------------------------
(***************************************************************************)
(* One session, from the daemon that runs it to what every tab is shown.   *)
(*                                                                         *)
(* The daemon (external: modelled by the frames it sends and the endpoints *)
(* the driver calls) runs turns, queues prompts, asks questions, retries,  *)
(* is cancelled, and records a history.  Its frames travel a stream that   *)
(* may lose some and says so, or breaks and is joined again (sse_loop of   *)
(* daemon_client.rs).  The driver's consumer (handle_sse_event and         *)
(* execute_effect of driver.rs) maps each frame, emits events, and fetches *)
(* state, history or queue, one HTTP call a step.  The hub (on_event)      *)
(* folds the events into the view and tracks running and attention.        *)
(***************************************************************************)
EXTENDS HistorySeed, HubStatus, FiniteSets, Bags

CONSTANTS
    Questions,      \* interrogatives the daemon may ask, as frames
    Models,         \* values of the snapshot's optional field
    Workloads,      \* bound: the sets of things that happen together in a behaviour
    MaxTurns,       \* bound: prompts of the operator
    MaxSteps,       \* bound: blocks, tools, errors and questions per turn
    MaxMeta,        \* bound: changes out of band (title, model, goal, ...)
    MaxLoss,        \* bound: losses of the stream
    MaxFailures,    \* bound: HTTP calls that fail
    MaxReloads,     \* bound: reloads of the session
    MaxStream       \* bound: frames on their way

VARIABLES
    daemon,         \* the daemon: its turn, question, model, goal
    history,        \* GET /history
    queue,          \* GET /turn/input
    stream, sse,    \* frames on their way to the consumer; the connection
    acc, cache,     \* WarmSession: accumulator and last_state
    pending,        \* WarmSession: pending_interrogatives
    todo,           \* effects the consumer has yet to execute
    op,             \* the hub operation in progress: a prompt, a queue restore
    posts,          \* answers on their way to the daemon
    view,           \* the folded state every tab shows
    run, attention, \* the hub's running sets and attention record
    reported,       \* turns the hub reported failed
    seen,           \* what happened: handled, told, answers, failures, texts
    used            \* the bounds' counters

vars == <<daemon, history, queue, stream, sse, acc, cache, pending, todo, op, posts,
          view, run, attention, reported, seen, used>>

driverVars == <<acc, cache, pending, todo>>
hubVars == <<view, run, attention, reported>>

-----------------------------------------------------------------------------
(* The daemon, external *)

Frame(type, fields) == [type |-> type, subagent |-> FALSE] @@ fields
Bare(type) == Frame(type, <<>>)

\* A broken connection carries nothing.
Send(frames) == stream' = IF sse = "up" THEN stream \o frames ELSE stream

Room == Len(stream) < MaxStream

state_of_daemon ==
    [inFlight |-> daemon.prompt # None, model |-> daemon.model, goal |-> daemon.goal]

\* What may happen in this behaviour.
Does(thing) == thing \in daemon.does

Running == daemon.prompt # None
Free == Running /\ daemon.ask = None /\ daemon.tool = None /\ daemon.steps < MaxSteps

Step(d) == [d EXCEPT !.steps = @ + 1]

StartTurn(d, p) == [d EXCEPT !.prompt = p, !.err = FALSE, !.steps = 0]
EndTurn(d) == [d EXCEPT !.prompt = None, !.err = FALSE, !.ask = None, !.tool = None]

UserItem(p) == [type |-> "user", prompt |-> p]

DaemonBlock(block) ==
    /\ Does(block) /\ Free /\ Room
    /\ LET piece == <<10 * daemon.prompt + daemon.steps>>
       IN  /\ Send(<<Frame("content_block_start", [block |-> block, call |-> None]),
                     Frame("content_block_delta", [payload |-> block, text |-> piece]),
                     Bare("content_block_stop")>>)
           /\ history' = Append(history, [type |-> block, text |-> piece,
                                          prompt |-> daemon.prompt])
    /\ daemon' = Step(daemon)
    /\ UNCHANGED <<queue, sse, driverVars, op, posts, hubVars, seen, used>>

DaemonToolCall ==
    /\ Does("tool") /\ Free /\ Room
    /\ LET call == 100 + 10 * daemon.prompt + daemon.steps
       IN  /\ Send(<<Frame("content_block_start", [block |-> "tool_use", call |-> call]),
                     Frame("tool_call", [call |-> None, input |-> None])>>)
           /\ history' = Append(history, [type |-> "tool_use", call |-> call])
           /\ daemon' = [Step(daemon) EXCEPT !.tool = call]
    /\ UNCHANGED <<queue, sse, driverVars, op, posts, hubVars, seen, used>>

DaemonToolResult ==
    /\ Running /\ daemon.tool # None /\ daemon.ask = None /\ Room
    /\ Send(<<Frame("tool_result", [call |-> daemon.tool, isError |-> FALSE])>>)
    /\ history' = Append(history, [type |-> "tool_result", call |-> daemon.tool,
                                   isError |-> FALSE])
    /\ daemon' = [daemon EXCEPT !.tool = None]
    /\ UNCHANGED <<queue, sse, driverVars, op, posts, hubVars, seen, used>>

\* A question pauses the turn until it is answered or the turn cancelled.
DaemonAsk(q) ==
    /\ Does("ask") /\ Running /\ daemon.ask = None /\ daemon.asked = {} /\ Room
    /\ Send(<<q>>)
    /\ daemon' = [daemon EXCEPT !.ask = q.id, !.asked = {q.id}]
    /\ UNCHANGED <<history, queue, sse, driverVars, op, posts, hubVars, seen, used>>

DaemonError ==
    /\ Does("error") /\ Free /\ ~daemon.err /\ Room
    /\ Send(<<Bare("model_error")>>)
    /\ daemon' = [Step(daemon) EXCEPT !.err = TRUE]
    /\ UNCHANGED <<history, queue, sse, driverVars, op, posts, hubVars, seen, used>>

DaemonRetry ==
    /\ Running /\ daemon.err /\ Room
    /\ Send(<<Bare("retry_wait"), Bare("message_start")>>)
    /\ daemon' = [daemon EXCEPT !.err = FALSE]
    /\ UNCHANGED <<history, queue, sse, driverVars, op, posts, hubVars, seen, used>>

DaemonComplete ==
    /\ Running /\ daemon.ask = None /\ daemon.tool = None /\ Room
    /\ Send(<<Frame("message_complete", [prompt |-> daemon.prompt])>>)
    /\ daemon' = [EndTurn(daemon) EXCEPT !.failed = IF daemon.err THEN @ \cup {daemon.prompt}
                                                    ELSE @]
    /\ UNCHANGED <<history, queue, sse, driverVars, op, posts, hubVars, seen, used>>

\* Queued prompts enter the running turn, or start the next one.
DaemonDrain(n) ==
    /\ n \in 1..Len(queue) /\ daemon.ask = None /\ Room
    /\ LET items == SubSeq(queue, 1, n)
           drained == Frame("turn_input_drained", [items |-> items])
       IN  /\ queue' = SubSeq(queue, n + 1, Len(queue))
           /\ history' = Append(history, UserItem(Head(items)))
           /\ Send(IF Running THEN <<drained>> ELSE <<drained, Bare("message_start")>>)
           /\ daemon' = IF Running THEN daemon ELSE StartTurn(daemon, Head(items))
           /\ seen' = [seen EXCEPT !.delivered = @ \cup ToSet(items)]
    /\ UNCHANGED <<sse, driverVars, op, posts, hubVars, used>>

\* Changes that are not part of a turn; frames of a subagent's turn are among them.
DaemonMeta ==
    /\ Does("meta") /\ used.meta < MaxMeta /\ Room
    /\ used' = [used EXCEPT !.meta = @ + 1]
    /\ \/ /\ \E t \in {"session_title_changed", "session_state_changed", "system_reminder",
                       "compaction_complete"} : Send(<<Bare(t)>>)
          /\ UNCHANGED <<daemon, history>>
       \/ /\ Send(<<[Frame("message_complete", [prompt |-> None]) EXCEPT !.subagent = TRUE]>>)
          /\ UNCHANGED <<daemon, history>>
       \/ \E m \in Models \ {daemon.model} :
             /\ Send(<<Frame("model_switch", [model |-> m])>>)
             /\ daemon' = [daemon EXCEPT !.model = m]
             /\ history' = Append(history, [type |-> "model_switch", model |-> m])
       \/ \E g \in {None, "g"} \ {daemon.goal} :
             /\ Send(<<Frame("goal_driver_update", [goal |-> g, cleared |-> g = None])>>)
             /\ daemon' = [daemon EXCEPT !.goal = g]
             /\ UNCHANGED history
       \/ /\ Running /\ Free
          /\ Send(<<Bare("stop_hook_blocked"), Bare("message_start")>>)
          /\ UNCHANGED <<daemon, history>>
       \/ /\ ~Running /\ history # <<>>
          /\ Send(<<Bare("context_cleared")>>)
          /\ history' = <<[type |-> "context_cleared"]>>
          /\ UNCHANGED daemon
    /\ UNCHANGED <<queue, sse, driverVars, op, posts, hubVars, seen>>

-----------------------------------------------------------------------------
(* The stream: daemon_client.rs, sse_loop *)

\* The daemon drops frames a slow reader missed, and says so in their place.
StreamDrops(n) ==
    /\ Does("loss") /\ used.loss < MaxLoss /\ sse = "up" /\ n \in 1..Len(stream)
    /\ stream' = <<Bare("stream_discontinuity")>> \o SubSeq(stream, n + 1, Len(stream))
    /\ used' = [used EXCEPT !.loss = @ + 1]
    /\ UNCHANGED <<daemon, history, queue, sse, driverVars, op, posts, hubVars, seen>>

\* The stream ends, errs or times out: what had not arrived is lost.
StreamBreaks(n) ==
    /\ Does("loss") /\ used.loss < MaxLoss /\ sse = "up" /\ n \in 0..Len(stream)
    /\ stream' = SubSeq(stream, 1, n)
    /\ sse' = "down"
    /\ used' = [used EXCEPT !.loss = @ + 1]
    /\ UNCHANGED <<daemon, history, queue, driverVars, op, posts, hubVars, seen>>

\* Seeded bug: joining the stream again goes unnoticed.
StreamReconnectsQuietly ==
    /\ sse = "down" /\ sse' = "up"
    /\ UNCHANGED <<stream, daemon, history, queue, driverVars, op, posts, hubVars, seen, used>>

StreamReconnects ==
    /\ sse = "down" /\ sse' = "up"
    /\ stream' = Append(stream, Bare("stream_discontinuity"))
    /\ UNCHANGED <<daemon, history, queue, driverVars, op, posts, hubVars, seen, used>>

-----------------------------------------------------------------------------
(* What is in a transcript *)

RowsOfItem(it) ==
    CASE it.type = "user" -> {<<"user", it.prompt>>}
      [] it.type \in {"text", "thinking"} -> {<<it.type, it.text[1]>>}
      [] it.type = "tool_use" -> {<<"tool", it.call>>}
      [] OTHER -> {}

RowsOf(items) == UNION {RowsOfItem(items[i]) : i \in DOMAIN items}

RowsOfViewItem(it) ==
    CASE it.kind = "user" -> <<<<"user", it.ts>>>>
      [] it.kind = "assistant" ->
           [i \in DOMAIN it.text |-> <<"text", it.text[i]>>]
           \o [i \in DOMAIN it.thinking |-> <<"thinking", it.thinking[i]>>]
      [] it.kind = "tool" -> <<<<"tool", it.id>>>>
      [] OTHER -> <<>>

RowsOfView == FlattenSeq([i \in DOMAIN view.items |-> RowsOfViewItem(view.items[i])])

-----------------------------------------------------------------------------
(* The driver's consumer *)

\* The channel from the driver to the hub is lossless and in order; the hub
\* folds each event and tracks it (SessionHub::on_event).
on_event(events) ==
    /\ view' = fold_all_from("hub", view, events)
    /\ run' = FoldLeft(track_running, run, events)
    /\ attention' = FoldLeft(track_attention, attention, events)
    /\ LET failures == SelectSeq(events, LAMBDA e : e.type = "runFailed")
       IN  reported' = reported \cup {failures[i].turn : i \in DOMAIN failures}

Http(effects) == SelectSeq(effects, LAMBDA e : e.effect # "register")

Register(known, effects) ==
    LET new == SelectSeq(effects, LAMBDA e : e.effect = "register")
    IN  known \cup {new[i].pending : i \in DOMAIN new}

\* Map one frame, emit its events and do what needs no call to the daemon.
handle_sse_event ==
    /\ stream # <<>> /\ todo = <<>>
    /\ LET ev == Head(stream)
           result == map_daemon_event(ev, acc, cache)
       IN  /\ acc' = result.acc
           /\ on_event(result.events)
           /\ todo' = Http(result.effects)
           /\ pending' = Register(pending, result.effects)
           /\ seen' = [seen EXCEPT !.handled =
                         IF ev.type = "interrogative" THEN @ \cup {ev.id} ELSE @]
    /\ stream' = Tail(stream)
    /\ UNCHANGED <<daemon, history, queue, sse, cache, op, posts, used>>

\* A call to the daemon answers or, within the bound, fails.
Answers(ok) ==
    /\ ok \/ (Does("failure") /\ used.failures < MaxFailures)
    /\ used' = [used EXCEPT !.failures = IF ok THEN @ ELSE @ + 1]

\* GET /state: a failed call leaves the cache as it is.
refreshed(ok) == IF ok THEN state_of_daemon ELSE cache

Effect(kind) == todo # <<>> /\ Head(todo).effect = kind

fetch_state(ok) ==
    /\ Effect("fetchState") /\ Answers(ok)
    /\ cache' = refreshed(ok)
    /\ on_event(<<build_post_fetch_event(Head(todo).emit, cache', Head(todo).prompt)>>)
    /\ todo' = Tail(todo)
    /\ UNCHANGED <<daemon, history, queue, stream, sse, acc, pending, op, posts, seen>>

\* A reseed forgets the open block, asks for the state, then for the history.
reseed_state(ok) ==
    /\ Effect("reseed") /\ Answers(ok)
    /\ acc' = reset_accumulator(acc)
    /\ cache' = refreshed(ok)
    /\ todo' = <<[effect |-> "reseedHistory"]>> \o Tail(todo)
    /\ UNCHANGED <<daemon, history, queue, stream, sse, pending, op, posts, hubVars, seen>>

\* The history is read, and shown in the place of what is there: the row of a prompt
\* accepted in between goes, and nothing brings it back.
reseed_history(ok) ==
    /\ Effect("reseedHistory") /\ Answers(ok)
    /\ todo' = (IF ok THEN <<[effect |-> "showHistory", items |-> history]>> ELSE <<>>)
              \o Tail(todo)
    /\ UNCHANGED <<daemon, history, queue, stream, sse, acc, cache, pending, op, posts, hubVars,
                   seen>>

reseeded ==
    /\ Effect("showHistory")
    /\ on_event(build_reseed_events(live_snapshot(cache), Head(todo).items))
    /\ seen' = [seen EXCEPT !.wiped = @ \cup ({r \in ToSet(RowsOfView) : r[1] = "user"}
                                         \ RowsOf(Head(todo).items))]
    /\ todo' = Tail(todo)
    /\ UNCHANGED <<daemon, history, queue, stream, sse, acc, cache, pending, op, posts, used>>

queueUpdated(messages) == [type |-> "queueUpdated", ts |-> 0, messages |-> messages]

refetch_queue(ok) ==
    /\ Effect("refetchQueue") /\ Answers(ok)
    /\ todo' = (IF ok THEN <<[effect |-> "showQueue", messages |-> queue]>> ELSE <<>>) \o Tail(todo)
    /\ UNCHANGED <<daemon, history, queue, stream, sse, acc, cache, pending, op, posts, hubVars,
                   seen>>

refetched_queue ==
    /\ Effect("showQueue")
    /\ on_event(<<queueUpdated(Head(todo).messages)>>)
    /\ todo' = Tail(todo)
    /\ UNCHANGED <<daemon, history, queue, stream, sse, acc, cache, pending, op, posts, seen, used>>

-----------------------------------------------------------------------------
(* Operations of the operator, one at a time in the hub's queue *)

\* The consumer has nothing left to handle.
NothingComing == stream = <<>> /\ sse = "up" /\ todo = <<>>

\* The queue will be shown again: a frame about it, or a fetch of it, is on its way.
QueueFrames == {"turn_input_queued", "turn_input_dequeued", "turn_input_drained",
                "turn_input_discarded"}
QueueNews ==
    \/ sse = "down" \/ \E i \in DOMAIN stream : stream[i].type \in QueueFrames
    \/ \E i \in DOMAIN todo : todo[i].effect \in {"refetchQueue", "showQueue"}

\* POST /turn: an idle daemon starts a turn, a busy one queues the text.
prompt_post ==
    /\ op = None /\ used.turns < MaxTurns /\ Room
    /\ Does("queue") \/ used.turns = 0
    /\ LET p == used.turns + 1
       IN  /\ used' = [used EXCEPT !.turns = p]
           /\ IF Running \/ queue # <<>>
              THEN /\ queue' = Append(queue, p)
                   /\ Send(<<Bare("turn_input_queued")>>)
                   /\ op' = [kind |-> "queued", prompt |-> p]
                   /\ UNCHANGED <<daemon, history, seen>>
              ELSE /\ daemon' = StartTurn(daemon, p)
                   /\ history' = Append(history, UserItem(p))
                   /\ Send(<<Bare("message_start")>>)
                   /\ op' = [kind |-> "sent", prompt |-> p]
                   /\ seen' = [seen EXCEPT !.sent = @ \cup {p}]
                   /\ UNCHANGED queue
    /\ UNCHANGED <<sse, driverVars, posts, hubVars>>

\* The reply to one that waits: the queue is read,
turn_input_snapshot(ok) ==
    /\ op # None /\ op.kind = "queued" /\ Answers(ok)
    /\ op' = [kind |-> "show", messages |-> IF ok THEN queue ELSE <<op.prompt>>]
    /\ UNCHANGED <<daemon, history, queue, stream, sse, driverVars, posts, hubVars, seen>>

\* and shown.  The consumer works on in its own task: it may have shown a drain in between.
prompt_queued ==
    /\ op # None /\ op.kind = "show"
    /\ on_event(<<queueUpdated(op.messages)>>)
    /\ seen' = [seen EXCEPT !.stale = @ \/ (op.messages # queue /\ ~QueueNews)]
    /\ op' = None
    /\ UNCHANGED <<daemon, history, queue, stream, sse, driverVars, posts, used>>

\* The reply to one that was sent: its row.  The turn may be over when the reply is handled.
prompt_accepted ==
    /\ op # None /\ op.kind = "sent"
    /\ on_event(<<[type |-> "userMessage", ts |-> op.prompt, entry |-> None]>>)
    /\ seen' = [seen EXCEPT !.late = @ \/ daemon.prompt # op.prompt]
    /\ op' = None
    /\ UNCHANGED <<daemon, history, queue, stream, sse, driverVars, posts, used>>

\* clear_queue: the texts first, then one DELETE of the newest per text, until one fails.
clear_queue_snapshot ==
    /\ Does("clear") /\ op = None /\ queue # <<>>
    /\ op' = [kind |-> "clear", texts |-> ToSet(queue), left |-> Len(queue)]
    /\ UNCHANGED <<daemon, history, queue, stream, sse, driverVars, posts, hubVars, seen, used>>

clear_queue_delete(ok) ==
    /\ op # None /\ op.kind = "clear" /\ op.left > 0 /\ Answers(ok)
    /\ op' = [op EXCEPT !.left = IF ok THEN @ - 1 ELSE 0]
    /\ queue' = IF ok /\ queue # <<>> THEN Front(queue) ELSE queue
    /\ Send(IF ok /\ queue # <<>> THEN <<Bare("turn_input_dequeued")>> ELSE <<>>)
    /\ UNCHANGED <<daemon, history, sse, driverVars, posts, hubVars, seen>>

\* Seeded bug: nothing is handed back.
clear_queue_drops_texts ==
    /\ op # None /\ op.kind = "clear" /\ op.left = 0
    /\ op' = None
    /\ UNCHANGED <<daemon, history, queue, stream, sse, driverVars, posts, hubVars, seen, used>>

clear_queue_return ==
    /\ op # None /\ op.kind = "clear" /\ op.left = 0
    /\ op' = None
    /\ seen' = [seen EXCEPT !.returned = @ \cup op.texts]
    /\ UNCHANGED <<daemon, history, queue, stream, sse, driverVars, posts, hubVars, used>>

\* Stop does not wait in the queue of operations.
abort ==
    /\ Does("abort") /\ Running /\ Room
    /\ daemon' = EndTurn(daemon)
    /\ Send(<<Bare("turn_cancelled")>>)
    /\ UNCHANGED <<history, queue, sse, driverVars, op, posts, hubVars, seen, used>>

\* Opening a warm session folds a seed of one event into running and attention.
open_session_warm ==
    /\ Does("open") /\ op = None
    /\ LET opened == [type |-> "sessionOpened", ts |-> 0, snapshot |-> live_snapshot(cache)]
       IN  /\ run' = track_running(run, opened)
           /\ attention' = track_attention(attention, opened)
    /\ UNCHANGED <<daemon, history, queue, stream, sse, driverVars, op, posts, view, reported,
                   seen, used>>

\* Reload: the daemon is killed and resumed, its journal restarted from the seed.
reload_session ==
    /\ Does("reload") /\ op = None /\ used.reloads < MaxReloads
    /\ used' = [used EXCEPT !.reloads = @ + 1]
    /\ daemon' = EndTurn(daemon)
    /\ queue' = <<>>
    /\ seen' = [seen EXCEPT !.killed = @ \cup ToSet(queue)]
    /\ stream' = <<>> /\ sse' = "up"
    /\ acc' = create_accumulator
    /\ cache' = [state_of_daemon EXCEPT !.inFlight = FALSE]
    /\ pending' = {} /\ todo' = <<>>
    /\ LET seed == build_branch_seed(live_snapshot(cache'), history)
       IN  /\ view' = fold_all("hub", seed)
           /\ run' = FoldLeft(track_running, run, seed)
           /\ attention' = FoldLeft(track_attention, attention, seed)
    /\ UNCHANGED <<history, op, posts, reported>>

\* The options of a card, and what the daemon means by each of them.
Question(id) == CHOOSE q \in Questions : q.id = id
OptionsOf(q) == interrogative_mapping(q).event.options

\* First responder wins: the hub asks the view, the driver its pending map.
\* The card closes at once; the answer is sent if one can be built.
respond_ui(id, response, picked) ==
    /\ id \in ToSet(view.approvals)
    /\ on_event(<<[type |-> "hostUiResolved", ts |-> 0, id |-> id]>>)
    /\ pending' = {p \in pending : p.id # id}
    /\ LET built == {build_interrogative_response(p, response) :
                       p \in {q \in pending : q.id = id}} \ {NoResponse}
       IN  posts' = posts \cup {[id |-> id, resp |-> r, picked |-> picked] : r \in built}
    /\ UNCHANGED <<daemon, history, queue, stream, sse, acc, cache, todo, op, seen, used>>

\* What the card of each kind of question lets the operator send back.
Respond ==
    \E id \in ToSet(view.approvals) :
      LET q == Question(id) IN
      \/ respond_ui(id, [shape |-> "cancelled", value |-> None], 0)
      \/ /\ q.ask \in Confirmable
         /\ \E yes \in BOOLEAN : respond_ui(id, [shape |-> "confirmed", value |-> yes], 0)
      \/ /\ q.ask \in {"permission", "clarification", "plan_handoff"}
         /\ \E i \in DOMAIN OptionsOf(q) :
               respond_ui(id, [shape |-> "value", value |-> OptionsOf(q)[i]], i)
      \/ /\ q.ask = "ask_user_question"
         /\ \E s \in SUBSET DOMAIN q.keys[1] :
               respond_ui(id, [shape |-> "answers", value |-> <<s>>], 0)

\* The POST reaches the daemon, which resumes if it still asks; or it fails and
\* the operator is told.
respond_posted(post, ok) ==
    /\ post \in posts
    /\ Answers(ok)
    /\ posts' = posts \ {post}
    /\ IF ok /\ daemon.ask = post.id
       THEN /\ daemon' = [daemon EXCEPT !.ask = None]
            /\ seen' = [seen EXCEPT !.answers = @ \cup {post}]
            /\ UNCHANGED hubVars
       ELSE /\ on_event(<<notify>>)
            /\ seen' = [seen EXCEPT !.told = @ \cup {post.id}]
            /\ UNCHANGED daemon
    /\ UNCHANGED <<history, queue, stream, sse, driverVars, op>>

-----------------------------------------------------------------------------
Init ==
    /\ daemon \in [prompt : {None}, steps : {0}, err : {FALSE}, tool : {None}, ask : {None},
                   asked : {{}}, model : {CHOOSE m \in Models : TRUE}, goal : {None},
                   failed : {{}}, does : Workloads]
    /\ history = <<>> /\ queue = <<>>
    /\ stream = <<>> /\ sse = "up"
    /\ acc = create_accumulator
    /\ cache = state_of_daemon
    /\ pending = {} /\ todo = <<>> /\ op = None /\ posts = {}
    /\ view = fold_all("hub", build_branch_seed(live_snapshot(cache), <<>>))
    /\ run = "off" /\ attention = NoAttention /\ reported = {}
    /\ seen = [handled |-> {}, told |-> {}, answers |-> {},
               delivered |-> {}, returned |-> {}, killed |-> {}, sent |-> {},
               wiped |-> {}, stale |-> FALSE, late |-> FALSE]
    /\ used = [turns |-> 0, meta |-> 0, loss |-> 0, failures |-> 0, reloads |-> 0]

DaemonNext ==
    \/ \E b \in {"text", "thinking", "redacted_thinking"} : DaemonBlock(b)
    \/ DaemonToolCall \/ DaemonToolResult
    \/ \E q \in Questions : DaemonAsk(q)
    \/ DaemonError \/ DaemonRetry \/ DaemonComplete
    \/ \E n \in 1..MaxTurns : DaemonDrain(n)
    \/ DaemonMeta

StreamNext ==
    \/ \E n \in 0..(MaxStream + 2) : StreamDrops(n) \/ StreamBreaks(n)
    \/ StreamReconnects

DriverNext ==
    \/ handle_sse_event
    \/ \E ok \in BOOLEAN :
         fetch_state(ok) \/ reseed_state(ok) \/ reseed_history(ok) \/ refetch_queue(ok)
         \/ turn_input_snapshot(ok) \/ clear_queue_delete(ok)
         \/ (\E post \in posts : respond_posted(post, ok))
    \/ refetched_queue \/ reseeded \/ prompt_queued \/ prompt_accepted
    \/ clear_queue_return

OperatorNext ==
    prompt_post \/ clear_queue_snapshot \/ abort \/ open_session_warm \/ reload_session \/ Respond

Next == DaemonNext \/ StreamNext \/ DriverNext \/ OperatorNext

Spec == Init /\ [][Next]_vars

-----------------------------------------------------------------------------
(* Properties *)

\* The records have their shapes: a type invariant.
TypeOK ==
    /\ sse \in {"up", "down"} /\ run \in {"off", "running", "initializing"}
    /\ attention.phase \in {"none", "running", "failed", "done"}
    /\ Len(queue) <= MaxTurns
    /\ op # None => op.kind \in {"sent", "queued", "show", "clear"}
    /\ \A p \in pending : p.id \in {q.id : q \in Questions}

\* Nothing is on its way between the daemon and the view.
Quiet == NothingComing /\ op = None /\ posts = {}

\* Whatever was lost on the stream, once the view has caught up every row of
\* the daemon's history is in the transcript (reseed after a discontinuity,
\* the synthetic one after a reconnect included), but for the row of a prompt that a
\* reseed reading the history before it overtook.
NothingLost ==
    Quiet /\ used.failures = 0 => RowsOf(history) \subseteq ToSet(RowsOfView) \cup seen.wiped

\* As long as nothing was replayed a row is shown once: the live path, the echo
\* of the prompt and the drain of the queue never show the same thing.
NothingTwice ==
    used.loss = 0 /\ used.reloads = 0 /\ Quiet /\ [type |-> "context_cleared"] \notin ToSet(history) =>
        Len(RowsOfView) = Cardinality(ToSet(RowsOfView))

\* The transcript on the screen is the daemon's history: whole once it has caught
\* up, and without repetition unless something was replayed.
TranscriptMatchesHistory == NothingLost /\ NothingTwice

\* A session that is not working is not shown as working: no running indicator,
\* no "Responding", no open bubble, no running tool, when the last turn did not
\* fail (track_running, track_attention, the re-assert after a replay).  Except after
\* the reply to a prompt was handled when its turn was over: the row it adds says the
\* session works, and no frame is left to say it does not.
NeverStuckWorking ==
    Quiet /\ used.failures = 0 /\ ~Running /\ daemon.failed = {} /\ ~seen.late =>
        /\ run = "off" /\ (daemon.asked = {} => attention_for(attention) # "running")
        /\ view.status # "running" /\ ~open_assistant(view.items)

\* A run is reported failed only if that turn failed at the daemon (turn_error,
\* message_start and reset_accumulator).
FailuresAreReal == reported \subseteq daemon.failed

\* What the indicators say of a turn is true: none works that does not, none
\* failed that did not.
StatusIsTrue == NeverStuckWorking /\ FailuresAreReal

\* A question the driver has handled and the daemon still waits on is in front
\* of the operator, answered, or its failed answer was reported.
HandledQuestionsAreVisible ==
    daemon.ask \in seen.handled =>
        \/ daemon.ask \in ToSet(view.approvals)
        \/ \E p \in posts : p.id = daemon.ask
        \/ daemon.ask \in seen.told

\* The answer the daemon gets is the one behind the label that was picked, and
\* a grant is kept only where the daemon's rule allows it.
AnswersMeanTheirLabels ==
    \A a \in seen.answers :
      LET q == Question(a.id)
          r == a.resp
      IN  /\ r.kind = "permission" =>
               /\ r.target \in q.keep \cup {"once"}
               /\ OptionsOf(q)[a.picked] = PERMISSION_APPROVAL_LABELS[
                    position(PERMISSION_APPROVAL_CHOICES, choice(r.granted, r.target))]
               /\ choice(r.granted, r.target) = prune_approval_options(q.keep)[a.picked]
          /\ r.kind \in {"clarification", "plan_handoff"} => r.key = q.keys[a.picked]

\* A session with a question on the screen that the daemon waits for is counted in the badge
\* of the app (the fold of the transcript and track_attention read the same events apart).
OpenQuestionsAreCounted == daemon.ask \in ToSet(view.approvals) => needs_operator(attention)

\* The same of every question on the screen.  It fails for one whose turn was stopped: its card
\* stays, the next turn that fails clears what the session waits for (runFailed), and from the
\* turn after that on nothing says that a card is open.
OpenCardsAreCounted == view.approvals # <<>> => needs_operator(attention)

\* Every question is put to the operator, counted for one who is elsewhere, and
\* answered as the operator meant.
QuestionsAreSettled ==
    HandledQuestionsAreVisible /\ OpenQuestionsAreCounted /\ AnswersMeanTheirLabels

\* A text that was queued is still queued, was delivered to the model or is
\* handed back to the composer (clear_queue against the daemon's drains), unless a
\* reload killed the daemon that held it: reload_session hands nothing back.
QueuedTextAccounted ==
    \A p \in 1..used.turns :
      \/ p \in ToSet(queue) \cup seen.delivered \cup seen.returned \cup seen.killed
      \/ op # None /\ op.kind = "clear" /\ p \in op.texts
      \/ p \in seen.sent

\* The queue shown holds no message the daemon does not hold, except after a prompt's
\* reading of the queue was shown behind the consumer's newer one.
NoGhostInQueue ==
    Quiet /\ used.failures = 0 /\ used.loss = 0 /\ ~seen.stale =>
        ToSet(view.queued) \subseteq ToSet(queue)

\* No queued text disappears, and none is shown waiting that is not.
QueueIsAccounted == QueuedTextAccounted /\ NoGhostInQueue
=============================================================================
