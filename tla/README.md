# Pantoken: a TLA+ verification project

Pantoken is a single-user remote control for the polytoken coding agent. A Rust
server (the *hub*, `server-rs/pantoken-server`) owns the agent's sessions through
a driver that talks to polytoken daemons; browser tabs, a PWA and a Tauri desktop
application (`client/`, `desktop/`) follow and steer those sessions over
WebSockets, on this machine or on remote hosts reached through ssh. This directory
holds TLA+ models of the parts whose correctness depends on the order of things,
TLC configurations that check them on small instances, and TLAPS proofs that hold
for every instance.

Source paths below are relative to `src/`; `hub.rs`, `journal.rs`,
`polytoken/driver.rs` and so on are under `server-rs/pantoken-server/src/`,
`store.svelte.ts`, `ws-client.svelte.ts`, `prompt-outbox.ts` under
`client/src/lib/`.

## Inventory

| Component | State | Operations | What makes it hard, what must hold |
|---|---|---|---|
| Session journal, hub routing (`hub.rs`, `journal.rs`) | per session: epoch, seq, compacted prefix, ring; per client: focus and a bounded channel | `add_client`, `remove_client`, `on_event`, `ingest_now`, `RequestSeed`, `OpenSession`, `ReloadSession`, reset, close | every send is a `try_send` that may be dropped; driver events, client messages and queued operations interleave at every lock; a resume token may be older than the process. A tab must never show anything but a prefix of one transcript, and be current once things are quiet. |
| Client view (`store.svelte.ts` `onServer`) | watermark, folded state, gap flag, session to restore | `hello`, `seed`, `event`, `sessionList`, `openSession`, `reloadSession` | frames of old epochs, gaps, replies that never come. |
| Transcript fold (`state.rs`, `state.ts`) | folded session state | `fold_event` in both languages | the two must agree on everything the driver emits. |
| Ingest and coalescing (`hub.rs`, `journal.rs`) | held run of deltas, its timer, the ring | hold, join, flush, evict, restart | a timer racing every other event; three places that merge events and must not change their meaning. |
| Prompt delivery (`store.svelte.ts`, `prompt-outbox.ts`, `hub.rs`) | IndexedDB outbox, live entries, ledger of results, queue | submit, flush, settle, retry, edit, restore | crashes between any two steps, lost sockets, resends racing the first copy. No text may be lost. |
| Operation queue (`hub.rs`) | FIFO of operations, claims, lists sent, dirty flag | ask, switch, edit, list, leave | one applier awaits the driver with the lock released; what it then sends must fit the focus of that moment. |
| Attention, running set, push (`hub.rs`, `push.rs`) | running sets, attention records, subscriptions | updated per event, fanned out, pruned | an indicator must not stay on, an open question must be counted. |
| Driver and warm pool (`polytoken/driver.rs`, `shared/warm_cap.rs`) | warm sessions, recency order, streams and consumers | open, reload, detach, prompt, evict, reseed, reap | eviction works on a list that is not the pool, decisions rest on a cached state. Nothing torn down may go on emitting, no row may be lost. |
| Event map, history seed (`polytoken/event_map.rs`, `history_seed.rs`) | accumulator | translate frames, replay a history | live stream and replay must fold alike, also when the stream was cut. |
| Dialog bridge (`polytoken/ui_bridge.rs`) | pending interrogatives | ask, answer, resolve | an answer must mean to the daemon what its label said. |
| Daemon processes (`polytoken/daemon_client.rs`, `process_identity.rs`) | process, lease, credential, startup file | spawn, attach, heartbeat, close, kill | pids are reused, daemons hang, a terminal takes the lease. |
| Session actions (`polytoken/driver.rs` `session_action`) | cached mode and model | set, confirm from the stream | GET /state does not carry everything. |
| Catalogues, config watcher (`polytoken/config_watcher.rs`, `driver.rs`) | caches, debounce window, single-flight flag | list, fetch, invalidate | invalidation racing a fetch; lost wake-ups. |
| Stores (`settings_store.rs`, `archive_store.rs`, `push.rs`, `worktree_store.rs`) | files rewritten in place | set, load, prune, move the directory | a crash in the middle of a write. |
| Worktrees (`shared/worktree.rs`) | directories, index | create, check, remove | uncommitted work. |
| Connection layer, frames (`connection/`, `frame.rs`) | decoder buffers | read, write, hello gate | arbitrary fragmentation, hand-over between two decoders. |
| Remote runtime, pid lock (`remote/`, `pidlock.rs`) | lock file, socket, idle clock | bootstrap, serve, reap, exit | many proxies starting one server; kills anywhere. |
| Desktop bridge, profiles, provisioning (`desktop/src`) | connection tasks, relays, remote disk, acknowledgements | connect, preflight, install, relay, stop | cancellation between any two commands; containers replaced under their name. |
| Supervisor, updater, shell (`desktop/src`) | child, strikes, update card | spawn, probe, respawn, update, quit | crash loops, hung servers, reports that are lost. |
| Mock driver (`mock_driver.rs`) | script in flight, generation | play, flush, abort, branch, reset | three parties play and cancel at once; e2e tests rest on it. |
| Multi-host coordinator, UI, file search, archive validation, deployment | selection, rendering, strings | – | see *Not modelled*. |

`PROJECT.json` lists every component with its status and reason, every hazard at
the line where it bites, and the source lines behind every definition.

How they interact: the driver calls `SessionHub::on_event` under the hub lock;
the hub stamps, journals and pushes into client channels; each connection has a
pump task (channel to socket) and an inbound loop (socket to `handle_client`,
under the lock). Work that needs the daemon is enqueued as an operation and run,
one at a time, by the applier task, which takes and releases the lock between its
awaits. A tab is single-threaded; its concurrency is between IndexedDB
transactions, timers and socket messages. The desktop application supervises a
local server, and for each remote host runs an ssh process that talks frames to a
stdio proxy, which relays them to that host's runtime.

## Modules

| Module | Models |
|---|---|
| `SessionSync`, `SessionSync_proofs` | journal, routing, switches, resume, the client's watermark; its proofs |
| `SessionFold`, `HubIngest` | the fold in both languages and what may be merged; the held run, its timer, the ring |
| `ServerData_proofs` | proofs about `HubIngest` (with `SessionFold`) and `DurableStores` |
| `PromptDelivery`, `PromptDelivery_proofs` | outbox, socket, ledger, applier, daemon; that no text is lost and none sent again once cleared |
| `WarmPool` | attachments, consumers, recency order and cap, reload, detach, prompt, reaper |
| `EventMap`, `HistorySeed`, `UiBridge`, `HubStatus`, `SessionMirror` | one session from daemon frames to what tabs show: mapping, replay, answers, indicators, and their composition |
| `HubOps`, `OpService`, `HubOps_proofs` | the operation queue with its lists; the abstract service it implements; its proofs, the refinement among them |
| `SessionActions` | settings changed by clients, confirmed by the stream |
| `DriverCaches` | catalogues, single-flight fetch, config watcher |
| `DurableStores`, `BackgroundModel` | files across crashes, subscriptions, settings, titles; resolution of the background model |
| `DaemonSession`, `Worktrees`, `DaemonSession_proofs` | daemon processes, leases, pids, worktrees; their proofs |
| `FrameStream`, `FifoChannel` | framing and relaying byte by byte; the abstract channel it implements |
| `RemoteRuntime`, `PidLock` | proxies, runtimes, lock, idle exit |
| `ServerParts_proofs` | proofs about `DriverCaches`, `SessionActions`, `RemoteRuntime` and `WarmPool` |
| `RemoteLink`, `RemoteHost`, `RemoteLink_proofs` | profiles, preflight, provisioning, bridge; the remote disk and containers; their proofs, and that `FrameStream` implements `FifoChannel` |
| `DesktopShell`, `DesktopShell_proofs` | supervisor, updater, update card, launches and quits (uses `PidLock`); its proofs |
| `MockDriver`, `MockScripts` | the scripted driver and its scripts and seeds |
| `MC*` | constants of the runs; `MCServerParts`, `MCSyncAndPool` and `MCRemoteLink` put parts that share nothing side by side |

Extending and composing: `HubIngest` and `SessionMirror` fold with `SessionFold`
(`SessionMirror` through `HistorySeed` and `EventMap`); `DaemonSession` extends
`Worktrees`; `DesktopShell` and `RemoteRuntime` extend `PidLock`; `RemoteLink` extends
`RemoteHost`; `HubOps` instantiates `OpService`, `FrameStream` instantiates
`FifoChannel`. A module of proofs about several components extends them all, for which
they share no name: hence `PoolInit`, `FramesSpec` and the like.

### SessionSync

`journals`, `epochCounter`, `focus`, `clients` are the fields of `SessionHub`;
`chan[c]` is the bounded channel of a connection together with its socket;
`up[c]` the client messages on their way; `opq` and `cur` the operation queue and
the switch being executed; `store[c]` the tab's fold. `hist` is a history
variable: `hist[e]` is the session epoch `e` belongs to and everything it ever
stood for, which is what a tab's view is compared with.

A switch is four actions, one for each stretch the applier runs under one lock:
`StartSwitch` (the fetch begins), `FinishSwitch` or `FailSwitch`, `BuildReseed`,
`SendReseed`. `try_send` appends what fits and drops the rest, as the code does.
Frames carry no sizes: the byte cap of the ring is the freedom to evict any number
of frames, so the results hold for every size estimate.

Left out: the other messages of the protocol (they only use up channel slots,
which the small capacities stand for), drafts and boot restoration,
`pendingSeedRequest` (set only when the socket is not OPEN, when no frame can
arrive to reveal a gap), and server-side connections whose socket is half dead.

### SessionFold and HubIngest

Texts are sequences of the stamps of their fragments, so the fold of a merged
delta can be compared exactly with the fold of its parts. One optional snapshot
field stands for all that are treated alike, the status bar for all ambient
surfaces. The Rust and the TypeScript fold differ in one place the driver could
reach: a tool event addresses every card of its call id in Rust and the first one
in TypeScript; call ids are not reused within a transcript, which the driver's
alphabet respects. (An empty status text, which TypeScript deletes and Rust
stores, is not emitted.) `delta_flush_ms = 0` and calls without a runtime, where
nothing is held, are left out.

### PromptDelivery

IndexedDB runs the transactions of a page in the order they were issued, so `idbq`
is a queue and each `Commit*` action is a transaction together with the code after
its await. A page reload drops the queue and everything in memory. The composer
survives a reload (its text is stashed on every keystroke). An id is one attempt;
`taken[id]` counts how often the daemon took it. A *regime* fixes the failures of a
behaviour. Failures of IndexedDB itself are left out, and so is a draft that
competes with an edited prompt for one composer.

### WarmPool

An attachment (`conns[i]`) is one `WarmSession`: the process it was made to, its
cached `turn_in_flight`, the state of its event stream, the consumer's inbox and the
effect it is awaiting. `op` is the driver call the hub's applier awaits, cut where the
code awaits: a cold open is `OpenCold`, `Install`, `Insert`, then `EvictClose` and
`EvictDispose` for each victim, `History`, `FinishSwitch`. `owed` is a history
variable, the rows streamed while their session was warm, connected and journaled.
Left out: a landing session (set only at boot), more than one client looking, and a
daemon that dies by itself (`DaemonSession` has that). `swap_buffer` is written and
never read by the code, so it has no counterpart.

### SessionMirror and the modules it composes

The daemon is external: a turn of blocks, tool calls, questions, errors and retries,
a queue of prompts, and a history. `stream` holds the frames on their way;
`StreamDrops`, `StreamBreaks` and `StreamReconnects` are what `sse_loop` meets.
`handle_sse_event` maps one frame (`EventMap`), emits its events through `on_event`
(`SessionFold` for the view, `HubStatus` for the indicators) and leaves its HTTP
effects in `todo`. The consumer and the hub's applier are two tasks: a reading of the
history or of the queue and the event made of it are two steps, and frames are handled
between any two steps of a prompt or of a queue restore. `RowsOf` and `RowsOfView`
compare the daemon's record with the screen. A reload kills the daemon with what it has
queued, and hands nothing back (`reload_session`, `hub.rs:1478`). `seen` keeps what the
properties except (see *Exceptions*).

### HubOps and OpService

An operation is a record with the number of its request; `run_hub_op_applier` takes
the head, the actions named after the handlers are its stretches under the lock.
`lists[c]` is what a connection received last. `OpService` says what a
connection may rely on: requests are served one at a time and in order, all of
them, and a focus moves only when a switch that its connection asked for is served.
Its `waiting` is the set of what was asked and not served, and `Serve` picks the
oldest, the request with the least number; `Safe` is the specification without
fairness. The refinement maps `ops` and `cur` to that set.

### SessionActions

`settings` are the daemon's, `monitor_mode` and `active_model` the driver's caches,
`shown` what the last snapshot said. A change is POSTed, announced on the stream,
consumed, and shown; a lost stream, a refused call and a daemon that switches by
itself fall in between. A seed is two steps: the snapshot is taken (`BuildSeed`), then
`GET /history` is awaited and the hub makes the journal (`Seed`); what the consumer
emits in between is dropped.

### DriverCaches

A caller is a task inside a `list_*` call; its steps are what runs between two
awaits or locks. `Notify` keeps at most one permit, as tokio's does. A catalogue is
the versions of its inputs, so that "fresh" is an equation.

### DurableStores, BackgroundModel

A write is a truncation and then the content: a crash in between leaves a torn file,
which the next start reads as empty. Losses that a crash or a failed write explains
are excused, no others. `BackgroundModel` checks the suffix rules of
`background_model.rs` against a definition by longest match.

### DaemonSession and Worktrees

A process is named by its birth number, which stands for its start time, port and
credential; pids are handed out again. An operation of the driver is cut at its
awaits; daemons start, hang and exit, a terminal attaches, the server crashes in
between. `strays` counts the attaches and starts that gave up on a daemon that lived,
and the crashes of the server in a start whose living child `startup.json` did not name
yet; `struck` is about the processes signalled, `lost` about work deleted. A start time
may be unreadable (`capture_start_time` returns nothing), and then `kill` has nothing to
compare with. A worktree is made (`create_worktree`) and recorded (`add_worktree`),
looked at (`look`), removed (`remove`) and marked as reaped (`mark`) in steps of their
own, so that a crash can leave an entry without a directory or a directory without an
entry. `op.wait` says what an operation waits for in vain: a command (`polytoken`, `git`,
`jj`, or a pipe that somebody keeps open; `Hangs`, `answer_ends`), or the rest of an
answer whose headers came in time (`Stalls`). `release_lease` is the DELETE that a dispose
and a detach begin with.

### FrameStream and FifoChannel

Bytes one by one: four of length, then a body; a read returns any number of them. The
first frame towards a runtime is read by a decoder of its own, whose left-over bytes are
lost, so the next decoder may start in the middle of a frame and read a length there.
What such a length amounts to is fixed by the size of the frame and the place in it
(`Misread`, a constant function); JSON text read as a length is over the limit.
`FifoChannel` delivers in order and exactly once, except towards the server, where it
may skip: `StdioReader` (`connection/stdio.rs:178`) returns the first message of a read
and drops a second one that the same read completed.

### RemoteRuntime, PidLock

The lock is a read and a write of a file, two actions: `raced` records that another
process wrote in between. A killed process removes nothing.

### RemoteLink, RemoteHost

A connection task is a program counter through preflight, probe, compatibility,
fetch, digest, upload, the install script (one action per shell command) and the
bridge; a relay is one browser connection with its ssh process. `ran` is the history
of what was executed in containers, `granted` the acknowledgements given. An edited
profile comes back with the answers the form was opened with
(`RemoteProfileForm.svelte:217`), or with none. `stop_remote` waits a while for a task
and then forgets it, so a host can be connected again while its last attempt goes on;
`AllowOverlap` says whether that happens. `ran` holds what is installed or run for the
user. The probe of the container's identity and user that precedes the questions
(`desktop/src/remote_executor.rs:241`) does run in the container before anything is
acknowledged, and is not in `ran`.

### DesktopShell

The supervisor thread, the updater loop, the tray check, the hub processes and the
card. Probes and deadlines are nondeterministic, their counters are kept. A hub that
an application left behind by being killed is an orphan. The pid lock is read and
written in two steps, as in `RemoteRuntime`, and `raced` says that a hub overwrote a
file that had changed since it read it. The updater looks at `/health` once in a cycle;
`upd.attended` is what it saw.

### MockDriver, MockScripts

Each script and each seed is the sequence of the kinds of its events and whether the
task sleeps before each. `play_script`, `flush_scheduled` and `cancel_timers` are cut
at every lock, since the applier, a Mock message and an abort run them concurrently.

## Runs

All runs set `CHECK_DEADLOCK FALSE`: users, drivers and failures are bounded, so
every behaviour comes to rest.

| Run | Question | Bounds |
|---|---|---|
| `sync_and_pool` | Is a tab current, well routed and never set back, when nothing is dropped? Does eviction see every warm session and keep the cap, does teardown leave a consumer behind, is a streamed row lost? | `MCSyncAndPool`: two parts that share no state, one of them moving in each behaviour. Tab: 2 sessions, 1 tab, 2 opens, 1 lost socket or restart; ring of 1; a channel of 30, which never fills. Pool: 2 sessions, one warm with a turn in flight, cap 1; 3 driver calls, or one and one of: a state change, a lost stream, an idle reap; 3 attachments, 1 row each |
| `sync_two_tabs` | Can overflowing channels, resets, reloads, lost sockets and restarts ever make a tab show something that never was? | 1 session, 2 tabs (symmetric), channels of 2, 2 epochs of 2 events, 1 open, 1 reload, lost socket or restart |
| `ingest` | Does the journal always fold to the view, does coalescing lose or reorder anything, is a held run ever stuck? | any 4 events of one of four workloads, each with deltas and resets: tools; messages, usage and snapshots; dialogs and ambient surfaces; queue, status and snapshots; ring of 2 |
| `prompt_outbox` | Is a text ever lost, a settled one sent again, a saved one left without a verdict? | two regimes: one attempt with every outcome but a lost reply, 1 lost socket, 1 reload, 1 hub restart; two attempts with retries, edits, a lost reply, 1 dropped verdict and a ledger of 1 |
| `prompt_taken_once` | Does the ledger keep a resent prompt from running twice? (refuted) | one attempt, one lost socket |
| `server_parts` | Do the transcript, the indicators, the questions, the queue, the caches, the settings, the scripts and the stores agree with what they stand for? | `MCServerParts`: five parts that share no state, one of them moving in each behaviour; sessions of `SomeWorkloads` (which kinds of work and of failure meet), 2 turns of 2 steps, 1 loss, 1 failed call, 1 reload, streams of 2 frames; 3 callers; of 2 switches, a lost stream and a refused request, 3 in a behaviour; scripts of `SomePlans`; errands of `SomeErrands` |
| `hub_ops` | Does the queue serve every request, in order, and leave the lists right? | 2 connections, 2 sessions, 2 requests, 1 title, 1 tick, five menus of requests |
| `remote` | Is anything run where it was not allowed, installed half, or left running? Does the relay deliver? | 1 host, 2 connection tasks, 1 relay, 1 disturbance, 2 containers; 3 messages of 1 to 3 bytes, the largest over the limit, cut at every byte |
| `shell` | One server, no orphan, no install nobody asked for, no card that never settles? | 2 launches, 3 hubs, no lock file at first, 1 click, 1 lost report, 2 disturbances, 2 strikes, 1 rapid restart |
| `shell_mid_turn` | Does the busy gate keep a running turn from being cut off by an update? (refuted) | 1 launch, 1 hub, an unreadable lock file at first, no clicks, no disturbances |
| `remote_runtime` | One runtime per root? Does every proxy settle and every idle runtime exit? | 3 proxies, 2 runtimes, 2 kills |
| `daemon_session` | Is a stranger ever signalled, a daemon started beside one that would answer, work deleted that was looked at? Do operations end? | 2 pids, 3 processes, 2 faults, 1 in a session with a worktree |

Why these bounds are enough: each makes its cases happen and little else. A ring of one
or two frames evicts at once, a cap of one evicts on every open, a channel of two
overflows on a seed and two frames, a ledger of one forgets, two pids for three
processes force reuse, the relay's reads of up to twelve bytes may complete two frames
at once or none. Races here are between two parties (two tabs, two connections, two
tasks), and the third one, where there is one, is the task between them.

Each property is preceded by its meaning in words. In the module of a definition a
second form marked "Seeded bug" changes it the way a plausible slip would, and the
run that checks a property refutes it under that change: this shows that the run
reaches the case the property is about. `TypeOK` is in a configuration only for
`SessionSync`; the other modules' `TypeOK` hold too, and `INVARIANT TypeOK` added to
their configuration checks them.

### Statements of the code that TLC refutes

Properties the models contain that state what a comment, a document or a name promises,
and that the code as modelled does not keep. `prompt_taken_once` and `shell_mid_turn`
are runs of their own; each of the others is reproduced by adding the line given to the
configuration given.

| Property | Configuration | What happens |
|---|---|---|
| `PromptDelivery.TakenOnce` | run `prompt_taken_once` | The ledger records prompts when they finish (`hub.rs:1389`) and is asked when one arrives (`hub.rs:1341`): a resend of a prompt still queued or running runs a second time. |
| `DesktopShell.NeverRestartsMidTurn` | run `shell_mid_turn` | The updater asks `/health` once, before the download; a turn that starts during the download is cut off by the restart (`desktop/src/updater.rs:258`, `282`; "Never restarts mid-turn", line 12). |
| `SessionSync.QuietViewsRouted` | `SyncAndPool.cfg`, `INVARIANT` | A resume token that the ring no longer covers: the tab is seeded with its session and focused on the landing one, or on none (`hub.rs:1213`, `1264`; `store.svelte.ts:2435`). |
| `SessionSync.GapHeals` | `SyncTwoTabs.cfg`, `SPECIFICATION FairSpec`, `PROPERTY` | The reply to `requestSeed` is dropped by a full channel and never asked for again (`store.svelte.ts:1086`). |
| `SessionSync.QuietViewsCurrent` | `SyncTwoTabs.cfg`, `ChanCap = 8`, `INVARIANT` | A co-viewer's reseed is built before an event that the co-viewer gets first; the older seed then replaces it (`hub.rs:2811`). |
| `PromptDelivery.NoTextLost` | `PromptOutbox.cfg` with `SPECIFICATION Spec` and `reloads \|-> 1` in the second regime | A page closed inside a retry, between the deletion of the old entry and the save of the new one (`store.svelte.ts:2108`). |
| `WarmPool.TurnsSurviveEviction` | `SyncAndPool.cfg`, `PROPERTY` | A session prompted a moment ago is not known to be busy and is evicted with its turn (`polytoken/driver.rs:1174`). |
| `HubOps.CleanListIsCurrent` | `HubOps.cfg`, `INVARIANT` | A session archived while its worktree has changes: the asker is told so, no list is sent and the flag stays clear (`hub.rs:1728`, `2380`). |
| `RemoteLink.ExitIsSurfaced` | `Remote.cfg`, `INVARIANT` | The end of ssh's output is seen before its exit: the relay returns without classifying it, and the host is shown as ready (`desktop/src/bridge.rs:1105`, `1116`). |
| `RemoteRuntime.BootstrapSucceeds` | `Runtime.cfg`, `INVARIANT` | The proxy holds the lock while it waits for the runtime it spawned, which finds the lock held by a live process and exits; the wait runs out (`remote/runtime.rs:212`). |
| `SessionActions.ReseedRecoversMode` | `ServerParts.cfg`, `INVARIANT` | A mode change whose frame was lost: the reseed reads `GET /state`, which does not carry the mode. |
| `SessionMirror.OpenCardsAreCounted` | `ServerParts.cfg` with `MaxTurns = 3` and one workload, `{"ask", "abort", "error", "queue"}`, in `SomeWorkloads`; `INVARIANT` | A turn is stopped while its question is open: the card stays on the screen. The next turn fails, which clears what the session waits for (`hub.rs:866`), and the turn after it is running: the card is open and the badge does not count it. `QuestionsAreSettled` therefore speaks of questions the daemon still waits for. |
| `SessionActions.ThinkingKeepsModel` | `ServerParts.cfg`, `PROPERTY` | `SetThinking` posts the cached model with the level, which undoes a switch the driver has not heard of yet. |
| `DaemonSession.OpsEnd` | `Daemon.cfg`, `PROPERTY` | An operation waits without a limit: for the stderr of a daemon that does not start (`polytoken/daemon_client.rs:390`), for `polytoken new` (483), for the rest of an answer (1264), for the output of a child that was killed (623), for git or jj (`shared/worktree.rs:373`). |
| `RemoteLink.InstalledServerIsWhole` | `Remote.cfg` with `AllowOverlap = TRUE` | "a unique PID-suffixed name" (`desktop/src/provisioning/pantoken_server_install.rs:170`): the `$$` of the staging directory's name is quoted, so two attempts share one, and the second's half-unpacked archive is renamed into place by the first. |

A further one is built into `FrameStream`: of two messages that one read completes,
`StdioReader` returns the first and drops the second, which is why `FifoChannel` may
skip towards the server.

### Exceptions the properties make

A property that holds only outside a case the code leaves open names the case:

- `WarmSessionsAreWhole` claims that consumers and pool agree until the idle reaper
  first runs: a session opened while it works is dropped from the pool with its
  consumer alive (`Forgotten`). Such a consumer may later replay a history it fetched
  long ago and roll the journal back, so the promise about rows excepts the sessions
  that have one.
- `QuestionsAreSettled` claims that a question is counted while the daemon waits for its
  answer (see `OpenCardsAreCounted` above).
- `TranscriptMatchesHistory` excepts the row of a prompt whose echo came between the
  reading of the history for a reseed and its showing: the reseed wipes it, and nothing
  brings it back (`seen.wiped`).
- `StatusIsTrue` excepts an echo that is shown when the turn is over: the row says the
  session works, and no frame is left to say it does not (`seen.late`).
- `QueueIsAccounted` excepts texts queued at a daemon that a reload killed
  (`seen.killed`: `driver.rs:2298` and `hub.rs:1478` hand nothing back), and the queue
  that is shown after a prompt's reading of it (`driver.rs:1648`) was overtaken by a
  newer one of the consumer (`seen.stale`): the tab shows a message as waiting that has
  been delivered, until the queue changes again.
- `BadgeIsTruthful` excepts four gaps: a switch told while the stream was down, one
  overwritten by an older answer, one in the consumer's hand while a seed's snapshot is
  taken, and one emitted between that snapshot, `GET /history` and the journal made
  of them.
- `OneRuntime` and `OneServer` exclude a lock file that changed between one process's
  read and write: nothing holds it in between, so two that start at once (for the
  desktop, the hub of a killed launch and the one of the next) can both pass.
- `AttendedInstallsAreAsked` is about what the check of an update cycle saw. A client
  that connects, a turn that starts or a hung hub that recovers between the check and
  the install is neither protected by the code nor counted (`shell_mid_turn`).
- `DaemonsAreAccounted` allows one more daemon for each attach or start that gave up on
  a daemon that lived, and for each crash of the server in a start whose living child
  `startup.json` did not name: the next open finds nothing to attach to. Daemons that
  were told to stop are counted as long as they run.
- `UncommittedWorkSurvives` excepts, in a jj workspace, changes made after
  `reap_worktree` looked and found none: jj forgets a workspace without a second look,
  git looks again.
- `OpsEndUnlessHung` excepts the waits that have no limit, listed under *Fairness*.
- `SettledCachesAreFresh` excludes a catalogue that was being read while its
  invalidation ran, and projects that could not be watched.
- `EveryPromptSettles` excludes a verdict dropped by a full channel on a socket that
  stays up.
- `StrangersAreSpared` excludes a daemon whose start time could not be read, because it
  died first or the system would not tell.
- `InstalledServerIsWhole` is checked and proved for attempts that do not overlap (see
  the table above for what happens when they do).
- `NoTextLost` holds in behaviours where no page is closed inside a retry, and
  `ViewNeverRegresses` in those where no reseed goes out late; the runs' bounds leave
  these out, the theorems say so (`CutsRetry`, `LateReseed`).
- `ViewersAreServed` further needs channels that never fill and a hub without a landing
  session.
- `AnsweredChangesLast` excludes files that a crash or a failed write hit.
- `TranscriptMatchesHistory` allows repetitions after a replay.

### Refinements

`HubOps!ImplementsOpService` shows that the queue with its handlers, locks and awaits
implements `OpService`, liveness included. `FrameStream!ImplementsChannel` shows that
bytes, buffers and two decoders implement `FifoChannel`. Both are checked as
properties of a run.

### Fairness

- `SessionSync!FairSpec`: the applier, each tab's message handling and the hub's
  handling of client messages go on (tokio tasks and browser event loops). Nothing
  is assumed of users, of the driver or of connections.
- `HubIngest!FairSpec`: the flush timer and the queue, not that another event comes.
- `PromptDelivery!FairSpec`: transactions commit, the client keeps reconnecting
  (`scheduleReconnect` has no last attempt), hellos and verdicts are handled, and the
  daemon answers or the request fails.
- `HubOps!Spec`: the applier.
- `DaemonSession!FairSpec`: the driver goes on, and a daemon that is starting starts or
  fails. Not every await has a limit, so going on may mean to wait: `Hangs` and `Stalls`
  leave an operation in `op.wait`, which nothing has to end, and a stderr that a running
  daemon keeps open is never at its end. Without a limit are the commands of `polytoken`
  (`daemon_client.rs:483`), of git and jj (`worktree.rs:242`, `373`), the pipes of a
  child (390, 623) and the body of an answer (1264; `safe_fetch` limits its headers).
  Limited are the headers of each call, the poll for `startup.json`, the `/health` of a
  spawned daemon, and `close`. `GET /history`, which the driver asks once the session is
  in the pool, is one more answer of the same kind and no step of its own here.
- `DesktopShell!FairSpec`: weak fairness of the threads of the hub, the supervisor, the
  updater and the teardown. Strong fairness of a poll cycle and of its look at the
  endpoint: the loop polls for as long as the application runs, and a cycle is
  disabled again and again, while the hub restarts.
- `RemoteRuntime!FairSpec`: each process of the bootstrap that has not been killed.
- `RemoteLink!LinkFairness`: each connection task and relay.

Failures, kills and lost messages are bounded and never assumed to happen, so the
liveness results read: provided failures stop.

## Proofs

The theorems hold for any values of the constants that the modules' assumptions
allow: any sets of sessions, tabs, texts, hosts, pids, any capacities and bounds. Each
rests on an inductive invariant, whose preservation has one step (or lemma) for each
action; the parts of an invariant are definitions of their own at the head of the
module.

| Module | Theorems | Inductive invariant |
|---|---|---|
| `SessionSync_proofs` | `TypeCorrect`, `JournalsCorrect`, `InFlightCorrect`, `ViewCorrect`, `FocusCorrect`, `WatermarksCorrect`, `ViewersCorrect` | `Inv`, and on top of it `Routed`, `Steady`, `Followed` |
| `ServerData_proofs` | `SeedFoldsToViewCorrect`, `NothingLostCorrect` (`HubIngest`) | `IngestInv` |
| | `AnsweredChangesLastCorrect` (`DurableStores`) | `StoresInv` |
| `PromptDelivery_proofs` | `NoTextLostCorrect`, `ClearedIsNotResentCorrect` | `Inv(T)`, `ClearInv` |
| `HubOps_proofs` | `DrainedListsCorrect`, `ListsNeverGoBackCorrect`, `ServedInOrder` | `Inv`, and `InOrder` for the refinement |
| `ServerParts_proofs` | `SingleFlightCorrect`, `SettledCachesCorrect` (`DriverCaches`) | `FlightInv`, `FreshInv` |
| | `BadgeIsTruthfulCorrect` (`SessionActions`) | `BadgeInv` |
| | `RuntimeTypeCorrect`, `OneRuntimeCorrect` (`RemoteRuntime`) | `RuntimeInv` |
| | `PoolTypeCorrect`, `WarmSessionsAreWholeCorrect`, `CapRespectedCorrect` (`WarmPool`) | `PoolInv` |
| `DesktopShell_proofs` | `TypeCorrect`, `OneServerCorrect`, `HubsAreOwnedCorrect`, `AttendedCorrect` | `Inv` |
| `DaemonSession_proofs` | `TypeCorrect`, `StrangersCorrect`, `DaemonsCorrect`, `WorkCorrect` | `Inv` |
| `RemoteLink_proofs` | `TypeCorrect`, `RunsCorrect`, `InstallsCorrect` | `RunInv`, `InstallInv` |
| | `FramesCorrect` (`FrameStream`) | `FramesInv` |

### The arguments

**SessionSync.** `Inv == TypeOK /\ HistOK /\ JournalsTruthful /\ InFlightTruthful /\
ViewIsPrefix`. `ViewIsPrefix` alone is not inductive: that the next frame extends a
view correctly depends on the frame, which is what `InFlightTruthful` says of every
message on its way; that a message is truthful when it is made depends on the journal
it is made from (`JournalsTruthful`); and that all of them stay true while epochs grow
and new ones begin depends on `HistOK` (epoch numbers are positions in `hist`, never
reused, and no journal has an epoch that has not been minted). Truthfulness is
monotone: a message that agreed with its epoch still does after the epoch has grown,
which is why dropped, delayed and reordered deliveries need no case of their own.

`Routed` adds that whoever waits for an operation is connected and that the landing
session has a journal: from it `FocusHasJournal`. `Steady` says that no seed in a
channel is older than the tab's watermark or than a message in front of it. The code
breaks this in one place, when `reload_session` sends the reseed it built earlier to
co-viewers that have had later events; `WatermarksCorrect` is about the behaviours
without that step (`LateReseed`), and TLC shows what happens with it
(`QuietViewsCurrent`). `Followed` says where a tab will be once it has handled what is
in its channel: at the stamp of its focus' journal, unless a seed is still owed to it.
`ViewersCorrect` needs three hypotheses, each of which the code can violate and each of
which leaves a tab behind when violated: no late reseed, channels that never fill
(`HasRoom`; a dropped frame is only noticed with the next one), and no landing session
(`QuietViewsRouted`). `SyncAndPool.cfg` satisfies all three.

**PromptDelivery.** A text is kept when the composer has it, or when an attempt that
says it has been taken or has an entry that stays: it is saved and no transaction
in the queue of IndexedDB will settle it, or it is about to be saved. The order of
that queue is what matters: an attempt gets its entry once and nothing works on it
before (`EntriesComeOnce`), a retry says the same text again (`RetriesSame`), and every
verdict "accepted", wherever it is, is about a prompt the daemon took
(`AcceptedWasTaken`). The hypothesis excludes the one loss there is, a page closed
between the two writes of a retry (`CutsRetry`).

`ClearedIsNotResent` needs another invariant (`ClearInv`). Once an entry is to be
deleted, is offered to the user, or a verdict on it is on its way (`Handed`), the page has
issued the last transaction that would save it for sending (`Over`). A step that hands it
over can come from far away, a verdict about a run two connections ago; what excludes a
save behind it is that whatever is not saved yet has not been sent (`NewsIsUnsent`), that a
save for sending has no deletion in front of it (`SavesComeFirst`), and that operations
carry the key of this connection or an earlier one (`KeysAreOld`).

**HubIngest.** `NothingLost` is the easy half: the journal, with the held run at its end,
folds to what everything emitted folds to. The other half is that a journal that
is rewritten, by coalescing (`CompactedFolds`), by evicting into the compacted prefix, and
by the prefix that a reset synthesises from the folded state (`MetaSeedFolds`), still
folds to the same state, in both languages. The lemmas are about `SessionFold`: a fold of
two sequences is the fold of the second from the fold of the first (`FoldConcat`), a merged
event folds like the two it was made of (`MergeFolds`), and the two languages agree while
no call has two cards (`HubIsTab`; that it stays so is `Evolves`, what each event may do to
the cards). `IngestInv` says that the journal is well formed and stands for the view of a
tab (`JournalOK`).

**DurableStores.** Each store has its own part: what a whole file holds, or will hold once
the write in flight ends, is what the store has in memory (`OnDisk`), unless a crash or a
failed write damaged it. `ArchiveInv` follows the file over the move of the data
directory, `KeyInv` and `PushInv` tie subscriptions to the key they were made under,
`RowInv` and `SettingsInv` name the last accepted change, and `ToldInv` rests on what
`background_model.rs` calls a model (`ReadingsAreTrue`).

**HubOps.** For every connection and each of its two lists, either the last list on
its way is for its focus, or none is queued and what is being fetched, or what it has,
is (`Settles`); a switch that has still to queue its refreshes is the exception
(`Refreshing`). The list a connection gets when it joins comes before all it asks for
(`ConnectFirst`), so a focus captured then is still right. Versions: what is about to
be sent was read after everything that has been shown (`ReadsAreNew`), though the
directory is read without the lock, since only the applier reads it. `ServedInOrder`
is the refinement of `OpService!Safe`: initial states map to initial states and each
step to a step of the service or a stutter. It needs that the numbers of requests rise
along the queue and that what is queued is not served (`InOrder`).

**DriverCaches.** `FlightInv`: the flag is up while somebody fetches and one at most
does; a permit is stored only while nobody waits; whoever waits, or is about to, has a
fetcher, a permit or a caller with the baton to wait for. `FreshInv`: what is cached or
held by a call agrees with its inputs, or an invalidation that will drop it is pending
(debounced or still in the watcher's queue), unless it was read while one ran (`late`).

**SessionActions.** `BadgeInv` follows the mode from the daemon to the screen. The last
mode event on the stream is the daemon's mode (`LastEventIsRight`); once none is coming, so
is the one in the consumer's hand, the answer a driver call is about to cache, the cache and
what is shown, in this order (`EffectIsRight` to `ShownIsRight`), each with the losses that
may have made it stale (`missed`). That no mode is shown that never was is `ModesAreReal`.

**WarmPool.** The order holds exactly the warm sessions, each once (`PoolIsOrdered`),
which every driver call has to keep over its awaits: `CallsAreFiled` says what a call in
progress has in hand. `LiveIffWarm` needs that an attachment a call relies on is alive
until the reaper runs (`NobodyForgotten`), and that what the reaper chose is still in
the pool (`ReapsWarm`). Rows: a streamed row is in an inbox, or in the journal, or on
the bus, with no replay of an older history behind it (`RowsAreSafe`, `Safe`); it stays
so because a replay carries the number of rows it has read and inboxes and bus keep
their order. `CapRespected` counts: the victims an insertion plans are as many as exceed
the cap, or all that are idle by the cache.

**RemoteRuntime.** Whoever the lock names has written it and is past writing
(`NamedHasWritten`); whoever is about to write read nobody, or somebody gone for good
(`OverwritesTheDead`); hence every runtime past the lock is the one it names, unless a
read and a write were raced (`OwnerIsNamed`).

**DesktopShell.** The supervisor holds a child exactly while it watches or ends one
(`Watching`), a card is kept by a living child (`CardHeld`), and, until a read and a
write of the lock are raced, the lock names whoever is past it (`HoldsLock`). For the
updater, a count: installs begun plus those that clicks already made still owe never
exceed clicks and lost reports (`Asked`), where what is owed is read off the stage of
the cycle and the card (`OwedBy`).

**DaemonSession.** Births and tokens are handed out once (`Unique`), no daemon but the
one it calls has the pid that an answered client was told (`Answered`, `Located`), and a
start time that was read is the daemon's (`Identified`): together `StrangersAreSpared`.
`DaemonsAreAccounted` counts: all daemons, told to stop or not, but the one that
`startup.json` names, or but the child of a start that is not known yet to have
succeeded, are at most the strays (`Accounted`, and `AttachAccounted` for the attach
that fails and spawns another). `TreeKept` says what a removal that is due has seen, and
gives `UncommittedWorkSurvives`.

**RemoteLink.** `RunInv`: an answer that a profile or an attempt holds was given by the
user (`Kept`), and an attempt past preflight, or with a relay, has every risk of its
pinned container answered (`Cleared`); a replaced container has another id, which
`docker exec` does not find. Answers survive edits of the profile because a fingerprint
names container, user and path. `InstallInv`, for attempts that do not overlap: at most
one attempt lives (`Alone`), what it uploads has passed the digest, and its disk is
built as far as the next command of the script needs (`Built`); lemma `ServerScript`
goes through the nine commands. What is installed is trusted only when the script put
it there whole, wherever it was cut.

**FrameStream.** What the decoder holds is the end of what has been read, and no whole
frame (`Buffered`); numbers `E` mark where the frames end in the bytes (`Marks`,
`Written`). The bridge's decoder always stands at the end of a frame (`InStep`), so a
read returns exactly the frames it completes (`FramedPush`, an induction backwards over
the frames) and `got` grows by them. The runtime's decoder may start anywhere. There a
frame that `push` returns from a read ends behind the old bytes (`PushIsFresh`, as the
old bytes held no whole frame), and one that decodes is the body of a sent message whose
last byte is among the new ones (`DecodedIsSent`): a lossy delivery of the channel.
`Settled` is the number of known messages whose last byte has been read, so every step
is `Send`, `Deliver` or a stutter.

### Assumptions

Those of the modules, which TLC evaluates on every run. Capacities and bounds are naturals.
`None` and the other sentinels (`NoLock`, `Garbled`, "host") are none of the values they are
told apart from (`NoneAssumption` of `SessionSync`, `DaemonSession`, `RemoteLink` and
`WarmPool`, `HubOpsAssumption`, `PromptAssumption`, `LimitsAssumption`,
`RuntimeAssumption`, `LinkAssumption`, `OptionsAssumption`). The processes of
`RemoteRuntime` are naturals, the pids of `DaemonSession` a finite set; seeds of
`SessionSync` are non-empty event sequences; a profile that is saved has the fields of
`RemoteProfile` and no answers (`ProfilesAssumption`). `WarmPool` starts with a list of
distinct sessions of which some are busy, and has attachments enough for them
(`OpenedAssumption`, `BusyAssumption`, `ConnsAssumption`). The events of `HubIngest` are
deltas or carry the fields their type has (`AlphabetAssumption`), and its first transcript
opens the session and starts no call twice (`SeedAssumption`). No session's file has the
name of one of the server's own (`StoresAssumption`). A prefix has at least one byte, bodies
have a size, and a misread prefix is some number (`FrameAssumption`).

Three theorems have hypotheses of their own, explained above: `WatermarksCorrect`,
`ViewersCorrect` and `NoTextLostCorrect` about behaviours, `ViewersCorrect` and
`InstallsCorrect` about a constant.

Induction. The library's theorems take a predicate as a parameter and cannot be used;
lemma `SetInduction` states induction over the naturals with a set in its place, derived
from the well-foundedness of inclusion on finite sets. With it recursive functions are
within reach, and the folds, filters and decoders the proofs are about are written as
such (`fold_all_from`, `without`, `push`, `known`). What stays out of reach is a fold or
filter that takes an operator (`FoldLeft`, `SelectSeq`).

### Only model-checked

- Liveness, which TLAPS supports neither under fairness nor through `ENABLED`: every
  property with `~>` or fairness, among them the liveness half of
  `HubOps!ImplementsOpService`.
- `SessionMirror`: `TranscriptMatchesHistory`, `StatusIsTrue`, `QuestionsAreSettled` and
  `QueueIsAccounted`. Its steps fold sequences of events with operators (`FoldLeft` with
  `track_running` and `track_attention`, `SelectSeq` over effects, `FlattenSeq` over the
  history).
- `MockDriver.ScriptsPlayOut`, which is about scripts that are constants of `MockScripts`.

## Not modelled

- Rendering, layout, gestures and local preferences of the client; windows, menus and
  downloads of the desktop shell: no protocol state.
- The multi-host coordinator of the client (`hosts.svelte.ts`), watchdogs, heartbeat
  and backoff of the WebSocket client, drafts and navigation history: see the plan.
- File search, directory listings, branch lists, the login environment: they return
  what an external command printed.
- Parsers and formatters (tool input and output, probe output, CLI listings, command
  line), archive validation and the layout of the remote directory: pure functions
  over strings, whose unit tests enumerate the cases.
- `maybe_notify`'s wording, cookie and token authentication, serialisation.
- Operations of the hub that panic; `pending_switch`, which nothing sets while the
  applier is the only caller; the debug endpoint's `reset`.
- Failures of IndexedDB itself.
- The stub driver, the fake daemon, test helpers, build and deployment scripts.

## Plan

1. `SessionMirror` with its folds and filters written as recursive functions, and then
   its invariants: first `QueueIsAccounted`, whose half about texts needs no fold, and
   the half of `StatusIsTrue` about failures.
2. `HostRouting`: host selection, the routing boundary, outbox entries per server.
3. `WsClient`: watchdogs, heartbeat, backoff and wake, against the abstract "at most one
   live socket, and always a next attempt".
4. Panics in operations, and drafts that compete for one composer.
