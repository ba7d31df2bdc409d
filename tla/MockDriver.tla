----------------------------- MODULE MockDriver -----------------------------
(***************************************************************************)
(* MockDriver (mock_driver.rs), the deterministic driver of the e2e tests: *)
(* how it plays a script.  play_script first settles the script in flight  *)
(* (flush_scheduled: its remaining steps at once), then hands the new one  *)
(* to a task that sleeps between steps; abort, branch and reset cancel it. *)
(* Three parties enter concurrently: the hub's applier (prompt, open,      *)
(* branch, actions), a Mock message (run_script) and the task of each      *)
(* abort.  What the hub does with a seed is left to SessionSync: here it   *)
(* replaces the transcript at once.                                        *)
(***************************************************************************)
EXTENDS MockScripts, FiniteSets

CONSTANTS
    Plans,        \* bounds of one behaviour: [prompts, mocks, aborts, resets, calls, names]
    NoScript      \* in_flight is None

ASSUME NoScriptAssumption == NoScript \notin Nat \ {0}

VARIABLES
    plan,
    generation, in_flight,
    tasks,        \* one per script started: [name, left, gen, drained, signalled, pc]
    player,       \* [party -> where in play_script it is]
    aborter,      \* where the abort is
    settle,       \* generation of the delayed RunCompleted, 0 = none
    last_created, \* is there a created session that was not prompted yet?
    dialogs,      \* pending_dialogs: [on, id]
    goal,         \* "none", "active" or "paused"
    armed,        \* one-shot flags set
    emitted,       \* what was emitted: <<task, step number>>, or <<0, 0>> for abort's RunCompleted
    screen,         \* [session -> [open, tools, cards]]: the transcript folded from it
    cancelled     \* the tasks cancel_timers stopped (started before its generation, handle
                  \* dropped), with the number of events emitted by then: [task, at]

engineVars == <<generation, in_flight, tasks>>
mockVars == <<plan, engineVars, player, aborter, settle, last_created, dialogs, goal, armed, emitted, screen, cancelled>>

-----------------------------------------------------------------------------
Parties == {"applier", "mock"}
Sessions == {"demo", "older", "restored", "new"}
NoPlay == [pc |-> "free"]

EmptyScreen == [open |-> FALSE, tools |-> {}, cards |-> {}]

\* What the client's fold keeps of an event: the bubble that is streaming, the
\* tools that run, the cards that wait.
folded(v, e) ==
    CASE e.k = "delta" -> [v EXCEPT !.open = TRUE]
      [] e.k = "idle" -> [v EXCEPT !.open = FALSE]
      [] e.k \in {"done", "failed"} -> [v EXCEPT !.open = FALSE, !.tools = {}]
      [] e.k \in {"user", "custom", "notice", "compat"} -> [v EXCEPT !.open = FALSE]
      [] e.k = "tool_started" -> [v EXCEPT !.open = FALSE, !.tools = @ \cup {e.id}]
      [] e.k = "tool_finished" -> [v EXCEPT !.tools = @ \ {e.id}]
      [] e.k = "dialog" -> [v EXCEPT !.cards = @ \cup {e.id}]
      [] e.k = "reset" -> [v EXCEPT !.open = FALSE, !.tools = {}]
      [] OTHER -> v

folded_all(v, steps) ==
    LET after[n \in 0..Len(steps)] == IF n = 0 THEN v ELSE folded(after[n - 1], steps[n])
    IN  after[Len(steps)]

MockInit ==
    /\ plan \in Plans
    /\ generation = 1 /\ in_flight = NoScript /\ tasks = <<>>
    /\ player = [p \in Parties |-> NoPlay] /\ aborter = "none" /\ settle = 0
    /\ last_created = FALSE /\ dialogs = {} /\ goal = "none" /\ armed = {}
    /\ emitted = <<>>
    /\ screen = [s \in Sessions |-> folded_all(EmptyScreen, IF s = "demo" THEN greeting_seed ELSE <<>>)]
    /\ cancelled = {}

\* fire_step of task i: a dialog is remembered, the event emitted.
fire_step(i, step) ==
    /\ emitted' = Append(emitted, <<i, Len(Script[tasks[i].name]) - Len(step) + 1>>)
    /\ screen' = [screen EXCEPT ![Head(step).on] = folded(screen[Head(step).on], Head(step))]
    /\ goal' = goal
    /\ dialogs' = IF Head(step).k = "dialog"
                  THEN dialogs \cup {[on |-> Head(step).on, id |-> Head(step).id]} ELSE dialogs

NothingFired == UNCHANGED <<emitted, screen, dialogs, goal>>

-----------------------------------------------------------------------------
(***************************************************************************)
(* play_script, by a party: take the handle, signal its task, drain what   *)
(* it has left, fire that, install the new handle, start the task.         *)
(***************************************************************************)
Play(p, name) ==
    /\ player[p] = NoPlay
    /\ player' = [player EXCEPT ![p] = [pc |-> "take", name |-> name]]

\* in_flight.lock().take().
Take(p) ==
    /\ player[p].pc = "take"
    /\ in_flight' = NoScript
    /\ player' = [player EXCEPT ![p] =
          IF in_flight = NoScript THEN [pc |-> "install", name |-> @.name]
          ELSE [pc |-> "signal", name |-> @.name, of |-> in_flight]]
    /\ UNCHANGED <<plan, generation, tasks, aborter, settle, last_created, armed, cancelled>>
    /\ NothingFired

\* flush_tx.send(()), drained.store(true).
Signal(p) ==
    /\ player[p].pc = "signal"
    /\ tasks' = [tasks EXCEPT ![player[p].of].signalled = TRUE, ![player[p].of].drained = TRUE]
    /\ player' = [player EXCEPT ![p].pc = "drain"]
    /\ UNCHANGED <<plan, generation, in_flight, aborter, settle, last_created, armed, cancelled>>
    /\ NothingFired

Drain(p) ==
    /\ player[p].pc = "drain"
    /\ tasks' = [tasks EXCEPT ![player[p].of].left = <<>>]
    /\ player' = [player EXCEPT ![p] =
          [pc |-> "flush", name |-> @.name, of |-> @.of, steps |-> tasks[@.of].left]]
    /\ UNCHANGED <<plan, generation, in_flight, aborter, settle, last_created, armed, cancelled>>
    /\ NothingFired

\* The drained steps, outside the queue's lock.
Flush(p) ==
    /\ player[p].pc = "flush"
    /\ LET steps == player[p].steps IN
       IF steps = <<>>
       THEN NothingFired /\ player' = [player EXCEPT ![p] = [pc |-> "install", name |-> @.name]]
       ELSE fire_step(player[p].of, steps) /\ player' = [player EXCEPT ![p].steps = Tail(@)]
    /\ UNCHANGED <<plan, engineVars, aborter, settle, last_created, armed, cancelled>>

\* Dropping a handle closes its channel, which wakes its task.
Dropped(i) == IF i = NoScript THEN tasks ELSE [tasks EXCEPT ![i].signalled = TRUE]

Install(p) ==
    /\ player[p].pc = "install"
    /\ LET name == player[p].name IN
       tasks' = Append(Dropped(in_flight),
                       [name |-> name, left |-> Script[name], gen |-> 0, drained |-> FALSE,
                        signalled |-> FALSE, pc |-> "new"])
    /\ in_flight' = Len(tasks) + 1
    /\ player' = [player EXCEPT ![p] = [pc |-> "spawn", of |-> Len(tasks) + 1]]
    /\ UNCHANGED <<plan, generation, aborter, settle, last_created, armed, cancelled>>
    /\ NothingFired

Spawn(p) ==
    /\ player[p].pc = "spawn"
    /\ tasks' = [tasks EXCEPT ![player[p].of].gen = generation, ![player[p].of].pc = "peek"]
    /\ player' = [player EXCEPT ![p] = NoPlay]
    /\ UNCHANGED <<plan, generation, in_flight, aborter, settle, last_created, armed, cancelled>>
    /\ NothingFired

-----------------------------------------------------------------------------
(***************************************************************************)
(* The task of a script.                                                   *)
(***************************************************************************)
Goto(i, pc) == tasks' = [tasks EXCEPT ![i].pc = pc]
TaskKeeps == UNCHANGED <<plan, generation, player, aborter, settle, last_created, armed, cancelled>>

Peek(i) ==
    /\ tasks[i].pc = "peek"
    /\ Goto(i, CASE tasks[i].left = <<>> -> "finish"
                 [] tasks[i].left # <<>> /\ Head(tasks[i].left).wait -> "sleep"
                 [] OTHER -> "check")
    /\ UNCHANGED in_flight /\ TaskKeeps /\ NothingFired

\* The select of the timer and the flush signal.
Sleep(i) ==
    /\ tasks[i].pc = "sleep"
    /\ Goto(i, "check") \/ (tasks[i].signalled /\ Goto(i, "gone"))
    /\ UNCHANGED in_flight /\ TaskKeeps /\ NothingFired

\* Seeded bug: the task trusts the flush signal alone.
any_generation(i) == TRUE

same_generation(i) == generation = tasks[i].gen

CheckGeneration(i) ==
    /\ tasks[i].pc = "check"
    /\ Goto(i, IF same_generation(i) THEN "fire" ELSE "gone")
    /\ UNCHANGED in_flight /\ TaskKeeps /\ NothingFired

\* Pop and fire under the queue's lock, unless the flusher owns the rest.
Fire(i) ==
    /\ tasks[i].pc = "fire"
    /\ LET t == tasks[i] IN
       CASE t.drained -> Goto(i, "gone") /\ NothingFired
         [] ~t.drained /\ t.left = <<>> -> Goto(i, "peek") /\ NothingFired
         [] OTHER -> /\ fire_step(i, t.left)
                     /\ tasks' = [tasks EXCEPT ![i].left = Tail(@), ![i].pc = "peek"]
    /\ UNCHANGED in_flight /\ TaskKeeps

\* Compare and clear.
Finish(i) ==
    /\ tasks[i].pc = "finish"
    /\ Goto(i, "gone")
    /\ in_flight' = IF in_flight = i THEN NoScript ELSE in_flight
    /\ TaskKeeps /\ NothingFired

-----------------------------------------------------------------------------
(***************************************************************************)
(* The parties' requests.                                                  *)
(***************************************************************************)
Spend(what) == plan[what] > 0 /\ plan' = [plan EXCEPT ![what] = @ - 1]

\* prompt: the first one to a created session streams under that session.
Prompt(created) ==
    /\ Spend("prompts")
    /\ created => last_created
    /\ Play("applier", IF created THEN "first" ELSE "reply")
    /\ last_created' = (last_created /\ ~created)
    /\ UNCHANGED <<engineVars, aborter, settle, armed, cancelled>> /\ NothingFired

\* new_session: a one-shot failure, or a row, a seed and the marker for the first prompt.
NewSession ==
    /\ Spend("prompts") /\ player["applier"] = NoPlay
    /\ armed' = armed \ {"failnewsession"}
    /\ IF "failnewsession" \in armed
       THEN UNCHANGED <<last_created, screen>>
       ELSE /\ last_created' = TRUE
            /\ screen' = [screen EXCEPT !["new"] = folded_all(EmptyScreen, new_session_seed)]
    /\ UNCHANGED <<engineVars, player, aborter, settle, cancelled, emitted, dialogs, goal>>

CardsOf(session) == {d.id : d \in {x \in dialogs : x.on = session}}

\* open_session and reload_session: a one-shot failure, or the seed with the
\* dialogs the session still waits for.
open_session(session) ==
    /\ Spend("calls") /\ player["applier"] = NoPlay
    /\ armed' = armed \ {"failsession"}
    /\ screen' = IF "failsession" \in armed THEN screen
                 ELSE [screen EXCEPT ![session] =
                         [folded_all(EmptyScreen, mock_session_seed(session))
                            EXCEPT !.cards = CardsOf(session)]]
    /\ UNCHANGED <<engineVars, player, aborter, settle, last_created, cancelled, emitted, dialogs, goal>>

\* session_action, under the ref of the session it is for.
session_action(action, session) ==
    /\ Spend("calls") /\ player["applier"] = NoPlay
    /\ goal' = CASE action = "goalSet" -> "active"
                 [] action = "goalClear" -> "none"
                 [] action = "goalPause" /\ goal # "none" -> "paused"
                 [] action = "goalResume" /\ goal # "none" -> "active"
                 [] OTHER -> goal
    /\ screen' = IF action \in {"goalPause", "goalResume"} /\ goal = "none" THEN screen
                 ELSE [screen EXCEPT ![session] = folded_all(screen[session], ActionEvents[action])]
    /\ UNCHANGED <<engineVars, player, aborter, settle, last_created, armed, cancelled, emitted, dialogs>>

run_script(name) ==
    /\ Spend("mocks") /\ name \in plan.names
    /\ Play("mock", name)
    /\ UNCHANGED <<engineVars, aborter, settle, last_created, armed, cancelled>> /\ NothingFired

\* The names that only arm something.
Arm(what) ==
    /\ Spend("mocks") /\ player["mock"] = NoPlay /\ what \in plan.names
    /\ armed' = armed \cup {what}
    /\ UNCHANGED <<engineVars, player, aborter, settle, last_created, cancelled>> /\ NothingFired

\* respond_ui: the dialog is taken and resolved under its session, one that is
\* not held under the demo session; a notice or an answered tool follows.
RespondUi(session, id) ==
    /\ id \in screen[session].cards
    /\ LET held == {d \in dialogs : d.id = id}
           on == IF held = {} THEN "demo" ELSE (CHOOSE d \in held : TRUE).on
       IN  /\ dialogs' = dialogs \ held
           /\ screen' = [screen EXCEPT ![on].cards = @ \ {id}, ![on].open = FALSE]
    /\ UNCHANGED <<plan, engineVars, player, aborter, settle, last_created, armed, emitted, goal, cancelled>>

Stopped(g) ==
    {[task |-> i, at |-> Len(emitted)] : i \in {k \in {in_flight} \ {NoScript} : tasks[k].gen \in 1..(g - 1)}}

\* cancel_timers: the generation first, then the handle, then the dialogs.
cancel_generation ==
    /\ generation' = generation + 1
    /\ UNCHANGED <<plan, in_flight, tasks, settle, last_created, armed, cancelled>> /\ NothingFired

cancel_handle ==
    /\ tasks' = Dropped(in_flight)
    /\ cancelled' = cancelled \cup Stopped(generation)
    /\ in_flight' = NoScript
    /\ dialogs' = {}
    /\ UNCHANGED <<plan, generation, settle, last_created, armed, emitted, goal>>

\* branch_from an entry of the user's, which empties the transcript, or of the assistant's.
branch_from(seed) ==
    /\ Spend("calls") /\ player["applier"] = NoPlay
    /\ player' = [player EXCEPT !["applier"] = [pc |-> "branch", seed |-> seed]]
    /\ UNCHANGED <<engineVars, aborter, settle, last_created, armed, cancelled>> /\ NothingFired

BranchGeneration ==
    /\ player["applier"].pc = "branch"
    /\ player' = [player EXCEPT !["applier"].pc = "branch_handle"]
    /\ cancel_generation /\ UNCHANGED aborter

BranchHandle ==
    /\ player["applier"].pc = "branch_handle"
    /\ cancel_handle
    /\ screen' = [screen EXCEPT !["demo"] = folded_all(EmptyScreen, player["applier"].seed)]
    /\ player' = [player EXCEPT !["applier"] = NoPlay]
    /\ UNCHANGED aborter

Abort ==
    /\ aborter = "none" /\ Spend("aborts")
    /\ aborter' = "generation"
    /\ UNCHANGED <<engineVars, player, settle, last_created, armed, cancelled>> /\ NothingFired

\* "slowabort" only makes this later.
AbortGeneration ==
    aborter = "generation" /\ aborter' = "handle" /\ cancel_generation /\ UNCHANGED player

AbortHandle ==
    aborter = "handle" /\ aborter' = "settle" /\ cancel_handle /\ UNCHANGED <<player, screen>>

\* RunCompleted now, or after the armed delay.
AbortSettles ==
    /\ aborter = "settle" /\ aborter' = "none"
    /\ armed' = armed \ {"toolhold"}
    /\ IF "toolhold" \in armed
       THEN settle' = generation /\ NothingFired
       ELSE /\ settle' = settle
            /\ emitted' = Append(emitted, <<0, 0>>)
            /\ screen' = [screen EXCEPT !["demo"] = folded_all(screen["demo"], Done)]
            /\ UNCHANGED <<dialogs, goal>>
    /\ UNCHANGED <<plan, engineVars, player, last_created, cancelled>>

SettleDelayed ==
    /\ settle # 0
    /\ settle' = 0
    /\ IF settle = generation
       THEN /\ emitted' = Append(emitted, <<0, 0>>)
            /\ screen' = [screen EXCEPT !["demo"] = folded_all(screen["demo"], Done)]
            /\ UNCHANGED <<dialogs, goal>>
       ELSE NothingFired
    /\ UNCHANGED <<plan, engineVars, player, aborter, last_created, armed, cancelled>>

\* reset, under the hub's lock: no Mock message runs.
Reset ==
    /\ Spend("resets") /\ player["mock"] = NoPlay
    /\ generation' = generation + 1
    /\ tasks' = Dropped(in_flight)
    /\ cancelled' = cancelled \cup Stopped(generation + 1)
    /\ in_flight' = NoScript /\ dialogs' = {} /\ last_created' = FALSE /\ armed' = {}
    /\ goal' = "none"
    /\ UNCHANGED <<player, aborter, settle, emitted, screen>>

-----------------------------------------------------------------------------
PartyStep(p) == Take(p) \/ Signal(p) \/ Drain(p) \/ Flush(p) \/ Install(p) \/ Spawn(p)
TaskStep(i) == Peek(i) \/ Sleep(i) \/ CheckGeneration(i) \/ Fire(i) \/ Finish(i)
AbortStep == BranchGeneration \/ BranchHandle \/ AbortGeneration \/ AbortHandle \/ AbortSettles \/ SettleDelayed

OneShots == {"failnewsession", "failsession", "toolhold"}

MockNext ==
    \/ \E p \in Parties : PartyStep(p)
    \/ \E i \in DOMAIN tasks : TaskStep(i)
    \/ AbortStep
    \/ \E created \in BOOLEAN : Prompt(created)
    \/ NewSession \/ Abort \/ Reset
    \/ \E name \in DOMAIN Script : run_script(name)
    \/ \E what \in OneShots : Arm(what)
    \/ \E seed \in {branched_seed, greeting_seed} : branch_from(seed)
    \/ \E session \in Sessions \ {"new"} :
         \/ open_session(session)
         \/ \E action \in DOMAIN ActionEvents : session_action(action, session)
         \/ \E id \in screen[session].cards : RespondUi(session, id)

MockSpec == MockInit /\ [][MockNext]_mockVars

-----------------------------------------------------------------------------
\* Every step of task i's script was emitted, once and in order.
PlayedWhole(i) ==
    LET steps == DOMAIN Script[tasks[i].name]
        numbered(at) == emitted[at][1] = i
    IN  /\ \A n \in steps : \E at \in DOMAIN emitted : emitted[at] = <<i, n>>
        /\ \A at \in DOMAIN emitted : numbered(at) => emitted[at][2] \in steps
        /\ \A at, later \in DOMAIN emitted :
              at < later /\ numbered(at) /\ numbered(later) => emitted[at][2] < emitted[later][2]

\* Tasks whose handle a concurrent play_script overwrote, or an abort that began before they did.
Displaced == {i \in DOMAIN tasks : tasks[i].signalled /\ ~tasks[i].drained /\ i \notin {x.task : x \in cancelled}}

Resting == in_flight = NoScript /\ aborter = "none" /\ settle = 0
           /\ (\A p \in Parties : player[p] = NoPlay)
           /\ \A i \in DOMAIN tasks : tasks[i].pc = "gone"

(***************************************************************************)
(* flush_scheduled: "zero dropped and zero duplicated".  A test that waits *)
(* for its scripts sees whole turns: when nothing runs and nothing was     *)
(* cancelled or displaced, every script was emitted in order to its last   *)
(* step, whoever fired it (task or flusher, in whatever race), and unless  *)
(* one was written to hold its turn open, no reply is still streaming and  *)
(* no tool still running.                                                  *)
(***************************************************************************)
RestingTurnsAreWhole ==
    Resting /\ cancelled = {} /\ Displaced = {} =>
        /\ \A i \in DOMAIN tasks : PlayedWhole(i)
        /\ (\A i \in DOMAIN tasks : tasks[i].name \notin Holds) =>
              \A s \in Sessions : ~screen[s].open /\ screen[s].tools = {}

(***************************************************************************)
(* abort and branch_from end the turn: a script whose handle was dropped   *)
(* emits at most one more step (the one its task had already checked),     *)
(* unless a play_script had taken the script over to flush it.             *)
(***************************************************************************)
CancelledFallsSilent ==
    \A x \in cancelled :
        Cardinality({n \in DOMAIN emitted : n > x.at /\ emitted[n][1] = x.task}) <= 1

(***************************************************************************)
(* "opening a background session blocked on an approval replays that       *)
(* dialog": whatever is opened, reopened or branched while scripts ask,    *)
(* every dialog the mock waits for is a card of its session.               *)
(***************************************************************************)
HeldDialogsAreShown == \A d \in dialogs : d.id \in screen[d.on].cards

\* A script plays to its end or is cancelled, and then falls silent; what it
\* asked can be answered.
ScriptsPlayOut == RestingTurnsAreWhole /\ CancelledFallsSilent /\ HeldDialogsAreShown
=============================================================================
