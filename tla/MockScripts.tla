---------------------------- MODULE MockScripts ----------------------------
(***************************************************************************)
(* The scripts MockDriver plays (mock_driver.rs, run_script and the        *)
(* *_script functions), each as the kinds of the events it emits and       *)
(* whether the task sleeps before each.  Texts, tool arguments and clocks  *)
(* are left out; the chunks of one text are two deltas.                    *)
(***************************************************************************)
EXTENDS Naturals, Sequences

\* ScriptStep.
ScriptStep(wait, k) == [wait |-> wait, k |-> k, on |-> "demo", id |-> "none"]
Now(k) == <<ScriptStep(FALSE, k)>>
After(k) == <<ScriptStep(TRUE, k)>>

With(steps, id) == [n \in DOMAIN steps |-> [steps[n] EXCEPT !.id = id]]
Under(session, steps) == [n \in DOMAIN steps |-> [steps[n] EXCEPT !.on = session]]

\* deltas, pushed one step each.
Says == After("delta") \o After("delta")

\* A user message and a running snapshot.
Asked == Now("user") \o Now("running")
RunningEvent == Now("running")
Done == After("done")

tool_span(id, waits) ==
    With(<<ScriptStep(waits, "tool_started"), ScriptStep(waits, "tool_finished")>>, id)

Dialog(id) == With(Now("dialog"), id)

prompt_reply_script ==
    Asked \o Says \o Says \o tool_span("t", TRUE) \o tool_span("t2", TRUE) \o Says \o Done

\* The first turn of a created session, under that session's ref.
new_session_reply == Under("new", Asked \o Says \o Done)

-----------------------------------------------------------------------------
DialogScripts ==
    [confirm |-> Dialog("confirm"), goal |-> Dialog("goal"), unknown |-> Dialog("unknown"),
     input |-> Dialog("input"), qna |-> Dialog("qna"), qnatall |-> Dialog("qna-tall"),
     timeout |-> Dialog("timeout"), yesno |-> Dialog("yesno"), selectmany |-> Dialog("select-many"),
     planhandoff |-> Dialog("plan"), planhandofftimeout |-> Dialog("plan-timeout"),
     permission |-> Dialog("permission")]

StateScripts ==
    [ambient |-> Now("status") \o After("widget") \o After("notice"),
     context |-> Now("idle"), goalactive |-> Now("idle"), goalclear |-> Now("idle"),
     planview |-> Now("idle"), planfacet |-> Now("idle") \o After("idle"),
     initializing |-> Now("initializing") \o After("idle"),
     compat |-> Now("compat"), contextfull |-> Now("usage")]

\* Every visual status of a tool card; the last tool is left running.
toolpolish ==
    RunningEvent
    \o tool_span("header-exact", FALSE) \o tool_span("header-over", FALSE)
    \o tool_span("args-exact", FALSE) \o tool_span("args", FALSE)
    \o tool_span("output-exact", FALSE) \o tool_span("output-over", FALSE)
    \o tool_span("output-blocks", FALSE) \o tool_span("error", FALSE)
    \o tool_span("interrupted", FALSE)
    \o With(Now("tool_started") \o Now("tool_updated"), "running")

cleantools ==
    Asked \o Says
    \o tool_span("write-plan", FALSE) \o tool_span("edit-plan", FALSE) \o tool_span("handoff-plan", FALSE)
    \o tool_span("todo-create", FALSE) \o tool_span("todo-list", FALSE)
    \o tool_span("todo-update", FALSE) \o tool_span("todo-complete", FALSE)
    \o tool_span("subagent", FALSE) \o tool_span("skill", FALSE)
    \o tool_span("job-status", FALSE) \o tool_span("job-block", FALSE)
    \o tool_span("block-goal", FALSE) \o tool_span("propose-goal", FALSE)
    \o tool_span("popd", FALSE) \o tool_span("web-search", FALSE)
    \o Says \o Done

\* Turns that do not end the usual way: with a stale status, not at all, with a status, with an error.
OddTurns ==
    [staleidle |-> Asked \o Says \o With(After("tool_started"), "stale") \o After("idle"),
     pendinghold |-> Asked \o Says,
     idle |-> Asked \o Says \o After("idle"),
     error |-> RunningEvent \o Says \o After("failed")]

\* A settled turn, a late notice, and the turn that answers it.
latenotify ==
    Asked \o Says \o tool_span("ln1", TRUE) \o tool_span("ln2", TRUE) \o Says \o Done
    \o After("notice") \o RunningEvent \o Says \o Done

BackgroundScripts ==
    [bgrun |-> Under("older", RunningEvent \o After("delta") \o Done),
     bgwait |-> Under("older", RunningEvent \o With(After("tool_started"), "bg") \o With(After("dialog"), "bg-approval"))]

EditScripts ==
    [editdiff |-> With(Now("tool_started") \o After("tool_finished"), "edit"), editbounds |-> tool_span("bounds", FALSE),
     editpatch |-> tool_span("patch", FALSE), editcountguard |-> tool_span("guard", FALSE),
     editemptyguards |-> tool_span("create", FALSE) \o tool_span("delete", FALSE)]

inject ==
    Now("user") \o Says \o tool_span("jn", TRUE) \o Says \o Done
    \o After("running") \o Now("custom") \o tool_span("inj", TRUE) \o Says \o Done

skill ==
    Asked \o Says \o tool_span("sk1", TRUE) \o tool_span("sk2", TRUE) \o tool_span("sk3", TRUE) \o Says \o Done

AnswerScripts ==
    [answercard |->
        Asked \o Says \o tool_span("ac0", TRUE) \o tool_span("ac1", TRUE) \o tool_span("ac2", TRUE)
        \o Says \o tool_span("ac3", TRUE) \o tool_span("ac4", TRUE) \o Says \o Done,
     answerleadup |->
        Asked \o Says \o tool_span("alu1", TRUE) \o tool_span("alu1b", TRUE) \o Says \o tool_span("alu2", TRUE)
        \o Says \o tool_span("alu3", TRUE) \o tool_span("alu3b", TRUE) \o Says \o Done]

\* The transcript is dropped and rebuilt.
reset_script == Now("reset") \o After("user") \o Says \o Done

LongScripts ==
    [images |-> Asked \o Says \o tool_span("img", TRUE) \o Says \o Done,
     longoutput |-> Asked \o Says \o tool_span("long1", TRUE) \o tool_span("long2", TRUE) \o Says \o Done,
     longthinking |-> Asked \o Says \o tool_span("lt1", TRUE) \o tool_span("lt2", TRUE) \o Says \o Says \o Done,
     markdown |-> Asked \o Says \o Done]

search ==
    Asked \o Says \o tool_span("r1", TRUE) \o tool_span("r2", TRUE) \o tool_span("g1", TRUE)
    \o tool_span("g2", TRUE) \o tool_span("f1", TRUE) \o tool_span("b1", TRUE) \o Says \o Done

thinkingtools ==
    Asked \o tool_span("c1", TRUE) \o Says \o tool_span("c2", TRUE) \o Says
    \o tool_span("c3", TRUE) \o Says \o tool_span("c4", TRUE) \o Says \o Done

streamhold == RunningEvent \o Says

-----------------------------------------------------------------------------
\* Seeds: what opening a session replays, all at once.  The restored one ends
\* with a status, since a stored history has no end of a turn.
session_seed == Now("idle") \o Now("user") \o Now("delta") \o Now("done")

greeting_seed ==
    Now("idle") \o Now("user") \o Now("delta") \o Now("delta")
    \o tool_span("t1", FALSE) \o tool_span("t2", FALSE)
    \o Now("delta") \o Now("delta") \o Now("done")

restored_session_seed ==
    Now("idle") \o Now("user") \o Now("delta")
    \o tool_span("restored-t1", FALSE) \o tool_span("restored-t2", FALSE)
    \o Now("delta") \o Now("idle")

branched_seed == Now("idle")
new_session_seed == Now("idle")

mock_session_seed(session) ==
    CASE session = "demo" -> greeting_seed
      [] session = "restored" -> restored_session_seed
      [] OTHER -> session_seed

-----------------------------------------------------------------------------
\* What each action of a client makes the mock emit.  Pausing and resuming a
\* goal do so only when there is one.
SettingEvents ==
    LET changed == Now("idle") \o Now("notice") IN
    [setModel |-> changed, setThinking |-> changed, setFacet |-> changed,
     setPermissionMonitor |-> changed, toggleAdventurousHandoff |-> changed,
     setNotificationAutodrain |-> changed]

ContextEvents ==
    [compact |-> Now("usage") \o Now("notice"), clearContext |-> Now("usage") \o Now("notice"),
     resetShell |-> Now("notice"), daemonReload |-> Now("notice")]

GoalEvents ==
    LET changed == Now("idle") \o Now("notice") IN
    [goalSet |-> changed, goalPause |-> changed, goalResume |-> changed, goalClear |-> changed]

RowEvents == [setTitle |-> Now("idle"), setMcpServer |-> Now("idle")]

\* Two groups of named sequences as one.
joined(some, more) ==
    [name \in DOMAIN some \cup DOMAIN more |-> IF name \in DOMAIN some THEN some[name] ELSE more[name]]

ActionEvents == joined(SettingEvents, joined(ContextEvents, joined(GoalEvents, RowEvents)))

-----------------------------------------------------------------------------
TurnScripts ==
    [reply |-> prompt_reply_script, first |-> new_session_reply,
     toolpolish |-> toolpolish, cleantools |-> cleantools, latenotify |-> latenotify, inject |-> inject,
     skill |-> skill, reset |-> reset_script, search |-> search, thinkingtools |-> thinkingtools,
     streamhold |-> streamhold]

\* run_script's scripts, by name.
Script ==
    joined(TurnScripts, joined(DialogScripts, joined(StateScripts, joined(OddTurns,
        joined(BackgroundScripts, joined(EditScripts, joined(AnswerScripts, LongScripts)))))))

\* The scripts written to leave a turn or a tool open.
Holds == {"toolpolish", "staleidle", "pendinghold", "bgwait", "streamhold"}
=============================================================================
