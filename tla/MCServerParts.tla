--------------------------- MODULE MCServerParts ---------------------------
(***************************************************************************)
(* Five parts of the server that share nothing, side by side: a behaviour  *)
(* is a behaviour of one of them while the others stay where they began.   *)
(***************************************************************************)
EXTENDS SessionMirror, DriverCaches, SessionActions, MockDriver, DurableStores

CONSTANTS r1, r2, e1, e2, n1, n2, k1, k2, k3, p1

-----------------------------------------------------------------------------
(* SessionMirror *)

Ask(id, ask, keep, labels, keys) ==
    [type |-> "interrogative", subagent |-> FALSE, id |-> id, ask |-> ask, keep |-> keep,
     labels |-> labels, keys |-> keys]

\* A permission the daemon lets be kept for the project only, a clarification,
\* a form with one question, a goal to confirm and a plan to hand off.
SomeQuestions ==
    {Ask("q1", "permission", {"project"}, <<>>, <<>>),
     Ask("q2", "clarification", {}, <<"a", "b">>, <<"k1", "k2">>),
     Ask("q3", "ask_user_question", {}, <<>>, <<<<"o1", "o2">>>>),
     Ask("q4", "goal_proposal", {}, <<>>, <<>>),
     Ask("q5", "plan_handoff", {}, <<"p1", "p2">>, <<"h1", "h2">>)}

\* Each kind of work meets losses of the stream; questions meet Stop, the queue
\* meets its restore, changes out of band meet a running turn.
SomeWorkloads ==
    {{"text", "thinking", "redacted_thinking", "tool", "loss", "open"},
     {"tool", "ask", "loss", "abort"}, {"ask", "loss", "abort", "failure"},
     {"error", "queue"}, {"error", "text", "abort", "loss"},
     {"queue", "clear", "abort", "open", "failure", "loss"},
     {"meta", "text"}, {"meta", "loss"},
     {"text", "queue", "reload"}, {"queue", "reload", "loss"}}

-----------------------------------------------------------------------------
(* DriverCaches *)

Load(asks, tasks_, edits_, calls_) ==
    [asks |-> asks, tasks |-> tasks_, edits |-> edits_, calls |-> calls_]

\* Three callers meet on a cold cache; one or two meet changes of the inputs.
SomeLoads ==
    {Load({"models"}, {k1, k2, k3}, 0, 3), Load({"models"}, {k1, k2}, 1, 2),
     Load({"models", "commands"}, {k1}, 2, 2), Load({"commands"}, {k1, k2}, 1, 2),
     Load({"facets"}, {k1, k2}, 1, 2)}

-----------------------------------------------------------------------------
(* MockDriver *)

Plan(prompts, mocks, aborts, resets, asks, names) ==
    [prompts |-> prompts, mocks |-> mocks, aborts |-> aborts, resets |-> resets, calls |-> asks,
     names |-> names]

\* Every script once; then prompts, aborts and resets against scripts that are
\* playing; then calls against one that asks.
SomePlans ==
    {Plan(0, 1, 0, 0, 0, DOMAIN Script), Plan(1, 1, 0, 0, 0, {"bgrun"}),
     Plan(0, 2, 1, 0, 0, {"bgrun", "toolhold"}), Plan(2, 1, 0, 0, 0, {"failnewsession"}),
     Plan(0, 2, 0, 1, 0, {"bgrun", "planfacet"}), Plan(0, 1, 0, 0, 2, {"bgwait", "failsession"})}

-----------------------------------------------------------------------------
(* DurableStores *)

Spec_(t, s) == [kind |-> "plain", text |-> t, suffixes |-> s]

SomeSpecs ==
    {[kind |-> "unset"], [kind |-> "script"], Spec_("sonnet", <<>>), Spec_("sonnet", <<"high">>),
     Spec_("sonnet", <<"bogus", "high">>), Spec_("opus", <<"bogus">>)}

Reads(t, s) == [text |-> t, suffixes |-> s]

\* A dated id, the alias it is preferred over by nobody, and an id with a colon of its own.
SomeCatalogs ==
    LET dated == [id |-> 2, alias |-> FALSE, exact |-> {}, within |-> {Reads("sonnet", <<>>)}]
        alias == [id |-> 1, alias |-> TRUE, exact |-> {Reads("sonnet", <<>>)},
                  within |-> {Reads("sonnet", <<>>)}]
        tagged == [id |-> 3, alias |-> TRUE, exact |-> {},
                   within |-> {Reads("opus", <<>>), Reads("opus", <<"bogus">>)}]
    IN  {{}, {dated}, {dated, alias}, {tagged}}

Errand(on, ops, faults, restarts) ==
    [on |-> on, ops |-> ops, faults |-> faults, restarts |-> restarts]

SomeErrands ==
    {Errand({"archive"}, 3, 1, 2), Errand({"push"}, 4, 1, 2), Errand({"settings"}, 3, 1, 1),
     Errand({"titles"}, 4, 1, 1)}

-----------------------------------------------------------------------------
VARIABLE part

partsVars == <<vars, cachesVars, actionsVars, mockVars, storesVars, part>>

Parts == {"mirror", "caches", "actions", "mock", "stores"}

\* A part that does not move begins in one state.
Parked(p, begins) == part = p \/ begins

PartsInit ==
    /\ part \in Parts
    /\ Init /\ Parked("mirror", daemon.does = CHOOSE w \in Workloads : TRUE)
    /\ CachesInit
    /\ Parked("caches", /\ mix = CHOOSE w \in CacheLoads : TRUE
                        /\ proj = [c \in Cwds |-> 0] /\ watched = {})
    /\ ActionsInit
    /\ Parked("actions", /\ settings.mode = CHOOSE m \in Modes : TRUE
                         /\ settings.model = CHOOSE m \in ModelNames : TRUE)
    /\ MockInit /\ Parked("mock", plan = CHOOSE p \in Plans : TRUE)
    /\ StoresInit /\ Parked("stores", errand = (CHOOSE e \in Errands : TRUE) /\ legacy = Absent)

\* Of two switches, a loss and a refusal, three meet in one behaviour.
ActionsBound == switches + linkDrops + refusals <= 3

PartsNext ==
    /\ part' = part
    /\ \/ part = "mirror" /\ Next /\ UNCHANGED <<cachesVars, actionsVars, mockVars, storesVars>>
       \/ part = "caches" /\ CachesNext /\ UNCHANGED <<vars, actionsVars, mockVars, storesVars>>
       \/ part = "actions" /\ ActionsNext /\ ActionsBound' /\ UNCHANGED <<vars, cachesVars, mockVars, storesVars>>
       \/ part = "mock" /\ MockNext /\ UNCHANGED <<vars, cachesVars, actionsVars, storesVars>>
       \/ part = "stores" /\ StoresNext /\ UNCHANGED <<vars, cachesVars, actionsVars, mockVars>>

PartsSpec == PartsInit /\ [][PartsNext]_partsVars
=============================================================================
