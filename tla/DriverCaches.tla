---------------------------- MODULE DriverCaches ----------------------------
(***************************************************************************)
(* The catalogues PolytokenDriver caches (models, and per project facets   *)
(* and commands), the single-flight fetch of the model catalogue, and the  *)
(* file watcher that empties the caches when their inputs change.          *)
(*                                                                         *)
(*   polytoken/driver.rs         list_models, list_facets, list_commands,  *)
(*                               get_or_fetch_parsed_models, invalidate_*  *)
(*   polytoken/config_watcher.rs classify_event, DebounceCoalescer,        *)
(*                               register_project_config, setup_watcher    *)
(*                                                                         *)
(* A catalogue is the versions of its inputs that the subprocess read, and *)
(* whether its output parsed to anything.  A caller is one task inside     *)
(* one of the list_* calls; its steps are what runs between two awaits or  *)
(* two locks.                                                              *)
(***************************************************************************)
EXTENDS Naturals, Sequences, FiniteSets

CONSTANTS
    Callers,        \* tasks inside the driver
    Cwds,           \* project directories of warm sessions
    NotCached,      \* Option::None in a cache
    CacheLoads,      \* bounds of one behaviour: the lists asked for, tasks, changes of inputs, calls
    MaxBadOutputs   \* bound: subprocesses that fail or print nothing useful

VARIABLES
    glob,           \* [binary, config -> version]: inputs of every catalogue
    proj,           \* [cwd -> version]: the project's .polytoken; 0 = no such directory
    watched,        \* the global inputs setup_watcher watches
    watch,          \* [cwd -> "no", "dir" (recursive) or "parent" (not recursive)]
    fsevents,       \* notify's channel into the debounce task
    debounced,        \* DebounceCoalescer.pending
    model_cache, diagnostic, cwd_cache,
    fetching,       \* model_cache_fetching
    permit, waiters, \* tokio::sync::Notify
    call,           \* what each caller is doing
    mix, edits, badOutputs, calls

watchVars == <<watched, watch, fsevents, debounced>>
cacheVars == <<model_cache, diagnostic, cwd_cache>>
notifyVars == <<fetching, permit, waiters>>
inputVars == <<glob, proj, mix, edits>>
cachesVars == <<inputVars, watchVars, cacheVars, notifyVars, call, badOutputs, calls>>

-----------------------------------------------------------------------------
Globals == {"binary", "config"}
Lists == {"facets", "commands"}

\* A catalogue: the versions read, how the project was watched then, whether anything is listed,
\* whether an invalidation ran before it was stored.
Catalogue(p, w, some) == [glob |-> glob, proj |-> p, watch |-> w, some |-> some, late |-> FALSE]

\* InvalidationAction.
Nothing == [scope |-> "none"]
All == [scope |-> "all"]
OfCwd(c) == [scope |-> "cwd", cwd |-> c]

Idle == [pc |-> "idle"]
At(pc) == [pc |-> pc, req |-> "models"]

CachesInit ==
    /\ mix \in CacheLoads
    /\ glob = [g \in Globals |-> 1]
    /\ proj \in [Cwds -> IF mix.asks \cap Lists = {} THEN {0} ELSE {0, 1}]
    /\ watched \in SUBSET Globals
    /\ watch = [c \in Cwds |-> "no"]
    /\ fsevents = <<>> /\ debounced = Nothing
    /\ model_cache = NotCached /\ diagnostic = "none"
    /\ cwd_cache = [x \in Lists \X Cwds |-> NotCached]
    /\ fetching = FALSE /\ permit = FALSE /\ waiters = <<>>
    /\ call = [k \in Callers |-> Idle]
    /\ edits = 0 /\ badOutputs = 0 /\ calls = 0

-----------------------------------------------------------------------------
(***************************************************************************)
(* Inputs change.  notify reports what a watch covers: everything below a  *)
(* recursive one, only direct children of another.                         *)
(***************************************************************************)
Edit == edits < mix.edits /\ edits' = edits + 1 /\ mix' = mix

Reported(ev, covered) == fsevents' = IF covered THEN Append(fsevents, ev) ELSE fsevents

EditGlobal(g) ==
    /\ Edit
    /\ glob' = [glob EXCEPT ![g] = @ + 1]
    /\ Reported([path |-> g], g \in watched)
    /\ UNCHANGED <<proj, watched, watch, debounced, cacheVars, notifyVars, call, badOutputs, calls>>

\* A file inside <cwd>/.polytoken.
EditProject(c) ==
    /\ Edit /\ mix.asks \cap Lists # {} /\ proj[c] > 0
    /\ proj' = [proj EXCEPT ![c] = @ + 1]
    /\ Reported([path |-> "config dir", cwd |-> c], watch[c] = "dir")
    /\ UNCHANGED <<glob, watched, watch, debounced, cacheVars, notifyVars, call, badOutputs, calls>>

\* <cwd>/.polytoken itself appears.
CreateProjectDir(c) ==
    /\ Edit /\ mix.asks \cap Lists # {} /\ proj[c] = 0
    /\ proj' = [proj EXCEPT ![c] = 1]
    /\ Reported([path |-> "config dir", cwd |-> c], watch[c] = "parent")
    /\ UNCHANGED <<glob, watched, watch, debounced, cacheVars, notifyVars, call, badOutputs, calls>>

\* Some other file of the project.
TouchProject(c) ==
    /\ Edit /\ mix.asks \cap Lists # {} /\ watch[c] = "parent"
    /\ Reported([path |-> "project"], TRUE)
    /\ UNCHANGED <<glob, proj, watched, watch, debounced, cacheVars, notifyVars, call, badOutputs, calls>>

-----------------------------------------------------------------------------
(***************************************************************************)
(* The watcher task.                                                       *)
(***************************************************************************)
classify_event(ev) ==
    IF ev.path = "config dir" /\ watch[ev.cwd] # "no" THEN OfCwd(ev.cwd) ELSE All

\* Seeded bug: the first pending action wins.
merge_keeps_first(p, a) == IF p = Nothing THEN a ELSE p

\* DebounceCoalescer::feed.
merge(p, a) ==
    CASE p = Nothing -> a
      [] p # Nothing /\ a = p -> p
      [] OTHER -> All

FeedEvent ==
    /\ fsevents # <<>>
    /\ fsevents' = Tail(fsevents)
    /\ debounced' = merge(debounced, classify_event(Head(fsevents)))
    /\ UNCHANGED <<inputVars, watched, watch, cacheVars, notifyVars, call, badOutputs, calls>>

\* What an action empties: keys of the caches.
Covers(a, req, c) ==
    \/ a.scope = "all"
    \/ a.scope = "cwd" /\ req # "models" /\ a.cwd = c

\* Calls that hold what they read before this invalidation.
Overrun(a) ==
    [k \in Callers |->
        IF call[k].pc \in {"diagnose", "store", "cat"} /\ Covers(a, call[k].req, call[k].cwd)
        THEN [call[k] EXCEPT !.read.late = TRUE] ELSE call[k]]

\* invalidate_all_config_caches, invalidate_cwd_config_caches.
invalidate(a) ==
    /\ model_cache' = IF a.scope = "all" THEN NotCached ELSE model_cache
    /\ diagnostic' = IF a.scope = "all" THEN "none" ELSE diagnostic
    /\ cwd_cache' = [x \in Lists \X Cwds |->
                        IF Covers(a, x[1], x[2]) THEN NotCached ELSE cwd_cache[x]]
    /\ call' = Overrun(a)

\* 200 ms without an event.
Debounced ==
    /\ debounced # Nothing
    /\ debounced' = Nothing
    /\ invalidate(debounced)
    /\ UNCHANGED <<inputVars, watched, watch, fsevents, notifyVars, badOutputs, calls>>

\* session_action(DaemonReload) succeeded.
DaemonReload ==
    /\ Edit
    /\ invalidate(All)
    /\ UNCHANGED <<glob, proj, watchVars, notifyVars, badOutputs, calls>>

-----------------------------------------------------------------------------
(***************************************************************************)
(* Subprocesses.  Only a failure to start is an Err: an exit code is not   *)
(* looked at, so a failed run is an output that parses to nothing.         *)
(***************************************************************************)
Outputs == {"good", "garbage", "blank"}

run_polytoken(out) ==
    /\ out \in Outputs \cup {"no spawn"}
    /\ out = "good" \/ badOutputs < MaxBadOutputs
    /\ badOutputs' = IF out = "good" THEN badOutputs ELSE badOutputs + 1

\* parse_models, parse_slash_commands: is anything listed?
Parses(out) == out = "good"

NewCall == calls < mix.calls /\ calls' = calls + 1

-----------------------------------------------------------------------------
(***************************************************************************)
(* list_models and get_model_defaults.                                     *)
(***************************************************************************)
ListModels(k) ==
    /\ call[k] = Idle /\ NewCall /\ "models" \in mix.asks /\ k \in mix.tasks
    /\ call' = [call EXCEPT ![k] = At("check")]
    /\ UNCHANGED <<inputVars, watchVars, cacheVars, notifyVars, badOutputs>>

\* The fast path.
CheckCache(k) ==
    /\ call[k].pc = "check"
    /\ call' = [call EXCEPT ![k] = IF model_cache # NotCached THEN Idle ELSE At("elect")]
    /\ UNCHANGED <<inputVars, watchVars, cacheVars, notifyVars, badOutputs, calls>>

\* Seeded bug: a load and a store in place of compare_exchange, so two may be elected.
became_fetcher_always == TRUE

became_fetcher == ~fetching

Elect(k) ==
    /\ call[k].pc = "elect"
    /\ call' = [call EXCEPT ![k] = At(IF became_fetcher THEN "run" ELSE "await")]
    /\ fetching' = TRUE
    /\ UNCHANGED <<inputVars, watchVars, cacheVars, permit, waiters, badOutputs, calls>>

\* `polytoken models` reads its inputs and answers.
RunModels(k, out) ==
    /\ call[k].pc = "run" /\ call[k].req = "models"
    /\ run_polytoken(out)
    /\ call' = [call EXCEPT ![k] =
                   [pc |-> IF out = "no spawn" THEN "failed" ELSE "diagnose", req |-> "models",
                    cwd |-> NotCached, out |-> out,
                    read |-> Catalogue(0, "no", Parses(out))]]
    /\ UNCHANGED <<inputVars, watchVars, cacheVars, notifyVars, calls>>

\* The diagnostic is set under its own lock, before the cache.
Diagnose(k) ==
    /\ call[k].pc \in {"diagnose", "failed"} /\ call[k].req = "models"
    /\ diagnostic' = CASE call[k].pc = "failed" -> "no response"
                       [] call[k].out = "blank" -> "empty output"
                       [] call[k].out = "garbage" -> "not parsed"
                       [] OTHER -> "none"
    /\ call' = [call EXCEPT ![k].pc = IF @ = "failed" THEN "clear" ELSE "store"]
    /\ UNCHANGED <<inputVars, watchVars, model_cache, cwd_cache, notifyVars, badOutputs, calls>>

StoreModels(k) ==
    /\ call[k].pc = "store" /\ call[k].req = "models"
    /\ model_cache' = call[k].read
    /\ call' = [call EXCEPT ![k].pc = "clear"]
    /\ UNCHANGED <<inputVars, watchVars, diagnostic, cwd_cache, notifyVars, badOutputs, calls>>

ClearFetching(k) ==
    /\ call[k].pc = "clear"
    /\ fetching' = FALSE
    /\ call' = [call EXCEPT ![k] = At("notify")]
    /\ UNCHANGED <<inputVars, watchVars, cacheVars, permit, waiters, badOutputs, calls>>

\* Notify::notify_one as caller k does it, going on at `next`: the oldest waiter, or a stored permit.
notify_one(k, next) ==
    IF waiters = <<>>
    THEN permit' = TRUE /\ waiters' = waiters /\ call' = [call EXCEPT ![k] = next]
    ELSE /\ permit' = permit /\ waiters' = Tail(waiters)
         /\ call' = [call EXCEPT ![k] = next, ![Head(waiters)] = At("woken")]

FetcherNotifies(k) ==
    /\ call[k].pc = "notify"
    /\ notify_one(k, Idle)
    /\ UNCHANGED <<inputVars, watchVars, cacheVars, fetching, badOutputs, calls>>

\* notified().await: takes a stored permit or queues.
Await(k) ==
    /\ call[k].pc = "await"
    /\ permit' = FALSE
    /\ IF permit
       THEN waiters' = waiters /\ call' = [call EXCEPT ![k] = At("woken")]
       ELSE waiters' = Append(waiters, k) /\ call' = [call EXCEPT ![k] = At("asleep")]
    /\ UNCHANGED <<inputVars, watchVars, cacheVars, fetching, badOutputs, calls>>

PassBaton(k) ==
    /\ call[k].pc = "woken"
    /\ notify_one(k, At("check"))
    /\ UNCHANGED <<inputVars, watchVars, cacheVars, fetching, badOutputs, calls>>

-----------------------------------------------------------------------------
(***************************************************************************)
(* list_facets and list_commands: each caller fetches for itself.          *)
(***************************************************************************)
\* register_project_config; the watch itself may be refused.
register_project_config(c, accepted) ==
    watch' = IF watched # {} /\ watch[c] = "no" /\ accepted
             THEN [watch EXCEPT ![c] = IF proj[c] > 0 THEN "dir" ELSE "parent"]
             ELSE watch

ListForCwd(k, l, c, accepted) ==
    /\ call[k] = Idle /\ NewCall /\ l \in mix.asks /\ k \in mix.tasks
    /\ register_project_config(c, accepted)
    /\ call' = [call EXCEPT ![k] =
                   IF cwd_cache[<<l, c>>] # NotCached THEN Idle
                   ELSE [pc |-> "run", req |-> l, cwd |-> c]]
    /\ UNCHANGED <<inputVars, watched, fsevents, debounced, cacheVars, notifyVars, badOutputs>>

\* `vfs ls polytoken://facets`: no file listed means the builtins, uncached.
\* `print-slash-commands`: whatever it parses to is cached.
RunForCwd(k, out) ==
    /\ call[k].pc = "run" /\ call[k].req \in Lists
    /\ run_polytoken(out)
    /\ LET c == call[k].cwd
           l == call[k].req
           uncached == out = "no spawn" \/ (l = "facets" /\ ~Parses(out)) IN
       call' = [call EXCEPT ![k] =
                   IF uncached THEN Idle
                   ELSE [pc |-> IF l = "facets" THEN "cat" ELSE "store", req |-> l,
                         cwd |-> c, read |-> Catalogue(proj[c], watch[c], Parses(out))]]
    /\ UNCHANGED <<inputVars, watchVars, cacheVars, notifyVars, calls>>

\* `vfs cat` of each facet; a failed one is listed under its file's name.
CatFacets(k) ==
    /\ call[k].pc = "cat"
    /\ call' = [call EXCEPT ![k].pc = "store"]
    /\ UNCHANGED <<inputVars, watchVars, cacheVars, notifyVars, badOutputs, calls>>

StoreForCwd(k) ==
    /\ call[k].pc = "store" /\ call[k].req \in Lists
    /\ cwd_cache' = [cwd_cache EXCEPT ![<<call[k].req, call[k].cwd>>] = call[k].read]
    /\ call' = [call EXCEPT ![k] = Idle]
    /\ UNCHANGED <<inputVars, watchVars, model_cache, diagnostic, notifyVars, badOutputs, calls>>

-----------------------------------------------------------------------------
CallerStep(k) ==
    \/ CheckCache(k) \/ Elect(k) \/ Diagnose(k) \/ StoreModels(k)
    \/ ClearFetching(k) \/ FetcherNotifies(k) \/ Await(k) \/ PassBaton(k)
    \/ CatFacets(k) \/ StoreForCwd(k)
    \/ \E out \in Outputs \cup {"no spawn"} : RunModels(k, out) \/ RunForCwd(k, out)

WatcherStep == FeedEvent \/ Debounced

CachesNext ==
    \/ \E g \in Globals : EditGlobal(g)
    \/ \E c \in Cwds : EditProject(c) \/ CreateProjectDir(c) \/ TouchProject(c)
    \/ DaemonReload
    \/ WatcherStep
    \/ \E k \in Callers :
          \/ CallerStep(k)
          \/ ListModels(k)
          \/ \E l \in Lists, c \in Cwds, accepted \in BOOLEAN : ListForCwd(k, l, c, accepted)

CachesSpec == CachesInit /\ [][CachesNext]_cachesVars

-----------------------------------------------------------------------------
\* Is everything notify reported acted on?
WatcherQuiet == fsevents = <<>> /\ debounced = Nothing

GlobalsCurrent(v) == \A g \in watched : v.glob[g] = glob[g]

(***************************************************************************)
(* Once the watcher has nothing left to do, a cached catalogue is what its *)
(* watched inputs say now (config_watcher.rs: "subsequent lookups are      *)
(* fresh").  The exceptions the code leaves open: a catalogue that was     *)
(* being read while its invalidation ran is stored after it; a project     *)
(* whose .polytoken did not exist when it was registered is only watched   *)
(* from outside; one whose watch was refused is not watched at all.        *)
(***************************************************************************)
SettledCachesAreFresh ==
    WatcherQuiet =>
        /\ model_cache # NotCached /\ ~model_cache.late => GlobalsCurrent(model_cache)
        /\ \A l \in Lists, c \in Cwds :
              LET v == cwd_cache[<<l, c>>] IN
              v # NotCached /\ ~v.late =>
                  /\ GlobalsCurrent(v)
                  /\ v.watch = "dir" => v.proj = proj[c]

(***************************************************************************)
(* Callers that meet on a cold cache share one subprocess: only one of     *)
(* them is between winning the election and clearing the flag, and nobody  *)
(* sleeps while no fetch is running and no wake-up is on its way.          *)
(***************************************************************************)
SingleFlight ==
    LET fetchers == {k \in Callers : call[k].pc \in {"run", "diagnose", "failed", "store", "clear"}
                                        /\ call[k].req = "models"} IN
    /\ Cardinality(fetchers) <= 1
    /\ waiters # <<>> => \/ fetching
                         \/ \E k \in Callers : call[k].pc \in {"notify", "woken"}
=============================================================================
