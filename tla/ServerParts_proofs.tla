------------------------- MODULE ServerParts_proofs -------------------------
(***************************************************************************)
(* The parts of the server process that share the runs of MCServerParts,   *)
(* and the runtime process around them:                                    *)
(*                                                                         *)
(*   DriverCaches    SingleFlight, SettledCachesAreFresh                   *)
(*   SessionActions  BadgeIsTruthful                                       *)
(*   RemoteRuntime   OneRuntime                                            *)
(*   WarmPool        WarmSessionsAreWhole, CapRespected                    *)
(*                                                                         *)
(* each for any number of callers, projects, modes, models, processes,     *)
(* sessions, attachments, edits, calls and faults.                         *)
(***************************************************************************)
EXTENDS DriverCaches, SessionActions, RemoteRuntime, WarmPool, SequenceTheorems, FiniteSetTheorems,
        WellFoundedInduction, TLAPS

-----------------------------------------------------------------------------
(* Types *)

Watches == {"no", "dir", "parent"}
Catalogues == [glob : [Globals -> Nat], proj : Nat, watch : Watches, some : BOOLEAN, late : BOOLEAN]
Events == [path : Globals] \cup [path : {"config dir"}, cwd : Cwds] \cup [path : {"project"}]
Actions == {Nothing, All} \cup {OfCwd(c) : c \in Cwds}

\* What a caller may be doing: nothing; on its way through list_models with nothing read, or with
\* what it read; about to read for a project, or holding what it read.
Asking == [pc : {"check", "elect", "run", "await", "asleep", "woken", "notify"}, req : {"models"}]
Fetching == [pc : {"diagnose", "failed", "store", "clear"}, req : {"models"}, cwd : {NotCached},
             out : Outputs \cup {"no spawn"}, read : Catalogues]
Running == [pc : {"run"}, req : Lists, cwd : Cwds]
Reading == [pc : {"cat", "store"}, req : Lists, cwd : Cwds, read : Catalogues]
Doings == {Idle} \cup Asking \cup Fetching \cup Running \cup Reading

Types ==
    /\ glob \in [Globals -> Nat] /\ proj \in [Cwds -> Nat]
    /\ watched \subseteq Globals /\ watch \in [Cwds -> Watches]
    /\ fsevents \in Seq(Events) /\ debounced \in Actions
    /\ model_cache \in Catalogues \cup {NotCached}
    /\ cwd_cache \in [Lists \X Cwds -> Catalogues \cup {NotCached}]
    /\ fetching \in BOOLEAN /\ permit \in BOOLEAN /\ waiters \in Seq(Callers)
    /\ call \in [Callers -> Doings]

-----------------------------------------------------------------------------
(* The single flight *)

Fetcher(k) == call[k].pc \in {"run", "diagnose", "failed", "store", "clear"} /\ call[k].req = "models"
Passing == \E k \in Callers : call[k].pc \in {"notify", "woken"}

\* The flag is up while there is a fetcher, and there is one at most.
OneFetcher == \A k \in Callers : Fetcher(k) => fetching /\ \A m \in Callers : Fetcher(m) => m = k

\* Whoever sleeps is in the queue of waiters, and awake callers are not.
WaitersSleep ==
    /\ \A i \in 1..Len(waiters) : call[waiters[i]].pc = "asleep"
    /\ \A i, j \in 1..Len(waiters) : waiters[i] = waiters[j] => i = j

\* A permit is stored only while nobody waits for it; whoever waits, or is about to, has a fetcher,
\* a permit or somebody with the baton to wait for.
SomebodyComes ==
    /\ permit => waiters = <<>>
    /\ waiters # <<>> \/ (\E k \in Callers : call[k].pc = "await") => fetching \/ permit \/ Passing

FlightInv == Types /\ OneFetcher /\ WaitersSleep /\ SomebodyComes

-----------------------------------------------------------------------------
(* Freshness *)

\* The invalidations that the watcher has still to carry out.
Pending == {debounced} \cup {classify_event(fsevents[i]) : i \in 1..Len(fsevents)}

\* A catalogue shows its inputs as they are, or is about to be dropped.
GlobalsFreshIn(v, globals, W, P) == \A g \in W : v.glob[g] = globals[g] \/ All \in P
ProjectFreshIn(v, c, projects, watches, P) ==
    v.watch = "dir" => /\ watches[c] = "dir"
                       /\ v.proj = projects[c] \/ All \in P \/ OfCwd(c) \in P

GlobalsFresh(v) == GlobalsFreshIn(v, glob, watched, Pending)
ProjectFresh(v, c) == ProjectFreshIn(v, c, proj, watch, Pending)

\* A directory that is watched is there; what is reported of it is known to belong to a project.
WatchedDirsExist ==
    /\ \A c \in Cwds : watch[c] = "dir" => proj[c] > 0
    /\ \A i \in 1..Len(fsevents) : fsevents[i].path = "config dir" => watch[fsevents[i].cwd] # "no"

CachesFresh ==
    /\ model_cache # NotCached /\ ~model_cache.late => GlobalsFresh(model_cache)
    /\ \A l \in Lists, c \in Cwds :
          cwd_cache[<<l, c>>] # NotCached /\ ~cwd_cache[<<l, c>>].late =>
              GlobalsFresh(cwd_cache[<<l, c>>]) /\ ProjectFresh(cwd_cache[<<l, c>>], c)

\* So is what a call has read and not stored yet.
Held(k) == call[k].pc \in {"diagnose", "store", "cat"} /\ ~call[k].read.late
ReadsFresh ==
    \A k \in Callers : Held(k) =>
        /\ GlobalsFresh(call[k].read)
        /\ call[k].req \in Lists => ProjectFresh(call[k].read, call[k].cwd)

FreshInv == Types /\ WatchedDirsExist /\ CachesFresh /\ ReadsFresh

-----------------------------------------------------------------------------
(* Types are kept *)

LEMMA TailIsSeq ==
    ASSUME NEW S, NEW s \in Seq(S), s # <<>>
    PROVE  /\ Tail(s) \in Seq(S) /\ Len(Tail(s)) = Len(s) - 1 /\ Len(s) \in Nat \ {0}
           /\ \A i \in 1..Len(Tail(s)) : Tail(s)[i] = s[i + 1]
           /\ Head(s) = s[1] /\ Head(s) \in S
OBVIOUS

LEMMA AppendIsSeq ==
    ASSUME NEW S, NEW s \in Seq(S), NEW e \in S
    PROVE  /\ Append(s, e) \in Seq(S) /\ Len(Append(s, e)) = Len(s) + 1 /\ Len(s) \in Nat
           /\ \A i \in 1..Len(s) : Append(s, e)[i] = s[i]
           /\ Append(s, e)[Len(s) + 1] = e
OBVIOUS

\* One caller goes on, to something a caller may do.
LEMMA OneCaller ==
    ASSUME NEW k \in Callers, NEW d \in Doings, call \in [Callers -> Doings],
           call' = [call EXCEPT ![k] = d]
    PROVE  call' \in [Callers -> Doings]
OBVIOUS

LEMMA DoingsPc ==
    ASSUME NEW d \in Doings
    PROVE  /\ d.pc \in {"idle", "check", "elect", "run", "await", "asleep", "woken", "notify",
                        "diagnose", "failed", "store", "clear", "cat"}
           /\ d = Idle <=> d.pc = "idle"
           /\ d.pc \in {"diagnose", "failed", "clear"} => d \in Fetching
           /\ d.pc = "cat" => d \in Reading
           /\ d.pc = "store" => d \in Fetching \cup Reading
           /\ d.pc = "run" => d \in Asking \cup Running
           /\ d.pc # "idle" => d.req \in Lists \cup {"models"}
           /\ d.pc = "run" /\ d.req = "models" => d \in Asking
           /\ d.pc = "run" /\ d.req \in Lists => d \in Running
           /\ d.pc = "store" /\ d.req = "models" => d \in Fetching
           /\ d.pc = "store" /\ d.req \in Lists => d \in Reading
           /\ d \in Asking \cup Fetching => d.req = "models"
           /\ d \in Reading \cup Running => d.req \in Lists
<1>0. Idle.pc = "idle"
  BY DEF Idle
<1>1. CASE d = Idle
  <2>1. d.pc = "idle" /\ d \notin Asking \cup Fetching \cup Running \cup Reading
    BY <1>0, <1>1 DEF Asking, Fetching, Running, Reading
  <2> QED BY <1>1, <2>1
<1>2. CASE d \in Asking
  <2>1. d.pc \in {"check", "elect", "run", "await", "asleep", "woken", "notify"} /\ d.req = "models"
    BY <1>2 DEF Asking
  <2>2. d \notin Running \cup Reading
    BY <2>1 DEF Running, Reading, Lists
  <2> QED BY <1>0, <1>2, <2>1, <2>2 DEF Lists
<1>3. CASE d \in Fetching
  <2>1. d.pc \in {"diagnose", "failed", "store", "clear"} /\ d.req = "models"
    BY <1>3 DEF Fetching
  <2>2. d \notin Running \cup Reading
    BY <2>1 DEF Running, Reading, Lists
  <2> QED BY <1>0, <1>3, <2>1, <2>2 DEF Lists
<1>4. CASE d \in Running
  <2>1. d.pc = "run" /\ d.req \in Lists
    BY <1>4 DEF Running
  <2>2. d \notin Asking \cup Fetching
    BY <2>1 DEF Asking, Fetching, Lists
  <2> QED BY <1>0, <1>4, <2>1, <2>2 DEF Lists
<1>5. CASE d \in Reading
  <2>1. d.pc \in {"cat", "store"} /\ d.req \in Lists
    BY <1>5 DEF Reading
  <2>2. d \notin Asking \cup Fetching
    BY <2>1 DEF Asking, Fetching, Lists
  <2> QED BY <1>0, <1>5, <2>1, <2>2 DEF Lists
<1> QED BY <1>1, <1>2, <1>3, <1>4, <1>5 DEF Doings

LEMMA AtDoings ==
    ASSUME NEW stage \in {"check", "elect", "run", "await", "asleep", "woken", "notify"}
    PROVE  At(stage) \in Doings /\ At(stage).pc = stage /\ At(stage).req = "models"
BY DEF At, Doings, Asking

\* A call goes on to its next stage with what it holds.
Stage(d, p) == [d EXCEPT !.pc = p]

LEMMA NextStage ==
    ASSUME NEW d \in Doings, NEW p \in {"diagnose", "failed", "store", "clear"},
           d \in Fetching \/ (d \in Reading /\ p = "store")
    PROVE  /\ Stage(d, p) \in Doings /\ Stage(d, p).pc = p /\ Stage(d, p).req = d.req
           /\ Stage(d, p).cwd = d.cwd /\ Stage(d, p).read = d.read
<1>1. CASE d \in Fetching
  BY <1>1 DEF Stage, Fetching, Doings
<1>2. CASE d \in Reading /\ p = "store"
  BY <1>2 DEF Stage, Reading, Doings
<1> QED BY <1>1, <1>2

LEMMA RunsTypes ==
    ASSUME Types, NEW k \in Callers, NEW out \in Outputs \cup {"no spawn"}
    PROVE  /\ RunModels(k, out) =>
                /\ call[k].pc = "run" /\ call[k].req = "models"
                /\ UNCHANGED <<inputVars, watchVars, cacheVars, notifyVars>>
                /\ \E d \in Doings :
                      /\ call' = [call EXCEPT ![k] = d]
                      /\ d.pc \in {"failed", "diagnose"} /\ d.req = "models"
                      /\ d.read.glob = glob
           /\ RunForCwd(k, out) =>
                /\ call[k].pc = "run" /\ call[k].req \in Lists
                /\ UNCHANGED <<inputVars, watchVars, cacheVars, notifyVars>>
                /\ \E d \in Doings :
                      /\ call' = [call EXCEPT ![k] = d]
                      /\ \/ d.pc = "idle"
                         \/ /\ d.pc \in {"cat", "store"} /\ d.req \in Lists /\ d.cwd \in Cwds
                            /\ d.read.glob = glob /\ d.read.watch = watch[d.cwd]
                            /\ d.read.proj = proj[d.cwd]
<1>1. ASSUME RunModels(k, out)
      PROVE  \E d \in Doings :
                /\ call' = [call EXCEPT ![k] = d]
                /\ d.pc \in {"failed", "diagnose"} /\ d.req = "models"
                /\ d.read.glob = glob
  <2> DEFINE c == Catalogue(0, "no", Parses(out))
             p == IF out = "no spawn" THEN "failed" ELSE "diagnose"
             d == [pc |-> p, req |-> "models", cwd |-> NotCached, out |-> out, read |-> c]
  <2>1. call' = [call EXCEPT ![k] = d]
    BY <1>1 DEF RunModels
  <2>2. c \in Catalogues /\ c.glob = glob /\ p \in {"failed", "diagnose"}
    BY DEF Catalogue, Catalogues, Parses, Types, Watches
  <2> HIDE DEF c, p
  <2>3. d \in Fetching /\ d.pc = p /\ d.req = "models" /\ d.read = c
    BY <2>2 DEF Fetching
  <2> HIDE DEF d
  <2> QED BY <2>1, <2>2, <2>3 DEF Doings
<1>2. ASSUME RunForCwd(k, out)
      PROVE  \E d \in Doings :
                /\ call' = [call EXCEPT ![k] = d]
                /\ \/ d.pc = "idle"
                   \/ /\ d.pc \in {"cat", "store"} /\ d.req \in Lists /\ d.cwd \in Cwds
                      /\ d.read.glob = glob /\ d.read.watch = watch[d.cwd]
                      /\ d.read.proj = proj[d.cwd]
  <2> DEFINE w == call[k].cwd
             l == call[k].req
             v == Catalogue(proj[w], watch[w], Parses(out))
             p == IF l = "facets" THEN "cat" ELSE "store"
             full == [pc |-> p, req |-> l, cwd |-> w, read |-> v]
  <2>1. call[k] \in Running /\ w \in Cwds /\ l \in Lists
    BY <1>2, DoingsPc DEF RunForCwd, Types, Running
  <2>2. call' = [call EXCEPT ![k] = Idle] \/ call' = [call EXCEPT ![k] = full]
    BY <1>2 DEF RunForCwd
  <2>3. v \in Catalogues /\ v.glob = glob /\ v.watch = watch[w] /\ v.proj = proj[w]
        /\ p \in {"cat", "store"}
    BY <2>1 DEF Catalogue, Catalogues, Parses, Types
  <2> HIDE DEF v, p, l, w
  <2>4. full \in Reading
    BY <2>1, <2>3 DEF Reading
  <2>5. full \in Doings /\ Idle \in Doings /\ Idle.pc = "idle"
    BY <2>4 DEF Doings, Idle
  <2> QED BY <2>1, <2>2, <2>3, <2>5
<1> QED BY <1>1, <1>2 DEF RunModels, RunForCwd, inputVars, watchVars, cacheVars, notifyVars

\* Caller k goes on to d.  What d holds is what k held, or what it has read just now.
Carries(k, d) ==
    /\ call[k].pc \in {"diagnose", "cat"} /\ d.read = call[k].read
    /\ d.req = call[k].req /\ (d.req \in Lists => d.cwd = call[k].cwd)
HasRead(d) ==
    /\ d.read.glob = glob
    /\ d.req \in Lists => /\ d.cwd \in Cwds
                          /\ d.read.watch = watch[d.cwd] /\ d.read.proj = proj[d.cwd]
GoesOn(k, d) ==
    /\ d \in Doings /\ call' = [call EXCEPT ![k] = d]
    /\ d.pc \in {"diagnose", "store", "cat"} => Carries(k, d) \/ HasRead(d)

\* It does so beside the flag, the permit and the waiters, and fetches only if it did.
PlainlyGoesOn(k, d) ==
    /\ GoesOn(k, d) /\ UNCHANGED notifyVars
    /\ call[k].pc \notin {"notify", "woken", "asleep"}
    /\ d.pc \notin {"await", "asleep"}
    /\ d.pc \in {"run", "diagnose", "failed", "store", "clear"} /\ d.req = "models" => Fetcher(k)

Plain(k) ==
    \/ ListModels(k) \/ CheckCache(k) \/ Diagnose(k) \/ StoreModels(k) \/ CatFacets(k) \/ StoreForCwd(k)
    \/ \E out \in Outputs \cup {"no spawn"} : RunModels(k, out) \/ RunForCwd(k, out)
    \/ \E l \in Lists, c \in Cwds, accepted \in BOOLEAN : ListForCwd(k, l, c, accepted)

LEMMA PlainMoves ==
    ASSUME Types, NEW k \in Callers, Plain(k)
    PROVE  \E d : PlainlyGoesOn(k, d)
<1> USE DEF Types
<1>0. Idle \in Doings /\ Idle.pc = "idle" /\ call[k] \in Doings
  BY DEF Doings, Idle
<1>1. CASE ListModels(k) \/ CheckCache(k) \/ StoreForCwd(k)
  <2>1. PICK d \in {Idle, At("check"), At("elect")} :
            call' = [call EXCEPT ![k] = d] /\ call[k].pc \in {"idle", "check", "store"}
            /\ UNCHANGED notifyVars
    BY <1>0, <1>1 DEF ListModels, CheckCache, StoreForCwd
  <2>2. d \in Doings /\ d.pc \in {"idle", "check", "elect"}
    BY <1>0, AtDoings
  <2> QED BY <2>1, <2>2 DEF PlainlyGoesOn, GoesOn
<1>2. CASE Diagnose(k) \/ StoreModels(k) \/ CatFacets(k)
  <2>1. PICK p \in {"store", "clear"} :
            /\ call' = [call EXCEPT ![k].pc = p] /\ UNCHANGED notifyVars
            /\ \/ call[k].pc \in {"diagnose", "failed"} /\ call[k].req = "models"
                  /\ (p = "store" => call[k].pc = "diagnose")
               \/ call[k].pc = "store" /\ call[k].req = "models" /\ p = "clear"
               \/ call[k].pc = "cat" /\ p = "store"
    BY <1>2 DEF Diagnose, StoreModels, CatFacets
  <2> DEFINE d == Stage(call[k], p)
  <2>2. call[k] \in Fetching \/ (call[k] \in Reading /\ p = "store")
    BY <1>0, <2>1, DoingsPc
  <2>3. /\ d \in Doings /\ d.pc = p /\ d.req = call[k].req /\ d.cwd = call[k].cwd
        /\ d.read = call[k].read
    BY <1>0, <2>2, NextStage
  <2>4. call' = [call EXCEPT ![k] = d]
    BY <2>1 DEF Stage
  <2>5. d.req = "models" => call[k].pc # "cat"
    BY <1>0, <2>3, DoingsPc DEF Lists
  <2> HIDE DEF d
  <2>6. PlainlyGoesOn(k, d)
    BY <2>1, <2>3, <2>4, <2>5 DEF PlainlyGoesOn, GoesOn, Carries, Fetcher
  <2> QED BY <2>6
<1>3. ASSUME NEW out \in Outputs \cup {"no spawn"}, RunModels(k, out) \/ RunForCwd(k, out)
      PROVE  \E d : PlainlyGoesOn(k, d)
  <2>1. PICK d \in Doings :
            /\ call' = [call EXCEPT ![k] = d] /\ call[k].pc = "run" /\ UNCHANGED notifyVars
            /\ \/ d.pc \in {"failed", "diagnose"} /\ d.req = "models" /\ d.read.glob = glob
                  /\ call[k].req = "models"
               \/ d.pc = "idle"
               \/ d.pc \in {"cat", "store"} /\ d.req \in Lists /\ HasRead(d)
    BY <1>3, RunsTypes DEF HasRead
  <2>2. PlainlyGoesOn(k, d)
    BY <2>1 DEF PlainlyGoesOn, GoesOn, HasRead, Lists, Fetcher
  <2> QED BY <2>2
<1>4. ASSUME NEW l \in Lists, NEW c \in Cwds, NEW accepted \in BOOLEAN, ListForCwd(k, l, c, accepted)
      PROVE  \E d : PlainlyGoesOn(k, d)
  <2> DEFINE r == [pc |-> "run", req |-> l, cwd |-> c]
  <2>1. PICK d \in {Idle, r} : call' = [call EXCEPT ![k] = d] /\ call[k] = Idle
                               /\ UNCHANGED notifyVars
    BY <1>4 DEF ListForCwd
  <2>2. r \in Doings /\ r.pc = "run" /\ r.req # "models"
    BY DEF Running, Doings, Lists
  <2>3. d \in Doings /\ d.pc \in {"idle", "run"} /\ (d.pc = "run" => d.req # "models")
    BY <1>0, <2>1, <2>2
  <2>4. PlainlyGoesOn(k, d)
    BY <1>0, <2>1, <2>3 DEF PlainlyGoesOn, GoesOn
  <2> QED BY <2>4
<1> QED BY <1>1, <1>2, <1>3, <1>4 DEF Plain

-----------------------------------------------------------------------------
(* The single flight is kept *)

\* A step beside the single flight: everybody's place in list_models is what it was, or that of a
\* caller which goes on plainly.
LEMMA PlainFlight ==
    ASSUME FlightInv, NEW k \in Callers, NEW d, PlainlyGoesOn(k, d)
    PROVE  call' \in [Callers -> Doings] /\ OneFetcher' /\ WaitersSleep' /\ SomebodyComes'
<1>1. /\ call \in [Callers -> Doings] /\ waiters \in Seq(Callers) /\ d \in Doings
      /\ call' = [call EXCEPT ![k] = d] /\ UNCHANGED <<fetching, permit, waiters>>
      /\ call[k].pc \notin {"notify", "woken", "asleep"} /\ d.pc \notin {"await", "asleep"}
      /\ d.pc \in {"run", "diagnose", "failed", "store", "clear"} /\ d.req = "models" => Fetcher(k)
  BY DEF FlightInv, Types, PlainlyGoesOn, GoesOn, notifyVars
<1>2. call' \in [Callers -> Doings] /\ call'[k] = d /\ \A m \in Callers : m # k => call'[m] = call[m]
  BY <1>1
<1>3. \A m \in Callers : Fetcher(m)' => Fetcher(m)
  BY <1>1, <1>2 DEF Fetcher
<1>4. OneFetcher'
  BY <1>1, <1>3 DEF OneFetcher, FlightInv
<1>5. WaitersSleep'
  BY <1>1, <1>2 DEF WaitersSleep, FlightInv
<1>6. SomebodyComes'
  <2>1. (\E m \in Callers : call'[m].pc = "await") => \E m \in Callers : call[m].pc = "await"
    BY <1>1, <1>2
  <2>2. Passing => Passing'
    BY <1>1, <1>2 DEF Passing
  <2> QED BY <1>1, <2>1, <2>2 DEF SomebodyComes, FlightInv
<1> QED BY <1>2, <1>4, <1>5, <1>6

LEMMA ElectFlight ==
    ASSUME FlightInv, NEW k \in Callers, Elect(k)
    PROVE  call' \in [Callers -> Doings] /\ OneFetcher' /\ WaitersSleep' /\ SomebodyComes'
<1> DEFINE d == At(IF became_fetcher THEN "run" ELSE "await")
<1>1. /\ call \in [Callers -> Doings] /\ waiters \in Seq(Callers) /\ call[k].pc = "elect"
      /\ call' = [call EXCEPT ![k] = d] /\ fetching' = TRUE /\ UNCHANGED <<permit, waiters>>
  BY DEF FlightInv, Types, Elect
<1>2. d \in Doings /\ d.pc = (IF fetching THEN "await" ELSE "run") /\ d.req = "models"
  BY AtDoings DEF became_fetcher
<1> HIDE DEF d
<1>3. call' \in [Callers -> Doings] /\ call'[k] = d /\ \A m \in Callers : m # k => call'[m] = call[m]
  BY <1>1, <1>2
<1>4. OneFetcher'
  <2>1. CASE fetching
    <3>1. \A m \in Callers : Fetcher(m)' => Fetcher(m)
      BY <1>2, <1>3, <2>1 DEF Fetcher
    <3> QED BY <1>1, <3>1 DEF OneFetcher, FlightInv
  <2>2. CASE ~fetching
    <3>1. \A m \in Callers : ~Fetcher(m)
      BY <2>2 DEF OneFetcher, FlightInv
    <3>2. \A m \in Callers : Fetcher(m)' => m = k
      BY <1>3, <3>1 DEF Fetcher
    <3> QED BY <1>1, <3>2 DEF OneFetcher
  <2> QED BY <2>1, <2>2
<1>5. WaitersSleep'
  BY <1>1, <1>3 DEF WaitersSleep, FlightInv
<1>6. SomebodyComes'
  BY <1>1 DEF SomebodyComes, FlightInv
<1> QED BY <1>3, <1>4, <1>5, <1>6

LEMMA ClearFlight ==
    ASSUME FlightInv, NEW k \in Callers, ClearFetching(k)
    PROVE  call' \in [Callers -> Doings] /\ OneFetcher' /\ WaitersSleep' /\ SomebodyComes'
<1>1. /\ call \in [Callers -> Doings] /\ waiters \in Seq(Callers) /\ call[k].pc = "clear"
      /\ call' = [call EXCEPT ![k] = At("notify")] /\ fetching' = FALSE /\ UNCHANGED <<permit, waiters>>
  BY DEF FlightInv, Types, ClearFetching
<1>2. At("notify") \in Doings /\ At("notify").pc = "notify"
  BY AtDoings
<1>3. call' \in [Callers -> Doings] /\ call'[k].pc = "notify"
      /\ \A m \in Callers : m # k => call'[m] = call[m]
  BY <1>1, <1>2
<1>4. Fetcher(k)
  BY <1>1, DoingsPc DEF Fetcher, Fetching
<1>5. \A m \in Callers : ~Fetcher(m)'
  BY <1>3, <1>4 DEF OneFetcher, FlightInv, Fetcher
<1>6. OneFetcher'
  BY <1>5 DEF OneFetcher
<1>7. WaitersSleep'
  BY <1>1, <1>3 DEF WaitersSleep, FlightInv
<1>8. SomebodyComes'
  BY <1>1, <1>3 DEF SomebodyComes, FlightInv, Passing
<1> QED BY <1>3, <1>6, <1>7, <1>8

\* Whoever notifies goes on; the oldest waiter, if there is one, wakes and takes the baton.
LEMMA NotifyFlight ==
    ASSUME FlightInv, NEW k \in Callers, NEW d \in {Idle, At("check")},
           call[k].pc \in {"notify", "woken"}, notify_one(k, d), UNCHANGED fetching
    PROVE  /\ call' \in [Callers -> Doings] /\ OneFetcher' /\ WaitersSleep' /\ SomebodyComes'
           /\ waiters' \in Seq(Callers) /\ permit' \in BOOLEAN
<1>0. /\ call \in [Callers -> Doings] /\ waiters \in Seq(Callers) /\ permit \in BOOLEAN
      /\ OneFetcher /\ WaitersSleep /\ SomebodyComes
  BY DEF FlightInv, Types
<1>1. d \in Doings /\ d.pc \in {"idle", "check"}
  BY AtDoings DEF Doings, Idle
<1>2. At("woken") \in Doings /\ At("woken").pc = "woken"
  BY AtDoings
<1>3. CASE waiters = <<>>
  <2>1. permit' = TRUE /\ waiters' = <<>> /\ call' = [call EXCEPT ![k] = d]
    BY <1>3 DEF notify_one
  <2>2. call' \in [Callers -> Doings] /\ call'[k] = d /\ \A m \in Callers : m # k => call'[m] = call[m]
    BY <1>0, <1>1, <2>1
  <2>3. \A m \in Callers : Fetcher(m)' => Fetcher(m)
    BY <1>1, <2>2 DEF Fetcher
  <2> QED BY <1>0, <2>1, <2>2, <2>3 DEF OneFetcher, WaitersSleep, SomebodyComes
<1>4. CASE waiters # <<>>
  <2> DEFINE h == Head(waiters)
  <2>1. permit' = permit /\ waiters' = Tail(waiters)
        /\ call' = [call EXCEPT ![k] = d, ![h] = At("woken")]
    BY <1>4 DEF notify_one
  <2>2. /\ Tail(waiters) \in Seq(Callers) /\ Len(Tail(waiters)) = Len(waiters) - 1
        /\ Len(waiters) \in Nat \ {0} /\ h = waiters[1] /\ h \in Callers
        /\ \A i \in 1..Len(Tail(waiters)) : Tail(waiters)[i] = waiters[i + 1]
    BY <1>0, <1>4, TailIsSeq
  <2>3. call[h].pc = "asleep" /\ h # k
    BY <1>0, <2>2 DEF WaitersSleep
  <2> HIDE DEF h
  <2>4. /\ call' \in [Callers -> Doings] /\ call'[k] = d /\ call'[h] = At("woken")
        /\ \A m \in Callers : m # k /\ m # h => call'[m] = call[m]
    BY <1>0, <1>1, <1>2, <2>1, <2>2, <2>3
  <2>5. \A m \in Callers : Fetcher(m)' => Fetcher(m)
    BY <1>1, <1>2, <2>4 DEF Fetcher
  <2>6. OneFetcher'
    BY <1>0, <2>5 DEF OneFetcher
  <2>7. WaitersSleep'
    <3>1. ASSUME NEW i \in 1..Len(waiters')
          PROVE  /\ i + 1 \in 1..Len(waiters) /\ waiters'[i] = waiters[i + 1]
                 /\ call'[waiters'[i]].pc = "asleep"
      <4>1. i + 1 \in 1..Len(waiters) /\ waiters'[i] = waiters[i + 1] /\ 1 \in 1..Len(waiters) /\ i + 1 # 1
        BY <2>1, <2>2
      <4>2. waiters[i + 1] # h /\ call[waiters[i + 1]].pc = "asleep" /\ waiters[i + 1] \in Callers
        BY <1>0, <2>2, <4>1 DEF WaitersSleep
      <4> QED BY <2>4, <4>1, <4>2
    <3>2. ASSUME NEW i \in 1..Len(waiters'), NEW j \in 1..Len(waiters'), waiters'[i] = waiters'[j]
          PROVE  i = j
      <4>1. i + 1 = j + 1
        BY <1>0, <3>1, <3>2 DEF WaitersSleep
      <4>2. i \in Nat /\ j \in Nat
        BY <2>1, <2>2
      <4> QED BY <4>1, <4>2
    <3> QED BY <3>1, <3>2 DEF WaitersSleep
  <2>8. SomebodyComes'
    <3>1. ~permit'
      BY <1>0, <1>4, <2>1 DEF SomebodyComes
    <3>2. Passing'
      BY <1>2, <2>2, <2>4 DEF Passing
    <3> QED BY <3>1, <3>2 DEF SomebodyComes
  <2> QED BY <1>0, <2>1, <2>2, <2>4, <2>6, <2>7, <2>8
<1> QED BY <1>3, <1>4

LEMMA AwaitFlight ==
    ASSUME FlightInv, NEW k \in Callers, Await(k)
    PROVE  /\ call' \in [Callers -> Doings] /\ OneFetcher' /\ WaitersSleep' /\ SomebodyComes'
           /\ waiters' \in Seq(Callers) /\ permit' \in BOOLEAN
<1>0. /\ call \in [Callers -> Doings] /\ waiters \in Seq(Callers) /\ call[k].pc = "await"
      /\ OneFetcher /\ WaitersSleep /\ SomebodyComes /\ permit' = FALSE /\ UNCHANGED fetching
  BY DEF FlightInv, Types, Await
<1>1. At("woken") \in Doings /\ At("woken").pc = "woken" /\ At("asleep") \in Doings /\ At("asleep").pc = "asleep"
  BY AtDoings
<1>2. PICK d \in {At("woken"), At("asleep")} :
          /\ call' = [call EXCEPT ![k] = d]
          /\ \/ permit /\ d = At("woken") /\ waiters' = waiters
             \/ ~permit /\ d = At("asleep") /\ waiters' = Append(waiters, k)
  BY DEF Await
<1>3. call' \in [Callers -> Doings] /\ call'[k] = d /\ \A m \in Callers : m # k => call'[m] = call[m]
  BY <1>0, <1>1, <1>2
<1>4. \A m \in Callers : Fetcher(m)' => Fetcher(m)
  BY <1>1, <1>3 DEF Fetcher
<1>5. OneFetcher'
  BY <1>0, <1>4 DEF OneFetcher
<1>6. CASE permit
  <2>1. d.pc = "woken" /\ waiters' = <<>> /\ waiters' = waiters
    BY <1>0, <1>1, <1>2, <1>6 DEF SomebodyComes
  <2>2. WaitersSleep' /\ SomebodyComes'
    BY <1>0, <1>3, <2>1 DEF WaitersSleep, SomebodyComes, Passing
  <2> QED BY <1>0, <1>3, <1>5, <2>1, <2>2
<1>7. CASE ~permit
  <2>1. d.pc = "asleep" /\ waiters' = Append(waiters, k)
    BY <1>1, <1>2, <1>7
  <2>2. /\ waiters' \in Seq(Callers) /\ Len(waiters') = Len(waiters) + 1 /\ Len(waiters) \in Nat
        /\ \A i \in 1..Len(waiters) : waiters'[i] = waiters[i]
        /\ waiters'[Len(waiters) + 1] = k
    BY <1>0, <2>1, AppendIsSeq
  <2>3. \A i \in 1..Len(waiters) : waiters[i] # k /\ waiters[i] \in Callers
    BY <1>0 DEF WaitersSleep
  <2>4. WaitersSleep'
    <3>1. ASSUME NEW i \in 1..Len(waiters')
          PROVE  call'[waiters'[i]].pc = "asleep"
                 /\ \A j \in 1..Len(waiters') : waiters'[i] = waiters'[j] => i = j
      <4>1. i \in 1..Len(waiters) \/ i = Len(waiters) + 1
        BY <2>2
      <4>2. \A j \in 1..Len(waiters') : j \in 1..Len(waiters) \/ j = Len(waiters) + 1
        BY <2>2
      <4>3. CASE i = Len(waiters) + 1
        BY <1>3, <2>1, <2>2, <2>3, <4>2, <4>3
      <4>4. CASE i \in 1..Len(waiters)
        <5>1. waiters'[i] = waiters[i] /\ call'[waiters'[i]].pc = "asleep" /\ waiters'[i] # k
          BY <1>0, <1>3, <2>2, <2>3, <4>4 DEF WaitersSleep
        <5> QED BY <1>0, <2>2, <4>2, <4>4, <5>1 DEF WaitersSleep
      <4> QED BY <4>1, <4>3, <4>4
    <3> QED BY <3>1 DEF WaitersSleep
  <2>5. SomebodyComes'
    <3>1. fetching \/ Passing
      BY <1>0, <1>7 DEF SomebodyComes
    <3>2. Passing => Passing'
      BY <1>0, <1>3 DEF Passing
    <3> QED BY <1>0, <3>1, <3>2 DEF SomebodyComes
  <2> QED BY <1>0, <1>3, <1>5, <2>2, <2>4, <2>5
<1> QED BY <1>6, <1>7

-----------------------------------------------------------------------------
(* An invalidation marks what is being read, and moves nobody *)

LateRead(d) == [d EXCEPT !.read.late = TRUE]

LEMMA LateReadIsDoing ==
    ASSUME NEW d \in Doings, d.pc \in {"diagnose", "store", "cat"}
    PROVE  /\ LateRead(d) \in Doings /\ LateRead(d).pc = d.pc /\ LateRead(d).req = d.req
           /\ LateRead(d).cwd = d.cwd /\ LateRead(d).read.late
<1>1. d \in Fetching \/ d \in Reading
  BY DoingsPc
<1>2. CASE d \in Fetching
  <2>1. [d.read EXCEPT !.late = TRUE] \in Catalogues /\ [d.read EXCEPT !.late = TRUE].late
    BY <1>2 DEF Fetching, Catalogues
  <2>2. LateRead(d) = [d EXCEPT !.read = [d.read EXCEPT !.late = TRUE]]
    BY <1>2 DEF LateRead, Fetching, Catalogues
  <2> QED BY <1>2, <2>1, <2>2 DEF Fetching, Doings
<1>3. CASE d \in Reading
  <2>1. [d.read EXCEPT !.late = TRUE] \in Catalogues /\ [d.read EXCEPT !.late = TRUE].late
    BY <1>3 DEF Reading, Catalogues
  <2>2. LateRead(d) = [d EXCEPT !.read = [d.read EXCEPT !.late = TRUE]]
    BY <1>3 DEF LateRead, Reading, Catalogues
  <2> QED BY <1>3, <2>1, <2>2 DEF Reading, Doings
<1> QED BY <1>1, <1>2, <1>3

LEMMA OverrunKeeps ==
    ASSUME call \in [Callers -> Doings], NEW a, call' = Overrun(a)
    PROVE  /\ call' \in [Callers -> Doings]
           /\ \A k \in Callers : call'[k].pc = call[k].pc /\ call'[k].req = call[k].req
           /\ \A k \in Callers : call[k].pc \in {"diagnose", "store", "cat"} /\ ~call'[k].read.late
                  => call'[k] = call[k] /\ ~Covers(a, call[k].req, call[k].cwd)
<1>1. ASSUME NEW k \in Callers
      PROVE  call'[k] = IF call[k].pc \in {"diagnose", "store", "cat"} /\ Covers(a, call[k].req, call[k].cwd)
                        THEN LateRead(call[k]) ELSE call[k]
  BY DEF Overrun, LateRead
<1>2. call' = [k \in Callers |-> call'[k]]
  BY DEF Overrun
<1>3. ASSUME NEW k \in Callers
      PROVE  /\ call'[k] \in Doings /\ call'[k].pc = call[k].pc /\ call'[k].req = call[k].req
             /\ call[k].pc \in {"diagnose", "store", "cat"} /\ ~call'[k].read.late
                  => call'[k] = call[k] /\ ~Covers(a, call[k].req, call[k].cwd)
  BY <1>1, LateReadIsDoing
<1> QED BY <1>2, <1>3

-----------------------------------------------------------------------------
(* FlightInv is inductive *)

\* Steps that leave everybody where they are in list_models.
LEMMA StillFlight ==
    ASSUME FlightInv, UNCHANGED notifyVars, call' \in [Callers -> Doings],
           \A k \in Callers : call'[k].pc = call[k].pc /\ call'[k].req = call[k].req
    PROVE  OneFetcher' /\ WaitersSleep' /\ SomebodyComes'
<1>1. \A k \in Callers : Fetcher(k)' = Fetcher(k)
  BY DEF Fetcher
<1>2. Passing' = Passing
  BY DEF Passing
<1>3. waiters \in Seq(Callers) /\ OneFetcher /\ WaitersSleep /\ SomebodyComes
  BY DEF FlightInv, Types
<1>4. OneFetcher'
  BY <1>1, <1>3 DEF OneFetcher, notifyVars
<1>5. WaitersSleep'
  BY <1>3 DEF WaitersSleep, notifyVars
<1>6. SomebodyComes'
  BY <1>2, <1>3 DEF SomebodyComes, notifyVars
<1> QED BY <1>4, <1>5, <1>6

LEMMA ActionTypes ==
    ASSUME Types
    PROVE  /\ \A ev \in Events : classify_event(ev) \in Actions
           /\ \A p, a \in Actions : merge(p, a) \in Actions
<1>1. ASSUME NEW ev \in Events PROVE classify_event(ev) \in Actions
  <2>1. ev.path = "config dir" => ev.cwd \in Cwds
    BY DEF Events, Globals
  <2> QED BY <2>1 DEF classify_event, Actions
<1>2. \A p, a \in Actions : merge(p, a) \in Actions
  BY DEF merge, Actions
<1> QED BY <1>1, <1>2

\* The watcher's side and the daemon's reload.
World ==
    \/ \E g \in Globals : EditGlobal(g)
    \/ \E c \in Cwds : EditProject(c) \/ CreateProjectDir(c) \/ TouchProject(c)
    \/ DaemonReload \/ FeedEvent \/ Debounced

LEMMA ReportedTypes ==
    ASSUME Types, NEW ev \in Events, fsevents' \in {fsevents, Append(fsevents, ev)}
    PROVE  fsevents' \in Seq(Events)
<1>1. fsevents \in Seq(Events)
  BY DEF Types
<1> QED BY <1>1, AppendIsSeq

LEMMA ProjTypes ==
    ASSUME NEW c \in Cwds, proj \in [Cwds -> Nat],
           \/ UNCHANGED proj \/ proj' = [proj EXCEPT ![c] = @ + 1] \/ proj' = [proj EXCEPT ![c] = 1]
    PROVE  proj' \in [Cwds -> Nat]
<1>1. proj[c] + 1 \in Nat
  OBVIOUS
<1> QED BY <1>1

LEMMA WorldTypes ==
    ASSUME Types, World
    PROVE  /\ Types' /\ UNCHANGED notifyVars
           /\ \A k \in Callers : call'[k].pc = call[k].pc /\ call'[k].req = call[k].req
<1> USE DEF Types
<1>1. ASSUME NEW g \in Globals, EditGlobal(g)
      PROVE  Types' /\ UNCHANGED <<notifyVars, call>>
  <2>1. [path |-> g] \in Events
    BY DEF Events
  <2>2. fsevents' \in {fsevents, Append(fsevents, [path |-> g])}
    BY <1>1 DEF EditGlobal, Reported
  <2>3. fsevents' \in Seq(Events)
    BY <2>1, <2>2, ReportedTypes
  <2>4. glob' \in [Globals -> Nat]
    BY <1>1 DEF EditGlobal
  <2> QED BY <1>1, <2>3, <2>4 DEF EditGlobal, cacheVars, notifyVars
<1>2. ASSUME NEW c \in Cwds, EditProject(c) \/ CreateProjectDir(c) \/ TouchProject(c)
      PROVE  Types' /\ UNCHANGED <<notifyVars, call>>
  <2>1. [path |-> "config dir", cwd |-> c] \in Events /\ [path |-> "project"] \in Events
    BY DEF Events
  <2>2. \/ fsevents' \in {fsevents, Append(fsevents, [path |-> "config dir", cwd |-> c])}
        \/ fsevents' \in {fsevents, Append(fsevents, [path |-> "project"])}
    BY <1>2 DEF EditProject, CreateProjectDir, TouchProject, Reported
  <2>3. fsevents' \in Seq(Events)
    BY <2>1, <2>2, ReportedTypes
  <2>4. proj' = proj \/ proj' = [proj EXCEPT ![c] = @ + 1] \/ proj' = [proj EXCEPT ![c] = 1]
    BY <1>2 DEF EditProject, CreateProjectDir, TouchProject
  <2>5. proj' \in [Cwds -> Nat]
    BY <2>4, ProjTypes
  <2> QED BY <1>2, <2>3, <2>5 DEF EditProject, CreateProjectDir, TouchProject, cacheVars, notifyVars
<1>3. ASSUME NEW a \in Actions, invalidate(a), UNCHANGED <<glob, proj, watched, watch, fsevents, notifyVars>>,
             debounced' \in Actions
      PROVE  Types' /\ \A k \in Callers : call'[k].pc = call[k].pc /\ call'[k].req = call[k].req
  <2>1. model_cache' \in Catalogues \cup {NotCached}
    BY <1>3 DEF invalidate
  <2>2. cwd_cache' \in [Lists \X Cwds -> Catalogues \cup {NotCached}]
    BY <1>3 DEF invalidate
  <2>3. /\ call' \in [Callers -> Doings]
        /\ \A k \in Callers : call'[k].pc = call[k].pc /\ call'[k].req = call[k].req
    <3>1. call' = Overrun(a) /\ call \in [Callers -> Doings]
      BY <1>3 DEF invalidate
    <3> HIDE DEF Types
    <3> QED BY <3>1, OverrunKeeps
  <2> QED BY <1>3, <2>1, <2>2, <2>3 DEF inputVars, notifyVars
<1>4. CASE DaemonReload
  <2>1. All \in Actions /\ debounced' \in Actions
    BY <1>4 DEF DaemonReload, Actions, watchVars
  <2> QED BY <1>3, <1>4, <2>1 DEF DaemonReload, watchVars
<1>5. CASE Debounced
  <2>1. debounced \in Actions /\ debounced' \in Actions
    BY <1>5 DEF Debounced, Actions
  <2> QED BY <1>3, <1>5, <2>1 DEF Debounced, inputVars
<1>6. CASE FeedEvent
  <2>1. Tail(fsevents) \in Seq(Events) /\ Head(fsevents) \in Events
    BY <1>6, TailIsSeq DEF FeedEvent
  <2>2. debounced' \in Actions
    BY <1>6, <2>1, ActionTypes DEF FeedEvent
  <2> QED BY <1>6, <2>1, <2>2 DEF FeedEvent, inputVars, cacheVars, notifyVars
<1>7. World => UNCHANGED notifyVars
  BY DEF World, EditGlobal, EditProject, CreateProjectDir, TouchProject, DaemonReload, FeedEvent, Debounced
<1>8. World => \/ DaemonReload \/ FeedEvent \/ Debounced
               \/ \E g \in Globals : EditGlobal(g)
               \/ \E c \in Cwds : EditProject(c) \/ CreateProjectDir(c) \/ TouchProject(c)
  BY DEF World
<1> QED BY <1>1, <1>2, <1>4, <1>5, <1>6, <1>7, <1>8

\* What a plain step does to the rest of the state.
LEMMA PlainTypes ==
    ASSUME Types, NEW k \in Callers, Plain(k)
    PROVE  /\ UNCHANGED <<glob, proj, watched, fsevents, debounced>> /\ watch' \in [Cwds -> Watches]
           /\ model_cache' \in Catalogues \cup {NotCached}
           /\ cwd_cache' \in [Lists \X Cwds -> Catalogues \cup {NotCached}]
<1>0. /\ watch \in [Cwds -> Watches] /\ model_cache \in Catalogues \cup {NotCached}
      /\ cwd_cache \in [Lists \X Cwds -> Catalogues \cup {NotCached}] /\ call[k] \in Doings
  BY DEF Types
<1> DEFINE Goal == /\ UNCHANGED <<glob, proj, watched, fsevents, debounced>>
                   /\ watch' \in [Cwds -> Watches]
                   /\ model_cache' \in Catalogues \cup {NotCached}
                   /\ cwd_cache' \in [Lists \X Cwds -> Catalogues \cup {NotCached}]
<1>1. CASE ListModels(k) \/ CheckCache(k) \/ Diagnose(k) \/ CatFacets(k)
  BY <1>0, <1>1 DEF ListModels, CheckCache, Diagnose, CatFacets, inputVars, watchVars, cacheVars
<1>2. CASE StoreModels(k)
  <2>1. call[k].read \in Catalogues
    BY <1>0, <1>2, DoingsPc DEF StoreModels, Fetching
  <2> QED BY <1>0, <1>2, <2>1 DEF StoreModels, inputVars, watchVars
<1>3. CASE StoreForCwd(k)
  <2>1. call[k].read \in Catalogues
    BY <1>0, <1>3, DoingsPc DEF StoreForCwd, Reading
  <2> DEFINE x == <<call[k].req, call[k].cwd>>
             v == call[k].read
  <2>2. cwd_cache' = [cwd_cache EXCEPT ![x] = v]
        /\ UNCHANGED <<inputVars, watchVars, model_cache>>
    BY <1>3 DEF StoreForCwd
  <2>3. v \in Catalogues
    BY <2>1
  <2> HIDE DEF x, v
  <2>4. cwd_cache' \in [Lists \X Cwds -> Catalogues \cup {NotCached}]
    BY <1>0, <2>2, <2>3
  <2> QED BY <1>0, <2>2, <2>4 DEF inputVars, watchVars
<1>4. ASSUME NEW out \in Outputs \cup {"no spawn"}, RunModels(k, out) \/ RunForCwd(k, out) PROVE Goal
  BY <1>0, <1>4 DEF RunModels, RunForCwd, inputVars, watchVars, cacheVars
<1>5. ASSUME NEW l \in Lists, NEW c \in Cwds, NEW accepted \in BOOLEAN, ListForCwd(k, l, c, accepted)
      PROVE  Goal
  <2>1. watch' = watch \/ watch' = [watch EXCEPT ![c] = "dir"] \/ watch' = [watch EXCEPT ![c] = "parent"]
    BY <1>5 DEF ListForCwd, register_project_config
  <2>2. watch' \in [Cwds -> Watches]
    BY <1>0, <1>5, <2>1 DEF Watches
  <2>3. UNCHANGED <<inputVars, watched, fsevents, debounced, cacheVars>>
    BY <1>5 DEF ListForCwd
  <2> QED BY <1>0, <2>2, <2>3 DEF inputVars, cacheVars
<1> QED BY <1>1, <1>2, <1>3, <1>4, <1>5 DEF Plain

Baton(k) == Elect(k) \/ ClearFetching(k) \/ FetcherNotifies(k) \/ Await(k) \/ PassBaton(k)

LEMMA StepIs ==
    ASSUME CachesNext
    PROVE  World \/ \E k \in Callers : Plain(k) \/ Baton(k)
BY DEF CachesNext, CallerStep, WatcherStep, World, Plain, Baton

LEMMA BatonFlight ==
    ASSUME FlightInv, NEW k \in Callers, Baton(k)
    PROVE  FlightInv' /\ UNCHANGED <<inputVars, watchVars, cacheVars>>
<1>1. UNCHANGED <<inputVars, watchVars, cacheVars>>
  BY DEF Baton, Elect, ClearFetching, FetcherNotifies, Await, PassBaton
<1>2. /\ call' \in [Callers -> Doings] /\ OneFetcher' /\ WaitersSleep' /\ SomebodyComes'
      /\ waiters' \in Seq(Callers) /\ permit' \in BOOLEAN /\ fetching' \in BOOLEAN
  <2>1. waiters \in Seq(Callers) /\ permit \in BOOLEAN /\ fetching \in BOOLEAN
    BY DEF FlightInv, Types
  <2>2. CASE Elect(k)
    BY <2>1, <2>2, ElectFlight DEF Elect
  <2>3. CASE ClearFetching(k)
    BY <2>1, <2>3, ClearFlight DEF ClearFetching
  <2>4. CASE FetcherNotifies(k)
    <3>1. notify_one(k, Idle) /\ call[k].pc \in {"notify", "woken"} /\ UNCHANGED fetching
      BY <2>4 DEF FetcherNotifies
    <3> QED BY <2>1, <3>1, NotifyFlight
  <2>5. CASE PassBaton(k)
    <3>1. notify_one(k, At("check")) /\ call[k].pc \in {"notify", "woken"} /\ UNCHANGED fetching
      BY <2>5 DEF PassBaton
    <3> QED BY <2>1, <3>1, NotifyFlight
  <2>6. CASE Await(k)
    BY <2>1, <2>6, AwaitFlight DEF Await
  <2> QED BY <2>2, <2>3, <2>4, <2>5, <2>6 DEF Baton
<1> QED BY <1>1, <1>2 DEF FlightInv, Types, inputVars, watchVars, cacheVars

LEMMA FlightStep ==
    ASSUME FlightInv, [CachesNext]_cachesVars
    PROVE  FlightInv'
<1>1. CASE World
  <2>1. /\ Types' /\ UNCHANGED notifyVars
        /\ \A k \in Callers : call'[k].pc = call[k].pc /\ call'[k].req = call[k].req
    BY <1>1, WorldTypes DEF FlightInv
  <2>2. call' \in [Callers -> Doings]
    BY <2>1 DEF Types
  <2> QED BY <2>1, <2>2, StillFlight DEF FlightInv
<1>2. ASSUME NEW k \in Callers, Plain(k) PROVE FlightInv'
  <2>1. PICK d : PlainlyGoesOn(k, d)
    BY <1>2, PlainMoves DEF FlightInv
  <2>2. call' \in [Callers -> Doings] /\ OneFetcher' /\ WaitersSleep' /\ SomebodyComes'
    BY <1>2, <2>1, PlainFlight
  <2>3. UNCHANGED notifyVars
    BY <2>1 DEF PlainlyGoesOn
  <2>4. /\ UNCHANGED <<glob, proj, watched, fsevents, debounced>> /\ watch' \in [Cwds -> Watches]
        /\ model_cache' \in Catalogues \cup {NotCached}
        /\ cwd_cache' \in [Lists \X Cwds -> Catalogues \cup {NotCached}]
    BY <1>2, PlainTypes DEF FlightInv
  <2> QED BY <2>2, <2>3, <2>4 DEF FlightInv, Types, notifyVars
<1>3. ASSUME NEW k \in Callers, Baton(k) PROVE FlightInv'
  BY <1>3, BatonFlight
<1>4. CASE UNCHANGED cachesVars
  BY <1>4 DEF cachesVars, inputVars, watchVars, cacheVars, notifyVars, FlightInv, Types, OneFetcher,
              WaitersSleep, SomebodyComes, Passing, Fetcher
<1> QED BY <1>1, <1>2, <1>3, <1>4, StepIs

LEMMA InitIsFlight == CachesInit => FlightInv
<1> SUFFICES ASSUME CachesInit PROVE FlightInv
  OBVIOUS
<1>1. \A k \in Callers : call[k] = Idle /\ call[k].pc = "idle"
  BY DEF CachesInit, Idle
<1>2. Types
  <2>1. proj \in [Cwds -> Nat] /\ watch \in [Cwds -> Watches]
    BY DEF CachesInit, Watches
  <2>2. call \in [Callers -> Doings] /\ waiters \in Seq(Callers) /\ fsevents \in Seq(Events)
    BY DEF CachesInit, Doings
  <2>3. cwd_cache \in [Lists \X Cwds -> Catalogues \cup {NotCached}]
    BY DEF CachesInit
  <2> QED BY <2>1, <2>2, <2>3 DEF CachesInit, Types, Actions
<1>3. OneFetcher
  BY <1>1 DEF OneFetcher, Fetcher
<1>4. WaitersSleep /\ SomebodyComes
  BY <1>1 DEF CachesInit, WaitersSleep, SomebodyComes
<1> QED BY <1>2, <1>3, <1>4 DEF FlightInv

LEMMA FlightIsSingle == FlightInv => SingleFlight
<1> SUFFICES ASSUME FlightInv PROVE SingleFlight
  OBVIOUS
<1> DEFINE F == {k \in Callers : Fetcher(k)}
<1>1. Cardinality(F) <= 1
  <2>1. CASE F = {}
    BY <2>1, FS_EmptySet
  <2>2. CASE F # {}
    <3>1. PICK k : k \in F
      BY <2>2
    <3>2. F = {k}
      BY <3>1 DEF FlightInv, OneFetcher
    <3> QED BY <3>2, FS_Singleton
  <2> QED BY <2>1, <2>2
<1>2. waiters # <<>> => fetching \/ \E k \in Callers : call[k].pc \in {"notify", "woken"}
  BY DEF FlightInv, SomebodyComes, Passing
<1> QED BY <1>1, <1>2 DEF SingleFlight, Fetcher

(***************************************************************************)
(* list_models: callers that meet on a cold cache share one `polytoken     *)
(* models`, and nobody sleeps on the Notify with no fetch running and no   *)
(* baton on its way.                                                       *)
(***************************************************************************)
THEOREM SingleFlightCorrect == CachesSpec => []SingleFlight
<1>1. FlightInv /\ [CachesNext]_cachesVars => FlightInv'
  BY FlightStep
<1>2. CachesSpec => []FlightInv
  BY <1>1, InitIsFlight, PTL DEF CachesSpec
<1> QED BY <1>2, FlightIsSingle, PTL

-----------------------------------------------------------------------------
(* Freshness is kept while the watcher catches up *)

LEMMA ActionsDiffer ==
    /\ All # Nothing /\ All.scope = "all"
    /\ \A c : OfCwd(c) # Nothing /\ OfCwd(c) # All /\ OfCwd(c).scope = "cwd" /\ OfCwd(c).cwd = c
<1>1. All.scope = "all" /\ Nothing.scope = "none"
  BY DEF All, Nothing
<1>2. \A c : OfCwd(c).scope = "cwd" /\ OfCwd(c).cwd = c
  BY DEF OfCwd
<1> QED BY <1>1, <1>2

\* Nothing that is coming is lost, and what changes is coming.
CatchesUp ==
    /\ watched' = watched
    /\ \A g \in watched : glob'[g] = glob[g] \/ All \in Pending'
    /\ \A c \in Cwds : watch[c] = "dir" =>
          watch'[c] = "dir" /\ (proj'[c] = proj[c] \/ All \in Pending' \/ OfCwd(c) \in Pending')
    /\ All \in Pending => All \in Pending'
    /\ \A c \in Cwds : OfCwd(c) \in Pending => OfCwd(c) \in Pending' \/ All \in Pending'

LEMMA FreshStays ==
    ASSUME CatchesUp
    PROVE  /\ \A v : GlobalsFreshIn(v, glob, watched, Pending) => GlobalsFreshIn(v, glob', watched', Pending')
           /\ \A v : \A c \in Cwds : ProjectFreshIn(v, c, proj, watch, Pending)
                => ProjectFreshIn(v, c, proj', watch', Pending')
BY DEF CatchesUp, GlobalsFreshIn, ProjectFreshIn

\* An event more, or the same ones.
LEMMA PendingGrows ==
    ASSUME Types, NEW ev \in Events, UNCHANGED <<watch, debounced>>,
           fsevents' \in {fsevents, Append(fsevents, ev)}
    PROVE  /\ Pending \subseteq Pending'
           /\ fsevents' = Append(fsevents, ev) => classify_event(ev) \in Pending'
<1>0. fsevents \in Seq(Events)
  BY DEF Types
<1>1. CASE fsevents' = Append(fsevents, ev)
  <2>1. /\ Len(fsevents') = Len(fsevents) + 1 /\ Len(fsevents) \in Nat
        /\ \A i \in 1..Len(fsevents) : fsevents'[i] = fsevents[i]
        /\ fsevents'[Len(fsevents) + 1] = ev
    BY <1>0, <1>1, AppendIsSeq
  <2>2. \A e : classify_event(e)' = classify_event(e)
    BY DEF classify_event
  <2>3. Pending' = {debounced} \cup {classify_event(fsevents'[i]) : i \in 1..Len(fsevents')}
    BY <2>2 DEF Pending, classify_event
  <2>4. classify_event(ev) \in Pending'
    <3>1. Len(fsevents) + 1 \in 1..Len(fsevents')
      BY <2>1
    <3> QED BY <2>1, <2>3, <3>1
  <2>5. ASSUME NEW i \in 1..Len(fsevents) PROVE classify_event(fsevents[i]) \in Pending'
    <3>1. i \in 1..Len(fsevents') /\ fsevents'[i] = fsevents[i]
      BY <2>1
    <3> QED BY <2>3, <3>1
  <2> QED BY <2>3, <2>4, <2>5 DEF Pending
<1>2. CASE fsevents' = fsevents /\ fsevents' # Append(fsevents, ev)
  BY <1>2 DEF Pending, classify_event
<1> QED BY <1>1, <1>2

\* A project comes under watch: what was reported before is classified as before.
LEMMA WatchingKeepsPending ==
    ASSUME Types, WatchedDirsExist, UNCHANGED <<fsevents, debounced>>,
           \A c \in Cwds : watch[c] # "no" => watch'[c] # "no"
    PROVE  Pending' = Pending
<1>1. ASSUME NEW i \in 1..Len(fsevents)
      PROVE  classify_event(fsevents[i])' = classify_event(fsevents[i])
  <2>1. fsevents[i] \in Events
    BY <1>1 DEF Types
  <2>2. fsevents[i].path = "config dir" => fsevents[i].cwd \in Cwds
    BY <2>1 DEF Events, Globals
  <2>3. fsevents[i].path = "config dir" => watch[fsevents[i].cwd] # "no" /\ watch'[fsevents[i].cwd] # "no"
    BY <1>1, <2>2 DEF WatchedDirsExist
  <2> QED BY <2>3 DEF classify_event
<1>2. {classify_event(fsevents[i])' : i \in 1..Len(fsevents)} = {classify_event(fsevents[i]) : i \in 1..Len(fsevents)}
  BY <1>1
<1> QED BY <1>2 DEF Pending

LEMMA FeedKeepsComing ==
    ASSUME Types, FeedEvent
    PROVE  /\ All \in Pending => All \in Pending'
           /\ \A c \in Cwds : OfCwd(c) \in Pending => OfCwd(c) \in Pending' \/ All \in Pending'
<1>1. /\ fsevents \in Seq(Events) /\ fsevents # <<>> /\ fsevents' = Tail(fsevents) /\ UNCHANGED watch
      /\ debounced' = merge(debounced, classify_event(Head(fsevents)))
  BY DEF Types, FeedEvent
<1>2. /\ Len(fsevents') = Len(fsevents) - 1 /\ Len(fsevents) \in Nat \ {0}
      /\ \A i \in 1..Len(fsevents') : fsevents'[i] = fsevents[i + 1]
      /\ Head(fsevents) = fsevents[1]
  BY <1>1, TailIsSeq
<1>3. Pending' = {debounced'} \cup {classify_event(fsevents'[i]) : i \in 1..Len(fsevents')}
  BY <1>1 DEF Pending, classify_event
<1>4. ASSUME NEW a \in Actions, a # Nothing, a \in Pending
      PROVE  a \in Pending' \/ All \in Pending'
  <2>1. CASE debounced = a
    <3>1. debounced' \in {a, All}
      BY <1>1, <1>4, <2>1 DEF merge
    <3> QED BY <1>3, <3>1
  <2>2. ASSUME NEW i \in 1..Len(fsevents), classify_event(fsevents[i]) = a
        PROVE  a \in Pending' \/ All \in Pending'
    <3>1. CASE i = 1
      <4>1. debounced' \in {a, All}
        BY <1>1, <1>2, <1>4, <2>2, <3>1 DEF merge
      <4> QED BY <1>3, <4>1
    <3>2. CASE i # 1
      <4>1. i - 1 \in 1..Len(fsevents') /\ fsevents'[i - 1] = fsevents[i]
        BY <1>2, <2>2, <3>2
      <4> QED BY <1>3, <2>2, <4>1
    <3> QED BY <3>1, <3>2
  <2> QED BY <1>4, <2>1, <2>2 DEF Pending
<1>5. All \in Actions /\ \A c \in Cwds : OfCwd(c) \in Actions
  BY DEF Actions
<1> QED BY <1>4, <1>5, ActionsDiffer

-----------------------------------------------------------------------------
(* FreshInv is inductive *)

LEMMA EventsAre ==
    ASSUME Types, NEW ev \in Events, fsevents' \in {fsevents, Append(fsevents, ev)}
    PROVE  \A i \in 1..Len(fsevents') :
              \/ fsevents' = Append(fsevents, ev) /\ fsevents'[i] = ev
              \/ i \in 1..Len(fsevents) /\ fsevents'[i] = fsevents[i]
<1>1. fsevents \in Seq(Events)
  BY DEF Types
<1>2. CASE fsevents' = Append(fsevents, ev)
  <2>1. ASSUME NEW i \in 1..Len(fsevents')
        PROVE  fsevents'[i] = ev \/ (i \in 1..Len(fsevents) /\ fsevents'[i] = fsevents[i])
    <3>1. i \in 1..Len(fsevents) \/ i = Len(fsevents) + 1
      BY <1>1, <1>2, AppendIsSeq
    <3> QED BY <1>1, <1>2, <3>1, AppendIsSeq
  <2> QED BY <1>2, <2>1
<1>3. CASE fsevents' = fsevents
  BY <1>3
<1> QED BY <1>2, <1>3

LEMMA EditsCatchUp ==
    ASSUME Types, WatchedDirsExist,
           \/ \E g \in Globals : EditGlobal(g)
           \/ \E c \in Cwds : EditProject(c) \/ CreateProjectDir(c) \/ TouchProject(c)
           \/ FeedEvent
    PROVE  CatchesUp /\ WatchedDirsExist' /\ UNCHANGED <<model_cache, cwd_cache, call>>
<1>0. /\ glob \in [Globals -> Nat] /\ proj \in [Cwds -> Nat] /\ watched \subseteq Globals
      /\ fsevents \in Seq(Events) /\ watch \in [Cwds -> Watches]
  BY DEF Types
<1>u. UNCHANGED <<watched, watch, model_cache, cwd_cache, call>>
  BY DEF EditGlobal, EditProject, CreateProjectDir, TouchProject, FeedEvent, cacheVars
<1>1. ASSUME NEW g \in Globals, EditGlobal(g) PROVE CatchesUp /\ WatchedDirsExist'
  <2> DEFINE ev == [path |-> g]
  <2>1. ev \in Events /\ ev.path = g /\ g # "config dir"
    BY <1>1 DEF Events, Globals
  <2>2. /\ fsevents' \in {fsevents, Append(fsevents, ev)} /\ UNCHANGED <<proj, watch, debounced>>
        /\ g \in watched => fsevents' = Append(fsevents, ev)
        /\ glob' = [glob EXCEPT ![g] = @ + 1]
    BY <1>1 DEF EditGlobal, Reported
  <2>3. classify_event(ev) = All
    BY <2>1 DEF classify_event
  <2> HIDE DEF ev
  <2>4. Pending \subseteq Pending' /\ (g \in watched => All \in Pending')
    BY <2>1, <2>2, <2>3, PendingGrows
  <2>5. CatchesUp
    BY <1>0, <1>u, <2>2, <2>4 DEF CatchesUp
  <2>6. WatchedDirsExist'
    <3>1. \A i \in 1..Len(fsevents') : fsevents'[i] = ev \/ (i \in 1..Len(fsevents) /\ fsevents'[i] = fsevents[i])
      BY <2>1, <2>2, EventsAre
    <3> QED BY <2>1, <2>2, <3>1 DEF WatchedDirsExist
  <2> QED BY <2>5, <2>6
<1>2. ASSUME NEW c \in Cwds, EditProject(c) \/ CreateProjectDir(c)
      PROVE  CatchesUp /\ WatchedDirsExist'
  <2> DEFINE ev == [path |-> "config dir", cwd |-> c]
  <2>1. ev \in Events /\ ev.path = "config dir" /\ ev.cwd = c
    BY <1>2 DEF Events
  <2>2. /\ fsevents' \in {fsevents, Append(fsevents, ev)} /\ UNCHANGED <<glob, watch, debounced>>
        /\ fsevents' = Append(fsevents, ev) => watch[c] # "no" \/ fsevents' = fsevents
        /\ watch[c] = "dir" => fsevents' = Append(fsevents, ev)
        /\ \E n \in Nat : n > 0 /\ proj' = [proj EXCEPT ![c] = n]
    <3>1. CASE EditProject(c)
      <4>1. proj' = [proj EXCEPT ![c] = proj[c] + 1]
        BY <3>1 DEF EditProject
      <4>2. /\ fsevents' = IF watch[c] = "dir" THEN Append(fsevents, ev) ELSE fsevents
            /\ UNCHANGED <<glob, watch, debounced>>
        BY <3>1 DEF EditProject, Reported
      <4>3. proj[c] \in Nat /\ proj[c] + 1 \in Nat /\ proj[c] + 1 > 0
        <5>1. proj[c] \in Nat
          BY <1>0, <1>2
        <5> QED BY <5>1
      <4> HIDE DEF ev
      <4> QED BY <4>1, <4>2, <4>3
    <3>2. CASE CreateProjectDir(c)
      <4>1. proj' = [proj EXCEPT ![c] = 1] /\ proj[c] = 0
        BY <3>2 DEF CreateProjectDir
      <4>2. /\ fsevents' = IF watch[c] = "parent" THEN Append(fsevents, ev) ELSE fsevents
            /\ UNCHANGED <<glob, watch, debounced>>
        BY <3>2 DEF CreateProjectDir, Reported
      <4>3. watch[c] # "dir" /\ 1 \in Nat /\ 1 > 0
        <5>1. proj[c] \in Nat /\ ~(proj[c] > 0)
          BY <1>0, <1>2, <4>1
        <5>2. watch[c] # "dir"
          BY <1>2, <5>1 DEF WatchedDirsExist
        <5> QED BY <5>2
      <4> HIDE DEF ev
      <4> QED BY <4>1, <4>2, <4>3
    <3> QED BY <1>2, <3>1, <3>2
  <2>3. watch[c] # "no" => classify_event(ev) = OfCwd(c)
    BY <2>1 DEF classify_event
  <2> HIDE DEF ev
  <2>4. Pending \subseteq Pending' /\ (watch[c] = "dir" => OfCwd(c) \in Pending')
    BY <2>1, <2>2, <2>3, PendingGrows
  <2>5. \A d \in Cwds : d # c => proj'[d] = proj[d]
    BY <1>0, <2>2
  <2>6. CatchesUp
    BY <1>0, <1>u, <2>2, <2>4, <2>5 DEF CatchesUp
  <2>7. WatchedDirsExist'
    <3>1. \A i \in 1..Len(fsevents') :
             \/ fsevents'[i] = ev /\ watch[c] # "no"
             \/ i \in 1..Len(fsevents) /\ fsevents'[i] = fsevents[i]
      <4>1. CASE fsevents' = fsevents
        BY <4>1
      <4>2. CASE fsevents' # fsevents
        BY <2>1, <2>2, <4>2, EventsAre
      <4> QED BY <4>1, <4>2
    <3>2. \A d \in Cwds : watch'[d] = "dir" => proj'[d] > 0
      BY <1>0, <1>2, <2>2, <2>5 DEF WatchedDirsExist
    <3> QED BY <2>1, <2>2, <3>1, <3>2 DEF WatchedDirsExist
  <2> QED BY <2>6, <2>7
<1>3. ASSUME NEW c \in Cwds, TouchProject(c) PROVE CatchesUp /\ WatchedDirsExist'
  <2> DEFINE ev == [path |-> "project"]
  <2>1. ev \in Events /\ ev.path = "project"
    BY DEF Events
  <2>2. fsevents' = Append(fsevents, ev) /\ UNCHANGED <<glob, proj, watch, debounced>>
    BY <1>3 DEF TouchProject, Reported
  <2> HIDE DEF ev
  <2>3. Pending \subseteq Pending'
    BY <2>1, <2>2, PendingGrows
  <2>4. CatchesUp
    BY <1>u, <2>2, <2>3 DEF CatchesUp
  <2>5. WatchedDirsExist'
    <3>1. \A i \in 1..Len(fsevents') : fsevents'[i] = ev \/ (i \in 1..Len(fsevents) /\ fsevents'[i] = fsevents[i])
      BY <2>1, <2>2, EventsAre
    <3> QED BY <2>1, <2>2, <3>1 DEF WatchedDirsExist
  <2> QED BY <2>4, <2>5
<1>4. CASE FeedEvent
  <2>1. UNCHANGED <<glob, proj>> /\ fsevents' = Tail(fsevents) /\ fsevents # <<>>
    BY <1>4 DEF FeedEvent, inputVars
  <2>2. CatchesUp
    BY <1>4, <1>u, <2>1, FeedKeepsComing DEF CatchesUp
  <2>3. \A i \in 1..Len(fsevents') : i + 1 \in 1..Len(fsevents) /\ fsevents'[i] = fsevents[i + 1]
    BY <1>0, <2>1, TailIsSeq
  <2>4. WatchedDirsExist'
    BY <1>u, <2>1, <2>3 DEF WatchedDirsExist
  <2> QED BY <1>u, <2>2, <2>4
<1> QED BY <1>u, <1>1, <1>2, <1>3, <1>4

\* While the caches and the calls stay, they stay fresh.
LEMMA FreshWhileStill ==
    ASSUME FreshInv, CatchesUp, Types', UNCHANGED <<model_cache, cwd_cache, call>>
    PROVE  CachesFresh' /\ ReadsFresh'
<1>0. /\ CachesFresh /\ ReadsFresh
      /\ \A k \in Callers : Held(k) /\ call[k].req \in Lists => call[k].cwd \in Cwds
  BY DoingsPc DEF FreshInv, Types, Held, Reading, Lists
<1>1. /\ \A v : GlobalsFreshIn(v, glob, watched, Pending) => GlobalsFreshIn(v, glob', watched', Pending')
      /\ \A v : \A c \in Cwds : ProjectFreshIn(v, c, proj, watch, Pending)
           => ProjectFreshIn(v, c, proj', watch', Pending')
  BY FreshStays
<1>2. CachesFresh'
  BY <1>0, <1>1 DEF CachesFresh, GlobalsFresh, ProjectFresh
<1>3. ReadsFresh'
  BY <1>0, <1>1 DEF ReadsFresh, Held, GlobalsFresh, ProjectFresh
<1> QED BY <1>2, <1>3

\* An invalidation leaves what it does not cover, with what is still to come.
LEMMA FreshWhenInvalidated ==
    ASSUME FreshInv, NEW a \in Actions, invalidate(a), UNCHANGED <<glob, proj, watched, watch, fsevents>>,
           debounced' = debounced \/ (debounced' = Nothing /\ a = debounced)
    PROVE  CachesFresh' /\ ReadsFresh' /\ WatchedDirsExist'
<1>0. /\ Types /\ CachesFresh /\ ReadsFresh /\ WatchedDirsExist /\ call \in [Callers -> Doings]
      /\ call' = Overrun(a)
  BY DEF FreshInv, Types, invalidate
<1>1. \A p \in Pending : p = a \/ p \in Pending'
  <2>1. Pending' = {debounced'} \cup {classify_event(fsevents[i]) : i \in 1..Len(fsevents)}
    BY DEF Pending, classify_event
  <2> QED BY <2>1 DEF Pending
<1>2. ASSUME NEW k \in Callers, Held(k)'
      PROVE  call'[k] = call[k] /\ ~Covers(a, call[k].req, call[k].cwd) /\ Held(k)
             /\ (call[k].req \in Lists => call[k].cwd \in Cwds)
  <2>1. call'[k].pc = call[k].pc /\ call'[k].pc \in {"diagnose", "store", "cat"} /\ ~call'[k].read.late
    BY <1>0, <1>2, OverrunKeeps DEF Held
  <2>2. call'[k] = call[k] /\ ~Covers(a, call[k].req, call[k].cwd)
    BY <1>0, <2>1, OverrunKeeps
  <2>3. call[k].req \in Lists => call[k].cwd \in Cwds
    BY <1>0, <2>1, DoingsPc DEF Reading, Lists
  <2> QED BY <2>1, <2>2, <2>3 DEF Held
<1>3. ASSUME NEW v, NEW c \in Cwds, a # All
      PROVE  /\ GlobalsFreshIn(v, glob, watched, Pending) => GlobalsFreshIn(v, glob', watched', Pending')
             /\ a # OfCwd(c) /\ ProjectFreshIn(v, c, proj, watch, Pending)
                   => ProjectFreshIn(v, c, proj', watch', Pending')
  BY <1>1, <1>3 DEF GlobalsFreshIn, ProjectFreshIn
<1>4. ASSUME NEW v, a # All
      PROVE  GlobalsFreshIn(v, glob, watched, Pending) => GlobalsFreshIn(v, glob', watched', Pending')
  BY <1>1, <1>4 DEF GlobalsFreshIn
<1>5. /\ a = All => \A r, c : Covers(a, r, c)
      /\ \A r \in Lists, c \in Cwds : a = OfCwd(c) => Covers(a, r, c)
  BY ActionsDiffer DEF Covers, Lists
<1>6. CachesFresh'
  <2>1. model_cache' # NotCached => model_cache' = model_cache /\ a # All
    BY ActionsDiffer DEF invalidate
  <2>2. ASSUME NEW l \in Lists, NEW c \in Cwds, cwd_cache'[<<l, c>>] # NotCached
        PROVE  cwd_cache'[<<l, c>>] = cwd_cache[<<l, c>>] /\ a # All /\ a # OfCwd(c)
    <3>1. <<l, c>> \in Lists \X Cwds /\ <<l, c>>[1] = l /\ <<l, c>>[2] = c
      BY <2>2
    <3>2. cwd_cache'[<<l, c>>] = IF Covers(a, l, c) THEN NotCached ELSE cwd_cache[<<l, c>>]
      BY <3>1 DEF invalidate
    <3>3. ~Covers(a, l, c)
      BY <2>2, <3>2
    <3> QED BY <1>5, <2>2, <3>2, <3>3
  <2> QED BY <1>0, <1>3, <1>4, <2>1, <2>2 DEF CachesFresh, GlobalsFresh, ProjectFresh
<1>7. ReadsFresh'
  <2>1. ASSUME NEW k \in Callers, Held(k)'
        PROVE  GlobalsFresh(call[k].read)' /\ (call[k].req \in Lists => ProjectFresh(call[k].read, call[k].cwd)')
    <3>1. call'[k] = call[k] /\ a # All /\ Held(k)
          /\ (call[k].req \in Lists => call[k].cwd \in Cwds /\ a # OfCwd(call[k].cwd))
      BY <1>2, <1>5, <2>1
    <3>2. /\ GlobalsFreshIn(call[k].read, glob, watched, Pending)
          /\ call[k].req \in Lists => ProjectFreshIn(call[k].read, call[k].cwd, proj, watch, Pending)
      BY <1>0, <2>1, <3>1 DEF ReadsFresh, GlobalsFresh, ProjectFresh
    <3> QED BY <1>3, <1>4, <3>1, <3>2 DEF GlobalsFresh, ProjectFresh
  <2>2. \A k \in Callers : Held(k)' => call'[k] = call[k]
    BY <1>2
  <2> QED BY <2>1, <2>2 DEF ReadsFresh, GlobalsFresh, ProjectFresh
<1>8. WatchedDirsExist'
  BY <1>0 DEF WatchedDirsExist
<1> QED BY <1>6, <1>7, <1>8

\* A project is put under watch once, as a directory only if it is there.
LEMMA PlainWatch ==
    ASSUME Types, WatchedDirsExist, NEW k \in Callers, Plain(k)
    PROVE  /\ \A c \in Cwds : watch'[c] = watch[c]
                              \/ (watch[c] = "no" /\ watch'[c] # "no" /\ (watch'[c] = "dir" => proj[c] > 0))
           /\ (\E out \in Outputs \cup {"no spawn"} : RunModels(k, out) \/ RunForCwd(k, out)) => watch' = watch
<1>0. watch \in [Cwds -> Watches]
  BY DEF Types
<1>1. ASSUME NEW l \in Lists, NEW e \in Cwds, NEW accepted \in BOOLEAN, ListForCwd(k, l, e, accepted)
      PROVE  \A c \in Cwds : watch'[c] = watch[c]
                  \/ (watch[c] = "no" /\ watch'[c] # "no" /\ (watch'[c] = "dir" => proj[c] > 0))
  <2>1. \/ watch' = watch
        \/ watch[e] = "no" /\ proj[e] > 0 /\ watch' = [watch EXCEPT ![e] = "dir"]
        \/ watch[e] = "no" /\ watch' = [watch EXCEPT ![e] = "parent"]
    BY <1>1 DEF ListForCwd, register_project_config
  <2> QED BY <1>0, <1>1, <2>1
<1>2. watch' = watch \/ \E l \in Lists, e \in Cwds, accepted \in BOOLEAN : ListForCwd(k, l, e, accepted)
  BY DEF Plain, ListModels, CheckCache, Diagnose, StoreModels, CatFacets, StoreForCwd, RunModels, RunForCwd, watchVars
<1>3. (\E out \in Outputs \cup {"no spawn"} : RunModels(k, out) \/ RunForCwd(k, out)) => watch' = watch
  BY DEF RunModels, RunForCwd, watchVars
<1> QED BY <1>1, <1>2, <1>3

\* What is stored is what the call held.
LEMMA PlainStores ==
    ASSUME Types, NEW k \in Callers, Plain(k)
    PROVE  /\ model_cache' = model_cache
              \/ (call[k].pc = "store" /\ call[k].req = "models" /\ model_cache' = call[k].read)
           /\ \A l \in Lists, c \in Cwds : cwd_cache'[<<l, c>>] = cwd_cache[<<l, c>>]
              \/ (/\ call[k].pc = "store" /\ call[k].req = l /\ call[k].cwd = c
                  /\ cwd_cache'[<<l, c>>] = call[k].read)
<1>0. cwd_cache \in [Lists \X Cwds -> Catalogues \cup {NotCached}] /\ call[k] \in Doings
  BY DEF Types
<1>1. CASE StoreModels(k)
  BY <1>1 DEF StoreModels
<1>2. CASE StoreForCwd(k)
  <2>1. call[k].pc = "store" /\ call[k].req \in Lists /\ UNCHANGED model_cache
        /\ cwd_cache' = [cwd_cache EXCEPT ![<<call[k].req, call[k].cwd>>] = call[k].read]
    BY <1>2 DEF StoreForCwd
  <2>2. ASSUME NEW l \in Lists, NEW c \in Cwds
        PROVE  \/ cwd_cache'[<<l, c>>] = cwd_cache[<<l, c>>]
               \/ call[k].req = l /\ call[k].cwd = c /\ cwd_cache'[<<l, c>>] = call[k].read
    <3>1. CASE <<l, c>> = <<call[k].req, call[k].cwd>>
      <4>1. <<l, c>> \in Lists \X Cwds /\ call[k].req = l /\ call[k].cwd = c
        BY <2>2, <3>1
      <4> QED BY <1>0, <2>1, <4>1
    <3>2. CASE <<l, c>> # <<call[k].req, call[k].cwd>>
      <4>1. <<l, c>> \in Lists \X Cwds
        BY <2>2
      <4> QED BY <1>0, <2>1, <3>2, <4>1
    <3> QED BY <3>1, <3>2
  <2> QED BY <2>1, <2>2
<1>3. CASE ~StoreModels(k) /\ ~StoreForCwd(k)
  BY <1>3 DEF Plain, ListModels, CheckCache, Diagnose, CatFacets, RunModels, RunForCwd, ListForCwd, cacheVars
<1> QED BY <1>1, <1>2, <1>3

\* A caller that goes on holds what it held, or what is so now.
LEMMA FreshMove ==
    ASSUME FreshInv, NEW k \in Callers, Plain(k)
    PROVE  CachesFresh' /\ ReadsFresh' /\ WatchedDirsExist'
<1>0. Types /\ CachesFresh /\ ReadsFresh /\ WatchedDirsExist /\ call \in [Callers -> Doings]
  BY DEF FreshInv, Types
<1>1. UNCHANGED <<glob, proj, watched, fsevents, debounced>>
  BY <1>0, PlainTypes
<1>2. \A c \in Cwds : watch'[c] = watch[c]
                      \/ (watch[c] = "no" /\ watch'[c] # "no" /\ (watch'[c] = "dir" => proj[c] > 0))
  BY <1>0, PlainWatch
<1>3. Pending' = Pending
  BY <1>0, <1>1, <1>2, WatchingKeepsPending
<1>4. CatchesUp
  BY <1>1, <1>2, <1>3 DEF CatchesUp
<1>5. /\ \A v : GlobalsFreshIn(v, glob, watched, Pending) => GlobalsFreshIn(v, glob', watched', Pending')
      /\ \A v : \A c \in Cwds : ProjectFreshIn(v, c, proj, watch, Pending)
           => ProjectFreshIn(v, c, proj', watch', Pending')
  BY <1>4, FreshStays
<1>6. ASSUME NEW m \in Callers, Held(m)
      PROVE  /\ GlobalsFreshIn(call[m].read, glob', watched', Pending')
             /\ call[m].req \in Lists => /\ call[m].cwd \in Cwds
                                         /\ ProjectFreshIn(call[m].read, call[m].cwd, proj', watch', Pending')
  <2>1. call[m].req \in Lists => call[m].cwd \in Cwds
    BY <1>0, <1>6, DoingsPc DEF Held, Reading, Lists
  <2>2. /\ GlobalsFreshIn(call[m].read, glob, watched, Pending)
        /\ call[m].req \in Lists => ProjectFreshIn(call[m].read, call[m].cwd, proj, watch, Pending)
    BY <1>0, <1>6 DEF ReadsFresh, GlobalsFresh, ProjectFresh
  <2> QED BY <1>5, <2>1, <2>2
<1>7. CachesFresh'
  <2>1. model_cache' # NotCached /\ ~model_cache'.late => GlobalsFreshIn(model_cache', glob', watched', Pending')
    <3>1. CASE model_cache' = model_cache
      BY <1>0, <1>5, <3>1 DEF CachesFresh, GlobalsFresh
    <3>2. CASE call[k].pc = "store" /\ call[k].req = "models" /\ model_cache' = call[k].read
      BY <1>6, <3>2 DEF Held
    <3> QED BY <1>0, <3>1, <3>2, PlainStores
  <2>2. ASSUME NEW l \in Lists, NEW c \in Cwds, cwd_cache'[<<l, c>>] # NotCached, ~cwd_cache'[<<l, c>>].late
        PROVE  /\ GlobalsFreshIn(cwd_cache'[<<l, c>>], glob', watched', Pending')
               /\ ProjectFreshIn(cwd_cache'[<<l, c>>], c, proj', watch', Pending')
    <3>1. CASE cwd_cache'[<<l, c>>] = cwd_cache[<<l, c>>]
      <4>1. /\ GlobalsFreshIn(cwd_cache[<<l, c>>], glob, watched, Pending)
            /\ ProjectFreshIn(cwd_cache[<<l, c>>], c, proj, watch, Pending)
        BY <1>0, <2>2, <3>1 DEF CachesFresh, GlobalsFresh, ProjectFresh
      <4> QED BY <1>5, <2>2, <3>1, <4>1
    <3>2. CASE call[k].pc = "store" /\ call[k].req = l /\ call[k].cwd = c /\ cwd_cache'[<<l, c>>] = call[k].read
      BY <1>6, <2>2, <3>2 DEF Held
    <3> QED BY <1>0, <2>2, <3>1, <3>2, PlainStores
  <2> QED BY <2>1, <2>2 DEF CachesFresh, GlobalsFresh, ProjectFresh
<1>8. ReadsFresh'
  <2>1. PICK d : GoesOn(k, d)
    BY <1>0, PlainMoves DEF PlainlyGoesOn
  <2>2. call'[k] = d /\ \A m \in Callers : m # k => call'[m] = call[m]
    BY <1>0, <2>1 DEF GoesOn
  <2>3. ASSUME Held(k)'
        PROVE  /\ GlobalsFreshIn(d.read, glob', watched', Pending')
               /\ d.req \in Lists => ProjectFreshIn(d.read, d.cwd, proj', watch', Pending')
    <3>1. d.pc \in {"diagnose", "store", "cat"} /\ ~d.read.late
      BY <2>2, <2>3 DEF Held
    <3>2. CASE Carries(k, d)
      BY <1>6, <3>1, <3>2 DEF Carries, Held
    <3>3. CASE HasRead(d)
      <4>1. GlobalsFreshIn(d.read, glob, watched, Pending)
        BY <3>3 DEF HasRead, GlobalsFreshIn
      <4>2. d.req \in Lists => d.cwd \in Cwds /\ ProjectFreshIn(d.read, d.cwd, proj, watch, Pending)
        BY <3>3 DEF HasRead, ProjectFreshIn
      <4> QED BY <1>5, <4>1, <4>2
    <3> QED BY <2>1, <3>1, <3>2, <3>3 DEF GoesOn
  <2>4. ASSUME NEW m \in Callers, Held(m)'
        PROVE  /\ GlobalsFreshIn(call'[m].read, glob', watched', Pending')
               /\ call'[m].req \in Lists => ProjectFreshIn(call'[m].read, call'[m].cwd, proj', watch', Pending')
    <3>1. CASE m = k
      BY <2>2, <2>3, <2>4, <3>1
    <3>2. CASE m # k
      <4>1. call'[m] = call[m] /\ Held(m)
        BY <2>2, <2>4, <3>2 DEF Held
      <4> QED BY <1>6, <2>4, <4>1
    <3> QED BY <3>1, <3>2
  <2> QED BY <2>4 DEF ReadsFresh, GlobalsFresh, ProjectFresh
<1>9. WatchedDirsExist'
  <2>0. \A i \in 1..Len(fsevents) : fsevents[i] \in Events
    <3>1. fsevents \in Seq(Events)
      BY <1>0 DEF Types
    <3> QED BY <3>1
  <2>1. \A c \in Cwds : watch'[c] = "dir" => proj'[c] > 0
    BY <1>0, <1>1, <1>2 DEF WatchedDirsExist
  <2>2. ASSUME NEW i \in 1..Len(fsevents), fsevents[i].path = "config dir"
        PROVE  watch'[fsevents[i].cwd] # "no"
    <3>1. fsevents[i] \in Events
      BY <2>2, <2>0
    <3>2. fsevents[i].cwd \in Cwds
      BY <2>2, <3>1 DEF Events, Globals
    <3> QED BY <1>0, <1>2, <2>2, <3>2 DEF WatchedDirsExist
  <2> QED BY <1>1, <2>1, <2>2 DEF WatchedDirsExist
<1> QED BY <1>7, <1>8, <1>9

\* The baton is passed by callers that hold nothing.
LEMMA BatonFresh ==
    ASSUME FlightInv, FreshInv, NEW k \in Callers, Baton(k)
    PROVE  CachesFresh' /\ ReadsFresh' /\ WatchedDirsExist'
<1>0. /\ Types /\ CachesFresh /\ ReadsFresh /\ WatchedDirsExist /\ call \in [Callers -> Doings]
      /\ waiters \in Seq(Callers)
  BY DEF FreshInv, Types
<1>1. UNCHANGED <<inputVars, watchVars, cacheVars>>
  BY BatonFlight
<1>2. \A m \in Callers : call'[m] = call[m] \/ call'[m].pc \in {"idle", "check", "run", "await", "notify", "woken", "asleep"}
  <2>0. /\ Idle.pc = "idle"
        /\ \A at \in {"check", "elect", "run", "await", "asleep", "woken", "notify"} : At(at).pc = at
    BY AtDoings DEF Idle
  <2>1. CASE Elect(k) \/ ClearFetching(k) \/ Await(k)
    <3>1. PICK at \in {"run", "await", "notify", "woken", "asleep"} : call' = [call EXCEPT ![k] = At(at)]
      BY <2>1 DEF Elect, ClearFetching, Await
    <3> QED BY <1>0, <2>0, <3>1
  <2>2. CASE FetcherNotifies(k) \/ PassBaton(k)
    <3>1. PICK d \in {Idle, At("check")} : notify_one(k, d)
      BY <2>2 DEF FetcherNotifies, PassBaton
    <3>2. d.pc \in {"idle", "check"} /\ At("woken").pc = "woken"
      BY <2>0, <3>1
    <3>3. CASE waiters = <<>>
      <4>1. call' = [call EXCEPT ![k] = d]
        BY <3>1, <3>3 DEF notify_one
      <4> QED BY <1>0, <3>2, <4>1
    <3>4. CASE waiters # <<>>
      <4> DEFINE h == Head(waiters)
      <4>1. call' = [call EXCEPT ![k] = d, ![h] = At("woken")]
        BY <3>1, <3>4 DEF notify_one
      <4>2. h \in Callers
        BY <1>0, <3>4, TailIsSeq
      <4> HIDE DEF h
      <4> QED BY <1>0, <3>2, <4>1, <4>2
    <3> QED BY <3>3, <3>4
  <2> QED BY <2>1, <2>2 DEF Baton
<1>3. CachesFresh' /\ WatchedDirsExist' /\ Pending' = Pending
  BY <1>0, <1>1 DEF CachesFresh, WatchedDirsExist, GlobalsFresh, ProjectFresh, Pending, classify_event,
                    inputVars, watchVars, cacheVars
<1>4. ReadsFresh'
  <2>1. \A m \in Callers : Held(m)' => call'[m] = call[m] /\ Held(m)
    BY <1>2 DEF Held
  <2> QED BY <1>0, <1>1, <1>3, <2>1 DEF ReadsFresh, GlobalsFresh, ProjectFresh, inputVars, watchVars
<1> QED BY <1>3, <1>4

LEMMA FreshStep ==
    ASSUME FlightInv, FreshInv, [CachesNext]_cachesVars
    PROVE  FlightInv' /\ FreshInv'
<1>1. FlightInv'
  BY FlightStep
<1>2. Types' /\ Types /\ WatchedDirsExist
  BY <1>1 DEF FlightInv, FreshInv
<1>3. CASE World
  <2>1. CASE DaemonReload
    <3>1. All \in Actions
      BY DEF Actions
    <3>2. invalidate(All) /\ UNCHANGED <<glob, proj, watched, watch, fsevents, debounced>>
      BY <2>1 DEF DaemonReload, watchVars
    <3> QED BY <1>1, <1>2, <3>1, <3>2, FreshWhenInvalidated DEF FreshInv
  <2>2. CASE Debounced
    <3>1. debounced \in Actions
      BY <1>2 DEF Types
    <3>2. invalidate(debounced) /\ UNCHANGED <<glob, proj, watched, watch, fsevents>> /\ debounced' = Nothing
      BY <2>2 DEF Debounced, inputVars
    <3> QED BY <1>1, <1>2, <3>1, <3>2, FreshWhenInvalidated DEF FreshInv
  <2>3. CASE \/ \E g \in Globals : EditGlobal(g)
             \/ \E c \in Cwds : EditProject(c) \/ CreateProjectDir(c) \/ TouchProject(c)
             \/ FeedEvent
    <3>1. CatchesUp /\ WatchedDirsExist' /\ UNCHANGED <<model_cache, cwd_cache, call>>
      BY <1>2, <2>3, EditsCatchUp
    <3> QED BY <1>1, <1>2, <3>1, FreshWhileStill DEF FreshInv
  <2> QED BY <1>3, <2>1, <2>2, <2>3 DEF World
<1>4. ASSUME NEW k \in Callers, Plain(k) PROVE FreshInv'
  BY <1>2, <1>4, FreshMove DEF FreshInv
<1>5. ASSUME NEW k \in Callers, Baton(k) PROVE FreshInv'
  BY <1>2, <1>5, BatonFresh DEF FreshInv
<1>6. CASE UNCHANGED cachesVars
  <2>1. UNCHANGED <<glob, proj, watched, watch, fsevents, debounced, model_cache, cwd_cache, call>>
    BY <1>6 DEF cachesVars, inputVars, watchVars, cacheVars
  <2>2. Pending' = Pending
    BY <2>1 DEF Pending, classify_event
  <2>3. CatchesUp
    BY <2>1, <2>2 DEF CatchesUp
  <2>4. WatchedDirsExist'
    BY <1>2, <2>1 DEF WatchedDirsExist
  <2> QED BY <1>1, <1>2, <2>1, <2>3, <2>4, FreshWhileStill DEF FreshInv
<1> QED BY <1>1, <1>3, <1>4, <1>5, <1>6, StepIs

LEMMA InitIsFresh == CachesInit => FreshInv
<1> SUFFICES ASSUME CachesInit PROVE FreshInv
  OBVIOUS
<1>1. Types
  BY InitIsFlight DEF FlightInv
<1>2. WatchedDirsExist
  BY DEF CachesInit, WatchedDirsExist
<1>3. CachesFresh
  <2>1. ASSUME NEW l \in Lists, NEW c \in Cwds PROVE cwd_cache[<<l, c>>] = NotCached
    <3>1. <<l, c>> \in Lists \X Cwds /\ cwd_cache = [x \in Lists \X Cwds |-> NotCached]
      BY <2>1 DEF CachesInit
    <3> QED BY <3>1
  <2>2. model_cache = NotCached
    BY DEF CachesInit
  <2> QED BY <2>1, <2>2 DEF CachesFresh
<1>4. ReadsFresh
  <2>1. \A k \in Callers : ~Held(k)
    BY DEF CachesInit, Held, Idle
  <2> QED BY <2>1 DEF ReadsFresh
<1> QED BY <1>1, <1>2, <1>3, <1>4 DEF FreshInv

LEMMA FreshIsSettled == FreshInv => SettledCachesAreFresh
<1> SUFFICES ASSUME FreshInv, WatcherQuiet PROVE SettledCachesAreFresh
  BY DEF SettledCachesAreFresh
<1>1. All \notin Pending /\ \A c : OfCwd(c) \notin Pending
  BY ActionsDiffer DEF Pending, WatcherQuiet
<1> QED BY <1>1 DEF FreshInv, CachesFresh, GlobalsFresh, ProjectFresh, GlobalsFreshIn, ProjectFreshIn,
                    SettledCachesAreFresh, GlobalsCurrent

(***************************************************************************)
(* config_watcher.rs: once the watcher has nothing left to do, what is     *)
(* cached is what its watched inputs say now, unless it was being read     *)
(* while its invalidation ran.                                             *)
(***************************************************************************)
THEOREM SettledCachesCorrect == CachesSpec => []SettledCachesAreFresh
<1>1. CachesInit => FlightInv /\ FreshInv
  BY InitIsFlight, InitIsFresh
<1>2. FlightInv /\ FreshInv /\ [CachesNext]_cachesVars => (FlightInv /\ FreshInv)'
  BY FreshStep
<1>3. CachesSpec => [](FlightInv /\ FreshInv)
  BY <1>1, <1>2, PTL DEF CachesSpec
<1> QED BY <1>3, FreshIsSettled, PTL

-----------------------------------------------------------------------------
(* SessionActions: the permission badge *)

\* The entry i of the stream tells of a permission mode.
ModeAt(i) == i \in DOMAIN chan /\ chan[i].k = "mode"
\* No mode is on its way to the driver.
NoModeComing == \A i \in DOMAIN chan : chan[i].k # "mode"

\* What the stream carries, what the event consumer owes, and where the driver's call is.
StreamEvents == [k : {"mode"}, v : Modes] \cup [k : {"model"}, v : ModelNames \cup {Unset}] \cup [k : {"turn", "gap"}]
Effects == [k : {"none", "fetch_state", "reseed", "emit"}] \cup [k : {"set_mode"}, v : Modes]
DriverCalls == [k : {"cold", "ask_mode", "picks", "pick_mode", "seed", "none"}]
         \cup [k : {"cache_mode"}, v : Modes, then : {"picks", "seed"}]
         \cup [k : {"history"}, s : [mode : Modes \cup {Unset}, model : ModelNames \cup {Unset}]]

\* Why the mode may be wrong.
Reasons == {"gap", "overtaken", "seeded", "dropped"}

\* The types of the variables the argument is about; without a journal nothing is shown.
ActionsTypes ==
    /\ settings \in [mode : Modes, model : ModelNames]
    /\ link \in BOOLEAN /\ journal \in BOOLEAN
    /\ chan \in Seq(StreamEvents)
    /\ effect \in Effects /\ driverCall \in DriverCalls
    /\ monitor_mode \in Modes \cup {Unset} /\ active_model \in ModelNames \cup {Unset}
    /\ shown.mode \in Modes \cup {Unset} /\ (~journal => shown.mode = Unset)
    /\ (journal => driverCall.k \in {"none", "seed", "history"})
    /\ missed \subseteq Reasons

\* Every mode in flight, cached or shown is one the daemon was in.
ModesAreReal ==
    /\ settings.mode \in was
    /\ \A i \in DOMAIN chan : chan[i].k = "mode" => chan[i].v \in was
    /\ effect.k = "set_mode" => effect.v \in was
    /\ driverCall.k = "cache_mode" => driverCall.v \in was
    /\ driverCall.k = "history" => driverCall.s.mode \in was \cup {Unset}
    /\ monitor_mode \in was \cup {Unset}
    /\ shown.mode \in was \cup {Unset}

\* Unless an event was lost, the last mode on its way is the daemon's.
LastEventIsRight ==
    "gap" \notin missed =>
        \A i \in DOMAIN chan :
           chan[i].k = "mode" /\ (\A j \in DOMAIN chan : j > i => chan[j].k # "mode") => chan[i].v = settings.mode

\* A mode read off the stream and not yet stored is the daemon's, if no other follows.
EffectIsRight == "gap" \notin missed /\ NoModeComing /\ effect.k = "set_mode" => effect.v = settings.mode

\* So is an answer about to be cached, unless a later event overtook it.
AnswerIsRight ==
    missed \cap {"gap", "overtaken"} = {} /\ NoModeComing /\ effect.k # "set_mode" /\ driverCall.k = "cache_mode"
       => driverCall.v = settings.mode

\* And what the driver has cached, with nothing in between,
CacheIsRight ==
    missed \cap {"gap", "overtaken"} = {} /\ NoModeComing /\ effect.k # "set_mode" /\ driverCall.k # "cache_mode"
       => monitor_mode \in {settings.mode, Unset}

\* what a seed on its way says,
SeedIsRight ==
    missed = {} /\ NoModeComing /\ driverCall.k = "history" => driverCall.s.mode \in {settings.mode, Unset}

\* and what is on the screen.
ShownIsRight == missed = {} /\ NoModeComing => shown.mode \in {settings.mode, Unset}

BadgeInv ==
    /\ ActionsTypes /\ ModesAreReal
    /\ LastEventIsRight /\ EffectIsRight /\ AnswerIsRight /\ CacheIsRight /\ SeedIsRight /\ ShownIsRight

\* An event that joins the stream leaves the earlier ones in their place.
LEMMA AddedEvent ==
    ASSUME NEW ev \in StreamEvents, chan \in Seq(StreamEvents)
    PROVE  /\ Append(chan, ev) \in Seq(StreamEvents)
           /\ DOMAIN Append(chan, ev) = 1 .. Len(chan) + 1 /\ DOMAIN chan = 1 .. Len(chan)
           /\ Len(chan) \in Nat
           /\ \A i \in DOMAIN chan : Append(chan, ev)[i] = chan[i]
           /\ Append(chan, ev)[Len(chan) + 1] = ev
OBVIOUS

\* The values of a setting.
Settings(setting) == IF setting = "mode" THEN Modes ELSE ModelNames

\* A switch is announced when the stream is up, and missed when it is not.
LEMMA SetChan ==
    ASSUME ActionsTypes, NEW setting \in {"mode", "model"}, NEW v \in Settings(setting), Takes(setting, v)
    PROVE  /\ chan' \in Seq(StreamEvents)
           /\ link /\ NoModeComing' => NoModeComing /\ setting # "mode"
           /\ ~link => chan' = chan /\ (setting = "mode" => "gap" \in missed')
           /\ \A i \in DOMAIN chan' :
                 \/ i \in DOMAIN chan /\ chan'[i] = chan[i]
                 \/ chan'[i] = [k |-> setting, v |-> v]
<1> DEFINE ev == [k |-> setting, v |-> v]
<1>1. ev \in StreamEvents
  BY DEF StreamEvents, Settings
<1>2. CASE link
  <2>1. chan' = Append(chan, ev)
    BY <1>2 DEF Takes, Announce
  <2>2. chan \in Seq(StreamEvents)
    BY DEF ActionsTypes
  <2> HIDE DEF ev
  <2>3. /\ chan' \in Seq(StreamEvents) /\ DOMAIN chan' = 1 .. Len(chan) + 1 /\ DOMAIN chan = 1 .. Len(chan)
        /\ Len(chan) \in Nat /\ \A i \in DOMAIN chan : chan'[i] = chan[i]
        /\ chan'[Len(chan) + 1] = ev
    BY <1>1, <2>1, <2>2, AddedEvent
  <2>4. NoModeComing' => NoModeComing /\ setting # "mode"
    <3>1. ev.k = setting
      BY DEF ev
    <3> QED BY <2>3, <3>1 DEF NoModeComing
  <2> QED BY <1>2, <2>3, <2>4 DEF ev
<1>3. CASE ~link
  BY <1>3 DEF Takes, Announce, ActionsTypes
<1> QED BY <1>2, <1>3

\* Where a switch or a refused one leaves the driver's call.
CallMoves ==
    \/ driverCall' = driverCall
    \/ driverCall.k \in {"picks", "pick_mode"} /\ (driverCall' = [k |-> "pick_mode"] \/ driverCall' = [k |-> "seed"])

\* The daemon switches, for the driver's own call or for somebody else.
LEMMA SetKeeps ==
    ASSUME BadgeInv, NEW setting \in {"mode", "model"}, NEW v \in Settings(setting), Takes(setting, v),
           \/ CallMoves
           \/ setting = "mode" /\ driverCall.k \in {"picks", "pick_mode"}
              /\ driverCall' = [k |-> "cache_mode", v |-> v, then |-> "seed"],
           UNCHANGED <<link, effect, cachedVars, screenVars>>
    PROVE  BadgeInv'
<1> USE DEF BadgeInv
<1>1. ActionsTypes'
  <2>1. driverCall' \in DriverCalls
    <3>1. CASE driverCall' = driverCall
      BY <3>1 DEF ActionsTypes
    <3>2. CASE (driverCall' = [k |-> "pick_mode"] \/ driverCall' = [k |-> "seed"])
      BY <3>2 DEF DriverCalls
    <3>3. CASE setting = "mode" /\ driverCall' = [k |-> "cache_mode", v |-> v, then |-> "seed"]
      <4>1. v \in Modes
        BY <3>3 DEF Settings
      <4> QED BY <4>1, <3>3 DEF DriverCalls
    <3> QED BY <3>1, <3>2, <3>3 DEF CallMoves
  <2>2. settings' \in [mode : Modes, model : ModelNames]
    BY DEF ActionsTypes, Takes, Settings
  <2>3. missed' \subseteq Reasons
    BY DEF ActionsTypes, Takes, Reasons
  <2>4. journal => driverCall'.k \in {"none", "seed", "history"}
    BY DEF ActionsTypes, CallMoves
  <2> QED BY <2>1, <2>2, <2>3, <2>4, SetChan DEF ActionsTypes, cachedVars, screenVars
<1>2. settings'.mode = (IF setting = "mode" THEN v ELSE settings.mode)
  BY DEF ActionsTypes, Takes
<1>3. ModesAreReal'
  <2>1. was \subseteq was' /\ settings'.mode \in was'
    BY <1>2 DEF ModesAreReal, Takes
  <2>2. \A i \in DOMAIN chan' : chan'[i].k = "mode" => chan'[i].v \in was'
    BY <2>1, <1>2, SetChan DEF ModesAreReal
  <2>3. /\ driverCall'.k = "cache_mode" => driverCall'.v \in was'
        /\ driverCall'.k = "history" => driverCall'.s.mode \in was' \cup {Unset}
    BY <2>1, <1>2 DEF ModesAreReal, CallMoves
  <2> QED BY <2>1, <2>2, <2>3 DEF ModesAreReal, cachedVars, screenVars
<1>4. missed \subseteq missed' /\ (setting = "model" => missed' = missed)
  BY DEF Takes
<1>5. LastEventIsRight'
  <2> SUFFICES ASSUME "gap" \notin missed', NEW i \in DOMAIN chan', chan'[i].k = "mode",
                      \A j \in DOMAIN chan' : j > i => chan'[j].k # "mode"
               PROVE  chan'[i].v = settings'.mode
    BY DEF LastEventIsRight
  <2>1. CASE ~link
    BY <2>1, <1>2, <1>4, SetChan DEF LastEventIsRight
  <2>2. CASE link
    <3> DEFINE ev == [k |-> setting, v |-> v]
    <3>1. ev \in StreamEvents
      BY DEF StreamEvents, Settings
    <3>2. chan' = Append(chan, ev) /\ chan \in Seq(StreamEvents)
      BY <2>2 DEF Takes, Announce, ActionsTypes
    <3>3. ev.k = setting /\ ev.v = v
      OBVIOUS
    <3> HIDE DEF ev
    <3>4. /\ DOMAIN chan' = 1 .. Len(chan) + 1 /\ DOMAIN chan = 1 .. Len(chan)
          /\ Len(chan) \in Nat /\ \A m \in DOMAIN chan : chan'[m] = chan[m]
          /\ chan'[Len(chan) + 1] = ev
      BY <3>1, <3>2, AddedEvent
    <3>5. CASE setting = "mode"
      BY <3>3, <3>4, <3>5, <1>2
    <3>6. CASE setting = "model"
      <4>1. i \in DOMAIN chan
        BY <3>3, <3>4, <3>6
      <4>2. chan'[i].v = chan[i].v /\ chan[i].k = "mode" /\ \A j \in DOMAIN chan : j > i => chan[j].k # "mode"
        BY <4>1, <3>4
      <4>3. settings'.mode = settings.mode /\ "gap" \notin missed
        BY <3>6, <1>2, <1>4
      <4> QED BY <4>1, <4>2, <4>3 DEF LastEventIsRight
    <3> QED BY <3>5, <3>6
  <2> QED BY <2>1, <2>2
<1>6. "gap" \notin missed' /\ NoModeComing' => setting = "model" /\ NoModeComing
  <2>1. CASE link
    BY <2>1, SetChan
  <2>2. CASE ~link
    BY <2>2, SetChan DEF NoModeComing
  <2> QED BY <2>1, <2>2
<1>7. EffectIsRight'
  BY <1>2, <1>4, <1>6 DEF EffectIsRight
<1>8. AnswerIsRight'
  BY <1>2, <1>4, <1>6 DEF AnswerIsRight, CallMoves
<1>9. CacheIsRight'
  BY <1>2, <1>4, <1>6 DEF CacheIsRight, CallMoves, cachedVars
<1>10. SeedIsRight' /\ ShownIsRight'
  BY <1>2, <1>4, <1>6 DEF SeedIsRight, ShownIsRight, CallMoves, screenVars
<1> QED BY <1>1, <1>3, <1>5, <1>7, <1>8, <1>9, <1>10

\* A step that touches neither the daemon nor the screen.
LEMMA KeepKeeps ==
    ASSUME BadgeInv, CallMoves, UNCHANGED <<settings, was, chan, missed, link, effect, monitor_mode, screenVars>>,
           active_model' \in ModelNames \cup {Unset}
    PROVE  BadgeInv'
<1> USE DEF BadgeInv
<1>1. ActionsTypes'
  BY DEF ActionsTypes, CallMoves, DriverCalls, screenVars
<1>2. ModesAreReal'
  BY DEF ModesAreReal, CallMoves, screenVars
<1>3. NoModeComing' = NoModeComing
  BY DEF NoModeComing
<1>4. LastEventIsRight' /\ EffectIsRight'
  BY <1>3 DEF LastEventIsRight, EffectIsRight
<1>5. AnswerIsRight' /\ CacheIsRight' /\ SeedIsRight' /\ ShownIsRight'
  BY <1>3 DEF AnswerIsRight, CacheIsRight, SeedIsRight, ShownIsRight, CallMoves, screenVars
<1> QED BY <1>1, <1>2, <1>4, <1>5

\* A request to the daemon: it switches, or refuses, or the answer is lost (post).
LEMMA PostKeeps ==
    ASSUME BadgeInv, NEW setting \in {"mode", "model"}, NEW v \in Settings(setting), NEW outcome \in Outcomes,
           post(setting, v, outcome), CallMoves, UNCHANGED <<link, effect, cachedVars, screenVars>>
    PROVE  BadgeInv'
<1>1. CASE Takes(setting, v)
  BY <1>1, SetKeeps
<1>2. CASE Keep
  <2>1. active_model' \in ModelNames \cup {Unset}
    BY DEF BadgeInv, ActionsTypes, cachedVars
  <2> QED BY <1>2, <2>1, KeepKeeps DEF Keep, cachedVars
<1> QED BY <1>1, <1>2 DEF post, Outcomes

\* new_session puts the daemon in the picked mode.
LEMMA PickModeKeeps ==
    ASSUME BadgeInv, NEW m \in Modes, NEW outcome \in Outcomes, PickMode(m, outcome)
    PROVE  BadgeInv'
<1>1. m \in Settings("mode") /\ UNCHANGED <<link, effect, cachedVars, screenVars>>
  BY DEF PickMode, Settings
<1>2. CASE outcome = "ok"
  <2>1. Takes("mode", m) /\ driverCall' = [k |-> "cache_mode", v |-> m, then |-> "seed"]
    BY <1>2 DEF PickMode, post
  <2>2. driverCall.k \in {"picks", "pick_mode"}
    BY DEF PickMode
  <2> QED BY <1>1, <2>1, <2>2, SetKeeps
<1>3. CASE outcome # "ok"
  <2>1. CallMoves /\ post("mode", m, outcome)
    BY <1>3 DEF PickMode, CallMoves
  <2> QED BY <1>1, <2>1, PostKeeps
<1> QED BY <1>2, <1>3

\* install_warm asks the daemon for its mode and caches the answer.
LEMMA InstallKeeps ==
    ASSUME BadgeInv, NEW ok \in BOOLEAN, InstallWarm(ok) \/ GetPermissionMonitor(ok)
    PROVE  BadgeInv'
<1> USE DEF BadgeInv
<1>1. UNCHANGED <<settings, was, chan, effect, monitor_mode, screenVars, missed>>
  BY DEF InstallWarm, GetPermissionMonitor, daemonVars, cachedVars
<1>2. /\ link' \in BOOLEAN /\ active_model' \in ModelNames \cup {Unset}
      /\ driverCall.k \in {"cold", "ask_mode"}
  <2>1. link \in BOOLEAN /\ active_model \in ModelNames \cup {Unset} /\ settings.model \in ModelNames
    BY DEF ActionsTypes
  <2>2. CASE InstallWarm(ok)
    BY <2>1, <2>2 DEF InstallWarm
  <2>3. CASE GetPermissionMonitor(ok)
    BY <2>1, <2>3 DEF GetPermissionMonitor, daemonVars, cachedVars
  <2> QED BY <2>2, <2>3
<1>3. \/ driverCall' = [k |-> "ask_mode"] \/ driverCall' = [k |-> "picks"]
      \/ driverCall' = [k |-> "cache_mode", v |-> settings.mode, then |-> "picks"]
  BY DEF InstallWarm, GetPermissionMonitor
<1>4. ActionsTypes'
  <2>1. settings.mode \in Modes
    BY DEF ActionsTypes
  <2>2. driverCall' \in DriverCalls
    BY <1>3, <2>1 DEF DriverCalls
  <2>3. ~journal
    BY <1>2 DEF ActionsTypes
  <2> QED BY <1>1, <1>2, <2>2, <2>3 DEF ActionsTypes, screenVars
<1>5. ModesAreReal'
  BY <1>1, <1>3 DEF ModesAreReal, screenVars
<1>6. NoModeComing' = NoModeComing
  BY <1>1 DEF NoModeComing
<1>7. LastEventIsRight' /\ EffectIsRight'
  BY <1>1, <1>6 DEF LastEventIsRight, EffectIsRight
<1>8. AnswerIsRight'
  BY <1>1, <1>3 DEF AnswerIsRight
<1>9. CacheIsRight'
  BY <1>1, <1>2, <1>3, <1>6 DEF CacheIsRight
<1>10. SeedIsRight' /\ ShownIsRight'
  BY <1>1, <1>3, <1>6 DEF SeedIsRight, ShownIsRight, screenVars
<1> QED BY <1>4, <1>5, <1>7, <1>8, <1>9, <1>10

\* The answer is cached after the await.
LEMMA CacheModeKeeps == ASSUME BadgeInv, CacheMode PROVE BadgeInv'
<1> USE DEF BadgeInv
<1>1. /\ UNCHANGED <<settings, was, link, chan, effect, active_model, screenVars, missed>>
      /\ driverCall.k = "cache_mode" /\ monitor_mode' = driverCall.v
  BY DEF CacheMode, daemonVars
<1>2. driverCall.then \in {"picks", "seed"} /\ driverCall.v \in Modes
  BY <1>1 DEF ActionsTypes, DriverCalls
<1>3. driverCall' = [k |-> "picks"] \/ driverCall' = [k |-> "seed"]
  BY <1>2 DEF CacheMode
<1>4. ActionsTypes'
  <2>1. driverCall' \in DriverCalls
    BY <1>3 DEF DriverCalls
  <2>2. ~journal
    BY <1>1 DEF ActionsTypes
  <2> QED BY <1>1, <1>2, <2>1, <2>2 DEF ActionsTypes, screenVars
<1>5. ModesAreReal'
  BY <1>1, <1>3 DEF ModesAreReal, screenVars
<1>6. NoModeComing' = NoModeComing
  BY <1>1 DEF NoModeComing
<1>7. LastEventIsRight' /\ EffectIsRight'
  BY <1>1, <1>6 DEF LastEventIsRight, EffectIsRight
<1>8. AnswerIsRight' /\ SeedIsRight' /\ ShownIsRight'
  BY <1>1, <1>3, <1>6 DEF AnswerIsRight, SeedIsRight, ShownIsRight, screenVars
<1>9. CacheIsRight'
  BY <1>1, <1>6 DEF CacheIsRight, AnswerIsRight
<1> QED BY <1>4, <1>5, <1>7, <1>8, <1>9

\* The seed says what the driver has cached.
LEMMA BuildSeedKeeps == ASSUME BadgeInv, BuildSeed PROVE BadgeInv'
<1> USE DEF BadgeInv
<1>1. /\ UNCHANGED <<settings, was, link, chan, effect, monitor_mode, active_model, screenVars>>
      /\ driverCall.k \in {"picks", "pick_mode", "seed"} /\ driverCall' = [k |-> "history", s |-> snapshot]
      /\ missed' = IF effect.k = "set_mode" THEN missed \cup {"seeded"} ELSE missed
  BY DEF BuildSeed, daemonVars, cachedVars
<1>2. snapshot.mode = monitor_mode /\ driverCall'.k = "history" /\ driverCall'.s.mode = monitor_mode
  BY <1>1 DEF snapshot
<1>3. ActionsTypes'
  <2>1. snapshot \in [mode : Modes \cup {Unset}, model : ModelNames \cup {Unset}]
    BY DEF snapshot, ActionsTypes
  <2>2. driverCall' \in DriverCalls
    BY <1>1, <2>1 DEF DriverCalls
  <2>3. missed' \subseteq Reasons
    BY <1>1 DEF ActionsTypes, Reasons
  <2> QED BY <1>1, <1>2, <2>2, <2>3 DEF ActionsTypes, screenVars
<1>4. ModesAreReal'
  BY <1>1, <1>2 DEF ModesAreReal, screenVars
<1>5. NoModeComing' = NoModeComing
  BY <1>1 DEF NoModeComing
<1>6. LastEventIsRight' /\ EffectIsRight'
  BY <1>1, <1>5 DEF LastEventIsRight, EffectIsRight
<1>7. AnswerIsRight' /\ CacheIsRight'
  BY <1>1, <1>2, <1>5 DEF AnswerIsRight, CacheIsRight
<1>8. SeedIsRight' /\ ShownIsRight'
  BY <1>1, <1>2, <1>5 DEF SeedIsRight, ShownIsRight, CacheIsRight, screenVars
<1> QED BY <1>3, <1>4, <1>6, <1>7, <1>8

\* The session is shown as the seed has it.
LEMMA SeedKeeps == ASSUME BadgeInv, NEW ok \in BOOLEAN, Seed(ok) PROVE BadgeInv'
<1> USE DEF BadgeInv
<1>1. /\ UNCHANGED <<settings, was, link, chan, effect, monitor_mode, active_model, missed>>
      /\ driverCall.k = "history" /\ driverCall' = [k |-> "none"]
      /\ journal' = TRUE /\ (shown' = driverCall.s \/ shown' = shown)
  BY DEF Seed, daemonVars, cachedVars, Nil
<1>2. driverCall.s.mode \in Modes \cup {Unset}
  BY <1>1 DEF ActionsTypes, DriverCalls
<1>3. ActionsTypes'
  <2>1. driverCall' \in DriverCalls
    BY <1>1 DEF DriverCalls
  <2> QED BY <1>1, <1>2, <2>1 DEF ActionsTypes
<1>4. ModesAreReal'
  BY <1>1 DEF ModesAreReal
<1>5. NoModeComing' = NoModeComing
  BY <1>1 DEF NoModeComing
<1>6. LastEventIsRight' /\ EffectIsRight'
  BY <1>1, <1>5 DEF LastEventIsRight, EffectIsRight
<1>7. AnswerIsRight' /\ CacheIsRight'
  BY <1>1, <1>5 DEF AnswerIsRight, CacheIsRight
<1>8. SeedIsRight' /\ ShownIsRight'
  BY <1>1, <1>5 DEF SeedIsRight, ShownIsRight
<1> QED BY <1>3, <1>4, <1>6, <1>7, <1>8

\* Listing the refs, and branching from one.
LEMMA ListBranchKeeps ==
    ASSUME BadgeInv, ListAtRefs \/ \E ok \in BOOLEAN : BranchFrom(ok)
    PROVE  BadgeInv'
<1> USE DEF BadgeInv
<1>1. /\ UNCHANGED <<settings, was, link, chan, effect, monitor_mode, screenVars, missed>>
      /\ driverCall = [k |-> "none"] /\ (driverCall' = driverCall \/ driverCall' = [k |-> "seed"])
      /\ active_model' \in ModelNames \cup {Unset}
  BY DEF ListAtRefs, BranchFrom, daemonVars, cachedVars, ActionsTypes, Nil
<1>2. ActionsTypes'
  <2>1. driverCall' \in DriverCalls
    BY <1>1 DEF DriverCalls
  <2> QED BY <1>1, <2>1 DEF ActionsTypes, screenVars
<1>3. ModesAreReal'
  BY <1>1 DEF ModesAreReal, screenVars
<1>4. NoModeComing' = NoModeComing
  BY <1>1 DEF NoModeComing
<1>5. LastEventIsRight' /\ EffectIsRight'
  BY <1>1, <1>4 DEF LastEventIsRight, EffectIsRight
<1>6. AnswerIsRight' /\ CacheIsRight'
  BY <1>1, <1>4 DEF AnswerIsRight, CacheIsRight
<1>7. SeedIsRight' /\ ShownIsRight'
  BY <1>1, <1>4 DEF SeedIsRight, ShownIsRight, screenVars
<1> QED BY <1>2, <1>3, <1>5, <1>6, <1>7

\* What is taken from the stream's front, and what joins at its end.
LEMMA TakenEvent ==
    ASSUME chan \in Seq(StreamEvents), chan # <<>>
    PROVE  /\ Tail(chan) \in Seq(StreamEvents) /\ Head(chan) = chan[1] /\ Head(chan) \in StreamEvents
           /\ Len(chan) \in Nat \ {0} /\ DOMAIN chan = 1 .. Len(chan)
           /\ DOMAIN Tail(chan) = 1 .. Len(chan) - 1
           /\ \A i \in 1 .. Len(chan) - 1 : Tail(chan)[i] = chan[i + 1]
OBVIOUS

\* What the rest of the stream says of the event taken from it.
LEMMA ConsumeStream ==
    ASSUME BadgeInv, ConsumeEvent
    PROVE  /\ chan' \in Seq(StreamEvents) /\ Head(chan) \in StreamEvents
           /\ \A i \in DOMAIN chan' : i + 1 \in DOMAIN chan /\ chan'[i] = chan[i + 1]
           /\ LastEventIsRight'
           /\ NoModeComing' => NoModeComing \/ Head(chan).k = "mode"
           /\ "gap" \notin missed /\ NoModeComing' /\ Head(chan).k = "mode" => Head(chan).v = settings.mode
           /\ Head(chan).k = "mode" => Head(chan).v \in was
<1> USE DEF BadgeInv
<1>1. chan \in Seq(StreamEvents) /\ chan # <<>> /\ chan' = Tail(chan) /\ UNCHANGED <<settings, was>>
      /\ ("gap" \in missed' <=> "gap" \in missed)
  BY DEF ConsumeEvent, ActionsTypes, daemonVars
<1>2. /\ chan' \in Seq(StreamEvents) /\ Head(chan) = chan[1] /\ Head(chan) \in StreamEvents
      /\ Len(chan) \in Nat \ {0} /\ DOMAIN chan = 1 .. Len(chan)
      /\ DOMAIN chan' = 1 .. Len(chan) - 1
      /\ \A i \in 1 .. Len(chan) - 1 : chan'[i] = chan[i + 1]
  BY <1>1, TakenEvent
<1>3. \A i \in DOMAIN chan' : i + 1 \in DOMAIN chan /\ chan'[i] = chan[i + 1]
  BY <1>2
<1>4. \A j \in DOMAIN chan : j # 1 => j - 1 \in DOMAIN chan' /\ chan'[j - 1] = chan[j] /\ DOMAIN chan \subseteq Int
  BY <1>2
<1>5. LastEventIsRight'
  <2> SUFFICES ASSUME "gap" \notin missed, NEW i \in DOMAIN chan', chan'[i].k = "mode",
                      \A j \in DOMAIN chan' : j > i => chan'[j].k # "mode"
               PROVE  chan'[i].v = settings.mode
    BY <1>1 DEF LastEventIsRight
  <2>1. i + 1 \in DOMAIN chan /\ chan[i + 1].k = "mode" /\ chan'[i] = chan[i + 1]
    BY <1>3
  <2>2. ASSUME NEW j \in DOMAIN chan, j > i + 1 PROVE chan[j].k # "mode"
    <3>1. j \in Int /\ i \in Int /\ i > 0
      BY <1>2
    <3>2. j # 1 /\ j - 1 > i
      BY <2>2, <3>1
    <3> QED BY <1>4, <3>2
  <2> QED BY <2>1, <2>2 DEF LastEventIsRight
<1>6. NoModeComing' => NoModeComing \/ Head(chan).k = "mode"
  BY <1>2, <1>4 DEF NoModeComing
<1>7. "gap" \notin missed /\ NoModeComing' /\ Head(chan).k = "mode" => Head(chan).v = settings.mode
  <2> SUFFICES ASSUME "gap" \notin missed, NoModeComing', Head(chan).k = "mode" PROVE Head(chan).v = settings.mode
    OBVIOUS
  <2>1. 1 \in DOMAIN chan /\ chan[1].k = "mode" /\ \A j \in DOMAIN chan : j > 1 => chan[j].k # "mode"
    BY <1>2, <1>4 DEF NoModeComing
  <2> QED BY <1>2, <2>1 DEF LastEventIsRight
<1>8. Head(chan).k = "mode" => Head(chan).v \in was
  BY <1>2 DEF ModesAreReal
<1> QED BY <1>2, <1>3, <1>5, <1>6, <1>7, <1>8

\* A consumed mode becomes the effect still to be carried out.
LEMMA ConsumeEffect ==
    ASSUME ConsumeEvent, NEW e, e = Head(chan), e \in StreamEvents
    PROVE  /\ e.k = "mode" => effect' = [k |-> "set_mode", v |-> e.v] /\ e.v \in Modes
                              /\ (IF journal THEN shown'.mode = e.v ELSE shown' = shown)
           /\ e.k # "mode" => effect'.k \in {"none", "fetch_state", "reseed"} /\ effect' \in Effects
                              /\ (shown' = shown \/ shown'.mode = monitor_mode)
<1>1. CASE e.k = "mode"
  <2>1. effect' = [k |-> "set_mode", v |-> e.v] /\ e.v \in Modes
    BY <1>1 DEF ConsumeEvent, StreamEvents
  <2>2. emit([snapshot EXCEPT !["mode"] = e.v])
    BY <1>1 DEF ConsumeEvent
  <2>3. snapshot = [mode |-> monitor_mode, model |-> active_model]
    BY DEF snapshot
  <2>4. IF journal THEN shown'.mode = e.v ELSE shown' = shown
    BY <2>2, <2>3 DEF emit
  <2> QED BY <1>1, <2>1, <2>4
<1>2. CASE e.k = "model"
  <2>1. effect' = [k |-> "none"]
    BY <1>2 DEF ConsumeEvent, Nil
  <2>2. emit([snapshot EXCEPT !["model"] = e.v])
    BY <1>2 DEF ConsumeEvent
  <2>3. snapshot = [mode |-> monitor_mode, model |-> active_model]
    BY DEF snapshot
  <2>4. shown' = shown \/ shown'.mode = monitor_mode
    BY <2>2, <2>3 DEF emit
  <2> QED BY <1>2, <2>1, <2>4 DEF Effects
<1>3. CASE e.k \in {"turn", "gap"}
  <2>1. shown' = shown /\ (effect' = [k |-> "fetch_state"] \/ effect' = [k |-> "reseed"])
    BY <1>3 DEF ConsumeEvent
  <2> QED BY <1>3, <2>1 DEF Effects
<1> QED BY <1>1, <1>2, <1>3 DEF StreamEvents

\* Nothing is shown before there is a journal.
LEMMA ConsumeStill == ASSUME ConsumeEvent, ~journal PROVE shown' = shown
BY DEF ConsumeEvent, emit

\* handle_sse_event.
LEMMA ConsumeKeeps == ASSUME BadgeInv, ConsumeEvent PROVE BadgeInv'
<1> USE DEF BadgeInv
<1>1. /\ UNCHANGED <<settings, was, link, monitor_mode, active_model, journal, driverCall>>
      /\ effect = [k |-> "none"]
  BY DEF ConsumeEvent, daemonVars, cachedVars, Nil
<1>2. PICK e : e = Head(chan)
  OBVIOUS
<1>12. missed' = IF e.k = "mode" /\ driverCall.k = "history" THEN missed \cup {"dropped"} ELSE missed
  BY <1>2 DEF ConsumeEvent
<1>13. /\ missed' \cap {"gap", "overtaken"} = missed \cap {"gap", "overtaken"} /\ missed \subseteq missed'
       /\ ("gap" \in missed' <=> "gap" \in missed) /\ (missed \subseteq Reasons => missed' \subseteq Reasons)
  BY <1>12 DEF Reasons
<1>3. e \in StreamEvents
  BY <1>2, ConsumeStream
<1>4. /\ e.k = "mode" => effect' = [k |-> "set_mode", v |-> e.v] /\ e.v \in Modes
                        /\ (IF journal THEN shown'.mode = e.v ELSE shown' = shown)
      /\ e.k # "mode" => effect'.k \in {"none", "fetch_state", "reseed"} /\ effect' \in Effects
                        /\ (shown' = shown \/ shown'.mode = monitor_mode)
  BY <1>2, <1>3, ConsumeEffect
<1>5. /\ NoModeComing' => NoModeComing \/ e.k = "mode"
      /\ "gap" \notin missed /\ NoModeComing' /\ e.k = "mode" => e.v = settings.mode
      /\ e.k = "mode" => e.v \in was
  BY <1>2, ConsumeStream
<1>6. ActionsTypes'
  <2>1. effect' \in Effects
    BY <1>4 DEF Effects
  <2>2. shown'.mode \in Modes \cup {Unset} /\ (~journal => shown'.mode = Unset)
    BY <1>2, <1>4, ConsumeStill DEF ActionsTypes
  <2> QED BY <1>1, <1>13, <2>1, <2>2, ConsumeStream DEF ActionsTypes
<1>7. ModesAreReal'
  <2>1. \A i \in DOMAIN chan' : chan'[i].k = "mode" => chan'[i].v \in was
    BY ConsumeStream DEF ModesAreReal
  <2> QED BY <1>1, <1>4, <1>5, <2>1 DEF ModesAreReal
<1>8. LastEventIsRight'
  BY ConsumeStream
<1>9. EffectIsRight'
  BY <1>1, <1>4, <1>5, <1>13 DEF EffectIsRight
<1>10. AnswerIsRight' /\ CacheIsRight'
  BY <1>1, <1>4, <1>5, <1>13 DEF AnswerIsRight, CacheIsRight
<1>11. ShownIsRight'
  <2> SUFFICES ASSUME missed' = {}, NoModeComing' PROVE shown'.mode \in {settings.mode, Unset}
    BY <1>1 DEF ShownIsRight
  <2>1. missed = {}
    BY <1>13
  <2>2. CASE ~journal
    BY <2>2, ConsumeStill DEF ActionsTypes
  <2>3. CASE journal /\ e.k = "mode"
    BY <2>1, <2>3, <1>4, <1>5
  <2>4. CASE journal /\ e.k # "mode"
    <3>1. driverCall.k # "cache_mode" /\ effect.k # "set_mode" /\ NoModeComing
      BY <2>4, <1>1, <1>5 DEF ActionsTypes
    <3>2. monitor_mode \in {settings.mode, Unset} /\ shown.mode \in {settings.mode, Unset}
      BY <2>1, <3>1 DEF ShownIsRight, CacheIsRight
    <3> QED BY <2>4, <1>4, <3>2
  <2> QED BY <2>2, <2>3, <2>4
<1>14. SeedIsRight'
  <2> SUFFICES ASSUME missed' = {}, NoModeComing', driverCall.k = "history"
               PROVE  driverCall.s.mode \in {settings.mode, Unset}
    BY <1>1 DEF SeedIsRight
  <2>1. missed = {} /\ e.k # "mode"
    BY <1>12
  <2> QED BY <2>1, <1>5 DEF SeedIsRight
<1> QED BY <1>6, <1>7, <1>8, <1>9, <1>10, <1>11, <1>14

\* The event's mode is stored and emitted.
LEMMA SetMonitorKeeps == ASSUME BadgeInv, SetMonitorMode PROVE BadgeInv'
<1> USE DEF BadgeInv
<1>1. /\ UNCHANGED <<settings, was, link, chan, active_model, journal, shown, driverCall>>
      /\ effect.k = "set_mode" /\ monitor_mode' = effect.v /\ effect' = [k |-> "none"]
      /\ missed' = IF driverCall.k = "cache_mode" THEN missed \cup {"overtaken"} ELSE missed
  BY DEF SetMonitorMode, daemonVars, screenVars, Nil
<1>2. ActionsTypes'
  <2>1. effect.v \in Modes
    BY <1>1 DEF ActionsTypes, Effects
  <2>2. effect' \in Effects
    BY <1>1 DEF Effects
  <2>3. missed' \subseteq Reasons
    BY <1>1 DEF ActionsTypes, Reasons
  <2> QED BY <1>1, <2>1, <2>2, <2>3 DEF ActionsTypes
<1>3. ModesAreReal'
  BY <1>1 DEF ModesAreReal
<1>4. NoModeComing' = NoModeComing
  BY <1>1 DEF NoModeComing
<1>5. LastEventIsRight' /\ EffectIsRight'
  BY <1>1, <1>4 DEF LastEventIsRight, EffectIsRight
<1>6. AnswerIsRight' /\ CacheIsRight'
  BY <1>1, <1>4 DEF AnswerIsRight, CacheIsRight, EffectIsRight
<1>7. SeedIsRight' /\ ShownIsRight'
  BY <1>1, <1>4 DEF SeedIsRight, ShownIsRight
<1> QED BY <1>2, <1>3, <1>5, <1>6, <1>7

\* A fetched state is emitted without its mode.
LEMMA FetchKeeps ==
    ASSUME BadgeInv, EmitFetched \/ \E ok \in BOOLEAN : ExecuteFetchState(ok)
    PROVE  BadgeInv'
<1> USE DEF BadgeInv
<1>1. /\ UNCHANGED <<settings, was, link, chan, monitor_mode, journal, driverCall, missed>>
      /\ effect.k \in {"fetch_state", "reseed", "emit"}
      /\ (effect' = [k |-> "none"] \/ effect' = [k |-> "emit"])
  BY DEF EmitFetched, ExecuteFetchState, daemonVars, cachedVars, screenVars, Nil
<1>2. shown' = shown \/ (journal /\ shown'.mode = monitor_mode)
  BY DEF EmitFetched, ExecuteFetchState, emit, snapshot, screenVars
<1>3. active_model' \in ModelNames \cup {Unset}
  <2>1. active_model \in ModelNames \cup {Unset} /\ settings.model \in ModelNames
    BY DEF ActionsTypes
  <2> QED BY <2>1 DEF EmitFetched, ExecuteFetchState, cachedVars
<1>4. ActionsTypes'
  <2>1. effect' \in Effects
    BY <1>1 DEF Effects
  <2> QED BY <1>1, <1>2, <1>3, <2>1 DEF ActionsTypes
<1>5. ModesAreReal'
  BY <1>1, <1>2 DEF ModesAreReal
<1>6. NoModeComing' = NoModeComing
  BY <1>1 DEF NoModeComing
<1>7. LastEventIsRight' /\ EffectIsRight'
  BY <1>1, <1>6 DEF LastEventIsRight, EffectIsRight
<1>8. AnswerIsRight' /\ CacheIsRight'
  BY <1>1, <1>6 DEF AnswerIsRight, CacheIsRight
<1>9. SeedIsRight'
  BY <1>1, <1>6 DEF SeedIsRight
<1>10. ShownIsRight'
  <2>1. journal => driverCall.k # "cache_mode"
    BY DEF ActionsTypes
  <2> QED BY <1>1, <1>2, <1>6, <2>1 DEF ShownIsRight, CacheIsRight
<1> QED BY <1>4, <1>5, <1>7, <1>8, <1>9, <1>10

\* An event that says nothing of the mode.
LEMMA OtherEventKeeps ==
    ASSUME BadgeInv, chan' = Append(chan, [k |-> "turn"]) \/ chan' = Append(chan, [k |-> "gap"]) \/ chan' = chan,
           UNCHANGED <<settings, was, effect, cachedVars, screenVars, driverCall, missed>>, link' \in BOOLEAN
    PROVE  BadgeInv'
<1> USE DEF BadgeInv
<1>1. PICK ev \in StreamEvents : ev.k # "mode" /\ (chan' = chan \/ chan' = Append(chan, ev))
  <2>1. [k |-> "turn"] \in StreamEvents /\ [k |-> "gap"] \in StreamEvents
    BY DEF StreamEvents
  <2> QED BY <2>1
<1>2. chan \in Seq(StreamEvents)
  BY DEF ActionsTypes
<1>3. /\ chan' \in Seq(StreamEvents) /\ (NoModeComing' <=> NoModeComing)
      /\ \A i \in DOMAIN chan' : chan'[i].k = "mode" => i \in DOMAIN chan /\ chan'[i] = chan[i]
      /\ \A i \in DOMAIN chan : i \in DOMAIN chan' /\ chan'[i] = chan[i]
  <2>1. CASE chan' = chan
    BY <1>2, <2>1 DEF NoModeComing
  <2>2. CASE chan' = Append(chan, ev)
    <3>1. /\ chan' \in Seq(StreamEvents) /\ DOMAIN chan' = 1 .. Len(chan) + 1 /\ DOMAIN chan = 1 .. Len(chan)
          /\ Len(chan) \in Nat /\ \A i \in DOMAIN chan : chan'[i] = chan[i]
          /\ chan'[Len(chan) + 1] = ev
      BY <1>1, <1>2, <2>2, AddedEvent
    <3> QED BY <1>1, <3>1 DEF NoModeComing
  <2> QED BY <1>1, <2>1, <2>2
<1>4. ActionsTypes'
  BY <1>3 DEF ActionsTypes, cachedVars, screenVars
<1>5. ModesAreReal'
  BY <1>3 DEF ModesAreReal, cachedVars, screenVars
<1>6. LastEventIsRight'
  BY <1>3 DEF LastEventIsRight
<1>7. EffectIsRight' /\ AnswerIsRight'
  BY <1>3 DEF EffectIsRight, AnswerIsRight
<1>8. CacheIsRight' /\ SeedIsRight' /\ ShownIsRight'
  BY <1>3 DEF CacheIsRight, SeedIsRight, ShownIsRight, cachedVars, screenVars
<1> QED BY <1>4, <1>5, <1>6, <1>7, <1>8

\* What the daemon replays after a reconnect ends with the mode it is in.
LEMMA Replayed ==
    ASSUME chan \in Seq(StreamEvents), NEW a \in StreamEvents, NEW b \in StreamEvents, NEW c \in StreamEvents,
           a.k # "mode", b.k = "mode", c.k # "mode"
    PROVE  LET ch == Append(chan, a) \o <<b, c>> IN
           /\ ch \in Seq(StreamEvents) /\ Len(chan) \in Nat
           /\ DOMAIN ch = 1 .. Len(chan) + 3 /\ DOMAIN chan = 1 .. Len(chan)
           /\ \A i \in DOMAIN chan : ch[i] = chan[i]
           /\ ch[Len(chan) + 1] = a /\ ch[Len(chan) + 2] = b /\ ch[Len(chan) + 3] = c
OBVIOUS

\* The stream comes back and the daemon replays.
LEMMA ReplayKeeps == ASSUME BadgeInv, LinkReconnects(TRUE) PROVE BadgeInv'
<1> USE DEF BadgeInv
<1> DEFINE a == [k |-> "gap"]
           b == [k |-> "mode", v |-> settings.mode]
           c == [k |-> "model", v |-> settings.model]
<1>1. /\ UNCHANGED <<settings, was, effect, monitor_mode, active_model, journal, shown, driverCall>>
      /\ link' = TRUE /\ missed' = missed \ {"gap"}
      /\ chan' = Append(chan, a) \o <<b, c>>
  BY DEF LinkReconnects, cachedVars, screenVars
<1>2. a \in StreamEvents /\ b \in StreamEvents /\ c \in StreamEvents /\ b.v = settings.mode
  BY DEF StreamEvents, ActionsTypes
<1>3. a.k # "mode" /\ b.k = "mode" /\ c.k # "mode"
  OBVIOUS
<1> HIDE DEF a, b, c
<1>4. /\ chan' \in Seq(StreamEvents) /\ Len(chan) \in Nat
      /\ DOMAIN chan' = 1 .. Len(chan) + 3 /\ DOMAIN chan = 1 .. Len(chan)
      /\ \A i \in DOMAIN chan : chan'[i] = chan[i]
      /\ chan'[Len(chan) + 1] = a /\ chan'[Len(chan) + 2] = b /\ chan'[Len(chan) + 3] = c
  <2>1. chan \in Seq(StreamEvents)
    BY DEF ActionsTypes
  <2> QED BY <1>1, <1>2, <1>3, <2>1, Replayed
<1>5. ~NoModeComing'
  BY <1>3, <1>4 DEF NoModeComing
<1>6. ActionsTypes'
  BY <1>1, <1>4 DEF ActionsTypes
<1>7. ModesAreReal'
  BY <1>1, <1>2, <1>3, <1>4 DEF ModesAreReal
<1>8. LastEventIsRight'
  <2> SUFFICES ASSUME NEW i \in DOMAIN chan', chan'[i].k = "mode",
                      \A j \in DOMAIN chan' : j > i => chan'[j].k # "mode"
               PROVE  chan'[i].v = settings'.mode
    BY DEF LastEventIsRight
  <2>1. ~(i < Len(chan) + 2) /\ i # Len(chan) + 3
    BY <1>3, <1>4
  <2>2. i = Len(chan) + 2
    BY <2>1, <1>4
  <2> QED BY <2>2, <1>1, <1>2, <1>4
<1> QED BY <1>5, <1>6, <1>7, <1>8 DEF EffectIsRight, AnswerIsRight, CacheIsRight, SeedIsRight, ShownIsRight

\* The stream comes back with a gap.
LEMMA ReconnectKeeps == ASSUME BadgeInv, LinkReconnects(FALSE) PROVE BadgeInv'
<1>1. chan \in Seq(StreamEvents)
  BY DEF BadgeInv, ActionsTypes
<1>2. chan' = Append(chan, [k |-> "gap"]) \o <<>>
  BY DEF LinkReconnects
<1>3. [k |-> "gap"] \in StreamEvents
  BY DEF StreamEvents
<1>4. Append(chan, [k |-> "gap"]) \in Seq(StreamEvents)
  BY <1>1, <1>3, AddedEvent
<1>5. chan' = Append(chan, [k |-> "gap"])
  BY <1>2, <1>4
<1> QED BY <1>5, OtherEventKeeps DEF LinkReconnects

\* Whatever leaves the mode, the stream and the screen alone.
Aside ==
    \/ \E e \in DOMAIN DaemonEndpoints, s \in Statuses : OtherAction(e, s)
    \/ \E ok \in BOOLEAN : AskDaemon(ok)
    \/ \E s \in TodoStatuses, c \in Conflicts : DeleteTodo(s, c)

\* Those steps keep the invariant.
LEMMA AsideKeeps == ASSUME BadgeInv, Aside PROVE BadgeInv'
<1>1. UNCHANGED <<settings, was, link, chan, effect, monitor_mode, active_model, screenVars, driverCall, missed>>
  BY DEF Aside, OtherAction, AskDaemon, DeleteTodo, daemonVars, cachedVars
<1>2. active_model' \in ModelNames \cup {Unset}
  BY <1>1 DEF BadgeInv, ActionsTypes
<1> QED BY <1>1, <1>2, KeepKeeps DEF CallMoves

\* A client changes a setting, or the daemon does.
Changes ==
    \/ \E o \in Outcomes : \/ \E m \in ModelNames : PickModel(m, o) \/ SetModel(m, o)
                           \/ \E m \in Modes : SetPermissionMonitor(m, o)
                           \/ SetThinking(o)
    \/ \E m \in Modes : DaemonSwitches("mode", m)
    \/ \E m \in ModelNames : DaemonSwitches("model", m)

\* A request a client makes on a live session.
LEMMA ActKeeps ==
    ASSUME BadgeInv, NEW setting \in {"mode", "model"}, NEW v \in Settings(setting), NEW o \in Outcomes,
           NEW success, Act(setting, v, o, success)
    PROVE  BadgeInv'
BY PostKeeps DEF Act, CallMoves

\* Every change of a setting keeps the invariant.
LEMMA ChangesKeep == ASSUME BadgeInv, Changes PROVE BadgeInv'
<1>1. ASSUME NEW o \in Outcomes, NEW m \in ModelNames, PickModel(m, o) PROVE BadgeInv'
  <2>1. m \in Settings("model") /\ CallMoves /\ post("model", m, o) /\ UNCHANGED <<link, effect, cachedVars, screenVars>>
    BY <1>1 DEF PickModel, CallMoves, Settings
  <2> QED BY <2>1, PostKeeps
<1>2. ASSUME NEW o \in Outcomes, NEW m \in ModelNames, SetModel(m, o) PROVE BadgeInv'
  <2>1. m \in Settings("model")
    BY DEF Settings
  <2> QED BY <1>2, <2>1, ActKeeps DEF SetModel
<1>3. ASSUME NEW o \in Outcomes, NEW m \in Modes, SetPermissionMonitor(m, o) PROVE BadgeInv'
  <2>1. m \in Settings("mode")
    BY DEF Settings
  <2> QED BY <1>3, <2>1, ActKeeps DEF SetPermissionMonitor
<1>4. ASSUME NEW o \in Outcomes, SetThinking(o) PROVE BadgeInv'
  <2>1. CASE active_model # Unset /\ Act("model", active_model, o, "level_set")
    <3>1. active_model \in Settings("model")
      BY <2>1 DEF BadgeInv, ActionsTypes, Settings
    <3> QED BY <2>1, <3>1, ActKeeps
  <2>2. CASE UNCHANGED <<daemonVars, chan, effect, cachedVars, screenVars, driverCall, missed>>
    <3>1. active_model' \in ModelNames \cup {Unset}
      BY <2>2 DEF BadgeInv, ActionsTypes, cachedVars
    <3> QED BY <2>2, <3>1, KeepKeeps DEF CallMoves, daemonVars, cachedVars
  <2> QED BY <1>4, <2>1, <2>2 DEF SetThinking
<1>5. ASSUME NEW m \in Modes, DaemonSwitches("mode", m) PROVE BadgeInv'
  <2>1. m \in Settings("mode")
    BY DEF Settings
  <2> QED BY <1>5, <2>1, SetKeeps DEF DaemonSwitches, CallMoves
<1>6. ASSUME NEW m \in ModelNames, DaemonSwitches("model", m) PROVE BadgeInv'
  <2>1. m \in Settings("model")
    BY DEF Settings
  <2> QED BY <1>6, <2>1, SetKeeps DEF DaemonSwitches, CallMoves
<1> QED BY <1>1, <1>2, <1>3, <1>4, <1>5, <1>6 DEF Changes

\* The daemon and its stream on their own, but for the replay.
LEMMA StreamKeeps == ASSUME BadgeInv, TurnEvent \/ LinkDrops PROVE BadgeInv'
<1>1. chan' = Append(chan, [k |-> "turn"]) \/ chan' = chan
  BY DEF TurnEvent, LinkDrops, Announce
<1>2. UNCHANGED <<settings, was, effect, cachedVars, screenVars, driverCall, missed>>
  BY DEF TurnEvent, LinkDrops, daemonVars
<1>3. link' \in BOOLEAN
  BY DEF TurnEvent, LinkDrops, daemonVars, BadgeInv, ActionsTypes
<1> QED BY <1>1, <1>2, <1>3, OtherEventKeeps

\* Every step keeps the invariant.
LEMMA BadgeStep == BadgeInv /\ [ActionsNext]_actionsVars => BadgeInv'
<1> SUFFICES ASSUME BadgeInv, [ActionsNext]_actionsVars PROVE BadgeInv'
  OBVIOUS
<1>1. CASE UNCHANGED actionsVars
  <2>1. active_model' \in ModelNames \cup {Unset}
    BY <1>1 DEF BadgeInv, ActionsTypes, actionsVars, cachedVars
  <2> QED BY <1>1, <2>1, KeepKeeps DEF actionsVars, daemonVars, cachedVars, CallMoves
<1>2. ASSUME NEW ok \in BOOLEAN, InstallWarm(ok) \/ GetPermissionMonitor(ok) PROVE BadgeInv'
  BY <1>2, InstallKeeps
<1>3. ASSUME NEW ok \in BOOLEAN, ExecuteFetchState(ok) PROVE BadgeInv'
  BY <1>3, FetchKeeps
<1>4. ASSUME NEW ok \in BOOLEAN, BranchFrom(ok) PROVE BadgeInv'
  BY <1>4, ListBranchKeeps
<1>5. ASSUME NEW o \in Outcomes, NEW m \in Modes, PickMode(m, o) PROVE BadgeInv'
  BY <1>5, PickModeKeeps
<1>6. CASE Aside \/ Changes
  BY <1>6, AsideKeeps, ChangesKeep
<1>7. CASE CacheMode \/ BuildSeed \/ ListAtRefs
  BY <1>7, CacheModeKeeps, BuildSeedKeeps, ListBranchKeeps
<1>8. CASE TurnEvent \/ LinkDrops
  BY <1>8, StreamKeeps
<1>9. ASSUME NEW replay \in BOOLEAN, LinkReconnects(replay) PROVE BadgeInv'
  BY <1>9, ReplayKeeps, ReconnectKeeps
<1>10. CASE ConsumeEvent \/ SetMonitorMode \/ EmitFetched
  BY <1>10, ConsumeKeeps, SetMonitorKeeps, FetchKeeps
<1>11. ASSUME NEW ok \in BOOLEAN, Seed(ok) PROVE BadgeInv'
  BY <1>11, SeedKeeps
<1> QED BY <1>1, <1>2, <1>3, <1>4, <1>5, <1>6, <1>7, <1>8, <1>9, <1>10, <1>11 DEF ActionsNext, Aside, Changes

\* It holds before the session is installed.
LEMMA BadgeBegins == ActionsInit => BadgeInv
<1> SUFFICES ASSUME ActionsInit PROVE BadgeInv
  OBVIOUS
<1>1. driverCall \in DriverCalls /\ effect \in Effects
  <2>1. driverCall = [k |-> "cold"] /\ effect = [k |-> "none"]
    BY DEF ActionsInit, Nil
  <2>2. driverCall \in DriverCalls
    BY <2>1 DEF DriverCalls
  <2>3. effect \in Effects
    BY <2>1 DEF Effects
  <2> QED BY <2>2, <2>3
<1>2. /\ driverCall.k = "cold" /\ driverCall # Nil /\ effect.k = "none" /\ chan = <<>> /\ DOMAIN chan = {}
      /\ monitor_mode = Unset /\ active_model = Unset /\ shown.mode = Unset /\ link = FALSE /\ journal = FALSE
      /\ settings \in [mode : Modes, model : ModelNames] /\ settings.mode \in was /\ missed = {}
  <2>1. driverCall.k = "cold" /\ effect.k = "none" /\ shown.mode = Unset
    BY DEF ActionsInit, Nil
  <2>2. driverCall # Nil
    BY <2>1 DEF Nil
  <2>3. DOMAIN chan = {}
    <3>1. chan = <<>>
      BY DEF ActionsInit
    <3> QED BY <3>1
  <2>4. link = FALSE /\ journal = FALSE
    BY DEF ActionsInit
  <2>5. chan = <<>> /\ monitor_mode = Unset /\ active_model = Unset /\ missed = {}
    BY DEF ActionsInit
  <2>6. settings \in [mode : Modes, model : ModelNames] /\ settings.mode \in was
    BY DEF ActionsInit
  <2> QED BY <2>1, <2>2, <2>3, <2>4, <2>5, <2>6
<1>3. ActionsTypes
  <2>1. chan \in Seq(StreamEvents)
    BY <1>2
  <2> QED BY <1>1, <1>2, <2>1 DEF ActionsTypes
<1>4. ModesAreReal
  BY <1>2 DEF ModesAreReal
<1> QED BY <1>2, <1>3, <1>4 DEF BadgeInv, LastEventIsRight, EffectIsRight, AnswerIsRight, CacheIsRight, SeedIsRight, ShownIsRight

(***************************************************************************)
(* driver.rs new_session, install_warm, handle_sse_event: the permission   *)
(* badge never asserts a mode the daemon was not put in, and once every    *)
(* event is consumed it is the daemon's mode or unknown, unless a switch   *)
(* was missed in one of the four ways the code leaves open.                *)
(***************************************************************************)
THEOREM BadgeIsTruthfulCorrect == ActionsSpec => []BadgeIsTruthful
<1>1. BadgeInv => BadgeIsTruthful
  <2> SUFFICES ASSUME BadgeInv PROVE BadgeIsTruthful
    OBVIOUS
  <2>1. ShownModeIsReal
    BY DEF BadgeInv, ModesAreReal, ShownModeIsReal
  <2>2. ASSUME SettingsQuiet, missed = {} PROVE shown.mode \in {settings.mode, Unset}
    <3>1. NoModeComing
      BY <2>2 DEF SettingsQuiet, NoModeComing
    <3> QED BY <2>2, <3>1 DEF BadgeInv, ShownIsRight
  <2> QED BY <2>1, <2>2 DEF BadgeIsTruthful, QuietBadgeIsRight
<1> QED BY <1>1, BadgeBegins, BadgeStep, PTL DEF ActionsSpec

-----------------------------------------------------------------------------
(* RemoteRuntime: one runtime per remote root *)

-----------------------------------------------------------------------------
(* The inductive invariant *)

Stages == ProxyStages \cup RuntimeStages

\* Every variable the argument is about keeps its type; a relay is connected.
RuntimeTypes ==
    /\ pc \in [Pids -> Stages]
    /\ \A p \in Proxies : pc[p] \in ProxyStages
    /\ \A r \in Runtimes : pc[r] \in RuntimeStages
    /\ conn \in [Proxies -> Runtimes \cup {NoLock}]
    /\ \A p \in Proxies : pc[p] = "relay" => conn[p] # NoLock
    /\ file \in Pids \cup {NoLock}
    /\ sock \in Runtimes \cup {NoLock}
    /\ seen \in [Pids -> Pids \cup {NoLock}]
    /\ clients \subseteq {p \in Proxies : pc[p] = "relay"}
    /\ exit_tx \subseteq Runtimes
    /\ raced \in BOOLEAN

\* The final stages.
ForGood == {"failed", "done"}

\* Whoever the lock names has written it, and never will again.
NamedHasWritten == file \in Pids => pc[file] \notin {"off", "none", "connect", "read", "write", "retry"}

\* What a process is about to overwrite named nobody, or somebody who is gone for good.
OverwritesTheDead == \A x \in Pids : pc[x] = "write" => seen[x] = NoLock \/ pc[seen[x]] \in ForGood

\* The runtimes past the lock.
Owner(r) == pc[r] \in {"unlink", "bind", "serve", "reap"}

\* Unless the lock's read and write were raced, the lock names each of them.
OwnerIsNamed == raced \/ \A r \in Runtimes : Owner(r) => file = r

\* The inductive invariant.
RuntimeInv == RuntimeTypes /\ NamedHasWritten /\ OverwritesTheDead /\ OwnerIsNamed

-----------------------------------------------------------------------------
(* What the steps that several actions share do to the invariant *)

\* Pids are numbers of their own.
LEMMA PidsAreDistinct ==
    /\ NoLock \notin Pids /\ Garbled \notin Pids
    /\ \A p \in Proxies, r \in Runtimes : p # r
BY RuntimeAssumption DEF Pids

\* The end of a process leaves the others where they are, or ends them too.
LEMMA GoneEnds ==
    ASSUME RuntimeTypes, NEW x \in Pids, Gone(x)
    PROVE  /\ pc' \in [Pids -> Stages]
           /\ pc'[x] = "done"
           /\ \A y \in Pids : pc'[y] = pc[y] \/ (pc'[y] = "done" /\ (y = x \/ pc[y] = "relay"))
           /\ conn' \in [Proxies -> Runtimes \cup {NoLock}]
           /\ \A p \in Proxies : pc'[p] = "relay" => conn'[p] # NoLock
           /\ clients' \subseteq {p \in Proxies : pc'[p] = "relay"}
           /\ exit_tx' \subseteq Runtimes
BY PidsAreDistinct DEF RuntimeTypes, Gone, Stages, ProxyStages, RuntimeStages, Pids

\* acquire_read: only a lock that names nobody, or somebody gone, is reclaimed.
LEMMA ReadKeepsRuntime ==
    ASSUME RuntimeInv, NEW x \in Pids, pc[x] = "read",
           NEW refused \in Stages, acquire_read(x, refused),
           UNCHANGED <<file, sock, conn, clients, faults, raced, Hub>>,
           x \in Proxies => refused = "retry", x \in Runtimes => refused = "done"
    PROVE  RuntimeInv'
<1> USE PidsAreDistinct DEF RuntimeInv, RuntimeTypes
<1>1. PICK to \in {"retry", "done", "write"} :
          /\ pc' = [pc EXCEPT ![x] = to]
          /\ x \in Proxies => to # "done"
          /\ x \in Runtimes => to # "retry"
          /\ to = "write" => /\ seen' = [seen EXCEPT ![x] = file]
                            /\ file \notin Alive \ {x}
          /\ to # "write" => seen' = seen
  BY DEF acquire_read, Goes, lock_decision, parse_lock, Pids
<1>2. seen' \in [Pids -> Pids \cup {NoLock}] /\ UNCHANGED <<file, sock, conn, clients, exit_tx, raced>>
  BY <1>1 DEF Hub
<1>3. RuntimeTypes'
  BY <1>1, <1>2 DEF Stages, ProxyStages, RuntimeStages, Pids
<1>4. file # x
  BY DEF NamedHasWritten
<1>5. NamedHasWritten'
  BY <1>1, <1>4 DEF NamedHasWritten
<1>6. to = "write" => file = NoLock \/ (file \in Pids /\ file # x /\ pc[file] \in ForGood)
  BY <1>1, <1>4 DEF NamedHasWritten, Alive, ForGood
<1>7. OverwritesTheDead'
  BY <1>1, <1>2, <1>6 DEF OverwritesTheDead, ForGood
<1>8. OwnerIsNamed'
  BY <1>1, <1>2 DEF OwnerIsNamed, Owner, Pids
<1> QED BY <1>3, <1>5, <1>7, <1>8

\* acquire_write: unless it is raced it replaces the name of a dead process.
LEMMA WriteKeepsRuntime ==
    ASSUME RuntimeInv, NEW x \in Pids, NEW next \in {"spawn", "unlink"}, acquire_write(x, next),
           UNCHANGED <<sock, conn, clients, faults, Hub>>,
           x \in Proxies => next = "spawn", x \in Runtimes => next = "unlink"
    PROVE  RuntimeInv'
<1> USE PidsAreDistinct DEF RuntimeInv, RuntimeTypes
<1>1. /\ pc[x] = "write" /\ pc' = [pc EXCEPT ![x] = next] /\ file' = x
      /\ raced' = (raced \/ file # seen[x]) /\ seen' = [seen EXCEPT ![x] = NoLock]
  BY DEF acquire_write, Goes, Acquired
<1>2. RuntimeTypes'
  BY <1>1 DEF Stages, ProxyStages, RuntimeStages, Hub, Pids
<1>3. NamedHasWritten'
  BY <1>1 DEF NamedHasWritten
<1>4. OverwritesTheDead'
  BY <1>1 DEF OverwritesTheDead, ForGood
<1>5. OwnerIsNamed'
  <2> SUFFICES ASSUME ~raced', NEW r \in Runtimes, Owner(r)', r # x
               PROVE  FALSE
    BY <1>1 DEF OwnerIsNamed
  <2>1. ~raced /\ file = seen[x] /\ Owner(r) /\ r \in Pids
    BY <1>1 DEF Owner, Pids
  <2>2. seen[x] = r
    BY <2>1 DEF OwnerIsNamed
  <2>3. pc[r] \in ForGood
    BY <1>1, <2>1, <2>2 DEF OverwritesTheDead
  <2> QED BY <2>1, <2>3 DEF ForGood, Owner
<1> QED BY <1>2, <1>3, <1>4, <1>5

-----------------------------------------------------------------------------
(* One lemma per group of actions *)

\* It holds while no process has started.
LEMMA RuntimeBegins == Init => RuntimeInv
BY PidsAreDistinct DEF Init, RuntimeInv, RuntimeTypes, Stages, ProxyStages, RuntimeStages, Pids,
   NamedHasWritten, OverwritesTheDead, OwnerIsNamed, Owner

\* A step that moves one process between stages where it holds nothing it did not hold, and
\* leaves the lock alone.
LEMMA MoveKeepsRuntime ==
    ASSUME RuntimeInv, NEW x \in Pids, NEW to \in Stages, pc' = [pc EXCEPT ![x] = to],
           UNCHANGED <<file, seen, raced, clients, exit_tx>>,
           sock' \in Runtimes \cup {NoLock},
           conn' \in [Proxies -> Runtimes \cup {NoLock}],
           \A p \in Proxies : pc'[p] = "relay" => conn'[p] # NoLock,
           x \in Proxies => to \in ProxyStages,
           x \in Runtimes => to \in RuntimeStages,
           pc[x] \notin {"relay", "failed", "done"},
           to \notin {"off", "none", "write"},
           to \in {"connect", "read", "retry"} => file # x,
           to \in {"unlink", "bind", "serve", "reap"} => Owner(x)
    PROVE  RuntimeInv'
<1> USE PidsAreDistinct DEF RuntimeInv, RuntimeTypes
<1>1. RuntimeTypes'
  BY DEF Pids
<1>2. NamedHasWritten'
  BY DEF NamedHasWritten
<1>3. OverwritesTheDead'
  BY DEF OverwritesTheDead, ForGood
<1>4. OwnerIsNamed'
  BY DEF OwnerIsNamed, Owner, Pids
<1> QED BY <1>1, <1>2, <1>3, <1>4
\* A proxy that leaves connect_with_bootstrap gives back only a lock that names itself.
LEMMA DropKeepsRuntime ==
    ASSUME RuntimeInv, NEW p \in Proxies, NEW to \in {"relay", "failed"}, pc' = [pc EXCEPT ![p] = to],
           pc[p] \in {"spawn", "wait", "wait_held"},
           file' \in {file, release(file, p)},
           UNCHANGED <<seen, raced, clients, sock, exit_tx>>,
           conn' \in [Proxies -> Runtimes \cup {NoLock}],
           \A q \in Proxies : pc'[q] = "relay" => conn'[q] # NoLock
    PROVE  RuntimeInv'
<1> USE PidsAreDistinct DEF RuntimeInv, RuntimeTypes
<1>1. file' = file \/ (file' = NoLock /\ file \in {NoLock, p})
  BY DEF release, parse_lock
<1>2. RuntimeTypes'
  BY <1>1 DEF Stages, ProxyStages, RuntimeStages, Pids
<1>3. NamedHasWritten'
  BY <1>1 DEF NamedHasWritten
<1>4. OverwritesTheDead'
  BY DEF OverwritesTheDead, ForGood
<1>5. OwnerIsNamed'
  BY <1>1 DEF OwnerIsNamed, Owner, Pids
<1> QED BY <1>2, <1>3, <1>4, <1>5

\* A process that ends gives back at most its own lock.
LEMMA EndKeepsRuntime ==
    ASSUME RuntimeInv, NEW x \in Pids, Gone(x), pc[x] \notin {"off", "none"},
           file' \in {file, release(file, x)}, x \in Proxies => file' = file,
           seen' \in {seen, [seen EXCEPT ![x] = NoLock]}, UNCHANGED <<sock, raced>>
    PROVE  RuntimeInv'
<1> USE PidsAreDistinct DEF RuntimeInv, RuntimeTypes
<1>1. file' = file \/ (file' = NoLock /\ file \in {NoLock, x})
  BY DEF release, parse_lock
<1>2. /\ pc' \in [Pids -> Stages]
      /\ pc'[x] = "done"
      /\ \A y \in Pids : pc'[y] = pc[y] \/ (pc'[y] = "done" /\ (y = x \/ pc[y] = "relay"))
      /\ conn' \in [Proxies -> Runtimes \cup {NoLock}]
      /\ \A p \in Proxies : pc'[p] = "relay" => conn'[p] # NoLock
      /\ clients' \subseteq {p \in Proxies : pc'[p] = "relay"}
      /\ exit_tx' \subseteq Runtimes
  BY GoneEnds
<1>3. RuntimeTypes'
  BY <1>1, <1>2 DEF Stages, ProxyStages, RuntimeStages, Pids
<1>4. NamedHasWritten'
  BY <1>1, <1>2 DEF NamedHasWritten
<1>5. OverwritesTheDead'
  BY <1>2 DEF OverwritesTheDead, ForGood
<1>6. OwnerIsNamed'
  BY <1>1, <1>2 DEF OwnerIsNamed, Owner, Pids
<1> QED BY <1>3, <1>4, <1>5, <1>6

\* Every step of a proxy keeps the invariant,
LEMMA ProxyKeepsRuntime ==
    ASSUME RuntimeInv, NEW p \in Proxies, run_stdio_proxy(p) \/ ProxyStep(p) \/ register(p) \/ disconnect(p)
    PROVE  RuntimeInv'
<1> USE PidsAreDistinct DEF Pids
<1>1. CASE run_stdio_proxy(p)
  <2>1. pc' = [pc EXCEPT ![p] = "connect"] /\ pc[p] \in {"off", "none"} /\ p \in Pids
        /\ UNCHANGED <<file, seen, sock, conn, clients, raced, exit_tx>>
    BY <1>1 DEF run_stdio_proxy, Fresh, Goes, Hub
  <2>2. file # p
    BY <2>1 DEF RuntimeInv, RuntimeTypes, NamedHasWritten
  <2> QED BY <2>1, <2>2, MoveKeepsRuntime DEF RuntimeInv, RuntimeTypes, Stages, ProxyStages
<1>2. CASE connect(p) \/ retry(p)
  <2>1. PICK to \in {"relay", "read", "wait"} :
            /\ pc' = [pc EXCEPT ![p] = to] /\ pc[p] \in {"connect", "retry"} /\ p \in Pids
            /\ to = "relay" => Listening(sock) /\ conn' = [conn EXCEPT ![p] = sock]
            /\ to # "relay" => conn' = conn
            /\ UNCHANGED <<file, seen, sock, clients, raced, exit_tx>>
    BY <1>2 DEF connect, retry, Goes, Connected, Hub
  <2>2. file # p
    BY <2>1 DEF RuntimeInv, RuntimeTypes, NamedHasWritten
  <2>3. /\ conn' \in [Proxies -> Runtimes \cup {NoLock}]
        /\ \A q \in Proxies : pc'[q] = "relay" => conn'[q] # NoLock
    BY <2>1 DEF RuntimeInv, RuntimeTypes, Listening
  <2> QED BY <2>1, <2>2, <2>3, MoveKeepsRuntime DEF RuntimeInv, RuntimeTypes, Stages, ProxyStages
<1>3. CASE proxy_reads(p)
  BY <1>3, ReadKeepsRuntime DEF proxy_reads, Stages, ProxyStages
<1>4. CASE proxy_writes(p)
  BY <1>4, WriteKeepsRuntime DEF proxy_writes
<1>5. ASSUME NEW r \in Runtimes, spawn(p, r)
      PROVE  RuntimeInv'
  <2> USE <1>5 DEF RuntimeInv, RuntimeTypes
  <2>1. /\ pc[p] = "spawn" /\ pc[r] \in {"off", "none"}
        /\ pc' = [pc EXCEPT ![p] = "wait_held", ![r] = "read"]
        /\ UNCHANGED <<file, seen, sock, conn, clients, raced, exit_tx>>
    BY DEF spawn, Fresh, Hub
  <2>2. RuntimeTypes'
    BY <2>1 DEF Stages, ProxyStages, RuntimeStages
  <2>3. NamedHasWritten'
    BY <2>1 DEF NamedHasWritten
  <2>4. OverwritesTheDead'
    BY <2>1 DEF OverwritesTheDead, ForGood
  <2>5. OwnerIsNamed'
    BY <2>1 DEF OwnerIsNamed, Owner
  <2> QED BY <2>2, <2>3, <2>4, <2>5
<1>6. CASE spawn_fails(p)
  BY <1>6, DropKeepsRuntime DEF spawn_fails, Goes, Hub, RuntimeInv, RuntimeTypes
<1>7. CASE wait_for_socket(p)
  <2>1. /\ pc' = [pc EXCEPT ![p] = "relay"] /\ pc[p] \in {"wait", "wait_held"}
        /\ Listening(sock) /\ conn' = [conn EXCEPT ![p] = sock]
        /\ file' \in {file, release(file, p)}
        /\ UNCHANGED <<seen, sock, clients, raced, exit_tx>>
    BY <1>7 DEF wait_for_socket, Goes, Connected, Drop, Hub
  <2>2. /\ conn' \in [Proxies -> Runtimes \cup {NoLock}]
        /\ \A q \in Proxies : pc'[q] = "relay" => conn'[q] # NoLock
    BY <2>1 DEF RuntimeInv, RuntimeTypes, Listening
  <2> QED BY <2>1, <2>2, DropKeepsRuntime
<1>8. CASE wait_times_out(p)
  BY <1>8, DropKeepsRuntime DEF wait_times_out, Goes, Drop, Hub, RuntimeInv, RuntimeTypes
<1>9. CASE register(p)
  BY <1>9 DEF register, Hub, RuntimeInv, RuntimeTypes, NamedHasWritten, OverwritesTheDead, OwnerIsNamed, Owner
<1>10. CASE disconnect(p)
  BY <1>10, EndKeepsRuntime DEF disconnect
<1> QED
  BY <1>1, <1>2, <1>3, <1>4, <1>5, <1>6, <1>7, <1>8, <1>9, <1>10 DEF ProxyStep

\* every step of a runtime too,
LEMMA StepKeepsRuntime ==
    ASSUME RuntimeInv, NEW r \in Runtimes, RuntimeStep(r)
    PROVE  RuntimeInv'
<1> USE PidsAreDistinct DEF Pids
<1>1. CASE runtime_reads(r)
  BY <1>1, ReadKeepsRuntime DEF runtime_reads, Stages, RuntimeStages
<1>2. CASE runtime_writes(r)
  BY <1>2, WriteKeepsRuntime DEF runtime_writes
<1>3. CASE remove_socket(r)
  BY <1>3, MoveKeepsRuntime DEF remove_socket, Goes, Hub, RuntimeInv, RuntimeTypes, Stages, RuntimeStages, Owner
<1>4. CASE bind(r)
  <2>1. PICK to \in {"serve", "done"} :
            /\ pc' = [pc EXCEPT ![r] = to] /\ pc[r] = "bind"
            /\ sock' \in {sock, r}
            /\ UNCHANGED <<file, seen, conn, clients, raced, exit_tx>>
    BY <1>4 DEF bind, Goes, Hub
  <2>2. /\ sock' \in Runtimes \cup {NoLock} /\ conn' \in [Proxies -> Runtimes \cup {NoLock}]
        /\ \A p \in Proxies : pc'[p] = "relay" => conn'[p] # NoLock
    BY <2>1 DEF RuntimeInv, RuntimeTypes
  <2>3. to \in Stages /\ to \in RuntimeStages /\ Owner(r) /\ r \in Pids /\ r \notin Proxies
    BY <2>1 DEF Stages, RuntimeStages, Owner
  <2> QED BY <2>1, <2>2, <2>3, MoveKeepsRuntime
<1>5. CASE lifecycle_check(r) \/ dispose_idle_warm(r)
  <2>1. PICK to \in {pc[r], "reap", "serve"} :
            /\ pc' = [pc EXCEPT ![r] = to] /\ pc[r] \in {"serve", "reap"}
            /\ UNCHANGED <<file, seen, sock, conn, clients, raced>>
            /\ exit_tx' \subseteq exit_tx \cup {r}
    BY <1>5 DEF lifecycle_check, dispose_idle_warm, Goes, Signal, RuntimeInv, RuntimeTypes
  <2> USE <2>1 DEF RuntimeInv, RuntimeTypes
  <2>2. RuntimeTypes'
    BY DEF Stages, ProxyStages, RuntimeStages
  <2>3. NamedHasWritten'
    BY DEF NamedHasWritten
  <2>4. OverwritesTheDead'
    BY DEF OverwritesTheDead, ForGood
  <2>5. OwnerIsNamed'
    BY DEF OwnerIsNamed, Owner
  <2> QED BY <2>2, <2>3, <2>4, <2>5
<1>6. CASE stop_accepting(r)
  BY <1>6, EndKeepsRuntime DEF stop_accepting
<1> QED
  BY <1>1, <1>2, <1>3, <1>4, <1>5, <1>6 DEF RuntimeStep

\* and so does everybody.
LEMMA NextKeepsRuntime == RuntimeInv /\ [Next]_vars => RuntimeInv'
<1> SUFFICES ASSUME RuntimeInv, [Next]_vars PROVE RuntimeInv'
  OBVIOUS
<1>1. CASE UNCHANGED <<pc, file, seen, sock, conn, clients, exit_tx, raced>>
  BY <1>1 DEF RuntimeInv, RuntimeTypes, NamedHasWritten, OverwritesTheDead, OwnerIsNamed, Owner
<1>2. ASSUME NEW p \in Proxies, NEW s \in Openable, open_session(p, s) \/ start_turn(p, s)
      PROVE  RuntimeInv'
  BY <1>1, <1>2 DEF open_session, start_turn
<1>3. ASSUME NEW r \in Runtimes, NEW s \in Openable, end_turn(r, s)
      PROVE  RuntimeInv'
  BY <1>1, <1>3 DEF end_turn
<1>4. ASSUME NEW x \in Pids, kill(x)
      PROVE  RuntimeInv'
  BY <1>4, EndKeepsRuntime DEF kill, Alive
<1>5. CASE UNCHANGED vars
  BY <1>1, <1>5 DEF vars, Hub
<1> QED
  BY <1>2, <1>3, <1>4, <1>5, ProxyKeepsRuntime, StepKeepsRuntime DEF Next

-----------------------------------------------------------------------------
(* The theorems *)

\* Two runtimes that the invariant allows are one.
LEMMA RuntimeInvGivesOne == RuntimeInv => OneRuntime
<1> SUFFICES ASSUME RuntimeInv, ~raced
             PROVE  Cardinality({r \in Runtimes : pc[r] \in {"unlink", "bind"} \/ Listening(r)}) <= 1
  BY DEF OneRuntime
<1> DEFINE owners == {r \in Runtimes : pc[r] \in {"unlink", "bind"} \/ Listening(r)}
<1>1. owners \subseteq {file}
  BY DEF RuntimeInv, OwnerIsNamed, Owner, Listening
<1>2. IsFiniteSet({file}) /\ Cardinality({file}) = 1
  BY FS_Singleton
<1> QED BY <1>1, <1>2, FS_Subset

\* Every variable keeps its type (a relay has a runtime at its other end, and only relays are
\* registered with a hub).
THEOREM RuntimeTypeCorrect == Spec => []TypeOK
<1>1. RuntimeInv => TypeOK
  BY DEF RuntimeInv, RuntimeTypes, TypeOK
<1> QED BY RuntimeBegins, NextKeepsRuntime, <1>1, PTL DEF Spec

\* One runtime serves a remote root, whoever is killed and whoever comes back, unless the lock's
\* read and write were raced (pidlock.rs acquire_pid_lock, main.rs run_remote_runtime_mode).
THEOREM OneRuntimeCorrect == Spec => []OneRuntime
BY RuntimeBegins, NextKeepsRuntime, RuntimeInvGivesOne, PTL DEF Spec

-----------------------------------------------------------------------------
(* The warm pool: the invariant *)

\* The call in progress and what it has in hand belong together.
CallsAreFiled ==
    op # Null =>
      /\ op.conn # Null => conns[op.conn] # Null /\ conns[op.conn].sid = op.sid
      /\ op.pc \in {"dispose", "insert", "evict", "detach"} => op.conn # Null
      /\ op.pc \in {"install", "echo"} => op.conn = Null
      /\ op.pc \in {"dispose", "install", "insert", "detach"} => warm[op.sid] = Null
      /\ op.pc \in {"evict", "finish"} /\ op.conn # Null => warm[op.sid] \in {Null, op.conn}
      /\ op.pc = "evict" => op.sid \notin ToSet(op.victims)
      /\ op.pc = "echo" => op.upto \in Rows
      /\ op.closing # Null => /\ op.pc = "evict" /\ conns[op.closing] # Null
                              /\ warm[conns[op.closing].sid] = Null
      /\ op.reseed => owed[op.sid] = {} /\ op.pc \notin {"detach", "echo"}

\* Until the reaper runs, an attachment the pool or a call relies on is alive.
NobodyForgotten ==
    reaps = 0 =>
      /\ reap = Null
      /\ op # Null => /\ op.pc = "insert" => Live(op.conn)
                      /\ op.pc \in {"evict", "finish"} /\ op.conn # Null => warm[op.sid] = op.conn

\* An attachment that will be torn down.
Ending(i) == op # Null /\ ((op.pc \in {"dispose", "detach"} /\ i = op.conn) \/ i = op.closing)

\* What the reaper is about to dispose of is in the pool, or is being torn down.
ReapsWarm ==
    reap # Null =>
      \A i \in reap : conns[i] # Null /\ (Live(i) => warm[conns[i].sid] = i \/ Ending(i))

\* ev does not take row n of s back.
NoRollback(ev, s, n) == ev.sid = s /\ ev.kind = "history" => n <= ev.upto
\* ev brings row n of s to its journal.
Tells(ev, s, n) == ev.sid = s /\ ((ev.kind = "row" /\ ev.n = n) \/ (ev.kind = "history" /\ n <= ev.upto))

\* Row n of s is in the inbox of its attachment; or no replay in preparation can take it back, and
\* it is in the journal and nothing on the bus takes it back, or an event on the bus brings it and
\* nothing behind that one takes it back.
Safe(s, n) ==
    \/ \E k \in DOMAIN conns[warm[s]].inbox : conns[warm[s]].inbox[k] = [kind |-> "row", n |-> n]
    \/ /\ conns[warm[s]].effect # Null /\ conns[warm[s]].effect.kind = "replay" => n <= conns[warm[s]].effect.upto
       /\ \/ n \in ToSet(journaled[s]) /\ \A k \in DOMAIN bus : NoRollback(bus[k], s, n)
          \/ \E k \in DOMAIN bus : Tells(bus[k], s, n) /\ \A m \in DOMAIN bus : m > k => NoRollback(bus[m], s, n)

\* A session that is owed rows is warm and journaled; what it is owed its daemon has, and is safe,
\* unless an attachment of the session was forgotten.
RowsAreSafe ==
    \A s \in Sessions :
      /\ owed[s] # {} => IsWarm(s) /\ journaled[s] # Null
      /\ \A n \in owed[s] : n <= daemon[s].rows /\ (Forgotten(s) \/ Safe(s, n))

\* The inductive invariant of the warm pool.
PoolInv == PoolTypeOK /\ PoolIsOrdered /\ LiveIffWarm /\ CallsAreFiled /\ NobodyForgotten /\ ReapsWarm /\ RowsAreSafe

-----------------------------------------------------------------------------
(* The warm pool: retain *)

\* Induction over the naturals, on a set: a nonempty set of counterexamples has a smallest one.
LEMMA SetInduction ==
    ASSUME NEW T, 0 \in T, \A n \in Nat : n \in T => n + 1 \in T
    PROVE  \A n \in Nat : n \in T
<1> SUFFICES ASSUME NEW n \in Nat, n \notin T PROVE FALSE
  OBVIOUS
<1> DEFINE B == {0..k : k \in Nat \ T}
<1>1. B \subseteq FiniteSubsetsOf(Nat)
  <2>1. \A k \in Nat : 0..k \in SUBSET Nat /\ IsFiniteSet(0..k)
    BY FS_Interval
  <2>2. QED  BY <2>1 DEF FiniteSubsetsOf
<1>2. B # {}  OBVIOUS
<1>3. \E x \in B : \A y \in B : ~(<<y, x>> \in StrictSubsetOrdering(Nat))
  <2> HIDE DEF B
  <2>1. IsWellFoundedOn(StrictSubsetOrdering(Nat), FiniteSubsetsOf(Nat))
    BY FS_StrictSubsetOrderingWellFounded
  <2>2. QED  BY <1>1, <1>2, <2>1, WFMin
<1>4. PICK k \in Nat \ T : \A y \in B : ~(<<y, 0..k>> \in StrictSubsetOrdering(Nat))
  BY <1>3
<1>5. k # 0  BY <1>4
<1>6. k - 1 \in Nat \ T
  <2>1. k - 1 \in Nat /\ (k - 1) + 1 = k
    BY <1>4, <1>5
  <2>2. QED BY <1>4, <2>1
<1>7. 0..(k-1) \in B  BY <1>6
<1>8. 0..(k-1) \subseteq Nat /\ 0..k \subseteq Nat /\ 0..(k-1) \subseteq 0..k /\ 0..(k-1) # 0..k
  <2>1. k \in 0..k /\ k \notin 0..(k-1)  BY <1>4
  <2>2. QED  BY <2>1, <1>4
<1>9. <<0..(k-1), 0..k>> \in StrictSubsetOrdering(Nat)
  BY <1>8 DEF StrictSubsetOrdering
<1> QED BY <1>4, <1>7, <1>9

\* g is the function retain computes with.
Retaining(g, s, keep, L) ==
    g = [n \in 0..L |-> IF n = 0 THEN <<>> ELSE IF s[n] \in keep THEN Append(g[n - 1], s[n]) ELSE g[n - 1]]

\* The recursive function of retain exists, by induction on its domain.
LEMMA RetainingExists ==
    ASSUME NEW s, NEW keep, NEW L \in Nat
    PROVE  \E g : Retaining(g, s, keep, L)
<1> DEFINE T == {k \in Nat : \E g : Retaining(g, s, keep, k)}
<1>1. 0 \in T
  <2> DEFINE g == [n \in 0..0 |-> <<>>]
  <2>1. Retaining(g, s, keep, 0)
    BY DEF Retaining
  <2> QED BY <2>1
<1>2. ASSUME NEW k \in Nat, k \in T PROVE k + 1 \in T
  <2>1. PICK g : Retaining(g, s, keep, k)
    BY <1>2
  <2> DEFINE h == [n \in 0..k + 1 |-> IF n = k + 1 THEN (IF s[k + 1] \in keep THEN Append(g[k], s[k + 1]) ELSE g[k]) ELSE g[n]]
  <2>2. \A n \in 0..k + 1 : h[n] = IF n = 0 THEN <<>> ELSE IF s[n] \in keep THEN Append(h[n - 1], s[n]) ELSE h[n - 1]
    <3> TAKE n \in 0..k + 1
    <3>1. CASE n = k + 1
      <4>1. h[n] = (IF s[k + 1] \in keep THEN Append(g[k], s[k + 1]) ELSE g[k]) /\ n - 1 = k /\ n # 0
        BY <3>1
      <4>2. h[k] = g[k]
        OBVIOUS
      <4> HIDE DEF h
      <4> QED BY <3>1, <4>1, <4>2
    <3>2. CASE n # k + 1
      <4>1. n \in 0..k /\ h[n] = g[n]
        BY <3>2
      <4>2. CASE n = 0
        BY <4>1, <4>2, <2>1 DEF Retaining
      <4>3. CASE n # 0
        <5>1. n - 1 \in 0..k /\ n - 1 \in 0..k + 1 /\ n - 1 # k + 1
          BY <4>1, <4>3
        <5>2. h[n - 1] = g[n - 1]
          BY <5>1
        <5> HIDE DEF h
        <5> QED BY <4>1, <4>3, <5>2, <2>1 DEF Retaining
      <4> QED BY <4>2, <4>3
    <3> QED BY <3>1, <3>2
  <2>3. Retaining(h, s, keep, k + 1)
    <3> HIDE DEF T
    <3> QED BY <2>2 DEF Retaining
  <2> QED BY <2>3
<1>3. L \in T
  <2> HIDE DEF T
  <2> QED BY <1>1, <1>2, SetInduction
<1> QED BY <1>3

\* No element twice.
Once(s) == \A a, b \in DOMAIN s : s[a] = s[b] => a = b

\* What Vec::retain returns: the elements of s in keep, in a sequence without repetition if s is.
LEMMA RetainKeeps ==
    ASSUME NEW S, NEW s \in Seq(S), NEW keep
    PROVE  /\ retain(s, keep) \in Seq(S)
           /\ \A x : x \in ToSet(retain(s, keep)) <=> x \in ToSet(s) /\ x \in keep
           /\ Once(s) => Once(retain(s, keep))
<1>1. PICK L \in Nat : L = Len(s)
  OBVIOUS
<1> DEFINE kept == CHOOSE g : Retaining(g, s, keep, L)
<1>2. Retaining(kept, s, keep, L)
  BY RetainingExists
<1>3. retain(s, keep) = kept[L]
  BY <1>1 DEF retain, Retaining
<1> HIDE DEF kept
<1> DEFINE From(r, n) == \A i \in DOMAIN r : r[i] \in keep /\ \E m \in 1..n : r[i] = s[m]
           Has(r, n) == \A m \in 1..n : s[m] \in keep => \E i \in DOMAIN r : r[i] = s[m]
           P(n) == kept[n] \in Seq(S) /\ From(kept[n], n) /\ Has(kept[n], n) /\ (Once(s) => Once(kept[n]))
           T == {n \in Nat : n <= L => P(n)}
<1>4. 0 \in T
  <2>1. kept[0] = <<>>
    BY <1>2 DEF Retaining
  <2>2. kept[0] \in Seq(S) /\ DOMAIN kept[0] = {}
    BY <2>1
  <2>3. From(kept[0], 0) /\ (Once(s) => Once(kept[0]))
    BY <2>2 DEF Once
  <2>4. Has(kept[0], 0)
    OBVIOUS
  <2> HIDE DEF From, Has
  <2> QED BY <2>2, <2>3, <2>4
<1>5. ASSUME NEW n \in Nat, n \in T PROVE n + 1 \in T
  <2> SUFFICES ASSUME n + 1 <= L PROVE P(n + 1)
    OBVIOUS
  <2>1. PICK r : r = kept[n]
    OBVIOUS
  <2>2. r \in Seq(S) /\ From(r, n) /\ Has(r, n) /\ (Once(s) => Once(r))
    BY <1>5, <2>1
  <2>3. n + 1 \in 0..L /\ n + 1 # 0 /\ (n + 1) - 1 = n /\ n + 1 \in DOMAIN s /\ s[n + 1] \in S
    BY <1>1
  <2>4. kept[n + 1] = IF s[n + 1] \in keep THEN Append(r, s[n + 1]) ELSE r
    BY <1>2, <2>1, <2>3 DEF Retaining
  <2>5. CASE s[n + 1] \notin keep
    <3>1. kept[n + 1] = r
      BY <2>4, <2>5
    <3>2. From(r, n + 1)
      BY <2>2
    <3>3. Has(r, n + 1)
      <4>1. \A m \in 1..n + 1 : m \in 1..n \/ m = n + 1
        OBVIOUS
      <4> QED BY <2>2, <2>5, <4>1
    <3> QED BY <2>2, <3>1, <3>2, <3>3
  <2>6. CASE s[n + 1] \in keep
    <3>1. PICK more, x, k : more = Append(r, x) /\ x = s[n + 1] /\ k = Len(r)
      OBVIOUS
    <3>2. kept[n + 1] = more
      BY <2>4, <2>6, <3>1
    <3>3. /\ more \in Seq(S) /\ DOMAIN more = 1..k + 1 /\ k \in Nat /\ DOMAIN r = 1..k
          /\ \A i \in 1..k : more[i] = r[i]
          /\ more[k + 1] = x
      BY <2>2, <2>3, <3>1
    <3>4. \A i \in DOMAIN more : (i \in DOMAIN r /\ more[i] = r[i]) \/ (i = k + 1 /\ more[i] = x)
      BY <3>3
    <3>5. From(more, n + 1)
      <4> SUFFICES ASSUME NEW i \in DOMAIN more PROVE more[i] \in keep /\ \E m \in 1..n + 1 : more[i] = s[m]
        OBVIOUS
      <4>1. CASE i \in DOMAIN r /\ more[i] = r[i]
        <5>1. PICK j \in 1..n : r[i] = s[j] /\ r[i] \in keep
          BY <2>2, <4>1
        <5>2. j \in 1..n + 1 /\ more[i] = s[j] /\ more[i] \in keep
          BY <4>1, <5>1
        <5> QED BY <5>2
      <4>2. CASE more[i] = x
        <5>1. n + 1 \in 1..n + 1 /\ more[i] = s[n + 1] /\ more[i] \in keep
          BY <2>6, <3>1, <4>2
        <5> QED BY <5>1
      <4> QED BY <3>4, <4>1, <4>2
    <3>6. Has(more, n + 1)
      <4> SUFFICES ASSUME NEW m \in 1..n + 1, s[m] \in keep PROVE \E i \in DOMAIN more : more[i] = s[m]
        OBVIOUS
      <4>1. CASE m = n + 1
        BY <3>1, <3>3, <4>1
      <4>2. CASE m \in 1..n
        <5>1. PICK i \in DOMAIN r : r[i] = s[m]
          BY <2>2, <4>2
        <5>2. i \in DOMAIN more /\ more[i] = s[m]
          BY <3>3, <5>1
        <5> QED BY <5>2
      <4> QED BY <4>1, <4>2
    <3>7. ASSUME Once(s) PROVE Once(more)
      <4>1. \A i \in DOMAIN r : r[i] # x
        <5> TAKE i \in DOMAIN r
        <5>1. PICK m \in 1..n : r[i] = s[m]
          BY <2>2
        <5>2. m \in DOMAIN s /\ m # n + 1
          BY <1>1, <5>1
        <5> QED BY <2>3, <3>1, <3>7, <5>1, <5>2 DEF Once
      <4>2. Once(r)
        BY <2>2, <3>7
      <4> QED BY <3>3, <3>4, <4>1, <4>2 DEF Once
    <3> QED BY <3>2, <3>3, <3>5, <3>6, <3>7
  <2> QED BY <2>5, <2>6
<1>6. L \in T
  <2> HIDE DEF T
  <2> QED BY <1>4, <1>5, SetInduction
<1>7. P(L)
  BY <1>6
<1>8. DOMAIN s = 1..L
  BY <1>1
<1> HIDE DEF T
<1>9. \A x : x \in ToSet(kept[L]) <=> x \in ToSet(s) /\ x \in keep
  <2>1. PICK r : r = kept[L]
    OBVIOUS
  <2>2. From(r, L) /\ Has(r, L)
    BY <1>7, <2>1
  <2>3. ASSUME NEW x, x \in ToSet(r) PROVE x \in ToSet(s) /\ x \in keep
    <3>1. PICK i \in DOMAIN r : r[i] = x
      BY <2>3 DEF ToSet
    <3> QED BY <1>8, <2>2, <3>1 DEF ToSet
  <2>4. ASSUME NEW x, x \in ToSet(s), x \in keep PROVE x \in ToSet(r)
    <3>1. PICK m \in 1..L : s[m] = x
      BY <1>8, <2>4 DEF ToSet
    <3>2. PICK i \in DOMAIN r : r[i] = x
      BY <2>2, <2>4, <3>1
    <3> QED BY <3>2 DEF ToSet
  <2> QED BY <2>1, <2>3, <2>4
<1> QED BY <1>3, <1>7, <1>9

\* Focusing s adds it to the recency order if it is missing, and never twice.
LEMMA FocusedKeeps ==
    ASSUME NEW o \in Seq(Sessions), NEW s \in Sessions
    PROVE  /\ focused(o, s) \in Seq(Sessions)
           /\ \A x : x \in ToSet(focused(o, s)) <=> x \in ToSet(o) \/ x = s
           /\ Once(o) => Once(focused(o, s))
<1>1. PICK r : r = retain(o, Sessions \ {s})
  OBVIOUS
<1>2. /\ r \in Seq(Sessions) /\ (Once(o) => Once(r))
      /\ \A x : x \in ToSet(r) <=> x \in ToSet(o) /\ x \in Sessions \ {s}
  BY <1>1, RetainKeeps
<1>3. PICK more, k : more = Append(r, s) /\ k = Len(r)
  OBVIOUS
<1>4. focused(o, s) = more
  BY <1>1, <1>3 DEF focused
<1>5. /\ more \in Seq(Sessions) /\ k \in Nat /\ DOMAIN more = 1..k + 1 /\ DOMAIN r = 1..k
      /\ \A i \in 1..k : more[i] = r[i]
      /\ more[k + 1] = s
  BY <1>2, <1>3
<1>6. \A x : x \in ToSet(more) <=> x \in ToSet(r) \/ x = s
  BY <1>5 DEF ToSet
<1>7. ToSet(o) \subseteq Sessions
  BY DEF ToSet
<1>8. \A x : x \in ToSet(more) <=> x \in ToSet(o) \/ x = s
  BY <1>2, <1>6, <1>7
<1>9. ASSUME Once(o) PROVE Once(more)
  <2>1. \A i \in DOMAIN r : r[i] # s
    BY <1>2 DEF ToSet
  <2> QED BY <1>2, <1>5, <1>9, <2>1 DEF Once
<1> QED BY <1>4, <1>5, <1>8, <1>9

-----------------------------------------------------------------------------
(* The warm pool: event streams *)

\* d is attachment c, or c with another stream, inbox, effect or cached state.
Evolved(c, d) == c = d \/ (c \in Conn /\ d \in Conn /\ d.sid = c.sid /\ d.pid = c.pid /\ d.live = c.live)

\* No attachment is made, ended or stopped.
ConnsKept == conns' \in [Conns -> Conn \cup {Null}] /\ \A k \in Conns : Evolved(conns[k], conns'[k])

\* d is c, or c with ev at the end of its inbox.
Fed(c, d, ev) == d = c \/ (c \in Conn /\ d \in Conn /\ d.sid = c.sid /\ d.pid = c.pid /\ d.live = c.live
                           /\ d.effect = c.effect /\ d.inbox = Append(c.inbox, ev))

\* The fields of an attachment.
LEMMA ConnFields ==
    ASSUME NEW c \in Conn
    PROVE  /\ c.sid \in Sessions /\ c.pid \in Conns /\ c.live \in BOOLEAN /\ c.cached \in BOOLEAN
           /\ c.inbox \in Seq(StreamEvent) /\ c.effect \in Effect \cup {Null} /\ c # Null
  BY NullAssumption DEF Conn

\* A place in conns that is not Null holds an attachment.
LEMMA ConnIsConn ==
    ASSUME PoolTypeOK, NEW k \in Conns
    PROVE  conns[k] # Null <=> conns[k] \in Conn
  BY NullAssumption DEF PoolTypeOK

\* An event more in an inbox.
LEMMA FedOne ==
    ASSUME NEW c \in Conn, NEW ev \in StreamEvent
    PROVE  /\ [c EXCEPT !.inbox = Append(@, ev)] \in Conn
           /\ Fed(c, [c EXCEPT !.inbox = Append(@, ev)], ev)
<1>1. PICK box : box = Append(c.inbox, ev)
  OBVIOUS
<1>2. box \in Seq(StreamEvent)
  BY <1>1, ConnFields
<1>3. PICK d : d = [c EXCEPT !.inbox = box]
  OBVIOUS
<1>4. /\ d \in Conn /\ d.sid = c.sid /\ d.pid = c.pid /\ d.live = c.live
      /\ d.effect = c.effect /\ d.inbox = box
  BY <1>2, <1>3 DEF Conn
<1> QED BY <1>1, <1>3, <1>4 DEF Fed

\* An event of s reaches the open streams of s and nothing else.
LEMMA StreamedFeeds ==
    ASSUME PoolTypeOK, NEW s \in Sessions, NEW ev \in StreamEvent
    PROVE  /\ Streamed(s, ev) \in [Conns -> Conn \cup {Null}]
           /\ \A k \in Conns : Fed(conns[k], Streamed(s, ev)[k], ev)
           /\ \A k \in Conns : Live(k) /\ conns[k].sid = s /\ conns[k].pid = daemon[s].pid
                               /\ conns[k].sse = "open"
                               => Streamed(s, ev)[k].inbox = Append(conns[k].inbox, ev)
<1> DEFINE f == Streamed(s, ev)
<1>1. ASSUME NEW k \in Conns
      PROVE  /\ f[k] \in Conn \cup {Null} /\ Fed(conns[k], f[k], ev)
             /\ Live(k) /\ conns[k].sid = s /\ conns[k].pid = daemon[s].pid
                               /\ conns[k].sse = "open"
                               => f[k].inbox = Append(conns[k].inbox, ev)
  <2> DEFINE Hears == Live(k) /\ conns[k].sid = s /\ conns[k].pid = daemon[s].pid /\ conns[k].sse = "open"
  <2>1. CASE Hears
    <3>1. PICK c : c = conns[k]
      OBVIOUS
    <3>2. c \in Conn
      BY <2>1, <3>1, ConnIsConn DEF Live
    <3>3. PICK d : d = [c EXCEPT !.inbox = Append(@, ev)]
      OBVIOUS
    <3>4. d \in Conn /\ Fed(c, d, ev)
      BY <3>2, <3>3, FedOne
    <3>5. f[k] = d
      BY <2>1, <3>1, <3>3 DEF Streamed
    <3>6. d.inbox = Append(c.inbox, ev)
      BY <3>2, <3>3 DEF Conn
    <3> HIDE DEF f
    <3> QED BY <3>1, <3>4, <3>5, <3>6
  <2>2. CASE ~Hears
    <3>1. f[k] = conns[k]
      BY <2>2 DEF Streamed
    <3> HIDE DEF f
    <3> QED BY <2>2, <3>1 DEF Fed, PoolTypeOK
  <2> QED BY <2>1, <2>2
<1>2. DOMAIN f = Conns /\ f = [k \in Conns |-> f[k]]
  BY DEF Streamed
<1> HIDE DEF f
<1>3. f \in [Conns -> Conn \cup {Null}]
  BY <1>1, <1>2
<1> QED BY <1>1, <1>3 DEF f

\* Streaming an event makes, ends and stops no attachment.
LEMMA StreamedKeeps ==
    ASSUME PoolTypeOK, NEW s \in Sessions, NEW ev \in StreamEvent, conns' = Streamed(s, ev)
    PROVE  ConnsKept
<1>1. PICK f : f = Streamed(s, ev)
  OBVIOUS
<1>2. f \in [Conns -> Conn \cup {Null}] /\ \A k \in Conns : Fed(conns[k], f[k], ev)
  BY <1>1, StreamedFeeds
<1> QED BY <1>1, <1>2 DEF ConnsKept, Evolved, Fed

\* One attachment evolves.
LEMMA OneEvolves ==
    ASSUME PoolTypeOK, NEW i \in Conns, NEW d, conns[i] # Null,
           d \in Conn, d.sid = conns[i].sid, d.pid = conns[i].pid, d.live = conns[i].live,
           conns' = [conns EXCEPT ![i] = d]
    PROVE  ConnsKept
<1>1. conns[i] \in Conn
  BY ConnIsConn
<1> QED BY <1>1 DEF ConnsKept, Evolved, PoolTypeOK

\* Attachments that are left alone are kept.
LEMMA SameConns ==
    ASSUME PoolTypeOK, conns' = conns
    PROVE  ConnsKept
  BY DEF ConnsKept, Evolved, PoolTypeOK

\* What ConnsKept says of each attachment.
LEMMA KeptConn ==
    ASSUME ConnsKept, NEW k \in Conns
    PROVE  /\ conns'[k] # Null <=> conns[k] # Null
           /\ conns'[k].sid = conns[k].sid
           /\ conns'[k].live = conns[k].live
           /\ Live(k)' <=> Live(k)
  BY NullAssumption DEF ConnsKept, Evolved, Live

\* A step of the daemons, the consumers or the hub: the pool, the call and the reaper stay.
Quiet == ConnsKept /\ warm' = warm /\ order' = order /\ op' = op /\ reap' = reap /\ reaps' = reaps

\* A quiet step keeps everything but the types and the rows.
LEMMA QuietFiled ==
    ASSUME PoolInv, Quiet,
           op # Null => (owed[op.sid] = {} => owed'[op.sid] = {} \/ ~op.reseed)
    PROVE  CallsAreFiled' /\ NobodyForgotten' /\ LiveIffWarm' /\ ReapsWarm' /\ PoolIsOrdered'
           /\ \A s \in Sessions : Forgotten(s) => Forgotten(s)'
<1> USE DEF Quiet
<1>1. op # Null => op \in Calling
  BY DEF PoolInv, PoolTypeOK
<1>2. op # Null => op.conn \in Conns \cup {Null} /\ op.closing \in Conns \cup {Null} /\ op.sid \in Sessions
  BY <1>1 DEF Calling
<1>3. \A k \in Conns : (conns'[k] # Null <=> conns[k] # Null) /\ conns'[k].sid = conns[k].sid /\ (Live(k)' <=> Live(k))
  BY KeptConn
<1>4. CallsAreFiled'
  <2>1. CallsAreFiled
    BY DEF PoolInv
  <2> QED BY <1>2, <1>3, <2>1 DEF CallsAreFiled
<1>5. NobodyForgotten'
  <2>1. NobodyForgotten /\ CallsAreFiled
    BY DEF PoolInv
  <2>2. op # Null /\ op.pc = "insert" => op.conn \in Conns
    BY <1>2, <2>1 DEF CallsAreFiled
  <2> QED BY <1>3, <2>1, <2>2 DEF NobodyForgotten
<1>6. LiveIffWarm'
  <2>1. LiveIffWarm
    BY DEF PoolInv
  <2> QED BY <1>3, <2>1 DEF LiveIffWarm
<1>7. ReapsWarm'
  <2>1. ReapsWarm /\ (reap = Null \/ reap \subseteq Conns)
    BY DEF PoolInv, PoolTypeOK
  <2> QED BY <1>3, <2>1 DEF ReapsWarm, Ending
<1>8. PoolIsOrdered'
  BY DEF PoolInv, PoolIsOrdered, IsWarm
<1>9. ASSUME NEW s \in Sessions, Forgotten(s) PROVE Forgotten(s)'
  BY <1>3, <1>9 DEF Forgotten
<1> QED BY <1>4, <1>5, <1>6, <1>7, <1>8, <1>9

-----------------------------------------------------------------------------
(* The warm pool: rows on their way *)

\* The fields of an event on the bus.
LEMMA BusFields ==
    ASSUME NEW ev \in BusEvent
    PROVE  /\ ev.sid \in Sessions
           /\ ev.kind \in {"row", "updated", "history", "failed", "closed"}
           /\ ev.kind = "row" => ev.n \in Rows
           /\ ev.kind \in {"updated", "history"} => ev.running \in BOOLEAN
           /\ ev.kind = "history" => ev.upto \in 0..MaxRows
  BY DEF BusEvent

\* The bus as it was, or with one event more that is no history of s.
Emitted(s) == bus' = bus \/ \E ev \in BusEvent : bus' = Append(bus, ev) /\ (ev.sid = s => ev.kind # "history")

\* The inbox of the attachment of s as it was or with one event more, and no new replay.
InboxKept(s) ==
    LET c == conns[warm[s]]
        d == conns'[warm[s]]
    IN  /\ d.inbox = c.inbox \/ \E ev \in StreamEvent : d.inbox = Append(c.inbox, ev)
        /\ d.effect = c.effect \/ d.effect = Null \/ d.effect.kind # "replay"

\* Nothing of what keeps the rows of s safe is touched.
Carried(s) == warm'[s] = warm[s] /\ journaled'[s] = journaled[s] /\ Emitted(s) /\ InboxKept(s)

\* A row in an inbox stays there when an event is added.
LEMMA InBoxKept ==
    ASSUME NEW box \in Seq(StreamEvent), NEW more, NEW n,
           more = box \/ (\E ev \in StreamEvent : more = Append(box, ev)),
           \E k \in DOMAIN box : box[k] = [kind |-> "row", n |-> n]
    PROVE  \E k \in DOMAIN more : more[k] = [kind |-> "row", n |-> n]
<1>1. PICK k \in DOMAIN box : box[k] = [kind |-> "row", n |-> n]
  OBVIOUS
<1>2. CASE more = box
  BY <1>1, <1>2
<1>3. ASSUME NEW ev \in StreamEvent, more = Append(box, ev) PROVE k \in DOMAIN more /\ more[k] = box[k]
  BY <1>3
<1> QED BY <1>1, <1>2, <1>3

\* The half of Safe that is about the bus b and the journal j.
BusTells(b, j, s, n) ==
    \/ n \in ToSet(j) /\ \A k \in DOMAIN b : NoRollback(b[k], s, n)
    \/ \E k \in DOMAIN b : Tells(b[k], s, n) /\ \A m \in DOMAIN b : m > k => NoRollback(b[m], s, n)

\* A row the bus brings or the journal has stays so when an event that does not take it back is
\* added, and becomes so when one that brings it is.
LEMMA EmitTells ==
    ASSUME NEW b \in Seq(BusEvent), NEW j, NEW s, NEW n, NEW ev \in BusEvent,
           (BusTells(b, j, s, n) /\ NoRollback(ev, s, n)) \/ Tells(ev, s, n)
    PROVE  BusTells(Append(b, ev), j, s, n)
<1>1. PICK c, L : c = Append(b, ev) /\ L = Len(b)
  OBVIOUS
<1>2. /\ L \in Nat /\ DOMAIN b = 1..L /\ DOMAIN c = 1..L + 1 /\ c[L + 1] = ev
      /\ \A k \in 1..L : c[k] = b[k]
  BY <1>1
<1>3. \A k \in DOMAIN c : k \in DOMAIN b \/ k = L + 1
  BY <1>2
<1>4. CASE Tells(ev, s, n)
  <2>1. \A m \in DOMAIN c : ~(m > L + 1)
    BY <1>2
  <2>2. L + 1 \in DOMAIN c
    BY <1>2
  <2> QED BY <1>1, <1>2, <1>4, <2>1, <2>2 DEF BusTells
<1>5. CASE BusTells(b, j, s, n) /\ NoRollback(ev, s, n)
  <2>1. CASE n \in ToSet(j) /\ \A k \in DOMAIN b : NoRollback(b[k], s, n)
    <3>1. \A k \in DOMAIN c : NoRollback(c[k], s, n)
      BY <1>2, <1>3, <1>5, <2>1
    <3> QED BY <1>1, <2>1, <3>1 DEF BusTells
  <2>2. ASSUME NEW k \in DOMAIN b, Tells(b[k], s, n), \A m \in DOMAIN b : m > k => NoRollback(b[m], s, n)
        PROVE  BusTells(c, j, s, n)
    <3>1. \A m \in DOMAIN c : m > k => NoRollback(c[m], s, n)
      BY <1>2, <1>3, <1>5, <2>2
    <3>2. k \in DOMAIN c /\ c[k] = b[k]
      BY <1>2
    <3> QED BY <2>2, <3>1, <3>2 DEF BusTells
  <2> QED BY <1>1, <1>5, <2>1, <2>2 DEF BusTells
<1> QED BY <1>4, <1>5

\* The first event of the bus handled: the row is in the journal i after it, or still to come.
LEMMA HeadTells ==
    ASSUME NEW b \in Seq(BusEvent), b # <<>>, NEW j, NEW s, NEW n, BusTells(b, j, s, n), NEW i,
           NoRollback(Head(b), s, n) /\ n \in ToSet(j) => n \in ToSet(i),
           Tells(Head(b), s, n) => n \in ToSet(i)
    PROVE  BusTells(Tail(b), i, s, n)
<1>1. PICK c, L : c = Tail(b) /\ L = Len(b)
  OBVIOUS
<1>2. /\ L \in Nat \ {0} /\ DOMAIN b = 1..L /\ DOMAIN c = 1..L - 1 /\ Head(b) = b[1]
      /\ \A k \in 1..L - 1 : c[k] = b[k + 1]
  BY <1>1
<1>3. \A k \in DOMAIN c : k + 1 \in DOMAIN b
  BY <1>2
<1>4. CASE n \in ToSet(j) /\ \A k \in DOMAIN b : NoRollback(b[k], s, n)
  <2>1. n \in ToSet(i)
    BY <1>2, <1>4
  <2>2. \A k \in DOMAIN c : NoRollback(c[k], s, n)
    BY <1>2, <1>3, <1>4
  <2> QED BY <1>1, <2>1, <2>2 DEF BusTells
<1>5. ASSUME NEW k \in DOMAIN b, Tells(b[k], s, n), \A m \in DOMAIN b : m > k => NoRollback(b[m], s, n)
      PROVE  BusTells(c, i, s, n)
  <2>1. CASE k = 1
    <3>1. n \in ToSet(i)
      BY <1>2, <1>5, <2>1
    <3>2. \A m \in DOMAIN c : NoRollback(c[m], s, n)
      <4> TAKE m \in DOMAIN c
      <4>1. m + 1 > k /\ m + 1 \in DOMAIN b /\ c[m] = b[m + 1]
        BY <1>2, <2>1
      <4> QED BY <1>5, <4>1
    <3> QED BY <3>1, <3>2 DEF BusTells
  <2>2. CASE k # 1
    <3>1. k - 1 \in DOMAIN c /\ c[k - 1] = b[k]
      BY <1>2, <2>2
    <3>2. \A m \in DOMAIN c : m > k - 1 => NoRollback(c[m], s, n)
      <4> TAKE m \in DOMAIN c
      <4> HAVE m > k - 1
      <4>1. m + 1 > k /\ m + 1 \in DOMAIN b /\ c[m] = b[m + 1]
        BY <1>2
      <4> QED BY <1>5, <4>1
    <3> QED BY <1>5, <3>1, <3>2 DEF BusTells
  <2> QED BY <2>1, <2>2
<1> QED BY <1>1, <1>4, <1>5 DEF BusTells

\* Safe in its two halves.
LEMMA SafeParts ==
    ASSUME NEW s, NEW n
    PROVE  Safe(s, n) <=>
             \/ \E k \in DOMAIN conns[warm[s]].inbox : conns[warm[s]].inbox[k] = [kind |-> "row", n |-> n]
             \/ /\ conns[warm[s]].effect # Null /\ conns[warm[s]].effect.kind = "replay" => n <= conns[warm[s]].effect.upto
                /\ BusTells(bus, journaled[s], s, n)
  BY DEF Safe, BusTells

\* A safe row that is carried stays safe.
LEMMA CarriedIsSafe ==
    ASSUME PoolTypeOK, NEW s \in Sessions, NEW n, IsWarm(s), Safe(s, n), Carried(s)
    PROVE  Safe(s, n)'
<1>1. warm[s] \in Conns /\ conns[warm[s]] \in Conn /\ bus \in Seq(BusEvent)
  <2>1. warm[s] \in Conns /\ conns[warm[s]] # Null
    BY DEF PoolTypeOK, IsWarm
  <2> QED BY <2>1, ConnIsConn DEF PoolTypeOK
<1>2. PICK box, more, e, f : box = conns[warm[s]].inbox /\ more = conns'[warm[s]].inbox
                        /\ e = conns[warm[s]].effect /\ f = conns'[warm[s]].effect
  OBVIOUS
<1>3. /\ box \in Seq(StreamEvent) /\ (more = box \/ \E ev \in StreamEvent : more = Append(box, ev))
      /\ (f = e \/ f = Null \/ f.kind # "replay")
  BY <1>1, <1>2, ConnFields DEF Carried, InboxKept
<1>4. CASE \E k \in DOMAIN box : box[k] = [kind |-> "row", n |-> n]
  <2>1. \E k \in DOMAIN more : more[k] = [kind |-> "row", n |-> n]
    BY <1>3, <1>4, InBoxKept
  <2> QED BY <1>2, <2>1 DEF Safe, Carried
<1>5. CASE (e # Null /\ e.kind = "replay" => n <= e.upto) /\ BusTells(bus, journaled[s], s, n)
  <2>1. f # Null /\ f.kind = "replay" => n <= f.upto
    BY <1>3, <1>5
  <2>2. BusTells(bus', journaled[s], s, n)
    <3>1. CASE bus' = bus
      BY <1>5, <3>1
    <3>2. ASSUME NEW ev \in BusEvent, bus' = Append(bus, ev), ev.sid = s => ev.kind # "history"
          PROVE  BusTells(bus', journaled[s], s, n)
      <4>1. NoRollback(ev, s, n)
        BY <3>2 DEF NoRollback
      <4> QED BY <1>1, <1>5, <3>2, <4>1, EmitTells
    <3> QED BY <3>1, <3>2 DEF Carried, Emitted
  <2>3. BusTells(bus', journaled'[s], s, n)
    BY <2>2 DEF Carried
  <2> QED BY <1>2, <2>1, <2>3 DEF Safe, Carried, BusTells
<1> QED BY <1>2, <1>4, <1>5, SafeParts

\* A step that carries every session that is still owed rows keeps the rows safe.
LEMMA RowsStay ==
    ASSUME PoolInv,
           \A s \in Sessions : daemon[s].rows \in Int /\ daemon'[s].rows \in Int /\ daemon'[s].rows >= daemon[s].rows,
           \A s \in Sessions : \/ owed'[s] = {}
                               \/ owed'[s] = owed[s] /\ (owed[s] # {} => Carried(s) /\ (Forgotten(s) => Forgotten(s)'))
    PROVE  RowsAreSafe'
<1> SUFFICES ASSUME NEW s \in Sessions, owed'[s] = owed[s], owed[s] # {},
                    Carried(s), Forgotten(s) => Forgotten(s)'
             PROVE  /\ IsWarm(s)' /\ journaled'[s] # Null
                    /\ \A n \in owed[s] : n <= daemon'[s].rows /\ (Forgotten(s)' \/ Safe(s, n)')
  BY DEF RowsAreSafe
<1>1. RowsAreSafe /\ PoolTypeOK
  BY DEF PoolInv
<1>2. IsWarm(s) /\ journaled[s] # Null
  BY <1>1 DEF RowsAreSafe
<1>3. IsWarm(s)' /\ journaled'[s] # Null
  BY <1>2 DEF Carried, IsWarm
<1>4. ASSUME NEW n \in owed[s] PROVE n <= daemon'[s].rows /\ (Forgotten(s)' \/ Safe(s, n)')
  <2>1. n <= daemon[s].rows /\ (Forgotten(s) \/ Safe(s, n))
    BY <1>1 DEF RowsAreSafe
  <2>2. n \in Int
    BY <1>1 DEF PoolTypeOK, Rows
  <2>3. Safe(s, n) => Safe(s, n)'
    BY <1>1, <1>2, CarriedIsSafe
  <2> QED BY <2>1, <2>2, <2>3
<1> QED BY <1>3, <1>4

-----------------------------------------------------------------------------
(* The warm pool: what a daemon does *)

\* A daemon: its process, whether a turn runs, its rows.
Daemon == [pid : Conns \cup {Null}, turn : BOOLEAN, rows : 0..MaxRows]

\* The fields of a daemon.
LEMMA DaemonFields ==
    ASSUME PoolTypeOK, NEW s \in Sessions
    PROVE  /\ daemon[s] \in Daemon /\ daemon[s].pid \in Conns \cup {Null} /\ daemon[s].turn \in BOOLEAN
           /\ daemon[s].rows \in 0..MaxRows /\ daemon[s].rows \in Int
  BY ConnsAssumption DEF PoolTypeOK, Daemon

\* Daemons that are left alone lose no rows.
LEMMA SameDaemon ==
    ASSUME PoolTypeOK, daemon' = daemon
    PROVE  /\ daemon' \in [Sessions -> Daemon]
           /\ \A s \in Sessions : daemon[s].rows \in Int /\ daemon'[s].rows \in Int /\ daemon'[s].rows >= daemon[s].rows
  BY DaemonFields DEF PoolTypeOK, Daemon

\* One daemon changes and keeps its rows.
LEMMA OneDaemon ==
    ASSUME PoolTypeOK, NEW s \in Sessions, NEW d \in Daemon, d.rows >= daemon[s].rows,
           daemon' = [daemon EXCEPT ![s] = d]
    PROVE  /\ daemon' \in [Sessions -> Daemon]
           /\ \A t \in Sessions : daemon[t].rows \in Int /\ daemon'[t].rows \in Int /\ daemon'[t].rows >= daemon[t].rows
<1>1. daemon \in [Sessions -> Daemon]
  BY DEF PoolTypeOK, Daemon
<1>2. d.rows \in Int
  BY ConnsAssumption DEF Daemon
<1>3. daemon'[s] = d /\ \A t \in Sessions \ {s} : daemon'[t] = daemon[t]
  BY <1>1
<1>4. ASSUME NEW t \in Sessions
      PROVE  daemon[t].rows \in Int /\ daemon'[t].rows \in Int /\ daemon'[t].rows >= daemon[t].rows
  <2>1. daemon[t].rows \in Int
    BY DaemonFields
  <2>2. CASE t = s
    BY <1>2, <1>3, <2>1, <2>2
  <2>3. CASE t # s
    BY <1>3, <2>1, <2>3
  <2> QED BY <2>2, <2>3
<1> QED BY <1>1, <1>4

\* A daemon whose turn begins or ends.
LEMMA TurnSet ==
    ASSUME PoolTypeOK, NEW s \in Sessions, NEW b \in BOOLEAN
    PROVE  [daemon[s] EXCEPT !.turn = b] \in Daemon /\ [daemon[s] EXCEPT !.turn = b].rows = daemon[s].rows
  BY DaemonFields DEF Daemon

\* A daemon with other rows.
LEMMA RowsSet ==
    ASSUME PoolTypeOK, NEW s \in Sessions, NEW n \in 0..MaxRows
    PROVE  [daemon[s] EXCEPT !.rows = n] \in Daemon /\ [daemon[s] EXCEPT !.rows = n].rows = n
  BY DaemonFields DEF Daemon

\* A quiet step keeps the types.
LEMMA QuietTyped ==
    ASSUME PoolTypeOK, Quiet, daemon' \in [Sessions -> Daemon], bus' \in Seq(BusEvent),
           journaled' \in [Sessions -> Seq(Rows) \cup {Null}], running' \subseteq Sessions,
           viewed' \in Sessions \cup {Null}, connected' \in BOOLEAN, owed' \in [Sessions -> SUBSET Rows],
           {ops', looks', lapses', reaps'} \subseteq Nat
    PROVE  PoolTypeOK'
<1>1. \A s \in Sessions : IsWarm(s)' => conns'[warm'[s]] # Null /\ conns'[warm'[s]].sid = s
  <2> TAKE s \in Sessions
  <2> HAVE IsWarm(s)'
  <2>1. warm'[s] = warm[s] /\ IsWarm(s) /\ warm[s] \in Conns
    BY DEF Quiet, IsWarm, PoolTypeOK
  <2>2. conns[warm[s]] # Null /\ conns[warm[s]].sid = s
    BY <2>1 DEF PoolTypeOK
  <2>3. ConnsKept
    BY DEF Quiet
  <2> QED BY <2>1, <2>2, <2>3, KeptConn
<1> QED BY <1>1 DEF PoolTypeOK, Quiet, ConnsKept, Daemon

\* While nobody is forgotten, the live attachment of a session that is owed rows is the warm one.
LEMMA OnlyTheWarmOne ==
    ASSUME PoolInv, NEW s \in Sessions, owed[s] # {}, ~Forgotten(s), NEW i \in Conns, Live(i), conns[i].sid = s
    PROVE  warm[s] = i
<1>1. IsWarm(s)
  BY DEF PoolInv, RowsAreSafe
<1>2. SUFFICES ASSUME warm[s] # i PROVE FALSE
  OBVIOUS
<1>3. op # Null /\ i \in {op.conn, op.closing}
  BY <1>2 DEF Forgotten
<1>4. CallsAreFiled
  BY DEF PoolInv
<1>5. op \in Calling
  BY <1>3 DEF PoolInv, PoolTypeOK
<1>6. CASE i = op.closing
  BY <1>1, <1>3, <1>4, <1>6, NullAssumption DEF CallsAreFiled, IsWarm
<1>7. CASE i = op.conn
  <2>1. op.sid = s /\ op.conn # Null
    BY <1>3, <1>4, <1>7, NullAssumption DEF CallsAreFiled
  <2>2. op.pc \in {"dispose", "install", "insert", "evict", "finish", "detach", "echo"}
    BY <1>5 DEF Calling
  <2> QED BY <1>1, <1>2, <1>3, <1>4, <1>7, <2>1, <2>2 DEF CallsAreFiled, IsWarm
<1> QED BY <1>3, <1>6, <1>7

\* An event more in an inbox carries the rows.
LEMMA FedCarries ==
    ASSUME PoolTypeOK, NEW s \in Sessions, IsWarm(s), warm'[s] = warm[s], journaled'[s] = journaled[s], bus' = bus,
           NEW ev \in StreamEvent, Fed(conns[warm[s]], conns'[warm[s]], ev)
    PROVE  Carried(s)
  BY DEF Carried, Emitted, InboxKept, Fed

\* The rows are carried when the attachment of s is left alone.
LEMMA SameCarries ==
    ASSUME NEW s \in Sessions, warm'[s] = warm[s], journaled'[s] = journaled[s], Emitted(s),
           conns'[warm[s]] = conns[warm[s]]
    PROVE  Carried(s)
  BY DEF Carried, InboxKept

\* The events of a stream.
LEMMA StreamKinds ==
    /\ \A k \in {"start", "complete", "failed", "state", "gap"} : [kind |-> k] \in StreamEvent
    /\ \A n \in Rows : [kind |-> "row", n |-> n] \in StreamEvent
  BY DEF StreamEvent

\* Streaming an event carries every session that is owed rows.
LEMMA StreamedCarries ==
    ASSUME PoolInv, NEW t \in Sessions, NEW ev \in StreamEvent, conns' = Streamed(t, ev),
           warm' = warm, journaled' = journaled, bus' = bus, NEW s \in Sessions, owed[s] # {}
    PROVE  Carried(s)
<1>1. PoolTypeOK /\ IsWarm(s)
  BY DEF PoolInv, RowsAreSafe
<1>2. warm[s] \in Conns
  BY <1>1 DEF PoolTypeOK, IsWarm
<1>3. PICK f : f = Streamed(t, ev)
  OBVIOUS
<1>4. Fed(conns[warm[s]], f[warm[s]], ev)
  BY <1>1, <1>2, <1>3, StreamedFeeds
<1> QED BY <1>1, <1>3, <1>4, FedCarries

\* The end of a turn.
LEMMA DaemonEndsStep ==
    ASSUME PoolInv, NEW s \in Sessions, NEW how \in {"complete", "failed", "state"}, DaemonEnds(s, how)
    PROVE  PoolInv'
<1>1. PoolTypeOK
  BY DEF PoolInv
<1>2. PICK ev \in StreamEvent : ev = [kind |-> how]
  BY StreamKinds
<1>3. conns' = Streamed(s, ev)
  BY <1>2 DEF DaemonEnds
<1>4. Quiet
  BY <1>1, <1>3, StreamedKeeps DEF Quiet, DaemonEnds, budget, hub, pool
<1>5. daemon' \in [Sessions -> Daemon]
      /\ \A t \in Sessions : daemon[t].rows \in Int /\ daemon'[t].rows \in Int /\ daemon'[t].rows >= daemon[t].rows
  <2>1. PICK d : d = [daemon[s] EXCEPT !.turn = FALSE]
    OBVIOUS
  <2>2. d \in Daemon /\ d.rows = daemon[s].rows
    BY <1>1, <2>1, TurnSet
  <2>3. daemon' = [daemon EXCEPT ![s] = d]
    BY <2>1 DEF DaemonEnds
  <2>4. d.rows >= daemon[s].rows
    BY <1>1, <2>2, DaemonFields
  <2> QED BY <1>1, <2>2, <2>3, <2>4, OneDaemon
<1>6. UNCHANGED <<warm, bus, journaled, running, viewed, connected, op, reap, owed, ops, looks, lapses, reaps>>
  BY DEF DaemonEnds, hub, budget
<1>7. PoolTypeOK'
  BY <1>1, <1>4, <1>5, <1>6, QuietTyped DEF PoolTypeOK
<1>8. CallsAreFiled' /\ NobodyForgotten' /\ LiveIffWarm' /\ ReapsWarm' /\ PoolIsOrdered'
           /\ \A t \in Sessions : Forgotten(t) => Forgotten(t)'
  BY <1>4, <1>6, QuietFiled
<1>9. \A t \in Sessions : owed[t] # {} => Carried(t)
  BY <1>3, <1>6, StreamedCarries
<1>10. RowsAreSafe'
  BY <1>5, <1>6, <1>8, <1>9, RowsStay
<1> QED BY <1>7, <1>8, <1>10 DEF PoolInv

\* An event that only says "look again".
LEMMA DaemonStateStep ==
    ASSUME PoolInv, NEW s \in Sessions, DaemonState(s)
    PROVE  PoolInv'
<1>1. PoolTypeOK
  BY DEF PoolInv
<1>2. PICK ev \in StreamEvent : ev = [kind |-> "state"]
  BY StreamKinds
<1>3. conns' = Streamed(s, ev)
  BY <1>2 DEF DaemonState
<1>6. UNCHANGED <<daemon, warm, order, bus, journaled, running, viewed, connected, op, reap, owed, ops, lapses, reaps>>
      /\ looks' = looks + 1
  BY DEF DaemonState, hub, budget
<1>4. Quiet
  BY <1>1, <1>3, <1>6, StreamedKeeps DEF Quiet
<1>5. daemon' \in [Sessions -> Daemon]
      /\ \A t \in Sessions : daemon[t].rows \in Int /\ daemon'[t].rows \in Int /\ daemon'[t].rows >= daemon[t].rows
  BY <1>1, <1>6, SameDaemon
<1>7. PoolTypeOK'
  BY <1>1, <1>4, <1>5, <1>6, QuietTyped DEF PoolTypeOK
<1>8. CallsAreFiled' /\ NobodyForgotten' /\ LiveIffWarm' /\ ReapsWarm' /\ PoolIsOrdered'
           /\ \A t \in Sessions : Forgotten(t) => Forgotten(t)'
  BY <1>4, <1>6, QuietFiled
<1>9. \A t \in Sessions : owed[t] # {} => Carried(t)
  BY <1>3, <1>6, StreamedCarries
<1>10. RowsAreSafe'
  BY <1>5, <1>6, <1>8, <1>9, RowsStay
<1> QED BY <1>7, <1>8, <1>10 DEF PoolInv

\* A new row: if it is owed, it is in the inbox of the warm attachment.
LEMMA DaemonRowStep ==
    ASSUME PoolInv, NEW s \in Sessions, DaemonRow(s)
    PROVE  PoolInv'
<1>1. PoolTypeOK
  BY DEF PoolInv
<1> PICK n : n = daemon[s].rows + 1
  OBVIOUS
<1>2. n \in Rows /\ [kind |-> "row", n |-> n] \in StreamEvent
  BY StreamKinds DEF DaemonRow
<1>a. PICK ev \in StreamEvent : ev = [kind |-> "row", n |-> n]
  BY <1>2
<1>3. conns' = Streamed(s, ev)
  BY <1>a DEF DaemonRow
<1>6. UNCHANGED <<warm, order, bus, journaled, running, viewed, connected, op, reap, ops, looks, lapses, reaps>>
  BY DEF DaemonRow, hub, budget
<1>b. daemon' = [daemon EXCEPT ![s].rows = n] /\ owed' = IF Watched(s) THEN [owed EXCEPT ![s] = @ \cup {n}] ELSE owed
  BY DEF DaemonRow
<1>4. Quiet
  BY <1>1, <1>3, <1>6, StreamedKeeps DEF Quiet
<1>5. daemon' \in [Sessions -> Daemon]
      /\ \A t \in Sessions : daemon[t].rows \in Int /\ daemon'[t].rows \in Int /\ daemon'[t].rows >= daemon[t].rows
  <2>1. n \in 0..MaxRows /\ n \in Int
    BY <1>2, ConnsAssumption DEF Rows
  <2>2. PICK d : d = [daemon[s] EXCEPT !.rows = n]
    OBVIOUS
  <2>3. d \in Daemon /\ d.rows = n
    BY <1>1, <2>1, <2>2, RowsSet
  <2>4. daemon' = [daemon EXCEPT ![s] = d]
    BY <1>b, <2>2
  <2>5. d.rows >= daemon[s].rows
    BY <1>1, <2>3, DaemonFields
  <2> QED BY <1>1, <2>3, <2>4, <2>5, OneDaemon
<1>c. owed' \in [Sessions -> SUBSET Rows] /\ \A t \in Sessions \ {s} : owed'[t] = owed[t]
  <2>1. owed \in [Sessions -> SUBSET Rows]
    BY <1>1 DEF PoolTypeOK
  <2> QED BY <1>b, <1>2, <2>1
<1>7. PoolTypeOK'
  BY <1>1, <1>4, <1>5, <1>6, <1>c, QuietTyped DEF PoolTypeOK
<1>d. op # Null => (owed[op.sid] = {} => owed'[op.sid] = {} \/ ~op.reseed)
  <2> SUFFICES ASSUME op # Null, op.reseed PROVE owed'[op.sid] = owed[op.sid]
    OBVIOUS
  <2>1. op.sid \in Sessions /\ op.pc \in {"dispose", "install", "insert", "evict", "finish", "detach", "echo"}
    BY <1>1 DEF PoolTypeOK, Calling
  <2>2. op.pc \notin {"detach", "echo"}
    BY DEF PoolInv, CallsAreFiled
  <2>3. CASE op.sid = s
    <3>1. Switching(s)
      BY <2>1, <2>2, <2>3 DEF Switching
    <3> QED BY <1>b, <3>1 DEF Watched
  <2> QED BY <2>1, <2>3, <1>c
<1>8. CallsAreFiled' /\ NobodyForgotten' /\ LiveIffWarm' /\ ReapsWarm' /\ PoolIsOrdered'
           /\ \A t \in Sessions : Forgotten(t) => Forgotten(t)'
  BY <1>4, <1>d, QuietFiled
<1>9. \A t \in Sessions : owed[t] # {} => Carried(t)
  BY <1>3, <1>6, StreamedCarries
<1>10. RowsAreSafe'
  <2>1. ASSUME NEW t \in Sessions, NEW m \in owed[t]
        PROVE  IsWarm(t)' /\ journaled'[t] # Null /\ m <= daemon'[t].rows /\ (Forgotten(t)' \/ Safe(t, m)')
    <3>1. IsWarm(t) /\ journaled[t] # Null /\ m <= daemon[t].rows /\ (Forgotten(t) \/ Safe(t, m))
      BY <2>1 DEF PoolInv, RowsAreSafe
    <3>2. m \in Int
      BY <1>1, <2>1 DEF PoolTypeOK, Rows
    <3>3. Safe(t, m) => Safe(t, m)'
      BY <1>1, <1>9, <2>1, <3>1, CarriedIsSafe
    <3> QED BY <1>5, <1>6, <1>8, <3>1, <3>2, <3>3 DEF IsWarm
  <2>2. ASSUME Watched(s)
        PROVE  IsWarm(s)' /\ journaled'[s] # Null /\ n <= daemon'[s].rows /\ Safe(s, n)'
    <3>1. IsWarm(s) /\ warm[s] \in Conns /\ Live(warm[s]) /\ conns[warm[s]].sse = "open"
          /\ conns[warm[s]].pid = daemon[s].pid /\ journaled[s] # Null
      BY <1>1, <2>2 DEF Watched, IsWarm, PoolTypeOK
    <3>2. conns[warm[s]] \in Conn /\ conns[warm[s]].sid = s
      BY <1>1, <3>1, ConnIsConn DEF PoolTypeOK
    <3>3. conns'[warm[s]].inbox = Append(conns[warm[s]].inbox, ev)
      <4>1. PICK w : w = warm[s]
        OBVIOUS
      <4>2. Streamed(s, ev)[w].inbox = Append(conns[w].inbox, ev)
        BY <1>1, <3>1, <3>2, <4>1, StreamedFeeds
      <4> QED BY <1>3, <4>1, <4>2
    <3>4. conns[warm[s]].inbox \in Seq(StreamEvent)
      BY <3>2, ConnFields
    <3>5. PICK box, more, L : box = conns[warm[s]].inbox /\ more = Append(box, ev) /\ L = Len(box) + 1
      OBVIOUS
    <3>6. L \in DOMAIN more /\ more[L] = ev
      BY <3>4, <3>5
    <3>7. conns'[warm'[s]].inbox = more
      BY <1>6, <3>3, <3>5
    <3>8. Safe(s, n)'
      BY <1>a, <3>6, <3>7 DEF Safe
    <3>9. daemon'[s].rows = n /\ n \in Int
      BY <1>1, <1>2, <1>b DEF PoolTypeOK, Rows
    <3> QED BY <1>6, <3>1, <3>8, <3>9 DEF IsWarm
  <2>3. ASSUME NEW t \in Sessions, NEW m \in owed'[t] PROVE m \in owed[t] \/ (t = s /\ m = n /\ Watched(s))
    BY <1>1, <1>b, <2>3 DEF PoolTypeOK
  <2> QED BY <2>1, <2>2, <2>3 DEF RowsAreSafe
<1> QED BY <1>7, <1>8, <1>10 DEF PoolInv

-----------------------------------------------------------------------------
(* The warm pool: what a consumer does *)

\* What a consumer leaves alone.
Rest == daemon' = daemon /\ warm' = warm /\ order' = order /\ journaled' = journaled /\ running' = running
        /\ viewed' = viewed /\ connected' = connected /\ op' = op /\ reap' = reap /\ owed' = owed /\ reaps' = reaps

\* A step of the attachment i of s that keeps the rows of s safe and emits nothing about the others.
LEMMA ConnStep ==
    ASSUME PoolInv, NEW i \in Conns, Live(i), NEW s \in Sessions, s = conns[i].sid, NEW d \in Conn,
           d.sid = conns[i].sid, d.pid = conns[i].pid, d.live = conns[i].live,
           conns' = [conns EXCEPT ![i] = d], Rest,
           bus' \in Seq(BusEvent), {ops', looks', lapses', reaps'} \subseteq Nat,
           \A t \in Sessions : t # s => Emitted(t),
           \A n \in owed[s] : warm[s] = i /\ n <= daemon[s].rows /\ Safe(s, n) => Safe(s, n)'
    PROVE  PoolInv'
<1>1. PoolTypeOK
  BY DEF PoolInv
<1>2. conns[i] # Null /\ conns[i] \in Conn
  BY <1>1, ConnIsConn DEF Live
<1>3. Quiet
  BY <1>1, <1>2, OneEvolves DEF Quiet, Rest
<1>4. daemon' \in [Sessions -> Daemon] /\ daemon' = daemon
  BY <1>1, SameDaemon DEF Rest
<1>5. PoolTypeOK'
  BY <1>1, <1>3, <1>4, QuietTyped DEF PoolTypeOK, Rest
<1>6. CallsAreFiled' /\ NobodyForgotten' /\ LiveIffWarm' /\ ReapsWarm' /\ PoolIsOrdered'
           /\ \A t \in Sessions : Forgotten(t) => Forgotten(t)'
  BY <1>3, QuietFiled DEF Rest
<1>7. RowsAreSafe'
  <2>1. ASSUME NEW t \in Sessions, NEW m \in owed[t]
        PROVE  IsWarm(t)' /\ journaled'[t] # Null /\ m <= daemon'[t].rows /\ (Forgotten(t)' \/ Safe(t, m)')
    <3>1. IsWarm(t) /\ journaled[t] # Null /\ m <= daemon[t].rows /\ (Forgotten(t) \/ Safe(t, m)) /\ owed[t] # {}
      BY <2>1 DEF PoolInv, RowsAreSafe
    <3>2. ASSUME ~Forgotten(t) PROVE Safe(t, m)'
      <4>1. Safe(t, m)
        BY <3>1, <3>2
      <4>2. CASE t = s
        <5>1. warm[t] = i
          BY <3>1, <3>2, <4>2, OnlyTheWarmOne
        <5> QED BY <2>1, <3>1, <4>1, <4>2, <5>1
      <4>3. CASE t # s
        <5>1. warm[t] # i
          BY <1>1, <3>1, <4>3 DEF PoolTypeOK
        <5>2. conns'[warm[t]] = conns[warm[t]]
          BY <1>1, <3>1, <5>1 DEF PoolTypeOK, IsWarm
        <5>3. Carried(t)
          BY <4>3, <5>2, SameCarries DEF Rest
        <5> QED BY <1>1, <3>1, <4>1, <5>3, CarriedIsSafe
      <4> QED BY <4>2, <4>3
    <3> QED BY <1>4, <1>6, <3>1, <3>2 DEF IsWarm, Rest
  <2> QED BY <2>1 DEF RowsAreSafe, Rest
<1> QED BY <1>5, <1>6, <1>7 DEF PoolInv

\* The rows are carried when the attachment i keeps its inbox and gets no new replay.
LEMMA CarriedOne ==
    ASSUME PoolInv, NEW i \in Conns, NEW d, conns' = [conns EXCEPT ![i] = d],
           warm' = warm, journaled' = journaled, NEW s \in Sessions, Emitted(s), warm[s] = i,
           d.inbox = conns[i].inbox \/ (\E ev \in StreamEvent : d.inbox = Append(conns[i].inbox, ev)),
           d.effect = conns[i].effect \/ d.effect = Null \/ d.effect.kind # "replay",
           NEW n \in owed[s], Safe(s, n)
    PROVE  Safe(s, n)'
<1>1. PoolTypeOK /\ IsWarm(s)
  BY DEF PoolInv, RowsAreSafe
<1>2. conns'[warm[s]] = d
  BY <1>1 DEF PoolTypeOK
<1>3. Carried(s)
  BY <1>2 DEF Carried, InboxKept
<1> QED BY <1>1, <1>3, CarriedIsSafe

\* A stream is lost.
LEMMA SseLostStep ==
    ASSUME PoolInv, NEW i \in Conns, SseLost(i)
    PROVE  PoolInv'
<1>1. PoolTypeOK /\ Live(i)
  BY DEF PoolInv, SseLost
<1>2. conns[i] \in Conn
  BY <1>1, ConnIsConn DEF Live
<1>3. PICK d : d = [conns[i] EXCEPT !.sse = "lost"]
  OBVIOUS
<1>4. /\ d \in Conn /\ d.sid = conns[i].sid /\ d.pid = conns[i].pid /\ d.live = conns[i].live
      /\ d.inbox = conns[i].inbox /\ d.effect = conns[i].effect
  BY <1>2, <1>3 DEF Conn
<1>5. conns' = [conns EXCEPT ![i] = d]
  BY <1>3 DEF SseLost
<1>6. Rest /\ bus' = bus /\ bus' \in Seq(BusEvent) /\ {ops', looks', lapses', reaps'} \subseteq Nat
  BY <1>1 DEF SseLost, hub, PoolTypeOK, Rest
<1>7. \A t \in Sessions : Emitted(t)
  BY <1>6 DEF Emitted
<1>8. PICK s \in Sessions : s = conns[i].sid
  BY <1>2, ConnFields
<1>9. \A n \in owed[s] : warm[s] = i /\ Safe(s, n) => Safe(s, n)'
  BY <1>4, <1>5, <1>6, <1>7, <1>8, CarriedOne DEF Rest
<1> QED BY <1>1, <1>4, <1>5, <1>6, <1>7, <1>8, <1>9, ConnStep

\* A stream connects, with a gap in front when it was lost.
LEMMA SseOpensStep ==
    ASSUME PoolInv, NEW i \in Conns, SseOpens(i)
    PROVE  PoolInv'
<1>1. PoolTypeOK /\ Live(i)
  BY DEF PoolInv, SseOpens
<1>2. conns[i] \in Conn
  BY <1>1, ConnIsConn DEF Live
<1>a. PICK gap \in StreamEvent : gap = [kind |-> "gap"]
  BY StreamKinds
<1>b. PICK box : box = IF conns[i].sse = "lost" THEN Append(conns[i].inbox, gap) ELSE conns[i].inbox
  OBVIOUS
<1>c. box \in Seq(StreamEvent) /\ (box = conns[i].inbox \/ \E ev \in StreamEvent : box = Append(conns[i].inbox, ev))
  BY <1>2, <1>b, ConnFields
<1>3. PICK d : d = [conns[i] EXCEPT !.sse = "open", !.inbox = box]
  OBVIOUS
<1>4. /\ d \in Conn /\ d.sid = conns[i].sid /\ d.pid = conns[i].pid /\ d.live = conns[i].live
      /\ d.inbox = box /\ d.effect = conns[i].effect
  BY <1>2, <1>3, <1>c DEF Conn
<1>5. conns' = [conns EXCEPT ![i] = d]
  BY <1>3, <1>a, <1>b DEF SseOpens
<1>6. Rest /\ bus' = bus /\ bus' \in Seq(BusEvent) /\ {ops', looks', lapses', reaps'} \subseteq Nat
  BY <1>1 DEF SseOpens, hub, PoolTypeOK, Rest, budget
<1>7. \A t \in Sessions : Emitted(t)
  BY <1>6 DEF Emitted
<1>8. PICK s \in Sessions : s = conns[i].sid
  BY <1>2, ConnFields
<1>9. \A n \in owed[s] : warm[s] = i /\ Safe(s, n) => Safe(s, n)'
  BY <1>4, <1>5, <1>6, <1>7, <1>8, <1>c, CarriedOne DEF Rest
<1> QED BY <1>1, <1>4, <1>5, <1>6, <1>7, <1>8, <1>9, ConnStep

\* What an attachment knows of the turn.
LEMMA StateIsTurn ==
    ASSUME PoolTypeOK, NEW i \in Conns, conns[i] \in Conn
    PROVE  State(i) \in BOOLEAN
<1>1. conns[i].sid \in Sessions /\ conns[i].cached \in BOOLEAN
  BY ConnFields
<1> QED BY <1>1, DaemonFields DEF State

\* The event that reports the state of s.
LEMMA UpdatedIsEvent ==
    ASSUME NEW s \in Sessions, NEW b \in BOOLEAN
    PROVE  Updated(s, b) \in BusEvent /\ Updated(s, b).kind = "updated" /\ Updated(s, b).sid = s
  BY DEF Updated, BusEvent

\* The consumer refreshes the cached state.
LEMMA FetchStateStep ==
    ASSUME PoolInv, NEW i \in Conns, FetchState(i)
    PROVE  PoolInv'
<1>1. PoolTypeOK /\ Live(i)
  BY DEF PoolInv, FetchState
<1>2. conns[i] \in Conn
  BY <1>1, ConnIsConn DEF Live
<1>a. State(i) \in BOOLEAN
  BY <1>1, <1>2, StateIsTurn
<1>3. PICK c \in Conn, b \in BOOLEAN : c = conns[i] /\ b = State(i)
  BY <1>2, <1>a
<1>f. PICK d : d = [c EXCEPT !.cached = b, !.effect = Null]
  OBVIOUS
<1>4. /\ d \in Conn /\ d.sid = c.sid /\ d.pid = c.pid /\ d.live = c.live
      /\ d.inbox = c.inbox /\ d.effect = Null
  BY <1>3, <1>f DEF Conn
<1>5. conns' = [conns EXCEPT ![i] = d]
  BY <1>3, <1>f DEF FetchState
<1>8. PICK s \in Sessions : s = conns[i].sid
  BY <1>2, ConnFields
<1>b. PICK ev : ev = Updated(conns[i].sid, conns[i].effect.kind = "state" /\ State(i))
  OBVIOUS
<1>c. ev \in BusEvent /\ ev.kind = "updated"
  BY <1>8, <1>b, UpdatedIsEvent
<1>d. bus' = Append(bus, ev)
  BY <1>b DEF FetchState, Emit
<1>6. Rest /\ bus' \in Seq(BusEvent) /\ {ops', looks', lapses', reaps'} \subseteq Nat
  BY <1>1, <1>c, <1>d DEF FetchState, hub, PoolTypeOK, Rest, budget
<1>7. \A t \in Sessions : Emitted(t)
  BY <1>c, <1>d DEF Emitted
<1>9. \A n \in owed[s] : warm[s] = i /\ Safe(s, n) => Safe(s, n)'
  BY <1>4, <1>5, <1>6, <1>7, <1>3, <1>8, <1>c, CarriedOne DEF Rest
<1> QED BY <1>1, <1>4, <1>5, <1>6, <1>7, <1>3, <1>8, <1>9, ConnStep

\* GET /history is read: the replay holds every row the daemon has, so every row that is owed.
LEMMA ReseedStep ==
    ASSUME PoolInv, NEW i \in Conns, Reseed(i)
    PROVE  PoolInv'
<1>1. PoolTypeOK /\ Live(i)
  BY DEF PoolInv, Reseed
<1>2. conns[i] \in Conn
  BY <1>1, ConnIsConn DEF Live
<1>8. PICK s \in Sessions : s = conns[i].sid
  BY <1>2, ConnFields
<1>a. State(i) \in BOOLEAN
  BY <1>1, <1>2, StateIsTurn
<1>b. PICK x : x = daemon[conns[i].sid]
  OBVIOUS
<1>c. x.rows \in 0..MaxRows /\ x.turn \in BOOLEAN
  BY <1>1, <1>8, <1>b, DaemonFields
<1>d. PICK e : e = IF x.pid = conns[i].pid
                   THEN [kind |-> "replay", upto |-> x.rows, running |-> x.turn] ELSE Null
  OBVIOUS
<1>e. e \in Effect \cup {Null} /\ (e # Null => e.upto = x.rows)
  BY <1>c, <1>d DEF Effect
<1>3. PICK c \in Conn, b \in BOOLEAN : c = conns[i] /\ b = State(i)
  BY <1>2, <1>a
<1>f. PICK d : d = [c EXCEPT !.cached = b, !.effect = e]
  OBVIOUS
<1>4. /\ d \in Conn /\ d.sid = c.sid /\ d.pid = c.pid /\ d.live = c.live
      /\ d.inbox = c.inbox /\ d.effect = e
  BY <1>3, <1>e, <1>f DEF Conn
<1>5. conns' = [conns EXCEPT ![i] = d]
  BY <1>3, <1>f, <1>b, <1>d DEF Reseed
<1>6. Rest /\ bus' = bus /\ bus' \in Seq(BusEvent) /\ {ops', looks', lapses', reaps'} \subseteq Nat
  BY <1>1 DEF Reseed, hub, PoolTypeOK, Rest, budget
<1>7. \A t \in Sessions : Emitted(t)
  BY <1>6 DEF Emitted
<1>9. ASSUME NEW n \in owed[s], warm[s] = i, n <= daemon[s].rows, Safe(s, n)
      PROVE  Safe(s, n)'
  <2>2. conns'[i] = d /\ warm'[s] = i /\ journaled' = journaled /\ bus' = bus
    BY <1>1, <1>5, <1>6, <1>9 DEF PoolTypeOK, Rest
  <2>3. e # Null => n <= e.upto
    BY <1>8, <1>9, <1>b, <1>e
  <2>4. CASE \E k \in DOMAIN c.inbox : c.inbox[k] = [kind |-> "row", n |-> n]
    BY <1>4, <2>2, <2>4 DEF Safe
  <2>5. CASE BusTells(bus, journaled[s], s, n)
    BY <1>4, <2>2, <2>3, <2>5 DEF Safe, BusTells
  <2> QED BY <1>3, <1>9, <2>4, <2>5, SafeParts
<1> QED BY <1>1, <1>4, <1>5, <1>6, <1>7, <1>3, <1>8, <1>9, ConnStep

\* The replay is emitted: the rows it holds are on the bus, and nothing behind it takes them back.
LEMMA ReplayStep ==
    ASSUME PoolInv, NEW i \in Conns, ReplayHistory(i)
    PROVE  PoolInv'
<1>1. PoolTypeOK /\ Live(i)
  BY DEF PoolInv, ReplayHistory
<1>2. conns[i] \in Conn
  BY <1>1, ConnIsConn DEF Live
<1>8. PICK s \in Sessions : s = conns[i].sid
  BY <1>2, ConnFields
<1>a. PICK e : e = conns[i].effect
  OBVIOUS
<1>b. e # Null /\ e.kind = "replay" /\ e.upto \in 0..MaxRows /\ e.running \in BOOLEAN
  BY <1>2, <1>a, ConnFields DEF ReplayHistory, Effect
<1>3. PICK d : d = [conns[i] EXCEPT !.effect = Null]
  OBVIOUS
<1>4. /\ d \in Conn /\ d.sid = conns[i].sid /\ d.pid = conns[i].pid /\ d.live = conns[i].live
      /\ d.inbox = conns[i].inbox /\ d.effect = Null
  BY <1>2, <1>3 DEF Conn
<1>5. conns' = [conns EXCEPT ![i] = d]
  BY <1>3 DEF ReplayHistory
<1>c. PICK ev : ev = [kind |-> "history", sid |-> conns[i].sid, upto |-> e.upto, running |-> e.running]
  OBVIOUS
<1>d. ev \in BusEvent /\ ev.sid = conns[i].sid /\ ev.kind = "history" /\ ev.upto = e.upto
  BY <1>8, <1>b, <1>c DEF BusEvent
<1>e. bus' = Append(bus, ev)
  BY <1>a, <1>c DEF ReplayHistory, Emit
<1>6. Rest /\ bus' \in Seq(BusEvent) /\ {ops', looks', lapses', reaps'} \subseteq Nat
  BY <1>1, <1>d, <1>e DEF ReplayHistory, hub, PoolTypeOK, Rest, budget
<1>7. \A t \in Sessions : t # s => Emitted(t)
  BY <1>8, <1>d, <1>e DEF Emitted
<1>9. ASSUME NEW n \in owed[s], warm[s] = i, Safe(s, n)
      PROVE  Safe(s, n)'
  <2>2. conns'[i] = d /\ warm'[s] = i /\ journaled' = journaled
    BY <1>1, <1>5, <1>6, <1>9 DEF PoolTypeOK, Rest
  <2>4. CASE \E k \in DOMAIN conns[i].inbox : conns[i].inbox[k] = [kind |-> "row", n |-> n]
    BY <1>4, <2>2, <2>4 DEF Safe
  <2>5. CASE n <= e.upto
    <3>1. Tells(ev, s, n)
      BY <1>d, <1>8, <2>5 DEF Tells
    <3>2. BusTells(bus', journaled[s], s, n)
      BY <1>1, <1>d, <1>e, <3>1, EmitTells DEF PoolTypeOK
    <3> QED BY <1>4, <2>2, <3>2 DEF Safe, BusTells
  <2> QED BY <1>a, <1>b, <1>9, <2>4, <2>5, SafeParts
<1> QED BY <1>1, <1>4, <1>5, <1>6, <1>7, <1>8, <1>9, ConnStep

-----------------------------------------------------------------------------
(* The warm pool: the consumer takes an event, the hub handles one *)

\* Whatever is in an inbox and not at its head stays when the head is taken.
LEMMA TailBox ==
    ASSUME NEW box \in Seq(StreamEvent), box # <<>>, NEW x, \E k \in DOMAIN box : box[k] = x, Head(box) # x
    PROVE  \E k \in DOMAIN Tail(box) : Tail(box)[k] = x
<1>1. PICK k \in DOMAIN box : box[k] = x
  OBVIOUS
<1>2. k # 1
  BY <1>1
<1>3. k - 1 \in DOMAIN Tail(box) /\ Tail(box)[k - 1] = box[k]
  BY <1>1, <1>2
<1> QED BY <1>1, <1>3

\* The fields of an event of a stream.
LEMMA StreamFields ==
    ASSUME NEW ev \in StreamEvent
    PROVE  ev.kind \in {"start", "complete", "failed", "state", "gap", "row"} /\ (ev.kind = "row" => ev.n \in Rows)
  BY DEF StreamEvent

\* The consumer takes an event: a row goes from the head of the inbox to the end of the bus.
LEMMA ConsumeStep ==
    ASSUME PoolInv, NEW i \in Conns, Consume(i)
    PROVE  PoolInv'
<1>1. PoolTypeOK /\ Live(i)
  BY DEF PoolInv, Consume
<1>2. conns[i] \in Conn
  BY <1>1, ConnIsConn DEF Live
<1>8. PICK s \in Sessions : s = conns[i].sid
  BY <1>2, ConnFields
<1>3. PICK c \in Conn : c = conns[i]
  BY <1>2
<1>a. c.inbox \in Seq(StreamEvent) /\ c.inbox # <<>>
  BY <1>3, ConnFields DEF Consume
<1>b. PICK ev, box, e : /\ ev = Head(c.inbox) /\ box = Tail(c.inbox)
                        /\ e = IF ev.kind \in {"complete", "state", "gap"} THEN [kind |-> ev.kind] ELSE Null
  OBVIOUS
<1>c. ev \in StreamEvent /\ box \in Seq(StreamEvent)
  BY <1>a, <1>b
<1>d. e \in Effect \cup {Null} /\ (e = Null \/ e.kind # "replay")
  BY <1>b DEF Effect
<1>f. PICK d : d = [c EXCEPT !.inbox = box, !.effect = e]
  OBVIOUS
<1>4. /\ d \in Conn /\ d.sid = c.sid /\ d.pid = c.pid /\ d.live = c.live
      /\ d.inbox = box /\ d.effect = e
  BY <1>3, <1>c, <1>d, <1>f DEF Conn
<1>5. conns' = [conns EXCEPT ![i] = d]
  BY <1>3, <1>b, <1>f DEF Consume
<1>e. PICK out : out = CASE ev.kind = "row" -> [kind |-> "row", sid |-> s, n |-> ev.n]
                         [] ev.kind = "start" -> Updated(s, TRUE)
                         [] ev.kind = "failed" -> [kind |-> "failed", sid |-> s]
                         [] OTHER -> Null
  OBVIOUS
<1>g. ev.kind \in {"row", "start", "failed"} => out \in BusEvent /\ out.kind # "history"
  BY <1>c, <1>e, StreamFields DEF BusEvent, Updated
<1>h. bus' = IF ev.kind \in {"row", "start", "failed"} THEN Append(bus, out) ELSE bus
  <2>1. bus' = CASE ev.kind = "row" -> Append(bus, [kind |-> "row", sid |-> s, n |-> ev.n])
                    [] ev.kind = "start" -> Append(bus, Updated(s, TRUE))
                    [] ev.kind = "failed" -> Append(bus, [kind |-> "failed", sid |-> s])
                    [] OTHER -> bus
    BY <1>3, <1>8, <1>b DEF Consume
  <2>2. ev.kind \in {"start", "complete", "failed", "state", "gap", "row"}
    BY <1>c, StreamFields
  <2> QED BY <1>e, <2>1, <2>2
<1>6. Rest /\ bus' \in Seq(BusEvent) /\ {ops', looks', lapses', reaps'} \subseteq Nat
  <2>1. bus' \in Seq(BusEvent)
    <3>1. bus \in Seq(BusEvent)
      BY <1>1 DEF PoolTypeOK
    <3> QED BY <1>g, <1>h, <3>1
  <2>2. Rest /\ UNCHANGED budget
    BY DEF Consume, hub, Rest, budget
  <2> QED BY <1>1, <2>1, <2>2 DEF PoolTypeOK, budget
<1>7. \A t \in Sessions : Emitted(t)
  BY <1>g, <1>h DEF Emitted
<1>9. ASSUME NEW n \in owed[s], warm[s] = i, Safe(s, n)
      PROVE  Safe(s, n)'
  <2>2. conns'[i] = d /\ warm'[s] = i /\ journaled' = journaled
    BY <1>1, <1>5, <1>6, <1>9 DEF PoolTypeOK, Rest
  <2>3. PICK x : x = [kind |-> "row", n |-> n]
    OBVIOUS
  <2>4. CASE \E k \in DOMAIN c.inbox : c.inbox[k] = x
    <3>1. CASE ev = x
      <4>1. ev.kind = "row" /\ ev.n = n
        BY <2>3, <3>1
      <4>2. out.kind = "row" /\ out.sid = s /\ out.n = n /\ e = Null
        BY <1>b, <1>e, <4>1
      <4>3. Tells(out, s, n)
        BY <4>2 DEF Tells
      <4>4. BusTells(bus', journaled[s], s, n)
        BY <1>1, <1>g, <1>h, <4>1, <4>3, EmitTells DEF PoolTypeOK
      <4> QED BY <1>4, <2>2, <4>2, <4>4 DEF Safe, BusTells
    <3>2. CASE ev # x
      <4>1. \E k \in DOMAIN box : box[k] = x
        BY <1>a, <1>b, <2>4, <3>2, TailBox
      <4> QED BY <1>4, <2>2, <2>3, <4>1 DEF Safe
    <3> QED BY <3>1, <3>2
  <2>5. CASE BusTells(bus, journaled[s], s, n)
    <3>1. BusTells(bus', journaled[s], s, n)
      <4>1. CASE bus' = bus
        BY <2>5, <4>1
      <4>2. CASE bus' = Append(bus, out) /\ ev.kind \in {"row", "start", "failed"}
        <5>1. NoRollback(out, s, n)
          BY <1>g, <4>2 DEF NoRollback
        <5> QED BY <1>1, <1>g, <2>5, <4>2, <5>1, EmitTells DEF PoolTypeOK
      <4> QED BY <1>h, <4>1, <4>2
    <3> QED BY <1>4, <1>d, <2>2, <3>1 DEF Safe, BusTells
  <2> QED BY <1>3, <1>9, <2>3, <2>4, <2>5, SafeParts
<1> QED BY <1>1, <1>3, <1>4, <1>5, <1>6, <1>7, <1>8, <1>9, ConnStep

\* Handling an event touches the journal of its session only.
LEMMA IngestedTyped ==
    ASSUME PoolTypeOK, NEW ev \in BusEvent
    PROVE  /\ Ingested(ev) \in [Sessions -> Seq(Rows) \cup {Null}]
           /\ \A t \in Sessions \ {ev.sid} : Ingested(ev)[t] = journaled[t]
<1>1. PICK s \in Sessions : s = ev.sid
  BY BusFields
<1>2. journaled \in [Sessions -> Seq(Rows) \cup {Null}]
  BY DEF PoolTypeOK
<1>3. CASE ev.kind = "closed" /\ viewed # s
  BY <1>1, <1>2, <1>3 DEF Ingested
<1>4. CASE ~(ev.kind = "closed" /\ viewed # s) /\ journaled[s] = Null
  BY <1>1, <1>2, <1>4 DEF Ingested
<1>5. CASE ~(ev.kind = "closed" /\ viewed # s) /\ journaled[s] # Null
  <2>1. journaled[s] \in Seq(Rows)
    BY <1>2, <1>5
  <2>2. CASE ev.kind = "row"
    <3>1. PICK j : j = Append(journaled[s], ev.n)
      OBVIOUS
    <3>2. j \in Seq(Rows)
      BY <2>1, <2>2, <3>1, BusFields
    <3>3. Ingested(ev) = [journaled EXCEPT ![s] = j]
      BY <1>1, <1>5, <2>2, <3>1 DEF Ingested
    <3> QED BY <1>1, <1>2, <3>2, <3>3
  <2>3. CASE ev.kind = "history"
    <3>1. PICK j : j = Upto(ev.upto)
      OBVIOUS
    <3>2. j \in Seq(Rows)
      <4>1. ev.upto \in Nat /\ 1..ev.upto \subseteq Rows
        BY <2>3, BusFields, ConnsAssumption DEF Rows
      <4> QED BY <3>1, <4>1 DEF Upto
    <3>3. Ingested(ev) = [journaled EXCEPT ![s] = j]
      BY <1>1, <1>5, <2>3, <3>1 DEF Ingested
    <3> QED BY <1>1, <1>2, <3>2, <3>3
  <2>4. CASE ev.kind \notin {"row", "history"}
    BY <1>1, <1>2, <1>5, <2>4 DEF Ingested
  <2> QED BY <2>2, <2>3, <2>4
<1> QED BY <1>3, <1>4, <1>5

\* A row the event brings, or does not take back, is in the journal after it.
LEMMA IngestedKeeps ==
    ASSUME PoolTypeOK, NEW ev \in BusEvent, NEW s \in Sessions, NEW n \in Rows,
           journaled[s] # Null, Ingested(ev)[s] # Null
    PROVE  /\ NoRollback(ev, s, n) /\ n \in ToSet(journaled[s]) => n \in ToSet(Ingested(ev)[s])
           /\ Tells(ev, s, n) => n \in ToSet(Ingested(ev)[s])
<1>1. journaled \in [Sessions -> Seq(Rows) \cup {Null}] /\ journaled[s] \in Seq(Rows)
  BY DEF PoolTypeOK
<1>2. CASE ev.sid # s
  <2>1. Ingested(ev)[s] = journaled[s]
    BY <1>2, IngestedTyped
  <2> QED BY <1>2, <2>1 DEF Tells
<1>3. CASE ev.sid = s /\ ev.kind = "closed"
  <2>1. viewed = s
    BY <1>1, <1>3 DEF Ingested
  <2>2. Ingested(ev)[s] = journaled[s]
    BY <1>3, <2>1 DEF Ingested
  <2> QED BY <1>3, <2>2 DEF Tells
<1>4. CASE ev.sid = s /\ ev.kind = "row"
  <2>1. PICK j, b : j = journaled[s] /\ b = Append(j, ev.n)
    OBVIOUS
  <2>2. Ingested(ev)[s] = b
    BY <1>1, <1>4, <2>1 DEF Ingested
  <2>3. ev.n \in Rows
    BY <1>4, BusFields
  <2>4. \A x : x \in ToSet(j) \/ x = ev.n => x \in ToSet(b)
    <3>1. /\ j \in Seq(Rows) /\ DOMAIN b = 1..Len(j) + 1 /\ b[Len(j) + 1] = ev.n
          /\ \A k \in DOMAIN j : k \in DOMAIN b /\ b[k] = j[k]
          /\ Len(j) + 1 \in DOMAIN b
      BY <1>1, <2>1, <2>3
    <3> QED BY <3>1 DEF ToSet
  <2> QED BY <1>4, <2>1, <2>2, <2>4 DEF Tells
<1>5. CASE ev.sid = s /\ ev.kind = "history"
  <2>1. Ingested(ev)[s] = Upto(ev.upto)
    BY <1>1, <1>5 DEF Ingested
  <2>2. n <= ev.upto => n \in ToSet(Upto(ev.upto))
    <3>1. ev.upto \in Nat /\ n \in Nat /\ 1 <= n
      BY <1>5, BusFields, ConnsAssumption DEF Rows
    <3>2. n <= ev.upto => n \in DOMAIN Upto(ev.upto) /\ Upto(ev.upto)[n] = n
      BY <3>1 DEF Upto
    <3> QED BY <3>2 DEF ToSet
  <2> QED BY <1>5, <2>1, <2>2 DEF NoRollback, Tells
<1>6. CASE ev.sid = s /\ ev.kind \notin {"closed", "row", "history"}
  <2>1. Ingested(ev)[s] = journaled[s]
    BY <1>6 DEF Ingested
  <2> QED BY <1>6, <2>1 DEF Tells
<1> QED BY <1>2, <1>3, <1>4, <1>5, <1>6

\* The hub handles the first event of the bus.
LEMMA OnEventStep ==
    ASSUME PoolInv, on_event
    PROVE  PoolInv'
<1>1. PoolTypeOK
  BY DEF PoolInv
<1>2. PICK ev : ev = Head(bus)
  OBVIOUS
<1>3. bus \in Seq(BusEvent) /\ bus # <<>> /\ ev \in BusEvent /\ ev.sid \in Sessions
  BY <1>1, <1>2, BusFields DEF PoolTypeOK, on_event
<1>4. UNCHANGED <<daemon, conns, warm, order, viewed, connected, op, reap, ops, looks, lapses, reaps>>
  BY DEF on_event, pool, budget
<1>5. /\ bus' = Tail(bus) /\ journaled' = Ingested(ev)
      /\ owed' = IF Ingested(ev)[ev.sid] = Null THEN [owed EXCEPT ![ev.sid] = {}] ELSE owed
  BY <1>2 DEF on_event
<1>6. journaled' \in [Sessions -> Seq(Rows) \cup {Null}] /\ \A t \in Sessions \ {ev.sid} : journaled'[t] = journaled[t]
  BY <1>1, <1>3, <1>5, IngestedTyped
<1>7. owed' \in [Sessions -> SUBSET Rows]
      /\ \A t \in Sessions : owed'[t] = {} \/ (owed'[t] = owed[t] /\ (t = ev.sid => journaled'[t] # Null))
  BY <1>1, <1>3, <1>5 DEF PoolTypeOK
<1>8. running' \subseteq Sessions
  <2>1. running' \subseteq running \cup {ev.sid}
    BY <1>2 DEF on_event, SetRunning
  <2> QED BY <1>1, <1>3, <2>1 DEF PoolTypeOK
<1>9. Quiet
  BY <1>1, <1>4, SameConns DEF Quiet
<1>10. bus' \in Seq(BusEvent)
  BY <1>3, <1>5
<1>11. daemon' \in [Sessions -> Daemon]
  BY <1>1, <1>4, SameDaemon
<1>12. PoolTypeOK'
  BY <1>1, <1>4, <1>6, <1>7, <1>8, <1>9, <1>10, <1>11, QuietTyped DEF PoolTypeOK
<1>13. op # Null => op.sid \in Sessions
  BY <1>1 DEF PoolTypeOK, Calling
<1>14. CallsAreFiled' /\ NobodyForgotten' /\ LiveIffWarm' /\ ReapsWarm' /\ PoolIsOrdered'
           /\ \A t \in Sessions : Forgotten(t) => Forgotten(t)'
  BY <1>7, <1>9, <1>13, QuietFiled
<1>15. RowsAreSafe'
  <2>1. ASSUME NEW t \in Sessions, owed'[t] # {}, NEW n \in owed'[t]
        PROVE  IsWarm(t)' /\ journaled'[t] # Null /\ n <= daemon'[t].rows /\ (Forgotten(t)' \/ Safe(t, n)')
    <3>1. owed'[t] = owed[t] /\ (t = ev.sid => journaled'[t] # Null)
      BY <1>7, <2>1
    <3>2. IsWarm(t) /\ journaled[t] # Null /\ n <= daemon[t].rows /\ (Forgotten(t) \/ Safe(t, n)) /\ n \in Rows
      BY <1>1, <2>1, <3>1 DEF PoolInv, RowsAreSafe, PoolTypeOK
    <3>3. journaled'[t] # Null
      BY <1>6, <3>1, <3>2
    <3>4. PICK j, i : j = journaled[t] /\ i = journaled'[t]
      OBVIOUS
    <3>5. /\ NoRollback(ev, t, n) /\ n \in ToSet(j) => n \in ToSet(i)
          /\ Tells(ev, t, n) => n \in ToSet(i)
      BY <1>1, <1>3, <1>5, <3>2, <3>3, <3>4, IngestedKeeps
    <3>6. BusTells(bus, j, t, n) => BusTells(bus', i, t, n)
      BY <1>2, <1>3, <1>5, <3>5, HeadTells
    <3>7. ASSUME Safe(t, n) PROVE Safe(t, n)'
      <4>1. CASE \E k \in DOMAIN conns[warm[t]].inbox : conns[warm[t]].inbox[k] = [kind |-> "row", n |-> n]
        BY <1>4, <4>1 DEF Safe
      <4>2. CASE /\ conns[warm[t]].effect # Null /\ conns[warm[t]].effect.kind = "replay" => n <= conns[warm[t]].effect.upto
                 /\ BusTells(bus, j, t, n)
        BY <1>4, <3>4, <3>6, <4>2 DEF Safe, BusTells
      <4> QED BY <3>4, <3>7, <4>1, <4>2, SafeParts
    <3> QED BY <1>4, <1>14, <3>2, <3>3, <3>7 DEF IsWarm
  <2> QED BY <2>1 DEF RowsAreSafe
<1> QED BY <1>12, <1>14, <1>15 DEF PoolInv

\* The client connects or leaves.
LEMMA ConnectStep ==
    ASSUME PoolInv, add_client \/ remove_client
    PROVE  PoolInv'
<1>1. PoolTypeOK
  BY DEF PoolInv
<1>4. UNCHANGED <<daemon, conns, warm, order, bus, journaled, running, op, reap, owed, ops, looks, lapses, reaps>>
  BY DEF add_client, remove_client, pool, budget
<1>5. viewed' \in Sessions \cup {Null} /\ connected' \in BOOLEAN
  BY DEF add_client, remove_client
<1>9. Quiet
  BY <1>1, <1>4, SameConns DEF Quiet
<1>11. daemon' \in [Sessions -> Daemon]
       /\ \A s \in Sessions : daemon[s].rows \in Int /\ daemon'[s].rows \in Int /\ daemon'[s].rows >= daemon[s].rows
  BY <1>1, <1>4, SameDaemon
<1>12. PoolTypeOK'
  BY <1>1, <1>4, <1>5, <1>9, <1>11, QuietTyped DEF PoolTypeOK
<1>14. CallsAreFiled' /\ NobodyForgotten' /\ LiveIffWarm' /\ ReapsWarm' /\ PoolIsOrdered'
           /\ \A t \in Sessions : Forgotten(t) => Forgotten(t)'
  BY <1>4, <1>9, QuietFiled
<1>13. \A s \in Sessions : Carried(s)
  BY <1>4, SameCarries DEF Emitted
<1>15. RowsAreSafe'
  BY <1>4, <1>11, <1>13, <1>14, RowsStay
<1> QED BY <1>12, <1>14, <1>15 DEF PoolInv

-----------------------------------------------------------------------------
(* The warm pool: driver calls *)

\* Where a call may be.
PCs == {"dispose", "install", "insert", "evict", "finish", "detach", "echo"}

\* The fields of a call.
LEMMA CallFields ==
    ASSUME NEW c \in Calling
    PROVE  /\ c.sid \in Sessions /\ c.pc \in PCs /\ c.reseed \in BOOLEAN /\ c.conn \in Conns \cup {Null}
           /\ c.cold \in BOOLEAN /\ c.victims \in Seq(Sessions) /\ c.closing \in Conns \cup {Null}
           /\ c.upto \in (0..MaxRows) \cup {Null} /\ c.running \in BOOLEAN /\ c # Null
  BY NullAssumption DEF Calling, PCs

\* The fields of the call in progress.
LEMMA OpFields ==
    ASSUME PoolInv, op # Null
    PROVE  /\ op \in Calling /\ op.sid \in Sessions /\ op.pc \in PCs /\ op.reseed \in BOOLEAN
           /\ op.conn \in Conns \cup {Null} /\ op.victims \in Seq(Sessions)
           /\ op.closing \in Conns \cup {Null} /\ op.upto \in (0..MaxRows) \cup {Null} /\ op.running \in BOOLEAN
<1>1. op \in Calling
  BY DEF PoolInv, PoolTypeOK
<1> QED BY <1>1, CallFields

\* The fields of a call that begins.
LEMMA FreshCall ==
    ASSUME NEW s \in Sessions, NEW stg \in PCs
    PROVE  /\ Call(s, stg) \in Calling /\ Call(s, stg).sid = s /\ Call(s, stg).pc = stg
           /\ Call(s, stg).reseed = FALSE /\ Call(s, stg).conn = Null /\ Call(s, stg).closing = Null
           /\ Call(s, stg).victims = <<>> /\ Call(s, stg).upto = Null
<1>1. <<>> \in Seq(Sessions)
  OBVIOUS
<1> QED BY <1>1 DEF Call, Calling, PCs

\* What a call of the hub leaves alone when it only moves on.
Moves == UNCHANGED <<daemon, conns, warm, reap, owed, reaps>>

\* A call begins, moves on or ends and neither the pool nor an attachment changes.
LEMMA CallStep ==
    ASSUME PoolInv, Moves, op' \in Calling \cup {Null},
           order' = order \/ \E t \in Sessions : order' = focused(order, t),
           bus' \in Seq(BusEvent), journaled' \in [Sessions -> Seq(Rows) \cup {Null}],
           running' \subseteq Sessions, viewed' \in Sessions \cup {Null}, connected' \in BOOLEAN,
           {ops', looks', lapses'} \subseteq Nat,
           \A s \in Sessions : owed[s] # {} => journaled'[s] = journaled[s] /\ Emitted(s),
           op # Null => op.closing = Null /\ op.pc \notin {"dispose", "detach"},
           op # Null /\ op.conn # Null /\ reaps = 0 => warm[op.sid] = op.conn \/ (op' # Null /\ op'.conn = op.conn),
           op' # Null => op'.closing = Null /\ (op'.conn = Null \/ (op # Null /\ op'.conn = op.conn)),
           op' # Null /\ reaps = 0 =>
                op'.pc # "insert" /\ (op'.pc \in {"evict", "finish"} /\ op'.conn # Null => warm[op'.sid] = op'.conn),
           CallsAreFiled'
    PROVE  PoolInv'
<1> USE DEF Moves
<1>1. PoolTypeOK
  BY DEF PoolInv
<1>2. daemon' \in [Sessions -> Daemon]
      /\ \A s \in Sessions : daemon[s].rows \in Int /\ daemon'[s].rows \in Int /\ daemon'[s].rows >= daemon[s].rows
  BY <1>1, SameDaemon
<1>3. order' \in Seq(Sessions) /\ (\A x : x \in ToSet(order) => x \in ToSet(order')) /\ (Once(order) => Once(order'))
  <2>1. order \in Seq(Sessions)
    BY <1>1 DEF PoolTypeOK
  <2>2. ASSUME NEW t \in Sessions, order' = focused(order, t)
        PROVE order' \in Seq(Sessions) /\ (\A x : x \in ToSet(order) => x \in ToSet(order')) /\ (Once(order) => Once(order'))
    <3>1. PICK o \in Seq(Sessions) : o = order
      BY <2>1
    <3>2. order' = focused(o, t)
      BY <2>2, <3>1
    <3> QED BY <3>1, <3>2, FocusedKeeps
  <2>3. CASE order' = order
    BY <2>1, <2>3
  <2> QED BY <2>2, <2>3
<1>4. PoolTypeOK'
  <2>1. \A t \in Sessions : IsWarm(t)' => conns'[warm'[t]] # Null /\ conns'[warm'[t]].sid = t
    BY <1>1 DEF PoolTypeOK, IsWarm
  <2>2. {ops', looks', lapses', reaps'} \subseteq Nat
    BY <1>1 DEF PoolTypeOK
  <2> QED BY <1>1, <1>2, <1>3, <2>1, <2>2 DEF PoolTypeOK, Daemon
<1>5. PoolIsOrdered'
  <2>1. PoolIsOrdered
    BY DEF PoolInv
  <2>2. Once(order) /\ \A s \in Sessions : IsWarm(s) => s \in ToSet(order)
    BY <2>1 DEF PoolIsOrdered, Once
  <2>3. Once(order') /\ \A s \in Sessions : IsWarm(s)' => s \in ToSet(order')
    BY <1>3, <2>2 DEF IsWarm
  <2> QED BY <2>3 DEF PoolIsOrdered, Once
<1>6. op # Null => op.conn \in Conns \cup {Null}
  BY OpFields
<1>7. LiveIffWarm'
  <2> SUFFICES ASSUME reaps = 0, NEW i \in Conns
               PROVE  /\ Live(i) => warm[conns[i].sid] = i \/ (op' # Null /\ i \in {op'.conn, op'.closing})
                      /\ \A s \in Sessions : warm[s] = i => Live(i)
    BY DEF LiveIffWarm, Live
  <2>1. /\ Live(i) => warm[conns[i].sid] = i \/ (op # Null /\ i \in {op.conn, op.closing})
        /\ \A s \in Sessions : warm[s] = i => Live(i)
    BY DEF LiveIffWarm, PoolInv
  <2>2. ASSUME op # Null, i \in {op.conn, op.closing}, Live(i)
        PROVE  warm[conns[i].sid] = i \/ (op' # Null /\ i \in {op'.conn, op'.closing})
    <3>1. i = op.conn /\ op.conn # Null
      BY <2>2, NullAssumption
    <3>2. conns[i].sid = op.sid
      BY <2>2, <3>1 DEF PoolInv, CallsAreFiled
    <3> QED BY <2>2, <3>1, <3>2
  <2> QED BY <2>1, <2>2
<1>8. NobodyForgotten'
  BY DEF NobodyForgotten, PoolInv
<1>9. ReapsWarm'
  <2> SUFFICES ASSUME reap # Null, NEW i \in reap PROVE conns[i] # Null /\ (Live(i) => warm[conns[i].sid] = i)
    BY DEF ReapsWarm, Live
  <2>1. conns[i] # Null /\ (Live(i) => warm[conns[i].sid] = i \/ Ending(i))
    BY DEF ReapsWarm, PoolInv
  <2>2. i \in Conns
    BY <1>1 DEF PoolTypeOK
  <2> QED BY <2>1, <2>2, NullAssumption DEF Ending
<1>10. RowsAreSafe'
  <2>1. \A s \in Sessions : Forgotten(s) => Forgotten(s)'
    <3> TAKE s \in Sessions
    <3> HAVE Forgotten(s)
    <3>1. PICK i \in Conns : /\ Live(i) /\ conns[i].sid = s /\ warm[s] # i
                             /\ op = Null \/ i \notin {op.conn, op.closing}
      BY DEF Forgotten
    <3>2. Live(i)' /\ conns'[i].sid = s /\ warm'[s] # i
      BY <3>1 DEF Live
    <3>3. op' = Null \/ i \notin {op'.conn, op'.closing}
      BY <3>1, NullAssumption
    <3> QED BY <3>2, <3>3 DEF Forgotten
  <2>2. \A s \in Sessions : owed[s] # {} => Carried(s)
    BY SameCarries
  <2> QED BY <1>2, <2>1, <2>2, RowsStay
<1> QED BY <1>4, <1>5, <1>7, <1>8, <1>9, <1>10, CallsAreFiled' DEF PoolInv

\* A step that emits nothing.
LEMMA SameBus ==
    ASSUME PoolInv, bus' = bus
    PROVE  bus' \in Seq(BusEvent) /\ \A s \in Sessions : Emitted(s)
  BY DEF PoolInv, PoolTypeOK, Emitted

\* A step that leaves the tables of the hub alone.
LEMMA SameHub ==
    ASSUME PoolInv, UNCHANGED <<journaled, running, viewed, connected>>
    PROVE  /\ journaled' \in [Sessions -> Seq(Rows) \cup {Null}] /\ running' \subseteq Sessions
           /\ viewed' \in Sessions \cup {Null} /\ connected' \in BOOLEAN
  BY DEF PoolInv, PoolTypeOK

\* The bounds stay natural numbers.
LEMMA Budgets ==
    ASSUME PoolInv, Begins \/ ops' = ops, UNCHANGED <<looks, lapses, reaps>>
    PROVE  {ops', looks', lapses'} \subseteq Nat
  BY DEF PoolInv, PoolTypeOK, Begins

\* open_session of a warm session.
LEMMA OpenWarmStep ==
    ASSUME PoolInv, NEW s \in Sessions, OpenWarm(s)
    PROVE  PoolInv'
<1>1. PICK c : c = Call(s, "finish")
  OBVIOUS
<1>2. c \in Calling /\ c.sid = s /\ c.pc = "finish" /\ c.reseed = FALSE /\ c.conn = Null /\ c.closing = Null
  BY <1>1, FreshCall DEF PCs
<1>3. PICK b : b = conns[warm[s]].cached
  OBVIOUS
<1>4. b \in BOOLEAN
  <2>1. warm[s] \in Conns /\ conns[warm[s]] # Null
    BY DEF PoolInv, PoolTypeOK, OpenWarm, IsWarm
  <2>2. conns[warm[s]] \in Conn
    BY <2>1, ConnIsConn DEF PoolInv
  <2> QED BY <1>3, <2>2, ConnFields
<1>5. op' = [c EXCEPT !.running = b]
  BY <1>1, <1>3 DEF OpenWarm
<1>6. op' \in Calling /\ op'.sid = s /\ op'.pc = "finish" /\ op'.reseed = FALSE /\ op'.conn = Null /\ op'.closing = Null
  BY <1>2, <1>4, <1>5 DEF Calling
<1>7. Moves /\ op = Null /\ order' = focused(order, s) /\ bus' = bus /\ UNCHANGED <<journaled, running, viewed, connected, looks, lapses, reaps>>
      /\ Begins
  BY DEF OpenWarm, Moves, hub, Begins
<1>8. CallsAreFiled'
  BY <1>6 DEF CallsAreFiled
<1>9. \A t \in Sessions : owed[t] # {} => journaled'[t] = journaled[t] /\ Emitted(t)
  BY <1>7, SameBus
<1>10. op' \in Calling \cup {Null} /\ \E t \in Sessions : order' = focused(order, t)
  BY <1>6, <1>7
<1>11. op' # Null /\ reaps = 0 => op'.pc # "insert" /\ (op'.pc \in {"evict", "finish"} /\ op'.conn # Null => warm[op'.sid] = op'.conn)
  BY <1>6
<1> QED BY <1>6, <1>7, <1>8, <1>9, <1>10, <1>11, CallStep, SameBus, SameHub, Budgets

\* open_session of a session that is not warm.
LEMMA OpenColdStep ==
    ASSUME PoolInv, NEW s \in Sessions, OpenCold(s)
    PROVE  PoolInv'
<1>6. op' \in Calling /\ op'.sid = s /\ op'.pc = "install" /\ op'.reseed = FALSE /\ op'.conn = Null /\ op'.closing = Null
  BY FreshCall DEF OpenCold, PCs
<1>7. Moves /\ op = Null /\ order' = order /\ bus' = bus /\ UNCHANGED <<journaled, running, viewed, connected, looks, lapses, reaps>>
      /\ Begins /\ warm[s] = Null /\ warm' = warm
  BY DEF OpenCold, Moves, hub, pool, Begins, IsWarm
<1>8. CallsAreFiled'
  BY <1>6, <1>7 DEF CallsAreFiled
<1>9. \A t \in Sessions : owed[t] # {} => journaled'[t] = journaled[t] /\ Emitted(t)
  BY <1>7, SameBus
<1>11. op' # Null /\ reaps = 0 => op'.pc # "insert" /\ (op'.pc \in {"evict", "finish"} /\ op'.conn # Null => warm[op'.sid] = op'.conn)
  BY <1>6
<1> QED BY <1>6, <1>7, <1>8, <1>9, <1>11, CallStep, SameBus, SameHub, Budgets

\* What CallsAreFiled and NobodyForgotten say of the call in progress.
LEMMA Filed ==
    ASSUME PoolInv, op # Null
    PROVE  /\ op.conn # Null => conns[op.conn] # Null /\ conns[op.conn].sid = op.sid
           /\ op.pc \in {"dispose", "insert", "evict", "detach"} => op.conn # Null
           /\ op.pc \in {"install", "echo"} => op.conn = Null
           /\ op.pc \in {"dispose", "install", "insert", "detach"} => warm[op.sid] = Null
           /\ op.pc \in {"evict", "finish"} /\ op.conn # Null => warm[op.sid] \in {Null, op.conn}
           /\ op.pc = "evict" => op.sid \notin ToSet(op.victims)
           /\ op.pc = "echo" => op.upto \in Rows
           /\ op.closing # Null => /\ op.pc = "evict" /\ conns[op.closing] # Null
                                   /\ warm[conns[op.closing].sid] = Null
           /\ op.reseed => owed[op.sid] = {} /\ op.pc \notin {"detach", "echo"}
           /\ reaps = 0 /\ op.pc = "insert" => Live(op.conn)
           /\ reaps = 0 /\ op.pc \in {"evict", "finish"} /\ op.conn # Null => warm[op.sid] = op.conn
<1>1. CallsAreFiled /\ NobodyForgotten
  BY DEF PoolInv
<1> QED BY <1>1 DEF CallsAreFiled, NobodyForgotten

\* An attachment that fails.
LEMMA InstallFailsStep ==
    ASSUME PoolInv, InstallFails
    PROVE  PoolInv'
<1>1. op # Null /\ op.pc = "install" /\ op' = Null
  BY DEF InstallFails
<1>2. op.closing = Null /\ op.conn = Null
  BY <1>1, Filed
<1>7. Moves /\ order' = order /\ bus' = bus /\ UNCHANGED <<journaled, running, viewed, connected, looks, lapses, reaps>>
      /\ ops' = ops
  BY DEF InstallFails, Moves, hub, pool, budget
<1>8. CallsAreFiled'
  BY <1>1 DEF CallsAreFiled
<1>9. \A t \in Sessions : owed[t] # {} => journaled'[t] = journaled[t] /\ Emitted(t)
  BY <1>7, SameBus
<1> QED BY <1>1, <1>2, <1>7, <1>8, <1>9, CallStep, SameBus, SameHub, Budgets

\* The user's row is echoed.
LEMMA EchoStep ==
    ASSUME PoolInv, Echo
    PROVE  PoolInv'
<1>1. op # Null /\ op.pc = "echo" /\ op' = Null
  BY DEF Echo
<1>2. op.closing = Null /\ op.conn = Null /\ op.upto \in Rows
  BY <1>1, Filed
<1>3. PICK ev : ev = [kind |-> "row", sid |-> op.sid, n |-> op.upto]
  OBVIOUS
<1>4. ev \in BusEvent /\ ev.kind = "row"
  BY <1>1, <1>2, <1>3, OpFields DEF BusEvent
<1>5. bus' = Append(bus, ev)
  BY <1>3 DEF Echo, Emit
<1>6. bus' \in Seq(BusEvent) /\ \A t \in Sessions : Emitted(t)
  <2>1. bus \in Seq(BusEvent)
    BY DEF PoolInv, PoolTypeOK
  <2> QED BY <1>4, <1>5, <2>1 DEF Emitted
<1>7. Moves /\ order' = order /\ UNCHANGED <<journaled, running, viewed, connected, looks, lapses, reaps>>
      /\ ops' = ops
  BY DEF Echo, Moves, hub, pool, budget
<1>8. CallsAreFiled'
  BY <1>1 DEF CallsAreFiled
<1>9. \A t \in Sessions : owed[t] # {} => journaled'[t] = journaled[t] /\ Emitted(t)
  BY <1>6, <1>7
<1> QED BY <1>1, <1>2, <1>6, <1>7, <1>8, <1>9, CallStep, SameHub, Budgets

\* finish_switch: only a session that is owed nothing gets another journal.
LEMMA FinishSwitchStep ==
    ASSUME PoolInv, finish_switch
    PROVE  PoolInv'
<1>1. op # Null /\ op.pc = "finish" /\ op' = Null
  BY DEF finish_switch
<1>2. op.closing = Null /\ op.sid \in Sessions /\ op.upto \in (0..MaxRows) \cup {Null}
  BY <1>1, Filed, OpFields
<1>3. PICK j : j = IF op.upto = Null THEN <<>> ELSE Upto(op.upto)
  OBVIOUS
<1>4. j \in Seq(Rows)
  <2>1. CASE op.upto = Null
    BY <1>3, <2>1
  <2>2. CASE op.upto # Null
    <3>1. PICK n \in Nat : n = op.upto /\ 1..n \subseteq Rows
      BY <1>2, <2>2, ConnsAssumption DEF Rows
    <3> QED BY <1>3, <2>2, <3>1 DEF Upto
  <2> QED BY <2>1, <2>2
<1>5. journaled' = IF op.reseed \/ journaled[op.sid] = Null THEN [journaled EXCEPT ![op.sid] = j] ELSE journaled
  BY <1>3 DEF finish_switch
<1>6. journaled \in [Sessions -> Seq(Rows) \cup {Null}]
  BY DEF PoolInv, PoolTypeOK
<1>7. Moves /\ order' = order /\ bus' = bus /\ UNCHANGED <<looks, lapses, reaps>> /\ ops' = ops /\ connected' = connected
  BY DEF finish_switch, Moves, pool, budget
<1>8. running' \subseteq Sessions /\ viewed' \in Sessions \cup {Null} /\ connected' \in BOOLEAN
  BY <1>2, <1>7 DEF finish_switch, SetRunning, PoolInv, PoolTypeOK
<1>9. journaled' \in [Sessions -> Seq(Rows) \cup {Null}]
  BY <1>2, <1>4, <1>5, <1>6
<1>10. ASSUME NEW t \in Sessions, owed[t] # {} PROVE journaled'[t] = journaled[t] /\ Emitted(t)
  <2>1. journaled[t] # Null
    BY <1>10 DEF PoolInv, RowsAreSafe
  <2>2. op.reseed => t # op.sid
    BY <1>1, <1>10, Filed
  <2>3. journaled'[t] = journaled[t]
    BY <1>5, <1>6, <2>1, <2>2
  <2> QED BY <1>7, <2>3, SameBus
<1>11. CallsAreFiled'
  BY <1>1 DEF CallsAreFiled
<1>12. op # Null /\ op.conn # Null /\ reaps = 0 => warm[op.sid] = op.conn
  BY <1>1, Filed
<1> QED BY <1>1, <1>2, <1>7, <1>8, <1>9, <1>10, <1>11, <1>12, CallStep, SameBus, Budgets

\* The seed is read, or the call starts again, or it fails.
LEMMA HistoryStep ==
    ASSUME PoolInv, History
    PROVE  PoolInv'
<1>1. op # Null /\ op.pc = "evict" /\ op.closing = Null
  BY DEF History
<1>2. op.conn # Null /\ op.conn \in Conns /\ conns[op.conn] # Null /\ op.sid \in Sessions /\ warm[op.sid] \in {Null, op.conn}
      /\ conns[op.conn].sid = op.sid
  BY <1>1, Filed, OpFields
<1>3. PICK s, c, o : s = op.sid /\ c = op.conn /\ o = op
  OBVIOUS
<1>4. PICK b, n, q : b = conns[c].cached /\ n = daemon[s].rows /\ q = (daemon[s].pid = conns[c].pid)
  OBVIOUS
<1>5. b \in BOOLEAN /\ n \in 0..MaxRows /\ q \in BOOLEAN
  <2>1. conns[c] \in Conn
    BY <1>2, <1>3, ConnIsConn DEF PoolInv
  <2>2. PoolTypeOK
    BY DEF PoolInv
  <2> QED BY <1>2, <1>3, <1>4, <2>1, <2>2, ConnFields, DaemonFields
<1>6. \/ op' = [o EXCEPT !.pc = "finish", !.upto = n, !.running = b]
      \/ ~IsWarm(s) /\ op' = [o EXCEPT !.pc = "install", !.conn = Null]
      \/ op' = Null
  BY <1>3, <1>4 DEF History
<1>7. Moves /\ order' = focused(order, s) /\ bus' = bus /\ UNCHANGED <<journaled, running, viewed, connected, looks, lapses, reaps>>
      /\ ops' = ops /\ warm' = warm /\ conns' = conns /\ owed' = owed
  BY <1>3 DEF History, Moves, hub, pool, budget
<1>8. o \in Calling
  BY <1>1, <1>3, OpFields
<1>9. op' # Null => /\ op' \in Calling /\ op'.sid = s /\ op'.closing = Null /\ op'.reseed = o.reseed
                    /\ \/ op'.pc = "finish" /\ op'.conn = c
                       \/ op'.pc = "install" /\ op'.conn = Null /\ warm[s] = Null
  <2>1. CASE op' = [o EXCEPT !.pc = "finish", !.upto = n, !.running = b]
    BY <1>1, <1>3, <1>5, <1>8, <2>1 DEF Calling
  <2>2. CASE ~IsWarm(s) /\ op' = [o EXCEPT !.pc = "install", !.conn = Null]
    BY <1>1, <1>3, <1>8, <2>2 DEF Calling, IsWarm
  <2> QED BY <1>6, <2>1, <2>2
<1>10. o.reseed => owed[s] = {}
  BY <1>1, <1>3, Filed
<1>11. CallsAreFiled'
  BY <1>2, <1>3, <1>7, <1>9, <1>10 DEF CallsAreFiled
<1>12. reaps = 0 => warm[s] = c
  BY <1>1, <1>2, <1>3, Filed
<1>13. \A t \in Sessions : owed[t] # {} => journaled'[t] = journaled[t] /\ Emitted(t)
  BY <1>7, SameBus
<1>14. op' # Null /\ reaps = 0 => op'.pc # "insert" /\ (op'.pc \in {"evict", "finish"} /\ op'.conn # Null => warm[op'.sid] = op'.conn)
  BY <1>9, <1>12
<1>15. op' # Null => op'.closing = Null /\ (op'.conn = Null \/ (op # Null /\ op'.conn = op.conn))
  BY <1>1, <1>3, <1>9
<1>16. op # Null /\ op.conn # Null /\ reaps = 0 => warm[op.sid] = op.conn
  BY <1>3, <1>12
<1>17. op' \in Calling \cup {Null} /\ \E t \in Sessions : order' = focused(order, t)
  BY <1>2, <1>3, <1>7, <1>9
<1> QED BY <1>1, <1>7, <1>11, <1>13, <1>14, <1>15, <1>16, <1>17, CallStep, SameBus, SameHub, Budgets

\* Focusing a session keeps the order well formed.
LEMMA OrderOnly ==
    ASSUME PoolInv, NEW s \in Sessions, order' = focused(order, s), warm' = warm
    PROVE  order' \in Seq(Sessions) /\ PoolIsOrdered'
<1>1. PICK o \in Seq(Sessions) : o = order
  BY DEF PoolInv, PoolTypeOK
<1>2. order' \in Seq(Sessions) /\ (\A x : x \in ToSet(o) => x \in ToSet(order')) /\ (Once(o) => Once(order'))
  <2>1. order' = focused(o, s)
    BY <1>1
  <2> QED BY <2>1, FocusedKeeps
<1>3. Once(o) /\ \A t \in Sessions : IsWarm(t) => t \in ToSet(o)
  BY <1>1 DEF PoolInv, PoolIsOrdered, Once
<1>4. Once(order') /\ \A t \in Sessions : IsWarm(t)' => t \in ToSet(order')
  BY <1>2, <1>3 DEF IsWarm
<1> QED BY <1>2, <1>4 DEF PoolIsOrdered, Once

\* A prompt the daemon takes.
LEMMA PromptTaken ==
    ASSUME PoolInv, NEW s \in Sessions, Prompt(s), daemon[s].pid = conns[warm[s]].pid, ~daemon[s].turn
    PROVE  PoolInv'
<1>1. PoolTypeOK
  BY DEF PoolInv
<1>2. PICK n : n = daemon[s].rows + 1
  OBVIOUS
<1>3. /\ op = Null /\ IsWarm(s) /\ order' = focused(order, s) /\ n \in Rows /\ Begins
      /\ daemon' = [daemon EXCEPT ![s].rows = n, ![s].turn = TRUE]
      /\ conns' = Streamed(s, [kind |-> "start"])
      /\ op' = [Call(s, "echo") EXCEPT !.upto = n]
      /\ UNCHANGED <<warm, bus, journaled, running, viewed, connected, reap, owed, looks, lapses, reaps>>
  BY <1>2 DEF Prompt, Begins, hub
<1>4. PICK ev \in StreamEvent : ev = [kind |-> "start"]
  BY StreamKinds
<1>5. conns' = Streamed(s, ev)
  BY <1>3, <1>4
<1>6. ConnsKept
  BY <1>1, <1>5, StreamedKeeps
<1>7. \A k \in Conns : (conns'[k] # Null <=> conns[k] # Null) /\ conns'[k].sid = conns[k].sid /\ (Live(k)' <=> Live(k))
  BY <1>6, KeptConn
<1>8. n \in 0..MaxRows /\ n \in Int
  BY <1>3, ConnsAssumption DEF Rows
<1>9. daemon' \in [Sessions -> Daemon]
      /\ \A t \in Sessions : daemon[t].rows \in Int /\ daemon'[t].rows \in Int /\ daemon'[t].rows >= daemon[t].rows
  <2>1. PICK d : d = [daemon[s] EXCEPT !.rows = n, !.turn = TRUE]
    OBVIOUS
  <2>2. d \in Daemon /\ d.rows = n
    BY <1>1, <1>8, <2>1, DaemonFields DEF Daemon
  <2>3. daemon' = [daemon EXCEPT ![s] = d]
    BY <1>3, <2>1
  <2>4. d.rows >= daemon[s].rows
    BY <1>1, <1>2, <2>2, DaemonFields
  <2> QED BY <1>1, <2>2, <2>3, <2>4, OneDaemon
<1>10. PICK c : c = Call(s, "echo")
  OBVIOUS
<1>11. c \in Calling /\ c.sid = s /\ c.pc = "echo" /\ c.reseed = FALSE /\ c.conn = Null /\ c.closing = Null
  BY <1>10, FreshCall DEF PCs
<1>12. op' = [c EXCEPT !.upto = n]
  BY <1>3, <1>10
<1>13. op' \in Calling /\ op'.sid = s /\ op'.pc = "echo" /\ op'.reseed = FALSE /\ op'.conn = Null /\ op'.closing = Null /\ op'.upto = n
  BY <1>8, <1>11, <1>12 DEF Calling
<1>14. order' \in Seq(Sessions) /\ PoolIsOrdered'
  BY <1>3, OrderOnly
<1>15. PoolTypeOK'
  <2>1. \A t \in Sessions : IsWarm(t)' => conns'[warm'[t]] # Null /\ conns'[warm'[t]].sid = t
    <3> TAKE t \in Sessions
    <3> HAVE IsWarm(t)'
    <3>1. warm[t] \in Conns /\ conns[warm[t]] # Null /\ conns[warm[t]].sid = t /\ warm'[t] = warm[t]
      BY <1>1, <1>3 DEF PoolTypeOK, IsWarm
    <3> QED BY <1>7, <3>1
  <2>2. {ops', looks', lapses', reaps'} \subseteq Nat
    BY <1>1, <1>3 DEF PoolTypeOK, Begins
  <2> QED BY <1>1, <1>3, <1>6, <1>9, <1>13, <1>14, <2>1, <2>2 DEF PoolTypeOK, Daemon, ConnsKept
<1>16. CallsAreFiled'
  BY <1>3, <1>13 DEF CallsAreFiled
<1>17. NobodyForgotten'
  BY <1>3, <1>13 DEF NobodyForgotten, PoolInv
<1>18. LiveIffWarm'
  <2>1. LiveIffWarm
    BY DEF PoolInv
  <2> QED BY <1>3, <1>7, <2>1 DEF LiveIffWarm
<1>19. ReapsWarm'
  <2>1. ReapsWarm /\ (reap = Null \/ reap \subseteq Conns)
    BY DEF PoolInv, PoolTypeOK
  <2> QED BY <1>3, <1>7, <2>1 DEF ReapsWarm, Ending
<1>20. RowsAreSafe'
  <2>1. \A t \in Sessions : Forgotten(t) => Forgotten(t)'
    <3> TAKE t \in Sessions
    <3> HAVE Forgotten(t)
    <3>1. PICK i \in Conns : Live(i) /\ conns[i].sid = t /\ warm[t] # i
      BY DEF Forgotten
    <3>2. Live(i)' /\ conns'[i].sid = t /\ warm'[t] # i
      BY <1>3, <1>7, <3>1
    <3>3. i \notin {op'.conn, op'.closing}
      BY <1>13, NullAssumption
    <3> QED BY <3>2, <3>3 DEF Forgotten
  <2>2. \A t \in Sessions : owed[t] # {} => Carried(t)
    BY <1>3, <1>5, StreamedCarries
  <2> QED BY <1>3, <1>9, <2>1, <2>2, RowsStay
<1> QED BY <1>14, <1>15, <1>16, <1>17, <1>18, <1>19, <1>20 DEF PoolInv

\* A prompt.
LEMMA PromptStep ==
    ASSUME PoolInv, NEW s \in Sessions, Prompt(s)
    PROVE  PoolInv'
<1>1. CASE daemon[s].pid = conns[warm[s]].pid /\ ~daemon[s].turn
  BY <1>1, PromptTaken
<1>2. CASE ~(daemon[s].pid = conns[warm[s]].pid /\ ~daemon[s].turn)
  <2>1. op = Null /\ op' = Null /\ Moves /\ order' = focused(order, s) /\ bus' = bus
        /\ UNCHANGED <<journaled, running, viewed, connected, looks, lapses, reaps>> /\ Begins
    BY <1>2 DEF Prompt, Moves, hub, Begins
  <2>2. CallsAreFiled'
    BY <2>1 DEF CallsAreFiled
  <2>3. \A t \in Sessions : owed[t] # {} => journaled'[t] = journaled[t] /\ Emitted(t)
    BY <2>1, SameBus
  <2>4. \E t \in Sessions : order' = focused(order, t)
    BY <2>1
  <2> QED BY <2>1, <2>2, <2>3, <2>4, CallStep, SameBus, SameHub, Budgets
<1> QED BY <1>1, <1>2

\* Reload and detach take a session out of the pool, into the hands of the call.
LEMMA TakenOut ==
    ASSUME PoolInv, NEW s \in Sessions, op = Null,
           UNCHANGED <<daemon, conns, order, bus, journaled, running, viewed, connected, reap, looks, lapses, reaps>>,
           ops' \in Nat, warm' = [warm EXCEPT ![s] = Null], owed' = [owed EXCEPT ![s] = {}],
           op' \in Calling, op'.sid = s, op'.closing = Null, op'.conn = warm[s],
           op'.pc \in IF IsWarm(s) THEN {"dispose", "detach"} ELSE {"install"},
           op'.reseed => op'.pc # "detach"
    PROVE  PoolInv'
<1>1. PoolTypeOK
  BY DEF PoolInv
<1>2. /\ warm' \in [Sessions -> Conns \cup {Null}] /\ warm'[s] = Null /\ \A t \in Sessions \ {s} : warm'[t] = warm[t]
      /\ owed' \in [Sessions -> SUBSET Rows] /\ owed'[s] = {} /\ \A t \in Sessions \ {s} : owed'[t] = owed[t]
  BY <1>1 DEF PoolTypeOK
<1>3. IsWarm(s) => warm[s] \in Conns /\ conns[warm[s]] # Null /\ conns[warm[s]].sid = s
  BY <1>1 DEF PoolTypeOK, IsWarm
<1>4. PoolTypeOK'
  BY <1>1, <1>2 DEF PoolTypeOK, IsWarm
<1>5. PoolIsOrdered'
  BY <1>2 DEF PoolIsOrdered, IsWarm, PoolInv
<1>6. CallsAreFiled'
  BY <1>2, <1>3 DEF CallsAreFiled, IsWarm
<1>7. NobodyForgotten'
  <2>1. op'.pc \notin {"insert", "evict", "finish"}
    OBVIOUS
  <2> QED BY <2>1 DEF NobodyForgotten, PoolInv
<1>8. LiveIffWarm'
  <2> SUFFICES ASSUME reaps = 0, NEW i \in Conns
               PROVE  /\ Live(i) => warm'[conns[i].sid] = i \/ i = op'.conn
                      /\ \A t \in Sessions : warm'[t] = i => Live(i)
    BY NullAssumption DEF LiveIffWarm, Live
  <2>1. /\ Live(i) => warm[conns[i].sid] = i
        /\ \A t \in Sessions : warm[t] = i => Live(i)
    BY DEF LiveIffWarm, PoolInv
  <2>2. Live(i) => conns[i].sid \in Sessions
    BY <1>1, ConnIsConn, ConnFields DEF Live
  <2> QED BY <1>2, <2>1, <2>2, NullAssumption
<1>9. ReapsWarm'
  <2> SUFFICES ASSUME reap # Null, NEW i \in reap
               PROVE  conns[i] # Null /\ (Live(i) => warm'[conns[i].sid] = i \/ Ending(i)')
    BY DEF ReapsWarm, Live
  <2>1. i \in Conns /\ conns[i] # Null /\ (Live(i) => warm[conns[i].sid] = i)
    BY <1>1 DEF ReapsWarm, PoolInv, PoolTypeOK, Ending
  <2>2. conns[i].sid \in Sessions
    BY <1>1, <2>1, ConnIsConn, ConnFields
  <2>3. CASE conns[i].sid = s /\ Live(i)
    <3>1. op'.conn = i /\ IsWarm(s)
      BY <2>1, <2>3, NullAssumption DEF IsWarm
    <3>2. op' # Null
      BY NullAssumption
    <3> QED BY <2>1, <3>1, <3>2 DEF Ending
  <2> QED BY <1>2, <2>1, <2>2, <2>3
<1>10. RowsAreSafe'
  <2>1. \A t \in Sessions : Forgotten(t) => Forgotten(t)'
    <3> TAKE t \in Sessions
    <3> HAVE Forgotten(t)
    <3>1. PICK i \in Conns : Live(i) /\ conns[i].sid = t /\ warm[t] # i
      BY DEF Forgotten
    <3>2. Live(i)' /\ conns'[i].sid = t
      BY <3>1 DEF Live
    <3>3. warm'[t] # i
      BY <1>2, <3>1, NullAssumption
    <3>4. i # op'.conn
      BY <1>3, <3>1, NullAssumption DEF IsWarm
    <3>5. i \notin {op'.conn, op'.closing}
      BY <3>4, NullAssumption
    <3> QED BY <3>2, <3>3, <3>5 DEF Forgotten
  <2>2. \A t \in Sessions \ {s} : Carried(t)
    BY <1>2, SameBus, SameCarries
  <2>3. \A t \in Sessions : daemon[t].rows \in Int /\ daemon'[t].rows \in Int /\ daemon'[t].rows >= daemon[t].rows
    BY <1>1, SameDaemon
  <2> QED BY <1>2, <2>1, <2>2, <2>3, RowsStay
<1> QED BY <1>4, <1>5, <1>6, <1>7, <1>8, <1>9, <1>10 DEF PoolInv

\* reload_session takes the session out of the pool.
LEMMA ReloadStep ==
    ASSUME PoolInv, NEW s \in Sessions, ReloadSession(s)
    PROVE  PoolInv'
<1>1. PICK stg, w : stg = (IF IsWarm(s) THEN "dispose" ELSE "install") /\ w = warm[s]
  OBVIOUS
<1>2. w \in Conns \cup {Null}
  BY <1>1 DEF PoolInv, PoolTypeOK
<1>3. PICK c : c = Call(s, stg)
  OBVIOUS
<1>4. c \in Calling /\ c.sid = s /\ c.pc = stg /\ c.closing = Null
  BY <1>1, <1>3, FreshCall DEF PCs
<1>5. op' = [c EXCEPT !.reseed = TRUE, !.conn = w]
  BY <1>1, <1>3 DEF ReloadSession
<1>6. op' \in Calling /\ op'.sid = s /\ op'.closing = Null /\ op'.conn = warm[s] /\ op'.pc = stg
  BY <1>1, <1>2, <1>4, <1>5 DEF Calling
<1>7. op = Null /\ ops' \in Nat /\ warm' = [warm EXCEPT ![s] = Null] /\ owed' = [owed EXCEPT ![s] = {}]
      /\ UNCHANGED <<daemon, conns, order, bus, journaled, running, viewed, connected, reap, looks, lapses, reaps>>
  BY DEF ReloadSession, Begins, hub, PoolInv, PoolTypeOK
<1>8. op'.pc \in (IF IsWarm(s) THEN {"dispose", "detach"} ELSE {"install"}) /\ op'.pc # "detach"
  BY <1>1, <1>6
<1> QED BY <1>6, <1>7, <1>8, TakenOut

\* detach_session takes the session out of the pool.
LEMMA DetachStep ==
    ASSUME PoolInv, NEW s \in Sessions, DetachSession(s)
    PROVE  PoolInv'
<1>1. PICK w : w = warm[s]
  OBVIOUS
<1>2. w \in Conns \cup {Null} /\ IsWarm(s)
  BY <1>1 DEF PoolInv, PoolTypeOK, DetachSession
<1>3. PICK c : c = Call(s, "detach")
  OBVIOUS
<1>4. c \in Calling /\ c.sid = s /\ c.pc = "detach" /\ c.closing = Null /\ c.reseed = FALSE
  BY <1>3, FreshCall DEF PCs
<1>5. op' = [c EXCEPT !.conn = w]
  BY <1>1, <1>3 DEF DetachSession
<1>6. op' \in Calling /\ op'.sid = s /\ op'.closing = Null /\ op'.conn = warm[s] /\ op'.pc = "detach" /\ op'.reseed = FALSE
  BY <1>1, <1>2, <1>4, <1>5 DEF Calling
<1>7. op = Null /\ ops' \in Nat /\ warm' = [warm EXCEPT ![s] = Null] /\ owed' = [owed EXCEPT ![s] = {}]
      /\ UNCHANGED <<daemon, conns, order, bus, journaled, running, viewed, connected, reap, looks, lapses, reaps>>
  BY DEF DetachSession, Begins, hub, PoolInv, PoolTypeOK
<1>8. op'.pc \in IF IsWarm(s) THEN {"dispose", "detach"} ELSE {"install"}
  BY <1>2, <1>6
<1> QED BY <1>6, <1>7, <1>8, TakenOut

-----------------------------------------------------------------------------
(* The warm pool: tearing down *)

\* A stopped attachment is not live, and the others are as they were.
LEMMA StoppedConn ==
    ASSUME PoolTypeOK, NEW i \in Conns, conns[i] # Null, conns' = Stopped(i)
    PROVE  /\ conns' \in [Conns -> Conn \cup {Null}]
           /\ conns'[i] # Null /\ conns'[i].sid = conns[i].sid /\ ~Live(i)'
           /\ \A k \in Conns \ {i} : conns'[k] = conns[k] /\ (Live(k)' <=> Live(k))
           /\ \A k \in Conns : (conns'[k] # Null <=> conns[k] # Null) /\ conns'[k].sid = conns[k].sid
<1>1. PICK c \in Conn : c = conns[i]
  BY ConnIsConn
<1>2. PICK d : d = [c EXCEPT !.live = FALSE, !.sse = "connecting", !.inbox = <<>>, !.effect = Null]
  OBVIOUS
<1>3. <<>> \in Seq(StreamEvent)
  OBVIOUS
<1>4. d \in Conn /\ d.sid = c.sid /\ d.live = FALSE
  BY <1>2, <1>3 DEF Conn
<1>5. conns' = [conns EXCEPT ![i] = d]
  BY <1>1, <1>2 DEF Stopped
<1>6. d # Null
  BY <1>4, ConnFields
<1> QED BY <1>1, <1>4, <1>5, <1>6 DEF Live, PoolTypeOK

\* Ending a process loses no rows.
LEMMA KilledDaemon ==
    ASSUME PoolTypeOK, NEW i \in Conns, conns[i] # Null, daemon' = Killed(i)
    PROVE  /\ daemon' \in [Sessions -> Daemon]
           /\ \A t \in Sessions : daemon[t].rows \in Int /\ daemon'[t].rows \in Int /\ daemon'[t].rows >= daemon[t].rows
<1>1. PICK s \in Sessions : s = conns[i].sid
  BY ConnIsConn, ConnFields
<1>2. CASE daemon[s].pid = conns[i].pid
  <2>1. PICK d : d = [daemon[s] EXCEPT !.pid = Null, !.turn = FALSE]
    OBVIOUS
  <2>2. d \in Daemon /\ d.rows = daemon[s].rows
    BY <2>1, DaemonFields DEF Daemon
  <2>3. daemon' = [daemon EXCEPT ![s] = d]
    BY <1>1, <1>2, <2>1 DEF Killed
  <2>4. d.rows >= daemon[s].rows
    BY <2>2, DaemonFields
  <2> QED BY <2>2, <2>3, <2>4, OneDaemon
<1>3. CASE daemon[s].pid # conns[i].pid
  BY <1>1, <1>3, SameDaemon DEF Killed
<1> QED BY <1>2, <1>3

\* A call stops the attachment it took out of the pool.
LEMMA TornDown ==
    ASSUME PoolInv, op # Null, NEW i \in Conns, conns[i] # Null, i \in {op.conn, op.closing},
           warm[conns[i].sid] = Null, conns' = Stopped(i), daemon' = Killed(i) \/ daemon' = daemon,
           UNCHANGED <<warm, journaled, running, viewed, connected, reap, owed, ops, looks, lapses, reaps>>,
           order' = order \/ order' = retain(order, Sessions \ {conns[i].sid}),
           bus' \in Seq(BusEvent), \A s \in Sessions : Emitted(s),
           op' \in Calling \cup {Null},
           \A k \in Conns : k \in {op.conn, op.closing} /\ k # i => op' # Null /\ k \in {op'.conn, op'.closing},
           op' # Null => {op'.conn, op'.closing} \subseteq {op.conn, op.closing, Null},
           \A k \in Conns : Ending(k) => k = i,
           CallsAreFiled', NobodyForgotten'
    PROVE  PoolInv'
<1>1. PoolTypeOK
  BY DEF PoolInv
<1>2. PICK s \in Sessions : s = conns[i].sid
  BY <1>1, ConnIsConn, ConnFields
<1>3. /\ conns' \in [Conns -> Conn \cup {Null}]
      /\ conns'[i] # Null /\ conns'[i].sid = s /\ ~Live(i)'
      /\ \A k \in Conns \ {i} : conns'[k] = conns[k] /\ (Live(k)' <=> Live(k))
      /\ \A k \in Conns : (conns'[k] # Null <=> conns[k] # Null) /\ conns'[k].sid = conns[k].sid
  BY <1>1, <1>2, StoppedConn
<1>4. daemon' \in [Sessions -> Daemon]
      /\ \A t \in Sessions : daemon[t].rows \in Int /\ daemon'[t].rows \in Int /\ daemon'[t].rows >= daemon[t].rows
  BY <1>1, KilledDaemon, SameDaemon
<1>5. \A t \in Sessions : warm[t] # i
  <2> SUFFICES ASSUME NEW t \in Sessions, warm[t] = i PROVE FALSE
    OBVIOUS
  <2>1. IsWarm(t)
    BY NullAssumption DEF IsWarm
  <2>2. conns[i].sid = t
    BY <1>1, <2>1 DEF PoolTypeOK
  <2> QED BY <1>2, <2>1, <2>2 DEF IsWarm
<1>6. order' \in Seq(Sessions) /\ PoolIsOrdered'
  <2>1. PICK o \in Seq(Sessions) : o = order
    BY <1>1 DEF PoolTypeOK
  <2>2. Once(o) /\ \A t \in Sessions : IsWarm(t) => t \in ToSet(o)
    BY <2>1 DEF PoolInv, PoolIsOrdered, Once
  <2>3. CASE order' = o
    BY <2>2, <2>3 DEF PoolIsOrdered, Once, IsWarm
  <2>4. CASE order' = retain(o, Sessions \ {s})
    <3>1. /\ order' \in Seq(Sessions) /\ Once(order')
          /\ \A x : x \in ToSet(order') <=> x \in ToSet(o) /\ x \in Sessions \ {s}
      BY <2>2, <2>4, RetainKeeps
    <3>2. \A t \in Sessions : IsWarm(t)' => t \in ToSet(order')
      BY <1>2, <2>2, <3>1 DEF IsWarm
    <3> QED BY <3>1, <3>2 DEF PoolIsOrdered, Once
  <2> QED BY <1>2, <2>1, <2>3, <2>4
<1>7. PoolTypeOK'
  <2>1. \A t \in Sessions : IsWarm(t)' => conns'[warm'[t]] # Null /\ conns'[warm'[t]].sid = t
    <3> SUFFICES ASSUME NEW t \in Sessions, warm'[t] # Null
                 PROVE  conns'[warm'[t]] # Null /\ conns'[warm'[t]].sid = t
      BY DEF IsWarm
    <3>1. PICK k : k = warm[t]
      OBVIOUS
    <3>2. warm'[t] = k /\ k \in Conns /\ conns[k] # Null /\ conns[k].sid = t
      BY <1>1, <3>1 DEF PoolTypeOK, IsWarm
    <3> QED BY <1>3, <3>2
  <2>2. op' \in Calling \cup {Null} /\ bus' \in Seq(BusEvent)
    OBVIOUS
  <2> QED BY <1>1, <1>3, <1>4, <1>6, <2>1, <2>2 DEF PoolTypeOK, Daemon
<1>8. LiveIffWarm'
  <2> SUFFICES ASSUME reaps = 0, NEW k \in Conns
               PROVE  /\ Live(k)' => warm[conns'[k].sid] = k \/ (op' # Null /\ k \in {op'.conn, op'.closing})
                      /\ \A t \in Sessions : warm[t] = k => Live(k)'
    BY DEF LiveIffWarm
  <2>1. /\ Live(k) => warm[conns[k].sid] = k \/ (op # Null /\ k \in {op.conn, op.closing})
        /\ \A t \in Sessions : warm[t] = k => Live(k)
    BY DEF LiveIffWarm, PoolInv
  <2> QED BY <1>3, <1>5, <2>1
<1>9. ReapsWarm'
  <2> SUFFICES ASSUME reap # Null, NEW k \in reap
               PROVE  conns'[k] # Null /\ (Live(k)' => warm[conns'[k].sid] = k)
    BY DEF ReapsWarm
  <2>1. k \in Conns /\ conns[k] # Null /\ (Live(k) => warm[conns[k].sid] = k \/ Ending(k))
    BY <1>1 DEF ReapsWarm, PoolInv, PoolTypeOK
  <2> QED BY <1>3, <2>1
<1>10. RowsAreSafe'
  <2>1. \A t \in Sessions : Forgotten(t) => Forgotten(t)'
    <3> TAKE t \in Sessions
    <3> HAVE Forgotten(t)
    <3>1. PICK k \in Conns : Live(k) /\ conns[k].sid = t /\ warm[t] # k /\ k \notin {op.conn, op.closing}
      BY DEF Forgotten
    <3>2. Live(k)' /\ conns'[k].sid = t /\ warm'[t] # k
      BY <1>3, <3>1
    <3>3. op' = Null \/ k \notin {op'.conn, op'.closing}
      BY <3>1, NullAssumption
    <3> QED BY <3>2, <3>3 DEF Forgotten
  <2>2. ASSUME NEW t \in Sessions, owed[t] # {} PROVE Carried(t)
    <3>1. warm[t] \in Conns \ {i}
      BY <1>1, <1>5, <2>2 DEF PoolInv, RowsAreSafe, PoolTypeOK, IsWarm
    <3> QED BY <1>3, <3>1, SameCarries
  <2> QED BY <1>4, <2>1, <2>2, RowsStay
<1> QED BY <1>6, <1>7, <1>8, <1>9, <1>10 DEF PoolInv

\* reload_session disposes of what it took out.
LEMMA DisposeReloadedStep ==
    ASSUME PoolInv, DisposeReloaded
    PROVE  PoolInv'
<1>1. op # Null /\ op.pc = "dispose" /\ op' = [op EXCEPT !.pc = "install", !.conn = Null]
      /\ conns' = Stopped(op.conn) /\ daemon' = Killed(op.conn)
      /\ UNCHANGED <<warm, order, bus, journaled, running, viewed, connected, reap, owed, ops, looks, lapses, reaps>>
  BY DEF DisposeReloaded, hub, budget
<1>2. PICK i \in Conns, s \in Sessions, o \in Calling : i = op.conn /\ s = op.sid /\ o = op
  BY <1>1, Filed, OpFields
<1>3. conns[i] # Null /\ conns[i].sid = s /\ warm[s] = Null /\ o.closing = Null /\ (o.reseed => owed[s] = {})
  BY <1>1, <1>2, Filed
<1>4. /\ op' \in Calling /\ op'.sid = s /\ op'.pc = "install" /\ op'.conn = Null /\ op'.closing = Null
      /\ op'.reseed = o.reseed
  BY <1>1, <1>2, <1>3 DEF Calling
<1>5. CallsAreFiled'
  BY <1>1, <1>3, <1>4 DEF CallsAreFiled
<1>6. NobodyForgotten'
  BY <1>1, <1>4 DEF NobodyForgotten, PoolInv
<1>7. \A k \in Conns : Ending(k) => k = i
  BY <1>2, <1>3, NullAssumption DEF Ending
<1>8. \A k \in Conns : k \in {op.conn, op.closing} /\ k # i => op' # Null /\ k \in {op'.conn, op'.closing}
  BY <1>2, <1>3, NullAssumption
<1>9. op' # Null => {op'.conn, op'.closing} \subseteq {op.conn, op.closing, Null}
  BY <1>4
<1> QED BY <1>1, <1>2, <1>3, <1>4, <1>5, <1>6, <1>7, <1>8, <1>9, TornDown, SameBus

\* detach_session stops what it took out.
LEMMA FinishDetachStep ==
    ASSUME PoolInv, FinishDetach
    PROVE  PoolInv'
<1>1. op # Null /\ op.pc = "detach" /\ op' = Null /\ conns' = Stopped(op.conn)
      /\ bus' = Append(bus, [kind |-> "closed", sid |-> op.sid])
      /\ UNCHANGED <<daemon, warm, order, journaled, running, viewed, connected, reap, owed, ops, looks, lapses, reaps>>
  BY DEF FinishDetach, hub, budget, Emit
<1>2. PICK i \in Conns, s \in Sessions, o \in Calling : i = op.conn /\ s = op.sid /\ o = op
  BY <1>1, Filed, OpFields
<1>3. conns[i] # Null /\ conns[i].sid = s /\ warm[s] = Null /\ o.closing = Null
  BY <1>1, <1>2, Filed
<1>4. PICK ev : ev = [kind |-> "closed", sid |-> s]
  OBVIOUS
<1>5. ev \in BusEvent /\ ev.kind = "closed"
  BY <1>4 DEF BusEvent
<1>6. bus' \in Seq(BusEvent) /\ \A t \in Sessions : Emitted(t)
  <2>1. bus \in Seq(BusEvent) /\ bus' = Append(bus, ev)
    BY <1>1, <1>2, <1>4 DEF PoolInv, PoolTypeOK
  <2> QED BY <1>5, <2>1 DEF Emitted
<1>7. CallsAreFiled'
  BY <1>1 DEF CallsAreFiled
<1>8. NobodyForgotten'
  BY <1>1 DEF NobodyForgotten, PoolInv
<1>9. \A k \in Conns : Ending(k) => k = i
  BY <1>2, <1>3, NullAssumption DEF Ending
<1>10. \A k \in Conns : k \in {op.conn, op.closing} /\ k # i => op' # Null /\ k \in {op'.conn, op'.closing}
  BY <1>2, <1>3, NullAssumption
<1> QED BY <1>1, <1>2, <1>3, <1>6, <1>7, <1>8, <1>9, <1>10, TornDown

\* A victim is disposed of.
LEMMA EvictDisposeStep ==
    ASSUME PoolInv, EvictDispose
    PROVE  PoolInv'
<1>1. op # Null /\ op.pc = "evict" /\ op.closing # Null /\ op' = [op EXCEPT !.closing = Null]
      /\ conns' = Stopped(op.closing) /\ daemon' = Killed(op.closing)
      /\ order' = retain(order, Sessions \ {conns[op.closing].sid})
      /\ UNCHANGED <<warm, bus, journaled, running, viewed, connected, reap, owed, ops, looks, lapses, reaps>>
  BY DEF EvictDispose, hub, budget
<1>2. PICK i \in Conns, s \in Sessions, c \in Conns, o \in Calling : i = op.closing /\ s = op.sid /\ o = op /\ c = op.conn
  BY <1>1, Filed, OpFields
<1>3. /\ conns[i] # Null /\ warm[conns[i].sid] = Null /\ conns[c] # Null /\ conns[c].sid = s
      /\ warm[s] \in {Null, c} /\ s \notin ToSet(o.victims) /\ (o.reseed => owed[s] = {})
      /\ (reaps = 0 => warm[s] = c)
  BY <1>1, <1>2, NullAssumption, Filed
<1>4. /\ op' \in Calling /\ op'.sid = s /\ op'.pc = "evict" /\ op'.conn = c /\ op'.closing = Null
      /\ op'.reseed = o.reseed /\ op'.victims = o.victims
  BY <1>1, <1>2 DEF Calling
<1>0. PoolTypeOK
  BY DEF PoolInv
<1>5. CallsAreFiled'
  <2>1. \A k \in Conns : (conns'[k] # Null <=> conns[k] # Null) /\ conns'[k].sid = conns[k].sid
    BY <1>0, <1>1, <1>2, <1>3, StoppedConn
  <2> QED BY <1>1, <1>2, <1>3, <1>4, <2>1, NullAssumption DEF CallsAreFiled
<1>6. NobodyForgotten'
  BY <1>1, <1>3, <1>4 DEF NobodyForgotten, PoolInv
<1>7. \A k \in Conns : Ending(k) => k = i
  BY <1>1, <1>2 DEF Ending
<1>8. \A k \in Conns : k \in {op.conn, op.closing} /\ k # i => op' # Null /\ k \in {op'.conn, op'.closing}
  BY <1>2, <1>4, CallFields
<1>9. op' # Null => {op'.conn, op'.closing} \subseteq {op.conn, op.closing, Null}
  BY <1>2, <1>4
<1> QED BY <1>1, <1>2, <1>3, <1>4, <1>5, <1>6, <1>7, <1>8, <1>9, TornDown, SameBus

-----------------------------------------------------------------------------
(* The warm pool: attaching, evicting, reaping *)

\* The session that is inserted is never a victim.
LEMMA PlanTyped ==
    ASSUME NEW o \in Seq(Sessions), NEW s, NEW evictable
    PROVE  /\ eviction_plan(o, s, evictable) \in Seq(Sessions)
           /\ s \notin ToSet(eviction_plan(o, s, evictable))
<1>1. PICK c : c = retain(o, evictable \ {s})
  OBVIOUS
<1>2. c \in Seq(Sessions) /\ \A x : x \in ToSet(c) <=> x \in ToSet(o) /\ x \in evictable \ {s}
  BY <1>1, RetainKeeps
<1>3. PICK L, need : L = Len(c) /\ need = Len(o) - WarmCap
  OBVIOUS
<1>4. L \in Nat /\ need \in Int
  BY <1>2, <1>3, WarmCapAssumption
<1>5. PICK m : m = IF need < L THEN need ELSE L
  OBVIOUS
<1>6. eviction_plan(o, s, evictable) = IF WarmCap = 0 \/ need <= 0 THEN <<>> ELSE SubSeq(c, 1, m)
  BY <1>1, <1>3, <1>5 DEF eviction_plan
<1>7. <<>> \in Seq(Sessions) /\ s \notin ToSet(<<>>)
  BY DEF ToSet
<1>8. ASSUME ~(need <= 0) PROVE SubSeq(c, 1, m) \in Seq(Sessions) /\ s \notin ToSet(SubSeq(c, 1, m))
  <2>1. m \in Nat /\ m <= L
    BY <1>4, <1>5, <1>8
  <2>2. PICK p : p = SubSeq(c, 1, m)
    OBVIOUS
  <2>3. p \in Seq(Sessions) /\ DOMAIN p = 1..m /\ \A k \in 1..m : p[k] = c[k] /\ k \in DOMAIN c
    BY <1>2, <1>3, <2>1, <2>2
  <2>4. s \notin ToSet(p)
    BY <1>2, <2>3 DEF ToSet
  <2> QED BY <2>2, <2>3, <2>4
<1> QED BY <1>6, <1>7, <1>8

\* A new attachment, in the hands of its call.
LEMMA InstallStep ==
    ASSUME PoolInv, NEW i \in Conns, Install(i)
    PROVE  PoolInv'
<1>1. PoolTypeOK
  BY DEF PoolInv
<1>2. op # Null /\ op.pc = "install" /\ conns[i] = Null
  BY DEF Install
<1>3. PICK s \in Sessions, o \in Calling : s = op.sid /\ o = op
  BY <1>2, OpFields
<1>4. o.closing = Null /\ o.conn = Null /\ warm[s] = Null /\ (o.reseed => owed[s] = {})
  BY <1>2, <1>3, Filed
<1>5. PICK unborn, pid : unborn = (daemon[s].pid = Null) /\ pid = (IF unborn THEN i ELSE daemon[s].pid)
  OBVIOUS
<1>6. unborn \in BOOLEAN /\ pid \in Conns
  BY <1>1, <1>5, DaemonFields
<1>7. PICK d, b : d = [sid |-> s, pid |-> pid, live |-> TRUE, cached |-> b, sse |-> "connecting",
                       inbox |-> <<>>, effect |-> Null] /\ b = daemon[s].turn
  OBVIOUS
<1>8. d \in Conn /\ d.sid = s /\ d.live = TRUE /\ d # Null
  <2>1. b \in BOOLEAN /\ <<>> \in Seq(StreamEvent)
    BY <1>1, <1>7, DaemonFields
  <2>2. d \in Conn
    BY <1>6, <1>7, <2>1 DEF Conn
  <2> QED BY <1>7, <2>2, ConnFields
<1>9. /\ daemon' = [daemon EXCEPT ![s].pid = pid]
      /\ conns' = [conns EXCEPT ![i] = d]
      /\ op' = [o EXCEPT !.pc = "insert", !.conn = i, !.cold = unborn]
      /\ UNCHANGED <<warm, order, bus, journaled, running, viewed, connected, reap, owed, ops, looks, lapses, reaps>>
  BY <1>3, <1>5, <1>7 DEF Install, hub, budget
<1>10. /\ op' \in Calling /\ op'.sid = s /\ op'.pc = "insert" /\ op'.conn = i /\ op'.closing = Null
       /\ op'.reseed = o.reseed /\ op' # Null
  <2>1. op' \in Calling
    BY <1>6, <1>9 DEF Calling
  <2>2. op'.sid = s /\ op'.pc = "insert" /\ op'.conn = i /\ op'.closing = Null /\ op'.reseed = o.reseed
    BY <1>3, <1>4, <1>9 DEF Calling
  <2> QED BY <2>1, <2>2, NullAssumption
<1>11. /\ conns' \in [Conns -> Conn \cup {Null}] /\ conns'[i] = d /\ Live(i)' /\ ~Live(i)
       /\ \A k \in Conns \ {i} : conns'[k] = conns[k] /\ (Live(k)' <=> Live(k))
  BY <1>1, <1>2, <1>8, <1>9 DEF PoolTypeOK, Live
<1>12. daemon' \in [Sessions -> Daemon]
       /\ \A t \in Sessions : daemon[t].rows \in Int /\ daemon'[t].rows \in Int /\ daemon'[t].rows >= daemon[t].rows
  <2>1. PICK x : x = [daemon[s] EXCEPT !.pid = pid]
    OBVIOUS
  <2>2. x \in Daemon /\ x.rows = daemon[s].rows
    BY <1>1, <1>6, <2>1, DaemonFields DEF Daemon
  <2>3. daemon' = [daemon EXCEPT ![s] = x]
    BY <1>9, <2>1
  <2>4. x.rows >= daemon[s].rows
    BY <1>1, <2>2, DaemonFields
  <2> QED BY <1>1, <2>2, <2>3, <2>4, OneDaemon
<1>13. \A t \in Sessions : IsWarm(t) => warm[t] \in Conns \ {i} /\ conns[warm[t]] # Null /\ conns[warm[t]].sid = t
  BY <1>1, <1>2 DEF PoolTypeOK, IsWarm
<1>14. PoolTypeOK'
  <2>1. \A t \in Sessions : IsWarm(t)' => conns'[warm'[t]] # Null /\ conns'[warm'[t]].sid = t
    BY <1>9, <1>11, <1>13 DEF IsWarm
  <2> QED BY <1>1, <1>9, <1>10, <1>11, <1>12, <2>1 DEF PoolTypeOK, Daemon
<1>15. PoolIsOrdered'
  BY <1>9 DEF PoolInv, PoolIsOrdered, IsWarm
<1>16. CallsAreFiled'
  <2>1. conns'[i] # Null /\ conns'[i].sid = s /\ warm'[s] = Null /\ (o.reseed => owed'[s] = {})
    BY <1>4, <1>8, <1>9, <1>11
  <2> QED BY <1>10, <2>1, NullAssumption DEF CallsAreFiled
<1>17. NobodyForgotten'
  BY <1>9, <1>10, <1>11 DEF NobodyForgotten, PoolInv
<1>18. LiveIffWarm'
  <2> SUFFICES ASSUME reaps = 0, NEW k \in Conns
               PROVE  /\ Live(k)' => warm[conns'[k].sid] = k \/ k = i
                      /\ \A t \in Sessions : warm[t] = k => Live(k)'
    BY <1>9, <1>10 DEF LiveIffWarm
  <2>1. /\ Live(k) => warm[conns[k].sid] = k
        /\ \A t \in Sessions : warm[t] = k => Live(k)
    BY <1>3, <1>4, NullAssumption DEF LiveIffWarm, PoolInv
  <2>2. CASE k = i
    BY <1>11, <2>1, <2>2
  <2>3. CASE k # i
    <3>1. conns'[k] = conns[k] /\ (Live(k)' <=> Live(k))
      BY <1>11, <2>3
    <3> QED BY <2>1, <3>1
  <2> QED BY <2>2, <2>3
<1>19. ReapsWarm'
  <2> SUFFICES ASSUME reap # Null, NEW k \in reap
               PROVE  conns'[k] # Null /\ (Live(k)' => warm[conns'[k].sid] = k)
    BY <1>9 DEF ReapsWarm
  <2>1. k \in Conns /\ conns[k] # Null /\ (Live(k) => warm[conns[k].sid] = k)
    <3>1. k \in Conns
      BY <1>1 DEF PoolTypeOK
    <3>2. ~Ending(k)
      BY <3>1, <1>1, <1>2, <1>3, <1>4, NullAssumption DEF Ending
    <3> QED BY <3>1, <3>2 DEF ReapsWarm, PoolInv
  <2>2. k # i
    BY <1>2, <2>1
  <2>3. conns'[k] = conns[k] /\ (Live(k)' <=> Live(k))
    BY <1>11, <2>1, <2>2
  <2> QED BY <2>1, <2>3
<1>20. RowsAreSafe'
  <2>1. \A t \in Sessions : Forgotten(t) => Forgotten(t)'
    <3> TAKE t \in Sessions
    <3> HAVE Forgotten(t)
    <3>1. PICK k \in Conns : Live(k) /\ conns[k].sid = t /\ warm[t] # k
      BY DEF Forgotten
    <3>2. k # i
      BY <1>11, <3>1
    <3>3. Live(k)' /\ conns'[k].sid = t /\ warm'[t] # k
      BY <1>9, <1>11, <3>1, <3>2
    <3>4. k \notin {op'.conn, op'.closing}
      BY <1>10, <3>2, NullAssumption
    <3> QED BY <3>3, <3>4 DEF Forgotten
  <2>2. ASSUME NEW t \in Sessions, owed[t] # {} PROVE Carried(t)
    <3>1. IsWarm(t)
      BY <2>2 DEF PoolInv, RowsAreSafe
    <3> QED BY <1>9, <1>11, <1>13, <3>1, SameCarries, SameBus
  <2> QED BY <1>9, <1>12, <2>1, <2>2, RowsStay
<1> QED BY <1>14, <1>15, <1>16, <1>17, <1>18, <1>19, <1>20 DEF PoolInv

\* The new attachment enters the pool and the victims are chosen.
LEMMA InsertStep ==
    ASSUME PoolInv, Insert
    PROVE  PoolInv'
<1>1. PoolTypeOK
  BY DEF PoolInv
<1>2. op # Null /\ op.pc = "insert"
  BY DEF Insert
<1>3. PICK s \in Sessions, o \in Calling, i \in Conns : s = op.sid /\ o = op /\ i = op.conn
  BY <1>2, OpFields, Filed
<1>4. o.closing = Null /\ warm[s] = Null /\ (o.reseed => owed[s] = {}) /\ conns[i] # Null /\ conns[i].sid = s
      /\ (reaps = 0 => Live(i)) /\ o.pc = "insert" /\ o.conn = i /\ o # Null
  BY <1>2, <1>3, Filed, NullAssumption
<1>5. PICK q, e, p : q = focused(order, s) /\ e = {t \in Sessions : t = s \/ ~Cached(t)} /\ p = eviction_plan(q, s, e)
  OBVIOUS
<1>6. order' = focused(order, s) /\ warm' = [warm EXCEPT ![s] = i] /\ op' = [o EXCEPT !.pc = "evict", !.victims = p]
      /\ UNCHANGED <<daemon, conns, bus, journaled, running, viewed, connected, reap, owed, ops, looks, lapses, reaps>>
  BY <1>3, <1>5 DEF Insert, hub, budget
<1>7. PICK r \in Seq(Sessions) : r = order
  BY <1>1 DEF PoolTypeOK
<1>8. q \in Seq(Sessions) /\ (\A x : x \in ToSet(q) <=> x \in ToSet(r) \/ x = s) /\ (Once(r) => Once(q))
  <2>1. q = focused(r, s)
    BY <1>5, <1>7
  <2> QED BY <2>1, FocusedKeeps
<1>9. p \in Seq(Sessions) /\ s \notin ToSet(p)
  BY <1>5, <1>8, PlanTyped
<1>10. /\ op' \in Calling /\ op'.sid = s /\ op'.pc = "evict" /\ op'.conn = i /\ op'.closing = Null
       /\ op'.reseed = o.reseed /\ op' # Null /\ op'.victims = p
  <2>1. op' \in Calling
    BY <1>6, <1>9 DEF Calling
  <2>2. op'.sid = s /\ op'.pc = "evict" /\ op'.conn = i /\ op'.closing = Null /\ op'.reseed = o.reseed /\ op'.victims = p
    BY <1>3, <1>4, <1>6 DEF Calling
  <2> QED BY <2>1, <2>2, NullAssumption
<1>11. warm' \in [Sessions -> Conns \cup {Null}] /\ warm'[s] = i /\ \A t \in Sessions \ {s} : warm'[t] = warm[t]
  BY <1>1, <1>6 DEF PoolTypeOK
<1>12. daemon' \in [Sessions -> Daemon]
      /\ \A t \in Sessions : daemon[t].rows \in Int /\ daemon'[t].rows \in Int /\ daemon'[t].rows >= daemon[t].rows
  BY <1>1, <1>6, SameDaemon
<1>13. order' = q
  BY <1>5, <1>6
<1>14. PoolTypeOK'
  <2>1. \A t \in Sessions : IsWarm(t)' => conns'[warm'[t]] # Null /\ conns'[warm'[t]].sid = t
    BY <1>1, <1>4, <1>6, <1>11 DEF IsWarm, PoolTypeOK
  <2> QED BY <1>1, <1>6, <1>8, <1>10, <1>11, <1>12, <1>13, <2>1 DEF PoolTypeOK, Daemon
<1>15. PoolIsOrdered'
  <2>1. Once(r) /\ \A t \in Sessions : IsWarm(t) => t \in ToSet(r)
    BY <1>7 DEF PoolInv, PoolIsOrdered, Once
  <2>2. Once(order') /\ \A t \in Sessions : IsWarm(t)' => t \in ToSet(order')
    BY <1>8, <1>11, <1>13, <2>1 DEF IsWarm
  <2> QED BY <2>2 DEF PoolIsOrdered, Once
<1>16. CallsAreFiled'
  <2>1. conns'[i] # Null /\ conns'[i].sid = s /\ warm'[s] = i /\ (o.reseed => owed'[s] = {}) /\ i # Null
    BY <1>4, <1>6, <1>11, NullAssumption
  <2> QED BY <1>9, <1>10, <2>1 DEF CallsAreFiled
<1>17. NobodyForgotten'
  BY <1>6, <1>10, <1>11 DEF NobodyForgotten, PoolInv
<1>18. LiveIffWarm'
  <2> SUFFICES ASSUME reaps = 0, NEW k \in Conns
               PROVE  /\ Live(k) => warm'[conns[k].sid] = k
                      /\ \A t \in Sessions : warm'[t] = k => Live(k)
    BY <1>6, <1>10 DEF LiveIffWarm, Live
  <2>0. reaps = 0
    OBVIOUS
  <2>1. /\ Live(k) => warm[conns[k].sid] = k \/ k = i
        /\ \A t \in Sessions : warm[t] = k => Live(k)
    BY <1>3, <1>4, NullAssumption DEF LiveIffWarm, PoolInv
  <2>2. Live(k) => conns[k].sid \in Sessions
    BY <1>1, ConnIsConn, ConnFields DEF Live
  <2>3. CASE k = i
    <3>1. \A t \in Sessions : warm'[t] = k => t = s \/ warm[t] = k
      BY <1>11
    <3>2. Live(k)
      BY <1>4, <2>0, <2>3
    <3> QED BY <1>4, <1>11, <2>3, <3>2
  <2>4. CASE k # i
    <3>1. ASSUME Live(k) PROVE warm'[conns[k].sid] = k
      <4>1. PICK t \in Sessions : t = conns[k].sid
        BY <2>2, <3>1
      <4>2. warm[t] = k
        BY <2>1, <2>4, <3>1, <4>1
      <4>3. t # s
        BY <1>4, <4>2, NullAssumption
      <4> QED BY <1>11, <4>1, <4>2, <4>3
    <3>2. \A t \in Sessions : warm'[t] = k => warm[t] = k
      BY <1>11, <2>4
    <3> QED BY <2>1, <3>1, <3>2
  <2> QED BY <2>3, <2>4
<1>19. ReapsWarm'
  <2> SUFFICES ASSUME reap # Null, NEW k \in reap
               PROVE  conns[k] # Null /\ (Live(k) => warm'[conns[k].sid] = k)
    BY <1>6 DEF ReapsWarm, Live
  <2>1. k \in Conns /\ conns[k] # Null /\ (Live(k) => warm[conns[k].sid] = k)
    <3>1. k \in Conns
      BY <1>1 DEF PoolTypeOK
    <3>2. ~Ending(k)
      BY <3>1, <1>1, <1>3, <1>4, NullAssumption DEF Ending
    <3> QED BY <3>1, <3>2 DEF ReapsWarm, PoolInv
  <2>2. conns[k].sid \in Sessions
    BY <1>1, <2>1, ConnIsConn, ConnFields
  <2> QED BY <1>4, <1>11, <2>1, <2>2, NullAssumption
<1>20. RowsAreSafe'
  <2>1. \A t \in Sessions : Forgotten(t) => Forgotten(t)'
    <3> TAKE t \in Sessions
    <3> HAVE Forgotten(t)
    <3>1. PICK k \in Conns : Live(k) /\ conns[k].sid = t /\ warm[t] # k /\ (op = Null \/ k \notin {op.conn, op.closing})
      BY DEF Forgotten
    <3>2. k # i
      BY <1>2, <1>3, <3>1
    <3>3. Live(k)' /\ conns'[k].sid = t /\ warm'[t] # k
      BY <1>6, <1>11, <3>1, <3>2 DEF Live
    <3>4. k \notin {op'.conn, op'.closing}
      BY <1>10, <3>2, NullAssumption
    <3> QED BY <3>3, <3>4 DEF Forgotten
  <2>2. ASSUME NEW t \in Sessions, owed[t] # {} PROVE Carried(t)
    <3>1. IsWarm(t) /\ t # s
      BY <1>4, <2>2 DEF PoolInv, RowsAreSafe, IsWarm
    <3> QED BY <1>6, <1>11, <3>1, SameCarries, SameBus
  <2> QED BY <1>6, <1>12, <2>1, <2>2, RowsStay
<1> QED BY <1>14, <1>15, <1>16, <1>17, <1>18, <1>19, <1>20 DEF PoolInv

\* A victim leaves the pool, into the hands of the call.
LEMMA EvictCloseStep ==
    ASSUME PoolInv, EvictClose
    PROVE  PoolInv'
<1>1. PoolTypeOK
  BY DEF PoolInv
<1>2. op # Null /\ op.pc = "evict" /\ op.closing = Null /\ op.victims # <<>>
  BY DEF EvictClose
<1>3. PICK s \in Sessions, o \in Calling, c \in Conns, p \in Seq(Sessions) : s = op.sid /\ o = op /\ c = op.conn /\ p = op.victims
  BY <1>2, OpFields, Filed
<1>4. PICK v, rest : v = Head(p) /\ rest = Tail(p)
  OBVIOUS
<1>5. v \in Sessions /\ rest \in Seq(Sessions) /\ v \in ToSet(p) /\ \A x : x \in ToSet(rest) => x \in ToSet(p)
  <2>1. p # <<>>
    BY <1>2, <1>3
  <2>2. v \in Sessions /\ rest \in Seq(Sessions) /\ 1 \in DOMAIN p /\ p[1] = v
        /\ \A k \in DOMAIN rest : k + 1 \in DOMAIN p /\ rest[k] = p[k + 1]
    BY <1>4, <2>1
  <2> QED BY <2>2 DEF ToSet
<1>6. PICK w : w = warm[v]
  OBVIOUS
<1>7. /\ w \in Conns \cup {Null}
      /\ w # Null => conns[w] # Null /\ conns[w].sid = v
  BY <1>1, <1>5, <1>6 DEF PoolTypeOK, IsWarm
<1>8. /\ s \notin ToSet(p) /\ v # s /\ warm[s] \in {Null, c} /\ conns[c] # Null /\ conns[c].sid = s
      /\ (o.reseed => owed[s] = {}) /\ (reaps = 0 => warm[s] = c) /\ o.pc = "evict" /\ o.conn = c /\ o.sid = s
  BY <1>2, <1>3, <1>5, Filed, NullAssumption
<1>9. /\ op' = [o EXCEPT !.victims = rest, !.closing = w]
      /\ warm' = [warm EXCEPT ![v] = Null]
      /\ bus' = IF IsWarm(v) THEN Append(bus, [kind |-> "closed", sid |-> v]) ELSE bus
      /\ owed' = [owed EXCEPT ![v] = {}]
      /\ UNCHANGED <<daemon, conns, order, journaled, running, viewed, connected, reap, ops, looks, lapses, reaps>>
  BY <1>3, <1>4, <1>6 DEF EvictClose, hub, budget
<1>10. /\ op' \in Calling /\ op'.sid = s /\ op'.pc = "evict" /\ op'.conn = c /\ op'.closing = w
       /\ op'.reseed = o.reseed /\ op' # Null /\ op'.victims = rest
  <2>1. op' \in Calling
    BY <1>5, <1>7, <1>9 DEF Calling
  <2>2. op'.sid = s /\ op'.pc = "evict" /\ op'.conn = c /\ op'.closing = w /\ op'.reseed = o.reseed /\ op'.victims = rest
    BY <1>8, <1>9 DEF Calling
  <2> QED BY <2>1, <2>2, NullAssumption
<1>11. /\ warm' \in [Sessions -> Conns \cup {Null}] /\ warm'[v] = Null /\ \A t \in Sessions \ {v} : warm'[t] = warm[t]
       /\ owed' \in [Sessions -> SUBSET Rows] /\ owed'[v] = {} /\ \A t \in Sessions \ {v} : owed'[t] = owed[t]
  BY <1>1, <1>5, <1>9 DEF PoolTypeOK
<1>12. daemon' \in [Sessions -> Daemon]
      /\ \A t \in Sessions : daemon[t].rows \in Int /\ daemon'[t].rows \in Int /\ daemon'[t].rows >= daemon[t].rows
  BY <1>1, <1>9, SameDaemon
<1>13. bus' \in Seq(BusEvent) /\ \A t \in Sessions : Emitted(t)
  <2>1. PICK ev : ev = [kind |-> "closed", sid |-> v]
    OBVIOUS
  <2>2. ev \in BusEvent /\ ev.kind = "closed"
    BY <1>5, <2>1 DEF BusEvent
  <2>3. bus \in Seq(BusEvent) /\ (bus' = bus \/ bus' = Append(bus, ev))
    BY <1>1, <1>9, <2>1 DEF PoolTypeOK
  <2>4. CASE bus' = bus
    BY <2>3, <2>4 DEF Emitted
  <2>5. CASE bus' = Append(bus, ev)
    BY <2>2, <2>3, <2>5 DEF Emitted
  <2> QED BY <2>3, <2>4, <2>5
<1>14. PoolTypeOK'
  <2>1. \A t \in Sessions : IsWarm(t)' => conns'[warm'[t]] # Null /\ conns'[warm'[t]].sid = t
    BY <1>1, <1>9, <1>11 DEF IsWarm, PoolTypeOK
  <2> QED BY <1>1, <1>9, <1>10, <1>11, <1>12, <1>13, <2>1 DEF PoolTypeOK, Daemon
<1>15. PoolIsOrdered'
  BY <1>9, <1>11 DEF PoolInv, PoolIsOrdered, IsWarm
<1>16. CallsAreFiled'
  <2>1. conns'[c] # Null /\ conns'[c].sid = s /\ warm'[s] \in {Null, c} /\ (o.reseed => owed'[s] = {}) /\ c # Null
    BY <1>8, <1>9, <1>11, NullAssumption
  <2>2. s \notin ToSet(rest)
    BY <1>5, <1>8
  <2>3. w # Null => conns'[w] # Null /\ warm'[conns'[w].sid] = Null
    BY <1>7, <1>9, <1>11
  <2> QED BY <1>10, <2>1, <2>2, <2>3 DEF CallsAreFiled
<1>17. NobodyForgotten'
  <2>1. reaps = 0 => warm'[s] = c /\ reap = Null
    BY <1>8, <1>11 DEF NobodyForgotten, PoolInv
  <2> QED BY <1>9, <1>10, <2>1 DEF NobodyForgotten
<1>18. LiveIffWarm'
  <2> SUFFICES ASSUME reaps = 0, NEW k \in Conns
               PROVE  /\ Live(k) => warm'[conns[k].sid] = k \/ k \in {c, w}
                      /\ \A t \in Sessions : warm'[t] = k => Live(k)
    BY <1>9, <1>10 DEF LiveIffWarm, Live
  <2>1. /\ Live(k) => warm[conns[k].sid] = k \/ k = c
        /\ \A t \in Sessions : warm[t] = k => Live(k)
    BY <1>2, <1>3, NullAssumption DEF LiveIffWarm, PoolInv
  <2>2. Live(k) => conns[k].sid \in Sessions
    BY <1>1, ConnIsConn, ConnFields DEF Live
  <2> QED BY <1>6, <1>11, <2>1, <2>2, NullAssumption
<1>19. ReapsWarm'
  <2> SUFFICES ASSUME reap # Null, NEW k \in reap
               PROVE  conns[k] # Null /\ (Live(k) => warm'[conns[k].sid] = k \/ Ending(k)')
    BY <1>9 DEF ReapsWarm, Live
  <2>1. k \in Conns /\ conns[k] # Null /\ (Live(k) => warm[conns[k].sid] = k)
    BY <1>1, <1>2, NullAssumption DEF ReapsWarm, PoolInv, PoolTypeOK, Ending
  <2>2. conns[k].sid \in Sessions
    BY <1>1, <2>1, ConnIsConn, ConnFields
  <2>3. k = w => Ending(k)'
    BY <1>10 DEF Ending
  <2> QED BY <1>6, <1>11, <2>1, <2>2, <2>3
<1>20. RowsAreSafe'
  <2>1. \A t \in Sessions : Forgotten(t) => Forgotten(t)'
    <3> TAKE t \in Sessions
    <3> HAVE Forgotten(t)
    <3>1. PICK k \in Conns : Live(k) /\ conns[k].sid = t /\ warm[t] # k /\ (op = Null \/ k \notin {op.conn, op.closing})
      BY DEF Forgotten
    <3>2. k # c
      BY <1>2, <1>3, <3>1
    <3>3. k # w
      BY <1>6, <1>7, <3>1, NullAssumption
    <3>4. Live(k)' /\ conns'[k].sid = t /\ warm'[t] # k
      BY <1>9, <1>11, <3>1, NullAssumption DEF Live
    <3>5. k \notin {op'.conn, op'.closing}
      BY <1>10, <3>2, <3>3
    <3> QED BY <3>4, <3>5 DEF Forgotten
  <2>2. ASSUME NEW t \in Sessions \ {v}, owed[t] # {} PROVE Carried(t)
    BY <1>9, <1>11, <1>13, SameCarries
  <2> QED BY <1>11, <1>12, <2>1, <2>2, RowsStay
<1> QED BY <1>14, <1>15, <1>16, <1>17, <1>18, <1>19, <1>20 DEF PoolInv

\* The reaper notes what is in the pool.
LEMMA ReapStartStep ==
    ASSUME PoolInv, ReapStart
    PROVE  PoolInv'
<1>1. PoolTypeOK
  BY DEF PoolInv
<1>2. reap' = {warm[s] : s \in {t \in Sessions : IsWarm(t)}} /\ reaps' = reaps + 1
      /\ UNCHANGED <<daemon, conns, warm, order, bus, journaled, running, viewed, connected, op, owed, ops, looks, lapses>>
  BY DEF ReapStart, pool, hub
<1>3. reaps \in Nat /\ reaps' # 0 /\ reaps' \in Nat
  BY <1>1, <1>2 DEF PoolTypeOK
<1>4. \A i \in reap' : i \in Conns /\ conns[i] # Null /\ warm[conns[i].sid] = i
  BY <1>1, <1>2 DEF PoolTypeOK, IsWarm
<1>5. PoolTypeOK'
  BY <1>1, <1>2, <1>3, <1>4 DEF PoolTypeOK, IsWarm
<1>6. PoolIsOrdered'
  BY <1>2 DEF PoolInv, PoolIsOrdered, IsWarm
<1>7. CallsAreFiled'
  BY <1>2 DEF PoolInv, CallsAreFiled
<1>8. NobodyForgotten' /\ LiveIffWarm'
  BY <1>3 DEF NobodyForgotten, LiveIffWarm
<1>9. ReapsWarm'
  BY <1>2, <1>4 DEF ReapsWarm
<1>10. RowsAreSafe'
  <2>1. \A t \in Sessions : Forgotten(t) => Forgotten(t)'
    BY <1>2 DEF Forgotten, Live
  <2>2. \A t \in Sessions : Carried(t)
    BY <1>2, SameBus, SameCarries
  <2> QED BY <1>1, <1>2, <2>1, <2>2, SameDaemon, RowsStay
<1> QED BY <1>5, <1>6, <1>7, <1>8, <1>9, <1>10 DEF PoolInv

\* The reaper disposes of one of them, which nobody else holds.
LEMMA ReapDisposeStep ==
    ASSUME PoolInv, NEW i \in Conns, ReapDispose(i)
    PROVE  PoolInv'
<1>1. PoolTypeOK
  BY DEF PoolInv
<1>2. reap # Null /\ i \in reap /\ conns' = Stopped(i) /\ daemon' = Killed(i) /\ reap' = reap \ {i}
      /\ owed' = [owed EXCEPT ![conns[i].sid] = {}]
      /\ UNCHANGED <<warm, order, bus, journaled, running, viewed, connected, op, ops, looks, lapses, reaps>>
  BY DEF ReapDispose, hub, budget
<1>3. conns[i] # Null /\ (Live(i) => warm[conns[i].sid] = i \/ Ending(i))
  BY <1>2 DEF PoolInv, ReapsWarm
<1>4. PICK s \in Sessions : s = conns[i].sid
  BY <1>1, <1>3, ConnIsConn, ConnFields
<1>5. /\ conns' \in [Conns -> Conn \cup {Null}]
      /\ ~Live(i)'
      /\ \A k \in Conns \ {i} : conns'[k] = conns[k] /\ (Live(k)' <=> Live(k))
      /\ \A k \in Conns : (conns'[k] # Null <=> conns[k] # Null) /\ conns'[k].sid = conns[k].sid
  BY <1>1, <1>2, <1>3, StoppedConn
<1>6. daemon' \in [Sessions -> Daemon]
      /\ \A t \in Sessions : daemon[t].rows \in Int /\ daemon'[t].rows \in Int /\ daemon'[t].rows >= daemon[t].rows
  BY <1>1, <1>2, <1>3, KilledDaemon
<1>7. owed' \in [Sessions -> SUBSET Rows] /\ owed'[s] = {} /\ \A t \in Sessions \ {s} : owed'[t] = owed[t]
  BY <1>1, <1>2, <1>4 DEF PoolTypeOK
<1>8. reaps # 0
  BY <1>2 DEF PoolInv, NobodyForgotten
<1>9. PoolTypeOK'
  <2>1. \A t \in Sessions : IsWarm(t)' => conns'[warm'[t]] # Null /\ conns'[warm'[t]].sid = t
    BY <1>1, <1>2, <1>5 DEF IsWarm, PoolTypeOK
  <2>2. reap' \subseteq Conns
    BY <1>1, <1>2 DEF PoolTypeOK
  <2> QED BY <1>1, <1>2, <1>5, <1>6, <1>7, <2>1, <2>2 DEF PoolTypeOK, Daemon
<1>10. PoolIsOrdered'
  BY <1>2 DEF PoolInv, PoolIsOrdered, IsWarm
<1>11. CallsAreFiled'
  <2>1. op # Null => op.conn \in Conns \cup {Null} /\ op.closing \in Conns \cup {Null} /\ op.sid \in Sessions
    BY OpFields
  <2>2. op # Null => (owed[op.sid] = {} => owed'[op.sid] = {})
    BY <1>7, <2>1
  <2>3. CallsAreFiled
    BY DEF PoolInv
  <2> QED BY <1>2, <1>5, <2>1, <2>2, <2>3 DEF CallsAreFiled
<1>12. NobodyForgotten' /\ LiveIffWarm'
  BY <1>2, <1>8 DEF NobodyForgotten, LiveIffWarm
<1>13. ReapsWarm'
  <2>1. \A k \in reap' : k \in Conns \ {i} /\ conns[k] # Null /\ (Live(k) => warm[conns[k].sid] = k \/ Ending(k))
    BY <1>1, <1>2 DEF PoolInv, ReapsWarm, PoolTypeOK
  <2> QED BY <1>2, <1>5, <2>1 DEF ReapsWarm, Ending
<1>14. RowsAreSafe'
  <2>1. \A t \in Sessions : Forgotten(t) => Forgotten(t)'
    <3> TAKE t \in Sessions
    <3> HAVE Forgotten(t)
    <3>1. PICK k \in Conns : Live(k) /\ conns[k].sid = t /\ warm[t] # k /\ (op = Null \/ k \notin {op.conn, op.closing})
      BY DEF Forgotten
    <3>2. k # i
      BY <1>3, <3>1 DEF Ending
    <3>3. Live(k)' /\ conns'[k].sid = t
      BY <1>5, <3>1, <3>2
    <3> QED BY <1>2, <3>1, <3>3 DEF Forgotten
  <2>2. ASSUME NEW t \in Sessions \ {s}, owed[t] # {} PROVE Carried(t)
    <3>1. IsWarm(t)
      BY <2>2 DEF PoolInv, RowsAreSafe
    <3>2. warm[t] \in Conns \ {i}
      BY <1>1, <1>4, <3>1 DEF PoolTypeOK, IsWarm
    <3> QED BY <1>2, <1>5, <3>2, SameBus, SameCarries
  <2> QED BY <1>6, <1>7, <2>1, <2>2, RowsStay
<1> QED BY <1>9, <1>10, <1>11, <1>12, <1>13, <1>14 DEF PoolInv

\* The reaper clears the pool.
LEMMA ReapFinishStep ==
    ASSUME PoolInv, ReapFinish
    PROVE  PoolInv'
<1>1. PoolTypeOK
  BY DEF PoolInv
<1>2. reap = {} /\ reap' = Null
      /\ warm' = [s \in Sessions |-> IF Cached(s) THEN warm[s] ELSE Null]
      /\ owed' = [s \in Sessions |-> IF Cached(s) THEN owed[s] ELSE {}]
      /\ UNCHANGED <<daemon, conns, order, bus, journaled, running, viewed, connected, op, ops, looks, lapses, reaps>>
  BY DEF ReapFinish, hub, budget
<1>3. /\ warm' \in [Sessions -> Conns \cup {Null}] /\ \A s \in Sessions : warm'[s] \in {warm[s], Null}
      /\ owed' \in [Sessions -> SUBSET Rows]
      /\ \A s \in Sessions : owed'[s] = {} \/ (owed'[s] = owed[s] /\ warm'[s] = warm[s])
      /\ \A s \in Sessions : owed[s] = {} => owed'[s] = {}
  BY <1>1, <1>2 DEF PoolTypeOK
<1>4. reaps # 0
  BY <1>2, NullAssumption DEF PoolInv, NobodyForgotten
<1>5. PoolTypeOK'
  BY <1>1, <1>2, <1>3 DEF PoolTypeOK, IsWarm
<1>6. PoolIsOrdered'
  BY <1>2, <1>3 DEF PoolInv, PoolIsOrdered, IsWarm
<1>7. CallsAreFiled'
  <2>1. op # Null => op.conn \in Conns \cup {Null} /\ op.closing \in Conns \cup {Null} /\ op.sid \in Sessions
    BY OpFields
  <2>2. op # Null /\ op.closing # Null => conns[op.closing].sid \in Sessions
    BY <1>1, <2>1, ConnIsConn, ConnFields DEF PoolInv, CallsAreFiled
  <2>3. CallsAreFiled
    BY DEF PoolInv
  <2> QED BY <1>2, <1>3, <2>1, <2>2, <2>3 DEF CallsAreFiled
<1>8. NobodyForgotten' /\ LiveIffWarm'
  BY <1>2, <1>4 DEF NobodyForgotten, LiveIffWarm
<1>9. ReapsWarm'
  BY <1>2 DEF ReapsWarm
<1>10. RowsAreSafe'
  <2>1. \A t \in Sessions : Forgotten(t) => Forgotten(t)'
    <3> TAKE t \in Sessions
    <3> HAVE Forgotten(t)
    <3>1. PICK k \in Conns : Live(k) /\ conns[k].sid = t /\ warm[t] # k /\ (op = Null \/ k \notin {op.conn, op.closing})
      BY DEF Forgotten
    <3>2. warm'[t] # k
      BY <1>3, <3>1, NullAssumption
    <3> QED BY <1>2, <3>1, <3>2 DEF Forgotten, Live
  <2>2. ASSUME NEW t \in Sessions, warm'[t] = warm[t] PROVE Carried(t)
    BY <1>2, <2>2, SameBus, SameCarries
  <2>3. \A t \in Sessions : daemon[t].rows \in Int /\ daemon'[t].rows \in Int /\ daemon'[t].rows >= daemon[t].rows
    BY <1>1, <1>2, SameDaemon
  <2> QED BY <1>3, <2>1, <2>2, <2>3, RowsStay
<1> QED BY <1>5, <1>6, <1>7, <1>8, <1>9, <1>10 DEF PoolInv

-----------------------------------------------------------------------------
(* The warm pool: the theorems *)

\* A sequence without repetition has as many elements as its length.
LEMMA OnceCounts ==
    ASSUME NEW S, NEW q \in Seq(S), Once(q)
    PROVE  IsFiniteSet(ToSet(q)) /\ Cardinality(ToSet(q)) = Len(q)
<1>1. PICK n \in Nat : n = Len(q) /\ DOMAIN q = 1..n
  OBVIOUS
<1>2. q \in Bijection(1..n, ToSet(q))
  BY <1>1 DEF ToSet, Once, Bijection, Injection, Surjection, IsInjective
<1>3. ExistsBijection(1..n, ToSet(q))
  BY <1>2 DEF ExistsBijection
<1>4. IsFiniteSet(ToSet(q))
  BY <1>3, FS_NatBijection
<1> QED BY <1>1, <1>3, <1>4, FS_CountingElements

\* The first m elements of a sequence.
LEMMA FirstOnes ==
    ASSUME NEW c \in Seq(Sessions), NEW m \in Nat, m <= Len(c)
    PROVE  /\ SubSeq(c, 1, m) \in Seq(Sessions) /\ Len(SubSeq(c, 1, m)) = m
           /\ ToSet(SubSeq(c, 1, m)) \subseteq ToSet(c)
           /\ Once(c) => Once(SubSeq(c, 1, m))
           /\ m = Len(c) => ToSet(SubSeq(c, 1, m)) = ToSet(c)
<1>1. PICK p : p = SubSeq(c, 1, m)
  OBVIOUS
<1>2. /\ p \in Seq(Sessions) /\ Len(p) = m /\ DOMAIN p = 1..m
      /\ \A k \in 1..m : p[k] = c[k] /\ k \in DOMAIN c
      /\ m = Len(c) => DOMAIN c = 1..m
  BY <1>1
<1>3. ToSet(p) \subseteq ToSet(c)
  BY <1>2 DEF ToSet
<1>4. Once(c) => Once(p)
  BY <1>2 DEF Once
<1>5. m = Len(c) => ToSet(p) = ToSet(c)
  BY <1>2 DEF ToSet
<1> QED BY <1>1, <1>2, <1>3, <1>4, <1>5

\* eviction_plan leaves as many ids as the cap allows, or takes every one that may be evicted.
LEMMA PlanLeaves ==
    ASSUME NEW o \in Seq(Sessions), Once(o), NEW s, NEW evictable, WarmCap # 0
    PROVE  \/ IsFiniteSet(ToSet(o)) /\ Cardinality(ToSet(o) \ ToSet(eviction_plan(o, s, evictable))) <= WarmCap
           \/ ToSet(eviction_plan(o, s, evictable)) = ToSet(o) \cap (evictable \ {s})
<1>1. PICK c, L, N : c = retain(o, evictable \ {s}) /\ L = Len(c) /\ N = Len(o)
  OBVIOUS
<1>2. c \in Seq(Sessions) /\ Once(c) /\ \A x : x \in ToSet(c) <=> x \in ToSet(o) /\ x \in evictable \ {s}
  BY <1>1, RetainKeeps
<1>3. L \in Nat /\ N \in Nat /\ WarmCap \in Nat
  BY <1>1, <1>2, WarmCapAssumption
<1>4. PICK need : need = N - WarmCap
  OBVIOUS
<1>5. IsFiniteSet(ToSet(o)) /\ Cardinality(ToSet(o)) = N
  BY <1>1, OnceCounts
<1>6. CASE need <= 0
  <2>1. eviction_plan(o, s, evictable) = <<>>
    BY <1>1, <1>4, <1>6 DEF eviction_plan
  <2>2. ToSet(o) \ ToSet(<<>>) = ToSet(o)
    BY DEF ToSet
  <2>3. N <= WarmCap
    BY <1>3, <1>4, <1>6
  <2>4. Cardinality(ToSet(o) \ ToSet(eviction_plan(o, s, evictable))) = N
    BY <1>5, <2>1, <2>2
  <2> QED BY <1>5, <2>3, <2>4
<1>7. CASE need > 0 /\ need < L
  <2>1. need \in Nat /\ need <= L
    BY <1>3, <1>4, <1>7
  <2>2. PICK p : p = SubSeq(c, 1, need)
    OBVIOUS
  <2>3. eviction_plan(o, s, evictable) = p
    BY <1>1, <1>3, <1>4, <1>7, <2>2 DEF eviction_plan
  <2>4. p \in Seq(Sessions) /\ Len(p) = need /\ ToSet(p) \subseteq ToSet(c) /\ Once(p)
    BY <1>1, <1>2, <2>1, <2>2, FirstOnes
  <2>5. Cardinality(ToSet(p)) = need
    BY <2>4, OnceCounts
  <2>6. ToSet(o) \cap ToSet(p) = ToSet(p)
    BY <1>2, <2>4
  <2>7. Cardinality(ToSet(o) \ ToSet(p)) = N - need
    <3>1. Cardinality(ToSet(o) \ ToSet(p)) = Cardinality(ToSet(o)) - Cardinality(ToSet(o) \cap ToSet(p))
      BY <1>5, FS_Difference
    <3> QED BY <1>5, <2>5, <2>6, <3>1
  <2>8. N - need = WarmCap
    BY <1>3, <1>4
  <2> QED BY <1>3, <1>5, <2>3, <2>7, <2>8
<1>8. CASE need > 0 /\ ~(need < L)
  <2>1. eviction_plan(o, s, evictable) = SubSeq(c, 1, L)
    BY <1>1, <1>3, <1>4, <1>8 DEF eviction_plan
  <2>2. ToSet(SubSeq(c, 1, L)) = ToSet(c)
    BY <1>1, <1>2, <1>3, FirstOnes
  <2>3. ToSet(c) = ToSet(o) \cap (evictable \ {s})
    BY <1>2
  <2> QED BY <2>1, <2>2, <2>3
<1> QED BY <1>3, <1>4, <1>6, <1>7, <1>8

\* The step CapRespected speaks of.
WithinCap ==
    op # Null /\ op.pc = "insert" /\ op'.pc = "evict" =>
          LET stay == {s \in Sessions : warm'[s] # Null} \ ToSet(op'.victims)
          IN  \/ WarmCap = 0
              \/ Cardinality(stay) <= WarmCap
              \/ \A s \in stay \ {op.sid} : conns[warm[s]].cached

\* Inserting keeps the cap: what is warm is in the order, once each.
LEMMA InsertKeepsCap ==
    ASSUME PoolInv, Insert
    PROVE  WithinCap
<1>1. PoolTypeOK
  BY DEF PoolInv
<1>2. op # Null /\ op.pc = "insert"
  BY DEF Insert
<1>3. PICK s \in Sessions, o \in Calling, i \in Conns : s = op.sid /\ o = op /\ i = op.conn
  BY <1>2, OpFields, Filed
<1>5. PICK q, e, p : q = focused(order, s) /\ e = {t \in Sessions : t = s \/ ~Cached(t)} /\ p = eviction_plan(q, s, e)
  OBVIOUS
<1>6. warm' = [warm EXCEPT ![s] = i] /\ op' = [o EXCEPT !.pc = "evict", !.victims = p]
  BY <1>3, <1>5 DEF Insert
<1>7. PICK r \in Seq(Sessions) : r = order
  BY <1>1 DEF PoolTypeOK
<1>8. Once(r) /\ \A t \in Sessions : IsWarm(t) => t \in ToSet(r)
  BY <1>7 DEF PoolInv, PoolIsOrdered, Once
<1>9. q \in Seq(Sessions) /\ (\A x : x \in ToSet(q) <=> x \in ToSet(r) \/ x = s) /\ Once(q)
  <2>1. q = focused(r, s)
    BY <1>5, <1>7
  <2> QED BY <1>8, <2>1, FocusedKeeps
<1>10. op'.victims = p
  BY <1>6 DEF Calling
<1>11. PICK stay : stay = {t \in Sessions : warm'[t] # Null} \ ToSet(p)
  OBVIOUS
<1>12. \A t \in stay : t \in ToSet(q) /\ t \in Sessions /\ (t # s => IsWarm(t)) /\ t \notin ToSet(p)
  BY <1>1, <1>6, <1>8, <1>9, <1>11 DEF PoolTypeOK, IsWarm
<1>13. ASSUME WarmCap # 0, ~ \A t \in stay \ {s} : conns[warm[t]].cached PROVE Cardinality(stay) <= WarmCap
  <2>1. ASSUME ToSet(p) = ToSet(q) \cap (e \ {s}) PROVE FALSE
    <3>1. PICK t \in stay \ {s} : ~conns[warm[t]].cached
      BY <1>13
    <3>2. t \in e
      BY <1>5, <1>12, <3>1 DEF Cached
    <3> QED BY <1>12, <2>1, <3>1, <3>2
  <2>2. IsFiniteSet(ToSet(q)) /\ Cardinality(ToSet(q) \ ToSet(p)) <= WarmCap
    BY <1>5, <1>9, <1>13, <2>1, PlanLeaves
  <2>3. IsFiniteSet(ToSet(q) \ ToSet(p))
    BY <2>2, FS_Difference
  <2>4. stay \subseteq ToSet(q) \ ToSet(p)
    BY <1>12
  <2>5. IsFiniteSet(stay) /\ Cardinality(stay) <= Cardinality(ToSet(q) \ ToSet(p))
    BY <2>3, <2>4, FS_Subset
  <2>6. Cardinality(stay) \in Nat /\ Cardinality(ToSet(q) \ ToSet(p)) \in Nat
    BY <2>3, <2>5, FS_CardinalityType
  <2> QED BY <2>2, <2>5, <2>6, WarmCapAssumption
<1> QED BY <1>3, <1>10, <1>11, <1>13 DEF WithinCap

\* Only Insert goes from "insert" to "evict".
LEMMA OnlyInsertPlans ==
    ASSUME [PoolNext]_poolVars, op # Null, op.pc = "insert", op'.pc = "evict", PoolInv
    PROVE  Insert
<1>1. CASE UNCHANGED poolVars
  BY <1>1 DEF poolVars
<1>2. ASSUME NEW s \in Sessions,
             \/ DaemonRow(s) \/ DaemonState(s)
             \/ \E how \in {"complete", "failed", "state"} : DaemonEnds(s, how)
      PROVE  FALSE
  BY <1>2 DEF DaemonRow, DaemonState, DaemonEnds
<1>3. ASSUME NEW s \in Sessions,
             OpenWarm(s) \/ OpenCold(s) \/ ReloadSession(s) \/ DetachSession(s) \/ Prompt(s)
      PROVE  FALSE
  BY <1>3 DEF OpenWarm, OpenCold, ReloadSession, DetachSession, Prompt, Begins
<1>4. ASSUME NEW i \in Conns,
             SseOpens(i) \/ SseLost(i) \/ Consume(i) \/ FetchState(i) \/ Reseed(i) \/ ReplayHistory(i) \/ Install(i) \/ ReapDispose(i)
      PROVE  FALSE
  BY <1>4 DEF SseOpens, SseLost, Consume, FetchState, Reseed, ReplayHistory, Install, ReapDispose
<1>5. ~on_event /\ ~add_client /\ ~remove_client /\ ~ReapStart /\ ~ReapFinish
  BY DEF on_event, add_client, remove_client, ReapStart, ReapFinish
<1>6. ~DisposeReloaded /\ ~InstallFails /\ ~EvictClose /\ ~EvictDispose /\ ~History /\ ~finish_switch /\ ~FinishDetach /\ ~Echo
  BY DEF DisposeReloaded, InstallFails, EvictClose, EvictDispose, History, finish_switch, FinishDetach, Echo
<1> QED BY <1>1, <1>2, <1>3, <1>4, <1>5, <1>6 DEF PoolNext

\* Every step keeps the invariant and the cap.
LEMMA PoolStep ==
    ASSUME PoolInv, [PoolNext]_poolVars
    PROVE  PoolInv' /\ WithinCap
<1>1. WithinCap
  BY OnlyInsertPlans, InsertKeepsCap DEF WithinCap
<1>2. CASE UNCHANGED poolVars
  <2>1. UNCHANGED <<daemon, conns, warm, order, bus, journaled, running, viewed, connected, op, reap, owed, ops, looks, lapses, reaps>>
    BY <1>2 DEF poolVars, pool, hub, budget
  <2>2. PoolTypeOK' /\ PoolIsOrdered' /\ LiveIffWarm'
    BY <2>1 DEF PoolInv, PoolTypeOK, PoolIsOrdered, LiveIffWarm, IsWarm, Live
  <2>3. CallsAreFiled' /\ NobodyForgotten' /\ ReapsWarm'
    BY <2>1 DEF PoolInv, CallsAreFiled, NobodyForgotten, ReapsWarm, Ending, Live
  <2>4. RowsAreSafe'
    <3>1. \A s \in Sessions : Forgotten(s) => Forgotten(s)'
      BY <2>1 DEF Forgotten, Live
    <3>2. \A s \in Sessions : Carried(s)
      BY <2>1, SameBus, SameCarries
    <3>3. \A s \in Sessions : daemon[s].rows \in Int /\ daemon'[s].rows \in Int /\ daemon'[s].rows >= daemon[s].rows
      BY <2>1, SameDaemon DEF PoolInv
    <3> QED BY <2>1, <3>1, <3>2, <3>3, RowsStay
  <2> QED BY <1>1, <2>2, <2>3, <2>4 DEF PoolInv
<1>3. ASSUME NEW s \in Sessions,
             \/ DaemonRow(s) \/ DaemonState(s)
             \/ \E how \in {"complete", "failed", "state"} : DaemonEnds(s, how)
             \/ OpenWarm(s) \/ OpenCold(s) \/ ReloadSession(s) \/ DetachSession(s) \/ Prompt(s)
      PROVE  PoolInv'
  BY <1>3, DaemonRowStep, DaemonStateStep, DaemonEndsStep, OpenWarmStep, OpenColdStep, ReloadStep, DetachStep, PromptStep
<1>4. ASSUME NEW i \in Conns,
             SseOpens(i) \/ SseLost(i) \/ Consume(i) \/ FetchState(i) \/ Reseed(i) \/ ReplayHistory(i) \/ Install(i) \/ ReapDispose(i)
      PROVE  PoolInv'
  BY <1>4, SseOpensStep, SseLostStep, ConsumeStep, FetchStateStep, ReseedStep, ReplayStep, InstallStep, ReapDisposeStep
<1> QED BY <1>1, <1>2, <1>3, <1>4, OnEventStep, ConnectStep, DisposeReloadedStep, InstallFailsStep, InsertStep,
           EvictCloseStep, EvictDisposeStep, HistoryStep, FinishSwitchStep, FinishDetachStep, EchoStep,
           ReapStartStep, ReapFinishStep DEF PoolNext

\* A pool in use satisfies the invariant.
LEMMA PoolInitial == PoolInit => PoolInv
<1> SUFFICES ASSUME PoolInit PROVE PoolInv
  OBVIOUS
<1> USE DEF PoolInit
<1>1. PICK L \in Nat : L = Len(Opened) /\ DOMAIN Opened = 1..L /\ 1..L \subseteq Conns
  BY OpenedAssumption, ConnsAssumption DEF Conns
<1>2. \A k \in 1..L : Opened[k] \in Sessions /\ Opened[k] \in ToSet(Opened)
  BY <1>1, OpenedAssumption DEF ToSet
<1>3. \A s \in ToSet(Opened) : Place(s) \in 1..L /\ Opened[Place(s)] = s
  BY <1>1 DEF Place, ToSet
<1>4. \A a, b \in 1..L : Opened[a] = Opened[b] => a = b
  BY <1>1, OpenedAssumption DEF IsInjective
<1>5. \A k \in 1..L : Place(Opened[k]) = k
  BY <1>2, <1>3, <1>4
<1>6. /\ \A s \in Sessions : warm[s] = IF s \in ToSet(Opened) THEN Place(s) ELSE Null
      /\ warm \in [Sessions -> Conns \cup {Null}]
  BY <1>1, <1>3
<1>7. ASSUME NEW k \in Conns
      PROVE  IF k \in 1..L THEN conns[k] \in Conn /\ conns[k].sid = Opened[k] /\ conns[k].live = TRUE ELSE conns[k] = Null
  <2>1. CASE k \in 1..L
    <3>1. PICK d : d = [sid |-> Opened[k], pid |-> k, live |-> TRUE, cached |-> Opened[k] \in Busy,
                        sse |-> "open", inbox |-> <<>>, effect |-> Null]
      OBVIOUS
    <3>2. <<>> \in Seq(StreamEvent) /\ (Opened[k] \in Busy) \in BOOLEAN
      OBVIOUS
    <3>3. d \in Conn /\ d.sid = Opened[k] /\ d.live = TRUE
      BY <1>2, <2>1, <3>1, <3>2 DEF Conn
    <3>4. conns[k] = d
      BY <1>1, <2>1, <3>1
    <3> QED BY <2>1, <3>3, <3>4
  <2>2. CASE k \notin 1..L
    BY <1>1, <2>2
  <2> QED BY <2>1, <2>2
<1>8. conns \in [Conns -> Conn \cup {Null}]
  <2>1. conns = [k \in Conns |-> conns[k]]
    OBVIOUS
  <2>2. \A k \in Conns : conns[k] \in Conn \cup {Null}
    BY <1>7
  <2> HIDE DEF PoolInit
  <2> QED BY <2>1, <2>2
<1>9. \A s \in Sessions : IsWarm(s) => conns[warm[s]] # Null /\ conns[warm[s]].sid = s /\ Live(warm[s])
  BY <1>1, <1>3, <1>6, <1>7, ConnFields DEF IsWarm, Live
<1>10. daemon \in [Sessions -> Daemon]
  <2>1. 0 \in 0..MaxRows
    BY ConnsAssumption
  <2> QED BY <1>1, <1>3, <2>1 DEF Daemon
<1>11. journaled \in [Sessions -> Seq(Rows) \cup {Null}] /\ order \in Seq(Sessions) /\ bus \in Seq(BusEvent)
  BY OpenedAssumption
<1>12. running \subseteq Sessions
  BY BusyAssumption, <1>1, <1>2 DEF ToSet
<1>a. /\ viewed = Null /\ connected = FALSE /\ op = Null /\ reap = Null
      /\ owed \in [Sessions -> SUBSET Rows] /\ \A s \in Sessions : owed[s] = {}
      /\ {ops, looks, lapses, reaps} \subseteq Nat /\ order = Opened
  OBVIOUS
<1> HIDE DEF PoolInit
<1>13. PoolTypeOK
  BY <1>6, <1>8, <1>9, <1>10, <1>11, <1>12, <1>a DEF PoolTypeOK, Daemon
<1>14. PoolIsOrdered
  BY <1>1, <1>4, <1>6, <1>a DEF PoolIsOrdered, IsWarm
<1>15. LiveIffWarm
  <2>1. ASSUME NEW i \in Conns, Live(i) PROVE warm[conns[i].sid] = i
    <3>1. i \in 1..L /\ conns[i].sid = Opened[i]
      BY <1>7, <2>1 DEF Live
    <3> QED BY <1>2, <1>5, <1>6, <3>1
  <2>2. ASSUME NEW i \in Conns, NEW s \in Sessions, warm[s] = i PROVE Live(i)
    BY <1>9, <2>2, NullAssumption DEF IsWarm
  <2> QED BY <2>1, <2>2 DEF LiveIffWarm
<1>16. CallsAreFiled /\ NobodyForgotten /\ ReapsWarm
  BY <1>a DEF CallsAreFiled, NobodyForgotten, ReapsWarm
<1>17. RowsAreSafe
  BY <1>a DEF RowsAreSafe
<1> QED BY <1>13, <1>14, <1>15, <1>16, <1>17 DEF PoolInv

\* The invariant holds throughout.
LEMMA PoolInvHolds == PoolSpec => []PoolInv
<1>1. PoolInv /\ [PoolNext]_poolVars => PoolInv'
  BY PoolStep
<1> QED BY <1>1, PoolInitial, PTL DEF PoolSpec

\* A safe row is kept.
LEMMA SafeIsKept ==
    ASSUME NEW s, NEW n, Safe(s, n)
    PROVE  Kept(s, n)
<1>1. \A k \in DOMAIN bus : Tells(bus[k], s, n) =>
        /\ bus[k].sid = s
        /\ (bus[k].kind = "row" /\ bus[k].n = n) \/ (bus[k].kind = "history" /\ n <= bus[k].upto)
  BY DEF Tells
<1> QED BY <1>1 DEF Safe, Kept

\* The maps of the driver, the channels and the tables of the hub keep their shape, for any number of
\* sessions, attachments and rows and any cap (polytoken/driver.rs, hub.rs).
THEOREM PoolTypeCorrect == PoolSpec => []PoolTypeOK
<1>1. PoolInv => PoolTypeOK
  BY DEF PoolInv
<1> QED BY <1>1, PoolInvHolds, PTL

\* For any number of sessions, attachments, calls, faults and any cap: everything warm is in the
\* recency order, no id twice; until the idle reaper runs a consumer runs for exactly the attachments
\* the pool or a driver call holds; and no row streamed into a warm, journaled session is lost, or
\* taken back by a replay of an older history, unless the reaper forgot an attachment of that session
\* (install_warm, dispose_warm, dispose_idle_warm, handle_sse_event; Hub::on_event, finish_switch).
THEOREM WarmSessionsAreWholeCorrect == PoolSpec => []WarmSessionsAreWhole
<1>1. PoolInv => WarmSessionsAreWhole
  BY SafeIsKept DEF PoolInv, WarmSessionsAreWhole, LiveRowsKept, RowsAreSafe
<1> QED BY <1>1, PoolInvHolds, PTL

\* An insertion plans the eviction of as many sessions as exceed the cap, or of every one whose turn is
\* not known to run, whatever stale ids the recency order holds (warm_cap.rs eviction_plan).
THEOREM CapRespectedCorrect == PoolSpec => CapRespected
<1>1. PoolInv /\ [PoolNext]_poolVars => [WithinCap]_poolVars
  BY PoolStep
<1>2. CapRespected <=> [][WithinCap]_poolVars
  BY DEF CapRespected, WithinCap
<1> QED BY <1>1, <1>2, PoolInvHolds, PTL DEF PoolSpec
=============================================================================
