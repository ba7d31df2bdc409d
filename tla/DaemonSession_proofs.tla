------------------------ MODULE DaemonSession_proofs ------------------------
(***************************************************************************)
(* StrangersAreSpared, DaemonsAreAccounted and UncommittedWorkSurvives of  *)
(* DaemonSession, for any number of pids, processes and faults.            *)
(***************************************************************************)
EXTENDS DaemonSession, FiniteSetTheorems, FunctionTheorems, TLAPS

-----------------------------------------------------------------------------
(* The inductive invariant *)

\* Which operations carry a client, and which of these one whose Child handle is held; nothing
\* but a removal goes on beside a warm session.
Shape ==
    /\ op # None =>
         /\ op.client # None <=> op.at \notin {"create", "add", "spawn", "failed", "cold", "resume", "output",
                                               "look", "remove", "mark"}
         /\ op.at \in {"startup", "stderr", "reap", "child"} => op.client.child # None
         /\ op.at = "probe" => op.client.child = None
         /\ op.at \notin {"look", "remove", "mark"} => warm = None
         /\ op.wait = "answer" => op.at \in {"probe", "claim", "install", "detach"}
         /\ op.at \in {"create", "add"} \/ (op.at = "spawn" /\ op.wait # "command") => cwd = "none"
    /\ startup = None <=> cwd = "none"
    /\ cwd = "none" => warm = None /\ (op = None \/ op.at \in {"create", "add", "spawn", "failed", "mark"})

\* No two processes of a table were born together, no two daemons were given the same token.
Births1(t) == \A p, q \in Pids : t[p] # None /\ t[q] # None /\ p # q => t[p].born # t[q].born
Tokens1(t) ==
    \A p, q \in Pids :
        t[p] # None /\ t[q] # None /\ p # q /\ t[p].is = "daemon" /\ t[q].is = "daemon"
          => t[p].token # t[q].token

\* Births are handed out once, and tokens too: a resume writes one that no daemon has.
Unique ==
    /\ Births1(proc) /\ Tokens1(proc)
    /\ \A p \in Pids : proc[p] # None =>
         /\ proc[p].born <= births /\ proc[p].token <= births
         /\ cwd = "none" => proc[p].is = "other"
    /\ cred <= births + 1
    /\ op # None /\ op.at = "resume" =>
         \A p \in Pids : proc[p] # None /\ proc[p].is = "daemon" => proc[p].token < cred
    /\ startup # None => startup.port <= births

\* Only daemons start.
Fresh == \A p \in Pids : proc[p] # None /\ proc[p].phase = "starting" => proc[p].is = "daemon"

\* The client of a child: in table t the child is there, with the token it was started with.
HasChild(t, c) ==
    c.child # None =>
        t[c.child] # None /\ t[c.child].is = "daemon" /\ t[c.child].token = c.token

\* A client that was answered: it calls its own child, and no daemon but the one it calls has
\* the pid it was told.
Answered(t, c) ==
    /\ c.child # None => t[c.child].born = c.port
    /\ c.pid # None
    /\ t[c.pid] # None =>
         t[c.pid].is = "other" \/ (t[c.pid].born = c.port /\ t[c.pid].phase # "starting")

\* Whoever has the port of the client has the pid the client was told.
Located(t, c) == \A p \in Pids : t[p] # None /\ t[p].born = c.port => p = c.pid

\* Nobody has the port of the client.
Gone(t, c) == \A p \in Pids : t[p] # None => t[p].born # c.port

\* The start time that was read, if any, is that of the daemon.
Identified(c) == c.start = None \/ c.start = c.port

Clients ==
    /\ warm # None =>
         /\ HasChild(proc, warm) /\ Answered(proc, warm) /\ Identified(warm)
         /\ warm.port <= births
    /\ op # None /\ op.client # None =>
         /\ HasChild(proc, op.client)
         /\ op.client.port <= births
         /\ op.at \in {"capture", "claim", "install", "child", "close", "kill"} => Answered(proc, op.client)
         /\ op.at \in {"capture", "claim"} => Located(proc, op.client)
         /\ op.at \in {"startup", "probe", "health", "capture"} => op.client.start = None
         /\ op.at = "claim" => Identified(op.client) \/ Gone(proc, op.client)
         /\ op.at \in {"install", "child", "close", "kill"} => Identified(op.client)

\* The daemons of table t that run, and those among them that a port does not reach.
Living(t) == {p \in Pids : t[p] # None /\ t[p].phase # "zombie" /\ t[p].is = "daemon"}
Others(t, b) == {p \in Living(t) : t[p].born # b}

\* A child of which it is not known yet whether startup.json speaks of it.
Unsure ==
    /\ op # None /\ op.client # None /\ op.client.child # None
    /\ \/ op.at \in {"startup", "stderr", "reap"}
       \/ op.at = "health" /\ proc[op.client.child].born # op.client.port

\* Every daemon but the one that startup.json names, or the child of such an operation, is a
\* stray.
Accounted ==
    startup # None =>
        \/ Cardinality(Others(proc, startup.port)) <= strays
        \/ Unsure /\ Cardinality(Living(proc) \ {op.client.child}) <= strays

\* An attach that fails leaves no daemon but strays, and this is so when the next one is spawned.
AttachAccounted ==
    op # None =>
        /\ op.client # None /\ op.client.child = None /\ op.name \in {"open", "reload"}
           /\ op.at \in {"probe", "health", "capture", "claim"}
             => Cardinality(Others(proc, op.client.port)) <= strays
        /\ op.at \in {"cold", "resume"} => Cardinality(Living(proc)) <= strays

\* The worktree of a session has a vcs; a removal that is not forced comes after a look that
\* found no changes, and what it deleted then was in a jj workspace.
TreeKept ==
    /\ cwd = "tree" \/ (op # None /\ (op.at = "add" \/ (op.at = "spawn" /\ op.name = "new_tree")))
         => tree.vcs \in Vcs
    /\ op # None /\ op.at \in {"look", "remove"} => cwd = "tree"
    /\ op # None /\ op.at = "remove" /\ ~op.force => op.seen
    /\ \A l \in lost : l.vcs = "jj" /\ l.clean

Inv ==
    /\ TypeOK /\ Shape /\ Unique /\ Fresh /\ Clients
    /\ Accounted /\ AttachAccounted /\ TreeKept
    /\ StrangersAreSpared

-----------------------------------------------------------------------------
(* Process tables, and how many daemons they hold *)

Tables == [Pids -> Processes \cup {None}]

\* Table u holds no process that t does not hold, and nobody in it starts or is told to go on.
Fades(t, u) ==
    \A p \in Pids : u[p] # None =>
        /\ t[p] # None
        /\ u[p].born = t[p].born /\ u[p].is = t[p].is /\ u[p].token = t[p].token
        /\ u[p].phase = "starting" => t[p].phase = "starting"
        /\ t[p].phase = "zombie" => u[p].phase = "zombie"

LEMMA LivingFinite ==
    ASSUME NEW t, NEW b
    PROVE  /\ IsFiniteSet(Living(t)) /\ IsFiniteSet(Others(t, b))
           /\ Cardinality(Living(t)) \in Nat /\ Cardinality(Others(t, b)) \in Nat
<1>1. Living(t) \in SUBSET Pids /\ Others(t, b) \in SUBSET Pids
  BY DEF Living, Others
<1> QED BY <1>1, FS_Subset, FS_CardinalityType, DaemonAssumption

LEMMA Shrinks ==
    ASSUME NEW S, IsFiniteSet(S), NEW T \in SUBSET S, NEW n \in Nat, Cardinality(S) <= n
    PROVE  Cardinality(T) <= n
BY FS_Subset, FS_CardinalityType

\* A table that fades has no more daemons to account for.
LEMMA FadesCounts ==
    ASSUME NEW t, NEW u, Fades(t, u), NEW b
    PROVE  /\ Living(u) \in SUBSET Living(t)
           /\ Others(u, b) \in SUBSET Others(t, b)
           /\ Living(u) \ {b} \in SUBSET (Living(t) \ {b})
BY DEF Fades, Living, Others

LEMMA FadesCardinality ==
    ASSUME NEW t, NEW u, Fades(t, u), NEW n \in Nat
    PROVE  /\ Cardinality(Living(t)) <= n => Cardinality(Living(u)) <= n
           /\ \A b : Cardinality(Others(t, b)) <= n => Cardinality(Others(u, b)) <= n
           /\ \A b : Cardinality(Living(t) \ {b}) <= n => Cardinality(Living(u) \ {b}) <= n
<1>1. Cardinality(Living(t)) <= n => Cardinality(Living(u)) <= n
  BY FadesCounts, LivingFinite, Shrinks
<1>2. ASSUME NEW b, Cardinality(Others(t, b)) <= n
      PROVE  Cardinality(Others(u, b)) <= n
  BY <1>2, FadesCounts, LivingFinite, Shrinks
<1>3. ASSUME NEW b, Cardinality(Living(t) \ {b}) <= n
      PROVE  Cardinality(Living(u) \ {b}) <= n
  <2>1. IsFiniteSet(Living(t) \ {b})
    BY LivingFinite, FS_Subset
  <2> QED BY <1>3, <2>1, FadesCounts, Shrinks
<1> QED BY <1>1, <1>2, <1>3

LEMMA AllButOne ==
    ASSUME NEW S, IsFiniteSet(S), NEW x, NEW n \in Nat, Cardinality(S \ {x}) <= n
    PROVE  Cardinality(S) <= n + 1
BY FS_RemoveElement, FS_CardinalityType

LEMMA OneLess ==
    ASSUME NEW S, IsFiniteSet(S), NEW x \in S, NEW n \in Nat, Cardinality(S) <= n + 1
    PROVE  IsFiniteSet(S \ {x}) /\ Cardinality(S \ {x}) <= n
<1>1. IsFiniteSet(S \ {x}) /\ Cardinality(S \ {x}) = Cardinality(S) - 1
  BY FS_RemoveElement
<1>2. Cardinality(S) \in Nat
  BY FS_CardinalityType
<1> QED BY <1>1, <1>2

\* The others are all but one.
LEMMA OthersAreAllButOne ==
    ASSUME NEW t, Births1(t), NEW b, NEW n \in Nat, Cardinality(Others(t, b)) <= n
    PROVE  Cardinality(Living(t)) <= n + 1
<1>1. CASE Living(t) = Others(t, b)
  BY <1>1, LivingFinite
<1>2. ASSUME NEW p \in Living(t), p \notin Others(t, b)
      PROVE  Cardinality(Living(t)) <= n + 1
  <2>1. Living(t) \ {p} = Others(t, b)
    BY <1>2 DEF Living, Others, Births1
  <2> QED BY <2>1, AllButOne, LivingFinite
<1> QED BY <1>1, <1>2 DEF Others

\* There are no more daemons than births.
LEMMA DaemonsAreBorn ==
    ASSUME NEW t \in Tables, Births1(t)
    PROVE  Cardinality(Living(t)) <= MaxBirths
<1> DEFINE f == [p \in Living(t) |-> t[p].born]
<1>1. \A p \in Living(t) : p \in Pids /\ t[p] # None /\ t[p] \in Processes
  BY DEF Living, Tables
<1>2. \A p \in Living(t) : t[p].born \in Births
  BY <1>1 DEF Processes
<1>3. f \in [Living(t) -> Births]
  BY <1>2
<1>4. \A p, q \in Living(t) : f[p] = f[q] => p = q
  BY <1>1 DEF Births1
<1>5. f \in Injection(Living(t), Births)
  BY <1>3, <1>4, Fun_IsInj
<1>6. IsFiniteSet(Births) /\ Cardinality(Births) = MaxBirths
  BY FS_Interval, DaemonAssumption DEF Births
<1> QED BY <1>5, <1>6, FS_Injection, LivingFinite

\* A process that joins the table as p.
LEMMA JoinCounts ==
    ASSUME NEW t, NEW u, NEW p \in Pids, \A q \in Pids \ {p} : u[q] = t[q],
           NEW n \in Nat, Cardinality(Living(t)) <= n
    PROVE  Cardinality(Living(u) \ {p}) <= n
<1>1. Living(u) \ {p} \in SUBSET Living(t)
  BY DEF Living
<1> QED BY <1>1, Shrinks, LivingFinite

-----------------------------------------------------------------------------
(* What a step keeps that only changes processes which are there *)

LEMMA TypesOfRecords ==
    /\ \A r \in Processes : r # None
    /\ \A r \in ClientTypes : r # None
    /\ \A r \in Operations : r # None
    /\ \A r \in Startups : r # None
    /\ \A n \in Nat : n # None
    /\ \A p \in Pids : p # None
    /\ Births \subseteq Nat /\ Tokens \subseteq Nat
BY NoneAssumption, DaemonAssumption DEF Births, Tokens

LEMMA FadesKeeps ==
    ASSUME NEW t \in Tables, NEW u \in Tables, Fades(t, u)
    PROVE  /\ Births1(t) => Births1(u)
           /\ Tokens1(t) => Tokens1(u)
           /\ \A c \in ClientTypes :
                /\ Located(t, c) => Located(u, c)
                /\ Gone(t, c) => Gone(u, c)
                /\ HasChild(t, c) /\ Answered(t, c) /\ (c.child # None => u[c.child] # None)
                     => Answered(u, c)
                /\ HasChild(t, c) /\ (c.child # None => u[c.child] # None) => HasChild(u, c)
<1>1. Births1(t) => Births1(u)
  BY DEF Births1, Fades
<1>2. Tokens1(t) => Tokens1(u)
  BY DEF Tokens1, Fades
<1>3. ASSUME NEW c \in ClientTypes
      PROVE  /\ Located(t, c) => Located(u, c)
             /\ Gone(t, c) => Gone(u, c)
             /\ HasChild(t, c) /\ (c.child # None => u[c.child] # None) => HasChild(u, c)
  BY DEF Located, Gone, HasChild, Fades, ClientTypes
<1>4. ASSUME NEW c \in ClientTypes,
             HasChild(t, c), Answered(t, c), c.child # None => u[c.child] # None
      PROVE  Answered(u, c)
  <2>1. c.child \in Pids \cup {None} /\ c.pid \in Pids \cup {None}
    BY DEF ClientTypes
  <2> QED BY <1>4, <2>1 DEF Answered, Fades
<1> QED BY <1>1, <1>2, <1>3, <1>4

LEMMA Kept ==
    ASSUME Inv, proc' \in Tables, Fades(proc, proc'), cred' \in Tokens, cred' <= births + 1,
           UNCHANGED <<births, cwd>>,
           startup' # None => startup'.port <= births,
           (op' = op /\ cred' = cred) \/ op' = None \/ op'.at # "resume"
    PROVE  Unique' /\ Fresh'
<1> USE DEF Inv
<1>1. proc \in Tables
  BY DEF TypeOK, Tables
<1>2. Births1(proc') /\ Tokens1(proc')
  BY <1>1, FadesKeeps DEF Unique
<1>3. Unique'
  BY <1>1, <1>2 DEF Unique, Fades
<1>4. Fresh'
  BY <1>1 DEF Fresh, Fades
<1> QED BY <1>3, <1>4

\* Enough that the table fades: the drivers' own records stay.
LEMMA WorldFades ==
    ASSUME Inv, proc' \in Tables, Fades(proc, proc'),
           \A p \in Pids : Held(p) /\ proc[p] # None => proc'[p] # None,
           UNCHANGED <<births, cred, cwd, lost, warm, op, strays, struck>>,
           \/ startup' = startup
           \/ /\ startup # None /\ startup' \in Startups /\ startup'.port <= births
              /\ Cardinality(Others(proc', startup'.port)) <= strays,
           faults' \in 0..MaxFaults, tree' \in TreeTypes, tree'.vcs = tree.vcs
    PROVE  Inv'
<1> USE DEF Inv
<1>1. proc \in Tables
  BY DEF TypeOK, Tables
<1>2. TypeOK'
  BY DEF TypeOK, Tables
<1>3. Shape'
  BY TypesOfRecords DEF Shape
<1>4. Unique' /\ Fresh'
  BY Kept DEF TypeOK, Unique
<1>5. Clients'
  <2>1. ASSUME warm # None
        PROVE  HasChild(proc', warm) /\ Answered(proc', warm)
    <3>1. warm \in ClientTypes /\ HasChild(proc, warm) /\ Answered(proc, warm)
      BY <2>1 DEF TypeOK, Clients
    <3>2. warm.child # None => proc'[warm.child] # None
      BY <2>1, <3>1 DEF Held, HasChild, ClientTypes
    <3> QED BY <1>1, <3>1, <3>2, FadesKeeps
  <2>2. ASSUME op # None, op.client # None
        PROVE  /\ op.client \in ClientTypes
               /\ HasChild(proc', op.client)
               /\ Answered(proc, op.client) => Answered(proc', op.client)
               /\ Located(proc, op.client) => Located(proc', op.client)
               /\ Gone(proc, op.client) => Gone(proc', op.client)
    <3>1. op.client \in ClientTypes /\ HasChild(proc, op.client)
      BY <2>2 DEF TypeOK, Operations, Clients
    <3>2. op.client.child # None => proc'[op.client.child] # None
      BY <2>2, <3>1 DEF Held, HasChild, ClientTypes
    <3> QED BY <1>1, <3>1, <3>2, FadesKeeps
  <2> QED BY <2>1, <2>2 DEF Clients
<1>6. strays \in Nat
  BY DaemonAssumption DEF TypeOK
<1>7. Unsure => Unsure'
  <2>1. ASSUME Unsure
        PROVE  op.client.child \in Pids /\ proc'[op.client.child] # None
    BY <2>1 DEF Unsure, Clients, HasChild, Held, TypeOK, Operations, ClientTypes
  <2> QED BY <2>1 DEF Unsure, Fades
<1>8. Accounted'
  <2> SUFFICES ASSUME startup # None, startup' = startup
               PROVE  \/ Cardinality(Others(proc', startup.port)) <= strays
                      \/ Unsure' /\ Cardinality(Living(proc') \ {op.client.child}) <= strays
    BY DEF Accounted
  <2>1. CASE Cardinality(Others(proc, startup.port)) <= strays
    BY <1>6, <2>1, FadesCardinality
  <2>2. CASE Unsure /\ Cardinality(Living(proc) \ {op.client.child}) <= strays
    <3>1. \A b : Cardinality(Living(proc) \ {b}) <= strays => Cardinality(Living(proc') \ {b}) <= strays
      BY <1>6, FadesCardinality
    <3> QED BY <1>7, <2>2, <3>1
  <2>3. \/ Cardinality(Others(proc, startup.port)) <= strays
        \/ Unsure /\ Cardinality(Living(proc) \ {op.client.child}) <= strays
    BY DEF Accounted
  <2> QED BY <2>1, <2>2, <2>3
<1>9. AttachAccounted'
  BY <1>6, FadesCardinality DEF AttachAccounted
<1>10. TreeKept' /\ StrangersAreSpared'
  BY DEF TreeKept, StrangersAreSpared
<1> QED BY <1>2, <1>3, <1>4, <1>5, <1>8, <1>9, <1>10

-----------------------------------------------------------------------------
(* The rest of the world *)

\* One process of the table changes.
LEMMA ProcessEdits ==
    ASSUME TypeOK, NEW p \in Pids, Runs(p), NEW r \in Processes, proc' = [proc EXCEPT ![p] = r],
           r.born = proc[p].born, r.is = proc[p].is, r.token = proc[p].token,
           r.phase = "starting" => proc[p].phase = "starting"
    PROVE  proc' \in Tables /\ Fades(proc, proc') /\ \A q \in Pids : proc[q] # None => proc'[q] # None
BY TypesOfRecords DEF TypeOK, Tables, Fades, Runs

LEMMA FaultsBounded == ASSUME TypeOK, Fault \/ UNCHANGED faults PROVE faults' \in 0..MaxFaults
BY DaemonAssumption DEF TypeOK, Fault

LEMMA DaemonHangsKeepsInv == ASSUME Inv, NEW p \in Pids, DaemonHangs(p) PROVE Inv'
<1> DEFINE r == [proc[p] EXCEPT !.phase = "hung"]
<1>1. TypeOK /\ Runs(p) /\ proc' = [proc EXCEPT ![p] = r] /\ proc[p] \in Processes
  BY DEF DaemonHangs, Inv, TypeOK, Runs
<1>2. r \in Processes /\ r.born = proc[p].born /\ r.is = proc[p].is /\ r.token = proc[p].token
      /\ r.phase = "hung"
  BY <1>1 DEF Processes
<1>3. proc' \in Tables /\ Fades(proc, proc') /\ \A q \in Pids : proc[q] # None => proc'[q] # None
  <2> HIDE DEF r
  <2> QED BY <1>1, <1>2, ProcessEdits
<1> QED
  BY <1>1, <1>3, WorldFades, FaultsBounded DEF DaemonHangs, Files, Trees, Ghosts, TypeOK

LEMMA ExitsKeepsInv == ASSUME Inv, NEW p \in Pids, Exits(p) PROVE Inv'
<1>1. TypeOK /\ Runs(p) /\ proc[p] \in Processes /\ proc' = [proc EXCEPT ![p] = Exited(p)]
  BY DEF Exits, Inv, TypeOK, Runs
<1> DEFINE r == [proc[p] EXCEPT !.phase = "zombie"]
<1>2. r \in Processes /\ r.born = proc[p].born /\ r.is = proc[p].is /\ r.token = proc[p].token
      /\ r.phase = "zombie" /\ r # None
  BY <1>1, TypesOfRecords DEF Processes
<1>3. Exited(p) = IF Held(p) THEN r ELSE None
  BY DEF Exited
<1> HIDE DEF r
<1>4. proc' \in Tables /\ Fades(proc, proc')
  BY <1>1, <1>2, <1>3 DEF Tables, Fades, TypeOK, Runs
<1>5. \A q \in Pids : Held(q) /\ proc[q] # None => proc'[q] # None
  BY <1>1, <1>2, <1>3 DEF TypeOK
<1> QED
  BY <1>1, <1>4, <1>5, WorldFades, FaultsBounded DEF Exits, Files, Trees, Ghosts, TypeOK

\* A terminal's attach and detach, and a lease that lapses, only change the holder.
LEMMA HolderKeepsInv ==
    ASSUME Inv, NEW p \in Pids, TuiAttaches(p) \/ TuiDetaches(p) \/ LeaseLapses(p)
    PROVE  Inv'
<1>1. PICK h \in {"none", "tui"} : proc' = [proc EXCEPT ![p].holder = h]
  BY DEF TuiAttaches, TuiDetaches, LeaseLapses
<1> DEFINE r == [proc[p] EXCEPT !.holder = h]
<1>2. TypeOK /\ Runs(p) /\ proc' = [proc EXCEPT ![p] = r] /\ proc[p] \in Processes
  BY <1>1 DEF TuiAttaches, TuiDetaches, LeaseLapses, Inv, TypeOK, Runs
<1>3. r \in Processes /\ r.born = proc[p].born /\ r.is = proc[p].is /\ r.token = proc[p].token
      /\ r.phase = proc[p].phase
  BY <1>2 DEF Processes
<1>4. proc' \in Tables /\ Fades(proc, proc') /\ \A q \in Pids : proc[q] # None => proc'[q] # None
  <2> HIDE DEF r
  <2> QED BY <1>2, <1>3, ProcessEdits
<1>5. /\ Fault \/ UNCHANGED faults
      /\ UNCHANGED <<births, warm, op, startup, cred, cwd, tree, lost, strays, struck>>
  BY DEF TuiAttaches, TuiDetaches, LeaseLapses, Files, Trees, Ghosts
<1> QED BY <1>2, <1>4, <1>5, WorldFades, FaultsBounded DEF TypeOK

\* All daemons are strays but the one startup.json names, or the child that is starting.
LEMMA AtMostOneMore ==
    ASSUME Inv, startup # None
    PROVE  Cardinality(Living(proc)) <= strays + 1
<1>1. strays \in Nat /\ Births1(proc)
  BY DaemonAssumption DEF Inv, TypeOK, Unique
<1>2. CASE Cardinality(Others(proc, startup.port)) <= strays
  BY <1>1, <1>2, OthersAreAllButOne
<1>3. CASE Cardinality(Living(proc) \ {op.client.child}) <= strays
  BY <1>1, <1>3, AllButOne, LivingFinite
<1> QED BY <1>2, <1>3 DEF Inv, Accounted

\* A daemon that writes startup.json takes the place of the one that was named there.
LEMMA DaemonStartsKeepsInv == ASSUME Inv, NEW p \in Pids, DaemonStarts(p) PROVE Inv'
<1>1. PICK phase \in {"ready", "failed"} :
        /\ proc' = [proc EXCEPT ![p].phase = phase]
        /\ startup' = [state |-> phase, pid |-> p, port |-> proc[p].born]
        /\ IF phase = "failed" THEN Fault ELSE UNCHANGED faults
  BY DEF DaemonStarts
<1> DEFINE r == [proc[p] EXCEPT !.phase = phase]
<1>2. /\ TypeOK /\ Runs(p) /\ proc[p].phase = "starting"
      /\ proc' = [proc EXCEPT ![p] = r] /\ proc[p] \in Processes
  BY <1>1 DEF DaemonStarts, Inv, TypeOK, Runs
<1>3. r \in Processes /\ r.born = proc[p].born /\ r.is = proc[p].is /\ r.token = proc[p].token
      /\ r.phase = phase
  BY <1>2 DEF Processes
<1> HIDE DEF r
<1>4. proc' \in Tables /\ Fades(proc, proc') /\ \A q \in Pids : proc[q] # None => proc'[q] # None
  BY <1>2, <1>3, ProcessEdits
<1>5. proc[p].is = "daemon" /\ proc[p] # None
  BY <1>2 DEF Inv, Fresh, Runs
<1>6. startup # None
  BY <1>5 DEF Inv, Unique, Shape
<1>7. startup' \in Startups /\ startup'.port = proc[p].born /\ startup'.port <= births
  BY <1>1, <1>2, <1>5 DEF Startups, Processes, Inv, Unique
<1>8. Cardinality(Others(proc', proc[p].born)) <= strays
  <2>1. p \in Living(proc)
    BY <1>2, <1>5 DEF Living
  <2>2. Others(proc', proc[p].born) \in SUBSET (Living(proc) \ {p})
    <3>1. proc'[p].born = proc[p].born
      BY <1>2, <1>3 DEF TypeOK
    <3> QED BY <1>4, <3>1, FadesCounts DEF Others
  <2>3. Cardinality(Living(proc)) <= strays + 1 /\ strays \in Nat
    BY <1>6, AtMostOneMore, DaemonAssumption DEF Inv, TypeOK
  <2>4. IsFiniteSet(Living(proc) \ {p}) /\ Cardinality(Living(proc) \ {p}) <= strays
    BY <2>1, <2>3, LivingFinite, OneLess
  <2> QED BY <2>2, <2>3, <2>4, Shrinks
<1>9. UNCHANGED <<births, cred, warm, op, cwd, tree, lost, strays, struck>>
  BY DEF DaemonStarts, Trees, Ghosts
<1> QED
  BY <1>1, <1>2, <1>4, <1>6, <1>7, <1>8, <1>9, WorldFades, FaultsBounded DEF TypeOK

-----------------------------------------------------------------------------
(* What is left to show of a step of the driver that starts no process *)

LEMMA DriverStep ==
    ASSUME Inv, proc' \in Tables, Fades(proc, proc'), UNCHANGED <<births, startup, cwd>>,
           cred' \in Tokens, cred' <= births + 1,
           op' \in Operations \cup {None}, warm' \in ClientTypes \cup {None},
           op' # None => op'.at # "resume",
           strays' \in 0..MaxBirths, faults' \in 0..MaxFaults, tree' \in TreeTypes,
           lost' \subseteq LostTypes, struck' \subseteq BOOLEAN, TRUE \notin struck',
           Shape', Clients', TreeKept',
           startup # None =>
             \/ Cardinality(Others(proc, startup.port)) <= strays'
             \/ Cardinality(Others(proc', startup.port)) <= strays'
             \/ Unsure' /\ Cardinality(Living(proc) \ {op'.client.child}) <= strays',
           op' # None =>
             /\ op'.client # None /\ op'.client.child = None /\ op'.name \in {"open", "reload"}
                /\ op'.at \in {"probe", "health", "capture", "claim"}
                  => Cardinality(Others(proc, op'.client.port)) <= strays'
             /\ op'.at = "cold" => Cardinality(Living(proc)) <= strays'
    PROVE  Inv'
<1>1. TypeOK'
  BY DEF Inv, TypeOK, Tables
<1>2. Unique' /\ Fresh'
  BY Kept DEF Inv, Unique
<1>3. strays' \in Nat
  BY DaemonAssumption
<1>4. /\ \A b : Cardinality(Others(proc, b)) <= strays' => Cardinality(Others(proc', b)) <= strays'
      /\ \A b : Cardinality(Living(proc) \ {b}) <= strays' => Cardinality(Living(proc') \ {b}) <= strays'
      /\ Cardinality(Living(proc)) <= strays' => Cardinality(Living(proc')) <= strays'
  BY <1>3, FadesCardinality
<1>5. Accounted'
  BY <1>4 DEF Accounted
<1>6. AttachAccounted'
  BY <1>4 DEF AttachAccounted
<1> QED BY <1>1, <1>2, <1>5, <1>6 DEF Inv, StrangersAreSpared

\* The table itself fades in a step that leaves it alone.
LEMMA SameFades ==
    ASSUME TypeOK, UNCHANGED proc
    PROVE  proc' \in Tables /\ Fades(proc, proc')
BY DEF TypeOK, Tables, Fades

\* Outside of an uncertain operation, all but what startup.json names are strays.
LEMMA SureAccounted ==
    ASSUME Inv, ~Unsure, startup # None
    PROVE  Cardinality(Others(proc, startup.port)) <= strays
BY DEF Inv, Accounted

\* One stray more accounts for all daemons.
LEMMA MoreAccounts ==
    ASSUME Inv, startup # None
    PROVE  /\ More \in 0..MaxBirths /\ strays <= More
           /\ Cardinality(Living(proc)) <= More
           /\ \A b : Cardinality(Others(proc, b)) <= More
<1>1. strays \in 0..MaxBirths /\ MaxBirths \in Nat /\ Births1(proc) /\ proc \in Tables
  BY DaemonAssumption DEF Inv, TypeOK, Unique, Tables
<1>2. Cardinality(Living(proc)) <= strays + 1 /\ Cardinality(Living(proc)) <= MaxBirths
  BY <1>1, AtMostOneMore, DaemonsAreBorn
<1>3. Cardinality(Living(proc)) \in Nat
  BY LivingFinite
<1>4. More \in 0..MaxBirths /\ strays <= More /\ Cardinality(Living(proc)) <= More
  BY <1>1, <1>2, <1>3 DEF More
<1>5. ASSUME NEW b
      PROVE  Cardinality(Others(proc, b)) <= More
  <2>1. More \in Nat /\ Others(proc, b) \in SUBSET Living(proc)
    BY <1>1, <1>4 DEF Others
  <2> QED BY <1>4, <2>1, Shrinks, LivingFinite
<1> QED BY <1>4, <1>5

LEMMA HeartbeatEndsKeepsInv == ASSUME Inv, HeartbeatEnds PROVE Inv'
<1> USE DEF Inv
<1>1. /\ warm # None /\ warm \in ClientTypes /\ warm' = [warm EXCEPT !.beat = FALSE]
      /\ UNCHANGED <<proc, births, op, faults, startup, cred, cwd, tree, lost, strays, struck>>
  BY DEF HeartbeatEnds, Table, Files, Trees, Ghosts, TypeOK
<1>2. /\ warm' \in ClientTypes /\ warm' # None /\ warm'.child = warm.child /\ warm'.token = warm.token
      /\ warm'.pid = warm.pid /\ warm'.port = warm.port /\ warm'.start = warm.start
  BY <1>1, TypesOfRecords DEF ClientTypes
<1>3. TypeOK' /\ Shape' /\ Unique' /\ Fresh' /\ TreeKept' /\ StrangersAreSpared'
  BY <1>1, <1>2 DEF TypeOK, Shape, Unique, Fresh, TreeKept, StrangersAreSpared
<1>4. Clients'
  BY <1>1, <1>2 DEF Clients, HasChild, Answered, Identified
<1>5. Accounted' /\ AttachAccounted'
  BY <1>1 DEF Accounted, AttachAccounted, Unsure
<1> QED BY <1>3, <1>4, <1>5

\* An operation that waits for what does not come is where it was, and so is the one whose wait
\* is over.
LEMMA WaitsKeepInv ==
    ASSUME Inv, op # None, NEW w \in {"no", "answer", "command"}, op' = [op EXCEPT !.wait = w],
           w = "answer" => op.at \in {"probe", "claim", "install", "detach"},
           w = "no" => op.wait = "answer",
           faults' \in 0..MaxFaults,
           UNCHANGED <<proc, births, startup, cred, cwd, tree, warm, strays, struck, lost>>
    PROVE  Inv'
<1> USE DEF Inv
<1>1. /\ op \in Operations /\ op' \in Operations
      /\ op'.at = op.at /\ op'.client = op.client /\ op'.name = op.name
      /\ op'.force = op.force /\ op'.seen = op.seen /\ op'.wait = w
  BY DEF TypeOK, Operations
<1>2. op' # None
  BY <1>1, TypesOfRecords
<1>3. TypeOK' /\ StrangersAreSpared'
  BY <1>1 DEF TypeOK, StrangersAreSpared
<1>4. Shape'
  BY <1>1, <1>2 DEF Shape
<1>5. Unique' /\ Fresh'
  BY <1>1, <1>2 DEF Unique, Fresh
<1>6. Clients' /\ TreeKept'
  BY <1>1, <1>2 DEF Clients, TreeKept
<1>7. Accounted' /\ AttachAccounted'
  BY <1>1, <1>2 DEF Accounted, AttachAccounted, Unsure
<1> QED BY <1>3, <1>4, <1>5, <1>6, <1>7

LEMMA HangsKeepsInv == ASSUME Inv, Hangs PROVE Inv'
<1>1. /\ op # None /\ op' = [op EXCEPT !.wait = "command"] /\ Fault /\ TypeOK
      /\ UNCHANGED <<proc, births, startup, cred, cwd, tree, warm, strays, struck, lost>>
  BY DEF Hangs, At, Inv, Table, Files, Trees, Ghosts
<1> QED BY <1>1, WaitsKeepInv, FaultsBounded

LEMMA AnswerEndsKeepsInv == ASSUME Inv, answer_ends PROVE Inv'
<1>1. /\ op # None /\ op.wait = "answer" /\ op' = [op EXCEPT !.wait = "no"] /\ TypeOK
      /\ UNCHANGED <<proc, births, startup, cred, cwd, tree, warm, strays, struck, lost, faults>>
  BY DEF answer_ends, Inv, Table, Files, Trees, Ghosts
<1> QED BY <1>1, WaitsKeepInv DEF TypeOK

\* The daemon that does not finish its answer hangs, as any daemon may.
LEMMA StallsKeepsInv == ASSUME Inv, NEW p \in Pids, Stalls(p) PROVE Inv'
<1> DEFINE r == [proc[p] EXCEPT !.phase = "hung"]
<1>1. /\ TypeOK /\ Runs(p) /\ proc' = [proc EXCEPT ![p] = r] /\ proc[p] \in Processes /\ proc \in Tables
      /\ op # None /\ op.at \in {"probe", "claim", "install", "detach"}
      /\ op' = [op EXCEPT !.wait = "answer"] /\ Fault
      /\ UNCHANGED <<births, startup, cred, cwd, tree, warm, strays, struck, lost>>
  BY DEF Stalls, At, Answers, Serves, Inv, TypeOK, Runs, Tables, Files, Trees, Ghosts
<1>2. r \in Processes /\ r.born = proc[p].born /\ r.is = proc[p].is /\ r.token = proc[p].token
      /\ r.phase = "hung"
  BY <1>1 DEF Processes
<1> HIDE DEF r
<1>3. proc' \in Tables /\ Fades(proc, proc') /\ \A q \in Pids : proc[q] # None => proc'[q] # None
  BY <1>1, <1>2, ProcessEdits
<1>4. /\ op \in Operations /\ op' \in Operations /\ op'.wait = "answer"
      /\ op'.at = op.at /\ op'.client = op.client /\ op'.name = op.name
  BY <1>1 DEF TypeOK, Operations
<1>5. op' # None /\ op.client # None /\ op.client \in ClientTypes /\ warm = None /\ startup # None
  BY <1>1, <1>4, TypesOfRecords DEF Inv, Shape, Operations
<1>6. Shape' /\ TreeKept'
  BY <1>1, <1>4, <1>5 DEF Inv, Shape, TreeKept
<1>7. op.client.child # None => proc'[op.client.child] # None
  <2>1. HasChild(proc, op.client) /\ op.client.child \in Pids \cup {None}
    BY <1>1, <1>5 DEF Inv, Clients, ClientTypes
  <2> QED BY <1>3, <2>1 DEF HasChild
<1>8. Clients'
  <2>1. HasChild(proc, op.client)
    BY <1>1, <1>5 DEF Inv, Clients
  <2>2. /\ HasChild(proc', op.client)
        /\ Answered(proc, op.client) => Answered(proc', op.client)
        /\ Located(proc, op.client) => Located(proc', op.client)
        /\ Gone(proc, op.client) => Gone(proc', op.client)
    BY <1>1, <1>3, <1>5, <1>7, <2>1, FadesKeeps
  <2> QED BY <1>1, <1>4, <1>5, <2>2 DEF Inv, Clients
<1>9. Cardinality(Others(proc, startup.port)) <= strays
  BY <1>1, <1>5, SureAccounted DEF Unsure
<1>10. op.client.child = None /\ op.name \in {"open", "reload"} /\ op.at \in {"probe", "claim"}
         => Cardinality(Others(proc, op.client.port)) <= strays
  BY <1>1, <1>5 DEF Inv, AttachAccounted
<1>11. faults' \in 0..MaxFaults
  BY <1>1, FaultsBounded
<1> QED
  BY <1>1, <1>3, <1>4, <1>5, <1>6, <1>8, <1>9, <1>10, <1>11, DriverStep
  DEF Inv, TypeOK, Unique, StrangersAreSpared

LEMMA AgentEditsKeepsInv == ASSUME Inv, AgentEdits PROVE Inv'
<1> USE DEF Inv
<1>1. /\ tree' = [tree EXCEPT !.dirty = ~@] /\ tree \in TreeTypes
      /\ UNCHANGED <<proc, births, warm, op, faults, startup, cred, cwd, lost, strays, struck>>
  BY DEF AgentEdits, Table, Files, Ghosts, TypeOK
<1>2. tree' \in TreeTypes /\ tree'.vcs = tree.vcs
  BY <1>1 DEF TreeTypes
<1>3. TypeOK /\ proc' \in Tables /\ Fades(proc, proc')
  BY <1>1, SameFades
<1> QED BY <1>1, <1>2, <1>3, WorldFades DEF TypeOK

\* A crash that leaves a living child which startup.json does not name counts it; any other child
\* is dead, or is the daemon that startup.json names.
LEMMA ServerCrashesKeepsInv == ASSUME Inv, ServerCrashes PROVE Inv'
<1> USE DEF Inv
<1>1. /\ warm' = None /\ op' = None
      /\ UNCHANGED <<births, startup, cred, cwd, tree, lost, struck>>
      /\ TypeOK /\ proc \in Tables
  BY DEF ServerCrashes, Files, Trees, TypeOK, Tables
<1>2. proc' = [p \in Pids |-> IF Runs(p) THEN proc[p] ELSE None]
  BY DEF ServerCrashes
<1>3. proc' \in Tables /\ Fades(proc, proc')
  BY <1>1, <1>2 DEF Tables, Fades, Runs
<1>4. /\ strays' \in 0..MaxBirths
      /\ strays' = strays \/ strays' = More
      /\ Unnamed => strays' = More
  BY DaemonAssumption DEF ServerCrashes, More, TypeOK
<1>5. strays \in Nat /\ MaxBirths \in Nat
  BY DaemonAssumption DEF TypeOK
<1>6. ASSUME startup # None
      PROVE  Cardinality(Others(proc, startup.port)) <= strays'
  <2>1. CASE Unnamed
    BY <1>4, <1>6, <2>1, MoreAccounts
  <2>2. CASE Unsure /\ ~Unnamed /\ Cardinality(Living(proc) \ {op.client.child}) <= strays
    <3>1. op.at \in {"startup", "stderr", "reap", "health"} /\ op # None /\ op.client.child # None
      BY <2>2 DEF Unsure
    <3>2. ~Runs(op.client.child) \/ proc[op.client.child].born = startup.port
      BY <2>2, <3>1 DEF Unnamed
    <3>3. Others(proc, startup.port) \in SUBSET (Living(proc) \ {op.client.child})
      BY <3>2 DEF Others, Living, Runs
    <3>4. IsFiniteSet(Living(proc) \ {op.client.child})
      BY LivingFinite, FS_Subset
    <3>5. Cardinality(Others(proc, startup.port)) <= strays /\ Cardinality(Others(proc, startup.port)) \in Nat
      BY <1>5, <2>2, <3>3, <3>4, Shrinks, LivingFinite
    <3> QED BY <3>5, <1>4, <1>5 DEF More
  <2>3. CASE Cardinality(Others(proc, startup.port)) <= strays
    <3>1. Cardinality(Others(proc, startup.port)) \in Nat
      BY LivingFinite
    <3> QED BY <2>3, <3>1, <1>4, <1>5 DEF More
  <2> QED BY <1>6, <2>1, <2>2, <2>3 DEF Accounted
<1>7. Shape' /\ Clients' /\ TreeKept'
  BY <1>1 DEF Shape, Clients, TreeKept
<1>8. faults' \in 0..MaxFaults
  BY <1>1, FaultsBounded DEF ServerCrashes
<1> QED
  BY <1>1, <1>3, <1>4, <1>6, <1>7, <1>8, DriverStep DEF TypeOK, Unique, StrangersAreSpared

-----------------------------------------------------------------------------
(* A process joins the table *)

Joins(p, r) ==
    /\ proc[p] = None /\ births < MaxBirths /\ births' = births + 1
    /\ proc' = [proc EXCEPT ![p] = r]
    /\ r \in Processes /\ r.born = births + 1 /\ r.token <= births + 1
    /\ r.is = "daemon" =>
         \A q \in Pids : proc[q] # None /\ proc[q].is = "daemon" => proc[q].token # r.token

LEMMA JoinsKeeps ==
    ASSUME Inv, NEW p \in Pids, NEW r, Joins(p, r)
    PROVE  /\ proc' \in Tables /\ births' \in 0..MaxBirths
           /\ Births1(proc') /\ Tokens1(proc')
           /\ \A q \in Pids : proc'[q] # None => proc'[q].born <= births' /\ proc'[q].token <= births'
           /\ proc'[p] = r /\ \A q \in Pids \ {p} : proc'[q] = proc[q]
<1>1. /\ proc' \in Tables /\ births' \in 0..MaxBirths /\ births \in Nat /\ r # None
      /\ proc'[p] = r /\ \A q \in Pids \ {p} : proc'[q] = proc[q]
  BY TypesOfRecords, DaemonAssumption DEF Joins, Inv, TypeOK, Tables
<1>2. \A q \in Pids : proc[q] # None => proc[q].born <= births /\ proc[q].token <= births
                                    /\ proc[q].born \in Nat /\ proc[q].token \in Nat
  BY TypesOfRecords DEF Inv, TypeOK, Unique, Processes
<1>3. r.born = births + 1 /\ r.token <= births + 1 /\ births' = births + 1
  BY DEF Joins
<1>4. Births1(proc')
  BY <1>1, <1>2, <1>3 DEF Births1, Inv, Unique
<1>5. Tokens1(proc')
  BY <1>1 DEF Tokens1, Inv, Unique, Joins
<1>6. \A q \in Pids : proc'[q] # None => proc'[q].born <= births' /\ proc'[q].token <= births'
  BY <1>1, <1>2, <1>3
<1> QED BY <1>1, <1>4, <1>5, <1>6

LEMMA StrangerKeepsInv == ASSUME Inv, NEW p \in Pids, Stranger(p) PROVE Inv'
<1> DEFINE r == [Daemon(births', "ready", 0) EXCEPT !.is = "other"]
<1>1. /\ proc[p] = None /\ births < MaxBirths /\ births' = births + 1 /\ proc' = [proc EXCEPT ![p] = r]
      /\ UNCHANGED <<warm, op, faults, startup, cred, cwd, tree, lost, strays, struck>>
  BY DEF Stranger, Files, Trees, Ghosts
<1>2. births \in Nat /\ MaxBirths \in Nat /\ births' \in Births /\ TypeOK
  BY <1>1, DaemonAssumption DEF Inv, TypeOK, Births
<1>3. r \in Processes /\ r.born = births + 1 /\ r.token = 0 /\ r.is = "other" /\ r.phase = "ready" /\ r # None
  <2>1. 0 \in Tokens
    BY <1>2 DEF Tokens
  <2>2. r \in Processes
    BY <1>2, <2>1 DEF Processes, Daemon
  <2>3. r.born = births' /\ r.token = 0 /\ r.is = "other" /\ r.phase = "ready"
    BY DEF Daemon
  <2> QED BY <1>1, <2>2, <2>3, TypesOfRecords
<1> HIDE DEF r
<1>4. Joins(p, r)
  BY <1>1, <1>2, <1>3 DEF Joins
<1>5. /\ proc' \in Tables /\ births' \in 0..MaxBirths
      /\ Births1(proc') /\ Tokens1(proc')
      /\ \A q \in Pids : proc'[q] # None => proc'[q].born <= births' /\ proc'[q].token <= births'
      /\ proc'[p] = r /\ \A q \in Pids \ {p} : proc'[q] = proc[q]
  BY <1>4, JoinsKeeps
<1>6. TypeOK'
  BY <1>1, <1>2, <1>5 DEF TypeOK, Tables
<1>7. Shape' /\ TreeKept' /\ StrangersAreSpared'
  BY <1>1 DEF Inv, Shape, TreeKept, StrangersAreSpared
<1>8. \A q \in Pids : proc'[q] # None /\ proc'[q].is = "daemon" => q # p /\ proc'[q] = proc[q]
  BY <1>3, <1>5
<1>9. Unique'
  <2>1. cred' <= births' + 1 /\ (startup' # None => startup'.port <= births')
    BY <1>1, <1>2 DEF Inv, Unique, TypeOK, Tokens, Startups, Births
  <2>2. op' # None /\ op'.at = "resume" =>
          \A q \in Pids : proc'[q] # None /\ proc'[q].is = "daemon" => proc'[q].token < cred'
    BY <1>1, <1>8 DEF Inv, Unique
  <2>3. \A q \in Pids : proc'[q] # None /\ cwd' = "none" => proc'[q].is = "other"
    BY <1>1, <1>3, <1>5 DEF Inv, Unique
  <2> QED BY <1>5, <2>1, <2>2, <2>3 DEF Unique
<1>10. Fresh'
  BY <1>3, <1>5 DEF Inv, Fresh
<1>11. ASSUME NEW c \in ClientTypes, c.port <= births
       PROVE  /\ HasChild(proc, c) => HasChild(proc', c) /\ (c.child # None => c.child # p)
              /\ HasChild(proc, c) /\ Answered(proc, c) => Answered(proc', c)
              /\ Located(proc, c) => Located(proc', c)
              /\ Gone(proc, c) => Gone(proc', c)
  <2>1. c.child \in Pids \cup {None} /\ c.pid \in Pids \cup {None} /\ c.port \in Nat
    BY TypesOfRecords DEF ClientTypes
  <2>2. r.born # c.port
    BY <1>2, <1>3, <1>11, <2>1
  <2>3. HasChild(proc, c) => HasChild(proc', c) /\ (c.child # None => c.child # p)
    BY <1>1, <1>5, <2>1 DEF HasChild
  <2>4. HasChild(proc, c) /\ Answered(proc, c) => Answered(proc', c)
    BY <1>3, <1>5, <2>1, <2>3 DEF Answered
  <2>5. (Located(proc, c) => Located(proc', c)) /\ (Gone(proc, c) => Gone(proc', c))
    BY <1>5, <2>2 DEF Located, Gone
  <2> QED BY <2>3, <2>4, <2>5
<1>12. Clients'
  <2>1. \A c \in ClientTypes : c.port <= births => c.port <= births'
    <3>1. \A c \in ClientTypes : c.port \in Nat
      BY TypesOfRecords DEF ClientTypes
    <3>2. births \in Nat /\ births' = births + 1
      BY <1>1, <1>2
    <3> QED BY <3>1, <3>2
  <2>2. warm # None => warm \in ClientTypes
    BY DEF Inv, TypeOK
  <2>3. op # None /\ op.client # None => op.client \in ClientTypes
    BY DEF Inv, TypeOK, Operations
  <2> QED BY <1>1, <1>11, <2>1, <2>2, <2>3 DEF Inv, Clients
<1>13. Living(proc') = Living(proc) /\ \A b : Others(proc', b) = Others(proc, b)
  <2>1. Living(proc') = Living(proc)
    BY <1>1, <1>3, <1>5 DEF Living
  <2> QED BY <1>1, <1>5, <2>1 DEF Others, Living
<1>14. Unsure => Unsure'
  <2>1. ASSUME Unsure
        PROVE  op.client.child \in Pids \ {p}
    BY <1>1, <2>1 DEF Inv, Unsure, Clients, HasChild, TypeOK, Operations, ClientTypes
  <2> QED BY <1>1, <1>5, <2>1 DEF Unsure
<1>15. Accounted' /\ AttachAccounted'
  BY <1>1, <1>13, <1>14 DEF Inv, Accounted, AttachAccounted
<1> QED BY <1>6, <1>7, <1>9, <1>10, <1>12, <1>15 DEF Inv

\* `polytoken new`: the first daemon of the session.
LEMMA SpawnNewKeepsInv ==
    ASSUME Inv, At("spawn"), births < MaxBirths, NEW p \in Pids, proc[p] = None,
           births' = births + 1,
           proc' = [proc EXCEPT ![p] = Daemon(births', "ready", births')],
           startup' = [state |-> "ready", pid |-> p, port |-> births'],
           cred' = births',
           cwd' = IF op.name = "new_tree" THEN "tree" ELSE "dir",
           \/ op' = [op EXCEPT !.at = "health", !.client = Client(births', births', None)] /\ UNCHANGED faults
           \/ (Goto("failed") \/ op' = [op EXCEPT !.wait = "command"]) /\ Fault,
           UNCHANGED <<tree, lost, warm, strays, struck>>
    PROVE  Inv'
<1>1. /\ births \in Nat /\ births' \in Nat /\ births' \in Births /\ births' \in Tokens
      /\ births' \in 0..MaxBirths /\ TypeOK /\ op \in Operations /\ op # None /\ op.at = "spawn"
      /\ op.wait = "no" /\ op.client = None /\ warm = None /\ cwd = "none" /\ strays \in Nat
  BY DaemonAssumption DEF Inv, TypeOK, Births, Tokens, At, Shape
<1>2. \A q \in Pids : proc[q] # None => proc[q].is = "other"
  BY <1>1 DEF Inv, Unique
<1> DEFINE r == Daemon(births', "ready", births')
<1>3. r \in Processes /\ r # None
  BY <1>1, TypesOfRecords DEF Processes, Daemon
<1>4. r.born = births + 1 /\ r.token = births + 1 /\ r.is = "daemon" /\ r.phase = "ready"
  BY DEF Daemon
<1> HIDE DEF r
<1>5. Joins(p, r)
  BY <1>1, <1>2, <1>3, <1>4 DEF Joins, r
<1>6. /\ proc' \in Tables /\ births' \in 0..MaxBirths
      /\ Births1(proc') /\ Tokens1(proc')
      /\ \A q \in Pids : proc'[q] # None => proc'[q].born <= births' /\ proc'[q].token <= births'
      /\ proc'[p] = r /\ \A q \in Pids \ {p} : proc'[q] = proc[q]
  BY <1>5, JoinsKeeps
<1>7. startup' \in Startups /\ startup' # None /\ startup'.port = births'
  BY <1>1, TypesOfRecords DEF Startups
<1>8. /\ op' \in Operations /\ op' # None
      /\ \/ op'.at = "failed" /\ op'.client = None /\ op'.wait = "no"
         \/ op'.at = "spawn" /\ op'.client = None /\ op'.wait = "command" /\ op'.name = op.name
         \/ /\ op'.at = "health" /\ op'.client # None /\ op'.client.child = None
            /\ op'.client.port = births' /\ op'.client.start = None /\ op'.wait = "no"
  <2>1. CASE op' = [op EXCEPT !.at = "health", !.client = Client(births', births', None)]
    <3> DEFINE c == Client(births', births', None)
    <3>1. c \in ClientTypes /\ c.child = None /\ c.port = births' /\ c.start = None
      BY <1>1 DEF Client, ClientTypes
    <3>2. op' = [op EXCEPT !.at = "health", !.client = c]
      BY <2>1
    <3> HIDE DEF c
    <3>3. op' \in Operations /\ op'.at = "health" /\ op'.client = c /\ op'.wait = "no"
      BY <1>1, <3>1, <3>2 DEF Operations
    <3> QED BY <3>1, <3>3, TypesOfRecords
  <2>2. CASE Goto("failed")
    <3>1. op' \in Operations /\ op'.at = "failed" /\ op'.client = None /\ op'.wait = "no"
      BY <1>1, <2>2 DEF Operations, Goto
    <3> QED BY <3>1, TypesOfRecords
  <2>3. CASE op' = [op EXCEPT !.wait = "command"]
    <3>1. op' \in Operations /\ op'.at = "spawn" /\ op'.client = None /\ op'.wait = "command"
          /\ op'.name = op.name
      BY <1>1, <2>3 DEF Operations
    <3> QED BY <3>1, TypesOfRecords
  <2> QED BY <2>1, <2>2, <2>3
<1>9. TypeOK'
  BY <1>1, <1>6, <1>7, <1>8, FaultsBounded DEF TypeOK, Tables
<1>10. Shape'
  BY <1>1, <1>7, <1>8 DEF Shape
<1>11. Unique'
  BY <1>1, <1>6, <1>7, <1>8 DEF Unique
<1>12. Fresh'
  BY <1>4, <1>6 DEF Inv, Fresh
<1>13. Clients'
  BY <1>1, <1>8 DEF Clients, HasChild
<1>14. Others(proc', births') = {}
  BY <1>2, <1>4, <1>6 DEF Others, Living
<1>15. Cardinality(Others(proc', births')) = 0
  BY <1>14, FS_EmptySet
<1>16. Cardinality(Others(proc', births')) <= strays
  BY <1>1, <1>15
<1>17. Accounted' /\ AttachAccounted'
  BY <1>7, <1>8, <1>16 DEF Accounted, AttachAccounted
<1>18. TreeKept'
  BY <1>1, <1>8 DEF Inv, TreeKept
<1> QED
  BY <1>9, <1>10, <1>11, <1>12, <1>13, <1>17, <1>18 DEF Inv, StrangersAreSpared

\* A resume daemon: nothing but strays runs beside it.
LEMMA SpawnResumeKeepsInv ==
    ASSUME Inv, At("resume"), births < MaxBirths, NEW p \in Pids, proc[p] = None,
           births' = births + 1,
           proc' = [proc EXCEPT ![p] = Daemon(births', "starting", cred)],
           op' = [op EXCEPT !.at = "startup", !.client = Client(births', cred, p)],
           UNCHANGED <<warm, startup, cred, cwd, tree, lost, strays, struck, faults>>
    PROVE  Inv'
<1>1. /\ births \in Nat /\ births' \in Nat /\ births' \in Births /\ cred \in Tokens /\ cred <= births + 1
      /\ births' \in 0..MaxBirths /\ TypeOK /\ op \in Operations /\ op # None /\ op.at = "resume"
      /\ warm = None /\ cwd # "none" /\ startup # None /\ strays \in Nat
  BY DaemonAssumption DEF Inv, TypeOK, Births, Tokens, At, Shape, Unique
<1>2. \A q \in Pids : proc[q] # None /\ proc[q].is = "daemon" => proc[q].token < cred
  BY <1>1 DEF Inv, Unique
<1> DEFINE r == Daemon(births', "starting", cred)
<1>3. r \in Processes /\ r # None
  BY <1>1, TypesOfRecords DEF Processes, Daemon
<1>4. r.born = births + 1 /\ r.token = cred /\ r.is = "daemon" /\ r.phase = "starting"
  BY DEF Daemon
<1> HIDE DEF r
<1>5. Joins(p, r)
  <2>1. \A q \in Pids : proc[q] # None /\ proc[q].is = "daemon" => proc[q].token # cred
    <3>1. \A q \in Pids : proc[q] # None => proc[q].token \in Nat
      BY <1>1, TypesOfRecords DEF TypeOK, Processes
    <3> QED BY <1>1, <1>2, <3>1, TypesOfRecords
  <2> QED BY <1>1, <1>3, <1>4, <2>1 DEF Joins, r
<1>6. /\ proc' \in Tables /\ births' \in 0..MaxBirths
      /\ Births1(proc') /\ Tokens1(proc')
      /\ \A q \in Pids : proc'[q] # None => proc'[q].born <= births' /\ proc'[q].token <= births'
      /\ proc'[p] = r /\ \A q \in Pids \ {p} : proc'[q] = proc[q]
  BY <1>5, JoinsKeeps
<1> DEFINE c == Client(births', cred, p)
<1>7. c \in ClientTypes /\ c # None
  BY <1>1, TypesOfRecords DEF Client, ClientTypes
<1>8. c.child = p /\ c.token = cred /\ c.port = births' /\ c.start = None
  BY DEF Client
<1> HIDE DEF c
<1>9. op' \in Operations /\ op'.at = "startup" /\ op'.client = c
  <2> SUFFICES op' = [op EXCEPT !.at = "startup", !.client = c]
    BY <1>1, <1>7 DEF Operations
  <2> QED BY DEF c
<1>10. op' # None /\ p # None
  BY <1>9, TypesOfRecords
<1>11. TypeOK'
  BY <1>1, <1>6, <1>9 DEF TypeOK, Tables
<1>12. Shape'
  BY <1>1, <1>7, <1>8, <1>9, <1>10 DEF Shape, Inv
<1>13. Unique'
  <2>1. cred <= births' + 1 /\ startup.port <= births'
    BY <1>1, TypesOfRecords DEF Inv, Unique, TypeOK, Startups
  <2> QED BY <1>1, <1>6, <1>9, <2>1 DEF Unique
<1>14. Fresh'
  BY <1>4, <1>6 DEF Inv, Fresh
<1>15. HasChild(proc', c)
  BY <1>3, <1>4, <1>6, <1>8 DEF HasChild
<1>16. Clients'
  BY <1>1, <1>7, <1>8, <1>9, <1>15 DEF Clients
<1>17. Cardinality(Living(proc') \ {p}) <= strays
  <2>1. Cardinality(Living(proc)) <= strays
    BY <1>1 DEF Inv, AttachAccounted
  <2> QED BY <1>1, <1>6, <2>1, JoinCounts
<1>18. Accounted'
  BY <1>7, <1>8, <1>9, <1>10, <1>17 DEF Accounted, Unsure
<1>19. AttachAccounted'
  BY <1>8, <1>9, <1>10 DEF AttachAccounted
<1>20. TreeKept'
  BY <1>1, <1>9 DEF Inv, TreeKept
<1> QED
  BY <1>11, <1>12, <1>13, <1>14, <1>16, <1>18, <1>19, <1>20 DEF Inv, StrangersAreSpared

-----------------------------------------------------------------------------
(* The driver begins, and ends, an operation *)

\* An operation ends, with nothing warm or with the warm session as it was.
LEMMA EndKeepsInv ==
    ASSUME Inv, proc' \in Tables, Fades(proc, proc'), UNCHANGED <<births, startup, cred, cwd>>,
           op' = None, warm' = None \/ (warm' = warm /\ UNCHANGED proc),
           strays' = strays, faults' \in 0..MaxFaults, tree' \in TreeTypes, tree'.vcs = tree.vcs,
           lost' = lost, struck' \subseteq BOOLEAN, TRUE \notin struck',
           startup # None =>
             \/ Cardinality(Others(proc, startup.port)) <= strays
             \/ Cardinality(Others(proc', startup.port)) <= strays
    PROVE  Inv'
<1>1. /\ cred' \in Tokens /\ cred' <= births + 1 /\ strays' \in 0..MaxBirths
      /\ warm' \in ClientTypes \cup {None} /\ lost' \subseteq LostTypes
  BY DEF Inv, TypeOK, Unique
<1>2. Shape'
  BY DEF Inv, Shape
<1>3. Clients'
  BY DEF Inv, Clients
<1>4. TreeKept'
  BY DEF Inv, TreeKept
<1> QED BY <1>1, <1>2, <1>3, <1>4, DriverStep

\* The driver looks at startup.json, when all but the daemon named there are strays.
LEMMA AttachKeepsInv ==
    ASSUME Inv, NEW name \in {"open", "reload"}, Attach(name), startup # None, cwd # "none",
           proc' \in Tables, Fades(proc, proc'), warm = None \/ UNCHANGED proc,
           Cardinality(Others(proc, startup.port)) <= strays,
           UNCHANGED <<births, startup, cred, cwd, tree, lost, strays, warm>>,
           faults' \in 0..MaxFaults, struck' \subseteq BOOLEAN, TRUE \notin struck'
    PROVE  Inv'
<1>1. CASE op' = None
  BY <1>1, EndKeepsInv DEF Inv, TypeOK
<1>2. CASE op' # None
  <2> DEFINE c == Client(startup.port, cred, None)
  <2>1. startup \in Startups /\ startup.port \in Births /\ cred \in Tokens
    BY DEF Inv, TypeOK, Startups
  <2>2. warm = None /\ op' = Op(name, "probe", c)
    BY <1>2 DEF Attach
  <2>3. c \in ClientTypes /\ c # None /\ c.child = None /\ c.start = None /\ c.port = startup.port
    BY <2>1, TypesOfRecords DEF Client, ClientTypes
  <2> HIDE DEF c
  <2>4. op' \in Operations /\ op'.at = "probe" /\ op'.client = c /\ op'.name = name
    BY <2>2, <2>3 DEF Op, Operations
  <2>5. /\ cred' \in Tokens /\ cred' <= births + 1 /\ strays' \in 0..MaxBirths /\ tree' \in TreeTypes
        /\ warm' \in ClientTypes \cup {None} /\ lost' \subseteq LostTypes
    BY DEF Inv, TypeOK, Unique
  <2>6. Shape'
    BY <2>2, <2>3, <2>4 DEF Inv, Shape
  <2>7. Clients'
    BY <2>2, <2>3, <2>4 DEF Clients, HasChild, Inv, Unique
  <2>8. TreeKept'
    BY <2>4 DEF Inv, TreeKept
  <2> QED BY <1>2, <2>3, <2>4, <2>5, <2>6, <2>7, <2>8, DriverStep
<1> QED BY <1>1, <1>2

LEMMA NewSessionKeepsInv == ASSUME Inv, new_session PROVE Inv'
<1>1. /\ op = None /\ cwd = "none" /\ warm = None /\ startup = None /\ TypeOK
      /\ UNCHANGED <<cwd, tree, lost, warm, faults, proc, births, startup, cred, strays, struck>>
  BY DEF new_session, Begin, Inv, Shape, Table, Files, Trees, Ghosts
<1>2. /\ op' \in Operations /\ op'.client = None /\ op'.wait = "no"
      /\ op'.at = "create" \/ (op'.at = "spawn" /\ op'.name = "new")
  <2>1. CASE op' = Op("new", "spawn", None)
    BY <2>1 DEF Op, Operations
  <2>2. CASE op' = Op("new_tree", "create", None)
    BY <2>2 DEF Op, Operations
  <2> QED BY <2>1, <2>2 DEF new_session
<1>3. op' # None
  BY <1>2, TypesOfRecords
<1>4. proc' \in Tables /\ Fades(proc, proc')
  BY <1>1, SameFades
<1>5. Shape' /\ Clients' /\ TreeKept'
  BY <1>1, <1>2, <1>3 DEF Inv, Shape, Clients, TreeKept
<1> QED
  BY <1>1, <1>2, <1>3, <1>4, <1>5, DriverStep DEF Inv, TypeOK, Unique, StrangersAreSpared

\* The worktree is made, with a vcs, and then entered in the index.
LEMMA CreateKeepsInv == ASSUME Inv, create_worktree \/ add_worktree PROVE Inv'
<1>1. /\ op # None /\ op \in Operations /\ op.at \in {"create", "add"} /\ op.client = None /\ op.wait = "no"
      /\ warm = None /\ cwd = "none" /\ startup = None /\ TypeOK /\ tree \in TreeTypes
      /\ UNCHANGED <<cwd, lost, warm, proc, births, startup, cred, strays, struck>>
  BY DEF create_worktree, add_worktree, At, Inv, Shape, TypeOK, Table, Files, Ghosts
<1>2. proc' \in Tables /\ Fades(proc, proc')
  BY <1>1, SameFades
<1>3. CASE create_worktree /\ op' = None
  <2>1. tree' = tree /\ faults' \in 0..MaxFaults
    BY <1>1, <1>3, FaultsBounded, TypesOfRecords DEF create_worktree, Goto, Operations
  <2> QED BY <1>1, <1>2, <1>3, <2>1, EndKeepsInv DEF Inv, TypeOK, StrangersAreSpared
<1>4. CASE op' # None \/ add_worktree
  <2>1. /\ tree' \in TreeTypes /\ tree'.vcs \in Vcs /\ UNCHANGED faults
        /\ Goto("add") \/ Goto("spawn")
    <3>1. ASSUME NEW vcs \in Vcs
          PROVE  create(tree, vcs) \in TreeTypes /\ create(tree, vcs).vcs = vcs
      BY <1>1 DEF create, TreeTypes
    <3>2. add(tree) \in TreeTypes /\ add(tree).vcs = tree.vcs
      BY <1>1 DEF add, TreeTypes
    <3>3. op.at = "add" => tree.vcs \in Vcs
      BY <1>1 DEF Inv, TreeKept
    <3> QED BY <1>1, <1>4, <3>1, <3>2, <3>3 DEF create_worktree, add_worktree, At
  <2>2. op' \in Operations /\ op'.at \in {"add", "spawn"} /\ op'.client = None /\ op'.wait = "no"
    BY <1>1, <2>1 DEF Goto, Operations
  <2>3. op' # None
    BY <2>2, TypesOfRecords
  <2>4. Shape' /\ Clients' /\ TreeKept'
    BY <1>1, <2>1, <2>2, <2>3 DEF Inv, Shape, Clients, TreeKept
  <2> QED
    BY <1>1, <1>2, <2>1, <2>2, <2>3, <2>4, DriverStep DEF Inv, TypeOK, Unique, StrangersAreSpared
<1> QED BY <1>3, <1>4

LEMMA OpenSessionKeepsInv == ASSUME Inv, open_session PROVE Inv'
<1>1. /\ op = None /\ cwd # "none" /\ startup # None /\ TypeOK /\ ~Unsure /\ Attach("open")
      /\ UNCHANGED <<warm, faults, proc, births, startup, cred, cwd, tree, lost, strays, struck>>
  BY DEF open_session, Begin, Inv, Shape, Unsure, Table, Files, Trees, Ghosts
<1>2. proc' \in Tables /\ Fades(proc, proc')
  BY <1>1, SameFades
<1>3. Cardinality(Others(proc, startup.port)) <= strays
  BY <1>1, SureAccounted
<1> QED BY <1>1, <1>2, <1>3, AttachKeepsInv DEF Inv, TypeOK, StrangersAreSpared

-----------------------------------------------------------------------------
(* A cold start *)

LEMMA ResumePrepareKeepsInv == ASSUME Inv, resume_prepare PROVE Inv'
<1>1. /\ op # None /\ op \in Operations /\ op.at = "cold" /\ op.wait = "no" /\ op.client = None /\ warm = None
      /\ cwd # "none" /\ startup # None /\ TypeOK /\ ~Unsure
      /\ UNCHANGED <<startup, warm, faults, proc, births, cwd, tree, lost, strays, struck>>
  BY DEF resume_prepare, At, Inv, Shape, TypeOK, Unsure, Table, Trees, Ghosts
<1>2. CASE op' = None /\ UNCHANGED cred
  <2>1. proc' \in Tables /\ Fades(proc, proc')
    BY <1>1, SameFades
  <2>2. Cardinality(Others(proc, startup.port)) <= strays
    BY <1>1, SureAccounted
  <2> QED BY <1>1, <1>2, <2>1, <2>2, EndKeepsInv DEF Inv, TypeOK, StrangersAreSpared
<1>3. CASE cred' = births + 1 /\ Goto("resume")
  <2>1. op' \in Operations /\ op'.at = "resume" /\ op'.client = None /\ op' # None /\ op'.wait = "no"
    <3>1. op' \in Operations /\ op'.at = "resume" /\ op'.client = None /\ op'.wait = "no"
      BY <1>1, <1>3 DEF Operations, Goto
    <3> QED BY <3>1, TypesOfRecords
  <2>2. cred' \in Tokens /\ births \in Nat
    BY <1>1, <1>3, DaemonAssumption DEF TypeOK, Tokens
  <2>3. TypeOK'
    BY <1>1, <2>1, <2>2 DEF TypeOK
  <2>4. Shape' /\ Fresh' /\ Clients' /\ TreeKept' /\ StrangersAreSpared'
    BY <1>1, <2>1 DEF Inv, Shape, Fresh, Clients, TreeKept, StrangersAreSpared
  <2>5. \A p \in Pids : proc[p] # None => proc[p].token \in Nat /\ proc[p].token <= births
    BY <1>1, TypesOfRecords DEF Inv, Unique, TypeOK, Processes
  <2>6. \A p \in Pids : proc[p] # None => proc[p].token < cred'
    BY <1>3, <2>2, <2>5
  <2>7. Unique'
    BY <1>1, <1>3, <2>2, <2>6 DEF Inv, Unique
  <2>8. Accounted' /\ AttachAccounted'
    BY <1>1, <2>1 DEF Inv, Accounted, AttachAccounted, Unsure
  <2> QED BY <2>3, <2>4, <2>7, <2>8 DEF Inv
<1> QED BY <1>2, <1>3 DEF resume_prepare

\* The wait for the start of a child, its stderr and its end.
LEMMA WaitKeepsInv == ASSUME Inv, wait_for_daemon_startup \/ read_child_stderr PROVE Inv'
<1>1. /\ op # None /\ op \in Operations /\ op.at \in {"startup", "stderr"} /\ op.wait = "no"
      /\ op.client # None /\ op.client \in ClientTypes /\ op.client.child # None
      /\ op.client.child \in Pids /\ warm = None
      /\ cwd # "none" /\ startup # None /\ TypeOK /\ strays \in Nat
      /\ UNCHANGED <<startup, cred, warm, faults, proc, births, cwd, tree, lost, strays, struck>>
  BY DaemonAssumption DEF wait_for_daemon_startup, read_child_stderr, At, Inv, Shape, TypeOK,
     Operations, ClientTypes, Table, Trees, Ghosts, Files
<1>2. proc' \in Tables /\ Fades(proc, proc') /\ cred' \in Tokens /\ cred' <= births + 1
  BY <1>1, SameFades DEF Inv, TypeOK, Unique
<1>3. startup \in Startups /\ startup.port \in Births /\ startup.port <= births
  BY <1>1 DEF TypeOK, Startups, Inv, Unique
<1>4. HasChild(proc, op.client) /\ op.client.port <= births
  BY <1>1 DEF Inv, Clients
<1>5. Cardinality(Others(proc, startup.port)) <= strays
      \/ Cardinality(Living(proc) \ {op.client.child}) <= strays
  BY <1>1 DEF Inv, Accounted
<1>6. CASE \E at \in {"reap", "stderr"} : Goto(at)
  <2>1. PICK at \in {"reap", "stderr"} : Goto(at)
    BY <1>6
  <2>2. op' \in Operations /\ op'.at = at /\ op'.client = op.client /\ op'.wait = "no"
    BY <1>1, <2>1 DEF Operations, Goto
  <2>3. op' # None
    BY <2>2, TypesOfRecords
  <2>4. Shape' /\ Clients' /\ TreeKept'
    BY <1>1, <1>4, <2>2, <2>3 DEF Inv, Shape, Clients, TreeKept
  <2>5. Unsure'
    BY <1>1, <2>2, <2>3 DEF Unsure
  <2> QED
    BY <1>1, <1>2, <1>5, <2>2, <2>3, <2>4, <2>5, DriverStep DEF TypeOK, Inv, StrangersAreSpared
<1>7. CASE /\ op.at = "startup" /\ startup_ready
           /\ op' = [op EXCEPT !.at = "health", !.client.port = startup.port]
  <2> DEFINE c == [op.client EXCEPT !.port = startup.port]
  <2>1. /\ c \in ClientTypes /\ c.port = startup.port /\ c.child = op.client.child
        /\ c.token = op.client.token /\ c.start = op.client.start
    BY <1>1, <1>3 DEF ClientTypes
  <2>2. op' = [op EXCEPT !.at = "health", !.client = c]
    BY <1>1, <1>7 DEF Operations
  <2> HIDE DEF c
  <2>3. op' \in Operations /\ op'.at = "health" /\ op'.client = c /\ op'.wait = "no"
    BY <1>1, <2>1, <2>2 DEF Operations
  <2>4. op' # None /\ c # None
    BY <2>1, <2>3, TypesOfRecords
  <2>5. Shape' /\ TreeKept'
    BY <1>1, <2>1, <2>3, <2>4 DEF Inv, Shape, TreeKept
  <2>6. HasChild(proc, c) /\ c.start = None
    BY <1>1, <1>4, <1>7, <2>1 DEF HasChild, Inv, Clients
  <2>7. Clients'
    BY <1>1, <1>3, <2>1, <2>3, <2>4, <2>6 DEF Clients
  <2>8. \/ Cardinality(Others(proc, startup.port)) <= strays
        \/ Unsure' /\ Cardinality(Living(proc) \ {c.child}) <= strays
    <3>1. CASE proc[c.child].born = startup.port
      <4>1. Others(proc, startup.port) \in SUBSET (Living(proc) \ {c.child})
        BY <3>1 DEF Others
      <4>2. IsFiniteSet(Living(proc) \ {c.child})
        BY LivingFinite, FS_Subset
      <4> QED BY <1>1, <1>5, <2>1, <4>1, <4>2, Shrinks
    <3>2. CASE proc[c.child].born # startup.port
      <4>1. Unsure'
        BY <1>1, <2>1, <2>3, <2>4, <3>2 DEF Unsure
      <4> QED BY <1>5, <2>1, <4>1
    <3> QED BY <3>1, <3>2
  <2>9. c.child # None
    BY <1>1, <2>1
  <2> QED
    BY <1>1, <1>2, <2>3, <2>4, <2>5, <2>7, <2>8, <2>9, DriverStep DEF TypeOK, Inv, StrangersAreSpared
<1> QED BY <1>6, <1>7 DEF wait_for_daemon_startup, read_child_stderr, At

LEMMA ReapChildKeepsInv == ASSUME Inv, reap_child PROVE Inv'
<1>1. /\ op # None /\ op \in Operations /\ op.at = "reap" /\ op.client # None /\ op.client.child \in Pids
      /\ op.client.child # None /\ warm = None /\ cwd # "none" /\ op.wait = "no"
      /\ op' = [op EXCEPT !.at = "output", !.client = None]
      /\ startup # None /\ TypeOK /\ strays \in Nat
      /\ proc' = [proc EXCEPT ![op.client.child] = None]
      /\ UNCHANGED <<startup, cred, warm, faults, births, cwd, tree, lost, strays, struck>>
  BY DaemonAssumption DEF reap_child, At, Inv, Shape, TypeOK, Operations, ClientTypes, Trees, Ghosts, Files
<1>2. proc' \in Tables /\ Fades(proc, proc')
  BY <1>1 DEF Tables, Fades, TypeOK
<1>3. Cardinality(Others(proc, startup.port)) <= strays
      \/ Cardinality(Living(proc) \ {op.client.child}) <= strays
  BY <1>1 DEF Inv, Accounted
<1>4. ASSUME Cardinality(Living(proc) \ {op.client.child}) <= strays
      PROVE  Cardinality(Others(proc', startup.port)) <= strays
  <2>1. Others(proc', startup.port) \in SUBSET (Living(proc) \ {op.client.child})
    BY <1>1 DEF Others, Living, TypeOK
  <2>2. IsFiniteSet(Living(proc) \ {op.client.child})
    BY LivingFinite, FS_Subset
  <2> QED BY <1>1, <1>4, <2>1, <2>2, Shrinks
<1>5. op' \in Operations /\ op'.at = "output" /\ op'.client = None /\ op'.wait = "no"
  BY <1>1 DEF Operations
<1>6. op' # None
  BY <1>5, TypesOfRecords
<1>7. Shape' /\ Clients' /\ TreeKept'
  BY <1>1, <1>5, <1>6 DEF Inv, Shape, Clients, TreeKept
<1> QED
  BY <1>1, <1>2, <1>3, <1>4, <1>5, <1>6, <1>7, DriverStep DEF Inv, TypeOK, Unique, StrangersAreSpared

\* Its output is read and the operation ends.
LEMMA WaitWithOutputKeepsInv == ASSUME Inv, wait_with_output PROVE Inv'
<1>1. /\ op # None /\ op.at = "output" /\ op' = None /\ TypeOK
      /\ UNCHANGED <<proc, births, startup, cred, cwd, tree, warm, strays, struck, lost, faults>>
  BY DEF wait_with_output, At, Inv, Table, Files, Trees, Ghosts
<1>2. proc' \in Tables /\ Fades(proc, proc')
  BY <1>1, SameFades
<1>3. startup # None => Cardinality(Others(proc, startup.port)) <= strays
  BY <1>1, SureAccounted DEF Unsure
<1> QED BY <1>1, <1>2, <1>3, EndKeepsInv DEF Inv, TypeOK, StrangersAreSpared


\* A spawn that fails ends the operation.
LEMMA SpawnFailsKeepsInv ==
    ASSUME Inv, At("resume"), op' = None, CannotSpawn,
           UNCHANGED <<warm, proc, births, startup, cred, cwd, tree, lost, strays, struck>>
    PROVE  Inv'
<1>1. op # None /\ op.at = "resume" /\ TypeOK /\ ~Unsure
  BY DEF At, Inv, Unsure
<1>2. proc' \in Tables /\ Fades(proc, proc')
  BY <1>1, SameFades
<1>3. startup # None => Cardinality(Others(proc, startup.port)) <= strays
  BY <1>1, SureAccounted
<1>4. faults' \in 0..MaxFaults
  BY <1>1, FaultsBounded DEF CannotSpawn
<1> QED BY <1>1, <1>2, <1>3, <1>4, EndKeepsInv DEF Inv, TypeOK, StrangersAreSpared

\* A first daemon that cannot be spawned, or spoken to, leads to the removal of the worktree.
LEMMA SpawnNewFailsKeepsInv ==
    ASSUME Inv, At("spawn"), Goto("failed"), CannotSpawn,
           UNCHANGED <<warm, proc, births, startup, cred, cwd, tree, lost, strays, struck>>
    PROVE  Inv'
<1>1. op # None /\ op \in Operations /\ op.at = "spawn" /\ op.wait = "no" /\ op.client = None /\ warm = None
      /\ startup = None /\ TypeOK
  BY DEF At, Inv, Shape, TypeOK
<1>2. proc' \in Tables /\ Fades(proc, proc')
  BY <1>1, SameFades
<1>3. op' \in Operations /\ op'.at = "failed" /\ op'.client = None /\ op'.wait = "no"
  BY <1>1 DEF Operations, Goto
<1>4. op' # None
  BY <1>3, TypesOfRecords
<1>5. faults' \in 0..MaxFaults
  BY <1>1, FaultsBounded DEF CannotSpawn
<1>6. Shape' /\ Clients' /\ TreeKept'
  BY <1>1, <1>3, <1>4 DEF Inv, Shape, Clients, TreeKept
<1>7. cred' <= births + 1
  BY DEF Inv, Unique
<1> QED
  BY <1>1, <1>2, <1>3, <1>4, <1>5, <1>6, <1>7, DriverStep DEF Inv, TypeOK, StrangersAreSpared

-----------------------------------------------------------------------------
(* install_warm *)

LEMMA UnheldFades ==
    ASSUME TypeOK, NEW c \in ClientTypes, proc' = Unheld(c)
    PROVE  proc' \in Tables /\ Fades(proc, proc')
<1>1. c.child \in Pids \cup {None}
  BY DEF ClientTypes
<1>2. CASE c.child # None /\ ~Runs(c.child)
  <2>1. proc' = [proc EXCEPT ![c.child] = None] /\ c.child \in Pids
    BY <1>1, <1>2 DEF Unheld
  <2> QED BY <2>1 DEF Tables, Fades, TypeOK
<1>3. CASE ~(c.child # None /\ ~Runs(c.child))
  BY <1>3, SameFades DEF Unheld
<1> QED BY <1>2, <1>3

\* What holds of the operation whose client is being installed.
LEMMA Installing ==
    ASSUME Inv, op # None, op.at \in {"probe", "health", "capture", "claim", "install"}
    PROVE  /\ op \in Operations /\ op.client \in ClientTypes /\ op.client # None
           /\ op.client.child \in Pids \cup {None} /\ op.client.pid \in Pids \cup {None}
           /\ op.client.port <= births /\ HasChild(proc, op.client)
           /\ warm = None /\ startup # None /\ cwd # "none" /\ TypeOK
           /\ cred <= births + 1 /\ strays \in Nat
BY DaemonAssumption DEF Inv, Shape, TypeOK, Operations, ClientTypes, Clients, Unique

\* A client that was not answered is dropped, and counted if its daemon runs on.
LEMMA DropKeepsInv ==
    ASSUME Inv, op # None, op.at \in {"probe", "health", "claim"}, op.wait = "no", Drop(Otherwise),
           strays' = IF Stray THEN More ELSE strays, faults' \in 0..MaxFaults,
           UNCHANGED <<births, warm, struck, startup, cred, cwd, tree, lost>>
    PROVE  Inv'
<1>1. /\ op \in Operations /\ op.client \in ClientTypes /\ op.client # None
      /\ op.client.child \in Pids \cup {None}
      /\ warm = None /\ startup # None /\ cwd # "none" /\ TypeOK
      /\ cred <= births + 1 /\ strays \in Nat
  BY Installing
<1>2. proc' \in Tables /\ Fades(proc, proc')
  BY <1>1, UnheldFades DEF Drop
<1>3. Otherwise \in {"cold", "failed"}
  BY DEF Otherwise
<1>4. op' \in Operations /\ op'.client = None /\ op'.at = Otherwise /\ op'.wait = "no"
  BY <1>1, <1>3 DEF Drop, Operations
<1>5. op' # None
  BY <1>4, TypesOfRecords
<1>6. /\ More \in 0..MaxBirths /\ strays <= More
      /\ Cardinality(Living(proc)) <= More
      /\ \A b : Cardinality(Others(proc, b)) <= More
  BY <1>1, MoreAccounts
<1>7. strays' \in 0..MaxBirths /\ strays <= strays' /\ strays' \in Nat
  BY <1>1, <1>6, DaemonAssumption DEF TypeOK
<1>8. ASSUME Cardinality(Living(proc)) <= strays'
      PROVE  Cardinality(Others(proc, startup.port)) <= strays'
  <2>1. Others(proc, startup.port) \in SUBSET Living(proc)
    BY DEF Others
  <2> QED BY <1>7, <1>8, <2>1, Shrinks, LivingFinite
<1>9. ASSUME Otherwise = "cold"
      PROVE  Cardinality(Living(proc)) <= strays'
  <2>1. CASE Alive(op.client.port)
    BY <1>6, <1>9, <2>1 DEF Stray
  <2>2. CASE ~Alive(op.client.port)
    <3>1. Living(proc) = Others(proc, op.client.port)
      BY <2>2 DEF Alive, Serves, Runs, Living, Others
    <3>2. op.client.child = None /\ op.name \in {"open", "reload"}
      BY <1>9 DEF Otherwise
    <3>3. Cardinality(Others(proc, op.client.port)) <= strays
      BY <1>1, <3>2 DEF Inv, AttachAccounted
    <3>4. strays' = strays
      BY <1>9, <2>2 DEF Stray
    <3> QED BY <3>1, <3>3, <3>4
  <2> QED BY <2>1, <2>2
<1>10. ASSUME Otherwise = "failed"
       PROVE  Cardinality(Others(proc, startup.port)) <= strays'
  <2>1. CASE ~Unsure
    <3>1. Cardinality(Others(proc, startup.port)) <= strays /\ Cardinality(Others(proc, startup.port)) \in Nat
      BY <1>1, <2>1, SureAccounted, LivingFinite
    <3> QED BY <1>1, <1>7, <3>1
  <2>2. CASE Unsure /\ Cardinality(Others(proc, startup.port)) <= strays
    <3>1. Cardinality(Others(proc, startup.port)) \in Nat
      BY LivingFinite
    <3> QED BY <1>1, <1>7, <2>2, <3>1
  <2>3. CASE Unsure /\ Cardinality(Living(proc) \ {op.client.child}) <= strays
    <3>1. op.client.child # None /\ proc[op.client.child].born # op.client.port
      BY <2>3 DEF Unsure
    <3>2. CASE Runs(op.client.child)
      <4>1. strays' = More
        BY <1>10, <3>1, <3>2 DEF Stray
      <4> QED BY <1>6, <4>1
    <3>3. CASE ~Runs(op.client.child)
      <4>1. Living(proc) \ {op.client.child} = Living(proc)
        BY <3>3 DEF Runs, Living
      <4>2. Cardinality(Living(proc)) <= strays /\ Cardinality(Living(proc)) \in Nat
        BY <2>3, <4>1, LivingFinite
      <4>3. Cardinality(Living(proc)) <= strays'
        BY <1>1, <1>7, <4>2
      <4> QED BY <1>8, <4>3
    <3> QED BY <3>2, <3>3
  <2> QED BY <1>1, <2>1, <2>2, <2>3 DEF Inv, Accounted
<1>11. Shape' /\ Clients' /\ TreeKept'
  BY <1>1, <1>3, <1>4, <1>5 DEF Inv, Shape, Clients, TreeKept
<1> QED
  BY <1>1, <1>2, <1>3, <1>4, <1>5, <1>7, <1>8, <1>9, <1>10, <1>11, DriverStep
  DEF Inv, TypeOK, StrangersAreSpared

\* /health: who answers a client with a child is that child.
LEMMA HealthKeepsInv == ASSUME Inv, health PROVE Inv'
<1>1. op # None /\ op.at \in {"probe", "health"} /\ op.wait = "no"
  BY DEF health, At
<1>2. /\ op \in Operations /\ op.client \in ClientTypes /\ op.client # None
      /\ op.client.child \in Pids \cup {None}
      /\ op.client.port <= births /\ HasChild(proc, op.client)
      /\ warm = None /\ startup # None /\ cwd # "none" /\ TypeOK
      /\ cred <= births + 1 /\ strays \in Nat
  BY <1>1, Installing
<1>3. UNCHANGED <<births, warm, struck, startup, cred, cwd, tree, lost>>
  BY DEF health, Files, Trees
<1>4. CASE /\ Unanswered(op.client)
           /\ Drop(Otherwise)
           /\ strays' = IF Stray THEN More ELSE strays
  <2>1. faults' \in 0..MaxFaults
    BY <1>2, <1>4, FaultsBounded DEF Unanswered
  <2> QED BY <1>1, <1>3, <1>4, <2>1, DropKeepsInv
<1>5. ASSUME NEW p \in Pids, Answers(op.client, p),
             op' = [op EXCEPT !.at = "capture", !.client.pid = p],
             UNCHANGED <<proc, faults, strays>>
      PROVE  Inv'
  <2> DEFINE c == [op.client EXCEPT !.pid = p]
  <2>1. /\ c \in ClientTypes /\ c.pid = p /\ c.port = op.client.port /\ c.child = op.client.child
        /\ c.token = op.client.token /\ c.start = op.client.start
    BY <1>2 DEF ClientTypes
  <2>2. op' = [op EXCEPT !.at = "capture", !.client = c]
    BY <1>2, <1>5 DEF Operations
  <2> HIDE DEF c
  <2>3. op' \in Operations /\ op'.at = "capture" /\ op'.wait = "no" /\ op'.client = c /\ op'.name = op.name
    BY <1>1, <1>2, <2>1, <2>2 DEF Operations
  <2>4. op' # None /\ c # None /\ p # None
    BY <2>1, <2>3, TypesOfRecords
  <2>5. proc[p] # None /\ proc[p].is = "daemon" /\ proc[p].born = c.port /\ proc[p].token = c.token
        /\ proc[p].phase = "ready"
    BY <1>5, <2>1 DEF Answers, Serves, Runs
  <2>6. c.child # None => c.child = p
    BY <1>2, <2>1, <2>5 DEF HasChild, Inv, Unique, Tokens1
  <2>7. HasChild(proc, c) /\ Answered(proc, c) /\ c.start = None /\ Located(proc, c)
    <3>1. HasChild(proc, c)
      BY <1>2, <2>1 DEF HasChild
    <3>2. Answered(proc, c)
      BY <2>1, <2>4, <2>5, <2>6 DEF Answered
    <3>3. c.start = None
      BY <1>1, <1>2, <2>1 DEF Inv, Clients
    <3>4. Located(proc, c)
      BY <2>1, <2>5 DEF Located, Inv, Unique, Births1
    <3> QED BY <3>1, <3>2, <3>3, <3>4
  <2>8. Shape' /\ TreeKept'
    BY <1>1, <1>2, <1>3, <2>1, <2>3, <2>4 DEF Inv, Shape, TreeKept
  <2>9. Clients'
    BY <1>2, <1>3, <1>5, <2>1, <2>3, <2>4, <2>7 DEF Clients
  <2>10. ~Unsure
    BY <1>1, <2>1, <2>5, <2>6 DEF Unsure
  <2>11. Cardinality(Others(proc, startup.port)) <= strays
    BY <1>2, <2>10, SureAccounted
  <2>12. c.child = None /\ op.name \in {"open", "reload"} => Cardinality(Others(proc, c.port)) <= strays
    BY <1>1, <1>2, <2>1 DEF Inv, AttachAccounted
  <2>13. proc' \in Tables /\ Fades(proc, proc')
    BY <1>2, <1>5, SameFades
  <2> QED
    BY <1>2, <1>3, <1>5, <2>3, <2>4, <2>8, <2>9, <2>11, <2>12, <2>13, DriverStep
    DEF Inv, TypeOK, StrangersAreSpared
<1> QED BY <1>4, <1>5 DEF health

\* The start time is that of the daemon, unless nobody has its port any more.
LEMMA CaptureKeepsInv == ASSUME Inv, capture_start_time PROVE Inv'
<1>1. op # None /\ op.at = "capture" /\ op.wait = "no"
  BY DEF capture_start_time, At
<1>2. /\ op \in Operations /\ op.client \in ClientTypes /\ op.client # None
      /\ op.client.child \in Pids \cup {None}
      /\ op.client.port <= births /\ HasChild(proc, op.client)
      /\ warm = None /\ startup # None /\ cwd # "none" /\ TypeOK
      /\ cred <= births + 1 /\ strays \in Nat
  BY <1>1, Installing
<1>3. Answered(proc, op.client) /\ Located(proc, op.client) /\ op.client.start = None
  BY <1>1, <1>2 DEF Inv, Clients
<1>4. op.client.pid \in Pids
  BY <1>2, <1>3 DEF Answered, ClientTypes
<1>5. UNCHANGED <<proc, births, warm, struck, startup, cred, cwd, tree, lost, strays>>
  BY DEF capture_start_time, Table, Files, Trees, Ghosts
<1>6. faults' \in 0..MaxFaults
  BY <1>2, FaultsBounded DEF capture_start_time
<1>7. PICK s \in Births \cup {None} :
        /\ op' = [op EXCEPT !.at = "claim", !.client = [op.client EXCEPT !.start = s]]
        /\ s # None => proc[op.client.pid] # None /\ s = proc[op.client.pid].born
  <2>1. CASE proc[op.client.pid] # None
             /\ op' = [op EXCEPT !.at = "claim", !.client.start = proc[op.client.pid].born]
    <3>1. proc[op.client.pid].born \in Births
      BY <1>2, <1>4, <2>1 DEF TypeOK, Processes
    <3> QED BY <1>2, <2>1, <3>1 DEF Operations
  <2>2. CASE op' = [op EXCEPT !.at = "claim"]
    <3>1. op.client = [op.client EXCEPT !.start = None]
      BY <1>2, <1>3 DEF ClientTypes
    <3>2. op' = [op EXCEPT !.at = "claim", !.client = op.client]
      BY <1>2, <2>2 DEF Operations
    <3> QED BY <3>1, <3>2
  <2>3. \/ proc[op.client.pid] # None
           /\ op' = [[op EXCEPT !.at = "claim"] EXCEPT !.client.start = proc[op.client.pid].born]
        \/ op' = [op EXCEPT !.at = "claim"]
    BY DEF capture_start_time
  <2> QED BY <1>2, <2>1, <2>2, <2>3 DEF Operations
<1> DEFINE c == [op.client EXCEPT !.start = s]
<1>8. /\ c \in ClientTypes /\ c.pid = op.client.pid /\ c.port = op.client.port
      /\ c.child = op.client.child /\ c.token = op.client.token /\ c.start = s
  BY <1>2 DEF ClientTypes
<1>9. op' = [op EXCEPT !.at = "claim", !.client = c]
  BY <1>7
<1> HIDE DEF c
<1>10. op' \in Operations /\ op'.at = "claim" /\ op'.client = c /\ op'.name = op.name
  BY <1>2, <1>8, <1>9 DEF Operations
<1>11. op' # None /\ c # None
  BY <1>8, <1>10, TypesOfRecords
<1>12. HasChild(proc, c) /\ Answered(proc, c) /\ Located(proc, c)
  BY <1>2, <1>3, <1>8 DEF HasChild, Answered, Located
<1>13. Identified(c) \/ Gone(proc, c)
  <2> SUFFICES ASSUME s # None, s # c.port, NEW p \in Pids, proc[p] # None, proc[p].born = c.port
               PROVE  FALSE
    BY <1>8 DEF Identified, Gone
  <2>1. p = op.client.pid
    BY <1>8, <1>12 DEF Located
  <2> QED BY <1>7, <2>1
<1>14. Shape' /\ TreeKept'
  BY <1>1, <1>2, <1>5, <1>8, <1>10, <1>11 DEF Inv, Shape, TreeKept
<1>15. Clients'
  BY <1>2, <1>5, <1>8, <1>10, <1>11, <1>12, <1>13 DEF Clients
<1>16. ~Unsure
  BY <1>1 DEF Unsure
<1>17. Cardinality(Others(proc, startup.port)) <= strays
  BY <1>2, <1>16, SureAccounted
<1>18. c.child = None /\ op.name \in {"open", "reload"} => Cardinality(Others(proc, c.port)) <= strays
  BY <1>1, <1>2, <1>8 DEF Inv, AttachAccounted
<1>19. proc' \in Tables /\ Fades(proc, proc')
  BY <1>2, <1>5, SameFades
<1> QED
  BY <1>2, <1>5, <1>6, <1>10, <1>11, <1>14, <1>15, <1>17, <1>18, <1>19, DriverStep
  DEF Inv, TypeOK, StrangersAreSpared

\* A process of the table is changed, or told to stop.
LEMMA TableEdits ==
    ASSUME TypeOK, NEW p \in Pids, proc[p] # None, NEW r \in Processes, proc' = [proc EXCEPT ![p] = r],
           r.born = proc[p].born, r.is = proc[p].is, r.token = proc[p].token, r.phase = proc[p].phase
    PROVE  proc' \in Tables /\ Fades(proc, proc') /\ \A q \in Pids : proc[q] # None => proc'[q] # None
BY TypesOfRecords DEF TypeOK, Tables, Fades

\* The lease is granted by the daemon whose start time was read.
LEMMA ClaimKeepsInv == ASSUME Inv, claim_lease PROVE Inv'
<1>1. op # None /\ op.at = "claim" /\ op.wait = "no"
  BY DEF claim_lease, At
<1>2. /\ op \in Operations /\ op.client \in ClientTypes /\ op.client # None
      /\ op.client.child \in Pids \cup {None}
      /\ op.client.port <= births /\ HasChild(proc, op.client)
      /\ warm = None /\ startup # None /\ cwd # "none" /\ TypeOK
      /\ cred <= births + 1 /\ strays \in Nat
  BY <1>1, Installing
<1>3. UNCHANGED <<births, warm, struck, startup, cred, cwd, tree, lost>>
  BY DEF claim_lease, Files, Trees
<1>4. CASE /\ \/ Unanswered(op.client)
              \/ \E p \in Pids : Answers(op.client, p) /\ proc[p].holder # "none" /\ UNCHANGED faults
           /\ Drop(Otherwise)
           /\ strays' = IF Stray THEN More ELSE strays
  <2>1. faults' \in 0..MaxFaults
    BY <1>2, <1>4, FaultsBounded DEF Unanswered
  <2> QED BY <1>1, <1>3, <1>4, <2>1, DropKeepsInv
<1>5. ASSUME NEW p \in Pids, Answers(op.client, p),
             proc' = [proc EXCEPT ![p].holder = "pantoken"],
             op' = [op EXCEPT !.at = "install", !.client.lease = TRUE, !.client.beat = TRUE],
             UNCHANGED <<faults, strays>>
      PROVE  Inv'
  <2> DEFINE c == [op.client EXCEPT !.lease = TRUE, !.beat = TRUE]
             r == [proc[p] EXCEPT !.holder = "pantoken"]
  <2>1. /\ c \in ClientTypes /\ c.pid = op.client.pid /\ c.port = op.client.port
        /\ c.child = op.client.child /\ c.token = op.client.token /\ c.start = op.client.start
    BY <1>2 DEF ClientTypes
  <2>2. op' = [op EXCEPT !.at = "install", !.client = c]
    BY <1>2, <1>5 DEF Operations
  <2>3. proc[p] # None /\ proc[p].born = op.client.port /\ proc[p] \in Processes
    BY <1>2, <1>5 DEF Answers, Serves, Runs, TypeOK
  <2>4. /\ r \in Processes /\ r.born = proc[p].born /\ r.is = proc[p].is /\ r.token = proc[p].token
        /\ r.phase = proc[p].phase
    BY <2>3 DEF Processes
  <2>5. proc' = [proc EXCEPT ![p] = r]
    BY <1>5
  <2> HIDE DEF c, r
  <2>6. proc' \in Tables /\ Fades(proc, proc') /\ \A q \in Pids : proc[q] # None => proc'[q] # None
    BY <1>2, <2>3, <2>4, <2>5, TableEdits
  <2>7. op' \in Operations /\ op'.at = "install" /\ op'.client = c
    BY <1>2, <2>1, <2>2 DEF Operations
  <2>8. op' # None /\ c # None
    BY <2>1, <2>7, TypesOfRecords
  <2>9. HasChild(proc, c) /\ Answered(proc, c) /\ Identified(c)
    <3>1. HasChild(proc, c)
      BY <1>2, <2>1 DEF HasChild
    <3>2. Answered(proc, c)
      BY <1>1, <1>2, <2>1 DEF Inv, Clients, Answered
    <3>3. Identified(c)
      BY <1>1, <1>2, <2>1, <2>3 DEF Inv, Clients, Identified, Gone
    <3> QED BY <3>1, <3>2, <3>3
  <2>10. HasChild(proc', c) /\ Answered(proc', c)
    <3>1. c.child # None => proc'[c.child] # None
      BY <1>2, <2>1, <2>6, <2>9 DEF HasChild
    <3>2. proc \in Tables
      BY <1>2 DEF TypeOK, Tables
    <3> QED BY <2>1, <2>6, <2>9, <3>1, <3>2, FadesKeeps
  <2>11. Shape' /\ TreeKept'
    BY <1>1, <1>2, <1>3, <2>1, <2>7, <2>8 DEF Inv, Shape, TreeKept
  <2>12. Clients'
    BY <1>2, <1>3, <2>1, <2>7, <2>8, <2>9, <2>10 DEF Clients
  <2>13. ~Unsure
    BY <1>1 DEF Unsure
  <2>14. Cardinality(Others(proc, startup.port)) <= strays
    BY <1>2, <2>13, SureAccounted
  <2> QED
    BY <1>2, <1>3, <1>5, <2>6, <2>7, <2>8, <2>11, <2>12, <2>14, DriverStep
    DEF Inv, TypeOK, StrangersAreSpared
<1> QED BY <1>4, <1>5 DEF claim_lease

LEMMA InstallKeepsInv == ASSUME Inv, install_warm PROVE Inv'
<1>1. op # None /\ op.at = "install" /\ warm' = op.client /\ op' = None
  BY DEF install_warm, At
<1>2. /\ op.client \in ClientTypes /\ op.client # None /\ op.client.port <= births
      /\ HasChild(proc, op.client) /\ startup # None /\ cwd # "none" /\ TypeOK /\ cred <= births + 1
  BY <1>1, Installing
<1>3. UNCHANGED <<faults, proc, births, struck, startup, cred, cwd, tree, lost, strays>>
  BY DEF install_warm, Table, Files, Trees, Ghosts
<1>4. Answered(proc, op.client) /\ Identified(op.client)
  BY <1>1, <1>2 DEF Inv, Clients
<1>5. Shape' /\ TreeKept'
  BY <1>1, <1>2, <1>3 DEF Inv, Shape, TreeKept
<1>6. Clients'
  BY <1>1, <1>2, <1>3, <1>4 DEF Clients
<1>7. ~Unsure
  BY <1>1 DEF Unsure
<1>8. Cardinality(Others(proc, startup.port)) <= strays
  BY <1>2, <1>7, SureAccounted
<1>9. proc' \in Tables /\ Fades(proc, proc')
  BY <1>2, <1>3, SameFades
<1> QED
  BY <1>1, <1>2, <1>3, <1>5, <1>6, <1>8, <1>9, DriverStep DEF Inv, TypeOK, StrangersAreSpared

\* A new session that failed takes its worktree with it; its vcs is remembered.
LEMMA NewSessionFailedKeepsInv == ASSUME Inv, new_session_failed PROVE Inv'
<1>1. /\ op # None /\ op \in Operations /\ op.at = "failed" /\ op.wait = "no" /\ op.client = None
      /\ warm = None /\ TypeOK /\ tree \in TreeTypes
      /\ UNCHANGED <<cwd, lost, warm, proc, births, startup, cred, strays, struck>>
  BY DEF new_session_failed, At, Inv, Shape, TypeOK, Table, Files, Ghosts
<1>2. ASSUME NEW t \in remove_plan(tree, TRUE)
      PROVE  t \in TreeTypes /\ t.vcs = tree.vcs
  <2>1. t = [tree EXCEPT !.dir = FALSE, !.dirty = FALSE]
    BY <1>2 DEF remove_plan
  <2> QED BY <1>1, <2>1 DEF TreeTypes
<1>3. /\ tree' \in TreeTypes /\ tree'.vcs = tree.vcs
      /\ Fault \/ UNCHANGED faults
      /\ op' = None \/ Goto("mark")
  BY <1>1, <1>2 DEF new_session_failed
<1>4. faults' \in 0..MaxFaults
  BY <1>1, <1>3, FaultsBounded
<1>5. proc' \in Tables /\ Fades(proc, proc')
  BY <1>1, SameFades
<1>6. startup # None => Cardinality(Others(proc, startup.port)) <= strays
  BY <1>1, SureAccounted DEF Unsure
<1>7. CASE op' = None
  BY <1>1, <1>3, <1>4, <1>5, <1>6, <1>7, EndKeepsInv DEF Inv, TypeOK, StrangersAreSpared
<1>8. CASE Goto("mark")
  <2>1. op' \in Operations /\ op'.at = "mark" /\ op'.client = None /\ op'.wait = "no"
    BY <1>1, <1>8 DEF Goto, Operations
  <2>2. op' # None
    BY <2>1, TypesOfRecords
  <2>3. Shape' /\ Clients' /\ TreeKept'
    BY <1>1, <1>3, <2>1, <2>2 DEF Inv, Shape, Clients, TreeKept
  <2> QED
    BY <1>1, <1>3, <1>4, <1>5, <1>6, <2>1, <2>2, <2>3, DriverStep
    DEF Inv, TypeOK, Unique, StrangersAreSpared
<1> QED BY <1>3, <1>7, <1>8

-----------------------------------------------------------------------------
(* Leaving a session *)

\* The session leaves the pool and the operation has its client.
LEMMA TeardownKeepsInv ==
    ASSUME Inv, (\E name \in {"reload", "dispose"} : Teardown(name)) \/ detach_session
    PROVE  Inv'
<1>1. /\ op = None /\ warm # None /\ warm \in ClientTypes /\ warm' = None /\ TypeOK
      /\ startup # None /\ cwd # "none" /\ cred <= births + 1
      /\ UNCHANGED <<faults, proc, births, startup, cred, cwd, tree, lost, strays, struck>>
  BY DEF Teardown, detach_session, Begin, Inv, Shape, TypeOK, Unique, Table, Files, Trees, Ghosts
<1>2. /\ HasChild(proc, warm) /\ Answered(proc, warm) /\ Identified(warm) /\ warm.port <= births
  BY <1>1 DEF Inv, Clients
<1>3. /\ op' \in Operations /\ op'.client = warm
      /\ op'.at \in {"child", "close", "detach"} /\ (op'.at = "child" => warm.child # None)
      /\ op'.wait = "no"
  <2>1. CASE detach_session
    BY <1>1, <2>1 DEF detach_session, Op, Operations
  <2>2. ASSUME NEW name \in {"reload", "dispose"}, Teardown(name)
        PROVE  /\ op' \in Operations /\ op'.client = warm /\ op'.wait = "no"
               /\ op'.at \in {"child", "close"} /\ (op'.at = "child" => warm.child # None)
    BY <1>1, <2>2 DEF Teardown, Op, Operations
  <2> QED BY <2>1, <2>2
<1>4. op' # None
  BY <1>3, TypesOfRecords
<1>5. Shape' /\ TreeKept'
  BY <1>1, <1>3, <1>4 DEF Inv, Shape, TreeKept
<1>6. Clients'
  BY <1>1, <1>2, <1>3, <1>4 DEF Clients
<1>7. Cardinality(Others(proc, startup.port)) <= strays
  BY <1>1, SureAccounted DEF Unsure
<1>8. proc' \in Tables /\ Fades(proc, proc')
  BY <1>1, SameFades
<1> QED
  BY <1>1, <1>3, <1>4, <1>5, <1>6, <1>7, <1>8, DriverStep DEF Inv, TypeOK, StrangersAreSpared

\* A daemon gives the lease back, and may be told to stop.
LEMMA ReleaseEdits ==
    ASSUME Inv, NEW c, NEW p \in Pids, Answers(c, p), NEW told \in BOOLEAN,
           \/ proc' = [proc EXCEPT ![p].holder = IF @ = "pantoken" THEN "none" ELSE @, ![p].drain = @ \/ told]
           \/ proc' = [proc EXCEPT ![p].holder = IF @ = "pantoken" THEN "none" ELSE @]
    PROVE  proc' \in Tables /\ Fades(proc, proc') /\ \A q \in Pids : proc[q] # None => proc'[q] # None
<1>1. TypeOK /\ proc[p] # None /\ proc[p] \in Processes /\ proc[p].phase = "ready"
  BY DEF Inv, TypeOK, Answers, Serves, Runs
<1>2. PICK h \in {"none", "pantoken", "tui"}, d \in BOOLEAN :
        proc' = [proc EXCEPT ![p] = [proc[p] EXCEPT !.holder = h, !.drain = d]]
  <2> DEFINE h == IF proc[p].holder = "pantoken" THEN "none" ELSE proc[p].holder
  <2>1. h \in {"none", "pantoken", "tui"} /\ proc[p].drain \in BOOLEAN
    BY <1>1 DEF Processes
  <2>2. proc' = [proc EXCEPT ![p] = [proc[p] EXCEPT !.holder = h, !.drain = proc[p].drain \/ told]]
        \/ proc' = [proc EXCEPT ![p] = [proc[p] EXCEPT !.holder = h, !.drain = proc[p].drain]]
    BY <1>1 DEF Processes
  <2>3. (proc[p].drain \/ told) \in BOOLEAN
    OBVIOUS
  <2> QED BY <2>1, <2>2, <2>3
<1> DEFINE r == [proc[p] EXCEPT !.holder = h, !.drain = d]
<1>3. /\ r \in Processes /\ r.born = proc[p].born /\ r.is = proc[p].is /\ r.token = proc[p].token
      /\ r.phase = proc[p].phase
  BY <1>1 DEF Processes
<1>4. proc' = [proc EXCEPT ![p] = r]
  BY <1>2
<1> HIDE DEF r
<1> QED BY <1>1, <1>2, <1>3, <1>4, TableEdits

LEMMA ReleaseKeepsInv == ASSUME Inv, release_lease PROVE Inv'
<1>1. /\ op # None /\ op.at = "detach" /\ op.client # None /\ op.client \in ClientTypes
      /\ op' = None /\ TypeOK
      /\ UNCHANGED <<births, warm, startup, cred, cwd, tree, lost, strays, struck>>
  BY DEF release_lease, At, Inv, Shape, TypeOK, Operations, Files, Trees, Ghosts
<1>2. proc' \in Tables /\ Fades(proc, proc')
  <2>1. ASSUME NEW p \in Pids, Answers(op.client, p),
               proc' = [proc EXCEPT ![p].holder = IF @ = "pantoken" THEN "none" ELSE @]
        PROVE  proc' \in Tables /\ Fades(proc, proc')
    BY <2>1, ReleaseEdits
  <2> QED BY <1>1, <2>1, UnheldFades DEF release_lease
<1>3. faults' \in 0..MaxFaults
  BY <1>1, FaultsBounded DEF release_lease, Unanswered
<1>4. startup # None => Cardinality(Others(proc, startup.port)) <= strays
  BY <1>1, SureAccounted DEF Unsure
<1>5. warm = None
  BY <1>1 DEF Inv, Shape
<1> QED BY <1>1, <1>2, <1>3, <1>4, <1>5, EndKeepsInv DEF Inv, TypeOK, StrangersAreSpared

\* What holds of the operation that leaves a session.
LEMMA Leaving ==
    ASSUME Inv, op # None, op.at \in {"child", "close", "kill"}
    PROVE  /\ op \in Operations /\ op.client \in ClientTypes /\ op.client # None
           /\ op.client.child \in Pids \cup {None} /\ (op.at = "child" => op.client.child \in Pids)
           /\ op.client.pid \in Pids
           /\ op.client.port <= births /\ HasChild(proc, op.client)
           /\ Answered(proc, op.client) /\ Identified(op.client)
           /\ warm = None /\ startup # None /\ cwd # "none" /\ TypeOK /\ cred <= births + 1
           /\ Cardinality(Others(proc, startup.port)) <= strays
<1>1. /\ op \in Operations /\ op.client \in ClientTypes /\ op.client # None
      /\ warm = None /\ startup # None /\ cwd # "none" /\ TypeOK /\ cred <= births + 1
  BY DEF Inv, Shape, TypeOK, Operations, Unique
<1>2. /\ op.client.port <= births /\ HasChild(proc, op.client)
      /\ Answered(proc, op.client) /\ Identified(op.client)
  BY <1>1 DEF Inv, Clients
<1>3. op.client.child \in Pids \cup {None} /\ op.client.pid \in Pids
  BY <1>1, <1>2 DEF ClientTypes, Answered
<1>4. op.at = "child" => op.client.child \in Pids
  BY <1>3 DEF Inv, Shape
<1>5. Cardinality(Others(proc, startup.port)) <= strays
  BY <1>1, SureAccounted DEF Unsure
<1> QED BY <1>1, <1>2, <1>3, <1>4, <1>5

\* What follows a teardown.
LEMMA ThenKeepsInv ==
    ASSUME Inv, op # None, op.at \in {"child", "close", "kill"}, Then,
           proc' \in Tables, Fades(proc, proc'),
           UNCHANGED <<births, startup, cred, cwd, tree, lost, strays, warm>>,
           faults' = faults, struck' \subseteq BOOLEAN, TRUE \notin struck'
    PROVE  Inv'
<1>1. /\ warm = None /\ startup # None /\ cwd # "none" /\ TypeOK
      /\ Cardinality(Others(proc, startup.port)) <= strays
  BY Leaving
<1>2. faults' \in 0..MaxFaults /\ tree' \in TreeTypes
  BY <1>1 DEF TypeOK
<1>3. CASE Attach("reload")
  BY <1>1, <1>2, <1>3, AttachKeepsInv
<1>4. CASE op' = None
  BY <1>1, <1>2, <1>4, EndKeepsInv
<1> QED BY <1>3, <1>4 DEF Then

LEMMA KillChildKeepsInv == ASSUME Inv, kill_child PROVE Inv'
<1>1. /\ op # None /\ op.at = "child" /\ Then
      /\ proc' = [proc EXCEPT ![op.client.child] = None]
      /\ UNCHANGED <<births, warm, faults, startup, cred, cwd, tree, lost, strays, struck>>
  BY DEF kill_child, At, Files, Trees, Ghosts
<1>2. op.client.child \in Pids /\ TypeOK
  BY <1>1, Leaving
<1>3. proc' \in Tables /\ Fades(proc, proc')
  BY <1>1, <1>2 DEF Tables, Fades, TypeOK
<1> QED BY <1>1, <1>3, ThenKeepsInv DEF Inv, TypeOK, StrangersAreSpared

LEMMA CloseKeepsInv == ASSUME Inv, close PROVE Inv'
<1>1. /\ op # None /\ op.at = "close" /\ op.wait = "no" /\ Goto("kill")
      /\ UNCHANGED <<births, warm, startup, cred, cwd, tree, lost, strays, struck>>
  BY DEF close, At, Files, Trees, Ghosts
<1>2. /\ op \in Operations /\ op.client \in ClientTypes /\ op.client # None
      /\ op.client.child \in Pids \cup {None}
      /\ op.client.port <= births /\ HasChild(proc, op.client)
      /\ Answered(proc, op.client) /\ Identified(op.client)
      /\ warm = None /\ startup # None /\ cwd # "none" /\ TypeOK /\ cred <= births + 1
      /\ Cardinality(Others(proc, startup.port)) <= strays
  BY <1>1, Leaving
<1>3. proc' \in Tables /\ Fades(proc, proc') /\ \A q \in Pids : proc[q] # None => proc'[q] # None
  <2>1. ASSUME NEW p \in Pids, NEW told \in BOOLEAN, Answers(op.client, p),
               proc' = [proc EXCEPT ![p].holder = IF @ = "pantoken" THEN "none" ELSE @, ![p].drain = @ \/ told]
        PROVE  proc' \in Tables /\ Fades(proc, proc') /\ \A q \in Pids : proc[q] # None => proc'[q] # None
    BY <2>1, ReleaseEdits
  <2>2. CASE UNCHANGED proc
    BY <1>2, <2>2, SameFades
  <2> QED BY <2>1, <2>2 DEF close
<1>4. faults' \in 0..MaxFaults
  BY <1>2, FaultsBounded DEF close, Unanswered
<1>5. op' \in Operations /\ op'.at = "kill" /\ op'.client = op.client /\ op'.wait = "no"
  BY <1>1, <1>2 DEF Goto, Operations
<1>6. op' # None
  BY <1>5, TypesOfRecords
<1>7. HasChild(proc', op.client) /\ Answered(proc', op.client)
  <2>1. op.client.child # None => proc'[op.client.child] # None
    BY <1>2, <1>3 DEF HasChild
  <2>2. proc \in Tables
    BY <1>2 DEF TypeOK, Tables
  <2> QED BY <1>2, <1>3, <2>1, <2>2, FadesKeeps
<1>8. Shape' /\ TreeKept'
  BY <1>1, <1>2, <1>5, <1>6 DEF Inv, Shape, TreeKept
<1>9. Clients'
  BY <1>1, <1>2, <1>5, <1>6, <1>7 DEF Clients
<1> QED
  BY <1>1, <1>2, <1>3, <1>4, <1>5, <1>6, <1>8, <1>9, DriverStep DEF Inv, TypeOK, StrangersAreSpared

\* Whoever is signalled has the start time that was read, if one was.
LEMMA KillKeepsInv == ASSUME Inv, kill PROVE Inv'
<1>1. /\ op # None /\ op.at = "kill" /\ Then
      /\ UNCHANGED <<births, warm, faults, strays, startup, cred, cwd, tree, lost>>
  BY DEF kill, At, Files, Trees
<1> DEFINE c == op.client
           p == c.pid
<1>2. c \in ClientTypes /\ p \in Pids /\ Answered(proc, c) /\ Identified(c) /\ TypeOK
  BY <1>1, Leaving
<1>3. CASE UNCHANGED <<proc, struck>>
  <2>1. proc' \in Tables /\ Fades(proc, proc')
    BY <1>2, <1>3, SameFades
  <2> QED BY <1>1, <1>3, <2>1, ThenKeepsInv DEF Inv, TypeOK, StrangersAreSpared
<1>4. CASE /\ verify(p, c.start) /\ proc[p] # None
           /\ proc' = [proc EXCEPT ![p].drain = TRUE]
           /\ struck' = IF proc[p].born = c.port THEN struck ELSE struck \cup {c.start = c.port}
  <2> DEFINE r == [proc[p] EXCEPT !.drain = TRUE]
  <2>1. proc[p] \in Processes /\ proc' = [proc EXCEPT ![p] = r]
    BY <1>2, <1>4 DEF TypeOK
  <2>2. /\ r \in Processes /\ r.born = proc[p].born /\ r.is = proc[p].is /\ r.token = proc[p].token
        /\ r.phase = proc[p].phase
    BY <2>1 DEF Processes
  <2>3. proc[p].phase # "starting"
    BY <1>2, <1>4, <2>1 DEF Answered, Inv, Fresh
  <2> HIDE DEF r
  <2>4. proc' \in Tables /\ Fades(proc, proc')
    BY <1>2, <1>4, <2>1, <2>2, <2>3, TableEdits
  <2>5. struck' \subseteq BOOLEAN /\ TRUE \notin struck'
    <3>1. struck \subseteq BOOLEAN /\ TRUE \notin struck
      BY DEF Inv, TypeOK, StrangersAreSpared
    <3>2. CASE proc[p].born = c.port
      BY <1>4, <3>1, <3>2
    <3>3. CASE proc[p].born # c.port
      <4>1. c.start = None
        BY <1>2, <1>4, <3>3 DEF verify, Identified
      <4>2. c.start # c.port
        BY <1>2, <4>1, TypesOfRecords DEF ClientTypes
      <4>3. struck' = struck \cup {FALSE}
        BY <1>4, <3>3, <4>2
      <4> QED BY <3>1, <4>3
    <3> QED BY <3>2, <3>3
  <2> QED BY <1>1, <2>4, <2>5, ThenKeepsInv
<1> QED BY <1>3, <1>4 DEF kill

-----------------------------------------------------------------------------
(* Worktrees *)

LEMMA ReapKeepsInv ==
    ASSUME Inv, NEW force \in BOOLEAN, Begin, cwd = "tree", Reap(force),
           UNCHANGED <<warm, faults, proc, births, startup, cred, cwd, tree, lost, strays, struck>>
    PROVE  Inv'
<1>1. TypeOK /\ op = None /\ startup # None /\ cred <= births + 1
  BY DEF Begin, Inv, Shape, Unique
<1>2. proc' \in Tables /\ Fades(proc, proc')
  BY <1>1, SameFades
<1>3. Cardinality(Others(proc, startup.port)) <= strays
  BY <1>1, SureAccounted DEF Unsure
<1>4. CASE op' = None
  BY <1>1, <1>2, <1>3, <1>4, EndKeepsInv DEF Inv, TypeOK, StrangersAreSpared
<1>5. CASE op' = [Op("reap", IF force THEN "remove" ELSE "look", None) EXCEPT !.force = force]
  <2>1. /\ op' \in Operations /\ op'.at \in {"look", "remove"} /\ op'.client = None /\ op'.wait = "no"
        /\ op'.at = "remove" => op'.force
    BY <1>5 DEF Op, Operations
  <2>2. op' # None
    BY <2>1, TypesOfRecords
  <2>3. Shape' /\ TreeKept' /\ Clients'
    BY <1>1, <2>1, <2>2 DEF Inv, Shape, TreeKept, Clients
  <2> QED
    BY <1>1, <1>2, <1>3, <2>1, <2>2, <2>3, DriverStep DEF Inv, TypeOK, StrangersAreSpared
<1> QED BY <1>4, <1>5 DEF Reap

\* What holds of the operation that removes a worktree.
LEMMA Reaping ==
    ASSUME Inv, op # None, op.at \in {"look", "remove", "mark"}
    PROVE  /\ op \in Operations /\ op.client = None /\ TypeOK /\ tree \in TreeTypes /\ cred <= births + 1
           /\ startup # None => Cardinality(Others(proc, startup.port)) <= strays
           /\ op.at # "mark" => cwd = "tree" /\ tree.vcs \in Vcs
BY SureAccounted DEF Inv, Shape, TypeOK, TreeKept, Unique, Unsure

\* Only a tree without changes is removed after the look.
LEMMA LookKeepsInv == ASSUME Inv, look PROVE Inv'
<1>1. /\ op # None /\ op.at = "look" /\ op.wait = "no" /\ TypeOK /\ op \in Operations /\ op.client = None
      /\ cred <= births + 1 /\ cwd = "tree" /\ tree \in TreeTypes
      /\ startup # None => Cardinality(Others(proc, startup.port)) <= strays
      /\ UNCHANGED <<warm, proc, births, startup, cred, cwd, tree, lost, strays, struck>>
  BY Reaping DEF look, At, Table, Files, Trees, Ghosts
<1>2. proc' \in Tables /\ Fades(proc, proc')
  BY <1>1, SameFades
<1>3. faults' \in 0..MaxFaults
  BY <1>1, FaultsBounded DEF look
<1>4. CASE op' = None
  BY <1>1, <1>2, <1>3, <1>4, EndKeepsInv DEF Inv, TypeOK, StrangersAreSpared
<1>5. CASE is_clean(tree) /\ op' = [op EXCEPT !.at = "remove", !.seen = tree.dir /\ ~tree.dirty]
  <2>1. tree.dir /\ ~tree.dirty
    BY <1>5 DEF is_clean
  <2>2. op' \in Operations /\ op'.at = "remove" /\ op'.client = None /\ op'.wait = "no" /\ op'.seen
    BY <1>1, <1>5, <2>1 DEF Operations
  <2>3. op' # None
    BY <2>2, TypesOfRecords
  <2>4. Shape' /\ TreeKept' /\ Clients'
    BY <1>1, <2>2, <2>3 DEF Inv, Shape, TreeKept, Clients
  <2> QED
    BY <1>1, <1>2, <1>3, <2>2, <2>3, <2>4, DriverStep DEF Inv, TypeOK, StrangersAreSpared
<1> QED BY <1>4, <1>5 DEF look

\* What git does not remove is not lost, and jj is not asked before the look.
LEMMA RemoveKeepsInv == ASSUME Inv, remove PROVE Inv'
<1>1. /\ op # None /\ op.at = "remove" /\ op.wait = "no" /\ TypeOK /\ op \in Operations /\ op.client = None
      /\ cred <= births + 1 /\ cwd = "tree" /\ tree \in TreeTypes /\ tree.vcs \in Vcs
      /\ startup # None => Cardinality(Others(proc, startup.port)) <= strays
      /\ UNCHANGED <<warm, proc, births, startup, cred, cwd, strays, struck>>
  BY Reaping DEF remove, At, Table, Files, Ghosts
<1>2. proc' \in Tables /\ Fades(proc, proc')
  BY <1>1, SameFades
<1>3. CASE op' = None /\ UNCHANGED <<tree, lost>> /\ (Fault \/ UNCHANGED faults)
  BY <1>1, <1>2, <1>3, FaultsBounded, EndKeepsInv DEF Inv, TypeOK, StrangersAreSpared
<1>4. CASE /\ tree' \in remove_plan(tree, op.force) /\ Goto("mark") /\ UNCHANGED faults
           /\ lost' = IF tree.dirty /\ ~op.force
                      THEN lost \cup {[vcs |-> tree.vcs, clean |-> op.seen]} ELSE lost
  <2>1. /\ tree' = [tree EXCEPT !.dir = FALSE, !.dirty = FALSE]
        /\ ~(tree.vcs = "git" /\ ~op.force /\ tree.dirty)
    BY <1>4 DEF remove_plan
  <2>2. tree' \in TreeTypes /\ tree'.vcs = tree.vcs
    BY <1>1, <2>1 DEF TreeTypes
  <2>3. op' \in Operations /\ op'.at = "mark" /\ op'.client = None /\ op'.wait = "no"
    BY <1>1, <1>4 DEF Goto, Operations
  <2>4. op' # None
    BY <2>3, TypesOfRecords
  <2>5. lost' \subseteq LostTypes /\ \A l \in lost' : l.vcs = "jj" /\ l.clean
    <3>1. lost \subseteq LostTypes /\ \A l \in lost : l.vcs = "jj" /\ l.clean
      BY DEF Inv, TypeOK, TreeKept
    <3>2. CASE tree.dirty /\ ~op.force
      <4>1. tree.vcs = "jj" /\ op.seen = TRUE
        BY <1>1, <2>1, <3>2 DEF Inv, TreeKept, Vcs, Operations
      <4>2. PICK l \in LostTypes : l = [vcs |-> "jj", clean |-> TRUE] /\ l.vcs = "jj" /\ l.clean
        <5>1. "jj" \in Vcs /\ TRUE \in BOOLEAN
          BY DEF Vcs
        <5>2. [vcs |-> "jj", clean |-> TRUE] \in LostTypes
          BY <5>1 DEF LostTypes
        <5>3. [vcs |-> "jj", clean |-> TRUE].vcs = "jj" /\ [vcs |-> "jj", clean |-> TRUE].clean
          OBVIOUS
        <5> QED BY <5>2, <5>3
      <4>3. lost' = lost \cup {l}
        BY <1>4, <3>2, <4>1, <4>2
      <4> QED BY <3>1, <4>2, <4>3
    <3> QED BY <1>4, <3>1, <3>2
  <2>6. Shape' /\ TreeKept' /\ Clients'
    BY <1>1, <2>2, <2>3, <2>4, <2>5 DEF Inv, Shape, TreeKept, Clients
  <2> QED
    BY <1>1, <1>2, <1>4, <2>2, <2>3, <2>4, <2>5, <2>6, DriverStep DEF Inv, TypeOK, StrangersAreSpared
<1> QED BY <1>3, <1>4 DEF remove

LEMMA MarkKeepsInv == ASSUME Inv, mark PROVE Inv'
<1>1. /\ op # None /\ op.at = "mark" /\ op' = None /\ TypeOK /\ tree \in TreeTypes
      /\ startup # None => Cardinality(Others(proc, startup.port)) <= strays
      /\ tree' = mark_reaped(tree)
      /\ UNCHANGED <<cwd, lost, warm, faults, proc, births, startup, cred, strays, struck>>
  BY Reaping DEF mark, At, Table, Files, Ghosts
<1>2. tree' \in TreeTypes /\ tree'.vcs = tree.vcs
  BY <1>1 DEF mark_reaped, TreeTypes
<1>3. proc' \in Tables /\ Fades(proc, proc')
  BY <1>1, SameFades
<1> QED BY <1>1, <1>2, <1>3, EndKeepsInv DEF Inv, TypeOK, StrangersAreSpared

-----------------------------------------------------------------------------
(* The theorems *)

LEMMA InitInv == Init => Inv
<1> SUFFICES ASSUME Init PROVE Inv
  OBVIOUS
<1>1. TypeOK
  <2>1. 0 \in 0..MaxBirths /\ 0 \in 0..MaxFaults /\ 0 \in Tokens
    BY DaemonAssumption DEF Tokens
  <2>2. NoTree \in TreeTypes
    BY DEF NoTree, TreeTypes
  <2>3. TRUE \in BOOLEAN /\ FALSE \in BOOLEAN /\ {} \subseteq BOOLEAN
    OBVIOUS
  <2> QED BY <2>1, <2>2, <2>3 DEF Init, TypeOK
<1>2. Shape /\ Fresh /\ Clients /\ Accounted /\ AttachAccounted /\ TreeKept /\ StrangersAreSpared
  BY DEF Init, Shape, Fresh, Clients, Accounted, AttachAccounted, TreeKept, StrangersAreSpared
<1>3. Unique
  BY DEF Init, Unique, Births1, Tokens1
<1> QED BY <1>1, <1>2, <1>3 DEF Inv

LEMMA DriverKeepsInv == ASSUME Inv, Driver PROVE Inv'
<1>1. CASE spawn_new_daemon
  <2>1. UNCHANGED <<tree, lost, warm, strays, struck>> /\ At("spawn")
    BY <1>1 DEF spawn_new_daemon, Ghosts
  <2>2. CASE Goto("failed") /\ CannotSpawn /\ UNCHANGED <<Table, Files, cwd>>
    BY <2>1, <2>2, SpawnNewFailsKeepsInv DEF Table, Files
  <2>3. CASE /\ births < MaxBirths
             /\ \E p \in Pids :
                  /\ proc[p] = None
                  /\ births' = births + 1
                  /\ proc' = [proc EXCEPT ![p] = Daemon(births', "ready", births')]
                  /\ startup' = [state |-> "ready", pid |-> p, port |-> births']
             /\ cred' = births'
             /\ cwd' = IF op.name = "new_tree" THEN "tree" ELSE "dir"
             /\ \/ op' = [op EXCEPT !.at = "health", !.client = Client(births', births', None)] /\ UNCHANGED faults
                \/ (Goto("failed") \/ op' = [op EXCEPT !.wait = "command"]) /\ Fault
    BY <2>1, <2>3, SpawnNewKeepsInv
  <2> QED BY <1>1, <2>2, <2>3 DEF spawn_new_daemon
<1>2. CASE spawn_resume_daemon
  <2>1. UNCHANGED <<warm, startup, cred, cwd, tree, lost, strays, struck>> /\ At("resume")
    BY <1>2 DEF spawn_resume_daemon, Files, Trees, Ghosts
  <2>2. CASE op' = None /\ CannotSpawn /\ UNCHANGED Table
    BY <2>1, <2>2, SpawnFailsKeepsInv DEF Table
  <2>3. CASE /\ births < MaxBirths
             /\ \E p \in Pids :
                  /\ proc[p] = None
                  /\ births' = births + 1
                  /\ proc' = [proc EXCEPT ![p] = Daemon(births', "starting", cred)]
                  /\ op' = [op EXCEPT !.at = "startup", !.client = Client(births', cred, p)]
             /\ UNCHANGED faults
    BY <2>1, <2>3, SpawnResumeKeepsInv
  <2> QED BY <1>2, <2>2, <2>3 DEF spawn_resume_daemon
<1>3. CASE \/ create_worktree \/ add_worktree
           \/ resume_prepare \/ wait_for_daemon_startup \/ read_child_stderr \/ reap_child \/ wait_with_output
  BY <1>3, CreateKeepsInv, ResumePrepareKeepsInv, WaitKeepsInv, ReapChildKeepsInv, WaitWithOutputKeepsInv
<1>4. CASE health \/ capture_start_time \/ claim_lease \/ install_warm \/ new_session_failed
  BY <1>4, HealthKeepsInv, CaptureKeepsInv, ClaimKeepsInv, InstallKeepsInv, NewSessionFailedKeepsInv
<1>5. CASE kill_child \/ close \/ kill \/ release_lease \/ answer_ends
  BY <1>5, KillChildKeepsInv, CloseKeepsInv, KillKeepsInv, ReleaseKeepsInv, AnswerEndsKeepsInv
<1>6. CASE look \/ remove \/ mark
  BY <1>6, LookKeepsInv, RemoveKeepsInv, MarkKeepsInv
<1> QED BY <1>1, <1>2, <1>3, <1>4, <1>5, <1>6 DEF Driver

LEMMA AsksKeepsInv == ASSUME Inv, Asks PROVE Inv'
<1>1. CASE new_session \/ open_session
  BY <1>1, NewSessionKeepsInv, OpenSessionKeepsInv
<1>2. CASE reload_session \/ dispose_warm \/ detach_session
  BY <1>2, TeardownKeepsInv DEF reload_session, dispose_warm
<1>3. CASE set_archived
  BY <1>3, ReapKeepsInv DEF set_archived, Table, Files, Trees, Ghosts
<1>4. CASE cleanup_worktree
  BY <1>4, ReapKeepsInv DEF cleanup_worktree, Table, Files, Trees, Ghosts
<1> QED BY <1>1, <1>2, <1>3, <1>4 DEF Asks

LEMMA NextKeepsInv == Inv /\ [Next]_vars => Inv'
<1> SUFFICES ASSUME Inv, [Next]_vars PROVE Inv'
  OBVIOUS
<1>1. CASE World
  BY <1>1, DaemonStartsKeepsInv, DaemonHangsKeepsInv, ExitsKeepsInv, StrangerKeepsInv,
     HolderKeepsInv, HeartbeatEndsKeepsInv, AgentEditsKeepsInv, ServerCrashesKeepsInv,
     StallsKeepsInv, HangsKeepsInv DEF World
<1>2. CASE UNCHANGED vars
  <2>1. UNCHANGED <<proc, births, startup, cred, cwd, tree, warm, op, faults, strays, struck, lost>>
    BY <1>2 DEF vars
  <2>2. proc' \in Tables /\ Fades(proc, proc')
    BY <2>1, SameFades DEF Inv
  <2> QED BY <2>1, <2>2, WorldFades DEF Inv, TypeOK
<1> QED BY <1>1, <1>2, DriverKeepsInv, AsksKeepsInv DEF Next

\* Every variable keeps its type; an operation, a client and startup.json are what the types say.
THEOREM TypeCorrect == Spec => []TypeOK
<1>1. Inv => TypeOK
  BY DEF Inv
<1> QED BY InitInv, NextKeepsInv, <1>1, PTL DEF Spec

\* kill() never signals another process when the start time was read, however pids are handed
\* out again (process_identity.rs verify, daemon_client.rs kill).
THEOREM StrangersCorrect == Spec => []StrangersAreSpared
<1>1. Inv => StrangersAreSpared
  BY DEF Inv
<1> QED BY InitInv, NextKeepsInv, <1>1, PTL DEF Spec

\* One daemon, told to stop or not, and at most one more for each attach or start that gave up on
\* a living one and each crash in a start whose living child startup.json does not name yet, for
\* any number of faults and pids used again (driver.rs open_session, warm_session_attach).
THEOREM DaemonsCorrect == Spec => []DaemonsAreAccounted
<1>1. Inv => DaemonsAreAccounted
  <2> SUFFICES ASSUME Inv PROVE DaemonsAreAccounted
    OBVIOUS
  <2>1. Daemons = Living(proc)
    BY DEF Daemons, Runs, Living
  <2>2. strays \in Nat /\ Cardinality(Living(proc)) \in Nat
    BY LivingFinite, DaemonAssumption DEF Inv, TypeOK
  <2>3. CASE startup # None
    BY <2>1, <2>2, <2>3, AtMostOneMore DEF DaemonsAreAccounted
  <2>4. CASE startup = None
    <3>1. Living(proc) = {}
      BY <2>4 DEF Inv, Shape, Unique, Living
    <3> QED BY <2>1, <2>2, <3>1, FS_EmptySet DEF DaemonsAreAccounted
  <2> QED BY <2>3, <2>4
<1> QED BY InitInv, NextKeepsInv, <1>1, PTL DEF Spec

\* Uncommitted work is deleted without force only by jj, and only if it was done after the look
\* that found none (driver.rs reap_worktree, shared/worktree.rs remove, is_clean).
THEOREM WorkCorrect == Spec => []UncommittedWorkSurvives
<1>1. Inv => UncommittedWorkSurvives
  BY DEF Inv, TreeKept, UncommittedWorkSurvives
<1> QED BY InitInv, NextKeepsInv, <1>1, PTL DEF Spec
=============================================================================
