---------------------------- MODULE HubOps_proofs ----------------------------
(***************************************************************************)
(* DrainedListsAreRight and ListsNeverGoBack of HubOps, for any number of  *)
(* connections, sessions and requests.                                     *)
(***************************************************************************)
EXTENDS HubOps, SequenceTheorems, TLAPS

-----------------------------------------------------------------------------
(* What is queued and run *)

\* Only a list for everybody and a fetch for a session's viewers belong to no connection.
WellAddressed(op) == op.conn = None => op.does \in {"session_list", "jobs_on_update"}

\* The stages of an operation.
StageFits(r) ==
    /\ r.at = "refresh" => r.op.does \in Switches
    /\ r.at = "list" => r.op.does \in Edits
    /\ r.at = "send" => r.op.does \in Edits \union Listing /\ r.got \in Nat

Types ==
    /\ TypeOK
    /\ \A i \in 1..Len(ops) : WellAddressed(ops[i])
    /\ cur # None => WellAddressed(cur.op) /\ StageFits(cur)

-----------------------------------------------------------------------------
(* Connections and their operations *)

\* Nothing is queued or run for a connection that is still to come.
KnownConns ==
    /\ \A i \in 1..Len(ops) : ops[i].conn # None => conn[ops[i].conn] # "new"
    /\ cur # None /\ cur.op.conn # None => conn[cur.op.conn] # "new"

\* The list a connection gets when it joins comes before whatever it asks for, so the focus
\* captured with it is still its focus.
IsConnect(op) == op.does = "connect_list"
ConnectFirst ==
    /\ \A j \in 1..Len(ops) : IsConnect(ops[j]) =>
          /\ ops[j].session = focus[ops[j].conn]
          /\ \A i \in 1..(j - 1) : ops[i].conn # ops[j].conn
          /\ cur # None => cur.op.conn # ops[j].conn
    /\ cur # None /\ IsConnect(cur.op) => cur.op.session = focus[cur.op.conn]

-----------------------------------------------------------------------------
(* Lists for a focus *)

IsFor(op, kind, c) == op.does = kind /\ op.conn = c
Shown(kind, c) == IF kind = "jobs" THEN lists[c].jobs ELSE lists[c].scoped

\* The last list of this kind that is on its way to c is for its focus ...
Coming(kind, c) ==
    \E i \in 1..Len(ops) :
        /\ IsFor(ops[i], kind, c) /\ ops[i].session = focus[c]
        /\ \A j \in (i + 1)..Len(ops) : ~IsFor(ops[j], kind, c)

\* ... or none is queued, and what is being fetched, or what c has, is.
There(kind, c) ==
    /\ \A i \in 1..Len(ops) : ~IsFor(ops[i], kind, c)
    /\ IF cur # None /\ IsFor(cur.op, kind, c) THEN cur.op.session = focus[c]
       ELSE Shown(kind, c) = focus[c]

Settles(kind, c) == Coming(kind, c) \/ There(kind, c)

\* The switch that moved c has still to queue the lists for its focus.
Refreshing(c) == At(Switches, "refresh") /\ cur.op.conn = c

ScopedSettles ==
    \A c \in Conns : On(c) =>
        IF Refreshing(c) THEN cur.op.session = focus[c] ELSE Settles("scoped", c)
JobsSettle == \A c \in Conns : On(c) /\ c \notin owesJobs => Settles("jobs", c)

\* The session list marks the focus, or one that will is on its way.
MarksFocus(op, c) == op.does = "session_list" \/ IsFor(op, "connect_list", c)
ActiveSettles ==
    \A c \in Conns : On(c) =>
        \/ lists[c].active = focus[c] \/ Refreshing(c)
        \/ \E i \in 1..Len(ops) : MarksFocus(ops[i], c)
        \/ cur # None /\ MarksFocus(cur.op, c)

-----------------------------------------------------------------------------
(* Versions of the session list *)

ReadsAreNew ==
    /\ shownBy <= disk /\ \A c \in Conns : lists[c].version <= disk
    /\ cur # None /\ cur.at = "send" =>
          /\ cur.got <= disk /\ shownBy <= cur.got
          /\ \A c \in Conns : lists[c].version <= cur.got

\* A connection has every edit that was served, or its first list is on its way.
EditsArrive ==
    \A c \in Conns : On(c) =>
        \/ lists[c].version >= shownBy
        \/ \E i \in 1..Len(ops) : IsFor(ops[i], "connect_list", c)
        \/ cur # None /\ IsFor(cur.op, "connect_list", c)

Inv ==
    /\ Types /\ ClaimedOnlyBySwitch /\ KnownConns /\ ConnectFirst
    /\ ScopedSettles /\ JobsSettle /\ ActiveSettles
    /\ ReadsAreNew /\ EditsArrive

-----------------------------------------------------------------------------
(* Sequences *)

LEMMA TakeFacts ==
    ASSUME NEW S, NEW s \in Seq(S), s # <<>>
    PROVE  /\ Tail(s) \in Seq(S) /\ Len(Tail(s)) = Len(s) - 1 /\ Len(s) \in Nat \ {0}
           /\ \A i \in 1..Len(Tail(s)) : Tail(s)[i] = s[i + 1]
           /\ Head(s) = s[1] /\ s[1] \in S
OBVIOUS

LEMMA AppendFacts ==
    ASSUME NEW S, NEW s \in Seq(S), NEW e \in S
    PROVE  /\ Append(s, e) \in Seq(S) /\ Len(Append(s, e)) = Len(s) + 1 /\ Len(s) \in Nat
           /\ \A i \in 1..Len(s) : Append(s, e)[i] = s[i]
           /\ Append(s, e)[Len(s) + 1] = e
OBVIOUS

LEMMA ConcatTwo ==
    ASSUME NEW S, NEW s \in Seq(S), NEW d \in S, NEW e \in S
    PROVE  /\ s \o <<d, e>> \in Seq(S) /\ Len(s \o <<d, e>>) = Len(s) + 2 /\ Len(s) \in Nat
           /\ \A i \in 1..Len(s) : (s \o <<d, e>>)[i] = s[i]
           /\ (s \o <<d, e>>)[Len(s) + 1] = d /\ (s \o <<d, e>>)[Len(s) + 2] = e
OBVIOUS

-----------------------------------------------------------------------------
(* Types are kept *)

Kinds == Switches \union Edits \union
            {"connect_list", "session_list", "scoped", "jobs", "jobs_on_update", "reply"}

LEMMA OpIs ==
    ASSUME NEW n \in 0..MaxRequests, NEW c \in Conns \union {None}, NEW does \in Kinds, NEW s \in Focuses
    PROVE  /\ Op(n, c, does, s) \in OpTypes
           /\ Op(n, c, does, s).n = n /\ Op(n, c, does, s).conn = c
           /\ Op(n, c, does, s).does = does /\ Op(n, c, does, s).session = s
BY DEF Op, OpTypes, Kinds

LEMMA TypesFacts ==
    ASSUME Types
    PROVE  /\ ops \in Seq(OpTypes) /\ \A i \in 1..Len(ops) : ops[i] \in OpTypes
           /\ cur # None => cur \in Running /\ cur.op \in OpTypes
           /\ None \notin Sessions /\ None \notin Conns /\ None \notin Running
           /\ \A op \in OpTypes : op.conn \in Conns \union {None} /\ op.session \in Focuses
                                  /\ op.does \in Kinds /\ op.n \in 0..MaxRequests
<1>1. ops \in Seq(OpTypes)
  BY DEF Types, TypeOK
<1>2. \A i \in 1..Len(ops) : ops[i] \in OpTypes
  BY <1>1
<1>3. cur # None => cur \in Running /\ cur.op \in OpTypes
  BY DEF Types, TypeOK, Running
<1>4. None \notin Sessions /\ None \notin Conns /\ None \notin Running
  BY HubOpsAssumption
<1>5. \A op \in OpTypes : op.conn \in Conns \union {None} /\ op.session \in Focuses
                          /\ op.does \in Kinds /\ op.n \in 0..MaxRequests
  BY DEF OpTypes, Kinds
<1> QED BY <1>1, <1>2, <1>3, <1>4, <1>5

SideTypes ==
    /\ dirty \in BOOLEAN /\ untold \subseteq Sessions
    /\ asked \in 0..MaxRequests /\ served \subseteq 1..MaxRequests
    /\ menu \in Menus
    /\ used \in [titles : 0..MaxTitles, ticks : 0..MaxTicks]

CoreTypes ==
    /\ conn \in [Conns -> {"new", "on", "gone"}]
    /\ focus \in [Conns -> Focuses]
    /\ inFlight \in [Conns -> BOOLEAN]
    /\ lists \in [Conns -> [scoped : Focuses, jobs : Focuses, version : Nat, active : Focuses]]
    /\ owesJobs \subseteq Conns
    /\ ops \in Seq(OpTypes)
    /\ cur \in Running \union {None}
    /\ disk \in Nat /\ shownBy \in Nat

LEMMA TypesSplit == TypeOK <=> SideTypes /\ CoreTypes
BY DEF TypeOK, SideTypes, CoreTypes

LEMMA TypesAgain ==
    ASSUME SideTypes', CoreTypes'
    PROVE  TypeOK'
BY DEF TypeOK, SideTypes, CoreTypes

Requests(c) ==
    \/ \E s \in Sessions : OpenSession(c, s) \/ ReloadSession(c, s) \/ NewSession(c, s)
    \/ SetArchived(c) \/ RenameSession(c) \/ CleanupWorktree(c) \/ DetachSession(c)
    \/ ListSessions(c) \/ ListCommands(c)
    \/ SessionAction(c) \/ RestoreQueue(c) \/ DeleteTodo(c) \/ QueryFiles(c)

\* The kinds of request, and the session each captures.
AskedFor(c, does, s) ==
    /\ does \in Switches \union Edits \union {"session_list", "scoped", "reply"}
    /\ s \in Focuses /\ (does = "scoped" => s = focus[c]) /\ (does \in Switches => s \in Sessions)

LEMMA RequestsAsk ==
    ASSUME Types, NEW c \in Conns, Requests(c) \/ (focus[c] # None /\ Ask(c, "branch", focus[c]))
    PROVE  \E does, s : AskedFor(c, does, s) /\ Ask(c, does, s)
<1>1. focus[c] \in Focuses /\ None \in Focuses /\ Sessions \subseteq Focuses
  BY DEF Types, TypeOK, Focuses
<1>2. ASSUME NEW s \in Sessions, OpenSession(c, s) \/ ReloadSession(c, s) \/ NewSession(c, s)
      PROVE  \E does, t : AskedFor(c, does, t) /\ Ask(c, does, t)
  <2>1. \E does \in {"open", "reload", "new"} : AskedFor(c, does, s) /\ Ask(c, does, s)
    BY <1>1, <1>2 DEF OpenSession, ReloadSession, NewSession, AskedFor, Switches
  <2> QED BY <2>1
<1>3. CASE SetArchived(c) \/ RenameSession(c) \/ CleanupWorktree(c) \/ DetachSession(c) \/ ListSessions(c)
  <2>1. \E does \in Edits \union {"session_list"} : AskedFor(c, does, None) /\ Ask(c, does, None)
    BY <1>1, <1>3 DEF SetArchived, RenameSession, CleanupWorktree, DetachSession, ListSessions, AskedFor,
                      Switches, Edits
  <2> QED BY <2>1
<1>4. CASE \/ ListCommands(c) \/ SessionAction(c) \/ RestoreQueue(c) \/ DeleteTodo(c) \/ QueryFiles(c)
           \/ focus[c] # None /\ Ask(c, "branch", focus[c])
  <2>0. focus[c] # None => focus[c] \in Sessions
    BY <1>1 DEF Focuses
  <2>1. \E does \in {"scoped", "reply", "branch"} : AskedFor(c, does, focus[c]) /\ Ask(c, does, focus[c])
    BY <1>1, <1>4, <2>0 DEF ListCommands, SessionAction, RestoreQueue, DeleteTodo, QueryFiles, AskedFor, Switches
  <2> QED BY <2>1
<1>5. \/ \E s \in Sessions : OpenSession(c, s) \/ ReloadSession(c, s) \/ NewSession(c, s)
      \/ SetArchived(c) \/ RenameSession(c) \/ CleanupWorktree(c) \/ DetachSession(c) \/ ListSessions(c)
      \/ ListCommands(c) \/ SessionAction(c) \/ RestoreQueue(c) \/ DeleteTodo(c) \/ QueryFiles(c)
      \/ focus[c] # None /\ Ask(c, "branch", focus[c])
  BY DEF Requests
<1> QED BY <1>2, <1>3, <1>4, <1>5

Refused(c) ==
    /\ On(c) /\ asked < MaxRequests /\ "branch" \in menu
    /\ asked' = asked + 1 /\ served' = served \union {asked + 1}
    /\ UNCHANGED <<menu, clientVars, ops, cur, disk, dirty, untold, shownBy, used>>

LEMMA ServedIs ==
    ASSUME Types, cur # None, served' = Served(cur.op.n)
    PROVE  served' \subseteq 1..MaxRequests
<1>1. cur.op.n \in 0..MaxRequests /\ served \subseteq 1..MaxRequests /\ MaxRequests \in Nat
  BY TypesFacts, HubOpsAssumption DEF Types, TypeOK
<1> DEFINE n == cur.op.n
<1>2. n = 0 \/ n \in 1..MaxRequests
  BY <1>1
<1>3. served' = IF n = 0 THEN served ELSE served \union {n}
  BY DEF Served
<1> HIDE DEF n
<1> QED BY <1>1, <1>2, <1>3

LEMMA SideTypesKept ==
    ASSUME Types, [Next]_vars
    PROVE  SideTypes'
<1>0. SideTypes /\ MaxRequests \in Nat /\ MaxTitles \in Nat /\ MaxTicks \in Nat
  BY TypesSplit, HubOpsAssumption DEF Types
<1>1. ASSUME NEW c \in Conns, Requests(c) \/ Branch(c) PROVE SideTypes'
  <2>1. CASE Refused(c)
    <3>1. asked + 1 \in 0..MaxRequests /\ asked + 1 \in 1..MaxRequests
      BY <1>0, <2>1 DEF Refused, SideTypes
    <3> QED BY <1>0, <2>1, <3>1 DEF Refused, SideTypes
  <2>2. CASE ~Refused(c)
    <3>1. PICK does, s : Ask(c, does, s)
      BY <1>1, <2>2, RequestsAsk DEF Branch, Refused
    <3>2. asked + 1 \in 0..MaxRequests /\ asked' = asked + 1
      BY <1>0, <3>1 DEF Ask, SideTypes
    <3> QED BY <1>0, <3>1, <3>2 DEF Ask, SideTypes
  <2> QED BY <2>1, <2>2
<1>2. ASSUME NEW c \in Conns, NEW s \in Landings, add_client(c, s) PROVE SideTypes'
  BY <1>0, <1>2 DEF add_client, SideTypes
<1>3. ASSUME NEW c \in Conns, remove_client(c) \/ FetchJobs(c) PROVE SideTypes'
  BY <1>0, <1>3 DEF remove_client, FetchJobs, SideTypes
<1>4. ASSUME NEW s \in Sessions, DaemonChanges(s) PROVE SideTypes'
  <2>1. used' = [used EXCEPT !.titles = @ + 1] /\ used.titles < MaxTitles /\ untold' = untold \union {s}
        /\ UNCHANGED <<dirty, asked, served, menu>>
    BY <1>4 DEF DaemonChanges
  <2>2. used' \in [titles : 0..MaxTitles, ticks : 0..MaxTicks]
    BY <1>0, <2>1 DEF SideTypes
  <2> QED BY <1>0, <1>4, <2>1, <2>2 DEF SideTypes
<1>5. ASSUME NEW s \in Sessions, on_event_SessionUpdated(s) PROVE SideTypes'
  BY <1>0, <1>5 DEF on_event_SessionUpdated, SideTypes
<1>6. CASE enqueue_live_refresh
  <2>1. used' = [used EXCEPT !.ticks = @ + 1] /\ used.ticks < MaxTicks
        /\ UNCHANGED <<dirty, untold, asked, served, menu>>
    BY <1>6 DEF enqueue_live_refresh
  <2>2. used' \in [titles : 0..MaxTitles, ticks : 0..MaxTicks]
    BY <1>0, <2>1 DEF SideTypes
  <2> QED BY <1>0, <2>1, <2>2 DEF SideTypes
<1>7. CASE Applier
  <2>1. UNCHANGED <<untold, asked, menu, used>> /\ dirty' \in {dirty, FALSE}
    BY <1>7 DEF Applier, run_hub_op_applier, switch_fails, finish_switch, refresh_after_switch, set_archived,
                rename_session, cleanup_worktree, detach_session, then_list, no_list, list_sessions,
                broadcast_session_list, send_connect_list, send_scoped, fetch_jobs_on_update, reply
  <2>2. served' = served \/ (cur # None /\ served' = Served(cur.op.n))
    BY <1>7 DEF Applier, run_hub_op_applier, switch_fails, finish_switch, refresh_after_switch, set_archived,
                rename_session, cleanup_worktree, detach_session, then_list, no_list, list_sessions,
                broadcast_session_list, send_connect_list, send_scoped, fetch_jobs_on_update, reply, At, Serving
  <2> QED BY <1>0, <2>1, <2>2, ServedIs DEF SideTypes
<1>8. CASE UNCHANGED vars
  BY <1>0, <1>8 DEF vars, SideTypes
<1> QED BY <1>1, <1>2, <1>3, <1>4, <1>5, <1>6, <1>7, <1>8 DEF Next, Requests

-----------------------------------------------------------------------------
(* An operation is queued *)

Enqueues(a) ==
    /\ ops' = Append(ops, a)
    /\ a \in OpTypes /\ WellAddressed(a) /\ ~IsConnect(a)
    /\ a.conn # None => On(a.conn)
    /\ a.does \in {"scoped", "jobs"} => a.conn \in Conns /\ a.session = focus[a.conn]
    /\ UNCHANGED <<conn, focus, inFlight, lists, cur, shownBy>>
    /\ UNCHANGED disk
    /\ UNCHANGED owesJobs \/ (a.does = "jobs" /\ owesJobs' = owesJobs \ {a.conn})

\* Lists on their way stay so when others are queued behind them.
LEMMA LongerSettles ==
    ASSUME ops \in Seq(OpTypes), ops' \in Seq(OpTypes), Len(ops') >= Len(ops),
           \A i \in 1..Len(ops) : ops'[i] = ops[i],
           NEW kind \in {"scoped", "jobs"}, NEW c \in Conns,
           \A i \in (Len(ops) + 1)..Len(ops') : ~IsFor(ops'[i], kind, c),
           focus'[c] = focus[c], lists'[c] = lists[c],
           cur' = cur \/ (cur' = None /\ (cur # None => ~IsFor(cur.op, kind, c))),
           Settles(kind, c)
    PROVE  Settles(kind, c)'
<1>0. Len(ops) \in Nat /\ Len(ops') \in Nat
  OBVIOUS
<1>1. CASE Coming(kind, c)
  <2>1. PICK i \in 1..Len(ops) : /\ IsFor(ops[i], kind, c) /\ ops[i].session = focus[c]
                                 /\ \A j \in (i + 1)..Len(ops) : ~IsFor(ops[j], kind, c)
    BY <1>1 DEF Coming
  <2>2. i \in 1..Len(ops') /\ ops'[i] = ops[i]
    BY <1>0, <2>1
  <2>3. ASSUME NEW j \in (i + 1)..Len(ops') PROVE ~IsFor(ops'[j], kind, c)
    <3>1. j \in (i + 1)..Len(ops) \/ j \in (Len(ops) + 1)..Len(ops')
      BY <1>0, <2>1, <2>3
    <3>2. j \in (i + 1)..Len(ops) => ops'[j] = ops[j]
      BY <1>0, <2>1, <2>3
    <3> QED BY <2>1, <3>1, <3>2
  <2>4. Coming(kind, c)'
    BY <2>1, <2>2, <2>3 DEF Coming
  <2> QED BY <2>4 DEF Settles
<1>2. CASE There(kind, c)
  <2>1. ASSUME NEW j \in 1..Len(ops') PROVE ~IsFor(ops'[j], kind, c)
    <3>1. j \in 1..Len(ops) \/ j \in (Len(ops) + 1)..Len(ops')
      BY <1>0, <2>1
    <3> QED BY <1>2, <3>1 DEF There
  <2>2. Shown(kind, c)' = Shown(kind, c)
    BY DEF Shown
  <2>3. There(kind, c)'
    BY <1>2, <2>1, <2>2 DEF There
  <2> QED BY <2>3 DEF Settles
<1> QED BY <1>1, <1>2 DEF Settles

\* The newest of its kind counts.
LEMMA LastComes ==
    ASSUME ops' \in Seq(OpTypes), NEW kind, NEW c, NEW n \in 1..Len(ops'), n = Len(ops'),
           IsFor(ops'[n], kind, c), ops'[n].session = focus'[c]
    PROVE  Settles(kind, c)'
<1>1. Len(ops') \in Nat /\ \A j \in (n + 1)..Len(ops') : FALSE
  OBVIOUS
<1> QED BY <1>1 DEF Settles, Coming

LEMMA EnqueueKeeps ==
    ASSUME Inv, NEW a, Enqueues(a), SideTypes'
    PROVE  Inv'
<1>0. /\ Types /\ ClaimedOnlyBySwitch /\ KnownConns /\ ConnectFirst /\ ScopedSettles /\ JobsSettle
      /\ ActiveSettles /\ ReadsAreNew /\ EditsArrive /\ ops \in Seq(OpTypes) /\ a \in OpTypes
      /\ CoreTypes
  BY TypesFacts, TypesSplit DEF Inv, Enqueues, Types
<1>1. /\ ops' \in Seq(OpTypes) /\ Len(ops') = Len(ops) + 1 /\ Len(ops) \in Nat
      /\ \A i \in 1..Len(ops) : ops'[i] = ops[i]
      /\ ops'[Len(ops) + 1] = a
  BY <1>0, AppendFacts DEF Enqueues
<1>2. \A i \in 1..Len(ops') : i \in 1..Len(ops) \/ i = Len(ops')
  BY <1>1
<1>3. /\ UNCHANGED <<conn, focus, inFlight, lists, cur, shownBy, disk>> /\ owesJobs' \subseteq owesJobs
      /\ ops'[Len(ops')] = a /\ Len(ops') \in 1..Len(ops') /\ Len(ops') >= Len(ops)
      /\ \A i \in 1..Len(ops) : i \in 1..Len(ops')
      /\ \A i \in (Len(ops) + 1)..Len(ops') : i = Len(ops')
  BY <1>1 DEF Enqueues
<1>4. Types'
  <2>1. CoreTypes'
    BY <1>0, <1>1, <1>3 DEF CoreTypes
  <2>2. \A i \in 1..Len(ops') : WellAddressed(ops'[i])
    BY <1>0, <1>1, <1>2, <1>3 DEF Types, Enqueues
  <2> QED BY <1>0, <1>3, <2>1, <2>2, TypesAgain DEF Types
<1>5. ClaimedOnlyBySwitch'
  BY <1>0, <1>3 DEF ClaimedOnlyBySwitch, Serving
<1>6. KnownConns'
  BY <1>0, <1>1, <1>2, <1>3 DEF KnownConns, Enqueues, On
<1>7. ConnectFirst'
  <2>1. ASSUME NEW j \in 1..Len(ops'), IsConnect(ops'[j])
        PROVE  /\ j \in 1..Len(ops) /\ ops'[j] = ops[j]
               /\ \A i \in 1..(j - 1) : i \in 1..Len(ops) /\ ops'[i] = ops[i]
    <3>1. j \in 1..Len(ops)
      BY <1>2, <1>3, <2>1 DEF Enqueues
    <3> QED BY <1>1, <3>1
  <2> QED BY <1>0, <1>3, <2>1, SMTT(30) DEF ConnectFirst
<1>8. ASSUME NEW kind \in {"scoped", "jobs"}, NEW c \in Conns, Settles(kind, c) \/ IsFor(a, kind, c)
      PROVE  Settles(kind, c)'
  <2>1. CASE IsFor(a, kind, c)
    <3>1. a.session = focus'[c]
      BY <1>3, <2>1 DEF Enqueues, IsFor
    <3> QED BY <1>1, <1>3, <2>1, <3>1, LastComes
  <2>2. CASE ~IsFor(a, kind, c)
    <3>1. \A i \in (Len(ops) + 1)..Len(ops') : ~IsFor(ops'[i], kind, c)
      BY <1>3, <2>2
    <3>2. focus'[c] = focus[c] /\ lists'[c] = lists[c] /\ cur' = cur
      BY <1>3
    <3> QED BY <1>0, <1>1, <1>3, <1>8, <2>2, <3>1, <3>2, LongerSettles
  <2> QED BY <2>1, <2>2
<1>9. ScopedSettles'
  BY <1>0, <1>3, <1>8 DEF ScopedSettles, On, Refreshing, At, Serving
<1>10. JobsSettle'
  <2>1. \A c \in Conns : On(c) /\ c \notin owesJobs' => Settles("jobs", c) \/ IsFor(a, "jobs", c)
    BY <1>0 DEF JobsSettle, Enqueues, IsFor
  <2> QED BY <1>3, <1>8, <2>1 DEF JobsSettle, On
<1>11. ActiveSettles'
  BY <1>0, <1>1, <1>3 DEF ActiveSettles, On, Refreshing, At, Serving
<1>12. ReadsAreNew'
  BY <1>0, <1>3 DEF ReadsAreNew
<1>13. EditsArrive'
  BY <1>0, <1>1, <1>3 DEF EditsArrive, On
<1> QED BY <1>4, <1>5, <1>6, <1>7, <1>9, <1>10, <1>11, <1>12, <1>13 DEF Inv

-----------------------------------------------------------------------------
(* Connections come and go *)

LEMMA InvFacts ==
    ASSUME Inv
    PROVE  /\ Types /\ ClaimedOnlyBySwitch /\ KnownConns /\ ConnectFirst /\ ScopedSettles /\ JobsSettle
           /\ ActiveSettles /\ ReadsAreNew /\ EditsArrive /\ ops \in Seq(OpTypes) /\ CoreTypes
           /\ \A i \in 1..Len(ops) : ops[i] \in OpTypes
           /\ cur # None => cur \in Running /\ cur.op \in OpTypes
           /\ None \notin Conns /\ None \notin Running /\ Len(ops) \in Nat
BY TypesFacts, TypesSplit DEF Inv, Types

LEMMA AddClientKeeps ==
    ASSUME Inv, NEW c \in Conns, NEW s \in Landings, add_client(c, s), SideTypes'
    PROVE  Inv'
<1> DEFINE a == Op(0, c, "connect_list", s)
           b == Op(0, c, "scoped", s)
<1>0. /\ Types /\ ClaimedOnlyBySwitch /\ KnownConns /\ ConnectFirst /\ ScopedSettles /\ JobsSettle
      /\ ActiveSettles /\ ReadsAreNew /\ EditsArrive /\ ops \in Seq(OpTypes) /\ CoreTypes
      /\ None \notin Conns /\ Len(ops) \in Nat
  BY InvFacts
<1>1. s \in Focuses
  BY HubOpsAssumption DEF Focuses
<1>2. /\ a \in OpTypes /\ a.conn = c /\ a.does = "connect_list" /\ a.session = s
      /\ b \in OpTypes /\ b.conn = c /\ b.does = "scoped" /\ b.session = s
  <2>1. 0 \in 0..MaxRequests
    BY HubOpsAssumption
  <2> QED BY <1>1, <2>1, OpIs DEF Kinds
<1>3. /\ conn[c] = "new" /\ conn' = [conn EXCEPT ![c] = "on"] /\ focus' = [focus EXCEPT ![c] = s]
      /\ owesJobs' = owesJobs \union {c} /\ ops' = ops \o <<a, b>>
      /\ UNCHANGED <<inFlight, lists, cur, disk, shownBy>>
  BY DEF add_client, connect_lists
<1> HIDE DEF a, b
<1>4. /\ ops' \in Seq(OpTypes) /\ Len(ops') = Len(ops) + 2
      /\ \A i \in 1..Len(ops) : ops'[i] = ops[i]
      /\ ops'[Len(ops) + 1] = a /\ ops'[Len(ops) + 2] = b
  BY <1>0, <1>2, <1>3, ConcatTwo
<1>5. /\ \A i \in 1..Len(ops') : i \in 1..Len(ops) \/ i = Len(ops) + 1 \/ i = Len(ops) + 2
      /\ Len(ops) + 1 \in 1..Len(ops') /\ Len(ops) + 2 \in 1..Len(ops') /\ Len(ops) + 2 = Len(ops')
      /\ Len(ops') >= Len(ops)
      /\ \A i \in 1..Len(ops) : i \in 1..Len(ops')
      /\ \A i \in (Len(ops) + 1)..Len(ops') : i = Len(ops) + 1 \/ i = Len(ops) + 2
  BY <1>0, <1>4
<1>6. /\ conn'[c] = "on" /\ focus'[c] = s
      /\ \A d \in Conns : d # c => conn'[d] = conn[d] /\ focus'[d] = focus[d]
  BY <1>0, <1>3 DEF CoreTypes
<1>7. /\ \A i \in 1..Len(ops) : ops[i].conn # c
      /\ cur # None => cur.op.conn # c
  BY <1>0, <1>3 DEF KnownConns
<1>8. Types'
  <2>1. CoreTypes'
    <3>1. conn' \in [Conns -> {"new", "on", "gone"}] /\ focus' \in [Conns -> Focuses]
      BY <1>0, <1>1, <1>3 DEF CoreTypes
    <3> QED BY <1>0, <1>3, <1>4, <3>1 DEF CoreTypes
  <2>2. \A i \in 1..Len(ops') : WellAddressed(ops'[i])
    BY <1>0, <1>2, <1>4, <1>5 DEF Types, WellAddressed
  <2> QED BY <1>0, <1>3, <2>1, <2>2, TypesAgain DEF Types
<1>9. ClaimedOnlyBySwitch'
  BY <1>0, <1>3 DEF ClaimedOnlyBySwitch, Serving
<1>10. KnownConns'
  <2>1. ASSUME NEW i \in 1..Len(ops'), ops'[i].conn # None PROVE conn'[ops'[i].conn] # "new"
    <3>1. CASE i \in 1..Len(ops)
      <4>1. ops[i] \in OpTypes /\ ops[i].conn \in Conns
        BY <1>0, <1>4, <2>1, <3>1, InvFacts, TypesFacts
      <4> QED BY <1>0, <1>4, <1>6, <1>7, <2>1, <3>1, <4>1 DEF KnownConns
    <3>2. CASE i \notin 1..Len(ops)
      BY <1>2, <1>4, <1>5, <1>6, <3>2
    <3> QED BY <3>1, <3>2
  <2>2. cur' # None /\ cur'.op.conn # None => conn'[cur'.op.conn] # "new"
    <3>1. cur # None /\ cur.op.conn # None => cur.op.conn \in Conns
      BY <1>0, InvFacts, TypesFacts
    <3> QED BY <1>0, <1>3, <1>6, <1>7, <3>1 DEF KnownConns
  <2> QED BY <2>1, <2>2 DEF KnownConns
<1>11. ConnectFirst'
  <2>1. ASSUME NEW j \in 1..Len(ops'), IsConnect(ops'[j])
        PROVE  /\ ops'[j].session = focus'[ops'[j].conn]
               /\ \A i \in 1..(j - 1) : ops'[i].conn # ops'[j].conn
               /\ cur' # None => cur'.op.conn # ops'[j].conn
    <3>1. CASE j \in 1..Len(ops)
      <4>1. ops'[j] = ops[j] /\ \A i \in 1..(j - 1) : ops'[i] = ops[i] /\ i \in 1..Len(ops)
        BY <1>0, <1>4, <3>1
      <4>2. ops[j].conn \in Conns /\ ops[j].conn # c
        <5>1. ops[j] \in OpTypes /\ WellAddressed(ops[j])
          BY <1>0, <3>1, InvFacts DEF Types
        <5>2. ops[j].conn \in Conns
          BY <1>0, <2>1, <4>1, <5>1, TypesFacts DEF WellAddressed, IsConnect
        <5> QED BY <1>7, <3>1, <5>2
      <4> QED BY <1>0, <1>3, <1>6, <2>1, <3>1, <4>1, <4>2 DEF ConnectFirst
    <3>2. CASE j = Len(ops) + 1
      <4>1. \A i \in 1..(j - 1) : i \in 1..Len(ops) /\ ops'[i] = ops[i]
        BY <1>0, <1>4, <3>2
      <4> QED BY <1>2, <1>3, <1>4, <1>6, <1>7, <3>2, <4>1
    <3>3. CASE j = Len(ops) + 2
      BY <1>2, <1>4, <2>1, <3>3 DEF IsConnect
    <3> QED BY <1>5, <3>1, <3>2, <3>3
  <2>2. cur' # None /\ IsConnect(cur'.op) => cur'.op.session = focus'[cur'.op.conn]
    <3>1. cur # None /\ IsConnect(cur.op) => cur.op.conn \in Conns
      BY <1>0, InvFacts, TypesFacts DEF Types, WellAddressed, IsConnect
    <3> QED BY <1>0, <1>3, <1>6, <1>7, <3>1 DEF ConnectFirst
  <2> QED BY <2>1, <2>2 DEF ConnectFirst
<1>12. ASSUME NEW kind \in {"scoped", "jobs"}, NEW d \in Conns, d # c, Settles(kind, d)
       PROVE  Settles(kind, d)'
  <2>1. \A i \in (Len(ops) + 1)..Len(ops') : ~IsFor(ops'[i], kind, d)
    BY <1>2, <1>4, <1>5, <1>12 DEF IsFor
  <2>2. focus'[d] = focus[d] /\ lists'[d] = lists[d] /\ cur' = cur
    BY <1>3, <1>6, <1>12
  <2> QED BY <1>0, <1>4, <1>5, <1>12, <2>1, <2>2, LongerSettles
<1>13. ScopedSettles'
  <2>1. Settles("scoped", c)'
    <3>1. Len(ops') \in 1..Len(ops') /\ IsFor(ops'[Len(ops')], "scoped", c) /\ ops'[Len(ops')].session = focus'[c]
      BY <1>2, <1>4, <1>5, <1>6 DEF IsFor
    <3> QED BY <1>4, <3>1, LastComes
  <2>2. ~Refreshing(c)' /\ \A d : Refreshing(d)' <=> Refreshing(d)
    BY <1>3, <1>7 DEF Refreshing, At, Serving
  <2>3. ASSUME NEW d \in Conns, d # c, On(d)'
        PROVE  IF Refreshing(d)' THEN cur'.op.session = focus'[d] ELSE Settles("scoped", d)'
    <3>1. On(d) /\ focus'[d] = focus[d]
      BY <1>6, <2>3 DEF On
    <3>2. CASE Refreshing(d)
      BY <1>0, <1>3, <2>2, <3>1, <3>2 DEF ScopedSettles
    <3>3. CASE ~Refreshing(d)
      <4>1. Settles("scoped", d)
        BY <1>0, <3>1, <3>3 DEF ScopedSettles
      <4> QED BY <1>12, <2>2, <2>3, <3>3, <4>1
    <3> QED BY <3>2, <3>3
  <2> QED BY <2>1, <2>2, <2>3 DEF ScopedSettles
<1>14. JobsSettle'
  BY <1>0, <1>3, <1>6, <1>12 DEF JobsSettle, On
<1>15. ActiveSettles'
  <2>1. \A d : Refreshing(d)' <=> Refreshing(d)
    BY <1>3 DEF Refreshing, At, Serving
  <2>2. \E i \in 1..Len(ops') : MarksFocus(ops'[i], c)
    BY <1>2, <1>4, <1>5 DEF MarksFocus, IsFor
  <2>3. ASSUME NEW d \in Conns, d # c, On(d)'
        PROVE  \/ lists'[d].active = focus'[d] \/ Refreshing(d)'
               \/ \E i \in 1..Len(ops') : MarksFocus(ops'[i], d)
               \/ cur' # None /\ MarksFocus(cur'.op, d)
    <3>1. On(d) /\ focus'[d] = focus[d]
      BY <1>6, <2>3 DEF On
    <3>2. \A i \in 1..Len(ops) : MarksFocus(ops[i], d) => MarksFocus(ops'[i], d)
      BY <1>4
    <3> QED BY <1>0, <1>3, <1>5, <2>1, <3>1, <3>2 DEF ActiveSettles
  <2> QED BY <2>2, <2>3 DEF ActiveSettles
<1>16. ReadsAreNew'
  BY <1>0, <1>3 DEF ReadsAreNew
<1>17. EditsArrive'
  <2>1. \E i \in 1..Len(ops') : IsFor(ops'[i], "connect_list", c)
    BY <1>2, <1>4, <1>5 DEF IsFor
  <2>2. ASSUME NEW d \in Conns, d # c, On(d)'
        PROVE  \/ lists[d].version >= shownBy
               \/ \E i \in 1..Len(ops') : IsFor(ops'[i], "connect_list", d)
               \/ cur # None /\ IsFor(cur.op, "connect_list", d)
    <3>1. On(d)
      BY <1>6, <2>2 DEF On
    <3> QED BY <1>0, <1>4, <1>5, <2>2, <3>1 DEF EditsArrive
  <2> QED BY <1>3, <2>1, <2>2 DEF EditsArrive
<1> QED BY <1>8, <1>9, <1>10, <1>11, <1>13, <1>14, <1>15, <1>16, <1>17 DEF Inv

LEMMA RemoveClientKeeps ==
    ASSUME Inv, NEW c \in Conns, remove_client(c), SideTypes'
    PROVE  Inv'
<1>0. /\ Types /\ ClaimedOnlyBySwitch /\ KnownConns /\ ConnectFirst /\ ScopedSettles /\ JobsSettle
      /\ ActiveSettles /\ ReadsAreNew /\ EditsArrive /\ CoreTypes
  BY InvFacts
<1>1. /\ conn' = [conn EXCEPT ![c] = "gone"] /\ inFlight' = [inFlight EXCEPT ![c] = FALSE]
      /\ owesJobs' = owesJobs \ {c} /\ UNCHANGED <<focus, lists, ops, cur, disk, shownBy>>
  BY DEF remove_client
<1>2. /\ conn'[c] = "gone" /\ ~inFlight'[c]
      /\ \A d \in Conns : d # c => conn'[d] = conn[d] /\ inFlight'[d] = inFlight[d]
  BY <1>0, <1>1 DEF CoreTypes
<1>3. Types'
  <2>1. CoreTypes'
    BY <1>0, <1>1 DEF CoreTypes
  <2> QED BY <1>0, <1>1, <2>1, TypesAgain DEF Types
<1>4. ClaimedOnlyBySwitch'
  BY <1>0, <1>1, <1>2 DEF ClaimedOnlyBySwitch, Serving
<1>5. KnownConns'
  <2>1. \A d : conn'[d] # "new" \/ d \notin Conns \/ conn[d] = "new"
    BY <1>2
  <2>2. /\ \A i \in 1..Len(ops) : ops[i].conn # None => ops[i].conn \in Conns
        /\ cur # None /\ cur.op.conn # None => cur.op.conn \in Conns
    BY <1>0, InvFacts, TypesFacts
  <2> QED BY <1>0, <1>1, <2>1, <2>2 DEF KnownConns
<1>6. ConnectFirst' /\ ReadsAreNew'
  BY <1>0, <1>1 DEF ConnectFirst, ReadsAreNew
<1>7. \A d \in Conns : On(d)' => On(d) /\ d # c
  BY <1>2 DEF On
<1>8. ScopedSettles' /\ ActiveSettles' /\ EditsArrive'
  BY <1>0, <1>1, <1>7 DEF ScopedSettles, ActiveSettles, EditsArrive, Refreshing, At, Serving,
                          Settles, Coming, There, Shown
<1>9. JobsSettle'
  BY <1>0, <1>1, <1>7 DEF JobsSettle, Settles, Coming, There, Shown
<1> QED BY <1>3, <1>4, <1>5, <1>6, <1>8, <1>9 DEF Inv

-----------------------------------------------------------------------------
(* The session directory changes; an operation goes to its next stage *)

LEMMA DiskKeeps ==
    ASSUME Inv, UNCHANGED <<conn, focus, inFlight, lists, owesJobs, ops, cur, shownBy>>,
           disk' \in Nat, disk' >= disk, SideTypes'
    PROVE  Inv'
<1>0. /\ Types /\ ClaimedOnlyBySwitch /\ KnownConns /\ ConnectFirst /\ ScopedSettles /\ JobsSettle
      /\ ActiveSettles /\ ReadsAreNew /\ EditsArrive /\ CoreTypes
      /\ cur # None => cur \in Running /\ cur.op \in OpTypes
  BY InvFacts
<1>1. Types'
  <2>1. CoreTypes'
    BY <1>0 DEF CoreTypes
  <2> QED BY <1>0, <2>1, TypesAgain DEF Types
<1>2. ReadsAreNew'
  <2>1. /\ disk \in Nat /\ disk' \in Nat /\ shownBy \in Nat
        /\ \A c \in Conns : lists[c].version \in Nat
    BY <1>0 DEF CoreTypes
  <2>2. cur # None /\ cur.at = "send" => cur.got \in Nat
    BY <1>0 DEF Types, StageFits
  <2> QED BY <1>0, <2>1, <2>2 DEF ReadsAreNew
<1>3. ClaimedOnlyBySwitch' /\ KnownConns' /\ ConnectFirst' /\ EditsArrive'
  BY <1>0 DEF ClaimedOnlyBySwitch, Serving, KnownConns, ConnectFirst, EditsArrive, On
<1>4. \A kind, c : Settles(kind, c)' <=> Settles(kind, c)
  BY DEF Settles, Coming, There, Shown
<1>5. \A c : (Refreshing(c)' <=> Refreshing(c)) /\ (On(c)' <=> On(c))
  BY DEF Refreshing, At, Serving, On
<1>6. ScopedSettles' /\ JobsSettle' /\ ActiveSettles'
  <2>1. ScopedSettles'
    BY <1>0, <1>4, <1>5 DEF ScopedSettles
  <2>2. JobsSettle'
    BY <1>0, <1>4, <1>5 DEF JobsSettle
  <2>3. ActiveSettles'
    BY <1>0, <1>5 DEF ActiveSettles
  <2> QED BY <2>1, <2>2, <2>3
<1> QED BY <1>1, <1>2, <1>3, <1>6 DEF Inv

\* From the driver's call to the list, and from the list to sending what was read.
LEMMA StageKeeps ==
    ASSUME Inv, cur # None, NEW at, NEW got, cur' = [cur EXCEPT !.at = at, !.got = got],
           \/ cur.op.does \in Edits /\ at = "list" /\ got \in Nat \union {None}
           \/ cur.op.does \in Edits \union Listing /\ at = "send" /\ got = disk,
           UNCHANGED <<conn, focus, inFlight, lists, owesJobs, ops, shownBy>>,
           disk' \in Nat, disk' >= disk, SideTypes'
    PROVE  Inv'
<1>0. /\ Types /\ ClaimedOnlyBySwitch /\ KnownConns /\ ConnectFirst /\ ScopedSettles /\ JobsSettle
      /\ ActiveSettles /\ ReadsAreNew /\ EditsArrive /\ CoreTypes
      /\ cur \in Running /\ cur.op \in OpTypes /\ None \notin Running
  BY InvFacts
<1>1. /\ cur' \in Running /\ cur'.op = cur.op /\ cur'.at = at /\ cur'.got = got /\ cur' # None
  BY <1>0 DEF Running, CoreTypes
<1>2. at # "refresh" /\ cur.at # "refresh" /\ cur.op.does \notin Switches
  BY <1>0 DEF Types, StageFits, Edits, Listing, Switches
<1>3. Types'
  <2>1. CoreTypes'
    BY <1>0, <1>1 DEF CoreTypes
  <2>2. WellAddressed(cur'.op) /\ StageFits(cur')
    BY <1>0, <1>1 DEF Types, StageFits, CoreTypes
  <2> QED BY <1>0, <2>1, <2>2, TypesAgain DEF Types
<1>4. ReadsAreNew'
  <2>1. /\ disk \in Nat /\ disk' \in Nat /\ shownBy \in Nat
        /\ \A c \in Conns : lists[c].version \in Nat
    BY <1>0 DEF CoreTypes
  <2> QED BY <1>0, <1>1, <2>1 DEF ReadsAreNew
<1>5. \A c : ~Refreshing(c) /\ ~Refreshing(c)' /\ (On(c)' <=> On(c))
  BY <1>1, <1>2 DEF Refreshing, At, On
<1>6. ClaimedOnlyBySwitch' /\ KnownConns' /\ ConnectFirst'
  BY <1>0, <1>1 DEF ClaimedOnlyBySwitch, Serving, KnownConns, ConnectFirst
<1>7. ASSUME NEW kind, NEW c \in Conns, Settles(kind, c) PROVE Settles(kind, c)'
  BY <1>1, <1>7 DEF Settles, Coming, There, Shown
<1>8. ScopedSettles' /\ JobsSettle'
  <2>1. ScopedSettles'
    BY <1>0, <1>5, <1>7 DEF ScopedSettles
  <2>2. JobsSettle'
    BY <1>0, <1>5, <1>7 DEF JobsSettle
  <2> QED BY <2>1, <2>2
<1>9. ActiveSettles' /\ EditsArrive'
  <2>1. ActiveSettles'
    BY <1>0, <1>1, <1>5 DEF ActiveSettles
  <2>2. EditsArrive'
    BY <1>0, <1>1, <1>5 DEF EditsArrive
  <2> QED BY <2>1, <2>2
<1> QED BY <1>3, <1>4, <1>6, <1>8, <1>9 DEF Inv

-----------------------------------------------------------------------------
(* An operation ends *)

\* What it sent: everybody's lists are as they were, or right.
Delivers ==
    /\ lists' \in [Conns -> [scoped : Focuses, jobs : Focuses, version : Nat, active : Focuses]]
    /\ \A c \in Conns : On(c) =>
          /\ \A kind \in {"scoped", "jobs"} :
                IF IsFor(cur.op, kind, c) THEN Shown(kind, c)' = cur.op.session
                ELSE Shown(kind, c)' = Shown(kind, c) \/ Shown(kind, c)' = focus[c]
          /\ lists'[c].active = lists[c].active \/ lists'[c].active = focus[c]
          /\ MarksFocus(cur.op, c) => lists'[c].active = focus[c]

\* Its session list: nobody's goes back, and whoever is there has what was served.
Informs ==
    /\ shownBy' \in Nat /\ shownBy' <= disk'
    /\ \A c \in Conns : lists[c].version <= lists'[c].version /\ lists'[c].version <= disk'
    /\ \A c \in Conns : On(c) =>
          \/ lists'[c].version >= shownBy'
          \/ shownBy' = shownBy /\ lists'[c].version = lists[c].version /\ ~IsFor(cur.op, "connect_list", c)

LEMMA EndKeeps ==
    ASSUME Inv, cur # None, cur.at # "refresh", cur' = None, UNCHANGED <<conn, focus, owesJobs, ops>>,
           inFlight' = IF cur.op.does \in Switches THEN release(cur.op.conn) ELSE inFlight,
           Delivers, Informs, disk' \in Nat, SideTypes'
    PROVE  Inv'
<1>0. /\ Types /\ ClaimedOnlyBySwitch /\ KnownConns /\ ConnectFirst /\ ScopedSettles /\ JobsSettle
      /\ ActiveSettles /\ ReadsAreNew /\ EditsArrive /\ CoreTypes
      /\ cur \in Running /\ cur.op \in OpTypes /\ None \notin Running
  BY InvFacts
<1>1. CoreTypes'
  BY <1>0 DEF CoreTypes, Delivers, Informs, release
<1>2. Types'
  BY <1>0, <1>1, TypesAgain DEF Types
<1>3. ClaimedOnlyBySwitch'
  <2>1. \A c \in Conns : ~inFlight'[c]
    BY <1>0 DEF ClaimedOnlyBySwitch, Serving, CoreTypes, release
  <2> QED BY <2>1 DEF ClaimedOnlyBySwitch
<1>4. KnownConns' /\ ConnectFirst'
  BY <1>0 DEF KnownConns, ConnectFirst
<1>5. \A c : ~Refreshing(c) /\ ~Refreshing(c)' /\ (On(c)' <=> On(c))
  BY DEF Refreshing, At, Serving, On
<1>6. ASSUME NEW kind \in {"scoped", "jobs"}, NEW c \in Conns, On(c), Settles(kind, c)
      PROVE  Settles(kind, c)'
  <2>1. CASE Coming(kind, c)
    BY <2>1 DEF Settles, Coming
  <2>2. CASE There(kind, c)
    <3>1. Shown(kind, c)' = focus[c]
      BY <1>6, <2>2 DEF There, Delivers
    <3>2. There(kind, c)'
      BY <2>2, <3>1 DEF There
    <3> QED BY <3>2 DEF Settles
  <2> QED BY <1>6, <2>1, <2>2 DEF Settles
<1>7. ScopedSettles' /\ JobsSettle'
  <2>1. ScopedSettles'
    BY <1>0, <1>5, <1>6 DEF ScopedSettles
  <2>2. JobsSettle'
    BY <1>0, <1>5, <1>6 DEF JobsSettle
  <2> QED BY <2>1, <2>2
<1>8. ActiveSettles'
  BY <1>0, <1>5 DEF ActiveSettles, Delivers
<1>9. ReadsAreNew'
  BY DEF ReadsAreNew, Informs
<1>10. EditsArrive'
  BY <1>0 DEF EditsArrive, On, Informs
<1> QED BY <1>2, <1>3, <1>4, <1>7, <1>8, <1>9, <1>10 DEF Inv

-----------------------------------------------------------------------------
(* A switch moves the focus, then queues the lists *)

LEMMA FinishKeeps ==
    ASSUME Inv, finish_switch, SideTypes'
    PROVE  Inv'
<1>c. PICK c, s : c = cur.op.conn /\ s = cur.op.session
  OBVIOUS
<1>0. /\ Types /\ ClaimedOnlyBySwitch /\ KnownConns /\ ConnectFirst /\ ScopedSettles /\ JobsSettle
      /\ ActiveSettles /\ ReadsAreNew /\ EditsArrive /\ CoreTypes /\ ops \in Seq(OpTypes)
      /\ cur # None => cur \in Running /\ cur.op \in OpTypes
      /\ None \notin Running /\ None \notin Conns
  BY InvFacts
<1>1. /\ cur # None /\ cur.op.does \in Switches /\ cur.at = "call"
      /\ focus' = (IF On(c) THEN [focus EXCEPT ![c] = s] ELSE focus)
      /\ owesJobs' = (IF On(c) THEN owesJobs \union {c} ELSE owesJobs)
      /\ cur' = [cur EXCEPT !.at = "refresh"]
      /\ UNCHANGED <<conn, inFlight, lists, ops, disk, shownBy>>
  BY <1>c DEF finish_switch, At, Serving
<1>2. c \in Conns /\ s \in Focuses
  BY <1>c, <1>0, <1>1, TypesFacts DEF Types, WellAddressed, Switches
<1>3. /\ cur' \in Running /\ cur'.op = cur.op /\ cur'.at = "refresh" /\ cur' # None
  BY <1>0, <1>1 DEF Running
<1>4. /\ cur.op.conn = c /\ cur.op.session = s
      /\ \A kind \in {"scoped", "jobs", "connect_list", "session_list"} : cur.op.does # kind
  BY <1>c, <1>1 DEF Switches
<1>5. /\ \A d \in Conns : d # c => focus'[d] = focus[d]
      /\ On(c) => focus'[c] = s
  BY <1>0, <1>1, <1>2 DEF CoreTypes
<1>6. Types'
  <2>1. CoreTypes'
    BY <1>0, <1>1, <1>2, <1>3 DEF CoreTypes
  <2>2. WellAddressed(cur'.op) /\ StageFits(cur')
    BY <1>0, <1>1, <1>3 DEF Types, StageFits
  <2> QED BY <1>0, <1>1, <2>1, <2>2, TypesAgain DEF Types
<1>7. ClaimedOnlyBySwitch' /\ KnownConns'
  BY <1>0, <1>1, <1>3 DEF ClaimedOnlyBySwitch, Serving, KnownConns
<1>8. ConnectFirst'
  <2>1. ASSUME NEW j \in 1..Len(ops), IsConnect(ops[j])
        PROVE  ops[j].conn \in Conns /\ ops[j].conn # c
    <3>1. ops[j] \in OpTypes /\ WellAddressed(ops[j])
      BY <1>0, <2>1, InvFacts DEF Types
    <3>2. ops[j].conn \in Conns
      BY <1>0, <2>1, <3>1, TypesFacts DEF WellAddressed, IsConnect
    <3> QED BY <1>0, <1>1, <1>4, <2>1, <3>2 DEF ConnectFirst
  <2> QED BY <1>0, <1>1, <1>3, <1>4, <1>5, <2>1 DEF ConnectFirst, IsConnect
<1>9. ASSUME NEW kind \in {"scoped", "jobs"}, NEW d \in Conns, d # c, Settles(kind, d)
      PROVE  Settles(kind, d)'
  <2>1. focus'[d] = focus[d]
    BY <1>5, <1>9
  <2>2. ~IsFor(cur.op, kind, d) /\ ~IsFor(cur'.op, kind, d)
    BY <1>3, <1>4, <1>9 DEF IsFor
  <2>3. CASE Coming(kind, d)
    BY <1>1, <2>1, <2>3 DEF Settles, Coming
  <2>4. CASE There(kind, d)
    <3>1. Shown(kind, d)' = Shown(kind, d) /\ Shown(kind, d) = focus[d]
      BY <1>1, <2>2, <2>4 DEF There, Shown
    <3>2. There(kind, d)'
      BY <1>1, <2>1, <2>2, <2>4, <3>1 DEF There
    <3> QED BY <3>2 DEF Settles
  <2> QED BY <1>9, <2>3, <2>4 DEF Settles
<1>10. On(c) => Refreshing(c)'
  <2>1. cur' # None /\ cur'.op.does \in Switches /\ cur'.at = "refresh" /\ cur'.op.conn = c
    BY <1>1, <1>3, <1>4
  <2> QED BY <2>1 DEF Refreshing, At, Serving
<1>11. \A d : ~Refreshing(d) /\ (d # c => ~Refreshing(d)') /\ (On(d)' <=> On(d))
  BY <1>1, <1>3, <1>4 DEF Refreshing, At, On
<1>12. ScopedSettles'
  <2>1. ASSUME NEW d \in Conns, On(d)', d # c PROVE Settles("scoped", d)'
    BY <1>0, <1>9, <1>11, <2>1 DEF ScopedSettles
  <2>2. On(c) => cur'.op.session = focus'[c]
    BY <1>3, <1>4, <1>5
  <2> QED BY <1>10, <1>11, <2>1, <2>2 DEF ScopedSettles
<1>13. JobsSettle'
  <2>1. \A d \in Conns : On(d)' /\ d \notin owesJobs' => On(d) /\ d # c /\ d \notin owesJobs
    BY <1>1 DEF On
  <2> QED BY <1>0, <1>9, <2>1 DEF JobsSettle
<1>14. ActiveSettles'
  <2>1. ASSUME NEW d \in Conns, d # c, On(d)
        PROVE  lists[d].active = focus'[d] \/ \E i \in 1..Len(ops) : MarksFocus(ops[i], d)
    <3>1. ~MarksFocus(cur.op, d) /\ focus'[d] = focus[d]
      BY <1>4, <1>5, <2>1 DEF MarksFocus, IsFor
    <3> QED BY <1>0, <1>11, <2>1, <3>1 DEF ActiveSettles
  <2> QED BY <1>1, <1>10, <1>11, <2>1 DEF ActiveSettles
<1>15. ReadsAreNew'
  BY <1>0, <1>1, <1>3 DEF ReadsAreNew
<1>16. EditsArrive'
  BY <1>0, <1>1, <1>3 DEF EditsArrive, On
<1> QED BY <1>6, <1>7, <1>8, <1>12, <1>13, <1>14, <1>15, <1>16 DEF Inv

LEMMA RefreshKeeps ==
    ASSUME Inv, refresh_after_switch, SideTypes'
    PROVE  Inv'
<1>c. PICK c, s : c = cur.op.conn /\ s = cur.op.session
  OBVIOUS
<1> DEFINE a == Op(0, None, "session_list", None)
           b == Op(0, c, "scoped", s)
<1>0. /\ Types /\ ClaimedOnlyBySwitch /\ KnownConns /\ ConnectFirst /\ ScopedSettles /\ JobsSettle
      /\ ActiveSettles /\ ReadsAreNew /\ EditsArrive /\ CoreTypes /\ ops \in Seq(OpTypes)
      /\ cur # None => cur \in Running /\ cur.op \in OpTypes
      /\ None \notin Running /\ None \notin Conns /\ Len(ops) \in Nat
  BY InvFacts
<1>1. /\ cur # None /\ cur.op.does \in Switches /\ cur.at = "refresh"
      /\ ops' = ops \o <<a, b>> /\ inFlight' = release(c) /\ cur' = None
      /\ owesJobs \subseteq owesJobs' /\ owesJobs' \subseteq owesJobs \union Conns
      /\ UNCHANGED <<conn, focus, lists, disk, shownBy>>
  BY <1>c DEF refresh_after_switch, switch_lists, At, Serving
<1>2. c \in Conns /\ s \in Focuses /\ None \in Focuses
  BY <1>c, <1>0, <1>1, TypesFacts DEF Types, WellAddressed, Switches, Focuses
<1>3. /\ a \in OpTypes /\ a.conn = None /\ a.does = "session_list" /\ a.session = None
      /\ b \in OpTypes /\ b.conn = c /\ b.does = "scoped" /\ b.session = s
  <2>1. 0 \in 0..MaxRequests
    BY HubOpsAssumption
  <2> QED BY <1>2, <2>1, OpIs DEF Kinds
<1>4. /\ cur.op.conn = c /\ cur.op.session = s
      /\ \A kind \in {"scoped", "jobs", "connect_list", "session_list"} : cur.op.does # kind
      /\ conn[c] # "new"
  BY <1>c, <1>0, <1>1, <1>2 DEF Switches, KnownConns
<1> HIDE DEF a, b
<1>5. /\ ops' \in Seq(OpTypes) /\ Len(ops') = Len(ops) + 2
      /\ \A i \in 1..Len(ops) : ops'[i] = ops[i]
      /\ ops'[Len(ops) + 1] = a /\ ops'[Len(ops) + 2] = b
  BY <1>0, <1>1, <1>3, ConcatTwo
<1>6. /\ \A i \in 1..Len(ops') : i \in 1..Len(ops) \/ i = Len(ops) + 1 \/ i = Len(ops) + 2
      /\ Len(ops) + 1 \in 1..Len(ops') /\ Len(ops) + 2 \in 1..Len(ops') /\ Len(ops) + 2 = Len(ops')
      /\ Len(ops') >= Len(ops)
      /\ \A i \in 1..Len(ops) : i \in 1..Len(ops')
      /\ \A i \in (Len(ops) + 1)..Len(ops') : i = Len(ops) + 1 \/ i = Len(ops) + 2
  BY <1>0, <1>5
<1>7. Types'
  <2>1. CoreTypes'
    <3>1. inFlight' \in [Conns -> BOOLEAN] /\ owesJobs' \subseteq Conns
      BY <1>0, <1>1 DEF CoreTypes, release
    <3> QED BY <1>0, <1>1, <1>5, <3>1 DEF CoreTypes
  <2>2. \A i \in 1..Len(ops') : WellAddressed(ops'[i])
    BY <1>0, <1>2, <1>3, <1>5, <1>6 DEF Types, WellAddressed
  <2> QED BY <1>1, <2>1, <2>2, TypesAgain DEF Types
<1>8. ClaimedOnlyBySwitch'
  <2>1. \A d \in Conns : ~inFlight'[d]
    BY <1>0, <1>1, <1>4 DEF ClaimedOnlyBySwitch, Serving, CoreTypes, release
  <2> QED BY <2>1 DEF ClaimedOnlyBySwitch
<1>9. KnownConns'
  BY <1>0, <1>1, <1>3, <1>4, <1>5, <1>6 DEF KnownConns
<1>10. ConnectFirst'
  <2>1. ASSUME NEW j \in 1..Len(ops'), IsConnect(ops'[j])
        PROVE  /\ j \in 1..Len(ops) /\ ops'[j] = ops[j]
               /\ \A i \in 1..(j - 1) : i \in 1..Len(ops) /\ ops'[i] = ops[i]
    <3>1. j \in 1..Len(ops)
      BY <1>3, <1>5, <1>6, <2>1 DEF IsConnect
    <3> QED BY <1>0, <1>5, <3>1
  <2> QED BY <1>0, <1>1, <2>1 DEF ConnectFirst
<1>11. ASSUME NEW kind \in {"scoped", "jobs"}, NEW d \in Conns, Settles(kind, d), d # c \/ kind = "jobs"
       PROVE  Settles(kind, d)'
  <2>1. \A i \in (Len(ops) + 1)..Len(ops') : ~IsFor(ops'[i], kind, d)
    BY <1>3, <1>5, <1>6, <1>11 DEF IsFor
  <2>2. focus'[d] = focus[d] /\ lists'[d] = lists[d] /\ cur' = None /\ ~IsFor(cur.op, kind, d)
    BY <1>1, <1>4, <1>11 DEF IsFor
  <2> QED BY <1>0, <1>5, <1>6, <1>11, <2>1, <2>2, LongerSettles
<1>12. ScopedSettles'
  <2>1. ASSUME On(c) PROVE Settles("scoped", c)'
    <3>1. Refreshing(c)
      BY <1>1, <1>4 DEF Refreshing, At, Serving
    <3>2. s = focus'[c]
      BY <1>0, <1>1, <1>2, <1>4, <2>1, <3>1 DEF ScopedSettles
    <3>3. Len(ops') \in 1..Len(ops') /\ IsFor(ops'[Len(ops')], "scoped", c) /\ ops'[Len(ops')].session = focus'[c]
      BY <1>3, <1>5, <1>6, <3>2 DEF IsFor
    <3> QED BY <1>5, <3>3, LastComes
  <2>2. \A d \in Conns : d # c => ~Refreshing(d)
    BY <1>4 DEF Refreshing
  <2>3. \A d : ~Refreshing(d)'
    BY <1>1 DEF Refreshing, At, Serving
  <2>4. \A d : On(d)' <=> On(d)
    BY <1>1 DEF On
  <2>5. ASSUME NEW d \in Conns, On(d), d # c PROVE Settles("scoped", d)'
    BY <1>0, <1>11, <2>2, <2>5 DEF ScopedSettles
  <2> QED BY <2>1, <2>3, <2>4, <2>5 DEF ScopedSettles
<1>13. JobsSettle'
  BY <1>0, <1>1, <1>11 DEF JobsSettle, On
<1>14. ActiveSettles'
  BY <1>3, <1>5, <1>6 DEF ActiveSettles, MarksFocus
<1>15. ReadsAreNew'
  BY <1>0, <1>1 DEF ReadsAreNew
<1>16. EditsArrive'
  BY <1>0, <1>1, <1>4, <1>5, <1>6 DEF EditsArrive, On, IsFor
<1> QED BY <1>7, <1>8, <1>9, <1>10, <1>12, <1>13, <1>14, <1>15, <1>16 DEF Inv


-----------------------------------------------------------------------------
(* The applier takes an operation *)

LEMMA TakeKeeps ==
    ASSUME Inv, run_hub_op_applier, SideTypes'
    PROVE  Inv'
<1>a. PICK a : a = Head(ops)
  OBVIOUS
<1>0. /\ Types /\ ClaimedOnlyBySwitch /\ KnownConns /\ ConnectFirst /\ ScopedSettles /\ JobsSettle
      /\ ActiveSettles /\ ReadsAreNew /\ EditsArrive /\ CoreTypes /\ ops \in Seq(OpTypes)
      /\ None \notin Running /\ None \notin Conns
  BY InvFacts
<1>1. /\ cur = None /\ ops # <<>>
      /\ cur' = [op |-> a, at |-> "call", got |-> None] /\ ops' = Tail(ops)
      /\ inFlight' = IF a.does \in Switches /\ On(a.conn) THEN [inFlight EXCEPT ![a.conn] = TRUE]
                     ELSE inFlight
      /\ UNCHANGED <<conn, focus, lists, owesJobs, disk, shownBy>>
  BY <1>a DEF run_hub_op_applier
<1>2. /\ ops' \in Seq(OpTypes) /\ Len(ops') = Len(ops) - 1 /\ Len(ops) \in Nat \ {0} /\ a = ops[1]
      /\ \A i \in 1..Len(ops') : ops'[i] = ops[i + 1]
      /\ a \in OpTypes
  BY <1>a, <1>0, <1>1, TakeFacts
<1>3. /\ 1 \in 1..Len(ops)
      /\ \A i \in 1..Len(ops') : i + 1 \in 1..Len(ops) /\ ops'[i] = ops[i + 1]
      /\ \A i \in 1..Len(ops) : i = 1 \/ (i - 1 \in 1..Len(ops') /\ ops'[i - 1] = ops[i])
  BY <1>2
<1>4. WellAddressed(a) /\ (a.does \in Switches => a.conn \in Conns) /\ (a.conn # None => conn[a.conn] # "new")
  <2>1. WellAddressed(a)
    BY <1>0, <1>2, <1>3 DEF Types
  <2> QED BY <1>0, <1>2, <1>3, <2>1, TypesFacts DEF WellAddressed, Switches, KnownConns
<1>5. cur' \in Running /\ cur' # None /\ cur'.op = a /\ cur'.at = "call"
  BY <1>0, <1>1, <1>2 DEF Running
<1>6. Types'
  <2>1. CoreTypes'
    BY <1>0, <1>1, <1>2, <1>4, <1>5 DEF CoreTypes
  <2>2. \A i \in 1..Len(ops') : WellAddressed(ops'[i])
    BY <1>0, <1>3 DEF Types
  <2>3. StageFits(cur')
    BY <1>5 DEF StageFits
  <2> QED BY <1>4, <1>5, <2>1, <2>2, <2>3, TypesAgain DEF Types
<1>7. ClaimedOnlyBySwitch'
  <2>1. \A c \in Conns : ~inFlight[c]
    BY <1>0, <1>1 DEF ClaimedOnlyBySwitch, Serving
  <2>2. \A c \in Conns : inFlight'[c] => a.does \in Switches /\ a.conn = c
    BY <1>0, <1>1, <2>1 DEF CoreTypes
  <2> QED BY <1>5, <2>2 DEF ClaimedOnlyBySwitch, Serving
<1>8. KnownConns'
  BY <1>0, <1>1, <1>3, <1>4, <1>5 DEF KnownConns
<1>9. ConnectFirst'
  <2>1. ASSUME NEW j \in 1..Len(ops'), IsConnect(ops'[j])
        PROVE  /\ ops'[j].session = focus'[ops'[j].conn]
               /\ \A i \in 1..(j - 1) : ops'[i].conn # ops'[j].conn
               /\ cur'.op.conn # ops'[j].conn
    <3>1. j + 1 \in 1..Len(ops) /\ ops'[j] = ops[j + 1] /\ IsConnect(ops[j + 1])
      BY <1>3, <2>1
    <3>2. /\ ops[j + 1].session = focus[ops[j + 1].conn]
          /\ \A i \in 1..((j + 1) - 1) : ops[i].conn # ops[j + 1].conn
      BY <1>0, <3>1 DEF ConnectFirst
    <3>3. \A i \in 1..(j - 1) : i \in 1..Len(ops') /\ i + 1 \in 1..((j + 1) - 1)
      BY <1>2
    <3>4. 1 \in 1..((j + 1) - 1)
      OBVIOUS
    <3> QED BY <1>1, <1>2, <1>3, <1>5, <3>1, <3>2, <3>3, <3>4
  <2>2. IsConnect(cur'.op) => cur'.op.session = focus'[cur'.op.conn]
    BY <1>0, <1>1, <1>2, <1>3, <1>5 DEF ConnectFirst
  <2> QED BY <2>1, <2>2 DEF ConnectFirst
<1>10. ASSUME NEW kind \in {"scoped", "jobs"}, NEW c \in Conns, Settles(kind, c)
       PROVE  Settles(kind, c)'
  <2>1. CASE Coming(kind, c)
    <3>1. PICK i \in 1..Len(ops) : /\ IsFor(ops[i], kind, c) /\ ops[i].session = focus[c]
                                   /\ \A j \in (i + 1)..Len(ops) : ~IsFor(ops[j], kind, c)
      BY <2>1 DEF Coming
    <3>2. \A j \in 1..Len(ops') : j >= i => j + 1 \in (i + 1)..Len(ops)
      BY <1>2, <3>1
    <3>3. \A j \in 1..Len(ops') : j >= i => ~IsFor(ops'[j], kind, c)
      BY <1>3, <3>1, <3>2
    <3>4. CASE i = 1
      <4>1. \A j \in 1..Len(ops') : ~IsFor(ops'[j], kind, c)
        BY <3>3, <3>4
      <4>2. IsFor(cur'.op, kind, c) /\ cur'.op.session = focus'[c]
        BY <1>1, <1>2, <1>5, <3>1, <3>4
      <4>3. There(kind, c)'
        BY <1>5, <4>1, <4>2 DEF There
      <4> QED BY <4>3 DEF Settles
    <3>5. CASE i # 1
      <4>1. i - 1 \in 1..Len(ops') /\ ops'[i - 1] = ops[i]
        BY <1>3, <3>1, <3>5
      <4>2. \A j \in ((i - 1) + 1)..Len(ops') : j \in 1..Len(ops') /\ j >= i
        BY <1>2, <3>1, <3>5
      <4>3. Coming(kind, c)'
        BY <1>1, <3>1, <3>3, <4>1, <4>2 DEF Coming
      <4> QED BY <4>3 DEF Settles
    <3> QED BY <3>4, <3>5
  <2>2. CASE There(kind, c)
    <3>1. ~IsFor(a, kind, c) /\ \A j \in 1..Len(ops') : ~IsFor(ops'[j], kind, c)
      BY <1>2, <1>3, <2>2 DEF There
    <3>2. Shown(kind, c)' = focus'[c]
      BY <1>1, <2>2 DEF There, Shown
    <3>3. There(kind, c)'
      BY <1>5, <3>1, <3>2 DEF There
    <3> QED BY <3>3 DEF Settles
  <2> QED BY <1>10, <2>1, <2>2 DEF Settles
<1>11. \A c : ~Refreshing(c) /\ ~Refreshing(c)' /\ (On(c)' <=> On(c))
  BY <1>1, <1>5 DEF Refreshing, At, Serving, On
<1>12. ScopedSettles'
  BY <1>0, <1>10, <1>11 DEF ScopedSettles
<1>13. JobsSettle'
  BY <1>0, <1>1, <1>10, <1>11 DEF JobsSettle
<1>14. ActiveSettles'
  BY <1>0, <1>1, <1>2, <1>3, <1>5, <1>11 DEF ActiveSettles
<1>15. ReadsAreNew'
  BY <1>0, <1>1, <1>5 DEF ReadsAreNew
<1>16. EditsArrive'
  BY <1>0, <1>1, <1>2, <1>3, <1>5, <1>11 DEF EditsArrive
<1> QED BY <1>6, <1>7, <1>8, <1>9, <1>12, <1>13, <1>14, <1>15, <1>16 DEF Inv


-----------------------------------------------------------------------------
(* Every step *)

\* Nobody's session list goes back.
Forward == \A c \in Conns : lists'[c].version >= lists[c].version

LEMMA SameForward ==
    ASSUME Inv, UNCHANGED lists
    PROVE  Forward
<1>1. \A c \in Conns : lists[c].version \in Nat
  BY InvFacts DEF CoreTypes
<1> QED BY <1>1 DEF Forward

LEMMA RequestKeeps ==
    ASSUME Inv, NEW c \in Conns, Requests(c) \/ Branch(c), SideTypes'
    PROVE  Inv' /\ Forward
<1>0. Types /\ None \notin Conns /\ asked \in Nat
  BY InvFacts DEF Types, TypeOK
<1>1. CASE Refused(c)
  <2>1. /\ UNCHANGED <<conn, focus, inFlight, lists, owesJobs, ops, cur, shownBy>>
        /\ disk' = disk /\ disk \in Nat
    BY <1>1, InvFacts DEF Refused, clientVars, CoreTypes
  <2>2. disk' \in Nat /\ disk' >= disk
    BY <2>1
  <2> QED BY <2>1, <2>2, DiskKeeps, SameForward
<1>2. CASE ~Refused(c)
  <2>1. PICK does, s : AskedFor(c, does, s) /\ Ask(c, does, s)
    BY <1>0, <1>2, RequestsAsk DEF Branch, Refused
  <2> DEFINE a == Op(asked + 1, c, does, s)
  <2>2. asked + 1 \in 0..MaxRequests
    BY <1>0, <2>1, HubOpsAssumption DEF Ask
  <2>3. /\ a \in OpTypes /\ a.conn = c /\ a.does = does /\ a.session = s
    BY <2>1, <2>2, OpIs DEF AskedFor, Kinds
  <2>4. /\ ops' = Append(ops, a) /\ On(c)
        /\ UNCHANGED <<conn, focus, inFlight, lists, owesJobs, cur, shownBy>>
        /\ UNCHANGED disk
    BY <2>1 DEF Ask, clientVars
  <2>5. does \notin {"jobs", "connect_list"} /\ (does = "scoped" => s = focus[c])
    BY <2>1 DEF AskedFor, Switches, Edits
  <2> HIDE DEF a
  <2>6. Enqueues(a)
    BY <1>0, <2>3, <2>4, <2>5 DEF Enqueues, WellAddressed, IsConnect
  <2> QED BY <2>4, <2>6, EnqueueKeeps, SameForward
<1> QED BY <1>1, <1>2

LEMMA InternalKeeps ==
    ASSUME Inv, SideTypes',
           \/ \E c \in Conns : FetchJobs(c)
           \/ \E s \in Sessions : on_event_SessionUpdated(s)
           \/ enqueue_live_refresh
    PROVE  Inv' /\ Forward
<1>0. None \notin Conns /\ 0 \in 0..MaxRequests /\ None \in Focuses /\ Sessions \subseteq Focuses
  BY InvFacts, HubOpsAssumption DEF Focuses
<1>1. ASSUME NEW c \in Conns, FetchJobs(c)
      PROVE  Inv' /\ Forward
  <2> DEFINE a == Op(0, c, "jobs", focus[c])
  <2>1. focus[c] \in Focuses
    BY InvFacts DEF CoreTypes
  <2>2. a \in OpTypes /\ a.conn = c /\ a.does = "jobs" /\ a.session = focus[c]
    BY <1>0, <2>1, OpIs DEF Kinds
  <2>3. /\ ops' = Append(ops, a) /\ On(c) /\ owesJobs' = owesJobs \ {c}
        /\ UNCHANGED <<conn, focus, inFlight, lists, cur, shownBy>>
        /\ UNCHANGED disk
    BY <1>1 DEF FetchJobs
  <2> HIDE DEF a
  <2>4. Enqueues(a)
    <3>1. /\ WellAddressed(a) /\ ~IsConnect(a) /\ a.does \notin {"scoped"}
          /\ a.conn \in Conns /\ a.session = focus[a.conn] /\ On(a.conn)
      BY <1>0, <2>2, <2>3 DEF WellAddressed, IsConnect
    <3>2. a.does = "jobs" /\ owesJobs' = owesJobs \ {a.conn}
      BY <2>2, <2>3
    <3> QED BY <2>2, <2>3, <3>1, <3>2 DEF Enqueues
  <2> QED BY <2>3, <2>4, EnqueueKeeps, SameForward
<1>2. ASSUME NEW a \in OpTypes, a.conn = None, a.does \in {"jobs_on_update", "session_list"},
             ops' = Append(ops, a),
             UNCHANGED <<conn, focus, inFlight, lists, owesJobs, cur, shownBy, disk>>
      PROVE  Inv' /\ Forward
  <2>1. Enqueues(a)
    BY <1>2 DEF Enqueues, WellAddressed, IsConnect
  <2> QED BY <1>2, <2>1, EnqueueKeeps, SameForward
<1>3. ASSUME NEW s \in Sessions, on_event_SessionUpdated(s)
      PROVE  Inv' /\ Forward
  <2> DEFINE a == Op(0, None, "jobs_on_update", s)
  <2>1. a \in OpTypes /\ a.conn = None /\ a.does = "jobs_on_update"
    BY <1>0, OpIs DEF Kinds
  <2>2. /\ ops' = Append(ops, a)
        /\ UNCHANGED <<conn, focus, inFlight, lists, owesJobs, cur, shownBy, disk>>
    BY <1>3 DEF on_event_SessionUpdated, clientVars
  <2> HIDE DEF a
  <2> QED BY <1>2, <2>1, <2>2
<1>4. CASE enqueue_live_refresh
  <2> DEFINE a == Op(0, None, "session_list", None)
  <2>1. a \in OpTypes /\ a.conn = None /\ a.does = "session_list"
    <3>1. "session_list" \in Kinds /\ None \in Conns \union {None}
      BY DEF Kinds
    <3> QED BY <1>0, <3>1, OpIs
  <2>2. /\ ops' = Append(ops, a)
        /\ UNCHANGED <<conn, focus, inFlight, lists, owesJobs, cur, shownBy, disk>>
    BY <1>4 DEF enqueue_live_refresh, clientVars
  <2> HIDE DEF a
  <2> QED BY <1>2, <2>1, <2>2
<1> QED BY <1>1, <1>3, <1>4

\* The session directory changes under the hub.
LEMMA DaemonKeeps ==
    ASSUME Inv, NEW s \in Sessions, DaemonChanges(s), SideTypes'
    PROVE  Inv' /\ Forward
<1>1. /\ UNCHANGED <<conn, focus, inFlight, lists, owesJobs, ops, cur, shownBy>>
      /\ disk' = disk + 1 /\ disk \in Nat
  BY InvFacts DEF DaemonChanges, clientVars, CoreTypes
<1>2. disk' \in Nat /\ disk' >= disk
  BY <1>1
<1> QED BY <1>1, <1>2, DiskKeeps, SameForward


\* Stages of an edit, and of a list.
LEMMA StagesKeep ==
    ASSUME Inv, SideTypes',
           \/ \E changed \in BOOLEAN : At(Edits, "call") /\ then_list(changed)
           \/ list_sessions
    PROVE  Inv' /\ Forward
<1>0. /\ cur # None => cur \in Running /\ cur.op \in OpTypes
      /\ disk \in Nat
  BY InvFacts DEF CoreTypes
<1>1. ASSUME NEW changed \in BOOLEAN, At(Edits, "call"), then_list(changed)
      PROVE  Inv' /\ Forward
  <2>1. /\ cur # None /\ cur.op.does \in Edits /\ cur' = [cur EXCEPT !.at = "list"]
        /\ UNCHANGED <<conn, focus, inFlight, lists, owesJobs, ops, shownBy>>
        /\ disk' = IF changed THEN disk + 1 ELSE disk
    BY <1>1 DEF At, Serving, then_list, clientVars
  <2>2. disk' \in Nat /\ disk' >= disk
    BY <1>0, <2>1
  <2>3. cur.got \in Nat \union {None} /\ cur' = [cur EXCEPT !.at = "list", !.got = cur.got]
    BY <1>0, <2>1 DEF Running
  <2> QED BY <2>1, <2>2, <2>3, StageKeeps, SameForward
<1>2. CASE list_sessions
  <2>1. /\ cur # None /\ cur.op.does \in Edits \union Listing
        /\ cur' = [cur EXCEPT !.at = "send", !.got = disk]
        /\ UNCHANGED <<conn, focus, inFlight, lists, owesJobs, ops, shownBy, disk>>
    BY <1>2 DEF list_sessions, At, Serving, clientVars
  <2>2. disk' \in Nat /\ disk' >= disk
    BY <1>0, <2>1
  <2> QED BY <2>1, <2>2, StageKeeps, SameForward
<1> QED BY <1>1, <1>2

LEMMA InformsForward ==
    ASSUME Inv, Informs, Delivers
    PROVE  Forward
<1>1. \A c \in Conns : lists[c].version \in Nat /\ lists'[c].version \in Nat
  BY InvFacts DEF CoreTypes, Delivers
<1> QED BY <1>1 DEF Informs, Forward

\* The lists it reads are nobody's.
LEMMA QuietEnd ==
    ASSUME Inv, cur # None, cur.op.does \notin {"scoped", "jobs", "connect_list", "session_list"},
           UNCHANGED <<lists, shownBy>>, disk' \in Nat, disk' >= disk
    PROVE  Delivers /\ Informs
<1>0. CoreTypes /\ ReadsAreNew /\ EditsArrive
  BY InvFacts
<1>1. Delivers
  BY <1>0 DEF CoreTypes, Delivers, IsFor, MarksFocus, Shown
<1>2. Informs
  <2>1. /\ disk \in Nat /\ shownBy \in Nat /\ shownBy <= disk
        /\ \A c \in Conns : lists[c].version \in Nat /\ lists[c].version <= disk
    BY <1>0 DEF CoreTypes, ReadsAreNew
  <2>2. \A c : ~IsFor(cur.op, "connect_list", c)
    BY DEF IsFor
  <2> QED BY <2>1, <2>2 DEF Informs
<1> QED BY <1>1, <1>2

LEMMA QuietEndsKeep ==
    ASSUME Inv, SideTypes',
           \/ switch_fails \/ reply
           \/ \E changed \in BOOLEAN : At(Edits, "call") /\ no_list(changed)
    PROVE  Inv' /\ Forward
<1>0. disk \in Nat
  BY InvFacts DEF CoreTypes
<1>1. /\ cur # None /\ cur.at = "call" /\ cur' = None
      /\ cur.op.does \notin {"scoped", "jobs", "connect_list", "session_list"}
      /\ inFlight' = IF cur.op.does \in Switches THEN release(cur.op.conn) ELSE inFlight
      /\ UNCHANGED <<conn, focus, lists, owesJobs, ops, shownBy>>
  BY DEF switch_fails, reply, no_list, At, Serving, clientVars, Switches, Edits
<1>2. disk' \in Nat /\ disk' >= disk
  <2>1. disk' \in {disk, disk + 1}
    BY DEF switch_fails, reply, no_list
  <2> QED BY <1>0, <2>1
<1>3. Delivers /\ Informs
  BY <1>1, <1>2, QuietEnd
<1> QED BY <1>1, <1>2, <1>3, EndKeeps, InformsForward

\* What a client has been shown, and what it becomes when one list is sent again.
ShownLists == [scoped : Focuses, jobs : Focuses, version : Nat, active : Focuses]

LEMMA ListedAgain ==
    ASSUME NEW l \in ShownLists, NEW x \in Focuses
    PROVE  /\ [l EXCEPT !.jobs = x] \in ShownLists /\ [l EXCEPT !.scoped = x] \in ShownLists
           /\ [l EXCEPT !.jobs = x].jobs = x /\ [l EXCEPT !.jobs = x].scoped = l.scoped
           /\ [l EXCEPT !.scoped = x].scoped = x /\ [l EXCEPT !.scoped = x].jobs = l.jobs
           /\ [l EXCEPT !.jobs = x].version = l.version /\ [l EXCEPT !.scoped = x].version = l.version
           /\ [l EXCEPT !.jobs = x].active = l.active /\ [l EXCEPT !.scoped = x].active = l.active
BY DEF ShownLists

LEMMA BroadcastKeeps ==
    ASSUME Inv, SideTypes', broadcast_session_list
    PROVE  Inv' /\ Forward
<1>0. Types /\ CoreTypes /\ ReadsAreNew /\ EditsArrive /\ cur # None
  BY InvFacts DEF broadcast_session_list, At, Serving
<1>1. /\ cur.at = "send" /\ cur' = None /\ cur.op.does \in Edits \union {"session_list"}
      /\ shownBy' = (IF cur.op.does \in Edits THEN cur.got ELSE shownBy)
      /\ lists' = [c \in Conns |-> IF On(c) THEN [lists[c] EXCEPT !.version = cur.got, !.active = focus[c]]
                                   ELSE lists[c]]
      /\ UNCHANGED <<conn, focus, inFlight, owesJobs, ops, disk>>
  BY DEF broadcast_session_list, broadcast_session_list_with, At, Serving
<1>2. /\ disk \in Nat /\ shownBy \in Nat /\ cur.got \in Nat
      /\ cur.got <= disk /\ shownBy <= cur.got
      /\ \A c \in Conns : lists[c].version \in Nat /\ lists[c].version <= cur.got
  BY <1>0, <1>1 DEF Types, StageFits, CoreTypes, ReadsAreNew
<1>3. cur.op.does \notin Switches /\ \A kind \in {"scoped", "jobs", "connect_list"} : cur.op.does # kind
  BY <1>1 DEF Edits, Switches
<1>4. /\ lists' \in [Conns -> [scoped : Focuses, jobs : Focuses, version : Nat, active : Focuses]]
      /\ \A c \in Conns :
           /\ lists'[c].scoped = lists[c].scoped /\ lists'[c].jobs = lists[c].jobs
           /\ On(c) => lists'[c].version = cur.got /\ lists'[c].active = focus[c]
           /\ ~On(c) => lists'[c] = lists[c]
  <2>1. lists \in [Conns -> ShownLists] /\ focus \in [Conns -> Focuses]
    BY <1>0 DEF CoreTypes, ShownLists
  <2>2. ASSUME NEW c \in Conns
        PROVE  /\ lists'[c] \in ShownLists
               /\ lists'[c].scoped = lists[c].scoped /\ lists'[c].jobs = lists[c].jobs
               /\ On(c) => lists'[c].version = cur.got /\ lists'[c].active = focus[c]
               /\ ~On(c) => lists'[c] = lists[c]
    <3>1. lists[c] \in ShownLists /\ focus[c] \in Focuses
      BY <2>1
    <3>2. CASE On(c)
      <4>0. PICK old \in ShownLists, n \in Nat, x \in Focuses :
               old = lists[c] /\ n = cur.got /\ x = focus[c]
        BY <1>2, <3>1
      <4>1. PICK l : l = [old EXCEPT !.version = n, !.active = x]
        OBVIOUS
      <4>2. lists'[c] = l
        BY <1>1, <3>2, <4>0, <4>1
      <4>3. /\ l \in ShownLists /\ l.version = cur.got /\ l.active = focus[c]
            /\ l.scoped = lists[c].scoped /\ l.jobs = lists[c].jobs
        <5>1. /\ l \in ShownLists /\ l.version = n /\ l.active = x
              /\ l.scoped = old.scoped /\ l.jobs = old.jobs
          BY <4>0, <4>1 DEF ShownLists
        <5> QED BY <4>0, <5>1
      <4> QED BY <3>2, <4>2, <4>3
    <3>3. CASE ~On(c)
      <4>1. lists'[c] = lists[c]
        BY <1>1, <3>3
      <4> QED BY <3>1, <3>3, <4>1
    <3> QED BY <3>2, <3>3
  <2>3. lists' \in [Conns -> ShownLists]
    BY <1>1, <2>2
  <2> QED BY <2>2, <2>3 DEF ShownLists
<1>5. Delivers
  BY <1>1, <1>3, <1>4 DEF Delivers, IsFor, Shown
<1>6. Informs
  <2>0. PICK got \in Nat : got = cur.got
    BY <1>2
  <2>1. shownBy' \in Nat /\ shownBy' <= got /\ shownBy' <= disk'
    <3>1. shownBy' \in {got, shownBy} /\ disk' = disk
      BY <1>1, <2>0
    <3> QED BY <1>2, <2>0, <3>1
  <2>2. ASSUME NEW c \in Conns
        PROVE  /\ lists[c].version <= lists'[c].version /\ lists'[c].version <= disk'
               /\ On(c) => lists'[c].version >= shownBy'
    <3>1. disk' = disk /\ (~On(c) => lists'[c].version = lists[c].version)
          /\ (On(c) => lists'[c].version = got)
      BY <1>1, <1>4, <2>0
    <3>2. /\ disk \in Nat /\ got <= disk /\ lists[c].version \in Nat /\ lists[c].version <= got
      BY <1>2, <2>0
    <3> QED BY <2>1, <3>1, <3>2
  <2> QED BY <2>1, <2>2 DEF Informs
<1> QED BY <1>0, <1>1, <1>2, <1>3, <1>5, <1>6, EndKeeps, InformsForward


LEMMA SendConnectKeeps ==
    ASSUME Inv, SideTypes', send_connect_list
    PROVE  Inv' /\ Forward
<1>c. PICK c, s : c = cur.op.conn /\ s = cur.op.session
  OBVIOUS
<1>0. /\ Types /\ CoreTypes /\ ReadsAreNew /\ EditsArrive /\ ConnectFirst /\ cur # None /\ None \notin Conns
      /\ cur.op \in OpTypes /\ cur.op.does = "connect_list" /\ WellAddressed(cur.op)
  BY InvFacts DEF send_connect_list, At, Serving, Types
<1>1. /\ cur.at = "send" /\ cur' = None
      /\ lists' = IF On(c) THEN [lists EXCEPT ![c].version = cur.got, ![c].active = s] ELSE lists
      /\ UNCHANGED <<conn, focus, inFlight, owesJobs, ops, disk, shownBy>>
  BY <1>c DEF send_connect_list, At, Serving
<1>2. c \in Conns /\ s \in Focuses /\ s = focus[c]
  BY <1>c, <1>0, TypesFacts DEF WellAddressed, ConnectFirst, IsConnect
<1>3. PICK got \in Nat : got = cur.got
  BY <1>0, <1>1 DEF Types, StageFits
<1>4. /\ disk \in Nat /\ shownBy \in Nat /\ got <= disk /\ shownBy <= got /\ shownBy <= disk
      /\ \A d \in Conns : lists[d].version \in Nat /\ lists[d].version <= got
  BY <1>0, <1>1, <1>3 DEF CoreTypes, ReadsAreNew
<1>5. /\ lists' \in [Conns -> [scoped : Focuses, jobs : Focuses, version : Nat, active : Focuses]]
      /\ \A d \in Conns :
           /\ lists'[d].scoped = lists[d].scoped /\ lists'[d].jobs = lists[d].jobs
           /\ d # c => lists'[d] = lists[d]
           /\ ~On(d) => lists'[d] = lists[d]
      /\ On(c) => lists'[c].version = got /\ lists'[c].active = focus[c]
  BY <1>0, <1>1, <1>2, <1>3 DEF CoreTypes
<1>6. /\ cur.op.does \notin Switches
      /\ \A d : IsFor(cur.op, "connect_list", d) <=> d = c
      /\ \A d : ~IsFor(cur.op, "scoped", d) /\ ~IsFor(cur.op, "jobs", d)
      /\ \A d : MarksFocus(cur.op, d) <=> d = c
  BY <1>c, <1>0 DEF Switches, IsFor, MarksFocus
<1>7. Delivers
  <2>1. \A d \in Conns, kind \in {"scoped", "jobs"} : Shown(kind, d)' = Shown(kind, d)
    BY <1>5 DEF Shown
  <2> QED BY <1>5, <1>6, <2>1 DEF Delivers
<1>8. Informs
  <2>1. disk' = disk /\ shownBy' = shownBy
    BY <1>1
  <2>2. ASSUME NEW d \in Conns
        PROVE  /\ lists[d].version <= lists'[d].version /\ lists'[d].version <= disk'
               /\ On(d) => \/ lists'[d].version >= shownBy'
                           \/ lists'[d].version = lists[d].version /\ ~IsFor(cur.op, "connect_list", d)
    <3>1. lists'[d].version = lists[d].version \/ (d = c /\ lists'[d].version = got)
      BY <1>5
    <3>2. On(d) /\ d = c => lists'[d].version = got
      BY <1>5
    <3>3. lists'[d].version \in Nat /\ lists[d].version \in Nat /\ lists[d].version <= got
      BY <1>4, <3>1
    <3>4. lists[d].version <= lists'[d].version /\ lists'[d].version <= disk
      BY <1>4, <3>1, <3>3
    <3>5. lists'[d].version = got => lists'[d].version >= shownBy
      BY <1>4
    <3>6. On(d) => \/ lists'[d].version = got
                   \/ lists'[d].version = lists[d].version /\ ~IsFor(cur.op, "connect_list", d)
      BY <1>6, <3>1, <3>2
    <3> QED BY <2>1, <3>4, <3>5, <3>6
  <2>3. shownBy' \in Nat /\ shownBy' <= disk'
    BY <1>4, <2>1
  <2> QED BY <2>1, <2>2, <2>3 DEF Informs
<1> QED BY <1>0, <1>1, <1>4, <1>6, <1>7, <1>8, EndKeeps, InformsForward

\* Lists that are not the session list.
LEMMA ScopedInforms ==
    ASSUME Inv, cur # None, UNCHANGED <<disk, shownBy>>, \A d : ~IsFor(cur.op, "connect_list", d),
           \A d \in Conns : lists'[d].version = lists[d].version
    PROVE  Informs
<1>1. /\ disk \in Nat /\ shownBy \in Nat /\ shownBy <= disk
      /\ \A d \in Conns : lists[d].version \in Nat /\ lists[d].version <= disk
  BY InvFacts DEF CoreTypes, ReadsAreNew
<1> QED BY <1>1 DEF Informs

LEMMA SendScopedKeeps ==
    ASSUME Inv, SideTypes', send_scoped
    PROVE  Inv' /\ Forward
<1>c. PICK c, s : c = cur.op.conn /\ s = cur.op.session
  OBVIOUS
<1>0. /\ Types /\ CoreTypes /\ cur # None /\ None \notin Conns /\ disk \in Nat
      /\ cur.op \in OpTypes /\ cur.op.does \in {"scoped", "jobs"} /\ WellAddressed(cur.op)
  BY InvFacts DEF send_scoped, At, Serving, Types, CoreTypes
<1>1. /\ cur.at = "call" /\ cur' = None
      /\ lists' = IF ~On(c) THEN lists
                  ELSE IF cur.op.does = "jobs" THEN [lists EXCEPT ![c].jobs = s]
                  ELSE [lists EXCEPT ![c].scoped = s]
      /\ UNCHANGED <<conn, focus, inFlight, owesJobs, ops, disk, shownBy>>
  BY <1>c DEF send_scoped, At, Serving
<1>2. c \in Conns /\ s \in Focuses
  BY <1>c, <1>0, TypesFacts DEF WellAddressed
<1>3. /\ cur.op.does \notin Switches
      /\ \A d : ~IsFor(cur.op, "connect_list", d) /\ ~MarksFocus(cur.op, d)
      /\ \A kind, d : IsFor(cur.op, kind, d) <=> d = c /\ cur.op.does = kind
  BY <1>c, <1>0 DEF Switches, IsFor, MarksFocus
<1>4. /\ lists' \in [Conns -> [scoped : Focuses, jobs : Focuses, version : Nat, active : Focuses]]
      /\ \A d \in Conns : lists'[d].version = lists[d].version /\ lists'[d].active = lists[d].active
      /\ \A d \in Conns : d # c => lists'[d] = lists[d]
      /\ On(c) /\ cur.op.does = "jobs" => lists'[c].jobs = s /\ lists'[c].scoped = lists[c].scoped
      /\ On(c) /\ cur.op.does = "scoped" => lists'[c].scoped = s /\ lists'[c].jobs = lists[c].jobs
  <2>1. lists \in [Conns -> ShownLists] /\ lists[c] \in ShownLists
    BY <1>0, <1>2 DEF CoreTypes, ShownLists
  <2>2. CASE ~On(c)
    <3>1. lists' = lists
      BY <1>1, <2>2
    <3> QED BY <2>1, <2>2, <3>1 DEF ShownLists
  <2>3. CASE On(c)
    <3>1. PICK l : l = IF cur.op.does = "jobs" THEN [lists[c] EXCEPT !.jobs = s]
                       ELSE [lists[c] EXCEPT !.scoped = s]
      OBVIOUS
    <3>2. lists' = [lists EXCEPT ![c] = l]
      BY <1>1, <2>3, <3>1
    <3>3. /\ l \in ShownLists /\ l.version = lists[c].version /\ l.active = lists[c].active
          /\ cur.op.does = "jobs" => l.jobs = s /\ l.scoped = lists[c].scoped
          /\ cur.op.does # "jobs" => l.scoped = s /\ l.jobs = lists[c].jobs
      BY <1>2, <2>1, <3>1, ListedAgain
    <3>4. lists'[c] = l /\ \A d \in Conns : d # c => lists'[d] = lists[d]
      BY <1>2, <2>1, <3>2
    <3>5. lists' \in [Conns -> ShownLists]
      BY <2>1, <3>2, <3>3
    <3> QED BY <1>2, <3>3, <3>4, <3>5 DEF ShownLists
  <2> QED BY <2>2, <2>3
<1>5. Delivers
  <2>1. ASSUME NEW d \in Conns, On(d), NEW kind \in {"scoped", "jobs"}
        PROVE  IF IsFor(cur.op, kind, d) THEN Shown(kind, d)' = s ELSE Shown(kind, d)' = Shown(kind, d)
    <3>1. CASE d = c
      <4>1. IsFor(cur.op, kind, d) <=> cur.op.does = kind
        BY <1>3, <2>1, <3>1
      <4>2. CASE cur.op.does = "jobs"
        <5>1. lists'[d].jobs = s /\ lists'[d].scoped = lists[d].scoped
          BY <1>4, <2>1, <3>1, <4>2
        <5> QED BY <2>1, <4>1, <4>2, <5>1 DEF Shown
      <4>3. CASE cur.op.does = "scoped"
        <5>1. lists'[d].scoped = s /\ lists'[d].jobs = lists[d].jobs
          BY <1>4, <2>1, <3>1, <4>3
        <5> QED BY <2>1, <4>1, <4>3, <5>1 DEF Shown
      <4> QED BY <1>0, <4>2, <4>3
    <3>2. CASE d # c
      BY <1>3, <1>4, <2>1, <3>2 DEF Shown
    <3> QED BY <3>1, <3>2
  <2> QED BY <1>c, <1>3, <1>4, <2>1 DEF Delivers
<1>6. Informs
  BY <1>0, <1>1, <1>3, <1>4, ScopedInforms
<1> QED BY <1>0, <1>1, <1>3, <1>5, <1>6, EndKeeps, InformsForward

LEMMA FetchOnUpdateKeeps ==
    ASSUME Inv, SideTypes', fetch_jobs_on_update
    PROVE  Inv' /\ Forward
<1>c. PICK s : s = cur.op.session
  OBVIOUS
<1>0. /\ Types /\ CoreTypes /\ cur # None /\ disk \in Nat
      /\ cur.op \in OpTypes /\ cur.op.does = "jobs_on_update"
  BY InvFacts DEF fetch_jobs_on_update, At, Serving, CoreTypes
<1>1. /\ cur.at = "call" /\ cur' = None
      /\ lists' = [c \in Conns |-> IF c \in clients_focused(s) THEN [lists[c] EXCEPT !.jobs = s] ELSE lists[c]]
      /\ UNCHANGED <<conn, focus, inFlight, owesJobs, ops, disk, shownBy>>
  BY <1>c DEF fetch_jobs_on_update, At, Serving
<1>2. s \in Focuses
  BY <1>c, <1>0, TypesFacts
<1>3. /\ cur.op.does \notin Switches
      /\ \A d : ~IsFor(cur.op, "connect_list", d) /\ ~MarksFocus(cur.op, d)
      /\ \A kind \in {"scoped", "jobs"} : \A d : ~IsFor(cur.op, kind, d)
  BY <1>0 DEF Switches, IsFor, MarksFocus
<1>4. /\ lists' \in [Conns -> [scoped : Focuses, jobs : Focuses, version : Nat, active : Focuses]]
      /\ \A d \in Conns : /\ lists'[d].version = lists[d].version /\ lists'[d].active = lists[d].active
                          /\ lists'[d].scoped = lists[d].scoped
                          /\ lists'[d].jobs = lists[d].jobs \/ lists'[d].jobs = focus[d]
  BY <1>0, <1>1, <1>2 DEF CoreTypes, clients_focused
<1>5. Delivers
  BY <1>3, <1>4 DEF Delivers, Shown
<1>6. Informs
  BY <1>0, <1>1, <1>3, <1>4, ScopedInforms
<1> QED BY <1>0, <1>1, <1>3, <1>5, <1>6, EndKeeps, InformsForward


LEMMA SwitchForward ==
    ASSUME Inv, finish_switch \/ refresh_after_switch \/ run_hub_op_applier
    PROVE  Forward
BY SameForward DEF finish_switch, refresh_after_switch, run_hub_op_applier

LEMMA StepKeeps ==
    ASSUME Inv, [Next]_vars
    PROVE  Inv' /\ Forward
<1>0. SideTypes'
  BY InvFacts, SideTypesKept
<1>1. ASSUME NEW c \in Conns, NEW s \in Landings, add_client(c, s)
      PROVE  Inv' /\ Forward
  BY <1>0, <1>1, AddClientKeeps, SameForward DEF add_client
<1>2. ASSUME NEW c \in Conns, remove_client(c)
      PROVE  Inv' /\ Forward
  BY <1>0, <1>2, RemoveClientKeeps, SameForward DEF remove_client
<1>3. ASSUME NEW c \in Conns, Requests(c) \/ Branch(c)
      PROVE  Inv' /\ Forward
  BY <1>0, <1>3, RequestKeeps
<1>4. ASSUME \/ \E c \in Conns : FetchJobs(c)
             \/ \E s \in Sessions : on_event_SessionUpdated(s)
             \/ enqueue_live_refresh
      PROVE  Inv' /\ Forward
  BY <1>0, <1>4, InternalKeeps
<1>5. ASSUME NEW s \in Sessions, DaemonChanges(s)
      PROVE  Inv' /\ Forward
  BY <1>0, <1>5, DaemonKeeps
<1>6. CASE Applier
  <2>1. CASE run_hub_op_applier
    BY <1>0, <2>1, TakeKeeps, SwitchForward
  <2>2. CASE finish_switch
    BY <1>0, <2>2, FinishKeeps, SwitchForward
  <2>3. CASE refresh_after_switch
    BY <1>0, <2>3, RefreshKeeps, SwitchForward
  <2>4. CASE set_archived \/ rename_session \/ cleanup_worktree \/ detach_session
    <3>1. \E changed \in BOOLEAN : At(Edits, "call") /\ (then_list(changed) \/ no_list(changed))
      BY <2>4 DEF set_archived, rename_session, cleanup_worktree, detach_session, At, Serving, Edits
    <3> QED BY <1>0, <3>1, StagesKeep, QuietEndsKeep
  <2>5. CASE list_sessions
    BY <1>0, <2>5, StagesKeep
  <2>6. CASE broadcast_session_list
    BY <1>0, <2>6, BroadcastKeeps
  <2>7. CASE send_connect_list
    BY <1>0, <2>7, SendConnectKeeps
  <2>8. CASE send_scoped
    BY <1>0, <2>8, SendScopedKeeps
  <2>9. CASE fetch_jobs_on_update
    BY <1>0, <2>9, FetchOnUpdateKeeps
  <2>10. CASE switch_fails \/ reply
    BY <1>0, <2>10, QuietEndsKeep
  <2> QED BY <1>6, <2>1, <2>2, <2>3, <2>4, <2>5, <2>6, <2>7, <2>8, <2>9, <2>10 DEF Applier
<1>7. CASE UNCHANGED vars
  <2>1. /\ UNCHANGED <<conn, focus, inFlight, lists, owesJobs, ops, cur, shownBy>>
        /\ disk' = disk /\ disk \in Nat
    BY <1>7, InvFacts DEF vars, CoreTypes
  <2>2. disk' \in Nat /\ disk' >= disk
    BY <2>1
  <2> QED BY <1>0, <2>1, <2>2, DiskKeeps, SameForward
<1> QED BY <1>1, <1>2, <1>3, <1>4, <1>5, <1>6, <1>7 DEF Next, Requests

LEMMA InitInv ==
    ASSUME Init
    PROVE  Inv
<1>1. /\ ops = <<>> /\ cur = None /\ shownBy = 0 /\ disk = 1
      /\ \A c \in Conns : ~On(c) /\ ~inFlight[c]
      /\ \A c \in Conns : lists[c].version = 0
  BY DEF Init, On
<1>2. \A i \in 1..Len(ops) : FALSE
  BY <1>1
<1>3. TypeOK
  <2>1. SideTypes
    BY HubOpsAssumption DEF Init, SideTypes
  <2>2. CoreTypes
    BY DEF Init, CoreTypes, Focuses
  <2> QED BY <2>1, <2>2, TypesSplit
<1>4. Types /\ ClaimedOnlyBySwitch /\ KnownConns /\ ConnectFirst
  BY <1>1, <1>2, <1>3 DEF Types, ClaimedOnlyBySwitch, KnownConns, ConnectFirst
<1>5. ScopedSettles /\ JobsSettle /\ ActiveSettles /\ EditsArrive
  BY <1>1 DEF ScopedSettles, JobsSettle, ActiveSettles, EditsArrive
<1>6. ReadsAreNew
  BY <1>1 DEF ReadsAreNew
<1> QED BY <1>4, <1>5, <1>6 DEF Inv

\* With nothing queued and nothing run, what was sent last is what was to be sent.
LEMMA DrainedIsRight ==
    ASSUME Inv
    PROVE  DrainedListsAreRight
<1>0. ClaimedOnlyBySwitch /\ ScopedSettles /\ JobsSettle /\ ActiveSettles /\ EditsArrive
  BY DEF Inv
<1>1. ASSUME Idle, NEW c \in Conns, On(c)
      PROVE  /\ lists[c].scoped = focus[c] /\ lists[c].active = focus[c]
             /\ c \notin owesJobs => lists[c].jobs = focus[c]
             /\ lists[c].version >= shownBy
  <2>1. cur = None /\ ~Refreshing(c) /\ \A i \in 1..Len(ops) : FALSE
    BY <1>1 DEF Idle, Refreshing, At, Serving
  <2>2. \A kind : Settles(kind, c) => Shown(kind, c) = focus[c]
    BY <2>1 DEF Settles, Coming, There
  <2>3. lists[c].scoped = focus[c]
    <3>1. Settles("scoped", c)
      BY <1>0, <1>1, <2>1 DEF ScopedSettles
    <3> QED BY <2>2, <3>1 DEF Shown
  <2>4. c \notin owesJobs => lists[c].jobs = focus[c]
    <3>1. c \notin owesJobs => Settles("jobs", c)
      BY <1>0, <1>1 DEF JobsSettle
    <3> QED BY <2>2, <3>1 DEF Shown
  <2>5. lists[c].active = focus[c]
    BY <1>0, <1>1, <2>1 DEF ActiveSettles
  <2>6. lists[c].version >= shownBy
    BY <1>0, <1>1, <2>1 DEF EditsArrive
  <2> QED BY <2>3, <2>4, <2>5, <2>6
<1> QED BY <1>0, <1>1 DEF DrainedListsAreRight, ListsMatchFocus, EditsAreShown

-----------------------------------------------------------------------------
(* The theorems *)

LEMMA InvHolds == Spec => []Inv
<1>1. Init => Inv
  BY InitInv
<1>2. Inv /\ [Next]_vars => Inv'
  BY StepKeeps
<1> QED BY <1>1, <1>2, PTL DEF Spec

\* Whatever connections ask for while switches and fetches are queued (run_hub_op_applier,
\* finish_switch, refresh_after_switch), a drained queue leaves nobody claimed, every list the
\* one of its connection's focus, and every edit that was served shown to everybody.
THEOREM DrainedListsCorrect == Spec => []DrainedListsAreRight
<1>1. Inv => DrainedListsAreRight
  BY DrainedIsRight
<1> QED BY <1>1, InvHolds, PTL

\* The session directory is read without the hub's lock (list_sessions), and yet no connection
\* is sent a session list older than the one it has (broadcast_session_list).
THEOREM ListsNeverGoBackCorrect == Spec => ListsNeverGoBack
<1>1. Inv /\ [Next]_vars => [\A c \in Conns : lists'[c].version >= lists[c].version]_vars
  BY StepKeeps DEF Forward
<1>2. Spec => [][Next]_vars
  BY PTL DEF Spec
<1> QED BY <1>1, <1>2, InvHolds, PTL DEF ListsNeverGoBack

-----------------------------------------------------------------------------
(* The queue serves its requests in the order they were made: every step of HubOps is one of *)
(* OpService, or changes nothing there.                                                     *)

\* A switch is a request for a session; what follows a connect or an event is nobody's request.
FitsKind(op) ==
    /\ op.does \in Switches => op.n # 0 /\ op.session \in Sessions /\ op.conn \in Conns
    /\ op.does \in {"connect_list", "jobs_on_update"} => op.n = 0

\* What is queued is not served yet; what runs is not either, but a switch that only has
\* its refreshes left to queue.
Numbered ==
    /\ \A i \in 1..Len(ops) : FitsKind(ops[i]) /\ ops[i].n <= asked /\ ops[i].n \notin served
    /\ \A n \in served : n <= asked
    /\ cur # None => /\ FitsKind(cur.op) /\ cur.op.n <= asked
                     /\ IF cur.at = "refresh" THEN cur.op.n \in served ELSE cur.op.n \notin served

Before(a, b) == a.n # 0 /\ b.n # 0 => a.n < b.n

Rising ==
    /\ \A i, j \in 1..Len(ops) : i < j => Before(ops[i], ops[j])
    /\ cur # None => \A i \in 1..Len(ops) : Before(cur.op, ops[i])

InOrder == Numbered /\ Rising

LEMMA NumberFacts ==
    ASSUME Types
    PROVE  /\ asked \in Nat /\ served \subseteq Nat \ {0} /\ None \notin Running
           /\ \A i \in 1..Len(ops) : ops[i].n \in Nat
           /\ cur # None => cur.op.n \in Nat
<1>1. \A n \in 0..MaxRequests : n \in Nat
  BY HubOpsAssumption
<1>2. asked \in 0..MaxRequests /\ served \subseteq 1..MaxRequests
  BY DEF Types, TypeOK
<1>3. served \subseteq Nat \ {0}
  BY <1>2, HubOpsAssumption
<1> QED BY <1>1, <1>2, <1>3, TypesFacts

\* Operations are queued: new requests carry the next number, all others none.
LEMMA GrowOrder ==
    ASSUME Types, InOrder, ops' \in Seq(OpTypes), Len(ops') >= Len(ops),
           \A i \in 1..Len(ops) : ops'[i] = ops[i],
           asked' \in Nat, asked' >= asked, served' = served, cur' = cur \/ cur' = None,
           \A i \in (Len(ops) + 1)..Len(ops') :
               /\ FitsKind(ops'[i])
               /\ ops'[i].n = 0 \/ (ops'[i].n = asked' /\ asked' > asked /\ i = Len(ops'))
    PROVE  InOrder'
<1>0. /\ asked \in Nat /\ served \subseteq Nat \ {0} /\ Len(ops) \in Nat /\ Len(ops') \in Nat
      /\ \A i \in 1..Len(ops) : ops[i].n \in Nat
      /\ cur # None => cur.op.n \in Nat
  BY NumberFacts, TypesFacts
<1>1. Numbered /\ Rising
  BY DEF InOrder
<1>2. \A i \in 1..Len(ops') : i \in 1..Len(ops) \/ i \in (Len(ops) + 1)..Len(ops')
  BY <1>0
<1>3. ASSUME NEW i \in 1..Len(ops')
      PROVE  FitsKind(ops'[i]) /\ ops'[i].n <= asked' /\ ops'[i].n \notin served'
  <2>1. CASE i \in 1..Len(ops)
    BY <1>0, <1>1, <2>1 DEF Numbered
  <2>2. CASE i \in (Len(ops) + 1)..Len(ops')
    <3>1. asked' > asked => asked' \notin served
      BY <1>0, <1>1 DEF Numbered
    <3> QED BY <1>0, <2>2, <3>1
  <2> QED BY <1>2, <1>3, <2>1, <2>2
<1>4. \A n \in served' : n <= asked'
  BY <1>0, <1>1 DEF Numbered
<1>5. ASSUME cur' # None
      PROVE  /\ FitsKind(cur.op) /\ cur.op.n <= asked'
             /\ IF cur.at = "refresh" THEN cur.op.n \in served' ELSE cur.op.n \notin served'
             /\ cur' = cur /\ cur # None
  BY <1>0, <1>1, <1>5 DEF Numbered
<1>6. Numbered'
  BY <1>3, <1>4, <1>5 DEF Numbered
<1>7. ASSUME NEW i \in 1..Len(ops'), NEW j \in 1..Len(ops'), i < j PROVE Before(ops'[i], ops'[j])
  <2>1. CASE j \in 1..Len(ops)
    <3>1. i \in 1..Len(ops)
      BY <1>0, <1>7, <2>1
    <3> QED BY <1>1, <1>7, <2>1, <3>1 DEF Rising
  <2>2. CASE j \in (Len(ops) + 1)..Len(ops')
    <3>1. CASE i \in 1..Len(ops)
      BY <1>0, <1>1, <2>2, <3>1 DEF Numbered, Before
    <3>2. CASE i \in (Len(ops) + 1)..Len(ops')
      BY <1>0, <1>7, <2>2, <3>2 DEF Before
    <3> QED BY <1>2, <1>7, <3>1, <3>2
  <2> QED BY <1>2, <1>7, <2>1, <2>2
<1>8. ASSUME cur' # None, NEW i \in 1..Len(ops') PROVE Before(cur.op, ops'[i])
  <2>1. cur # None /\ cur.op.n <= asked
    BY <1>1, <1>5, <1>8 DEF Numbered
  <2>2. CASE i \in 1..Len(ops)
    BY <1>1, <2>1, <2>2 DEF Rising
  <2>3. CASE i \in (Len(ops) + 1)..Len(ops')
    BY <1>0, <2>1, <2>3 DEF Before
  <2> QED BY <1>2, <1>8, <2>2, <2>3
<1>9. Rising'
  BY <1>5, <1>7, <1>8 DEF Rising
<1> QED BY <1>6, <1>9 DEF InOrder

\* The queue stands still: a request is refused, a stage or the operation itself ends.
LEMMA StandOrder ==
    ASSUME Types, InOrder, ops' = ops, asked' \in Nat, asked' >= asked,
           cur' # None => /\ cur # None /\ cur'.op = cur.op
                          /\ cur'.at = "refresh" <=> cur.op.n \in served',
           served \subseteq served',
           \A n \in served' \ served : \/ n = asked' /\ asked' > asked
                                       \/ cur # None /\ n = cur.op.n /\ n # 0
    PROVE  InOrder'
<1>0. /\ asked \in Nat /\ served \subseteq Nat \ {0}
      /\ \A i \in 1..Len(ops) : ops[i].n \in Nat
      /\ cur # None => cur.op.n \in Nat
  BY NumberFacts
<1>1. Numbered /\ Rising
  BY DEF InOrder
<1>2. ASSUME NEW i \in 1..Len(ops) PROVE FitsKind(ops[i]) /\ ops[i].n <= asked' /\ ops[i].n \notin served'
  <2>1. FitsKind(ops[i]) /\ ops[i].n <= asked /\ ops[i].n \notin served
    BY <1>1, <1>2 DEF Numbered
  <2>2. cur # None => Before(cur.op, ops[i])
    BY <1>1, <1>2 DEF Rising
  <2> QED BY <1>0, <1>2, <2>1, <2>2 DEF Before
<1>3. ASSUME NEW n \in served' PROVE n <= asked'
  <2>1. CASE n \in served
    BY <1>0, <1>1, <2>1 DEF Numbered
  <2>2. CASE n \notin served
    BY <1>0, <1>1, <1>3, <2>2 DEF Numbered
  <2> QED BY <2>1, <2>2
<1>4. ASSUME cur' # None
      PROVE  /\ FitsKind(cur'.op) /\ cur'.op.n <= asked'
             /\ IF cur'.at = "refresh" THEN cur'.op.n \in served' ELSE cur'.op.n \notin served'
  BY <1>0, <1>1, <1>4 DEF Numbered
<1>5. Numbered'
  BY <1>2, <1>3, <1>4 DEF Numbered
<1>6. Rising'
  BY <1>1 DEF Rising
<1> QED BY <1>5, <1>6 DEF InOrder

LEMMA TakeOrder ==
    ASSUME Types, InOrder, run_hub_op_applier
    PROVE  InOrder'
<1>1. Numbered /\ Rising /\ ops \in Seq(OpTypes)
  BY TypesFacts DEF InOrder
<1>2. /\ cur = None /\ ops # <<>> /\ ops' = Tail(ops) /\ UNCHANGED <<asked, served>>
      /\ cur' = [op |-> Head(ops), at |-> "call", got |-> None]
  BY DEF run_hub_op_applier
<1>3. /\ Len(ops') = Len(ops) - 1 /\ Len(ops) \in Nat \ {0} /\ ops' \in Seq(OpTypes)
      /\ \A i \in 1..Len(ops') : ops'[i] = ops[i + 1]
      /\ Head(ops) = ops[1]
  BY <1>1, <1>2, TakeFacts
<1>4. 1 \in 1..Len(ops) /\ \A i \in 1..Len(ops') : i + 1 \in 1..Len(ops)
  BY <1>3
<1>5. cur'.op = ops[1] /\ cur'.at = "call"
  BY <1>2, <1>3
<1>6. Numbered'
  BY <1>1, <1>2, <1>3, <1>4, <1>5 DEF Numbered
<1>7. ASSUME NEW i \in 1..Len(ops'), NEW j \in 1..Len(ops'), i < j PROVE Before(ops'[i], ops'[j])
  <2>1. i + 1 < j + 1
    BY <1>3, <1>7
  <2> QED BY <1>1, <1>3, <1>4, <1>7, <2>1 DEF Rising
<1>8. ASSUME NEW i \in 1..Len(ops') PROVE Before(cur'.op, ops'[i])
  <2>1. 1 < i + 1
    BY <1>3, <1>8
  <2> QED BY <1>1, <1>3, <1>4, <1>5, <1>8, <2>1 DEF Rising
<1>9. Rising'
  BY <1>7, <1>8 DEF Rising
<1> QED BY <1>6, <1>9 DEF InOrder


\* The requests behind Waiting.
Unserved == {p \in Pending : p.n \notin served \union {0}}

LEMMA PendingIs ==
    ASSUME ops \in Seq(OpTypes)
    PROVE  \A p : p \in Pending <=> (\E i \in 1..Len(ops) : p = ops[i]) \/ (cur # None /\ p = cur.op)
<1>1. DOMAIN ops = 1..Len(ops)
  OBVIOUS
<1> QED BY <1>1 DEF Pending

LEMMA PendingNext ==
    ASSUME ops' \in Seq(OpTypes)
    PROVE  \A p : p \in Pending' <=> (\E i \in 1..Len(ops') : p = ops'[i]) \/ (cur' # None /\ p = cur'.op)
<1>1. DOMAIN ops' = 1..Len(ops')
  OBVIOUS
<1> QED BY <1>1 DEF Pending

\* Steps that serve no request and take none.
LEMMA WaitsOn ==
    ASSUME Types, ops' \in Seq(OpTypes), served' = served,
           \A p : p.n \notin served \union {0} => (p \in Pending' <=> p \in Pending)
    PROVE  Waiting' = Waiting
<1>1. Unserved' = Unserved
  BY DEF Unserved
<1>2. Waiting = {RequestOf(op) : op \in Unserved}
  BY DEF Waiting, Unserved
<1>3. Waiting' = {RequestOf(op) : op \in Unserved'}
  BY DEF Waiting, Unserved
<1> QED BY <1>1, <1>2, <1>3

\* The request that runs is the oldest one, and is served.
LEMMA ServeMaps ==
    ASSUME Types, InOrder, cur # None, cur.op.n \notin served \union {0}, served' = served \union {cur.op.n},
           ops' = ops, cur' = None \/ (cur' # None /\ cur'.op = cur.op), UNCHANGED <<conn, asked>>,
           \/ UNCHANGED focus
           \/ /\ cur.op.does \in Switches /\ conn[cur.op.conn] = "on"
              /\ \E s \in Sessions : focus' = [focus EXCEPT ![cur.op.conn] = s]
    PROVE  Service!Serve
<1>0. /\ ops \in Seq(OpTypes) /\ ops' \in Seq(OpTypes) /\ cur.op.n \in Nat
      /\ \A i \in 1..Len(ops) : ops[i].n \in Nat
      /\ Rising
  BY TypesFacts, NumberFacts DEF InOrder
<1>o. PICK o : o = cur.op
  OBVIOUS
<1>r. PICK r : r = RequestOf(o)
  OBVIOUS
<1>1. r.n = o.n /\ r.conn = o.conn /\ r.switch = (o.does \in Switches)
  BY <1>r DEF RequestOf
<1>2. o \in Pending /\ o.n \notin served \union {0}
  BY <1>0, <1>o, PendingIs
<1>3. r \in Waiting
  BY <1>2, <1>r DEF Waiting
<1>4. ASSUME NEW p \in Pending, p.n \notin served \union {0}, p # o PROVE o.n < p.n
  <2>1. PICK i \in 1..Len(ops) : p = ops[i]
    BY <1>0, <1>4, <1>o, PendingIs
  <2>2. Before(o, p)
    BY <1>0, <1>o, <2>1 DEF Rising
  <2> QED BY <1>2, <1>4, <2>2 DEF Before
<1>5. \A q \in Waiting : r.n <= q.n
  <2>1. ASSUME NEW p \in Pending, p.n \notin served \union {0} PROVE r.n <= RequestOf(p).n
    <3>1. RequestOf(p).n = p.n
      BY DEF RequestOf
    <3>2. p.n \in Nat
      BY <1>0, <2>1, PendingIs
    <3> QED BY <1>0, <1>1, <1>4, <1>o, <2>1, <3>1, <3>2
  <2> QED BY <2>1 DEF Waiting
<1>6. \A p : p \in Pending' /\ p.n \notin served' \union {0} <=>
             p \in Pending /\ p.n \notin served \union {0} /\ p # o
  <2>1. ASSUME NEW p, p \in Pending', p.n \notin served' \union {0}
        PROVE  p \in Pending /\ p.n \notin served \union {0} /\ p # o
    BY <1>0, <1>o, <2>1, PendingIs, PendingNext
  <2>2. ASSUME NEW p, p \in Pending, p.n \notin served \union {0}, p # o
        PROVE  p \in Pending' /\ p.n \notin served' \union {0}
    <3>1. o.n < p.n
      BY <1>4, <2>2
    <3>2. p.n # o.n
      BY <1>0, <1>o, <2>2, <3>1, PendingIs
    <3> QED BY <1>0, <1>o, <2>2, <3>2, PendingIs, PendingNext
  <2> QED BY <2>1, <2>2
<1>7. Waiting' = Waiting \ {r}
  <2>1. \A p \in Pending : p.n \notin served \union {0} /\ p # o => RequestOf(p) # r
    <3>1. ASSUME NEW p \in Pending, p.n \notin served \union {0}, p # o, RequestOf(p) = r PROVE FALSE
      <4>1. p.n = o.n
        BY <1>1, <3>1 DEF RequestOf
      <4>2. o.n < p.n
        BY <1>4, <3>1
      <4> QED BY <1>0, <1>o, <4>1, <4>2
    <3> QED BY <3>1
  <2>2. ASSUME NEW q \in Waiting' PROVE q \in Waiting \ {r}
    <3>1. PICK p : p \in Pending' /\ p.n \notin served' \union {0} /\ q = RequestOf(p)
      BY <2>2 DEF Waiting
    <3>2. p \in Pending /\ p.n \notin served \union {0} /\ p # o
      BY <1>6, <3>1
    <3> QED BY <2>1, <3>1, <3>2 DEF Waiting
  <2>3. ASSUME NEW q \in Waiting, q # r PROVE q \in Waiting'
    <3>1. PICK p : p \in Pending /\ p.n \notin served \union {0} /\ q = RequestOf(p)
      BY <2>3 DEF Waiting
    <3>2. p # o
      BY <1>r, <2>3, <3>1
    <3>3. p \in Pending' /\ p.n \notin served' \union {0}
      BY <1>6, <3>1, <3>2
    <3> QED BY <3>1, <3>3 DEF Waiting
  <2> QED BY <2>2, <2>3
<1>8. served' = served \union {r.n}
  BY <1>1, <1>o
<1>9. \/ UNCHANGED focus
      \/ /\ r.switch /\ conn[r.conn] = "on"
         /\ \E s \in Sessions : focus' = [focus EXCEPT ![r.conn] = s]
  BY <1>1, <1>o
<1> QED BY <1>3, <1>5, <1>7, <1>8, <1>9 DEF Service!Serve


Follows == Service!Next \/ UNCHANGED Service!vars

\* A connection asks: its request waits behind the others.
LEMMA AskMaps ==
    ASSUME Types, InOrder, ops' \in Seq(OpTypes),
           NEW c \in Conns, NEW does, NEW s, AskedFor(c, does, s), Ask(c, does, s)
    PROVE  InOrder' /\ Follows
<1>0. /\ asked \in Nat /\ ops \in Seq(OpTypes) /\ Len(ops) \in Nat /\ MaxRequests \in Nat
      /\ Numbered
  BY NumberFacts, TypesFacts, HubOpsAssumption DEF InOrder
<1> DEFINE a == Op(asked + 1, c, does, s)
<1>1. asked + 1 \in 0..MaxRequests /\ asked < MaxRequests /\ asked' = asked + 1
  BY <1>0 DEF Ask
<1>2. /\ a \in OpTypes /\ a.n = asked + 1 /\ a.conn = c /\ a.does = does /\ a.session = s
      /\ does \notin {"connect_list", "jobs_on_update"} /\ (does \in Switches => s \in Sessions)
  BY <1>1, OpIs DEF AskedFor, Kinds, Switches, Edits
<1>3. ops' = Append(ops, a) /\ On(c) /\ UNCHANGED <<served, cur, conn, focus>>
  BY DEF Ask, clientVars
<1> HIDE DEF a
<1>4. /\ Len(ops') = Len(ops) + 1 /\ ops'[Len(ops) + 1] = a
      /\ \A i \in 1..Len(ops) : ops'[i] = ops[i]
  BY <1>0, <1>2, <1>3, AppendFacts
<1>5. FitsKind(a)
  BY <1>0, <1>2 DEF FitsKind
<1>6. InOrder'
  <2>1. /\ asked' \in Nat /\ asked' > asked /\ asked' >= asked /\ Len(ops') >= Len(ops)
        /\ \A i \in (Len(ops) + 1)..Len(ops') : i = Len(ops')
    BY <1>0, <1>1, <1>4
  <2>2. \A i \in (Len(ops) + 1)..Len(ops') :
            /\ FitsKind(ops'[i])
            /\ ops'[i].n = 0 \/ (ops'[i].n = asked' /\ asked' > asked /\ i = Len(ops'))
    BY <1>1, <1>2, <1>4, <1>5, <2>1
  <2> QED BY <1>3, <1>4, <2>1, <2>2, GrowOrder
<1>7. \A p : p \in Pending' <=> p \in Pending \/ p = a
  <2>1. \A i \in 1..Len(ops') : i \in 1..Len(ops) \/ i = Len(ops) + 1
    BY <1>0, <1>4
  <2>2. Len(ops) + 1 \in 1..Len(ops') /\ \A i \in 1..Len(ops) : i \in 1..Len(ops')
    BY <1>0, <1>4
  <2>3. ASSUME NEW p, p \in Pending' PROVE p \in Pending \/ p = a
    BY <1>0, <1>3, <1>4, <2>1, <2>3, PendingIs, PendingNext
  <2>4. ASSUME NEW p, p \in Pending PROVE p \in Pending'
    BY <1>0, <1>3, <1>4, <2>2, <2>4, PendingIs, PendingNext
  <2>5. a \in Pending'
    BY <1>4, <2>2, PendingNext
  <2> QED BY <2>3, <2>4, <2>5
<1>8. a.n \notin served \union {0}
  BY <1>0, <1>2 DEF Numbered
<1>9. Waiting' = Waiting \union {RequestOf(a)}
  BY <1>3, <1>7, <1>8 DEF Waiting
<1>10. RequestOf(a) = [n |-> asked + 1, conn |-> c, switch |-> does \in Switches]
  BY <1>2 DEF RequestOf
<1>11. \E switch \in BOOLEAN : Waiting' = Waiting \union {[n |-> asked + 1, conn |-> c, switch |-> switch]}
  <2>1. (does \in Switches) \in BOOLEAN
    OBVIOUS
  <2>2. Waiting' = Waiting \union {[n |-> asked + 1, conn |-> c, switch |-> does \in Switches]}
    BY <1>9, <1>10
  <2> QED BY <2>1, <2>2
<1>12. \E switch \in BOOLEAN : Service!Ask(c, switch)
  <2>1. conn[c] = "on" /\ asked < MaxRequests /\ asked' = asked + 1 /\ UNCHANGED <<conn, focus, served>>
    BY <1>1, <1>3 DEF On
  <2> QED BY <1>11, <2>1 DEF Service!Ask
<1> QED BY <1>6, <1>12 DEF Follows, Service!Next

\* What the hub queues for itself is nobody's request.
LEMMA QueueMaps ==
    ASSUME Types, InOrder, ops' \in Seq(OpTypes), Len(ops') >= Len(ops),
           \A i \in 1..Len(ops) : ops'[i] = ops[i],
           \A i \in (Len(ops) + 1)..Len(ops') : FitsKind(ops'[i]) /\ ops'[i].n = 0,
           UNCHANGED <<asked, served>>,
           cur' = cur \/ (cur' = None /\ (cur # None => cur.op.n \in served \union {0}))
    PROVE  InOrder' /\ Waiting' = Waiting
<1>0. asked \in Nat /\ ops \in Seq(OpTypes) /\ Len(ops) \in Nat /\ Len(ops') \in Nat
  BY NumberFacts, TypesFacts
<1>1. InOrder'
  <2>1. asked' \in Nat /\ asked' >= asked
    BY <1>0
  <2>2. \A i \in (Len(ops) + 1)..Len(ops') :
            FitsKind(ops'[i]) /\ (ops'[i].n = 0 \/ (ops'[i].n = asked' /\ asked' > asked /\ i = Len(ops')))
    OBVIOUS
  <2> QED BY <2>1, <2>2, GrowOrder
<1>2. /\ \A i \in 1..Len(ops') : i \in 1..Len(ops) \/ i \in (Len(ops) + 1)..Len(ops')
      /\ \A i \in 1..Len(ops) : i \in 1..Len(ops')
  BY <1>0
<1>3. ASSUME NEW p, p.n \notin served \union {0}, p \in Pending' PROVE p \in Pending
  BY <1>0, <1>2, <1>3, PendingIs, PendingNext
<1>4. ASSUME NEW p, p.n \notin served \union {0}, p \in Pending PROVE p \in Pending'
  BY <1>0, <1>2, <1>4, PendingIs, PendingNext
<1>5. Waiting' = Waiting
  BY <1>3, <1>4, WaitsOn
<1> QED BY <1>1, <1>5


\* An operation ends, or a switch gets to its refreshes: what it served was the oldest request.
LEMMA EndMaps ==
    ASSUME Types, InOrder, cur # None, cur.at # "refresh", ops' = ops, served' = Served(cur.op.n),
           \/ cur' = None
           \/ cur' # None /\ cur'.op = cur.op /\ cur'.at = "refresh" /\ cur.op.n # 0,
           UNCHANGED <<conn, asked>>,
           \/ UNCHANGED focus
           \/ /\ cur.op.n # 0 /\ cur.op.does \in Switches /\ conn[cur.op.conn] = "on"
              /\ \E s \in Sessions : focus' = [focus EXCEPT ![cur.op.conn] = s]
    PROVE  InOrder' /\ Follows
<1>0. /\ asked \in Nat /\ ops' \in Seq(OpTypes) /\ cur.op.n \in Nat /\ cur.op.n \notin served
  BY NumberFacts, TypesFacts DEF InOrder, Numbered
<1>1. CASE cur.op.n = 0
  <2>1. served' = served /\ cur' = None /\ UNCHANGED focus
    BY <1>1 DEF Served
  <2>2. InOrder'
    BY <1>0, <2>1, StandOrder
  <2>3. \A p : p.n \notin served \union {0} => (p \in Pending' <=> p \in Pending)
    BY <1>0, <1>1, <2>1, PendingIs, PendingNext
  <2>4. Waiting' = Waiting
    BY <1>0, <2>1, <2>3, WaitsOn
  <2> QED BY <2>1, <2>2, <2>4 DEF Follows, Service!vars
<1>2. CASE cur.op.n # 0
  <2>1. served' = served \union {cur.op.n} /\ cur.op.n \notin served \union {0}
    BY <1>0, <1>2 DEF Served
  <2>2. InOrder'
    <3>1. \A n \in served' \ served : cur # None /\ n = cur.op.n /\ n # 0
      BY <1>2, <2>1
    <3>2. cur' # None => cur # None /\ cur'.op = cur.op /\ (cur'.at = "refresh" <=> cur.op.n \in served')
      BY <2>1
    <3>3. served \subseteq served' /\ asked' \in Nat /\ asked' >= asked
      BY <1>0, <2>1
    <3> QED BY <3>1, <3>2, <3>3, StandOrder
  <2>3. \/ UNCHANGED focus
        \/ /\ cur.op.does \in Switches /\ conn[cur.op.conn] = "on"
           /\ \E s \in Sessions : focus' = [focus EXCEPT ![cur.op.conn] = s]
    OBVIOUS
  <2>4. Service!Serve
    BY <2>1, <2>3, ServeMaps
  <2> QED BY <2>2, <2>4 DEF Follows, Service!Next
<1> QED BY <1>1, <1>2

\* Between its awaits an operation serves nothing.
LEMMA StageMaps ==
    ASSUME Types, InOrder, cur # None, cur' # None, cur'.op = cur.op,
           cur.at # "refresh", cur'.at # "refresh",
           UNCHANGED <<conn, focus, ops, asked, served>>
    PROVE  InOrder' /\ Follows
<1>0. asked \in Nat /\ ops' \in Seq(OpTypes) /\ cur.op.n \notin served
  BY NumberFacts, TypesFacts DEF InOrder, Numbered
<1>1. InOrder'
  BY <1>0, StandOrder
<1>2. \A p : p \in Pending' <=> p \in Pending
  BY <1>0, PendingIs, PendingNext
<1>3. Waiting' = Waiting
  BY <1>0, <1>2, WaitsOn
<1> QED BY <1>1, <1>3 DEF Follows, Service!vars

\* Nothing of the queue changes.
LEMMA SameMaps ==
    ASSUME Types, InOrder, UNCHANGED <<ops, cur, asked, served>>
    PROVE  InOrder' /\ Waiting' = Waiting
<1>1. InOrder'
  BY DEF InOrder, Numbered, Rising
<1>2. Waiting' = Waiting
  BY DEF Waiting, Pending
<1> QED BY <1>1, <1>2

LEMMA TakeMaps ==
    ASSUME Types, InOrder, run_hub_op_applier
    PROVE  InOrder' /\ Follows
<1>1. ops \in Seq(OpTypes) /\ None \notin Running
  BY TypesFacts
<1>2. /\ cur = None /\ ops # <<>> /\ ops' = Tail(ops) /\ UNCHANGED <<conn, focus, asked, served>>
      /\ cur' = [op |-> Head(ops), at |-> "call", got |-> None]
  BY DEF run_hub_op_applier
<1>3. /\ Len(ops') = Len(ops) - 1 /\ Len(ops) \in Nat \ {0} /\ ops' \in Seq(OpTypes)
      /\ \A i \in 1..Len(ops') : ops'[i] = ops[i + 1]
      /\ Head(ops) = ops[1] /\ ops[1] \in OpTypes
  BY <1>1, <1>2, TakeFacts
<1>4. /\ 1 \in 1..Len(ops) /\ \A i \in 1..Len(ops') : i + 1 \in 1..Len(ops)
      /\ \A i \in 1..Len(ops) : i = 1 \/ (i - 1 \in 1..Len(ops') /\ i = (i - 1) + 1)
  BY <1>3
<1>5. cur' \in Running /\ cur'.op = ops[1]
  BY <1>2, <1>3 DEF Running
<1>6. ASSUME NEW p, p \in Pending' PROVE p \in Pending
  BY <1>1, <1>3, <1>4, <1>5, <1>6, PendingIs, PendingNext
<1>7. ASSUME NEW p, p \in Pending PROVE p \in Pending'
  <2>1. PICK i \in 1..Len(ops) : p = ops[i]
    BY <1>1, <1>2, <1>7, PendingIs
  <2>2. CASE i = 1
    BY <1>1, <1>3, <1>5, <2>1, <2>2, PendingNext
  <2>3. CASE i - 1 \in 1..Len(ops') /\ i = (i - 1) + 1
    <3>1. p = ops'[i - 1]
      BY <1>3, <2>1, <2>3
    <3> QED BY <1>3, <2>3, <3>1, PendingNext
  <2> QED BY <1>4, <2>1, <2>2, <2>3
<1>8. Waiting' = Waiting
  BY <1>2, <1>3, <1>6, <1>7, WaitsOn
<1> QED BY <1>2, <1>8, TakeOrder DEF Follows, Service!vars


LEMMA KindFacts ==
    /\ None \in Conns \union {None} /\ \A c \in Conns : c \in Conns \union {None}
    /\ "connect_list" \in Kinds /\ "session_list" \in Kinds /\ "scoped" \in Kinds
    /\ "jobs" \in Kinds /\ "jobs_on_update" \in Kinds
    /\ "jobs" \notin Switches /\ "jobs_on_update" \notin Switches /\ "session_list" \notin Switches
BY DEF Kinds, Switches

\* Connections come and go.
LEMMA ComeAndGoMaps ==
    ASSUME Types, InOrder, ops' \in Seq(OpTypes), NEW c \in Conns,
           (\E s \in Landings : add_client(c, s)) \/ remove_client(c)
    PROVE  InOrder' /\ Follows
<1>0. ops \in Seq(OpTypes) /\ 0 \in 0..MaxRequests /\ Landings \subseteq Sessions \union {None}
  BY TypesFacts, HubOpsAssumption
<1>1. ASSUME NEW s \in Landings, add_client(c, s) PROVE InOrder' /\ Follows
  <2> DEFINE d == Op(0, c, "connect_list", s)
             e == Op(0, c, "scoped", s)
  <2>1. d \in OpTypes /\ d.n = 0 /\ d.does = "connect_list" /\ e \in OpTypes /\ e.n = 0 /\ e.does = "scoped"
    BY <1>0, OpIs, KindFacts DEF Focuses
  <2>2. ops' = ops \o <<d, e>> /\ UNCHANGED <<cur, asked, served>>
    BY <1>1 DEF add_client, connect_lists
  <2> HIDE DEF d, e
  <2>3. /\ Len(ops') = Len(ops) + 2 /\ Len(ops) \in Nat /\ \A i \in 1..Len(ops) : ops'[i] = ops[i]
        /\ ops'[Len(ops) + 1] = d /\ ops'[Len(ops) + 2] = e
    BY <1>0, <2>1, <2>2, ConcatTwo
  <2>4. FitsKind(d) /\ FitsKind(e)
    BY <2>1 DEF FitsKind, Switches
  <2>5. /\ \A i \in (Len(ops) + 1)..Len(ops') : i = Len(ops) + 1 \/ i = Len(ops) + 2
        /\ Len(ops') >= Len(ops)
    BY <2>3
  <2>6. InOrder' /\ Waiting' = Waiting
    BY <2>1, <2>2, <2>3, <2>4, <2>5, QueueMaps
  <2>7. Service!Join(c, s)
    BY <1>1, <2>6 DEF add_client, Service!Join
  <2> QED BY <1>0, <2>6, <2>7 DEF Follows, Service!Next
<1>2. CASE remove_client(c)
  <2>1. InOrder' /\ Waiting' = Waiting
    BY <1>2, SameMaps DEF remove_client
  <2>2. Service!Leave(c)
    BY <1>2, <2>1 DEF remove_client, On, Service!Leave
  <2> QED BY <2>1, <2>2 DEF Follows, Service!Next
<1> QED BY <1>1, <1>2

\* A branch that is refused is served at once, before those that wait.
LEMMA RequestMaps ==
    ASSUME Types, InOrder, ops' \in Seq(OpTypes), NEW c \in Conns, Requests(c) \/ Branch(c)
    PROVE  InOrder' /\ Follows
<1>0. asked \in Nat /\ ops' \in Seq(OpTypes) /\ Numbered
  BY NumberFacts DEF InOrder
<1>1. CASE Refused(c)
  <2>1. /\ conn[c] = "on" /\ asked < MaxRequests /\ asked' = asked + 1 /\ served' = served \union {asked + 1}
        /\ UNCHANGED <<conn, focus, ops, cur>>
    BY <1>1 DEF Refused, clientVars, On
  <2>2. cur # None => cur.op.n # asked + 1
    BY <1>0, NumberFacts DEF Numbered
  <2>3. InOrder'
    <3>1. asked' \in Nat /\ asked' > asked /\ asked' >= asked
      BY <1>0, <2>1
    <3>2. cur' # None => cur # None /\ cur'.op = cur.op /\ (cur'.at = "refresh" <=> cur.op.n \in served')
      BY <1>0, <2>1, <2>2 DEF Numbered
    <3>3. \A n \in served' \ served : n = asked' /\ asked' > asked
      BY <2>1, <3>1
    <3> QED BY <2>1, <3>1, <3>2, <3>3, StandOrder
  <2>4. \A p \in Pending : p.n # asked + 1
    <3>1. \A i \in 1..Len(ops) : ops[i].n # asked + 1
      BY <1>0, NumberFacts DEF Numbered
    <3> QED BY <2>2, <3>1, TypesFacts, PendingIs
  <2>5. Waiting' = Waiting
    <3>1. Pending' = Pending
      BY <2>1 DEF Pending
    <3> QED BY <2>1, <2>4, <3>1 DEF Waiting
  <2>6. Service!Refuse(c)
    BY <2>1, <2>5 DEF Service!Refuse
  <2> QED BY <2>3, <2>6 DEF Follows, Service!Next
<1>2. CASE ~Refused(c)
  <2>1. PICK does, s : AskedFor(c, does, s) /\ Ask(c, does, s)
    BY <1>2, RequestsAsk DEF Branch, Refused
  <2> QED BY <2>1, AskMaps
<1> QED BY <1>1, <1>2

LEMMA InternalMaps ==
    ASSUME Types, InOrder, ops' \in Seq(OpTypes),
           \/ \E c \in Conns : FetchJobs(c)
           \/ \E s \in Sessions : on_event_SessionUpdated(s)
           \/ enqueue_live_refresh
    PROVE  InOrder' /\ Follows
<1>0. /\ ops \in Seq(OpTypes) /\ 0 \in 0..MaxRequests /\ None \in Focuses /\ Sessions \subseteq Focuses
      /\ focus \in [Conns -> Focuses]
  BY TypesFacts, HubOpsAssumption DEF Focuses, Types, TypeOK
<1>1. ASSUME NEW a \in OpTypes, ops' = Append(ops, a), a.n = 0, a.does \notin Switches,
             UNCHANGED <<conn, focus, cur, asked, served>>
      PROVE  InOrder' /\ Follows
  <2>1. /\ Len(ops') = Len(ops) + 1 /\ Len(ops) \in Nat /\ ops'[Len(ops) + 1] = a
        /\ \A i \in 1..Len(ops) : ops'[i] = ops[i]
    BY <1>0, <1>1, AppendFacts
  <2>2. Len(ops') >= Len(ops) /\ \A i \in (Len(ops) + 1)..Len(ops') : i = Len(ops) + 1
    BY <2>1
  <2>3. FitsKind(a)
    BY <1>1 DEF FitsKind
  <2>4. InOrder' /\ Waiting' = Waiting
    BY <1>1, <2>1, <2>2, <2>3, QueueMaps
  <2> QED BY <1>1, <2>4 DEF Follows, Service!vars
<1>2. ASSUME NEW c \in Conns, FetchJobs(c) PROVE InOrder' /\ Follows
  <2> DEFINE a == Op(0, c, "jobs", focus[c])
  <2>1. a \in OpTypes /\ a.n = 0 /\ a.does \notin Switches
    BY <1>0, OpIs, KindFacts
  <2>2. ops' = Append(ops, a) /\ UNCHANGED <<conn, focus, cur, asked, served>>
    BY <1>2 DEF FetchJobs
  <2> HIDE DEF a
  <2> QED BY <1>1, <2>1, <2>2
<1>3. ASSUME NEW s \in Sessions, on_event_SessionUpdated(s) PROVE InOrder' /\ Follows
  <2> DEFINE a == Op(0, None, "jobs_on_update", s)
  <2>0. None \in Conns \union {None} /\ "jobs_on_update" \in Kinds /\ s \in Focuses
    BY <1>0, KindFacts
  <2>1. a \in OpTypes /\ a.n = 0 /\ a.does \notin Switches
    <3>1. a \in OpTypes /\ a.n = 0 /\ a.does = "jobs_on_update"
      BY <1>0, <2>0 DEF Op, OpTypes, Kinds
    <3> QED BY <3>1, KindFacts
  <2>2. ops' = Append(ops, a) /\ UNCHANGED <<conn, focus, cur, asked, served>>
    BY <1>3 DEF on_event_SessionUpdated, clientVars
  <2> HIDE DEF a
  <2> QED BY <1>1, <2>1, <2>2
<1>4. CASE enqueue_live_refresh
  <2> DEFINE a == Op(0, None, "session_list", None)
  <2>0. None \in Conns \union {None} /\ "session_list" \in Kinds
    BY KindFacts
  <2>1. a \in OpTypes /\ a.n = 0 /\ a.does \notin Switches
    <3>1. a \in OpTypes /\ a.n = 0 /\ a.does = "session_list"
      BY <1>0, <2>0 DEF Op, OpTypes, Kinds
    <3> QED BY <3>1, KindFacts
  <2>2. ops' = Append(ops, a) /\ UNCHANGED <<conn, focus, cur, asked, served>>
    BY <1>4 DEF enqueue_live_refresh, clientVars
  <2> HIDE DEF a
  <2> QED BY <1>1, <2>1, <2>2
<1> QED BY <1>2, <1>3, <1>4

\* A switch has its refreshes queued behind what was asked meanwhile.
LEMMA RefreshMaps ==
    ASSUME Types, InOrder, ops' \in Seq(OpTypes), refresh_after_switch
    PROVE  InOrder' /\ Follows
<1>c. PICK c : c = cur.op.conn
  OBVIOUS
<1>s. PICK s : s = cur.op.session
  OBVIOUS
<1>0. /\ ops \in Seq(OpTypes) /\ 0 \in 0..MaxRequests /\ None \in Focuses /\ cur # None /\ cur.at = "refresh"
      /\ c \in Conns \union {None} /\ s \in Focuses /\ cur.op.n \in served
  BY <1>c, <1>s, TypesFacts, HubOpsAssumption DEF Focuses, refresh_after_switch, At, Serving, InOrder, Numbered
<1> DEFINE d == Op(0, None, "session_list", None)
           e == Op(0, c, "scoped", s)
<1>1. d \in OpTypes /\ d.n = 0 /\ d.does = "session_list" /\ e \in OpTypes /\ e.n = 0 /\ e.does = "scoped"
  <2>0. None \in Conns \union {None} /\ "session_list" \in Kinds /\ "scoped" \in Kinds
    BY KindFacts
  <2>1. d \in OpTypes /\ d.n = 0 /\ d.does = "session_list"
    BY <1>0, <2>0 DEF Op, OpTypes, Kinds
  <2>2. e \in OpTypes /\ e.n = 0 /\ e.does = "scoped"
    BY <1>0, <2>0 DEF Op, OpTypes, Kinds
  <2> QED BY <2>1, <2>2
<1>2. ops' = ops \o <<d, e>> /\ cur' = None /\ UNCHANGED <<conn, focus, asked, served>>
  BY <1>c, <1>s DEF refresh_after_switch, switch_lists
<1> HIDE DEF d, e
<1>3. /\ Len(ops') = Len(ops) + 2 /\ Len(ops) \in Nat /\ \A i \in 1..Len(ops) : ops'[i] = ops[i]
      /\ ops'[Len(ops) + 1] = d /\ ops'[Len(ops) + 2] = e
  BY <1>0, <1>1, <1>2, ConcatTwo
<1>4. FitsKind(d) /\ FitsKind(e)
  BY <1>1 DEF FitsKind, Switches
<1>5. /\ \A i \in (Len(ops) + 1)..Len(ops') : i = Len(ops) + 1 \/ i = Len(ops) + 2
      /\ Len(ops') >= Len(ops)
  BY <1>3
<1>6. InOrder' /\ Waiting' = Waiting
  BY <1>0, <1>1, <1>2, <1>3, <1>4, <1>5, QueueMaps
<1> QED BY <1>2, <1>6 DEF Follows, Service!vars

\* What ends an operation, whatever it sends.
LEMMA EndsMap ==
    ASSUME Types, InOrder,
           \/ switch_fails \/ finish_switch \/ broadcast_session_list \/ send_connect_list
           \/ send_scoped \/ fetch_jobs_on_update \/ reply
           \/ \E changed \in BOOLEAN : At(Edits, "call") /\ no_list(changed)
    PROVE  InOrder' /\ Follows
<1>1. CASE finish_switch
  <2>1. /\ cur # None /\ cur.op.does \in Switches /\ cur.at = "call" /\ ops' = ops /\ served' = Served(cur.op.n)
        /\ cur' = [cur EXCEPT !.at = "refresh"] /\ UNCHANGED <<conn, asked>>
        /\ focus' = (IF On(cur.op.conn) THEN [focus EXCEPT ![cur.op.conn] = cur.op.session] ELSE focus)
    BY <1>1 DEF finish_switch, At, Serving
  <2>2. cur \in Running /\ None \notin Running
    BY <2>1, TypesFacts
  <2>3. cur' \in Running /\ cur'.op = cur.op /\ cur'.at = "refresh"
    BY <2>1, <2>2 DEF Running
  <2>4. cur.op.n # 0 /\ cur.op.session \in Sessions
    BY <2>1 DEF InOrder, Numbered, FitsKind
  <2>5. UNCHANGED focus \/ (/\ conn[cur.op.conn] = "on"
                            /\ \E s \in Sessions : focus' = [focus EXCEPT ![cur.op.conn] = s])
    BY <2>1, <2>4 DEF On
  <2> QED BY <2>1, <2>2, <2>3, <2>4, <2>5, EndMaps
<1>2. CASE send_connect_list \/ fetch_jobs_on_update
  <2>1. /\ cur # None /\ cur.op.does \in {"connect_list", "jobs_on_update"} /\ cur.at # "refresh"
        /\ cur' = None /\ UNCHANGED <<conn, focus, ops, asked, served>>
    BY <1>2 DEF send_connect_list, fetch_jobs_on_update, At, Serving
  <2>2. cur.op.n = 0
    BY <2>1 DEF InOrder, Numbered, FitsKind
  <2>3. served' = Served(cur.op.n)
    BY <2>1, <2>2 DEF Served
  <2> QED BY <2>1, <2>3, EndMaps
<1>3. CASE \/ switch_fails \/ broadcast_session_list \/ send_scoped \/ reply
           \/ \E changed \in BOOLEAN : At(Edits, "call") /\ no_list(changed)
  <2>1. /\ cur # None /\ cur.at # "refresh" /\ cur' = None /\ served' = Served(cur.op.n)
        /\ UNCHANGED <<conn, focus, ops, asked>>
    BY <1>3 DEF switch_fails, broadcast_session_list, send_scoped, reply, no_list, At, Serving, clientVars
  <2> QED BY <2>1, EndMaps
<1> QED BY <1>1, <1>2, <1>3

LEMMA StagesMap ==
    ASSUME Types, InOrder,
           \/ list_sessions
           \/ \E changed \in BOOLEAN : At(Edits, "call") /\ then_list(changed)
    PROVE  InOrder' /\ Follows
<1>1. /\ cur # None /\ cur.at # "refresh" /\ UNCHANGED <<conn, focus, ops, asked, served>>
      /\ \/ cur' = [cur EXCEPT !.at = "list"] \/ (cur' = [cur EXCEPT !.at = "send", !.got = disk])
  BY DEF list_sessions, then_list, At, Serving, clientVars
<1>2. cur \in Running /\ None \notin Running /\ disk \in Nat
  BY <1>1, TypesFacts DEF Types, TypeOK
<1>3. cur' \in Running /\ cur'.op = cur.op /\ cur'.at # "refresh"
  BY <1>1, <1>2 DEF Running
<1> QED BY <1>1, <1>2, <1>3, StageMaps

LEMMA StepFollows ==
    ASSUME Inv, InOrder, [Next]_vars
    PROVE  InOrder' /\ Follows
<1>0. Types /\ ops' \in Seq(OpTypes)
  <2>1. Inv'
    BY StepKeeps
  <2> QED BY <2>1 DEF Inv, Types, TypeOK
<1>1. ASSUME NEW c \in Conns, (\E s \in Landings : add_client(c, s)) \/ remove_client(c)
      PROVE  InOrder' /\ Follows
  BY <1>0, <1>1, ComeAndGoMaps
<1>2. ASSUME NEW c \in Conns, Requests(c) \/ Branch(c)
      PROVE  InOrder' /\ Follows
  BY <1>0, <1>2, RequestMaps
<1>3. ASSUME \/ \E c \in Conns : FetchJobs(c)
             \/ \E s \in Sessions : on_event_SessionUpdated(s)
             \/ enqueue_live_refresh
      PROVE  InOrder' /\ Follows
  BY <1>0, <1>3, InternalMaps
<1>4. ASSUME UNCHANGED <<conn, focus, ops, cur, asked, served>>
      PROVE  InOrder' /\ Follows
  BY <1>0, <1>4, SameMaps DEF Follows, Service!vars
<1>5. ASSUME NEW s \in Sessions, DaemonChanges(s)
      PROVE  InOrder' /\ Follows
  BY <1>4, <1>5 DEF DaemonChanges, clientVars
<1>6. CASE Applier
  <2>1. CASE run_hub_op_applier
    BY <1>0, <2>1, TakeMaps
  <2>2. CASE refresh_after_switch
    BY <1>0, <2>2, RefreshMaps
  <2>3. CASE set_archived \/ rename_session \/ cleanup_worktree \/ detach_session
    <3>1. \E changed \in BOOLEAN : At(Edits, "call") /\ (then_list(changed) \/ no_list(changed))
      BY <2>3 DEF set_archived, rename_session, cleanup_worktree, detach_session, At, Serving, Edits
    <3> QED BY <1>0, <3>1, StagesMap, EndsMap
  <2>4. CASE list_sessions
    BY <1>0, <2>4, StagesMap
  <2>5. CASE \/ switch_fails \/ finish_switch \/ broadcast_session_list \/ send_connect_list
             \/ send_scoped \/ fetch_jobs_on_update \/ reply
    BY <1>0, <2>5, EndsMap
  <2> QED BY <1>6, <2>1, <2>2, <2>3, <2>4, <2>5 DEF Applier
<1>7. CASE UNCHANGED vars
  BY <1>4, <1>7 DEF vars
<1> QED BY <1>1, <1>2, <1>3, <1>5, <1>6, <1>7, <1>0 DEF Next, Requests

LEMMA InitFollows ==
    ASSUME Init
    PROVE  InOrder /\ Service!Init
<1>1. /\ ops = <<>> /\ cur = None /\ asked = 0 /\ served = {}
      /\ conn = [c \in Conns |-> "new"] /\ focus = [c \in Conns |-> None]
  BY DEF Init
<1>2. InOrder
  BY <1>1 DEF InOrder, Numbered, Rising
<1>3. Pending = {}
  BY <1>1 DEF Pending
<1>4. Waiting = {}
  BY <1>3 DEF Waiting
<1> QED BY <1>1, <1>2, <1>4 DEF Service!Init

\* However operations are split into awaits and refreshes (run_hub_op_applier, finish_switch,
\* refresh_after_switch), requests are served one at a time in the order they were made, none
\* twice, and a focus moves only when its own connection's switch is served.
THEOREM ServedInOrder == Spec => Service!Safe
<1>1. Init => InOrder /\ Service!Init
  BY InitFollows
<1>2. Inv /\ InOrder /\ [Next]_vars => InOrder' /\ [Service!Next]_(Service!vars)
  BY StepFollows DEF Follows
<1>3. Spec => Init /\ [][Next]_vars
  BY PTL DEF Spec
<1> QED BY <1>1, <1>2, <1>3, InvHolds, PTL DEF Service!Safe
=============================================================================
