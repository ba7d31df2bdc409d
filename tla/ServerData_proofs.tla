------------------------- MODULE ServerData_proofs --------------------------
(***************************************************************************)
(* The data of the server that outlives a connection:                      *)
(*                                                                         *)
(*   HubIngest      SeedFoldsToView, NothingLost                           *)
(*   DurableStores  AnsweredChangesLast (with BackgroundModel)             *)
(*                                                                         *)
(* each for any workload, any journal bound, any number of sessions,       *)
(* devices, settings, crashes and torn files.                              *)
(***************************************************************************)
EXTENDS HubIngest, DurableStores, SequenceTheorems, FiniteSetTheorems, WellFoundedInduction, TLAPS

\* Induction over the naturals, with a set for the predicate.
LEMMA SetInduction ==
    ASSUME NEW T, 0 \in T, \A n \in Nat : n \in T => n + 1 \in T
    PROVE  \A n \in Nat : n \in T
<1> SUFFICES ASSUME NEW n \in Nat, n \notin T PROVE FALSE
  OBVIOUS
<1> DEFINE B == {0..k : k \in Nat \ T}
<1>1. B \subseteq FiniteSubsetsOf(Nat)
  <2>1. \A k \in Nat : 0..k \in SUBSET Nat /\ IsFiniteSet(0..k)
    BY FS_Interval
  <2>2. QED  BY <2>1 DEF FiniteSubsetsOf
<1>2. B # {}  OBVIOUS
<1>3. \E x \in B : \A y \in B : ~(<<y, x>> \in StrictSubsetOrdering(Nat))
  <2> HIDE DEF B
  <2>1. IsWellFoundedOn(StrictSubsetOrdering(Nat), FiniteSubsetsOf(Nat))
    BY FS_StrictSubsetOrderingWellFounded
  <2>2. QED  BY <1>1, <1>2, <2>1, WFMin
<1>4. PICK k \in Nat \ T : \A y \in B : ~(<<y, 0..k>> \in StrictSubsetOrdering(Nat))
  BY <1>3
<1>5. k # 0  BY <1>4
<1>6. k - 1 \in Nat \ T
  <2>1. k - 1 \in Nat /\ (k - 1) + 1 = k
    BY <1>4, <1>5
  <2>2. QED BY <1>4, <2>1
<1>7. 0..(k-1) \in B  BY <1>6
<1>8. 0..(k-1) \subseteq Nat /\ 0..k \subseteq Nat /\ 0..(k-1) \subseteq 0..k /\ 0..(k-1) # 0..k
  <2>1. k \in 0..k /\ k \notin 0..(k-1)  BY <1>4
  <2>2. QED  BY <2>1, <1>4
<1>9. <<0..(k-1), 0..k>> \in StrictSubsetOrdering(Nat)
  BY <1>8 DEF StrictSubsetOrdering
<1> QED BY <1>4, <1>7, <1>9

-----------------------------------------------------------------------------
(* Sequences of anything *)

\* A sequence of whatever it holds.
IsSeq(s) == s \in Seq(ToSet(s))

LEMMA SeqIsSeq ==
    ASSUME NEW S, NEW s \in Seq(S)
    PROVE  IsSeq(s)
BY DEF IsSeq, ToSet

LEMMA SeqShape ==
    ASSUME NEW s, IsSeq(s)
    PROVE  Len(s) \in Nat /\ DOMAIN s = 1..Len(s)
BY DEF IsSeq

\* What appending does,
LEMMA AppendIsSeq ==
    ASSUME NEW s, IsSeq(s), NEW x
    PROVE  /\ IsSeq(Append(s, x)) /\ Len(Append(s, x)) = Len(s) + 1
           /\ \A i \in 1..Len(s) : Append(s, x)[i] = s[i]
           /\ Append(s, x)[Len(s) + 1] = x
           /\ Append(s, x) # <<>>
<1>1. PICK S : S = ToSet(s) \cup {x}
  OBVIOUS
<1>2. s \in Seq(S) /\ x \in S
  BY <1>1 DEF IsSeq
<1>3. Append(s, x) \in Seq(S)
  BY <1>2
<1>4. IsSeq(Append(s, x))
  BY <1>3, SeqIsSeq
<1> QED BY <1>2, <1>4

\* a prefix that grows by one,
LEMMA PrefixGrows ==
    ASSUME NEW s, IsSeq(s), NEW n \in Nat, n < Len(s)
    PROVE  /\ SubSeq(s, 1, n + 1) = Append(SubSeq(s, 1, n), s[n + 1])
           /\ IsSeq(SubSeq(s, 1, n)) /\ Len(SubSeq(s, 1, n)) = n
           /\ n + 1 \in DOMAIN s
<1>1. PICK S : S = ToSet(s)
  OBVIOUS
<1>2. s \in Seq(S)
  BY <1>1 DEF IsSeq
<1>3. SubSeq(s, 1, n) \in Seq(S) /\ Len(SubSeq(s, 1, n)) = n /\ n + 1 \in DOMAIN s
  BY <1>2
<1>4. IsSeq(SubSeq(s, 1, n))
  BY <1>3, SeqIsSeq
<1>5. SubSeq(s, 1, n + 1) = Append(SubSeq(s, 1, n), s[n + 1])
  BY <1>2
<1> QED BY <1>3, <1>4, <1>5

\* the longest prefix,
LEMMA WholePrefix ==
    ASSUME NEW s, IsSeq(s)
    PROVE  SubSeq(s, 1, Len(s)) = s /\ SubSeq(s, 1, 0) = <<>>
<1>1. PICK S : S = ToSet(s)
  OBVIOUS
<1>2. s \in Seq(S)
  BY <1>1 DEF IsSeq
<1> QED BY <1>2

\* and putting two together.
LEMMA ConcatGrows ==
    ASSUME NEW s, NEW t, NEW x, IsSeq(s), IsSeq(t)
    PROVE  s \o Append(t, x) = Append(s \o t, x) /\ IsSeq(s \o t)
<1>1. PICK S : S = ToSet(s) \cup ToSet(t) \cup {x}
  OBVIOUS
<1>2. s \in Seq(S) /\ t \in Seq(S) /\ x \in S
  BY <1>1 DEF IsSeq
<1>3. s \o t \in Seq(S)
  BY <1>2
<1>4. IsSeq(s \o t)
  BY <1>3, SeqIsSeq
<1> QED BY <1>2, <1>4

LEMMA ConcatEmpty ==
    ASSUME NEW s, IsSeq(s)
    PROVE  s \o <<>> = s
<1>1. PICK S : S = ToSet(s)
  OBVIOUS
<1>2. s \in Seq(S)
  BY <1>1 DEF IsSeq
<1> QED BY <1>2

-----------------------------------------------------------------------------
(* The folds of a sequence, event by event *)

\* What fold_all has made of the first k events, one by one.
Folds(g, side, st, events, k) ==
    g = [n \in 0..k |-> IF n = 0 THEN st ELSE fold_event(side, g[n - 1], events[n])]

\* There is such a record of every fold,
LEMMA FoldsExist ==
    ASSUME NEW side, NEW st, NEW events, NEW L \in Nat
    PROVE  \E g : Folds(g, side, st, events, L)
<1> DEFINE T == {k \in Nat : \E g : Folds(g, side, st, events, k)}
<1>1. 0 \in T
  <2> DEFINE g == [n \in 0..0 |-> st]
  <2>1. Folds(g, side, st, events, 0)
    BY DEF Folds
  <2> QED BY <2>1
<1>2. ASSUME NEW k \in Nat, k \in T PROVE k + 1 \in T
  <2>1. PICK g : Folds(g, side, st, events, k)
    BY <1>2
  <2> DEFINE h == [n \in 0..k + 1 |-> IF n = k + 1 THEN fold_event(side, g[k], events[k + 1]) ELSE g[n]]
  <2>2. \A n \in 0..k + 1 : h[n] = IF n = 0 THEN st ELSE fold_event(side, h[n - 1], events[n])
    <3> TAKE n \in 0..k + 1
    <3>1. CASE n = k + 1
      <4>1. h[n] = fold_event(side, g[k], events[k + 1]) /\ n - 1 = k /\ n # 0
        BY <3>1
      <4>2. h[k] = g[k]
        OBVIOUS
      <4> QED BY <3>1, <4>1, <4>2
    <3>2. CASE n # k + 1
      <4>1. n \in 0..k /\ h[n] = g[n]
        BY <3>2
      <4>2. CASE n = 0
        BY <4>1, <4>2, <2>1 DEF Folds
      <4>3. CASE n # 0
        <5>1. n - 1 \in 0..k /\ n - 1 \in 0..k + 1 /\ n - 1 # k + 1
          BY <4>1, <4>3
        <5>2. h[n - 1] = g[n - 1]
          BY <5>1
        <5> QED BY <4>1, <4>3, <5>2, <2>1 DEF Folds
      <4> QED BY <4>2, <4>3
    <3> QED BY <3>1, <3>2
  <2>3. Folds(h, side, st, events, k + 1)
    <3> HIDE DEF T
    <3> QED BY <2>2 DEF Folds
  <2> QED BY <2>3
<1>3. L \in T
  <2> HIDE DEF T
  <2> QED BY <1>1, <1>2, SetInduction
<1> QED BY <1>3

\* Two folds agree as far as their events do.
LEMMA FoldsAgree ==
    ASSUME NEW side, NEW st, NEW e1, NEW e2, NEW j \in Nat, NEW k \in Nat, j <= k,
           NEW g, NEW h, Folds(g, side, st, e1, j), Folds(h, side, st, e2, k),
           \A n \in 1..j : e1[n] = e2[n]
    PROVE  \A n \in 0..j : g[n] = h[n]
<1> DEFINE T == {n \in Nat : n <= j => g[n] = h[n]}
<1>1. 0 \in T
  BY DEF Folds
<1>2. ASSUME NEW n \in Nat, n \in T PROVE n + 1 \in T
  <2> SUFFICES ASSUME n + 1 <= j PROVE g[n + 1] = h[n + 1]
    OBVIOUS
  <2>1. g[n] = h[n] /\ n + 1 \in 0..j /\ n + 1 \in 0..k /\ (n + 1) - 1 = n /\ n + 1 # 0 /\ e1[n + 1] = e2[n + 1]
    BY <1>2
  <2>2. g[n + 1] = fold_event(side, g[n], e1[n + 1])
    BY <2>1 DEF Folds
  <2>3. h[n + 1] = fold_event(side, h[n], e2[n + 1])
    BY <2>1 DEF Folds
  <2> QED BY <2>1, <2>2, <2>3
<1>3. \A n \in Nat : n \in T
  <2> HIDE DEF T
  <2> QED BY <1>1, <1>2, SetInduction
<1> QED BY <1>3

\* and the fold is its last entry:
LEMMA FoldIs ==
    ASSUME NEW side, NEW st, NEW events, Len(events) \in Nat
    PROVE  \E g : /\ Folds(g, side, st, events, Len(events))
                  /\ fold_all_from(side, st, events) = g[Len(events)]
<1>1. PICK L \in Nat : L = Len(events)
  OBVIOUS
<1> DEFINE folded == CHOOSE g : Folds(g, side, st, events, L)
<1>2. Folds(folded, side, st, events, L)
  BY FoldsExist
<1>3. fold_all_from(side, st, events) = folded[L]
  BY <1>1 DEF fold_all_from, Folds
<1> QED BY <1>1, <1>2, <1>3

\* no event changes nothing,
LEMMA FoldNone ==
    ASSUME NEW side, NEW st
    PROVE  fold_all_from(side, st, <<>>) = st
<1>1. Len(<<>>) = 0
  OBVIOUS
<1>2. PICK g : Folds(g, side, st, <<>>, 0) /\ fold_all_from(side, st, <<>>) = g[0]
  BY <1>1, FoldIs
<1>3. g[0] = st
  BY <1>2 DEF Folds
<1> QED BY <1>2, <1>3

\* one more event is folded last,
LEMMA FoldOneMore ==
    ASSUME NEW side, NEW st, NEW events, IsSeq(events), NEW ev
    PROVE  fold_all_from(side, st, Append(events, ev)) = fold_event(side, fold_all_from(side, st, events), ev)
<1>1. PICK L \in Nat : L = Len(events)
  BY SeqShape
<1>2. PICK more : more = Append(events, ev)
  OBVIOUS
<1>3. Len(more) = L + 1 /\ (\A n \in 1..L : events[n] = more[n]) /\ more[L + 1] = ev
  BY <1>1, <1>2, AppendIsSeq
<1>4. PICK g : Folds(g, side, st, events, L) /\ fold_all_from(side, st, events) = g[L]
  BY <1>1, FoldIs
<1>5. PICK h : Folds(h, side, st, more, L + 1) /\ fold_all_from(side, st, more) = h[L + 1]
  BY <1>3, FoldIs
<1>6. g[L] = h[L]
  <2>1. L <= L + 1 /\ L + 1 \in Nat /\ L \in 0..L
    OBVIOUS
  <2>2. PICK M \in Nat : M = L + 1
    OBVIOUS
  <2>3. Folds(h, side, st, more, M) /\ L <= M
    BY <2>2, <1>5
  <2>4. \A n \in 0..L : g[n] = h[n]
    BY <2>3, <1>3, <1>4, FoldsAgree
  <2> QED BY <2>1, <2>4
<1>7. h[L + 1] = fold_event(side, h[L], ev)
  <2>1. L + 1 \in 0..L + 1 /\ L + 1 # 0 /\ (L + 1) - 1 = L
    OBVIOUS
  <2> QED BY <2>1, <1>3, <1>5 DEF Folds
<1> QED BY <1>2, <1>4, <1>5, <1>6, <1>7

\* and events in two parts are folded part by part.
LEMMA FoldConcat ==
    ASSUME NEW side, NEW st, NEW s, NEW t, IsSeq(s), IsSeq(t)
    PROVE  fold_all_from(side, st, s \o t) = fold_all_from(side, fold_all_from(side, st, s), t)
<1> DEFINE mid == fold_all_from(side, st, s)
           P(n) == fold_all_from(side, st, s \o SubSeq(t, 1, n)) = fold_all_from(side, mid, SubSeq(t, 1, n))
           T == {n \in Nat : n <= Len(t) => P(n)}
<1> HIDE DEF mid
<1>1. 0 \in T
  <2>1. SubSeq(t, 1, 0) = <<>> /\ s \o <<>> = s
    BY WholePrefix, ConcatEmpty
  <2>2. P(0)
    BY <2>1, FoldNone DEF mid
  <2> QED BY <2>2
<1>2. ASSUME NEW n \in Nat, n \in T PROVE n + 1 \in T
  <2> SUFFICES ASSUME n + 1 <= Len(t) PROVE P(n + 1)
    OBVIOUS
  <2>1. Len(t) \in Nat
    BY SeqShape
  <2>2. n < Len(t) /\ n <= Len(t)
    BY <2>1
  <2>3. P(n)
    BY <1>2, <2>2
  <2>4. PICK pre, x : pre = SubSeq(t, 1, n) /\ x = t[n + 1]
    OBVIOUS
  <2>5. SubSeq(t, 1, n + 1) = Append(pre, x) /\ IsSeq(pre)
    BY <2>2, <2>4, PrefixGrows
  <2>6. s \o Append(pre, x) = Append(s \o pre, x) /\ IsSeq(s \o pre)
    <3>1. IsSeq(s) /\ IsSeq(pre)
      BY <2>5
    <3> HIDE <2>4, <2>5
    <3>2. s \o Append(pre, x) = Append(s \o pre, x)
      BY <3>1, ConcatGrows
    <3>3. IsSeq(s \o pre)
      BY <3>1, ConcatGrows
    <3> QED BY <3>2, <3>3
  <2>7. fold_all_from(side, st, Append(s \o pre, x)) = fold_event(side, fold_all_from(side, st, s \o pre), x)
    BY <2>6, FoldOneMore
  <2>8. fold_all_from(side, mid, Append(pre, x)) = fold_event(side, fold_all_from(side, mid, pre), x)
    BY <2>5, FoldOneMore
  <2> QED BY <2>3, <2>4, <2>5, <2>6, <2>7, <2>8
<1>3. Len(t) \in T
  <2> HIDE DEF T
  <2>1. \A n \in Nat : n \in T
    BY <1>1, <1>2, SetInduction
  <2> QED BY <2>1, SeqShape
<1>4. SubSeq(t, 1, Len(t)) = t /\ Len(t) \in Nat
  BY WholePrefix, SeqShape
<1>5. P(Len(t))
  BY <1>3, <1>4
<1>6. fold_all_from(side, st, s \o t) = fold_all_from(side, mid, t)
  BY <1>4, <1>5
<1> QED BY <1>6 DEF mid

-----------------------------------------------------------------------------
(* Events and folded states that are well formed *)

\* The types of event and the fields of a folded state.
EventTypes == Types \cup {"assistantDelta"}
Fields == {"ref", "status", "usage", "facet", "goal", "queued", "items", "approvals", "ambient"}

\* An event has the fields its type calls for.
EventOK(ev) ==
    /\ ev.type \in EventTypes
    /\ ev.type \in Snapshots =>
         (ev.snapshot.queued # None => ev.snapshot.queued \in Seq(Waiting))
    /\ ev.type = "queueUpdated" => ev.messages \in Seq(Waiting)
    /\ ev.type = "hostUiRequest" => ev.kind \in Surfaces
    /\ ev.type = "assistantDelta" =>
         {"type", "channel", "text", "ts", "entry"} \subseteq DOMAIN ev /\ IsSeq(ev.text)

\* An item has the fields its kind calls for,
ItemOK(it) ==
    /\ "kind" \in DOMAIN it
    /\ it.kind = "tool" => "id" \in DOMAIN it
    /\ it.kind = "assistant" =>
         /\ {"text", "thinking", "streaming"} \subseteq DOMAIN it
         /\ IsSeq(it.text) /\ IsSeq(it.thinking)

\* and so has a transcript.
ItemsOK(items) == IsSeq(items) /\ \A i \in DOMAIN items : ItemOK(items[i])

\* The same items, whatever of them changed.
SameItems(items, next) ==
    /\ DOMAIN next = DOMAIN items
    /\ \A i \in DOMAIN items :
         /\ next[i].kind = items[i].kind
         /\ items[i].kind = "tool" => next[i].id = items[i].id

\* A transcript of which each item is replaced keeps its shape.
LEMMA MappedIsSeq ==
    ASSUME NEW s, IsSeq(s), NEW t, t = [i \in DOMAIN s |-> t[i]]
    PROVE  IsSeq(t) /\ Len(t) = Len(s)
<1>1. PICK n \in Nat : n = Len(s)
  BY SeqShape
<1>2. DOMAIN s = 1..n
  BY <1>1, SeqShape
<1>3. t = [i \in 1..n |-> t[i]]
  BY <1>2
<1>4. \A i \in 1..n : t[i] \in ToSet(t)
  BY <1>3 DEF ToSet
<1>5. t \in [1..n -> ToSet(t)]
  BY <1>3, <1>4
<1>6. t \in Seq(ToSet(t)) /\ Len(t) = n
  BY <1>5
<1> QED BY <1>1, <1>6 DEF IsSeq

\* An item keeps what makes it well formed when none of that is written.
LEMMA ItemKept ==
    ASSUME NEW it, ItemOK(it), NEW f \in {"streaming", "completed", "status", "finished", "entry", "progress"}, NEW v
    PROVE  /\ ItemOK([it EXCEPT ![f] = v])
           /\ [it EXCEPT ![f] = v].kind = it.kind
           /\ it.kind = "tool" => [it EXCEPT ![f] = v].id = it.id
BY DEF ItemOK

\* What an operation on items may make of one of them.
Remains(it, next) ==
    /\ ItemOK(next)
    /\ next.kind = it.kind
    /\ it.kind = "tool" => next.id = it.id

LEMMA ItemsMapped ==
    ASSUME NEW items, ItemsOK(items), NEW next, next = [i \in DOMAIN items |-> next[i]],
           \A i \in DOMAIN items : Remains(items[i], next[i])
    PROVE  ItemsOK(next) /\ SameItems(items, next)
<1>1. IsSeq(next) /\ DOMAIN next = DOMAIN items
  BY MappedIsSeq DEF ItemsOK
<1> QED BY <1>1 DEF ItemsOK, SameItems, Remains

\* Where the last item of a kind is.
LEMMA LastOf ==
    ASSUME NEW s, IsSeq(s), s # <<>>
    PROVE  /\ Len(s) \in Nat /\ Len(s) > 0 /\ Len(s) \in DOMAIN s
           /\ Last(s) = s[Len(s)]
           /\ IsSeq(Front(s)) /\ s = Append(Front(s), Last(s))
<1>1. PICK S : S = ToSet(s)
  OBVIOUS
<1>2. s \in Seq(S)
  BY <1>1 DEF IsSeq
<1>3. Len(s) \in Nat /\ Len(s) > 0 /\ Len(s) \in DOMAIN s /\ Last(s) = s[Len(s)]
  BY <1>2 DEF Last
<1>4. Front(s) \in Seq(S) /\ s = Append(Front(s), Last(s))
  BY <1>2 DEF Front, Last
<1>5. IsSeq(Front(s))
  BY <1>4, SeqIsSeq
<1> QED BY <1>3, <1>4, <1>5

\* close_open_assistant, interrupt_running_tools and stamp_last_entry_id only touch the fields they write.
LEMMA ClosedItems ==
    ASSUME NEW items, ItemsOK(items), NEW at
    PROVE  /\ ItemsOK(close_open_assistant(items, at))
           /\ SameItems(items, close_open_assistant(items, at))
<1>1. CASE ~open_assistant(items)
  BY <1>1 DEF close_open_assistant, SameItems
<1>2. CASE open_assistant(items)
  <2>1. PICK n : n = Len(items)
    OBVIOUS
  <2>2. n \in DOMAIN items
    BY <2>1, <1>2, LastOf DEF open_assistant, ItemsOK
  <2>3. PICK closed : closed = [[items[n] EXCEPT !["streaming"] = FALSE]
                          EXCEPT !["completed"] = IF at = None THEN items[n].completed ELSE at]
    OBVIOUS
  <2>4. Remains(items[n], closed)
    <3>1. PICK mid : mid = [items[n] EXCEPT !["streaming"] = FALSE]
      OBVIOUS
    <3>2. ItemOK(mid) /\ mid.kind = items[n].kind /\ (items[n].kind = "tool" => mid.id = items[n].id)
      BY <2>2, <3>1, ItemKept DEF ItemsOK
    <3>3. PICK v : v = IF at = None THEN items[n].completed ELSE at
      OBVIOUS
    <3>4. closed = [mid EXCEPT !["completed"] = v]
      BY <2>3, <3>1, <3>3
    <3>5. ItemOK(closed) /\ closed.kind = mid.kind /\ (mid.kind = "tool" => closed.id = mid.id)
      BY <3>2, <3>4, ItemKept
    <3> QED BY <3>2, <3>5 DEF Remains
  <2>5. PICK next : next = close_open_assistant(items, at)
    OBVIOUS
  <2>6. next = [i \in DOMAIN items |-> IF i = n THEN closed ELSE items[i]]
    BY <1>2, <2>1, <2>2, <2>3, <2>5 DEF close_open_assistant
  <2>7. \A i \in DOMAIN items : Remains(items[i], next[i])
    BY <2>4, <2>6 DEF Remains, ItemsOK
  <2>8. next = [i \in DOMAIN items |-> next[i]]
    BY <2>6
  <2> QED BY <2>5, <2>7, <2>8, ItemsMapped
<1> QED BY <1>1, <1>2

LEMMA InterruptedItems ==
    ASSUME NEW items, ItemsOK(items), NEW at
    PROVE  /\ ItemsOK(interrupt_running_tools(items, at))
           /\ SameItems(items, interrupt_running_tools(items, at))
<1>1. PICK next : next = interrupt_running_tools(items, at)
  OBVIOUS
<1>2. next = [i \in DOMAIN items |-> next[i]]
  BY <1>1 DEF interrupt_running_tools
<1>3. ASSUME NEW i \in DOMAIN items PROVE Remains(items[i], next[i])
  <2>1. ItemOK(items[i])
    BY <1>3 DEF ItemsOK
  <2>2. CASE items[i].kind = "tool" /\ items[i].status = "running"
    <3>1. PICK mid : mid = [items[i] EXCEPT !["status"] = "interrupted"]
      OBVIOUS
    <3>2. ItemOK(mid) /\ mid.kind = items[i].kind /\ (items[i].kind = "tool" => mid.id = items[i].id)
      BY <2>1, <3>1, ItemKept
    <3>3. next[i] = [mid EXCEPT !["finished"] = at]
      BY <1>1, <1>3, <2>2, <3>1 DEF interrupt_running_tools
    <3>4. PICK new : new = [mid EXCEPT !["finished"] = at]
      OBVIOUS
    <3>5. ItemOK(new) /\ new.kind = mid.kind /\ (mid.kind = "tool" => new.id = mid.id)
      BY <3>2, <3>4, ItemKept
    <3> QED BY <3>2, <3>3, <3>4, <3>5 DEF Remains
  <2>3. CASE ~(items[i].kind = "tool" /\ items[i].status = "running")
    <3>1. next[i] = items[i]
      BY <1>1, <1>3, <2>3 DEF interrupt_running_tools
    <3> QED BY <2>1, <3>1 DEF Remains
  <2> QED BY <2>2, <2>3
<1> QED BY <1>1, <1>2, <1>3, ItemsMapped

LEMMA StampedItems ==
    ASSUME NEW items, ItemsOK(items), NEW kind, NEW entry
    PROVE  /\ ItemsOK(stamp_last_entry_id(items, kind, entry))
           /\ SameItems(items, stamp_last_entry_id(items, kind, entry))
<1>1. CASE entry = None
  BY <1>1 DEF stamp_last_entry_id, SameItems
<1>2. CASE entry # None
  <2>1. PICK next : next = stamp_last_entry_id(items, kind, entry)
    OBVIOUS
  <2>2. next = [i \in DOMAIN items |-> next[i]]
    BY <1>2, <2>1 DEF stamp_last_entry_id
  <2>3. ASSUME NEW i \in DOMAIN items PROVE Remains(items[i], next[i])
    <3>1. ItemOK(items[i])
      BY <2>3 DEF ItemsOK
    <3>2. PICK new : new = [items[i] EXCEPT !["entry"] = entry]
      OBVIOUS
    <3>3. ItemOK(new) /\ new.kind = items[i].kind /\ (items[i].kind = "tool" => new.id = items[i].id)
      BY <3>1, <3>2, ItemKept
    <3>4. next[i] = items[i] \/ next[i] = new
      BY <1>2, <2>1, <2>3, <3>2 DEF stamp_last_entry_id
    <3> QED BY <3>1, <3>3, <3>4 DEF Remains
  <2> QED BY <2>1, <2>2, <2>3, ItemsMapped
<1> QED BY <1>1, <1>2

-----------------------------------------------------------------------------
(* The tool cards of a transcript *)

\* No call has two cards.
Unique(items) ==
    \A i, j \in DOMAIN items :
      items[i].kind = "tool" /\ items[j].kind = "tool" /\ items[i].id = items[j].id => i = j

\* None of these calls has a card.
Fresh(items, calls) == \A c \in calls : c \notin Calls(items)

\* What an event makes of a transcript, `calls` being those it may add.
Evolves(items, next, calls) ==
    /\ ItemsOK(next)
    /\ \A c \in Calls(next) : c \in Calls(items) \cup calls
    /\ Unique(items) /\ Fresh(items, calls) => Unique(next)

\* How each operation on a transcript evolves it.
LEMMA CallsShown ==
    ASSUME NEW items, NEW c
    PROVE  c \in Calls(items) <=> \E i \in DOMAIN items : items[i].kind = "tool" /\ items[i].id = c
BY DEF Calls, ToSet

LEMMA SameEvolves ==
    ASSUME NEW items, NEW next, ItemsOK(next), SameItems(items, next), NEW calls
    PROVE  Evolves(items, next, calls)
<1>1. \A c \in Calls(next) : c \in Calls(items)
  <2> TAKE c \in Calls(next)
  <2>1. PICK i \in DOMAIN next : next[i].kind = "tool" /\ next[i].id = c
    BY CallsShown
  <2>2. i \in DOMAIN items /\ items[i].kind = "tool" /\ items[i].id = c
    BY <2>1 DEF SameItems
  <2> QED BY <2>2, CallsShown
<1>2. Unique(items) => Unique(next)
  BY DEF Unique, SameItems
<1> QED BY <1>1, <1>2 DEF Evolves

LEMMA EvolvesThenSame ==
    ASSUME NEW items, NEW mid, NEW next, NEW calls,
           Evolves(items, mid, calls), ItemsOK(next), SameItems(mid, next)
    PROVE  Evolves(items, next, calls)
<1>1. Evolves(mid, next, calls)
  BY SameEvolves
<1>2. \A c \in Calls(next) : c \in Calls(mid)
  <2> TAKE c \in Calls(next)
  <2>1. PICK i \in DOMAIN next : next[i].kind = "tool" /\ next[i].id = c
    BY CallsShown
  <2>2. i \in DOMAIN mid /\ mid[i].kind = "tool" /\ mid[i].id = c
    BY <2>1 DEF SameItems
  <2> QED BY <2>2, CallsShown
<1>3. Unique(mid) => Unique(next)
  BY DEF Unique, SameItems
<1> QED BY <1>2, <1>3 DEF Evolves

LEMMA PushEvolves ==
    ASSUME NEW items, NEW mid, ItemsOK(mid), SameItems(items, mid), NEW it, ItemOK(it),
           NEW calls, it.kind = "tool" => it.id \in calls
    PROVE  Evolves(items, Append(mid, it), calls)
<1>1. PICK next, n : next = Append(mid, it) /\ n = Len(mid)
  OBVIOUS
<1>2. /\ IsSeq(next) /\ Len(next) = n + 1 /\ n \in Nat
      /\ \A i \in 1..n : next[i] = mid[i]
      /\ next[n + 1] = it
      /\ DOMAIN next = 1..n + 1 /\ DOMAIN mid = 1..n
  <2>1. IsSeq(mid)
    BY DEF ItemsOK
  <2> QED BY <1>1, <2>1, AppendIsSeq, SeqShape
<1>3. \A i \in DOMAIN next : (i \in DOMAIN mid /\ next[i] = mid[i]) \/ (i = n + 1 /\ next[i] = it)
  BY <1>2
<1>4. ItemsOK(next)
  BY <1>2, <1>3 DEF ItemsOK
<1>5. \A c \in Calls(next) : c \in Calls(items) \cup calls
  <2> TAKE c \in Calls(next)
  <2>1. PICK i \in DOMAIN next : next[i].kind = "tool" /\ next[i].id = c
    BY CallsShown
  <2>2. CASE i \in DOMAIN mid /\ next[i] = mid[i]
    <3>1. i \in DOMAIN items /\ items[i].kind = "tool" /\ items[i].id = c
      BY <2>1, <2>2 DEF SameItems
    <3> QED BY <3>1, CallsShown
  <2>3. CASE next[i] = it
    BY <2>1, <2>3
  <2> QED BY <1>3, <2>2, <2>3
<1>6. Unique(items) /\ Fresh(items, calls) => Unique(next)
  <2> SUFFICES ASSUME Unique(items), Fresh(items, calls), NEW i \in DOMAIN next, NEW j \in DOMAIN next,
                      next[i].kind = "tool", next[j].kind = "tool", next[i].id = next[j].id
               PROVE  i = j
    BY DEF Unique
  <2>1. ASSUME NEW k \in DOMAIN mid, mid[k].kind = "tool", it.kind = "tool" PROVE mid[k].id # it.id
    <3>1. k \in DOMAIN items /\ items[k].kind = "tool" /\ items[k].id = mid[k].id
      BY <2>1 DEF SameItems
    <3>2. items[k].id \in Calls(items)
      BY <3>1, CallsShown
    <3> QED BY <2>1, <3>1, <3>2 DEF Fresh
  <2>2. CASE i \in DOMAIN mid /\ next[i] = mid[i] /\ j \in DOMAIN mid /\ next[j] = mid[j]
    BY <2>2 DEF SameItems, Unique
  <2>3. CASE i \in DOMAIN mid /\ next[i] = mid[i] /\ j = n + 1 /\ next[j] = it
    BY <2>1, <2>3
  <2>4. CASE i = n + 1 /\ next[i] = it /\ j \in DOMAIN mid /\ next[j] = mid[j]
    BY <2>1, <2>4
  <2>5. CASE i = n + 1 /\ j = n + 1
    BY <2>5
  <2> QED BY <1>3, <2>2, <2>3, <2>4, <2>5
<1> QED BY <1>1, <1>4, <1>5, <1>6 DEF Evolves

LEMMA ClearEvolves ==
    ASSUME NEW items, NEW calls
    PROVE  Evolves(items, <<>>, calls)
<1>1. PICK none : none = <<>>
  OBVIOUS
<1>2. DOMAIN none = {}
  BY <1>1
<1>3. none \in Seq({})
  BY <1>1
<1>4. IsSeq(none)
  BY <1>3, SeqIsSeq
<1>5. \A c \in Calls(none) : c \in Calls(items) \cup calls
  BY <1>2, CallsShown
<1> QED BY <1>1, <1>2, <1>4, <1>5 DEF Evolves, ItemsOK, Unique

-----------------------------------------------------------------------------
(* What an event makes of a folded state *)

\* fold_event picks one arm by the type of the event,
LEMMA FoldArms ==
    ASSUME NEW side, NEW st, NEW ev
    PROVE  /\ ev.type \in Snapshots => fold_event(side, st, ev) = fold_snapshot(st, ev)
           /\ ev.type = "userMessage" => fold_event(side, st, ev) = push_item(st, [kind |-> "user", ts |-> ev.ts, entry |-> ev.entry])
           /\ ev.type \in {"customMessage", "extensionCompatibilityIssue"} =>
                fold_event(side, st, ev) = push_item(st, [kind |-> "notice", ts |-> ev.ts])
           /\ ev.type = "queuedMessageStarted" =>
                fold_event(side, st, ev) = [push_item(st, [kind |-> "user", ts |-> ev.created, entry |-> None])
                                              EXCEPT !.queued = without(@, ev.id)]
           /\ ev.type = "queueUpdated" => fold_event(side, st, ev) = [st EXCEPT !.queued = ev.messages]
           /\ ev.type = "assistantDelta" => fold_event(side, st, ev) = fold_delta(st, ev)
           /\ ev.type = "toolStarted" =>
                fold_event(side, st, ev) = push_item(st, [kind |-> "tool", id |-> ev.call, ts |-> ev.ts,
                          status |-> "running", progress |-> None, finished |-> None])
           /\ ev.type = "toolUpdated" => fold_event(side, st, ev) = fold_tool_updated(side, st, ev)
           /\ ev.type = "toolFinished" => fold_event(side, st, ev) = fold_tool_finished(side, st, ev)
           /\ ev.type = "usageUpdated" => fold_event(side, st, ev) = [st EXCEPT !.usage = ev.usage]
           /\ ev.type = "runFailed" =>
                fold_event(side, st, ev) = [st EXCEPT !.status = "failed",
                      !.items = Append(interrupt_running_tools(close_open_assistant(@, None), ev.ts),
                                       [kind |-> "notice", ts |-> ev.ts])]
           /\ ev.type = "hostUiRequest" => fold_event(side, st, ev) = fold_host_ui(st, ev)
           /\ ev.type = "hostUiResolved" => fold_event(side, st, ev) = [st EXCEPT !.approvals = without(@, ev.id)]
           /\ ev.type = "sessionClosed" =>
                fold_event(side, st, ev) = [st EXCEPT !.status = IF ev.failed THEN "failed" ELSE "idle",
                      !.items = interrupt_running_tools(close_open_assistant(@, ev.ts), ev.ts)]
           /\ ev.type = "sessionReset" => fold_event(side, st, ev) = [st EXCEPT !.items = <<>>]
BY DEF fold_event, Snapshots

\* and one by the type of the request.
LEMMA HostUiArms ==
    ASSUME NEW st, NEW ev
    PROVE  /\ ev.kind = "dialog" => fold_host_ui(st, ev) =
                IF ev.id \in ToSet(st.approvals) THEN st ELSE [st EXCEPT !.approvals = Append(@, ev.id)]
           /\ ev.kind = "status" => fold_host_ui(st, ev) =
                [st EXCEPT !.ambient =
                   [k \in (IF ev.text = None THEN DOMAIN @ \ {ev.id} ELSE DOMAIN @ \cup {ev.id}) |->
                      IF k = ev.id THEN ev.text ELSE @[k]]]
           /\ ev.kind = "notify" => fold_host_ui(st, ev) = push_item(st, [kind |-> "notice", ts |-> ev.ts])
           /\ ev.kind = "reset" => fold_host_ui(st, ev) = [st EXCEPT !.ambient = [k \in {} |-> None]]
           /\ ev.kind = "editorText" => fold_host_ui(st, ev) = st
BY DEF fold_host_ui

\* The call an event opens a card for.
Started(ev) == IF ev.type = "toolStarted" THEN {ev.call} ELSE {}

\* A folded state has its fields and no other.
Shape(st) == st = [x \in Fields |-> st[x]]

\* The items the arms push are well formed.
LEMMA SimpleItems ==
    ASSUME NEW ts, NEW id, NEW other
    PROVE  /\ ItemOK([kind |-> "user", ts |-> ts, entry |-> other])
           /\ ItemOK([kind |-> "notice", ts |-> ts])
           /\ ItemOK([kind |-> "tool", id |-> id, ts |-> ts, status |-> "running", progress |-> None, finished |-> None])
BY DEF ItemOK

\* An item that is pushed is well formed.
LEMMA PushedState ==
    ASSUME NEW st, Shape(st), ItemsOK(st.items), NEW it, ItemOK(it), NEW calls, it.kind = "tool" => it.id \in calls
    PROVE  /\ Shape(push_item(st, it))
           /\ Evolves(st.items, push_item(st, it).items, calls)
           /\ \A x \in Fields \ {"items"} : push_item(st, it)[x] = st[x]
<1>1. PICK closed : closed = close_open_assistant(st.items, None)
  OBVIOUS
<1>2. ItemsOK(closed) /\ SameItems(st.items, closed)
  BY <1>1, ClosedItems
<1>3. PICK items : items = st.items
  OBVIOUS
<1>4. Evolves(items, Append(closed, it), calls)
  BY <1>2, <1>3, PushEvolves
<1>5. push_item(st, it) = [st EXCEPT !.items = Append(closed, it)]
  BY <1>1 DEF push_item
<1> QED BY <1>3, <1>4, <1>5 DEF Shape, Fields

-----------------------------------------------------------------------------
(* Deltas *)

\* An assistant item as a delta finds or makes it, and what the delta makes of it.
Bubble(ts, entry) ==
    [kind |-> "assistant", ts |-> ts, text |-> <<>>, thinking |-> <<>>, streaming |-> TRUE,
     completed |-> None, entry |-> entry]

Opened(items, ts, entry) == IF open_assistant(items) THEN items ELSE Append(items, Bubble(ts, entry))

Channelled(channel) == IF channel = "thinking" THEN "thinking" ELSE "text"

Extended(items, f, text) ==
    [i \in DOMAIN items |->
       IF i = Len(items) THEN [x \in DOMAIN items[i] |-> IF x = f THEN items[i][f] \o text ELSE items[i][x]]
       ELSE items[i]]

\* A delta finds an open bubble or opens one,
LEMMA DeltaOpens ==
    ASSUME NEW items, ItemsOK(items), NEW ts, NEW entry,
           NEW opened, opened = Opened(items, ts, entry)
    PROVE  /\ ItemsOK(opened) /\ Evolves(items, opened, {})
           /\ Len(opened) \in DOMAIN opened
           /\ opened[Len(opened)].kind = "assistant" /\ opened[Len(opened)].streaming
<1>1. CASE open_assistant(items)
  <2>1. opened = items
    BY <1>1 DEF Opened
  <2>2. SameItems(items, opened)
    BY <2>1 DEF SameItems
  <2>3. IsSeq(items) /\ items # <<>> /\ Last(items).kind = "assistant" /\ Last(items).streaming
    BY <1>1 DEF open_assistant, ItemsOK
  <2>4. Len(items) \in DOMAIN items /\ Last(items) = items[Len(items)]
    BY <2>3, LastOf
  <2> QED BY <2>1, <2>2, <2>3, <2>4, SameEvolves
<1>2. CASE ~open_assistant(items)
  <2>1. PICK it : it = Bubble(ts, entry)
    OBVIOUS
  <2>2. opened = Append(items, it)
    BY <1>2, <2>1 DEF Opened
  <2>3. ItemOK(it) /\ it.kind = "assistant" /\ it.streaming
    <3>1. <<>> \in Seq({})
      OBVIOUS
    <3>2. IsSeq(<<>>)
      BY <3>1, SeqIsSeq
    <3> QED BY <2>1, <3>2 DEF Bubble, ItemOK
  <2>4. SameItems(items, items)
    BY DEF SameItems
  <2>5. Evolves(items, opened, {})
    BY <2>2, <2>3, <2>4, PushEvolves
  <2>6. IsSeq(items)
    BY DEF ItemsOK
  <2>7. Len(items) \in Nat /\ Len(opened) = Len(items) + 1 /\ opened[Len(items) + 1] = it /\ IsSeq(opened)
    BY <2>2, <2>6, AppendIsSeq, SeqShape
  <2>8. Len(opened) \in DOMAIN opened
    BY <2>7, SeqShape
  <2> QED BY <2>3, <2>5, <2>7, <2>8 DEF Evolves
<1> QED BY <1>1, <1>2

LEMMA ConcatIsSeq ==
    ASSUME NEW s, NEW t, NEW u, IsSeq(s), IsSeq(t), IsSeq(u)
    PROVE  IsSeq(s \o t) /\ (s \o t) \o u = s \o (t \o u)
<1>1. PICK S : S = ToSet(s) \cup ToSet(t) \cup ToSet(u)
  OBVIOUS
<1>2. s \in Seq(S) /\ t \in Seq(S) /\ u \in Seq(S)
  BY <1>1 DEF IsSeq
<1>3. s \o t \in Seq(S)
  BY <1>2
<1>4. IsSeq(s \o t)
  BY <1>3, SeqIsSeq
<1> QED BY <1>2, <1>4

\* writes its channel there,
LEMMA DeltaExtends ==
    ASSUME NEW items, ItemsOK(items), Len(items) \in DOMAIN items, items[Len(items)].kind = "assistant",
           NEW f \in {"text", "thinking"}, NEW text, IsSeq(text),
           NEW next, next = Extended(items, f, text)
    PROVE  /\ ItemsOK(next) /\ SameItems(items, next)
           /\ Len(next) = Len(items) /\ Last(next) = next[Len(items)] /\ next # <<>>
           /\ next[Len(items)].kind = "assistant" /\ next[Len(items)].streaming = items[Len(items)].streaming
           /\ next[Len(items)][f] = items[Len(items)][f] \o text
<1>1. PICK n, it, new : n = Len(items) /\ it = items[n] /\ new = [x \in DOMAIN it |-> IF x = f THEN it[f] \o text ELSE it[x]]
  OBVIOUS
<1>2. next = [i \in DOMAIN items |-> IF i = n THEN new ELSE items[i]]
  BY <1>1 DEF Extended
<1>3. ItemOK(it) /\ it.kind = "assistant"
  BY <1>1 DEF ItemsOK
<1>4. {"kind", "text", "thinking", "streaming"} \subseteq DOMAIN it /\ IsSeq(it.text) /\ IsSeq(it.thinking)
  BY <1>3 DEF ItemOK
<1>5. IsSeq(it[f]) /\ f \in DOMAIN it
  BY <1>4
<1>6. PICK was : was = it[f]
  OBVIOUS
<1>7. IsSeq(was \o text)
  BY <1>5, <1>6, ConcatIsSeq
<1>8. PICK longer : longer = it[f] \o text
  OBVIOUS
<1>9. new = [x \in DOMAIN it |-> IF x = f THEN longer ELSE it[x]] /\ IsSeq(longer)
  BY <1>1, <1>6, <1>7, <1>8
<1>10. new.kind = "assistant" /\ new.streaming = it.streaming /\ new[f] = longer /\ IsSeq(new.text) /\ IsSeq(new.thinking)
       /\ DOMAIN new = DOMAIN it
  BY <1>3, <1>4, <1>5, <1>9
<1>11. Remains(it, new)
  BY <1>3, <1>4, <1>10 DEF Remains, ItemOK
<1>12. \A i \in DOMAIN items : Remains(items[i], next[i])
  BY <1>1, <1>2, <1>11 DEF Remains, ItemsOK
<1>13. next = [i \in DOMAIN items |-> next[i]]
  BY <1>2
<1>14. ItemsOK(next) /\ SameItems(items, next)
  BY <1>12, <1>13, ItemsMapped
<1>15. n \in DOMAIN next /\ next[n] = new
  BY <1>1, <1>2
<1>16. Len(next) = n
  BY <1>1, <1>13, MappedIsSeq DEF ItemsOK
<1>17. next # <<>>
  BY <1>15
<1>18. Last(next) = next[n]
  BY <1>14, <1>16, <1>17, LastOf DEF ItemsOK
<1> QED BY <1>1, <1>8, <1>10, <1>14, <1>15, <1>16, <1>17, <1>18

\* and does nothing else.
LEMMA DeltaIs ==
    ASSUME NEW st, Shape(st), ItemsOK(st.items), NEW ev,
           NEW opened, opened = Opened(st.items, ev.ts, ev.entry)
    PROVE  fold_delta(st, ev) = [st EXCEPT !.items = Extended(opened, Channelled(ev.channel), ev.text)]
<1>1. ItemsOK(opened) /\ Len(opened) \in DOMAIN opened /\ opened[Len(opened)].kind = "assistant"
  <2>1. PICK items, ts, entry : items = st.items /\ ts = ev.ts /\ entry = ev.entry
    OBVIOUS
  <2> QED BY <2>1, DeltaOpens
<1>2. PICK n, it : n = Len(opened) /\ it = opened[n]
  OBVIOUS
<1>3. {"text", "thinking"} \subseteq DOMAIN it
  BY <1>1, <1>2 DEF ItemsOK, ItemOK
<1>4. opened = IF open_assistant(st.items) THEN st.items
               ELSE Append(st.items, [kind |-> "assistant", ts |-> ev.ts, text |-> <<>>,
                          thinking |-> <<>>, streaming |-> TRUE, completed |-> None, entry |-> ev.entry])
  BY DEF Opened, Bubble
<1>5. fold_delta(st, ev) = [st EXCEPT !.items =
           IF ev.channel = "thinking"
           THEN [opened EXCEPT ![n].thinking = @ \o ev.text]
           ELSE [opened EXCEPT ![n].text = @ \o ev.text]]
  BY <1>2, <1>4 DEF fold_delta
<1>6. CASE ev.channel = "thinking"
  <2>1. Extended(opened, "thinking", ev.text) = [opened EXCEPT ![n].thinking = @ \o ev.text]
    BY <1>1, <1>2, <1>3 DEF Extended
  <2> QED BY <1>5, <1>6, <2>1 DEF Channelled
<1>7. CASE ev.channel # "thinking"
  <2>1. Extended(opened, "text", ev.text) = [opened EXCEPT ![n].text = @ \o ev.text]
    BY <1>1, <1>2, <1>3 DEF Extended
  <2> QED BY <1>5, <1>7, <2>1 DEF Channelled
<1> QED BY <1>6, <1>7

LEMMA DeltaExpands ==
    ASSUME NEW st, Shape(st), ItemsOK(st.items), NEW ev
    PROVE  fold_delta(st, ev) = [st EXCEPT !.items =
             Extended(Opened(st.items, ev.ts, ev.entry), Channelled(ev.channel), ev.text)]
<1>1. PICK opened : opened = Opened(st.items, ev.ts, ev.entry)
  OBVIOUS
<1>2. fold_delta(st, ev) = [st EXCEPT !.items = Extended(opened, Channelled(ev.channel), ev.text)]
  BY <1>1, DeltaIs
<1> QED BY <1>1, <1>2

LEMMA DeltaState ==
    ASSUME NEW st, Shape(st), ItemsOK(st.items), NEW ev, IsSeq(ev.text)
    PROVE  /\ Shape(fold_delta(st, ev))
           /\ Evolves(st.items, fold_delta(st, ev).items, {})
           /\ \A x \in Fields \ {"items"} : fold_delta(st, ev)[x] = st[x]
<1>1. PICK opened : opened = Opened(st.items, ev.ts, ev.entry)
  OBVIOUS
<1>2. PICK items, ts, entry, f, text : items = st.items /\ ts = ev.ts /\ entry = ev.entry
                                       /\ f = Channelled(ev.channel) /\ text = ev.text
  OBVIOUS
<1>3. ItemsOK(opened) /\ Evolves(items, opened, {}) /\ Len(opened) \in DOMAIN opened /\ opened[Len(opened)].kind = "assistant"
  BY <1>1, <1>2, DeltaOpens
<1>4. PICK next : next = Extended(opened, f, text)
  OBVIOUS
<1>5. f \in {"text", "thinking"} /\ IsSeq(text)
  BY <1>2 DEF Channelled
<1>6. ItemsOK(next) /\ SameItems(opened, next)
  BY <1>3, <1>4, <1>5, DeltaExtends
<1>7. Evolves(items, next, {})
  BY <1>3, <1>6, EvolvesThenSame
<1>8. fold_delta(st, ev) = [st EXCEPT !.items = next]
  BY <1>1, <1>2, <1>4, DeltaIs
<1> QED BY <1>2, <1>7, <1>8 DEF Shape, Fields

\* Two texts in a row are their join.
LEMMA ExtendedTwice ==
    ASSUME NEW items, ItemsOK(items), Len(items) \in DOMAIN items, items[Len(items)].kind = "assistant",
           NEW f \in {"text", "thinking"}, NEW s, IsSeq(s), NEW t, IsSeq(t),
           NEW once, once = Extended(items, f, s)
    PROVE  Extended(once, f, t) = Extended(items, f, s \o t)
<1>1. PICK n, it : n = Len(items) /\ it = items[n]
  OBVIOUS
<1>2. f \in DOMAIN it /\ IsSeq(it[f])
  BY <1>1 DEF ItemsOK, ItemOK
<1>3. PICK u : u = it[f]
  OBVIOUS
<1>4. (u \o s) \o t = u \o (s \o t)
  BY <1>2, <1>3, ConcatIsSeq
<1>5. PICK us, ust : us = u \o s /\ ust = u \o (s \o t)
  OBVIOUS
<1>6. PICK new, newer : new = [x \in DOMAIN it |-> IF x = f THEN us ELSE it[x]]
                        /\ newer = [x \in DOMAIN it |-> IF x = f THEN ust ELSE it[x]]
  OBVIOUS
<1>7. once = [i \in DOMAIN items |-> IF i = n THEN new ELSE items[i]]
  BY <1>1, <1>3, <1>5, <1>6 DEF Extended
<1>8. Len(once) = n /\ DOMAIN once = DOMAIN items
  BY <1>1, <1>7, MappedIsSeq DEF ItemsOK
<1>9. [x \in DOMAIN new |-> IF x = f THEN new[f] \o t ELSE new[x]] = newer
  BY <1>2, <1>4, <1>5, <1>6
<1>10. once[n] = new
  BY <1>1, <1>7
<1>11. Extended(once, f, t) = [i \in DOMAIN items |-> IF i = n THEN newer ELSE once[i]]
  BY <1>8, <1>9, <1>10 DEF Extended
<1>12. Extended(items, f, s \o t) = [i \in DOMAIN items |-> IF i = n THEN newer ELSE items[i]]
  BY <1>1, <1>3, <1>5, <1>6 DEF Extended
<1>13. \A i \in DOMAIN items : i # n => once[i] = items[i]
  BY <1>7
<1> QED BY <1>11, <1>12, <1>13

\* What append_event and the hold of the hub make of two deltas.
Joined(a, b, m) ==
    /\ IsSeq(a.text) /\ IsSeq(b.text) /\ a.channel = b.channel
    /\ m.text = a.text \o b.text /\ m.channel = a.channel /\ m.ts = a.ts /\ m.entry = a.entry

\* Two deltas of one channel say what their join says.
LEMMA DeltasJoin ==
    ASSUME NEW st, Shape(st), ItemsOK(st.items), NEW a, NEW b, NEW m, Joined(a, b, m)
    PROVE  fold_delta(fold_delta(st, a), b) = fold_delta(st, m)
<1>0. /\ IsSeq(a.text) /\ IsSeq(b.text) /\ a.channel = b.channel
      /\ m.text = a.text \o b.text /\ m.channel = a.channel /\ m.ts = a.ts /\ m.entry = a.entry
  BY DEF Joined
<1>1. PICK opened : opened = Opened(st.items, a.ts, a.entry)
  OBVIOUS
<1>2. PICK items, ts, entry, f, s, t : items = st.items /\ ts = a.ts /\ entry = a.entry
                                       /\ f = Channelled(a.channel) /\ s = a.text /\ t = b.text
  OBVIOUS
<1>3. ItemsOK(opened) /\ Len(opened) \in DOMAIN opened /\ opened[Len(opened)].kind = "assistant" /\ opened[Len(opened)].streaming
  BY <1>1, <1>2, DeltaOpens
<1>4. f \in {"text", "thinking"} /\ IsSeq(s) /\ IsSeq(t)
  BY <1>0, <1>2 DEF Channelled
<1>5. PICK once : once = Extended(opened, f, s)
  OBVIOUS
<1>6. /\ ItemsOK(once) /\ Len(once) = Len(opened) /\ DOMAIN once = DOMAIN opened /\ Last(once) = once[Len(opened)] /\ once # <<>>
      /\ once[Len(opened)].kind = "assistant" /\ once[Len(opened)].streaming = opened[Len(opened)].streaming
  <2>1. /\ ItemsOK(once) /\ SameItems(opened, once) /\ Len(once) = Len(opened)
        /\ Last(once) = once[Len(opened)] /\ once # <<>>
        /\ once[Len(opened)].kind = "assistant" /\ once[Len(opened)].streaming = opened[Len(opened)].streaming
    <3>1. ItemsOK(opened) /\ Len(opened) \in DOMAIN opened /\ opened[Len(opened)].kind = "assistant" /\ f \in {"text", "thinking"} /\ IsSeq(s)
      BY <1>3, <1>4
    <3> HIDE <1>1, <1>2, <1>3, <1>4
    <3>2. ItemsOK(once) /\ SameItems(opened, once)
      BY <1>5, <3>1, DeltaExtends
    <3>3. Len(once) = Len(opened) /\ Last(once) = once[Len(opened)] /\ once # <<>>
      BY <1>5, <3>1, DeltaExtends
    <3>4. once[Len(opened)].kind = "assistant"
      BY <1>5, <3>1, DeltaExtends
    <3>5. once[Len(opened)].streaming = opened[Len(opened)].streaming
      BY <1>5, <3>1, DeltaExtends
    <3> QED BY <3>2, <3>3, <3>4, <3>5
  <2>2. DOMAIN once = DOMAIN opened
    BY <2>1 DEF SameItems
  <2> QED BY <2>1, <2>2
<1>7. open_assistant(once)
  BY <1>3, <1>6 DEF open_assistant
<1>8. PICK mid : mid = fold_delta(st, a)
  OBVIOUS
<1>9. mid = [st EXCEPT !.items = once]
  BY <1>1, <1>2, <1>5, <1>8, DeltaIs
<1>10. Shape(mid) /\ mid.items = once /\ ItemsOK(mid.items)
  BY <1>6, <1>9 DEF Shape, Fields
<1>11. once = Opened(mid.items, b.ts, b.entry)
  BY <1>7, <1>10 DEF Opened
<1>12. fold_delta(mid, b) = [mid EXCEPT !.items = Extended(once, f, t)]
  <2>1. fold_delta(mid, b) = [mid EXCEPT !.items = Extended(Opened(mid.items, b.ts, b.entry), Channelled(b.channel), b.text)]
    BY <1>10, DeltaExpands
  <2>2. Channelled(b.channel) = f /\ b.text = t
    BY <1>0, <1>2
  <2>3. fold_delta(mid, b) = [mid EXCEPT !.items = Extended(once, Channelled(b.channel), b.text)]
    BY <1>11, <2>1
  <2> QED BY <2>2, <2>3
<1>13. fold_delta(st, m) = [st EXCEPT !.items = Extended(opened, f, s \o t)]
  <2>1. opened = Opened(st.items, m.ts, m.entry)
    BY <1>0, <1>1
  <2>2. fold_delta(st, m) = [st EXCEPT !.items = Extended(Opened(st.items, m.ts, m.entry), Channelled(m.channel), m.text)]
    BY DeltaExpands
  <2>3. Channelled(m.channel) = f /\ m.text = s \o t
    BY <1>0, <1>2
  <2> QED BY <2>1, <2>2, <2>3
<1>14. Extended(once, f, t) = Extended(opened, f, s \o t)
  BY <1>3, <1>4, <1>5, ExtendedTwice
<1>15. [mid EXCEPT !.items = Extended(once, f, t)] = [st EXCEPT !.items = Extended(once, f, t)]
  BY <1>9 DEF Shape, Fields
<1> QED BY <1>8, <1>12, <1>13, <1>14, <1>15

-----------------------------------------------------------------------------
(* What retain keeps *)

\* What retain has kept after each entry.
Keeping(g, s, id, L) ==
    g = [n \in 0..L |-> IF n = 0 THEN <<>> ELSE IF s[n] = id THEN g[n - 1] ELSE Append(g[n - 1], s[n])]

LEMMA KeepingExists ==
    ASSUME NEW s, NEW id, NEW L \in Nat
    PROVE  \E g : Keeping(g, s, id, L)
<1> DEFINE T == {k \in Nat : \E g : Keeping(g, s, id, k)}
<1>1. 0 \in T
  <2> DEFINE g == [n \in 0..0 |-> <<>>]
  <2>1. Keeping(g, s, id, 0)
    BY DEF Keeping
  <2> QED BY <2>1
<1>2. ASSUME NEW k \in Nat, k \in T PROVE k + 1 \in T
  <2>1. PICK g : Keeping(g, s, id, k)
    BY <1>2
  <2> DEFINE h == [n \in 0..k + 1 |-> IF n = k + 1 THEN (IF s[k + 1] = id THEN g[k] ELSE Append(g[k], s[k + 1])) ELSE g[n]]
  <2>2. \A n \in 0..k + 1 : h[n] = IF n = 0 THEN <<>> ELSE IF s[n] = id THEN h[n - 1] ELSE Append(h[n - 1], s[n])
    <3> TAKE n \in 0..k + 1
    <3>1. CASE n = k + 1
      <4>1. h[n] = (IF s[k + 1] = id THEN g[k] ELSE Append(g[k], s[k + 1])) /\ n - 1 = k /\ n # 0
        BY <3>1
      <4>2. h[k] = g[k]
        OBVIOUS
      <4> HIDE DEF h
      <4> QED BY <3>1, <4>1, <4>2
    <3>2. CASE n # k + 1
      <4>1. n \in 0..k /\ h[n] = g[n]
        BY <3>2
      <4>2. CASE n = 0
        BY <4>1, <4>2, <2>1 DEF Keeping
      <4>3. CASE n # 0
        <5>1. n - 1 \in 0..k /\ n - 1 \in 0..k + 1 /\ n - 1 # k + 1
          BY <4>1, <4>3
        <5>2. h[n - 1] = g[n - 1]
          BY <5>1
        <5> HIDE DEF h
        <5> QED BY <4>1, <4>3, <5>2, <2>1 DEF Keeping
      <4> QED BY <4>2, <4>3
    <3> QED BY <3>1, <3>2
  <2>3. Keeping(h, s, id, k + 1)
    <3> HIDE DEF T
    <3> QED BY <2>2 DEF Keeping
  <2> QED BY <2>3
<1>3. L \in T
  <2> HIDE DEF T
  <2> QED BY <1>1, <1>2, SetInduction
<1> QED BY <1>3

\* Nothing occurs twice.
Distinct(s) == \A i, j \in DOMAIN s : s[i] = s[j] => i = j

\* retain drops the one entry with that id.
LEMMA WithoutKeeps ==
    ASSUME NEW S, NEW s \in Seq(S), NEW id
    PROVE  without(s, id) \in Seq(S) /\ (Distinct(s) => Distinct(without(s, id)))
<1>1. PICK L \in Nat : L = Len(s)
  OBVIOUS
<1> DEFINE kept == CHOOSE g : Keeping(g, s, id, L)
<1>2. Keeping(kept, s, id, L)
  BY KeepingExists
<1>3. without(s, id) = kept[L]
  BY <1>1 DEF without, Keeping
<1> HIDE DEF kept
<1> DEFINE From(r, n) == \A i \in DOMAIN r : \E m \in 1..n : r[i] = s[m]
           P(n) == kept[n] \in Seq(S) /\ From(kept[n], n) /\ (Distinct(s) => Distinct(kept[n]))
           T == {n \in Nat : n <= L => P(n)}
<1>4. 0 \in T
  <2>1. kept[0] = <<>>
    BY <1>2 DEF Keeping
  <2>2. <<>> \in Seq(S) /\ DOMAIN <<>> = {}
    OBVIOUS
  <2> QED BY <2>1, <2>2 DEF Distinct
<1>5. ASSUME NEW n \in Nat, n \in T PROVE n + 1 \in T
  <2> SUFFICES ASSUME n + 1 <= L PROVE P(n + 1)
    OBVIOUS
  <2>1. PICK r : r = kept[n]
    OBVIOUS
  <2>2. r \in Seq(S) /\ From(r, n) /\ (Distinct(s) => Distinct(r))
    BY <1>5, <2>1
  <2>3. n + 1 \in 0..L /\ n + 1 # 0 /\ (n + 1) - 1 = n /\ n + 1 \in DOMAIN s /\ s[n + 1] \in S
    BY <1>1
  <2>4. kept[n + 1] = IF s[n + 1] = id THEN r ELSE Append(r, s[n + 1])
    BY <1>2, <2>1, <2>3 DEF Keeping
  <2>5. CASE s[n + 1] = id
    <3>1. kept[n + 1] = r
      BY <2>4, <2>5
    <3>2. From(r, n + 1)
      BY <2>2
    <3> QED BY <2>2, <3>1, <3>2
  <2>6. CASE s[n + 1] # id
    <3>1. PICK more, x, k : more = Append(r, x) /\ x = s[n + 1] /\ k = Len(r)
      OBVIOUS
    <3>2. kept[n + 1] = more
      BY <2>4, <2>6, <3>1
    <3>3. /\ more \in Seq(S) /\ DOMAIN more = 1..k + 1 /\ k \in Nat /\ DOMAIN r = 1..k
          /\ \A i \in 1..k : more[i] = r[i]
          /\ more[k + 1] = x
      BY <2>2, <2>3, <3>1
    <3>4. \A i \in DOMAIN more : (i \in DOMAIN r /\ more[i] = r[i]) \/ (i = k + 1 /\ more[i] = x)
      BY <3>3
    <3>5. From(more, n + 1)
      <4> SUFFICES ASSUME NEW i \in DOMAIN more PROVE \E m \in 1..n + 1 : more[i] = s[m]
        OBVIOUS
      <4>1. CASE i \in DOMAIN r /\ more[i] = r[i]
        <5>1. PICK m \in 1..n : r[i] = s[m]
          BY <2>2, <4>1
        <5> QED BY <4>1, <5>1
      <4>2. CASE more[i] = x
        BY <3>1, <4>2
      <4> QED BY <3>4, <4>1, <4>2
    <3>6. ASSUME Distinct(s) PROVE Distinct(more)
      <4>1. \A i \in DOMAIN r : r[i] # x
        <5> TAKE i \in DOMAIN r
        <5>1. PICK m \in 1..n : r[i] = s[m]
          BY <2>2
        <5>2. m \in DOMAIN s /\ m # n + 1
          BY <1>1, <5>1
        <5> QED BY <2>3, <3>1, <3>6, <5>1, <5>2 DEF Distinct
      <4>2. Distinct(r)
        BY <2>2, <3>6
      <4> QED BY <3>3, <3>4, <4>1, <4>2 DEF Distinct
    <3> QED BY <3>2, <3>3, <3>5, <3>6
  <2> QED BY <2>5, <2>6
<1>6. L \in T
  <2> HIDE DEF T
  <2> QED BY <1>4, <1>5, SetInduction
<1>7. P(L)
  BY <1>6
<1> QED BY <1>3, <1>7

LEMMA WithoutIsSeq ==
    ASSUME NEW s, IsSeq(s), NEW id
    PROVE  IsSeq(without(s, id)) /\ (Distinct(s) => Distinct(without(s, id)))
<1>1. PICK S : S = ToSet(s)
  OBVIOUS
<1>2. s \in Seq(S)
  BY <1>1 DEF IsSeq
<1> QED BY <1>2, WithoutKeeps, SeqIsSeq

-----------------------------------------------------------------------------
(* Every event keeps a folded state well formed *)

\* A well-formed state.
Typed(st) == Shape(st) /\ ItemsOK(st.items)

LEMMA EvolvesInto ==
    ASSUME NEW items, NEW next, NEW calls, NEW more, Evolves(items, next, calls), calls \subseteq more
    PROVE  Evolves(items, next, more)
BY DEF Evolves, Fresh

\* A snapshot replaces the session's reference and status.
LEMMA SnapshotState ==
    ASSUME NEW st, Typed(st), NEW ev, NEW calls
    PROVE  Shape(fold_snapshot(st, ev)) /\ Evolves(st.items, fold_snapshot(st, ev).items, calls)
<1>1. PICK s, items, at : s = ev.snapshot /\ items = st.items /\ at = ev.ts
  OBVIOUS
<1>2. PICK closed : closed = IF s.status = "running" THEN items ELSE close_open_assistant(items, at)
  OBVIOUS
<1>3. ItemsOK(closed) /\ SameItems(items, closed)
  <2>1. ItemsOK(items) /\ SameItems(items, items)
    BY <1>1 DEF Typed, SameItems
  <2> QED BY <1>2, <2>1, ClosedItems
<1>4. PICK broken, by, to : broken = interrupt_running_tools(closed, at) /\ by = ev.assistantEntry /\ to = ev.userEntry
  OBVIOUS
<1>5. ItemsOK(broken) /\ SameItems(closed, broken)
  BY <1>3, <1>4, InterruptedItems
<1>6. PICK marked : marked = stamp_last_entry_id(broken, "assistant", by)
  OBVIOUS
<1>7. ItemsOK(marked) /\ SameItems(broken, marked)
  BY <1>5, <1>6, StampedItems
<1>8. PICK twice : twice = stamp_last_entry_id(marked, "user", to)
  OBVIOUS
<1>9. ItemsOK(twice) /\ SameItems(marked, twice)
  BY <1>7, <1>8, StampedItems
<1>10. PICK settled : settled = IF ev.type # "runCompleted" THEN closed ELSE twice
  OBVIOUS
<1>11. Evolves(items, settled, calls)
  <2>1. Evolves(items, closed, calls)
    BY <1>3, SameEvolves
  <2>2. Evolves(items, broken, calls)
    BY <2>1, <1>5, EvolvesThenSame
  <2>3. Evolves(items, marked, calls)
    BY <2>2, <1>7, EvolvesThenSame
  <2>4. Evolves(items, twice, calls)
    BY <2>3, <1>9, EvolvesThenSame
  <2> QED BY <1>10, <2>1, <2>4
<1>12. fold_snapshot(st, ev) =
         [st EXCEPT !.ref = TRUE, !.status = s.status, !.items = settled,
                   !.usage = carried(s.usage, @), !.facet = carried(s.facet, @),
                   !.goal = IF s.goal = Omit THEN @ ELSE s.goal,
                   !.queued = carried(s.queued, @)]
  BY <1>1, <1>2, <1>4, <1>6, <1>8, <1>10 DEF fold_snapshot
<1>13. Shape(fold_snapshot(st, ev)) /\ fold_snapshot(st, ev).items = settled
  BY <1>12 DEF Shape, Fields, Typed
<1> QED BY <1>1, <1>11, <1>13

\* A tool event leaves the other cards alone.
LEMMA CardRemains ==
    ASSUME NEW it, ItemOK(it), NEW v, NEW w
    PROVE  /\ Remains(it, [it EXCEPT !.progress = v])
           /\ Remains(it, [it EXCEPT !.status = v, !.finished = w])
<1>1. PICK a, b, c : a = [it EXCEPT !["progress"] = v] /\ b = [it EXCEPT !["status"] = v] /\ c = [b EXCEPT !["finished"] = w]
  OBVIOUS
<1>2. Remains(it, a)
  BY <1>1 DEF Remains, ItemOK
<1>3. Remains(it, b)
  BY <1>1 DEF Remains, ItemOK
<1>4. Remains(it, c)
  BY <1>1, <1>3 DEF Remains, ItemOK
<1> QED BY <1>1, <1>2, <1>4

\* fold_event keeps a state well formed.
LEMMA FoldTyped ==
    ASSUME NEW side, NEW st, Typed(st), NEW ev, EventOK(ev)
    PROVE  Typed(fold_event(side, st, ev)) /\ Evolves(st.items, fold_event(side, st, ev).items, Started(ev))
<1>1. PICK next, items, calls : next = fold_event(side, st, ev) /\ items = st.items /\ calls = Started(ev)
  OBVIOUS
<1>2. SUFFICES Shape(next) /\ Evolves(items, next.items, calls)
  BY <1>1 DEF Typed, Evolves
<1>3. Shape(st) /\ ItemsOK(items) /\ SameItems(items, items) /\ items = st.items
  BY <1>1 DEF Typed, SameItems
<1>4. Evolves(items, items, calls)
  BY <1>3, SameEvolves
<1>5. ASSUME NEW it, ItemOK(it), it.kind = "tool" => it.id \in calls
      PROVE  Shape(push_item(st, it)) /\ Evolves(items, push_item(st, it).items, calls)
  BY <1>3, <1>5, PushedState
<1>6. \A ts, other : ItemOK([kind |-> "user", ts |-> ts, entry |-> other]) /\ ItemOK([kind |-> "notice", ts |-> ts])
  BY SimpleItems
<1>7. CASE ev.type \in Snapshots
  <2>1. next = fold_snapshot(st, ev)
    BY <1>1, <1>7 DEF fold_event, Snapshots
  <2> QED BY <1>1, <2>1, SnapshotState
<1>8. CASE ev.type = "userMessage"
  <2>1. PICK it : it = [kind |-> "user", ts |-> ev.ts, entry |-> ev.entry]
    OBVIOUS
  <2>2. next = push_item(st, it)
    BY <1>1, <1>8, <2>1 DEF fold_event
  <2> QED BY <1>5, <1>6, <2>1, <2>2
<1>9. CASE ev.type \in {"customMessage", "extensionCompatibilityIssue"}
  <2>1. PICK it : it = [kind |-> "notice", ts |-> ev.ts]
    OBVIOUS
  <2>2. next = push_item(st, it)
    BY <1>1, <1>9, <2>1 DEF fold_event
  <2> QED BY <1>5, <1>6, <2>1, <2>2
<1>10. CASE ev.type = "queuedMessageStarted"
  <2>1. PICK it, mid : it = [kind |-> "user", ts |-> ev.created, entry |-> None] /\ mid = push_item(st, it)
    OBVIOUS
  <2>2. next = [mid EXCEPT !.queued = without(@, ev.id)]
    BY <1>1, <1>10, <2>1 DEF fold_event
  <2>3. Shape(mid) /\ Evolves(items, mid.items, calls)
    BY <1>5, <1>6, <2>1
  <2> QED BY <2>2, <2>3 DEF Shape, Fields
<1>11. CASE ev.type = "queueUpdated"
  <2>1. next = [st EXCEPT !.queued = ev.messages]
    BY <1>1, <1>11 DEF fold_event
  <2> QED BY <1>3, <1>4, <2>1 DEF Shape, Fields
<1>12. CASE ev.type = "assistantDelta"
  <2>1. next = fold_delta(st, ev)
    BY <1>1, <1>12 DEF fold_event
  <2>2. IsSeq(ev.text)
    BY <1>12 DEF EventOK
  <2>3. Shape(next) /\ Evolves(items, next.items, {})
    BY <1>3, <2>1, <2>2, DeltaState
  <2> QED BY <2>3, EvolvesInto
<1>13. CASE ev.type = "toolStarted"
  <2>1. PICK it, id, ts : /\ id = ev.call /\ ts = ev.ts
                          /\ it = [kind |-> "tool", id |-> id, ts |-> ts, status |-> "running", progress |-> None, finished |-> None]
    OBVIOUS
  <2>2. next = push_item(st, it)
    BY <1>1, <1>13, <2>1 DEF fold_event
  <2>3. ItemOK(it)
    BY <2>1, SimpleItems
  <2>4. it.id \in calls
    BY <1>1, <1>13, <2>1 DEF Started
  <2> QED BY <1>5, <2>2, <2>3, <2>4
<1>14. CASE ev.type = "toolUpdated"
  <2>1. PICK cards : cards = tool_cards(side, items, ev.call)
    OBVIOUS
  <2>2. PICK to : to = [i \in DOMAIN items |-> IF i \in cards THEN [items[i] EXCEPT !.progress = carried(ev.progress, items[i].progress)] ELSE items[i]]
    OBVIOUS
  <2>3. next = [st EXCEPT !.items = to]
    <3>1. next = fold_tool_updated(side, st, ev)
      BY <1>1, <1>14 DEF fold_event
    <3>2. fold_tool_updated(side, st, ev) = [st EXCEPT !.items = to]
      BY <1>1, <2>1, <2>2 DEF fold_tool_updated
    <3> QED BY <3>1, <3>2
  <2>4. \A i \in DOMAIN items : Remains(items[i], to[i])
    <3> TAKE i \in DOMAIN items
    <3>1. ItemOK(items[i])
      BY <1>3 DEF ItemsOK
    <3>2. PICK it, v : it = items[i] /\ v = carried(ev.progress, it.progress)
      OBVIOUS
    <3>3. Remains(it, [it EXCEPT !.progress = v])
      BY <3>1, <3>2, CardRemains
    <3>4. to[i] = IF i \in cards THEN [it EXCEPT !.progress = v] ELSE it
      BY <2>2, <3>2
    <3> QED BY <3>1, <3>2, <3>3, <3>4 DEF Remains
  <2>5. to = [i \in DOMAIN items |-> to[i]]
    BY <2>2
  <2>6. ItemsOK(to) /\ SameItems(items, to)
    BY <1>3, <2>4, <2>5, ItemsMapped
  <2>7. Evolves(items, to, calls)
    BY <2>6, SameEvolves
  <2> QED BY <1>3, <2>3, <2>7 DEF Shape, Fields
<1>15. CASE ev.type = "toolFinished"
  <2>1. PICK cards : cards = tool_cards(side, items, ev.call)
    OBVIOUS
  <2>2. PICK to : to = [i \in DOMAIN items |-> IF i \in cards THEN [items[i] EXCEPT !.status = ev.status, !.finished = ev.ts] ELSE items[i]]
    OBVIOUS
  <2>3. next = [st EXCEPT !.items = to]
    BY <1>1, <1>15, <2>1, <2>2 DEF fold_event, fold_tool_finished
  <2>4. \A i \in DOMAIN items : Remains(items[i], to[i])
    <3> TAKE i \in DOMAIN items
    <3>1. ItemOK(items[i])
      BY <1>3 DEF ItemsOK
    <3>2. PICK it, v, w : it = items[i] /\ v = ev.status /\ w = ev.ts
      OBVIOUS
    <3>3. Remains(it, [it EXCEPT !.status = v, !.finished = w])
      BY <3>1, <3>2, CardRemains
    <3>4. to[i] = IF i \in cards THEN [it EXCEPT !.status = v, !.finished = w] ELSE it
      BY <2>2, <3>2
    <3> QED BY <3>1, <3>2, <3>3, <3>4 DEF Remains
  <2>5. to = [i \in DOMAIN items |-> to[i]]
    BY <2>2
  <2>6. ItemsOK(to) /\ SameItems(items, to)
    BY <1>3, <2>4, <2>5, ItemsMapped
  <2>7. Evolves(items, to, calls)
    BY <2>6, SameEvolves
  <2> QED BY <1>3, <2>3, <2>7 DEF Shape, Fields
<1>16. CASE ev.type = "usageUpdated"
  <2>1. next = [st EXCEPT !.usage = ev.usage]
    BY <1>1, <1>16 DEF fold_event
  <2> QED BY <1>3, <1>4, <2>1 DEF Shape, Fields
<1>17. CASE ev.type = "runFailed"
  <2>1. PICK at, closed, broken, it : /\ at = ev.ts /\ closed = close_open_assistant(items, None)
                                  /\ broken = interrupt_running_tools(closed, at) /\ it = [kind |-> "notice", ts |-> at]
    OBVIOUS
  <2>2. ItemsOK(closed) /\ SameItems(items, closed)
    BY <1>3, <2>1, ClosedItems
  <2>3. ItemsOK(broken) /\ SameItems(closed, broken)
    BY <2>1, <2>2, InterruptedItems
  <2>4. SameItems(items, broken)
    BY <2>2, <2>3 DEF SameItems
  <2>5. Evolves(items, Append(broken, it), calls)
    <3>1. ItemOK(it) /\ it.kind # "tool"
      BY <1>6, <2>1
    <3> QED BY <2>3, <2>4, <3>1, PushEvolves
  <2>6. next = [st EXCEPT !.status = "failed", !.items = Append(broken, it)]
    BY <1>1, <1>17, <2>1 DEF fold_event
  <2> QED BY <1>3, <2>5, <2>6 DEF Shape, Fields
<1>18. CASE ev.type = "hostUiRequest"
  <2>1. next = fold_host_ui(st, ev) /\ ev.kind \in Surfaces
    BY <1>1, <1>18 DEF fold_event, EventOK
  <2>2. CASE ev.kind = "notify"
    <3>1. PICK it : it = [kind |-> "notice", ts |-> ev.ts]
      OBVIOUS
    <3>2. next = push_item(st, it)
      BY <2>1, <2>2, <3>1, HostUiArms
    <3> QED BY <1>5, <1>6, <3>1, <3>2
  <2>3. CASE ev.kind # "notify"
    <3>1. next = st \/ (\E v : next = [st EXCEPT !.approvals = v]) \/ (\E v : next = [st EXCEPT !.ambient = v])
      BY <2>1, <2>3, HostUiArms DEF Surfaces
    <3> QED BY <1>3, <1>4, <3>1 DEF Shape, Fields
  <2> QED BY <2>2, <2>3
<1>19. CASE ev.type = "hostUiResolved"
  <2>1. next = [st EXCEPT !.approvals = without(@, ev.id)]
    BY <1>1, <1>19 DEF fold_event
  <2> QED BY <1>3, <1>4, <2>1 DEF Shape, Fields
<1>20. CASE ev.type = "sessionClosed"
  <2>1. PICK at, closed, broken : at = ev.ts /\ closed = close_open_assistant(items, at) /\ broken = interrupt_running_tools(closed, at)
    OBVIOUS
  <2>2. ItemsOK(closed) /\ SameItems(items, closed)
    BY <1>3, <2>1, ClosedItems
  <2>3. ItemsOK(broken) /\ SameItems(closed, broken)
    BY <2>1, <2>2, InterruptedItems
  <2>4. SameItems(items, broken)
    BY <2>2, <2>3 DEF SameItems
  <2>5. Evolves(items, broken, calls)
    BY <2>3, <2>4, SameEvolves
  <2>6. next = [st EXCEPT !.status = IF ev.failed THEN "failed" ELSE "idle", !.items = broken]
    BY <1>1, <1>20, <2>1 DEF fold_event
  <2> QED BY <1>3, <2>5, <2>6 DEF Shape, Fields
<1>21. CASE ev.type = "sessionReset"
  <2>1. next = [st EXCEPT !.items = <<>>]
    BY <1>1, <1>21 DEF fold_event
  <2> QED BY <1>3, <2>1, ClearEvolves DEF Shape, Fields
<1>22. ev.type \in EventTypes
  BY DEF EventOK
<1> QED BY <1>7, <1>8, <1>9, <1>10, <1>11, <1>12, <1>13, <1>14, <1>15, <1>16, <1>17, <1>18, <1>19, <1>20, <1>21, <1>22
     DEF EventTypes, Types, Snapshots

\* The ambient widgets hold a text or nothing.
AmbientOK(ambient) ==
    /\ ambient = [k \in DOMAIN ambient |-> ambient[k]]
    /\ IsFiniteSet(DOMAIN ambient)
    /\ \A k \in DOMAIN ambient : ambient[k] # None

\* What a folded state holds besides its transcript.
MetaOK(st) ==
    /\ st.goal # Omit
    /\ st.queued \in Seq(Waiting)
    /\ IsSeq(st.approvals) /\ Distinct(st.approvals)
    /\ AmbientOK(st.ambient)

\* Nothing but the transcript, the status and the usage changes.
SameMeta(st, next) == \A x \in {"ref", "goal", "queued", "approvals", "ambient"} : next[x] = st[x]

LEMMA SameMetaOK ==
    ASSUME NEW st, MetaOK(st), NEW next, SameMeta(st, next)
    PROVE  MetaOK(next) /\ (st.ref = TRUE => next.ref = TRUE)
BY DEF MetaOK, SameMeta

LEMMA AppendDistinct ==
    ASSUME NEW s, IsSeq(s), Distinct(s), NEW x, x \notin ToSet(s)
    PROVE  IsSeq(Append(s, x)) /\ Distinct(Append(s, x))
<1>1. PICK more, n : more = Append(s, x) /\ n = Len(s)
  OBVIOUS
<1>2. /\ IsSeq(more) /\ Len(more) = n + 1 /\ n \in Nat
      /\ \A i \in 1..n : more[i] = s[i]
      /\ more[n + 1] = x /\ DOMAIN more = 1..n + 1 /\ DOMAIN s = 1..n
  BY <1>1, AppendIsSeq, SeqShape
<1>3. \A i \in 1..n : s[i] # x
  BY <1>2 DEF ToSet
<1>4. Distinct(more)
  BY <1>2, <1>3 DEF Distinct
<1> QED BY <1>1, <1>2, <1>4

LEMMA AmbientWritten ==
    ASSUME NEW ambient, AmbientOK(ambient), NEW id, NEW text,
           NEW next, next = [k \in (IF text = None THEN DOMAIN ambient \ {id} ELSE DOMAIN ambient \cup {id}) |->
                               IF k = id THEN text ELSE ambient[k]]
    PROVE  AmbientOK(next)
<1>1. PICK D : D = DOMAIN ambient
  OBVIOUS
<1>2. IsFiniteSet(D) /\ \A k \in D : ambient[k] # None
  BY <1>1 DEF AmbientOK
<1>3. IsFiniteSet(D \ {id}) /\ IsFiniteSet(D \cup {id})
  BY <1>2, FS_RemoveElement, FS_AddElement
<1>4. CASE text = None
  <2>1. DOMAIN next = D \ {id} /\ (\A k \in D \ {id} : next[k] = ambient[k])
    BY <1>1, <1>4
  <2>2. next = [k \in DOMAIN next |-> next[k]]
    OBVIOUS
  <2> QED BY <1>2, <1>3, <2>1, <2>2 DEF AmbientOK
<1>5. CASE text # None
  <2>1. DOMAIN next = D \cup {id} /\ (\A k \in D \cup {id} : next[k] = IF k = id THEN text ELSE ambient[k])
    BY <1>1, <1>5
  <2>2. next = [k \in DOMAIN next |-> next[k]]
    OBVIOUS
  <2>3. \A k \in DOMAIN next : next[k] # None
    BY <1>2, <1>5, <2>1
  <2> QED BY <1>3, <2>1, <2>2, <2>3 DEF AmbientOK
<1> QED BY <1>4, <1>5

LEMMA AmbientEmpty == AmbientOK([k \in {} |-> None])
<1>1. PICK e : e = [k \in {} |-> None]
  OBVIOUS
<1>2. DOMAIN e = {} /\ e = [k \in DOMAIN e |-> e[k]]
  BY <1>1
<1> QED BY <1>1, <1>2, FS_EmptySet DEF AmbientOK

\* fold_event keeps the rest of the state well formed.
LEMMA FoldMeta ==
    ASSUME NEW side, NEW st, Typed(st), MetaOK(st), NEW ev, EventOK(ev)
    PROVE  /\ MetaOK(fold_event(side, st, ev))
           /\ st.ref = TRUE => fold_event(side, st, ev).ref = TRUE
           /\ ev.type \in Snapshots => fold_event(side, st, ev).ref = TRUE
<1>1. PICK next : next = fold_event(side, st, ev)
  OBVIOUS
<1>2. SUFFICES /\ MetaOK(next) /\ (st.ref = TRUE => next.ref = TRUE)
               /\ ev.type \in Snapshots => next.ref = TRUE
  BY <1>1
<1>3. Shape(st)
  BY DEF Typed
<1>4. CASE ev.type \in Snapshots
  <2>1. PICK s : s = ev.snapshot
    OBVIOUS
  <2>2. next = fold_snapshot(st, ev)
    BY <1>1, <1>4 DEF fold_event, Snapshots
  <2>3. PICK settled : fold_snapshot(st, ev) =
         [st EXCEPT !.ref = TRUE, !.status = s.status, !.items = settled,
                   !.usage = carried(s.usage, @), !.facet = carried(s.facet, @),
                   !.goal = IF s.goal = Omit THEN @ ELSE s.goal,
                   !.queued = carried(s.queued, @)]
    BY <2>1 DEF fold_snapshot
  <2>4. next.ref = TRUE
    BY <1>3, <2>2, <2>3 DEF Shape, Fields
  <2>5. next.goal = IF s.goal = Omit THEN st.goal ELSE s.goal
    BY <1>3, <2>2, <2>3 DEF Shape, Fields
  <2>6. next.queued = carried(s.queued, st.queued)
    BY <1>3, <2>2, <2>3 DEF Shape, Fields
  <2>7. next.approvals = st.approvals /\ next.ambient = st.ambient
    BY <1>3, <2>2, <2>3 DEF Shape, Fields
  <2>8. s.queued # None => s.queued \in Seq(Waiting)
    BY <1>4, <2>1 DEF EventOK
  <2> QED BY <2>4, <2>5, <2>6, <2>7, <2>8 DEF MetaOK, carried
<1>5. ASSUME SameMeta(st, next), ev.type \notin Snapshots
      PROVE  MetaOK(next) /\ (st.ref = TRUE => next.ref = TRUE)
  BY <1>5, SameMetaOK
<1>6. ASSUME NEW it, next = push_item(st, it) PROVE SameMeta(st, next)
  BY <1>3, <1>6 DEF push_item, SameMeta, Shape, Fields
<1>7. CASE ev.type = "userMessage"
  <2>1. SameMeta(st, next)
    BY <1>1, <1>6, <1>7 DEF fold_event
  <2> QED BY <1>5, <1>7, <2>1 DEF Snapshots
<1>8. CASE ev.type \in {"customMessage", "extensionCompatibilityIssue"}
  <2>1. SameMeta(st, next)
    BY <1>1, <1>6, <1>8 DEF fold_event
  <2> QED BY <1>5, <1>8, <2>1 DEF Snapshots
<1>9. CASE ev.type = "queuedMessageStarted"
  <2>1. PICK items : next = [[st EXCEPT !.items = items] EXCEPT !.queued = without(@, ev.id)]
    BY <1>1, <1>9 DEF fold_event, push_item
  <2>2. next.ref = st.ref /\ next.goal = st.goal /\ next.approvals = st.approvals /\ next.ambient = st.ambient
    BY <1>3, <2>1 DEF Shape, Fields
  <2>3. next.queued = without(st.queued, ev.id)
    BY <1>3, <2>1 DEF Shape, Fields
  <2>4. PICK queued, id : queued = st.queued /\ id = ev.id
    OBVIOUS
  <2>5. queued \in Seq(Waiting)
    BY <2>4 DEF MetaOK
  <2>6. without(queued, id) \in Seq(Waiting)
    BY <2>5, WithoutKeeps
  <2> QED BY <1>9, <2>2, <2>3, <2>4, <2>6 DEF MetaOK, Snapshots
<1>10. CASE ev.type = "queueUpdated"
  <2>1. next = [st EXCEPT !.queued = ev.messages]
    BY <1>1, <1>10 DEF fold_event
  <2>2. next.ref = st.ref /\ next.goal = st.goal /\ next.approvals = st.approvals /\ next.ambient = st.ambient
        /\ next.queued = ev.messages
    BY <1>3, <2>1 DEF Shape, Fields
  <2>3. ev.messages \in Seq(Waiting)
    BY <1>10 DEF EventOK
  <2> QED BY <1>10, <2>2, <2>3 DEF MetaOK, Snapshots
<1>11. CASE ev.type = "assistantDelta"
  <2>1. next = fold_delta(st, ev) /\ IsSeq(ev.text)
    BY <1>1, <1>11 DEF fold_event, EventOK
  <2>2. SameMeta(st, next)
    BY <2>1, DeltaState DEF SameMeta, Fields, Typed
  <2> QED BY <1>5, <1>11, <2>2 DEF Snapshots
<1>12. CASE ev.type = "toolStarted"
  <2>1. SameMeta(st, next)
    <3>1. \E it : next = push_item(st, it)
      BY <1>1, <1>12 DEF fold_event
    <3> QED BY <1>6, <3>1
  <2> QED BY <1>5, <1>12, <2>1 DEF Snapshots
<1>13. CASE ev.type \in {"toolUpdated", "toolFinished", "sessionReset"}
  <2>1. PICK items : next = [st EXCEPT !.items = items]
    BY <1>1, <1>13 DEF fold_event, fold_tool_updated, fold_tool_finished
  <2>2. SameMeta(st, next)
    BY <1>3, <2>1 DEF SameMeta, Shape, Fields
  <2> QED BY <1>5, <1>13, <2>2 DEF Snapshots
<1>14. CASE ev.type = "usageUpdated"
  <2>1. next = [st EXCEPT !.usage = ev.usage]
    BY <1>1, <1>14 DEF fold_event
  <2>2. SameMeta(st, next)
    BY <1>3, <2>1 DEF SameMeta, Shape, Fields
  <2> QED BY <1>5, <1>14, <2>2 DEF Snapshots
<1>15. CASE ev.type \in {"runFailed", "sessionClosed"}
  <2>1. PICK items, status : next = [st EXCEPT !.status = status, !.items = items]
    BY <1>1, <1>15 DEF fold_event
  <2>2. SameMeta(st, next)
    BY <1>3, <2>1 DEF SameMeta, Shape, Fields
  <2> QED BY <1>5, <1>15, <2>2 DEF Snapshots
<1>16. CASE ev.type = "hostUiRequest"
  <2>1. next = fold_host_ui(st, ev) /\ ev.kind \in Surfaces /\ ev.type \notin Snapshots
    BY <1>1, <1>16 DEF fold_event, EventOK, Snapshots
  <2>2. CASE ev.kind = "dialog"
    <3>1. PICK id, approvals : id = ev.id /\ approvals = st.approvals
      OBVIOUS
    <3>2. CASE id \in ToSet(approvals)
      <4>1. next = st
        BY <2>1, <2>2, <3>1, <3>2 DEF fold_host_ui
      <4> QED BY <1>5, <2>1, <4>1 DEF SameMeta
    <3>3. CASE id \notin ToSet(approvals)
      <4>1. next = [st EXCEPT !.approvals = Append(approvals, id)]
        BY <2>1, <2>2, <3>1, <3>3 DEF fold_host_ui
      <4>2. IsSeq(Append(approvals, id)) /\ Distinct(Append(approvals, id))
        BY <3>1, <3>3, AppendDistinct DEF MetaOK
      <4>3. next.ref = st.ref /\ next.goal = st.goal /\ next.queued = st.queued /\ next.ambient = st.ambient
            /\ next.approvals = Append(approvals, id)
        BY <1>3, <4>1 DEF Shape, Fields
      <4> QED BY <2>1, <4>2, <4>3 DEF MetaOK
    <3> QED BY <3>2, <3>3
  <2>3. CASE ev.kind = "status"
    <3>1. PICK id, text, ambient : id = ev.id /\ text = ev.text /\ ambient = st.ambient
      OBVIOUS
    <3>2. PICK new : new = [k \in (IF text = None THEN DOMAIN ambient \ {id} ELSE DOMAIN ambient \cup {id}) |->
                               IF k = id THEN text ELSE ambient[k]]
      OBVIOUS
    <3>3. next = [st EXCEPT !.ambient = new]
      BY <2>1, <2>3, <3>1, <3>2 DEF fold_host_ui
    <3>4. AmbientOK(new)
      <4>1. AmbientOK(ambient)
        BY <3>1 DEF MetaOK
      <4> QED BY <3>2, <4>1, AmbientWritten
    <3>5. next.ref = st.ref /\ next.goal = st.goal /\ next.queued = st.queued /\ next.approvals = st.approvals
          /\ next.ambient = new
      BY <1>3, <3>3 DEF Shape, Fields
    <3> QED BY <2>1, <3>4, <3>5 DEF MetaOK
  <2>4. CASE ev.kind = "notify"
    <3>1. \E it : next = push_item(st, it)
      BY <2>1, <2>4 DEF fold_host_ui
    <3>2. SameMeta(st, next)
      BY <1>6, <3>1
    <3> QED BY <1>5, <2>1, <3>2
  <2>5. CASE ev.kind = "reset"
    <3>1. next = [st EXCEPT !.ambient = [k \in {} |-> None]]
      BY <2>1, <2>5 DEF fold_host_ui
    <3>2. next.ref = st.ref /\ next.goal = st.goal /\ next.queued = st.queued /\ next.approvals = st.approvals
          /\ next.ambient = [k \in {} |-> None]
      BY <1>3, <3>1 DEF Shape, Fields
    <3> QED BY <2>1, <3>2, AmbientEmpty DEF MetaOK
  <2>6. CASE ev.kind = "editorText"
    <3>1. next = st
      BY <2>1, <2>6 DEF fold_host_ui
    <3> QED BY <1>5, <2>1, <3>1 DEF SameMeta
  <2> QED BY <2>1, <2>2, <2>3, <2>4, <2>5, <2>6 DEF Surfaces
<1>17. CASE ev.type = "hostUiResolved"
  <2>1. next = [st EXCEPT !.approvals = without(@, ev.id)]
    BY <1>1, <1>17 DEF fold_event
  <2>2. next.ref = st.ref /\ next.goal = st.goal /\ next.queued = st.queued /\ next.ambient = st.ambient
        /\ next.approvals = without(st.approvals, ev.id)
    BY <1>3, <2>1 DEF Shape, Fields
  <2>3. PICK approvals, id : approvals = st.approvals /\ id = ev.id
    OBVIOUS
  <2>4. IsSeq(without(approvals, id)) /\ Distinct(without(approvals, id))
    BY <2>3, WithoutIsSeq DEF MetaOK
  <2> QED BY <1>17, <2>2, <2>3, <2>4 DEF MetaOK, Snapshots
<1>18. ev.type \in EventTypes
  BY DEF EventOK
<1> QED BY <1>4, <1>7, <1>8, <1>9, <1>10, <1>11, <1>12, <1>13, <1>14, <1>15, <1>16, <1>17, <1>18 DEF EventTypes, Types, Snapshots

-----------------------------------------------------------------------------
(* Joining and compacting change nothing of what events mean *)

\* A sequence of well-formed events.
EventsOK(s) == IsSeq(s) /\ \A i \in DOMAIN s : EventOK(s[i])

\* An event that is merged into the last one means what the two mean.
LEMMA MergeFolds ==
    ASSUME NEW side, NEW st, Typed(st), NEW a, EventOK(a), NEW b, EventOK(b), mergeable(a, b)
    PROVE  /\ EventOK(try_merge(a, b)) /\ try_merge(a, b).type = a.type
           /\ fold_event(side, fold_event(side, st, a), b) = fold_event(side, st, try_merge(a, b))
<1>1. PICK m : m = try_merge(a, b)
  OBVIOUS
<1>2. CASE a.type = "assistantDelta"
  <2>1. b.type = "assistantDelta" /\ a.channel = b.channel
    BY <1>2 DEF mergeable
  <2>2. IsSeq(a.text) /\ IsSeq(b.text) /\ {"type", "channel", "text", "ts", "entry"} \subseteq DOMAIN a
    BY <1>2, <2>1 DEF EventOK
  <2>3. PICK s, t : s = a.text /\ t = b.text
    OBVIOUS
  <2>4. m = [a EXCEPT !.text = s \o t]
    BY <1>1, <1>2, <2>3 DEF try_merge
  <2>5. m.type = a.type /\ m.channel = a.channel /\ m.ts = a.ts /\ m.entry = a.entry /\ m.text = s \o t /\ DOMAIN m = DOMAIN a
    BY <2>2, <2>4
  <2>6. IsSeq(s \o t)
    BY <2>2, <2>3, ConcatIsSeq
  <2>7. EventOK(m)
    BY <1>2, <2>2, <2>5, <2>6 DEF EventOK, EventTypes, Types, Snapshots
  <2>8. fold_event(side, st, m) = fold_delta(st, m)
    BY <1>2, <2>5 DEF fold_event
  <2>9. fold_event(side, st, a) = fold_delta(st, a)
    BY <1>2 DEF fold_event
  <2>10. PICK mid : mid = fold_delta(st, a)
    OBVIOUS
  <2>11. fold_event(side, mid, b) = fold_delta(mid, b)
    BY <2>1 DEF fold_event
  <2>12. fold_delta(fold_delta(st, a), b) = fold_delta(st, m)
    <3>1. m.text = a.text \o b.text
      BY <2>3, <2>5
    <3>2. Shape(st) /\ ItemsOK(st.items)
      BY DEF Typed
    <3>3. IsSeq(a.text) /\ IsSeq(b.text) /\ a.channel = b.channel
      BY <2>1, <2>2
    <3>4. m.channel = a.channel /\ m.ts = a.ts /\ m.entry = a.entry
      BY <2>5
    <3>5. Joined(a, b, m)
      BY <3>1, <3>3, <3>4 DEF Joined
    <3> QED BY <3>2, <3>5, DeltasJoin
  <2>13. fold_event(side, fold_event(side, st, a), b) = fold_event(side, st, m)
    BY <2>8, <2>9, <2>10, <2>11, <2>12
  <2> QED BY <1>1, <2>5, <2>7, <2>13
<1>3. CASE a.type # "assistantDelta"
  <2>1. a.type = "usageUpdated" /\ b.type = "usageUpdated" /\ m = b
    BY <1>1, <1>3 DEF mergeable, try_merge
  <2>2. fold_event(side, st, a) = [st EXCEPT !.usage = a.usage]
    BY <2>1 DEF fold_event
  <2>3. PICK mid : mid = [st EXCEPT !.usage = a.usage]
    OBVIOUS
  <2>4. fold_event(side, mid, b) = [mid EXCEPT !.usage = b.usage]
    BY <2>1 DEF fold_event
  <2>5. fold_event(side, st, b) = [st EXCEPT !.usage = b.usage]
    BY <2>1 DEF fold_event
  <2>6. [mid EXCEPT !.usage = b.usage] = [st EXCEPT !.usage = b.usage]
    BY <2>3
  <2> QED BY <1>1, <2>1, <2>2, <2>3, <2>4, <2>5, <2>6
<1> QED BY <1>2, <1>3

LEMMA AppendEventsOK ==
    ASSUME NEW s, EventsOK(s), NEW ev, EventOK(ev)
    PROVE  EventsOK(Append(s, ev))
<1>1. PICK more, n : more = Append(s, ev) /\ n = Len(s)
  OBVIOUS
<1>2. /\ IsSeq(more) /\ Len(more) = n + 1 /\ n \in Nat
      /\ \A i \in 1..n : more[i] = s[i]
      /\ more[n + 1] = ev /\ DOMAIN more = 1..n + 1 /\ DOMAIN s = 1..n
  <2>1. IsSeq(s)
    BY DEF EventsOK
  <2> QED BY <1>1, <2>1, AppendIsSeq, SeqShape
<1>3. \A i \in DOMAIN more : (i \in DOMAIN s /\ more[i] = s[i]) \/ more[i] = ev
  BY <1>2
<1> QED BY <1>1, <1>2, <1>3 DEF EventsOK

LEMMA SubSeqEventsOK ==
    ASSUME NEW s, EventsOK(s), NEW m \in Nat, NEW n \in Nat, m >= 1, n <= Len(s)
    PROVE  EventsOK(SubSeq(s, m, n))
<1>1. PICK S : S = ToSet(s)
  OBVIOUS
<1>2. s \in Seq(S)
  BY <1>1 DEF IsSeq, EventsOK
<1>3. PICK part : part = SubSeq(s, m, n)
  OBVIOUS
<1>4. part \in Seq(S) /\ \A i \in DOMAIN part : part[i] \in S
  BY <1>2, <1>3
<1>5. IsSeq(part)
  BY <1>4, SeqIsSeq
<1>6. \A e \in S : EventOK(e)
  BY <1>1 DEF ToSet, EventsOK
<1> QED BY <1>3, <1>4, <1>5, <1>6 DEF EventsOK

\* What holds of the empty prefix and is kept by each event holds of the whole.
LEMMA FoldTypedAll ==
    ASSUME NEW side, NEW st, Typed(st), NEW s, EventsOK(s)
    PROVE  Typed(fold_all_from(side, st, s))
<1>1. PICK L \in Nat : L = Len(s) /\ DOMAIN s = 1..L /\ IsSeq(s)
  BY SeqShape DEF EventsOK
<1>2. PICK g : Folds(g, side, st, s, L) /\ fold_all_from(side, st, s) = g[L]
  BY <1>1, FoldIs
<1> DEFINE T == {n \in Nat : n <= L => Typed(g[n])}
<1>3. 0 \in T
  BY <1>2 DEF Folds
<1>4. ASSUME NEW n \in Nat, n \in T PROVE n + 1 \in T
  <2> SUFFICES ASSUME n + 1 <= L PROVE Typed(g[n + 1])
    OBVIOUS
  <2>1. PICK mid, ev : mid = g[n] /\ ev = s[n + 1]
    OBVIOUS
  <2>2. Typed(mid)
    BY <1>4, <2>1
  <2>3. n + 1 \in 0..L /\ n + 1 # 0 /\ (n + 1) - 1 = n /\ n + 1 \in DOMAIN s
    BY <1>1
  <2>4. EventOK(ev)
    BY <2>1, <2>3 DEF EventsOK
  <2>5. g[n + 1] = fold_event(side, mid, ev)
    BY <1>2, <2>1, <2>3 DEF Folds
  <2> QED BY <2>2, <2>4, <2>5, FoldTyped
<1>5. L \in T
  <2> HIDE DEF T
  <2> QED BY <1>3, <1>4, SetInduction
<1> QED BY <1>2, <1>5

\* append_event adds what its event means,
LEMMA CompactedAppendFolds ==
    ASSUME NEW c, EventsOK(c), NEW ev, EventOK(ev), NEW st, Typed(st), NEW side
    PROVE  /\ EventsOK(compacted_append(c, ev))
           /\ fold_all_from(side, st, compacted_append(c, ev)) = fold_event(side, fold_all_from(side, st, c), ev)
<1>1. IsSeq(c)
  BY DEF EventsOK
<1>2. CASE c # <<>> /\ mergeable(Last(c), ev)
  <2>1. PICK f, a : f = Front(c) /\ a = Last(c)
    OBVIOUS
  <2>2. IsSeq(f) /\ c = Append(f, a) /\ Len(c) \in DOMAIN c /\ a = c[Len(c)]
    BY <1>1, <1>2, <2>1, LastOf
  <2>3. EventOK(a)
    BY <2>2 DEF EventsOK
  <2>4. EventsOK(f)
    <3>1. Len(f) \in Nat /\ DOMAIN f = 1..Len(f) /\ DOMAIN c = 1..Len(f) + 1 /\ \A i \in 1..Len(f) : c[i] = f[i]
      <4>1. Len(c) = Len(f) + 1 /\ (\A i \in 1..Len(f) : c[i] = f[i])
        BY <2>2, AppendIsSeq
      <4> QED BY <1>1, <2>2, <4>1, SeqShape
    <3> QED BY <2>2, <3>1 DEF EventsOK
  <2>5. PICK m : m = try_merge(a, ev)
    OBVIOUS
  <2>6. compacted_append(c, ev) = Append(f, m)
    BY <1>2, <2>1, <2>5 DEF compacted_append
  <2>7. PICK was : was = fold_all_from(side, st, f)
    OBVIOUS
  <2>8. Typed(was)
    BY <2>4, <2>7, FoldTypedAll
  <2>9. mergeable(a, ev)
    BY <1>2, <2>1
  <2>10. EventOK(m) /\ fold_event(side, fold_event(side, was, a), ev) = fold_event(side, was, m)
    BY <2>3, <2>5, <2>8, <2>9, MergeFolds
  <2>11. fold_all_from(side, st, c) = fold_event(side, was, a)
    BY <2>2, <2>7, FoldOneMore
  <2>12. fold_all_from(side, st, Append(f, m)) = fold_event(side, was, m)
    BY <2>2, <2>7, FoldOneMore
  <2>13. EventsOK(Append(f, m))
    BY <2>4, <2>10, AppendEventsOK
  <2> QED BY <2>6, <2>10, <2>11, <2>12, <2>13
<1>3. CASE ~(c # <<>> /\ mergeable(Last(c), ev))
  <2>1. compacted_append(c, ev) = Append(c, ev)
    BY <1>3 DEF compacted_append
  <2>2. EventsOK(Append(c, ev))
    BY AppendEventsOK
  <2>3. fold_all_from(side, st, Append(c, ev)) = fold_event(side, fold_all_from(side, st, c), ev)
    BY <1>1, FoldOneMore
  <2> QED BY <2>1, <2>2, <2>3
<1> QED BY <1>2, <1>3

\* and a whole batch, event by event,
Growing(g, c, events, L) ==
    g = [n \in 0..L |-> IF n = 0 THEN c ELSE compacted_append(g[n - 1], events[n])]

LEMMA GrowingExists ==
    ASSUME NEW c, NEW events, NEW L \in Nat
    PROVE  \E g : Growing(g, c, events, L)
<1> DEFINE T == {k \in Nat : \E g : Growing(g, c, events, k)}
<1>1. 0 \in T
  <2> DEFINE g == [n \in 0..0 |-> c]
  <2>1. Growing(g, c, events, 0)
    BY DEF Growing
  <2> QED BY <2>1
<1>2. ASSUME NEW k \in Nat, k \in T PROVE k + 1 \in T
  <2>1. PICK g : Growing(g, c, events, k)
    BY <1>2
  <2> DEFINE h == [n \in 0..k + 1 |-> IF n = k + 1 THEN compacted_append(g[k], events[k + 1]) ELSE g[n]]
  <2>2. \A n \in 0..k + 1 : h[n] = IF n = 0 THEN c ELSE compacted_append(h[n - 1], events[n])
    <3> TAKE n \in 0..k + 1
    <3>1. CASE n = k + 1
      <4>1. h[n] = compacted_append(g[k], events[k + 1]) /\ n - 1 = k /\ n # 0
        BY <3>1
      <4>2. h[k] = g[k]
        OBVIOUS
      <4> QED BY <3>1, <4>1, <4>2
    <3>2. CASE n # k + 1
      <4>1. n \in 0..k /\ h[n] = g[n]
        BY <3>2
      <4>2. CASE n = 0
        BY <4>1, <4>2, <2>1 DEF Growing
      <4>3. CASE n # 0
        <5>1. n - 1 \in 0..k /\ n - 1 \in 0..k + 1 /\ n - 1 # k + 1
          BY <4>1, <4>3
        <5>2. h[n - 1] = g[n - 1]
          BY <5>1
        <5> QED BY <4>1, <4>3, <5>2, <2>1 DEF Growing
      <4> QED BY <4>2, <4>3
    <3> QED BY <3>1, <3>2
  <2>3. Growing(h, c, events, k + 1)
    <3> HIDE DEF T
    <3> QED BY <2>2 DEF Growing
  <2> QED BY <2>3
<1>3. L \in T
  <2> HIDE DEF T
  <2> QED BY <1>1, <1>2, SetInduction
<1> QED BY <1>3

\* A compacted prefix stands for every event that went into it.
LEMMA CompactedFolds ==
    ASSUME NEW c, EventsOK(c), NEW s, EventsOK(s), NEW st, Typed(st), NEW side
    PROVE  /\ EventsOK(compacted_append_all(c, s))
           /\ fold_all_from(side, st, compacted_append_all(c, s))
                = fold_all_from(side, fold_all_from(side, st, c), s)
<1>1. PICK L \in Nat : L = Len(s) /\ DOMAIN s = 1..L /\ IsSeq(s)
  BY SeqShape DEF EventsOK
<1>2. PICK base : base = fold_all_from(side, st, c)
  OBVIOUS
<1>3. PICK f : Folds(f, side, base, s, L) /\ fold_all_from(side, base, s) = f[L]
  BY <1>1, FoldIs
<1> DEFINE grown == CHOOSE g : Growing(g, c, s, L)
<1>4. Growing(grown, c, s, L)
  BY GrowingExists
<1>5. compacted_append_all(c, s) = grown[L]
  BY <1>1 DEF compacted_append_all, Growing
<1> HIDE DEF grown
<1> DEFINE P(n) == EventsOK(grown[n]) /\ fold_all_from(side, st, grown[n]) = f[n]
           T == {n \in Nat : n <= L => P(n)}
<1>6. 0 \in T
  <2>1. grown[0] = c
    BY <1>4 DEF Growing
  <2>2. f[0] = base
    BY <1>3 DEF Folds
  <2> QED BY <1>2, <2>1, <2>2
<1>7. ASSUME NEW n \in Nat, n \in T PROVE n + 1 \in T
  <2> SUFFICES ASSUME n + 1 <= L PROVE P(n + 1)
    OBVIOUS
  <2>1. PICK was, ev : was = grown[n] /\ ev = s[n + 1]
    OBVIOUS
  <2>2. EventsOK(was) /\ fold_all_from(side, st, was) = f[n]
    BY <1>7, <2>1
  <2>3. n + 1 \in 0..L /\ n + 1 # 0 /\ (n + 1) - 1 = n /\ n + 1 \in DOMAIN s
    BY <1>1
  <2>4. EventOK(ev)
    BY <2>1, <2>3 DEF EventsOK
  <2>5. grown[n + 1] = compacted_append(was, ev)
    BY <1>4, <2>1, <2>3 DEF Growing
  <2>6. f[n + 1] = fold_event(side, f[n], ev)
    BY <1>3, <2>1, <2>3 DEF Folds
  <2>7. EventsOK(compacted_append(was, ev))
        /\ fold_all_from(side, st, compacted_append(was, ev)) = fold_event(side, fold_all_from(side, st, was), ev)
    BY <2>2, <2>4, CompactedAppendFolds
  <2> QED BY <2>2, <2>5, <2>6, <2>7
<1>8. L \in T
  <2> HIDE DEF T
  <2> QED BY <1>6, <1>7, SetInduction
<1>9. P(L)
  BY <1>8
<1> QED BY <1>2, <1>3, <1>5, <1>9

LEMMA NoEventsOK == EventsOK(<<>>)
<1>1. <<>> \in Seq({}) /\ DOMAIN <<>> = {}
  OBVIOUS
<1> QED BY <1>1, SeqIsSeq DEF EventsOK

\* coalesce_events changes nothing of what the events mean.
LEMMA CoalescedFolds ==
    ASSUME NEW s, EventsOK(s), NEW st, Typed(st), NEW side
    PROVE  EventsOK(coalesce_events(s)) /\ fold_all_from(side, st, coalesce_events(s)) = fold_all_from(side, st, s)
<1>1. PICK none : none = <<>>
  OBVIOUS
<1>2. EventsOK(none) /\ fold_all_from(side, st, none) = st
  BY <1>1, NoEventsOK, FoldNone
<1>3. EventsOK(compacted_append_all(none, s))
      /\ fold_all_from(side, st, compacted_append_all(none, s)) = fold_all_from(side, fold_all_from(side, st, none), s)
  BY <1>2, CompactedFolds
<1>4. coalesce_events(s) = compacted_append_all(none, s)
  BY <1>1 DEF coalesce_events
<1> QED BY <1>2, <1>3, <1>4

LEMMA ConcatEventsOK ==
    ASSUME NEW s, EventsOK(s), NEW t, EventsOK(t)
    PROVE  EventsOK(s \o t)
<1>1. PICK S : S = ToSet(s) \cup ToSet(t)
  OBVIOUS
<1>2. s \in Seq(S) /\ t \in Seq(S)
  BY <1>1 DEF IsSeq, EventsOK
<1>3. PICK u : u = s \o t
  OBVIOUS
<1>4. u \in Seq(S) /\ \A i \in DOMAIN u : u[i] \in S
  BY <1>2, <1>3
<1>5. IsSeq(u)
  BY <1>4, SeqIsSeq
<1>6. \A e \in S : EventOK(e)
  BY <1>1 DEF ToSet, EventsOK
<1> QED BY <1>3, <1>4, <1>5, <1>6 DEF EventsOK

-----------------------------------------------------------------------------
(* The journal stands for the state of a tab *)

\* A state a tab may be in.
WholeState(st) == Typed(st) /\ Unique(st.items) /\ MetaOK(st) /\ st.ref = TRUE

\* The journal is well formed: its seed state is, and its events are, and the state it stands for has a card per call.
JournalOK(j) ==
    /\ EventsOK(j.prefix) /\ EventsOK(j.ring)
    /\ WholeState(j.tab)
    /\ fold_all("hub", build_seed(j.prefix, j.ring)) = j.tab
    /\ fold_all("tab", build_seed(j.prefix, j.ring)) = j.tab

\* The empty state is well formed.
LEMMA InitialOK ==
    /\ Typed(initial_session_state) /\ Unique(initial_session_state.items)
    /\ (None # Omit => MetaOK(initial_session_state))
<1>1. PICK st, none, empty : st = initial_session_state /\ none = <<>> /\ empty = [k \in {} |-> None]
  OBVIOUS
<1>2. st = [ref |-> FALSE, status |-> "idle", usage |-> None, facet |-> None,
            goal |-> None, queued |-> none, items |-> none, approvals |-> none, ambient |-> empty]
  BY <1>1 DEF initial_session_state
<1>3. Shape(st)
  BY <1>2 DEF Shape, Fields
<1>4. none \in Seq({}) /\ DOMAIN none = {} /\ none \in Seq(Waiting)
  BY <1>1
<1>5. IsSeq(none)
  BY <1>4, SeqIsSeq
<1>6. AmbientOK(empty)
  BY <1>1, AmbientEmpty
<1>7. st.items = none /\ st.queued = none /\ st.approvals = none /\ st.ambient = empty /\ st.goal = None
  BY <1>2
<1>8. ItemsOK(none) /\ Unique(none) /\ Distinct(none)
  BY <1>4, <1>5 DEF ItemsOK, Unique, Distinct
<1> QED BY <1>1, <1>3, <1>4, <1>5, <1>6, <1>7, <1>8 DEF Typed, MetaOK

\* The hub and a tab take an event alike as long as no call has two cards.
LEMMA HubIsTab ==
    ASSUME NEW st, ItemsOK(st.items), Unique(st.items), NEW ev
    PROVE  fold_event("hub", st, ev) = fold_event("tab", st, ev)
<1>1. ASSUME NEW call PROVE tool_cards("hub", st.items, call) = tool_cards("tab", st.items, call)
  <2>1. PICK items, hits : items = st.items /\ hits = {i \in DOMAIN items : items[i].kind = "tool" /\ items[i].id = call}
    OBVIOUS
  <2>2. \A i, k \in hits : i = k
    BY <2>1 DEF Unique
  <2>3. tool_cards("hub", items, call) = hits
    BY <2>1 DEF tool_cards
  <2>4. tool_cards("tab", items, call) = {i \in hits : \A k \in hits : i <= k}
    BY <2>1 DEF tool_cards
  <2>5. \A i \in hits : i <= i
    <3>1. DOMAIN items = 1..Len(items) /\ Len(items) \in Nat
      BY <2>1, SeqShape DEF ItemsOK
    <3> QED BY <2>1, <3>1
  <2> QED BY <2>1, <2>2, <2>3, <2>4, <2>5
<1>2. fold_tool_updated("hub", st, ev) = fold_tool_updated("tab", st, ev)
  BY <1>1 DEF fold_tool_updated
<1>3. fold_tool_finished("hub", st, ev) = fold_tool_finished("tab", st, ev)
  <2>1. PICK cards : cards = tool_cards("hub", st.items, ev.call)
    OBVIOUS
  <2>2. cards = tool_cards("tab", st.items, ev.call)
    BY <1>1, <2>1
  <2>3. PICK items, status, at : items = st.items /\ status = ev.status /\ at = ev.ts
    OBVIOUS
  <2>4. PICK next : next = [i \in DOMAIN items |-> IF i \in cards THEN [items[i] EXCEPT !.status = status, !.finished = at] ELSE items[i]]
    OBVIOUS
  <2>5. fold_tool_finished("hub", st, ev) = [st EXCEPT !.items = next]
    BY <2>1, <2>3, <2>4 DEF fold_tool_finished
  <2>6. fold_tool_finished("tab", st, ev) = [st EXCEPT !.items = next]
    BY <2>2, <2>3, <2>4 DEF fold_tool_finished
  <2> QED BY <2>5, <2>6
<1>4. CASE ev.type = "toolUpdated"
  BY <1>2, <1>4 DEF fold_event
<1>5. CASE ev.type = "toolFinished"
  BY <1>3, <1>5 DEF fold_event
<1>6. CASE ev.type \notin {"toolUpdated", "toolFinished"}
  BY <1>6 DEF fold_event
<1> QED BY <1>4, <1>5, <1>6

\* A sequence is its first part and the rest.
LEMMA SplitSeq ==
    ASSUME NEW s, IsSeq(s), NEW k \in Nat, k <= Len(s)
    PROVE  SubSeq(s, 1, k) \o SubSeq(s, k + 1, Len(s)) = s
<1>1. PICK S : S = ToSet(s)
  OBVIOUS
<1>2. s \in Seq(S)
  BY <1>1 DEF IsSeq
<1>3. PICK n \in Nat : n = Len(s)
  BY <1>2
<1>4. PICK a, b : a = SubSeq(s, 1, k) /\ b = SubSeq(s, k + 1, n)
  OBVIOUS
<1>5. a \in Seq(S) /\ Len(a) = k /\ \A i \in 1..k : a[i] = s[i]
  BY <1>2, <1>3, <1>4
<1>6. b \in Seq(S) /\ Len(b) = n - k /\ \A i \in 1..n - k : b[i] = s[i + k]
  BY <1>2, <1>3, <1>4
<1>7. PICK c : c = a \o b
  OBVIOUS
<1>8. c \in Seq(S) /\ Len(c) = n
  BY <1>3, <1>5, <1>6, <1>7
<1>9. \A i \in 1..n : c[i] = s[i]
  <2> TAKE i \in 1..n
  <2>1. CASE i <= k
    BY <1>5, <1>6, <1>7, <2>1
  <2>2. CASE i > k
    <3>1. c[i] = b[i - k]
      BY <1>5, <1>6, <1>7, <2>2
    <3>2. i - k \in 1..n - k /\ (i - k) + k = i
      BY <1>3, <2>2
    <3> QED BY <1>6, <3>1, <3>2
  <2> QED BY <2>1, <2>2
<1>10. c = s
  BY <1>2, <1>3, <1>8, <1>9, SeqEqual
<1> QED BY <1>3, <1>4, <1>7, <1>10

\* append_event adds its event to what the journal stands for, evicting or not.
LEMMA AppendFolds ==
    ASSUME NEW j, JournalOK(j), NEW ev, EventOK(ev), NEW k \in Nat, k <= Len(j.ring) + 1,
           None # Omit, Fresh(j.tab.items, Started(ev))
    PROVE  JournalOK(append_event(j, ev, k)) /\ append_event(j, ev, k).tab = fold_event("tab", j.tab, ev)
<1>1. PICK lead, ring, st, init, next :
        lead = j.prefix /\ ring = j.ring /\ st = j.tab /\ init = initial_session_state /\ next = fold_event("tab", st, ev)
  OBVIOUS
<1>2. EventsOK(lead) /\ EventsOK(ring) /\ WholeState(st) /\ Typed(init)
  BY <1>1, InitialOK DEF JournalOK
<1>3. PICK more, n : more = Append(ring, ev) /\ n = Len(ring)
  OBVIOUS
<1>4. IsSeq(ring) /\ n \in Nat
  BY <1>2, <1>3, SeqShape DEF EventsOK
<1>5. EventsOK(more) /\ Len(more) = n + 1 /\ IsSeq(more)
  BY <1>2, <1>3, <1>4, AppendEventsOK, AppendIsSeq
<1>6. PICK out, kept : out = SubSeq(more, 1, k) /\ kept = SubSeq(more, k + 1, Len(more))
  OBVIOUS
<1>7. EventsOK(out) /\ EventsOK(kept) /\ out \o kept = more
  <2>1. k <= n + 1 /\ k + 1 \in Nat /\ k + 1 >= 1 /\ n + 1 \in Nat /\ 1 \in Nat /\ 1 >= 1
    BY <1>1, <1>3, <1>4
  <2>2. EventsOK(out)
    BY <1>5, <1>6, <2>1, SubSeqEventsOK
  <2>3. PICK m \in Nat, l \in Nat : m = k + 1 /\ l = n + 1
    BY <2>1
  <2>4. EventsOK(kept)
    <3>1. kept = SubSeq(more, m, l) /\ m >= 1 /\ l <= Len(more)
      BY <1>5, <1>6, <2>3
    <3> QED BY <1>5, <3>1, SubSeqEventsOK
  <2>5. out \o kept = more
    BY <1>5, <1>6, <2>1, SplitSeq
  <2> QED BY <2>2, <2>4, <2>5
<1>8. PICK grown : grown = compacted_append_all(lead, out)
  OBVIOUS
<1>9. EventsOK(grown)
  BY <1>2, <1>7, <1>8, CompactedFolds
<1>10. append_event(j, ev, k) = [prefix |-> grown, ring |-> kept, tab |-> next]
  BY <1>1, <1>3, <1>6, <1>8 DEF append_event
<1>11. ASSUME NEW side, fold_event(side, st, ev) = next, fold_all(side, build_seed(lead, ring)) = st
       PROVE  fold_all(side, build_seed(grown, kept)) = next
  <2>1. fold_all(side, build_seed(grown, kept)) = fold_all_from(side, init, grown \o kept)
    <3>1. PICK joint : joint = grown \o kept
      OBVIOUS
    <3>2. EventsOK(joint)
      BY <1>7, <1>9, <3>1, ConcatEventsOK
    <3> QED BY <1>1, <1>2, <3>1, <3>2, CoalescedFolds DEF fold_all, build_seed
  <2>2. fold_all_from(side, init, lead \o ring) = st
    <3>1. PICK joint : joint = lead \o ring
      OBVIOUS
    <3>2. EventsOK(joint)
      BY <1>2, <3>1, ConcatEventsOK
    <3> QED BY <1>1, <1>2, <1>11, <3>1, <3>2, CoalescedFolds DEF fold_all, build_seed
  <2>3. PICK a, b : a = fold_all_from(side, init, lead) /\ b = fold_all_from(side, a, out)
    OBVIOUS
  <2>4. fold_all_from(side, init, grown) = b
    BY <1>2, <1>7, <1>8, <2>3, CompactedFolds
  <2>5. fold_all_from(side, init, grown \o kept) = fold_all_from(side, b, kept)
    BY <1>7, <1>9, <2>4, FoldConcat DEF EventsOK
  <2>6. fold_all_from(side, a, out \o kept) = fold_all_from(side, b, kept)
    <3>1. IsSeq(out) /\ IsSeq(kept)
      BY <1>7 DEF EventsOK
    <3>2. fold_all_from(side, a, out \o kept) = fold_all_from(side, fold_all_from(side, a, out), kept)
      BY <3>1, FoldConcat
    <3> QED BY <2>3, <3>2
  <2>7. fold_all_from(side, a, ring) = st
    BY <1>2, <2>2, <2>3, FoldConcat DEF EventsOK
  <2>8. fold_all_from(side, a, more) = fold_event(side, st, ev)
    BY <1>3, <1>4, <2>7, FoldOneMore
  <2> QED BY <1>7, <1>11, <2>1, <2>5, <2>6, <2>8
<1>12. fold_event("hub", st, ev) = next
  BY <1>1, <1>2, HubIsTab DEF WholeState, Typed
<1>13. WholeState(next)
  <2>1. Typed(st) /\ MetaOK(st) /\ Unique(st.items) /\ st.ref = TRUE
    BY <1>2 DEF WholeState
  <2>2. Typed(next) /\ Evolves(st.items, next.items, Started(ev))
    BY <1>1, <2>1, FoldTyped
  <2>3. MetaOK(next) /\ next.ref = TRUE
    BY <1>1, <2>1, FoldMeta
  <2>4. Unique(next.items)
    BY <1>1, <2>1, <2>2 DEF Evolves
  <2> QED BY <2>2, <2>3, <2>4 DEF WholeState
<1>14. fold_all("hub", build_seed(grown, kept)) = next /\ fold_all("tab", build_seed(grown, kept)) = next
  BY <1>1, <1>11, <1>12 DEF JournalOK
<1> QED BY <1>1, <1>7, <1>9, <1>10, <1>13, <1>14 DEF JournalOK

-----------------------------------------------------------------------------
(* The meta prefix of a reset *)

\* Every ambient key is listed once.
LEMMA KeysOf ==
    ASSUME NEW S, IsFiniteSet(S), NEW keys, keys = SetToSeq(S)
    PROVE  keys \in Seq(S) /\ ToSet(keys) = S
<1>1. PICK n \in Nat : n = Cardinality(S) /\ ExistsBijection(1..n, S)
  BY FS_CardinalityType
<1>2. PICK f : f \in Bijection(1..n, S)
  BY <1>1 DEF ExistsBijection
<1>3. f \in [1..n -> S] /\ \A i, k \in 1..n : f[i] = f[k] => i = k
  BY <1>2 DEF Bijection, Injection, IsInjective
<1>4. \E g \in [1..Cardinality(S) -> S] : IsInjective(g)
  BY <1>1, <1>3 DEF IsInjective
<1>5. keys \in [1..n -> S] /\ IsInjective(keys)
  BY <1>1, <1>4 DEF SetToSeq
<1>6. keys \in Seq(S)
  BY <1>1, <1>5
<1>7. keys \in Injection(1..n, S)
  BY <1>5 DEF Injection, IsInjective
<1>8. Cardinality(1..n) = Cardinality(S)
  BY <1>1, FS_Interval
<1>9. keys \in Surjection(1..n, S)
  BY <1>7, <1>8, FS_Injection
<1>10. ToSet(keys) = S
  BY <1>5, <1>9 DEF Surjection, ToSet
<1> QED BY <1>6, <1>10

\* The events of a meta seed.
StatusEvents(keys, ambient, ts) ==
    [i \in DOMAIN keys |->
       [type |-> "hostUiRequest", ts |-> ts, kind |-> "status", id |-> keys[i], text |-> ambient[keys[i]]]]

DialogEvents(ids, ts) ==
    [i \in DOMAIN ids |->
       [type |-> "hostUiRequest", ts |-> ts, kind |-> "dialog", id |-> ids[i], text |-> None]]

\* Those are well-formed events.
LEMMA UiEventOK ==
    ASSUME NEW ts, NEW kind \in Surfaces, NEW id, NEW text
    PROVE  EventOK([type |-> "hostUiRequest", ts |-> ts, kind |-> kind, id |-> id, text |-> text])
BY DEF EventOK, EventTypes, Types, Snapshots

LEMMA UiEventsOK ==
    ASSUME NEW ids, IsSeq(ids), NEW ambient, NEW ts
    PROVE  EventsOK(StatusEvents(ids, ambient, ts)) /\ EventsOK(DialogEvents(ids, ts))
<1>1. PICK a, b : a = StatusEvents(ids, ambient, ts) /\ b = DialogEvents(ids, ts)
  OBVIOUS
<1>2. a = [i \in DOMAIN ids |-> a[i]] /\ b = [i \in DOMAIN ids |-> b[i]]
  BY <1>1 DEF StatusEvents, DialogEvents
<1>3. IsSeq(a) /\ IsSeq(b)
  BY <1>2, MappedIsSeq
<1>4. "status" \in Surfaces /\ "dialog" \in Surfaces
  BY DEF Surfaces
<1>5. ASSUME NEW i \in DOMAIN ids PROVE EventOK(a[i]) /\ EventOK(b[i])
  <2>1. PICK id, text : id = ids[i] /\ text = ambient[id]
    OBVIOUS
  <2>2. a[i] = [type |-> "hostUiRequest", ts |-> ts, kind |-> "status", id |-> id, text |-> text]
    BY <1>1, <2>1 DEF StatusEvents
  <2>3. b[i] = [type |-> "hostUiRequest", ts |-> ts, kind |-> "dialog", id |-> id, text |-> None]
    BY <1>1, <2>1 DEF DialogEvents
  <2> QED BY <1>4, <2>2, <2>3, UiEventOK
<1>6. DOMAIN a = DOMAIN ids /\ DOMAIN b = DOMAIN ids
  BY <1>2
<1> QED BY <1>1, <1>3, <1>5, <1>6 DEF EventsOK

\* Folding the ambient widgets rebuilds them,
LEMMA StatusesFold ==
    ASSUME NEW side, NEW st, Shape(st), st.ambient = [k \in {} |-> None],
           NEW keys, IsSeq(keys), NEW ambient, AmbientOK(ambient), ToSet(keys) = DOMAIN ambient, NEW ts
    PROVE  fold_all_from(side, st, StatusEvents(keys, ambient, ts)) = [st EXCEPT !.ambient = ambient]
<1>1. PICK events : events = StatusEvents(keys, ambient, ts)
  OBVIOUS
<1>2. PICK L \in Nat : L = Len(keys) /\ DOMAIN keys = 1..L
  BY SeqShape
<1>3. events = [i \in DOMAIN keys |-> events[i]]
  BY <1>1 DEF StatusEvents
<1>4. Len(events) = L
  BY <1>2, <1>3, MappedIsSeq
<1>5. PICK f : Folds(f, side, st, events, L) /\ fold_all_from(side, st, events) = f[L]
  BY <1>4, FoldIs
<1> DEFINE Part(n) == [k \in {keys[i] : i \in 1..n} |-> ambient[k]]
           P(n) == f[n] = [st EXCEPT !.ambient = Part(n)]
           T == {n \in Nat : n <= L => P(n)}
<1>6. 0 \in T
  <2>1. f[0] = st
    BY <1>5 DEF Folds
  <2>2. Part(0) = [k \in {} |-> None]
    OBVIOUS
  <2>3. st = [st EXCEPT !.ambient = st.ambient]
    BY DEF Shape, Fields
  <2> QED BY <2>1, <2>2, <2>3
<1>7. ASSUME NEW n \in Nat, n \in T PROVE n + 1 \in T
  <2> SUFFICES ASSUME n + 1 <= L PROVE P(n + 1)
    OBVIOUS
  <2>1. PICK was, part : was = f[n] /\ part = Part(n)
    OBVIOUS
  <2>2. was = [st EXCEPT !.ambient = part]
    BY <1>7, <2>1
  <2>3. n + 1 \in 0..L /\ n + 1 # 0 /\ (n + 1) - 1 = n /\ n + 1 \in DOMAIN keys
    BY <1>2
  <2>4. PICK id, text : id = keys[n + 1] /\ text = ambient[id]
    OBVIOUS
  <2>5. PICK ev : ev = [type |-> "hostUiRequest", ts |-> ts, kind |-> "status", id |-> id, text |-> text]
    OBVIOUS
  <2>6. events[n + 1] = ev
    BY <1>1, <2>3, <2>4, <2>5 DEF StatusEvents
  <2>7. f[n + 1] = fold_event(side, was, ev)
    BY <1>5, <2>1, <2>3, <2>6 DEF Folds
  <2>8. text # None
    BY <2>3, <2>4 DEF AmbientOK, ToSet
  <2>9. PICK new : new = [k \in DOMAIN part \cup {id} |-> IF k = id THEN text ELSE part[k]]
    OBVIOUS
  <2>10. was.ambient = part
    BY <2>2 DEF Shape, Fields
  <2>11. fold_event(side, was, ev) = [was EXCEPT !.ambient = new]
    <3>1. ev.type = "hostUiRequest" /\ ev.kind = "status" /\ ev.id = id /\ ev.text = text
      BY <2>5
    <3>2. fold_event(side, was, ev) = fold_host_ui(was, ev)
      BY <3>1 DEF fold_event
    <3>3. fold_host_ui(was, ev) = [was EXCEPT !.ambient = new]
      BY <2>8, <2>9, <2>10, <3>1 DEF fold_host_ui
    <3> QED BY <3>2, <3>3
  <2>12. new = Part(n + 1)
    <3>1. DOMAIN part = {keys[i] : i \in 1..n} /\ \A k \in DOMAIN part : part[k] = ambient[k]
      BY <2>1
    <3>2. {keys[i] : i \in 1..n + 1} = {keys[i] : i \in 1..n} \cup {id}
      BY <2>4
    <3>3. \A k \in DOMAIN part \cup {id} : (IF k = id THEN text ELSE part[k]) = ambient[k]
      BY <2>4, <3>1
    <3> QED BY <2>9, <3>1, <3>2, <3>3
  <2>13. [was EXCEPT !.ambient = new] = [st EXCEPT !.ambient = new]
    BY <2>2
  <2> QED BY <2>7, <2>11, <2>12, <2>13
<1>8. L \in T
  <2> HIDE DEF T
  <2> QED BY <1>6, <1>7, SetInduction
<1>9. Part(L) = ambient
  <2>1. {keys[i] : i \in 1..L} = DOMAIN ambient
    BY <1>2 DEF ToSet
  <2>2. ambient = [k \in DOMAIN ambient |-> ambient[k]]
    BY DEF AmbientOK
  <2> QED BY <2>1, <2>2
<1> QED BY <1>1, <1>5, <1>8, <1>9

\* folding the dialogs rebuilds them,
LEMMA DialogsFold ==
    ASSUME NEW side, NEW st, Shape(st), st.approvals = <<>>,
           NEW ids, IsSeq(ids), Distinct(ids), NEW ts
    PROVE  fold_all_from(side, st, DialogEvents(ids, ts)) = [st EXCEPT !.approvals = ids]
<1>1. PICK events : events = DialogEvents(ids, ts)
  OBVIOUS
<1>2. PICK L \in Nat : L = Len(ids) /\ DOMAIN ids = 1..L
  BY SeqShape
<1>3. events = [i \in DOMAIN ids |-> events[i]]
  BY <1>1 DEF DialogEvents
<1>4. Len(events) = L
  BY <1>2, <1>3, MappedIsSeq
<1>5. PICK f : Folds(f, side, st, events, L) /\ fold_all_from(side, st, events) = f[L]
  BY <1>4, FoldIs
<1> DEFINE P(n) == f[n] = [st EXCEPT !.approvals = SubSeq(ids, 1, n)]
           T == {n \in Nat : n <= L => P(n)}
<1>6. 0 \in T
  <2>1. f[0] = st
    BY <1>5 DEF Folds
  <2>2. SubSeq(ids, 1, 0) = <<>>
    BY WholePrefix
  <2>3. st = [st EXCEPT !.approvals = <<>>]
    BY DEF Shape, Fields
  <2> QED BY <2>1, <2>2, <2>3
<1>7. ASSUME NEW n \in Nat, n \in T PROVE n + 1 \in T
  <2> SUFFICES ASSUME n + 1 <= L PROVE P(n + 1)
    OBVIOUS
  <2>1. PICK was, part : was = f[n] /\ part = SubSeq(ids, 1, n)
    OBVIOUS
  <2>2. was = [st EXCEPT !.approvals = part]
    BY <1>7, <2>1
  <2>3. n + 1 \in 0..L /\ n + 1 # 0 /\ (n + 1) - 1 = n /\ n + 1 \in DOMAIN ids
    BY <1>2
  <2>4. PICK id : id = ids[n + 1]
    OBVIOUS
  <2>5. PICK ev : ev = [type |-> "hostUiRequest", ts |-> ts, kind |-> "dialog", id |-> id, text |-> None]
    OBVIOUS
  <2>6. events[n + 1] = ev
    BY <1>1, <2>3, <2>4, <2>5 DEF DialogEvents
  <2>7. f[n + 1] = fold_event(side, was, ev)
    BY <1>5, <2>1, <2>3, <2>6 DEF Folds
  <2>8. n < Len(ids)
    BY <1>2
  <2>9. SubSeq(ids, 1, n + 1) = Append(part, id)
    BY <2>1, <2>4, <2>8, PrefixGrows
  <2>10. was.approvals = part
    BY <2>2 DEF Shape, Fields
  <2>11. id \notin ToSet(part)
    <3>1. PICK S : S = ToSet(ids)
      OBVIOUS
    <3>2. ids \in Seq(S)
      BY <3>1 DEF IsSeq
    <3>3. DOMAIN part = 1..n /\ \A i \in 1..n : part[i] = ids[i]
      BY <1>2, <2>1, <2>8, <3>2
    <3>4. \A i \in 1..n : i \in DOMAIN ids /\ i # n + 1
      BY <1>2, <2>3
    <3>5. \A i \in 1..n : part[i] # id
      BY <2>3, <2>4, <3>3, <3>4 DEF Distinct
    <3> QED BY <3>3, <3>5 DEF ToSet
  <2>12. fold_event(side, was, ev) = [was EXCEPT !.approvals = Append(part, id)]
    <3>1. ev.type = "hostUiRequest" /\ ev.kind = "dialog" /\ ev.id = id
      BY <2>5
    <3>2. fold_event(side, was, ev) = fold_host_ui(was, ev)
      BY <3>1 DEF fold_event
    <3>3. fold_host_ui(was, ev) = [was EXCEPT !.approvals = Append(part, id)]
      BY <2>10, <2>11, <3>1 DEF fold_host_ui
    <3> QED BY <3>2, <3>3
  <2>13. [was EXCEPT !.approvals = Append(part, id)] = [st EXCEPT !.approvals = Append(part, id)]
    BY <2>2
  <2> QED BY <2>7, <2>9, <2>12, <2>13
<1>8. L \in T
  <2> HIDE DEF T
  <2> QED BY <1>6, <1>7, SetInduction
<1>9. SubSeq(ids, 1, L) = ids
  BY <1>2, WholePrefix
<1>10. P(L)
  BY <1>8
<1>11. f[L] = [st EXCEPT !.approvals = ids]
  BY <1>9, <1>10
<1> QED BY <1>1, <1>5, <1>11

SeedSnapshot(st) ==
    [status |-> st.status, usage |-> st.usage, facet |-> st.facet,
     goal |-> IF st.goal = None THEN Omit ELSE st.goal, queued |-> st.queued]

\* and build_meta_seed rebuilds all but the transcript.
LEMMA MetaSeedFolds ==
    ASSUME NEW side, NEW st, WholeState(st), st.items = <<>>, NEW ts,
           None # Omit, None \notin Seq(Waiting)
    PROVE  /\ EventsOK(meta_seed_events(st, ts))
           /\ fold_all(side, meta_seed_events(st, ts)) = st
<1>1. PICK init, empty, ambient, ids, keys :
        init = initial_session_state /\ empty = [k \in {} |-> None] /\ ambient = st.ambient /\ ids = st.approvals
        /\ keys = SetToSeq(DOMAIN ambient)
  OBVIOUS
<1>2. /\ Shape(st) /\ AmbientOK(ambient) /\ IsSeq(ids) /\ Distinct(ids)
      /\ st.queued \in Seq(Waiting) /\ st.goal # Omit /\ st.ref = TRUE
  BY <1>1 DEF WholeState, Typed, MetaOK
<1>3. IsSeq(keys) /\ ToSet(keys) = DOMAIN ambient
  <2>1. PICK S : S = DOMAIN ambient
    OBVIOUS
  <2>2. IsFiniteSet(S)
    BY <1>2, <2>1 DEF AmbientOK
  <2>3. keys \in Seq(S) /\ ToSet(keys) = S
    BY <1>1, <2>1, <2>2, KeysOf
  <2> QED BY <2>1, <2>3, SeqIsSeq
<1>4. PICK s, opened : s = SeedSnapshot(st) /\ opened = [type |-> "sessionOpened", ts |-> ts, snapshot |-> s]
  OBVIOUS
<1>5. PICK a, b, one : a = StatusEvents(keys, ambient, ts) /\ b = DialogEvents(ids, ts) /\ one = <<opened>>
  OBVIOUS
<1>6. meta_seed_events(st, ts) = (one \o a) \o b
  BY <1>1, <1>4, <1>5 DEF meta_seed_events, SeedSnapshot, StatusEvents, DialogEvents
<1>7. s.status = st.status /\ s.usage = st.usage /\ s.facet = st.facet /\ s.queued = st.queued
      /\ s.goal = IF st.goal = None THEN Omit ELSE st.goal
  BY <1>4 DEF SeedSnapshot
<1>8. opened.type = "sessionOpened" /\ opened.snapshot = s
  BY <1>4
<1>9. EventOK(opened)
  BY <1>2, <1>7, <1>8 DEF EventOK, EventTypes, Types, Snapshots
<1>10. EventsOK(one) /\ IsSeq(one) /\ one = Append(<<>>, opened)
  <2>1. one = Append(<<>>, opened)
    BY <1>5
  <2>2. EventsOK(one)
    BY <1>9, <2>1, NoEventsOK, AppendEventsOK
  <2> QED BY <2>1, <2>2 DEF EventsOK
<1>11. EventsOK(a) /\ EventsOK(b)
  BY <1>2, <1>3, <1>5, UiEventsOK
<1>12. EventsOK(one \o a)
  BY <1>10, <1>11, ConcatEventsOK
<1>13. EventsOK((one \o a) \o b)
  <2>1. PICK oa : oa = one \o a
    OBVIOUS
  <2> QED BY <1>11, <1>12, <2>1, ConcatEventsOK
<1>14. PICK first : first = fold_event(side, init, opened)
  OBVIOUS
<1>15. fold_all_from(side, init, one) = first
  <2>1. PICK none : none = <<>>
    OBVIOUS
  <2>2. IsSeq(none) /\ fold_all_from(side, init, none) = init
    BY <2>1, NoEventsOK, FoldNone DEF EventsOK
  <2>3. one = Append(none, opened)
    BY <1>10, <2>1
  <2> QED BY <1>14, <2>2, <2>3, FoldOneMore
<1>16. /\ Shape(first)
       /\ first.ref = TRUE /\ first.status = st.status /\ first.usage = st.usage /\ first.facet = st.facet
       /\ first.goal = st.goal /\ first.queued = st.queued
       /\ first.items = <<>> /\ first.approvals = <<>> /\ first.ambient = empty
  <2>1. init = [ref |-> FALSE, status |-> "idle", usage |-> None, facet |-> None,
            goal |-> None, queued |-> <<>>, items |-> <<>>, approvals |-> <<>>, ambient |-> empty]
    BY <1>1 DEF initial_session_state
  <2>2. first = fold_snapshot(init, opened)
    BY <1>8, <1>14 DEF fold_event
  <2>3. first = [init EXCEPT !.ref = TRUE, !.status = s.status, !.items = <<>>,
                   !.usage = carried(s.usage, @), !.facet = carried(s.facet, @),
                   !.goal = IF s.goal = Omit THEN @ ELSE s.goal,
                   !.queued = carried(s.queued, @)]
    <3>1. close_open_assistant(<<>>, opened.ts) = <<>>
      BY DEF close_open_assistant, open_assistant
    <3>2. init.items = <<>>
      BY <2>1
    <3> QED BY <1>8, <2>2, <3>1, <3>2 DEF fold_snapshot
  <2>4. Shape(first)
    BY <2>1, <2>3 DEF Shape, Fields
  <2>5. first.ref = TRUE /\ first.status = s.status /\ first.items = <<>> /\ first.approvals = <<>> /\ first.ambient = empty
    BY <2>1, <2>3
  <2>6. first.usage = carried(s.usage, None) /\ first.facet = carried(s.facet, None)
    BY <2>1, <2>3
  <2>7. first.goal = (IF s.goal = Omit THEN None ELSE s.goal) /\ first.queued = carried(s.queued, <<>>)
    BY <2>1, <2>3
  <2>8. carried(s.usage, None) = st.usage /\ carried(s.facet, None) = st.facet
    BY <1>7 DEF carried
  <2>9. (IF s.goal = Omit THEN None ELSE s.goal) = st.goal
    BY <1>2, <1>7
  <2>10. carried(s.queued, <<>>) = st.queued
    BY <1>2, <1>7 DEF carried
  <2> QED BY <1>7, <2>4, <2>5, <2>6, <2>7, <2>8, <2>9, <2>10
<1>17. PICK second : second = [first EXCEPT !.ambient = ambient]
  OBVIOUS
<1>18. fold_all_from(side, first, a) = second
  <2>1. first.ambient = [k \in {} |-> None]
    BY <1>1, <1>16
  <2>2. Shape(first) /\ AmbientOK(ambient) /\ IsSeq(keys) /\ ToSet(keys) = DOMAIN ambient
    BY <1>2, <1>3, <1>16
  <2>3. fold_all_from(side, first, StatusEvents(keys, ambient, ts)) = [first EXCEPT !.ambient = ambient]
    BY <2>1, <2>2, StatusesFold
  <2> QED BY <1>5, <1>17, <2>3
<1>19. Shape(second) /\ second.approvals = <<>>
  BY <1>16, <1>17 DEF Shape, Fields
<1>20. fold_all_from(side, second, b) = [second EXCEPT !.approvals = ids]
  BY <1>2, <1>5, <1>19, DialogsFold
<1>21. [second EXCEPT !.approvals = ids] = st
  <2>1. PICK last : last = [second EXCEPT !.approvals = ids]
    OBVIOUS
  <2>2. Shape(last)
    BY <1>19, <2>1 DEF Shape, Fields
  <2>3. \A x \in Fields : last[x] = st[x]
    BY <1>1, <1>2, <1>16, <1>17, <2>1 DEF Shape, Fields
  <2> QED BY <1>2, <2>1, <2>2, <2>3 DEF Shape
<1>22. fold_all_from(side, init, one \o a) = second
  <2>1. IsSeq(a)
    BY <1>11 DEF EventsOK
  <2>2. fold_all_from(side, init, one \o a) = fold_all_from(side, fold_all_from(side, init, one), a)
    BY <1>10, <2>1, FoldConcat
  <2> QED BY <1>15, <1>18, <2>2
<1>23. fold_all_from(side, init, (one \o a) \o b) = st
  <2>1. PICK oa : oa = one \o a
    OBVIOUS
  <2>2. IsSeq(oa) /\ IsSeq(b)
    BY <1>11, <1>12, <2>1 DEF EventsOK
  <2>3. fold_all_from(side, init, oa \o b) = fold_all_from(side, fold_all_from(side, init, oa), b)
    BY <2>2, FoldConcat
  <2> QED BY <1>20, <1>21, <1>22, <2>1, <2>3
<1> QED BY <1>1, <1>6, <1>13, <1>23 DEF fold_all

\* A tab stays well formed.
LEMMA WholeNext ==
    ASSUME NEW st, WholeState(st), NEW ev, EventOK(ev), Fresh(st.items, Started(ev)), NEW side
    PROVE  WholeState(fold_event(side, st, ev))
<1>1. PICK next : next = fold_event(side, st, ev)
  OBVIOUS
<1>2. Typed(st) /\ MetaOK(st) /\ Unique(st.items) /\ st.ref = TRUE
  BY DEF WholeState
<1>3. Typed(next) /\ Evolves(st.items, next.items, Started(ev))
  BY <1>1, <1>2, FoldTyped
<1>4. MetaOK(next) /\ next.ref = TRUE
  BY <1>1, <1>2, FoldMeta
<1>5. Unique(next.items)
  BY <1>2, <1>3 DEF Evolves
<1> QED BY <1>1, <1>3, <1>4, <1>5 DEF WholeState

\* A journal that restarts stands for what the tab makes of the reset.
LEMMA RestartFolds ==
    ASSUME NEW j, JournalOK(j), NEW ev, EventOK(ev), ev.type = "sessionReset",
           None # Omit, None \notin Seq(Waiting)
    PROVE  JournalOK(restart_journal(j, ev)) /\ restart_journal(j, ev).tab = fold_event("tab", j.tab, ev)
<1>1. PICK lead, ring, st, init, next, ts :
        lead = j.prefix /\ ring = j.ring /\ st = j.tab /\ init = initial_session_state /\ next = fold_event("tab", st, ev)
        /\ ts = ev.ts
  OBVIOUS
<1>2. WholeState(st) /\ Typed(init)
  BY <1>1, InitialOK DEF JournalOK
<1>3. fold_event("hub", st, ev) = next
  BY <1>1, <1>2, HubIsTab DEF WholeState, Typed
<1>4. WholeState(next)
  <2>1. Started(ev) = {}
    BY DEF Started
  <2>2. Fresh(st.items, Started(ev))
    BY <2>1 DEF Fresh
  <2> QED BY <1>1, <1>2, <2>2, WholeNext
<1>5. next.items = <<>>
  <2>1. next = [st EXCEPT !.items = <<>>]
    BY <1>1 DEF fold_event
  <2> QED BY <1>2, <2>1 DEF WholeState, Typed, Shape, Fields
<1>6. PICK seed : seed = meta_seed_events(next, ts)
  OBVIOUS
<1>7. EventsOK(seed) /\ \A side : fold_all(side, seed) = next
  BY <1>4, <1>5, <1>6, MetaSeedFolds
<1>8. PICK meta, none : meta = coalesce_events(seed) /\ none = <<>>
  OBVIOUS
<1>9. EventsOK(meta) /\ EventsOK(none)
  BY <1>2, <1>7, <1>8, NoEventsOK, CoalescedFolds
<1>10. \A side : fold_all(side, build_seed(meta, none)) = next
  <2> TAKE side
  <2>1. PICK joint : joint = meta \o none
    OBVIOUS
  <2>2. joint = meta
    BY <1>8, <1>9, <2>1, ConcatEmpty DEF EventsOK
  <2>3. fold_all_from(side, init, coalesce_events(joint)) = fold_all_from(side, init, meta)
    BY <1>2, <1>9, <2>2, CoalescedFolds
  <2>4. fold_all_from(side, init, meta) = fold_all_from(side, init, seed)
    BY <1>2, <1>7, <1>8, CoalescedFolds
  <2>5. fold_all_from(side, init, seed) = next
    BY <1>1, <1>7 DEF fold_all
  <2> QED BY <1>1, <2>1, <2>3, <2>4, <2>5 DEF fold_all, build_seed
<1>11. restart_journal(j, ev) = [prefix |-> meta, ring |-> none, tab |-> fold_all("tab", build_seed(meta, none))]
  <2>1. fold_all("hub", build_seed(lead, ring)) = st
    BY <1>1 DEF JournalOK
  <2> QED BY <1>1, <1>3, <1>6, <1>8, <2>1 DEF restart_journal
<1>12. fold_all("tab", build_seed(meta, none)) = next
  BY <1>10
<1> QED BY <1>1, <1>4, <1>9, <1>10, <1>11, <1>12 DEF JournalOK

\* What the hub takes in, the tab takes in, and the journal stands for it.
LEMMA IngestFolds ==
    ASSUME NEW j, JournalOK(j), NEW ev, EventOK(ev), NEW k \in Nat, k <= Len(j.ring) + 1,
           Fresh(j.tab.items, Started(ev)), None # Omit, None \notin Seq(Waiting)
    PROVE  JournalOK(ingest_now(j, ev, k)) /\ ingest_now(j, ev, k).tab = fold_event("tab", j.tab, ev)
<1>1. CASE ev.type = "sessionReset"
  <2>1. ingest_now(j, ev, k) = restart_journal(j, ev)
    BY <1>1 DEF ingest_now
  <2> QED BY <1>1, <2>1, RestartFolds
<1>2. CASE ev.type # "sessionReset"
  <2>1. ingest_now(j, ev, k) = append_event(j, ev, k)
    BY <1>2 DEF ingest_now
  <2> QED BY <2>1, AppendFolds
<1> QED BY <1>1, <1>2

-----------------------------------------------------------------------------
(* The transcript a journal is created from *)

\* The calls among the first n events.
CallsIn(s, n) == {s[i].call : i \in {m \in 1..n : s[m].type = "toolStarted"}}

\* What a journal is created from is a state a tab may be in.
LEMMA SeedFolds ==
    ASSUME NEW s, EventsOK(s), \E i \in DOMAIN s : s[i].type \in Snapshots, None # Omit,
           \A i, k \in DOMAIN s :
             s[i].type = "toolStarted" /\ s[k].type = "toolStarted" /\ s[i].call = s[k].call => i = k
    PROVE  WholeState(fold_all("tab", s)) /\ fold_all("hub", s) = fold_all("tab", s)
<1>1. PICK L \in Nat : L = Len(s) /\ DOMAIN s = 1..L /\ IsSeq(s)
  BY SeqShape DEF EventsOK
<1>2. PICK init : init = initial_session_state
  OBVIOUS
<1>3. PICK f : Folds(f, "tab", init, s, L) /\ fold_all_from("tab", init, s) = f[L]
  BY <1>1, FoldIs
<1>4. PICK h : Folds(h, "hub", init, s, L) /\ fold_all_from("hub", init, s) = h[L]
  BY <1>1, FoldIs
<1> DEFINE P(n) == /\ Typed(f[n]) /\ Unique(f[n].items) /\ MetaOK(f[n])
                   /\ \A c \in Calls(f[n].items) : c \in CallsIn(s, n)
                   /\ (\E i \in 1..n : s[i].type \in Snapshots) => f[n].ref = TRUE
                   /\ h[n] = f[n]
           T == {n \in Nat : n <= L => P(n)}
<1>5. 0 \in T
  <2>1. f[0] = init /\ h[0] = init
    BY <1>3, <1>4 DEF Folds
  <2>2. Typed(init) /\ Unique(init.items) /\ MetaOK(init)
    BY <1>2, InitialOK
  <2>3. PICK none : none = <<>>
    OBVIOUS
  <2>4. init.items = none /\ DOMAIN none = {}
    BY <1>2, <2>3 DEF initial_session_state
  <2>5. \A c \in Calls(none) : FALSE
    BY <2>4, CallsShown
  <2>6. \A c \in Calls(init.items) : c \in CallsIn(s, 0)
    BY <2>4, <2>5
  <2> QED BY <2>1, <2>2, <2>6
<1>6. ASSUME NEW n \in Nat, n \in T PROVE n + 1 \in T
  <2> SUFFICES ASSUME n + 1 <= L PROVE P(n + 1)
    <3> HIDE DEF P
    <3> QED OBVIOUS
  <2>1. PICK st, ev, next : st = f[n] /\ ev = s[n + 1] /\ next = f[n + 1]
    OBVIOUS
  <2>2. P(n)
    BY <1>6
  <2> HIDE DEF T
  <2>3. Typed(st) /\ Unique(st.items) /\ MetaOK(st) /\ h[n] = st
    BY <2>1, <2>2
  <2>4. n + 1 \in 0..L /\ n + 1 # 0 /\ (n + 1) - 1 = n /\ n + 1 \in DOMAIN s
    BY <1>1
  <2>5. EventOK(ev)
    BY <2>1, <2>4 DEF EventsOK
  <2>6. next = fold_event("tab", st, ev)
    BY <1>3, <2>1, <2>4 DEF Folds
  <2>7. h[n + 1] = fold_event("hub", st, ev)
    BY <1>4, <2>1, <2>3, <2>4 DEF Folds
  <2>8. h[n + 1] = next
    BY <2>3, <2>6, <2>7, HubIsTab DEF Typed
  <2>9. Typed(next) /\ Evolves(st.items, next.items, Started(ev))
    BY <2>3, <2>5, <2>6, FoldTyped
  <2>10. MetaOK(next) /\ (st.ref = TRUE => next.ref = TRUE) /\ (ev.type \in Snapshots => next.ref = TRUE)
    BY <2>3, <2>5, <2>6, FoldMeta
  <2>11. Fresh(st.items, Started(ev))
    <3> SUFFICES ASSUME ev.type = "toolStarted", ev.call \in Calls(st.items) PROVE FALSE
      BY DEF Fresh, Started
    <3>1. ev.call \in CallsIn(s, n)
      BY <2>1, <2>2
    <3>2. PICK m \in 1..n : s[m].type = "toolStarted" /\ s[m].call = ev.call
      BY <3>1 DEF CallsIn
    <3>3. m \in DOMAIN s /\ m # n + 1
      BY <1>1, <3>2
    <3> QED BY <2>1, <2>4, <3>2, <3>3
  <2>12. Unique(next.items)
    BY <2>3, <2>9, <2>11 DEF Evolves
  <2>13. \A c \in Calls(next.items) : c \in CallsIn(s, n + 1)
    <3> TAKE c \in Calls(next.items)
    <3>1. c \in Calls(st.items) \cup Started(ev)
      BY <2>9 DEF Evolves
    <3>2. CASE c \in Calls(st.items)
      <4>1. c \in CallsIn(s, n)
        BY <2>1, <2>2, <3>2
      <4> QED BY <4>1 DEF CallsIn
    <3>3. CASE c \in Started(ev)
      <4>1. ev.type = "toolStarted" /\ c = ev.call
        BY <3>3 DEF Started
      <4> QED BY <2>1, <4>1 DEF CallsIn
    <3> QED BY <3>1, <3>2, <3>3
  <2>14. (\E i \in 1..n + 1 : s[i].type \in Snapshots) => next.ref = TRUE
    <3> SUFFICES ASSUME NEW i \in 1..n + 1, s[i].type \in Snapshots PROVE next.ref = TRUE
      OBVIOUS
    <3>1. CASE i = n + 1
      BY <2>1, <2>10, <3>1
    <3>2. CASE i # n + 1
      <4>1. i \in 1..n
        BY <3>2
      <4>2. st.ref = TRUE
        BY <2>1, <2>2, <4>1
      <4> QED BY <2>10, <4>2
    <3> QED BY <3>1, <3>2
  <2> QED BY <2>1, <2>8, <2>9, <2>10, <2>12, <2>13, <2>14
<1>7. P(L)
  <2>1. L \in T
    <3> HIDE DEF T
    <3> QED BY <1>5, <1>6, SetInduction
  <2> QED BY <2>1
<1>8. WholeState(f[L]) /\ h[L] = f[L]
  BY <1>1, <1>7 DEF WholeState
<1> QED BY <1>2, <1>3, <1>4, <1>8 DEF fold_all

-----------------------------------------------------------------------------
(* The journal of a running hub *)

\* An event a source may emit.
Emitted(ev) == \E w \in DOMAIN Alphabet : ev \in Alphabet[w]

\* A held run is an event,
LEMMA RunIsEvent ==
    ASSUME NEW r \in Runs
    PROVE  EventOK(r) /\ r.type = "assistantDelta" /\ Started(r) = {} /\ r # None
<1>1. r.type = "assistantDelta" /\ r.text \in Seq(Nat) /\ DOMAIN r = {"type", "channel", "entry", "text", "ts"}
  BY DEF Runs
<1>2. PICK text : text = r.text
  OBVIOUS
<1>3. IsSeq(text)
  BY <1>1, <1>2, SeqIsSeq
<1> QED BY <1>1, <1>2, <1>3, OptionsAssumption DEF EventOK, EventTypes, Types, Snapshots, Started

\* and so is whatever is stamped.
LEMMA StampedDelta ==
    ASSUME NEW ev, Emitted(ev), ev.type = "assistantDelta", NEW ts \in Nat
    PROVE  Stamped(ev, ts) \in Runs /\ Stamped(ev, ts).channel = ev.channel
<1>1. ev.channel \in Channel
  BY AlphabetAssumption DEF Emitted, Carries, Types, Snapshots
<1>2. PICK channel : channel = ev.channel
  OBVIOUS
<1>3. Stamped(ev, ts) = [type |-> "assistantDelta", channel |-> channel, entry |-> None, text |-> <<ts>>, ts |-> ts]
  BY <1>2 DEF Stamped
<1>4. <<ts>> \in Seq(Nat)
  OBVIOUS
<1>5. PICK text : text = <<ts>>
  OBVIOUS
<1> QED BY <1>1, <1>2, <1>3, <1>4, <1>5 DEF Runs

LEMMA StampedOther ==
    ASSUME NEW ev, Emitted(ev), ev.type # "assistantDelta", NEW ts, NEW items,
           ev.type = "toolStarted" => ev.call \notin Calls(items)
    PROVE  EventOK(Stamped(ev, ts)) /\ Fresh(items, Started(Stamped(ev, ts)))
<1>1. Carries(ev)
  BY AlphabetAssumption DEF Emitted
<1>2. PICK e : e = Stamped(ev, ts)
  OBVIOUS
<1>3. e = [x \in DOMAIN ev \cup {"ts"} |-> IF x = "ts" THEN ts ELSE ev[x]]
  BY <1>2 DEF Stamped
<1>4. \A x \in DOMAIN ev : x # "ts" => e[x] = ev[x]
  BY <1>3
<1>5. e.type = ev.type /\ e.type \in Types
  BY <1>1, <1>4 DEF Carries
<1>6. e.type \in Snapshots => (e.snapshot.queued # None => e.snapshot.queued \in Seq(Waiting))
  <2> SUFFICES ASSUME e.type \in Snapshots PROVE e.snapshot.queued # None => e.snapshot.queued \in Seq(Waiting)
    OBVIOUS
  <2>1. e.snapshot = ev.snapshot
    BY <1>1, <1>4, <1>5 DEF Carries
  <2>2. ev.snapshot.queued # None => ev.snapshot.queued \in Seq(Waiting)
    BY <1>1, <1>5 DEF Carries
  <2> QED BY <2>1, <2>2
<1>7. e.type = "queueUpdated" => e.messages \in Seq(Waiting)
  BY <1>1, <1>4, <1>5 DEF Carries
<1>8. e.type = "hostUiRequest" => e.kind \in Surfaces
  BY <1>1, <1>4, <1>5 DEF Carries
<1>9. e.type = "toolStarted" => e.call = ev.call
  BY <1>1, <1>4, <1>5 DEF Carries
<1>10. EventOK(e)
  BY <1>5, <1>6, <1>7, <1>8 DEF EventOK, EventTypes, Types, Snapshots
<1>11. Fresh(items, Started(e))
  BY <1>5, <1>9 DEF Fresh, Started
<1> QED BY <1>2, <1>10, <1>11

\* The inductive invariant: the sources and the clock are what they were declared to be, the journal is well
\* formed, and with the held run it stands for everything that was emitted.
IngestInv ==
    /\ workload \in DOMAIN Alphabet
    /\ clock \in Nat
    /\ pending \in Runs \cup {None}
    /\ JournalOK(Journal)
    /\ NothingLost

\* How a step changes the invariant's parts.
LEMMA BecomesOK ==
    ASSUME NEW j, JournalOK(j), Becomes(j)
    PROVE  JournalOK(Journal)' /\ tab' = j.tab
BY DEF JournalOK, Becomes, Journal

LEMMA SameJournal ==
    ASSUME JournalOK(Journal), UNCHANGED <<compacted, tail, tab>>
    PROVE  JournalOK(Journal)'
BY DEF JournalOK, Journal

\* The held run goes to the journal and to the tab.
LEMMA FlushOK ==
    ASSUME IngestInv, pending # None, NEW k \in 0..Len(tail) + 1
    PROVE  JournalOK(ingest_now(Journal, pending, k)) /\ ingest_now(Journal, pending, k).tab = all
<1>1. PICK j, run : j = Journal /\ run = pending
  OBVIOUS
<1>2. run \in Runs /\ JournalOK(j)
  BY <1>1 DEF IngestInv
<1>3. EventOK(run) /\ Started(run) = {}
  BY <1>2, RunIsEvent
<1>4. j.ring = tail /\ j.tab = tab
  BY <1>1 DEF Journal
<1>5. Fresh(j.tab.items, Started(run))
  BY <1>3 DEF Fresh
<1>6. k \in Nat /\ k <= Len(j.ring) + 1
  <2>1. Len(tail) \in Nat
    BY <1>2, <1>4, SeqShape DEF JournalOK, EventsOK
  <2> QED BY <1>4, <2>1
<1>7. JournalOK(ingest_now(j, run, k)) /\ ingest_now(j, run, k).tab = fold_event("tab", j.tab, run)
  BY <1>2, <1>3, <1>5, <1>6, IngestFolds, OptionsAssumption
<1>8. fold_event("tab", tab, run) = all
  BY <1>1 DEF IngestInv, NothingLost
<1> QED BY <1>1, <1>4, <1>7, <1>8

\* It holds at the start,
LEMMA IngestInit == Init => IngestInv
<1> SUFFICES ASSUME Init PROVE IngestInv
  OBVIOUS
<1>1. PICK s : s = Seed
  OBVIOUS
<1>2. EventsOK(s)
  <2>1. IsSeq(s)
    BY <1>1, SeedAssumption DEF IsSeq
  <2>2. ASSUME NEW i \in DOMAIN s PROVE EventOK(s[i])
    <3>1. PICK e : e = s[i]
      OBVIOUS
    <3>2. CASE Carries(e)
      BY <3>1, <3>2 DEF EventOK, EventTypes, Types, Snapshots, Carries
    <3>3. CASE ~Carries(e)
      <4>1. e.type = "assistantDelta" /\ {"type", "channel", "entry", "text", "ts"} \subseteq DOMAIN e /\ e.text \in Seq(ToSet(e.text))
        BY <1>1, <3>1, <3>3, SeedAssumption
      <4> QED BY <3>1, <4>1 DEF EventOK, EventTypes, Snapshots, IsSeq
    <3> QED BY <3>2, <3>3
  <2> QED BY <2>1, <2>2 DEF EventsOK
<1>3. /\ \E i \in DOMAIN s : s[i].type \in Snapshots
      /\ \A i, k \in DOMAIN s :
           s[i].type = "toolStarted" /\ s[k].type = "toolStarted" /\ s[i].call = s[k].call => i = k
  BY <1>1, SeedAssumption
<1>4. WholeState(fold_all("tab", s)) /\ fold_all("hub", s) = fold_all("tab", s)
  BY <1>2, <1>3, OptionsAssumption, SeedFolds
<1>5. PICK none, init : none = <<>> /\ init = initial_session_state
  OBVIOUS
<1>6. compacted = coalesce_events(s) /\ tail = none /\ tab = fold_all("tab", compacted) /\ all = fold_all("tab", s)
  BY <1>1, <1>5 DEF Init
<1>7. Typed(init)
  BY <1>5, InitialOK
<1>8. EventsOK(compacted) /\ EventsOK(none)
  BY <1>2, <1>5, <1>6, <1>7, NoEventsOK, CoalescedFolds
<1>9. ASSUME NEW side PROVE fold_all(side, compacted) = fold_all(side, s) /\ fold_all(side, build_seed(compacted, tail)) = fold_all(side, s)
  <2>1. fold_all_from(side, init, coalesce_events(s)) = fold_all_from(side, init, s)
    BY <1>2, <1>7, CoalescedFolds
  <2>2. fold_all_from(side, init, compacted) = fold_all_from(side, init, s)
    BY <1>6, <2>1
  <2>3. PICK joint, c : joint = c \o none /\ c = compacted
    OBVIOUS
  <2>4. joint = c
    BY <1>5, <1>8, <2>3, ConcatEmpty DEF EventsOK
  <2>5. fold_all_from(side, init, coalesce_events(joint)) = fold_all_from(side, init, c)
    BY <1>7, <1>8, <2>3, <2>4, CoalescedFolds
  <2> QED BY <1>5, <1>6, <2>2, <2>3, <2>5 DEF fold_all, build_seed
<1>10. tab = all
  BY <1>6, <1>9
<1>11. JournalOK(Journal)
  BY <1>4, <1>5, <1>6, <1>8, <1>9, <1>10 DEF JournalOK, Journal
<1> QED BY <1>10, <1>11 DEF Init, IngestInv, NothingLost

\* when a delta joins the held run,
LEMMA IngestJoin ==
    ASSUME IngestInv, NEW ev \in Alphabet[workload], JoinDelta(ev)
    PROVE  IngestInv'
<1>1. clock' \in Nat /\ workload' = workload /\ clock \in Nat
  BY DEF JoinDelta, Emits, IngestInv
<1>2. PICK ts, e : ts = clock' /\ e = Stamped(ev, ts)
  OBVIOUS
<1>3. ev.type = "assistantDelta" /\ Emitted(ev)
  BY DEF JoinDelta, Emitted, IngestInv
<1>4. e \in Runs
  BY <1>1, <1>2, <1>3, StampedDelta
<1>5. PICK run, st : run = pending /\ st = tab
  OBVIOUS
<1>6. run \in Runs /\ mergeable(run, e) /\ pending' = try_merge(run, e) /\ pending # None
  BY <1>2, <1>5 DEF JoinDelta, IngestInv
<1>7. pending' \in Runs
  <2>1. run.type = "assistantDelta"
    BY <1>6, RunIsEvent
  <2>2. PICK s, t : s = run.text /\ t = e.text
    OBVIOUS
  <2>3. s \in Seq(Nat) /\ t \in Seq(Nat)
    BY <1>4, <1>6, <2>2 DEF Runs
  <2>4. PICK text : text = s \o t
    OBVIOUS
  <2>5. text \in Seq(Nat)
    BY <2>3, <2>4
  <2>6. pending' = [run EXCEPT !.text = text]
    BY <1>6, <2>1, <2>2, <2>4 DEF try_merge
  <2> QED BY <1>6, <2>5, <2>6 DEF Runs
<1>8. pending' # None
  BY <1>7, OptionsAssumption
<1>9. EventOK(run) /\ EventOK(e)
  BY <1>4, <1>6, RunIsEvent
<1>10. Typed(st)
  BY <1>5 DEF IngestInv, JournalOK, Journal, WholeState
<1>11. fold_event("tab", fold_event("tab", st, run), e) = fold_event("tab", st, try_merge(run, e))
  BY <1>6, <1>9, <1>10, MergeFolds
<1>12. fold_event("tab", st, run) = all
  BY <1>5, <1>6 DEF IngestInv, NothingLost
<1>13. all' = fold_event("tab", all, e)
  BY <1>2 DEF JoinDelta, Emits
<1>14. tab' = st
  BY <1>5 DEF JoinDelta
<1>15. NothingLost'
  BY <1>6, <1>8, <1>11, <1>12, <1>13, <1>14 DEF NothingLost
<1>16. JournalOK(Journal)'
  BY SameJournal DEF IngestInv, JoinDelta
<1> QED BY <1>1, <1>7, <1>15, <1>16 DEF IngestInv

\* when it is held on its own,
LEMMA IngestHold ==
    ASSUME IngestInv, NEW ev \in Alphabet[workload], HoldDelta(ev)
    PROVE  IngestInv'
<1>1. clock' \in Nat /\ workload' = workload /\ clock \in Nat
  BY DEF HoldDelta, Emits, IngestInv
<1>2. PICK ts, e : ts = clock' /\ e = Stamped(ev, ts)
  OBVIOUS
<1>3. ev.type = "assistantDelta" /\ Emitted(ev)
  BY DEF HoldDelta, Emitted, IngestInv
<1>4. e \in Runs /\ pending' = e
  BY <1>1, <1>2, <1>3, StampedDelta DEF HoldDelta
<1>5. pending' # None
  BY <1>4, OptionsAssumption
<1>6. all' = fold_event("tab", all, e)
  BY <1>2 DEF HoldDelta, Emits
<1>7. JournalOK(Journal)' /\ tab' = all
  <2>1. CASE pending = None
    <3>1. UNCHANGED <<compacted, tail, tab>> /\ tab = all
      BY <2>1 DEF HoldDelta, IngestInv, NothingLost
    <3> QED BY <3>1, SameJournal DEF IngestInv
  <2>2. CASE pending # None
    <3>1. PICK k \in 0..Len(tail) + 1 : Becomes(ingest_now(Journal, pending, k))
      BY <2>2 DEF HoldDelta
    <3>2. JournalOK(ingest_now(Journal, pending, k)) /\ ingest_now(Journal, pending, k).tab = all
      BY <2>2, FlushOK
    <3>3. PICK j : j = ingest_now(Journal, pending, k)
      OBVIOUS
    <3> QED BY <3>1, <3>2, <3>3, BecomesOK
  <2> QED BY <2>1, <2>2
<1>8. NothingLost'
  BY <1>4, <1>5, <1>6, <1>7 DEF NothingLost
<1> QED BY <1>1, <1>4, <1>7, <1>8 DEF IngestInv

\* when another event flushes the run first,
LEMMA IngestOthers ==
    ASSUME IngestInv, NEW ev \in Alphabet[workload], IngestOther(ev)
    PROVE  IngestInv'
<1>1. clock' \in Nat /\ workload' = workload /\ pending' = None
  BY DEF IngestOther, Emits, IngestInv
<1>2. PICK ts, e : ts = clock' /\ e = Stamped(ev, ts)
  OBVIOUS
<1>3. ev.type # "assistantDelta" /\ Emitted(ev) /\ (ev.type = "toolStarted" => ev.call \notin Calls(all.items))
  BY DEF IngestOther, Emitted, IngestInv, Emits
<1>4. EventOK(e) /\ Fresh(all.items, Started(e))
  <2>1. PICK items : items = all.items
    OBVIOUS
  <2> QED BY <1>2, <1>3, <2>1, StampedOther
<1>5. all' = fold_event("tab", all, e)
  BY <1>2 DEF IngestOther, Emits
<1> DEFINE flushed(k) == IF pending = None THEN Journal ELSE ingest_now(Journal, pending, k)
<1>a. PICK k \in 0..Len(tail) + 1, n \in 0..Len(tail) + 2 :
        n <= Len(flushed(k).ring) + 1 /\ Becomes(ingest_now(flushed(k), e, n))
  BY <1>2 DEF IngestOther
<1>b. PICK j : j = flushed(k)
  OBVIOUS
<1>6. /\ j = IF pending = None THEN Journal ELSE ingest_now(Journal, pending, k)
      /\ n <= Len(j.ring) + 1
      /\ Becomes(ingest_now(j, e, n))
  BY <1>a, <1>b
<1> HIDE DEF flushed
<1>7. JournalOK(j) /\ j.tab = all
  <2>1. CASE pending = None
    <3>1. j = Journal /\ tab = all
      BY <1>6, <2>1 DEF IngestInv, NothingLost
    <3> QED BY <3>1 DEF IngestInv, Journal
  <2>2. CASE pending # None
    BY <1>a, <1>6, <2>2, FlushOK
  <2> QED BY <2>1, <2>2
<1>8. n \in Nat
  <2>1. IsSeq(tail)
    BY DEF IngestInv, JournalOK, Journal, EventsOK
  <2>2. Len(tail) \in Nat
    BY <2>1, SeqShape
  <2> QED BY <1>a, <2>2
<1>9. JournalOK(ingest_now(j, e, n)) /\ ingest_now(j, e, n).tab = fold_event("tab", j.tab, e)
  BY <1>4, <1>6, <1>7, <1>8, IngestFolds, OptionsAssumption
<1>10. PICK next : next = ingest_now(j, e, n)
  OBVIOUS
<1>11. JournalOK(Journal)' /\ tab' = next.tab
  BY <1>6, <1>9, <1>10, BecomesOK
<1>12. NothingLost'
  BY <1>1, <1>5, <1>7, <1>9, <1>10, <1>11 DEF NothingLost
<1> QED BY <1>1, <1>11, <1>12 DEF IngestInv

\* and when the timer does.
LEMMA IngestFlush ==
    ASSUME IngestInv, RunFlush
    PROVE  IngestInv'
<1>1. pending' = None /\ UNCHANGED <<workload, all, clock>>
  BY DEF RunFlush
<1>2. JournalOK(Journal)' /\ tab' = all
  <2>1. CASE pending = None
    <3>1. UNCHANGED <<compacted, tail, tab>> /\ tab = all
      BY <2>1 DEF RunFlush, IngestInv, NothingLost
    <3> QED BY <3>1, SameJournal DEF IngestInv
  <2>2. CASE pending # None
    <3>1. PICK k \in 0..Len(tail) + 1 : Becomes(ingest_now(Journal, pending, k))
      BY <2>2 DEF RunFlush
    <3>2. JournalOK(ingest_now(Journal, pending, k)) /\ ingest_now(Journal, pending, k).tab = all
      BY <2>2, FlushOK
    <3>3. PICK j : j = ingest_now(Journal, pending, k)
      OBVIOUS
    <3> QED BY <3>1, <3>2, <3>3, BecomesOK
  <2> QED BY <2>1, <2>2
<1>3. NothingLost'
  BY <1>1, <1>2 DEF NothingLost
<1> QED BY <1>1, <1>2, <1>3 DEF IngestInv

\* Every step keeps it.
LEMMA IngestInvKept == IngestInv /\ [Next]_vars => IngestInv'
<1> SUFFICES ASSUME IngestInv, [Next]_vars PROVE IngestInv'
  OBVIOUS
<1>1. ASSUME NEW ev \in Alphabet[workload], JoinDelta(ev) PROVE IngestInv'
  BY <1>1, IngestJoin
<1>2. ASSUME NEW ev \in Alphabet[workload], HoldDelta(ev) PROVE IngestInv'
  BY <1>2, IngestHold
<1>3. ASSUME NEW ev \in Alphabet[workload], IngestOther(ev) PROVE IngestInv'
  BY <1>3, IngestOthers
<1>4. CASE TimerFires
  BY <1>4 DEF TimerFires, IngestInv, JournalOK, Journal, NothingLost
<1>5. CASE RunFlush
  BY <1>5, IngestFlush
<1>6. CASE UNCHANGED vars
  BY <1>6 DEF vars, IngestInv, JournalOK, Journal, NothingLost
<1> QED BY <1>1, <1>2, <1>3, <1>4, <1>5, <1>6 DEF Next

LEMMA IngestInvHolds == Spec => []IngestInv
BY IngestInit, IngestInvKept, PTL DEF Spec

\* A client that folds what build_seed sends it sees what a client that was there all along sees, whatever was
\* merged, compacted or evicted in between (journal.rs append_event, build_seed; state.rs fold_event).
THEOREM SeedFoldsToViewCorrect == Spec => []SeedFoldsToView
<1>1. IngestInv => SeedFoldsToView
  BY DEF IngestInv, JournalOK, Journal, SeedFoldsToView
<1> QED BY <1>1, IngestInvHolds, PTL

\* Whatever the sources emit is in the journal or in the held run, in the order it was emitted (hub.rs ingest,
\* flush_pending_delta).
THEOREM NothingLostCorrect == Spec => []NothingLost
<1>1. IngestInv => NothingLost
  BY DEF IngestInv
<1> QED BY <1>1, IngestInvHolds, PTL

-----------------------------------------------------------------------------
(* BackgroundModel: the readings of a spec *)

\* One prefix of a spec, given what the shorter one came to.
Reading(spec, models, n, inner) ==
    LET m     == try_match_model(prefix(spec, n), models)
        valid == spec.suffixes[n] \in VALID_THINKING_LEVELS
    IN  CASE m # NoModel -> Resolved(m, "", "")
          [] m = NoModel /\ n = 0 -> Resolved(NoModel, "", "no_match")
          [] m = NoModel /\ n > 0 /\ inner.model = NoModel -> Resolved(NoModel, "", "no_match")
          [] m = NoModel /\ n > 0 /\ inner.model # NoModel /\ valid ->
               Resolved(inner.model, spec.suffixes[n], "")
          [] OTHER -> Resolved(inner.model, "", "level_dropped")

\* The readings of the prefixes up to one.
Reads(g, spec, models, k) == g = [n \in 0 .. k |-> Reading(spec, models, n, g[n - 1])]

\* The shortest prefix is read on its own.
LEMMA TheTextAlone ==
    ASSUME NEW spec, NEW models, NEW a, NEW b
    PROVE  Reading(spec, models, 0, a) = Reading(spec, models, 0, b)
<1> DEFINE m == try_match_model(prefix(spec, 0), models)
<1> HIDE DEF m
<1>1. CASE m # NoModel
  BY <1>1 DEF Reading, m
<1>2. CASE m = NoModel
  <2>1. Reading(spec, models, 0, a) = Resolved(NoModel, "", "no_match")
    BY <1>2 DEF Reading, m
  <2>2. Reading(spec, models, 0, b) = Resolved(NoModel, "", "no_match")
    BY <1>2 DEF Reading, m
  <2> QED BY <2>1, <2>2
<1> QED BY <1>1, <1>2

\* There is such a record of every spec,
LEMMA ReadingsExist ==
    ASSUME NEW spec, NEW models, NEW L \in Nat
    PROVE  \E g : Reads(g, spec, models, L)
<1> DEFINE T == {k \in Nat : \E g : Reads(g, spec, models, k)}
<1>1. 0 \in T
  <2> DEFINE g == [n \in 0 .. 0 |-> Reading(spec, models, 0, [model |-> NoModel])]
  <2>1. \A a, b : Reading(spec, models, 0, a) = Reading(spec, models, 0, b)
    BY TheTextAlone
  <2>2. Reads(g, spec, models, 0)
    <3> SUFFICES g = [n \in 0 .. 0 |-> Reading(spec, models, n, g[n - 1])]
      BY DEF Reads
    <3>1. \A n \in 0 .. 0 : g[n] = Reading(spec, models, n, g[n - 1])
      <4> TAKE n \in 0 .. 0
      <4>1. n = 0
        OBVIOUS
      <4>2. g[n] = Reading(spec, models, 0, [model |-> NoModel])
        OBVIOUS
      <4> QED BY <2>1, <4>1, <4>2
    <3> QED BY <3>1
  <2> QED BY <2>2
<1>2. ASSUME NEW k \in Nat, k \in T PROVE k + 1 \in T
  <2>1. PICK g : Reads(g, spec, models, k)
    BY <1>2
  <2> DEFINE h == [n \in 0 .. k + 1 |-> IF n = k + 1 THEN Reading(spec, models, k + 1, g[k]) ELSE g[n]]
  <2>2. \A n \in 0 .. k + 1 : h[n] = Reading(spec, models, n, h[n - 1])
    <3> TAKE n \in 0 .. k + 1
    <3>1. CASE n = k + 1
      <4>1. h[n] = Reading(spec, models, k + 1, g[k]) /\ n - 1 = k
        BY <3>1
      <4>2. h[k] = g[k]
        OBVIOUS
      <4> QED BY <3>1, <4>1, <4>2
    <3>2. CASE n = 0
      <4>1. h[0] = g[0] /\ g[0] = Reading(spec, models, 0, g[0 - 1])
        BY <2>1 DEF Reads
      <4>2. \A a, b : Reading(spec, models, 0, a) = Reading(spec, models, 0, b)
        BY TheTextAlone
      <4> QED BY <3>2, <4>1, <4>2
    <3>3. CASE n # k + 1 /\ n # 0
      <4>1. n \in 0 .. k /\ n - 1 \in 0 .. k /\ n - 1 \in 0 .. k + 1 /\ n - 1 # k + 1
        BY <3>3
      <4>2. h[n] = g[n] /\ h[n - 1] = g[n - 1]
        BY <4>1, <3>3
      <4> QED BY <4>1, <4>2, <2>1 DEF Reads
    <3> QED BY <3>1, <3>2, <3>3
  <2>3. Reads(h, spec, models, k + 1)
    <3> HIDE DEF T
    <3> QED BY <2>2 DEF Reads
  <2> QED BY <2>3
<1>3. L \in T
  <2> HIDE DEF T
  <2> QED BY <1>1, <1>2, SetInduction
<1> QED BY <1>3

\* and resolve_background_model is its last entry: a plain spec that is told as one names a model.
LEMMA ReadingsAreTrue ==
    ASSUME NEW spec, NEW models, NEW L \in Nat, NEW g, Reads(g, spec, models, L)
    PROVE  \A n \in 0 .. L :
              \/ g[n].warning = "no_match"
              \/ \E k \in 0 .. n : try_match_model(prefix(spec, k), models) # NoModel
<1> DEFINE Matches(k) == try_match_model(prefix(spec, k), models) # NoModel
           Good(n) == IF g[n].model = NoModel THEN g[n].warning = "no_match" ELSE \E k \in 0 .. n : Matches(k)
           T == {n \in Nat : n <= L => Good(n)}
<1>1. \A n \in 0 .. L : g[n] = Reading(spec, models, n, g[n - 1])
  BY DEF Reads
<1>2. \A n \in 0 .. L : \A inner : Matches(n) => Reading(spec, models, n, inner).model # NoModel
  BY DEF Reading, Resolved
<1>3. ASSUME NEW n \in 0 .. L, NEW inner, ~Matches(n)
      PROVE  \/ Reading(spec, models, n, inner).model = NoModel /\ Reading(spec, models, n, inner).warning = "no_match"
             \/ n > 0 /\ inner.model # NoModel /\ Reading(spec, models, n, inner).model = inner.model
  BY <1>3 DEF Reading, Resolved
<1>4. 0 \in T
  <2>1. CASE Matches(0)
    BY <1>1, <1>2, <2>1
  <2>2. CASE ~Matches(0)
    <3>1. g[0].model = NoModel /\ g[0].warning = "no_match"
      BY <1>1, <1>3, <2>2
    <3> QED BY <3>1
  <2> QED BY <2>1, <2>2
<1>5. ASSUME NEW n \in Nat, n \in T PROVE n + 1 \in T
  <2> SUFFICES ASSUME n + 1 <= L PROVE Good(n + 1)
    OBVIOUS
  <2>1. Good(n) /\ n + 1 \in 0 .. L /\ (n + 1) - 1 = n
    BY <1>5
  <2>2. CASE Matches(n + 1)
    BY <1>1, <1>2, <2>1, <2>2
  <2>3. CASE ~Matches(n + 1)
    <3>1. \/ g[n + 1].model = NoModel /\ g[n + 1].warning = "no_match"
          \/ g[n].model # NoModel /\ g[n + 1].model = g[n].model
      BY <1>1, <1>3, <2>1, <2>3
    <3> QED BY <3>1, <2>1
  <2> QED BY <2>2, <2>3
<1>6. \A n \in Nat : n \in T
  <2> HIDE DEF T
  <2> QED BY <1>4, <1>5, SetInduction
<1> QED BY <1>6

\* A spec that parse_spec finds no model for is reported as such.
LEMMA NoMatchIsTold ==
    ASSUME NEW spec, spec.suffixes \in Seq(STRING), NEW models
    PROVE  parse_spec(spec, models).warning = "no_match" \/ names_a_model(spec, models)
<1>1. Len(spec.suffixes) \in Nat
  OBVIOUS
<1>2. PICK L \in Nat : L = Len(spec.suffixes)
  BY <1>1
<1> DEFINE parse == CHOOSE g : Reads(g, spec, models, L)
<1>3. Reads(parse, spec, models, L)
  BY ReadingsExist
<1>4. parse_spec(spec, models) = parse[L]
  BY <1>2 DEF parse_spec, Reads, Reading
<1>5. L \in 0 .. L
  OBVIOUS
<1>6. \/ parse[L].warning = "no_match"
      \/ \E k \in 0 .. L : try_match_model(prefix(spec, k), models) # NoModel
  <2> HIDE DEF parse
  <2> QED BY <1>3, <1>5, ReadingsAreTrue
<1> QED BY <1>2, <1>4, <1>6 DEF names_a_model

-----------------------------------------------------------------------------
(* DurableStores: the inductive invariant *)

\* What a whole file holds, or will hold once the write in flight ends, is what the store holds in memory.
OnDisk(store, default, v) ==
    store \notin damaged =>
        IF writing[store] = NoWrite THEN load(file[store], default) = v ELSE writing[store] = Whole(v)

\* The shape of the state: nothing is being written while the server is down.
StoresShape ==
    /\ DOMAIN file = Stores /\ DOMAIN writing = Stores
    /\ up \in BOOLEAN /\ placed \in BOOLEAN /\ (up => placed)
    /\ ~up => \A s \in Stores : writing[s] = NoWrite
    /\ push.pc \in {"free", "sending"}

\* The archive in memory, or on disk while the server is down, is what the clients were answered.
ArchiveInv ==
    "archive" \notin damaged =>
        /\ up => archived = wanted /\ OnDisk("archive", {}, archived)
        /\ ~up => load(IF placed \/ legacy = Absent THEN file["archive"] ELSE legacy, {}) = wanted

\* The key the devices were given is the one on disk.
KeyInv ==
    /\ file["vapid"].st = "whole" => file["vapid"].v = vapid
    /\ file["vapid"].st # "whole" => acked = {}
    /\ up /\ writing["vapid"] = NoWrite => file["vapid"].st = "whole"
    /\ writing["vapid"] # NoWrite => writing["vapid"] = Whole(vapid)

\* Every device that was answered is subscribed under that key, unless it is gone.
Subscribed == IF up THEN subs ELSE load(file["push"], {})

PushInv ==
    /\ up => OnDisk("push", {}, subs)
    /\ "push" \notin damaged => \A e \in acked \ gone : <<e, vapid>> \in Subscribed
    /\ push.pc = "sending" => push.dead \cap acked \subseteq gone

Specced == Specs \cup {NoSettings.model}
Settable == [shell : Shells \cup {""}, model : Specced]

\* The settings on disk are the ones last chosen.
SettingsInv ==
    /\ chosen \in Settable
    /\ load(file["settings"], NoSettings) \in Settable
    /\ writing["settings"] = NoWrite \/ \E c \in Settable : writing["settings"] = Whole(c)
    /\ OnDisk("settings", NoSettings, chosen)

Titles == Names \cup {Untitled}
Metas == [override : Titles, inferred : Titles]

\* The content a session's file will have, and what runs on it.
Coming(r) == IF writing[r] = NoWrite THEN file[r] ELSE writing[r]

\* A session's title, in memory and on disk, is the one it was last given.
RowInv(r) ==
    /\ heldTitle[r] = Absent \/ \E m \in Metas : heldTitle[r] = Whole(m)
    /\ file[r] = Torn \/ \E m \in Metas : file[r] = Whole(m)
    /\ writing[r] = NoWrite \/ \E m \in Metas : writing[r] = Whole(m)
    /\ r \in warm => heldTitle[r] # Absent
    /\ r \notin damaged \cup behind =>
          /\ Coming(r).st = "whole" /\ Coming(r).v.override = renamed[r]
          /\ heldTitle[r] # Absent => heldTitle[r].v.override = renamed[r]

TitlesInv ==
    /\ DOMAIN heldTitle = Rows /\ DOMAIN renamed = Rows
    /\ \A r \in Rows : RowInv(r)

\* A client that is told no warning is told a model that exists.
ToldInv ==
    told.settings.model.kind = "plain" /\ told.warning # "no_match" =>
        names_a_model(told.settings.model, told.models)

\* The inductive invariant.
StoresInv == StoresShape /\ ArchiveInv /\ KeyInv /\ PushInv /\ SettingsInv /\ TitlesInv /\ ToldInv

-----------------------------------------------------------------------------
(* What a step does to the file of a store. *)

\* What a file gives back.
LEMMA Contents ==
    /\ Absent.st = "absent" /\ Torn.st = "torn"
    /\ \A v : Whole(v).st = "whole" /\ Whole(v).v = v /\ Whole(v) # Absent
    /\ \A v, d : load(Whole(v), d) = v
    /\ \A d : load(Torn, d) = d /\ load(Absent, d) = d
<1>1. Absent.st = "absent" /\ Torn.st = "torn"
  BY DEF Absent, Torn
<1>2. \A v : Whole(v).st = "whole" /\ Whole(v).v = v
  BY DEF Whole
<1>3. \A v : Whole(v) # Absent
  BY <1>1, <1>2
<1>4. \A v, d : load(Whole(v), d) = v
  BY <1>2 DEF load
<1>5. \A d : load(Torn, d) = d /\ load(Absent, d) = d
  BY <1>1 DEF load
<1> QED BY <1>1, <1>2, <1>3, <1>4, <1>5

\* No store is another.
LEMMA StoresDiffer ==
    /\ \A r \in Rows : r \in Stores /\ r \notin {"archive", "push", "vapid", "settings"}
    /\ {"archive", "push", "vapid", "settings"} \subseteq Stores
BY StoresAssumption DEF Stores

\* A store nobody touches.
Spared(s) == file'[s] = file[s] /\ writing'[s] = writing[s] /\ (s \in damaged' <=> s \in damaged)

\* A store a request writes, or fails to.
Written(s, v) ==
    \/ writing'[s] = Whole(v) /\ file'[s] = Torn /\ damaged' = damaged
    \/ file'[s] = file[s] /\ writing'[s] = writing[s] /\ s \in damaged'

\* persist starts to write a file,
LEMMA PersistWrites ==
    ASSUME StoresShape, NEW store \in Stores, NEW v, persist(store, v)
    PROVE  /\ Written(store, v)
           /\ \A s \in Stores \ {store} : Spared(s)
           /\ DOMAIN file' = Stores /\ DOMAIN writing' = Stores
<1>1. CASE /\ writing' = [writing EXCEPT ![store] = Whole(v)]
           /\ file' = [file EXCEPT ![store] = Torn]
           /\ damaged' = damaged
  <2>1. writing'[store] = Whole(v) /\ file'[store] = Torn /\ damaged' = damaged
    BY <1>1 DEF StoresShape
  <2>2. \A s \in Stores \ {store} : Spared(s)
    BY <1>1 DEF StoresShape, Spared
  <2>3. DOMAIN file' = Stores /\ DOMAIN writing' = Stores
    BY <1>1 DEF StoresShape
  <2> QED BY <2>1, <2>2, <2>3 DEF Written
<1>2. CASE damaged' = damaged \cup {store} /\ UNCHANGED <<file, writing>>
  BY <1>2 DEF StoresShape, Spared, Written
<1> QED BY <1>1, <1>2 DEF persist

\* and leaves the others alone;
LEMMA UntouchedIsSpared ==
    ASSUME StoresShape, UNCHANGED <<file, writing, damaged>>
    PROVE  (\A s \in Stores : Spared(s)) /\ DOMAIN file' = Stores /\ DOMAIN writing' = Stores
BY DEF StoresShape, Spared

\* the write ends.
LEMMA WriteEndsMoves ==
    ASSUME StoresShape, NEW store \in Stores, WriteEnds(store)
    PROVE  /\ file'[store] = writing[store] /\ writing'[store] = NoWrite /\ damaged' = damaged
           /\ writing[store] # NoWrite
           /\ \A s \in Stores \ {store} : Spared(s)
           /\ DOMAIN file' = Stores /\ DOMAIN writing' = Stores
BY DEF WriteEnds, StoresShape, Spared

-----------------------------------------------------------------------------
(* The archive *)

\* The archive: when another file is written, when its own write ends, when a session is archived,
LEMMA ArchiveSpared ==
    ASSUME ArchiveInv, Spared("archive"), UNCHANGED <<archiveVars, dirVars, up>>
    PROVE  ArchiveInv'
BY DEF ArchiveInv, Spared, archiveVars, dirVars, OnDisk

LEMMA ArchiveEnds ==
    ASSUME StoresShape, ArchiveInv, WriteEnds("archive")
    PROVE  ArchiveInv'
<1>1. /\ file'["archive"] = writing["archive"] /\ writing'["archive"] = NoWrite /\ damaged' = damaged
      /\ writing["archive"] # NoWrite
  BY WriteEndsMoves, StoresDiffer
<1>2. UNCHANGED <<archived, wanted>> /\ up /\ up'
  BY DEF WriteEnds, archiveVars
<1> QED BY <1>1, <1>2, Contents DEF ArchiveInv, OnDisk

LEMMA ArchiveSet ==
    ASSUME StoresShape, ArchiveInv, NEW row \in Rows, NEW flag \in BOOLEAN, set_archived_flag(row, flag)
    PROVE  ArchiveInv'
<1>1. up /\ up' /\ writing["archive"] = NoWrite
  BY DEF set_archived_flag, StoreIdle
<1>2. /\ wanted' = IF flag THEN wanted \cup {row} ELSE wanted \ {row}
      /\ archived' = IF flag THEN archived \cup {row} ELSE archived \ {row}
  BY DEF set_archived_flag
<1>3. CASE (row \in archived) = flag
  <2>1. UNCHANGED <<file, writing, damaged>>
    BY <1>3 DEF set_archived_flag, NotPersisted
  <2>2. archived' = archived
    BY <1>2, <1>3
  <2>3. archived = wanted => wanted' = archived'
    BY <1>2
  <2> QED BY <1>1, <2>1, <2>2, <2>3 DEF ArchiveInv, OnDisk
<1>4. CASE (row \in archived) # flag
  <2>1. persist("archive", archived')
    BY <1>4 DEF set_archived_flag
  <2>2. Written("archive", archived')
    BY <2>1, PersistWrites, StoresDiffer
  <2>3. archived = wanted => wanted' = archived'
    BY <1>2
  <2>4. "archive" \notin damaged' => "archive" \notin damaged
    BY <2>2, <2>1 DEF Written, persist
  <2> QED BY <1>1, <2>2, <2>3, <2>4, Contents DEF ArchiveInv, OnDisk, Written, NoWrite
<1> QED BY <1>3, <1>4

\* What the old data directory leaves in the archive's file, if nothing goes wrong.
Inherited == IF placed \/ legacy = Absent THEN file["archive"] ELSE legacy

\* Starting the server reads every file,
LEMMA FilesFound ==
    ASSUME StoresShape, NEW found \in migrate_legacy_data_dir
    PROVE  /\ DOMAIN found.file = Stores
           /\ \A s \in Stores \ {"archive"} : found.file[s] = file[s]
           /\ found.costs \subseteq {"archive"}
           /\ "archive" \notin found.costs => found.file["archive"] = Inherited
<1>1. CASE placed \/ legacy = Absent
  <2>1. found = [file |-> file, costs |-> {}, faults |-> 0]
    BY <1>1 DEF migrate_legacy_data_dir
  <2>2. found.file = file /\ found.costs = {}
    BY <2>1
  <2> QED BY <1>1, <2>2 DEF StoresShape, Inherited
<1>2. CASE ~(placed \/ legacy = Absent)
  <2>1. \/ found = [file |-> [file EXCEPT !["archive"] = legacy], costs |-> {}, faults |-> 0]
        \/ found \in [file : {file}, costs : {{"archive"}}, faults : {1} \cap 1 .. errand.faults]
    BY <1>2 DEF migrate_legacy_data_dir
  <2>2. \/ found.file = [file EXCEPT !["archive"] = legacy] /\ found.costs = {}
        \/ found.file = file /\ found.costs = {"archive"}
    BY <2>1
  <2>3. CASE found.file = [file EXCEPT !["archive"] = legacy] /\ found.costs = {}
    BY <1>2, <2>3, StoresDiffer DEF StoresShape, Inherited
  <2>4. CASE found.file = file /\ found.costs = {"archive"}
    BY <2>4 DEF StoresShape
  <2> QED BY <2>2, <2>3, <2>4
<1> QED BY <1>1, <1>2

\* places the ones that are missing,
LEMMA StartMoves ==
    ASSUME StoresShape, Start
    PROVE  /\ ~up /\ up' /\ placed'
           /\ DOMAIN file' = Stores /\ DOMAIN writing' = Stores
           /\ \A s \in Stores \ {"archive", "vapid"} : Spared(s)
           /\ archived' = load(file'["archive"], {}) /\ writing'["archive"] = NoWrite
           /\ damaged \subseteq damaged' /\ ("vapid" \in damaged' => "vapid" \in damaged)
           /\ "archive" \notin damaged' => file'["archive"] = Inherited
           /\ IF file["vapid"].st = "whole"
              THEN file'["vapid"] = file["vapid"] /\ vapid' = file["vapid"].v /\ writing'["vapid"] = NoWrite
              ELSE file'["vapid"] = Torn /\ writing'["vapid"] = Whole(vapid')
<1>1. PICK found \in migrate_legacy_data_dir :
          /\ load_or_create_vapid(found.file, vapid + 1)
          /\ archived' = load(found.file["archive"], {})
          /\ damaged' = damaged \cup found.costs
  BY DEF Start
<1>2. ~up /\ up' = TRUE /\ placed' = TRUE
  BY DEF Start
<1>3. \A s \in Stores : writing[s] = NoWrite
  BY <1>2 DEF StoresShape
<1>4. PICK files : files = found.file
  OBVIOUS
<1>5. /\ DOMAIN files = Stores
      /\ \A s \in Stores \ {"archive"} : files[s] = file[s]
      /\ found.costs \subseteq {"archive"}
      /\ "archive" \notin found.costs => files["archive"] = Inherited
  BY <1>1, <1>4, FilesFound
<1>6. /\ vapid' = load(files["vapid"], vapid + 1)
      /\ IF files["vapid"].st = "whole" THEN file' = files /\ UNCHANGED writing
         ELSE /\ file' = [files EXCEPT !["vapid"] = Torn]
              /\ writing' = [writing EXCEPT !["vapid"] = Whole(vapid + 1)]
  BY <1>1, <1>4 DEF load_or_create_vapid
<1>7. DOMAIN file' = Stores /\ DOMAIN writing' = Stores
  BY <1>5, <1>6 DEF StoresShape
<1>8. \A s \in Stores \ {"archive", "vapid"} : Spared(s)
  BY <1>1, <1>5, <1>6 DEF StoresShape, Spared
<1>9. file'["archive"] = files["archive"] /\ writing'["archive"] = NoWrite
  BY <1>3, <1>5, <1>6, StoresDiffer DEF StoresShape
<1>10. IF file["vapid"].st = "whole"
       THEN file'["vapid"] = file["vapid"] /\ vapid' = file["vapid"].v /\ writing'["vapid"] = NoWrite
       ELSE file'["vapid"] = Torn /\ writing'["vapid"] = Whole(vapid')
  <2>1. files["vapid"] = file["vapid"] /\ writing["vapid"] = NoWrite
    BY <1>3, <1>5, StoresDiffer
  <2>2. CASE file["vapid"].st = "whole"
    BY <2>1, <2>2, <1>6 DEF load
  <2>3. CASE file["vapid"].st # "whole"
    BY <2>1, <2>3, <1>5, <1>6, StoresDiffer DEF load, StoresShape
  <2> QED BY <2>2, <2>3
<1>11. damaged \subseteq damaged' /\ ("vapid" \in damaged' => "vapid" \in damaged)
  BY <1>1, <1>5
<1>12. "archive" \notin damaged' => file'["archive"] = Inherited
  BY <1>1, <1>5, <1>9
<1> QED BY <1>1, <1>2, <1>4, <1>7, <1>8, <1>9, <1>10, <1>11, <1>12

\* and a crash tears the ones in flight.
LEMMA CrashMoves ==
    ASSUME StoresShape, Crash
    PROVE  /\ up /\ ~up' /\ file' = file
           /\ DOMAIN writing' = Stores /\ \A s \in Stores : writing'[s] = NoWrite
           /\ damaged \subseteq damaged' /\ ("vapid" \in damaged' => "vapid" \in damaged)
           /\ \A s \in Stores \ {"vapid"} : writing[s] # NoWrite => s \in damaged'
BY DEF Crash

\* The archive survives both.
LEMMA ArchiveRestarts ==
    ASSUME StoresShape, ArchiveInv, Crash \/ Start
    PROVE  ArchiveInv'
<1>1. CASE Crash
  <2>1. /\ up /\ ~up' /\ file' = file /\ "archive" \in Stores \ {"vapid"} /\ damaged \subseteq damaged'
        /\ writing["archive"] # NoWrite => "archive" \in damaged'
    BY <1>1, CrashMoves, StoresDiffer
  <2>2. UNCHANGED <<wanted, placed, legacy>> /\ placed
    BY <1>1, <2>1 DEF Crash, archiveVars, dirVars, StoresShape
  <2> QED BY <2>1, <2>2 DEF ArchiveInv, OnDisk
<1>2. CASE Start
  <2>1. wanted' = wanted
    BY <1>2 DEF Start
  <2>2. /\ ~up /\ up' /\ damaged \subseteq damaged'
        /\ archived' = load(file'["archive"], {}) /\ writing'["archive"] = NoWrite
        /\ "archive" \notin damaged' => file'["archive"] = Inherited
    BY <1>2, StartMoves
  <2>3. ASSUME "archive" \notin damaged' PROVE archived' = wanted'
    <3>1. load(Inherited, {}) = wanted
      BY <2>2, <2>3 DEF ArchiveInv, Inherited
    <3> QED BY <3>1, <2>1, <2>2, <2>3
  <2> QED BY <2>2, <2>3 DEF ArchiveInv, OnDisk
<1> QED BY <1>1, <1>2

-----------------------------------------------------------------------------
(* Push subscriptions and the key *)

\* The push store, likewise.
LEMMA PushSpared ==
    ASSUME KeyInv, PushInv, Spared("push"), Spared("vapid"), UNCHANGED <<pushVars, up>>
    PROVE  KeyInv' /\ PushInv'
BY DEF KeyInv, PushInv, Subscribed, OnDisk, Spared, pushVars

LEMMA PushEnds ==
    ASSUME StoresShape, KeyInv, PushInv, WriteEnds("push") \/ WriteEnds("vapid")
    PROVE  KeyInv' /\ PushInv'
<1>1. UNCHANGED <<subs, vapid, push, gone, acked>> /\ up /\ up' /\ damaged' = damaged
  BY DEF WriteEnds, pushVars
<1>2. CASE WriteEnds("push")
  <2>1. /\ file'["push"] = writing["push"] /\ writing'["push"] = NoWrite /\ writing["push"] # NoWrite
        /\ Spared("vapid")
    BY <1>2, WriteEndsMoves, StoresDiffer
  <2> QED BY <1>1, <2>1, Contents DEF KeyInv, PushInv, Subscribed, OnDisk, Spared
<1>3. CASE WriteEnds("vapid")
  <2>1. /\ file'["vapid"] = writing["vapid"] /\ writing'["vapid"] = NoWrite /\ writing["vapid"] # NoWrite
        /\ Spared("push")
    BY <1>3, WriteEndsMoves, StoresDiffer
  <2>2. writing["vapid"] = Whole(vapid)
    BY <2>1 DEF KeyInv
  <2> QED BY <1>1, <2>1, <2>2, Contents DEF KeyInv, PushInv, Subscribed, OnDisk, Spared
<1> QED BY <1>2, <1>3

LEMMA PushRestarts ==
    ASSUME StoresShape, KeyInv, PushInv, Crash \/ Start
    PROVE  KeyInv' /\ PushInv'
<1>1. UNCHANGED <<gone, acked>>
  BY DEF Crash, Start
<1>2. CASE Crash
  <2>1. /\ up /\ ~up' /\ file' = file /\ "push" \in Stores \ {"vapid"} /\ "vapid" \in Stores /\ damaged \subseteq damaged'
        /\ writing["push"] # NoWrite => "push" \in damaged'
        /\ writing'["vapid"] = NoWrite
    BY <1>2, CrashMoves, StoresDiffer
  <2>2. vapid' = vapid /\ push'.pc = "free"
    BY <1>2 DEF Crash
  <2>3. KeyInv'
    BY <1>1, <2>1, <2>2 DEF KeyInv
  <2> QED BY <1>1, <2>1, <2>2, <2>3 DEF PushInv, Subscribed, OnDisk
<1>3. CASE Start
  <2>1. /\ ~up /\ up' /\ damaged \subseteq damaged'
        /\ IF file["vapid"].st = "whole"
           THEN file'["vapid"] = file["vapid"] /\ vapid' = file["vapid"].v /\ writing'["vapid"] = NoWrite
           ELSE file'["vapid"] = Torn /\ writing'["vapid"] = Whole(vapid')
    BY <1>3, StartMoves
  <2>2. Spared("push") /\ writing["push"] = NoWrite
    BY <1>3, <2>1, StartMoves, StoresDiffer DEF StoresShape
  <2>3. subs' = load(file["push"], {}) /\ push' = push
    BY <1>3 DEF Start
  <2>4. KeyInv'
    <3>1. CASE file["vapid"].st = "whole"
      BY <3>1, <1>1, <2>1 DEF KeyInv
    <3>2. CASE file["vapid"].st # "whole"
      BY <3>2, <1>1, <2>1, Contents DEF KeyInv, NoWrite
    <3> QED BY <3>1, <3>2
  <2>5. \A e \in acked \ gone : vapid' = vapid
    BY <2>1 DEF KeyInv
  <2>6. "push" \notin damaged' => \A e \in acked' \ gone' : <<e, vapid'>> \in subs'
    BY <1>1, <2>1, <2>3, <2>5 DEF PushInv, Subscribed
  <2> QED BY <1>1, <2>1, <2>2, <2>3, <2>4, <2>6 DEF PushInv, Subscribed, OnDisk, Spared
<1> QED BY <1>2, <1>3

\* A request that writes the subscriptions, or fails to.
LEMMA PushWritten ==
    ASSUME StoresShape, PushInv, persist("push", subs'), up, up'
    PROVE  /\ OnDisk("push", {}, subs)' /\ ("push" \notin damaged' => "push" \notin damaged) /\ Spared("vapid")
<1>1. Written("push", subs') /\ Spared("vapid")
  BY PersistWrites, StoresDiffer
<1>2. damaged \subseteq damaged'
  BY DEF persist
<1> QED BY <1>1, <1>2, Contents DEF OnDisk, Written, NoWrite

LEMMA SubscribeKeeps ==
    ASSUME StoresShape, KeyInv, PushInv, NEW e \in Subscribers, push_subscribe(e)
    PROVE  KeyInv' /\ PushInv'
<1>1. up /\ up' /\ push.pc = "free" /\ push' = push /\ writing["vapid"] = NoWrite /\ UNCHANGED <<vapid, gone>>
  BY DEF push_subscribe, push_lock, StoreIdle
<1>2. acked' = acked \cup {e} /\ subs' = {s \in subs : s[1] # e} \cup {<<e, vapid>>}
  BY DEF push_subscribe
<1>3. persist("push", subs')
  BY DEF push_subscribe
<1>4. /\ OnDisk("push", {}, subs)' /\ ("push" \notin damaged' => "push" \notin damaged) /\ Spared("vapid")
  BY <1>1, <1>3, PushWritten
<1>5. KeyInv'
  BY <1>1, <1>4 DEF KeyInv, Spared
<1>6. "push" \notin damaged' => \A x \in acked' \ gone' : <<x, vapid'>> \in subs'
  <2> SUFFICES ASSUME "push" \notin damaged, NEW x \in acked \cup {e}, x \notin gone
               PROVE  <<x, vapid>> \in subs'
    BY <1>1, <1>2, <1>4
  <2>1. CASE x = e
    BY <2>1, <1>2
  <2>2. CASE x # e
    <3>1. <<x, vapid>> \in subs
      BY <1>1, <2>2 DEF PushInv, Subscribed
    <3>2. <<x, vapid>>[1] # e
      BY <2>2
    <3> QED BY <3>1, <3>2, <1>2
  <2> QED BY <2>1, <2>2
<1> QED BY <1>1, <1>4, <1>5, <1>6 DEF PushInv, Subscribed

\* Subscriptions whose endpoint is not in D stay.
LEMMA KeepsTheOthers ==
    ASSUME NEW S, NEW D, NEW T, T = {s \in S : s[1] \notin D}, NEW x, x \notin D, NEW k, <<x, k>> \in S
    PROVE  <<x, k>> \in T
<1>1. <<x, k>>[1] = x
  OBVIOUS
<1> QED BY <1>1

LEMMA UnsubscribeKeeps ==
    ASSUME StoresShape, KeyInv, PushInv, NEW e \in Subscribers, push_unsubscribe(e)
    PROVE  KeyInv' /\ PushInv'
<1>1. up /\ up' /\ push' = push /\ UNCHANGED <<vapid, gone>> /\ acked' = acked \ {e}
  BY DEF push_unsubscribe, push_lock, StoreIdle
<1>2. subs' = {s \in subs : s[1] \notin {e}}
  BY DEF push_unsubscribe
<1>3. CASE subs' = subs
  <2>1. UNCHANGED <<file, writing, damaged>>
    BY <1>3 DEF push_unsubscribe, NotPersisted
  <2>2. KeyInv'
    BY <1>1, <2>1 DEF KeyInv
  <2> QED BY <1>1, <1>3, <2>1, <2>2 DEF PushInv, Subscribed, OnDisk
<1>4. CASE subs' # subs
  <2>1. persist("push", subs')
    BY <1>4 DEF push_unsubscribe
  <2>2. /\ OnDisk("push", {}, subs)' /\ ("push" \notin damaged' => "push" \notin damaged) /\ Spared("vapid")
    BY <1>1, <2>1, PushWritten
  <2>3. KeyInv'
    BY <1>1, <2>2 DEF KeyInv, Spared
  <2>4. "push" \notin damaged' => \A x \in acked' \ gone' : <<x, vapid'>> \in subs'
    BY <1>1, <1>2, <2>2, KeepsTheOthers DEF PushInv, Subscribed
  <2> QED BY <1>1, <2>2, <2>3, <2>4 DEF PushInv, Subscribed
<1> QED BY <1>3, <1>4

LEMMA DevicesKeep ==
    ASSUME StoresShape, KeyInv, PushInv, NEW e \in Subscribers, Renews(e) \/ Expires(e)
    PROVE  KeyInv' /\ PushInv'
<1>1. UNCHANGED <<up, file, writing, damaged, subs, vapid, push>>
  BY DEF Renews, Expires
<1>2. acked' \subseteq acked /\ acked' \ gone' \subseteq acked \ gone
  BY DEF Renews, Expires
<1>3. KeyInv'
  BY <1>1, <1>2 DEF KeyInv
<1>4. \A x : x \notin acked \ gone => x \notin acked' \ gone'
  BY <1>2
<1>5. push'.pc = "sending" => push'.dead \cap acked' \subseteq gone'
  BY <1>1, <1>4 DEF PushInv
<1> QED BY <1>1, <1>2, <1>3, <1>5 DEF PushInv, Subscribed, OnDisk

LEMMA FanOutBegins ==
    ASSUME StoresShape, KeyInv, PushInv, send_to_all
    PROVE  KeyInv' /\ PushInv'
<1>1. UNCHANGED <<up, file, writing, damaged, subs, vapid, gone, acked>>
  BY DEF send_to_all
<1>2. push'.dead = {}
  BY DEF send_to_all
<1> QED BY <1>1, <1>2 DEF KeyInv, PushInv, Subscribed, OnDisk

LEMMA AnswersKeep ==
    ASSUME StoresShape, KeyInv, PushInv, NEW s, PushAnswers(s)
    PROVE  KeyInv' /\ PushInv'
<1>1. UNCHANGED <<up, file, writing, damaged, subs, vapid, gone, acked>> /\ push.pc = "sending"
  BY DEF PushAnswers
<1>2. push'.dead \cap acked \subseteq gone
  <2>1. push.dead \cap acked \subseteq gone
    BY <1>1 DEF PushInv
  <2>2. push' = [push EXCEPT !.to = push.to \ {s}, !.dead = classify_send_result(s, push.dead)]
    BY DEF PushAnswers
  <2>3. push'.dead = classify_send_result(s, push.dead) \/ push'.dead = push.dead \/ push' = push
    BY <2>2
  <2>4. classify_send_result(s, push.dead) \cap acked \subseteq gone
    BY <2>1 DEF classify_send_result
  <2> QED BY <2>1, <2>3, <2>4
<1> QED BY <1>1, <1>2 DEF KeyInv, PushInv, Subscribed, OnDisk

LEMMA FanOutKeeps ==
    ASSUME StoresShape, KeyInv, PushInv, FanOutEnds
    PROVE  KeyInv' /\ PushInv'
<1>1. /\ up /\ up' /\ push.pc = "sending" /\ push' = [pc |-> "free"] /\ UNCHANGED <<vapid, gone, acked>>
      /\ writing["push"] = NoWrite
  BY DEF FanOutEnds, StoreIdle
<1>2. subs' = {s \in subs : s[1] \notin push.dead} /\ damaged' = damaged
  BY DEF FanOutEnds, prune
<1>3. Spared("vapid") /\ OnDisk("push", {}, subs)'
  <2>1. CASE push.dead = {}
    <3>1. subs' = subs
      BY <1>2, <2>1
    <3>2. UNCHANGED <<file, writing>>
      BY <2>1 DEF FanOutEnds, prune
    <3> QED BY <3>1, <3>2, <1>1, <1>2 DEF PushInv, OnDisk, Spared
  <2>2. CASE push.dead # {}
    <3>1. writing' = [writing EXCEPT !["push"] = Whole(subs')] /\ file' = [file EXCEPT !["push"] = Torn]
      BY <2>2 DEF FanOutEnds, prune
    <3>2. writing'["push"] = Whole(subs') /\ Spared("vapid")
      BY <3>1, <1>2, StoresDiffer DEF StoresShape, Spared
    <3> QED BY <3>2, Contents DEF OnDisk, NoWrite
  <2> QED BY <2>1, <2>2
<1>4. KeyInv'
  BY <1>1, <1>3 DEF KeyInv, Spared
<1>5. "push" \notin damaged' => \A x \in acked' \ gone' : <<x, vapid'>> \in subs'
  <2>1. \A x \in acked \ gone : x \notin push.dead
    BY <1>1 DEF PushInv
  <2> QED BY <2>1, <1>1, <1>2, KeepsTheOthers DEF PushInv, Subscribed
<1> QED BY <1>1, <1>3, <1>4, <1>5 DEF PushInv, Subscribed

-----------------------------------------------------------------------------
(* Settings *)

\* A patch is a choice.
LEMMA PatchesFit ==
    ASSUME NEW c \in Settable
    PROVE  /\ \A shell \in Shells : merge_patch(c, [shell |-> shell]) \in Settable
           /\ \A spec \in Specs : merge_patch(c, [model |-> spec]) \in Settable
<1>0. PICK d \in Settable : d = c
  OBVIOUS
<1>1. \A shell \in Shells : merge_patch(d, [shell |-> shell]) \in Settable
  BY DEF Settable, merge_patch
<1>2. \A spec \in Specs : merge_patch(d, [model |-> spec]) \in Settable
  BY DEF Settable, merge_patch, Specced
<1> QED BY <1>0, <1>1, <1>2

\* What connects tells is what resolve_background_model found.
LEMMA ToldIsTrue ==
    ASSUME NEW content, load(content, NoSettings) \in Settable, told' = pantoken_settings_msg(content)
    PROVE  ToldInv'
<1>1. PICK settings \in Settable : settings = load(content, NoSettings)
  OBVIOUS
<1>2. /\ told'.settings = settings /\ told'.models = available_models
      /\ told'.warning = resolve_background_model(settings.model, available_models).warning
  BY <1>1 DEF pantoken_settings_msg
<1>3. PICK spec : spec = settings.model
  OBVIOUS
<1>4. ASSUME spec.kind = "plain" PROVE spec.suffixes \in Seq(STRING)
  <2>1. spec \in Specs \cup {NoSettings.model}
    BY <1>1, <1>3 DEF Settable, Specced
  <2>2. spec \in Specs
    <3>1. NoSettings.model = [kind |-> "unset"]
      BY DEF NoSettings
    <3>2. NoSettings.model.kind = "unset"
      BY <3>1
    <3> QED BY <2>1, <1>4, <3>2
  <2> QED BY <2>2, <1>4, StoresAssumption
<1>5. ASSUME spec.kind = "plain", told'.warning # "no_match" PROVE names_a_model(spec, available_models)
  <2>1. resolve_background_model(spec, available_models) = parse_spec(spec, available_models)
    BY <1>5 DEF resolve_background_model
  <2>2. parse_spec(spec, available_models).warning = "no_match" \/ names_a_model(spec, available_models)
    BY <1>4, <1>5, NoMatchIsTold
  <2> QED BY <2>1, <2>2, <1>2, <1>3, <1>5
<1> QED BY <1>2, <1>3, <1>5 DEF ToldInv

\* The settings, likewise.
LEMMA SettingsSpared ==
    ASSUME SettingsInv, Spared("settings"), UNCHANGED chosen
    PROVE  SettingsInv'
BY DEF SettingsInv, Spared, OnDisk

LEMMA SettingsEnds ==
    ASSUME StoresShape, SettingsInv, WriteEnds("settings")
    PROVE  SettingsInv'
<1>1. /\ file'["settings"] = writing["settings"] /\ writing'["settings"] = NoWrite /\ damaged' = damaged
      /\ writing["settings"] # NoWrite
  BY WriteEndsMoves, StoresDiffer
<1>2. chosen' = chosen
  BY DEF WriteEnds, settingsVars
<1>3. PICK c \in Settable : writing["settings"] = Whole(c)
  BY <1>1 DEF SettingsInv
<1>4. load(file'["settings"], NoSettings) = c
  BY <1>1, <1>3, Contents
<1>5. OnDisk("settings", NoSettings, chosen)'
  BY <1>1, <1>2, <1>3, <1>4, Contents DEF SettingsInv, OnDisk
<1> QED BY <1>1, <1>2, <1>4, <1>5 DEF SettingsInv

LEMMA SettingsRestart ==
    ASSUME StoresShape, SettingsInv, Crash \/ Start
    PROVE  SettingsInv'
<1>1. chosen' = chosen
  BY DEF Crash, Start, settingsVars
<1>2. CASE Crash
  <2>1. /\ up /\ ~up' /\ file' = file /\ "settings" \in Stores \ {"vapid"} /\ damaged \subseteq damaged'
        /\ writing["settings"] # NoWrite => "settings" \in damaged'
        /\ writing'["settings"] = NoWrite
    BY <1>2, CrashMoves, StoresDiffer
  <2> QED BY <1>1, <2>1 DEF SettingsInv, OnDisk
<1>3. CASE Start
  BY <1>1, <1>3, StartMoves, StoresDiffer, SettingsSpared
<1> QED BY <1>2, <1>3

LEMMA SetSettingKeeps ==
    ASSUME StoresShape, SettingsInv, NEW patch, SetSetting(patch),
           \A c \in Settable : merge_patch(c, patch) \in Settable
    PROVE  SettingsInv' /\ ToldInv'
<1>1. /\ writing["settings"] = NoWrite /\ chosen' = merge_patch(chosen, patch)
      /\ persist("settings", merge_patch(load(file["settings"], NoSettings), patch))
      /\ told' = pantoken_settings_msg(IF writing' = writing THEN file["settings"] ELSE writing'["settings"])
  BY DEF SetSetting, StoreIdle, merge_patch
<1>2. PICK c \in Settable : c = load(file["settings"], NoSettings)
  BY DEF SettingsInv
<1>3. PICK d \in Settable : d = merge_patch(c, patch)
  BY <1>2
<1>4. persist("settings", d)
  BY <1>1, <1>2, <1>3
<1>5. Written("settings", d) /\ damaged \subseteq damaged'
  BY <1>4, PersistWrites, StoresDiffer DEF persist
<1>6. "settings" \notin damaged => c = chosen
  BY <1>1, <1>2 DEF SettingsInv, OnDisk
<1>7. chosen' \in Settable
  BY <1>1 DEF SettingsInv
<1>8. CASE writing'["settings"] = Whole(d) /\ file'["settings"] = Torn /\ damaged' = damaged
  <2>1. load(file'["settings"], NoSettings) \in Settable
    <3>1. load(file'["settings"], NoSettings) = NoSettings
      BY <1>8, Contents
    <3>2. NoSettings \in Settable
      BY DEF NoSettings, Settable, Specced
    <3> QED BY <3>1, <3>2
  <2>2. OnDisk("settings", NoSettings, chosen)'
    <3>1. writing'["settings"] # NoWrite
      BY <1>8, Contents DEF NoWrite
    <3>2. "settings" \notin damaged => d = chosen'
      BY <1>1, <1>3, <1>6
    <3> QED BY <3>1, <3>2, <1>8 DEF OnDisk
  <2>3. SettingsInv'
    BY <1>7, <1>8, <2>1, <2>2 DEF SettingsInv
  <2>4. writing' # writing
    BY <1>1, <1>8, Contents DEF NoWrite
  <2>5. load(writing'["settings"], NoSettings) \in Settable
    BY <1>8, Contents
  <2>6. ToldInv'
    BY <1>1, <2>4, <2>5, ToldIsTrue
  <2> QED BY <2>3, <2>6
<1>9. CASE /\ file'["settings"] = file["settings"] /\ writing'["settings"] = writing["settings"]
           /\ "settings" \in damaged'
  <2>1. SettingsInv'
    BY <1>7, <1>9 DEF SettingsInv, OnDisk
  <2>2. PICK content : content = IF writing' = writing THEN file["settings"] ELSE writing'["settings"]
    OBVIOUS
  <2>3. load(content, NoSettings) \in Settable
    <3>1. CASE writing' = writing
      BY <2>2, <3>1, <1>2
    <3>2. CASE writing' # writing
      <4>1. load(content, NoSettings) = NoSettings
        BY <2>2, <3>2, <1>1, <1>9, Contents DEF NoWrite
      <4>2. NoSettings \in Settable
        BY DEF NoSettings, Settable, Specced
      <4> QED BY <4>1, <4>2
    <3> QED BY <3>1, <3>2
  <2>4. ToldInv'
    BY <1>1, <2>2, <2>3, ToldIsTrue
  <2> QED BY <2>1, <2>4
<1> QED BY <1>5, <1>8, <1>9 DEF Written

LEMMA ConnectsTells ==
    ASSUME SettingsInv, Connects
    PROVE  ToldInv'
<1>1. told' = pantoken_settings_msg(file["settings"])
  BY DEF Connects
<1> QED BY <1>1, ToldIsTrue DEF SettingsInv

-----------------------------------------------------------------------------
(* Titles *)

\* A session's file and title are left alone.
SameRow(r) ==
    /\ Spared(r) /\ heldTitle'[r] = heldTitle[r] /\ renamed'[r] = renamed[r]
    /\ (r \in warm' <=> r \in warm) /\ (r \in behind' <=> r \in behind)

\* The titles, likewise.
LEMMA RowSpared ==
    ASSUME NEW r, RowInv(r), SameRow(r)
    PROVE  RowInv(r)'
BY DEF RowInv, Coming, SameRow, Spared

\* Only one row moved.
LEMMA TitlesKept ==
    ASSUME TitlesInv, NEW row \in Rows, RowInv(row)', \A r \in Rows \ {row} : SameRow(r),
           DOMAIN heldTitle' = Rows, DOMAIN renamed' = Rows
    PROVE  TitlesInv'
<1>1. ASSUME NEW r \in Rows PROVE RowInv(r)'
  <2>1. CASE r = row
    BY <2>1
  <2>2. CASE r # row
    BY <2>2, RowSpared DEF TitlesInv
  <2> QED BY <2>1, <2>2
<1> QED BY <1>1 DEF TitlesInv

LEMMA TitlesSpared ==
    ASSUME TitlesInv, \A r \in Rows : Spared(r), UNCHANGED titleVars
    PROVE  TitlesInv'
<1>1. \A r \in Rows : SameRow(r)
  BY DEF SameRow, titleVars
<1>2. \A r \in Rows : RowInv(r)'
  BY <1>1, RowSpared DEF TitlesInv
<1> QED BY <1>2 DEF TitlesInv, titleVars

LEMMA TitlesEnd ==
    ASSUME StoresShape, TitlesInv, NEW row \in Rows, WriteEnds(row)
    PROVE  TitlesInv'
<1>1. /\ file'[row] = writing[row] /\ writing'[row] = NoWrite /\ damaged' = damaged /\ writing[row] # NoWrite
      /\ \A r \in Rows \ {row} : Spared(r)
  BY WriteEndsMoves, StoresDiffer
<1>2. UNCHANGED <<warm, heldTitle, renamed, behind>>
  BY DEF WriteEnds, titleVars
<1>3. RowInv(row)'
  BY <1>1, <1>2 DEF TitlesInv, RowInv, Coming
<1> QED BY <1>1, <1>2, <1>3, TitlesKept DEF SameRow, TitlesInv

LEMMA TitlesRestart ==
    ASSUME StoresShape, TitlesInv, Crash \/ Start
    PROVE  TitlesInv'
<1>1. CASE Crash
  <2>1. \A r \in Rows : r \in Stores \ {"vapid"}
    BY StoresDiffer
  <2>2. /\ file' = file /\ damaged \subseteq damaged'
        /\ \A s \in Stores : writing'[s] = NoWrite
        /\ \A s \in Stores \ {"vapid"} : writing[s] # NoWrite => s \in damaged'
    BY <1>1, CrashMoves
  <2>3. UNCHANGED <<heldTitle, renamed, behind>> /\ warm' = {}
    BY <1>1 DEF Crash
  <2>4. ASSUME NEW r \in Rows PROVE RowInv(r)'
    <3>1. file'[r] = file[r] /\ writing'[r] = NoWrite /\ (writing[r] # NoWrite => r \in damaged')
      BY <2>1, <2>2
    <3> QED BY <3>1, <2>2, <2>3 DEF TitlesInv, RowInv, Coming
  <2> QED BY <2>3, <2>4 DEF TitlesInv
<1>2. CASE Start
  BY <1>2, StartMoves, StoresDiffer, TitlesSpared DEF Start
<1> QED BY <1>1, <1>2

LEMMA OpenRowKeeps ==
    ASSUME StoresShape, TitlesInv, NEW row \in Rows, OpenRow(row)
    PROVE  TitlesInv'
<1>1. /\ warm' = warm \cup {row} /\ writing[row] = NoWrite
      /\ heldTitle' = IF Cold(row) THEN [heldTitle EXCEPT ![row] = Whole(load(file[row], Blank))] ELSE heldTitle
      /\ UNCHANGED <<file, writing, damaged, renamed, behind>>
  BY DEF OpenRow, StoreIdle
<1>2. RowInv(row)
  BY DEF TitlesInv
<1>3. Cold(row) <=> heldTitle[row] = Absent
  BY <1>2, Contents DEF RowInv, Cold
<1>4. PICK m \in Metas : m = load(file[row], Blank)
  <2>1. Blank \in Metas
    BY DEF Blank, Metas, Titles
  <2>2. load(file[row], Blank) \in Metas
    BY <1>2, <2>1, Contents DEF RowInv
  <2> QED BY <2>2
<1>5. RowInv(row)'
  <2>1. CASE Cold(row)
    <3>1. heldTitle'[row] = Whole(m)
      BY <1>1, <1>4, <2>1 DEF TitlesInv
    <3>2. row \notin damaged \cup behind => m.override = renamed[row]
      BY <1>1, <1>2, <1>4 DEF RowInv, Coming, load
    <3> QED BY <1>1, <1>2, <3>1, <3>2, Contents DEF RowInv, Coming
  <2>2. CASE ~Cold(row)
    BY <1>1, <1>2, <1>3, <2>2 DEF RowInv, Coming
  <2> QED BY <2>1, <2>2
<1>6. DOMAIN heldTitle' = Rows /\ DOMAIN renamed' = Rows /\ \A r \in Rows \ {row} : SameRow(r)
  BY <1>1 DEF SameRow, Spared, TitlesInv
<1> QED BY <1>5, <1>6, TitlesKept

LEMMA CloseRowKeeps ==
    ASSUME StoresShape, TitlesInv, NEW row \in Rows, NEW keeps \in BOOLEAN, CloseRow(row, keeps)
    PROVE  TitlesInv'
<1>1. /\ warm' = warm \ {row}
      /\ heldTitle' = IF keeps THEN heldTitle ELSE [heldTitle EXCEPT ![row] = Absent]
      /\ UNCHANGED <<file, writing, damaged, renamed, behind>>
  BY DEF CloseRow
<1>2. RowInv(row)
  BY DEF TitlesInv
<1>3. heldTitle'[row] = heldTitle[row] \/ heldTitle'[row] = Absent
  BY <1>1 DEF TitlesInv
<1>4. RowInv(row)'
  BY <1>1, <1>2, <1>3 DEF RowInv, Coming
<1>5. DOMAIN heldTitle' = Rows /\ DOMAIN renamed' = Rows /\ \A r \in Rows \ {row} : SameRow(r)
  BY <1>1 DEF SameRow, Spared, TitlesInv
<1> QED BY <1>4, <1>5, TitlesKept

LEMMA InfersKeeps ==
    ASSUME StoresShape, TitlesInv, NEW row \in Rows, NEW name \in Names, DaemonInfers(row, name)
    PROVE  TitlesInv'
<1>1. /\ ~Cold(row) /\ writing[row] = NoWrite
      /\ heldTitle' = [heldTitle EXCEPT ![row].v.inferred = name]
      /\ file' = [file EXCEPT ![row] = heldTitle'[row]]
      /\ UNCHANGED <<writing, damaged, warm, renamed, behind>>
  BY DEF DaemonInfers
<1>2. RowInv(row)
  BY DEF TitlesInv
<1>3. heldTitle[row] # Absent
  BY <1>1, Contents DEF Cold
<1>4. PICK m \in Metas : heldTitle[row] = Whole(m)
  BY <1>2, <1>3 DEF RowInv
<1>5. PICK n \in Metas : n = [m EXCEPT !.inferred = name]
  BY DEF Metas, Titles
<1>6. heldTitle'[row] = Whole(n)
  <2>1. heldTitle'[row] = [heldTitle[row] EXCEPT !.v.inferred = name]
    BY <1>1 DEF TitlesInv
  <2> QED BY <2>1, <1>4, <1>5 DEF Whole
<1>7. file'[row] = Whole(n)
  BY <1>1, <1>6, StoresDiffer DEF StoresShape
<1>8. n.override = m.override
  BY <1>5 DEF Metas
<1>9. RowInv(row)'
  BY <1>1, <1>2, <1>3, <1>4, <1>6, <1>7, <1>8, Contents DEF RowInv, Coming
<1>10. DOMAIN heldTitle' = Rows /\ DOMAIN renamed' = Rows /\ \A r \in Rows \ {row} : SameRow(r)
  BY <1>1, StoresDiffer DEF SameRow, Spared, TitlesInv, StoresShape
<1> QED BY <1>9, <1>10, TitlesKept

LEMMA RenameKeeps ==
    ASSUME StoresShape, TitlesInv, NEW row \in Rows, NEW name \in Names, RenameWarm(row, name)
    PROVE  TitlesInv'
<1>1. /\ row \in warm /\ writing[row] = NoWrite
      /\ heldTitle' = [heldTitle EXCEPT ![row].v.override = name]
      /\ file' = [file EXCEPT ![row] = heldTitle'[row]]
      /\ renamed' = [renamed EXCEPT ![row] = name]
      /\ behind' = behind \ {row}
      /\ UNCHANGED <<writing, damaged, warm>>
  BY DEF RenameWarm, StoreIdle
<1>2. RowInv(row)
  BY DEF TitlesInv
<1>3. PICK m \in Metas : heldTitle[row] = Whole(m)
  BY <1>1, <1>2 DEF RowInv
<1>4. PICK n \in Metas : n = [m EXCEPT !.override = name]
  BY DEF Metas, Titles
<1>5. heldTitle'[row] = Whole(n)
  <2>1. heldTitle'[row] = [heldTitle[row] EXCEPT !.v.override = name]
    BY <1>1 DEF TitlesInv
  <2> QED BY <2>1, <1>3, <1>4 DEF Whole
<1>6. file'[row] = Whole(n)
  BY <1>1, <1>5, StoresDiffer DEF StoresShape
<1>7. n.override = name /\ renamed'[row] = name
  BY <1>1, <1>4 DEF Metas, TitlesInv
<1>8. RowInv(row)'
  BY <1>1, <1>2, <1>5, <1>6, <1>7, Contents DEF RowInv, Coming
<1>9. DOMAIN heldTitle' = Rows /\ DOMAIN renamed' = Rows /\ \A r \in Rows \ {row} : SameRow(r)
  BY <1>1, StoresDiffer DEF SameRow, Spared, TitlesInv, StoresShape
<1> QED BY <1>8, <1>9, TitlesKept

LEMMA OverrideKeeps ==
    ASSUME StoresShape, TitlesInv, NEW row \in Rows, NEW name \in Names, write_overridden_title(row, name)
    PROVE  TitlesInv'
<1>1. /\ row \notin warm /\ file[row].st = "whole" /\ writing[row] = NoWrite
      /\ persist(row, [file[row].v EXCEPT !.override = name])
      /\ renamed' = [renamed EXCEPT ![row] = name]
      /\ behind' = IF Cold(row) THEN behind \ {row} ELSE behind \cup {row}
      /\ UNCHANGED <<warm, heldTitle>>
  BY DEF write_overridden_title, StoreIdle
<1>2. RowInv(row) /\ row \in Stores
  BY StoresDiffer DEF TitlesInv
<1>3. PICK m \in Metas : file[row] = Whole(m)
  BY <1>1, <1>2, Contents DEF RowInv
<1>4. PICK n \in Metas : n = [m EXCEPT !.override = name]
  BY DEF Metas, Titles
<1>5. persist(row, n)
  BY <1>1, <1>3, <1>4, Contents
<1>6. Written(row, n) /\ (\A s \in Stores \ {row} : Spared(s)) /\ damaged \subseteq damaged'
  BY <1>2, <1>5, PersistWrites DEF persist
<1>7. n.override = name /\ renamed'[row] = name
  BY <1>1, <1>4 DEF Metas, TitlesInv
<1>8. row \notin behind' => heldTitle'[row] = Absent
  BY <1>1, <1>2, Contents DEF RowInv, Cold
<1>9. RowInv(row)'
  <2>1. CASE writing'[row] = Whole(n) /\ file'[row] = Torn /\ damaged' = damaged
    <3>1. Coming(row)' = Whole(n)
      BY <2>1, Contents DEF Coming, NoWrite
    <3>2. \/ row \in (damaged \cup behind)'
          \/ (Coming(row).st = "whole" /\ Coming(row).v.override = renamed[row])'
      BY <3>1, <1>7, Contents
    <3> QED BY <1>1, <1>2, <2>1, <3>2, <1>8 DEF RowInv
  <2>2. CASE file'[row] = file[row] /\ writing'[row] = writing[row] /\ row \in damaged'
    BY <1>1, <1>2, <2>2 DEF RowInv
  <2> QED BY <1>6, <2>1, <2>2 DEF Written
<1>10. \A r \in Rows \ {row} : Spared(r)
  BY <1>6, StoresDiffer
<1>11. DOMAIN heldTitle' = Rows /\ DOMAIN renamed' = Rows /\ \A r \in Rows \ {row} : SameRow(r)
  BY <1>1, <1>10 DEF SameRow, TitlesInv
<1> QED BY <1>9, <1>11, TitlesKept

-----------------------------------------------------------------------------
(* The whole state, step by step *)

\* The shape of the state.
LEMMA ShapeKept ==
    ASSUME StoresShape, DOMAIN file' = Stores, DOMAIN writing' = Stores, up, up', UNCHANGED placed,
           push' = push \/ push'.pc \in {"free", "sending"}
    PROVE  StoresShape'
BY DEF StoresShape

LEMMA ShapeSpared ==
    ASSUME StoresShape, UNCHANGED <<file, writing, up, placed, push>>
    PROVE  StoresShape'
BY DEF StoresShape

\* Every action keeps the invariant.
LEMMA WriteEndsKeeps ==
    ASSUME StoresInv, NEW s \in Stores, WriteEnds(s)
    PROVE  StoresInv'
<1>1. /\ \A t \in Stores \ {s} : Spared(t)
      /\ DOMAIN file' = Stores /\ DOMAIN writing' = Stores
  BY WriteEndsMoves DEF StoresInv
<1>2. UNCHANGED <<up, dirVars, archiveVars, pushVars, titleVars, settingsVars>> /\ up
  BY DEF WriteEnds
<1>3. StoresShape'
  BY <1>1, <1>2, ShapeKept DEF StoresInv, dirVars, pushVars
<1>4. ArchiveInv'
  BY <1>1, <1>2, ArchiveEnds, ArchiveSpared, StoresDiffer DEF StoresInv
<1>5. KeyInv' /\ PushInv'
  BY <1>1, <1>2, PushEnds, PushSpared, StoresDiffer DEF StoresInv
<1>6. SettingsInv'
  BY <1>1, <1>2, SettingsEnds, SettingsSpared, StoresDiffer DEF StoresInv, settingsVars
<1>7. TitlesInv'
  <2>1. CASE s \in Rows
    BY <2>1, TitlesEnd DEF StoresInv
  <2>2. CASE s \notin Rows
    BY <2>2, <1>1, <1>2, TitlesSpared, StoresDiffer DEF StoresInv
  <2> QED BY <2>1, <2>2
<1>8. ToldInv'
  BY <1>2 DEF StoresInv, ToldInv, settingsVars
<1> QED BY <1>3, <1>4, <1>5, <1>6, <1>7, <1>8 DEF StoresInv

LEMMA RestartsKeep ==
    ASSUME StoresInv, Crash \/ Start
    PROVE  StoresInv'
<1>1. StoresShape'
  <2>1. CASE Crash
    <3>1. push'.pc = "free" /\ placed' = placed /\ up' = FALSE
      BY <2>1 DEF Crash, dirVars
    <3> QED BY <2>1, <3>1, CrashMoves DEF StoresInv, StoresShape
  <2>2. CASE Start
    <3>1. push' = push /\ placed' = TRUE /\ up' = TRUE
      BY <2>2 DEF Start
    <3> QED BY <2>2, <3>1, StartMoves DEF StoresInv, StoresShape
  <2> QED BY <2>1, <2>2
<1>2. ToldInv'
  BY DEF StoresInv, ToldInv, Crash, Start, settingsVars
<1> QED BY <1>1, <1>2, ArchiveRestarts, PushRestarts, SettingsRestart, TitlesRestart DEF StoresInv

LEMMA ArchiveStepKeeps ==
    ASSUME StoresInv, NEW row \in Rows, NEW flag \in BOOLEAN, set_archived_flag(row, flag)
    PROVE  StoresInv'
<1>1. UNCHANGED <<up, dirVars, pushVars, titleVars, settingsVars>> /\ up
  BY DEF set_archived_flag, StoreIdle
<1>2. (\A s \in Stores \ {"archive"} : Spared(s)) /\ DOMAIN file' = Stores /\ DOMAIN writing' = Stores
  <2>1. UNCHANGED <<file, writing, damaged>> \/ persist("archive", archived')
    BY DEF set_archived_flag, NotPersisted
  <2> QED BY <2>1, PersistWrites, UntouchedIsSpared, StoresDiffer DEF StoresInv
<1>3. StoresShape'
  BY <1>1, <1>2, ShapeKept DEF StoresInv, dirVars, pushVars
<1>4. ToldInv'
  BY <1>1 DEF StoresInv, ToldInv, settingsVars
<1> QED BY <1>1, <1>2, <1>3, <1>4, ArchiveSet, PushSpared, SettingsSpared, TitlesSpared, StoresDiffer
        DEF StoresInv, settingsVars

\* The rest of the state, when only the subscriptions' file is written.
LEMMA OnlyPushMoves ==
    ASSUME StoresInv, KeyInv', PushInv', \A s \in Stores \ {"push"} : Spared(s),
           DOMAIN file' = Stores, DOMAIN writing' = Stores, push'.pc \in {"free", "sending"},
           UNCHANGED <<up, dirVars, archiveVars, titleVars, settingsVars>>,
           up \/ UNCHANGED writing
    PROVE  StoresInv'
<1>1. StoresShape'
  BY DEF StoresInv, StoresShape, dirVars
<1>2. ToldInv'
  BY DEF StoresInv, ToldInv, settingsVars
<1> QED BY <1>1, <1>2, ArchiveSpared, SettingsSpared, TitlesSpared, StoresDiffer DEF StoresInv, settingsVars

LEMMA PushStepsKeep ==
    ASSUME StoresInv, NEW e \in Subscribers,
           Renews(e) \/ push_subscribe(e) \/ push_unsubscribe(e) \/ Expires(e)
    PROVE  StoresInv'
<1>1. KeyInv' /\ PushInv'
  BY DevicesKeep, SubscribeKeeps, UnsubscribeKeeps DEF StoresInv
<1>2. push' = push /\ UNCHANGED <<up, dirVars, archiveVars, titleVars, settingsVars>>
  BY DEF Renews, push_subscribe, push_unsubscribe, Expires
<1>3. UNCHANGED <<file, writing, damaged>> \/ (persist("push", subs') /\ up)
  BY DEF Renews, push_subscribe, push_unsubscribe, Expires, NotPersisted, push_lock, StoreIdle
<1>4. (\A s \in Stores \ {"push"} : Spared(s)) /\ DOMAIN file' = Stores /\ DOMAIN writing' = Stores
  BY <1>3, PersistWrites, UntouchedIsSpared, StoresDiffer DEF StoresInv
<1>5. push'.pc \in {"free", "sending"}
  BY <1>2 DEF StoresInv, StoresShape
<1> QED BY <1>1, <1>2, <1>3, <1>4, <1>5, OnlyPushMoves

LEMMA FanOutStepsKeep ==
    ASSUME StoresInv, send_to_all \/ FanOutEnds \/ \E s \in push.to : PushAnswers(s)
    PROVE  StoresInv'
<1>1. KeyInv' /\ PushInv'
  BY FanOutBegins, FanOutKeeps, AnswersKeep DEF StoresInv
<1>2. UNCHANGED <<up, dirVars, archiveVars, titleVars, settingsVars>> /\ up
  BY DEF send_to_all, FanOutEnds, PushAnswers, push_lock, StoreIdle
<1>3. (\A s \in Stores \ {"push"} : Spared(s)) /\ DOMAIN file' = Stores /\ DOMAIN writing' = Stores
  <2>1. CASE UNCHANGED <<file, writing, damaged>>
    BY <2>1, UntouchedIsSpared DEF StoresInv
  <2>2. CASE ~UNCHANGED <<file, writing, damaged>>
    <3>1. /\ writing' = [writing EXCEPT !["push"] = Whole(subs')] /\ file' = [file EXCEPT !["push"] = Torn]
          /\ damaged' = damaged
      BY <2>2 DEF send_to_all, FanOutEnds, PushAnswers, prune
    <3> QED BY <3>1 DEF StoresInv, StoresShape, Spared
  <2> QED BY <2>1, <2>2
<1>4. push'.pc \in {"free", "sending"}
  <2>1. CASE send_to_all \/ FanOutEnds
    BY <2>1 DEF send_to_all, FanOutEnds
  <2>2. CASE \E s \in push.to : PushAnswers(s)
    <3>1. PICK s \in push.to : PushAnswers(s)
      BY <2>2
    <3>2. push' = [push EXCEPT !.to = push.to \ {s}, !.dead = classify_send_result(s, push.dead)]
      BY <3>1 DEF PushAnswers
    <3>3. push'.pc = push.pc
      BY <3>2
    <3> QED BY <3>3 DEF StoresInv, StoresShape
  <2> QED BY <2>1, <2>2
<1> QED BY <1>1, <1>2, <1>3, <1>4, OnlyPushMoves

LEMMA SettingsStepsKeep ==
    ASSUME StoresInv,
           \/ \E shell \in Shells : SetSetting([shell |-> shell])
           \/ \E spec \in Specs : SetSetting([model |-> spec])
           \/ Connects
           \/ \E models \in Catalogs : ModelsArrive(models)
    PROVE  StoresInv'
<1>1. UNCHANGED <<up, dirVars, archiveVars, pushVars, titleVars>> /\ up
  BY DEF SetSetting, Connects, ModelsArrive, StoreIdle
<1>2. CASE Connects \/ \E models \in Catalogs : ModelsArrive(models)
  <2>1. UNCHANGED <<file, writing, damaged, chosen>>
    BY <1>2 DEF Connects, ModelsArrive
  <2>2. (\A s \in Stores : Spared(s)) /\ StoresShape'
    BY <1>1, <2>1, UntouchedIsSpared, ShapeSpared DEF StoresInv, dirVars, pushVars
  <2>3. ToldInv'
    <3>1. CASE Connects
      BY <3>1, ConnectsTells DEF StoresInv
    <3>2. CASE \E models \in Catalogs : ModelsArrive(models)
      BY <3>2 DEF ModelsArrive, StoresInv, ToldInv
    <3> QED BY <1>2, <3>1, <3>2
  <2> QED BY <1>1, <2>1, <2>2, <2>3, ArchiveSpared, PushSpared, SettingsSpared, TitlesSpared, StoresDiffer DEF StoresInv
<1>3. CASE \/ \E shell \in Shells : SetSetting([shell |-> shell])
           \/ \E spec \in Specs : SetSetting([model |-> spec])
  <2>1. PICK patch : SetSetting(patch) /\ \A c \in Settable : merge_patch(c, patch) \in Settable
    BY <1>3, PatchesFit
  <2>2. SettingsInv' /\ ToldInv'
    BY <2>1, SetSettingKeeps DEF StoresInv
  <2>3. PICK v : persist("settings", v)
    BY <2>1 DEF SetSetting
  <2>4. (\A s \in Stores \ {"settings"} : Spared(s)) /\ DOMAIN file' = Stores /\ DOMAIN writing' = Stores
    BY <2>3, PersistWrites, StoresDiffer DEF StoresInv
  <2>5. StoresShape'
    BY <1>1, <2>4, ShapeKept DEF StoresInv, dirVars, pushVars
  <2> QED BY <1>1, <2>2, <2>4, <2>5, ArchiveSpared, PushSpared, TitlesSpared, StoresDiffer DEF StoresInv
<1> QED BY <1>2, <1>3

LEMMA TitleStepsKeep ==
    ASSUME StoresInv, NEW row \in Rows,
           \/ OpenRow(row)
           \/ \E keeps \in BOOLEAN : CloseRow(row, keeps)
           \/ \E name \in Names : DaemonInfers(row, name) \/ RenameWarm(row, name) \/ write_overridden_title(row, name)
    PROVE  StoresInv'
<1>1. TitlesInv'
  BY OpenRowKeeps, CloseRowKeeps, InfersKeeps, RenameKeeps, OverrideKeeps DEF StoresInv
<1>2. UNCHANGED <<up, dirVars, archiveVars, pushVars, settingsVars>>
  BY DEF OpenRow, CloseRow, DaemonInfers, RenameWarm, write_overridden_title
<1>3. /\ \A s \in Stores \ {row} : Spared(s)
      /\ DOMAIN file' = Stores /\ DOMAIN writing' = Stores
      /\ writing' = writing \/ up
  <2>1. CASE UNCHANGED <<file, writing, damaged>>
    BY <2>1, UntouchedIsSpared DEF StoresInv
  <2>2. CASE ~UNCHANGED <<file, writing, damaged>>
    <3>1. \/ file' = [file EXCEPT ![row] = heldTitle'[row]] /\ UNCHANGED <<writing, damaged>>
          \/ up /\ \E v : persist(row, v)
      BY <2>2 DEF OpenRow, CloseRow, DaemonInfers, RenameWarm, write_overridden_title, StoreIdle
    <3>2. CASE file' = [file EXCEPT ![row] = heldTitle'[row]] /\ UNCHANGED <<writing, damaged>>
      BY <3>2 DEF StoresInv, StoresShape, Spared
    <3>3. CASE up /\ \E v : persist(row, v)
      BY <3>3, PersistWrites, StoresDiffer DEF StoresInv
    <3> QED BY <3>1, <3>2, <3>3
  <2> QED BY <2>1, <2>2
<1>4. StoresShape'
  BY <1>2, <1>3 DEF StoresInv, StoresShape, dirVars, pushVars
<1>5. ToldInv'
  BY <1>2 DEF StoresInv, ToldInv, settingsVars
<1> QED BY <1>1, <1>2, <1>3, <1>4, <1>5, ArchiveSpared, PushSpared, SettingsSpared, StoresDiffer DEF StoresInv, settingsVars

LEMMA StoresStep ==
    ASSUME StoresInv, [StoresNext]_storesVars
    PROVE  StoresInv'
<1>1. CASE UNCHANGED storesVars
  BY <1>1, ShapeSpared, UntouchedIsSpared, ArchiveSpared, PushSpared, SettingsSpared, TitlesSpared, StoresDiffer
     DEF storesVars, StoresInv, dirVars, pushVars, settingsVars, ToldInv
<1>2. CASE StoresNext
  <2>1. CASE Crash \/ Start
    BY <2>1, RestartsKeep
  <2>2. CASE \E s \in Stores : WriteEnds(s)
    BY <2>2, WriteEndsKeeps
  <2>3. CASE \E row \in Rows, flag \in BOOLEAN : set_archived_flag(row, flag)
    BY <2>3, ArchiveStepKeeps
  <2>4. CASE \E e \in Subscribers : Renews(e) \/ push_subscribe(e) \/ push_unsubscribe(e) \/ Expires(e)
    BY <2>4, PushStepsKeep
  <2>5. CASE send_to_all \/ FanOutEnds \/ \E s \in push.to : PushAnswers(s)
    BY <2>5, FanOutStepsKeep
  <2>6. CASE \/ \E shell \in Shells : SetSetting([shell |-> shell])
             \/ \E spec \in Specs : SetSetting([model |-> spec])
             \/ Connects
             \/ \E models \in Catalogs : ModelsArrive(models)
    BY <2>6, SettingsStepsKeep
  <2>7. CASE \E row \in Rows :
               \/ OpenRow(row)
               \/ \E keeps \in BOOLEAN : CloseRow(row, keeps)
               \/ \E name \in Names : DaemonInfers(row, name) \/ RenameWarm(row, name) \/ write_overridden_title(row, name)
    BY <2>7, TitleStepsKeep
  <2> QED BY <1>2, <2>1, <2>2, <2>3, <2>4, <2>5, <2>6, <2>7 DEF StoresNext
<1> QED BY <1>1, <1>2

LEMMA StoresBegin == StoresInit => StoresInv
<1> SUFFICES ASSUME StoresInit PROVE StoresInv
  OBVIOUS
<1>1. /\ up = FALSE /\ placed = FALSE /\ legacy \in {Absent, Whole(Rows)} /\ wanted = load(legacy, {})
      /\ file = [s \in Stores |-> IF s \in Rows THEN Whole(Blank) ELSE Absent]
      /\ writing = [s \in Stores |-> NoWrite] /\ damaged = {}
      /\ vapid = 0 /\ push = [pc |-> "free"] /\ gone = {} /\ acked = {}
      /\ warm = {} /\ heldTitle = [r \in Rows |-> Absent]
      /\ renamed = [r \in Rows |-> Untitled] /\ behind = {}
      /\ chosen = NoSettings
  BY DEF StoresInit
<1>2. /\ \A r \in Rows : file[r] = Whole(Blank)
      /\ file["archive"] = Absent /\ file["push"] = Absent /\ file["vapid"] = Absent /\ file["settings"] = Absent
      /\ \A s \in Stores : writing[s] = NoWrite
  BY <1>1, StoresDiffer
<1>3. StoresShape
  BY <1>1 DEF StoresShape
<1>4. ArchiveInv
  <2>1. load(IF placed \/ legacy = Absent THEN file["archive"] ELSE legacy, {}) = wanted
    BY <1>1, <1>2
  <2> QED BY <1>1, <2>1 DEF ArchiveInv
<1>5. KeyInv /\ PushInv
  BY <1>1, <1>2, Contents, StoresDiffer DEF KeyInv, PushInv
<1>6. SettingsInv
  <2>1. NoSettings \in Settable
    BY DEF NoSettings, Settable, Specced
  <2> QED BY <1>1, <1>2, <2>1, Contents, StoresDiffer DEF SettingsInv, OnDisk
<1>7. TitlesInv
  <2>1. Blank \in Metas /\ Blank.override = Untitled
    BY DEF Blank, Metas, Titles
  <2>2. ASSUME NEW r \in Rows PROVE RowInv(r)
    BY <1>1, <1>2, <2>1, StoresDiffer, Contents DEF RowInv, Coming
  <2> QED BY <1>1, <2>2 DEF TitlesInv
<1>8. ToldInv
  <2>1. told.settings = NoSettings
    BY DEF StoresInit
  <2>2. NoSettings.model = [kind |-> "unset"]
    BY DEF NoSettings
  <2>3. NoSettings.model.kind # "plain"
    BY <2>2
  <2> QED BY <2>1, <2>3 DEF ToldInv
<1> QED BY <1>3, <1>4, <1>5, <1>6, <1>7, <1>8 DEF StoresInv

LEMMA StoresInvSuffices == StoresInv => AnsweredChangesLast
<1> SUFFICES ASSUME StoresInv PROVE AnsweredChangesLast
  OBVIOUS
<1>1. StoresAreDurable
  <2>1. Settled("archive") => archived = wanted /\ load(file["archive"], {}) = archived
    BY DEF Settled, StoresInv, ArchiveInv, OnDisk
  <2>2. Settled("push") => load(file["push"], {}) = subs
    BY DEF Settled, StoresInv, PushInv, OnDisk
  <2>3. Settled("vapid") => load(file["vapid"], 0) = vapid
    BY DEF Settled, StoresInv, KeyInv, load
  <2> QED BY <2>1, <2>2, <2>3 DEF StoresAreDurable
<1>2. SubscriptionsAreUsable
  BY DEF SubscriptionsAreUsable, StoresInv, PushInv, Subscribed
<1>3. SettingsAreTold
  BY DEF SettingsAreTold, Settled, StoresInv, SettingsInv, ToldInv, OnDisk
<1>4. RenamesStick
  <2> SUFFICES ASSUME NEW row \in Rows, row \in warm \/ file[row].st = "whole", Settled(row), row \notin behind,
                      renamed[row] # Untitled
               PROVE  list_sessions[row] = renamed[row]
    BY DEF RenamesStick, list_sessions
  <2>1. list_sessions[row] = display_name(IF row \in warm THEN heldTitle[row].v ELSE file[row].v)
    BY DEF list_sessions
  <2>2. RowInv(row)
    BY DEF StoresInv, TitlesInv
  <2>3. (IF row \in warm THEN heldTitle[row].v ELSE file[row].v).override = renamed[row]
    BY <2>2 DEF RowInv, Coming, Settled
  <2> QED BY <2>1, <2>3 DEF display_name
<1> QED BY <1>1, <1>2, <1>3, <1>4 DEF AnsweredChangesLast

\* A change the server answered survives every later step, restart and crash, unless a file was torn: the archive,
\* the subscriptions and their key, the settings and the titles (archive.rs, push.rs, settings.rs, session_meta.rs persist).
THEOREM AnsweredChangesLastCorrect == StoresSpec => []AnsweredChangesLast
<1>1. StoresSpec => []StoresInv
  BY StoresBegin, StoresStep, PTL DEF StoresSpec
<1> QED BY <1>1, StoresInvSuffices, PTL
=============================================================================
