----------------------- MODULE PromptDelivery_proofs ------------------------
(***************************************************************************)
(* The way of a prompt, for any number of texts, attempts, lost sockets,   *)
(* reloads, hub restarts and dropped verdicts: no text is lost as long as  *)
(* no page is closed inside a retry (Inv), and what was cleared for a      *)
(* prompt the daemon took never comes back to be sent (ClearInv).          *)
(***************************************************************************)
EXTENDS PromptDelivery, SequenceTheorems, FiniteSetTheorems, TLAPS

-----------------------------------------------------------------------------
(* Types *)

\* The transactions a page issues.
Transactions ==
    [op : {"save", "put", "settle", "retry", "edit", "load"}, id : Ids \cup {None},
     state : State \cup {None}, new : Ids \cup {None}]

\* What the fields of a transaction hold, by its kind.
WellFormed(tr) ==
    /\ tr.op # "load" => tr.id \in Ids
    /\ tr.op = "put" => tr.state \in State
    /\ tr.op = "retry" => tr.new \in Ids
    /\ tr.op = "save" => tr.state = None /\ tr.new = None

\* What the server says to a page.
Messages == [type : {"hello", "promptResult"}, id : Ids \cup {None}, accepted : BOOLEAN]
\* A verdict.
Results == [type : {"promptResult"}, id : Ids, accepted : BOOLEAN]
\* An operation of the hub: a prompt and the connection that asked.
Prompts == [id : Ids, key : Nat]

\* The types of the page.
PageTypes ==
    /\ composer \subseteq Texts
    /\ text \in [Ids -> Texts \cup {None}]
    /\ idb \in [Ids -> State \cup {None}]
    /\ live \in [Ids -> State \cup {None}]
    /\ offer \subseteq Ids
    /\ idbq \in Seq(Transactions)
    /\ \A i \in 1..Len(idbq) : WellFormed(idbq[i])

\* The types of the socket, the hub and the daemon.
WireTypes ==
    /\ regime \in Regimes /\ key \in Nat
    /\ up \in Seq(Ids)
    /\ down \in Seq(Messages)
    /\ \A i \in 1..Len(down) : down[i].type = "promptResult" => down[i].id \in Ids
    /\ ops \in Seq(Prompts)
    /\ running \in [op : Prompts, outcome : AllOutcomes] \cup {None}
    /\ ledger \in Seq(Results)
    /\ taken \in [Ids -> Nat]

\* A verdict that says "accepted" is about a prompt the daemon took.
AcceptedWasTaken ==
    /\ \A i \in 1..Len(down) :
          down[i].type = "promptResult" /\ down[i].accepted => taken[down[i].id] > 0
    /\ \A i \in 1..Len(ledger) : ledger[i].accepted => taken[ledger[i].id] > 0
    /\ running # None /\ running.outcome = "accepted" => taken[running.op.id] > 0

-----------------------------------------------------------------------------
(* The transactions of a page *)

\* A transaction that makes the first entry of an attempt, and one that works on an entry.
Names(tr, id) == (tr.op = "save" /\ tr.id = id) \/ (tr.op = "retry" /\ tr.new = id)
Uses(tr, id) == tr.op # "save" /\ tr.id = id

\* The first entry of the attempt is still to be made.
Named(id) == \E i \in 1..Len(idbq) : Names(idbq[i], id)
\* ... by one transaction.
NamedOnce(id) == \A i, j \in 1..Len(idbq) : Names(idbq[i], id) /\ Names(idbq[j], id) => i = j

\* Nothing is known of the attempt yet, and nothing works on it.
Free(id) ==
    /\ idb[id] = None /\ live[id] = None /\ id \notin offer
    /\ \A i \in 1..Len(idbq) : ~Uses(idbq[i], id)

\* An attempt gets its entry once, and nothing settles, edits or resends it before.
EntriesComeOnce ==
    \A id \in Ids :
        /\ text[id] = None => Free(id) /\ ~Named(id)
        /\ Named(id) => Free(id) /\ NamedOnce(id)

\* A retry says the same text again.
RetriesSame ==
    \A i \in 1..Len(idbq) : idbq[i].op = "retry" => text[idbq[i].new] = text[idbq[i].id]

-----------------------------------------------------------------------------
(* The places of a text *)

Saving(id) == \E i \in 1..Len(idbq) : idbq[i].op = "save" /\ idbq[i].id = id
\* The entry is to be settled.
Settling(id) == \E i \in 1..Len(idbq) : idbq[i].op = "settle" /\ idbq[i].id = id

\* The entry is in IndexedDB and will stay, or it is about to be saved.
Stays(id) == (idb[id] # None /\ ~Settling(id)) \/ Saving(id)

\* The text is in the composer, or an attempt to say it has been taken or stays.
Kept(t) == t \in composer \/ \E id \in Ids : text[id] = t /\ (taken[id] > 0 \/ Stays(id))

\* The texts of T are kept.
EveryTextKept(T) == \A t \in T : Kept(t)

\* What holds whatever becomes of the texts.
Base == PageTypes /\ WireTypes /\ AcceptedWasTaken /\ EntriesComeOnce /\ RetriesSame

\* The inductive invariant of NoTextLost.
Inv(T) == Base /\ EveryTextKept(T)

\* A page is closed inside a retry: the old entry is gone, the new one not saved, and the
\* composer does not hold the text (store.svelte.ts retryPending, between its two awaits).
CutsRetry ==
    Reload /\ \E i \in 1..Len(idbq) : idbq[i].op = "save" /\ text[idbq[i].id] \notin composer

-----------------------------------------------------------------------------
(* Sequences *)

\* The head and the tail of a sequence.
LEMMA TakeFacts ==
    ASSUME NEW S, NEW s \in Seq(S), s # <<>>
    PROVE  /\ Tail(s) \in Seq(S) /\ Len(Tail(s)) = Len(s) - 1 /\ Len(s) \in Nat \ {0}
           /\ \A i \in 1..(Len(s) - 1) : Tail(s)[i] = s[i + 1]
           /\ Head(s) = s[1] /\ s[1] \in S /\ 1 \in 1..Len(s)
OBVIOUS

\* A sequence with one element more.
LEMMA AppendFacts ==
    ASSUME NEW S, NEW s \in Seq(S), NEW e \in S
    PROVE  /\ Append(s, e) \in Seq(S) /\ Len(Append(s, e)) = Len(s) + 1 /\ Len(s) \in Nat
           /\ \A i \in 1..Len(s) : Append(s, e)[i] = s[i]
           /\ Append(s, e)[Len(s) + 1] = e
OBVIOUS

\* One sequence after another.
LEMMA ConcatFacts ==
    ASSUME NEW S, NEW s \in Seq(S), NEW t \in Seq(S)
    PROVE  /\ s \o t \in Seq(S) /\ Len(s \o t) = Len(s) + Len(t) /\ Len(s) \in Nat /\ Len(t) \in Nat
           /\ \A i \in 1..Len(s) : (s \o t)[i] = s[i]
           /\ \A i \in 1..Len(t) : (s \o t)[Len(s) + i] = t[i]
OBVIOUS

\* The ids of a set in order are a sequence over it.
LEMMA InOrderFacts ==
    ASSUME NEW n \in Nat, NEW S \in SUBSET (1..n), NEW s \in InOrder(S)
    PROVE  s \in Seq(S) /\ Len(s) \in Nat /\ DOMAIN s = 1..Len(s) /\ \A i \in 1..Len(s) : s[i] \in S
<1>1. Cardinality(S) \in Nat
  <2>1. IsFiniteSet(1..n)
    BY FS_Interval
  <2>2. IsFiniteSet(S)
    BY <2>1, FS_Subset
  <2> QED BY <2>2, FS_CardinalityType
<1>2. s \in [1..Cardinality(S) -> S]
  BY DEF InOrder
<1> QED BY <1>1, <1>2


-----------------------------------------------------------------------------
(* The queue of transactions moves: k of them are committed, others are issued *)

\* k transactions left the head of the queue, the others moved up.
Moved(k) ==
    /\ k \in {0, 1} /\ k <= Len(idbq) /\ Len(idbq) - k <= Len(idbq')
    /\ \A i \in 1..(Len(idbq) - k) : idbq'[i] = idbq[i + k]

\* The places of what was issued.
Issued(k) == (Len(idbq) - k + 1)..Len(idbq')

\* A transaction in the queue was issued just now, or was there k places further on.
LEMMA MovedFacts ==
    ASSUME idbq \in Seq(Transactions), idbq' \in Seq(Transactions), NEW k, Moved(k)
    PROVE  /\ Len(idbq) \in Nat /\ Len(idbq') \in Nat /\ k \in Nat
           /\ \A i \in 1..Len(idbq') :
                \/ i \in Issued(k)
                \/ i \in 1..(Len(idbq) - k) /\ i + k \in 1..Len(idbq) /\ idbq'[i] = idbq[i + k]
           /\ \A i \in 1..Len(idbq) : i > k => i - k \in 1..Len(idbq') /\ idbq'[i - k] = idbq[i]
           /\ \A i \in 1..Len(idbq) : i <= k => i = 1 /\ k = 1
           /\ \A i \in Issued(k) : i \in 1..Len(idbq')
BY DEF Moved, Issued

\* An attempt nothing is known of stays so when nothing issued works on it.
LEMMA FreeStays ==
    ASSUME idbq \in Seq(Transactions), idbq' \in Seq(Transactions), NEW k, Moved(k),
           NEW id \in Ids, Free(id),
           idb'[id] = None, live'[id] = None, id \notin offer',
           \A i \in Issued(k) : ~Uses(idbq'[i], id)
    PROVE  Free(id)'
<1>1. ASSUME NEW i \in 1..Len(idbq') PROVE ~Uses(idbq'[i], id)
  BY <1>1, MovedFacts DEF Free
<1> QED BY <1>1 DEF Free

\* An attempt nothing issued names is named when it was, and as often.
LEMMA NamedStays ==
    ASSUME idbq \in Seq(Transactions), idbq' \in Seq(Transactions), NEW k, Moved(k),
           NEW id \in Ids, \A i \in Issued(k) : ~Names(idbq'[i], id)
    PROVE  /\ Named(id)' => Named(id)
           /\ NamedOnce(id) => NamedOnce(id)'
<1>1. \A i \in 1..Len(idbq') : Names(idbq'[i], id) =>
          i + k \in 1..Len(idbq) /\ Names(idbq[i + k], id)
  BY MovedFacts
<1>2. Named(id)' => Named(id)
  BY <1>1 DEF Named
<1>3. ASSUME NamedOnce(id), NEW i \in 1..Len(idbq'), NEW j \in 1..Len(idbq'),
             Names(idbq'[i], id), Names(idbq'[j], id)
      PROVE  i = j
  <2>1. i + k = j + k
    BY <1>1, <1>3 DEF NamedOnce
  <2> QED BY <2>1, MovedFacts
<1> QED BY <1>2, <1>3 DEF NamedOnce

\* Attempts that a step does not name, save or settle stay as they are.
LEMMA EntriesKeep ==
    ASSUME EntriesComeOnce, idbq \in Seq(Transactions), idbq' \in Seq(Transactions), NEW k, Moved(k),
           NEW n,
           \A id \in Ids \ {n} :
              /\ text'[id] = text[id]
              /\ Free(id) => idb'[id] = None /\ live'[id] = None /\ id \notin offer'
              /\ \A i \in Issued(k) : ~Names(idbq'[i], id) /\ (Uses(idbq'[i], id) => ~Free(id)),
           n \in Ids => /\ text'[n] # None
                        /\ Named(n)' => Free(n)' /\ NamedOnce(n)'
    PROVE  EntriesComeOnce'
<1>1. ASSUME NEW id \in Ids, id # n
      PROVE  /\ text'[id] = None => Free(id)' /\ ~Named(id)'
             /\ Named(id)' => Free(id)' /\ NamedOnce(id)'
  <2>1. (Named(id)' => Named(id)) /\ (NamedOnce(id) => NamedOnce(id)')
    BY <1>1, NamedStays
  <2>2. Free(id) => Free(id)'
    BY <1>1, FreeStays
  <2> QED BY <1>1, <2>1, <2>2 DEF EntriesComeOnce
<1> QED BY <1>1 DEF EntriesComeOnce

\* Retries say the same text while no text changes and those issued do.
LEMMA RetriesKeep ==
    ASSUME RetriesSame, idbq \in Seq(Transactions), idbq' \in Seq(Transactions), NEW k, Moved(k),
           \A i \in 1..Len(idbq) : idbq[i].op = "retry" =>
               text'[idbq[i].new] = text[idbq[i].new] /\ text'[idbq[i].id] = text[idbq[i].id],
           \A i \in Issued(k) : idbq'[i].op = "retry" => text'[idbq'[i].new] = text'[idbq'[i].id]
    PROVE  RetriesSame'
<1>1. ASSUME NEW i \in 1..Len(idbq'), idbq'[i].op = "retry"
      PROVE  text'[idbq'[i].new] = text'[idbq'[i].id]
  BY <1>1, MovedFacts DEF RetriesSame
<1> QED BY <1>1 DEF RetriesSame

\* An entry that stays goes on staying.
LEMMA StaysKeeps ==
    ASSUME idbq \in Seq(Transactions), idbq' \in Seq(Transactions), NEW k, Moved(k),
           NEW id \in Ids, Stays(id), idb[id] # None => idb'[id] # None,
           k = 1 => ~(idbq[1].op = "save" /\ idbq[1].id = id),
           \A i \in Issued(k) : ~(idbq'[i].op = "settle" /\ idbq'[i].id = id)
    PROVE  Stays(id)'
<1>1. CASE idb[id] # None /\ ~Settling(id)
  <2>1. ASSUME NEW i \in 1..Len(idbq') PROVE ~(idbq'[i].op = "settle" /\ idbq'[i].id = id)
    <3>1. \/ i \in Issued(k)
          \/ i + k \in 1..Len(idbq) /\ idbq'[i] = idbq[i + k]
      BY <2>1, MovedFacts
    <3> QED BY <1>1, <3>1 DEF Settling
  <2>2. ~Settling(id)'
    BY <2>1 DEF Settling
  <2> QED BY <1>1, <2>2 DEF Stays
<1>2. CASE Saving(id)
  <2>1. PICK i \in 1..Len(idbq) : idbq[i].op = "save" /\ idbq[i].id = id
    BY <1>2 DEF Saving
  <2>2. i > k
    BY <2>1, MovedFacts
  <2>3. i - k \in 1..Len(idbq') /\ idbq'[i - k] = idbq[i]
    BY <2>1, <2>2, MovedFacts
  <2>4. Saving(id)'
    BY <2>1, <2>3 DEF Saving
  <2> QED BY <2>4 DEF Stays
<1> QED BY <1>1, <1>2 DEF Stays


-----------------------------------------------------------------------------
(* Issuing one transaction, committing the oldest *)

\* One transaction is issued.
LEMMA AppendMoves ==
    ASSUME PageTypes, NEW e \in Transactions, WellFormed(e), idbq' = Append(idbq, e)
    PROVE  /\ idbq' \in Seq(Transactions) /\ idbq \in Seq(Transactions) /\ Moved(0)
           /\ \A i \in Issued(0) : idbq'[i] = e
           /\ \A i \in 1..Len(idbq') : WellFormed(idbq'[i])
           /\ Len(idbq') \in 1..Len(idbq') /\ idbq'[Len(idbq')] = e
<1>1. idbq \in Seq(Transactions) /\ \A i \in 1..Len(idbq) : WellFormed(idbq[i])
  BY DEF PageTypes
<1>2. /\ idbq' \in Seq(Transactions) /\ Len(idbq') = Len(idbq) + 1 /\ Len(idbq) \in Nat
      /\ \A i \in 1..Len(idbq) : idbq'[i] = idbq[i]
      /\ idbq'[Len(idbq) + 1] = e
  BY <1>1, AppendFacts
<1>3. Moved(0)
  BY <1>2 DEF Moved
<1>4. \A i \in Issued(0) : i = Len(idbq) + 1
  BY <1>2 DEF Issued
<1>5. \A i \in 1..Len(idbq') : i \in 1..Len(idbq) \/ i = Len(idbq) + 1
  BY <1>2
<1>6. Len(idbq') \in 1..Len(idbq') /\ Len(idbq') = Len(idbq) + 1
  BY <1>2
<1> QED BY <1>1, <1>2, <1>3, <1>4, <1>5, <1>6

\* One transaction is committed.
LEMMA TailMoves ==
    ASSUME PageTypes, idbq # <<>>, idbq' = Tail(idbq)
    PROVE  /\ idbq' \in Seq(Transactions) /\ idbq \in Seq(Transactions) /\ Moved(1)
           /\ Issued(1) = {}
           /\ \A i \in 1..Len(idbq') : WellFormed(idbq'[i])
<1>1. idbq \in Seq(Transactions) /\ \A i \in 1..Len(idbq) : WellFormed(idbq[i])
  BY DEF PageTypes
<1>2. /\ idbq' \in Seq(Transactions) /\ Len(idbq') = Len(idbq) - 1 /\ Len(idbq) \in Nat \ {0}
      /\ \A i \in 1..(Len(idbq) - 1) : idbq'[i] = idbq[i + 1]
  BY <1>1, TakeFacts
<1>3. Moved(1) /\ Issued(1) = {}
  BY <1>2 DEF Moved, Issued
<1>4. \A i \in 1..Len(idbq') : i + 1 \in 1..Len(idbq) /\ idbq'[i] = idbq[i + 1]
  BY <1>2
<1> QED BY <1>1, <1>2, <1>3, <1>4

\* One transaction is committed and one issued.
LEMMA TailAppendMoves ==
    ASSUME PageTypes, idbq # <<>>, NEW e \in Transactions, WellFormed(e),
           idbq' = Append(Tail(idbq), e)
    PROVE  /\ idbq' \in Seq(Transactions) /\ idbq \in Seq(Transactions) /\ Moved(1)
           /\ \A i \in Issued(1) : idbq'[i] = e
           /\ \A i \in 1..Len(idbq') : WellFormed(idbq'[i])
           /\ Len(idbq') \in 1..Len(idbq') /\ idbq'[Len(idbq')] = e
<1>1. idbq \in Seq(Transactions) /\ \A i \in 1..Len(idbq) : WellFormed(idbq[i])
  BY DEF PageTypes
<1>q. PICK q : q = Tail(idbq)
  OBVIOUS
<1>2. /\ q \in Seq(Transactions) /\ Len(q) = Len(idbq) - 1 /\ Len(idbq) \in Nat \ {0}
      /\ \A i \in 1..(Len(idbq) - 1) : q[i] = idbq[i + 1]
  BY <1>q, <1>1, TakeFacts
<1>3. idbq' = Append(q, e)
  BY <1>q
<1>4. /\ idbq' \in Seq(Transactions) /\ Len(idbq') = Len(q) + 1 /\ Len(q) \in Nat
      /\ \A i \in 1..Len(q) : idbq'[i] = q[i]
      /\ idbq'[Len(q) + 1] = e
  <2>1. /\ Append(q, e) \in Seq(Transactions) /\ Len(Append(q, e)) = Len(q) + 1 /\ Len(q) \in Nat
        /\ \A i \in 1..Len(q) : Append(q, e)[i] = q[i]
        /\ Append(q, e)[Len(q) + 1] = e
    <3>1. q \in Seq(Transactions)
      BY <1>2
    <3> QED BY <3>1, AppendFacts
  <2> QED BY <1>3, <2>1
<1>5. Len(idbq') = Len(idbq) /\ idbq'[Len(idbq)] = e /\ \A i \in 1..(Len(idbq) - 1) : idbq'[i] = idbq[i + 1]
  BY <1>2, <1>4
<1>6. Moved(1)
  BY <1>2, <1>5 DEF Moved
<1>7. \A i \in Issued(1) : i = Len(idbq)
  BY <1>2, <1>5 DEF Issued
<1>8. \A i \in 1..Len(idbq') : (i + 1 \in 1..Len(idbq) /\ idbq'[i] = idbq[i + 1]) \/ i = Len(idbq)
  BY <1>2, <1>5
<1>9. Len(idbq') \in 1..Len(idbq')
  BY <1>2, <1>5
<1> QED BY <1>1, <1>4, <1>5, <1>6, <1>7, <1>8, <1>9


-----------------------------------------------------------------------------
(* Sending entries *)

\* Entries that are sent keep being entries, and what is issued saves some of them again.
SendsOnly(q, lv) ==
    /\ live' \in [Ids -> State \cup {None}]
    /\ \A id \in Ids : lv[id] = None => live'[id] = None
    /\ up' \in Seq(Ids)
    /\ idbq' \in Seq(Transactions) /\ Len(q) \in Nat /\ Len(idbq') \in Nat /\ Len(q) <= Len(idbq')
    /\ \A i \in 1..Len(q) : idbq'[i] = q[i]
    /\ \A i \in (Len(q) + 1)..Len(idbq') :
          WellFormed(idbq'[i]) /\ idbq'[i].op = "put" /\ lv[idbq'[i].id] # None

\* A sequence over S is one over what contains S.
LEMMA SeqMono ==
    ASSUME NEW S, NEW T, \A x \in S : x \in T, NEW s \in Seq(S)
    PROVE  s \in Seq(T)
OBVIOUS

\* Put makes a well-formed transaction.
LEMMA PutIs ==
    ASSUME NEW id \in Ids, NEW state \in State
    PROVE  /\ Put(id, state) \in Transactions /\ WellFormed(Put(id, state))
           /\ Put(id, state).op = "put" /\ Put(id, state).id = id
BY DEF Put, Transactions, WellFormed

\* What sendPendingPrompt keeps.
LEMMA SendFacts ==
    ASSUME NEW c, NEW q \in Seq(Transactions), NEW lv \in [Ids -> State \cup {None}], NEW u \in Seq(Ids),
           NEW ids \in SUBSET Ids,
           sendPendingPrompt(c, [live |-> lv, idbq |-> q, up |-> u], ids)
    PROVE  SendsOnly(q, lv)
<1>b. PICK b : b = [live |-> lv, idbq |-> q, up |-> u]
  OBVIOUS
<1>0. b.live = lv /\ b.idbq = q /\ b.up = u /\ sendPendingPrompt(c, b, ids)
  BY <1>b
<1> DEFINE state == IF c = "down" THEN "queued" ELSE "sending"
           sent == {id \in ids : b.live[id] \notin {None, "rejected"}}
<1>2. /\ state \in State /\ sent \in SUBSET (1..MaxIds) /\ MaxIds \in Nat
      /\ \A id \in sent : id \in Ids /\ lv[id] # None
  BY <1>0, PromptAssumption DEF State, Ids
<1>2a. \E messages \in InOrder(sent), saves \in InOrder(Changed(b, sent, state)) :
          /\ live' = [id \in Ids |-> IF id \in sent THEN state ELSE b.live[id]]
          /\ idbq' = b.idbq \o [i \in DOMAIN saves |-> Put(saves[i], state)]
          /\ up' = IF c = "down" THEN b.up ELSE b.up \o messages
  BY <1>0 DEF sendPendingPrompt
<1> HIDE DEF state, sent
<1>3. PICK messages \in InOrder(sent), saves \in InOrder(Changed(b, sent, state)) :
          /\ live' = [id \in Ids |-> IF id \in sent THEN state ELSE lv[id]]
          /\ idbq' = q \o [i \in DOMAIN saves |-> Put(saves[i], state)]
          /\ up' = IF c = "down" THEN u ELSE u \o messages
  BY <1>0, <1>2a
<1>4. messages \in Seq(Ids) /\ saves \in Seq(Ids) /\ Len(saves) \in Nat /\ DOMAIN saves = 1..Len(saves)
      /\ \A i \in 1..Len(saves) : saves[i] \in sent
  <2>1. Changed(b, sent, state) \in SUBSET (1..MaxIds) /\ Changed(b, sent, state) \subseteq sent
    BY <1>2 DEF Changed
  <2>2. messages \in Seq(sent)
    BY <1>2, <1>3, InOrderFacts
  <2>3. saves \in Seq(Changed(b, sent, state)) /\ Len(saves) \in Nat /\ DOMAIN saves = 1..Len(saves)
        /\ \A i \in 1..Len(saves) : saves[i] \in Changed(b, sent, state)
    BY <1>2, <1>3, <2>1, InOrderFacts
  <2>4. messages \in Seq(Ids)
    BY <1>2, <2>2, SeqMono
  <2>5. saves \in Seq(Ids)
    BY <1>2, <2>1, <2>3, SeqMono
  <2> QED BY <2>1, <2>3, <2>4, <2>5
<1>5. PICK puts : puts = [i \in 1..Len(saves) |-> Put(saves[i], state)]
  OBVIOUS
<1>6. \A i \in 1..Len(saves) : /\ puts[i] \in Transactions /\ WellFormed(puts[i])
                               /\ puts[i].op = "put" /\ lv[puts[i].id] # None
  <2>1. ASSUME NEW i \in 1..Len(saves)
        PROVE  /\ puts[i] \in Transactions /\ WellFormed(puts[i])
               /\ puts[i].op = "put" /\ lv[puts[i].id] # None
    <3>1. saves[i] \in Ids /\ lv[saves[i]] # None /\ state \in State
      BY <2>1, <1>2, <1>4
    <3>2. puts[i] = Put(saves[i], state)
      BY <2>1, <1>5
    <3> QED BY <3>1, <3>2, PutIs
  <2> QED BY <2>1
<1>7. puts \in Seq(Transactions) /\ Len(puts) = Len(saves)
  BY <1>4, <1>5, <1>6
<1>8. idbq' = q \o puts
  BY <1>3, <1>4, <1>5
<1>9. /\ idbq' \in Seq(Transactions) /\ Len(idbq') = Len(q) + Len(saves) /\ Len(q) \in Nat
      /\ \A i \in 1..Len(q) : idbq'[i] = q[i]
      /\ \A i \in 1..Len(saves) : idbq'[Len(q) + i] = puts[i]
  <2>1. /\ q \o puts \in Seq(Transactions) /\ Len(q \o puts) = Len(q) + Len(puts) /\ Len(q) \in Nat
        /\ \A i \in 1..Len(q) : (q \o puts)[i] = q[i]
        /\ \A i \in 1..Len(puts) : (q \o puts)[Len(q) + i] = puts[i]
    <3>1. q \in Seq(Transactions) /\ puts \in Seq(Transactions)
      BY <1>7
    <3> QED BY <3>1, ConcatFacts
  <2> QED BY <1>7, <1>8, <2>1
<1>10. \A i \in (Len(q) + 1)..Len(idbq') : i - Len(q) \in 1..Len(saves) /\ idbq'[i] = puts[i - Len(q)]
  <2>1. ASSUME NEW i \in (Len(q) + 1)..Len(idbq')
        PROVE  i - Len(q) \in 1..Len(saves) /\ i = Len(q) + (i - Len(q))
    BY <1>4, <1>9
  <2> QED BY <1>9, <2>1
<1>11. Len(idbq') \in Nat /\ Len(q) <= Len(idbq')
  BY <1>4, <1>9
<1>12. up' \in Seq(Ids)
  BY <1>3, <1>4
<1>13. live' \in [Ids -> State \cup {None}] /\ \A id \in Ids : lv[id] = None => live'[id] = None
  BY <1>2, <1>3
<1>14. \A i \in (Len(q) + 1)..Len(idbq') :
           WellFormed(idbq'[i]) /\ idbq'[i].op = "put" /\ lv[idbq'[i].id] # None
  <2>1. ASSUME NEW i \in (Len(q) + 1)..Len(idbq')
        PROVE  WellFormed(idbq'[i]) /\ idbq'[i].op = "put" /\ lv[idbq'[i].id] # None
    <3>1. PICK k \in 1..Len(saves) : idbq'[i] = puts[k]
      BY <1>10
    <3>2. WellFormed(puts[k]) /\ puts[k].op = "put" /\ lv[puts[k].id] # None
      BY <1>6
    <3> QED BY <3>1, <3>2
  <2> QED BY <2>1
<1>15. idbq' \in Seq(Transactions) /\ \A i \in 1..Len(q) : idbq'[i] = q[i]
  BY <1>9
<1> QED BY <1>11, <1>12, <1>13, <1>14, <1>15 DEF SendsOnly


-----------------------------------------------------------------------------
(* What a step of the page may do to the attempts *)

\* The half of the invariant that is about the page.
PageInv(T) == PageTypes /\ EntriesComeOnce /\ RetriesSame /\ EveryTextKept(T)

\* Issue makes a well-formed transaction.
LEMMA IssueIs ==
    ASSUME NEW op \in {"save", "settle", "edit"}, NEW id \in Ids
    PROVE  /\ Issue(op, id) \in Transactions /\ WellFormed(Issue(op, id))
           /\ Issue(op, id).op = op /\ Issue(op, id).id = id /\ Issue(op, id).new = None
BY DEF Issue, Transactions, WellFormed

\* A fresh attempt has no text, and nothing is known of it.
LEMMA FreshFacts ==
    ASSUME NEW T \in SUBSET Texts, PageInv(T), NEW id \in Ids, Fresh(id)
    PROVE  text[id] = None /\ Free(id) /\ ~Named(id)
BY DEF PageInv, Fresh, EntriesComeOnce

\* The head of the queue used to name an attempt: now nothing does, or only what was issued.
LEMMA HeadNames ==
    ASSUME idbq \in Seq(Transactions), idbq' \in Seq(Transactions), Moved(1),
           NEW n \in Ids, Names(idbq[1], n), NamedOnce(n)
    PROVE  \A i \in 1..Len(idbq') : Names(idbq'[i], n) => i \in Issued(1)
<1>1. ASSUME NEW i \in 1..Len(idbq'), Names(idbq'[i], n), i \notin Issued(1)
      PROVE  FALSE
  <2>1. i + 1 \in 1..Len(idbq) /\ idbq'[i] = idbq[i + 1] /\ 1 \in 1..Len(idbq)
    <3>1. \/ i \in Issued(1)
          \/ i \in 1..(Len(idbq) - 1) /\ i + 1 \in 1..Len(idbq) /\ idbq'[i] = idbq[i + 1]
      BY <1>1, MovedFacts
    <3>2. Len(idbq) \in Nat
      BY MovedFacts
    <3> QED BY <1>1, <3>1, <3>2
  <2>2. 1 = i + 1
    BY <1>1, <2>1 DEF NamedOnce
  <2> QED BY <1>1, <2>2
<1> QED BY <1>1

\* Texts are kept when each has the place it had or another one.
LEMMA KeptKeeps ==
    ASSUME NEW T \in SUBSET Texts, EveryTextKept(T),
           \A t \in Texts : t \in composer => Kept(t)',
           \A id \in Ids : \A t \in Texts :
               t = text[id] /\ (taken[id] > 0 \/ Stays(id)) => Kept(t)'
    PROVE  EveryTextKept(T)'
<1>1. ASSUME NEW t \in T PROVE Kept(t)'
  BY <1>1 DEF EveryTextKept, Kept
<1> QED BY <1>1 DEF EveryTextKept

\* A step that names no attempt.
LEMMA NothingNamed ==
    ASSUME NEW T \in SUBSET Texts, PageInv(T), idbq' \in Seq(Transactions), NEW k, Moved(k), text' = text,
           \A id \in Ids : Free(id) => idb'[id] = None /\ live'[id] = None /\ id \notin offer',
           \A i \in Issued(k) : idbq'[i].op \notin {"save", "retry"},
           \A i \in Issued(k) : \A id \in Ids : idbq'[i].id = id => ~Free(id)
    PROVE  EntriesComeOnce' /\ RetriesSame'
<1>1. idbq \in Seq(Transactions) /\ EntriesComeOnce /\ RetriesSame
  BY DEF PageInv, PageTypes
<1>2. None \notin Ids
  BY PromptAssumption
<1>3. \A id \in Ids \ {None} :
              /\ text'[id] = text[id]
              /\ Free(id) => idb'[id] = None /\ live'[id] = None /\ id \notin offer'
              /\ \A i \in Issued(k) : ~Names(idbq'[i], id) /\ (Uses(idbq'[i], id) => ~Free(id))
  BY DEF Names, Uses
<1>4. EntriesComeOnce'
  BY <1>1, <1>2, <1>3, EntriesKeep
<1>5. RetriesSame'
  BY <1>1, RetriesKeep
<1> QED BY <1>4, <1>5

\* A step that makes a new attempt n, to say t.
LEMMA NameComes ==
    ASSUME NEW T \in SUBSET Texts, PageInv(T), NEW n \in Ids, Fresh(n), NEW t \in Texts, text' = [text EXCEPT ![n] = t],
           UNCHANGED <<idb, live, offer, composer, taken>>,
           NEW e \in Transactions, WellFormed(e), idbq' = Append(idbq, e), e.op # "settle",
           ~Uses(e, n), \A id \in Ids \ {n} : ~Names(e, id) /\ (Uses(e, id) => ~Free(id)),
           e.op = "retry" => e.new = n /\ e.id # n /\ text[e.id] = t
    PROVE  PageInv(T)'
<1>1. /\ idbq \in Seq(Transactions) /\ EntriesComeOnce /\ RetriesSame /\ EveryTextKept(T)
      /\ text \in [Ids -> Texts \cup {None}]
      /\ \A i \in 1..Len(idbq) : WellFormed(idbq[i])
  BY DEF PageInv, PageTypes
<1>2. text[n] = None /\ Free(n) /\ ~Named(n)
  BY FreshFacts
<1>3. /\ idbq' \in Seq(Transactions) /\ Moved(0)
      /\ \A i \in Issued(0) : idbq'[i] = e
      /\ \A i \in 1..Len(idbq') : WellFormed(idbq'[i])
  BY AppendMoves DEF PageInv
<1>4. t # None /\ text'[n] = t /\ \A id \in Ids \ {n} : text'[id] = text[id]
  BY <1>1, PromptAssumption
<1>5. PageTypes'
  BY <1>3, <1>1, <1>4 DEF PageInv, PageTypes
<1>6. Free(n)'
  <2>1. idb'[n] = None /\ live'[n] = None /\ n \notin offer'
    BY <1>2 DEF Free
  <2>2. \A i \in Issued(0) : ~Uses(idbq'[i], n)
    BY <1>3
  <2> QED BY <1>1, <1>2, <1>3, <2>1, <2>2, FreeStays
<1>7. NamedOnce(n)'
  <2>1. ASSUME NEW i \in 1..Len(idbq'), Names(idbq'[i], n)
        PROVE  i = Len(idbq) + 1
    <3>1. i \in Issued(0)
      BY <1>1, <1>2, <1>3, <2>1, MovedFacts DEF Named
    <3>2. Len(idbq') = Len(idbq) + 1 /\ Len(idbq) \in Nat
      BY <1>1
    <3> QED BY <3>1, <3>2 DEF Issued
  <2> QED BY <2>1 DEF NamedOnce
<1>8. EntriesComeOnce'
  <2>1. \A id \in Ids \ {n} :
              /\ text'[id] = text[id]
              /\ Free(id) => idb'[id] = None /\ live'[id] = None /\ id \notin offer'
              /\ \A i \in Issued(0) : ~Names(idbq'[i], id) /\ (Uses(idbq'[i], id) => ~Free(id))
    BY <1>3, <1>4 DEF Free
  <2> QED BY <1>1, <1>3, <1>4, <1>6, <1>7, <2>1, EntriesKeep
<1>9. RetriesSame'
  <2>1. ASSUME NEW i \in 1..Len(idbq), idbq[i].op = "retry"
        PROVE  /\ text'[idbq[i].new] = text[idbq[i].new]
               /\ text'[idbq[i].id] = text[idbq[i].id]
    <3>1. idbq[i].new \in Ids /\ idbq[i].id \in Ids
      BY <1>1, <2>1 DEF WellFormed
    <3>2. idbq[i].new # n
      BY <1>2, <2>1 DEF Named, Names
    <3>3. idbq[i].id # n
      BY <1>2, <2>1 DEF Free, Uses
    <3> QED BY <1>4, <3>1, <3>2, <3>3
  <2>2. e.op = "retry" => text'[e.new] = text'[e.id]
    <3>1. e.op = "retry" => e.id \in Ids
      BY DEF WellFormed
    <3> QED BY <1>4, <3>1
  <2> QED BY <1>1, <1>3, <2>1, <2>2, RetriesKeep
<1>10. EveryTextKept(T)'
  <2>1. ASSUME NEW u \in Texts, u \in composer PROVE Kept(u)'
    BY <2>1 DEF Kept
  <2>2. ASSUME NEW id \in Ids, NEW u \in Texts, u = text[id], taken[id] > 0 \/ Stays(id)
        PROVE  Kept(u)'
    <3>1. text'[id] = u
      BY <1>2, <1>4, <2>2, PromptAssumption
    <3>2. Stays(id) => Stays(id)'
      <4>1. idb[id] # None => idb'[id] # None
        OBVIOUS
      <4>2. \A i \in Issued(0) : ~(idbq'[i].op = "settle" /\ idbq'[i].id = id)
        BY <1>3
      <4>3. id \in Ids /\ (0 = 1 => ~(idbq[1].op = "save" /\ idbq[1].id = id))
        BY <2>2
      <4>4. ASSUME Stays(id) PROVE Stays(id)'
        BY <1>1, <1>3, <4>1, <4>2, <4>3, <4>4, StaysKeeps
      <4> QED BY <4>4
    <3> QED BY <2>2, <3>1, <3>2 DEF Kept
  <2> QED BY <1>1, <2>1, <2>2, KeptKeeps
<1> QED BY <1>5, <1>8, <1>9, <1>10 DEF PageInv


-----------------------------------------------------------------------------
(* The steps of the user *)

\* The user submits: the composer still has the text.
LEMMA SubmitKeeps ==
    ASSUME NEW T \in SUBSET Texts, PageInv(T), NEW t \in Texts, NEW id \in Ids, Submit(t, id)
    PROVE  PageInv(T)'
<1>1. /\ Fresh(id) /\ text' = [text EXCEPT ![id] = t]
      /\ idbq' = Append(idbq, Issue("save", id))
      /\ UNCHANGED <<idb, live, offer, composer, taken>>
  BY DEF Submit, server
<1>e. PICK e : e = Issue("save", id)
  OBVIOUS
<1>2. /\ e \in Transactions /\ WellFormed(e) /\ e.op = "save" /\ e.id = id /\ e.new = None
  BY <1>e, IssueIs
<1>3. ~Uses(e, id) /\ \A k \in Ids \ {id} : ~Names(e, k) /\ (Uses(e, k) => ~Free(k))
  BY <1>2 DEF Uses, Names
<1>4. idbq' = Append(idbq, e)
  BY <1>1, <1>e
<1>5. e.op # "settle" /\ (e.op = "retry" => e.new = id /\ e.id # id /\ text[e.id] = t)
  BY <1>2
<1> QED BY <1>1, <1>2, <1>3, <1>4, <1>5, NameComes

\* The user retries: the rejected entry stays until its transaction commits.
LEMMA UserRetryKeeps ==
    ASSUME NEW T \in SUBSET Texts, PageInv(T), NEW id \in Ids, NEW new \in Ids, UserRetry(id, new)
    PROVE  PageInv(T)'
<1>1. /\ Fresh(new) /\ text' = [text EXCEPT ![new] = text[id]] /\ live[id] = "rejected"
      /\ idbq' = Append(idbq, Replace(id, new))
      /\ UNCHANGED <<idb, live, offer, composer, taken>>
  BY DEF UserRetry, server
<1>e. PICK e : e = Replace(id, new)
  OBVIOUS
<1>2. /\ e \in Transactions /\ WellFormed(e) /\ e.op = "retry" /\ e.id = id /\ e.new = new
  BY <1>e DEF Replace, Transactions, WellFormed
<1>3. ~Free(id)
  BY <1>1, PromptAssumption DEF Free, State
<1>4. text[new] = None /\ Free(new)
  BY <1>1, FreshFacts
<1>5. id # new
  BY <1>3, <1>4
<1>t. PICK t : t = text[id]
  OBVIOUS
<1>6. t \in Texts
  <2>1. EntriesComeOnce /\ text \in [Ids -> Texts \cup {None}]
    BY DEF PageInv, PageTypes
  <2> QED BY <1>t, <1>3, <2>1 DEF EntriesComeOnce
<1>7. ~Uses(e, new) /\ \A k \in Ids \ {new} : ~Names(e, k) /\ (Uses(e, k) => ~Free(k))
  BY <1>2, <1>3, <1>5 DEF Uses, Names
<1>8. idbq' = Append(idbq, e) /\ text' = [text EXCEPT ![new] = t] /\ e.op # "settle"
      /\ (e.op = "retry" => e.new = new /\ e.id # new /\ text[e.id] = t)
  BY <1>1, <1>2, <1>5, <1>e, <1>t
<1> QED BY <1>1, <1>2, <1>6, <1>7, <1>8, NameComes

\* A transaction is issued on an attempt that has its entry; a text to be cleared is in the
\* composer, or the daemon has it.
LEMMA IssueKeeps ==
    ASSUME NEW T \in SUBSET Texts, PageInv(T), NEW id \in Ids, ~Free(id), NEW e \in Transactions, WellFormed(e),
           e.id = id, e.op \notin {"save", "retry"}, idbq' = Append(idbq, e),
           e.op = "settle" => text[id] \in composer' \/ taken[id] > 0 \/ ~Stays(id),
           UNCHANGED <<text, idb, taken>>, composer \subseteq composer', composer' \subseteq Texts,
           live' \in [Ids -> State \cup {None}], \A k \in Ids : live[k] = None => live'[k] = None,
           offer' \subseteq Ids, \A k \in Ids \ {id} : k \notin offer => k \notin offer'
    PROVE  PageInv(T)'
<1>1. /\ idbq \in Seq(Transactions) /\ EntriesComeOnce /\ RetriesSame /\ EveryTextKept(T)
      /\ text \in [Ids -> Texts \cup {None}]
  BY DEF PageInv, PageTypes
<1>2. /\ idbq' \in Seq(Transactions) /\ Moved(0)
      /\ \A i \in Issued(0) : idbq'[i] = e
      /\ \A i \in 1..Len(idbq') : WellFormed(idbq'[i])
  BY AppendMoves DEF PageInv
<1>3. PageTypes'
  BY <1>2 DEF PageInv, PageTypes
<1>4. EntriesComeOnce' /\ RetriesSame'
  <2>1. \A k \in Ids : Free(k) => idb'[k] = None /\ live'[k] = None /\ k \notin offer'
    BY DEF Free
  <2>2. \A i \in Issued(0) : idbq'[i].op \notin {"save", "retry"}
    BY <1>2
  <2>3. \A i \in Issued(0) : \A k \in Ids : idbq'[i].id = k => ~Free(k)
    BY <1>2
  <2> QED BY <1>2, <2>1, <2>2, <2>3, NothingNamed
<1>5. EveryTextKept(T)'
  <2>1. ASSUME NEW u \in Texts, u \in composer PROVE Kept(u)'
    BY <2>1 DEF Kept
  <2>2. ASSUME NEW k \in Ids, NEW u \in Texts, u = text[k], taken[k] > 0 \/ Stays(k)
        PROVE  Kept(u)'
    <3>1. text'[k] = u
      BY <2>2
    <3>2. CASE taken[k] > 0
      BY <2>2, <3>1, <3>2 DEF Kept
    <3>3. CASE Stays(k) /\ ~(e.op = "settle" /\ k = id)
      <4>1. idb[k] # None => idb'[k] # None
        OBVIOUS
      <4>2. \A i \in Issued(0) : ~(idbq'[i].op = "settle" /\ idbq'[i].id = k)
        BY <1>2, <3>3
      <4>3. k \in Ids /\ Stays(k) /\ (0 = 1 => ~(idbq[1].op = "save" /\ idbq[1].id = k))
        BY <2>2, <3>3
      <4>4. Stays(k)'
        BY <1>1, <1>2, <4>1, <4>2, <4>3, StaysKeeps
      <4> QED BY <2>2, <3>1, <4>4 DEF Kept
    <3>4. CASE Stays(k) /\ e.op = "settle" /\ k = id /\ ~(taken[k] > 0)
      <4>1. u \in composer'
        BY <2>2, <3>4
      <4> QED BY <4>1 DEF Kept
    <3> QED BY <2>2, <3>2, <3>3, <3>4
  <2> QED BY <1>1, <2>1, <2>2, KeptKeeps
<1> QED BY <1>3, <1>4, <1>5 DEF PageInv

\* An attempt something is known of has a text.
LEMMA HasText ==
    ASSUME NEW T \in SUBSET Texts, PageInv(T), NEW id \in Ids, ~Free(id)
    PROVE  text[id] \in Texts
BY DEF PageInv, PageTypes, EntriesComeOnce

\* The user edits a rejected prompt: its entry stays until its transaction commits.
LEMMA UserEditKeeps ==
    ASSUME NEW T \in SUBSET Texts, PageInv(T), NEW id \in Ids, UserEdit(id)
    PROVE  PageInv(T)'
<1>1. /\ live[id] = "rejected" /\ idbq' = Append(idbq, Issue("edit", id))
      /\ UNCHANGED <<text, idb, taken, composer, live, offer>>
  BY DEF UserEdit, server
<1>2. ~Free(id)
  BY <1>1, PromptAssumption DEF Free, State
<1>e. PICK e : e = Issue("edit", id)
  OBVIOUS
<1>3. e \in Transactions /\ WellFormed(e) /\ e.op = "edit" /\ e.id = id
  BY <1>e, IssueIs
<1>4. idbq' = Append(idbq, e) /\ e.op \notin {"save", "retry"} /\ e.op # "settle"
  BY <1>1, <1>3, <1>e
<1>5. PageTypes
  BY DEF PageInv
<1>6. composer \subseteq composer' /\ composer' \subseteq Texts /\ live' \in [Ids -> State \cup {None}]
      /\ offer' \subseteq Ids
  BY <1>1, <1>5 DEF PageTypes
<1>7. /\ \A k \in Ids : live[k] = None => live'[k] = None
      /\ \A k \in Ids \ {id} : k \notin offer => k \notin offer'
  BY <1>1
<1> QED BY <1>1, <1>2, <1>3, <1>4, <1>6, <1>7, IssueKeeps

\* restoreFailedDraft: the text is in the composer before its entry goes.
LEMMA RestoreKeeps ==
    ASSUME NEW T \in SUBSET Texts, PageInv(T), NEW id \in Ids, ~Free(id), restoreFailedDraft(id),
           UNCHANGED <<text, idb, live, taken>>, offer' \subseteq offer
    PROVE  PageInv(T)'
<1>1. composer' = composer \cup {text[id]} /\ idbq' = Append(idbq, Issue("settle", id))
  BY DEF restoreFailedDraft
<1>e. PICK e : e = Issue("settle", id)
  OBVIOUS
<1>3. e \in Transactions /\ WellFormed(e) /\ e.op = "settle" /\ e.id = id
  BY <1>e, IssueIs
<1>4. idbq' = Append(idbq, e) /\ e.op \notin {"save", "retry"}
  BY <1>1, <1>3, <1>e
<1>5. PageTypes /\ text[id] \in Texts
  BY HasText DEF PageInv
<1>6. composer \subseteq composer' /\ composer' \subseteq Texts /\ live' \in [Ids -> State \cup {None}]
      /\ offer' \subseteq Ids /\ text[id] \in composer'
  BY <1>1, <1>5 DEF PageTypes
<1>7. /\ \A k \in Ids : live[k] = None => live'[k] = None
      /\ \A k \in Ids \ {id} : k \notin offer => k \notin offer'
  OBVIOUS
<1> QED BY <1>1, <1>3, <1>4, <1>6, <1>7, IssueKeeps

\* The user takes an offer.
LEMMA UserRestoreKeeps ==
    ASSUME NEW T \in SUBSET Texts, PageInv(T), NEW id \in Ids, UserRestore(id)
    PROVE  PageInv(T)'
<1>1. /\ id \in offer /\ offer' \subseteq offer /\ restoreFailedDraft(id)
      /\ UNCHANGED <<text, idb, live, taken>>
  BY DEF UserRestore, server
<1>2. ~Free(id)
  BY <1>1 DEF Free
<1> QED BY <1>1, <1>2, RestoreKeeps


-----------------------------------------------------------------------------
(* Entries are sent: on hello, when the outbox is loaded, when an entry is saved *)

\* What flushOutbox keeps.
LEMMA FlushFacts ==
    ASSUME NEW c, NEW q \in Seq(Transactions), NEW lv \in [Ids -> State \cup {None}], NEW u \in Seq(Ids),
           flushOutbox(c, [live |-> lv, idbq |-> q, up |-> u])
    PROVE  SendsOnly(q, lv)
<1>1. CASE c = "up"
  <2>1. sendPendingPrompt(c, [live |-> lv, idbq |-> q, up |-> u], Ids) /\ Ids \in SUBSET Ids
    BY <1>1 DEF flushOutbox
  <2>2. q \in Seq(Transactions) /\ lv \in [Ids -> State \cup {None}] /\ u \in Seq(Ids)
    OBVIOUS
  <2> QED BY <2>1, <2>2, SendFacts
<1>2. CASE c # "up"
  <2>1. live' = lv /\ idbq' = q /\ up' = u
    BY <1>2 DEF flushOutbox, Becomes
  <2>2. q \in Seq(Transactions) /\ Len(q) \in Nat /\ (Len(q) + 1)..Len(q) = {}
    OBVIOUS
  <2> QED BY <2>1, <2>2 DEF SendsOnly
<1> QED BY <1>1, <1>2

\* What is left of the queue after k commits, and the entries that are sent then.
Sent(k, q, lv) ==
    /\ k = 0 => q = idbq
    /\ k = 1 => idbq # <<>> /\ q = Tail(idbq)
    /\ SendsOnly(q, lv)

\* What sending issues are saves of entries there are.
LEMMA SentMoves ==
    ASSUME PageTypes, NEW k \in {0, 1}, NEW q, NEW lv, Sent(k, q, lv)
    PROVE  /\ idbq' \in Seq(Transactions) /\ Moved(k)
           /\ \A i \in Issued(k) : idbq'[i].op = "put" /\ lv[idbq'[i].id] # None
           /\ \A i \in 1..Len(idbq') : WellFormed(idbq'[i])
<1>1. idbq \in Seq(Transactions) /\ Len(idbq) \in Nat /\ \A i \in 1..Len(idbq) : WellFormed(idbq[i])
  BY DEF PageTypes
<1>2. Len(q) = Len(idbq) - k /\ (\A i \in 1..Len(q) : q[i] = idbq[i + k]) /\ k <= Len(idbq)
  <2>1. CASE k = 0
    BY <1>1, <2>1 DEF Sent
  <2>2. CASE k = 1
    <3>1. idbq # <<>> /\ q = Tail(idbq)
      BY <2>2 DEF Sent
    <3>2. /\ Len(q) = Len(idbq) - 1 /\ Len(idbq) \in Nat \ {0}
          /\ \A i \in 1..(Len(idbq) - 1) : q[i] = idbq[i + 1]
      BY <1>1, <3>1, TakeFacts
    <3> QED BY <2>2, <3>2
  <2> QED BY <2>1, <2>2
<1>3. /\ idbq' \in Seq(Transactions) /\ Len(q) \in Nat /\ Len(idbq') \in Nat /\ Len(q) <= Len(idbq')
      /\ \A i \in 1..Len(q) : idbq'[i] = q[i]
      /\ \A i \in (Len(q) + 1)..Len(idbq') :
          WellFormed(idbq'[i]) /\ idbq'[i].op = "put" /\ lv[idbq'[i].id] # None
  BY DEF Sent, SendsOnly
<1>4. Moved(k)
  BY <1>2, <1>3 DEF Moved
<1>5. Issued(k) = (Len(q) + 1)..Len(idbq')
  BY <1>2 DEF Issued
<1>6. ASSUME NEW i \in 1..Len(idbq') PROVE WellFormed(idbq'[i])
  <2>1. i \in 1..Len(q) \/ i \in (Len(q) + 1)..Len(idbq')
    BY <1>3, <1>6
  <2>2. ASSUME i \in 1..Len(q) PROVE i + k \in 1..Len(idbq) /\ idbq'[i] = idbq[i + k]
    BY <1>1, <1>2, <1>3, <2>2
  <2> QED BY <1>1, <1>3, <2>1, <2>2
<1> QED BY <1>3, <1>4, <1>5, <1>6

\* Sending keeps the page's invariant.
LEMMA SentKeeps ==
    ASSUME NEW T \in SUBSET Texts, PageInv(T), NEW k \in {0, 1}, NEW q, NEW lv, Sent(k, q, lv),
           \A id \in Ids : Free(id) => lv[id] = None,
           k = 1 => idbq[1].op # "save",
           UNCHANGED <<text, idb, composer, taken, offer>>
    PROVE  PageInv(T)'
<1>1. /\ idbq \in Seq(Transactions) /\ EveryTextKept(T) /\ PageTypes
      /\ text \in [Ids -> Texts \cup {None}]
  BY DEF PageInv, PageTypes
<1>2. /\ idbq' \in Seq(Transactions) /\ Moved(k)
      /\ \A i \in Issued(k) : idbq'[i].op = "put" /\ lv[idbq'[i].id] # None
      /\ \A i \in 1..Len(idbq') : WellFormed(idbq'[i])
  BY <1>1, SentMoves
<1>3. live' \in [Ids -> State \cup {None}] /\ \A id \in Ids : lv[id] = None => live'[id] = None
  BY DEF Sent, SendsOnly
<1>4. PageTypes'
  BY <1>1, <1>2, <1>3 DEF PageTypes
<1>5. EntriesComeOnce' /\ RetriesSame'
  <2>1. \A id \in Ids : Free(id) => idb'[id] = None /\ live'[id] = None /\ id \notin offer'
    BY <1>3 DEF Free
  <2>2. \A i \in Issued(k) : idbq'[i].op \notin {"save", "retry"}
    BY <1>2
  <2>3. \A i \in Issued(k) : \A id \in Ids : idbq'[i].id = id => ~Free(id)
    BY <1>2
  <2> QED BY <1>2, <2>1, <2>2, <2>3, NothingNamed
<1>6. EveryTextKept(T)'
  <2>1. ASSUME NEW u \in Texts, u \in composer PROVE Kept(u)'
    BY <2>1 DEF Kept
  <2>2. ASSUME NEW id \in Ids, NEW u \in Texts, u = text[id], taken[id] > 0 \/ Stays(id)
        PROVE  Kept(u)'
    <3>1. text'[id] = u
      BY <2>2
    <3>2. ASSUME Stays(id) PROVE Stays(id)'
      <4>1. idb[id] # None => idb'[id] # None
        OBVIOUS
      <4>2. \A i \in Issued(k) : ~(idbq'[i].op = "settle" /\ idbq'[i].id = id)
        BY <1>2
      <4>3. id \in Ids /\ (k = 1 => ~(idbq[1].op = "save" /\ idbq[1].id = id))
        BY <2>2
      <4> QED BY <1>1, <1>2, <3>2, <4>1, <4>2, <4>3, StaysKeeps
    <3> QED BY <2>2, <3>1, <3>2 DEF Kept
  <2> QED BY <1>1, <2>1, <2>2, KeptKeeps
<1> QED BY <1>4, <1>5, <1>6 DEF PageInv

\* The outbox is loaded and flushed.
LEMMA CommitLoadKeeps ==
    ASSUME NEW T \in SUBSET Texts, PageInv(T), up \in Seq(Ids), idbq # <<>>, CommitLoad, taken' = taken
    PROVE  PageInv(T)' /\ up' \in Seq(Ids)
<1>1. /\ PageTypes /\ idbq \in Seq(Transactions) /\ idb \in [Ids -> State \cup {None}]
      /\ live \in [Ids -> State \cup {None}]
  BY DEF PageInv, PageTypes
<1> DEFINE stored(id) == IF idb[id] = "sending" THEN "queued" ELSE idb[id]
           merged == [id \in Ids |-> IF live[id] # None THEN live[id] ELSE stored(id)]
<1>2. /\ flushOutbox(conn, [live |-> merged, idbq |-> Tail(idbq), up |-> up])
      /\ Head(idbq).op = "load"
      /\ UNCHANGED <<composer, text, idb, offer>>
  BY DEF CommitLoad
<1>3. merged \in [Ids -> State \cup {None}] /\ \A id \in Ids : Free(id) => merged[id] = None
  BY <1>1, PromptAssumption DEF Free, State
<1>4. Tail(idbq) \in Seq(Transactions) /\ Head(idbq) = idbq[1]
  BY <1>1, TakeFacts
<1> HIDE DEF merged
<1>l. PICK lv : lv = merged
  OBVIOUS
<1>q. PICK q : q = Tail(idbq)
  OBVIOUS
<1>c. PICK c : c = conn
  OBVIOUS
<1>u. PICK u : u = up
  OBVIOUS
<1>5. SendsOnly(q, lv)
  <2>1. /\ flushOutbox(c, [live |-> lv, idbq |-> q, up |-> u])
        /\ q \in Seq(Transactions) /\ lv \in [Ids -> State \cup {None}] /\ u \in Seq(Ids)
    BY <1>2, <1>3, <1>4, <1>l, <1>q, <1>c, <1>u
  <2> QED BY <2>1, FlushFacts
<1>6. Sent(1, q, lv)
  BY <1>5, <1>q DEF Sent
<1>7. \A id \in Ids : Free(id) => lv[id] = None
  BY <1>3, <1>l
<1>8. 1 \in {0, 1} /\ (1 = 1 => idbq[1].op # "save")
  BY <1>2, <1>4
<1>9. UNCHANGED <<text, idb, composer, taken, offer>>
  BY <1>2
<1>10. PageInv(T)'
  BY <1>6, <1>7, <1>8, <1>9, SentKeeps
<1> QED BY <1>5, <1>10 DEF SendsOnly


-----------------------------------------------------------------------------
(* Transactions commit *)

\* The transaction committed works on an attempt that has its entry.
LEMMA HeadFacts ==
    ASSUME NEW T \in SUBSET Texts, PageInv(T), idbq # <<>>
    PROVE  /\ Head(idbq) = idbq[1] /\ 1 \in 1..Len(idbq) /\ idbq[1] \in Transactions
           /\ WellFormed(idbq[1])
           /\ idbq[1].op \notin {"save", "load"} => ~Free(idbq[1].id)
<1>1. idbq \in Seq(Transactions) /\ \A i \in 1..Len(idbq) : WellFormed(idbq[i])
  BY DEF PageInv, PageTypes
<1>2. Head(idbq) = idbq[1] /\ 1 \in 1..Len(idbq) /\ idbq[1] \in Transactions
  BY <1>1, TakeFacts
<1>3. ASSUME idbq[1].op \notin {"save", "load"} PROVE ~Free(idbq[1].id)
  BY <1>2, <1>3 DEF Free, Uses
<1> QED BY <1>1, <1>2, <1>3

\* A transaction commits that names no attempt and issues none: an entry that goes was
\* to go, or its text is in the composer.
LEMMA TailKeeps ==
    ASSUME NEW T \in SUBSET Texts, PageInv(T), idbq # <<>>, idbq' = Tail(idbq), idbq[1].op \notin {"save", "retry"},
           UNCHANGED <<text, offer, taken>>, composer \subseteq composer', composer' \subseteq Texts,
           idb' \in [Ids -> State \cup {None}], live' \in [Ids -> State \cup {None}],
           \A id \in Ids : Free(id) => idb'[id] = None /\ live'[id] = None,
           \A id \in Ids : idb[id] # None /\ Stays(id) => idb'[id] # None \/ text[id] \in composer'
    PROVE  PageInv(T)'
<1>1. idbq \in Seq(Transactions) /\ EveryTextKept(T) /\ PageTypes
  BY DEF PageInv, PageTypes
<1>2. /\ idbq' \in Seq(Transactions) /\ Moved(1) /\ Issued(1) = {}
      /\ \A i \in 1..Len(idbq') : WellFormed(idbq'[i])
  BY <1>1, TailMoves
<1>3. PageTypes'
  BY <1>1, <1>2 DEF PageTypes
<1>4. EntriesComeOnce' /\ RetriesSame'
  <2>1. \A id \in Ids : Free(id) => idb'[id] = None /\ live'[id] = None /\ id \notin offer'
    BY DEF Free
  <2>2. \A i \in Issued(1) : idbq'[i].op \notin {"save", "retry"}
    BY <1>2
  <2>3. \A i \in Issued(1) : \A id \in Ids : idbq'[i].id = id => ~Free(id)
    BY <1>2
  <2> QED BY <1>2, <2>1, <2>2, <2>3, NothingNamed
<1>5. EveryTextKept(T)'
  <2>1. ASSUME NEW u \in Texts, u \in composer PROVE Kept(u)'
    BY <2>1 DEF Kept
  <2>2. ASSUME NEW id \in Ids, NEW u \in Texts, u = text[id], taken[id] > 0 \/ Stays(id)
        PROVE  Kept(u)'
    <3>1. text'[id] = u
      BY <2>2
    <3>2. ASSUME Stays(id), idb[id] # None => idb'[id] # None PROVE Stays(id)'
      <4>1. \A i \in Issued(1) : ~(idbq'[i].op = "settle" /\ idbq'[i].id = id)
        BY <1>2
      <4>2. id \in Ids /\ (1 = 1 => ~(idbq[1].op = "save" /\ idbq[1].id = id))
        BY <2>2
      <4> QED BY <1>1, <1>2, <3>2, <4>1, <4>2, StaysKeeps
    <3> QED BY <2>2, <3>1, <3>2 DEF Kept
  <2> QED BY <1>1, <2>1, <2>2, KeptKeeps
<1> QED BY <1>3, <1>4, <1>5 DEF PageInv

\* An entry is saved again.
LEMMA CommitPutKeeps ==
    ASSUME NEW T \in SUBSET Texts, PageInv(T), idbq # <<>>, CommitPut, taken' = taken
    PROVE  PageInv(T)'
<1>1. /\ PageTypes /\ composer \subseteq Texts /\ idb \in [Ids -> State \cup {None}]
      /\ live \in [Ids -> State \cup {None}]
  BY DEF PageInv, PageTypes
<1>2. /\ idbq[1].op = "put" /\ idbq[1].id \in Ids /\ idbq[1].state \in State /\ ~Free(idbq[1].id)
      /\ Head(idbq) = idbq[1]
  BY HeadFacts DEF CommitPut, WellFormed
<1>3. /\ idb' = [idb EXCEPT ![idbq[1].id] = idbq[1].state] /\ idbq' = Tail(idbq)
      /\ UNCHANGED <<composer, text, live, offer>>
  BY <1>2 DEF CommitPut
<1>4. idb' \in [Ids -> State \cup {None}]
  BY <1>1, <1>2, <1>3
<1>5. \A id \in Ids : Free(id) => idb'[id] = None /\ live'[id] = None
  BY <1>1, <1>2, <1>3 DEF Free
<1>6. \A id \in Ids : idb[id] # None /\ Stays(id) => idb'[id] # None \/ text[id] \in composer'
  BY <1>1, <1>2, <1>3, PromptAssumption
<1>7. idbq[1].op \notin {"save", "retry"}
  BY <1>2
<1>8. UNCHANGED <<text, offer, taken>> /\ composer \subseteq composer' /\ composer' \subseteq Texts
      /\ live' \in [Ids -> State \cup {None}]
  BY <1>1, <1>3
<1> QED BY <1>3, <1>4, <1>5, <1>6, <1>7, <1>8, TailKeeps

\* The entry of an attempt goes.
LEMMA EntryGoes ==
    ASSUME NEW T \in SUBSET Texts, PageInv(T), idbq # <<>>, idbq[1].op \in {"settle", "edit"}, idbq' = Tail(idbq),
           idb' = [idb EXCEPT ![idbq[1].id] = None], live' = [live EXCEPT ![idbq[1].id] = None],
           UNCHANGED <<text, offer, taken>>, composer \subseteq composer', composer' \subseteq Texts,
           idbq[1].op = "edit" => text[idbq[1].id] \in composer'
    PROVE  PageInv(T)'
<1>1. /\ PageTypes /\ idb \in [Ids -> State \cup {None}] /\ live \in [Ids -> State \cup {None}]
      /\ EntriesComeOnce
  BY DEF PageInv, PageTypes
<1>2. 1 \in 1..Len(idbq)
  BY HeadFacts
<1>3. idb' \in [Ids -> State \cup {None}] /\ live' \in [Ids -> State \cup {None}]
      /\ \A id \in Ids \ {idbq[1].id} : idb'[id] = idb[id]
  BY <1>1
<1>4. \A id \in Ids : Free(id) => idb'[id] = None /\ live'[id] = None
  BY <1>1 DEF Free
<1>5. ASSUME NEW id \in Ids, id = idbq[1].id, Stays(id), idbq[1].op = "settle" PROVE FALSE
  <2>1. Settling(id)
    BY <1>2, <1>5 DEF Settling
  <2>2. Saving(id)
    BY <1>5, <2>1 DEF Stays
  <2>3. Named(id)
    BY <2>2 DEF Named, Names, Saving
  <2>4. Free(id)
    BY <1>1, <2>3 DEF EntriesComeOnce
  <2>5. Uses(idbq[1], id)
    BY <1>5 DEF Uses
  <2> QED BY <1>2, <2>4, <2>5 DEF Free
<1>6. \A id \in Ids : idb[id] # None /\ Stays(id) => idb'[id] # None \/ text[id] \in composer'
  BY <1>3, <1>5
<1>7. idbq[1].op \notin {"save", "retry"}
  OBVIOUS
<1> QED BY <1>3, <1>4, <1>6, <1>7, TailKeeps

\* A settled entry goes: its text was taken, or is in the composer.
LEMMA CommitSettleKeeps ==
    ASSUME NEW T \in SUBSET Texts, PageInv(T), idbq # <<>>, CommitSettle, taken' = taken
    PROVE  PageInv(T)'
<1>1. idbq[1].op = "settle" /\ Head(idbq) = idbq[1] /\ composer \subseteq Texts
  BY HeadFacts DEF CommitSettle, PageInv, PageTypes
<1>2. /\ idb' = [idb EXCEPT ![idbq[1].id] = None] /\ live' = [live EXCEPT ![idbq[1].id] = None]
      /\ idbq' = Tail(idbq) /\ UNCHANGED <<composer, text, offer>>
  BY <1>1 DEF CommitSettle
<1>3. composer \subseteq composer' /\ composer' \subseteq Texts /\ idbq[1].op \in {"settle", "edit"}
      /\ (idbq[1].op = "edit" => text[idbq[1].id] \in composer')
  BY <1>1, <1>2
<1> QED BY <1>2, <1>3, EntryGoes

\* An entry goes back to the composer.
LEMMA CommitEditKeeps ==
    ASSUME NEW T \in SUBSET Texts, PageInv(T), idbq # <<>>, CommitEdit, taken' = taken
    PROVE  PageInv(T)'
<1>1. idbq[1].op = "edit" /\ Head(idbq) = idbq[1] /\ composer \subseteq Texts
      /\ idbq[1].id \in Ids /\ ~Free(idbq[1].id)
  BY HeadFacts DEF CommitEdit, PageInv, PageTypes, WellFormed
<1>2. /\ idb' = [idb EXCEPT ![idbq[1].id] = None] /\ live' = [live EXCEPT ![idbq[1].id] = None]
      /\ idbq' = Tail(idbq) /\ UNCHANGED <<text, offer>> /\ composer' = composer \cup {text[idbq[1].id]}
  BY <1>1 DEF CommitEdit
<1>3. text[idbq[1].id] \in Texts
  BY <1>1, HasText
<1>4. composer \subseteq composer' /\ composer' \subseteq Texts /\ idbq[1].op \in {"settle", "edit"}
      /\ (idbq[1].op = "edit" => text[idbq[1].id] \in composer')
  BY <1>1, <1>2, <1>3
<1> QED BY <1>2, <1>4, EntryGoes


\* The first entry of an attempt: it stays, since nothing settles the attempt yet.
LEMMA CommitSaveKeeps ==
    ASSUME NEW T \in SUBSET Texts, PageInv(T), up \in Seq(Ids), idbq # <<>>, CommitSave, taken' = taken
    PROVE  PageInv(T)' /\ up' \in Seq(Ids)
<1>1. /\ PageTypes /\ idbq \in Seq(Transactions) /\ idb \in [Ids -> State \cup {None}]
      /\ live \in [Ids -> State \cup {None}] /\ text \in [Ids -> Texts \cup {None}]
      /\ composer \subseteq Texts /\ offer \subseteq Ids
      /\ EntriesComeOnce /\ RetriesSame /\ EveryTextKept(T)
  BY DEF PageInv, PageTypes
<1>i. PICK n : n = idbq[1].id
  OBVIOUS
<1>2. /\ Head(idbq) = idbq[1] /\ 1 \in 1..Len(idbq) /\ idbq[1].op = "save" /\ n \in Ids
      /\ Names(idbq[1], n)
  BY <1>i, HeadFacts DEF CommitSave, WellFormed, Names
<1>3. Named(n) /\ Free(n) /\ NamedOnce(n) /\ text[n] # None
  BY <1>1, <1>2 DEF Named, EntriesComeOnce
<1>l. PICK lv : lv = [live EXCEPT ![n] = "queued"]
  OBVIOUS
<1>q. PICK q : q = Tail(idbq)
  OBVIOUS
<1>c. PICK c : c = conn
  OBVIOUS
<1>u. PICK u : u = up
  OBVIOUS
<1>4. /\ idb' = [idb EXCEPT ![n] = "queued"]
      /\ sendPendingPrompt(c, [live |-> lv, idbq |-> q, up |-> u], {n})
      /\ composer' = composer \ {text[n]}
      /\ UNCHANGED <<text, offer>>
  BY <1>2, <1>i, <1>l, <1>q, <1>c, <1>u DEF CommitSave
<1>5. /\ q \in Seq(Transactions) /\ lv \in [Ids -> State \cup {None}] /\ u \in Seq(Ids)
      /\ {n} \in SUBSET Ids
  <2>1. q \in Seq(Transactions)
    BY <1>1, <1>q, TakeFacts
  <2>2. lv \in [Ids -> State \cup {None}]
    BY <1>1, <1>2, <1>l DEF State
  <2> QED BY <1>2, <1>u, <2>1, <2>2
<1>6. SendsOnly(q, lv)
  BY <1>4, <1>5, SendFacts
<1>7. Sent(1, q, lv) /\ 1 \in {0, 1}
  BY <1>6, <1>q DEF Sent
<1>8. /\ idbq' \in Seq(Transactions) /\ Moved(1)
      /\ \A i \in Issued(1) : idbq'[i].op = "put" /\ lv[idbq'[i].id] # None
      /\ \A i \in 1..Len(idbq') : WellFormed(idbq'[i])
  BY <1>1, <1>7, SentMoves
<1>9. live' \in [Ids -> State \cup {None}] /\ \A id \in Ids : lv[id] = None => live'[id] = None
  BY <1>6 DEF SendsOnly
<1>10. PageTypes'
  <2>1. idb' \in [Ids -> State \cup {None}]
    BY <1>1, <1>4 DEF State
  <2> QED BY <1>1, <1>4, <1>8, <1>9, <2>1 DEF PageTypes
<1>11. \A id \in Ids \ {n} : idb'[id] = idb[id] /\ lv[id] = live[id]
  BY <1>1, <1>4, <1>l
<1>12. EntriesComeOnce'
  <2>1. \A id \in Ids \ {n} :
              /\ text'[id] = text[id]
              /\ Free(id) => idb'[id] = None /\ live'[id] = None /\ id \notin offer'
              /\ \A i \in Issued(1) : ~Names(idbq'[i], id) /\ (Uses(idbq'[i], id) => ~Free(id))
    <3>1. ASSUME NEW id \in Ids \ {n}
          PROVE  /\ text'[id] = text[id]
                 /\ Free(id) => idb'[id] = None /\ live'[id] = None /\ id \notin offer'
      BY <1>4, <1>9, <1>11, <3>1 DEF Free
    <3>2. ASSUME NEW id \in Ids \ {n}, NEW i \in Issued(1)
          PROVE  ~Names(idbq'[i], id) /\ (Uses(idbq'[i], id) => ~Free(id))
      BY <1>8, <1>11, <3>2 DEF Names, Uses, Free
    <3> QED BY <3>1, <3>2
  <2>2. text'[n] # None
    BY <1>3, <1>4
  <2>3. ~Named(n)'
    <3>1. ASSUME NEW i \in 1..Len(idbq'), Names(idbq'[i], n) PROVE FALSE
      <4>1. i \in Issued(1)
        BY <1>1, <1>2, <1>3, <1>8, <3>1, HeadNames
      <4> QED BY <1>8, <3>1, <4>1 DEF Names
    <3> QED BY <3>1 DEF Named
  <2> QED BY <1>1, <1>8, <2>1, <2>2, <2>3, EntriesKeep
<1>13. RetriesSame'
  <2>1. \A i \in Issued(1) : idbq'[i].op # "retry"
    BY <1>8
  <2>2. text' = text
    BY <1>4
  <2> QED BY <1>1, <1>8, <2>1, <2>2, RetriesKeep
<1>14. Stays(n)'
  <2>1. idb'[n] # None
    BY <1>1, <1>2, <1>4, PromptAssumption DEF State
  <2>2. ASSUME NEW i \in 1..Len(idbq'), idbq'[i].op = "settle", idbq'[i].id = n PROVE FALSE
    <3>1. \/ i \in Issued(1)
          \/ i + 1 \in 1..Len(idbq) /\ idbq'[i] = idbq[i + 1]
      BY <1>1, <1>8, <2>2, MovedFacts
    <3>2. ASSUME i + 1 \in 1..Len(idbq), idbq'[i] = idbq[i + 1] PROVE Uses(idbq[i + 1], n)
      BY <2>2, <3>2 DEF Uses
    <3> QED BY <1>3, <1>8, <2>2, <3>1, <3>2 DEF Free
  <2> QED BY <2>1, <2>2 DEF Stays, Settling
<1>15. EveryTextKept(T)'
  <2>0. ASSUME NEW v \in Texts, v = text[n] PROVE Kept(v)'
    BY <1>2, <1>4, <1>14, <2>0 DEF Kept
  <2>1. ASSUME NEW v \in Texts, v \in composer PROVE Kept(v)'
    BY <1>4, <2>0, <2>1 DEF Kept
  <2>2. ASSUME NEW id \in Ids, NEW v \in Texts, v = text[id], taken[id] > 0 \/ Stays(id)
        PROVE  Kept(v)'
    <3>1. CASE id = n
      BY <2>0, <2>2, <3>1
    <3>2. CASE id # n
      <4>1. text'[id] = v
        BY <1>4, <2>2
      <4>2. ASSUME Stays(id) PROVE Stays(id)'
        <5>1. \A i \in Issued(1) : ~(idbq'[i].op = "settle" /\ idbq'[i].id = id)
          BY <1>8
        <5>2. id \in Ids /\ (1 = 1 => ~(idbq[1].op = "save" /\ idbq[1].id = id))
          BY <1>i, <2>2, <3>2
        <5>3. idb[id] # None => idb'[id] # None
          BY <1>11, <2>2, <3>2
        <5> QED BY <1>1, <1>8, <4>2, <5>1, <5>2, <5>3, StaysKeeps
      <4> QED BY <2>2, <4>1, <4>2 DEF Kept
    <3> QED BY <3>1, <3>2
  <2> QED BY <1>1, <2>1, <2>2, KeptKeeps
<1> QED BY <1>6, <1>10, <1>12, <1>13, <1>15 DEF PageInv, SendsOnly

\* The old entry of a retry goes; the save of the new one is issued in its stead.
LEMMA CommitRetryKeeps ==
    ASSUME NEW T \in SUBSET Texts, PageInv(T), idbq # <<>>, CommitRetry, taken' = taken
    PROVE  PageInv(T)'
<1>1. /\ PageTypes /\ idbq \in Seq(Transactions) /\ idb \in [Ids -> State \cup {None}]
      /\ live \in [Ids -> State \cup {None}] /\ text \in [Ids -> Texts \cup {None}]
      /\ EntriesComeOnce /\ RetriesSame /\ EveryTextKept(T)
  BY DEF PageInv, PageTypes
<1>i. PICK old, n : old = idbq[1].id /\ n = idbq[1].new
  OBVIOUS
<1>2. /\ Head(idbq) = idbq[1] /\ 1 \in 1..Len(idbq) /\ idbq[1].op = "retry" /\ n \in Ids /\ old \in Ids
      /\ Names(idbq[1], n) /\ text[n] = text[old]
  BY <1>1, <1>i, HeadFacts DEF CommitRetry, WellFormed, Names, RetriesSame
<1>3. Named(n) /\ Free(n) /\ NamedOnce(n) /\ text[n] # None
  BY <1>1, <1>2 DEF Named, EntriesComeOnce
<1>e. PICK e : e = Issue("save", n)
  OBVIOUS
<1>4. e \in Transactions /\ WellFormed(e) /\ e.op = "save" /\ e.id = n /\ e.new = None
  BY <1>2, <1>e, IssueIs
<1>5. /\ idb' = [idb EXCEPT ![old] = None] /\ live' = [live EXCEPT ![old] = None]
      /\ idbq' = Append(Tail(idbq), e) /\ UNCHANGED <<composer, text, offer>>
  BY <1>2, <1>i, <1>e DEF CommitRetry
<1>6. /\ idbq' \in Seq(Transactions) /\ Moved(1)
      /\ \A i \in Issued(1) : idbq'[i] = e
      /\ \A i \in 1..Len(idbq') : WellFormed(idbq'[i])
      /\ Len(idbq') \in 1..Len(idbq') /\ idbq'[Len(idbq')] = e
  BY <1>1, <1>4, <1>5, TailAppendMoves
<1>7. PageTypes'
  BY <1>1, <1>5, <1>6 DEF PageTypes
<1>8. EntriesComeOnce'
  <2>1. \A id \in Ids \ {n} :
              /\ text'[id] = text[id]
              /\ Free(id) => idb'[id] = None /\ live'[id] = None /\ id \notin offer'
              /\ \A i \in Issued(1) : ~Names(idbq'[i], id) /\ (Uses(idbq'[i], id) => ~Free(id))
    <3>1. ASSUME NEW id \in Ids \ {n}
          PROVE  /\ text'[id] = text[id]
                 /\ Free(id) => idb'[id] = None /\ live'[id] = None /\ id \notin offer'
      BY <1>1, <1>5, <3>1 DEF Free
    <3>2. ASSUME NEW id \in Ids \ {n}, NEW i \in Issued(1)
          PROVE  ~Names(idbq'[i], id) /\ (Uses(idbq'[i], id) => ~Free(id))
      BY <1>4, <1>6, <3>2 DEF Names, Uses, Free
    <3> QED BY <3>1, <3>2
  <2>2. Free(n)'
    <3>1. idb'[n] = None /\ live'[n] = None /\ n \notin offer'
      BY <1>1, <1>2, <1>3, <1>5 DEF Free
    <3>2. \A i \in Issued(1) : ~Uses(idbq'[i], n)
      BY <1>4, <1>6 DEF Uses
    <3> QED BY <1>1, <1>2, <1>3, <1>6, <3>1, <3>2, FreeStays
  <2>3. NamedOnce(n)'
    <3>1. ASSUME NEW i \in 1..Len(idbq'), Names(idbq'[i], n) PROVE i = Len(idbq')
      <4>1. i \in Issued(1)
        BY <1>1, <1>2, <1>3, <1>6, <3>1, HeadNames
      <4>2. Len(idbq') = Len(idbq) /\ Len(idbq) \in Nat
        BY <1>1, <1>5
      <4> QED BY <4>1, <4>2 DEF Issued
    <3> QED BY <3>1 DEF NamedOnce
  <2>4. text'[n] # None
    BY <1>3, <1>5
  <2> QED BY <1>1, <1>6, <2>1, <2>2, <2>3, <2>4, EntriesKeep
<1>9. RetriesSame'
  <2>1. \A i \in Issued(1) : idbq'[i].op # "retry"
    BY <1>4, <1>6
  <2>2. text' = text
    BY <1>5
  <2> QED BY <1>1, <1>6, <2>1, <2>2, RetriesKeep
<1>10. Saving(n)'
  BY <1>4, <1>6 DEF Saving
<1>11. EveryTextKept(T)'
  <2>0. ASSUME NEW v \in Texts, v = text[n] PROVE Kept(v)'
    BY <1>2, <1>5, <1>10, <2>0 DEF Kept, Stays
  <2>1. ASSUME NEW v \in Texts, v \in composer PROVE Kept(v)'
    BY <1>5, <2>1 DEF Kept
  <2>2. ASSUME NEW id \in Ids, NEW v \in Texts, v = text[id], taken[id] > 0 \/ Stays(id)
        PROVE  Kept(v)'
    <3>1. CASE id = old
      BY <1>2, <2>0, <2>2, <3>1
    <3>2. CASE id # old
      <4>1. text'[id] = v
        BY <1>5, <2>2
      <4>2. ASSUME Stays(id) PROVE Stays(id)'
        <5>1. \A i \in Issued(1) : ~(idbq'[i].op = "settle" /\ idbq'[i].id = id)
          BY <1>4, <1>6
        <5>2. id \in Ids /\ (1 = 1 => ~(idbq[1].op = "save" /\ idbq[1].id = id))
          BY <1>2, <2>2
        <5>3. idb[id] # None => idb'[id] # None
          BY <1>1, <1>5, <2>2, <3>2
        <5> QED BY <1>1, <1>6, <4>2, <5>1, <5>2, <5>3, StaysKeeps
      <4> QED BY <2>2, <4>1, <4>2 DEF Kept
    <3> QED BY <3>1, <3>2
  <2> QED BY <1>1, <2>1, <2>2, KeptKeeps
<1> QED BY <1>7, <1>8, <1>9, <1>11 DEF PageInv


-----------------------------------------------------------------------------
(* Messages of the server, the page going away, steps elsewhere *)

\* The server greets the page.
LEMMA OnHelloKeeps ==
    ASSUME NEW T \in SUBSET Texts, PageInv(T), up \in Seq(Ids), OnHello, taken' = taken
    PROVE  PageInv(T)' /\ up' \in Seq(Ids)
<1>1. /\ PageTypes /\ idbq \in Seq(Transactions) /\ live \in [Ids -> State \cup {None}]
      /\ composer \subseteq Texts /\ offer \subseteq Ids
      /\ EntriesComeOnce /\ RetriesSame /\ EveryTextKept(T)
  BY DEF PageInv, PageTypes
<1>2. UNCHANGED <<composer, text, idb, offer>>
  BY DEF OnHello
<1>3. CASE hydrated
  <2>l. PICK lv : lv = live
    OBVIOUS
  <2>q. PICK q : q = idbq
    OBVIOUS
  <2>u. PICK u : u = up
    OBVIOUS
  <2>1. /\ flushOutbox("up", [live |-> lv, idbq |-> q, up |-> u])
        /\ q \in Seq(Transactions) /\ lv \in [Ids -> State \cup {None}] /\ u \in Seq(Ids)
    BY <1>1, <1>3, <2>l, <2>q, <2>u DEF OnHello, Outbox
  <2>2. SendsOnly(q, lv)
    BY <2>1, FlushFacts
  <2>3. Sent(0, q, lv) /\ 0 \in {0, 1} /\ (0 = 1 => idbq[1].op # "save")
    BY <2>2, <2>q DEF Sent
  <2>4. \A id \in Ids : Free(id) => lv[id] = None
    BY <2>l DEF Free
  <2>5. PageInv(T)'
    BY <1>2, <2>3, <2>4, SentKeeps
  <2> QED BY <2>2, <2>5 DEF SendsOnly
<1>4. CASE ~hydrated
  <2>e. PICK e : e = Issue("load", None)
    OBVIOUS
  <2>1. e \in Transactions /\ WellFormed(e) /\ e.op = "load" /\ e.id = None
    BY <2>e DEF Issue, Transactions, WellFormed
  <2>2. idbq' = Append(idbq, e) /\ live' = live
    BY <1>4, <2>e DEF OnHello
  <2>3. /\ idbq' \in Seq(Transactions) /\ Moved(0)
        /\ \A i \in Issued(0) : idbq'[i] = e
        /\ \A i \in 1..Len(idbq') : WellFormed(idbq'[i])
    BY <1>1, <2>1, <2>2, AppendMoves
  <2>4. PageTypes'
    BY <1>1, <1>2, <2>2, <2>3 DEF PageTypes
  <2>5. EntriesComeOnce' /\ RetriesSame'
    <3>1. \A k \in Ids : Free(k) => idb'[k] = None /\ live'[k] = None /\ k \notin offer'
      BY <1>2, <2>2 DEF Free
    <3>2. \A i \in Issued(0) : idbq'[i].op \notin {"save", "retry"}
      BY <2>1, <2>3
    <3>3. \A i \in Issued(0) : \A k \in Ids : idbq'[i].id = k => ~Free(k)
      BY <2>1, <2>3, PromptAssumption
    <3> QED BY <1>2, <2>3, <3>1, <3>2, <3>3, NothingNamed
  <2>6. EveryTextKept(T)'
    <3>1. ASSUME NEW v \in Texts, v \in composer PROVE Kept(v)'
      BY <1>2, <3>1 DEF Kept
    <3>2. ASSUME NEW id \in Ids, NEW v \in Texts, v = text[id], taken[id] > 0 \/ Stays(id)
          PROVE  Kept(v)'
      <4>1. text'[id] = v
        BY <1>2, <3>2
      <4>2. ASSUME Stays(id) PROVE Stays(id)'
        <5>1. \A i \in Issued(0) : ~(idbq'[i].op = "settle" /\ idbq'[i].id = id)
          BY <2>1, <2>3
        <5>2. id \in Ids /\ (0 = 1 => ~(idbq[1].op = "save" /\ idbq[1].id = id))
          BY <3>2
        <5>3. idb[id] # None => idb'[id] # None
          BY <1>2
        <5> QED BY <1>1, <2>3, <4>2, <5>1, <5>2, <5>3, StaysKeeps
      <4> QED BY <3>2, <4>1, <4>2 DEF Kept
    <3> QED BY <1>1, <3>1, <3>2, KeptKeeps
  <2>7. up' = up
    BY <1>4 DEF OnHello
  <2> QED BY <2>4, <2>5, <2>6, <2>7 DEF PageInv
<1> QED BY <1>3, <1>4

\* A page where nothing changes, and a daemon that only takes more.
LEMMA PageStays ==
    ASSUME NEW T \in SUBSET Texts, PageInv(T), UNCHANGED page, \A id \in Ids : taken[id] > 0 => taken'[id] > 0
    PROVE  PageInv(T)'
<1>1. UNCHANGED <<composer, text, idb, idbq, live, offer>>
  BY DEF page
<1>2. PageTypes'
  BY <1>1 DEF PageInv, PageTypes
<1>3. EntriesComeOnce' /\ RetriesSame'
  BY <1>1 DEF PageInv, EntriesComeOnce, RetriesSame, Free, Named, NamedOnce
<1>4. EveryTextKept(T)'
  <2>1. EveryTextKept(T)
    BY DEF PageInv
  <2>2. ASSUME NEW v \in Texts, v \in composer PROVE Kept(v)'
    BY <1>1, <2>2 DEF Kept
  <2>3. ASSUME NEW id \in Ids, NEW v \in Texts, v = text[id], taken[id] > 0 \/ Stays(id)
        PROVE  Kept(v)'
    <3>1. Stays(id) => Stays(id)'
      BY <1>1 DEF Stays, Saving, Settling
    <3>2. text'[id] = v
      BY <1>1, <2>3
    <3> QED BY <2>3, <3>1, <3>2 DEF Kept
  <2> QED BY <2>1, <2>2, <2>3, KeptKeeps
<1> QED BY <1>2, <1>3, <1>4 DEF PageInv

\* A verdict that says the daemon took the prompt.
LEMMA OnAcceptedKeeps ==
    ASSUME NEW T \in SUBSET Texts, PageInv(T), WireTypes, AcceptedWasTaken, OnAccepted
    PROVE  PageInv(T)'
<1>1. /\ PageTypes /\ live \in [Ids -> State \cup {None}]
      /\ composer \subseteq Texts /\ offer \subseteq Ids
  BY DEF PageInv, PageTypes
<1>i. PICK id : id = Head(down).id
  OBVIOUS
<1>2. /\ UNCHANGED <<composer, text, idb, live, offer, taken, hydrated>>
      /\ idbq' = IF live[id] = None THEN idbq ELSE Append(idbq, Issue("settle", id))
      /\ down # <<>> /\ Head(down).type = "promptResult" /\ Head(down).accepted
  BY <1>i DEF OnAccepted, Receives, server
<1>3. id \in Ids /\ taken[id] > 0
  <2>1. down \in Seq(Messages) /\ \A i \in 1..Len(down) : down[i].type = "promptResult" => down[i].id \in Ids
    BY DEF WireTypes
  <2>2. Head(down) = down[1] /\ 1 \in 1..Len(down)
    BY <1>2, <2>1, TakeFacts
  <2> QED BY <1>2, <1>i, <2>1, <2>2 DEF AcceptedWasTaken
<1>4. CASE live[id] = None
  <2>1. UNCHANGED page
    BY <1>2, <1>4 DEF page
  <2> QED BY <1>2, <2>1, PageStays
<1>5. CASE live[id] # None
  <2>e. PICK e : e = Issue("settle", id)
    OBVIOUS
  <2>1. e \in Transactions /\ WellFormed(e) /\ e.op = "settle" /\ e.id = id
    BY <1>3, <2>e, IssueIs
  <2>2. idbq' = Append(idbq, e) /\ e.op \notin {"save", "retry"} /\ ~Free(id)
    BY <1>2, <1>5, <2>1, <2>e DEF Free
  <2>3. composer \subseteq composer' /\ composer' \subseteq Texts /\ live' \in [Ids -> State \cup {None}]
        /\ offer' \subseteq Ids /\ UNCHANGED <<text, idb, taken>>
    BY <1>1, <1>2
  <2>4. /\ \A k \in Ids : live[k] = None => live'[k] = None
        /\ \A k \in Ids \ {id} : k \notin offer => k \notin offer'
    BY <1>2
  <2> QED BY <1>3, <2>1, <2>2, <2>3, <2>4, IssueKeeps
<1> QED BY <1>4, <1>5

\* A refusal: the entry stays.
LEMMA OnRejectedKeeps ==
    ASSUME NEW T \in SUBSET Texts, PageInv(T), WireTypes, OnRejected
    PROVE  PageInv(T)'
<1>1. /\ PageTypes /\ live \in [Ids -> State \cup {None}]
      /\ composer \subseteq Texts /\ offer \subseteq Ids
  BY DEF PageInv, PageTypes
<1>i. PICK id : id = Head(down).id
  OBVIOUS
<1>2. /\ UNCHANGED <<composer, text, idb, taken, hydrated>>
      /\ IF live[id] = None THEN UNCHANGED <<live, idbq, offer>>
           ELSE /\ live' = [live EXCEPT ![id] = "rejected"]
                /\ idbq' = Append(idbq, Put(id, "rejected"))
                /\ offer' = IF text[id] \in Creates THEN offer \cup {id} ELSE offer
      /\ down # <<>> /\ Head(down).type = "promptResult"
  BY <1>i DEF OnRejected, Receives, server
<1>3. id \in Ids
  <2>1. down \in Seq(Messages) /\ \A i \in 1..Len(down) : down[i].type = "promptResult" => down[i].id \in Ids
    BY DEF WireTypes
  <2>2. Head(down) = down[1] /\ 1 \in 1..Len(down)
    BY <1>2, <2>1, TakeFacts
  <2> QED BY <1>2, <1>i, <2>1, <2>2
<1>4. CASE live[id] = None
  <2>1. UNCHANGED page
    BY <1>2, <1>4 DEF page
  <2> QED BY <1>2, <2>1, PageStays
<1>5. CASE live[id] # None
  <2>e. PICK e : e = Put(id, "rejected")
    OBVIOUS
  <2>1. e \in Transactions /\ WellFormed(e) /\ e.op = "put" /\ e.id = id
    <3>1. "rejected" \in State
      BY DEF State
    <3> QED BY <1>3, <2>e, <3>1, PutIs
  <2>2. idbq' = Append(idbq, e) /\ e.op \notin {"save", "retry"} /\ ~Free(id) /\ e.op # "settle"
    BY <1>2, <1>5, <2>1, <2>e DEF Free
  <2>3. /\ live' = [live EXCEPT ![id] = "rejected"]
        /\ offer' = IF text[id] \in Creates THEN offer \cup {id} ELSE offer
    BY <1>2, <1>5
  <2>4. composer \subseteq composer' /\ composer' \subseteq Texts /\ live' \in [Ids -> State \cup {None}]
        /\ offer' \subseteq Ids /\ UNCHANGED <<text, idb, taken>>
    BY <1>1, <1>2, <1>3, <2>3 DEF State
  <2>5. /\ \A k \in Ids : live[k] = None => live'[k] = None
        /\ \A k \in Ids \ {id} : k \notin offer => k \notin offer'
    BY <1>1, <1>5, <2>3
  <2> QED BY <1>3, <2>1, <2>2, <2>4, <2>5, IssueKeeps
<1> QED BY <1>4, <1>5

\* A session that could not be created.
LEMMA OnCreateFailedKeeps ==
    ASSUME NEW T \in SUBSET Texts, PageInv(T), WireTypes, OnCreateFailed
    PROVE  PageInv(T)'
<1>i. PICK id : id = Head(down).id
  OBVIOUS
<1>1. /\ down # <<>> /\ Head(down).type = "promptResult" /\ live[id] # None
      /\ restoreFailedDraft(id) /\ UNCHANGED <<text, idb, live, taken>> /\ offer' \subseteq offer
  BY <1>i DEF OnCreateFailed, Receives, server
<1>2. id \in Ids
  <2>1. down \in Seq(Messages) /\ \A i \in 1..Len(down) : down[i].type = "promptResult" => down[i].id \in Ids
    BY DEF WireTypes
  <2>2. Head(down) = down[1] /\ 1 \in 1..Len(down)
    BY <1>1, <2>1, TakeFacts
  <2> QED BY <1>1, <1>i, <2>1, <2>2
<1>3. ~Free(id)
  BY <1>1 DEF Free
<1> QED BY <1>1, <1>2, <1>3, RestoreKeeps

\* The page goes away: what was saved stays, what was in the composer too.
LEMMA ReloadKeeps ==
    ASSUME NEW T \in SUBSET Texts, PageInv(T), Reload, T = {} \/ ~CutsRetry
    PROVE  PageInv(T)'
<1>1. /\ PageTypes /\ idbq \in Seq(Transactions) /\ text \in [Ids -> Texts \cup {None}]
      /\ EntriesComeOnce /\ RetriesSame /\ EveryTextKept(T)
      /\ \A i \in 1..Len(idbq) : WellFormed(idbq[i])
  BY DEF PageInv, PageTypes
<1>2. /\ idbq' = <<>> /\ live' = [id \in Ids |-> None] /\ offer' = {}
      /\ UNCHANGED <<composer, text, idb, taken>>
  BY DEF Reload, server
<1>3. idbq' \in Seq(Transactions) /\ 1..Len(idbq') = {}
  BY <1>2
<1>4. PageTypes'
  BY <1>1, <1>2, <1>3 DEF PageTypes
<1>5. EntriesComeOnce'
  <2>1. \A id \in Ids : ~Named(id)'
    BY <1>3 DEF Named
  <2>2. ASSUME NEW id \in Ids, text'[id] = None PROVE Free(id)'
    <3>1. idb[id] = None
      BY <1>1, <1>2, <2>2 DEF EntriesComeOnce, Free
    <3> QED BY <1>2, <1>3, <3>1 DEF Free
  <2> QED BY <2>1, <2>2 DEF EntriesComeOnce
<1>6. RetriesSame'
  BY <1>3 DEF RetriesSame
<1>7. CASE T = {}
  BY <1>4, <1>5, <1>6, <1>7 DEF PageInv, EveryTextKept
<1>8. CASE ~CutsRetry
  <2>0. EveryTextKept(T)'
    <3>1. ASSUME NEW v \in Texts, v \in composer PROVE Kept(v)'
      BY <1>2, <3>1 DEF Kept
    <3>2. ASSUME NEW id \in Ids, NEW v \in Texts, v = text[id], taken[id] > 0 \/ Stays(id)
          PROVE  Kept(v)'
      <4>1. text'[id] = v
        BY <1>2, <3>2
      <4>2. CASE taken[id] > 0
        BY <1>2, <3>2, <4>1, <4>2 DEF Kept
      <4>3. CASE idb[id] # None
        <5>1. Stays(id)'
          BY <1>2, <1>3, <4>3 DEF Stays, Settling
        <5> QED BY <3>2, <4>1, <5>1 DEF Kept
      <4>4. CASE Saving(id)
        <5>1. PICK i \in 1..Len(idbq) : idbq[i].op = "save" /\ idbq[i].id = id
          BY <4>4 DEF Saving
        <5>2. text[id] \in composer
          BY <1>8, <5>1 DEF CutsRetry
        <5>3. v \in composer'
          BY <1>2, <3>2, <5>2
        <5> QED BY <5>3 DEF Kept
      <4> QED BY <3>2, <4>2, <4>3, <4>4 DEF Stays
    <3> QED BY <1>1, <3>1, <3>2, KeptKeeps
  <2> QED BY <1>4, <1>5, <1>6, <2>0 DEF PageInv
<1> QED BY <1>7, <1>8


-----------------------------------------------------------------------------
(* The wire, the hub and the daemon *)

\* The half of the invariant that is about the socket, the hub and the daemon.
WireInv == WireTypes /\ AcceptedWasTaken

\* Verdicts in flight, and the queue of operations.
GoodDown ==
    /\ down \in Seq(Messages)
    /\ \A i \in 1..Len(down) : down[i].type = "promptResult" =>
          down[i].id \in Ids /\ (down[i].accepted => taken[down[i].id] > 0)

\* ... and so are what the hub has queued, runs and remembers.
GoodHub ==
    /\ ops \in Seq(Prompts)
    /\ running \in [op : Prompts, outcome : AllOutcomes] \cup {None}
    /\ ledger \in Seq(Results)
    /\ taken \in [Ids -> Nat]
    /\ \A i \in 1..Len(ledger) : ledger[i].accepted => taken[ledger[i].id] > 0
    /\ running # None /\ running.outcome = "accepted" => taken[running.op.id] > 0

\* WireInv in its parts: what is on its way to the page, and what the hub knows.
LEMMA WireParts ==
    ASSUME WireInv
    PROVE  regime \in Regimes /\ key \in Nat /\ up \in Seq(Ids) /\ GoodDown /\ GoodHub
<1>1. GoodDown
  BY DEF WireInv, WireTypes, AcceptedWasTaken, GoodDown
<1>2. GoodHub
  BY DEF WireInv, WireTypes, AcceptedWasTaken, GoodHub
<1> QED BY <1>1, <1>2 DEF WireInv, WireTypes

\* ... and together again.
LEMMA WireJoins ==
    ASSUME regime' \in Regimes, key' \in Nat, up' \in Seq(Ids), GoodDown', GoodHub'
    PROVE  WireInv'
<1>1. WireTypes'
  BY DEF WireTypes, GoodDown, GoodHub
<1>2. AcceptedWasTaken'
  BY DEF AcceptedWasTaken, GoodDown, GoodHub
<1> QED BY <1>1, <1>2 DEF WireInv

\* A step that leaves the hub alone.
LEMMA HubStays ==
    ASSUME GoodHub, UNCHANGED server
    PROVE  GoodHub'
BY DEF GoodHub, server

\* A lost socket carries nothing.
LEMMA HangsUp ==
    ASSUME Hangup
    PROVE  GoodDown' /\ up' \in Seq(Ids)
<1>1. up' = <<>> /\ down' = <<>>
  BY DEF Hangup
<1>2. <<>> \in Seq(Ids) /\ <<>> \in Seq(Messages) /\ 1..Len(<<>>) = {}
  OBVIOUS
<1> QED BY <1>1, <1>2 DEF GoodDown

\* One message less is under way.
LEMMA ReceivesKeeps ==
    ASSUME GoodDown, NEW type, Receives(type), UNCHANGED taken
    PROVE  GoodDown'
<1>1. down # <<>> /\ down' = Tail(down) /\ down \in Seq(Messages)
  BY DEF Receives, GoodDown
<1>2. /\ down' \in Seq(Messages) /\ Len(down') = Len(down) - 1 /\ Len(down) \in Nat \ {0}
      /\ \A i \in 1..(Len(down) - 1) : down'[i] = down[i + 1]
  BY <1>1, TakeFacts
<1>3. \A i \in 1..Len(down') : i + 1 \in 1..Len(down) /\ down'[i] = down[i + 1]
  BY <1>2
<1> QED BY <1>2, <1>3 DEF GoodDown

\* A verdict that is right is sent, or dropped.
LEMMA SendsKeeps ==
    ASSUME GoodDown, NEW k, NEW msg \in Results, msg.accepted => taken[msg.id] > 0,
           UNCHANGED taken, Sends(k, msg)
    PROVE  GoodDown'
<1>1. CASE down' = down
  BY <1>1 DEF GoodDown
<1>2. CASE down' = Append(down, msg)
  <2>1. down \in Seq(Messages) /\ msg \in Messages /\ msg.id \in Ids
    BY DEF GoodDown, Results, Messages
  <2>2. /\ down' \in Seq(Messages) /\ Len(down') = Len(down) + 1 /\ Len(down) \in Nat
        /\ \A i \in 1..Len(down) : down'[i] = down[i]
        /\ down'[Len(down) + 1] = msg
    BY <1>2, <2>1, AppendFacts
  <2>3. \A i \in 1..Len(down') : i \in 1..Len(down) \/ i = Len(down) + 1
    BY <2>2
  <2>4. \A i \in 1..Len(down') : down'[i].type = "promptResult" =>
          down'[i].id \in Ids /\ (down'[i].accepted => taken'[down'[i].id] > 0)
    BY <2>1, <2>2, <2>3 DEF GoodDown
  <2> QED BY <2>2, <2>4 DEF GoodDown
<1> QED BY <1>1, <1>2 DEF Sends

\* The ledger holds what it held and the new result, or less.
LEMMA CacheFacts ==
    ASSUME ledger \in Seq(Results), NEW r \in Results, cache_prompt_result(r)
    PROVE  /\ ledger' \in Seq(Results)
           /\ \A i \in 1..Len(ledger') : ledger'[i] = r \/ \E j \in 1..Len(ledger) : ledger'[i] = ledger[j]
<1>l. PICK l : l = ledger
  OBVIOUS
<1>1. l \in Seq(Results) /\ Len(l) \in Nat /\ DOMAIN l = 1..Len(l)
  BY <1>l
<1>2. PICK S : S = {i \in DOMAIN l : l[i].id # r.id}
  OBVIOUS
<1>3. PICK others \in InOrder({i \in DOMAIN ledger : ledger[i].id # r.id}) :
        LET kept == Append([i \in DOMAIN others |-> ledger[others[i]]], r)
        IN  ledger' = IF Len(kept) > LedgerCap THEN Tail(kept) ELSE kept
  BY DEF cache_prompt_result
<1>4. others \in Seq(S) /\ Len(others) \in Nat /\ DOMAIN others = 1..Len(others)
      /\ \A i \in 1..Len(others) : others[i] \in S
  <2>1. S \in SUBSET (1..Len(l)) /\ others \in InOrder(S)
    BY <1>1, <1>2, <1>3, <1>l
  <2> QED BY <1>1, <2>1, InOrderFacts
<1>5. PICK rest : rest = [i \in DOMAIN others |-> l[others[i]]]
  OBVIOUS
<1>6. /\ rest \in Seq(Results) /\ Len(rest) = Len(others) /\ Len(rest) \in Nat
      /\ \A i \in 1..Len(rest) : \E j \in 1..Len(l) : rest[i] = l[j]
  <2>1. \A i \in 1..Len(others) : others[i] \in 1..Len(l) /\ l[others[i]] \in Results
    BY <1>1, <1>2, <1>4
  <2>2. rest \in [1..Len(others) -> Results]
    BY <1>4, <1>5, <2>1
  <2>3. rest \in Seq(Results) /\ Len(rest) = Len(others)
    BY <1>4, <2>2
  <2> QED BY <1>4, <1>5, <2>1, <2>3
<1>7. PICK kept : kept = Append(rest, r)
  OBVIOUS
<1>8. /\ kept \in Seq(Results) /\ Len(kept) = Len(rest) + 1
      /\ \A i \in 1..Len(rest) : kept[i] = rest[i]
      /\ kept[Len(rest) + 1] = r
  <2>1. rest \in Seq(Results) /\ r \in Results
    BY <1>6
  <2> QED BY <1>7, <2>1, AppendFacts
<1>9. \A i \in 1..Len(kept) : kept[i] = r \/ \E j \in 1..Len(l) : kept[i] = l[j]
  <2>1. \A i \in 1..Len(kept) : i \in 1..Len(rest) \/ i = Len(rest) + 1
    BY <1>6, <1>8
  <2> QED BY <1>6, <1>8, <2>1
<1>10. ledger' = kept \/ ledger' = Tail(kept)
  BY <1>3, <1>5, <1>7, <1>l
<1>11. CASE ledger' = kept
  BY <1>8, <1>9, <1>11, <1>l
<1>12. CASE ledger' = Tail(kept)
  <2>1. kept \in Seq(Results) /\ kept # <<>>
    BY <1>6, <1>8
  <2>2. /\ Tail(kept) \in Seq(Results) /\ Len(Tail(kept)) = Len(kept) - 1 /\ Len(kept) \in Nat \ {0}
        /\ \A i \in 1..(Len(kept) - 1) : Tail(kept)[i] = kept[i + 1]
    BY <2>1, TakeFacts
  <2>3. \A i \in 1..Len(ledger') : i + 1 \in 1..Len(kept) /\ ledger'[i] = kept[i + 1]
    BY <1>12, <2>2
  <2> QED BY <1>9, <1>12, <1>l, <2>2, <2>3
<1> QED BY <1>10, <1>11, <1>12


\* The hub reads a prompt.
LEMMA HandlePromptKeeps ==
    ASSUME WireInv, HandlePrompt, regime' = regime
    PROVE  WireInv'
<1>1. regime \in Regimes /\ key \in Nat /\ up \in Seq(Ids) /\ GoodDown /\ GoodHub
  BY WireParts
<1>2. /\ up # <<>> /\ up' = Tail(up)
      /\ UNCHANGED <<key, running, ledger, taken>>
  BY DEF HandlePrompt
<1>3. up' \in Seq(Ids) /\ Head(up) \in Ids
  BY <1>1, <1>2, TakeFacts
<1>4. CASE Ledgered(Head(up))
  <2>1. UNCHANGED ops /\ \E i \in DOMAIN ledger : Sends(key, ledger[i])
    BY <1>4 DEF HandlePrompt
  <2>k. PICK k : k = key
    OBVIOUS
  <2>2. PICK i \in DOMAIN ledger : Sends(k, ledger[i])
    BY <2>1, <2>k
  <2>m. PICK m : m = ledger[i]
    OBVIOUS
  <2>3. m \in Results /\ (m.accepted => taken[m.id] > 0)
    BY <1>1, <2>2, <2>m DEF GoodHub
  <2>4. GoodDown'
    BY <1>1, <1>2, <2>2, <2>3, <2>m, SendsKeeps
  <2>5. GoodHub'
    BY <1>1, <1>2, <2>1 DEF GoodHub
  <2> QED BY <1>1, <1>2, <1>3, <2>4, <2>5, WireJoins
<1>5. CASE ~Ledgered(Head(up))
  <2>1. ops' = Append(ops, [id |-> Head(up), key |-> key]) /\ UNCHANGED down
    BY <1>5 DEF HandlePrompt
  <2>2. [id |-> Head(up), key |-> key] \in Prompts /\ ops \in Seq(Prompts)
    BY <1>1, <1>3 DEF Prompts, GoodHub
  <2>3. ops' \in Seq(Prompts)
    BY <2>1, <2>2
  <2>4. GoodHub'
    BY <1>1, <1>2, <2>3 DEF GoodHub
  <2>5. GoodDown'
    BY <1>1, <1>2, <2>1 DEF GoodDown
  <2> QED BY <1>1, <1>2, <1>3, <2>4, <2>5, WireJoins
<1> QED BY <1>4, <1>5

\* The applier starts a prompt: the daemon takes it or not.
LEMMA StartPromptKeeps ==
    ASSUME WireInv, NEW outcome \in Outcomes, StartPrompt(outcome), regime' = regime
    PROVE  WireInv' /\ \A id \in Ids : taken[id] > 0 => taken'[id] > 0
<1>1. regime \in Regimes /\ key \in Nat /\ up \in Seq(Ids) /\ GoodDown /\ GoodHub
  BY WireParts
<1>2. outcome \in AllOutcomes
  BY <1>1, PromptAssumption DEF Outcomes
<1>3. ops \in Seq(Prompts) /\ taken \in [Ids -> Nat] /\ ledger \in Seq(Results)
  BY <1>1 DEF GoodHub
<1>o. PICK op : op = Head(ops)
  OBVIOUS
<1>4. /\ ops # <<>> /\ ops' = Tail(ops)
      /\ running' = [op |-> op, outcome |-> outcome]
      /\ taken' = [taken EXCEPT ![op.id] = IF outcome \in {"accepted", "replyLost"}
                                          THEN @ + 1 ELSE @]
      /\ UNCHANGED <<key, up, down, ledger>>
  BY <1>o DEF StartPrompt
<1>5. op \in Prompts /\ op.id \in Ids /\ ops' \in Seq(Prompts)
  <2>1. Head(ops) \in Prompts /\ Tail(ops) \in Seq(Prompts)
    BY <1>3, <1>4
  <2>2. op \in Prompts /\ ops' \in Seq(Prompts)
    BY <1>4, <1>o, <2>1
  <2> QED BY <2>2 DEF Prompts
<1>6. taken' \in [Ids -> Nat] /\ \A id \in Ids : taken[id] > 0 => taken'[id] > 0
  BY <1>3, <1>4, <1>5
<1>7. outcome = "accepted" => taken'[op.id] > 0
  BY <1>3, <1>4, <1>5
<1>8. running' \in [op : Prompts, outcome : AllOutcomes] /\ running'.op = op /\ running'.outcome = outcome
  BY <1>2, <1>4, <1>5
<1>9. \A i \in 1..Len(ledger') : ledger'[i].accepted => taken'[ledger'[i].id] > 0
  BY <1>1, <1>3, <1>4, <1>6 DEF GoodHub, Results
<1>10. GoodHub'
  BY <1>3, <1>4, <1>5, <1>6, <1>7, <1>8, <1>9 DEF GoodHub
<1>11. GoodDown'
  BY <1>1, <1>4, <1>6 DEF GoodDown
<1> QED BY <1>1, <1>4, <1>6, <1>10, <1>11, WireJoins

\* The verdict is cached and sent.
LEMMA FinishPromptKeeps ==
    ASSUME WireInv, FinishPrompt, regime' = regime
    PROVE  WireInv' /\ taken' = taken
<1>1. regime \in Regimes /\ key \in Nat /\ up \in Seq(Ids) /\ GoodDown /\ GoodHub
  BY WireParts
<1>r. PICK r : r = Result(running.op.id, running.outcome = "accepted")
  OBVIOUS
<1>k. PICK k : k = running.op.key
  OBVIOUS
<1>2. /\ running # None /\ running' = None
      /\ cache_prompt_result(r) /\ Sends(k, r)
      /\ UNCHANGED <<key, up, ops, taken>>
  BY <1>r, <1>k DEF FinishPrompt
<1>3. running \in [op : Prompts, outcome : AllOutcomes] /\ ledger \in Seq(Results)
      /\ (running.outcome = "accepted" => taken[running.op.id] > 0)
  BY <1>1, <1>2 DEF GoodHub
<1>4. r \in Results /\ r.id = running.op.id /\ r.accepted = (running.outcome = "accepted")
  <2>1. running.op.id \in Ids /\ (running.outcome = "accepted") \in BOOLEAN
    BY <1>3 DEF Prompts
  <2> QED BY <1>r, <2>1 DEF Result, Results
<1>5. r.accepted => taken[r.id] > 0
  BY <1>3, <1>4
<1>6. GoodDown'
  BY <1>1, <1>2, <1>4, <1>5, SendsKeeps
<1>7. /\ ledger' \in Seq(Results)
      /\ \A i \in 1..Len(ledger') : ledger'[i] = r \/ \E j \in 1..Len(ledger) : ledger'[i] = ledger[j]
  BY <1>2, <1>3, <1>4, CacheFacts
<1>8. \A i \in 1..Len(ledger') : ledger'[i].accepted => taken'[ledger'[i].id] > 0
  BY <1>1, <1>2, <1>5, <1>7 DEF GoodHub
<1>9. GoodHub'
  BY <1>1, <1>2, <1>7, <1>8 DEF GoodHub
<1> QED BY <1>1, <1>2, <1>6, <1>9, WireJoins

\* A socket opens.
LEMMA ConnectKeeps ==
    ASSUME WireInv, Connect, regime' = regime
    PROVE  WireInv'
<1>1. regime \in Regimes /\ key \in Nat /\ up \in Seq(Ids) /\ GoodDown /\ GoodHub
  BY WireParts
<1>2. key' = key + 1 /\ up' = <<>> /\ down' = <<Hello>> /\ UNCHANGED server
  BY DEF Connect
<1>3. Hello \in Messages /\ Hello.type # "promptResult"
  BY DEF Hello, Messages
<1>4. down' \in Seq(Messages) /\ \A i \in 1..Len(down') : down'[i] = Hello
  BY <1>2, <1>3
<1>5. GoodDown'
  BY <1>3, <1>4 DEF GoodDown
<1>6. GoodHub'
  BY <1>1, <1>2, HubStays
<1>7. key' \in Nat /\ up' \in Seq(Ids)
  BY <1>1, <1>2
<1> QED BY <1>1, <1>5, <1>6, <1>7, WireJoins

\* The hub is killed.
LEMMA RestartKeeps ==
    ASSUME WireInv, Restart, regime' = regime
    PROVE  WireInv' /\ taken' = taken
<1>1. regime \in Regimes /\ key \in Nat /\ up \in Seq(Ids) /\ GoodDown /\ GoodHub
  BY WireParts
<1>2. Hangup /\ ops' = <<>> /\ running' = None /\ ledger' = <<>> /\ UNCHANGED <<key, taken>>
  BY DEF Restart
<1>3. GoodDown' /\ up' \in Seq(Ids)
  BY <1>2, HangsUp
<1>4. ops' \in Seq(Prompts) /\ ledger' \in Seq(Results) /\ 1..Len(ledger') = {}
  BY <1>2
<1>5. GoodHub'
  BY <1>1, <1>2, <1>4 DEF GoodHub
<1> QED BY <1>1, <1>2, <1>3, <1>5, WireJoins

\* Steps of the page: they take no verdict from the hub and send only attempts.
LEMMA WireStays ==
    ASSUME WireInv, UNCHANGED server, key' = key, regime' = regime, up' \in Seq(Ids),
           down' = down \/ (\E type \in {"hello", "promptResult"} : Receives(type)) \/ Hangup
    PROVE  WireInv'
<1>1. regime \in Regimes /\ key \in Nat /\ up \in Seq(Ids) /\ GoodDown /\ GoodHub
  BY WireParts
<1>2. GoodHub'
  BY <1>1, HubStays
<1>3. taken' = taken
  BY DEF server
<1>4. GoodDown'
  <2>1. CASE down' = down
    BY <1>1, <1>3, <2>1 DEF GoodDown
  <2>2. ASSUME NEW type \in {"hello", "promptResult"}, Receives(type) PROVE GoodDown'
    BY <1>1, <1>3, <2>2, ReceivesKeeps
  <2>3. CASE Hangup
    BY <2>3, HangsUp
  <2> QED BY <2>1, <2>2, <2>3
<1> QED BY <1>1, <1>2, <1>4, WireJoins


-----------------------------------------------------------------------------
(* The invariant *)

\* The invariant in its halves.
LEMMA InvParts ==
    ASSUME NEW T \in SUBSET Texts
    PROVE  Inv(T) <=> PageInv(T) /\ WireInv
BY DEF Base, Inv, PageInv, WireInv

\* Initially the composer has every text.
LEMMA InitHolds ==
    ASSUME NEW T \in SUBSET Texts
    PROVE  Init => Inv(T)
<1> SUFFICES ASSUME Init PROVE Inv(T)
  OBVIOUS
<1>1. /\ regime \in Regimes /\ composer = Texts /\ text = [id \in Ids |-> None]
      /\ idb = [id \in Ids |-> None] /\ idbq = <<>> /\ live = [id \in Ids |-> None]
      /\ offer = {} /\ key = 0 /\ up = <<>> /\ down = <<>> /\ ops = <<>> /\ running = None
      /\ ledger = <<>> /\ taken = [id \in Ids |-> 0]
  BY DEF Init
<1>2. /\ <<>> \in Seq(Transactions) /\ <<>> \in Seq(Ids) /\ <<>> \in Seq(Messages)
      /\ <<>> \in Seq(Prompts) /\ <<>> \in Seq(Results) /\ 1..Len(<<>>) = {}
  OBVIOUS
<1>3. PageTypes
  BY <1>1, <1>2 DEF PageTypes
<1>4. WireTypes
  BY <1>1, <1>2 DEF WireTypes
<1>5. AcceptedWasTaken
  BY <1>1, <1>2 DEF AcceptedWasTaken
<1>6. EntriesComeOnce
  <2>1. \A id \in Ids : Free(id) /\ ~Named(id)
    BY <1>1, <1>2 DEF Free, Named
  <2> QED BY <2>1 DEF EntriesComeOnce
<1>7. RetriesSame
  BY <1>1, <1>2 DEF RetriesSame
<1>8. EveryTextKept(T)
  BY <1>1 DEF EveryTextKept, Kept
<1> QED BY <1>3, <1>4, <1>5, <1>6, <1>7, <1>8 DEF Base, Inv

\* A transaction commits.
LEMMA CommitKeeps ==
    ASSUME NEW T \in SUBSET Texts, Inv(T), Commit, regime' = regime
    PROVE  Inv(T)'
<1>1. PageInv(T) /\ WireInv /\ idbq # <<>> /\ taken' = taken /\ UNCHANGED <<conn, key, down, server, budget>>
  BY InvParts DEF Commit, server
<1>2. up \in Seq(Ids)
  BY <1>1, WireParts
<1>3. PageInv(T)' /\ up' \in Seq(Ids)
  <2>1. CASE CommitSave
    BY <1>1, <1>2, <2>1, CommitSaveKeeps
  <2>2. CASE CommitPut
    BY <1>1, <1>2, <2>2, CommitPutKeeps DEF CommitPut
  <2>3. CASE CommitSettle
    BY <1>1, <1>2, <2>3, CommitSettleKeeps DEF CommitSettle
  <2>4. CASE CommitRetry
    BY <1>1, <1>2, <2>4, CommitRetryKeeps DEF CommitRetry
  <2>5. CASE CommitEdit
    BY <1>1, <1>2, <2>5, CommitEditKeeps DEF CommitEdit
  <2>6. CASE CommitLoad
    BY <1>1, <1>2, <2>6, CommitLoadKeeps
  <2> QED BY <2>1, <2>2, <2>3, <2>4, <2>5, <2>6 DEF Commit
<1>4. WireInv'
  BY <1>1, <1>3, WireStays
<1> QED BY <1>3, <1>4 DEF Base, Inv, PageInv, WireInv

\* Steps of the page on a message or a word of the user.
LEMMA PageStepKeeps ==
    ASSUME NEW T \in SUBSET Texts, Inv(T), regime' = regime,
           \/ \E t \in Texts, id \in Ids : Submit(t, id)
           \/ \E id \in Ids, new \in Ids : UserRetry(id, new)
           \/ \E id \in Ids : UserEdit(id) \/ UserRestore(id)
           \/ OnHello \/ OnAccepted \/ OnRejected \/ OnCreateFailed
    PROVE  Inv(T)'
<1>1. PageInv(T) /\ WireInv /\ up \in Seq(Ids) /\ WireTypes /\ AcceptedWasTaken
  BY InvParts, WireParts DEF WireInv
<1>2. ASSUME NEW t \in Texts, NEW id \in Ids, Submit(t, id)
      PROVE  PageInv(T)' /\ UNCHANGED <<server, key>> /\ up' = up /\ down' = down
  BY <1>1, <1>2, SubmitKeeps DEF Submit
<1>3. ASSUME NEW id \in Ids, NEW new \in Ids, UserRetry(id, new)
      PROVE  PageInv(T)' /\ UNCHANGED <<server, key>> /\ up' = up /\ down' = down
  BY <1>1, <1>3, UserRetryKeeps DEF UserRetry
<1>4. ASSUME NEW id \in Ids, UserEdit(id)
      PROVE  PageInv(T)' /\ UNCHANGED <<server, key>> /\ up' = up /\ down' = down
  BY <1>1, <1>4, UserEditKeeps DEF UserEdit
<1>5. ASSUME NEW id \in Ids, UserRestore(id)
      PROVE  PageInv(T)' /\ UNCHANGED <<server, key>> /\ up' = up /\ down' = down
  BY <1>1, <1>5, UserRestoreKeeps DEF UserRestore
<1>6. ASSUME OnHello
      PROVE  PageInv(T)' /\ UNCHANGED <<server, key>> /\ up' \in Seq(Ids) /\ Receives("hello")
  <2>1. UNCHANGED <<server, key>> /\ taken' = taken /\ Receives("hello")
    BY <1>6 DEF OnHello, server
  <2> QED BY <1>1, <1>6, <2>1, OnHelloKeeps
<1>7. ASSUME OnAccepted
      PROVE  PageInv(T)' /\ UNCHANGED <<server, key>> /\ up' = up /\ Receives("promptResult")
  BY <1>1, <1>7, OnAcceptedKeeps DEF OnAccepted
<1>8. ASSUME OnRejected
      PROVE  PageInv(T)' /\ UNCHANGED <<server, key>> /\ up' = up /\ Receives("promptResult")
  BY <1>1, <1>8, OnRejectedKeeps DEF OnRejected
<1>9. ASSUME OnCreateFailed
      PROVE  PageInv(T)' /\ UNCHANGED <<server, key>> /\ up' = up /\ Receives("promptResult")
  BY <1>1, <1>9, OnCreateFailedKeeps DEF OnCreateFailed
<1>10. /\ PageInv(T)' /\ UNCHANGED <<server, key>> /\ up' \in Seq(Ids)
       /\ down' = down \/ (\E type \in {"hello", "promptResult"} : Receives(type))
  BY <1>1, <1>2, <1>3, <1>4, <1>5, <1>6, <1>7, <1>8, <1>9
<1>11. WireInv'
  BY <1>1, <1>10, WireStays
<1> QED BY <1>10, <1>11 DEF Base, Inv, PageInv, WireInv

\* Steps of the socket, the hub and the daemon.
LEMMA ServerStepKeeps ==
    ASSUME NEW T \in SUBSET Texts, Inv(T), regime' = regime, T = {} \/ ~CutsRetry,
           \/ Connect \/ Disconnect \/ Reload
           \/ HandlePrompt
           \/ \E outcome \in Outcomes : StartPrompt(outcome)
           \/ FinishPrompt
           \/ Restart
    PROVE  Inv(T)'
<1>1. PageInv(T) /\ WireInv
  BY InvParts
<1>2. CASE Connect
  <2>1. UNCHANGED page /\ taken' = taken
    BY <1>2 DEF Connect, server
  <2> QED BY <1>1, <1>2, <2>1, PageStays, ConnectKeeps DEF Base, Inv, PageInv, WireInv
<1>3. CASE Disconnect
  <2>1. UNCHANGED page /\ UNCHANGED server /\ taken' = taken /\ key' = key /\ Hangup
    BY <1>3 DEF Disconnect, server
  <2>2. up' \in Seq(Ids)
    BY <2>1, HangsUp
  <2>3. PageInv(T)' /\ WireInv'
    BY <1>1, <2>1, <2>2, PageStays, WireStays
  <2> QED BY <2>3 DEF Base, Inv, PageInv, WireInv
<1>4. CASE Reload
  <2>1. UNCHANGED server /\ key' = key /\ Hangup
    BY <1>4 DEF Reload
  <2>2. up' \in Seq(Ids)
    BY <2>1, HangsUp
  <2>3. PageInv(T)' /\ WireInv'
    BY <1>1, <1>4, <2>1, <2>2, ReloadKeeps, WireStays
  <2> QED BY <2>3 DEF Base, Inv, PageInv, WireInv
<1>5. CASE HandlePrompt
  <2>1. UNCHANGED page /\ taken' = taken
    BY <1>5 DEF HandlePrompt
  <2>2. PageInv(T)' /\ WireInv'
    BY <1>1, <1>5, <2>1, PageStays, HandlePromptKeeps
  <2> QED BY <2>2 DEF Base, Inv, PageInv, WireInv
<1>6. ASSUME NEW outcome \in Outcomes, StartPrompt(outcome) PROVE Inv(T)'
  <2>1. UNCHANGED page
    BY <1>6 DEF StartPrompt
  <2>2. WireInv' /\ \A id \in Ids : taken[id] > 0 => taken'[id] > 0
    BY <1>1, <1>6, StartPromptKeeps
  <2>3. PageInv(T)'
    BY <1>1, <2>1, <2>2, PageStays
  <2> QED BY <2>2, <2>3 DEF Base, Inv, PageInv, WireInv
<1>7. CASE FinishPrompt
  <2>1. UNCHANGED page
    BY <1>7 DEF FinishPrompt
  <2>2. WireInv' /\ taken' = taken
    BY <1>1, <1>7, FinishPromptKeeps
  <2>3. PageInv(T)'
    BY <1>1, <2>1, <2>2, PageStays
  <2> QED BY <2>2, <2>3 DEF Base, Inv, PageInv, WireInv
<1>8. CASE Restart
  <2>1. UNCHANGED page
    BY <1>8 DEF Restart
  <2>2. WireInv' /\ taken' = taken
    BY <1>1, <1>8, RestartKeeps
  <2>3. PageInv(T)'
    BY <1>1, <2>1, <2>2, PageStays
  <2> QED BY <2>2, <2>3 DEF Base, Inv, PageInv, WireInv
<1> QED BY <1>2, <1>3, <1>4, <1>5, <1>6, <1>7, <1>8

\* Every step keeps the invariant, unless a page is closed inside a retry and texts matter.
LEMMA StepKeeps ==
    ASSUME NEW T \in SUBSET Texts, Inv(T), [Next]_vars, T = {} \/ [~CutsRetry]_vars
    PROVE  Inv(T)'
<1>1. CASE UNCHANGED vars
  <2>1. UNCHANGED page /\ taken' = taken /\ PageInv(T) /\ WireInv
    BY <1>1, InvParts DEF vars, moving, server
  <2>2. /\ UNCHANGED server /\ key' = key /\ regime' = regime /\ up' = up /\ down' = down
    BY <1>1 DEF vars, moving
  <2>3. PageInv(T)'
    BY <2>1, PageStays
  <2>4. WireInv'
    BY <2>1, <2>2, WireParts, WireStays
  <2> QED BY <2>3, <2>4 DEF Base, Inv, PageInv, WireInv
<1>2. CASE Next /\ (T = {} \/ ~CutsRetry)
  <2>1. regime' = regime /\ Step
    BY <1>2 DEF Next
  <2> QED BY <1>2, <2>1, CommitKeeps, PageStepKeeps, ServerStepKeeps DEF Step
<1> QED BY <1>1, <1>2

\* A text that is kept has a place.
LEMMA InvGivesPlaces == Inv(Texts) => NoTextLost
<1> SUFFICES ASSUME Inv(Texts), NEW t \in Texts PROVE HasPlace(t)
  BY DEF NoTextLost
<1>1. Kept(t) /\ idbq \in Seq(Transactions) /\ \A i \in 1..Len(idbq) : WellFormed(idbq[i])
  BY DEF Base, Inv, EveryTextKept, PageTypes
<1>2. CASE t \in composer
  BY <1>2 DEF HasPlace
<1>3. ASSUME NEW id \in Ids, text[id] = t, taken[id] > 0 \/ Stays(id) PROVE HasPlace(t)
  <2>1. CASE taken[id] > 0 \/ idb[id] # None
    BY <1>3, <2>1 DEF HasPlace
  <2>2. CASE Saving(id)
    <3>1. PICK i \in 1..Len(idbq) : idbq[i].op = "save" /\ idbq[i].id = id
      BY <2>2 DEF Saving
    <3>2. idbq[i] = Issue("save", id)
      <4>1. idbq[i] \in Transactions /\ idbq[i].state = None /\ idbq[i].new = None
        BY <1>1, <3>1 DEF WellFormed
      <4> QED BY <3>1, <4>1 DEF Transactions, Issue
    <3> QED BY <1>1, <1>3, <3>1, <3>2 DEF HasPlace
  <2> QED BY <1>3, <2>1, <2>2 DEF Stays
<1> QED BY <1>1, <1>2, <1>3 DEF Kept

\* No text is ever lost (store.svelte.ts enqueuePrompt, settlePrompt, hydrateOutbox), whatever
\* sockets, pages and hub processes fail and however often, in behaviours where no page is
\* closed between the two writes of a retry: there the code does lose the text (CutsRetry).
THEOREM NoTextLostCorrect == Spec /\ [][~CutsRetry]_vars => []NoTextLost
<1>1. Init => Inv(Texts)
  BY InitHolds
<1>2. Inv(Texts) /\ [Next]_vars /\ [~CutsRetry]_vars => Inv(Texts)'
  BY StepKeeps
<1>3. Inv(Texts) => NoTextLost
  BY InvGivesPlaces
<1> QED BY <1>1, <1>2, <1>3, PTL DEF Spec

-----------------------------------------------------------------------------
(* What was cleared is not sent again: the invariant *)

\* A transaction that deletes an entry, and one that saves it as one to be sent.
Clears(tr, id) == tr.op \in {"settle", "retry", "edit"} /\ tr.id = id
Saves(tr, id) == tr.op = "put" /\ tr.id = id /\ tr.state # "rejected"

\* The entry is to be deleted.
Clearing(id) == \E i \in 1..Len(idbq) : Clears(idbq[i], id)

\* A verdict on the prompt may come on this connection.
OnItsWay(id) ==
    /\ conn # "down"
    /\ \/ \E i \in 1..Len(up) : up[i] = id
       \/ \E i \in 1..Len(ops) : ops[i].id = id /\ ops[i].key = key
       \/ running # None /\ running.op.id = id /\ running.op.key = key
       \/ \E i \in 1..Len(down) : down[i].type = "promptResult" /\ down[i].id = id

\* The server has not heard of the attempt.
Unsent(id) ==
    /\ taken[id] = 0
    /\ \A i \in 1..Len(up) : up[i] # id
    /\ \A i \in 1..Len(ops) : ops[i].id # id
    /\ running # None => running.op.id # id
    /\ \A i \in 1..Len(down) : down[i].type = "promptResult" => down[i].id # id

\* The entry is to be deleted, or offered to the user, or a verdict on it is on its way.
Handed(id) == Clearing(id) \/ id \in offer \/ OnItsWay(id)

\* The page will not save the entry as one to be sent any more.
Over(id) ==
    /\ live[id] # "queued"
    /\ live[id] = None => idb[id] \in {None, "rejected"} /\ \A i \in 1..Len(idbq) : ~Saves(idbq[i], id)

\* A save for sending is of an entry there is, with no deletion of it in front.
SavesComeFirst(id) ==
    \A i \in 1..Len(idbq) : Saves(idbq[i], id) =>
        idb[id] # None /\ \A j \in 1..Len(idbq) : j < i => ~Clears(idbq[j], id)

\* An entry that is handed to the server, the user or a deletion is not to be saved for sending.
Attempt(id) ==
    /\ live[id] = "queued" => idb[id] # None
    /\ Handed(id) => Over(id)
    /\ SavesComeFirst(id)

\* An attempt not created, or whose first save is still to come, has not been sent.
NewsIsUnsent(id) == text[id] = None \/ Named(id) => Unsent(id)

\* Operations are of this connection or an earlier one; a socket that is down carries nothing.
KeysAreOld ==
    /\ \A i \in 1..Len(ops) : ops[i].key <= key
    /\ running # None => running.op.key <= key
    /\ conn = "down" => up = <<>> /\ down = <<>>

\* The inductive invariant of ClearedIsNotResent.
ClearInv ==
    /\ Base
    /\ \A id \in Ids : Attempt(id) /\ NewsIsUnsent(id)
    /\ KeysAreOld

-----------------------------------------------------------------------------

\* An entry to be deleted was to be deleted before, or its deletion was just issued.
LEMMA ClearingMoves ==
    ASSUME idbq \in Seq(Transactions), idbq' \in Seq(Transactions), NEW k, Moved(k), NEW id \in Ids,
           Clearing(id)'
    PROVE  Clearing(id) \/ \E i \in Issued(k) : Clears(idbq'[i], id)
<1>1. PICK i \in 1..Len(idbq') : Clears(idbq'[i], id)
  BY DEF Clearing
<1>2. i \in Issued(k) \/ (i + k \in 1..Len(idbq) /\ idbq'[i] = idbq[i + k])
  BY MovedFacts
<1> QED BY <1>1, <1>2 DEF Clearing

\* When the queue moves, saves still come before deletions: nothing issued saves an entry that
\* is to be deleted, and an entry deleted was the head's to delete.
LEMMA SavesMove ==
    ASSUME idbq \in Seq(Transactions), idbq' \in Seq(Transactions), NEW k, Moved(k), NEW id \in Ids,
           SavesComeFirst(id),
           idb'[id] = None /\ idb[id] # None => k = 1 /\ Clears(idbq[1], id),
           \A i \in Issued(k) : Saves(idbq'[i], id) =>
               idb'[id] # None /\ ~Clearing(id) /\ \A j \in Issued(k) : ~Clears(idbq'[j], id)
    PROVE  SavesComeFirst(id)'
<1> SUFFICES ASSUME NEW i \in 1..Len(idbq'), Saves(idbq'[i], id)
             PROVE  idb'[id] # None /\ \A j \in 1..Len(idbq') : j < i => ~Clears(idbq'[j], id)
  BY DEF SavesComeFirst
<1>1. /\ Len(idbq) \in Nat /\ Len(idbq') \in Nat /\ k \in Nat /\ k \in {0, 1}
      /\ \A j \in 1..Len(idbq') :
           \/ j \in Issued(k)
           \/ j \in 1..(Len(idbq) - k) /\ j + k \in 1..Len(idbq) /\ idbq'[j] = idbq[j + k]
  BY MovedFacts DEF Moved
<1>2. CASE i \in Issued(k)
  <2>1. ~Clearing(id) /\ idb'[id] # None
    BY <1>2
  <2>2. ASSUME NEW j \in 1..Len(idbq') PROVE ~Clears(idbq'[j], id)
    BY <1>1, <1>2, <2>1 DEF Clearing
  <2> QED BY <2>1, <2>2
<1>3. CASE i \in 1..(Len(idbq) - k) /\ i + k \in 1..Len(idbq) /\ idbq'[i] = idbq[i + k]
  <2>1. PICK m \in 1..Len(idbq) : m = i + k
    BY <1>3
  <2>2. idb[id] # None /\ \A j \in 1..Len(idbq) : j < m => ~Clears(idbq[j], id)
    BY <1>3, <2>1 DEF SavesComeFirst
  <2>3. idb'[id] # None
    <3>1. k = 1 => 1 < m /\ 1 \in 1..Len(idbq)
      BY <1>1, <2>1
    <3> QED BY <2>2, <3>1
  <2>4. ASSUME NEW j \in 1..Len(idbq'), j < i PROVE ~Clears(idbq'[j], id)
    <3>1. j \notin Issued(k)
      BY <1>1, <1>3, <2>4 DEF Issued
    <3>2. j + k \in 1..Len(idbq) /\ idbq'[j] = idbq[j + k] /\ j + k < m
      BY <1>1, <2>1, <2>4, <3>1
    <3> QED BY <2>2, <3>2
  <2> QED BY <2>3, <2>4
<1> QED BY <1>1, <1>2, <1>3

\* When an attempt keeps its part of the invariant: an entry handed to the server, to the user or
\* to a deletion is over, and what is over stays so.
LEMMA AttemptKeeps ==
    ASSUME idbq \in Seq(Transactions), idbq' \in Seq(Transactions), NEW k, Moved(k), NEW id \in Ids,
           Attempt(id),
           live'[id] = "queued" => idb'[id] # None /\ ~Handed(id)',
           idb'[id] = None /\ idb[id] # None => k = 1 /\ Clears(idbq[1], id),
           \A i \in Issued(k) : Saves(idbq'[i], id) =>
               /\ idb'[id] # None /\ live'[id] # None /\ ~Clearing(id)
               /\ \A j \in Issued(k) : ~Clears(idbq'[j], id),
           live'[id] = None /\ Handed(id)' => Handed(id) \/ Over(id),
           live'[id] = None /\ live[id] # None => idb'[id] = None /\ k = 1 /\ Clears(idbq[1], id),
           live'[id] = None /\ live[id] = None =>
               idb'[id] \in {None, "rejected", idb[id]} \/ (k = 1 /\ Saves(idbq[1], id))
    PROVE  Attempt(id)'
<1>1. SavesComeFirst(id)'
  BY SavesMove DEF Attempt
<1>2. ASSUME Handed(id)' PROVE Over(id)'
  <2>1. live'[id] # "queued"
    BY <1>2
  <2>2. ASSUME live'[id] = None
        PROVE  idb'[id] \in {None, "rejected"} /\ \A i \in 1..Len(idbq') : ~Saves(idbq'[i], id)
    <3>1. Over(id)
      BY <1>2, <2>2 DEF Attempt
    <3>2. ASSUME NEW i \in 1..Len(idbq'), Saves(idbq'[i], id)
          PROVE  i + k \in 1..Len(idbq) /\ Saves(idbq[i + k], id) /\ (k = 1 => i + k # 1)
      <4>1. i \notin Issued(k)
        BY <2>2, <3>2
      <4>2. i + k \in 1..Len(idbq) /\ idbq'[i] = idbq[i + k] /\ i \in 1..Len(idbq') /\ Len(idbq') \in Nat
        BY <4>1, MovedFacts
      <4> QED BY <3>2, <4>2
    <3>3. CASE live[id] = None
      <4>1. idb[id] \in {None, "rejected"} /\ \A i \in 1..Len(idbq) : ~Saves(idbq[i], id)
        BY <3>1, <3>3 DEF Over
      <4>2. k = 1 => 1 \in 1..Len(idbq)
        BY MovedFacts DEF Moved
      <4> QED BY <2>2, <3>2, <3>3, <4>1, <4>2
    <3>4. CASE live[id] # None
      <4>1. idb'[id] = None /\ k = 1 /\ Clears(idbq[1], id)
        BY <2>2, <3>4
      <4>2. ASSUME NEW m \in 1..Len(idbq), m # 1 PROVE ~Saves(idbq[m], id)
        <5>1. 1 \in 1..Len(idbq) /\ 1 < m
          BY <4>2
        <5> QED BY <4>1, <5>1 DEF Attempt, SavesComeFirst
      <4> QED BY <3>2, <4>1, <4>2
    <3> QED BY <3>3, <3>4
  <2> QED BY <2>1, <2>2 DEF Over
<1> QED BY <1>1, <1>2 DEF Attempt

\* The entries that go out on a socket in state c, and what that changes.
Goes(ids, lv, id) == id \in ids /\ lv[id] \notin {None, "rejected"}
\* The state of an entry sent on a socket in state c.
NewState(c) == IF c = "down" THEN "queued" ELSE "sending"

\* Those of ids go out on a socket in state c; the rest of lv stays. What is issued saves those that
\* changed, and only what goes out is on its way.
SendsThese(c, q, lv, u, ids) ==
    /\ \A id \in Ids : live'[id] = IF Goes(ids, lv, id) THEN NewState(c) ELSE lv[id]
    /\ \A i \in (Len(q) + 1)..Len(idbq') :
          /\ idbq'[i].op = "put" /\ idbq'[i].state = NewState(c)
          /\ Goes(ids, lv, idbq'[i].id) /\ lv[idbq'[i].id] # NewState(c)
    /\ \A i \in 1..Len(up') : (\E j \in 1..Len(u) : up'[i] = u[j]) \/ (c # "down" /\ Goes(ids, lv, up'[i]))

\* What sendPendingPrompt does, entry by entry.
LEMMA SendDetails ==
    ASSUME NEW c, NEW q \in Seq(Transactions), NEW lv \in [Ids -> State \cup {None}], NEW u \in Seq(Ids),
           NEW ids \in SUBSET Ids,
           sendPendingPrompt(c, [live |-> lv, idbq |-> q, up |-> u], ids)
    PROVE  SendsThese(c, q, lv, u, ids)
<1>b. PICK b : b = [live |-> lv, idbq |-> q, up |-> u]
  OBVIOUS
<1>0. b.live = lv /\ b.idbq = q /\ b.up = u /\ sendPendingPrompt(c, b, ids)
  BY <1>b
<1> DEFINE state == IF c = "down" THEN "queued" ELSE "sending"
           sent == {id \in ids : b.live[id] \notin {None, "rejected"}}
<1>1. state = NewState(c) /\ state \in State
  BY DEF NewState, State
<1>2. sent \in SUBSET (1..MaxIds) /\ MaxIds \in Nat /\ \A id \in Ids : id \in sent <=> Goes(ids, lv, id)
  BY <1>0, PromptAssumption DEF Ids, Goes
<1>3. \E messages \in InOrder(sent), saves \in InOrder(Changed(b, sent, state)) :
          /\ live' = [id \in Ids |-> IF id \in sent THEN state ELSE b.live[id]]
          /\ idbq' = b.idbq \o [i \in DOMAIN saves |-> Put(saves[i], state)]
          /\ up' = IF c = "down" THEN b.up ELSE b.up \o messages
  BY <1>0 DEF sendPendingPrompt
<1> HIDE DEF state, sent
<1>4. PICK st, out : st = state /\ out = sent
  OBVIOUS
<1>5. PICK messages \in InOrder(out), saves \in InOrder(Changed(b, out, st)) :
          /\ live' = [id \in Ids |-> IF id \in out THEN st ELSE lv[id]]
          /\ idbq' = q \o [i \in DOMAIN saves |-> Put(saves[i], st)]
          /\ up' = IF c = "down" THEN u ELSE u \o messages
  BY <1>0, <1>3, <1>4
<1>6. /\ messages \in Seq(Ids) /\ Len(messages) \in Nat /\ \A i \in 1..Len(messages) : messages[i] \in out
      /\ Len(saves) \in Nat /\ DOMAIN saves = 1..Len(saves)
      /\ \A i \in 1..Len(saves) : saves[i] \in out /\ saves[i] \in Ids /\ lv[saves[i]] # st
  <2>1. Changed(b, out, st) \in SUBSET (1..MaxIds) /\ \A id \in Changed(b, out, st) : id \in out /\ lv[id] # st
    BY <1>0, <1>2, <1>4 DEF Changed
  <2>2. messages \in Seq(out) /\ Len(messages) \in Nat /\ \A i \in 1..Len(messages) : messages[i] \in out
    BY <1>2, <1>4, <1>5, InOrderFacts
  <2>3. Len(saves) \in Nat /\ DOMAIN saves = 1..Len(saves) /\ \A i \in 1..Len(saves) : saves[i] \in Changed(b, out, st)
    BY <1>2, <1>5, <2>1, InOrderFacts
  <2>4. messages \in Seq(Ids) /\ out \subseteq Ids
    BY <1>2, <1>4, <2>2, SeqMono DEF Ids
  <2> QED BY <2>1, <2>2, <2>3, <2>4
<1>7. PICK puts : puts = [i \in 1..Len(saves) |-> Put(saves[i], st)]
  OBVIOUS
<1>8. \A i \in 1..Len(saves) : /\ puts[i] \in Transactions /\ puts[i].op = "put" /\ puts[i].state = st
                               /\ puts[i].id \in out /\ lv[puts[i].id] # st
  <2>1. ASSUME NEW i \in 1..Len(saves)
        PROVE  /\ puts[i] \in Transactions /\ puts[i].op = "put" /\ puts[i].state = st
               /\ puts[i].id \in out /\ lv[puts[i].id] # st
    <3>1. puts[i] = Put(saves[i], st) /\ saves[i] \in Ids /\ st \in State
      BY <1>1, <1>4, <1>6, <1>7
    <3> QED BY <1>6, <3>1, PutIs DEF Put
  <2> QED BY <2>1
<1>9. puts \in Seq(Transactions) /\ Len(puts) = Len(saves)
  BY <1>6, <1>7, <1>8
<1>10. idbq' = q \o puts
  BY <1>5, <1>6, <1>7
<1>11. \A i \in (Len(q) + 1)..Len(idbq') : \E j \in 1..Len(saves) : idbq'[i] = puts[j]
  <2>1. /\ q \o puts \in Seq(Transactions) /\ Len(q \o puts) = Len(q) + Len(puts) /\ Len(q) \in Nat
        /\ \A i \in 1..Len(puts) : (q \o puts)[Len(q) + i] = puts[i]
    <3>1. q \in Seq(Transactions) /\ puts \in Seq(Transactions)
      BY <1>9
    <3> QED BY <3>1, ConcatFacts
  <2> SUFFICES ASSUME NEW i \in (Len(q) + 1)..Len(idbq') PROVE \E j \in 1..Len(saves) : idbq'[i] = puts[j]
    OBVIOUS
  <2>2. i - Len(q) \in 1..Len(puts) /\ i = Len(q) + (i - Len(q))
    BY <1>6, <1>9, <1>10, <2>1
  <2> QED BY <1>9, <1>10, <2>1, <2>2
<1>12. \A i \in (Len(q) + 1)..Len(idbq') :
          /\ idbq'[i].op = "put" /\ idbq'[i].state = NewState(c)
          /\ Goes(ids, lv, idbq'[i].id) /\ lv[idbq'[i].id] # NewState(c)
  BY <1>1, <1>2, <1>4, <1>8, <1>11 DEF Ids
<1>13. ASSUME NEW i \in 1..Len(up')
       PROVE  (\E j \in 1..Len(u) : up'[i] = u[j]) \/ (c # "down" /\ Goes(ids, lv, up'[i]))
  <2>1. CASE c = "down"
    BY <1>5, <1>13, <2>1
  <2>2. CASE c # "down"
    <3>1. up' = u \o messages
      BY <1>5, <2>2
    <3>2. /\ u \o messages \in Seq(Ids) /\ Len(u \o messages) = Len(u) + Len(messages) /\ Len(u) \in Nat
          /\ \A j \in 1..Len(u) : (u \o messages)[j] = u[j]
          /\ \A j \in 1..Len(messages) : (u \o messages)[Len(u) + j] = messages[j]
      BY <1>6, ConcatFacts
    <3>3. CASE i \in 1..Len(u)
      BY <3>1, <3>2, <3>3
    <3>4. CASE i \notin 1..Len(u)
      <4>1. i - Len(u) \in 1..Len(messages) /\ i = Len(u) + (i - Len(u))
        BY <1>6, <1>13, <3>1, <3>2, <3>4
      <4>2. up'[i] = messages[i - Len(u)]
        BY <3>1, <3>2, <4>1
      <4>3. up'[i] \in out
        BY <1>6, <4>1, <4>2
      <4> QED BY <1>2, <1>4, <2>2, <4>3 DEF Ids
    <3> QED BY <3>3, <3>4
  <2> QED BY <2>1, <2>2
<1>14. \A id \in Ids : live'[id] = IF Goes(ids, lv, id) THEN NewState(c) ELSE lv[id]
  BY <1>1, <1>2, <1>4, <1>5
<1> QED BY <1>12, <1>13, <1>14 DEF SendsThese

\* Flushing sends every entry there is, on a socket that is up.
LEMMA FlushDetails ==
    ASSUME NEW c, NEW q \in Seq(Transactions), NEW lv \in [Ids -> State \cup {None}], NEW u \in Seq(Ids),
           flushOutbox(c, [live |-> lv, idbq |-> q, up |-> u])
    PROVE  IF c = "up" THEN SendsThese(c, q, lv, u, Ids) ELSE live' = lv /\ idbq' = q /\ up' = u
<1>1. CASE c = "up"
  <2>1. sendPendingPrompt(c, [live |-> lv, idbq |-> q, up |-> u], Ids) /\ Ids \in SUBSET Ids
    BY <1>1 DEF flushOutbox
  <2>2. q \in Seq(Transactions) /\ lv \in [Ids -> State \cup {None}] /\ u \in Seq(Ids)
    OBVIOUS
  <2>3. SendsThese(c, q, lv, u, Ids)
    BY <2>1, <2>2, SendDetails
  <2> QED BY <1>1, <2>3
<1>2. CASE c # "up"
  BY <1>2 DEF flushOutbox, Becomes
<1> QED BY <1>1, <1>2

-----------------------------------------------------------------------------
(* ... and what a step may do to it *)

\* The parts of the invariant and the types of the state.
LEMMA ClearParts ==
    ASSUME ClearInv
    PROVE  /\ Base /\ PageTypes /\ WireTypes /\ EntriesComeOnce /\ KeysAreOld
           /\ idbq \in Seq(Transactions) /\ (\A i \in 1..Len(idbq) : WellFormed(idbq[i]))
           /\ text \in [Ids -> Texts \cup {None}]
           /\ idb \in [Ids -> State \cup {None}] /\ live \in [Ids -> State \cup {None}]
           /\ up \in Seq(Ids) /\ down \in Seq(Messages) /\ ops \in Seq(Prompts) /\ key \in Nat
           /\ taken \in [Ids -> Nat]
           /\ \A id \in Ids : Attempt(id) /\ NewsIsUnsent(id)
  BY DEF ClearInv, Base, PageTypes, WireTypes

\* The prompts in N are sent; nothing else gets on its way.
LEMMA WayMoves ==
    ASSUME ClearInv, NEW N, UNCHANGED <<key, ops, running, taken>>, up' \in Seq(Ids),
           \A i \in 1..Len(up') : up'[i] \in N \/ \E j \in 1..Len(up) : up'[i] = up[j],
           down' = down \/ (down # <<>> /\ down' = Tail(down)),
           conn' = conn \/ (conn' = "up" /\ conn # "down"),
           conn' = "down" => N = {}
    PROVE  /\ \A id \in Ids : OnItsWay(id)' => OnItsWay(id) \/ id \in N
           /\ \A id \in Ids : Unsent(id) /\ id \notin N => Unsent(id)'
           /\ KeysAreOld'
<1>1. /\ down \in Seq(Messages) /\ KeysAreOld /\ up \in Seq(Ids)
  BY ClearParts
<1>2. \A i \in 1..Len(down') : \E j \in 1..Len(down) : down'[i] = down[j]
  <2>1. CASE down' = down
    BY <2>1
  <2>2. CASE down # <<>> /\ down' = Tail(down)
    <3>1. PICK d \in Seq(Messages) : d = down
      BY <1>1
    <3>0. d # <<>> /\ down' = Tail(d)
      BY <2>2, <3>1
    <3>2. /\ Len(down') = Len(d) - 1 /\ Len(d) \in Nat \ {0}
          /\ \A i \in 1..(Len(d) - 1) : down'[i] = d[i + 1]
      BY <3>0, TakeFacts
    <3> SUFFICES ASSUME NEW i \in 1..Len(down') PROVE \E j \in 1..Len(down) : down'[i] = down[j]
      OBVIOUS
    <3>3. i \in 1..(Len(d) - 1) /\ i + 1 \in 1..Len(d)
      BY <3>2
    <3>4. down'[i] = d[i + 1]
      BY <3>2, <3>3
    <3> QED BY <3>1, <3>3, <3>4
  <2> QED BY <2>1, <2>2
<1>3. ASSUME NEW id \in Ids, OnItsWay(id)', id \notin N PROVE OnItsWay(id)
  <2>1. conn' # "down" /\ conn # "down"
    BY <1>3 DEF OnItsWay
  <2>2. CASE \E i \in 1..Len(up') : up'[i] = id
    BY <1>3, <2>1, <2>2 DEF OnItsWay
  <2>3. CASE \E i \in 1..Len(down') : down'[i].type = "promptResult" /\ down'[i].id = id
    BY <1>2, <2>1, <2>3 DEF OnItsWay
  <2> QED BY <1>3, <2>1, <2>2, <2>3 DEF OnItsWay
<1>4. ASSUME NEW id \in Ids, Unsent(id), id \notin N PROVE Unsent(id)'
  <2>1. \A i \in 1..Len(up') : up'[i] # id
    BY <1>4 DEF Unsent
  <2>2. \A i \in 1..Len(down') : down'[i].type = "promptResult" => down'[i].id # id
    BY <1>2, <1>4 DEF Unsent
  <2> QED BY <1>4, <2>1, <2>2 DEF Unsent
<1>5. KeysAreOld'
  <2>1. ASSUME conn' = "down" PROVE up' = <<>> /\ down' = <<>>
    <3>1. conn = "down" /\ up = <<>> /\ down = <<>>
      BY <1>1, <2>1 DEF KeysAreOld
    <3>2. Len(up') \in Nat /\ 1 \notin 1..Len(up')
      BY <2>1, <3>1
    <3>3. Len(up') = 0
      BY <3>2
    <3> QED BY <3>1, <3>3
  <2> QED BY <1>1, <2>1 DEF KeysAreOld
<1> QED BY <1>3, <1>4, <1>5

\* An attempt whose first save is still to come has not been sent.
LEMMA NewsStays ==
    ASSUME ClearInv, idbq' \in Seq(Transactions), NEW k, Moved(k), NEW id \in Ids,
           text'[id] = None => text[id] = None,
           \A i \in Issued(k) : Names(idbq'[i], id) => text[id] = None \/ Named(id),
           Unsent(id) => Unsent(id)'
    PROVE  NewsIsUnsent(id)'
<1>1. idbq \in Seq(Transactions) /\ NewsIsUnsent(id)
  BY ClearParts
<1>2. ASSUME Named(id)' PROVE Named(id) \/ text[id] = None
  <2>1. CASE \E i \in Issued(k) : Names(idbq'[i], id)
    BY <2>1
  <2>2. CASE \A i \in Issued(k) : ~Names(idbq'[i], id)
    BY <1>1, <1>2, <2>2, NamedStays
  <2> QED BY <2>1, <2>2
<1> QED BY <1>1, <1>2 DEF NewsIsUnsent

\* A step that commits nothing and saves nothing to be sent.
LEMMA PageKeeps ==
    ASSUME ClearInv, Base', idbq' \in Seq(Transactions), Moved(0), idb' = idb,
           \A i \in Issued(0) : idbq'[i].op # "put" \/ idbq'[i].state = "rejected",
           \A i \in Issued(0) : \A id \in Ids : Clears(idbq'[i], id) => Over(id),
           \A i \in Issued(0) : \A id \in Ids : Names(idbq'[i], id) => text[id] = None,
           \A id \in Ids : text'[id] = None => text[id] = None,
           \A id \in Ids : live'[id] = live[id] \/ (live[id] # None /\ live'[id] = "rejected"),
           \A id \in Ids : id \in offer' => id \in offer \/ live'[id] = "rejected",
           \A id \in Ids : (OnItsWay(id)' => OnItsWay(id)) /\ (Unsent(id) => Unsent(id)'),
           KeysAreOld'
    PROVE  ClearInv'
<1>1. idbq \in Seq(Transactions)
  BY ClearParts
<1>2. ASSUME NEW id \in Ids PROVE Attempt(id)'
  <2>1. Attempt(id)
    BY <1>2, ClearParts
  <2>2. None # "rejected" /\ None # "queued"
    BY PromptAssumption DEF State
  <2>3. ASSUME Handed(id)', live'[id] # "rejected" PROVE Handed(id) \/ Over(id)
    <3>1. CASE Clearing(id)'
      BY <1>1, <3>1, ClearingMoves DEF Handed
    <3> QED BY <2>3, <3>1 DEF Handed
  <2>4. ASSUME live'[id] = "queued" PROVE idb'[id] # None /\ ~Handed(id)'
    <3>1. live[id] = "queued"
      BY <2>4
    <3> QED BY <2>1, <2>3, <2>4, <3>1 DEF Attempt, Over
  <2>5. \A i \in Issued(0) : ~Saves(idbq'[i], id)
    BY DEF Saves
  <2>6. live'[id] = None => live[id] = None
    BY <2>2
  <2> QED BY <1>1, <2>1, <2>2, <2>3, <2>4, <2>5, <2>6, AttemptKeeps
<1>3. ASSUME NEW id \in Ids PROVE NewsIsUnsent(id)'
  BY <1>3, NewsStays
<1> QED BY <1>2, <1>3 DEF ClearInv

\* A step of the socket, the hub or the daemon.
LEMMA ServerKeeps ==
    ASSUME ClearInv, Base', UNCHANGED page,
           \A id \in Ids : (OnItsWay(id)' => OnItsWay(id)) /\ (Unsent(id) => Unsent(id)'),
           KeysAreOld'
    PROVE  ClearInv'
<1>1. idbq \in Seq(Transactions) /\ idbq' = idbq /\ Len(idbq) \in Nat
  BY ClearParts DEF page
<1>2. Moved(0) /\ Issued(0) = {}
  BY <1>1 DEF Moved, Issued
<1>3. /\ UNCHANGED <<idb, text, live, offer>>
  BY DEF page
<1> QED BY <1>1, <1>2, <1>3, PageKeeps

\* Types of the hub.
LEMMA TextsOf ==
    ASSUME ClearInv
    PROVE  running \in [op : Prompts, outcome : AllOutcomes] \cup {None} /\ ledger \in Seq(Results)
  BY DEF ClearInv, Base, WireTypes

\* No connection, no verdict on its way.
LEMMA HangupMoves ==
    ASSUME ClearInv, Hangup, key' = key, taken' = taken,
           UNCHANGED <<ops, running>> \/ (ops' = <<>> /\ running' = None)
    PROVE  /\ \A id \in Ids : ~OnItsWay(id)' /\ (Unsent(id) => Unsent(id)')
           /\ KeysAreOld'
<1>1. conn' = "down" /\ up' = <<>> /\ down' = <<>> /\ KeysAreOld
  BY ClearParts DEF Hangup
<1>2. 1..Len(up') = {} /\ 1..Len(down') = {} /\ (ops' = <<>> => 1..Len(ops') = {})
  BY <1>1
<1>3. \A id \in Ids : ~OnItsWay(id)'
  BY <1>1 DEF OnItsWay
<1>4. \A id \in Ids : Unsent(id) => Unsent(id)'
  BY <1>2 DEF Unsent
<1>5. KeysAreOld'
  BY <1>1, <1>2 DEF KeysAreOld
<1> QED BY <1>3, <1>4, <1>5

\* A message is sent to the page, or not.
LEMMA SendsMoves ==
    ASSUME ClearInv, NEW k, NEW msg \in Results, Sends(k, msg)
    PROVE  /\ \A i \in 1..Len(down') : down'[i] = msg \/ \E j \in 1..Len(down) : down'[i] = down[j]
           /\ down' # down => k = key /\ conn # "down"
<1>1. down \in Seq(Messages) /\ msg \in Messages
  BY ClearParts DEF Results, Messages
<1>2. CASE down' = down
  BY <1>2
<1>3. CASE down' = Append(down, msg) /\ k = key /\ conn # "down"
  <2>1. /\ Len(down') = Len(down) + 1 /\ Len(down) \in Nat
        /\ \A i \in 1..Len(down) : down'[i] = down[i]
        /\ down'[Len(down) + 1] = msg
    BY <1>1, <1>3, AppendFacts
  <2>2. \A i \in 1..Len(down') : i \in 1..Len(down) \/ i = Len(down) + 1
    BY <2>1
  <2> QED BY <1>3, <2>1, <2>2
<1> QED BY <1>2, <1>3 DEF Sends

\* A new connection: nothing is on its way on it.
LEMMA ConnectClear ==
    ASSUME ClearInv, Base', Connect
    PROVE  ClearInv'
<1>1. /\ UNCHANGED page /\ UNCHANGED <<ops, running, taken>>
      /\ conn' = "open" /\ key' = key + 1 /\ up' = <<>> /\ down' = <<Hello>>
  BY DEF Connect, server
<1>2. KeysAreOld /\ key \in Nat /\ ops \in Seq(Prompts) /\ running \in [op : Prompts, outcome : AllOutcomes] \cup {None}
  BY ClearParts, TextsOf
<1>3. 1..Len(up') = {} /\ \A i \in 1..Len(down') : down'[i].type # "promptResult"
  BY <1>1 DEF Hello
<1>4. /\ \A i \in 1..Len(ops) : ops[i].key \in Nat /\ ops[i].key <= key
      /\ running # None => running.op.key \in Nat /\ running.op.key <= key
  <2>1. ASSUME NEW i \in 1..Len(ops) PROVE ops[i].key \in Nat /\ ops[i].key <= key
    <3>1. ops[i] \in Prompts
      BY <1>2, <2>1
    <3> QED BY <1>2, <2>1, <3>1 DEF KeysAreOld, Prompts
  <2>2. ASSUME running # None PROVE running.op.key \in Nat /\ running.op.key <= key
    <3>1. running.op \in Prompts
      BY <1>2, <2>2
    <3> QED BY <1>2, <2>2, <3>1 DEF KeysAreOld, Prompts
  <2> QED BY <2>1, <2>2
<1>5. /\ \A i \in 1..Len(ops') : ops'[i].key # key' /\ ops'[i].key <= key'
      /\ running' # None => running'.op.key # key' /\ running'.op.key <= key'
  BY <1>1, <1>2, <1>4
<1>6. \A id \in Ids : ~OnItsWay(id)'
  BY <1>3, <1>5 DEF OnItsWay
<1>7. \A id \in Ids : Unsent(id) => Unsent(id)'
  BY <1>1, <1>3 DEF Unsent
<1>8. KeysAreOld'
  BY <1>1, <1>5 DEF KeysAreOld
<1> QED BY <1>1, <1>6, <1>7, <1>8, ServerKeeps

\* A lost socket takes everything on its way with it.
LEMMA DisconnectClear ==
    ASSUME ClearInv, Base', Disconnect
    PROVE  ClearInv'
<1>1. UNCHANGED page /\ Hangup /\ key' = key /\ UNCHANGED <<ops, running, taken>>
  BY DEF Disconnect, server
<1>2. (\A id \in Ids : ~OnItsWay(id)' /\ (Unsent(id) => Unsent(id)')) /\ KeysAreOld'
  BY <1>1, HangupMoves
<1> QED BY <1>1, <1>2, ServerKeeps

\* ... and so does a hub that is killed.
LEMMA RestartClear ==
    ASSUME ClearInv, Base', Restart
    PROVE  ClearInv'
<1>1. UNCHANGED page /\ Hangup /\ key' = key /\ ops' = <<>> /\ running' = None /\ taken' = taken
  BY DEF Restart
<1>2. (\A id \in Ids : ~OnItsWay(id)' /\ (Unsent(id) => Unsent(id)')) /\ KeysAreOld'
  BY <1>1, HangupMoves
<1> QED BY <1>1, <1>2, ServerKeeps

\* A page that goes away leaves no transaction, no live entry, nothing on its way.
LEMMA ReloadClear ==
    ASSUME ClearInv, Base', Reload
    PROVE  ClearInv'
<1>1. /\ Hangup /\ key' = key /\ UNCHANGED <<ops, running, taken>>
      /\ idbq' = <<>> /\ live' = [id \in Ids |-> None] /\ offer' = {} /\ UNCHANGED <<text, idb>>
  BY DEF Reload, server
<1>2. (\A id \in Ids : ~OnItsWay(id)' /\ (Unsent(id) => Unsent(id)')) /\ KeysAreOld'
  BY <1>1, HangupMoves
<1>3. 1..Len(idbq') = {}
  BY <1>1
<1>4. ASSUME NEW id \in Ids PROVE Attempt(id)' /\ NewsIsUnsent(id)'
  <2>1. live'[id] # "queued"
    BY <1>1, PromptAssumption DEF State
  <2>2. ~Handed(id)'
    BY <1>1, <1>2, <1>3, <1>4 DEF Handed, Clearing
  <2>3. SavesComeFirst(id)'
    BY <1>3 DEF SavesComeFirst
  <2>4. ~Named(id)' /\ NewsIsUnsent(id)
    BY <1>3, <1>4, ClearParts DEF Named
  <2>5. NewsIsUnsent(id)'
    BY <1>1, <1>2, <1>4, <2>4 DEF NewsIsUnsent
  <2> QED BY <2>1, <2>2, <2>3, <2>5 DEF Attempt
<1> QED BY <1>2, <1>4 DEF ClearInv

\* The hub queues the prompt it reads or answers from its ledger: a verdict is still on its way.
LEMMA HandlePromptClear ==
    ASSUME ClearInv, Base', HandlePrompt
    PROVE  ClearInv'
<1>1. /\ UNCHANGED page /\ up # <<>> /\ up' = Tail(up) /\ UNCHANGED <<conn, key, running, taken>>
  BY DEF HandlePrompt
<1>2. /\ KeysAreOld /\ up \in Seq(Ids) /\ key \in Nat /\ ops \in Seq(Prompts) /\ ledger \in Seq(Results)
      /\ down \in Seq(Messages)
  BY ClearParts, TextsOf
<1>3. conn # "down"
  BY <1>1, <1>2 DEF KeysAreOld
<1>4. PICK m \in Ids : m = Head(up) /\ \E j \in 1..Len(up) : up[j] = m
  BY <1>1, <1>2, TakeFacts
<1>5. \A i \in 1..Len(up') : \E j \in 1..Len(up) : up'[i] = up[j]
  <2>1. /\ Len(up') = Len(up) - 1 /\ Len(up) \in Nat \ {0}
        /\ \A i \in 1..(Len(up) - 1) : up'[i] = up[i + 1]
    BY <1>1, <1>2, TakeFacts
  <2> SUFFICES ASSUME NEW i \in 1..Len(up') PROVE \E j \in 1..Len(up) : up'[i] = up[j]
    OBVIOUS
  <2>2. i + 1 \in 1..Len(up) /\ up'[i] = up[i + 1]
    BY <2>1
  <2> QED BY <2>2
<1>6. /\ \A i \in 1..Len(ops') : (\E j \in 1..Len(ops) : ops'[i] = ops[j])
                                 \/ (ops'[i].id = m /\ ops'[i].key = key)
      /\ \A i \in 1..Len(down') : (\E j \in 1..Len(down) : down'[i] = down[j]) \/ down'[i].id = m
  <2>1. CASE Ledgered(Head(up))
    <3>1. ops' = ops /\ \E i \in DOMAIN ledger : ledger[i].id = m /\ Sends(key, ledger[i])
      BY <1>4, <2>1 DEF HandlePrompt
    <3>2. PICK k, r : k = key /\ r \in Results /\ r.id = m /\ Sends(k, r)
      <4>1. PICK k : k = key
        OBVIOUS
      <4>2. PICK i \in DOMAIN ledger : ledger[i].id = m /\ Sends(k, ledger[i])
        BY <3>1, <4>1
      <4>3. PICK r : r = ledger[i]
        OBVIOUS
      <4>4. r \in Results
        BY <1>2, <4>2, <4>3
      <4> QED BY <4>1, <4>2, <4>3, <4>4
    <3>3. \A i \in 1..Len(down') : down'[i] = r \/ \E j \in 1..Len(down) : down'[i] = down[j]
      BY <3>2, SendsMoves
    <3> QED BY <3>1, <3>2, <3>3
  <2>2. CASE ~Ledgered(Head(up))
    <3>1. PICK e : e = [id |-> m, key |-> key]
      OBVIOUS
    <3>2. e \in Prompts /\ e.id = m /\ e.key = key
      BY <1>2, <1>4, <3>1 DEF Prompts
    <3>3. ops' = Append(ops, e) /\ down' = down
      BY <1>4, <2>2, <3>1 DEF HandlePrompt
    <3>4. /\ Len(ops') = Len(ops) + 1 /\ Len(ops) \in Nat
          /\ \A i \in 1..Len(ops) : ops'[i] = ops[i]
          /\ ops'[Len(ops) + 1] = e
      BY <1>2, <3>2, <3>3, AppendFacts
    <3>5. \A i \in 1..Len(ops') : i \in 1..Len(ops) \/ i = Len(ops) + 1
      BY <3>4
    <3> QED BY <3>2, <3>3, <3>4, <3>5
  <2> QED BY <2>1, <2>2
<1>7. ASSUME NEW id \in Ids, OnItsWay(id)' PROVE OnItsWay(id)
  <2>1. CASE id = m
    BY <1>3, <1>4, <2>1 DEF OnItsWay
  <2>2. CASE id # m
    <3>1. CASE \E i \in 1..Len(up') : up'[i] = id
      BY <1>3, <1>5, <3>1 DEF OnItsWay
    <3>2. CASE \E i \in 1..Len(ops') : ops'[i].id = id /\ ops'[i].key = key
      BY <1>3, <1>6, <2>2, <3>2 DEF OnItsWay
    <3>3. CASE \E i \in 1..Len(down') : down'[i].type = "promptResult" /\ down'[i].id = id
      BY <1>3, <1>6, <2>2, <3>3 DEF OnItsWay
    <3> QED BY <1>1, <1>7, <3>1, <3>2, <3>3 DEF OnItsWay
  <2> QED BY <2>1, <2>2
<1>8. ASSUME NEW id \in Ids, Unsent(id) PROVE Unsent(id)'
  <2>1. id # m
    BY <1>4, <1>8 DEF Unsent
  <2>2. /\ \A i \in 1..Len(up') : up'[i] # id
        /\ \A i \in 1..Len(ops') : ops'[i].id # id
        /\ \A i \in 1..Len(down') : down'[i].type = "promptResult" => down'[i].id # id
    BY <1>5, <1>6, <1>8, <2>1 DEF Unsent
  <2> QED BY <1>1, <1>8, <2>2 DEF Unsent
<1>9. KeysAreOld'
  <2>1. ASSUME NEW i \in 1..Len(ops') PROVE ops'[i].key <= key
    <3>1. CASE \E j \in 1..Len(ops) : ops'[i] = ops[j]
      BY <1>2, <3>1 DEF KeysAreOld
    <3>2. CASE ops'[i].key = key
      BY <1>2, <3>2
    <3> QED BY <1>6, <2>1, <3>1, <3>2
  <2> QED BY <1>1, <1>2, <1>3, <2>1 DEF KeysAreOld
<1> QED BY <1>1, <1>7, <1>8, <1>9, ServerKeeps

\* The applier starts a prompt.
LEMMA StartPromptClear ==
    ASSUME ClearInv, Base', NEW outcome \in Outcomes, StartPrompt(outcome)
    PROVE  ClearInv'
<1>1. PICK o : o = Head(ops)
  OBVIOUS
<1>2. /\ UNCHANGED page /\ UNCHANGED <<conn, key, up, down>> /\ ops # <<>> /\ running = None
      /\ ops' = Tail(ops) /\ running' = [op |-> o, outcome |-> outcome]
      /\ taken' = [taken EXCEPT ![o.id] = IF outcome \in {"accepted", "replyLost"} THEN @ + 1 ELSE @]
  BY <1>1 DEF StartPrompt
<1>3. KeysAreOld /\ ops \in Seq(Prompts) /\ taken \in [Ids -> Nat]
  BY ClearParts
<1>4. \E j \in 1..Len(ops) : ops[j] = o
  BY <1>1, <1>2, <1>3, TakeFacts
<1>5. \A i \in 1..Len(ops') : \E j \in 1..Len(ops) : ops'[i] = ops[j]
  <2>1. /\ Len(ops') = Len(ops) - 1 /\ Len(ops) \in Nat \ {0}
        /\ \A i \in 1..(Len(ops) - 1) : ops'[i] = ops[i + 1]
    BY <1>2, <1>3, TakeFacts
  <2> SUFFICES ASSUME NEW i \in 1..Len(ops') PROVE \E j \in 1..Len(ops) : ops'[i] = ops[j]
    OBVIOUS
  <2>2. i + 1 \in 1..Len(ops) /\ ops'[i] = ops[i + 1]
    BY <2>1
  <2> QED BY <2>2
<1>6. running'.op = o /\ \A id \in Ids : id # o.id => taken'[id] = taken[id]
  BY <1>2, <1>3
<1>7. ASSUME NEW id \in Ids, OnItsWay(id)' PROVE OnItsWay(id)
  <2>1. CASE o.id = id /\ o.key = key
    <3>1. conn # "down"
      BY <1>2, <1>7 DEF OnItsWay
    <3> QED BY <1>4, <2>1, <3>1 DEF OnItsWay
  <2>2. CASE ~(o.id = id /\ o.key = key)
    BY <1>2, <1>5, <1>6, <1>7, <2>2 DEF OnItsWay
  <2> QED BY <2>1, <2>2
<1>8. ASSUME NEW id \in Ids, Unsent(id) PROVE Unsent(id)'
  <2>1. o.id # id
    BY <1>4, <1>8 DEF Unsent
  <2> QED BY <1>2, <1>5, <1>6, <1>8, <2>1 DEF Unsent
<1>9. KeysAreOld'
  BY <1>2, <1>3, <1>4, <1>5, <1>6 DEF KeysAreOld
<1> QED BY <1>2, <1>7, <1>8, <1>9, ServerKeeps

\* The verdict goes to the connection that asked.
LEMMA FinishPromptClear ==
    ASSUME ClearInv, Base', FinishPrompt
    PROVE  ClearInv'
<1>1. PICK k, r : k = running.op.key /\ r = Result(running.op.id, running.outcome = "accepted")
  OBVIOUS
<1>2. /\ UNCHANGED page /\ UNCHANGED <<conn, key, up, ops, taken>> /\ running # None /\ running' = None
      /\ Sends(k, r)
  BY <1>1 DEF FinishPrompt
<1>3. KeysAreOld /\ running \in [op : Prompts, outcome : AllOutcomes]
  BY <1>2, ClearParts, TextsOf
<1>4. r \in Results /\ r.id = running.op.id
  <2>1. running.op.id \in Ids /\ (running.outcome = "accepted") \in BOOLEAN
    BY <1>3 DEF Prompts
  <2> QED BY <1>1, <2>1 DEF Result, Results
<1>5. /\ \A i \in 1..Len(down') : down'[i] = r \/ \E j \in 1..Len(down) : down'[i] = down[j]
      /\ down' # down => k = key /\ conn # "down"
  BY <1>2, <1>4, SendsMoves
<1>6. ASSUME NEW id \in Ids, OnItsWay(id)' PROVE OnItsWay(id)
  <2>0. conn # "down"
    BY <1>2, <1>6 DEF OnItsWay
  <2>1. CASE down' = down
    BY <1>2, <1>6, <2>1 DEF OnItsWay
  <2>2. CASE k = key
    BY <1>1, <1>2, <1>4, <1>5, <1>6, <2>0, <2>2 DEF OnItsWay
  <2> QED BY <1>5, <2>1, <2>2
<1>7. ASSUME NEW id \in Ids, Unsent(id) PROVE Unsent(id)'
  <2>1. r.id # id
    BY <1>2, <1>4, <1>7 DEF Unsent
  <2>2. \A i \in 1..Len(down') : down'[i].type = "promptResult" => down'[i].id # id
    BY <1>5, <1>7, <2>1 DEF Unsent
  <2> QED BY <1>2, <1>7, <2>2 DEF Unsent
<1>8. KeysAreOld'
  BY <1>2, <1>3, <1>5 DEF KeysAreOld
<1> QED BY <1>2, <1>6, <1>7, <1>8, ServerKeeps

\* One transaction is issued.
LEMMA IssueClear ==
    ASSUME ClearInv, Base', NEW e \in Transactions, WellFormed(e), idbq' = Append(idbq, e), idb' = idb,
           e.op # "put" \/ e.state = "rejected",
           \A id \in Ids : Clears(e, id) => Over(id),
           \A id \in Ids : Names(e, id) => text[id] = None,
           \A id \in Ids : text'[id] = None => text[id] = None,
           \A id \in Ids : live'[id] = live[id] \/ (live[id] # None /\ live'[id] = "rejected"),
           \A id \in Ids : id \in offer' => id \in offer \/ live'[id] = "rejected",
           \A id \in Ids : (OnItsWay(id)' => OnItsWay(id)) /\ (Unsent(id) => Unsent(id)'),
           KeysAreOld'
    PROVE  ClearInv'
<1>1. idbq' \in Seq(Transactions) /\ Moved(0) /\ \A i \in Issued(0) : idbq'[i] = e
  BY ClearParts, AppendMoves
<1> QED BY <1>1, PageKeeps

\* The wire in a step of the page that sends nothing.
LEMMA WayStays ==
    ASSUME ClearInv, UNCHANGED <<key, ops, running, taken, up>>,
           down' = down \/ (down # <<>> /\ down' = Tail(down)),
           conn' = conn \/ (conn' = "up" /\ down # <<>>)
    PROVE  /\ \A id \in Ids : (OnItsWay(id)' => OnItsWay(id)) /\ (Unsent(id) => Unsent(id)')
           /\ KeysAreOld'
<1>1. up \in Seq(Ids) /\ KeysAreOld
  BY ClearParts
<1>2. \A i \in 1..Len(up') : up'[i] \in {} \/ \E j \in 1..Len(up) : up'[i] = up[j]
  OBVIOUS
<1>3. conn' = conn \/ (conn' = "up" /\ conn # "down")
  BY <1>1 DEF KeysAreOld
<1>4. PICK N : N = {}
  OBVIOUS
<1>5. /\ \A id \in Ids : OnItsWay(id)' => OnItsWay(id) \/ id \in N
      /\ \A id \in Ids : Unsent(id) /\ id \notin N => Unsent(id)'
      /\ KeysAreOld'
  BY <1>1, <1>2, <1>3, <1>4, WayMoves
<1> QED BY <1>4, <1>5

\* What the page was handed back is over.
LEMMA RejectedIsOver ==
    ASSUME NEW id \in Ids, live[id] = "rejected"
    PROVE  Over(id)
  BY PromptAssumption DEF Over, State

\* A save is issued.
LEMMA SubmitClear ==
    ASSUME ClearInv, Base', NEW t \in Texts, NEW id \in Ids, Submit(t, id)
    PROVE  ClearInv'
<1>1. /\ text[id] = None /\ text' = [text EXCEPT ![id] = t] /\ idbq' = Append(idbq, Issue("save", id))
      /\ UNCHANGED <<idb, live, offer, conn, key, up, down, ops, running, taken>>
  BY DEF Submit, Fresh, server
<1>2. PICK e : e = Issue("save", id)
  OBVIOUS
<1>3. e \in Transactions /\ WellFormed(e) /\ e.op = "save" /\ e.id = id
  BY <1>2, IssueIs
<1>4. /\ \A x \in Ids : ~Clears(e, x) /\ (Names(e, x) => x = id)
      /\ \A x \in Ids : text'[x] = None => text[x] = None
  BY <1>1, <1>3, ClearParts DEF Clears, Names
<1>5. (\A x \in Ids : (OnItsWay(x)' => OnItsWay(x)) /\ (Unsent(x) => Unsent(x)')) /\ KeysAreOld'
  BY <1>1, WayStays
<1> QED BY <1>1, <1>2, <1>3, <1>4, <1>5, IssueClear

\* A rejected entry is to be replaced.
LEMMA UserRetryClear ==
    ASSUME ClearInv, Base', NEW id \in Ids, NEW new \in Ids, UserRetry(id, new)
    PROVE  ClearInv'
<1>1. /\ live[id] = "rejected" /\ text[new] = None /\ text' = [text EXCEPT ![new] = text[id]]
      /\ idbq' = Append(idbq, Replace(id, new))
      /\ UNCHANGED <<idb, live, offer, conn, key, up, down, ops, running, taken>>
  BY DEF UserRetry, Fresh, server
<1>2. PICK e : e = Replace(id, new)
  OBVIOUS
<1>3. e \in Transactions /\ WellFormed(e) /\ e.op = "retry" /\ e.id = id /\ e.new = new
  BY <1>2 DEF Replace, Transactions, WellFormed
<1>4. /\ \A x \in Ids : (Clears(e, x) => x = id) /\ (Names(e, x) => x = new)
      /\ \A x \in Ids : text'[x] = None => text[x] = None
  BY <1>1, <1>3, ClearParts DEF Clears, Names
<1>5. (\A x \in Ids : (OnItsWay(x)' => OnItsWay(x)) /\ (Unsent(x) => Unsent(x)')) /\ KeysAreOld'
  BY <1>1, WayStays
<1>6. Over(id)
  BY <1>1, RejectedIsOver
<1> QED BY <1>1, <1>2, <1>3, <1>4, <1>5, <1>6, IssueClear

\* An attempt that is over is to be cleared.
LEMMA ClearsOver ==
    ASSUME ClearInv, Base', NEW id \in Ids, NEW what \in {"settle", "edit"}, Over(id),
           idbq' = Append(idbq, Issue(what, id)), UNCHANGED <<text, idb, live>>, offer' \subseteq offer,
           \A x \in Ids : (OnItsWay(x)' => OnItsWay(x)) /\ (Unsent(x) => Unsent(x)'),
           KeysAreOld'
    PROVE  ClearInv'
<1>2. PICK e : e = Issue(what, id)
  OBVIOUS
<1>3. e \in Transactions /\ WellFormed(e) /\ e.op = what /\ e.id = id
  BY <1>2, IssueIs
<1>4. \A x \in Ids : (Clears(e, x) => x = id) /\ ~Names(e, x)
  BY <1>3 DEF Clears, Names
<1>5. e.op # "put" /\ idbq' = Append(idbq, e)
  BY <1>2, <1>3
<1>6. \A x \in Ids : x \in offer' => x \in offer \/ live'[x] = "rejected"
  OBVIOUS
<1> QED BY <1>3, <1>4, <1>5, <1>6, IssueClear

\* A rejected entry is to go back to the composer.
LEMMA UserEditClear ==
    ASSUME ClearInv, Base', NEW id \in Ids, UserEdit(id)
    PROVE  ClearInv'
<1>1. /\ live[id] = "rejected" /\ idbq' = Append(idbq, Issue("edit", id))
      /\ UNCHANGED <<text, idb, live, offer, conn, key, up, down, ops, running, taken>>
  BY DEF UserEdit, server
<1>2. (\A x \in Ids : (OnItsWay(x)' => OnItsWay(x)) /\ (Unsent(x) => Unsent(x)')) /\ KeysAreOld'
  BY <1>1, WayStays
<1>3. Over(id)
  BY <1>1, RejectedIsOver
<1> QED BY <1>1, <1>2, <1>3, ClearsOver

\* An entry offered back is to go.
LEMMA UserRestoreClear ==
    ASSUME ClearInv, Base', NEW id \in Ids, UserRestore(id)
    PROVE  ClearInv'
<1>1. /\ id \in offer /\ offer' = offer \ {id} /\ idbq' = Append(idbq, Issue("settle", id))
      /\ UNCHANGED <<text, idb, live, conn, key, up, down, ops, running, taken>>
  BY DEF UserRestore, restoreFailedDraft, server
<1>2. (\A x \in Ids : (OnItsWay(x)' => OnItsWay(x)) /\ (Unsent(x) => Unsent(x)')) /\ KeysAreOld'
  BY <1>1, WayStays
<1>3. Over(id)
  BY <1>1, ClearParts DEF Attempt, Handed
<1> QED BY <1>1, <1>2, <1>3, ClearsOver

\* The prompt of the verdict that arrives is over, or still waits for it.
LEMMA VerdictFacts ==
    ASSUME ClearInv, Receives("promptResult")
    PROVE  /\ Head(down).id \in Ids /\ Over(Head(down).id)
           /\ down # <<>> /\ down' = Tail(down)
<1>1. /\ KeysAreOld /\ down \in Seq(Messages) /\ down # <<>> /\ down' = Tail(down)
      /\ \A i \in 1..Len(down) : down[i].type = "promptResult" => down[i].id \in Ids
  BY ClearParts DEF Receives, WireTypes
<1>2. 1 \in 1..Len(down) /\ Head(down) = down[1] /\ down[1].type = "promptResult"
  BY <1>1, TakeFacts DEF Receives
<1>3. PICK id \in Ids : id = Head(down).id
  BY <1>1, <1>2
<1>4. OnItsWay(id)
  BY <1>1, <1>2, <1>3 DEF OnItsWay, KeysAreOld
<1>5. Over(id)
  BY <1>3, <1>4, ClearParts DEF Attempt, Handed
<1> QED BY <1>1, <1>3, <1>5

\* A step that issues nothing and only takes a message.
LEMMA NothingIssued ==
    ASSUME ClearInv, Base', UNCHANGED <<text, idb, idbq, live, offer>>,
           \A x \in Ids : (OnItsWay(x)' => OnItsWay(x)) /\ (Unsent(x) => Unsent(x)'),
           KeysAreOld'
    PROVE  ClearInv'
<1>1. idbq \in Seq(Transactions) /\ idbq' = idbq /\ Len(idbq) \in Nat
  BY ClearParts
<1>2. Moved(0) /\ Issued(0) = {}
  BY <1>1 DEF Moved, Issued
<1> QED BY <1>1, <1>2, PageKeeps

\* An accepted prompt is to be deleted: it was on its way, so it is over.
LEMMA OnAcceptedClear ==
    ASSUME ClearInv, Base', OnAccepted
    PROVE  ClearInv'
<1>1. PICK id : id = Head(down).id
  OBVIOUS
<1>2. /\ id \in Ids /\ Over(id) /\ down # <<>> /\ down' = Tail(down)
  BY <1>1, VerdictFacts DEF OnAccepted
<1>3. /\ idbq' = IF live[id] = None THEN idbq ELSE Append(idbq, Issue("settle", id))
      /\ UNCHANGED <<text, idb, live, offer, conn, key, up, ops, running, taken>>
  BY <1>1 DEF OnAccepted, server
<1>4. (\A x \in Ids : (OnItsWay(x)' => OnItsWay(x)) /\ (Unsent(x) => Unsent(x)')) /\ KeysAreOld'
  BY <1>2, <1>3, WayStays
<1>5. CASE live[id] = None
  BY <1>3, <1>4, <1>5, NothingIssued
<1>6. CASE live[id] # None
  BY <1>2, <1>3, <1>4, <1>6, ClearsOver
<1> QED BY <1>5, <1>6

\* A failed draft is to be deleted, for the same reason.
LEMMA OnCreateFailedClear ==
    ASSUME ClearInv, Base', OnCreateFailed
    PROVE  ClearInv'
<1>1. PICK id : id = Head(down).id
  OBVIOUS
<1>2. /\ id \in Ids /\ Over(id) /\ down # <<>> /\ down' = Tail(down)
  BY <1>1, VerdictFacts DEF OnCreateFailed
<1>3. /\ idbq' = Append(idbq, Issue("settle", id))
      /\ UNCHANGED <<text, idb, live, offer, conn, key, up, ops, running, taken>>
  BY <1>1 DEF OnCreateFailed, restoreFailedDraft, server
<1>4. (\A x \in Ids : (OnItsWay(x)' => OnItsWay(x)) /\ (Unsent(x) => Unsent(x)')) /\ KeysAreOld'
  BY <1>2, <1>3, WayStays
<1> QED BY <1>2, <1>3, <1>4, ClearsOver

\* A refused prompt is saved as rejected.
LEMMA OnRejectedClear ==
    ASSUME ClearInv, Base', OnRejected
    PROVE  ClearInv'
<1>1. PICK id : id = Head(down).id
  OBVIOUS
<1>2. /\ id \in Ids /\ down # <<>> /\ down' = Tail(down)
  BY <1>1, VerdictFacts DEF OnRejected
<1>3. /\ IF live[id] = None THEN UNCHANGED <<live, idbq, offer>>
         ELSE /\ live' = [live EXCEPT ![id] = "rejected"]
              /\ idbq' = Append(idbq, Put(id, "rejected"))
              /\ offer' = IF text[id] \in Creates THEN offer \cup {id} ELSE offer
      /\ UNCHANGED <<text, idb, conn, key, up, ops, running, taken>>
  BY <1>1 DEF OnRejected, server
<1>4. (\A x \in Ids : (OnItsWay(x)' => OnItsWay(x)) /\ (Unsent(x) => Unsent(x)')) /\ KeysAreOld'
  BY <1>2, <1>3, WayStays
<1>5. CASE live[id] = None
  BY <1>3, <1>4, <1>5, NothingIssued
<1>6. CASE live[id] # None
  <2>1. PICK e : e = Put(id, "rejected")
    OBVIOUS
  <2>2. e \in Transactions /\ WellFormed(e) /\ e.op = "put" /\ e.state = "rejected"
    BY <1>2, <2>1, PutIs DEF Put, State
  <2>3. \A x \in Ids : ~Clears(e, x) /\ ~Names(e, x)
    BY <2>2 DEF Clears, Names
  <2>4. \A x \in Ids : live'[x] = live[x] \/ (live[x] # None /\ live'[x] = "rejected")
    BY <1>2, <1>3, <1>6, ClearParts
  <2>5. \A x \in Ids : x \in offer' => x \in offer \/ live'[x] = "rejected"
    BY <1>2, <1>3, <1>6, ClearParts
  <2>6. idbq' = Append(idbq, e)
    BY <1>3, <1>6, <2>1
  <2> QED BY <1>3, <1>4, <2>2, <2>3, <2>4, <2>5, <2>6, IssueClear
<1> QED BY <1>5, <1>6

-----------------------------------------------------------------------------
(* Steps that send prompts *)

\* The entries lv go out: those of ids that are not rejected.
Sending(c, q, lv, ids) ==
    /\ lv \in [Ids -> State \cup {None}]
    /\ SendsThese(c, q, lv, up, ids)
    /\ c = "down" <=> conn' = "down"
    /\ c = "down" => \A id \in ids : lv[id] = "queued"

\* What the entries about to go out are.
Sound(lv) ==
    /\ \A id \in Ids : lv[id] = "queued" => idb'[id] # None /\ ~Handed(id)
    /\ \A id \in Ids : live[id] # None => lv[id] # None
    /\ \A id \in Ids : idb'[id] = idb[id] \/ (idb'[id] # None /\ lv[id] # None)
    /\ \A id \in Ids : lv[id] # None => text[id] # None /\ ~Named(id)'

\* A step that sends prompts: they were not handed to anybody, and become "sending" or stay queued
\* while nothing goes out.
LEMMA SendingClear ==
    ASSUME ClearInv, Base', idbq' \in Seq(Transactions), up' \in Seq(Ids),
           NEW k, Moved(k), NEW c, NEW q, NEW lv, NEW ids \in SUBSET Ids,
           Sending(c, q, lv, ids), Sound(lv),
           Issued(k) = (Len(q) + 1)..Len(idbq'),
           UNCHANGED <<key, ops, running, taken, text, offer>>,
           down' = down \/ (down # <<>> /\ down' = Tail(down)),
           conn' = conn \/ (conn' = "up" /\ conn # "down")
    PROVE  ClearInv'
<1>1. PICK N : N = {id \in Ids : c # "down" /\ Goes(ids, lv, id)}
  OBVIOUS
<1>2. /\ idbq \in Seq(Transactions) /\ EntriesComeOnce
      /\ lv \in [Ids -> State \cup {None}]
      /\ \A id \in Ids : live'[id] = IF Goes(ids, lv, id) THEN NewState(c) ELSE lv[id]
      /\ \A i \in Issued(k) :
            /\ idbq'[i].op = "put" /\ idbq'[i].state = NewState(c)
            /\ Goes(ids, lv, idbq'[i].id) /\ lv[idbq'[i].id] # NewState(c)
      /\ \A i \in 1..Len(up') : (\E j \in 1..Len(up) : up'[i] = up[j]) \/ (c # "down" /\ Goes(ids, lv, up'[i]))
  BY ClearParts DEF Sending, SendsThese
<1>3. /\ NewState(c) \in {"queued", "sending"} /\ (NewState(c) = "queued" => c = "down")
      /\ None \notin {"queued", "sending", "rejected"}
  BY PromptAssumption DEF NewState, State
<1>4. /\ \A id \in Ids : OnItsWay(id)' => OnItsWay(id) \/ id \in N
      /\ \A id \in Ids : Unsent(id) /\ id \notin N => Unsent(id)'
      /\ KeysAreOld'
  <2>1. \A i \in 1..Len(up') : up'[i] \in N \/ \E j \in 1..Len(up) : up'[i] = up[j]
    BY <1>1, <1>2 DEF Goes
  <2>2. conn' = "down" => N = {}
    BY <1>1 DEF Sending
  <2> QED BY <2>1, <2>2, WayMoves
<1>5. ASSUME NEW id \in Ids, Handed(id)', id \notin N PROVE Handed(id)
  <2>1. CASE Clearing(id)'
    <3>1. \A i \in Issued(k) : ~Clears(idbq'[i], id)
      BY <1>2 DEF Clears
    <3> QED BY <1>2, <2>1, <3>1, ClearingMoves DEF Handed
  <2>2. CASE OnItsWay(id)'
    BY <1>4, <1>5, <2>2 DEF Handed
  <2> QED BY <1>5, <2>1, <2>2 DEF Handed
<1>6. ASSUME NEW id \in Ids PROVE Attempt(id)'
  <2>1. Attempt(id)
    BY <1>6, ClearParts
  <2>2. /\ live'[id] = IF Goes(ids, lv, id) THEN NewState(c) ELSE lv[id]
        /\ lv[id] = "queued" => idb'[id] # None /\ ~Handed(id)
        /\ live[id] # None => lv[id] # None
        /\ idb'[id] = idb[id] \/ (idb'[id] # None /\ lv[id] # None)
        /\ id \in N <=> c # "down" /\ Goes(ids, lv, id)
        /\ lv[id] \in State \cup {None}
    BY <1>1, <1>2, <1>6 DEF Sound
  <2>3. ASSUME live'[id] = "queued" PROVE idb'[id] # None /\ ~Handed(id)'
    <3>1. lv[id] = "queued" /\ id \notin N
      BY <1>3, <2>2, <2>3 DEF Goes, Sending
    <3> QED BY <1>5, <2>2, <3>1
  <2>4. ASSUME NEW i \in Issued(k), Saves(idbq'[i], id)
        PROVE  /\ idb'[id] # None /\ live'[id] # None /\ ~Clearing(id)
               /\ \A j \in Issued(k) : ~Clears(idbq'[j], id)
    <3>1. Goes(ids, lv, id) /\ lv[id] # NewState(c)
      BY <1>2, <2>4 DEF Saves
    <3>2. lv[id] = "queued"
      BY <1>3, <2>2, <3>1 DEF Goes, Sending, State
    <3>3. \A j \in Issued(k) : ~Clears(idbq'[j], id)
      BY <1>2 DEF Clears
    <3> QED BY <1>3, <2>2, <3>1, <3>2, <3>3 DEF Handed
  <2>5. ASSUME live'[id] = None PROVE lv[id] = None /\ live[id] = None /\ id \notin N
    BY <1>3, <2>2, <2>5
  <2>6. live'[id] = None /\ Handed(id)' => Handed(id) \/ Over(id)
    BY <1>5, <2>5
  <2>7. idb'[id] = None => idb[id] = None
    BY <2>2
  <2>8. live'[id] = None => idb'[id] = idb[id]
    BY <2>2, <2>5
  <2> QED BY <1>2, <2>1, <2>3, <2>4, <2>5, <2>6, <2>7, <2>8, AttemptKeeps
<1>7. ASSUME NEW id \in Ids PROVE NewsIsUnsent(id)'
  <2>1. CASE lv[id] = None
    <3>1. id \notin N
      BY <1>1, <2>1 DEF Goes
    <3>2. \A i \in Issued(k) : Names(idbq'[i], id) => text[id] = None \/ Named(id)
      BY <1>2 DEF Names
    <3>3. Unsent(id) => Unsent(id)'
      BY <1>4, <1>7, <3>1
    <3> QED BY <1>7, <3>2, <3>3, NewsStays
  <2>2. CASE lv[id] # None
    <3>1. text'[id] # None /\ ~Named(id)'
      BY <1>7, <2>2 DEF Sound
    <3> QED BY <3>1 DEF NewsIsUnsent
  <2> QED BY <2>1, <2>2
<1> QED BY <1>4, <1>6, <1>7 DEF ClearInv

\* An attempt with an entry has its text and is not to be named again.
LEMMA EntryIsNamed ==
    ASSUME EntriesComeOnce, idbq \in Seq(Transactions), idbq' \in Seq(Transactions), NEW k, Moved(k),
           \A i \in Issued(k) : idbq'[i].op = "put",
           NEW id \in Ids, live[id] # None \/ idb[id] # None
    PROVE  text[id] # None /\ ~Named(id)'
<1>1. ~Free(id)
  BY DEF Free
<1>2. text[id] # None /\ ~Named(id)
  BY <1>1 DEF EntriesComeOnce
<1>3. \A i \in Issued(k) : ~Names(idbq'[i], id)
  BY DEF Names
<1> QED BY <1>2, <1>3, NamedStays

\* Everything unsettled goes out again, or the outbox is loaded.
LEMMA OnHelloClear ==
    ASSUME ClearInv, Base', OnHello
    PROVE  ClearInv'
<1>0. /\ PageTypes /\ EntriesComeOnce /\ KeysAreOld /\ idbq \in Seq(Transactions) /\ Len(idbq) \in Nat
      /\ live \in [Ids -> State \cup {None}] /\ up \in Seq(Ids)
  BY ClearParts
<1>1. /\ down # <<>> /\ down' = Tail(down) /\ conn' = "up"
      /\ UNCHANGED <<text, idb, offer, key, ops, running, taken>>
  BY DEF OnHello, Receives, server
<1>c. conn # "down"
  BY <1>0, <1>1 DEF KeysAreOld
<1>2. CASE hydrated
  <2>1. PICK c, q, lv, u : c = "up" /\ q = idbq /\ lv = live /\ u = up
    OBVIOUS
  <2>2. flushOutbox(c, [live |-> lv, idbq |-> q, up |-> u])
    BY <1>2, <2>1 DEF OnHello, Outbox
  <2>3. q \in Seq(Transactions) /\ lv \in [Ids -> State \cup {None}] /\ u \in Seq(Ids)
    BY <1>0, <2>1
  <2>4. SendsOnly(q, lv)
    BY <2>2, <2>3, FlushFacts
  <2>5. SendsThese(c, q, lv, u, Ids)
    BY <2>1, <2>2, <2>3, FlushDetails
  <2>6. Sent(0, q, lv) /\ 0 \in {0, 1}
    BY <2>1, <2>4 DEF Sent
  <2>7. /\ idbq' \in Seq(Transactions) /\ Moved(0) /\ up' \in Seq(Ids)
        /\ \A i \in Issued(0) : idbq'[i].op = "put"
    BY <1>0, <2>4, <2>6, SentMoves DEF SendsOnly
  <2>8. Issued(0) = (Len(q) + 1)..Len(idbq')
    BY <1>0, <2>1 DEF Issued
  <2>9. Sending(c, q, lv, Ids)
    BY <1>1, <2>1, <2>3, <2>5 DEF Sending
  <2>10. Sound(lv)
    <3>1. ASSUME NEW id \in Ids, live[id] = "queued" PROVE idb[id] # None /\ ~Handed(id)
      BY <3>1, ClearParts DEF Attempt, Over
    <3>2. ASSUME NEW id \in Ids, live[id] # None PROVE text[id] # None /\ ~Named(id)'
      BY <1>0, <2>7, <3>2, EntryIsNamed
    <3> QED BY <1>1, <2>1, <3>1, <3>2 DEF Sound
  <2> QED BY <1>1, <1>c, <2>7, <2>8, <2>9, <2>10, SendingClear
<1>3. CASE ~hydrated
  <2>1. PICK e : e = Issue("load", None)
    OBVIOUS
  <2>2. idbq' = Append(idbq, e) /\ UNCHANGED <<live, up>>
    BY <1>3, <2>1 DEF OnHello
  <2>3. e \in Transactions /\ WellFormed(e) /\ e.op = "load"
    BY <2>1 DEF Issue, Transactions, WellFormed
  <2>4. \A x \in Ids : ~Clears(e, x) /\ ~Names(e, x)
    BY <2>3 DEF Clears, Names
  <2>5. (\A x \in Ids : (OnItsWay(x)' => OnItsWay(x)) /\ (Unsent(x) => Unsent(x)')) /\ KeysAreOld'
    BY <1>1, <2>2, WayStays
  <2> QED BY <1>1, <2>2, <2>3, <2>4, <2>5, IssueClear
<1> QED BY <1>2, <1>3

\* What is loaded as queued was not over, so nobody was handed it.
LEMMA CommitLoadClear ==
    ASSUME ClearInv, Base', idbq # <<>>, CommitLoad, UNCHANGED <<conn, key, down, server>>
    PROVE  ClearInv'
<1>0. /\ PageTypes /\ EntriesComeOnce /\ KeysAreOld /\ idbq \in Seq(Transactions) /\ Len(idbq) \in Nat
      /\ live \in [Ids -> State \cup {None}] /\ idb \in [Ids -> State \cup {None}] /\ up \in Seq(Ids)
  BY ClearParts
<1> DEFINE stored(id) == IF idb[id] = "sending" THEN "queued" ELSE idb[id]
           merged == [id \in Ids |-> IF live[id] # None THEN live[id] ELSE stored(id)]
<1>1. /\ flushOutbox(conn, [live |-> merged, idbq |-> Tail(idbq), up |-> up])
      /\ UNCHANGED <<text, idb, offer, key, ops, running, taken, conn, down>>
  BY DEF CommitLoad, server
<1>2. /\ merged \in [Ids -> State \cup {None}]
      /\ \A id \in Ids : /\ live[id] # None => merged[id] = live[id]
                         /\ live[id] = None => merged[id] = IF idb[id] = "sending" THEN "queued" ELSE idb[id]
  BY <1>0 DEF State
<1> HIDE DEF merged
<1>3. PICK c, q, lv, u : c = conn /\ q = Tail(idbq) /\ lv = merged /\ u = up
  OBVIOUS
<1>4. q \in Seq(Transactions) /\ Len(q) = Len(idbq) - 1
  BY <1>0, <1>3, TakeFacts
<1>5. /\ flushOutbox(c, [live |-> lv, idbq |-> q, up |-> u])
      /\ lv \in [Ids -> State \cup {None}] /\ u \in Seq(Ids)
  BY <1>0, <1>1, <1>2, <1>3
<1>6. SendsOnly(q, lv)
  BY <1>4, <1>5, FlushFacts
<1>7. Sent(1, q, lv) /\ 1 \in {0, 1}
  BY <1>3, <1>6 DEF Sent
<1>8. /\ idbq' \in Seq(Transactions) /\ Moved(1) /\ up' \in Seq(Ids)
      /\ \A i \in Issued(1) : idbq'[i].op = "put"
  BY <1>0, <1>6, <1>7, SentMoves DEF SendsOnly
<1>9. Issued(1) = (Len(q) + 1)..Len(idbq')
  BY <1>0, <1>4 DEF Issued
<1>10. Sound(lv)
  <2>1. ASSUME NEW id \in Ids, lv[id] = "queued" PROVE idb[id] # None /\ ~Handed(id)
    <3>1. Attempt(id)
      BY <2>1, ClearParts
    <3>2. CASE live[id] = "queued"
      BY <3>1, <3>2 DEF Attempt, Over
    <3>3. CASE live[id] # "queued"
      <4>1. live[id] = None /\ idb[id] \in {"queued", "sending"}
        BY <1>2, <1>3, <2>1, <3>3
      <4>2. idb[id] \notin {None, "rejected"}
        BY <4>1, PromptAssumption DEF State
      <4> QED BY <3>1, <4>1, <4>2 DEF Attempt, Over
    <3> QED BY <3>2, <3>3
  <2>2. ASSUME NEW id \in Ids, lv[id] # None PROVE text[id] # None /\ ~Named(id)'
    <3>1. live[id] # None \/ idb[id] # None
      BY <1>2, <1>3, <2>2, PromptAssumption DEF State
    <3> QED BY <1>0, <1>8, <2>2, <3>1, EntryIsNamed
  <2>3. \A id \in Ids : live[id] # None => lv[id] # None
    BY <1>2, <1>3
  <2> QED BY <1>1, <2>1, <2>2, <2>3 DEF Sound
<1>11. CASE c = "up"
  <2>1. SendsThese(c, q, lv, u, Ids)
    BY <1>4, <1>5, <1>11, FlushDetails
  <2>2. Sending(c, q, lv, Ids)
    BY <1>1, <1>3, <1>5, <1>11, <2>1 DEF Sending
  <2> QED BY <1>1, <1>8, <1>9, <1>10, <2>2, SendingClear
<1>12. CASE c # "up"
  <2>1. live' = lv /\ idbq' = q /\ up' = u
    BY <1>4, <1>5, <1>12, FlushDetails
  <2>2. SendsThese(c, q, lv, u, {})
    <3>1. Len(q) \in Nat /\ (Len(q) + 1)..Len(idbq') = {}
      BY <1>4, <2>1
    <3> QED BY <2>1, <3>1 DEF SendsThese, Goes
  <2>3. Sending(c, q, lv, {})
    BY <1>1, <1>3, <1>5, <2>2 DEF Sending
  <2> QED BY <1>1, <1>8, <1>9, <1>10, <2>3, SendingClear
<1> QED BY <1>11, <1>12

\* The first save of an attempt nobody has heard of.
LEMMA CommitSaveClear ==
    ASSUME ClearInv, Base', idbq # <<>>, CommitSave, UNCHANGED <<conn, key, down, server>>
    PROVE  ClearInv' /\ \A id \in Ids : taken[id] > 0 => idb'[id] = idb[id]
<1>0. /\ PageTypes /\ EntriesComeOnce /\ KeysAreOld /\ idbq \in Seq(Transactions) /\ Len(idbq) \in Nat
      /\ live \in [Ids -> State \cup {None}] /\ idb \in [Ids -> State \cup {None}] /\ up \in Seq(Ids)
      /\ \A i \in 1..Len(idbq) : WellFormed(idbq[i])
  BY ClearParts
<1>i. PICK n : n = idbq[1].id
  OBVIOUS
<1>1. Head(idbq) = idbq[1] /\ 1 \in 1..Len(idbq) /\ Tail(idbq) \in Seq(Transactions)
      /\ Len(Tail(idbq)) = Len(idbq) - 1
  BY <1>0, TakeFacts
<1>2. idbq[1].op = "save" /\ n \in Ids /\ Names(idbq[1], n)
  BY <1>0, <1>1, <1>i DEF CommitSave, WellFormed, Names
<1>3. Named(n) /\ Free(n) /\ NamedOnce(n) /\ text[n] # None
  BY <1>0, <1>1, <1>2 DEF Named, EntriesComeOnce
<1>4. Unsent(n)
  BY <1>2, <1>3, ClearParts DEF NewsIsUnsent
<1>5. PICK c, q, lv, u : c = conn /\ q = Tail(idbq) /\ lv = [live EXCEPT ![n] = "queued"] /\ u = up
  OBVIOUS
<1>6. /\ idb' = [idb EXCEPT ![n] = "queued"]
      /\ sendPendingPrompt(c, [live |-> lv, idbq |-> q, up |-> u], {n})
      /\ UNCHANGED <<text, offer, key, ops, running, taken, conn, down>>
  BY <1>1, <1>i, <1>5 DEF CommitSave, server
<1>7. /\ q \in Seq(Transactions) /\ lv \in [Ids -> State \cup {None}] /\ u \in Seq(Ids) /\ {n} \in SUBSET Ids
      /\ lv[n] = "queued" /\ \A id \in Ids \ {n} : lv[id] = live[id]
  BY <1>0, <1>1, <1>2, <1>5 DEF State
<1>8. SendsOnly(q, lv)
  BY <1>6, <1>7, SendFacts
<1>9. SendsThese(c, q, lv, u, {n})
  BY <1>6, <1>7, SendDetails
<1>10. Sent(1, q, lv) /\ 1 \in {0, 1}
  BY <1>5, <1>8 DEF Sent
<1>11. /\ idbq' \in Seq(Transactions) /\ Moved(1) /\ up' \in Seq(Ids)
       /\ \A i \in Issued(1) : idbq'[i].op = "put"
  BY <1>0, <1>8, <1>10, SentMoves DEF SendsOnly
<1>12. Issued(1) = (Len(q) + 1)..Len(idbq')
  BY <1>0, <1>1, <1>5 DEF Issued
<1>13. Sending(c, q, lv, {n})
  BY <1>5, <1>6, <1>7, <1>9 DEF Sending
<1>14. ~Handed(n)
  <2>1. ~Clearing(n)
    BY <1>3 DEF Free, Clearing, Clears, Uses
  <2>2. ~OnItsWay(n)
    BY <1>4 DEF OnItsWay, Unsent
  <2> QED BY <1>3, <2>1, <2>2 DEF Handed, Free
<1>15. None # "queued"
  BY PromptAssumption DEF State
<1>16. Sound(lv)
  <2>1. ASSUME NEW id \in Ids, lv[id] = "queued" PROVE idb'[id] # None /\ ~Handed(id)
    <3>1. CASE id = n
      BY <1>0, <1>6, <1>14, <1>15, <3>1
    <3>2. CASE id # n
      <4>1. live[id] = "queued" /\ idb'[id] = idb[id] /\ Attempt(id)
        BY <1>0, <1>6, <1>7, <2>1, <3>2, ClearParts
      <4> QED BY <4>1 DEF Attempt, Over
    <3> QED BY <3>1, <3>2
  <2>2. ASSUME NEW id \in Ids, lv[id] # None PROVE text[id] # None /\ ~Named(id)'
    <3>1. CASE id = n
      <4>1. ASSUME NEW i \in 1..Len(idbq'), Names(idbq'[i], n) PROVE FALSE
        <5>1. i \in Issued(1)
          BY <1>0, <1>2, <1>3, <1>11, <4>1, HeadNames
        <5> QED BY <1>11, <4>1, <5>1 DEF Names
      <4> QED BY <1>3, <3>1, <4>1 DEF Named
    <3>2. CASE id # n
      <4>1. live[id] # None
        BY <1>7, <2>2, <3>2
      <4> QED BY <1>0, <1>11, <2>2, <4>1, EntryIsNamed
    <3> QED BY <3>1, <3>2
  <2>3. \A id \in Ids : live[id] # None => lv[id] # None
    BY <1>7, <1>15
  <2>4. \A id \in Ids : idb'[id] = idb[id] \/ (idb'[id] # None /\ lv[id] # None)
    BY <1>0, <1>6, <1>7, <1>15
  <2> QED BY <2>1, <2>2, <2>3, <2>4 DEF Sound
<1>17. ClearInv'
  BY <1>5, <1>6, <1>7, <1>11, <1>12, <1>13, <1>16, SendingClear
<1>18. \A id \in Ids : taken[id] > 0 => idb'[id] = idb[id]
  BY <1>0, <1>4, <1>6 DEF Unsent
<1> QED BY <1>17, <1>18

-----------------------------------------------------------------------------
(* Steps that save or delete an entry *)

\* An entry is saved as its transaction says, or deleted with its live half.
Commits(id) ==
    \/ /\ live'[id] = live[id]
       /\ \/ idb'[id] = idb[id]
          \/ idb'[id] # None /\ (idb'[id] = "rejected" \/ Saves(idbq[1], id))
    \/ Clears(idbq[1], id) /\ live'[id] = None /\ idb'[id] = None

\* A transaction commits that sends nothing.
LEMMA CommitsClear ==
    ASSUME ClearInv, Base', idbq' \in Seq(Transactions), Moved(1),
           \A id \in Ids : Commits(id),
           \A i \in Issued(1) : idbq'[i].op = "save" /\ \A id \in Ids : Names(idbq'[i], id) => Named(id),
           UNCHANGED <<text, offer, up, down, conn, key, ops, running, taken>>
    PROVE  ClearInv'
<1>1. idbq \in Seq(Transactions)
  BY ClearParts
<1>2. (\A x \in Ids : (OnItsWay(x)' => OnItsWay(x)) /\ (Unsent(x) => Unsent(x)')) /\ KeysAreOld'
  BY WayStays
<1>3. ASSUME NEW id \in Ids, Handed(id)' PROVE Handed(id)
  <2>1. \A i \in Issued(1) : ~Clears(idbq'[i], id)
    BY DEF Clears
  <2>2. Clearing(id)' => Clearing(id)
    BY <1>1, <1>3, <2>1, ClearingMoves
  <2> QED BY <1>2, <1>3, <2>2 DEF Handed
<1>4. ASSUME NEW id \in Ids PROVE Attempt(id)'
  <2>1. Attempt(id) /\ Commits(id)
    BY <1>4, ClearParts
  <2>2. None # "queued"
    BY PromptAssumption DEF State
  <2>3. ASSUME live'[id] = "queued" PROVE idb'[id] # None /\ ~Handed(id)'
    <3>1. live[id] = "queued" /\ (idb'[id] = idb[id] \/ idb'[id] # None)
      BY <2>1, <2>2, <2>3 DEF Commits
    <3> QED BY <1>3, <2>1, <3>1 DEF Attempt, Over
  <2>4. idb'[id] = None /\ idb[id] # None => 1 = 1 /\ Clears(idbq[1], id)
    BY <2>1 DEF Commits
  <2>5. \A i \in Issued(1) : ~Saves(idbq'[i], id)
    BY DEF Saves
  <2>6. live'[id] = None /\ live[id] # None => idb'[id] = None /\ 1 = 1 /\ Clears(idbq[1], id)
    BY <2>1 DEF Commits
  <2>7. idb'[id] \in {None, "rejected", idb[id]} \/ (1 = 1 /\ Saves(idbq[1], id))
    BY <2>1 DEF Commits
  <2> QED BY <1>1, <1>3, <2>1, <2>3, <2>4, <2>5, <2>6, <2>7, AttemptKeeps
<1>5. ASSUME NEW id \in Ids PROVE NewsIsUnsent(id)'
  BY <1>2, <1>5, NewsStays
<1> QED BY <1>2, <1>4, <1>5 DEF ClearInv

\* The transaction committed, and what is left.
LEMMA HeadClear ==
    ASSUME ClearInv, idbq # <<>>
    PROVE  /\ Head(idbq) = idbq[1] /\ 1 \in 1..Len(idbq) /\ idbq[1] \in Transactions
           /\ WellFormed(idbq[1])
           /\ idbq' = Tail(idbq) => idbq' \in Seq(Transactions) /\ Moved(1) /\ Issued(1) = {}
<1>1. idbq \in Seq(Transactions) /\ PageTypes /\ \A i \in 1..Len(idbq) : WellFormed(idbq[i])
  BY ClearParts
<1>2. Head(idbq) = idbq[1] /\ 1 \in 1..Len(idbq) /\ idbq[1] \in Transactions
  BY <1>1, TakeFacts
<1>3. idbq' = Tail(idbq) => idbq' \in Seq(Transactions) /\ Moved(1) /\ Issued(1) = {}
  BY <1>1, TailMoves
<1> QED BY <1>1, <1>2, <1>3

\* The save of an entry that is cleared would come before its clearing: it has its entry.
LEMMA CommitPutClear ==
    ASSUME ClearInv, Base', idbq # <<>>, CommitPut, UNCHANGED <<conn, key, down, server>>
    PROVE  /\ ClearInv'
           /\ \A id \in Ids : idb[id] = None => idb'[id] \in {None, "rejected"}
<1>i. PICK n, s : n = idbq[1].id /\ s = idbq[1].state
  OBVIOUS
<1>1. /\ Head(idbq) = idbq[1] /\ 1 \in 1..Len(idbq) /\ WellFormed(idbq[1])
      /\ idbq' = Tail(idbq) /\ idbq' \in Seq(Transactions) /\ Moved(1) /\ Issued(1) = {}
      /\ idbq[1].op = "put"
  BY HeadClear DEF CommitPut
<1>2. /\ n \in Ids /\ s \in State /\ idb' = [idb EXCEPT ![n] = s] /\ idb \in [Ids -> State \cup {None}]
      /\ UNCHANGED <<text, live, offer, up, down, conn, key, ops, running, taken>>
  BY <1>1, <1>i, ClearParts DEF CommitPut, WellFormed, server
<1>3. s # None
  BY <1>2, PromptAssumption
<1>4. s = "rejected" \/ Saves(idbq[1], n)
  BY <1>1, <1>i DEF Saves
<1>5. ASSUME NEW id \in Ids PROVE Commits(id)
  <2>1. CASE id = n
    BY <1>2, <1>3, <1>4, <2>1 DEF Commits
  <2>2. CASE id # n
    BY <1>2, <2>2 DEF Commits
  <2> QED BY <2>1, <2>2
<1>6. ClearInv'
  BY <1>1, <1>2, <1>5, CommitsClear
<1>7. ASSUME NEW id \in Ids, idb[id] = None PROVE idb'[id] \in {None, "rejected"}
  <2>1. CASE id = n
    <3>1. SavesComeFirst(n)
      BY <1>2, ClearParts DEF Attempt
    <3>2. s = "rejected"
      BY <1>1, <1>4, <1>7, <2>1, <3>1 DEF SavesComeFirst
    <3> QED BY <1>2, <2>1, <3>2
  <2>2. CASE id # n
    BY <1>2, <1>7, <2>2
  <2> QED BY <2>1, <2>2
<1> QED BY <1>6, <1>7

\* An entry goes, with what was live of it.
LEMMA EntryClears ==
    ASSUME ClearInv, Base', idbq # <<>>, NEW n, n = idbq[1].id, idbq[1].op \in {"settle", "retry", "edit"},
           idb' = [idb EXCEPT ![n] = None], live' = [live EXCEPT ![n] = None],
           idbq' \in Seq(Transactions), Moved(1),
           \A i \in Issued(1) : idbq'[i].op = "save" /\ \A id \in Ids : Names(idbq'[i], id) => Named(id),
           UNCHANGED <<text, offer, up, down, conn, key, ops, running, taken>>
    PROVE  /\ ClearInv'
           /\ \A id \in Ids : idb[id] = None => idb'[id] \in {None, "rejected"}
<1>1. idb \in [Ids -> State \cup {None}] /\ live \in [Ids -> State \cup {None}]
  BY ClearParts
<1>2. ASSUME NEW id \in Ids PROVE Commits(id)
  <2>1. CASE id = n
    BY <1>1, <2>1 DEF Commits, Clears
  <2>2. CASE id # n
    BY <1>1, <2>2 DEF Commits
  <2> QED BY <2>1, <2>2
<1>3. ClearInv'
  BY <1>2, CommitsClear
<1> QED BY <1>1, <1>3

\* The entry of a settled prompt is deleted.
LEMMA CommitSettleClear ==
    ASSUME ClearInv, Base', idbq # <<>>, CommitSettle, UNCHANGED <<conn, key, down, server>>
    PROVE  /\ ClearInv'
           /\ \A id \in Ids : idb[id] = None => idb'[id] \in {None, "rejected"}
<1>i. PICK n : n = idbq[1].id
  OBVIOUS
<1>1. /\ idbq[1].op = "settle" /\ idbq' \in Seq(Transactions) /\ Moved(1) /\ Issued(1) = {}
      /\ idb' = [idb EXCEPT ![n] = None] /\ live' = [live EXCEPT ![n] = None]
      /\ UNCHANGED <<text, offer, up, down, conn, key, ops, running, taken>>
  BY <1>i, HeadClear DEF CommitSettle, server
<1> QED BY <1>i, <1>1, EntryClears

\* The entry of a prompt under edit is deleted.
LEMMA CommitEditClear ==
    ASSUME ClearInv, Base', idbq # <<>>, CommitEdit, UNCHANGED <<conn, key, down, server>>
    PROVE  /\ ClearInv'
           /\ \A id \in Ids : idb[id] = None => idb'[id] \in {None, "rejected"}
<1>i. PICK n : n = idbq[1].id
  OBVIOUS
<1>1. /\ idbq[1].op = "edit" /\ idbq' \in Seq(Transactions) /\ Moved(1) /\ Issued(1) = {}
      /\ idb' = [idb EXCEPT ![n] = None] /\ live' = [live EXCEPT ![n] = None]
      /\ UNCHANGED <<text, offer, up, down, conn, key, ops, running, taken>>
  BY <1>i, HeadClear DEF CommitEdit, server
<1> QED BY <1>i, <1>1, EntryClears

\* The old entry of a retry is deleted, the save of the new one is issued.
LEMMA CommitRetryClear ==
    ASSUME ClearInv, Base', idbq # <<>>, CommitRetry, UNCHANGED <<conn, key, down, server>>
    PROVE  /\ ClearInv'
           /\ \A id \in Ids : idb[id] = None => idb'[id] \in {None, "rejected"}
<1>i. PICK n, new : n = idbq[1].id /\ new = idbq[1].new
  OBVIOUS
<1>e. PICK e : e = Issue("save", new)
  OBVIOUS
<1>1. /\ Head(idbq) = idbq[1] /\ 1 \in 1..Len(idbq) /\ idbq[1].op = "retry" /\ new \in Ids
  BY <1>i, HeadClear DEF CommitRetry, WellFormed
<1>2. e \in Transactions /\ WellFormed(e) /\ e.op = "save" /\ e.id = new
  BY <1>1, <1>e, IssueIs
<1>3. /\ idbq' = Append(Tail(idbq), e)
      /\ idb' = [idb EXCEPT ![n] = None] /\ live' = [live EXCEPT ![n] = None]
      /\ UNCHANGED <<text, offer, up, down, conn, key, ops, running, taken>>
  BY <1>1, <1>i, <1>e DEF CommitRetry, server
<1>4. idbq' \in Seq(Transactions) /\ Moved(1) /\ \A i \in Issued(1) : idbq'[i] = e
  BY <1>2, <1>3, ClearParts, TailAppendMoves
<1>5. Named(new)
  BY <1>1, <1>i DEF Named, Names
<1>6. \A i \in Issued(1) : idbq'[i].op = "save" /\ \A id \in Ids : Names(idbq'[i], id) => Named(id)
  BY <1>2, <1>4, <1>5 DEF Names
<1> QED BY <1>i, <1>1, <1>3, <1>4, <1>6, EntryClears

-----------------------------------------------------------------------------
(* The theorem *)

\* What is cleared stays cleared.
StaysCleared == \A id \in Ids : taken[id] > 0 /\ idb[id] = None => idb'[id] \in {None, "rejected"}

\* A transaction commits: what is cleared stays cleared.
LEMMA CommitClears ==
    ASSUME ClearInv, Base', Commit
    PROVE  ClearInv' /\ StaysCleared
<1>1. idbq # <<>> /\ UNCHANGED <<conn, key, down, server>>
  BY DEF Commit
<1>2. CASE CommitSave
  BY <1>1, <1>2, CommitSaveClear DEF StaysCleared
<1>3. CASE CommitPut
  BY <1>1, <1>3, CommitPutClear DEF StaysCleared
<1>4. CASE CommitSettle
  BY <1>1, <1>4, CommitSettleClear DEF StaysCleared
<1>5. CASE CommitRetry
  BY <1>1, <1>5, CommitRetryClear DEF StaysCleared
<1>6. CASE CommitEdit
  BY <1>1, <1>6, CommitEditClear DEF StaysCleared
<1>7. CASE CommitLoad
  <2>1. idb' = idb
    BY <1>7 DEF CommitLoad
  <2> QED BY <1>1, <1>7, <2>1, CommitLoadClear DEF StaysCleared
<1> QED BY <1>2, <1>3, <1>4, <1>5, <1>6, <1>7 DEF Commit

\* Steps of the page save nothing themselves.
LEMMA PageClears ==
    ASSUME ClearInv, Base',
           \/ \E t \in Texts, id \in Ids : Submit(t, id)
           \/ \E id \in Ids, new \in Ids : UserRetry(id, new)
           \/ \E id \in Ids : UserEdit(id) \/ UserRestore(id)
           \/ OnHello \/ OnAccepted \/ OnRejected \/ OnCreateFailed
    PROVE  ClearInv' /\ idb' = idb
<1>1. ASSUME NEW t \in Texts, NEW id \in Ids, Submit(t, id) PROVE ClearInv' /\ idb' = idb
  BY <1>1, SubmitClear DEF Submit
<1>2. ASSUME NEW id \in Ids, NEW new \in Ids, UserRetry(id, new) PROVE ClearInv' /\ idb' = idb
  BY <1>2, UserRetryClear DEF UserRetry
<1>3. ASSUME NEW id \in Ids, UserEdit(id) PROVE ClearInv' /\ idb' = idb
  BY <1>3, UserEditClear DEF UserEdit
<1>4. ASSUME NEW id \in Ids, UserRestore(id) PROVE ClearInv' /\ idb' = idb
  BY <1>4, UserRestoreClear DEF UserRestore
<1>5. CASE OnHello
  BY <1>5, OnHelloClear DEF OnHello
<1>6. CASE OnAccepted
  BY <1>6, OnAcceptedClear DEF OnAccepted
<1>7. CASE OnRejected
  BY <1>7, OnRejectedClear DEF OnRejected
<1>8. CASE OnCreateFailed
  BY <1>8, OnCreateFailedClear DEF OnCreateFailed
<1> QED BY <1>1, <1>2, <1>3, <1>4, <1>5, <1>6, <1>7, <1>8

\* Nor do steps of the socket, the hub and the daemon.
LEMMA ServerClears ==
    ASSUME ClearInv, Base',
           \/ Connect \/ Disconnect \/ Reload
           \/ HandlePrompt
           \/ \E outcome \in Outcomes : StartPrompt(outcome)
           \/ FinishPrompt
           \/ Restart
    PROVE  ClearInv' /\ idb' = idb
<1>1. CASE Connect
  BY <1>1, ConnectClear DEF Connect, page
<1>2. CASE Disconnect
  BY <1>2, DisconnectClear DEF Disconnect, page
<1>3. CASE Reload
  BY <1>3, ReloadClear DEF Reload
<1>4. CASE HandlePrompt
  BY <1>4, HandlePromptClear DEF HandlePrompt, page
<1>5. ASSUME NEW outcome \in Outcomes, StartPrompt(outcome) PROVE ClearInv' /\ idb' = idb
  BY <1>5, StartPromptClear DEF StartPrompt, page
<1>6. CASE FinishPrompt
  BY <1>6, FinishPromptClear DEF FinishPrompt, page
<1>7. CASE Restart
  BY <1>7, RestartClear DEF Restart, page
<1> QED BY <1>1, <1>2, <1>3, <1>4, <1>5, <1>6, <1>7

\* Every step keeps the invariant and leaves cleared what is cleared.
LEMMA StepClears ==
    ASSUME ClearInv, [Next]_vars
    PROVE  ClearInv' /\ StaysCleared
<1>1. Base'
  <2>1. PICK T \in SUBSET Texts : T = {}
    OBVIOUS
  <2>2. Inv(T)
    BY <2>1 DEF Inv, ClearInv, EveryTextKept
  <2>3. Inv(T)'
    BY <2>1, <2>2, StepKeeps
  <2> QED BY <2>3 DEF Inv
<1>2. \A id \in Ids : idb' = idb /\ idb[id] = None => idb'[id] \in {None, "rejected"}
  OBVIOUS
<1>3. CASE UNCHANGED vars
  <2>1. UNCHANGED <<text, idb, idbq, live, offer, conn, key, up, down, ops, running, taken>>
    BY <1>3 DEF vars, moving, page, server
  <2>2. (\A x \in Ids : (OnItsWay(x)' => OnItsWay(x)) /\ (Unsent(x) => Unsent(x)')) /\ KeysAreOld'
    BY <2>1, WayStays
  <2>3. ClearInv'
    BY <1>1, <2>1, <2>2, NothingIssued
  <2> QED BY <1>2, <2>1, <2>3 DEF StaysCleared
<1>4. CASE Next
  <2>1. CASE Commit
    BY <1>1, <2>1, CommitClears
  <2>2. ASSUME ~Commit PROVE ClearInv' /\ idb' = idb
    BY <1>1, <1>4, <2>2, PageClears, ServerClears DEF Next, Step
  <2> QED BY <1>2, <2>1, <2>2 DEF StaysCleared
<1> QED BY <1>3, <1>4

\* Initially nothing is under way.
LEMMA InitIsClear == Init => ClearInv
<1> SUFFICES ASSUME Init PROVE ClearInv
  OBVIOUS
<1>1. Base
  <2>1. PICK T \in SUBSET Texts : T = {}
    OBVIOUS
  <2> QED BY InitHolds DEF Inv
<1>2. /\ idb = [id \in Ids |-> None] /\ idbq = <<>> /\ live = [id \in Ids |-> None]
      /\ offer = {} /\ key = 0 /\ up = <<>> /\ down = <<>> /\ ops = <<>> /\ running = None
      /\ taken = [id \in Ids |-> 0] /\ conn = "down"
  BY DEF Init
<1>3. 1..Len(<<>>) = {}
  OBVIOUS
<1>4. ASSUME NEW id \in Ids PROVE Attempt(id) /\ NewsIsUnsent(id)
  <2>1. live[id] # "queued" /\ ~Handed(id)
    BY <1>2, <1>3, PromptAssumption DEF State, Handed, Clearing, OnItsWay
  <2>2. SavesComeFirst(id)
    BY <1>2, <1>3 DEF SavesComeFirst
  <2>3. Unsent(id)
    BY <1>2, <1>3 DEF Unsent
  <2> QED BY <2>1, <2>2, <2>3 DEF Attempt, NewsIsUnsent
<1>5. KeysAreOld
  BY <1>2, <1>3 DEF KeysAreOld
<1> QED BY <1>1, <1>4, <1>5 DEF ClearInv

\* What was cleared for a prompt the daemon took never comes back as an entry to be sent
\* (store.svelte.ts sendPendingPrompt, settlePrompt, hydrateOutbox), in every behaviour: whatever
\* sockets, pages and hub processes fail, a retry cut short included.
THEOREM ClearedIsNotResentCorrect == Spec => ClearedIsNotResent
<1>1. Init => ClearInv
  BY InitIsClear
<1>2. ClearInv /\ [Next]_vars => ClearInv'
  BY StepClears
<1>3. ClearInv /\ [Next]_vars => [\A id \in Ids :
         taken[id] > 0 /\ idb[id] = None => idb'[id] \in {None, "rejected"}]_vars
  BY StepClears DEF StaysCleared
<1> QED BY <1>1, <1>2, <1>3, PTL DEF Spec, ClearedIsNotResent
=============================================================================
