---------------------------- MODULE PromptDelivery ----------------------------
(***************************************************************************)
(* The way of a prompt from the composer to the daemon and of its verdict  *)
(* back: the durable outbox a page keeps in IndexedDB, the socket, the     *)
(* hub's idempotency ledger and serial queue, and the driver's POST.       *)
(*                                                                         *)
(* A text is what the user wants said; an id is one attempt to say it      *)
(* (createPromptId).  Ids are numbered in the order of their createdAt.    *)
(* IndexedDB runs a page's transactions in the order they were issued, so  *)
(* the awaits of the store are a queue of transactions, each committed     *)
(* together with the code after its await.                                 *)
(***************************************************************************)
EXTENDS Integers, Sequences, FiniteSets

CONSTANTS
    None,           \* no text, no outbox entry
    Texts,          \* what the user may say, each once
    MaxIds,         \* bound: attempts
    Regimes         \* what a behaviour meets: [creates, outcomes, ledgerCap, ids,
                    \*   hangups, reloads, restarts, drops]

\* The daemon took the prompt; it refused; it took the prompt but the answer
\* to the POST was lost; the session could not even be created.
AllOutcomes == {"accepted", "refused", "replyLost", "createFailed"}

Ids == 1..MaxIds
State == {"queued", "sending", "rejected"}

ASSUME PromptAssumption ==
    /\ MaxIds \in Nat /\ None \notin Texts /\ None \notin State /\ None \notin Ids
    /\ \A r \in Regimes : r.outcomes \subseteq AllOutcomes /\ r.creates \subseteq Texts /\ r.ids <= MaxIds

VARIABLES
    regime,     \* which of the regimes this behaviour is in
    composer,   \* texts in the user's hands: unsent, or handed back
    text,       \* id -> its text, None for an id not created yet
    idb,        \* IndexedDB: id -> state of its entry, or None
    idbq,       \* transactions issued and not committed
    live,       \* store.pendingPrompts: id -> state, or None
    hydrated,   \* store.hydratedOutboxServerId is this server
    offer,      \* ids whose "Restore" toast is on screen
    conn,       \* "down", "open" (no hello from the server yet) or "up"
    key,        \* hub: key of the latest connection
    up, down,   \* messages in flight on it
    ops,        \* hub: prompt operations queued, oldest first
    running,    \* hub: the operation the applier awaits, or None
    ledger,     \* hub.prompt_results in prompt_result_order
    taken,      \* daemon: id -> times it took that prompt
    created,    \* daemon: id -> sessions created for it
    hangups, reloads, restarts, drops   \* bounds used up

page == <<composer, text, idb, idbq, live, hydrated, offer>>
server == <<ops, running, ledger, taken, created>>
budget == <<hangups, reloads, restarts, drops>>
moving == <<page, conn, key, up, down, server, budget>>
vars == <<regime, moving>>

\* Texts that open a new session (kind "newSession"), what a run may come to,
\* hub.rs PROMPT_RESULT_CAP, and the bounds: attempts, sockets lost, pages closed
\* or reloaded, hub processes killed, results dropped by a full channel.
Creates == regime.creates
Outcomes == regime.outcomes
LedgerCap == regime.ledgerCap

-----------------------------------------------------------------------------
(* The page: the outbox and its transactions *)

Put(id, state) == [op |-> "put", id |-> id, state |-> state, new |-> None]
Issue(op, id) == [op |-> op, id |-> id, state |-> None, new |-> None]
Replace(id, new) == [op |-> "retry", id |-> id, state |-> None, new |-> new]

\* What a page holds, and is about to send: its live entries, transactions, messages.
Becomes(b) ==
    /\ live' = b.live
    /\ idbq' = b.idbq
    /\ up' = b.up

Outbox == [live |-> live, idbq |-> idbq, up |-> up]

\* The ids of S, oldest first.
InOrder(S) == {s \in [1..Cardinality(S) -> S] : \A i, j \in DOMAIN s : i < j => s[i] < s[j]}

\* Seeded bug in sendPendingPrompt: an entry is saved whether or not it changed.
Changed_any(b, ids, state) == ids

\* Entries whose state is another one than it was.
Changed(b, ids, state) == {id \in ids : b.live[id] # state}

\* Send entries on a socket in state c, all but the rejected, oldest first.  One
\* is saved, without waiting, when that changes its state.
sendPendingPrompt(c, b, ids) ==
    LET state == IF c = "down" THEN "queued" ELSE "sending"
        sent == {id \in ids : b.live[id] \notin {None, "rejected"}}
    IN  \E messages \in InOrder(sent), saves \in InOrder(Changed(b, sent, state)) :
          /\ live' = [id \in Ids |-> IF id \in sent THEN state ELSE b.live[id]]
          /\ idbq' = b.idbq \o [i \in DOMAIN saves |-> Put(saves[i], state)]
          /\ up' = IF c = "down" THEN b.up ELSE b.up \o messages

\* Seeded bug in flushOutbox: entries already sent once are left alone.
flushOutbox_queued(c, b) ==
    IF c # "up" THEN Becomes(b)
    ELSE sendPendingPrompt(c, b, {id \in Ids : b.live[id] = "queued"})

\* Every entry that is not rejected goes out again.
flushOutbox(c, b) == IF c # "up" THEN Becomes(b) ELSE sendPendingPrompt(c, b, Ids)

Fresh(id) == id <= regime.ids /\ text[id] = None /\ \A k \in Ids : k < id => text[k] # None

\* enqueuePrompt saves the entry before anything else; one submit at a time.
Submit(t, id) ==
    /\ t \in composer
    /\ Fresh(id)
    /\ \A i \in DOMAIN idbq : idbq[i].op # "save"
    /\ text' = [text EXCEPT ![id] = t]
    /\ idbq' = Append(idbq, Issue("save", id))
    /\ UNCHANGED <<composer, idb, live, hydrated, offer, conn, key, up, down,
                   server, budget>>

\* The entry is safe: the composer is cleared and the prompt is sent.
CommitSave ==
    LET id == Head(idbq).id
        entry == [live |-> [live EXCEPT ![id] = "queued"], idbq |-> Tail(idbq), up |-> up]
    IN  /\ Head(idbq).op = "save"
        /\ idb' = [idb EXCEPT ![id] = "queued"]
        /\ sendPendingPrompt(conn, entry, {id})
        /\ composer' = composer \ {text[id]}
        /\ UNCHANGED <<text, hydrated, offer>>

CommitPut ==
    /\ Head(idbq).op = "put"
    /\ idb' = [idb EXCEPT ![Head(idbq).id] = Head(idbq).state]
    /\ idbq' = Tail(idbq)
    /\ UNCHANGED <<composer, text, live, hydrated, offer, up>>

\* The entry of a settled prompt is cleared: settlePrompt, restoreFailedDraft.
CommitSettle ==
    LET id == Head(idbq).id
    IN  /\ Head(idbq).op = "settle"
        /\ idb' = [idb EXCEPT ![id] = None]
        /\ live' = [live EXCEPT ![id] = None]
        /\ idbq' = Tail(idbq)
        /\ UNCHANGED <<composer, text, hydrated, offer, up>>

\* retryPending: the old entry is gone, now the new one is saved.
CommitRetry ==
    LET id == Head(idbq).id
    IN  /\ Head(idbq).op = "retry"
        /\ idb' = [idb EXCEPT ![id] = None]
        /\ live' = [live EXCEPT ![id] = None]
        /\ idbq' = Append(Tail(idbq), Issue("save", Head(idbq).new))
        /\ UNCHANGED <<composer, text, hydrated, offer, up>>

\* editPending: the text goes back into the composer.
CommitEdit ==
    LET id == Head(idbq).id
    IN  /\ Head(idbq).op = "edit"
        /\ idb' = [idb EXCEPT ![id] = None]
        /\ live' = [live EXCEPT ![id] = None]
        /\ composer' = composer \cup {text[id]}
        /\ idbq' = Tail(idbq)
        /\ UNCHANGED <<text, hydrated, offer, up>>

\* hydrateOutbox merges what is stored under what is live, then flushes.
CommitLoad ==
    LET stored(id) == IF idb[id] = "sending" THEN "queued" ELSE idb[id]
        merged == [id \in Ids |-> IF live[id] # None THEN live[id] ELSE stored(id)]
    IN  /\ Head(idbq).op = "load"
        /\ flushOutbox(conn, [live |-> merged, idbq |-> Tail(idbq), up |-> up])
        /\ hydrated' = TRUE
        /\ UNCHANGED <<composer, text, idb, offer>>

Commit ==
    /\ idbq # <<>>
    /\ \/ CommitSave
       \/ CommitPut
       \/ CommitSettle
       \/ CommitRetry
       \/ CommitEdit
       \/ CommitLoad
    /\ UNCHANGED <<conn, key, down, server, budget>>

-----------------------------------------------------------------------------
(* The page: the user and the server's messages *)

\* Retry of a rejected prompt; the attempt to come is named at once.
UserRetry(id, new) ==
    /\ live[id] = "rejected"
    /\ text[id] \notin Creates
    /\ Fresh(new)
    /\ text' = [text EXCEPT ![new] = text[id]]
    /\ idbq' = Append(idbq, Replace(id, new))
    /\ UNCHANGED <<composer, idb, live, hydrated, offer, conn, key, up, down,
                   server, budget>>

\* (A second click while the first is under way changes nothing.)
UserEdit(id) ==
    /\ live[id] = "rejected"
    /\ \A i \in DOMAIN idbq : idbq[i] # Issue("edit", id)
    /\ text[id] \notin Creates
    /\ idbq' = Append(idbq, Issue("edit", id))
    /\ UNCHANGED <<composer, text, idb, live, hydrated, offer, conn, key, up, down,
                   server, budget>>

\* restoreFailedDraft: the text is in the composer at once, its entry goes.
restoreFailedDraft(id) ==
    /\ composer' = composer \cup {text[id]}
    /\ idbq' = Append(idbq, Issue("settle", id))

\* The toast of a new session that could not be created.
UserRestore(id) ==
    /\ id \in offer
    /\ offer' = offer \ {id}
    /\ restoreFailedDraft(id)
    /\ UNCHANGED <<text, idb, live, hydrated, conn, key, up, down, server, budget>>

Hello == [type |-> "hello", id |-> None, accepted |-> FALSE]
Result(id, accepted) == [type |-> "promptResult", id |-> id, accepted |-> accepted]

Receives(type) ==
    /\ down # <<>>
    /\ Head(down).type = type
    /\ down' = Tail(down)

\* The first hello of a page loads the outbox, later ones flush it.
OnHello ==
    /\ Receives("hello")
    /\ conn' = "up"
    /\ IF hydrated THEN flushOutbox("up", Outbox)
       ELSE idbq' = Append(idbq, Issue("load", None)) /\ UNCHANGED <<live, up>>
    /\ UNCHANGED <<composer, text, idb, hydrated, offer, key, server, budget>>

\* Seeded bug in OnAccepted: any verdict clears the entry.
OnAccepted_any ==
    /\ Receives("promptResult")
    /\ idbq' = Append(idbq, Issue("settle", Head(down).id))
    /\ UNCHANGED <<composer, text, idb, live, hydrated, offer, conn, key, up, server, budget>>

\* settlePrompt, accepted: the entry is deleted first, then forgotten.
OnAccepted ==
    /\ Receives("promptResult")
    /\ Head(down).accepted
    /\ idbq' = IF live[Head(down).id] = None THEN idbq
               ELSE Append(idbq, Issue("settle", Head(down).id))
    /\ UNCHANGED <<composer, text, idb, live, hydrated, offer, conn, key, up, server, budget>>

\* settlePrompt, rejected: the entry stays as rejected.  For a new session it
\* is offered back in a toast.
OnRejected ==
    LET id == Head(down).id
    IN  /\ Receives("promptResult")
        /\ ~Head(down).accepted
        /\ IF live[id] = None THEN UNCHANGED <<live, idbq, offer>>
           ELSE /\ live' = [live EXCEPT ![id] = "rejected"]
                /\ idbq' = Append(idbq, Put(id, "rejected"))
                /\ offer' = IF text[id] \in Creates THEN offer \cup {id} ELSE offer
        /\ UNCHANGED <<composer, text, idb, hydrated, conn, key, up, server, budget>>

\* ... unless the user is not writing another draft: then it is restored.
OnCreateFailed ==
    LET id == Head(down).id
    IN  /\ Receives("promptResult")
        /\ ~Head(down).accepted
        /\ live[id] # None
        /\ text[id] \in Creates
        /\ restoreFailedDraft(id)
        /\ UNCHANGED <<text, idb, live, hydrated, offer, conn, key, up, server, budget>>

\* The socket opens.  The server has greeted it before it reads anything else.
Connect ==
    /\ conn = "down"
    /\ conn' = "open"
    /\ key' = key + 1
    /\ up' = <<>>
    /\ down' = <<Hello>>
    /\ UNCHANGED <<page, server, budget>>

Hangup ==
    /\ conn' = "down"
    /\ up' = <<>>
    /\ down' = <<>>

Disconnect ==
    /\ conn # "down"
    /\ hangups < regime.hangups
    /\ hangups' = hangups + 1
    /\ Hangup
    /\ UNCHANGED <<page, key, server, reloads, restarts, drops>>

\* The page goes away with everything it had not committed.
Reload ==
    /\ reloads < regime.reloads
    /\ reloads' = reloads + 1
    /\ Hangup
    /\ idbq' = <<>>
    /\ live' = [id \in Ids |-> None]
    /\ hydrated' = FALSE
    /\ offer' = {}
    /\ UNCHANGED <<composer, text, idb, key, server, hangups, restarts, drops>>

-----------------------------------------------------------------------------
(* The hub and the daemon *)

\* try_send to the connection k, if it is still there.
Sends(k, msg) ==
    \/ down' = (IF k = key /\ conn # "down" THEN Append(down, msg) ELSE down)
       /\ UNCHANGED drops
    \/ /\ k = key /\ conn # "down"
       /\ drops < regime.drops
       /\ drops' = drops + 1
       /\ UNCHANGED down

Ledgered(id) == \E i \in DOMAIN ledger : ledger[i].id = id

\* A prompt whose result is known is answered from the ledger, any other runs.
HandlePrompt ==
    /\ up # <<>>
    /\ up' = Tail(up)
    /\ IF Ledgered(Head(up))
       THEN /\ \E i \in DOMAIN ledger : ledger[i].id = Head(up) /\ Sends(key, ledger[i])
            /\ UNCHANGED ops
       ELSE /\ ops' = Append(ops, [id |-> Head(up), key |-> key])
            /\ UNCHANGED <<down, drops>>
    /\ UNCHANGED <<page, conn, key, running, ledger, taken, created, hangups, reloads, restarts>>

\* A newSession creates its session before it prompts it, and the session stays
\* when that first prompt fails.
new_session(id, outcome) == text[id] \in Creates /\ outcome # "createFailed"

\* The applier starts the next operation; the daemon acts while it waits.
StartPrompt(outcome) ==
    LET id == Head(ops).id
    IN  /\ ops # <<>>
        /\ running = None
        /\ outcome = "createFailed" => text[id] \in Creates
        /\ ops' = Tail(ops)
        /\ running' = [op |-> Head(ops), outcome |-> outcome]
        /\ taken' = [taken EXCEPT ![id] = IF outcome \in {"accepted", "replyLost"}
                                          THEN @ + 1 ELSE @]
        /\ created' = [created EXCEPT ![id] = IF new_session(id, outcome) THEN @ + 1 ELSE @]
        /\ UNCHANGED <<page, conn, key, up, down, ledger, budget>>

\* The latest result of a prompt counts; the oldest prompt makes room.
cache_prompt_result(r) ==
    \E others \in InOrder({i \in DOMAIN ledger : ledger[i].id # r.id}) :
        LET kept == Append([i \in DOMAIN others |-> ledger[others[i]]], r)
        IN  ledger' = IF Len(kept) > LedgerCap THEN Tail(kept) ELSE kept

\* The result is cached, then sent to the connection that asked.
FinishPrompt ==
    /\ running # None
    /\ LET r == Result(running.op.id, running.outcome = "accepted")
       IN  /\ cache_prompt_result(r)
           /\ Sends(running.op.key, r)
    /\ running' = None
    /\ UNCHANGED <<page, conn, key, up, ops, taken, created, hangups, reloads, restarts>>

\* The hub process is killed; the daemon and its sessions live on.
Restart ==
    /\ restarts < regime.restarts
    /\ restarts' = restarts + 1
    /\ Hangup
    /\ ops' = <<>>
    /\ running' = None
    /\ ledger' = <<>>
    /\ UNCHANGED <<page, key, taken, created, hangups, reloads, drops>>

-----------------------------------------------------------------------------
Init ==
    /\ regime \in Regimes
    /\ composer = Texts
    /\ text = [id \in Ids |-> None]
    /\ idb = [id \in Ids |-> None]
    /\ idbq = <<>>
    /\ live = [id \in Ids |-> None]
    /\ hydrated = FALSE
    /\ offer = {}
    /\ conn = "down"
    /\ key = 0
    /\ up = <<>> /\ down = <<>>
    /\ ops = <<>>
    /\ running = None
    /\ ledger = <<>>
    /\ taken = [id \in Ids |-> 0]
    /\ created = [id \in Ids |-> 0]
    /\ hangups = 0 /\ reloads = 0 /\ restarts = 0 /\ drops = 0

Step ==
    \/ \E t \in Texts, id \in Ids : Submit(t, id)
    \/ \E id \in Ids, new \in Ids : UserRetry(id, new)
    \/ \E id \in Ids : UserEdit(id) \/ UserRestore(id)
    \/ Commit
    \/ OnHello \/ OnAccepted \/ OnRejected \/ OnCreateFailed
    \/ Connect \/ Disconnect \/ Reload
    \/ HandlePrompt
    \/ \E outcome \in Outcomes : StartPrompt(outcome)
    \/ FinishPrompt
    \/ Restart

Next == Step /\ regime' = regime

Spec == Init /\ [][Next]_vars

\* Transactions commit, the socket reconnects and carries messages, the applier
\* runs and the daemon answers.  Nothing is assumed of the user.
FairSpec ==
    /\ Spec
    /\ WF_moving(Commit)
    /\ WF_moving(Connect)
    /\ WF_moving(OnHello)
    /\ WF_moving(OnAccepted)
    /\ WF_moving(OnRejected)
    /\ WF_moving(HandlePrompt)
    /\ WF_moving(\E outcome \in Outcomes : StartPrompt(outcome))
    /\ WF_moving(FinishPrompt)

-----------------------------------------------------------------------------
(* Properties *)

TypeOK ==
    /\ composer \subseteq Texts
    /\ text \in [Ids -> Texts \cup {None}]
    /\ idb \in [Ids -> State \cup {None}]
    /\ live \in [Ids -> State \cup {None}]
    /\ \A i \in DOMAIN idbq : idbq[i].op \in {"save", "put", "settle", "retry", "edit", "load"}
    /\ conn \in {"down", "open", "up"}
    /\ offer \subseteq Ids
    /\ Len(ledger) <= LedgerCap
    /\ \A i, j \in DOMAIN ledger : ledger[i].id = ledger[j].id => i = j

\* A text has a place: the composer, the outbox or a save under way, or the
\* daemon has it.
HasPlace(t) ==
    \/ t \in composer
    \/ \E id \in Ids :
         /\ text[id] = t
         /\ \/ idb[id] # None
            \/ taken[id] > 0
            \/ \E i \in DOMAIN idbq : idbq[i] = Issue("save", id)

\* No text is ever lost: not by a socket lost before or after the verdict, a
\* page closed half way through a transaction, or a hub that forgets its
\* ledger (store.svelte.ts enqueuePrompt, settlePrompt, hydrateOutbox).
NoTextLost == \A t \in Texts : HasPlace(t)

\* An entry cleared for a prompt the daemon took never comes back as one to be
\* sent, though saves, deletes and resends of it overlap: the next page would
\* say it again (store.svelte.ts sendPendingPrompt, settlePrompt).  It may come
\* back as rejected, when a second run of the same prompt was refused.
ClearedIsNotResent ==
    [][\A id \in Ids :
         taken[id] > 0 /\ idb[id] = None => idb'[id] \in {None, "rejected"}]_vars

\* Every saved prompt gets its verdict, however often the socket, the page and
\* the hub fail in between, provided they stop failing and no verdict was dropped
\* by a full channel (store.svelte.ts hydrateOutbox, flushOutbox).
EveryPromptSettles ==
    \A id \in Ids : idb[id] \in {"queued", "sending"} ~>
        idb[id] \in {None, "rejected"} \/ drops > 0

\* The server deduplicates by promptId: the daemon takes a prompt once
\* (prompt-outbox.ts loadPendingPrompts, wire.ts promptId).
TakenOnce == \A id \in Ids : taken[id] <= 1
=============================================================================
