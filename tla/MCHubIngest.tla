----------------------------- MODULE MCHubIngest -----------------------------
EXTENDS HubIngest

CONSTANTS u1, u2, f1, g1, m1, k1, d1, t1

Prompts == {m1}

Snapshot(status, usage, facet, goal, queued) ==
    [status |-> status, usage |-> usage, facet |-> facet, goal |-> goal, queued |-> queued]

Running == Snapshot("running", None, f1, Omit, <<m1>>)
Idle == Snapshot("idle", u1, None, None, None)

Opened == <<[type |-> "sessionOpened", ts |-> 0,
             snapshot |-> Snapshot("running", u1, None, g1, <<>>)],
            [type |-> "assistantDelta", ts |-> 0, channel |-> "text", entry |-> None,
             text |-> <<0>>]>>

Delta(channel) == [type |-> "assistantDelta", channel |-> channel]
Reset == [type |-> "sessionReset"]
Completed == [type |-> "runCompleted", assistantEntry |-> m1, userEntry |-> None, snapshot |-> Idle]
Updated(snapshot) == [type |-> "sessionUpdated", snapshot |-> snapshot]
Ui(kind, id, text) == [type |-> "hostUiRequest", kind |-> kind, id |-> id, text |-> text]

\* Deltas on both channels and everything that can come between two of them: tools...
Tools ==
    {Delta("text"), Delta("thinking"), Completed, Reset,
     [type |-> "toolStarted", call |-> t1],
     [type |-> "toolUpdated", call |-> t1, progress |-> m1],
     [type |-> "toolFinished", call |-> t1, status |-> "ok"],
     [type |-> "runFailed"]}

\* ... and messages, usage and snapshots.
Messages ==
    {Delta("text"), Delta("thinking"), Completed, Reset, Updated(Running),
     [type |-> "userMessage", entry |-> None],
     [type |-> "usageUpdated", usage |-> u1], [type |-> "usageUpdated", usage |-> u2]}

\* What a sessionReset has to carry over: dialogs and ambient surfaces...
Ambient ==
    {Ui(k, d1, None) : k \in {"dialog", "notify", "reset", "editorText"}}
    \cup {Ui("status", k1, t) : t \in {None, m1}}
    \cup {[type |-> "hostUiResolved", id |-> d1], Delta("text"), Updated(Idle), Reset}

\* ... and the queue, the status and the goal, beside an open dialog.
Queue ==
    {Ui("dialog", d1, None), Delta("text"), Updated(Running), Updated(Idle), Reset,
     [type |-> "queueUpdated", messages |-> <<m1>>],
     [type |-> "queuedMessageStarted", id |-> m1, created |-> 0],
     [type |-> "customMessage"],
     [type |-> "sessionClosed", failed |-> FALSE]}

Workloads == [tools |-> Tools, messages |-> Messages, surfaces |-> Ambient, queue |-> Queue]
=============================================================================
