----------------------------- MODULE HubStatus -------------------------------
(***************************************************************************)
(* hub.rs: what the hub keeps about a session besides its journal, so that *)
(* the sidebar of every tab can say whether the session works, waits for   *)
(* the operator, failed or is done.                                        *)
(*                                                                         *)
(* `run` is "off", "running" or "initializing" (the two sets of the hub    *)
(* are disjoint).  An attention record holds a phase and the ids of the    *)
(* dialogs waited for; NoAttention when the session has none.              *)
(***************************************************************************)
EXTENDS Integers

NoAttention == [phase |-> "none", pending |-> {}]

\* A snapshot decides; activity of a turn turns running on.
track_running(run, ev) ==
    CASE ev.type \in {"sessionOpened", "sessionUpdated", "runCompleted"} ->
           IF ev.snapshot.status \in {"running", "initializing"}
           THEN ev.snapshot.status ELSE "off"
      [] ev.type \in {"assistantDelta", "toolStarted", "toolUpdated", "userMessage",
                      "queuedMessageStarted"} -> "running"
      [] ev.type \in {"runFailed", "sessionClosed"} -> "off"
      [] OTHER -> run

ensure_attention(a) == IF a = NoAttention THEN [a EXCEPT !.phase = "running"] ELSE a

set_attention_base(a, phase) == [a EXCEPT !.phase = phase]

\* An idle snapshot settles a record that still says running, and creates none.
attention_of_snapshot(a, status) ==
    CASE status \in {"running", "initializing"} -> set_attention_base(a, "running")
      [] status = "failed" -> set_attention_base(a, "failed")
      [] status = "idle" /\ a.phase = "running" /\ a.pending = {} ->
           set_attention_base(a, "done")
      [] OTHER -> a

track_attention(a, ev) ==
    CASE ev.type \in {"sessionOpened", "sessionUpdated"} ->
           attention_of_snapshot(a, ev.snapshot.status)
      [] ev.type \in {"userMessage", "queuedMessageStarted", "assistantDelta",
                      "toolStarted"} -> set_attention_base(a, "running")
      [] ev.type = "runCompleted" -> set_attention_base(a, "done")
      [] ev.type = "runFailed" -> [phase |-> "failed", pending |-> {}]
      [] ev.type = "hostUiRequest" /\ ev.kind = "dialog" ->
           [ensure_attention(a) EXCEPT !.pending = @ \cup {ev.id}]
      [] ev.type = "hostUiResolved" -> [a EXCEPT !.pending = @ \ {ev.id}]
      [] ev.type = "sessionClosed" -> NoAttention
      [] OTHER -> a

\* What the sidebar shows: a dialog waited for hides the phase.
attention_for(a) == IF a.pending # {} THEN "waiting" ELSE a.phase

\* The session counts in the badge of the app icon.
needs_operator(a) == a.pending # {} \/ a.phase = "failed"
=============================================================================
