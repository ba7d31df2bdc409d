---------------------------- MODULE FifoChannel ----------------------------
(***************************************************************************)
(* What a framed connection promises in one direction: messages arrive in  *)
(* the order they were sent, none twice and none that was not sent; unless *)
(* the channel is lossy, none is skipped either.                           *)
(***************************************************************************)
EXTENDS Naturals, Sequences

CONSTANT Messages

VARIABLES
    sent,       \* the messages accepted for sending, in order
    delivered,  \* how many of them are settled: delivered or skipped
    got,        \* the messages delivered, in order
    lossy       \* may messages be skipped?

vars == <<sent, delivered, got, lossy>>

Init == sent = <<>> /\ delivered = 0 /\ got = <<>> /\ lossy \in BOOLEAN

Send == \E m \in Messages : sent' = Append(sent, m) /\ UNCHANGED <<delivered, got, lossy>>

\* A lossy channel may skip before, after or instead of delivering, and one step may settle
\* several messages.
Deliver ==
    \E k \in delivered + 1 .. Len(sent) :
        /\ delivered' = k
        /\ IF lossy THEN \E d \in {<<>>} \cup {<<sent[i]>> : i \in delivered + 1 .. k} : got' = got \o d
           ELSE got' = got \o SubSeq(sent, delivered + 1, k)
        /\ UNCHANGED <<sent, lossy>>

Next == Send \/ Deliver
Spec == Init /\ [][Next]_vars
=============================================================================
