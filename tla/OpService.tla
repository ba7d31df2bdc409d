------------------------------ MODULE OpService ------------------------------
(***************************************************************************)
(* What the hub's operation queue promises the connections that use it:    *)
(* requests are served one at a time in the order they arrived, every one  *)
(* of them is served, and a connection's focus moves only when a switch    *)
(* that this connection asked for is served.                               *)
(***************************************************************************)
EXTENDS Naturals

CONSTANTS None, Conns, Sessions, MaxRequests

VARIABLES
    conn,       \* connection -> "new", "on" or "gone"
    focus,      \* connection -> the session it looks at, or None
    waiting,    \* requests not yet served, numbered in the order they were made
    asked,      \* requests made so far
    served      \* numbers of the requests served
vars == <<conn, focus, waiting, asked, served>>

Init ==
    /\ conn = [c \in Conns |-> "new"]
    /\ focus = [c \in Conns |-> None]
    /\ waiting = {} /\ asked = 0 /\ served = {}

Join(c, s) ==
    /\ conn[c] = "new"
    /\ conn' = [conn EXCEPT ![c] = "on"]
    /\ focus' = [focus EXCEPT ![c] = s]
    /\ UNCHANGED <<waiting, asked, served>>

Leave(c) ==
    /\ conn[c] = "on"
    /\ conn' = [conn EXCEPT ![c] = "gone"]
    /\ UNCHANGED <<focus, waiting, asked, served>>

Ask(c, switch) ==
    /\ conn[c] = "on" /\ asked < MaxRequests
    /\ asked' = asked + 1
    /\ waiting' = waiting \union {[n |-> asked + 1, conn |-> c, switch |-> switch]}
    /\ UNCHANGED <<conn, focus, served>>

Refuse(c) ==
    /\ conn[c] = "on" /\ asked < MaxRequests
    /\ asked' = asked + 1
    /\ served' = served \union {asked + 1}
    /\ UNCHANGED <<conn, focus, waiting>>

Serve ==
    \E r \in waiting :
        /\ \A q \in waiting : r.n <= q.n
        /\ waiting' = waiting \ {r}
        /\ served' = served \union {r.n}
        /\ \/ UNCHANGED focus
           \/ /\ r.switch /\ conn[r.conn] = "on"
              /\ \E s \in Sessions : focus' = [focus EXCEPT ![r.conn] = s]
        /\ UNCHANGED <<conn, asked>>

Next ==
    \/ \E c \in Conns :
         \/ \E s \in Sessions \union {None} : Join(c, s)
         \/ Leave(c) \/ Refuse(c)
         \/ \E switch \in BOOLEAN : Ask(c, switch)
    \/ Serve

\* What never happens, and that everything asked for is served in the end.
Safe == Init /\ [][Next]_vars

Spec == Safe /\ WF_vars(Serve)
=============================================================================
