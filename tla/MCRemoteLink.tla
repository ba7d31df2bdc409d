--------------------------- MODULE MCRemoteLink ---------------------------
(***************************************************************************)
(* A remote connection, from the profile to the ssh process (one host, two *)
(* containers, the profiles that reach each branch), and the bytes that    *)
(* run over it (three frames, cut at every byte).  The two share nothing:  *)
(* a behaviour is one of either while the other stays where it began.      *)
(***************************************************************************)
EXTENDS RemoteLink, FrameStream

CONSTANTS h1, c1, c2, vol

Host == [kind |-> "host", port |-> 22, user |-> "dev", path |-> <<>>, absolute |-> FALSE,
         policy |-> "offerInstall", acks |-> NoAcks]
Docker == [kind |-> "docker", port |-> 22, user |-> "root", path |-> <<"data", "pt">>,
           absolute |-> TRUE, policy |-> "offerInstall", acks |-> NoAcks]

SomeProfiles == {Host, [Host EXCEPT !.policy = "requireExisting"], Docker,
                 [Docker EXCEPT !.absolute = FALSE, !.user = "dev"], [Host EXCEPT !.port = 0]}

\* c1 keeps the root in its writable layer, c2 on a volume under a read-only /.
SomeMounts == [c \in {c1, c2} |->
    [mounts |-> IF c = c1 THEN {[dest |-> <<"src">>, type |-> "bind", rw |-> TRUE, backing |-> None]}
                ELSE {[dest |-> <<>>, type |-> "bind", rw |-> FALSE, backing |-> None],
                      [dest |-> <<"data">>, type |-> "volume", rw |-> TRUE, backing |-> vol]}]]

\* Lengths that end where a frame does, inside the next one, or nowhere.
SomeMisread == [x \in {1, 2, 3} \X (2 .. 4) |->
    CASE x \in {<<1, 2>>, <<2, 3>>} -> 0
      [] x = <<1, 3>> -> 1
      [] x = <<1, 4>> -> 3
      [] OTHER -> 2]

-----------------------------------------------------------------------------
VARIABLE part

bothVars == <<vars, framesVars, part>>

BothInit ==
    /\ part \in {"link", "frames"}
    /\ Init /\ (part = "frames" => onPath = (CHOOSE o \in OnPath : TRUE)
                                 /\ platform = (CHOOSE o \in Targets : TRUE)
                                 /\ up = (CHOOSE c \in Containers : TRUE))
    /\ FramesInit /\ (part = "link" => dir = CHOOSE d \in Directions : TRUE)

BothNext ==
    /\ part' = part
    /\ \/ part = "link" /\ Next /\ UNCHANGED framesVars
       \/ part = "frames" /\ FramesNext /\ UNCHANGED vars

\* Only the link has a liveness property; while it is parked nothing it is fair to is enabled.
BothSpec == BothInit /\ [][BothNext]_bothVars /\ LinkFairness
=============================================================================
