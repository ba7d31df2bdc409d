--------------------------- MODULE MCPromptDelivery ---------------------------
(* One text: through every failure on the way of one attempt, and through   *)
(* a retry after a refusal, with a ledger that forgets the older attempt.   *)
EXTENDS PromptDelivery

CONSTANT t1

SomeRegimes ==
    {[creates |-> {t1}, outcomes |-> {"accepted", "refused", "createFailed"}, ledgerCap |-> 2,
      ids |-> 1, hangups |-> 1, reloads |-> 1, restarts |-> 1, drops |-> 0],
     [creates |-> {}, outcomes |-> {"accepted", "refused", "replyLost"}, ledgerCap |-> 1,
      ids |-> 2, hangups |-> 1, reloads |-> 0, restarts |-> 0, drops |-> 1]}

(* One attempt, one hang-up of its connection, a daemon that always accepts. *)
OneRegime ==
    {[creates |-> {}, outcomes |-> {"accepted"}, ledgerCap |-> 2,
      ids |-> 1, hangups |-> 1, reloads |-> 0, restarts |-> 0, drops |-> 0]}
=============================================================================
