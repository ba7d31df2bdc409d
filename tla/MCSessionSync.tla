---------------------------- MODULE MCSessionSync ----------------------------
(* Small instances of SessionSync. *)
EXTENDS SessionSync, TLC

CONSTANTS s1, s2, c1, c2, e1

\* The transcript the driver hands out.
OneSeed == {<<e1>>}

Symmetry == Permutations(Client)
=============================================================================
