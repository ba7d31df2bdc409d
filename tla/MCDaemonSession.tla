-------------------------- MODULE MCDaemonSession --------------------------
(* Two pids, three or four processes, a few faults.                        *)
EXTENDS DaemonSession
=============================================================================
