-------------------------- MODULE MCRemoteRuntime --------------------------
(* Three connections, three runtimes, kills at any point.                  *)
EXTENDS RemoteRuntime
=============================================================================
