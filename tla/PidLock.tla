------------------------------ MODULE PidLock ------------------------------
(***************************************************************************)
(* The single-server lock file, pantoken.pid                               *)
(* (server-rs/pantoken-server/src/pidlock.rs).                             *)
(*                                                                         *)
(* The file holds the pid of whoever wrote it last.  It is advisory: a     *)
(* process decides by reading it and asking whether that pid is alive, and *)
(* then overwrites it.  `file` is a pid, NoLock when there is no file, or  *)
(* Garbled when its text names no pid.                                     *)
(***************************************************************************)
CONSTANTS NoLock, Garbled

\* parse_lock: text that names no positive pid is as good as no lock.
parse_lock(file) == IF file = Garbled THEN NoLock ELSE file

\* Seeded bug: whatever the file names is taken for a leftover.
lock_ignored(file, self, alive) == "reclaim"

\* Defer to a live holder that is not ourselves; reclaim everything else.
lock_decision(file, self, alive) ==
    IF parse_lock(file) \in alive \ {self} THEN "live" ELSE "reclaim"

\* What the file holds once `self` has acquired the lock.
Acquired(file, self) == self

\* Drop: remove the file unless another process has taken the lock over.
release(file, self) ==
    IF parse_lock(file) \notin {NoLock, self} THEN file ELSE NoLock
=============================================================================
