------------------------------ MODULE Worktrees ------------------------------
(***************************************************************************)
(* The worktree a session may run in, and the index that records it.       *)
(*                                                                         *)
(*   server shared/worktree.rs   create, is_clean, remove                  *)
(*   server worktree_store.rs    WorktreeStore                             *)
(*                                                                         *)
(* A tree is its directory, whether the directory has uncommitted changes, *)
(* its entry in the index, and the vcs that made it.  The vcs commands are *)
(* external: a command that fails changes nothing, except that a jj        *)
(* workspace may be forgotten and its directory not removed.               *)
(***************************************************************************)

Vcs == {"jj", "git"}

TreeTypes ==
    [dir : BOOLEAN, dirty : BOOLEAN, entry : {"none", "live", "reaped"}, vcs : Vcs \cup {"none"}]

NoTree == [dir |-> FALSE, dirty |-> FALSE, entry |-> "none", vcs |-> "none"]

\* WorktreeStore::add: a path that is used again is live again.
add(t) == [t EXCEPT !.entry = "live"]

\* WorktreeStore::mark_reaped: a tombstone, and only for a path of the index.
mark_reaped(t) == IF t.entry = "none" THEN t ELSE [t EXCEPT !.entry = "reaped"]

\* WorktreeStore::live
live(t) == t.entry = "live"

\* worktree::create: what `git worktree add` or `jj workspace add` leaves when it succeeds.
create(t, vcs) == [t EXCEPT !.dir = TRUE, !.dirty = FALSE, !.vcs = vcs]

\* Seeded bug: nobody looks.
is_clean_skipped(t) == TRUE

\* worktree::is_clean: there are no changes; a directory that is not there is not clean.
is_clean(t) == t.dir /\ ~t.dirty

\* plan_worktree_removal and the commands it plans: the trees a removal that succeeds may leave.
\* git removes a tree with changes only when forced; jj forgets the workspace and the directory
\* is deleted whatever it holds by then.
remove_plan(t, force) ==
    IF t.vcs = "git" /\ ~force /\ t.dirty
    THEN {}
    ELSE {[t EXCEPT !.dir = FALSE, !.dirty = FALSE]}
=============================================================================
