----------------------------- MODULE RemoteHost -----------------------------
(***************************************************************************)
(* What provisioning sees and changes on the machine (or in the container) *)
(* it installs into: the uploaded archives, the staging and the final      *)
(* directory of each artifact, and the commands of the install scripts     *)
(* (desktop/src/provisioning/polytoken_install.rs and                      *)
(* pantoken_server_install.rs), one at a time, since a lost connection or  *)
(* a second script can fall between any two of them.  The container checks *)
(* of docker_target.rs and the risk rules of remote_executor.rs are here   *)
(* too: they are functions of what `docker inspect` reports.               *)
(***************************************************************************)
EXTENDS Naturals, Sequences, FiniteSets

CONSTANT None

Artifacts == {"polytoken", "server"}

(* The bytes of a file: absent, cut short, as published, or altered.       *)
Bits == {"none", "partial", "whole", "corrupt"}

(* A staging or final directory.  The server archive holds its binary in   *)
(* bin/ (nested); polytoken's holds it at the top.                         *)
Dir == [nested : Bits, bin : Bits, exec : BOOLEAN]
EmptyDir == [nested |-> "none", bin |-> "none", exec |-> FALSE]
SlotOf(a) == IF a = "server" THEN "nested" ELSE "bin"

Disk == [cache   : [Artifacts -> Bits],
         staging : [Artifacts -> Dir \cup {None}],
         final   : [Artifacts -> Dir \cup {None}]]
EmptyDisk == [cache   |-> [a \in Artifacts |-> "none"],
              staging |-> [a \in Artifacts |-> None],
              final   |-> [a \in Artifacts |-> None]]

(***************************************************************************)
(* The install script: set -e, so the first command that fails ends it.    *)
(* Extraction is two points, begun and finished.  The staging name ends in *)
(* a literal "$$" (posix_quote puts it in single quotes), so there is one  *)
(* staging directory for each artifact, whoever runs the script.           *)
(***************************************************************************)
build_install_command(a) ==
    IF a = "server"
    THEN <<"mkdir staging", "unpack", "unpacked", "chmod", "hoist",
           "mkdir final", "rm final", "rename", "rm archive">>
    ELSE <<"mkdir staging", "unpack", "unpacked", "chmod",
           "mkdir final", "rm final", "rename", "rm archive">>

(* Whether the command exits 0.                                            *)
Succeeds(d, a, c) ==
    CASE c \in {"unpack"}            -> d.cache[a] # "none" /\ d.staging[a] # None
      [] c = "unpacked"              -> d.cache[a] \in {"whole", "corrupt"} /\ d.staging[a] # None
      [] c \in {"chmod", "hoist"}    -> d.staging[a] # None /\ d.staging[a][SlotOf(a)] # "none"
      [] c = "rename"                -> d.staging[a] # None
      [] OTHER                       -> TRUE

(* The disk after the command.  mv onto an existing directory moves the    *)
(* staging directory into it, where no one looks for it.                   *)
After(d, a, c) ==
    CASE c = "mkdir staging" ->
            [d EXCEPT !.staging[a] = IF @ = None THEN EmptyDir ELSE @]
      [] c = "unpack"   -> [d EXCEPT !.staging[a][SlotOf(a)] = "partial"]
      [] c = "unpacked" -> [d EXCEPT !.staging[a][SlotOf(a)] = d.cache[a]]
      [] c = "chmod"    -> [d EXCEPT !.staging[a].exec = TRUE]
      [] c = "hoist"    -> [d EXCEPT !.staging[a].bin = d.staging[a].nested,
                                     !.staging[a].nested = "none"]
      [] c = "mkdir final" ->
            [d EXCEPT !.final[a] = IF @ = None THEN EmptyDir ELSE @]
      [] c = "rm final"    -> [d EXCEPT !.final[a] = None]
      [] c = "rename"      -> [d EXCEPT !.final[a] = IF @ = None THEN d.staging[a] ELSE @,
                                        !.staging[a] = None]
      [] c = "rm archive"  -> [d EXCEPT !.cache[a] = "none"]

build_cleanup_staging_command(d, a) == [d EXCEPT !.staging[a] = None]

(* test -x <final>/pantoken-server *)
check_server_installed(d) ==
    d.final["server"] # None /\ d.final["server"].bin # "none" /\ d.final["server"].exec

(* Seeded bug: the digest is computed but not compared. *)
verify_nothing(bits) == TRUE

verify_checksum(bits) == bits = "whole"

-----------------------------------------------------------------------------
(***************************************************************************)
(* Containers.  A path is a sequence of components; a mount is a record    *)
(* [dest, type, rw, backing].                                              *)
(***************************************************************************)
path_covers(dest, path) ==
    Len(dest) <= Len(path) /\ SubSeq(path, 1, Len(dest)) = dest

deepest_covering_mount(path, mounts) ==
    CHOOSE m \in {x \in mounts : path_covers(x.dest, path)} :
        \A x \in mounts : path_covers(x.dest, path) => Len(x.dest) <= Len(m.dest)

Covered(path, mounts) == \E m \in mounts : path_covers(m.dest, path)

(* "readOnly" is the error that ends preflight. *)
persistence_facts(path, mounts) ==
    IF ~Covered(path, mounts) THEN [class |-> "writableLayer", backing |-> None]
    ELSE LET m == deepest_covering_mount(path, mounts) IN
         CASE ~m.rw                           -> [class |-> "readOnly", backing |-> None]
           [] m.rw /\ m.type \in {"bind", "volume"} -> [class |-> m.type, backing |-> m.backing]
           [] m.rw /\ m.type = "tmpfs"        -> [class |-> "tmpfs", backing |-> None]
           [] OTHER                           -> [class |-> "writableLayer", backing |-> None]

Ephemeral(path, mounts) == persistence_facts(path, mounts).class \in {"tmpfs", "writableLayer"}

(* The fingerprint a risk is acknowledged by: it names the container by    *)
(* its id, and what made the risk arise.                                   *)
root_risk_fingerprint(h, cid, user) == <<"rootExecution", h, cid, user>>
ephemeral_risk_fingerprint(h, cid, path, facts) == <<"ephemeralData", h, cid, path, facts>>

(* The risks of running profile p of host h in container cid, whose        *)
(* inspect record is i.                                                    *)
RisksOf(h, p, cid, i) ==
    (IF p.user = "root" THEN {root_risk_fingerprint(h, cid, p.user)} ELSE {})
    \cup (IF Ephemeral(p.path, i.mounts)
          THEN {ephemeral_risk_fingerprint(h, cid, p.path, persistence_facts(p.path, i.mounts))}
          ELSE {})

RiskKinds == {"rootExecution", "ephemeralData"}

(* Those of them the stored acknowledgements do not answer. *)
PendingRisks(h, p, cid, i) ==
    {r \in RisksOf(h, p, cid, i) : p.acks[r[1]] # r}
=============================================================================
