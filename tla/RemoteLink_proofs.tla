-------------------------- MODULE RemoteLink_proofs --------------------------
(***************************************************************************)
(* RunsOnlyWhereAcknowledged and InstalledServerIsWhole of RemoteLink, for *)
(* any hosts, profiles, containers and bounds; and that FrameStream        *)
(* implements FifoChannel, for any prefix, body sizes, messages and reads. *)
(***************************************************************************)
EXTENDS RemoteLink, FrameStream, SequenceTheorems, FiniteSetTheorems, WellFoundedInduction, TLAPS

-----------------------------------------------------------------------------
(* The inductive invariants *)

\* The stages past preflight: what runs there runs with the container decided.
Past == Pcs \ (Preflight \cup {"begin", "done"})

\* Every risk of the task's profile in the container it is pinned to is answered.
Answered(t, g) ==
    t.prof.kind = "docker" => RisksOf(t.host, t.prof, t.target, Inspect[t.target]) \subseteq g

\* An answer a profile keeps was given by the user.
KeepsAnswers(p) == \A k \in RiskKinds : p.acks[k] = None \/ p.acks[k] \in granted

Kept == /\ \A h \in Hosts : profiles[h] # None => KeepsAnswers(profiles[h])
        /\ \A s \in Sids : task[s] # None => KeepsAnswers(task[s].prof)

\* A host with a session is a saved profile with a task.
Opened == \A h \in Hosts : sessions[h] # 0 => profiles[h] # None /\ task[sessions[h]] # None

\* Preflight is Docker's; a task past it, and the task of a relay, is answered for.
Cleared ==
    /\ \A s \in Sids : task[s] # None =>
          /\ task[s].pc \in Preflight => task[s].prof.kind = "docker"
          /\ task[s].pc \in Past => Answered(task[s], granted)
    /\ \A r \in Rids : relay[r] # None =>
          /\ task[relay[r].sid] # None
          /\ task[relay[r].sid].pc \in {"listen", "done"}
          /\ Answered(task[relay[r].sid], granted)

RunInv == TypeOK /\ Kept /\ Opened /\ Cleared /\ RunsOnlyWhereAcknowledged

\* The machine a task that is past preflight works on.
Home(t) == IF t.prof.kind = "host" THEN "host" ELSE t.target

\* What check_server_installed accepts on a disk is whole.
Trusted(d) == check_server_installed(d) => d.final["server"].bin = "whole"

\* How far the server's script has come on a disk when its next command is k.
Built(d, k) ==
    /\ d.cache["server"] = "whole"
    /\ k \in {4, 5} => d.staging["server"] # None /\ d.staging["server"].nested = "whole"
    /\ k \in {6, 7, 8} => d.staging["server"] # None /\ d.staging["server"].bin = "whole"

\* One connection task lives; what it uploads is whole, and so is what its script builds.
Alone == \A x, y \in Sids : Live(x) /\ Live(y) => x = y
Installs ==
    \A s \in Sids : task[s] # None =>
        /\ task[s].pc = "upload" => task[s].got = "whole"
        /\ task[s].pc = "script" =>
              /\ Home(task[s]) \in Machines
              /\ task[s].art = "server" => Built(disk[Home(task[s])], task[s].cmd)

InstallInv == TypeOK /\ Alone /\ Installs /\ InstalledServerIsWhole

-----------------------------------------------------------------------------
(* Values *)

LEMMA ProfileShape ==
    ASSUME NEW p \in Profile
    PROVE  /\ DOMAIN p = {"kind", "port", "user", "path", "absolute", "policy", "acks"}
           /\ p.kind \in {"host", "docker"}
           /\ p.acks \in [RiskKinds -> Risks \cup {None}]
           /\ p # None
<1>1. PICK q \in Profiles, a \in [RiskKinds -> Risks \cup {None}] : p = WithAcks(q, a)
  BY DEF Profile
<1>2. /\ DOMAIN q = {"kind", "port", "user", "path", "absolute", "policy", "acks"}
      /\ q.kind \in {"host", "docker"}
  BY <1>1, ProfilesAssumption
<1> QED BY <1>1, <1>2, NoneAssumption DEF WithAcks

\* Other answers make a profile of the same kind, user and path.
LEMMA WithAnswers ==
    ASSUME NEW p \in Profile, NEW a \in [RiskKinds -> Risks \cup {None}]
    PROVE  WithAcks(p, a) \in Profile /\ WithAcks(p, a).acks = a
<1>1. PICK q \in Profiles, b \in [RiskKinds -> Risks \cup {None}] : p = WithAcks(q, b)
  BY DEF Profile
<1>2. DOMAIN q = {"kind", "port", "user", "path", "absolute", "policy", "acks"}
  BY <1>1, ProfilesAssumption
<1>3. WithAcks(p, a) = WithAcks(q, a)
  BY <1>1, <1>2 DEF WithAcks
<1>4. WithAcks(q, a) \in Profile
  BY <1>1 DEF Profile
<1>5. WithAcks(q, a).acks = a
  BY <1>2 DEF WithAcks
<1> QED BY <1>3, <1>4, <1>5

LEMMA NewProfiles ==
    ASSUME NEW p \in Profiles
    PROVE  /\ p \in Profile /\ p.acks = NoAcks
           /\ NoAcks \in [RiskKinds -> Risks \cup {None}]
<1>1. NoAcks \in [RiskKinds -> Risks \cup {None}]
  BY DEF NoAcks
<1>2. p.acks = NoAcks /\ p = WithAcks(p, NoAcks)
  BY ProfilesAssumption DEF WithAcks
<1>3. WithAcks(p, NoAcks) \in Profile
  BY <1>1 DEF Profile
<1> QED BY <1>1, <1>2, <1>3

LEMMA RisksOfProfile ==
    ASSUME NEW h \in Hosts, NEW p \in Profile, NEW c \in Containers
    PROVE  RisksOf(h, p, c, Inspect[c]) \subseteq Risks
<1>1. PICK q \in Profiles, a \in [RiskKinds -> Risks \cup {None}] : p = WithAcks(q, a)
  BY DEF Profile
<1>2. p.user = q.user /\ p.path = q.path
  BY <1>1, ProfilesAssumption DEF WithAcks
<1>3. RisksOf(h, p, c, Inspect[c]) = RisksOf(h, q, c, Inspect[c])
  BY <1>2 DEF RisksOf
<1> QED BY <1>1, <1>3 DEF Risks

LEMMA RiskKindsAreTwo ==
    ASSUME NEW r \in Risks
    PROVE  r[1] \in RiskKinds /\ r # None
<1>1. PICK h \in Hosts, p \in Profiles, c \in Containers : r \in RisksOf(h, p, c, Inspect[c])
  BY DEF Risks
<1>2. r[1] \in RiskKinds
  BY <1>1 DEF RisksOf, root_risk_fingerprint, ephemeral_risk_fingerprint, RiskKinds
<1> QED BY <1>2, NoneAssumption

-----------------------------------------------------------------------------
(* The disk *)

\* The two scripts, command by command.
LEMMA ScriptCommands ==
    /\ Len(build_install_command("server")) = 9
    /\ Len(build_install_command("polytoken")) = 8
    /\ build_install_command("server")[1] = "mkdir staging"
    /\ build_install_command("server")[2] = "unpack"
    /\ build_install_command("server")[3] = "unpacked"
    /\ build_install_command("server")[4] = "chmod"
    /\ build_install_command("server")[5] = "hoist"
    /\ build_install_command("server")[6] = "mkdir final"
    /\ build_install_command("server")[7] = "rm final"
    /\ build_install_command("server")[8] = "rename"
    /\ build_install_command("server")[9] = "rm archive"
    /\ build_install_command("polytoken")[1] = "mkdir staging"
    /\ build_install_command("polytoken")[2] = "unpack"
    /\ build_install_command("polytoken")[3] = "unpacked"
    /\ build_install_command("polytoken")[4] = "chmod"
    /\ build_install_command("polytoken")[5] = "mkdir final"
    /\ build_install_command("polytoken")[6] = "rm final"
    /\ build_install_command("polytoken")[7] = "rename"
    /\ build_install_command("polytoken")[8] = "rm archive"
BY DEF build_install_command

LEMMA ScriptLength ==
    ASSUME NEW a \in Artifacts
    PROVE  Len(build_install_command(a)) \in {8, 9}
<1>1. a = "server" \/ a = "polytoken"
  BY DEF Artifacts
<1> QED BY <1>1, ScriptCommands

LEMMA ScriptRange ==
    ASSUME NEW n \in {8, 9}
    PROVE  1 \in 1 .. n /\ \A x \in 1 .. n : x \in 1 .. 9
<1>1. CASE n = 8
  BY <1>1
<1>2. CASE n = 9
  BY <1>2
<1> QED BY <1>1, <1>2

Steps == {"mkdir staging", "unpack", "unpacked", "chmod", "hoist", "mkdir final", "rm final",
          "rename", "rm archive"}

LEMMA CommandsOfScripts ==
    ASSUME NEW a \in Artifacts, NEW k \in 1 .. Len(build_install_command(a))
    PROVE  build_install_command(a)[k] \in Steps
<1>1. CASE a = "server"
  <2>1. k \in 1 .. 9
    BY <1>1, ScriptCommands
  <2>2. k \in {1, 2, 3, 4, 5, 6, 7, 8, 9}
    BY <2>1
  <2>3. build_install_command("server")[k] \in Steps
    BY <2>2, ScriptCommands DEF Steps
  <2> QED BY <1>1, <2>3
<1>2. CASE a = "polytoken"
  <2>1. k \in 1 .. 8
    BY <1>2, ScriptCommands
  <2>2. k \in {1, 2, 3, 4, 5, 6, 7, 8}
    BY <2>1
  <2>3. build_install_command("polytoken")[k] \in Steps
    BY <2>2, ScriptCommands DEF Steps
  <2> QED BY <1>2, <2>3
<1> QED BY <1>1, <1>2 DEF Artifacts

Files(x, y, z) == [cache |-> x, staging |-> y, final |-> z]

LEMMA DiskShape ==
    ASSUME NEW d \in Disk
    PROVE  /\ d = Files(d.cache, d.staging, d.final)
           /\ d.cache \in [Artifacts -> Bits]
           /\ d.staging \in [Artifacts -> Dir \cup {None}]
           /\ d.final \in [Artifacts -> Dir \cup {None}]
BY DEF Disk, Files

LEMMA FilesAreDisks ==
    ASSUME NEW x \in [Artifacts -> Bits], NEW y \in [Artifacts -> Dir \cup {None}],
           NEW z \in [Artifacts -> Dir \cup {None}]
    PROVE  Files(x, y, z) \in Disk
BY DEF Files, Disk

\* A command that succeeds leaves a disk.
LEMMA AfterIsDisk ==
    ASSUME NEW d \in Disk, NEW a \in Artifacts, NEW c \in Steps, Succeeds(d, a, c)
    PROVE  After(d, a, c) \in Disk
<1>1. PICK x \in [Artifacts -> Bits], y \in [Artifacts -> Dir \cup {None}],
           z \in [Artifacts -> Dir \cup {None}] : d = Files(x, y, z)
  BY DiskShape
<1>2. d.cache = x /\ d.staging = y /\ d.final = z
  BY <1>1 DEF Files
<1>3. SlotOf(a) \in {"nested", "bin"}
  BY DEF SlotOf
<1>4. CASE c = "mkdir staging"
  <2>1. After(d, a, c) =
          Files(x, [y EXCEPT ![a] = IF y[a] = None THEN EmptyDir ELSE y[a]], z)
    BY <1>1, <1>4 DEF After, Files
  <2>2. Succeeds(d, a, "mkdir staging")
    BY <1>4
  <2>3. EmptyDir \in Dir
    BY DEF Dir, EmptyDir, Bits
  <2>4. PICK v \in [Artifacts -> Dir \cup {None}] : v = [y EXCEPT ![a] = IF y[a] = None THEN EmptyDir ELSE y[a]]
    BY <1>1, <2>3
  <2>5. After(d, a, c) = Files(x, v, z)
    BY <2>1, <2>4
  <2>6. Files(x, v, z) \in Disk
    BY <1>1, <2>4, FilesAreDisks
  <2> QED BY <2>5, <2>6
<1>5. CASE c = "unpack"
  <2>1. After(d, a, c) =
          Files(x, [y EXCEPT ![a] = [y[a] EXCEPT ![SlotOf(a)] = "partial"]], z)
    BY <1>1, <1>5 DEF After, Files
  <2>2. Succeeds(d, a, "unpack")
    BY <1>5
  <2> QED BY <1>1, <1>2, <1>3, <2>1, <2>2 DEF Succeeds, Files, Disk, Dir, EmptyDir, Bits
<1>6. CASE c = "unpacked"
  <2>1. After(d, a, c) =
          Files(x, [y EXCEPT ![a] = [y[a] EXCEPT ![SlotOf(a)] = x[a]]], z)
    BY <1>1, <1>6 DEF After, Files
  <2>2. Succeeds(d, a, "unpacked")
    BY <1>6
  <2> QED BY <1>1, <1>2, <1>3, <2>1, <2>2 DEF Succeeds, Files, Disk, Dir, EmptyDir, Bits
<1>7. CASE c = "chmod"
  <2>1. After(d, a, c) =
          Files(x, [y EXCEPT ![a] = [y[a] EXCEPT !.exec = TRUE]], z)
    BY <1>1, <1>7 DEF After, Files
  <2>2. Succeeds(d, a, "chmod")
    BY <1>7
  <2>3. y[a] \in Dir
    BY <1>1, <1>2, <2>2 DEF Succeeds
  <2>4. [y[a] EXCEPT !.exec = TRUE] \in Dir
    BY <2>3 DEF Dir, Bits
  <2>5. PICK v \in [Artifacts -> Dir \cup {None}] : v = [y EXCEPT ![a] = [y[a] EXCEPT !.exec = TRUE]]
    BY <1>1, <2>4
  <2>6. After(d, a, c) = Files(x, v, z)
    BY <2>1, <2>5
  <2>7. Files(x, v, z) \in Disk
    BY <1>1, <2>5, FilesAreDisks
  <2> QED BY <2>6, <2>7
<1>8. CASE c = "hoist"
  <2>1. After(d, a, c) =
          Files(x, [y EXCEPT ![a] = [y[a] EXCEPT !.bin = y[a].nested, !.nested = "none"]], z)
    BY <1>1, <1>8 DEF After, Files
  <2>2. Succeeds(d, a, "hoist")
    BY <1>8
  <2>3. y[a] \in Dir
    BY <1>1, <1>2, <2>2 DEF Succeeds
  <2>4. [y[a] EXCEPT !.bin = y[a].nested, !.nested = "none"] \in Dir
    BY <2>3 DEF Dir, Bits
  <2>5. PICK v \in [Artifacts -> Dir \cup {None}] : v = [y EXCEPT ![a] = [y[a] EXCEPT !.bin = y[a].nested, !.nested = "none"]]
    BY <1>1, <2>4
  <2>6. After(d, a, c) = Files(x, v, z)
    BY <2>1, <2>5
  <2>7. Files(x, v, z) \in Disk
    BY <1>1, <2>5, FilesAreDisks
  <2> QED BY <2>6, <2>7
<1>9. CASE c = "mkdir final"
  <2>1. After(d, a, c) =
          Files(x, y, [z EXCEPT ![a] = IF z[a] = None THEN EmptyDir ELSE z[a]])
    BY <1>1, <1>9 DEF After, Files
  <2>2. Succeeds(d, a, "mkdir final")
    BY <1>9
  <2>3. EmptyDir \in Dir
    BY DEF Dir, EmptyDir, Bits
  <2>4. PICK v \in [Artifacts -> Dir \cup {None}] : v = [z EXCEPT ![a] = IF z[a] = None THEN EmptyDir ELSE z[a]]
    BY <1>1, <2>3
  <2>5. After(d, a, c) = Files(x, y, v)
    BY <2>1, <2>4
  <2>6. Files(x, y, v) \in Disk
    BY <1>1, <2>4, FilesAreDisks
  <2> QED BY <2>5, <2>6
<1>10. CASE c = "rm final"
  <2>1. After(d, a, c) =
          Files(x, y, [z EXCEPT ![a] = None])
    BY <1>1, <1>10 DEF After, Files
  <2>2. Succeeds(d, a, "rm final")
    BY <1>10
  <2> QED BY <1>1, <1>2, <1>3, <2>1, <2>2 DEF Succeeds, Files, Disk, Dir, EmptyDir, Bits
<1>11. CASE c = "rename"
  <2>1. After(d, a, c) =
          Files(x, [y EXCEPT ![a] = None],
               [z EXCEPT ![a] = IF z[a] = None THEN y[a] ELSE z[a]])
    BY <1>1, <1>11 DEF After, Files
  <2>2. Succeeds(d, a, "rename")
    BY <1>11
  <2> QED BY <1>1, <1>2, <1>3, <2>1, <2>2 DEF Succeeds, Files, Disk, Dir, EmptyDir, Bits
<1>12. CASE c = "rm archive"
  <2>1. After(d, a, c) =
          Files([x EXCEPT ![a] = "none"], y, z)
    BY <1>1, <1>12 DEF After, Files
  <2>2. Succeeds(d, a, "rm archive")
    BY <1>12
  <2> QED BY <1>1, <1>2, <1>3, <2>1, <2>2 DEF Succeeds, Files, Disk, Dir, EmptyDir, Bits
<1> QED BY <1>4, <1>5, <1>6, <1>7, <1>8, <1>9, <1>10, <1>11, <1>12 DEF Steps

\* A command of polytoken's script leaves the server's files alone.
LEMMA OtherArtifact ==
    ASSUME NEW d \in Disk, NEW c \in Steps, NEW e, e = After(d, "polytoken", c)
    PROVE  /\ e.final["server"] = d.final["server"]
           /\ e.staging["server"] = d.staging["server"]
           /\ e.cache["server"] = d.cache["server"]
<1>1. PICK x \in [Artifacts -> Bits], y \in [Artifacts -> Dir \cup {None}],
           z \in [Artifacts -> Dir \cup {None}] : d = Files(x, y, z)
  BY DiskShape
<1>2. d.cache = x /\ d.staging = y /\ d.final = z
  BY <1>1 DEF Files
<1>3. "polytoken" \in Artifacts /\ "server" \in Artifacts
  BY DEF Artifacts
<1>4. CASE c = "mkdir staging"
  <2>1. e = Files(x, [y EXCEPT !["polytoken"] = IF y["polytoken"] = None THEN EmptyDir ELSE y["polytoken"]], z)
    BY <1>1, <1>3, <1>4 DEF After, Files
  <2> QED BY <1>1, <1>2, <1>3, <2>1 DEF Files
<1>5. CASE c = "unpack"
  <2>1. e = Files(x, [y EXCEPT !["polytoken"] = [y["polytoken"] EXCEPT ![SlotOf("polytoken")] = "partial"]], z)
    BY <1>1, <1>3, <1>5 DEF After, Files
  <2> QED BY <1>1, <1>2, <1>3, <2>1 DEF Files
<1>6. CASE c = "unpacked"
  <2>1. e = Files(x, [y EXCEPT !["polytoken"] = [y["polytoken"] EXCEPT ![SlotOf("polytoken")] = x["polytoken"]]], z)
    BY <1>1, <1>3, <1>6 DEF After, Files
  <2> QED BY <1>1, <1>2, <1>3, <2>1 DEF Files
<1>7. CASE c = "chmod"
  <2>1. e = Files(x, [y EXCEPT !["polytoken"] = [y["polytoken"] EXCEPT !.exec = TRUE]], z)
    BY <1>1, <1>3, <1>7 DEF After, Files
  <2> QED BY <1>1, <1>2, <1>3, <2>1 DEF Files
<1>8. CASE c = "hoist"
  <2>1. e = Files(x, [y EXCEPT !["polytoken"] = [y["polytoken"] EXCEPT !.bin = y["polytoken"].nested, !.nested = "none"]], z)
    BY <1>1, <1>3, <1>8 DEF After, Files
  <2> QED BY <1>1, <1>2, <1>3, <2>1 DEF Files
<1>9. CASE c = "mkdir final"
  <2>1. e = Files(x, y, [z EXCEPT !["polytoken"] = IF z["polytoken"] = None THEN EmptyDir ELSE z["polytoken"]])
    BY <1>1, <1>3, <1>9 DEF After, Files
  <2> QED BY <1>1, <1>2, <1>3, <2>1 DEF Files
<1>10. CASE c = "rm final"
  <2>1. e = Files(x, y, [z EXCEPT !["polytoken"] = None])
    BY <1>1, <1>3, <1>10 DEF After, Files
  <2> QED BY <1>1, <1>2, <1>3, <2>1 DEF Files
<1>11. CASE c = "rename"
  <2>1. e = Files(x, [y EXCEPT !["polytoken"] = None],
               [z EXCEPT !["polytoken"] = IF z["polytoken"] = None THEN y["polytoken"] ELSE z["polytoken"]])
    BY <1>1, <1>3, <1>11 DEF After, Files
  <2> QED BY <1>1, <1>2, <1>3, <2>1 DEF Files
<1>12. CASE c = "rm archive"
  <2>1. e = Files([x EXCEPT !["polytoken"] = "none"], y, z)
    BY <1>1, <1>3, <1>12 DEF After, Files
  <2> QED BY <1>1, <1>2, <1>3, <2>1 DEF Files
<1> QED BY <1>4, <1>5, <1>6, <1>7, <1>8, <1>9, <1>10, <1>11, <1>12 DEF Steps

\* The server's script, run through, puts nothing but the whole binary in place.
LEMMA ServerScript ==
    ASSUME NEW d \in Disk, NEW k \in 1 .. 9, NEW c,
           c = build_install_command("server")[k], Succeeds(d, "server", c),
           Built(d, k), Trusted(d), NEW e, e = After(d, "server", c)
    PROVE  Trusted(e) /\ (k < 9 => Built(e, k + 1))
<1>1. PICK x \in [Artifacts -> Bits], y \in [Artifacts -> Dir \cup {None}],
           z \in [Artifacts -> Dir \cup {None}] : d = Files(x, y, z)
  BY DiskShape
<1>2. d.cache = x /\ d.staging = y /\ d.final = z
  BY <1>1 DEF Files
<1>3. "server" \in Artifacts /\ SlotOf("server") = "nested" /\ None \notin Dir
  BY NoneAssumption DEF Artifacts, SlotOf
<1> USE DEF Dir, EmptyDir, Bits, Built, Trusted, check_server_installed
<1>4. CASE k = 1
  <2>1. c = "mkdir staging"
    BY <1>4, ScriptCommands
  <2>2. e = Files(x, [y EXCEPT !["server"] = IF y["server"] = None THEN EmptyDir ELSE y["server"]], z)
    BY <1>1, <1>3, <2>1 DEF After, Files
  <2>3. Succeeds(d, "server", "mkdir staging")
    BY <2>1
  <2> QED BY <1>1, <1>2, <1>3, <1>4, <2>2, <2>3 DEF Succeeds, Files
<1>5. CASE k = 2
  <2>1. c = "unpack"
    BY <1>5, ScriptCommands
  <2>2. e = Files(x, [y EXCEPT !["server"] = [y["server"] EXCEPT ![SlotOf("server")] = "partial"]], z)
    BY <1>1, <1>3, <2>1 DEF After, Files
  <2>3. Succeeds(d, "server", "unpack")
    BY <2>1
  <2> QED BY <1>1, <1>2, <1>3, <1>5, <2>2, <2>3 DEF Succeeds, Files
<1>6. CASE k = 3
  <2>1. c = "unpacked"
    BY <1>6, ScriptCommands
  <2>2. e = Files(x, [y EXCEPT !["server"] = [y["server"] EXCEPT ![SlotOf("server")] = x["server"]]], z)
    BY <1>1, <1>3, <2>1 DEF After, Files
  <2>3. Succeeds(d, "server", "unpacked")
    BY <2>1
  <2> QED BY <1>1, <1>2, <1>3, <1>6, <2>2, <2>3 DEF Succeeds, Files
<1>7. CASE k = 4
  <2>1. c = "chmod"
    BY <1>7, ScriptCommands
  <2>2. e = Files(x, [y EXCEPT !["server"] = [y["server"] EXCEPT !.exec = TRUE]], z)
    BY <1>1, <1>3, <2>1 DEF After, Files
  <2>3. Succeeds(d, "server", "chmod")
    BY <2>1
  <2>4. y["server"] \in Dir /\ y["server"].nested # "none"
    BY <1>1, <1>2, <1>3, <2>3 DEF Succeeds
  <2>5. /\ e.cache = x /\ e.final = z
        /\ e.staging["server"] = [y["server"] EXCEPT !.exec = TRUE]
    <3> HIDE DEF Dir, EmptyDir, Bits, Built, Trusted, check_server_installed
    <3>1. e.cache = x /\ e.final = z
      BY <2>2 DEF Files
    <3>2. e.staging = [y EXCEPT !["server"] = [y["server"] EXCEPT !.exec = TRUE]]
      BY ONLY <2>2 DEF Files
    <3>3. e.staging["server"] = [y["server"] EXCEPT !.exec = TRUE]
      BY <1>1, <1>3, <3>2
    <3> QED BY <3>1, <3>3
  <2>6. e.staging["server"] \in Dir /\ e.staging["server"].nested = y["server"].nested
    BY <2>4, <2>5
  <2> QED BY <1>2, <1>3, <1>7, <2>5, <2>6
<1>8. CASE k = 5
  <2>1. c = "hoist"
    BY <1>8, ScriptCommands
  <2>2. e = Files(x, [y EXCEPT !["server"] = [y["server"] EXCEPT !.bin = y["server"].nested, !.nested = "none"]], z)
    BY <1>1, <1>3, <2>1 DEF After, Files
  <2>3. Succeeds(d, "server", "hoist")
    BY <2>1
  <2>4. y["server"] \in Dir
    BY <1>1, <1>2, <1>3, <2>3 DEF Succeeds
  <2>5. /\ e.cache = x /\ e.final = z
        /\ e.staging["server"] = [y["server"] EXCEPT !.bin = y["server"].nested, !.nested = "none"]
    BY <1>1, <1>3, <2>2 DEF Files
  <2>6. e.staging["server"] \in Dir /\ e.staging["server"].bin = y["server"].nested
    BY <2>4, <2>5
  <2> QED BY <1>2, <1>3, <1>8, <2>5, <2>6
<1>9. CASE k = 6
  <2>1. c = "mkdir final"
    BY <1>9, ScriptCommands
  <2>2. e = Files(x, y, [z EXCEPT !["server"] = IF z["server"] = None THEN EmptyDir ELSE z["server"]])
    BY <1>1, <1>3, <2>1 DEF After, Files
  <2>3. Succeeds(d, "server", "mkdir final")
    BY <2>1
  <2> QED BY <1>1, <1>2, <1>3, <1>9, <2>2, <2>3 DEF Succeeds, Files
<1>10. CASE k = 7
  <2>1. c = "rm final"
    BY <1>10, ScriptCommands
  <2>2. e = Files(x, y, [z EXCEPT !["server"] = None])
    BY <1>1, <1>3, <2>1 DEF After, Files
  <2>3. Succeeds(d, "server", "rm final")
    BY <2>1
  <2> QED BY <1>1, <1>2, <1>3, <1>10, <2>2, <2>3 DEF Succeeds, Files
<1>11. CASE k = 8
  <2>1. c = "rename"
    BY <1>11, ScriptCommands
  <2>2. e = Files(x, [y EXCEPT !["server"] = None],
               [z EXCEPT !["server"] = IF z["server"] = None THEN y["server"] ELSE z["server"]])
    BY <1>1, <1>3, <2>1 DEF After, Files
  <2>3. Succeeds(d, "server", "rename")
    BY <2>1
  <2> QED BY <1>1, <1>2, <1>3, <1>11, <2>2, <2>3 DEF Succeeds, Files
<1>12. CASE k = 9
  <2>1. c = "rm archive"
    BY <1>12, ScriptCommands
  <2>2. e = Files([x EXCEPT !["server"] = "none"], y, z)
    BY <1>1, <1>3, <2>1 DEF After, Files
  <2>3. Succeeds(d, "server", "rm archive")
    BY <2>1
  <2> QED BY <1>1, <1>2, <1>3, <1>12, <2>2, <2>3 DEF Succeeds, Files
<1>13. k \in {1, 2, 3, 4, 5, 6, 7, 8, 9}
  OBVIOUS
<1> QED BY <1>13, <1>4, <1>5, <1>6, <1>7, <1>8, <1>9, <1>10, <1>11, <1>12

-----------------------------------------------------------------------------
(* What the steps of a connection task may do *)

\* The task of s, as it was in t, becomes u.
Becomes(s, t, u) ==
    /\ t \in Task /\ u \in Task /\ u = task'[s]
    /\ task' = [task EXCEPT ![s] = u]
    /\ u.host = t.host /\ u.prof = t.prof
    /\ InScript(u)

Moves(s, t, u) ==
    /\ Becomes(s, t, u)
    /\ t.pc # "done"
    /\ t.pc # "locate" => u.target = t.target
    /\ u.pc \in Preflight => t.prof.kind = "docker"
    /\ u.pc \in Past =>
          \/ t.pc \in Past \/ t.prof.kind # "docker"
          \/ u.target \in Containers /\ PendingRisks(t.host, t.prof, u.target, Inspect[u.target]) = {}
    /\ t.pc = "listen" => u.pc = "done"
    /\ state' \in [Sids -> States]
    /\ disk' \in [Machines -> Disk]
    /\ \/ ran' = ran
       \/ /\ t.pc \in Past /\ ExecIn(t) \in Containers
          /\ ran' = ran \cup {<<t.host, t.prof, ExecIn(t)>>}
    /\ UNCHANGED <<profiles, sessions, cancelled, relay, up, granted>>

\* Where a task can run is a machine, its own one.
LEMMA ExecInHome ==
    ASSUME TypeOK, NEW t \in Task, ExecIn(t) # None
    PROVE  /\ ExecIn(t) \in Machines /\ ExecIn(t) = Home(t)
           /\ t.prof.kind = "host" => ExecIn(t) \notin Containers
           /\ t.prof.kind # "host" => ExecIn(t) = t.target /\ ExecIn(t) = up
<1>1. up \in Containers \cup {None}
  BY DEF TypeOK
<1> QED BY <1>1, LinkAssumption DEF ExecIn, DockerExec, Home, Machines

LEMMA TaskIsTyped ==
    ASSUME TypeOK, NEW s \in Sids, task[s] # None
    PROVE  /\ task[s] \in Task /\ task[s].prof \in Profile /\ task[s].host \in Hosts
           /\ InScript(task[s])
           /\ task[s].prof.kind \in {"host", "docker"}
<1>1. task[s] \in Task /\ InScript(task[s])
  BY DEF TypeOK
<1>2. task[s].prof \in Profile /\ task[s].host \in Hosts
  BY <1>1 DEF Task
<1> QED BY <1>1, <1>2, ProfileShape

LEMMA GotoBecomes ==
    ASSUME TypeOK, NEW s \in Sids, task[s] # None, NEW to \in Pcs, Goto(s, to)
    PROVE  /\ Becomes(s, task[s], task'[s])
           /\ task'[s] = [task[s] EXCEPT !.pc = to]
           /\ task'[s].pc = to /\ task'[s].target = task[s].target
<1>1. task[s] \in Task /\ DOMAIN task = Sids /\ InScript(task[s])
  BY TaskIsTyped DEF TypeOK
<1>2. task' = [task EXCEPT ![s] = [task[s] EXCEPT !.pc = to]]
  BY <1>1 DEF Goto
<1>3. task'[s] = [task[s] EXCEPT !.pc = to]
  BY <1>1, <1>2
<1>4. /\ [task[s] EXCEPT !.pc = to] \in Task
      /\ [task[s] EXCEPT !.pc = to].pc = to
      /\ [task[s] EXCEPT !.pc = to].target = task[s].target
      /\ [task[s] EXCEPT !.pc = to].host = task[s].host
      /\ [task[s] EXCEPT !.pc = to].prof = task[s].prof
      /\ [task[s] EXCEPT !.pc = to].cmd = task[s].cmd
      /\ [task[s] EXCEPT !.pc = to].art = task[s].art
  BY <1>1 DEF Task
<1>5. InScript([task[s] EXCEPT !.pc = to])
  BY <1>1, <1>4 DEF InScript
<1> QED BY <1>1, <1>2, <1>3, <1>4, <1>5 DEF Becomes

LEMMA OnStateTyped ==
    ASSUME TypeOK, NEW s, NEW st \in States, OnState(s, st)
    PROVE  state' \in [Sids -> States]
BY DEF TypeOK, OnState

LEMMA FailBecomes ==
    ASSUME TypeOK, NEW s \in Sids, task[s] # None, Fail(s)
    PROVE  /\ Becomes(s, task[s], task'[s]) /\ task'[s].pc = "done"
           /\ task'[s].target = task[s].target
           /\ state' \in [Sids -> States]
<1>1. "done" \in Pcs /\ "failed" \in States
  BY DEF Pcs, States
<1> QED BY <1>1, GotoBecomes, OnStateTyped DEF Fail

\* A step that only goes on to another command, or gives up, is such a move.
LEMMA GoesOn ==
    ASSUME TypeOK, NEW s \in Sids, task[s] # None, NEW to \in Pcs, Goto(s, to),
           UNCHANGED <<profiles, sessions, cancelled, relay, up, granted, ran>>,
           disk' \in [Machines -> Disk], state' \in [Sids -> States], task[s].pc # "done",
           to \in Preflight => task[s].prof.kind = "docker",
           to \in Past => task[s].pc \in Past \/ task[s].prof.kind # "docker",
           task[s].pc = "listen" => to = "done"
    PROVE  Moves(s, task[s], task'[s])
<1>1. Becomes(s, task[s], task'[s]) /\ task'[s].pc = to /\ task'[s].target = task[s].target
  BY GotoBecomes
<1> QED BY <1>1 DEF Moves

LEMMA GotoMoves ==
    ASSUME TypeOK, NEW s \in Sids, task[s] # None, NEW to \in Pcs, Goto(s, to),
           UNCHANGED <<quiet, ran>>, state' \in [Sids -> States], task[s].pc # "done",
           to \in Preflight => task[s].prof.kind = "docker",
           to \in Past => task[s].pc \in Past \/ task[s].prof.kind # "docker",
           task[s].pc = "listen" => to = "done"
    PROVE  Moves(s, task[s], task'[s])
<1>1. disk' \in [Machines -> Disk] /\ UNCHANGED <<profiles, sessions, cancelled, relay, up, granted, ran>>
  BY DEF quiet, machine, user, TypeOK
<1> QED BY <1>1, GoesOn

LEMMA FailMoves ==
    ASSUME TypeOK, NEW s \in Sids, task[s] # None, Fail(s), UNCHANGED <<quiet, ran>>, task[s].pc # "done"
    PROVE  Moves(s, task[s], task'[s])
<1>1. "done" \in Pcs /\ "done" \notin Preflight /\ "done" \notin Past
  BY DEF Pcs, Preflight, Past
<1>2. Goto(s, "done") /\ state' \in [Sids -> States]
  BY FailBecomes DEF Fail
<1> QED BY <1>1, <1>2, GotoMoves

\* Every step of a connection task is such a move.
LEMMA TaskStepMoves ==
    ASSUME TypeOK, NEW s \in Sids, TaskStep(s),
           task[s] # None /\ task[s].pc \in Preflight => task[s].prof.kind = "docker"
    PROVE  task[s] # None /\ Moves(s, task[s], task'[s])
<1> DEFINE t == task[s]
<1>1. task[s] # None
  BY DEF TaskStep, At, begin, preflight_docker, preflight_outcome, command_fails, probe_remote,
         check_compatibility, cleanup_staging, fetch, upload, run_script, script_lost, script_dies,
         record_provenance, ensure_server_installed, bridge_bind, bridge_cancelled
<1>2. /\ t \in Task /\ InScript(t) /\ t.prof \in Profile /\ t.host \in Hosts /\ t.prof.kind \in {"host", "docker"}
      /\ DOMAIN task = Sids /\ up \in Containers \cup {None}
      /\ state \in [Sids -> States] /\ disk \in [Machines -> Disk]
  BY <1>1, TaskIsTyped DEF TypeOK
<1>3. /\ Preflight \subseteq Pcs /\ Remote \subseteq Pcs
      /\ Past = {"probe", "compat", "upload", "record", "check", "cleanup", "fetch", "script", "bind", "listen"}
      /\ Preflight = {"access", "locate", "inspect", "identity"}
      /\ {"probe", "compat", "cleanup", "fetch", "upload", "record", "check", "bind", "listen", "done",
          "script"} \subseteq Pcs
      /\ {"failed", "preflight", "provisioning", "awaiting", "starting"} \subseteq States
  BY DEF Preflight, Remote, Pcs, Past, States
<1>4. CASE begin(s)
  <2>1. CASE t.prof.kind = "docker"
    <3>1. OnState(s, "preflight") /\ Goto(s, "access") /\ t.pc = "begin"
      BY <1>4, <2>1 DEF begin, At
    <3>2. UNCHANGED <<quiet, ran>> /\ state' \in [Sids -> States]
      BY <1>3, <1>4, <3>1, OnStateTyped DEF begin
    <3>3. "access" \in Pcs /\ "access" \notin Past
      BY <1>3
    <3> QED BY <1>1, <2>1, <3>1, <3>2, <3>3, GotoMoves
  <2>2. CASE t.prof.kind # "docker"
    <3>1. OnState(s, "provisioning") /\ Goto(s, "probe") /\ t.pc = "begin"
      BY <1>4, <2>2 DEF begin, At
    <3>2. UNCHANGED <<profiles, sessions, cancelled, relay, up, disk, granted, ran>>
      BY <1>4 DEF begin, quiet, machine, user
    <3>3. /\ Becomes(s, t, task'[s]) /\ task'[s].pc = "probe" /\ task'[s].target = t.target
          /\ state' \in [Sids -> States]
      BY <1>1, <1>3, <3>1, GotoBecomes, OnStateTyped
    <3> QED BY <1>1, <1>2, <1>3, <2>2, <3>1, <3>2, <3>3 DEF Moves
  <2> QED BY <2>1, <2>2
<1>5. CASE preflight_docker(s)
  <2>0. /\ t.pc \in Preflight /\ state' \in [Sids -> States] /\ UNCHANGED <<quiet, ran, upsets>>
    BY <1>2, <1>3, <1>5, OnStateTyped DEF preflight_docker, At
  <2>1. CASE t.pc # "locate"
    <3>1. PICK to \in {"locate", "identity"} : Goto(s, to)
      BY <1>5, <2>1 DEF preflight_docker, At
    <3> QED BY <1>1, <1>2, <1>3, <2>0, <2>1, <3>1, GotoBecomes DEF quiet, machine, user, Moves
  <2>2. CASE t.pc = "locate"
    <3>1. up \in Containers /\ task' = [task EXCEPT ![s] = [t EXCEPT !.pc = "inspect", !.target = up]]
      BY <1>2, <1>5, <2>2 DEF preflight_docker, At, Goto
    <3>2. /\ [t EXCEPT !.pc = "inspect", !.target = up] \in Task
          /\ [t EXCEPT !.pc = "inspect", !.target = up].pc = "inspect"
          /\ [t EXCEPT !.pc = "inspect", !.target = up].host = t.host
          /\ [t EXCEPT !.pc = "inspect", !.target = up].prof = t.prof
          /\ [t EXCEPT !.pc = "inspect", !.target = up].cmd = t.cmd /\ [t EXCEPT !.pc = "inspect", !.target = up].art = t.art
      BY <1>2, <1>3, <3>1 DEF Task
    <3>3. task'[s] = [t EXCEPT !.pc = "inspect", !.target = up]
      BY <1>2, <3>1
    <3> QED BY <1>1, <1>2, <1>3, <2>0, <2>2, <3>1, <3>2, <3>3
         DEF quiet, machine, user, Moves, Becomes, InScript
  <2> QED BY <2>1, <2>2
<1>6. CASE preflight_outcome(s)
  <2>1. /\ t.pc = "identity" /\ ExecIn(t) # None /\ t.prof.kind = "docker"
        /\ UNCHANGED <<quiet, ran, upsets>>
    BY <1>3, <1>6 DEF preflight_outcome, At
  <2>2. t.target \in Containers
    BY <1>1, <1>2, <2>1 DEF ExecIn, DockerExec
  <2> DEFINE risks == pending_risks(t.host, t.prof, t.target, Inspect[t.target])
             ro == persistence_facts(t.prof.path, Inspect[t.target].mounts).class = "readOnly"
  <2>3. \/ Fail(s)
        \/ /\ OnState(s, "awaiting")
           /\ task' = [task EXCEPT ![s].pc = "done", ![s].pending = risks]
        \/ risks = {} /\ OnState(s, "provisioning") /\ Goto(s, "probe")
    BY <1>6 DEF preflight_outcome
  <2>4. CASE Fail(s)
    BY <1>1, <2>1, <2>4, FailMoves
  <2>5. CASE OnState(s, "awaiting") /\ task' = [task EXCEPT ![s].pc = "done", ![s].pending = risks]
    <3>1. risks \in SUBSET Risks
      BY <1>2, <2>2, RisksOfProfile DEF pending_risks, PendingRisks
    <3> HIDE DEF risks
    <3>2. task' = [task EXCEPT ![s] = [t EXCEPT !.pc = "done", !.pending = risks]]
      BY <1>2, <2>5
    <3>3. /\ [t EXCEPT !.pc = "done", !.pending = risks] \in Task
          /\ [t EXCEPT !.pc = "done", !.pending = risks].pc = "done"
          /\ [t EXCEPT !.pc = "done", !.pending = risks].host = t.host
          /\ [t EXCEPT !.pc = "done", !.pending = risks].prof = t.prof
          /\ [t EXCEPT !.pc = "done", !.pending = risks].cmd = t.cmd /\ [t EXCEPT !.pc = "done", !.pending = risks].art = t.art
          /\ [t EXCEPT !.pc = "done", !.pending = risks].target = t.target
      BY <1>2, <1>3, <3>1 DEF Task
    <3>4. task'[s] = [t EXCEPT !.pc = "done", !.pending = risks]
      BY <1>2, <3>2
    <3>5. state' \in [Sids -> States]
      BY <1>3, <2>5, OnStateTyped
    <3>6. Becomes(s, t, task'[s]) /\ task'[s].pc = "done" /\ task'[s].target = t.target
      BY <1>2, <3>2, <3>3, <3>4 DEF Becomes, InScript
    <3>7. UNCHANGED <<profiles, sessions, cancelled, relay, up, disk, granted, ran>>
      BY <2>1 DEF quiet, machine, user
    <3> QED BY <1>1, <1>2, <1>3, <2>1, <3>5, <3>6, <3>7 DEF Moves
  <2>6. CASE risks = {} /\ OnState(s, "provisioning") /\ Goto(s, "probe")
    <3>1. /\ Becomes(s, t, task'[s]) /\ task'[s].pc = "probe" /\ task'[s].target = t.target
          /\ state' \in [Sids -> States]
      BY <1>1, <1>3, <2>6, GotoBecomes, OnStateTyped
    <3>2. PendingRisks(t.host, t.prof, task'[s].target, Inspect[task'[s].target]) = {}
      BY <2>6, <3>1 DEF pending_risks
    <3> QED BY <1>1, <1>2, <1>3, <2>1, <2>2, <3>1, <3>2 DEF quiet, machine, user, Moves
  <2> QED BY <2>3, <2>4, <2>5, <2>6
<1>7. CASE command_fails(s)
  <2>1. t.pc \in Remote /\ Fail(s) /\ UNCHANGED <<quiet, ran>>
    BY <1>7 DEF command_fails
  <2>2. t.pc # "done"
    BY <2>1 DEF Remote, Preflight
  <2> QED BY <1>1, <2>1, <2>2, FailMoves
<1>8. CASE probe_remote(s)
  <2>1. t.pc = "probe" /\ UNCHANGED <<quiet, ran>>
    BY <1>8 DEF probe_remote, At
  <2>2. \/ Fail(s)
        \/ \E to \in {"compat"} : Goto(s, to) /\ state' \in [Sids -> States]
    BY <1>2, <1>3, <1>8, OnStateTyped DEF probe_remote
  <2>3. CASE Fail(s)
    BY <1>1, <2>1, <2>3, FailMoves
  <2>4. ASSUME NEW to \in {"compat"}, Goto(s, to), state' \in [Sids -> States]
        PROVE  Moves(s, t, task'[s])
    <3>1. to \in Pcs /\ to \notin Preflight /\ t.pc \in Past /\ t.pc # "done" /\ t.pc # "listen"
      BY <1>3, <2>1, <2>4
    <3> QED BY <1>1, <2>1, <2>4, <3>1, GotoMoves
  <2> QED BY <1>1, <2>2, <2>3, <2>4
<1>9. CASE check_compatibility(s)
  <2>1. t.pc = "compat" /\ UNCHANGED <<quiet, ran>>
    BY <1>9 DEF check_compatibility, At
  <2>2. \/ Fail(s)
        \/ \E to \in {"check", "cleanup"} : Goto(s, to) /\ state' \in [Sids -> States]
    BY <1>2, <1>9 DEF check_compatibility
  <2>3. CASE Fail(s)
    BY <1>1, <2>1, <2>3, FailMoves
  <2>4. ASSUME NEW to \in {"check", "cleanup"}, Goto(s, to), state' \in [Sids -> States]
        PROVE  Moves(s, t, task'[s])
    <3>1. to \in Pcs /\ to \notin Preflight /\ t.pc \in Past /\ t.pc # "done" /\ t.pc # "listen"
      BY <1>3, <2>1, <2>4
    <3> QED BY <1>1, <2>1, <2>4, <3>1, GotoMoves
  <2> QED BY <1>1, <2>2, <2>3, <2>4
<1>10. CASE cleanup_staging(s)
  <2>1. /\ t.pc = "cleanup" /\ Goto(s, "fetch")
        /\ UNCHANGED <<state, sessions, cancelled, relay, up, profiles, granted, ran>>
    BY <1>10 DEF cleanup_staging, At, user
  <2>2. disk' = disk \/ (/\ ExecIn(t) # None
                         /\ disk' = [disk EXCEPT ![ExecIn(t)] = build_cleanup_staging_command(@, "polytoken")])
    BY <1>10 DEF cleanup_staging
  <2>3. ASSUME NEW d \in Disk PROVE build_cleanup_staging_command(d, "polytoken") \in Disk
    BY <2>3 DEF build_cleanup_staging_command, Disk
  <2>4. disk' \in [Machines -> Disk]
    BY <1>1, <1>2, <2>2, <2>3, ExecInHome
  <2>5. "fetch" \in Pcs /\ "fetch" \notin Preflight /\ t.pc \in Past /\ t.pc # "done" /\ t.pc # "listen"
    BY <1>3, <2>1
  <2>6. state' \in [Sids -> States] /\ UNCHANGED <<profiles, sessions, cancelled, relay, up, granted, ran>>
    BY <1>2, <2>1
  <2> QED BY <1>1, <2>1, <2>4, <2>5, <2>6, GoesOn
<1>11. CASE fetch(s)
  <2>1. t.pc = "fetch" /\ UNCHANGED <<quiet, ran>>
    BY <1>11 DEF fetch, At
  <2>2. Fail(s) \/ (task' = [task EXCEPT ![s].pc = "upload", ![s].got = "whole"] /\ UNCHANGED state)
    BY <1>11 DEF fetch, verify_checksum
  <2>3. CASE Fail(s)
    BY <1>1, <2>1, <2>3, FailMoves
  <2>4. CASE task' = [task EXCEPT ![s].pc = "upload", ![s].got = "whole"] /\ UNCHANGED state
    <3>1. task' = [task EXCEPT ![s] = [t EXCEPT !.pc = "upload", !.got = "whole"]]
      BY <1>2, <2>4
    <3>2. task'[s] = [t EXCEPT !.pc = "upload", !.got = "whole"]
      BY <1>2, <3>1
    <3>3. /\ [t EXCEPT !.pc = "upload", !.got = "whole"] \in Task
          /\ [t EXCEPT !.pc = "upload", !.got = "whole"].pc = "upload"
          /\ [t EXCEPT !.pc = "upload", !.got = "whole"].host = t.host
          /\ [t EXCEPT !.pc = "upload", !.got = "whole"].prof = t.prof
          /\ [t EXCEPT !.pc = "upload", !.got = "whole"].cmd = t.cmd /\ [t EXCEPT !.pc = "upload", !.got = "whole"].art = t.art
          /\ [t EXCEPT !.pc = "upload", !.got = "whole"].target = t.target
      BY <1>2, <1>3 DEF Task, Bits
    <3> QED BY <1>1, <1>2, <1>3, <2>1, <2>4, <3>1, <3>2, <3>3
         DEF quiet, machine, user, Moves, Becomes, InScript
  <2> QED BY <1>1, <2>2, <2>3, <2>4
<1>12. CASE upload(s)
  <2>1. t.pc = "upload" /\ ExecIn(t) # None
        /\ UNCHANGED <<sessions, cancelled, relay, up, profiles, granted>>
    BY <1>12 DEF upload, At, user
  <2>2. ExecIn(t) \in Machines
    BY <1>1, <1>2, <2>1, ExecInHome
  <2>3. /\ t.art \in Artifacts /\ t.got \in Bits
        /\ \A d \in Disk, a \in Artifacts, b \in Bits : [d EXCEPT !.cache[a] = b] \in Disk
    BY <1>2 DEF Task, Disk
  <2>4. PICK b \in Bits : disk' = disk \/ disk' = [disk EXCEPT ![ExecIn(t)].cache[t.art] = b]
    BY <1>12, <2>3 DEF upload, Bits
  <2>5. disk' \in [Machines -> Disk]
    <3>1. CASE disk' = disk
      BY <1>2, <3>1
    <3>2. CASE disk' = [disk EXCEPT ![ExecIn(t)].cache[t.art] = b]
      <4>1. PICK d \in Disk : d = [disk[ExecIn(t)] EXCEPT !.cache[t.art] = b]
        BY <1>2, <2>2, <2>3, <2>4
      <4>2. disk' = [disk EXCEPT ![ExecIn(t)] = d]
        BY <1>2, <3>2, <4>1
      <4> QED BY <1>2, <4>1, <4>2
    <3> QED BY <2>4, <3>1, <3>2
  <2>6. \/ ran' = ran
        \/ ExecIn(t) \in Containers /\ ran' = ran \cup {<<t.host, t.prof, ExecIn(t)>>}
    BY <1>12 DEF upload, Ran
  <2>7. \/ Fail(s)
        \/ task' = [task EXCEPT ![s].pc = "script", ![s].cmd = 1] /\ UNCHANGED state
    BY <1>12 DEF upload
  <2>8. CASE Fail(s)
    <3>1. /\ Becomes(s, t, task'[s]) /\ task'[s].pc = "done" /\ task'[s].target = t.target
          /\ state' \in [Sids -> States]
      BY <1>1, <2>8, FailBecomes
    <3> QED BY <1>1, <1>3, <2>1, <2>5, <2>6, <3>1 DEF Moves
  <2>9. CASE task' = [task EXCEPT ![s].pc = "script", ![s].cmd = 1] /\ UNCHANGED state
    <3> DEFINE u == [t EXCEPT !.pc = "script", !.cmd = 1]
    <3>1. task' = [task EXCEPT ![s] = u]
      BY <1>2, <2>9
    <3>2. 1 \in 1 .. 9
      OBVIOUS
    <3>3. /\ u \in Task /\ u.pc = "script" /\ u.host = t.host /\ u.prof = t.prof
          /\ u.target = t.target /\ u.art = t.art /\ u.cmd = 1
      BY <1>2, <1>3, <3>2 DEF Task
    <3> HIDE DEF u
    <3>4. Len(build_install_command(u.art)) \in {8, 9}
      BY <2>3, <3>3, ScriptLength
    <3>5. InScript(u)
      BY <3>3, <3>4, ScriptRange DEF InScript
    <3>6. Becomes(s, t, task'[s]) /\ task'[s].pc = "script" /\ task'[s].target = t.target
      BY <1>2, <3>1, <3>3, <3>5 DEF Becomes
    <3> QED BY <1>1, <1>2, <1>3, <2>1, <2>5, <2>6, <2>9, <3>6 DEF Moves
  <2> QED BY <1>1, <2>7, <2>8, <2>9
<1>13. CASE run_script(s)
  <2> DEFINE c == build_install_command(t.art)[t.cmd]
             last == t.cmd = Len(build_install_command(t.art))
             m == ExecIn(t)
  <2>1. t.pc = "script" /\ ExecIn(t) # None /\ Ran(t)
        /\ UNCHANGED <<sessions, cancelled, relay, up, profiles, granted>>
    BY <1>13 DEF run_script, At, user
  <2>2. m \in Machines /\ t.art \in Artifacts /\ c \in Steps /\ disk[m] \in Disk
    BY <1>1, <1>2, <2>1, ExecInHome, CommandsOfScripts DEF Task, InScript
  <2>3. \/ ran' = ran
        \/ ExecIn(t) \in Containers /\ ran' = ran \cup {<<t.host, t.prof, ExecIn(t)>>}
    BY <2>1 DEF Ran
  <2> DEFINE pc2 == CASE last /\ t.orphan -> "done" [] last /\ ~t.orphan -> "record" [] OTHER -> t.pc
             cmd2 == IF last THEN 1 ELSE t.cmd + 1
             u == [t EXCEPT !.cmd = cmd2, !.pc = pc2]
  <2>4. \/ /\ Succeeds(disk[m], t.art, c) /\ UNCHANGED state
           /\ disk' = [disk EXCEPT ![m] = After(@, t.art, c)]
           /\ task' = [task EXCEPT ![s] = u]
        \/ Goto(s, "done") /\ UNCHANGED <<disk, state>>
        \/ Fail(s) /\ UNCHANGED disk
    BY <1>2, <1>13 DEF run_script
  <2>5. CASE /\ Succeeds(disk[m], t.art, c) /\ UNCHANGED state
             /\ disk' = [disk EXCEPT ![m] = After(@, t.art, c)]
             /\ task' = [task EXCEPT ![s] = u]
    <3>1. disk' \in [Machines -> Disk]
      <4>1. After(disk[m], t.art, c) \in Disk
        BY <2>2, <2>5, AfterIsDisk
      <4> HIDE DEF m, c
      <4> QED BY <1>2, <2>5, <4>1
    <3>2. pc2 \in {"done", "record", "script"}
      BY <2>1
    <3>3. cmd2 \in 1 .. Len(build_install_command(t.art)) /\ cmd2 \in 1 .. 9
      <4>1. PICK n \in {8, 9} : n = Len(build_install_command(t.art))
        BY <2>2, ScriptLength
      <4>2. t.cmd \in 1 .. n
        BY <1>2, <4>1 DEF InScript
      <4>3. cmd2 = IF t.cmd = n THEN 1 ELSE t.cmd + 1
        BY <4>1
      <4>4. cmd2 \in 1 .. n
        <5> HIDE DEF cmd2
        <5> QED BY <4>1, <4>2, <4>3
      <4> HIDE DEF cmd2
      <4>5. cmd2 \in 1 .. 9
        BY <4>1, <4>4, ScriptRange
      <4>6. cmd2 \in 1 .. Len(build_install_command(t.art))
        BY <4>1, <4>4, Zenon
      <4> QED BY <4>5, <4>6
    <3> HIDE DEF pc2, cmd2, c, m
    <3>4. /\ u \in Task /\ u.pc = pc2 /\ u.host = t.host /\ u.prof = t.prof /\ u.target = t.target
          /\ u.art = t.art /\ u.cmd = cmd2
      BY <1>2, <1>3, <3>2, <3>3 DEF Task
    <3>5. InScript(u)
      BY <3>3, <3>4 DEF InScript
    <3> HIDE DEF u
    <3>6. task'[s] = u
      BY <1>2, <2>5
    <3>7. Becomes(s, t, task'[s]) /\ task'[s].pc = pc2 /\ task'[s].target = t.target
      BY <1>2, <2>5, <3>4, <3>5, <3>6 DEF Becomes
    <3> QED BY <1>1, <1>2, <1>3, <2>1, <2>3, <2>5, <3>1, <3>2, <3>7 DEF Moves
  <2>6. CASE Goto(s, "done") /\ UNCHANGED <<disk, state>>
    <3>1. /\ Becomes(s, t, task'[s]) /\ task'[s].pc = "done" /\ task'[s].target = t.target
      BY <1>1, <1>3, <2>6, GotoBecomes
    <3> QED BY <1>1, <1>2, <1>3, <2>1, <2>3, <2>6, <3>1 DEF Moves
  <2>7. CASE Fail(s) /\ UNCHANGED disk
    <3>1. /\ Becomes(s, t, task'[s]) /\ task'[s].pc = "done" /\ task'[s].target = t.target
          /\ state' \in [Sids -> States]
      BY <1>1, <2>7, FailBecomes
    <3> QED BY <1>1, <1>2, <1>3, <2>1, <2>3, <2>7, <3>1 DEF Moves
  <2> QED BY <1>1, <2>4, <2>5, <2>6, <2>7
<1>14. CASE script_lost(s)
  <2>1. /\ t.pc = "script" /\ OnState(s, "failed") /\ UNCHANGED <<quiet, ran>>
        /\ task' = [task EXCEPT ![s] = [t EXCEPT !.orphan = TRUE]]
    BY <1>2, <1>14 DEF script_lost, At
  <2>2. /\ [t EXCEPT !.orphan = TRUE] \in Task /\ [t EXCEPT !.orphan = TRUE].pc = t.pc
        /\ [t EXCEPT !.orphan = TRUE].host = t.host /\ [t EXCEPT !.orphan = TRUE].prof = t.prof
        /\ [t EXCEPT !.orphan = TRUE].art = t.art /\ [t EXCEPT !.orphan = TRUE].cmd = t.cmd
        /\ [t EXCEPT !.orphan = TRUE].target = t.target
    BY <1>2 DEF Task
  <2>3. task'[s] = [t EXCEPT !.orphan = TRUE]
    BY <1>2, <2>1
  <2>4. Becomes(s, t, task'[s]) /\ task'[s].pc = "script" /\ task'[s].target = t.target
    BY <1>2, <2>1, <2>2, <2>3 DEF Becomes, InScript
  <2>5. state' \in [Sids -> States]
    BY <1>3, <2>1, OnStateTyped
  <2> QED BY <1>1, <1>2, <1>3, <2>1, <2>4, <2>5 DEF quiet, machine, user, Moves
<1>15. CASE script_dies(s)
  <2>1. t.pc = "script" /\ Goto(s, "done") /\ UNCHANGED <<quiet, state, ran>>
    BY <1>15 DEF script_dies, At
  <2>2. state' \in [Sids -> States] /\ "done" \in Pcs /\ "done" \notin Preflight /\ "done" \notin Past
    BY <1>2, <1>3, <2>1
  <2> QED BY <1>1, <2>1, <2>2, GotoMoves
<1>16. CASE record_provenance(s)
  <2>1. t.pc = "record" /\ UNCHANGED <<quiet, ran>>
    BY <1>16 DEF record_provenance, At
  <2>2. \/ Goto(s, "check") /\ UNCHANGED state
        \/ Goto(s, "bind") /\ OnState(s, "starting")
    BY <1>16 DEF record_provenance
  <2>3. PICK to \in {"check", "bind"} : Goto(s, to) /\ state' \in [Sids -> States]
    BY <1>2, <1>3, <2>2, OnStateTyped
  <2>4. to \in Pcs /\ to \notin Preflight /\ t.pc \in Past /\ t.pc # "done" /\ t.pc # "listen"
    BY <1>3, <2>1, <2>3
  <2> QED BY <1>1, <2>1, <2>3, <2>4, GotoMoves
<1>17. CASE ensure_server_installed(s)
  <2>1. t.pc = "check" /\ UNCHANGED <<quiet, ran>>
    BY <1>17 DEF ensure_server_installed, At
  <2>2. \/ Goto(s, "bind") /\ OnState(s, "starting")
        \/ task' = [task EXCEPT ![s].pc = "fetch", ![s].art = "server"] /\ UNCHANGED state
    BY <1>17 DEF ensure_server_installed
  <2>3. CASE Goto(s, "bind") /\ OnState(s, "starting")
    <3>1. /\ Becomes(s, t, task'[s]) /\ task'[s].pc = "bind" /\ task'[s].target = t.target
          /\ state' \in [Sids -> States]
      BY <1>1, <1>3, <2>3, GotoBecomes, OnStateTyped
    <3> QED BY <1>1, <1>2, <1>3, <2>1, <3>1 DEF quiet, machine, user, Moves
  <2>4. CASE task' = [task EXCEPT ![s].pc = "fetch", ![s].art = "server"] /\ UNCHANGED state
    <3> DEFINE u == [t EXCEPT !.pc = "fetch", !.art = "server"]
    <3>1. task' = [task EXCEPT ![s] = u]
      BY <1>2, <2>4
    <3>2. /\ u \in Task /\ u.pc = "fetch" /\ u.host = t.host /\ u.prof = t.prof
          /\ u.target = t.target /\ u.art = "server" /\ u.cmd = t.cmd
      BY <1>2, <1>3 DEF Task, Artifacts
    <3>3. InScript(u)
      BY <1>2, <3>2, ScriptCommands DEF InScript, Task
    <3> HIDE DEF u
    <3>4. Becomes(s, t, task'[s]) /\ task'[s].pc = "fetch" /\ task'[s].target = t.target
      BY <1>2, <3>1, <3>2, <3>3 DEF Becomes
    <3> QED BY <1>1, <1>2, <1>3, <2>1, <2>4, <3>4 DEF quiet, machine, user, Moves
  <2> QED BY <1>1, <2>2, <2>3, <2>4
<1>18. CASE bridge_bind(s)
  <2>1. t.pc = "bind" /\ UNCHANGED <<quiet, state, ran>>
    BY <1>18 DEF bridge_bind, At
  <2>2. PICK to \in {"listen", "done"} : Goto(s, to)
    BY <1>18 DEF bridge_bind
  <2>3. /\ to \in Pcs /\ to \notin Preflight /\ t.pc \in Past /\ t.pc # "done" /\ t.pc # "listen"
        /\ state' \in [Sids -> States]
    BY <1>2, <1>3, <2>1, <2>2
  <2> QED BY <1>1, <2>1, <2>2, <2>3, GotoMoves
<1>19. CASE bridge_cancelled(s)
  <2>1. t.pc = "listen" /\ Goto(s, "done") /\ UNCHANGED <<quiet, state, ran>>
    BY <1>19 DEF bridge_cancelled, At
  <2>2. state' \in [Sids -> States] /\ "done" \in Pcs /\ "done" \notin Preflight /\ "done" \notin Past
    BY <1>2, <1>3, <2>1
  <2> QED BY <1>1, <2>1, <2>2, GotoMoves
<1> QED BY <1>4, <1>5, <1>6, <1>7, <1>8, <1>9, <1>10, <1>11, <1>12, <1>13, <1>14, <1>15, <1>16,
           <1>17, <1>18, <1>19 DEF TaskStep

-----------------------------------------------------------------------------
(* RunInv is inductive *)

\* Where nothing is pending, everything has been answered.
LEMMA NothingPending ==
    ASSUME NEW p \in Profile, KeepsAnswers(p), NEW h \in Hosts, NEW c \in Containers,
           PendingRisks(h, p, c, Inspect[c]) = {}
    PROVE  RisksOf(h, p, c, Inspect[c]) \subseteq granted
<1> SUFFICES ASSUME NEW r \in RisksOf(h, p, c, Inspect[c]) PROVE r \in granted
  OBVIOUS
<1>1. r \in Risks
  BY RisksOfProfile
<1>2. r[1] \in RiskKinds /\ r # None
  BY <1>1, RiskKindsAreTwo
<1>3. p.acks[r[1]] = r
  BY DEF PendingRisks
<1> QED BY <1>2, <1>3 DEF KeepsAnswers

LEMMA TaskStepKeepsRunInv ==
    ASSUME RunInv, NEW s \in Sids, TaskStep(s)
    PROVE  RunInv'
<1> DEFINE t == task[s]
           u == task'[s]
<1>1. TypeOK /\ Kept /\ Opened /\ Cleared /\ RunsOnlyWhereAcknowledged
  BY DEF RunInv
<1>2. task[s] # None /\ Moves(s, t, u)
  BY <1>1, TaskStepMoves DEF Cleared
<1>3. /\ t \in Task /\ u \in Task /\ t # None /\ u # None
      /\ task' = [task EXCEPT ![s] = u] /\ u.host = t.host /\ u.prof = t.prof /\ InScript(u)
      /\ task \in [Sids -> Task \cup {None}]
      /\ UNCHANGED <<profiles, sessions, cancelled, relay, up, granted>>
  BY <1>1, <1>2, NoneAssumption DEF Moves, Becomes, TypeOK
<1>4. t.prof \in Profile /\ t.host \in Hosts /\ t.prof.kind \in {"host", "docker"}
  BY <1>1, <1>2, TaskIsTyped
<1> HIDE DEF t, u
<1>5. /\ task'[s] = u
      /\ \A x \in Sids : x # s => task'[x] = task[x]
  BY <1>3
<1>6. ran' = ran \/ (/\ t.pc \in Past /\ ExecIn(t) \in Containers
                     /\ ran' = ran \cup {<<t.host, t.prof, ExecIn(t)>>})
  BY <1>2 DEF Moves
<1>7. TypeOK'
  <2>1. task' \in [Sids -> Task \cup {None}]
    BY <1>3
  <2>2. \A x \in Sids : task'[x] # None => InScript(task'[x])
    BY <1>1, <1>3, <1>5 DEF TypeOK
  <2>3. ran' \subseteq Hosts \X Profile \X Containers
    BY <1>1, <1>4, <1>6 DEF TypeOK
  <2>4. state' \in [Sids -> States] /\ disk' \in [Machines -> Disk]
    BY <1>2 DEF Moves
  <2>5. (\A x \in Sids : task[x] # None => InScript(task[x]))'
    BY <2>2
  <2> QED BY <1>1, <1>3, <2>1, <2>3, <2>4, <2>5 DEF TypeOK
<1>8. Kept'
  BY <1>1, <1>3, <1>5 DEF Kept, KeepsAnswers, t
<1>9. Opened'
  BY <1>1, <1>3, <1>5 DEF Opened, TypeOK, t
<1>10. Cleared'
  <2>1. t.pc \in Past => Answered(t, granted)
    BY <1>1, <1>3 DEF Cleared, t
  <2>2. u.pc \in Past => Answered(u, granted)
    <3>1. CASE t.pc \in Past
      BY <1>2, <1>3, <2>1, <3>1 DEF Moves, Answered, Past, Preflight
    <3>2. CASE t.prof.kind # "docker"
      BY <1>3, <3>2 DEF Answered
    <3>3. CASE u.target \in Containers /\ PendingRisks(t.host, t.prof, u.target, Inspect[u.target]) = {}
      <4>1. KeepsAnswers(t.prof)
        BY <1>1, <1>3 DEF Kept, t
      <4>2. RisksOf(t.host, t.prof, u.target, Inspect[u.target]) \subseteq granted
        BY <1>4, <3>3, <4>1, NothingPending
      <4> QED BY <1>3, <4>2 DEF Answered
    <3> QED BY <1>2, <3>1, <3>2, <3>3 DEF Moves
  <2>3. u.pc \in Preflight => u.prof.kind = "docker"
    BY <1>2, <1>3 DEF Moves
  <2>4. ASSUME NEW x \in Sids, task'[x] # None
        PROVE  /\ task'[x].pc \in Preflight => task'[x].prof.kind = "docker"
               /\ task'[x].pc \in Past => Answered(task'[x], granted')
    BY <1>1, <1>3, <1>5, <2>2, <2>3, <2>4 DEF Cleared, Answered
  <2>5. ASSUME NEW r \in Rids, relay'[r] # None
        PROVE  /\ task'[relay'[r].sid] # None
               /\ task'[relay'[r].sid].pc \in {"listen", "done"}
               /\ Answered(task'[relay'[r].sid], granted')
    <3>1. relay'[r] = relay[r] /\ relay[r].sid \in Sids
      BY <1>1, <1>3, <2>5 DEF TypeOK, Relay
    <3>2. CASE relay[r].sid # s
      BY <1>1, <1>3, <1>5, <2>5, <3>1, <3>2 DEF Cleared, Answered
    <3>3. CASE relay[r].sid = s
      <4>1. t.pc = "listen" /\ u.pc = "done" /\ u.target = t.target
        BY <1>1, <1>2, <2>5, <3>1, <3>3 DEF Cleared, Moves, t
      <4>2. Answered(t, granted)
        BY <1>1, <2>5, <3>1, <3>3 DEF Cleared, t
      <4>3. Answered(u, granted)
        BY <1>3, <4>1, <4>2 DEF Answered
      <4> QED BY <1>3, <1>5, <3>1, <3>3, <4>1, <4>3
    <3> QED BY <3>2, <3>3
  <2>6. (\A x \in Sids : task[x] # None =>
            /\ task[x].pc \in Preflight => task[x].prof.kind = "docker"
            /\ task[x].pc \in Past => Answered(task[x], granted))'
    BY <2>4
  <2>7. (\A r \in Rids : relay[r] # None =>
            /\ task[relay[r].sid] # None
            /\ task[relay[r].sid].pc \in {"listen", "done"}
            /\ Answered(task[relay[r].sid], granted))'
    BY <2>5
  <2> QED BY <2>6, <2>7 DEF Cleared
<1>11. RunsOnlyWhereAcknowledged'
  <2>1. CASE ran' = ran
    BY <1>1, <1>3, <2>1 DEF RunsOnlyWhereAcknowledged
  <2>2. CASE /\ t.pc \in Past /\ ExecIn(t) \in Containers
             /\ ran' = ran \cup {<<t.host, t.prof, ExecIn(t)>>}
    <3>1. ExecIn(t) = t.target /\ t.prof.kind = "docker"
      BY <1>1, <1>3, <1>4, <2>2, ExecInHome, LinkAssumption
    <3>2. RisksOf(t.host, t.prof, ExecIn(t), Inspect[ExecIn(t)]) \subseteq granted
      BY <1>1, <1>3, <2>2, <3>1 DEF Cleared, Answered, t
    <3> QED BY <1>1, <1>3, <2>2, <3>2 DEF RunsOnlyWhereAcknowledged
  <2> QED BY <1>6, <2>1, <2>2
<1> QED BY <1>7, <1>8, <1>9, <1>10, <1>11 DEF RunInv

\* What the steps of a relay have in common.
RelayMoves(r) ==
    /\ relay[r] # None /\ relay' \in [Rids -> Relay \cup {None}]
    /\ relay'[r] # None /\ relay'[r].sid = relay[r].sid
    /\ \A x \in Rids : x # r => relay'[x] = relay[x]
    /\ state' \in [Sids -> States]
    /\ LET t == task[relay[r].sid] IN
       \/ ran' = ran
       \/ ExecIn(t) \in Containers /\ ran' = ran \cup {<<t.host, t.prof, ExecIn(t)>>}
    /\ UNCHANGED still

LEMMA RelayGoes ==
    ASSUME TypeOK, NEW r \in Rids, relay[r] # None,
           NEW to \in {"spawning", "relaying", "backoff", "gone"},
           NEW n \in 0 .. MaxAttempts, NEW lost \in BOOLEAN, NEW q,
           q = [relay[r] EXCEPT !.pc = to, !.attempt = n, !.lost = lost],
           relay' = [relay EXCEPT ![r] = q]
    PROVE  /\ relay' \in [Rids -> Relay \cup {None}]
           /\ relay'[r] # None /\ relay'[r].sid = relay[r].sid
           /\ \A x \in Rids : x # r => relay'[x] = relay[x]
<1>1. relay \in [Rids -> Relay \cup {None}] /\ relay[r] \in Relay
  BY DEF TypeOK
<1>2. q \in Relay /\ q.sid = relay[r].sid
  BY <1>1 DEF Relay
<1>3. relay'[r] = q /\ q # None
  BY <1>1, <1>2, NoneAssumption
<1> QED BY <1>1, <1>2, <1>3

LEMMA GotoRGoes ==
    ASSUME TypeOK, NEW r \in Rids, relay[r] # None,
           NEW to \in {"spawning", "relaying", "backoff", "gone"}, GotoR(r, to)
    PROVE  /\ relay' \in [Rids -> Relay \cup {None}]
           /\ relay'[r] # None /\ relay'[r].sid = relay[r].sid
           /\ \A x \in Rids : x # r => relay'[x] = relay[x]
<1>1. relay \in [Rids -> Relay \cup {None}] /\ relay[r] \in Relay
  BY DEF TypeOK
<1>2. PICK q : q = [relay[r] EXCEPT !.pc = to]
  OBVIOUS
<1>3. relay' = [relay EXCEPT ![r] = q]
  BY <1>1, <1>2 DEF GotoR
<1>4. q = [relay[r] EXCEPT !.pc = to, !.attempt = relay[r].attempt, !.lost = relay[r].lost]
  BY <1>1, <1>2 DEF Relay
<1>5. relay[r].attempt \in 0 .. MaxAttempts /\ relay[r].lost \in BOOLEAN
  BY <1>1 DEF Relay
<1> QED BY <1>3, <1>4, <1>5, RelayGoes

LEMMA RelayStepMoves ==
    ASSUME TypeOK, NEW r \in Rids, RelayStep(r) \/ RelayEnv(r)
    PROVE  RelayMoves(r)
<1> DEFINE t == task[relay[r].sid]
<1>1. relay[r] # None
  BY DEF RelayStep, RelayEnv, spawn_proxy, spawn_fails, relay_cancelled, backoff_over, stream_ends,
         ssh_exit, RelayAt
<1>2. state \in [Sids -> States] /\ relay[r] \in Relay /\ DOMAIN relay = Rids
  BY <1>1 DEF TypeOK
<1>3. {"ready", "failed", "starting", "reconnecting"} \subseteq States
  BY DEF States
<1>4. CASE spawn_proxy(r)
  <2>1. UNCHANGED still
    BY <1>4 DEF spawn_proxy
  <2>2. PICK to \in {"relaying", "gone"}, st \in {"ready", "failed"} :
            GotoR(r, to) /\ OnState(relay[r].sid, st)
    BY <1>4 DEF spawn_proxy
  <2>3. ran' = ran \/ (ExecIn(t) \in Containers /\ ran' = ran \cup {<<t.host, t.prof, ExecIn(t)>>})
    BY <1>4 DEF spawn_proxy, Ran
  <2>4. state' \in [Sids -> States]
    BY <1>3, <2>2, OnStateTyped
  <2> QED BY <1>1, <2>1, <2>2, <2>3, <2>4, GotoRGoes DEF RelayMoves
<1>5. CASE spawn_fails(r)
  <2>1. GotoR(r, "gone") /\ OnState(relay[r].sid, "failed") /\ UNCHANGED <<still, ran>>
    BY <1>5 DEF spawn_fails
  <2>2. state' \in [Sids -> States]
    BY <1>3, <2>1, OnStateTyped
  <2> QED BY <1>1, <2>1, <2>2, GotoRGoes DEF RelayMoves
<1>6. CASE relay_cancelled(r) \/ stream_ends(r)
  <2>1. GotoR(r, "gone") /\ UNCHANGED <<still, state, ran>>
    BY <1>6 DEF relay_cancelled, stream_ends
  <2> QED BY <1>1, <1>2, <2>1, GotoRGoes DEF RelayMoves
<1>7. CASE backoff_over(r)
  <2>1. GotoR(r, "spawning") /\ OnState(relay[r].sid, "starting") /\ UNCHANGED <<still, ran>>
    BY <1>7 DEF backoff_over
  <2>2. state' \in [Sids -> States]
    BY <1>3, <2>1, OnStateTyped
  <2> QED BY <1>1, <2>1, <2>2, GotoRGoes DEF RelayMoves
<1>8. CASE ssh_exit(r)
  <2>1. UNCHANGED <<still, ran>>
    BY <1>8 DEF ssh_exit
  <2>2. PICK fused \in Fused, x \in {classify_exit(i) : i \in ExitInfos} :
          CASE ~fused -> Lose(r, x) /\ UNCHANGED state
            [] fused /\ ~is_retryable(x) ->
                 /\ Lose(r, x)
                 /\ IF to_failure_state(x) THEN OnState(relay[r].sid, "failed") ELSE UNCHANGED state
            [] fused /\ is_retryable(x) /\ is_exhausted(relay[r].attempt) ->
                 Lose(r, x) /\ OnState(relay[r].sid, "failed")
            [] OTHER ->
                 /\ relay' = [relay EXCEPT ![r].pc = "backoff", ![r].attempt = @ + 1]
                 /\ OnState(relay[r].sid, "reconnecting")
    BY <1>8 DEF ssh_exit
  <2>3. \/ Lose(r, x) /\ (UNCHANGED state \/ OnState(relay[r].sid, "failed"))
        \/ /\ ~is_exhausted(relay[r].attempt)
           /\ relay' = [relay EXCEPT ![r].pc = "backoff", ![r].attempt = @ + 1]
           /\ OnState(relay[r].sid, "reconnecting")
    BY <2>2
  <2>4. state' \in [Sids -> States]
    BY <1>2, <1>3, <2>3, OnStateTyped
  <2>5. relay[r].attempt \in 0 .. MaxAttempts /\ relay[r].lost \in BOOLEAN
        /\ relay[r].pc \in {"spawning", "relaying", "backoff", "gone"}
    BY <1>2 DEF Relay
  <2>6. CASE Lose(r, x)
    <3>1. PICK lost \in BOOLEAN : lost = (x # "CleanExit")
      OBVIOUS
    <3>2. PICK q : q = [relay[r] EXCEPT !.pc = "gone", !.lost = lost]
      OBVIOUS
    <3>3. relay' = [relay EXCEPT ![r] = q]
      BY <1>2, <2>6, <3>1, <3>2 DEF Lose
    <3>4. q = [relay[r] EXCEPT !.pc = "gone", !.attempt = relay[r].attempt, !.lost = lost]
      BY <1>2, <3>2 DEF Relay
    <3> QED BY <1>1, <2>1, <2>4, <2>5, <3>3, <3>4, RelayGoes DEF RelayMoves
  <2>7. CASE /\ ~is_exhausted(relay[r].attempt)
             /\ relay' = [relay EXCEPT ![r].pc = "backoff", ![r].attempt = @ + 1]
    <3>1. PICK n \in 0 .. MaxAttempts : n = relay[r].attempt + 1
      BY <2>5, <2>7, LinkAssumption DEF is_exhausted
    <3>2. PICK q : q = [relay[r] EXCEPT !.pc = "backoff", !.attempt = n]
      OBVIOUS
    <3>3. relay' = [relay EXCEPT ![r] = q]
      BY <1>2, <2>7, <3>1, <3>2
    <3>4. q = [relay[r] EXCEPT !.pc = "backoff", !.attempt = n, !.lost = relay[r].lost]
      BY <1>2, <3>2 DEF Relay
    <3> QED BY <1>1, <2>1, <2>4, <2>5, <3>3, <3>4, RelayGoes DEF RelayMoves
  <2> QED BY <2>3, <2>6, <2>7
<1> QED BY <1>4, <1>5, <1>6, <1>7, <1>8 DEF RelayStep, RelayEnv

LEMMA RelayStepKeepsRunInv ==
    ASSUME RunInv, NEW r \in Rids, RelayStep(r) \/ RelayEnv(r)
    PROVE  RunInv'
<1>1. TypeOK /\ Kept /\ Opened /\ Cleared /\ RunsOnlyWhereAcknowledged /\ RelayMoves(r)
  BY RelayStepMoves DEF RunInv
<1>2. /\ relay[r] # None /\ relay' \in [Rids -> Relay \cup {None}]
      /\ relay'[r].sid = relay[r].sid
      /\ \A x \in Rids : x # r => relay'[x] = relay[x]
      /\ state' \in [Sids -> States]
      /\ UNCHANGED <<sessions, task, cancelled, up, disk, profiles, granted>>
  BY <1>1 DEF RelayMoves, still, machine, user
<1>3. relay[r].sid \in Sids
  BY <1>1, <1>2 DEF TypeOK, Relay
<1> DEFINE t == task[relay[r].sid]
<1>4. t # None /\ Answered(t, granted) /\ t \in Task /\ t.prof \in Profile /\ t.host \in Hosts
      /\ t.prof.kind \in {"host", "docker"}
  BY <1>1, <1>2, <1>3, TaskIsTyped DEF Cleared
<1>5. ran' = ran \/ (ExecIn(t) \in Containers /\ ran' = ran \cup {<<t.host, t.prof, ExecIn(t)>>})
  BY <1>1 DEF RelayMoves
<1> HIDE DEF t
<1>6. TypeOK'
  <2>1. ran' \subseteq Hosts \X Profile \X Containers
    BY <1>1, <1>4, <1>5 DEF TypeOK
  <2> QED BY <1>1, <1>2, <2>1 DEF TypeOK
<1>7. Kept' /\ Opened'
  BY <1>1, <1>2 DEF Kept, Opened, KeepsAnswers
<1>8. Cleared'
  <2>1. (\A x \in Sids : task[x] # None =>
            /\ task[x].pc \in Preflight => task[x].prof.kind = "docker"
            /\ task[x].pc \in Past => Answered(task[x], granted))'
    BY <1>1, <1>2 DEF Cleared
  <2>2. (\A x \in Rids : relay[x] # None =>
            /\ task[relay[x].sid] # None
            /\ task[relay[x].sid].pc \in {"listen", "done"}
            /\ Answered(task[relay[x].sid], granted))'
    BY <1>1, <1>2 DEF Cleared
  <2> QED BY <2>1, <2>2 DEF Cleared
<1>9. RunsOnlyWhereAcknowledged'
  <2>1. CASE ran' = ran
    BY <1>1, <1>2, <2>1 DEF RunsOnlyWhereAcknowledged
  <2>2. CASE /\ ExecIn(t) \in Containers
             /\ ran' = ran \cup {<<t.host, t.prof, ExecIn(t)>>}
    <3>1. ExecIn(t) = t.target /\ t.prof.kind = "docker"
      BY <1>1, <1>4, <2>2, ExecInHome, LinkAssumption
    <3>2. RisksOf(t.host, t.prof, ExecIn(t), Inspect[ExecIn(t)]) \subseteq granted
      BY <1>4, <3>1 DEF Answered
    <3> QED BY <1>1, <1>2, <2>2, <3>2 DEF RunsOnlyWhereAcknowledged
  <2> QED BY <1>5, <2>1, <2>2
<1> QED BY <1>6, <1>7, <1>8, <1>9 DEF RunInv

LEMMA AcceptKeepsRunInv ==
    ASSUME RunInv, NEW s \in Sids, accept(s)
    PROVE  RunInv'
<1>1. TypeOK /\ Kept /\ Opened /\ Cleared /\ RunsOnlyWhereAcknowledged
  BY DEF RunInv
<1>2. PICK r \in Rids :
        relay' = [relay EXCEPT ![r] = [sid |-> s, pc |-> "spawning", attempt |-> 0, lost |-> FALSE]]
  BY DEF accept
<1>3. PICK q : q = [sid |-> s, pc |-> "spawning", attempt |-> 0, lost |-> FALSE]
  OBVIOUS
<1>4. q \in Relay /\ q.sid = s
  BY <1>3, LinkAssumption DEF Relay
<1>5. relay' = [relay EXCEPT ![r] = q] /\ relay \in [Rids -> Relay \cup {None}]
  BY <1>1, <1>2, <1>3 DEF TypeOK
<1>6. state' \in [Sids -> States]
  <2>1. "starting" \in States
    BY DEF States
  <2> QED BY <1>1, <2>1, OnStateTyped DEF accept
<1>7. UNCHANGED <<sessions, task, cancelled, up, disk, profiles, granted, ran>>
  BY DEF accept, still, machine, user
<1>8. task[s] # None /\ task[s].pc = "listen" /\ Answered(task[s], granted)
  BY <1>1 DEF accept, At, Cleared, Past, Pcs, Remote, Preflight
<1>9. TypeOK'
  BY <1>1, <1>4, <1>5, <1>6, <1>7 DEF TypeOK
<1>10. Kept' /\ Opened' /\ RunsOnlyWhereAcknowledged'
  BY <1>1, <1>7 DEF Kept, Opened, KeepsAnswers, RunsOnlyWhereAcknowledged
<1>11. Cleared'
  <2>1. (\A x \in Sids : task[x] # None =>
            /\ task[x].pc \in Preflight => task[x].prof.kind = "docker"
            /\ task[x].pc \in Past => Answered(task[x], granted))'
    BY <1>1, <1>7 DEF Cleared
  <2>2. (\A x \in Rids : relay[x] # None =>
            /\ task[relay[x].sid] # None
            /\ task[relay[x].sid].pc \in {"listen", "done"}
            /\ Answered(task[relay[x].sid], granted))'
    BY <1>1, <1>4, <1>5, <1>7, <1>8 DEF Cleared
  <2> QED BY <2>1, <2>2 DEF Cleared
<1> QED BY <1>9, <1>10, <1>11 DEF RunInv


\* What an edit of profiles and sessions may do.
Edits ==
    /\ profiles' \in [Hosts -> Profile \cup {None}]
    /\ sessions' \in [Hosts -> 0 .. MaxSessions]
    /\ state' \in [Sids -> States]
    /\ cancelled' \subseteq Sids
    /\ granted \subseteq granted' /\ granted' \subseteq Risks
    /\ \A h \in Hosts : profiles'[h] # None =>
          \A k \in RiskKinds : profiles'[h].acks[k] = None \/ profiles'[h].acks[k] \in granted'
    /\ \A h \in Hosts : sessions'[h] # 0 => sessions'[h] = sessions[h] /\ profiles'[h] # None
    /\ UNCHANGED <<task, relay, up, disk, ran>>

LEMMA EditsKeepRunInv ==
    ASSUME RunInv, Edits
    PROVE  RunInv'
<1>1. TypeOK /\ Kept /\ Opened /\ Cleared /\ RunsOnlyWhereAcknowledged
  BY DEF RunInv
<1>2. TypeOK'
  BY <1>1 DEF TypeOK, Edits
<1>3. Kept'
  <2>1. (\A h \in Hosts : profiles[h] # None => KeepsAnswers(profiles[h]))'
    BY DEF Edits, KeepsAnswers
  <2>2. (\A s \in Sids : task[s] # None => KeepsAnswers(task[s].prof))'
    BY <1>1 DEF Edits, Kept, KeepsAnswers
  <2> QED BY <2>1, <2>2 DEF Kept
<1>4. Opened'
  BY <1>1 DEF Edits, Opened
<1>5. Cleared'
  <2>1. \A t : Answered(t, granted) => Answered(t, granted')
    BY DEF Edits, Answered
  <2>2. (\A x \in Sids : task[x] # None =>
            /\ task[x].pc \in Preflight => task[x].prof.kind = "docker"
            /\ task[x].pc \in Past => Answered(task[x], granted))'
    BY <1>1, <2>1 DEF Cleared, Edits
  <2>3. (\A x \in Rids : relay[x] # None =>
            /\ task[relay[x].sid] # None
            /\ task[relay[x].sid].pc \in {"listen", "done"}
            /\ Answered(task[relay[x].sid], granted))'
    BY <1>1, <2>1 DEF Cleared, Edits
  <2> QED BY <2>2, <2>3 DEF Cleared
<1>6. RunsOnlyWhereAcknowledged'
  BY <1>1 DEF RunsOnlyWhereAcknowledged, Edits
<1> QED BY <1>2, <1>3, <1>4, <1>5, <1>6 DEF RunInv

LEMMA StoppedIsTyped ==
    ASSUME TypeOK, NEW h \in Hosts, stop_remote(h)
    PROVE  /\ sessions' \in [Hosts -> 0 .. MaxSessions]
           /\ sessions'[h] = 0
           /\ \A x \in Hosts : x # h => sessions'[x] = sessions[x]
           /\ state' \in [Sids -> States]
           /\ cancelled' \subseteq Sids
<1>1. /\ sessions \in [Hosts -> 0 .. MaxSessions] /\ state \in [Sids -> States]
      /\ cancelled \subseteq Sids /\ "disconnected" \in States
  BY DEF TypeOK, States
<1>2. 0 \in 0 .. MaxSessions /\ (sessions[h] # 0 => sessions[h] \in Sids)
  BY <1>1, LinkAssumption DEF Sids
<1>3. sessions' = [sessions EXCEPT ![h] = 0]
  BY DEF stop_remote
<1>4. state' \in [Sids -> States] /\ cancelled' \subseteq Sids
  BY <1>1, <1>2 DEF stop_remote
<1> QED BY <1>1, <1>2, <1>3, <1>4

LEMMA ProfileCommandsEdit ==
    ASSUME RunInv, NEW h \in Hosts,
           \/ \E p \in Profiles : add_remote_profile(h, p) \/ update_remote_profile(h, p)
           \/ delete_remote_profile(h) \/ disconnect_host(h)
    PROVE  Edits
<1>1. /\ TypeOK /\ Kept /\ Opened
      /\ profiles \in [Hosts -> Profile \cup {None}] /\ sessions \in [Hosts -> 0 .. MaxSessions]
      /\ state \in [Sids -> States] /\ cancelled \subseteq Sids /\ granted \subseteq Risks
  BY DEF RunInv, TypeOK
<1>2. ASSUME NEW p \in Profiles, add_remote_profile(h, p) PROVE Edits
  <2>1. p \in Profile /\ p.acks = NoAcks
    BY NewProfiles
  <2>2. profiles' = [profiles EXCEPT ![h] = p]
        /\ UNCHANGED <<sessions, task, state, cancelled, relay, up, disk, granted, ran>>
    BY <1>2 DEF add_remote_profile, machine
  <2>3. \A k \in RiskKinds : p.acks[k] = None
    BY <2>1 DEF NoAcks
  <2>4. p # None
    BY <2>1, NoneAssumption
  <2> QED BY <1>1, <2>1, <2>2, <2>3, <2>4 DEF Edits, Kept, KeepsAnswers, Opened
<1>3. ASSUME NEW p \in Profiles, update_remote_profile(h, p) PROVE Edits
  <2>1. PICK a \in {NoAcks, profiles[h].acks} : profiles' = [profiles EXCEPT ![h] = WithAcks(p, a)]
    BY <1>3 DEF update_remote_profile
  <2>2. profiles[h] # None /\ profiles[h] \in Profile
        /\ UNCHANGED <<sessions, task, state, cancelled, relay, up, disk, granted, ran>>
    BY <1>1, <1>3 DEF update_remote_profile, machine
  <2>3. a \in [RiskKinds -> Risks \cup {None}]
    BY <2>1, <2>2, NewProfiles, ProfileShape
  <2>4. \A k \in RiskKinds : a[k] = None \/ a[k] \in granted
    <3>1. CASE a = NoAcks
      BY <3>1 DEF NoAcks
    <3>2. CASE a = profiles[h].acks
      BY <1>1, <2>2, <3>2 DEF Kept, KeepsAnswers
    <3> QED BY <2>1, <3>1, <3>2
  <2>5. PICK q : q = WithAcks(p, a)
    OBVIOUS
  <2>6. q \in Profile /\ q.acks = a /\ q # None
    BY <2>3, <2>5, NewProfiles, WithAnswers, NoneAssumption
  <2>7. profiles' = [profiles EXCEPT ![h] = q]
    BY <2>1, <2>5
  <2> QED BY <1>1, <2>2, <2>4, <2>6, <2>7 DEF Edits, Kept, KeepsAnswers, Opened
<1>4. ASSUME delete_remote_profile(h) PROVE Edits
  <2>1. /\ stop_remote(h) /\ profiles' = [profiles EXCEPT ![h] = None]
        /\ UNCHANGED <<task, relay, up, disk, granted, ran>>
    BY <1>4 DEF delete_remote_profile, machine
  <2> QED BY <1>1, <2>1, StoppedIsTyped DEF Edits, Kept, KeepsAnswers, Opened
<1>5. ASSUME disconnect_host(h) PROVE Edits
  <2>1. stop_remote(h) /\ UNCHANGED <<task, relay, up, disk, profiles, granted, ran>>
    BY <1>5 DEF disconnect_host, machine, user
  <2> QED BY <1>1, <2>1, StoppedIsTyped DEF Edits, Kept, KeepsAnswers, Opened
<1> QED BY <1>2, <1>3, <1>4, <1>5

LEMMA AnswerEdits ==
    ASSUME RunInv, NEW h \in Hosts, NEW r, acknowledge_risk(h, r)
    PROVE  Edits
<1>1. /\ TypeOK /\ Kept /\ Opened
      /\ profiles \in [Hosts -> Profile \cup {None}] /\ sessions \in [Hosts -> 0 .. MaxSessions]
      /\ granted \subseteq Risks
  BY DEF RunInv, TypeOK
<1> DEFINE s == sessions[h]
<1>2. /\ s # 0 /\ r \in task[s].pending
      /\ profiles' = [profiles EXCEPT ![h].acks[r[1]] = r]
      /\ granted' = granted \cup {r}
      /\ stop_remote(h)
      /\ UNCHANGED <<task, relay, up, disk, ran>>
  BY DEF acknowledge_risk, machine
<1>3. s \in Sids /\ profiles[h] # None /\ task[s] # None
  BY <1>1, <1>2 DEF Opened, Sids
<1>4. task[s].pending \subseteq Risks
  BY <1>1, <1>3, TaskIsTyped DEF Task
<1>5. r \in Risks /\ r[1] \in RiskKinds
  BY <1>2, <1>4, RiskKindsAreTwo
<1>6. PICK p \in Profile : p = profiles[h]
  BY <1>1, <1>3
<1>7. PICK a \in [RiskKinds -> Risks \cup {None}] : a = [p.acks EXCEPT ![r[1]] = r]
  BY <1>5, <1>6, ProfileShape
<1>8. PICK q : q = WithAcks(p, a)
  OBVIOUS
<1>9. q \in Profile /\ q.acks = a /\ q # None
  BY <1>6, <1>7, <1>8, WithAnswers, NoneAssumption
<1>10. profiles' = [profiles EXCEPT ![h] = q]
  BY <1>1, <1>2, <1>6, <1>7, <1>8, ProfileShape DEF WithAcks
<1>11. \A k \in RiskKinds : a[k] = None \/ a[k] \in granted'
  <2>1. \A k \in RiskKinds : p.acks[k] = None \/ p.acks[k] \in granted
    BY <1>1, <1>3, <1>6 DEF Kept, KeepsAnswers
  <2>2. \A k \in RiskKinds : a[k] = r \/ a[k] = p.acks[k]
    BY <1>6, <1>7, ProfileShape
  <2> QED BY <1>2, <2>1, <2>2
<1>12. /\ profiles' \in [Hosts -> Profile \cup {None}]
       /\ \A x \in Hosts : profiles'[x] # None =>
             \A k \in RiskKinds : profiles'[x].acks[k] = None \/ profiles'[x].acks[k] \in granted'
  BY <1>1, <1>2, <1>9, <1>10, <1>11 DEF Kept, KeepsAnswers
<1>13. \A x \in Hosts : sessions'[x] # 0 => sessions'[x] = sessions[x] /\ profiles'[x] # None
  BY <1>1, <1>2, <1>9, <1>10, StoppedIsTyped DEF Opened
<1> QED BY <1>1, <1>2, <1>5, <1>12, <1>13, StoppedIsTyped DEF Edits


\* What a new attempt starts from.
LEMMA NewTask ==
    ASSUME TypeOK, NEW h \in Hosts, profiles[h] # None, NEW q,
           q = [host |-> h, prof |-> profiles[h], pc |-> "begin", art |-> "polytoken", cmd |-> 1,
                got |-> "none", orphan |-> FALSE, target |-> None, pending |-> {}]
    PROVE  /\ q \in Task /\ InScript(q) /\ q # None
           /\ q.pc = "begin" /\ q.prof = profiles[h] /\ q.art = "polytoken"
<1>1. profiles[h] \in Profile
  BY DEF TypeOK
<1>2. 1 \in 1 .. 9 /\ 1 \in 1 .. 8
  OBVIOUS
<1>3. "begin" \in Pcs /\ "polytoken" \in Artifacts /\ "none" \in Bits
  BY DEF Pcs, Artifacts, Bits
<1>4. q \in Task
  BY <1>1, <1>2, <1>3 DEF Task
<1>5. InScript(q)
  BY <1>2, ScriptCommands DEF InScript
<1> QED BY <1>4, <1>5, NoneAssumption

LEMMA EnsureKeepsRunInv ==
    ASSUME RunInv, NEW h \in Hosts, ensure_remote_host(h)
    PROVE  RunInv'
<1>1. TypeOK /\ Kept /\ Opened /\ Cleared /\ RunsOnlyWhereAcknowledged
  BY DEF RunInv
<1>2. PICK s \in Sids :
        /\ task[s] = None
        /\ task' = [task EXCEPT ![s] =
              [host |-> h, prof |-> profiles[h], pc |-> "begin", art |-> "polytoken", cmd |-> 1,
               got |-> "none", orphan |-> FALSE, target |-> None, pending |-> {}]]
        /\ sessions' = [sessions EXCEPT ![h] = s]
        /\ OnState(s, "testingSsh")
  BY DEF ensure_remote_host
<1>3. PICK q : q = [host |-> h, prof |-> profiles[h], pc |-> "begin", art |-> "polytoken", cmd |-> 1,
                    got |-> "none", orphan |-> FALSE, target |-> None, pending |-> {}]
  OBVIOUS
<1>4. /\ profiles[h] # None
      /\ UNCHANGED <<cancelled, relay, up, disk, profiles, granted, ran>>
  BY DEF ensure_remote_host, machine, user
<1>5. /\ q \in Task /\ InScript(q) /\ q # None
      /\ q.pc = "begin" /\ q.prof = profiles[h]
  BY <1>1, <1>3, <1>4, NewTask
<1>6. /\ task' = [task EXCEPT ![s] = q] /\ task \in [Sids -> Task \cup {None}]
      /\ task'[s] = q /\ \A x \in Sids : x # s => task'[x] = task[x]
  BY <1>1, <1>2, <1>3 DEF TypeOK
<1>7. TypeOK'
  <2>1. task' \in [Sids -> Task \cup {None}]
    BY <1>5, <1>6
  <2>2. (\A x \in Sids : task[x] # None => InScript(task[x]))'
    BY <1>1, <1>5, <1>6 DEF TypeOK
  <2>3. state' \in [Sids -> States]
    <3>1. "testingSsh" \in States
      BY DEF States
    <3> QED BY <1>1, <1>2, <3>1, OnStateTyped
  <2>4. sessions' \in [Hosts -> 0 .. MaxSessions]
    BY <1>1, <1>2, LinkAssumption DEF TypeOK, Sids
  <2> QED BY <1>1, <1>4, <2>1, <2>2, <2>3, <2>4 DEF TypeOK
<1>8. Kept'
  BY <1>1, <1>4, <1>5, <1>6 DEF Kept, KeepsAnswers
<1>9. Opened'
  <2>1. sessions'[h] = s /\ \A x \in Hosts : x # h => sessions'[x] = sessions[x]
    BY <1>1, <1>2 DEF TypeOK
  <2>2. \A x \in Hosts : sessions[x] # 0 => sessions[x] # s /\ sessions[x] \in Sids
    BY <1>1, <1>2, LinkAssumption DEF Opened, TypeOK, Sids
  <2> QED BY <1>1, <1>4, <1>5, <1>6, <2>1, <2>2 DEF Opened
<1>10. Cleared'
  <2>1. "begin" \notin Preflight /\ "begin" \notin Past
    BY DEF Preflight, Past
  <2>2. (\A x \in Sids : task[x] # None =>
            /\ task[x].pc \in Preflight => task[x].prof.kind = "docker"
            /\ task[x].pc \in Past => Answered(task[x], granted))'
    BY <1>1, <1>4, <1>5, <1>6, <2>1 DEF Cleared, Answered
  <2>3. \A x \in Rids : relay[x] # None => relay[x].sid \in Sids
    BY <1>1 DEF TypeOK, Relay
  <2>4. (\A x \in Rids : relay[x] # None =>
            /\ task[relay[x].sid] # None
            /\ task[relay[x].sid].pc \in {"listen", "done"}
            /\ Answered(task[relay[x].sid], granted))'
    BY <1>1, <1>2, <1>4, <1>6, <2>3 DEF Cleared, Answered
  <2> QED BY <2>2, <2>4 DEF Cleared
<1>11. RunsOnlyWhereAcknowledged'
  BY <1>1, <1>4 DEF RunsOnlyWhereAcknowledged
<1> QED BY <1>7, <1>8, <1>9, <1>10, <1>11 DEF RunInv

\* What the end of the runtime makes of a task: nothing, a script left alone, or nothing more.
Ended(t, u) ==
    /\ u \in Task /\ InScript(u) /\ u # None
    /\ u.host = t.host /\ u.prof = t.prof /\ u.target = t.target /\ u.art = t.art
    /\ u.cmd = t.cmd /\ u.got = t.got
    /\ u.pc = t.pc \/ u.pc = "done"
    /\ t.pc = "done" => u.pc = "done"

LEMMA TeardownEnds ==
    ASSUME TypeOK, teardown, NEW s \in Sids
    PROVE  /\ task[s] = None => task'[s] = None
           /\ task[s] # None => Ended(task[s], task'[s])
<1>1. task'[s] = IF ~Live(s) THEN task[s]
                 ELSE IF task[s].pc = "script" THEN [task[s] EXCEPT !.orphan = TRUE]
                 ELSE [task[s] EXCEPT !.pc = "done"]
  BY DEF teardown
<1>2. CASE task[s] = None
  BY <1>1, <1>2 DEF Live
<1>3. CASE task[s] # None
  <2>1. PICK t \in Task : t = task[s] /\ InScript(t)
    BY <1>3, TaskIsTyped
  <2>2. PICK a : a = [t EXCEPT !.orphan = TRUE]
    OBVIOUS
  <2>3. PICK b : b = [t EXCEPT !.pc = "done"]
    OBVIOUS
  <2>4. "done" \in Pcs
    BY DEF Pcs
  <2>5. /\ a \in Task /\ a.host = t.host /\ a.prof = t.prof /\ a.target = t.target /\ a.art = t.art
        /\ a.cmd = t.cmd /\ a.got = t.got /\ a.pc = t.pc
    BY <2>2 DEF Task
  <2>6. /\ b \in Task /\ b.host = t.host /\ b.prof = t.prof /\ b.target = t.target /\ b.art = t.art
        /\ b.cmd = t.cmd /\ b.got = t.got /\ b.pc = "done"
    BY <2>3, <2>4 DEF Task
  <2>7. task'[s] \in {t, a, b}
    BY <1>1, <2>1, <2>2, <2>3
  <2>8. Ended(t, t) /\ (t.pc # "done" => Ended(t, a)) /\ Ended(t, b)
    BY <2>1, <2>5, <2>6, NoneAssumption DEF Ended, InScript
  <2>9. task'[s] = a => t.pc # "done" \/ task'[s] = t
    BY <1>1, <2>1, <2>2 DEF Live
  <2> QED BY <1>3, <2>1, <2>7, <2>8, <2>9
<1> QED BY <1>2, <1>3

LEMMA TeardownKeepsRunInv ==
    ASSUME RunInv, teardown
    PROVE  RunInv'
<1>1. TypeOK /\ Kept /\ Opened /\ Cleared /\ RunsOnlyWhereAcknowledged
  BY DEF RunInv
<1>2. /\ sessions' = [h \in Hosts |-> 0]
      /\ cancelled' = cancelled \cup {s \in Sids : task[s] # None}
      /\ relay' = [r \in Rids |-> IF relay[r] = None THEN None ELSE [relay[r] EXCEPT !.pc = "gone"]]
      /\ UNCHANGED <<state, up, disk, profiles, granted, ran>>
  BY DEF teardown, machine, user
<1>3. \A s \in Sids : IF task[s] = None THEN task'[s] = None ELSE Ended(task[s], task'[s])
  BY <1>1, TeardownEnds
<1>4. task' = [s \in Sids |-> task'[s]]
  BY DEF teardown
<1>5. ASSUME NEW r \in Rids, relay[r] # None
      PROVE  relay'[r] \in Relay /\ relay'[r].sid = relay[r].sid
  BY <1>1, <1>2, <1>5 DEF TypeOK, Relay
<1>6. \A r \in Rids : relay[r] = None => relay'[r] = None
  BY <1>2
<1>7. TypeOK'
  <2>1. task' \in [Sids -> Task \cup {None}]
    <3>1. \A s \in Sids : task'[s] \in Task \cup {None}
      BY <1>3 DEF Ended
    <3> QED BY <1>4, <3>1
  <2>2. (\A x \in Sids : task[x] # None => InScript(task[x]))'
    BY <1>3 DEF Ended
  <2>3. relay' \in [Rids -> Relay \cup {None}]
    <3>1. relay' = [r \in Rids |-> relay'[r]]
      BY <1>2
    <3>2. \A r \in Rids : relay'[r] \in Relay \cup {None}
      BY <1>5, <1>6
    <3> QED BY <3>1, <3>2
  <2>4. sessions' \in [Hosts -> 0 .. MaxSessions] /\ cancelled' \subseteq Sids
    BY <1>1, <1>2, LinkAssumption DEF TypeOK
  <2> QED BY <1>1, <1>2, <2>1, <2>2, <2>3, <2>4 DEF TypeOK
<1>8. Kept'
  BY <1>1, <1>2, <1>3 DEF Kept, KeepsAnswers, Ended
<1>9. Opened'
  BY <1>2 DEF Opened
<1>10. \A t, u : Ended(t, u) /\ Answered(t, granted) => Answered(u, granted')
  BY <1>2 DEF Ended, Answered
<1>11. Cleared'
  <2>1. "done" \notin Preflight /\ "done" \notin Past
    BY DEF Preflight, Past
  <2>2. (\A x \in Sids : task[x] # None =>
            /\ task[x].pc \in Preflight => task[x].prof.kind = "docker"
            /\ task[x].pc \in Past => Answered(task[x], granted))'
    <3> SUFFICES ASSUME NEW x \in Sids, task'[x] # None
                 PROVE  /\ task'[x].pc \in Preflight => task'[x].prof.kind = "docker"
                        /\ task'[x].pc \in Past => Answered(task'[x], granted')
      OBVIOUS
    <3>1. task[x] # None /\ Ended(task[x], task'[x])
      BY <1>3
    <3>2. /\ task[x].pc \in Preflight => task[x].prof.kind = "docker"
          /\ task[x].pc \in Past => Answered(task[x], granted)
      BY <1>1, <3>1 DEF Cleared
    <3>3. task'[x].pc \in {task[x].pc, "done"} /\ task'[x].prof = task[x].prof
      BY <3>1 DEF Ended
    <3> QED BY <1>10, <2>1, <3>1, <3>2, <3>3
  <2>3. (\A x \in Rids : relay[x] # None =>
            /\ task[relay[x].sid] # None
            /\ task[relay[x].sid].pc \in {"listen", "done"}
            /\ Answered(task[relay[x].sid], granted))'
    <3> SUFFICES ASSUME NEW x \in Rids, relay'[x] # None
                 PROVE  /\ task'[relay'[x].sid] # None
                        /\ task'[relay'[x].sid].pc \in {"listen", "done"}
                        /\ Answered(task'[relay'[x].sid], granted')
      OBVIOUS
    <3>1. relay[x] # None /\ relay'[x].sid = relay[x].sid /\ relay[x].sid \in Sids
      BY <1>1, <1>5, <1>6 DEF TypeOK, Relay
    <3> DEFINE y == relay[x].sid
    <3>2. /\ task[y] # None /\ task[y].pc \in {"listen", "done"} /\ Answered(task[y], granted)
      BY <1>1, <3>1 DEF Cleared
    <3>3. Ended(task[y], task'[y])
      BY <1>3, <3>1, <3>2
    <3>4. task'[y] # None /\ task'[y].pc \in {"listen", "done"}
      BY <3>2, <3>3 DEF Ended
    <3> QED BY <1>10, <3>1, <3>2, <3>3, <3>4
  <2> QED BY <2>2, <2>3 DEF Cleared
<1>12. RunsOnlyWhereAcknowledged'
  BY <1>1, <1>2 DEF RunsOnlyWhereAcknowledged
<1> QED BY <1>7, <1>8, <1>9, <1>11, <1>12 DEF RunInv

\* A container replaced, and a step that changes nothing.
LEMMA ReplaceKeepsRunInv ==
    ASSUME RunInv, \/ UNCHANGED vars
                   \/ \E c \in Containers \cup {None} : replace_container(c)
    PROVE  RunInv'
<1>1. /\ up' \in Containers \cup {None}
      /\ UNCHANGED <<profiles, sessions, task, state, cancelled, relay, disk, granted, ran>>
  BY DEF RunInv, TypeOK, replace_container, vars
<1>2. TypeOK'
  BY <1>1 DEF RunInv, TypeOK
<1>3. Kept' /\ Opened' /\ RunsOnlyWhereAcknowledged'
  BY <1>1 DEF RunInv, Kept, KeepsAnswers, Opened, RunsOnlyWhereAcknowledged
<1>4. Cleared'
  BY <1>1 DEF RunInv, Cleared, Answered
<1> QED BY <1>2, <1>3, <1>4 DEF RunInv

LEMMA InitHasRunInv ==
    ASSUME Init
    PROVE  RunInv
<1>1. EmptyDisk \in Disk
  BY DEF EmptyDisk, Disk, Bits
<1>2. 0 \in 0 .. MaxSessions /\ "disconnected" \in States
  BY LinkAssumption DEF States
<1>3. TypeOK
  BY <1>1, <1>2 DEF Init, TypeOK
<1> QED BY <1>3 DEF Init, RunInv, Kept, Opened, Cleared, RunsOnlyWhereAcknowledged

LEMMA StepKeepsRunInv ==
    ASSUME RunInv, [Next]_vars
    PROVE  RunInv'
<1>1. CASE Commands
  BY <1>1, ProfileCommandsEdit, AnswerEdits, EditsKeepRunInv, EnsureKeepsRunInv, TeardownKeepsRunInv
     DEF Commands
<1>2. CASE \E s \in Sids : TaskStep(s) \/ accept(s)
  BY <1>2, TaskStepKeepsRunInv, AcceptKeepsRunInv
<1>3. CASE \E r \in Rids : RelayStep(r) \/ RelayEnv(r)
  BY <1>3, RelayStepKeepsRunInv
<1>4. CASE UNCHANGED vars \/ \E c \in Containers \cup {None} : replace_container(c)
  BY <1>4, ReplaceKeepsRunInv
<1> QED BY <1>1, <1>2, <1>3, <1>4 DEF Next

LEMMA AlwaysRunInv == Spec => []RunInv
<1>1. Init => RunInv
  BY InitHasRunInv
<1>2. RunInv /\ [Next]_vars => RunInv'
  BY StepKeepsRunInv
<1> QED BY <1>1, <1>2, PTL DEF Spec

\* Profiles, tasks, relays, disks and what was acknowledged and run keep their shapes, and an
\* attempt's place in its install script is a place of that script.
THEOREM TypeCorrect == Spec => []TypeOK
<1>1. RunInv => TypeOK
  BY DEF RunInv
<1> QED BY <1>1, AlwaysRunInv, PTL

\* Nothing is installed or run in a container before every risk of doing so there was acknowledged
\* (preflight's pinned id and its fingerprints; acknowledge_risk; docker exec by id).
THEOREM RunsCorrect == Spec => []RunsOnlyWhereAcknowledged
<1>1. RunInv => RunsOnlyWhereAcknowledged
  BY DEF RunInv
<1> QED BY <1>1, AlwaysRunInv, PTL


-----------------------------------------------------------------------------
(* InstallInv is inductive where attempts do not overlap *)

\* Writing an archive leaves what is installed alone.
LEMMA UploadedDisk ==
    ASSUME NEW d \in Disk, NEW a \in Artifacts, NEW b \in Bits, NEW e, e = [d EXCEPT !.cache[a] = b]
    PROVE  e \in Disk /\ e.cache[a] = b /\ e.final = d.final
BY DEF Disk

\* What a step of the one living task leaves: trusted disks, and a task whose script builds on them.
LEMMA TaskStepInstalls ==
    ASSUME RunInv, InstallInv, NEW s \in Sids, TaskStep(s)
    PROVE  /\ task'[s].pc = "upload" => task'[s].got = "whole"
           /\ task'[s].pc = "script" =>
                 /\ Home(task'[s]) \in Machines
                 /\ task'[s].art = "server" => Built(disk'[Home(task'[s])], task'[s].cmd)
           /\ \A m \in Machines : Trusted(disk'[m])
<1> DEFINE t == task[s]
           u == task'[s]
           h == Home(t)
<1>1. TypeOK /\ Cleared /\ Installs /\ \A m \in Machines : Trusted(disk[m])
  BY DEF RunInv, InstallInv, InstalledServerIsWhole, Trusted, TypeOK
<1>2. task[s] # None /\ Moves(s, t, u)
  BY <1>1, TaskStepMoves DEF Cleared
<1>3. /\ t \in Task /\ InScript(t) /\ DOMAIN task = Sids /\ disk \in [Machines -> Disk]
      /\ t.art \in Artifacts
  BY <1>1, <1>2, TaskIsTyped DEF TypeOK, Task
<1>4. ASSUME ExecIn(t) # None PROVE ExecIn(t) = h /\ h \in Machines
  BY <1>1, <1>3, <1>4, ExecInHome
<1>5. u.target = t.target /\ u.prof = t.prof => Home(u) = h
  BY DEF Home
<1>6. CASE begin(s) \/ preflight_docker(s) \/ preflight_outcome(s) \/ command_fails(s) \/ probe_remote(s)
           \/ check_compatibility(s) \/ record_provenance(s) \/ ensure_server_installed(s)
           \/ bridge_bind(s) \/ bridge_cancelled(s) \/ script_dies(s)
  <2>1. disk' = disk
    BY <1>6 DEF begin, preflight_docker, preflight_outcome, command_fails, probe_remote,
         check_compatibility, record_provenance, ensure_server_installed, bridge_bind,
         bridge_cancelled, script_dies, quiet, machine
  <2>2. u.pc \notin {"upload", "script"}
    <3>1. ASSUME NEW to \in {"access", "locate", "inspect", "identity", "probe", "compat", "check",
                             "cleanup", "bind", "listen", "fetch", "done"},
                 NEW q, task' = [task EXCEPT ![s] = q], q.pc = to
          PROVE  u.pc \notin {"upload", "script"}
      BY <1>3, <3>1
    <3>2. ASSUME NEW to \in {"access", "locate", "inspect", "identity", "probe", "compat", "check",
                             "cleanup", "bind", "listen", "done"}, Goto(s, to)
          PROVE  u.pc \notin {"upload", "script"}
      <4>1. to \in Pcs
        BY DEF Pcs, Remote, Preflight
      <4> QED BY <1>1, <1>2, <3>2, <4>1, GotoBecomes
    <3>3. CASE \E to \in {"access", "locate", "inspect", "identity", "probe", "compat", "check",
                          "cleanup", "bind", "listen", "done"} : Goto(s, to)
      BY <3>2, <3>3
    <3>4. CASE preflight_docker(s) /\ t.pc = "locate"
      <4>1. task' = [task EXCEPT ![s].pc = "inspect", ![s].target = up]
        BY <3>4 DEF preflight_docker, At
      <4> QED BY <1>3, <4>1 DEF Task
    <3>5. CASE \E risks : task' = [task EXCEPT ![s].pc = "done", ![s].pending = risks]
      BY <1>3, <3>5 DEF Task
    <3>6. CASE task' = [task EXCEPT ![s].pc = "fetch", ![s].art = "server"]
      BY <1>3, <3>6 DEF Task
    <3>7. CASE begin(s) \/ preflight_docker(s) \/ command_fails(s) \/ probe_remote(s)
      BY <3>3, <3>4, <3>7 DEF begin, preflight_docker, command_fails, probe_remote, Fail, At
    <3>8. CASE preflight_outcome(s)
      BY <3>3, <3>5, <3>8 DEF preflight_outcome, Fail
    <3>9. CASE check_compatibility(s)
      BY <3>3, <3>9 DEF check_compatibility, Fail
    <3>10. CASE record_provenance(s) \/ ensure_server_installed(s) \/ bridge_bind(s)
                \/ bridge_cancelled(s) \/ script_dies(s)
      BY <3>3, <3>6, <3>10 DEF record_provenance, ensure_server_installed, bridge_bind,
           bridge_cancelled, script_dies
    <3> QED BY <1>6, <3>7, <3>8, <3>9, <3>10
  <2> QED BY <1>1, <2>1, <2>2
<1>7. CASE cleanup_staging(s)
  <2>1. Goto(s, "fetch")
    BY <1>7 DEF cleanup_staging
  <2>2. u.pc = "fetch"
    <3>1. "fetch" \in Pcs
      BY DEF Pcs
    <3> QED BY <1>1, <1>2, <2>1, <3>1, GotoBecomes
  <2>3. \/ disk' = disk
        \/ ExecIn(t) # None
           /\ disk' = [disk EXCEPT ![ExecIn(t)] = build_cleanup_staging_command(@, "polytoken")]
    BY <1>7 DEF cleanup_staging
  <2>4. ASSUME NEW d \in Disk, Trusted(d), NEW e, e = build_cleanup_staging_command(d, "polytoken")
        PROVE  Trusted(e)
    <3>1. e.final = d.final
      BY <2>4 DEF build_cleanup_staging_command, Disk
    <3> QED BY <2>4, <3>1 DEF Trusted, check_server_installed
  <2>5. \A m \in Machines : Trusted(disk'[m])
    BY <1>1, <1>3, <1>4, <2>3, <2>4
  <2> QED BY <2>2, <2>5
<1>8. CASE fetch(s)
  <2>1. disk' = disk
    BY <1>8 DEF fetch, quiet, machine
  <2>2. Fail(s) \/ task' = [task EXCEPT ![s].pc = "upload", ![s].got = "whole"]
    BY <1>8 DEF fetch, verify_checksum
  <2>3. u.pc = "done" \/ (u.pc = "upload" /\ u.got = "whole")
    <3>1. CASE Fail(s)
      BY <1>1, <1>2, <3>1, FailBecomes
    <3>2. CASE task' = [task EXCEPT ![s].pc = "upload", ![s].got = "whole"]
      BY <1>3, <3>2 DEF Task
    <3> QED BY <2>2, <3>1, <3>2
  <2> QED BY <1>1, <2>1, <2>3
<1>9. CASE upload(s)
  <2>1. t.pc = "upload" /\ ExecIn(t) # None
    BY <1>9 DEF upload, At
  <2>2. t.got = "whole" /\ t.got \in Bits /\ "partial" \in Bits
    BY <1>1, <1>2, <1>3, <2>1 DEF Installs, Task, Bits
  <2>3. ExecIn(t) = h /\ h \in Machines
    BY <1>4, <2>1
  <2>4. PICK full : full = [disk[h] EXCEPT !.cache[t.art] = t.got]
    OBVIOUS
  <2>5. PICK cut : cut = [disk[h] EXCEPT !.cache[t.art] = "partial"]
    OBVIOUS
  <2>6. /\ full.cache[t.art] = "whole" /\ full.final = disk[h].final /\ cut.final = disk[h].final
    BY <1>3, <2>2, <2>3, <2>4, <2>5, UploadedDisk
  <2>7. Trusted(full) /\ Trusted(cut)
    BY <1>1, <2>3, <2>6 DEF Trusted, check_server_installed
  <2>8. \/ Fail(s) /\ disk' = disk
        \/ Fail(s) /\ disk' = [disk EXCEPT ![h] = cut]
        \/ /\ disk' = [disk EXCEPT ![h] = full]
           /\ task' = [task EXCEPT ![s].pc = "script", ![s].cmd = 1]
    BY <1>3, <1>9, <2>3, <2>4, <2>5 DEF upload
  <2>9. \A m \in Machines : Trusted(disk'[m])
    BY <1>1, <1>3, <2>3, <2>7, <2>8
  <2>10. CASE Fail(s)
    <3>1. u.pc = "done"
      BY <1>1, <1>2, <2>10, FailBecomes
    <3> QED BY <2>9, <3>1
  <2>11. CASE /\ disk' = [disk EXCEPT ![h] = full]
              /\ task' = [task EXCEPT ![s].pc = "script", ![s].cmd = 1]
    <3>1. u.pc = "script" /\ u.cmd = 1 /\ u.art = t.art /\ u.prof = t.prof /\ u.target = t.target
      BY <1>3, <2>11 DEF Task
    <3>2. disk'[h] = full /\ Home(u) = h
      BY <1>3, <1>5, <2>3, <2>11, <3>1
    <3>3. u.art = "server" => Built(full, u.cmd)
      BY <2>6, <3>1 DEF Built
    <3> QED BY <2>3, <2>9, <3>1, <3>2, <3>3
  <2> QED BY <2>8, <2>10, <2>11
<1>10. CASE run_script(s)
  <2> DEFINE c == build_install_command(t.art)[t.cmd]
             last == t.cmd = Len(build_install_command(t.art))
  <2>1. t.pc = "script" /\ ExecIn(t) # None
    BY <1>10 DEF run_script, At
  <2>2. ExecIn(t) = h /\ h \in Machines /\ disk[h] \in Disk
    BY <1>3, <1>4, <2>1
  <2>3. c \in Steps
    BY <1>3, CommandsOfScripts DEF InScript
  <2>4. t.art = "server" => Built(disk[h], t.cmd)
    BY <1>1, <1>2, <2>1 DEF Installs
  <2>5. PICK e : e = After(disk[h], t.art, c)
    OBVIOUS
  <2>6. \/ /\ Succeeds(disk[h], t.art, c)
           /\ disk' = [disk EXCEPT ![h] = e]
           /\ task' = [task EXCEPT ![s].cmd = IF last THEN 1 ELSE @ + 1,
                                   ![s].pc = CASE last /\ t.orphan -> "done"
                                               [] last /\ ~t.orphan -> "record"
                                               [] OTHER -> @]
        \/ (Goto(s, "done") \/ Fail(s)) /\ disk' = disk
    BY <1>3, <1>10, <2>2, <2>5 DEF run_script
  <2>7. CASE (Goto(s, "done") \/ Fail(s)) /\ disk' = disk
    <3>1. "done" \in Pcs
      BY DEF Pcs
    <3>2. u.pc = "done"
      BY <1>1, <1>2, <2>7, <3>1, GotoBecomes, FailBecomes
    <3> QED BY <1>1, <2>7, <3>2
  <2>8. CASE /\ Succeeds(disk[h], t.art, c)
             /\ disk' = [disk EXCEPT ![h] = e]
             /\ task' = [task EXCEPT ![s].cmd = IF last THEN 1 ELSE @ + 1,
                                     ![s].pc = CASE last /\ t.orphan -> "done"
                                                 [] last /\ ~t.orphan -> "record"
                                                 [] OTHER -> @]
    <3>1. /\ last => u.pc \in {"done", "record"}
          /\ ~last => u.cmd = t.cmd + 1 /\ u.pc = t.pc
          /\ u.art = t.art /\ u.prof = t.prof /\ u.target = t.target
      <4> HIDE DEF last
      <4> QED BY <1>3, <2>8 DEF Task
    <3>2. Home(u) = h
      BY <1>5, <3>1
    <3>3. CASE t.art = "server"
      <4>1. t.cmd \in 1 .. 9 /\ (last <=> t.cmd = 9)
        <5>1. Len(build_install_command("server")) = 9
          BY ScriptCommands
        <5> QED BY <1>3, <3>3, <5>1 DEF Task, InScript
      <4>2. Trusted(e) /\ (t.cmd < 9 => Built(e, t.cmd + 1))
        <5>1. Built(disk[h], t.cmd) /\ Trusted(disk[h]) /\ Succeeds(disk[h], "server", c)
              /\ c = build_install_command("server")[t.cmd] /\ e = After(disk[h], "server", c)
          BY <1>1, <2>2, <2>4, <2>5, <2>8, <3>3
        <5> HIDE DEF c, h, t
        <5> QED BY <2>2, <4>1, <5>1, ServerScript
      <4>3. \A m \in Machines : Trusted(disk'[m])
        BY <1>1, <1>3, <2>2, <2>8, <4>2
      <4>4. disk'[h] = e
        BY <1>3, <2>2, <2>8
      <4>5. ~last => Built(disk'[Home(u)], u.cmd)
        BY <3>1, <3>2, <4>1, <4>2, <4>4
      <4>6. u.pc # "upload" /\ (u.pc = "script" => ~last)
        <5> HIDE DEF last
        <5> QED BY <2>1, <3>1
      <4> HIDE DEF h, last
      <4> QED BY <2>2, <3>2, <4>3, <4>5, <4>6
    <3>4. CASE t.art = "polytoken"
      <4>1. e.final["server"] = disk[h].final["server"]
        BY <2>2, <2>3, <2>5, <3>4, OtherArtifact
      <4>2. Trusted(e)
        BY <1>1, <2>2, <4>1 DEF Trusted, check_server_installed
      <4>3. \A m \in Machines : Trusted(disk'[m])
        BY <1>1, <1>3, <2>2, <2>8, <4>2
      <4>4. u.pc # "upload" /\ u.art # "server"
        <5> HIDE DEF last
        <5> QED BY <2>1, <3>1, <3>4
      <4> HIDE DEF h, last
      <4> QED BY <2>2, <3>2, <4>3, <4>4
    <3> QED BY <1>3, <3>3, <3>4 DEF Artifacts
  <2> QED BY <2>6, <2>7, <2>8
<1>11. CASE script_lost(s)
  <2>1. t.pc = "script" /\ task' = [task EXCEPT ![s].orphan = TRUE] /\ disk' = disk
    BY <1>11 DEF script_lost, At, quiet, machine
  <2>2. u.pc = "script" /\ u.cmd = t.cmd /\ u.art = t.art /\ u.prof = t.prof /\ u.target = t.target
    BY <1>3, <2>1 DEF Task
  <2>3. Home(u) = h
    BY <1>5, <2>2
  <2>4. h \in Machines /\ (t.art = "server" => Built(disk[h], t.cmd))
    BY <1>1, <1>2, <2>1 DEF Installs
  <2> QED BY <1>1, <2>1, <2>2, <2>3, <2>4
<1> QED BY <1>6, <1>7, <1>8, <1>9, <1>10, <1>11 DEF TaskStep


LEMMA TaskStepKeepsInstallInv ==
    ASSUME RunInv, InstallInv, NEW s \in Sids, TaskStep(s)
    PROVE  InstallInv'
<1> DEFINE u == task'[s]
<1>1. TypeOK /\ Cleared /\ Alone /\ Installs
  BY DEF RunInv, InstallInv
<1>2. task[s] # None /\ Moves(s, task[s], u)
  BY <1>1, TaskStepMoves DEF Cleared
<1>3. /\ task[s].pc # "done" /\ \A x \in Sids : x # s => task'[x] = task[x]
      /\ disk' \in [Machines -> Disk]
  BY <1>1, <1>2 DEF Moves, Becomes, TypeOK
<1>4. Live(s)
  BY <1>2, <1>3 DEF Live
<1>5. \A x \in Sids : x # s => ~Live(x) /\ task'[x] = task[x]
  BY <1>1, <1>3, <1>4 DEF Alone
<1>6. Alone'
  BY <1>5 DEF Alone, Live
<1>7. /\ u.pc = "upload" => u.got = "whole"
      /\ u.pc = "script" => /\ Home(u) \in Machines
                            /\ u.art = "server" => Built(disk'[Home(u)], u.cmd)
      /\ \A m \in Machines : Trusted(disk'[m])
  BY TaskStepInstalls
<1>8. Installs'
  <2> SUFFICES ASSUME NEW x \in Sids, task'[x] # None
               PROVE  /\ task'[x].pc = "upload" => task'[x].got = "whole"
                      /\ task'[x].pc = "script" =>
                            /\ Home(task'[x]) \in Machines
                            /\ task'[x].art = "server" => Built(disk'[Home(task'[x])], task'[x].cmd)
    BY DEF Installs, Home, Built
  <2>1. CASE x = s
    BY <1>7, <2>1
  <2>2. CASE x # s
    <3>1. task'[x] = task[x] /\ task'[x].pc = "done"
      BY <1>5, <2>2 DEF Live
    <3> QED BY <3>1
  <2> QED BY <2>1, <2>2
<1>9. InstalledServerIsWhole'
  BY <1>3, <1>7 DEF InstalledServerIsWhole, Trusted
<1>10. TypeOK'
  BY TaskStepKeepsRunInv DEF RunInv
<1> QED BY <1>6, <1>8, <1>9, <1>10 DEF InstallInv

\* A step that leaves the disks alone, and a task as it was or ended or newly begun.
LEMMA RestKeepsInstallInv ==
    ASSUME InstallInv, TypeOK', disk' = disk,
           \A x \in Sids : task'[x] # None /\ task'[x].pc # "done" =>
               \/ task'[x].pc = "begin" /\ \A y \in Sids : y # x => ~Live(y) /\ task'[y] = task[y]
               \/ task[x] # None /\ Ended(task[x], task'[x])
    PROVE  InstallInv'
<1>1. Alone /\ Installs /\ InstalledServerIsWhole
  BY DEF InstallInv
<1>2. ASSUME NEW x \in Sids, NEW y \in Sids, Live(x)', Live(y)', x # y
      PROVE  FALSE
  <2>1. ~(task'[x].pc = "begin" /\ \A z \in Sids : z # x => ~Live(z) /\ task'[z] = task[z])
    BY <1>2 DEF Live
  <2>2. ~(task'[y].pc = "begin" /\ \A z \in Sids : z # y => ~Live(z) /\ task'[z] = task[z])
    BY <1>2 DEF Live
  <2>3. /\ task[x] # None /\ Ended(task[x], task'[x]) /\ task'[x].pc # "done"
        /\ task[y] # None /\ Ended(task[y], task'[y]) /\ task'[y].pc # "done"
    BY <1>2, <2>1, <2>2 DEF Live
  <2>4. Live(x) /\ Live(y)
    BY <2>3 DEF Live, Ended
  <2> QED BY <1>1, <1>2, <2>4 DEF Alone
<1>3. Alone'
  BY <1>2 DEF Alone
<1>4. Installs'
  <2> SUFFICES ASSUME NEW x \in Sids, task'[x] # None
               PROVE  /\ task'[x].pc = "upload" => task'[x].got = "whole"
                      /\ task'[x].pc = "script" =>
                            /\ Home(task'[x]) \in Machines
                            /\ task'[x].art = "server" => Built(disk[Home(task'[x])], task'[x].cmd)
    BY DEF Installs, Home, Built
  <2>1. CASE task'[x].pc \in {"upload", "script"}
    <3>1. task[x] # None /\ Ended(task[x], task'[x])
      BY <2>1
    <3>2. task'[x].pc = task[x].pc
      BY <2>1, <3>1 DEF Ended
    <3>3. /\ task[x].pc = "upload" => task[x].got = "whole"
          /\ task[x].pc = "script" =>
                /\ Home(task[x]) \in Machines
                /\ task[x].art = "server" => Built(disk[Home(task[x])], task[x].cmd)
      BY <1>1, <3>1 DEF Installs
    <3>4. /\ Home(task'[x]) = Home(task[x]) /\ task'[x].art = task[x].art
          /\ task'[x].cmd = task[x].cmd /\ task'[x].got = task[x].got
      BY <3>1 DEF Ended, Home
    <3> QED BY <3>2, <3>3, <3>4
  <2>2. CASE task'[x].pc \notin {"upload", "script"}
    BY <2>2
  <2> QED BY <2>1, <2>2
<1>5. InstalledServerIsWhole'
  BY <1>1 DEF InstalledServerIsWhole
<1> QED BY <1>3, <1>4, <1>5 DEF InstallInv

LEMMA StepKeepsInstallInv ==
    ASSUME ~AllowOverlap, RunInv, InstallInv, [Next]_vars
    PROVE  InstallInv'
<1>1. RunInv' /\ TypeOK' /\ TypeOK
  BY StepKeepsRunInv DEF RunInv
<1>2. CASE \E s \in Sids : TaskStep(s)
  BY <1>2, TaskStepKeepsInstallInv
<1>3. \A x \in Sids : task[x] # None => Ended(task[x], task[x])
  BY <1>1, TaskIsTyped DEF Ended
<1>4. ASSUME task' = task, disk' = disk PROVE InstallInv'
  BY <1>1, <1>3, <1>4, RestKeepsInstallInv
<1>5. CASE \E h \in Hosts : ensure_remote_host(h)
  <2>1. PICK h \in Hosts : ensure_remote_host(h)
    BY <1>5
  <2>2. PICK s \in Sids :
          task' = [task EXCEPT ![s] =
              [host |-> h, prof |-> profiles[h], pc |-> "begin", art |-> "polytoken", cmd |-> 1,
               got |-> "none", orphan |-> FALSE, target |-> None, pending |-> {}]]
    BY <2>1 DEF ensure_remote_host
  <2>3. /\ task'[s].pc = "begin" /\ \A y \in Sids : y # s => task'[y] = task[y]
        /\ disk' = disk /\ \A y \in Sids : ~Live(y)
    BY <1>1, <2>1, <2>2 DEF ensure_remote_host, machine, TypeOK
  <2>4. ASSUME NEW x \in Sids, task'[x] # None, task'[x].pc # "done"
        PROVE  task'[x].pc = "begin" /\ \A y \in Sids : y # x => ~Live(y) /\ task'[y] = task[y]
    BY <2>3, <2>4 DEF Live
  <2> QED BY <1>1, <2>3, <2>4, RestKeepsInstallInv
<1>6. CASE teardown
  <2>1. disk' = disk
    BY <1>6 DEF teardown, machine
  <2>2. ASSUME NEW x \in Sids, task'[x] # None
        PROVE  task[x] # None /\ Ended(task[x], task'[x])
    BY <1>1, <1>6, <2>2, TeardownEnds
  <2> QED BY <1>1, <2>1, <2>2, RestKeepsInstallInv
<1>7. ASSUME ~ \E s \in Sids : TaskStep(s), ~ \E h \in Hosts : ensure_remote_host(h), ~teardown
      PROVE  task' = task /\ disk' = disk
  <2>1. CASE Commands
    BY <1>7, <2>1 DEF Commands, add_remote_profile, update_remote_profile, delete_remote_profile,
         disconnect_host, acknowledge_risk, machine
  <2>2. CASE \E s \in Sids : accept(s)
    BY <2>2 DEF accept, still, machine
  <2>3. CASE \E r \in Rids : RelayStep(r) \/ RelayEnv(r)
    BY <2>3 DEF RelayStep, RelayEnv, spawn_proxy, spawn_fails, relay_cancelled, backoff_over,
         stream_ends, ssh_exit, still, machine
  <2>4. CASE UNCHANGED vars \/ \E c \in Containers \cup {None} : replace_container(c)
    BY <2>4 DEF replace_container, vars
  <2> QED BY <1>7, <2>1, <2>2, <2>3, <2>4 DEF Next
<1> QED BY <1>2, <1>4, <1>5, <1>6, <1>7

\* Where a host is connected again only after its attempts have ended, an executable server where
\* check_server_installed looks is the published one, whole (verify_checksum; the `set -e` script of
\* build_install_command; check_server_installed).
THEOREM InstallsCorrect ==
    ASSUME ~AllowOverlap
    PROVE  Spec => []InstalledServerIsWhole
<1>1. Init => InstallInv
  <2> SUFFICES ASSUME Init PROVE InstallInv
    OBVIOUS
  <2>1. TypeOK
    BY InitHasRunInv DEF RunInv
  <2>2. Alone /\ Installs
    BY DEF Init, Alone, Live, Installs
  <2>3. InstalledServerIsWhole
    BY DEF Init, InstalledServerIsWhole, check_server_installed, EmptyDisk, Artifacts
  <2> QED BY <2>1, <2>2, <2>3 DEF InstallInv
<1>2. RunInv /\ InstallInv /\ [Next]_vars => InstallInv'
  BY StepKeepsInstallInv
<1>3. InstallInv => InstalledServerIsWhole
  BY DEF InstallInv
<1> QED BY <1>1, <1>2, <1>3, AlwaysRunInv, PTL DEF Spec

-----------------------------------------------------------------------------
(* Keeping some entries of a sequence *)

\* Induction over the naturals, on a set: a nonempty set of counterexamples has a smallest one.
LEMMA SetInduction ==
    ASSUME NEW T, 0 \in T, \A n \in Nat : n \in T => n + 1 \in T
    PROVE  \A n \in Nat : n \in T
<1> SUFFICES ASSUME NEW n \in Nat, n \notin T PROVE FALSE
  OBVIOUS
<1> DEFINE B == {0..k : k \in Nat \ T}
<1>1. B \subseteq FiniteSubsetsOf(Nat)
  <2>1. \A k \in Nat : 0..k \in SUBSET Nat /\ IsFiniteSet(0..k)
    BY FS_Interval
  <2>2. QED  BY <2>1 DEF FiniteSubsetsOf
<1>2. B # {}  OBVIOUS
<1>3. \E x \in B : \A y \in B : ~(<<y, x>> \in StrictSubsetOrdering(Nat))
  <2> HIDE DEF B
  <2>1. IsWellFoundedOn(StrictSubsetOrdering(Nat), FiniteSubsetsOf(Nat))
    BY FS_StrictSubsetOrderingWellFounded
  <2>2. QED  BY <1>1, <1>2, <2>1, WFMin
<1>4. PICK k \in Nat \ T : \A y \in B : ~(<<y, 0..k>> \in StrictSubsetOrdering(Nat))
  BY <1>3
<1>5. k # 0  BY <1>4
<1>6. k - 1 \in Nat \ T
  <2>1. k - 1 \in Nat /\ (k - 1) + 1 = k
    BY <1>4, <1>5
  <2>2. QED BY <1>4, <2>1
<1>7. 0..(k-1) \in B  BY <1>6
<1>8. 0..(k-1) \subseteq Nat /\ 0..k \subseteq Nat /\ 0..(k-1) \subseteq 0..k /\ 0..(k-1) # 0..k
  <2>1. k \in 0..k /\ k \notin 0..(k-1)  BY <1>4
  <2>2. QED  BY <2>1, <1>4
<1>9. <<0..(k-1), 0..k>> \in StrictSubsetOrdering(Nat)
  BY <1>8 DEF StrictSubsetOrdering
<1> QED BY <1>4, <1>7, <1>9

\* g has kept, of the first n entries, those at the places in keep.
Keeping(g, s, keep, L) ==
    g = [n \in 0..L |-> IF n = 0 THEN <<>> ELSE IF n \in keep THEN Append(g[n - 1], s[n]) ELSE g[n - 1]]

\* There is such a function, by induction on its domain.
LEMMA KeepingExists ==
    ASSUME NEW s, NEW keep, NEW L \in Nat
    PROVE  \E g : Keeping(g, s, keep, L)
<1> DEFINE T == {k \in Nat : \E g : Keeping(g, s, keep, k)}
<1>1. 0 \in T
  <2> DEFINE g == [n \in 0..0 |-> <<>>]
  <2>1. Keeping(g, s, keep, 0)
    BY DEF Keeping
  <2> QED BY <2>1
<1>2. ASSUME NEW k \in Nat, k \in T PROVE k + 1 \in T
  <2>1. PICK g : Keeping(g, s, keep, k)
    BY <1>2
  <2> DEFINE h == [n \in 0..k + 1 |-> IF n = k + 1 THEN (IF k + 1 \in keep THEN Append(g[k], s[k + 1]) ELSE g[k]) ELSE g[n]]
  <2>2. \A n \in 0..k + 1 : h[n] = IF n = 0 THEN <<>> ELSE IF n \in keep THEN Append(h[n - 1], s[n]) ELSE h[n - 1]
    <3> TAKE n \in 0..k + 1
    <3>1. CASE n = k + 1
      <4>1. h[n] = (IF k + 1 \in keep THEN Append(g[k], s[k + 1]) ELSE g[k]) /\ n - 1 = k /\ n # 0
        BY <3>1
      <4>2. h[k] = g[k]
        OBVIOUS
      <4> HIDE DEF h
      <4> QED BY <3>1, <4>1, <4>2
    <3>2. CASE n # k + 1
      <4>1. n \in 0..k /\ h[n] = g[n]
        BY <3>2
      <4>2. CASE n = 0
        BY <4>1, <4>2, <2>1 DEF Keeping
      <4>3. CASE n # 0
        <5>1. n - 1 \in 0..k /\ n - 1 \in 0..k + 1 /\ n - 1 # k + 1
          BY <4>1, <4>3
        <5>2. h[n - 1] = g[n - 1]
          BY <5>1
        <5> HIDE DEF h
        <5> QED BY <4>1, <4>3, <5>2, <2>1 DEF Keeping
      <4> QED BY <4>2, <4>3
    <3> QED BY <3>1, <3>2
  <2>3. Keeping(h, s, keep, k + 1)
    <3> HIDE DEF T
    <3> QED BY <2>2 DEF Keeping
  <2> QED BY <2>3
<1>3. L \in T
  <2> HIDE DEF T
  <2> QED BY <1>1, <1>2, SetInduction
<1> QED BY <1>3

\* It keeps no more after n entries than the first n call for.
LEMMA KeepingAgrees ==
    ASSUME NEW s, NEW t, NEW ks, NEW kt, NEW j \in Nat, NEW k \in Nat, j <= k, NEW g, NEW h,
           Keeping(g, s, ks, j), Keeping(h, t, kt, k),
           \A n \in 1..j : s[n] = t[n] /\ (n \in ks <=> n \in kt)
    PROVE  \A n \in 0..j : g[n] = h[n]
<1> DEFINE T == {n \in Nat : n <= j => g[n] = h[n]}
<1>1. 0 \in T
  BY DEF Keeping
<1>2. ASSUME NEW n \in Nat, n \in T PROVE n + 1 \in T
  <2> SUFFICES ASSUME n + 1 <= j PROVE g[n + 1] = h[n + 1]
    OBVIOUS
  <2>1. g[n] = h[n] /\ n + 1 \in 0..j /\ n + 1 \in 0..k /\ (n + 1) - 1 = n /\ n + 1 # 0
        /\ s[n + 1] = t[n + 1] /\ (n + 1 \in ks <=> n + 1 \in kt)
    BY <1>2
  <2>2. g[n + 1] = IF n + 1 \in ks THEN Append(g[n], s[n + 1]) ELSE g[n]
    BY <2>1 DEF Keeping
  <2>3. h[n + 1] = IF n + 1 \in kt THEN Append(h[n], t[n + 1]) ELSE h[n]
    BY <2>1 DEF Keeping
  <2> QED BY <2>1, <2>2, <2>3
<1>3. \A n \in Nat : n \in T
  <2> HIDE DEF T
  <2> QED BY <1>1, <1>2, SetInduction
<1> QED BY <1>3

\* The places of the messages the receiver knows,
KnownAt(s) == {i \in 1..Len(s) : Known(s[i])}

\* and what is kept of the first i messages.
KnownTo(s, i) == known(SubSeq(s, 1, i))

\* known keeps them.
LEMMA KnownKeeps ==
    ASSUME NEW s, Len(s) \in Nat
    PROVE  \E g : Keeping(g, s, KnownAt(s), Len(s)) /\ known(s) = g[Len(s)]
<1>1. PICK L \in Nat : L = Len(s)
  OBVIOUS
<1> DEFINE Out(g) == g = [i \in 0..L |-> IF i = 0 THEN <<>> ELSE IF Known(s[i]) THEN Append(g[i - 1], s[i]) ELSE g[i - 1]]
<1>2. ASSUME NEW g PROVE Keeping(g, s, KnownAt(s), L) <=> Out(g)
  <2>1. \A i \in 0..L : i # 0 => (i \in KnownAt(s) <=> Known(s[i]))
    BY <1>1 DEF KnownAt
  <2>2. [n \in 0..L |-> IF n = 0 THEN <<>> ELSE IF n \in KnownAt(s) THEN Append(g[n - 1], s[n]) ELSE g[n - 1]]
        = [i \in 0..L |-> IF i = 0 THEN <<>> ELSE IF Known(s[i]) THEN Append(g[i - 1], s[i]) ELSE g[i - 1]]
    BY <2>1
  <2> QED BY <2>2 DEF Keeping
<1> DEFINE out == CHOOSE g : Out(g)
<1>3. \E g : Out(g)
  BY <1>1, <1>2, KeepingExists
<1>4. Out(out)
  <2> HIDE DEF Out
  <2> QED BY <1>3
<1>5. known(s) = out[L]
  BY <1>1 DEF known
<1>6. Keeping(out, s, KnownAt(s), L)
  <2> HIDE DEF Out, out
  <2> QED BY <1>2, <1>4
<1> HIDE DEF Out, out
<1> QED BY <1>1, <1>5, <1>6

\* One message more is kept when it is known.
LEMMA KnownStep ==
    ASSUME NEW S, NEW s \in Seq(S), NEW i \in 1..Len(s)
    PROVE  KnownTo(s, i) = IF Known(s[i]) THEN Append(KnownTo(s, i - 1), s[i]) ELSE KnownTo(s, i - 1)
<1> DEFINE t == SubSeq(s, 1, i)
           u == SubSeq(s, 1, i - 1)
<1>1. Len(t) = i /\ Len(u) = i - 1 /\ i \in Nat /\ i - 1 \in Nat /\ Len(s) \in Nat
  BY SubSeqProperties
<1>2. \A n \in 1..i : t[n] = s[n]
  BY SubSeqProperties
<1>3. \A n \in 1..i - 1 : u[n] = s[n]
  BY SubSeqProperties
<1> HIDE DEF t, u
<1>4. PICK g : Keeping(g, t, KnownAt(t), i) /\ known(t) = g[i]
  BY <1>1, KnownKeeps
<1>5. PICK h : Keeping(h, u, KnownAt(u), i - 1) /\ known(u) = h[i - 1]
  BY <1>1, KnownKeeps
<1>6. \A n \in 1..i - 1 : u[n] = t[n] /\ (n \in KnownAt(u) <=> n \in KnownAt(t))
  BY <1>1, <1>2, <1>3 DEF KnownAt
<1>7. h[i - 1] = g[i - 1]
  <2>1. PICK j \in Nat : j = i - 1 /\ j <= i /\ i \in Nat
    BY <1>1
  <2>2. Keeping(h, u, KnownAt(u), j) /\ \A n \in 1..j : u[n] = t[n] /\ (n \in KnownAt(u) <=> n \in KnownAt(t))
    BY <1>5, <1>6, <2>1
  <2>3. \A n \in 0..j : h[n] = g[n]
    BY <1>4, <2>1, <2>2, KeepingAgrees
  <2> QED BY <2>1, <2>3
<1>8. g[i] = IF Known(s[i]) THEN Append(g[i - 1], s[i]) ELSE g[i - 1]
  <2>1. i \in 0..i /\ i # 0 /\ t[i] = s[i] /\ (i \in KnownAt(t) <=> Known(s[i]))
    BY <1>1, <1>2 DEF KnownAt
  <2> QED BY <1>4, <2>1 DEF Keeping
<1> QED BY <1>4, <1>5, <1>7, <1>8 DEF KnownTo, t, u

\* Of no messages nothing is kept,
LEMMA KnownNone ==
    ASSUME NEW s
    PROVE  KnownTo(s, 0) = <<>>
<1>1. SubSeq(s, 1, 0) = <<>> /\ Len(<<>>) = 0
  BY SubSeqEmpty
<1>2. PICK g : Keeping(g, <<>>, KnownAt(<<>>), 0) /\ known(<<>>) = g[0]
  BY <1>1, KnownKeeps
<1>3. g[0] = <<>>
  BY <1>2 DEF Keeping
<1> QED BY <1>1, <1>2, <1>3 DEF KnownTo

\* All of them are kept in the end,
LEMMA KnownAll ==
    ASSUME NEW S, NEW s \in Seq(S)
    PROVE  KnownTo(s, Len(s)) = known(s)
BY SubSeqFull DEF KnownTo

\* what is said later changes nothing of what was,
LEMMA KnownAppend ==
    ASSUME NEW S, NEW s \in Seq(S), NEW m \in S, NEW i \in 0..Len(s)
    PROVE  KnownTo(Append(s, m), i) = KnownTo(s, i)
<1>1. Len(s) \in Nat /\ i \in Int /\ 1 \in Int
  OBVIOUS
<1>2. /\ SubSeq(s, 1, i) \in Seq(S) /\ Len(SubSeq(s, 1, i)) = i
      /\ \A n \in 1..i : SubSeq(s, 1, i)[n] = s[n]
  BY SubSeqProperties
<1>3. /\ Append(s, m) \in Seq(S) /\ Len(Append(s, m)) = Len(s) + 1 /\ \A n \in 1..Len(s) : Append(s, m)[n] = s[n]
  BY AppendProperties
<1>4. /\ SubSeq(Append(s, m), 1, i) \in Seq(S) /\ Len(SubSeq(Append(s, m), 1, i)) = i
      /\ \A n \in 1..i : SubSeq(Append(s, m), 1, i)[n] = s[n]
  <2> DEFINE t == Append(s, m)
  <2>1. \A n \in 1..i : t[n] \in S /\ t[n] = s[n]
    BY <1>3
  <2> HIDE DEF t
  <2>2. SubSeq(t, 1, i) \in Seq(S) /\ Len(SubSeq(t, 1, i)) = i /\ \A n \in 1..i : SubSeq(t, 1, i)[n] = t[n]
    BY <2>1, <1>1, SubSeqProperties
  <2> QED BY <2>1, <2>2 DEF t
<1>5. SubSeq(Append(s, m), 1, i) = SubSeq(s, 1, i)
  BY <1>1, <1>2, <1>4, SeqEqual
<1> QED BY <1>5 DEF KnownTo

\* what is kept is a sequence of them,
LEMMA KnownType ==
    ASSUME NEW S, NEW s \in Seq(S)
    PROVE  \A i \in 0..Len(s) : KnownTo(s, i) \in Seq(S)
<1>1. Len(s) \in Nat
  OBVIOUS
<1> DEFINE T == {n \in Nat : n <= Len(s) => KnownTo(s, n) \in Seq(S)}
<1>2. 0 \in T
  <2>1. <<>> \in Seq(S) /\ KnownTo(s, 0) = <<>>
    BY KnownNone, EmptySeq
  <2> QED BY <2>1
<1>3. ASSUME NEW n \in Nat, n \in T PROVE n + 1 \in T
  <2> SUFFICES ASSUME n + 1 <= Len(s) PROVE KnownTo(s, n + 1) \in Seq(S)
    OBVIOUS
  <2>1. n + 1 \in 1..Len(s) /\ (n + 1) - 1 = n /\ s[n + 1] \in S /\ KnownTo(s, n) \in Seq(S)
    BY <1>1, <1>3
  <2>2. KnownTo(s, n + 1) = IF Known(s[n + 1]) THEN Append(KnownTo(s, n), s[n + 1]) ELSE KnownTo(s, n)
    BY <2>1, KnownStep
  <2>3. Append(KnownTo(s, n), s[n + 1]) \in Seq(S)
    BY <2>1, AppendProperties
  <2> QED BY <2>1, <2>2, <2>3
<1>4. \A n \in Nat : n \in T
  <2> HIDE DEF T
  <2> QED BY <1>2, <1>3, SetInduction
<1> QED BY <1>4

\* s begins with r.
Begins(r, s) == Len(r) <= Len(s) /\ \A x \in 1..Len(r) : r[x] = s[x]

\* and what is kept of less is the beginning of what is kept of more.
LEMMA KnownBegins ==
    ASSUME NEW S, NEW s \in Seq(S), NEW i \in 0..Len(s)
    PROVE  \A j \in i..Len(s) : Begins(KnownTo(s, i), KnownTo(s, j))
<1>1. Len(s) \in Nat /\ i \in Nat /\ KnownTo(s, i) \in Seq(S)
  BY KnownType
<1> DEFINE T == {n \in Nat : i + n <= Len(s) => Begins(KnownTo(s, i), KnownTo(s, i + n))}
<1>2. 0 \in T
  BY <1>1 DEF Begins
<1>3. ASSUME NEW n \in Nat, n \in T PROVE n + 1 \in T
  <2> SUFFICES ASSUME i + (n + 1) <= Len(s) PROVE Begins(KnownTo(s, i), KnownTo(s, i + (n + 1)))
    OBVIOUS
  <2>1. PICK j \in Nat : j = i + n
    BY <1>1
  <2>2. j + 1 \in 1..Len(s) /\ j \in 0..Len(s) /\ (j + 1) - 1 = j /\ s[j + 1] \in S /\ i + (n + 1) = j + 1
    BY <1>1, <2>1
  <2>3. Begins(KnownTo(s, i), KnownTo(s, j)) /\ KnownTo(s, j) \in Seq(S)
    BY <1>1, <1>3, <2>1, <2>2, KnownType
  <2>4. KnownTo(s, j + 1) = IF Known(s[j + 1]) THEN Append(KnownTo(s, j), s[j + 1]) ELSE KnownTo(s, j)
    BY <2>2, KnownStep
  <2>5. Begins(KnownTo(s, j), Append(KnownTo(s, j), s[j + 1]))
    BY <2>2, <2>3, AppendProperties DEF Begins
  <2>6. Len(KnownTo(s, i)) \in Nat /\ Len(KnownTo(s, j)) \in Nat /\ Len(Append(KnownTo(s, j), s[j + 1])) \in Nat
    BY <1>1, <2>2, <2>3, AppendProperties
  <2>7. Begins(KnownTo(s, i), Append(KnownTo(s, j), s[j + 1]))
    BY <2>3, <2>5, <2>6 DEF Begins
  <2> QED BY <2>2, <2>3, <2>4, <2>7
<1>4. \A n \in Nat : n \in T
  <2> HIDE DEF T
  <2> QED BY <1>2, <1>3, SetInduction
<1>5. ASSUME NEW j \in i..Len(s) PROVE Begins(KnownTo(s, i), KnownTo(s, j))
  <2>1. j - i \in Nat /\ i + (j - i) = j /\ j <= Len(s)
    BY <1>1
  <2> QED BY <1>4, <2>1
<1> QED BY <1>5

\* A sequence is what it begins with and the rest.
LEMMA BeginsAndRest ==
    ASSUME NEW S, NEW r \in Seq(S), NEW s \in Seq(S), NEW t \in Seq(S), Begins(r, s), Begins(s, t)
    PROVE  s = r \o SubSeq(t, Len(r) + 1, Len(s))
<1>1. Len(r) \in Nat /\ Len(s) \in Nat /\ Len(t) \in Nat /\ Len(r) <= Len(s) /\ Len(s) <= Len(t)
  BY DEF Begins
<1> DEFINE u == SubSeq(t, Len(r) + 1, Len(s))
<1>2. \A i \in Len(r) + 1..Len(s) : t[i] \in S
  BY <1>1
<1>3. u \in Seq(S) /\ Len(u) = Len(s) - Len(r) /\ \A i \in 1..Len(s) - Len(r) : u[i] = t[Len(r) + i]
  BY <1>1, <1>2, SubSeqProperties
<1> HIDE DEF u
<1>4. /\ r \o u \in Seq(S) /\ Len(r \o u) = Len(s)
      /\ \A i \in 1..Len(s) : (r \o u)[i] = IF i <= Len(r) THEN r[i] ELSE u[i - Len(r)]
  BY <1>1, <1>3, ConcatProperties
<1>5. \A i \in 1..Len(s) : (r \o u)[i] = s[i]
  <2> TAKE i \in 1..Len(s)
  <2>1. CASE i <= Len(r)
    BY <1>1, <1>4, <2>1 DEF Begins
  <2>2. CASE i > Len(r)
    <3>1. PICK k \in 1..Len(s) - Len(r) : k = i - Len(r) /\ Len(r) + k = i
      BY <1>1, <2>2
    <3>2. u[k] = t[i]
      BY <1>3, <3>1
    <3>3. (r \o u)[i] = u[k]
      BY <1>1, <1>4, <2>2, <3>1
    <3>4. s[i] = t[i]
      BY DEF Begins
    <3> QED BY <3>2, <3>3, <3>4
  <2>3. i <= Len(r) \/ i > Len(r)
    BY <1>1
  <2> QED BY <2>1, <2>2, <2>3
<1>6. r \o u = s
  BY <1>4, <1>5, SeqEqual
<1> QED BY <1>6 DEF u

-----------------------------------------------------------------------------
(* The decoder *)

\* A byte of some message, and what the decoder returns for a frame.
Bytes == [of : Messages, at : Nat \ {0}]
\* what push returns,
Results == [ok : BOOLEAN, body : Seq(Bytes)]

\* One round of the loop of push, with the rounds that follow it in g.
Round(g, b, i) ==
    IF Len(b) - i < PrefixBytes THEN [frames |-> <<>>, keep |-> i]
    ELSE IF declared(b, i + 1) > MAX_FRAME_BYTES THEN [frames |-> <<Oversized>>, keep |-> Len(b)]
    ELSE IF Len(b) - i < PrefixBytes + declared(b, i + 1) THEN [frames |-> <<>>, keep |-> i]
    ELSE [frames |-> <<Frame(SubSeq(b, i + PrefixBytes + 1, i + PrefixBytes + declared(b, i + 1)))>>
                     \o g[i + PrefixBytes + declared(b, i + 1)].frames,
          keep |-> g[i + PrefixBytes + declared(b, i + 1)].keep]

\* A length is a number, whatever is read as one.
LEMMA DeclaredType ==
    ASSUME NEW b \in Seq(Bytes), NEW i \in 1..Len(b)
    PROVE  declared(b, i) \in Nat
<1>1. b[i] \in Bytes
  OBVIOUS
<1>2. b[i].of.size \in Nat /\ b[i].of.size \in Sizes /\ b[i].at \in Nat \ {0}
  BY <1>1, FrameAssumption DEF Bytes, Messages
<1>3. CASE b[i].at = 1
  BY <1>2, <1>3 DEF declared
<1>4. CASE b[i].at > PrefixBytes /\ b[i].at # 1
  BY <1>4, FrameAssumption DEF declared
<1>5. CASE b[i].at <= PrefixBytes /\ b[i].at # 1
  <2>1. b[i].at \in 2..PrefixBytes
    BY <1>2, <1>5, FrameAssumption
  <2>2. <<b[i].of.size, b[i].at>> \in Sizes \X (2..PrefixBytes)
    BY <1>2, <2>1
  <2>3. Misread[<<b[i].of.size, b[i].at>>] \in Nat
    BY <2>2, FrameAssumption
  <2>4. ~(b[i].at > PrefixBytes)
    BY <1>2, <1>5, FrameAssumption
  <2> QED BY <1>5, <2>3, <2>4 DEF declared
<1> QED BY <1>2, <1>3, <1>4, <1>5, FrameAssumption

\* A round that returns a frame goes on behind it.
LEMMA RoundGoesOn ==
    ASSUME NEW b \in Seq(Bytes), NEW i \in 0..Len(b), Len(b) - i >= PrefixBytes,
           Len(b) - i >= PrefixBytes + declared(b, i + 1)
    PROVE  /\ i + 1 \in 1..Len(b) /\ declared(b, i + 1) \in Nat
           /\ i + PrefixBytes + declared(b, i + 1) \in i + 1..Len(b)
<1>1. Len(b) \in Nat /\ PrefixBytes \in Nat /\ PrefixBytes >= 1
  BY FrameAssumption
<1>2. PICK k \in 1..Len(b) : k = i + 1
  BY <1>1
<1>3. declared(b, k) \in Nat
  BY DeclaredType
<1> QED BY <1>1, <1>2, <1>3

\* A round asks the later ones only.
LEMMA RoundsAgree ==
    ASSUME NEW b \in Seq(Bytes), NEW i \in 0..Len(b), NEW g, NEW h, \A j \in i + 1..Len(b) : g[j] = h[j]
    PROVE  Round(g, b, i) = Round(h, b, i)
<1>1. CASE Len(b) - i >= PrefixBytes /\ Len(b) - i >= PrefixBytes + declared(b, i + 1)
  <2>1. PICK j \in i + 1..Len(b) : j = i + PrefixBytes + declared(b, i + 1)
    BY <1>1, RoundGoesOn
  <2>2. g[j] = h[j]
    BY <2>1
  <2> QED BY <2>1, <2>2 DEF Round
<1>2. CASE Len(b) - i < PrefixBytes
  BY <1>2 DEF Round
<1>3. CASE Len(b) - i >= PrefixBytes /\ Len(b) - i < PrefixBytes + declared(b, i + 1)
  BY <1>3 DEF Round
<1>4. PICK k \in Int : k = Len(b) - i
  <2>1. Len(b) \in Nat /\ i \in Nat
    OBVIOUS
  <2> QED BY <2>1
<1>5. k < PrefixBytes \/ k >= PrefixBytes
  BY <1>4, FrameAssumption
<1>6. CASE k >= PrefixBytes
  <2>1. i + 1 \in 1..Len(b)
    BY <1>4, <1>6, FrameAssumption
  <2>2. PICK d \in Nat : d = declared(b, i + 1)
    BY <2>1, DeclaredType
  <2>3. k < PrefixBytes + d \/ k >= PrefixBytes + d
    BY <1>4, <2>2, FrameAssumption
  <2> QED BY <1>1, <1>3, <1>4, <1>6, <2>2, <2>3
<1> QED BY <1>2, <1>4, <1>5, <1>6

\* The rounds, each with those that follow it.
Rounds(g, b) == g = [i \in 0..Len(b) |-> Round(g, b, i)]

\* The rounds exist, from the last byte backwards,
LEMMA RoundsExist ==
    ASSUME NEW b \in Seq(Bytes)
    PROVE  \E g : Rounds(g, b)
<1>1. PICK L \in Nat : L = Len(b)
  OBVIOUS
<1> DEFINE From(g, k) == \A i \in 0..L : L - i < k => g[i] = Round(g, b, i)
           T == {k \in Nat : k <= L + 1 => \E g : DOMAIN g = 0..L /\ g = [i \in 0..L |-> g[i]] /\ From(g, k)}
<1>2. 0 \in T
  <2> DEFINE g == [i \in 0..L |-> 0]
  <2>1. DOMAIN g = 0..L /\ g = [i \in 0..L |-> g[i]] /\ From(g, 0)
    OBVIOUS
  <2> QED BY <2>1
<1>3. ASSUME NEW k \in Nat, k \in T PROVE k + 1 \in T
  <2> SUFFICES ASSUME k + 1 <= L + 1 PROVE \E g : DOMAIN g = 0..L /\ g = [i \in 0..L |-> g[i]] /\ From(g, k + 1)
    OBVIOUS
  <2>1. PICK g : DOMAIN g = 0..L /\ g = [i \in 0..L |-> g[i]] /\ From(g, k)
    BY <1>3
  <2>2. PICK p \in 0..L : p = L - k
    OBVIOUS
  <2> DEFINE h == [i \in 0..L |-> IF i = p THEN Round(g, b, p) ELSE g[i]]
  <2>3. DOMAIN h = 0..L /\ h = [i \in 0..L |-> h[i]]
    OBVIOUS
  <2>4. \A i \in 0..L : i # p => h[i] = g[i]
    OBVIOUS
  <2>5. h[p] = Round(g, b, p)
    OBVIOUS
  <2> HIDE DEF h
  <2>6. ASSUME NEW i \in 0..L, L - i < k + 1 PROVE h[i] = Round(h, b, i)
    <3>1. i >= p
      BY <2>2, <2>6
    <3>2. \A j \in i + 1..Len(b) : h[j] = g[j]
      BY <1>1, <2>2, <2>4, <3>1
    <3>3. Round(h, b, i) = Round(g, b, i)
      BY <1>1, <3>2, RoundsAgree
    <3>4. CASE i = p
      BY <2>5, <3>3, <3>4
    <3>5. CASE i # p
      <4>1. L - i < k
        BY <2>2, <3>1, <3>5
      <4>2. g[i] = Round(g, b, i)
        BY <2>1, <4>1
      <4> QED BY <2>4, <3>3, <3>5, <4>2
    <3> QED BY <3>4, <3>5
  <2>7. From(h, k + 1)
    BY <2>6
  <2> QED BY <2>3, <2>7
<1>4. L + 1 \in T
  <2> HIDE DEF T
  <2> QED BY <1>2, <1>3, SetInduction
<1>5. PICK g : DOMAIN g = 0..L /\ g = [i \in 0..L |-> g[i]] /\ From(g, L + 1)
  BY <1>4
<1>6. \A i \in 0..L : g[i] = Round(g, b, i)
  BY <1>5
<1>7. g = [i \in 0..L |-> Round(g, b, i)]
  BY <1>5, <1>6
<1> QED BY <1>1, <1>7 DEF Rounds

\* and push is the first of them.
LEMMA PushIsFirst ==
    ASSUME NEW b \in Seq(Bytes)
    PROVE  \E g : (\A i \in 0..Len(b) : g[i] = Round(g, b, i)) /\ push(b) = g[0]
<1> DEFINE f == CHOOSE g : Rounds(g, b)
<1>1. Rounds(f, b)
  BY RoundsExist
<1>2. push(b) = f[0]
  BY DEF push, Rounds, Round
<1> HIDE DEF f
<1>3. \A i \in 0..Len(b) : f[i] = Round(f, b, i)
  BY <1>1 DEF Rounds
<1> QED BY <1>2, <1>3

-----------------------------------------------------------------------------
(* Whatever is decoded, it was there, and it ends with the bytes that came *)

\* A nonempty body is a stretch of the bytes behind place i.
Whole(fr, b, i) ==
    fr.body # <<>> => \E u, v \in 1..Len(b) : i < u /\ u <= v /\ fr.body = SubSeq(b, u, v)

\* What begins behind place k is no whole frame yet.
Waits(b, k) ==
    Len(b) - k < PrefixBytes
    \/ (declared(b, k + 1) <= MAX_FRAME_BYTES /\ Len(b) - k < PrefixBytes + declared(b, k + 1))

\* What a round returns when it starts behind place i.
RoundOK(r, b, i) ==
    /\ r.frames \in Seq(Results) /\ r.keep \in i..Len(b) /\ Waits(b, r.keep)
    /\ \A x \in 1..Len(r.frames) : Whole(r.frames[x], b, i)

\* The body of the frame that begins behind place i.
LEMMA BodyFacts ==
    ASSUME NEW b \in Seq(Bytes), NEW i \in 0..Len(b), Len(b) - i >= PrefixBytes,
           Len(b) - i >= PrefixBytes + declared(b, i + 1),
           NEW body, body = SubSeq(b, i + PrefixBytes + 1, i + PrefixBytes + declared(b, i + 1))
    PROVE  /\ body \in Seq(Bytes) /\ Frame(body) \in Results /\ Frame(body).body = body
           /\ Len(body) = declared(b, i + 1)
           /\ body # <<>> => i + PrefixBytes + 1 <= i + PrefixBytes + declared(b, i + 1)
<1>1. Len(b) \in Nat /\ i \in Nat /\ PrefixBytes \in Nat
  BY FrameAssumption
<1>2. PICK d \in Nat : d = declared(b, i + 1)
  BY RoundGoesOn
<1>3. PICK p \in Nat : p = i + PrefixBytes
  BY <1>1
<1>4. p + d <= Len(b)
  BY <1>1, <1>2, <1>3
<1>5. \A n \in p + 1..p + d : b[n] \in Bytes
  <2> TAKE n \in p + 1..p + d
  <2>1. n \in 1..Len(b)
    BY <1>1, <1>4
  <2> QED BY <2>1
<1>6. SubSeq(b, p + 1, p + d) \in Seq(Bytes) /\ Len(SubSeq(b, p + 1, p + d)) = d
  <2>1. p + 1 \in Int /\ p + d \in Int
    OBVIOUS
  <2>2. /\ SubSeq(b, p + 1, p + d) \in Seq(Bytes)
        /\ Len(SubSeq(b, p + 1, p + d)) = IF p + 1 <= p + d THEN (p + d) - (p + 1) + 1 ELSE 0
    BY <1>5, <2>1, SubSeqProperties
  <2> QED BY <2>2
<1>7. body = SubSeq(b, p + 1, p + d)
  BY <1>2, <1>3
<1>8. body \in Seq(Bytes) /\ Len(body) = d
  BY <1>6, <1>7
<1>9. Frame(body) \in Results /\ Frame(body).body = body
  BY <1>8 DEF Frame, Results
<1>10. body # <<>> => p + 1 <= p + d
  BY <1>8, EmptySeq
<1> QED BY <1>2, <1>3, <1>8, <1>9, <1>10

\* A round that stops, and one that goes on, return what they should.
LEMMA RoundKeeps ==
    ASSUME NEW b \in Seq(Bytes), NEW i \in 0..Len(b), NEW g, g[i] = Round(g, b, i),
           \A j \in i + 1..Len(b) : RoundOK(g[j], b, j)
    PROVE  RoundOK(g[i], b, i)
<1>1. Len(b) \in Nat /\ i \in Nat /\ PrefixBytes \in Nat \ {0} /\ MAX_FRAME_BYTES \in Nat
  BY FrameAssumption
<1>2. PICK k \in Nat : k = Len(b) - i
  BY <1>1
<1>3. CASE k < PrefixBytes
  <2>1. g[i] = [frames |-> <<>>, keep |-> i] /\ Waits(b, i)
    BY <1>2, <1>3 DEF Round, Waits
  <2>2. g[i].frames = <<>> /\ g[i].keep = i
    BY <2>1
  <2>3. g[i].frames \in Seq(Results) /\ Len(g[i].frames) = 0
    BY <2>2, EmptySeq
  <2> QED BY <1>1, <2>1, <2>2, <2>3 DEF RoundOK
<1>4. CASE k >= PrefixBytes
  <2>1. i + 1 \in 1..Len(b)
    BY <1>1, <1>2, <1>4
  <2>2. PICK d \in Nat : d = declared(b, i + 1)
    BY <2>1, DeclaredType
  <2>3. CASE d > MAX_FRAME_BYTES
    <3>1. g[i] = [frames |-> <<Oversized>>, keep |-> Len(b)]
      BY <1>1, <1>2, <1>4, <2>2, <2>3 DEF Round
    <3>2. Waits(b, Len(b))
      BY <1>1 DEF Waits
    <3>3. Oversized \in Results /\ Oversized.body = <<>>
      BY EmptySeq DEF Oversized, Results
    <3>4. g[i].frames = <<Oversized>> /\ g[i].keep = Len(b)
      BY <3>1
    <3>5. g[i].frames \in Seq(Results) /\ Len(g[i].frames) = 1 /\ g[i].frames[1] = Oversized
      BY <3>3, <3>4
    <3>6. \A x \in 1..Len(g[i].frames) : Whole(g[i].frames[x], b, i)
      BY <3>3, <3>5 DEF Whole
    <3> QED BY <1>1, <3>2, <3>4, <3>5, <3>6 DEF RoundOK
  <2>4. CASE d <= MAX_FRAME_BYTES /\ k < PrefixBytes + d
    <3>1. g[i] = [frames |-> <<>>, keep |-> i] /\ Waits(b, i)
      BY <1>1, <1>2, <1>4, <2>2, <2>4 DEF Round, Waits
    <3>2. g[i].frames = <<>> /\ g[i].keep = i
      BY <3>1
    <3>3. g[i].frames \in Seq(Results) /\ Len(g[i].frames) = 0
      BY <3>2, EmptySeq
    <3> QED BY <1>1, <3>1, <3>2, <3>3 DEF RoundOK
  <2>5. CASE d <= MAX_FRAME_BYTES /\ k >= PrefixBytes + d
    <3>1. PICK j \in i + 1..Len(b) : j = i + PrefixBytes + declared(b, i + 1)
      BY <1>2, <1>4, <2>2, <2>5, RoundGoesOn
    <3>2. PICK body : body = SubSeq(b, i + PrefixBytes + 1, i + PrefixBytes + declared(b, i + 1))
      OBVIOUS
    <3>3. /\ body \in Seq(Bytes) /\ Frame(body) \in Results /\ Frame(body).body = body
          /\ body # <<>> => i + PrefixBytes + 1 <= j
      BY <1>2, <1>4, <2>2, <2>5, <3>1, <3>2, BodyFacts
    <3>4. PICK fr \in Results : fr = Frame(body)
      BY <3>3
    <3>5. PICK rest : rest = g[j].frames
      OBVIOUS
    <3>6. g[i].frames = <<fr>> \o rest /\ g[i].keep = g[j].keep
      <4>2. /\ ~(Len(b) - i < PrefixBytes) /\ ~(declared(b, i + 1) > MAX_FRAME_BYTES)
            /\ ~(Len(b) - i < PrefixBytes + declared(b, i + 1))
        BY <1>1, <1>2, <1>4, <2>2, <2>5
      <4>3. Round(g, b, i) = [frames |-> <<Frame(SubSeq(b, i + PrefixBytes + 1, i + PrefixBytes + declared(b, i + 1)))>>
                                            \o g[i + PrefixBytes + declared(b, i + 1)].frames,
                              keep |-> g[i + PrefixBytes + declared(b, i + 1)].keep]
        BY <4>2 DEF Round
      <4>1. g[i] = [frames |-> <<fr>> \o rest, keep |-> g[j].keep]
        BY <3>1, <3>2, <3>4, <3>5, <4>3
      <4> QED BY <4>1
    <3>7. /\ rest \in Seq(Results) /\ g[j].keep \in j..Len(b) /\ Waits(b, g[j].keep)
          /\ \A x \in 1..Len(rest) : Whole(rest[x], b, j)
      BY <3>1, <3>5 DEF RoundOK
    <3>8. <<fr>> \in Seq(Results) /\ Len(<<fr>>) = 1 /\ <<fr>>[1] = fr
      BY <3>4
    <3>9. /\ <<fr>> \o rest \in Seq(Results) /\ Len(<<fr>> \o rest) = 1 + Len(rest)
          /\ \A x \in 1..1 + Len(rest) : (<<fr>> \o rest)[x] = IF x <= 1 THEN fr ELSE rest[x - 1]
      <4>1. /\ <<fr>> \o rest \in Seq(Results) /\ Len(<<fr>> \o rest) = Len(<<fr>>) + Len(rest)
            /\ \A x \in 1..Len(<<fr>>) + Len(rest) :
                  (<<fr>> \o rest)[x] = IF x <= Len(<<fr>>) THEN <<fr>>[x] ELSE rest[x - Len(<<fr>>)]
        BY <3>7, <3>8, ConcatProperties
      <4>2. ASSUME NEW x \in 1..1 + Len(rest) PROVE (<<fr>> \o rest)[x] = IF x <= 1 THEN fr ELSE rest[x - 1]
        BY <3>8, <4>1
      <4> QED BY <3>8, <4>1, <4>2
    <3>10. Whole(fr, b, i)
      <4> SUFFICES ASSUME fr.body # <<>> PROVE \E u, v \in 1..Len(b) : i < u /\ u <= v /\ fr.body = SubSeq(b, u, v)
        BY DEF Whole
      <4>1. fr.body = SubSeq(b, i + PrefixBytes + 1, j) /\ i + PrefixBytes + 1 <= j
        BY <3>1, <3>2, <3>3, <3>4
      <4>2. PICK u \in 1..Len(b) : u = i + PrefixBytes + 1
        BY <1>1, <3>1, <4>1
      <4> QED BY <1>1, <3>1, <4>1, <4>2
    <3>11. ASSUME NEW x \in 1..Len(rest) PROVE Whole(rest[x], b, i)
      <4> SUFFICES ASSUME rest[x].body # <<>>
                   PROVE  \E u, v \in 1..Len(b) : i < u /\ u <= v /\ rest[x].body = SubSeq(b, u, v)
        BY DEF Whole
      <4>1. PICK u, v \in 1..Len(b) : j < u /\ u <= v /\ rest[x].body = SubSeq(b, u, v)
        BY <3>7 DEF Whole
      <4>2. i < u
        BY <1>1, <3>1, <4>1
      <4> QED BY <4>1, <4>2
    <3>12. \A x \in 1..1 + Len(rest) : Whole((<<fr>> \o rest)[x], b, i)
      <4> TAKE x \in 1..1 + Len(rest)
      <4>1. Len(rest) \in Nat
        BY <3>7
      <4>2. CASE x = 1
        BY <3>9, <3>10, <4>1, <4>2
      <4>3. CASE x # 1
        <5>1. PICK y \in 1..Len(rest) : y = x - 1
          BY <4>1, <4>3
        <5>2. (<<fr>> \o rest)[x] = rest[y]
          BY <3>9, <4>1, <4>3, <5>1
        <5> QED BY <3>11, <5>2
      <4> QED BY <4>2, <4>3
    <3>13. g[j].keep \in i..Len(b)
      BY <1>1, <3>1, <3>7
    <3> QED BY <3>6, <3>7, <3>9, <3>12, <3>13 DEF RoundOK
  <2> QED BY <1>1, <2>2, <2>3, <2>4, <2>5
<1> QED BY <1>1, <1>2, <1>3, <1>4

\* Every round returns what it should.
LEMMA RoundsOK ==
    ASSUME NEW b \in Seq(Bytes), NEW g, \A i \in 0..Len(b) : g[i] = Round(g, b, i)
    PROVE  \A i \in 0..Len(b) : RoundOK(g[i], b, i)
<1>1. PICK L \in Nat : L = Len(b)
  OBVIOUS
<1> DEFINE T == {k \in Nat : \A i \in 0..L : L - i < k => RoundOK(g[i], b, i)}
<1>2. 0 \in T
  OBVIOUS
<1>3. ASSUME NEW k \in Nat, k \in T PROVE k + 1 \in T
  <2> SUFFICES ASSUME NEW i \in 0..L, L - i < k + 1 PROVE RoundOK(g[i], b, i)
    OBVIOUS
  <2>1. \A j \in i + 1..Len(b) : RoundOK(g[j], b, j)
    <3> TAKE j \in i + 1..Len(b)
    <3>1. j \in 0..L /\ L - j < k
      BY <1>1
    <3> QED BY <1>3, <3>1
  <2>2. g[i] = Round(g, b, i)
    BY <1>1
  <2> QED BY <1>1, <2>1, <2>2, RoundKeeps
<1>4. \A k \in Nat : k \in T
  <2> HIDE DEF T
  <2> QED BY <1>2, <1>3, SetInduction
<1>5. ASSUME NEW i \in 0..Len(b) PROVE RoundOK(g[i], b, i)
  <2>1. i \in 0..L /\ L - i < L + 1 /\ L + 1 \in T
    BY <1>1, <1>4
  <2> QED BY <2>1
<1> QED BY <1>5

-----------------------------------------------------------------------------
(* A decoder that starts where a frame does returns the messages *)

\* The frame of a message.
FrameOf(m) == Frame(SubSeq(encode(m), PrefixBytes + 1, FrameLen(m)))

\* A message that has been sent.
Sendable == {m \in Messages : m.size \in 1..MAX_FRAME_BYTES}

\* A frame's bytes are bytes of its message,
LEMMA EncodeFacts ==
    ASSUME NEW m \in Sendable
    PROVE  /\ encode(m) \in Seq(Bytes) /\ Len(encode(m)) = FrameLen(m) /\ FrameLen(m) \in Nat
           /\ m.size \in Nat \ {0} /\ FrameLen(m) = PrefixBytes + m.size
           /\ \A k \in 1..FrameLen(m) : encode(m)[k] = Byte(m, k) /\ Byte(m, k) \in Bytes
<1>1. m \in Messages /\ m.size \in Nat \ {0} /\ FrameLen(m) \in Nat
  BY FrameAssumption DEF Sendable, FrameLen
<1>2. \A k \in 1..FrameLen(m) : Byte(m, k) \in Bytes
  BY <1>1 DEF Byte, Bytes
<1>3. encode(m) = [k \in 1..FrameLen(m) |-> Byte(m, k)]
  BY DEF encode
<1>4. encode(m) \in Seq(Bytes)
  <2>1. encode(m) \in [1..FrameLen(m) -> Bytes]
    BY <1>2, <1>3
  <2> QED BY <1>1, <2>1, SeqDef
<1>5. Len(encode(m)) = FrameLen(m)
  BY <1>1, <1>3
<1> QED BY <1>1, <1>2, <1>3, <1>4, <1>5 DEF FrameLen

\* its body is not empty,
BodyOf(m, body) ==
    /\ body \in Seq(Bytes) /\ Len(body) = m.size /\ body # <<>> /\ body[1].of = m
    /\ \A k \in 1..m.size : body[k] = Byte(m, PrefixBytes + k)

\* The body encode_json writes is the message's,
LEMMA BodyOfFacts ==
    ASSUME NEW m \in Sendable, NEW body, body = SubSeq(encode(m), PrefixBytes + 1, FrameLen(m))
    PROVE  BodyOf(m, body)
<1>1. /\ encode(m) \in Seq(Bytes) /\ m.size \in Nat \ {0} /\ FrameLen(m) = PrefixBytes + m.size
      /\ \A k \in 1..FrameLen(m) : encode(m)[k] = Byte(m, k) /\ Byte(m, k) \in Bytes
  BY EncodeFacts
<1>2. PrefixBytes \in Nat
  BY FrameAssumption
<1>3. PICK e : e = encode(m)
  OBVIOUS
<1>4. PICK p \in Nat : p = PrefixBytes
  BY <1>2
<1>5. PICK n \in Nat \ {0} : n = m.size
  BY <1>1
<1>6. FrameLen(m) = p + n
  BY <1>1, <1>4, <1>5
<1>7. \A k \in p + 1..p + n : e[k] \in Bytes /\ e[k] = Byte(m, k)
  BY <1>1, <1>3, <1>6
<1>8. /\ SubSeq(e, p + 1, p + n) \in Seq(Bytes)
      /\ Len(SubSeq(e, p + 1, p + n)) = n
      /\ \A k \in 1..n : SubSeq(e, p + 1, p + n)[k] = e[p + k]
  <2>1. p + 1 \in Int /\ p + n \in Int
    OBVIOUS
  <2>2. /\ SubSeq(e, p + 1, p + n) \in Seq(Bytes)
        /\ Len(SubSeq(e, p + 1, p + n)) = IF p + 1 <= p + n THEN (p + n) - (p + 1) + 1 ELSE 0
        /\ \A k \in 1..(p + n) - (p + 1) + 1 : SubSeq(e, p + 1, p + n)[k] = e[(p + 1) + k - 1]
    BY <1>7, <2>1, SubSeqProperties
  <2>3. (p + n) - (p + 1) + 1 = n /\ p + 1 <= p + n /\ \A k \in 1..n : (p + 1) + k - 1 = p + k
    OBVIOUS
  <2> QED BY <2>2, <2>3
<1>9. body = SubSeq(e, p + 1, p + n)
  BY <1>3, <1>4, <1>6
<1>10. ASSUME NEW k \in 1..n PROVE body[k] = Byte(m, p + k)
  <2>1. PICK q \in p + 1..p + n : q = p + k
    OBVIOUS
  <2>2. body[k] = e[q] /\ e[q] = Byte(m, q)
    BY <1>7, <1>8, <1>9, <2>1
  <2> QED BY <2>1, <2>2
<1>11. body[1].of = m
  <2>1. 1 \in 1..n
    OBVIOUS
  <2>2. body[1] = Byte(m, p + 1)
    BY <1>10, <2>1
  <2>3. Byte(m, p + 1).of = m
    BY DEF Byte
  <2> QED BY <2>2, <2>3
<1>12. body # <<>>
  <2>1. Len(body) = n /\ Len(<<>>) = 0
    BY <1>8, <1>9
  <2> QED BY <2>1
<1> QED BY <1>4, <1>5, <1>8, <1>9, <1>10, <1>11, <1>12 DEF BodyOf

\* and it decodes to its message when the receiver knows it.
LEMMA FrameOfFacts ==
    ASSUME NEW m \in Sendable
    PROVE  /\ FrameOf(m) \in Results /\ FrameOf(m).ok /\ FrameOf(m).body # <<>>
           /\ Decodes(FrameOf(m)) <=> Known(m)
           /\ MessageOf(FrameOf(m)) = m
<1>1. PICK body : body = SubSeq(encode(m), PrefixBytes + 1, FrameLen(m))
  OBVIOUS
<1>2. body \in Seq(Bytes) /\ body # <<>> /\ body[1].of = m
  BY <1>1, BodyOfFacts DEF BodyOf
<1>3. FrameOf(m) = [ok |-> body # <<>>, body |-> body]
  BY <1>1 DEF FrameOf, Frame
<1>4. PICK fr : fr = FrameOf(m)
  OBVIOUS
<1>5. fr.body = body /\ fr.ok = TRUE /\ fr \in Results
  <2>1. (body # <<>>) = TRUE
    BY <1>2
  <2>2. fr = [ok |-> TRUE, body |-> body]
    BY <1>3, <1>4, <2>1
  <2> QED BY <1>2, <2>2 DEF Results
<1>6. IsBody(fr)
  BY <1>1, <1>2, <1>5 DEF IsBody
<1> QED BY <1>2, <1>4, <1>5, <1>6 DEF Decodes, Known, MessageOf

\* Decoding the frames of messages keeps those that are known.
LEMMA DecodedKnown ==
    ASSUME NEW ms \in Seq(Sendable), NEW frames, Len(frames) = Len(ms),
           \A i \in 1..Len(ms) : frames[i] = FrameOf(ms[i])
    PROVE  DecodedOf(frames) = known(ms)
<1>1. PICK L \in Nat : L = Len(ms)
  OBVIOUS
<1> DEFINE Out(g) == g = [i \in 0..L |-> IF i = 0 THEN <<>> ELSE IF Known(ms[i]) THEN Append(g[i - 1], ms[i]) ELSE g[i - 1]]
           Dec(g) == g = [i \in 0..L |-> IF i = 0 THEN <<>>
                            ELSE IF Decodes(frames[i]) THEN Append(g[i - 1], MessageOf(frames[i])) ELSE g[i - 1]]
<1>2. \A i \in 1..L : (Decodes(frames[i]) <=> Known(ms[i])) /\ MessageOf(frames[i]) = ms[i]
  <2> TAKE i \in 1..L
  <2>1. ms[i] \in Sendable /\ frames[i] = FrameOf(ms[i])
    BY <1>1
  <2> QED BY <2>1, FrameOfFacts
<1>3. ASSUME NEW g PROVE Out(g) <=> Dec(g)
  <2>1. [i \in 0..L |-> IF i = 0 THEN <<>> ELSE IF Known(ms[i]) THEN Append(g[i - 1], ms[i]) ELSE g[i - 1]]
        = [i \in 0..L |-> IF i = 0 THEN <<>>
             ELSE IF Decodes(frames[i]) THEN Append(g[i - 1], MessageOf(frames[i])) ELSE g[i - 1]]
    BY <1>2
  <2> QED BY <2>1
<1>4. known(ms) = (CHOOSE g : Out(g))[L]
  BY <1>1 DEF known
<1>5. DecodedOf(frames) = (CHOOSE g : Dec(g))[L]
  BY <1>1 DEF DecodedOf
<1>6. (CHOOSE g : Dec(g)) = (CHOOSE g : Out(g))
  <2> HIDE DEF Dec, Out
  <2> QED BY <1>3
<1> QED BY <1>4, <1>5, <1>6

\* The first bytes are the frames of ms, the k-th of which ends at F[k], and no more.
Framed(ms, F, b) ==
    /\ ms \in Seq(Sendable) /\ F \in [0..Len(ms) -> 0..Len(b)] /\ F[0] = 0
    /\ \A j \in 1..Len(ms) :
          /\ F[j] = F[j - 1] + FrameLen(ms[j])
          /\ \A x \in 1..FrameLen(ms[j]) : b[F[j - 1] + x] = Byte(ms[j], x)
    /\ Waits(b, F[Len(ms)])

\* The round that starts where the next frame does returns it.
LEMMA FramedRound ==
    ASSUME NEW ms, NEW F, NEW b \in Seq(Bytes), Framed(ms, F, b), NEW j \in 1..Len(ms), NEW g
    PROVE  /\ F[j - 1] \in 0..Len(b) /\ F[j] \in 0..Len(b) /\ ms[j] \in Sendable
           /\ Round(g, b, F[j - 1]) = [frames |-> <<FrameOf(ms[j])>> \o g[F[j]].frames, keep |-> g[F[j]].keep]
<1>1. Len(b) \in Nat /\ Len(ms) \in Nat /\ j - 1 \in 0..Len(ms) /\ j \in 0..Len(ms)
  BY DEF Framed
<1>2. PICK m \in Sendable : m = ms[j]
  BY DEF Framed
<1>3. PICK i \in 0..Len(b) : i = F[j - 1]
  BY <1>1 DEF Framed
<1>4. PICK e \in 0..Len(b) : e = F[j]
  BY <1>1 DEF Framed
<1>5. e = i + FrameLen(m) /\ \A x \in 1..FrameLen(m) : b[i + x] = Byte(m, x)
  BY <1>2, <1>3, <1>4 DEF Framed
<1>6. PICK p \in Nat \ {0} : p = PrefixBytes
  BY FrameAssumption
<1>7. PICK n \in Nat \ {0} : n = m.size /\ FrameLen(m) = p + n
  BY <1>6, EncodeFacts
<1>8. n <= MAX_FRAME_BYTES
  BY <1>7 DEF Sendable
<1>9. declared(b, i + 1) = n
  <2>1. 1 \in 1..FrameLen(m)
    BY <1>7
  <2>2. b[i + 1] = Byte(m, 1)
    BY <1>5, <2>1
  <2> QED BY <1>7, <2>2 DEF declared, Byte
<1>10. Len(b) - i >= p + n /\ i + p + n = e
  BY <1>1, <1>5, <1>7
<1>11. SubSeq(b, i + p + 1, i + p + n) = SubSeq(encode(m), PrefixBytes + 1, FrameLen(m))
  <2>1. PICK body : body = SubSeq(encode(m), PrefixBytes + 1, FrameLen(m))
    OBVIOUS
  <2>2. body \in Seq(Bytes) /\ Len(body) = n /\ \A k \in 1..n : body[k] = Byte(m, p + k)
    <3>1. /\ body \in Seq(Bytes) /\ Len(body) = m.size
          /\ \A k \in 1..m.size : body[k] = Byte(m, PrefixBytes + k)
      <4>1. m \in Sendable
        BY <1>2
      <4>2. BodyOf(m, body)
        BY <2>1, <4>1, BodyOfFacts
      <4> QED BY <4>2 DEF BodyOf
    <3>2. ASSUME NEW k \in 1..n PROVE body[k] = Byte(m, p + k)
      <4>1. k \in 1..m.size
        BY <1>7
      <4>2. body[k] = Byte(m, PrefixBytes + k)
        BY <3>1, <4>1
      <4> QED BY <1>6, <4>2
    <3>3. Len(body) = n
      BY <1>7, <3>1
    <3> QED BY <3>1, <3>2, <3>3
  <2>3. PICK q \in Nat : q = i + p
    OBVIOUS
  <2>4. \A k \in q + 1..q + n : b[k] \in Bytes
    <3> TAKE k \in q + 1..q + n
    <3>1. k \in 1..Len(b)
      BY <1>1, <1>10, <2>3
    <3> QED BY <3>1
  <2>5. /\ SubSeq(b, q + 1, q + n) \in Seq(Bytes)
        /\ Len(SubSeq(b, q + 1, q + n)) = n
        /\ \A k \in 1..n : SubSeq(b, q + 1, q + n)[k] = b[q + k]
    <3>1. q + 1 \in Int /\ q + n \in Int
      OBVIOUS
    <3>2. /\ SubSeq(b, q + 1, q + n) \in Seq(Bytes)
          /\ Len(SubSeq(b, q + 1, q + n)) = IF q + 1 <= q + n THEN (q + n) - (q + 1) + 1 ELSE 0
          /\ \A k \in 1..(q + n) - (q + 1) + 1 : SubSeq(b, q + 1, q + n)[k] = b[(q + 1) + k - 1]
      BY <2>4, <3>1, SubSeqProperties
    <3>3. (q + n) - (q + 1) + 1 = n /\ q + 1 <= q + n /\ \A k \in 1..n : (q + 1) + k - 1 = q + k
      OBVIOUS
    <3> QED BY <3>2, <3>3
  <2>6. ASSUME NEW k \in 1..n PROVE b[q + k] = body[k]
    <3>1. PICK x \in 1..FrameLen(m) : x = p + k
      BY <1>7
    <3>2. q + k = i + x
      BY <2>3, <3>1
    <3>3. b[i + x] = Byte(m, x)
      BY <1>5
    <3> QED BY <2>2, <3>1, <3>2, <3>3
  <2>7. SubSeq(b, q + 1, q + n) = body
    BY <2>2, <2>5, <2>6, SeqEqual
  <2> QED BY <2>1, <2>3, <2>7
<1>12. Frame(SubSeq(b, i + p + 1, i + p + n)) = FrameOf(m)
  BY <1>11 DEF FrameOf
<1>13. Round(g, b, i) = [frames |-> <<FrameOf(m)>> \o g[e].frames, keep |-> g[e].keep]
  <2>1. ~(Len(b) - i < p) /\ ~(n > MAX_FRAME_BYTES) /\ ~(Len(b) - i < p + n)
    BY <1>1, <1>8, <1>10, FrameAssumption
  <2>2. Round(g, b, i) = IF Len(b) - i < p THEN [frames |-> <<>>, keep |-> i]
                         ELSE IF n > MAX_FRAME_BYTES THEN [frames |-> <<Oversized>>, keep |-> Len(b)]
                         ELSE IF Len(b) - i < p + n THEN [frames |-> <<>>, keep |-> i]
                         ELSE [frames |-> <<Frame(SubSeq(b, i + p + 1, i + p + n))>> \o g[i + p + n].frames,
                               keep |-> g[i + p + n].keep]
    BY <1>6, <1>9 DEF Round
  <2> QED BY <1>10, <1>12, <2>1, <2>2
<1> QED BY <1>2, <1>3, <1>4, <1>13

\* Its rounds return the messages from there on,
LEMMA FramedRounds ==
    ASSUME NEW ms, NEW F, NEW b \in Seq(Bytes), Framed(ms, F, b), NEW g,
           \A i \in 0..Len(b) : g[i] = Round(g, b, i)
    PROVE  /\ Len(g[0].frames) = Len(ms) /\ g[0].keep = F[Len(ms)]
           /\ \A x \in 1..Len(ms) : g[0].frames[x] = FrameOf(ms[x])
<1>1. PICK M \in Nat : M = Len(ms) /\ ms \in Seq(Sendable)
  BY DEF Framed
<1>2. F[0] = 0 /\ \A j \in 0..M : F[j] \in 0..Len(b)
  BY <1>1 DEF Framed
<1>3. \A i \in 0..Len(b) : RoundOK(g[i], b, i)
  BY RoundsOK
<1> DEFINE P(j) == /\ Len(g[F[j]].frames) = M - j /\ g[F[j]].keep = F[M]
                   /\ \A x \in 1..M - j : g[F[j]].frames[x] = FrameOf(ms[j + x])
           T == {n \in Nat : n <= M => P(M - n)}
<1>4. 0 \in T
  <2>1. PICK i \in 0..Len(b) : i = F[M]
    BY <1>1, <1>2
  <2>2. Waits(b, i)
    BY <1>1, <2>1 DEF Framed
  <2>3. g[i] = [frames |-> <<>>, keep |-> i]
    <3>1. Len(b) \in Nat /\ PrefixBytes \in Nat
      BY FrameAssumption
    <3>2. CASE Len(b) - i < PrefixBytes
      BY <3>2 DEF Round
    <3>3. CASE ~(Len(b) - i < PrefixBytes)
      <4>1. i + 1 \in 1..Len(b)
        BY <3>1, <3>3, FrameAssumption
      <4>2. PICK d \in Nat : d = declared(b, i + 1)
        BY <4>1, DeclaredType
      <4>3. ~(d > MAX_FRAME_BYTES) /\ Len(b) - i < PrefixBytes + d
        BY <2>2, <3>3, <4>2, FrameAssumption DEF Waits
      <4> QED BY <3>3, <4>2, <4>3 DEF Round
    <3> QED BY <3>2, <3>3
  <2>4. Len(g[F[M]].frames) = 0 /\ g[F[M]].keep = F[M]
    BY <2>1, <2>3, EmptySeq
  <2>5. P(M)
    BY <1>1, <2>4
  <2> HIDE DEF P
  <2> QED BY <2>5, <1>1
<1>5. ASSUME NEW n \in Nat, n \in T PROVE n + 1 \in T
  <2> SUFFICES ASSUME n + 1 <= M PROVE P(M - (n + 1))
    OBVIOUS
  <2>1. PICK j \in 1..M : j = M - n /\ j - 1 = M - (n + 1)
    BY <1>1
  <2>2. P(j)
    <3> HIDE DEF P
    <3> QED BY <1>1, <1>5, <2>1
  <2>3. /\ F[j - 1] \in 0..Len(b) /\ F[j] \in 0..Len(b) /\ ms[j] \in Sendable
        /\ Round(g, b, F[j - 1]) = [frames |-> <<FrameOf(ms[j])>> \o g[F[j]].frames, keep |-> g[F[j]].keep]
    <3>1. j \in 1..Len(ms)
      BY <1>1, <2>1
    <3>2. F[j - 1] \in 0..Len(b) /\ F[j] \in 0..Len(b) /\ ms[j] \in Sendable
      BY <3>1, FramedRound
    <3>3. Round(g, b, F[j - 1]) = [frames |-> <<FrameOf(ms[j])>> \o g[F[j]].frames, keep |-> g[F[j]].keep]
      BY <3>1, FramedRound
    <3> QED BY <3>2, <3>3
  <2>4. PICK i \in 0..Len(b) : i = F[j - 1]
    BY <2>3
  <2>5. PICK e \in 0..Len(b) : e = F[j]
    BY <2>3
  <2>6. PICK fr \in Results : fr = FrameOf(ms[j])
    BY <2>3, FrameOfFacts
  <2>7. PICK rest \in Seq(Results) : rest = g[e].frames
    BY <1>3, <2>5 DEF RoundOK
  <2>8. g[i] = [frames |-> <<fr>> \o rest, keep |-> g[e].keep]
    BY <2>3, <2>4, <2>5, <2>6, <2>7
  <2>9. g[i].frames = <<fr>> \o rest /\ g[i].keep = g[e].keep
    BY <2>8
  <2>10. Len(rest) = M - j /\ g[e].keep = F[M] /\ \A x \in 1..M - j : rest[x] = FrameOf(ms[j + x])
    BY <2>2, <2>5, <2>7
  <2>11. /\ Len(<<fr>> \o rest) = 1 + Len(rest)
         /\ \A x \in 1..1 + Len(rest) : (<<fr>> \o rest)[x] = IF x <= 1 THEN fr ELSE rest[x - 1]
    <3>1. <<fr>> \in Seq(Results) /\ Len(<<fr>>) = 1 /\ <<fr>>[1] = fr
      BY <2>6
    <3>2. /\ Len(<<fr>> \o rest) = Len(<<fr>>) + Len(rest)
          /\ \A x \in 1..Len(<<fr>>) + Len(rest) :
                (<<fr>> \o rest)[x] = IF x <= Len(<<fr>>) THEN <<fr>>[x] ELSE rest[x - Len(<<fr>>)]
      BY <2>7, <3>1, ConcatProperties
    <3>3. ASSUME NEW x \in 1..1 + Len(rest) PROVE (<<fr>> \o rest)[x] = IF x <= 1 THEN fr ELSE rest[x - 1]
      BY <3>1, <3>2
    <3> QED BY <3>1, <3>2, <3>3
  <2>12. Len(g[i].frames) = M - (j - 1) /\ g[i].keep = F[M]
    BY <1>1, <2>1, <2>9, <2>10, <2>11
  <2>13. ASSUME NEW x \in 1..M - (j - 1) PROVE g[i].frames[x] = FrameOf(ms[(j - 1) + x])
    <3>1. x \in 1..1 + Len(rest) /\ x \in Nat /\ Len(rest) \in Nat
      BY <1>1, <2>1, <2>10
    <3>2. g[i].frames[x] = IF x <= 1 THEN fr ELSE rest[x - 1]
      BY <2>9, <2>11, <3>1
    <3>3. CASE x = 1
      <4>1. (j - 1) + x = j
        BY <2>1, <3>3
      <4> QED BY <2>6, <3>2, <3>3, <4>1
    <3>4. CASE x # 1
      <4>1. PICK y \in 1..M - j : y = x - 1
        BY <1>1, <2>1, <3>1, <3>4
      <4>2. rest[y] = FrameOf(ms[j + y])
        BY <2>10
      <4>3. j + y = (j - 1) + x
        BY <2>1, <3>1, <4>1
      <4>4. ~(x <= 1)
        BY <3>1, <3>4
      <4> QED BY <3>2, <4>1, <4>2, <4>3, <4>4
    <3> QED BY <3>3, <3>4
  <2>14. P(j - 1)
    BY <2>4, <2>12, <2>13
  <2> HIDE DEF P
  <2> QED BY <2>1, <2>14
<1>6. \A n \in Nat : n \in T
  <2> HIDE DEF T
  <2> QED BY <1>4, <1>5, SetInduction
<1>7. P(0)
  <2> HIDE DEF P
  <2>1. M \in T /\ M - M = 0
    BY <1>6
  <2> QED BY <2>1
<1>8. \A x \in 1..M : g[0].frames[x] = FrameOf(ms[x])
  <2> TAKE x \in 1..M
  <2>1. x \in 1..M - 0 /\ 0 + x = x
    OBVIOUS
  <2> QED BY <1>2, <1>7, <2>1
<1> QED BY <1>1, <1>2, <1>7, <1>8

\* and so push does.
LEMMA FramedPush ==
    ASSUME NEW ms, NEW F, NEW b \in Seq(Bytes), Framed(ms, F, b)
    PROVE  DecodedOf(push(b).frames) = known(ms) /\ push(b).keep = F[Len(ms)]
<1>1. PICK g : (\A i \in 0..Len(b) : g[i] = Round(g, b, i)) /\ push(b) = g[0]
  BY PushIsFirst
<1>2. PICK r : r = g[0]
  OBVIOUS
<1>3. PICK frames : frames = r.frames
  OBVIOUS
<1>4. /\ Len(frames) = Len(ms) /\ r.keep = F[Len(ms)]
      /\ \A x \in 1..Len(ms) : frames[x] = FrameOf(ms[x])
  BY <1>1, <1>2, <1>3, FramedRounds
<1>5. ms \in Seq(Sendable)
  BY DEF Framed
<1>6. DecodedOf(frames) = known(ms)
  BY <1>4, <1>5, DecodedKnown
<1> QED BY <1>1, <1>2, <1>3, <1>4, <1>6

\* Whatever the decoder starts with, what it keeps is no whole frame.
LEMMA PushFacts ==
    ASSUME NEW b \in Seq(Bytes)
    PROVE  push(b).frames \in Seq(Results) /\ push(b).keep \in 0..Len(b) /\ Waits(b, push(b).keep)
<1>1. PICK g : (\A i \in 0..Len(b) : g[i] = Round(g, b, i)) /\ push(b) = g[0]
  BY PushIsFirst
<1>2. 0 \in 0..Len(b)
  OBVIOUS
<1>3. RoundOK(g[0], b, 0)
  BY <1>1, <1>2, RoundsOK
<1> QED BY <1>1, <1>3 DEF RoundOK

\* The first n bytes are no whole frame yet.
WaitsFor(b, n) == n < PrefixBytes \/ (declared(b, 1) <= MAX_FRAME_BYTES /\ n < PrefixBytes + declared(b, 1))

\* A nonempty body is a stretch of the bytes that ends behind place n.
Fresh(fr, b, n) ==
    fr.body # <<>> => \E u, v \in 1..Len(b) : n < v /\ u <= v /\ fr.body = SubSeq(b, u, v)

\* What is decoded, whatever the decoder starts with, ends with bytes that came last.
LEMMA PushIsFresh ==
    ASSUME NEW b \in Seq(Bytes), NEW n \in 0..Len(b), WaitsFor(b, n)
    PROVE  \A x \in 1..Len(push(b).frames) : Fresh(push(b).frames[x], b, n)
<1>1. PICK g : (\A i \in 0..Len(b) : g[i] = Round(g, b, i)) /\ push(b) = g[0]
  BY PushIsFirst
<1>2. 0 \in 0..Len(b) /\ Len(b) \in Nat /\ n \in Nat /\ PrefixBytes \in Nat \ {0} /\ MAX_FRAME_BYTES \in Nat
  BY FrameAssumption
<1>3. \A i \in 0..Len(b) : RoundOK(g[i], b, i)
  BY <1>1, RoundsOK
<1>4. g[0] = Round(g, b, 0)
  BY <1>1, <1>2
<1>5. PICK L \in Nat : L = Len(b) /\ L - 0 = L
  BY <1>2
<1>6. CASE L < PrefixBytes
  <2>1. g[0].frames = <<>>
    BY <1>4, <1>5, <1>6 DEF Round
  <2> QED BY <1>1, <2>1, EmptySeq
<1>7. CASE L >= PrefixBytes
  <2>1. 0 + 1 = 1 /\ 1 \in 1..Len(b)
    BY <1>2, <1>5, <1>7
  <2>2. PICK d \in Nat : d = declared(b, 1) /\ d = declared(b, 0 + 1)
    BY <2>1, DeclaredType
  <2>3. CASE d > MAX_FRAME_BYTES
    <3>1. g[0].frames = <<Oversized>>
      BY <1>2, <1>4, <1>5, <1>7, <2>2, <2>3 DEF Round
    <3>2. Len(<<Oversized>>) = 1 /\ <<Oversized>>[1] = Oversized /\ Oversized.body = <<>>
      BY DEF Oversized
    <3>3. \A x \in 1..Len(g[0].frames) : Fresh(g[0].frames[x], b, n)
      BY <3>1, <3>2 DEF Fresh
    <3> QED BY <1>1, <3>3
  <2>4. CASE d <= MAX_FRAME_BYTES /\ L < PrefixBytes + d
    <3>1. g[0].frames = <<>>
      BY <1>2, <1>4, <1>5, <1>7, <2>2, <2>4 DEF Round
    <3> QED BY <1>1, <3>1, EmptySeq
  <2>5. CASE d <= MAX_FRAME_BYTES /\ L >= PrefixBytes + d
    <3>1. PICK j \in 0 + 1..Len(b) : j = 0 + PrefixBytes + declared(b, 0 + 1)
      BY <1>2, <1>5, <1>7, <2>2, <2>5, RoundGoesOn
    <3>2. PICK body : body = SubSeq(b, 0 + PrefixBytes + 1, 0 + PrefixBytes + declared(b, 0 + 1))
      OBVIOUS
    <3>3. /\ body \in Seq(Bytes) /\ Frame(body) \in Results /\ Frame(body).body = body
          /\ body # <<>> => 0 + PrefixBytes + 1 <= j
      BY <1>2, <1>5, <1>7, <2>2, <2>5, <3>1, <3>2, BodyFacts
    <3>4. PICK fr \in Results : fr = Frame(body)
      BY <3>3
    <3>5. PICK rest \in Seq(Results) : rest = g[j].frames /\ \A x \in 1..Len(rest) : Whole(rest[x], b, j)
      <4>1. RoundOK(g[j], b, j)
        BY <1>2, <1>3, <3>1
      <4> QED BY <4>1 DEF RoundOK
    <3>6. g[0].frames = <<fr>> \o rest
      <4>1. g[0] = [frames |-> <<fr>> \o rest, keep |-> g[j].keep]
        BY <1>2, <1>4, <1>5, <1>7, <2>2, <2>5, <3>1, <3>2, <3>4, <3>5 DEF Round
      <4> QED BY <4>1
    <3>7. n < j
      BY <1>2, <2>2, <3>1 DEF WaitsFor
    <3>8. Fresh(fr, b, n)
      <4> SUFFICES ASSUME fr.body # <<>>
                   PROVE  \E u, v \in 1..Len(b) : n < v /\ u <= v /\ fr.body = SubSeq(b, u, v)
        BY DEF Fresh
      <4>1. fr.body = SubSeq(b, 0 + PrefixBytes + 1, j) /\ 0 + PrefixBytes + 1 <= j
        BY <3>1, <3>2, <3>3, <3>4
      <4>2. PICK u \in 1..Len(b) : u = 0 + PrefixBytes + 1
        BY <1>2, <3>1, <4>1
      <4>3. j \in 1..Len(b)
        BY <3>1
      <4> QED BY <3>7, <4>1, <4>2, <4>3
    <3>9. ASSUME NEW x \in 1..Len(rest) PROVE Fresh(rest[x], b, n)
      <4> SUFFICES ASSUME rest[x].body # <<>>
                   PROVE  \E u, v \in 1..Len(b) : n < v /\ u <= v /\ rest[x].body = SubSeq(b, u, v)
        BY DEF Fresh
      <4>1. PICK u, v \in 1..Len(b) : j < u /\ u <= v /\ rest[x].body = SubSeq(b, u, v)
        BY <3>5 DEF Whole
      <4>2. n < v
        BY <1>2, <3>1, <3>7, <4>1
      <4> QED BY <4>1, <4>2
    <3>10. /\ Len(<<fr>> \o rest) = 1 + Len(rest) /\ Len(rest) \in Nat
           /\ \A x \in 1..1 + Len(rest) : (<<fr>> \o rest)[x] = IF x <= 1 THEN fr ELSE rest[x - 1]
      <4>1. <<fr>> \in Seq(Results) /\ Len(<<fr>>) = 1 /\ <<fr>>[1] = fr
        BY <3>4
      <4>2. /\ Len(<<fr>> \o rest) = Len(<<fr>>) + Len(rest)
            /\ \A x \in 1..Len(<<fr>>) + Len(rest) :
                  (<<fr>> \o rest)[x] = IF x <= Len(<<fr>>) THEN <<fr>>[x] ELSE rest[x - Len(<<fr>>)]
        BY <3>5, <4>1, ConcatProperties
      <4>3. ASSUME NEW x \in 1..1 + Len(rest) PROVE (<<fr>> \o rest)[x] = IF x <= 1 THEN fr ELSE rest[x - 1]
        BY <4>1, <4>2
      <4> QED BY <3>5, <4>1, <4>2, <4>3
    <3>11. ASSUME NEW x \in 1..Len(g[0].frames) PROVE Fresh(g[0].frames[x], b, n)
      <4>1. x \in 1..1 + Len(rest)
        BY <3>6, <3>10
      <4>2. g[0].frames[x] = IF x <= 1 THEN fr ELSE rest[x - 1]
        BY <3>6, <3>10, <4>1
      <4>3. CASE x <= 1
        BY <3>8, <4>2, <4>3
      <4>4. CASE ~(x <= 1)
        <5>1. PICK y \in 1..Len(rest) : y = x - 1
          BY <3>10, <4>1, <4>4
        <5>2. g[0].frames[x] = rest[y]
          BY <4>2, <4>4, <5>1
        <5> QED BY <3>9, <5>2
      <4> QED BY <4>3, <4>4
    <3> QED BY <1>1, <3>11
  <2> QED BY <1>2, <1>5, <2>2, <2>3, <2>4, <2>5
<1> QED BY <1>2, <1>5, <1>6, <1>7

-----------------------------------------------------------------------------
(* The inductive invariant of the frames *)

\* E[i] is where the i-th frame ends.
Marks(E, msgs) ==
    /\ E \in [0..Len(msgs) -> Nat] /\ E[0] = 0
    /\ \A i \in 1..Len(msgs) : E[i] = E[i - 1] + FrameLen(msgs[i])
    /\ \A i, j \in 0..Len(msgs) : i < j => E[i] < E[j]

\* What has been written is these frames.
Written(E, msgs, bytes) ==
    /\ Len(bytes) = E[Len(msgs)]
    /\ \A p \in 1..Len(bytes) : \E c \in 1..Len(msgs) :
          E[c - 1] < p /\ p <= E[c] /\ bytes[p] = Byte(msgs[c], p - E[c - 1])

\* Of the first t bytes, c frames are complete.
Complete(E, msgs, c, t) == c \in 0..Len(msgs) /\ E[c] <= t /\ (c < Len(msgs) => t < E[c + 1])

\* What the decoder holds is the end of what has been read, and no whole frame.
Buffered ==
    /\ buf \in Seq(Bytes) /\ Len(buf) <= taken /\ buf = SubSeq(stream, taken - Len(buf) + 1, taken)
    /\ WaitsFor(buf, Len(buf))

\* What is sent is numbered, what is read has been relayed.
FramesTypes ==
    /\ dir \in {"toClient", "toServer"}
    /\ sent \in Seq(Sendable) /\ \A i \in 1..Len(sent) : sent[i].id = i
    /\ stream \in Seq(Bytes) /\ relayed \in 0..Len(stream) /\ taken \in 0..relayed
    /\ got \in Seq(Messages)

\* The bridge has got what is complete, and its decoder is at the end of it.
InStep(E) ==
    dir = "toClient" =>
      \E c \in 0..Len(sent) : /\ Complete(E, sent, c, taken) /\ got = KnownTo(sent, c)
                              /\ taken - Len(buf) = E[c]

\* The inductive invariant.
FramesInv == FramesTypes /\ Buffered /\ \E E : Marks(E, sent) /\ Written(E, sent, stream) /\ InStep(E)

-----------------------------------------------------------------------------
(* Frames and bytes *)

\* Of any beginning of the bytes some number of frames is complete.
LEMMA CompleteExists ==
    ASSUME NEW msgs \in Seq(Sendable), NEW E, NEW bytes, Marks(E, msgs), Written(E, msgs, bytes),
           NEW t \in Nat, t <= Len(bytes)
    PROVE  \E c \in 0..Len(msgs) : Complete(E, msgs, c, t)
<1>1. Len(msgs) \in Nat /\ E[0] = 0 /\ \A i \in 0..Len(msgs) : E[i] \in Nat
  BY DEF Marks
<1>2. CASE t = 0
  <2>1. 0 < Len(msgs) => 0 < E[0 + 1]
    BY <1>1 DEF Marks
  <2> QED BY <1>1, <1>2, <2>1 DEF Complete
<1>3. CASE t # 0
  <2>1. t \in 1..Len(bytes)
    BY <1>1, <1>3 DEF Written
  <2>2. PICK c \in 1..Len(msgs) : E[c - 1] < t /\ t <= E[c]
    BY <2>1 DEF Written
  <2>3. PICK d \in 0..Len(msgs) : d = c - 1 /\ c = d + 1
    BY <1>1, <2>2
  <2>4. CASE t = E[c]
    <3>1. c < Len(msgs) => E[c] < E[c + 1]
      BY <1>1, <2>2 DEF Marks
    <3> QED BY <1>1, <2>2, <2>4, <3>1 DEF Complete
  <2>5. CASE t # E[c]
    <3>1. E[d] <= t /\ t < E[d + 1]
      BY <1>1, <2>2, <2>3, <2>5
    <3> QED BY <2>3, <3>1 DEF Complete
  <2> QED BY <2>4, <2>5
<1> QED BY <1>2, <1>3

\* Where frame c is written.
LEMMA FrameIsThere ==
    ASSUME NEW msgs \in Seq(Sendable), NEW E, NEW bytes, Marks(E, msgs), Written(E, msgs, bytes),
           NEW c \in 1..Len(msgs), NEW x \in 1..FrameLen(msgs[c])
    PROVE  bytes[E[c - 1] + x] = Byte(msgs[c], x) /\ E[c - 1] + x \in 1..Len(bytes) /\ E[c - 1] + x <= E[c]
<1>1. PICK L \in Nat : L = Len(msgs)
  OBVIOUS
<1>2. PICK a \in 0..L : a = c - 1 /\ c \in 0..L /\ a < c
  BY <1>1
<1>3. \A i \in 0..L : E[i] \in Nat
  BY <1>1 DEF Marks
<1>4. msgs[c] \in Sendable
  OBVIOUS
<1>5. PICK f \in Nat : f = FrameLen(msgs[c]) /\ E[c] = E[a] + f
  <2>1. E[c] = E[a] + FrameLen(msgs[c])
    BY <1>2 DEF Marks
  <2> QED BY <1>4, <2>1, EncodeFacts
<1>6. E[c] <= Len(bytes)
  <2>1. c = L \/ c < L
    BY <1>1, <1>2
  <2>2. E[c] <= E[L]
    BY <1>1, <1>2, <1>3, <2>1 DEF Marks
  <2> QED BY <1>1, <2>2 DEF Written
<1>7. PICK p \in 1..Len(bytes) : p = E[a] + x /\ p <= E[c] /\ E[a] < p
  <2>1. E[a] \in Nat /\ E[c] \in Nat /\ x \in 1..f
    BY <1>2, <1>3, <1>5
  <2>2. Len(bytes) \in Nat
    BY <1>1, <1>3 DEF Written
  <2>3. PICK u \in Nat, v \in Nat, w \in Nat : u = E[a] /\ v = E[c] /\ w = Len(bytes)
    BY <2>1, <2>2
  <2>4. v = u + f /\ v <= w
    BY <1>5, <1>6, <2>3
  <2>5. PICK y \in Nat : y = u + x /\ y \in 1..w /\ y <= v /\ u < y
    BY <1>5, <2>1, <2>4
  <2> QED BY <2>3, <2>5
<1>8. PICK d \in 1..L : E[d - 1] < p /\ p <= E[d] /\ bytes[p] = Byte(msgs[d], p - E[d - 1])
  BY <1>1, <1>7 DEF Written
<1>9. PICK e \in 0..L : e = d - 1 /\ d \in 0..L /\ e < d
  BY <1>8
<1>10. /\ E[a] \in Nat /\ E[c] \in Nat /\ E[d] \in Nat /\ E[e] \in Nat /\ p \in Nat
       /\ E[a] < p /\ p <= E[c] /\ E[e] < p /\ p <= E[d]
  BY <1>2, <1>3, <1>7, <1>8, <1>9
<1>11. ~(d < c)
  <2> SUFFICES ASSUME d < c PROVE FALSE
    OBVIOUS
  <2>1. d = a \/ d < a
    BY <1>2, <1>9
  <2>2. d < a => E[d] < E[a]
    BY <1>1, <1>2, <1>9 DEF Marks
  <2> QED BY <1>10, <2>1, <2>2
<1>12. ~(c < d)
  <2> SUFFICES ASSUME c < d PROVE FALSE
    OBVIOUS
  <2>1. c = e \/ c < e
    BY <1>2, <1>9
  <2>2. c < e => E[c] < E[e]
    BY <1>1, <1>2, <1>9 DEF Marks
  <2> QED BY <1>10, <2>1, <2>2
<1>13. d = c
  BY <1>2, <1>9, <1>11, <1>12
<1>14. p - E[d - 1] = x
  BY <1>2, <1>7, <1>10, <1>13
<1> QED BY <1>2, <1>7, <1>8, <1>13, <1>14

\* Settled, of these messages, bytes and number of bytes read.
SettledAt(msgs, bytes, t) ==
    LET last == bytes[t]
        n == IF t = 0 THEN 0 ELSE IF last.at = FrameLen(last.of) THEN last.of.id ELSE last.of.id - 1
    IN Len(known(SubSeq(msgs, 1, n)))

\* The messages are numbered in the order they were sent.
Numbered(msgs) == msgs \in Seq(Sendable) /\ \A i \in 1..Len(msgs) : msgs[i].id = i

\* It is the number of known messages among the complete ones.
LEMMA SettledIs ==
    ASSUME NEW msgs, Numbered(msgs), NEW bytes \in Seq(Bytes), NEW t \in Nat, t <= Len(bytes),
           NEW E, Marks(E, msgs), Written(E, msgs, bytes), NEW c, Complete(E, msgs, c, t)
    PROVE  SettledAt(msgs, bytes, t) = Len(KnownTo(msgs, c))
<1>1. /\ msgs \in Seq(Sendable) /\ Len(msgs) \in Nat /\ Len(bytes) \in Nat
      /\ c \in 0..Len(msgs) /\ \A i \in 0..Len(msgs) : E[i] \in Nat
  <2>1. msgs \in Seq(Sendable)
    BY DEF Numbered
  <2>2. Len(msgs) \in Nat /\ Len(bytes) \in Nat
    BY <2>1
  <2>3. c \in 0..Len(msgs)
    BY DEF Complete
  <2>4. \A i \in 0..Len(msgs) : E[i] \in Nat
    BY DEF Marks
  <2> QED BY <2>1, <2>2, <2>3, <2>4
<1>2. CASE t = 0
  <2>1. c = 0
    <3> SUFFICES ASSUME c # 0 PROVE FALSE
      OBVIOUS
    <3>1. E[0] < E[c] /\ E[0] = 0
      BY <1>1 DEF Marks
    <3> QED BY <1>1, <1>2, <3>1 DEF Complete
  <2> QED BY <1>2, <2>1 DEF SettledAt, KnownTo
<1>3. CASE t # 0
  <2>1. t \in 1..Len(bytes)
    BY <1>1, <1>3
  <2>2. PICK d \in 1..Len(msgs) : E[d - 1] < t /\ t <= E[d] /\ bytes[t] = Byte(msgs[d], t - E[d - 1])
    BY <2>1 DEF Written
  <2>3. PICK e \in 0..Len(msgs) : e = d - 1 /\ d = e + 1
    BY <1>1, <2>2
  <2>4. bytes[t].of = msgs[d] /\ bytes[t].at = t - E[e] /\ msgs[d].id = d
    BY <2>2, <2>3 DEF Byte, Numbered
  <2>5. PICK f \in Nat : f = FrameLen(msgs[d]) /\ E[d] = E[e] + f
    <3>1. msgs[d] \in Sendable
      BY <2>2 DEF Numbered
    <3>2. E[d] = E[e] + FrameLen(msgs[d])
      BY <2>2, <2>3 DEF Marks
    <3> QED BY <3>1, <3>2, EncodeFacts
  <2>6. CASE t = E[d]
    <3>1. bytes[t].at = f
      BY <1>1, <2>3, <2>4, <2>5, <2>6
    <3>2. SettledAt(msgs, bytes, t) = Len(known(SubSeq(msgs, 1, d)))
      BY <1>3, <2>4, <2>5, <3>1 DEF SettledAt
    <3>3. c = d
      <4>1. d \in 0..Len(msgs)
        BY <1>1
      <4>2. ~(c < d)
        <5> SUFFICES ASSUME c < d PROVE FALSE
          OBVIOUS
        <5>1. t < E[c + 1] /\ c + 1 \in 0..Len(msgs) /\ (c + 1 = d \/ c + 1 < d)
          BY <1>1, <4>1 DEF Complete
        <5> QED BY <1>1, <2>6, <4>1, <5>1 DEF Marks
      <4>3. ~(d < c)
        <5> SUFFICES ASSUME d < c PROVE FALSE
          OBVIOUS
        <5>1. E[d] < E[c] /\ E[c] <= t
          BY <1>1, <4>1 DEF Complete, Marks
        <5> QED BY <1>1, <2>6, <4>1, <5>1
      <4> QED BY <1>1, <4>1, <4>2, <4>3
    <3> QED BY <3>2, <3>3 DEF KnownTo
  <2>7. CASE t # E[d]
    <3>1. bytes[t].at # f
      <4>1. d \in 0..Len(msgs) /\ E[d] \in Nat /\ E[e] \in Nat
        BY <1>1, <2>3
      <4> QED BY <1>1, <2>4, <2>5, <2>7, <4>1
    <3>2. SettledAt(msgs, bytes, t) = Len(known(SubSeq(msgs, 1, e)))
      BY <1>3, <2>3, <2>4, <2>5, <3>1 DEF SettledAt
    <3>3. c = e
      <4>1. d \in 0..Len(msgs) /\ E[e] < t /\ t < E[d]
        BY <1>1, <2>2, <2>3, <2>7
      <4>2. ~(c < e)
        <5> SUFFICES ASSUME c < e PROVE FALSE
          OBVIOUS
        <5>1. t < E[c + 1] /\ c + 1 \in 0..Len(msgs) /\ (c + 1 = e \/ c + 1 < e)
          BY <1>1, <2>3 DEF Complete
        <5> QED BY <1>1, <2>3, <4>1, <5>1 DEF Marks
      <4>3. ~(e < c)
        <5> SUFFICES ASSUME e < c PROVE FALSE
          OBVIOUS
        <5>1. E[c] <= t /\ (d = c \/ d < c)
          BY <1>1, <2>3 DEF Complete
        <5> QED BY <1>1, <4>1, <5>1 DEF Marks
      <4> QED BY <1>1, <2>3, <4>2, <4>3
    <3> QED BY <3>2, <3>3 DEF KnownTo
  <2> QED BY <2>6, <2>7
<1> QED BY <1>2, <1>3

-----------------------------------------------------------------------------
(* Reads *)

\* A stretch of the bytes.
LEMMA StretchFacts ==
    ASSUME NEW S, NEW s \in Seq(S), NEW i \in Nat, NEW j \in Nat, i <= j, j <= Len(s)
    PROVE  /\ SubSeq(s, i + 1, j) \in Seq(S) /\ Len(SubSeq(s, i + 1, j)) = j - i
           /\ \A x \in 1..j - i : SubSeq(s, i + 1, j)[x] = s[i + x]
<1>1. Len(s) \in Nat /\ i + 1 \in Int /\ j \in Int
  OBVIOUS
<1>2. PICK k \in Int : k = i + 1
  BY <1>1
<1>3. \A x \in k..j : s[x] \in S
  <2> TAKE x \in k..j
  <2>1. x \in 1..Len(s)
    BY <1>1, <1>2
  <2> QED BY <2>1
<1>4. /\ SubSeq(s, k, j) \in Seq(S) /\ Len(SubSeq(s, k, j)) = IF k <= j THEN j - k + 1 ELSE 0
      /\ \A x \in 1..j - k + 1 : SubSeq(s, k, j)[x] = s[k + x - 1]
  BY <1>1, <1>3, SubSeqProperties
<1>5. j - k + 1 = j - i /\ (IF k <= j THEN j - k + 1 ELSE 0) = j - i /\ \A x \in 1..j - i : k + x - 1 = i + x
  BY <1>1, <1>2
<1> QED BY <1>2, <1>4, <1>5

\* What has arrived is the end of what has been read, the old bytes first.
LEMMA ArrivedFacts ==
    ASSUME FramesTypes, Buffered, NEW n \in Nat, taken + n <= relayed
    PROVE  /\ Arrived(n) \in Seq(Bytes) /\ Len(Arrived(n)) = Len(buf) + n /\ Len(buf) \in Nat
           /\ taken - Len(buf) \in Nat
           /\ \A x \in 1..Len(buf) + n : Arrived(n)[x] = stream[(taken - Len(buf)) + x]
           /\ WaitsFor(Arrived(n), Len(buf))
<1>1. /\ stream \in Seq(Bytes) /\ buf \in Seq(Bytes) /\ taken \in Nat /\ relayed \in Nat
      /\ taken + n <= Len(stream) /\ Len(buf) \in Nat /\ Len(buf) <= taken /\ Len(stream) \in Nat
  <2>1. stream \in Seq(Bytes) /\ relayed \in 0..Len(stream) /\ taken \in 0..relayed
    BY DEF FramesTypes
  <2>2. buf \in Seq(Bytes) /\ Len(buf) <= taken
    BY DEF Buffered
  <2> QED BY <2>1, <2>2
<1>2. PICK l \in Nat : l = Len(buf)
  BY <1>1
<1>3. PICK o \in Nat : o = taken - l /\ taken = o + l
  BY <1>1, <1>2
<1>4. PICK e \in Nat : e = taken + n /\ e <= Len(stream) /\ taken <= e
  BY <1>1
<1>5. PICK new : new = SubSeq(stream, taken + 1, e)
  OBVIOUS
<1>6. new \in Seq(Bytes) /\ Len(new) = n /\ \A x \in 1..n : new[x] = stream[taken + x]
  <2>1. e - taken = n /\ taken <= e /\ e <= Len(stream) /\ e \in Nat /\ taken \in Nat
    BY <1>1, <1>4
  <2>2. /\ SubSeq(stream, taken + 1, e) \in Seq(Bytes) /\ Len(SubSeq(stream, taken + 1, e)) = e - taken
        /\ \A x \in 1..e - taken : SubSeq(stream, taken + 1, e)[x] = stream[taken + x]
    BY <1>1, <2>1, StretchFacts
  <2> QED BY <1>5, <2>1, <2>2
<1>7. \A x \in 1..l : buf[x] = stream[o + x]
  <2>1. buf = SubSeq(stream, o + 1, taken)
    BY <1>2, <1>3 DEF Buffered
  <2>2. o <= taken /\ taken <= Len(stream) /\ taken - o = l
    BY <1>1, <1>3
  <2> QED BY <1>1, <2>1, <2>2, StretchFacts
<1>8. PICK b : b = buf \o new
  OBVIOUS
<1>9. /\ b \in Seq(Bytes) /\ Len(b) = l + n
      /\ \A x \in 1..l + n : b[x] = IF x <= l THEN buf[x] ELSE new[x - l]
  <2>1. buf \in Seq(Bytes) /\ new \in Seq(Bytes) /\ Len(buf) = l /\ Len(new) = n
    BY <1>1, <1>2, <1>6
  <2>2. b \in Seq(Bytes) /\ Len(b) = Len(buf) + Len(new)
    BY <1>8, <2>1, ConcatProperties
  <2>3. \A x \in 1..Len(buf) + Len(new) : b[x] = IF x <= Len(buf) THEN buf[x] ELSE new[x - Len(buf)]
    BY <1>8, <2>1, ConcatProperties
  <2> QED BY <2>1, <2>2, <2>3
<1>10. ASSUME NEW x \in 1..l + n PROVE b[x] = stream[o + x]
  <2>1. CASE x <= l
    BY <1>7, <1>9, <2>1
  <2>2. CASE ~(x <= l)
    <3>1. PICK y \in 1..n : y = x - l /\ taken + y = o + x
      BY <1>3, <2>2
    <3>2. b[x] = new[y]
      BY <1>9, <2>2, <3>1
    <3> QED BY <1>6, <3>1, <3>2
  <2> QED BY <2>1, <2>2
<1>11. Arrived(n) = b
  BY <1>4, <1>5, <1>8 DEF Arrived
<1>12. WaitsFor(b, l)
  <2>1. WaitsFor(buf, l)
    BY <1>2 DEF Buffered
  <2>2. CASE l < PrefixBytes
    BY <2>2 DEF WaitsFor
  <2>3. CASE ~(l < PrefixBytes)
    <3>1. 1 \in 1..l /\ 1 <= l
      BY <2>3, FrameAssumption
    <3>2. b[1] = buf[1]
      BY <1>9, <3>1
    <3>3. declared(b, 1) = declared(buf, 1)
      BY <3>2 DEF declared
    <3> QED BY <2>1, <3>3 DEF WaitsFor
  <2> QED BY <2>2, <2>3
<1> QED BY <1>2, <1>3, <1>9, <1>10, <1>11, <1>12

\* b is the stretch of s behind place o.
Stretch(b, s, o) == o + Len(b) <= Len(s) /\ \A x \in 1..Len(b) : b[x] = s[o + x]

\* The end of a stretch is the end of what the stretch ends.
LEMMA EndOfStretch ==
    ASSUME NEW S, NEW s \in Seq(S), NEW b \in Seq(S), NEW o \in Nat, o + Len(b) <= Len(s),
           \A x \in 1..Len(b) : b[x] = s[o + x], NEW k \in Nat, k <= Len(b), NEW r, r = SubSeq(b, k + 1, Len(b))
    PROVE  /\ r \in Seq(S) /\ Len(r) = Len(b) - k /\ r = SubSeq(s, (o + k) + 1, o + Len(b))
           /\ \A x \in 1..Len(b) - k : r[x] = b[k + x]
<1>1. PICK e \in Nat : e = Len(b)
  OBVIOUS
<1>2. PICK q \in Nat : q = e - k /\ k + q = e
  <2>1. e - k \in Nat /\ k + (e - k) = e
    BY <1>1
  <2> QED BY <2>1
<1>3. r \in Seq(S) /\ Len(r) = q /\ \A x \in 1..q : r[x] = b[k + x]
  <2>1. k <= e /\ e <= Len(b) /\ e \in Nat
    BY <1>1
  <2>2. /\ SubSeq(b, k + 1, e) \in Seq(S) /\ Len(SubSeq(b, k + 1, e)) = e - k
        /\ \A x \in 1..e - k : SubSeq(b, k + 1, e)[x] = b[k + x]
    BY <2>1, StretchFacts
  <2> QED BY <1>1, <1>2, <2>2
<1>4. PICK p \in Nat : p = o + k
  OBVIOUS
<1>5. PICK f \in Nat : f = o + e
  BY <1>1
<1>6. PICK t : t = SubSeq(s, p + 1, f)
  OBVIOUS
<1>7. t \in Seq(S) /\ Len(t) = q /\ \A x \in 1..q : t[x] = s[p + x]
  <2>1. p <= f /\ f <= Len(s) /\ f - p = q
    BY <1>1, <1>2, <1>4, <1>5
  <2>2. /\ SubSeq(s, p + 1, f) \in Seq(S) /\ Len(SubSeq(s, p + 1, f)) = f - p
        /\ \A x \in 1..f - p : SubSeq(s, p + 1, f)[x] = s[p + x]
    BY <1>4, <1>5, <2>1, StretchFacts
  <2> QED BY <1>6, <2>1, <2>2
<1>8. ASSUME NEW x \in 1..q PROVE r[x] = t[x]
  <2>1. PICK y \in 1..Len(b) : y = k + x
    BY <1>1, <1>2
  <2>2. o + y = p + x
    BY <1>4, <2>1
  <2>3. b[y] = s[o + y]
    OBVIOUS
  <2> QED BY <1>3, <1>7, <2>1, <2>2, <2>3
<1>9. r = t
  BY <1>2, <1>3, <1>7, <1>8, SeqEqual
<1> QED BY <1>1, <1>2, <1>3, <1>4, <1>5, <1>6, <1>9

\* What a decoder keeps: the end of what has been read, and no whole frame.
Holds(held, bytes, t) ==
    /\ held \in Seq(Bytes) /\ Len(held) <= t /\ held = SubSeq(bytes, t - Len(held) + 1, t)
    /\ WaitsFor(held, Len(held))

\* What is left of a read, behind place k of what was there.
Left(held, s, b, o, k) == Holds(held, s, o + Len(b)) /\ (o + Len(b)) - Len(held) = o + k

\* So of a stretch what follows a place where no whole frame begins.
LEMMA EndHeld ==
    ASSUME NEW s \in Seq(Bytes), NEW b \in Seq(Bytes), NEW o \in Nat, Stretch(b, s, o),
           NEW k \in Nat, k <= Len(b), Waits(b, k), NEW held, held = SubSeq(b, k + 1, Len(b))
    PROVE  Left(held, s, b, o, k)
<1>1. /\ held \in Seq(Bytes) /\ Len(held) = Len(b) - k /\ held = SubSeq(s, (o + k) + 1, o + Len(b))
      /\ \A x \in 1..Len(b) - k : held[x] = b[k + x]
  BY EndOfStretch DEF Stretch
<1>2. PICK e \in Nat : e = Len(b)
  OBVIOUS
<1>3. PICK q \in Nat : q = e - k /\ k + q = e
  <2>1. e - k \in Nat /\ k + (e - k) = e
    BY <1>2
  <2> QED BY <2>1
<1>4. PICK t \in Nat : t = o + e
  BY <1>2
<1>5. t - q = o + k /\ q <= t
  BY <1>2, <1>3, <1>4
<1>6. Len(held) = q /\ t = o + Len(b)
  BY <1>1, <1>2, <1>3, <1>4
<1>7. held = SubSeq(s, (t - q) + 1, t)
  BY <1>1, <1>2, <1>4, <1>5
<1>8. WaitsFor(held, q)
  <2>1. CASE q < PrefixBytes
    BY <2>1 DEF WaitsFor
  <2>2. CASE ~(q < PrefixBytes)
    <3>1. 1 \in 1..q
      BY <1>3, <2>2, FrameAssumption
    <3>2. held[1] = b[k + 1]
      BY <1>1, <1>2, <1>3, <3>1
    <3>3. declared(held, 1) = declared(b, k + 1)
      BY <3>2 DEF declared
    <3>4. declared(b, k + 1) <= MAX_FRAME_BYTES /\ Len(b) - k < PrefixBytes + declared(b, k + 1)
      BY <1>2, <1>3, <2>2 DEF Waits
    <3> QED BY <1>2, <1>3, <3>3, <3>4 DEF WaitsFor
  <2> QED BY <2>1, <2>2
<1>9. Holds(held, s, t)
  BY <1>1, <1>5, <1>6, <1>7, <1>8 DEF Holds
<1> QED BY <1>2, <1>4, <1>5, <1>6, <1>9 DEF Left

\* That is what push leaves of a read.
LEMMA KeptFacts ==
    ASSUME FramesTypes, Buffered, NEW n \in Nat, taken + n <= relayed
    PROVE  /\ push(Arrived(n)).keep \in Nat
           /\ Holds(SubSeq(Arrived(n), push(Arrived(n)).keep + 1, Len(Arrived(n))), stream, taken + n)
           /\ (taken + n) - Len(SubSeq(Arrived(n), push(Arrived(n)).keep + 1, Len(Arrived(n))))
                 = (taken - Len(buf)) + push(Arrived(n)).keep
<1>1. /\ Arrived(n) \in Seq(Bytes) /\ Len(Arrived(n)) = Len(buf) + n /\ Len(buf) \in Nat
      /\ taken - Len(buf) \in Nat
      /\ \A x \in 1..Len(buf) + n : Arrived(n)[x] = stream[(taken - Len(buf)) + x]
  BY ArrivedFacts
<1>2. stream \in Seq(Bytes) /\ taken \in Nat /\ taken + n <= Len(stream) /\ Len(stream) \in Nat
  <2>1. stream \in Seq(Bytes) /\ relayed \in 0..Len(stream) /\ taken \in 0..relayed
    BY DEF FramesTypes
  <2> QED BY <2>1
<1>3. PICK b \in Seq(Bytes) : b = Arrived(n)
  BY <1>1
<1>4. PICK o \in Nat : o = taken - Len(buf)
  BY <1>1
<1>5. \A x \in 1..Len(b) : b[x] = stream[o + x]
  BY <1>1, <1>3, <1>4
<1>6. o + Len(b) = taken + n
  <2>1. PICK l \in Nat : l = Len(buf)
    BY <1>1
  <2>2. o = taken - l /\ Len(b) = l + n /\ taken \in Nat
    BY <1>1, <1>2, <1>3, <1>4, <2>1
  <2> QED BY <2>1, <2>2
<1>11. Stretch(b, stream, o)
  BY <1>2, <1>5, <1>6 DEF Stretch
<1>7. PICK k \in 0..Len(b) : k = push(b).keep /\ Waits(b, k)
  BY <1>3, PushFacts
<1>8. k \in Nat /\ k <= Len(b) /\ o + Len(b) <= Len(stream)
  BY <1>2, <1>3, <1>6, <1>7
<1>9. PICK held : held = SubSeq(b, k + 1, Len(b))
  OBVIOUS
<1>10. Holds(held, stream, o + Len(b)) /\ (o + Len(b)) - Len(held) = o + k
  <2>1. stream \in Seq(Bytes) /\ b \in Seq(Bytes) /\ o \in Nat /\ k \in Nat /\ k <= Len(b) /\ Waits(b, k)
    BY <1>2, <1>3, <1>4, <1>7, <1>8
  <2>2. Left(held, stream, b, o, k)
    BY <1>9, <1>11, <2>1, EndHeld
  <2> QED BY <2>2 DEF Left
<1> QED BY <1>3, <1>4, <1>6, <1>7, <1>8, <1>9, <1>10

\* A decoder that holds nothing waits.
LEMMA NothingHeld ==
    ASSUME NEW bytes, NEW t \in Nat
    PROVE  Holds(<<>>, bytes, t)
<1>1. <<>> \in Seq(Bytes) /\ Len(<<>>) = 0
  BY EmptySeq
<1>2. PICK u \in Nat : u = t - 0 + 1 /\ t < u
  OBVIOUS
<1>3. SubSeq(bytes, u, t) = <<>>
  <2>1. u \in Int /\ t \in Int /\ t < u
    BY <1>2
  <2> QED BY <2>1, SubSeqEmpty
<1>4. WaitsFor(<<>>, 0)
  BY FrameAssumption DEF WaitsFor
<1>5. SubSeq(bytes, t - Len(<<>>) + 1, t) = <<>> /\ Len(<<>>) <= t
  BY <1>1, <1>2, <1>3
<1> QED BY <1>1, <1>4, <1>5 DEF Holds

\* What the invariant says of the buffer, after a step.
LEMMA HoldsNext ==
    ASSUME NEW held, NEW t, buf' = held, taken' = t, stream' = stream, Holds(held, stream, t)
    PROVE  Buffered'
BY DEF Holds, Buffered, WaitsFor, declared

-----------------------------------------------------------------------------
(* What the bridge reads *)

\* r is what s holds behind place a up to b.
Part(r, s, a, b) == r = SubSeq(s, a + 1, b)

\* What is kept of the messages up to b is what is kept up to a and what is kept of the rest.
LEMMA KnownConcat ==
    ASSUME NEW S, NEW s \in Seq(S), NEW a \in Nat, NEW b \in Nat, a <= b, b <= Len(s),
           NEW ms, Part(ms, s, a, b)
    PROVE  KnownTo(s, b) = KnownTo(s, a) \o known(ms)
<1>1. PICK L \in Nat : L = b - a /\ a + L = b
  <2>1. b - a \in Nat /\ a + (b - a) = b
    OBVIOUS
  <2> QED BY <2>1
<1>2. ms \in Seq(S) /\ Len(ms) = L /\ \A x \in 1..L : ms[x] = s[a + x]
  <2>1. /\ SubSeq(s, a + 1, b) \in Seq(S) /\ Len(SubSeq(s, a + 1, b)) = b - a
        /\ \A x \in 1..b - a : SubSeq(s, a + 1, b)[x] = s[a + x]
    BY StretchFacts
  <2> QED BY <1>1, <2>1 DEF Part
<1>3. a \in 0..Len(s) /\ KnownTo(s, a) \in Seq(S)
  BY KnownType
<1>4. KnownTo(s, a + 0) = KnownTo(s, a) \o KnownTo(ms, 0)
  <2>1. KnownTo(ms, 0) = <<>> /\ a + 0 = a
    BY KnownNone
  <2>2. KnownTo(s, a) \o <<>> = KnownTo(s, a)
    BY <1>3
  <2> QED BY <2>1, <2>2
<1>5. ASSUME NEW j \in Nat, j + 1 <= L, KnownTo(s, a + j) = KnownTo(s, a) \o KnownTo(ms, j)
      PROVE  KnownTo(s, a + (j + 1)) = KnownTo(s, a) \o KnownTo(ms, j + 1)
  <2>1. PICK k \in 1..Len(ms) : k = j + 1 /\ k - 1 = j
    <3>1. L \in Nat /\ Len(ms) = L
      BY <1>1, <1>2
    <3>2. j + 1 \in 1..L /\ (j + 1) - 1 = j
      BY <1>5, <3>1
    <3> QED BY <3>1, <3>2
  <2>2. PICK i \in 1..Len(s) : i = a + k /\ i - 1 = a + j
    BY <1>1, <1>2, <2>1
  <2>3. KnownTo(s, a + j) = KnownTo(s, a) \o KnownTo(ms, j)
    BY <1>5
  <2>4. KnownTo(s, i) = IF Known(s[i]) THEN Append(KnownTo(s, i - 1), s[i]) ELSE KnownTo(s, i - 1)
    BY KnownStep
  <2>5. KnownTo(ms, k) = IF Known(ms[k]) THEN Append(KnownTo(ms, k - 1), ms[k]) ELSE KnownTo(ms, k - 1)
    BY <1>2, KnownStep
  <2>6. ms[k] = s[i] /\ s[i] \in S
    BY <1>2, <2>1, <2>2
  <2>7. KnownTo(ms, j) \in Seq(S)
    <3>1. j \in 0..Len(ms)
      BY <2>1
    <3> QED BY <1>2, <3>1, KnownType
  <2>8. PICK r \in Seq(S), q \in Seq(S), m \in S : r = KnownTo(s, a) /\ q = KnownTo(ms, j) /\ m = s[i]
    BY <1>3, <2>6, <2>7
  <2>9. Append(r \o q, m) = r \o Append(q, m)
    <3>1. r \in Seq(S) /\ q \in Seq(S) /\ m \in S
      BY <2>8
    <3> QED BY <3>1, SMTT(30)
  <2>10. KnownTo(s, i) = IF Known(m) THEN Append(r \o q, m) ELSE r \o q
    BY <2>2, <2>3, <2>4, <2>8
  <2>11. KnownTo(ms, k) = IF Known(m) THEN Append(q, m) ELSE q
    BY <2>1, <2>5, <2>6, <2>8
  <2>12. KnownTo(s, i) = r \o KnownTo(ms, k)
    BY <2>9, <2>10, <2>11
  <2>13. KnownTo(s, a + (j + 1)) = KnownTo(s, i) /\ KnownTo(ms, j + 1) = KnownTo(ms, k)
    BY <2>1, <2>2
  <2> QED BY <2>8, <2>12, <2>13
<1> DEFINE T == {j \in Nat : j <= L => KnownTo(s, a + j) = KnownTo(s, a) \o KnownTo(ms, j)}
<1>6. 0 \in T /\ \A j \in Nat : j \in T => j + 1 \in T
  <2>1. 0 \in T
    BY <1>4
  <2>2. ASSUME NEW j \in Nat, j \in T PROVE j + 1 \in T
    <3>1. j + 1 <= L => KnownTo(s, a + j) = KnownTo(s, a) \o KnownTo(ms, j)
      BY <1>1, <2>2
    <3>2. j + 1 <= L => KnownTo(s, a + (j + 1)) = KnownTo(s, a) \o KnownTo(ms, j + 1)
      BY <1>5, <3>1
    <3> QED BY <3>2
  <2> QED BY <2>1, <2>2
<1> HIDE DEF T
<1>7. L \in T
  BY <1>6, SetInduction
<1>8. KnownTo(ms, L) = known(ms)
  BY <1>2, KnownAll
<1>9. KnownTo(s, a + L) = KnownTo(s, a) \o KnownTo(ms, L)
  BY <1>7 DEF T
<1> QED BY <1>1, <1>8, <1>9

\* More bytes, no fewer frames.
LEMMA CompleteGrows ==
    ASSUME NEW msgs, Len(msgs) \in Nat, NEW E, Marks(E, msgs), NEW t \in Nat, NEW u \in Nat, t <= u,
           NEW c, Complete(E, msgs, c, t), NEW d, Complete(E, msgs, d, u)
    PROVE  c <= d
<1>1. c \in 0..Len(msgs) /\ d \in 0..Len(msgs) /\ E[c] <= t /\ \A i \in 0..Len(msgs) : E[i] \in Nat
  BY DEF Complete, Marks
<1> SUFFICES ASSUME d < c PROVE FALSE
  BY <1>1
<1>2. PICK e \in 0..Len(msgs) : e = d + 1 /\ (e = c \/ e < c)
  BY <1>1
<1>3. u < E[e]
  BY <1>1, <1>2 DEF Complete
<1>4. e = c \/ E[e] < E[c]
  BY <1>1, <1>2 DEF Marks
<1>5. E[e] \in Nat /\ E[c] \in Nat
  BY <1>1, <1>2
<1> QED BY <1>1, <1>3, <1>4, <1>5

\* So at one place one number of frames is complete.
LEMMA CompleteIsOne ==
    ASSUME NEW msgs, Len(msgs) \in Nat, NEW E, Marks(E, msgs), NEW t \in Nat,
           NEW c, Complete(E, msgs, c, t), NEW d, Complete(E, msgs, d, t)
    PROVE  c = d
<1>1. c <= d /\ d <= c
  BY CompleteGrows
<1>2. c \in 0..Len(msgs) /\ d \in 0..Len(msgs)
  BY DEF Complete
<1> QED BY <1>1, <1>2

\* Where the frames between two places end, seen from the first.
EndsBetween(F, E, c, d) == F = [j \in 0..d - c |-> E[c + j] - E[c]]

\* What is read between two frames' ends is the frames between them.
LEMMA ReadFrames ==
    ASSUME NEW msgs \in Seq(Sendable), NEW E, NEW bytes \in Seq(Bytes),
           Marks(E, msgs), Written(E, msgs, bytes),
           NEW c \in Nat, NEW d \in Nat, c <= d, d <= Len(msgs),
           NEW b \in Seq(Bytes), Stretch(b, bytes, E[c]),
           NEW t \in Nat, t = E[c] + Len(b), Complete(E, msgs, d, t),
           NEW ms, Part(ms, msgs, c, d), NEW F, EndsBetween(F, E, c, d)
    PROVE  Framed(ms, F, b) /\ F[Len(ms)] = E[d] - E[c]
<1>1. PICK N \in Nat : N = Len(msgs)
  OBVIOUS
<1>2. /\ \A i \in 0..N : E[i] \in Nat
      /\ \A i \in 1..N : E[i] = E[i - 1] + FrameLen(msgs[i])
      /\ \A i, j \in 0..N : i < j => E[i] < E[j]
  BY <1>1 DEF Marks
<1>3. PICK L \in Nat : L = d - c /\ c + L = d
  <2>1. d - c \in Nat /\ c + (d - c) = d
    OBVIOUS
  <2> QED BY <2>1
<1>4. ms \in Seq(Sendable) /\ Len(ms) = L /\ \A x \in 1..L : ms[x] = msgs[c + x]
  <2>1. /\ SubSeq(msgs, c + 1, d) \in Seq(Sendable) /\ Len(SubSeq(msgs, c + 1, d)) = d - c
        /\ \A x \in 1..d - c : SubSeq(msgs, c + 1, d)[x] = msgs[c + x]
    BY StretchFacts
  <2> QED BY <1>3, <2>1 DEF Part
<1>5. PICK o \in Nat : o = E[c]
  BY <1>1, <1>2
<1>6. PICK B \in Nat : B = Len(b) /\ t = o + B
  BY <1>5
<1>7. E[d] <= t /\ (d < N => t < E[d + 1])
  BY <1>1 DEF Complete
<1>8. F = [j \in 0..L |-> F[j]] /\ \A j \in 0..L : F[j] = E[c + j] - o
  BY <1>3, <1>5 DEF EndsBetween
<1>9. ASSUME NEW j \in 0..L
      PROVE  E[c + j] \in Nat /\ o <= E[c + j] /\ E[c + j] <= t /\ F[j] \in 0..B /\ o + F[j] = E[c + j]
  <2>1. PICK i \in 0..N : i = c + j /\ i <= d /\ c <= i
    BY <1>1, <1>3
  <2>2. c \in 0..N /\ d \in 0..N
    BY <1>1
  <2>3. E[i] \in Nat /\ E[d] \in Nat /\ E[c] \in Nat
    BY <1>2, <2>1, <2>2
  <2>4. i = c \/ c < i
    BY <2>1
  <2>5. i = d \/ i < d
    BY <2>1
  <2>6. o <= E[i]
    <3>1. c < i => E[c] < E[i]
      BY <1>2, <2>1, <2>2
    <3> QED BY <1>5, <2>3, <2>4, <3>1
  <2>7. E[i] <= E[d]
    <3>1. i < d => E[i] < E[d]
      BY <1>2, <2>1, <2>2
    <3> QED BY <2>3, <2>5, <3>1
  <2>8. E[i] <= t
    BY <1>7, <2>3, <2>7
  <2>9. E[i] - o \in 0..B /\ o + (E[i] - o) = E[i]
    <3>1. PICK v \in Nat : v = E[i] /\ o <= v /\ v <= o + B
      BY <1>6, <2>3, <2>6, <2>8
    <3>3. o \in Nat /\ B \in Nat /\ v \in Nat /\ o <= v /\ v <= o + B
      BY <1>5, <1>6, <3>1
    <3>2. v - o \in 0..B /\ o + (v - o) = v
      BY <3>3
    <3> QED BY <3>1, <3>2
  <2> QED BY <1>8, <2>1, <2>3, <2>6, <2>8, <2>9
<1>10. F \in [0..L -> 0..B]
  <2>1. \A j \in 0..L : F[j] \in 0..B
    BY <1>9
  <2> QED BY <1>8, <2>1
<1>11. F[0] = 0
  <2>1. 0 \in 0..L /\ c + 0 = c
    OBVIOUS
  <2>2. F[0] = o - o /\ o \in Nat
    BY <1>5, <1>8, <2>1
  <2> QED BY <2>2
<1>12. ASSUME NEW j \in 1..L
       PROVE  /\ F[j] = F[j - 1] + FrameLen(ms[j])
              /\ \A x \in 1..FrameLen(ms[j]) : b[F[j - 1] + x] = Byte(ms[j], x)
  <2>1. PICK i \in 1..N : i = c + j
    BY <1>1, <1>3
  <2>2. PICK h \in 0..L : h = j - 1
    OBVIOUS
  <2>3. c + h = i - 1 /\ j \in 0..L
    BY <2>1, <2>2
  <2>4. ms[j] = msgs[i] /\ msgs[i] \in Sendable
    BY <1>1, <1>4, <2>1
  <2>5. PICK f \in Nat : f = FrameLen(msgs[i])
    BY <2>4, EncodeFacts
  <2>6. E[i] = E[i - 1] + f
    BY <1>2, <2>5
  <2>7. /\ E[c + h] \in Nat /\ F[h] \in 0..B /\ o + F[h] = E[c + h]
        /\ E[c + j] \in Nat /\ F[j] \in 0..B /\ o + F[j] = E[c + j] /\ E[c + j] <= t
    BY <1>9, <2>2, <2>3
  <2>8. F[j] = F[h] + f
    <3>1. PICK u \in 0..B, v \in 0..B : u = F[h] /\ v = F[j]
      BY <2>7
    <3>2. o + v = (o + u) + f /\ o \in Nat
      BY <1>5, <2>1, <2>3, <2>6, <2>7, <3>1
    <3>3. u \in Nat /\ v \in Nat /\ f \in Nat
      BY <1>6, <2>5, <3>1
    <3>4. v = u + f
      BY <3>2, <3>3
    <3> QED BY <3>1, <3>4
  <2>9. ASSUME NEW x \in 1..f PROVE b[F[h] + x] = Byte(msgs[i], x)
    <3>1. PICK y \in 1..B : y = F[h] + x
      <4>1. PICK u \in 0..B, v \in 0..B : u = F[h] /\ v = F[j]
        BY <2>7
      <4>2. v = u + f /\ f \in Nat
        BY <2>5, <2>8, <4>1
      <4>4. x \in Nat /\ 1 <= x /\ x <= f
        BY <2>5
      <4>3. u + x \in 1..B
        <5>1. u \in Nat /\ v \in Nat /\ v <= B /\ B \in Nat /\ x \in Nat /\ f \in Nat /\ v = u + f /\ 1 <= x /\ x <= f
          BY <1>6, <4>1, <4>2, <4>4
        <5> QED BY <5>1
      <4> QED BY <4>1, <4>3
    <3>2. o + y = E[i - 1] + x
      <4>1. F[h] \in Nat /\ o \in Nat /\ x \in Nat
        BY <1>5, <2>5, <2>7
      <4>2. E[i - 1] = o + F[h]
        BY <2>3, <2>7
      <4>3. PICK u \in Nat : u = F[h]
        BY <4>1
      <4>4. o + (u + x) = (o + u) + x
        BY <4>1, <4>3
      <4> QED BY <3>1, <4>2, <4>3, <4>4
    <3>3. b[y] = bytes[o + y]
      BY <1>5, <1>6 DEF Stretch
    <3>4. bytes[E[i - 1] + x] = Byte(msgs[i], x)
      BY <1>1, <2>5, FrameIsThere
    <3> QED BY <3>1, <3>2, <3>3, <3>4
  <2> QED BY <2>2, <2>4, <2>5, <2>8, <2>9
<1>13. F[L] = E[d] - o /\ F[L] \in 0..B /\ o + F[L] = E[d] /\ E[d] \in Nat
  <2>1. L \in 0..L
    OBVIOUS
  <2> QED BY <1>3, <1>8, <1>9, <2>1
<1>14. Waits(b, F[L])
  <2>1. CASE B - F[L] < PrefixBytes
    BY <1>6, <2>1 DEF Waits
  <2>2. CASE ~(B - F[L] < PrefixBytes)
    <3>1. F[L] < B
      <4>1. PICK k \in 0..B : k = F[L]
        BY <1>13
      <4>2. ~(B - k < PrefixBytes) /\ PrefixBytes \in Nat \ {0} /\ B \in Nat
        BY <1>6, <2>2, <4>1, FrameAssumption
      <4>3. k < B
        BY <4>1, <4>2
      <4> QED BY <4>1, <4>3
    <3>2. E[d] < t
      BY <1>6, <1>13, <3>1
    <3>3. t <= Len(bytes) /\ Len(bytes) = E[N]
      BY <1>1, <1>5, <1>6 DEF Stretch, Written
    <3>4. d < N
      BY <1>1, <1>2, <1>6, <3>2, <3>3
    <3>5. PICK e \in 1..N : e = d + 1 /\ e - 1 = d
      BY <1>1, <3>4
    <3>6. msgs[e] \in Sendable
      BY <1>1
    <3>7. PICK f \in Nat : f = FrameLen(msgs[e]) /\ f = PrefixBytes + msgs[e].size /\ msgs[e].size <= MAX_FRAME_BYTES
                            /\ 1 \in 1..f
      <4>1. FrameLen(msgs[e]) \in Nat /\ FrameLen(msgs[e]) = PrefixBytes + msgs[e].size
        BY <3>6, EncodeFacts
      <4>2. msgs[e].size \in 1..MAX_FRAME_BYTES
        BY <3>6 DEF Sendable
      <4>3. 1 \in 1..FrameLen(msgs[e]) /\ msgs[e].size <= MAX_FRAME_BYTES
        <5>1. PICK z \in Nat : z = msgs[e].size /\ z <= MAX_FRAME_BYTES
          BY <4>2, FrameAssumption
        <5>2. PrefixBytes \in Nat \ {0} /\ FrameLen(msgs[e]) = PrefixBytes + z
          BY <4>1, <5>1, FrameAssumption
        <5>3. 1 \in 1..PrefixBytes + z
          BY <5>1, <5>2
        <5> QED BY <5>1, <5>2, <5>3
      <4> QED BY <4>1, <4>3
    <3>8. bytes[E[e - 1] + 1] = Byte(msgs[e], 1)
      <4>1. e \in 1..Len(msgs) /\ 1 \in 1..FrameLen(msgs[e])
        BY <1>1, <3>5, <3>7
      <4> QED BY <4>1, FrameIsThere
    <3>9. PICK y \in 1..B : y = F[L] + 1
      <4>1. PICK u \in 0..B : u = F[L] /\ u < B
        BY <1>13, <3>1
      <4>2. u + 1 \in 1..B
        BY <1>6, <4>1
      <4> QED BY <4>1, <4>2
    <3>10. b[y] = bytes[o + y]
      BY <1>5, <1>6 DEF Stretch
    <3>11. o + y = E[e - 1] + 1
      <4>1. F[L] \in Nat /\ o \in Nat
        BY <1>5, <1>13
      <4>2. E[e - 1] = o + F[L]
        BY <1>13, <3>5
      <4>3. PICK u \in Nat : u = F[L]
        BY <4>1
      <4>4. o + (u + 1) = (o + u) + 1
        BY <4>1, <4>3
      <4> QED BY <3>9, <4>2, <4>3, <4>4
    <3>12. declared(b, F[L] + 1) = msgs[e].size
      <4>1. b[F[L] + 1] = Byte(msgs[e], 1)
        BY <3>8, <3>9, <3>10, <3>11
      <4> QED BY <4>1 DEF declared, Byte
    <3>13. t < E[e] /\ E[e] = E[d] + f
      BY <1>2, <1>7, <3>4, <3>5, <3>7
    <3>14. B - F[L] < f
      <4>5. E[d] \in Nat /\ F[L] \in 0..B /\ E[e] \in Nat
        BY <1>2, <1>13, <3>5
      <4>1. PICK u \in Nat, v \in Nat, w \in 0..B : u = E[d] /\ v = E[e] /\ w = F[L]
        BY <4>5
      <4>2. o + w = u /\ t < v /\ v = u + f /\ t = o + B
        BY <1>6, <1>13, <3>13, <4>1
      <4>3. o \in Nat /\ B \in Nat /\ f \in Nat
        BY <1>5, <1>6, <3>7
      <4>4. B - w < f
        <5>1. /\ u \in Nat /\ v \in Nat /\ w \in Nat /\ o \in Nat /\ B \in Nat /\ f \in Nat
              /\ o + w = u /\ o + B < v /\ v = u + f
          <6>1. u \in Nat /\ v \in Nat /\ w \in 0..B
            BY <4>1
          <6>2. o \in Nat /\ B \in Nat /\ f \in Nat
            BY <4>3
          <6>3. w \in Nat
            BY <6>1, <6>2
          <6>4. o + w = u /\ o + B < v /\ v = u + f
            BY <4>2
          <6> QED BY <6>1, <6>2, <6>3, <6>4
        <5> QED BY <5>1
      <4> QED BY <4>1, <4>4
    <3> QED BY <1>6, <3>7, <3>12, <3>14 DEF Waits
  <2> QED BY <2>1, <2>2
<1>15. Framed(ms, F, b)
  BY <1>4, <1>6, <1>10, <1>11, <1>12, <1>14 DEF Framed
<1> QED BY <1>4, <1>5, <1>13, <1>15

-----------------------------------------------------------------------------
(* What the runtime reads *)

\* The first of q is one of the first n entries that are kept.
FirstOf(q, s, keep, n) == q \in Seq(Messages) /\ (q # <<>> => \E x \in 1..n : x \in keep /\ q[1] = s[x])

\* A frame that decodes is a message's body.
LEMMA DecodesFacts ==
    ASSUME NEW fr \in Results, Decodes(fr)
    PROVE  /\ MessageOf(fr) \in Messages /\ Known(MessageOf(fr)) /\ fr.body # <<>> /\ fr.body \in Seq(Bytes)
           /\ fr.body = SubSeq(encode(MessageOf(fr)), PrefixBytes + 1, FrameLen(MessageOf(fr)))
<1>1. fr.body # <<>> /\ fr.body = SubSeq(encode(MessageOf(fr)), PrefixBytes + 1, FrameLen(MessageOf(fr)))
  BY DEF Decodes, IsBody, MessageOf
<1>2. Known(MessageOf(fr))
  BY DEF Decodes, MessageOf, Known
<1>3. fr.body \in Seq(Bytes)
  BY DEF Results
<1>4. fr.body[1] \in Bytes
  BY <1>1, <1>3
<1>5. MessageOf(fr) \in Messages
  BY <1>4 DEF Bytes, MessageOf
<1> QED BY <1>1, <1>2, <1>3, <1>5

\* The first message of a read is the message of a frame that decodes.
LEMMA DecodedFirst ==
    ASSUME NEW frames \in Seq(Results)
    PROVE  /\ DecodedOf(frames) \in Seq(Messages)
           /\ DecodedOf(frames) # <<>> =>
                \E x \in 1..Len(frames) : Decodes(frames[x]) /\ DecodedOf(frames)[1] = MessageOf(frames[x])
<1>1. PICK L \in Nat : L = Len(frames)
  OBVIOUS
<1>2. PICK keep : keep = {x \in 1..L : Decodes(frames[x])}
  OBVIOUS
<1>3. PICK s : s = [x \in 1..L |-> MessageOf(frames[x])]
  OBVIOUS
<1>4. \A x \in 1..L : (x \in keep <=> Decodes(frames[x])) /\ s[x] = MessageOf(frames[x]) /\ (x \in keep => s[x] \in Messages)
  <2> TAKE x \in 1..L
  <2>1. frames[x] \in Results
    BY <1>1
  <2>2. (x \in keep <=> Decodes(frames[x])) /\ s[x] = MessageOf(frames[x])
    BY <1>2, <1>3
  <2> QED BY <2>1, <2>2, DecodesFacts
<1> DEFINE Out(g) == g = [n \in 0..L |-> IF n = 0 THEN <<>> ELSE IF n \in keep THEN Append(g[n - 1], s[n]) ELSE g[n - 1]]
           Dec(g) == g = [i \in 0..L |-> IF i = 0 THEN <<>>
                            ELSE IF Decodes(frames[i]) THEN Append(g[i - 1], MessageOf(frames[i])) ELSE g[i - 1]]
<1>5. ASSUME NEW g PROVE Out(g) <=> Dec(g)
  <2>1. [n \in 0..L |-> IF n = 0 THEN <<>> ELSE IF n \in keep THEN Append(g[n - 1], s[n]) ELSE g[n - 1]]
        = [i \in 0..L |-> IF i = 0 THEN <<>>
             ELSE IF Decodes(frames[i]) THEN Append(g[i - 1], MessageOf(frames[i])) ELSE g[i - 1]]
    BY <1>4
  <2> QED BY <2>1
<1>6. DecodedOf(frames) = (CHOOSE g : Dec(g))[L]
  BY <1>1 DEF DecodedOf
<1>7. (CHOOSE g : Dec(g)) = (CHOOSE g : Out(g))
  <2> HIDE DEF Dec, Out
  <2> QED BY <1>5
<1>8. PICK h : h = (CHOOSE g : Out(g))
  OBVIOUS
<1>9. Out(h)
  <2>1. \E g : Keeping(g, s, keep, L)
    BY KeepingExists
  <2>2. \E g : Out(g)
    BY <2>1 DEF Keeping
  <2> HIDE DEF Out
  <2> QED BY <1>8, <2>2
<1>10. h[0] = <<>> /\ \A n \in 1..L : h[n] = IF n \in keep THEN Append(h[n - 1], s[n]) ELSE h[n - 1]
  <2>1. 0 \in 0..L
    BY <1>1
  <2>2. h[0] = <<>>
    BY <1>9, <2>1
  <2>3. ASSUME NEW n \in 1..L PROVE h[n] = IF n \in keep THEN Append(h[n - 1], s[n]) ELSE h[n - 1]
    <3>1. n \in 0..L /\ n # 0
      BY <1>1
    <3> QED BY <1>9, <3>1
  <2> QED BY <2>2, <2>3
<1>11. DecodedOf(frames) = h[L]
  BY <1>6, <1>7, <1>8
<1> HIDE DEF Out, Dec
<1>12. FirstOf(h[0], s, keep, 0)
  BY <1>10, EmptySeq DEF FirstOf
<1>13. ASSUME NEW n \in 1..L, NEW i \in 0..L, i = n - 1, FirstOf(h[i], s, keep, i) PROVE FirstOf(h[n], s, keep, n)
  <2>1. PICK q \in Seq(Messages) : q = h[i] /\ (q # <<>> => \E x \in 1..i : x \in keep /\ q[1] = s[x])
    BY <1>13 DEF FirstOf
  <2>2. \A x \in 1..i : x \in 1..n
    BY <1>1, <1>13
  <2>3. CASE n \notin keep
    <3>1. h[n] = q
      BY <1>10, <1>13, <2>1, <2>3
    <3> QED BY <2>1, <2>2, <3>1 DEF FirstOf
  <2>4. CASE n \in keep
    <3>1. PICK m \in Messages : m = s[n]
      BY <1>4, <2>4
    <3>2. h[n] = Append(q, m)
      BY <1>10, <1>13, <2>1, <2>4, <3>1
    <3>3. PICK a \in Seq(Messages) : a = Append(q, m) /\ (q # <<>> => a[1] = q[1]) /\ (q = <<>> => a[1] = m)
      <4>1. q \in Seq(Messages) /\ m \in Messages
        BY <2>1, <3>1
      <4>2. /\ Append(q, m) \in Seq(Messages)
            /\ \A i_1 \in 1..Len(q) : Append(q, m)[i_1] = q[i_1]
            /\ Append(q, m)[Len(q) + 1] = m
        BY <4>1, AppendProperties
      <4>3. q # <<>> => 1 \in 1..Len(q)
        BY <4>1
      <4>4. q = <<>> => Len(q) + 1 = 1
        OBVIOUS
      <4>5. q # <<>> => Append(q, m)[1] = q[1]
        BY <4>2, <4>3
      <4>6. q = <<>> => Append(q, m)[1] = m
        BY <4>2, <4>4
      <4> QED BY <4>2, <4>5, <4>6
    <3>4. \E x \in 1..n : x \in keep /\ a[1] = s[x]
      <4>1. CASE q = <<>>
        BY <2>4, <3>1, <3>3, <4>1
      <4>2. CASE q # <<>>
        BY <2>1, <2>2, <3>3, <4>2
      <4> QED BY <4>1, <4>2
    <3> QED BY <3>2, <3>3, <3>4 DEF FirstOf
  <2> QED BY <2>3, <2>4
<1> DEFINE T == {n \in Nat : n <= L => FirstOf(h[n], s, keep, n)}
<1>14. 0 \in T /\ \A n \in Nat : n \in T => n + 1 \in T
  <2>1. 0 \in T
    BY <1>12
  <2>2. ASSUME NEW i \in Nat, i \in T PROVE i + 1 \in T
    <3> SUFFICES ASSUME i + 1 <= L PROVE FirstOf(h[i + 1], s, keep, i + 1)
      OBVIOUS
    <3>1. PICK n \in 1..L : n = i + 1 /\ i = n - 1 /\ i \in 0..L
      BY <1>1
    <3>2. FirstOf(h[i], s, keep, i)
      BY <1>1, <2>2
    <3> QED BY <1>13, <3>1, <3>2
  <2> QED BY <2>1, <2>2
<1> HIDE DEF T
<1>15. L \in T
  BY <1>14, SetInduction
<1>16. FirstOf(h[L], s, keep, L)
  BY <1>15 DEF T
<1> QED BY <1>1, <1>4, <1>11, <1>16 DEF FirstOf

-----------------------------------------------------------------------------
(* What a read of either receiver amounts to *)

\* What the decoder is left with.
Rest(n) == SubSeq(Arrived(n), push(Arrived(n)).keep + 1, Len(Arrived(n)))

\* From c complete frames to d: what the bridge forwards, and where its decoder stands.
Forwards(E, n, c, d) ==
    /\ Complete(E, sent, c, taken) /\ got = KnownTo(sent, c)
    /\ Complete(E, sent, d, taken + n) /\ c <= d
    /\ got \o DecodedOf(push(Arrived(n)).frames) = KnownTo(sent, d)
    /\ (taken + n) - Len(Rest(n)) = E[d]

\* A read of the bridge forwards what it completes.
LEMMA BridgeForwards ==
    ASSUME FramesTypes, Buffered, NEW E, Marks(E, sent), Written(E, sent, stream), InStep(E), dir = "toClient",
           NEW n \in Nat, taken + n <= relayed
    PROVE  \E c, d \in 0..Len(sent) : Forwards(E, n, c, d)
<1>1. /\ sent \in Seq(Sendable) /\ stream \in Seq(Bytes) /\ taken \in Nat /\ taken + n <= Len(stream)
      /\ Len(sent) \in Nat
  <2>1. sent \in Seq(Sendable) /\ stream \in Seq(Bytes) /\ relayed \in 0..Len(stream) /\ taken \in 0..relayed
    BY DEF FramesTypes
  <2>2. taken \in Nat /\ taken + n <= Len(stream) /\ Len(sent) \in Nat
    BY <2>1
  <2> QED BY <2>1, <2>2
<1>2. PICK msgs \in Seq(Sendable) : msgs = sent
  BY <1>1
<1>3. PICK c \in 0..Len(msgs) : Complete(E, msgs, c, taken) /\ got = KnownTo(msgs, c) /\ taken - Len(buf) = E[c]
  BY <1>2 DEF InStep
<1>4. PICK u \in Nat : u = taken + n /\ u <= Len(stream)
  BY <1>1
<1>5. Marks(E, msgs) /\ Written(E, msgs, stream)
  BY <1>2
<1>6. PICK d \in 0..Len(msgs) : Complete(E, msgs, d, u)
  BY <1>4, <1>5, CompleteExists
<1>7. c <= d /\ c \in Nat /\ d \in Nat /\ d <= Len(msgs)
  <2>1. taken \in Nat /\ taken <= u /\ Len(msgs) \in Nat
    BY <1>1, <1>2, <1>4
  <2>2. c <= d
    BY <1>3, <1>4, <1>5, <1>6, <2>1, CompleteGrows
  <2> QED BY <1>3, <1>6, <2>1, <2>2
<1>8. PICK b \in Seq(Bytes) : b = Arrived(n)
  BY ArrivedFacts
<1>9. PICK o \in Nat : o = taken - Len(buf) /\ o = E[c]
  BY <1>3, ArrivedFacts
<1>10. Len(b) = Len(buf) + n /\ Len(buf) \in Nat
  BY <1>8, ArrivedFacts
<1>11. o + Len(b) = u
  <2>1. PICK l \in Nat : l = Len(buf)
    BY <1>10
  <2>2. o = taken - l /\ Len(b) = l + n /\ taken \in Nat
    BY <1>1, <1>9, <1>10, <2>1
  <2> QED BY <1>4, <2>1, <2>2
<1>12. Stretch(b, stream, E[c])
  <2>1. \A x \in 1..Len(b) : b[x] = stream[o + x]
    BY <1>8, <1>9, <1>10, ArrivedFacts
  <2>2. o + Len(b) <= Len(stream)
    BY <1>4, <1>11
  <2> QED BY <1>9, <2>1, <2>2 DEF Stretch
<1>13. PICK ms : Part(ms, msgs, c, d)
  BY DEF Part
<1>14. PICK F : EndsBetween(F, E, c, d)
  BY DEF EndsBetween
<1>15. Framed(ms, F, b) /\ F[Len(ms)] = E[d] - E[c]
  <2>1. u = E[c] + Len(b)
    BY <1>9, <1>11
  <2>2. msgs \in Seq(Sendable) /\ stream \in Seq(Bytes) /\ b \in Seq(Bytes)
    BY <1>1, <1>2, <1>8
  <2> QED BY <1>4, <1>5, <1>6, <1>7, <1>12, <1>13, <1>14, <2>1, <2>2, ReadFrames
<1>16. DecodedOf(push(b).frames) = known(ms) /\ push(b).keep = E[d] - E[c]
  BY <1>8, <1>15, FramedPush
<1>17. KnownTo(msgs, d) = KnownTo(msgs, c) \o known(ms)
  <2>1. msgs \in Seq(Sendable) /\ c \in Nat /\ d \in Nat /\ c <= d /\ d <= Len(msgs) /\ Part(ms, msgs, c, d)
    BY <1>2, <1>7, <1>13
  <2> QED BY <2>1, KnownConcat
<1>18. (taken + n) - Len(Rest(n)) = E[d]
  <2>1. (taken + n) - Len(Rest(n)) = o + push(b).keep
    BY <1>8, <1>9, KeptFacts DEF Rest
  <2>2. E[d] \in Nat
    BY <1>5, <1>6 DEF Marks
  <2>3. PICK v \in Nat : v = E[d]
    BY <2>2
  <2>4. o + (v - o) = v
    BY <1>9, <2>3
  <2> QED BY <1>9, <1>16, <2>1, <2>3, <2>4
<1>19. Forwards(E, n, c, d)
  <2>1. got \o DecodedOf(push(Arrived(n)).frames) = KnownTo(sent, d)
    BY <1>2, <1>3, <1>8, <1>16, <1>17
  <2> QED BY <1>2, <1>3, <1>4, <1>6, <1>7, <1>18, <2>1 DEF Forwards
<1> QED BY <1>2, <1>3, <1>6, <1>19

\* What a frame decodes to is a sent message whose last byte is number t + 1 at least and w at most.
SentWithin(fr, msgs, E, t, w) ==
    \E c \in 1..Len(msgs) : t < E[c] /\ E[c] <= w /\ msgs[c] = MessageOf(fr) /\ Known(msgs[c])

\* A frame that decodes and ends behind place l of what has been read is the c-th message's.
LEMMA DecodedIsSent ==
    ASSUME NEW msgs \in Seq(Sendable), NEW E, NEW bytes \in Seq(Bytes), Marks(E, msgs), Written(E, msgs, bytes),
           NEW b \in Seq(Bytes), NEW o \in Nat, Stretch(b, bytes, o), NEW l \in 0..Len(b),
           NEW fr \in Results, Decodes(fr), Fresh(fr, b, l), NEW t, t = o + l, NEW w, w = o + Len(b)
    PROVE  SentWithin(fr, msgs, E, t, w)
<1> SUFFICES \E c \in 1..Len(msgs) : /\ t < E[c] /\ E[c] <= w
                                     /\ msgs[c] = MessageOf(fr) /\ Known(msgs[c])
  BY DEF SentWithin
<1>1. PICK m \in Messages : m = MessageOf(fr) /\ Known(m)
  BY DecodesFacts
<1>2. PICK body \in Seq(Bytes) : /\ body = fr.body /\ body # <<>> /\ body[1].of = m
                                 /\ body = SubSeq(encode(m), PrefixBytes + 1, FrameLen(m))
  BY <1>1, DecodesFacts DEF MessageOf
<1>3. PICK u \in 1..Len(b), v \in 1..Len(b) : l < v /\ u <= v /\ body = SubSeq(b, u, v)
  BY <1>2 DEF Fresh
<1>4. Len(b) \in Nat /\ o + Len(b) <= Len(bytes) /\ Len(bytes) \in Nat /\ \A x \in 1..Len(b) : b[x] = bytes[o + x]
  BY DEF Stretch
<1>5. /\ Len(body) = v - u + 1 /\ body[1] = b[u] /\ body[v - u + 1] = b[v]
  <2>1. PICK k \in Nat : k = v - u
    BY <1>3, <1>4
  <2>2. \A x \in u..v : b[x] \in Bytes
    BY <1>3, <1>4
  <2>3. u \in Int /\ v \in Int
    BY <1>3
  <2>4. Len(SubSeq(b, u, v)) = v - u + 1 /\ \A x \in 1..v - u + 1 : SubSeq(b, u, v)[x] = b[u + x - 1]
    <3>1. Len(SubSeq(b, u, v)) = IF u <= v THEN v - u + 1 ELSE 0
      BY <2>2, <2>3, SubSeqProperties
    <3>2. \A x \in 1..v - u + 1 : SubSeq(b, u, v)[x] = b[u + x - 1]
      BY <2>2, <2>3, SubSeqProperties
    <3> QED BY <1>3, <3>1, <3>2
  <2>5. 1 \in 1..v - u + 1 /\ v - u + 1 \in 1..v - u + 1 /\ u + 1 - 1 = u /\ u + (v - u + 1) - 1 = v
    BY <1>3, <2>3
  <2> QED BY <1>3, <2>4, <2>5
<1>6. ASSUME NEW x \in 1..Len(b)
      PROVE  \E p \in Nat : /\ p = o + x
                            /\ \E c \in 1..Len(msgs) : E[c - 1] < p /\ p <= E[c] /\ b[x] = Byte(msgs[c], p - E[c - 1])
  <2>1. PICK p \in 1..Len(bytes) : p = o + x
    BY <1>4
  <2>2. b[x] = bytes[p]
    BY <1>4, <2>1
  <2>3. PICK c \in 1..Len(msgs) : E[c - 1] < p /\ p <= E[c] /\ bytes[p] = Byte(msgs[c], p - E[c - 1])
    BY <2>1 DEF Written
  <2>4. p \in Nat
    BY <1>4, <2>1
  <2>5. \E d \in 1..Len(msgs) : E[d - 1] < p /\ p <= E[d] /\ b[x] = Byte(msgs[d], p - E[d - 1])
    BY <2>2, <2>3
  <2> QED BY <2>1, <2>4, <2>5
<1>7. m \in Sendable
  <2>1. PICK p \in Nat : \E c \in 1..Len(msgs) : E[c - 1] < p /\ p <= E[c] /\ b[u] = Byte(msgs[c], p - E[c - 1])
    BY <1>3, <1>6
  <2>3. PICK c \in 1..Len(msgs) : b[u] = Byte(msgs[c], p - E[c - 1])
    BY <2>1
  <2>4. b[u].of = msgs[c]
    BY <2>3 DEF Byte
  <2>5. b[u].of = m
    BY <1>2, <1>5
  <2>2. m = msgs[c]
    BY <2>4, <2>5
  <2> QED BY <2>2, <2>3
<1>8. BodyOf(m, body)
  BY <1>2, <1>7, BodyOfFacts
<1>9. PICK f \in Nat : f = FrameLen(m) /\ f = PrefixBytes + m.size /\ m.size \in Nat
  BY <1>7, EncodeFacts
<1>10. b[v] = Byte(m, f)
  <2>1. Len(body) = m.size /\ m.size \in 1..m.size
    <3>1. Len(body) = m.size
      BY <1>8 DEF BodyOf
    <3>2. Len(body) \in Nat \ {0}
      BY <1>2, EmptySeq
    <3> QED BY <1>9, <3>1, <3>2
  <2>2. body[m.size] = Byte(m, PrefixBytes + m.size)
    BY <1>8, <2>1 DEF BodyOf
  <2> QED BY <1>5, <1>9, <2>1, <2>2
<1>15. PICK p \in Nat : /\ p = o + v
                        /\ \E c \in 1..Len(msgs) : E[c - 1] < p /\ p <= E[c] /\ b[v] = Byte(msgs[c], p - E[c - 1])
  BY <1>3, <1>6
<1>11. PICK c \in 1..Len(msgs) : E[c - 1] < p /\ p <= E[c] /\ b[v] = Byte(msgs[c], p - E[c - 1])
  BY <1>15
<1>12. msgs[c] = m /\ f = p - E[c - 1]
  <2>1. PICK g, k : g = p - E[c - 1] /\ k = msgs[c]
    OBVIOUS
  <2>2. Byte(m, f) = Byte(k, g)
    BY <1>10, <1>11, <2>1
  <2>3. m = k /\ f = g
    BY <2>2 DEF Byte
  <2> QED BY <2>1, <2>3
<1>13. E[c] = p
  <2>1. PICK a \in 0..Len(msgs) : a = c - 1 /\ c \in 0..Len(msgs)
    BY <1>11
  <2>2. E[a] \in Nat /\ E[c] \in Nat
    BY <2>1 DEF Marks
  <2>3. E[c] = E[a] + f
    BY <1>9, <1>11, <1>12, <2>1 DEF Marks
  <2>4. PICK i \in Nat : i = E[a]
    BY <2>2
  <2>5. f = p - i
    BY <1>12, <2>1, <2>4
  <2>6. p \in Nat /\ i \in Nat
    BY <1>15, <2>4
  <2>7. i + f = p
    BY <2>5, <2>6
  <2> QED BY <2>3, <2>4, <2>7
<1>14. o + l < o + v /\ o + v <= o + Len(b)
  <2>1. PICK B \in Nat : B = Len(b)
    BY <1>4
  <2>2. v \in Nat /\ l \in Nat /\ l < v /\ v <= B
    BY <1>3, <2>1
  <2>3. o + l < o + v /\ o + v <= o + B
    BY <2>1, <2>2
  <2> QED BY <2>1, <2>3
<1>16. t < E[c] /\ E[c] <= w
  BY <1>13, <1>14, <1>15
<1> QED BY <1>1, <1>11, <1>12, <1>16

\* A known message between a and b is one of what is kept up to b and not up to a.
LEMMA KnownBetween ==
    ASSUME NEW S, NEW s \in Seq(S), NEW a \in 0..Len(s), NEW b \in 0..Len(s), NEW c \in 1..Len(s),
           a < c, c <= b, Known(s[c])
    PROVE  \E i \in Len(KnownTo(s, a)) + 1..Len(KnownTo(s, b)) : known(s)[i] = s[c]
<1>1. PICK L \in Nat : L = Len(s)
  OBVIOUS
<1>2. PICK e \in 0..Len(s) : e = c - 1 /\ e \in a..Len(s)
  BY <1>1
<1>3. c \in 0..Len(s) /\ b \in c..Len(s) /\ L \in c..Len(s) /\ L \in 0..Len(s)
  BY <1>1
<1>4. KnownTo(s, c) = Append(KnownTo(s, e), s[c])
  BY <1>2, KnownStep
<1>5. Begins(KnownTo(s, a), KnownTo(s, e)) /\ Begins(KnownTo(s, c), KnownTo(s, b)) /\ Begins(KnownTo(s, c), KnownTo(s, L))
  BY <1>2, <1>3, KnownBegins
<1>6. PICK qa \in Seq(S), qe \in Seq(S), qb \in Seq(S), m \in S :
         qa = KnownTo(s, a) /\ qe = KnownTo(s, e) /\ qb = KnownTo(s, b) /\ m = s[c]
  BY <1>2, KnownType
<1>7. PICK qc \in Seq(S) : qc = KnownTo(s, c) /\ Len(qc) = Len(qe) + 1 /\ qc[Len(qe) + 1] = m
  <2>1. qe \in Seq(S) /\ m \in S
    BY <1>6
  <2>2. Append(qe, m) \in Seq(S) /\ Len(Append(qe, m)) = Len(qe) + 1 /\ Append(qe, m)[Len(qe) + 1] = m
    BY <2>1, AppendProperties
  <2> QED BY <1>4, <1>6, <2>2
<1>8. Len(qa) <= Len(qe) /\ Len(qc) <= Len(qb)
  BY <1>5, <1>6, <1>7 DEF Begins
<1>9. Len(qa) \in Nat /\ Len(qe) \in Nat /\ Len(qb) \in Nat
  BY <1>6
<1>10. PICK i \in Nat : i = Len(qe) + 1 /\ i \in 1..Len(qc) /\ i \in Len(qa) + 1..Len(qb)
  <2>1. PICK na \in Nat, ne \in Nat, nb \in Nat, nc \in Nat : na = Len(qa) /\ ne = Len(qe) /\ nb = Len(qb) /\ nc = Len(qc)
    BY <1>7, <1>9
  <2>2. na <= ne /\ nc = ne + 1 /\ nc <= nb
    BY <1>7, <1>8, <2>1
  <2>3. ne + 1 \in Nat /\ ne + 1 \in 1..nc /\ ne + 1 \in na + 1..nb
    BY <2>1, <2>2
  <2> QED BY <2>1, <2>3
<1>11. KnownTo(s, L)[i] = qc[i]
  BY <1>5, <1>7, <1>10 DEF Begins
<1>12. KnownTo(s, L) = known(s)
  BY <1>1, KnownAll
<1>13. known(s)[i] = s[c]
  BY <1>6, <1>7, <1>10, <1>11, <1>12
<1> QED BY <1>6, <1>10, <1>13

-----------------------------------------------------------------------------
(* Steps of the channel *)

\* What a read adds to what was got, when a of the known messages were settled before and b are now.
Adds(old, new, a, b) ==
    /\ dir = "toServer" => new = old \/ \E i \in a + 1..b : new = Append(old, known(sent)[i])
    /\ dir = "toClient" => new = old \o SubSeq(known(sent), a + 1, b)
    /\ a = b => new = old

\* A read is a step of the channel.
LEMMA ReadIsStep ==
    ASSUME dir \in {"toClient", "toServer"}, dir' = dir, sent' = sent, got \in Seq(Messages),
           NEW a \in Nat, Settled = a, NEW b \in Nat, Settled' = b, a <= b, b <= Len(known(sent)),
           NEW new, got' = new, Adds(got, new, a, b)
    PROVE  [Channel!Next]_(Channel!vars)
<1>1. known(sent)' = known(sent) /\ (dir = "toServer")' = (dir = "toServer")
  BY DEF known
<1>2. CASE a = b
  <2>1. got' = got /\ Settled' = Settled
    BY <1>2 DEF Adds
  <2> QED BY <1>1, <2>1 DEF Channel!vars
<1>3. CASE a # b
  <2>1. b \in a + 1..Len(known(sent))
    BY <1>3
  <2>2. CASE dir = "toServer"
    <3>1. PICK d \in {<<>>} \cup {<<known(sent)[i]>> : i \in a + 1..b} : got' = got \o d
      <4>1. CASE new = got
        <5>1. got \o <<>> = got
          BY ConcatEmptySeq
        <5> QED BY <4>1, <5>1
      <4>2. CASE \E i \in a + 1..b : new = Append(got, known(sent)[i])
        <5>1. PICK i \in a + 1..b : new = Append(got, known(sent)[i])
          BY <4>2
        <5>2. Append(got, known(sent)[i]) = got \o <<known(sent)[i]>>
          OBVIOUS
        <5> QED BY <5>1, <5>2
      <4> QED BY <2>2, <4>1, <4>2 DEF Adds
    <3>2. Channel!Deliver
      BY <1>1, <2>1, <2>2, <3>1 DEF Channel!Deliver
    <3> QED BY <3>2 DEF Channel!Next
  <2>3. CASE dir = "toClient"
    <3>1. got' = got \o SubSeq(known(sent), a + 1, b)
      BY <2>3 DEF Adds
    <3>2. Channel!Deliver
      BY <1>1, <2>1, <2>3, <3>1 DEF Channel!Deliver
    <3> QED BY <3>2 DEF Channel!Next
  <2> QED BY <2>2, <2>3
<1> QED BY <1>2, <1>3
\* What a read settles.
LEMMA ReadSettles ==
    ASSUME FramesTypes, NEW E, Marks(E, sent), Written(E, sent, stream), NEW n \in Nat, taken + n <= relayed,
           sent' = sent, stream' = stream, taken' = taken + n,
           NEW c, Complete(E, sent, c, taken), NEW d, Complete(E, sent, d, taken + n)
    PROVE  \E a, b \in Nat : /\ a = Len(KnownTo(sent, c)) /\ b = Len(KnownTo(sent, d))
                             /\ Settled = a /\ Settled' = b /\ c <= d /\ a <= b /\ b <= Len(known(sent))
<1>1. PICK msgs \in Seq(Sendable), bytes \in Seq(Bytes), t \in Nat, u \in Nat :
         /\ msgs = sent /\ bytes = stream /\ t = taken /\ u = taken + n /\ t <= u /\ u <= Len(bytes)
  <2>1. sent \in Seq(Sendable) /\ stream \in Seq(Bytes) /\ relayed \in 0..Len(stream) /\ taken \in 0..relayed
    BY DEF FramesTypes
  <2>2. taken \in Nat /\ taken + n \in Nat /\ taken <= taken + n /\ taken + n <= Len(stream)
    BY <2>1
  <2> QED BY <2>1, <2>2
<1>2. /\ Numbered(msgs) /\ Marks(E, msgs) /\ Written(E, msgs, bytes) /\ Len(msgs) \in Nat
      /\ Complete(E, msgs, c, t) /\ Complete(E, msgs, d, u) /\ t <= Len(bytes) /\ Len(bytes) \in Nat
  <2>1. Numbered(msgs)
    BY <1>1 DEF FramesTypes, Numbered
  <2>2. t <= Len(bytes)
    BY <1>1
  <2> QED BY <1>1, <2>1, <2>2
<1>3. c <= d /\ c \in 0..Len(msgs) /\ d \in c..Len(msgs)
  <2>1. c <= d
    BY <1>1, <1>2, CompleteGrows
  <2>2. c \in 0..Len(msgs) /\ d \in 0..Len(msgs)
    BY <1>2 DEF Complete
  <2> QED BY <1>2, <2>1, <2>2
<1>4. SettledAt(msgs, bytes, t) = Len(KnownTo(msgs, c)) /\ SettledAt(msgs, bytes, u) = Len(KnownTo(msgs, d))
  BY <1>1, <1>2, SettledIs
<1>5. Settled = SettledAt(msgs, bytes, t)
  BY <1>1 DEF Settled, SettledAt, known, FrameLen
<1>6. Settled' = SettledAt(msgs, bytes, u)
  BY <1>1 DEF Settled, SettledAt, known, FrameLen
<1>7. PICK qc \in Seq(Sendable), qd \in Seq(Sendable), ql \in Seq(Sendable) :
         qc = KnownTo(msgs, c) /\ qd = KnownTo(msgs, d) /\ ql = known(msgs) /\ Begins(qc, qd) /\ Begins(qd, ql)
  <2>1. PICK l \in Nat : l = Len(msgs) /\ l \in d..Len(msgs) /\ d \in 0..Len(msgs) /\ l \in 0..Len(msgs)
    BY <1>2, <1>3
  <2>2. KnownTo(msgs, c) \in Seq(Sendable) /\ KnownTo(msgs, d) \in Seq(Sendable) /\ KnownTo(msgs, l) \in Seq(Sendable)
    BY <1>1, <1>3, <2>1, KnownType
  <2>3. Begins(KnownTo(msgs, c), KnownTo(msgs, d)) /\ Begins(KnownTo(msgs, d), KnownTo(msgs, l))
    BY <1>1, <1>3, <2>1, KnownBegins
  <2>4. KnownTo(msgs, l) = known(msgs)
    BY <1>1, <2>1, KnownAll
  <2> QED BY <2>2, <2>3, <2>4
<1>8. Len(qc) \in Nat /\ Len(qd) \in Nat /\ Len(qc) <= Len(qd) /\ Len(qd) <= Len(ql)
  BY <1>7 DEF Begins
<1> QED BY <1>1, <1>3, <1>4, <1>5, <1>6, <1>7, <1>8

\* A read keeps the types and the buffer.
LEMMA ReadKeeps ==
    ASSUME FramesTypes, dir' = dir, sent' = sent, stream' = stream, relayed' = relayed,
           NEW n \in Nat, taken + n <= relayed, taken' = taken + n, got' \in Seq(Messages),
           NEW held, buf' = held, Holds(held, stream, taken + n)
    PROVE  FramesTypes' /\ Buffered'
<1>1. taken + n \in 0..relayed
  BY DEF FramesTypes
<1>2. FramesTypes'
  BY <1>1 DEF FramesTypes
<1>3. PICK t : t = taken + n
  OBVIOUS
<1>4. Buffered'
  BY <1>3, HoldsNext
<1> QED BY <1>2, <1>4

\* The bridge's read.
LEMMA BridgeStep ==
    ASSUME FramesInv, NEW n \in 1..MaxRead, bridge_read(n)
    PROVE  FramesInv' /\ [Channel!Next]_(Channel!vars)
<1>1. PICK E : Marks(E, sent) /\ Written(E, sent, stream) /\ InStep(E)
  BY DEF FramesInv
<1>2. FramesTypes /\ Buffered /\ n \in Nat
  BY FrameAssumption DEF FramesInv
<1>3. /\ dir = "toClient" /\ taken + n <= relayed /\ taken' = taken + n /\ buf' = Rest(n)
      /\ got' = got \o DecodedOf(push(Arrived(n)).frames)
      /\ dir' = dir /\ sent' = sent /\ stream' = stream /\ relayed' = relayed
  BY DEF bridge_read, Read, Rest
<1>4. PICK c \in 0..Len(sent), d \in 0..Len(sent) : Forwards(E, n, c, d)
  BY <1>1, <1>2, <1>3, BridgeForwards
<1>5. /\ Complete(E, sent, c, taken) /\ got = KnownTo(sent, c) /\ Complete(E, sent, d, taken + n) /\ c <= d
      /\ got' = KnownTo(sent, d) /\ (taken + n) - Len(buf') = E[d]
  BY <1>3, <1>4 DEF Forwards
<1>6. PICK a \in Nat, b \in Nat : /\ a = Len(KnownTo(sent, c)) /\ b = Len(KnownTo(sent, d))
                                 /\ Settled = a /\ Settled' = b /\ a <= b /\ b <= Len(known(sent))
  BY <1>1, <1>2, <1>3, <1>5, ReadSettles
<1>7. PICK msgs \in Seq(Sendable) : msgs = sent
  BY <1>2 DEF FramesTypes
<1>8. PICK r \in Seq(Sendable), s \in Seq(Sendable), t \in Seq(Sendable) :
         /\ r = KnownTo(msgs, c) /\ s = KnownTo(msgs, d) /\ t = known(msgs) /\ Begins(r, s) /\ Begins(s, t)
  <2>1. PICK l \in Nat : l = Len(msgs) /\ l \in d..Len(msgs) /\ l \in 0..Len(msgs) /\ d \in c..Len(msgs)
    BY <1>4, <1>5, <1>7
  <2>2. c \in 0..Len(msgs) /\ d \in 0..Len(msgs)
    BY <1>4, <1>7
  <2>3. KnownTo(msgs, c) \in Seq(Sendable) /\ KnownTo(msgs, d) \in Seq(Sendable) /\ KnownTo(msgs, l) \in Seq(Sendable)
    BY <1>7, <2>1, <2>2, KnownType
  <2>4. Begins(KnownTo(msgs, c), KnownTo(msgs, d)) /\ Begins(KnownTo(msgs, d), KnownTo(msgs, l))
    BY <1>7, <2>1, <2>2, KnownBegins
  <2>5. KnownTo(msgs, l) = known(msgs)
    BY <1>7, <2>1, KnownAll
  <2> QED BY <2>3, <2>4, <2>5
<1>9. got = r /\ got' = s /\ a = Len(r) /\ b = Len(s) /\ known(sent) = t
  BY <1>5, <1>6, <1>7, <1>8
<1>10. s = r \o SubSeq(t, Len(r) + 1, Len(s))
  BY <1>8, BeginsAndRest
<1>11. a = b => s = r
  <2> SUFFICES ASSUME a = b PROVE s = r
    OBVIOUS
  <2>1. Len(r) = Len(s) /\ \A x \in 1..Len(r) : r[x] = s[x]
    BY <1>8, <1>9 DEF Begins
  <2> QED BY <1>8, <2>1, SeqEqual
<1>12. Adds(got, s, a, b)
  BY <1>3, <1>9, <1>10, <1>11 DEF Adds
<1>13. r \in Seq(Messages) /\ s \in Seq(Messages)
  <2>1. Sendable \subseteq Messages
    BY DEF Sendable
  <2> QED BY <1>8, <2>1, SeqMonotonic
<1>14. [Channel!Next]_(Channel!vars)
  <2>1. got \in Seq(Messages) /\ got' = s /\ dir \in {"toClient", "toServer"} /\ a <= b /\ b <= Len(known(sent))
    BY <1>3, <1>6, <1>9, <1>13
  <2> QED BY <1>3, <1>6, <1>12, <2>1, ReadIsStep
<1>15. FramesTypes' /\ Buffered'
  <2>1. Holds(Rest(n), stream, taken + n)
    BY <1>2, <1>3, KeptFacts DEF Rest
  <2>2. got' \in Seq(Messages)
    BY <1>9, <1>13
  <2> QED BY <1>2, <1>3, <2>1, <2>2, ReadKeeps
<1>16. InStep(E)'
  <2>1. d \in 0..Len(sent') /\ Complete(E, sent', d, taken') /\ got' = KnownTo(sent', d) /\ taken' - Len(buf') = E[d]
    BY <1>3, <1>4, <1>5
  <2> QED BY <2>1 DEF InStep, Complete, KnownTo, known
<1>17. FramesInv'
  <2>1. Marks(E, sent)' /\ Written(E, sent, stream)'
    BY <1>1, <1>3 DEF Marks, Written
  <2> QED BY <1>15, <1>16, <2>1 DEF FramesInv
<1> QED BY <1>14, <1>17

\* A frame that ends in a stretch of the bytes is counted at the end of it and not at the beginning.
LEMMA EndsBetweenCounts ==
    ASSUME NEW msgs, Len(msgs) \in Nat, NEW E, Marks(E, msgs), NEW t \in Nat, NEW u \in Nat,
           NEW c, Complete(E, msgs, c, t), NEW d, Complete(E, msgs, d, u),
           NEW e \in 1..Len(msgs), t < E[e], E[e] <= u
    PROVE  c < e /\ e <= d
<1>1. /\ c \in 0..Len(msgs) /\ d \in 0..Len(msgs) /\ e \in 0..Len(msgs) /\ E[c] <= t
      /\ \A i \in 0..Len(msgs) : E[i] \in Nat
  <2>1. c \in 0..Len(msgs) /\ d \in 0..Len(msgs) /\ E[c] <= t
    BY DEF Complete
  <2>2. \A i \in 0..Len(msgs) : E[i] \in Nat
    BY DEF Marks
  <2> QED BY <2>1, <2>2
<1>2. c < e
  <2> SUFFICES ASSUME e <= c PROVE FALSE
    BY <1>1
  <2>1. e = c \/ e < c
    BY <1>1
  <2>2. e < c => E[e] < E[c]
    BY <1>1 DEF Marks
  <2>3. E[e] \in Nat /\ E[c] \in Nat
    BY <1>1
  <2> QED BY <1>1, <2>1, <2>2, <2>3
<1>3. e <= d
  <2> SUFFICES ASSUME d < e PROVE FALSE
    BY <1>1
  <2>1. PICK f \in 0..Len(msgs) : f = d + 1 /\ (f = e \/ f < e)
    BY <1>1
  <2>2. u < E[f]
    BY <1>1, <2>1 DEF Complete
  <2>3. f < e => E[f] < E[e]
    BY <1>1, <2>1 DEF Marks
  <2>4. E[e] \in Nat /\ E[f] \in Nat
    BY <1>1, <2>1
  <2> QED BY <2>1, <2>2, <2>3, <2>4
<1> QED BY <1>2, <1>3

\* The runtime's read, by either decoder: at most one message, of a frame that decodes.
LEMMA RuntimeStep ==
    ASSUME FramesInv, NEW n \in Nat, taken + n <= relayed, dir = "toServer", taken' = taken + n,
           dir' = dir, sent' = sent, stream' = stream, relayed' = relayed,
           NEW held, buf' = held, Holds(held, stream, taken + n),
           \/ got' = got
           \/ \E x \in 1..Len(push(Arrived(n)).frames) :
                 /\ Decodes(push(Arrived(n)).frames[x])
                 /\ got' = Append(got, MessageOf(push(Arrived(n)).frames[x]))
    PROVE  FramesInv' /\ [Channel!Next]_(Channel!vars)
<1>1. PICK E : Marks(E, sent) /\ Written(E, sent, stream)
  BY DEF FramesInv
<1>2. FramesTypes /\ Buffered
  BY DEF FramesInv
<1>3. PICK msgs \in Seq(Sendable), bytes \in Seq(Bytes), t \in Nat, u \in Nat :
         /\ msgs = sent /\ bytes = stream /\ t = taken /\ u = taken + n /\ t <= u /\ u <= Len(bytes) /\ t <= Len(bytes)
  <2>1. sent \in Seq(Sendable) /\ stream \in Seq(Bytes) /\ relayed \in 0..Len(stream) /\ taken \in 0..relayed
    BY <1>2 DEF FramesTypes
  <2>2. taken \in Nat /\ taken + n \in Nat /\ taken <= taken + n /\ taken + n <= Len(stream) /\ taken <= Len(stream)
    BY <2>1
  <2> QED BY <2>1, <2>2
<1>4. Marks(E, msgs) /\ Written(E, msgs, bytes)
  BY <1>1, <1>3
<1>5. PICK c \in 0..Len(msgs), d \in 0..Len(msgs) : Complete(E, msgs, c, t) /\ Complete(E, msgs, d, u)
  <2>1. \E c \in 0..Len(msgs) : Complete(E, msgs, c, t)
    BY <1>3, <1>4, CompleteExists
  <2>2. \E d \in 0..Len(msgs) : Complete(E, msgs, d, u)
    BY <1>3, <1>4, CompleteExists
  <2> QED BY <2>1, <2>2
<1>6. PICK a \in Nat, b \in Nat : /\ a = Len(KnownTo(sent, c)) /\ b = Len(KnownTo(sent, d))
                                 /\ Settled = a /\ Settled' = b /\ a <= b /\ b <= Len(known(sent))
  <2>1. Complete(E, sent, c, taken) /\ Complete(E, sent, d, taken + n)
    BY <1>3, <1>5
  <2> QED BY <1>1, <1>2, <2>1, ReadSettles
<1>7. got \in Seq(Messages)
  BY <1>2 DEF FramesTypes
<1>8. PICK new \in Seq(Messages) : /\ got' = new
                                   /\ new = got \/ \E i \in a + 1..b : new = Append(got, known(sent)[i])
  <2>1. CASE got' = got
    BY <1>7, <2>1
  <2>2. CASE \E x \in 1..Len(push(Arrived(n)).frames) :
                 /\ Decodes(push(Arrived(n)).frames[x])
                 /\ got' = Append(got, MessageOf(push(Arrived(n)).frames[x]))
    <3>1. PICK r \in Seq(Bytes) : r = Arrived(n)
      BY <1>2, ArrivedFacts
    <3>2. PICK o \in Nat, l \in 0..Len(r) : /\ o = taken - Len(buf) /\ l = Len(buf) /\ o + l = t /\ o + Len(r) = u
                                          /\ Stretch(r, bytes, o) /\ WaitsFor(r, l)
      <4>1. /\ Len(r) = Len(buf) + n /\ Len(buf) \in Nat /\ taken - Len(buf) \in Nat
            /\ \A x \in 1..Len(buf) + n : r[x] = stream[(taken - Len(buf)) + x]
            /\ WaitsFor(r, Len(buf))
        BY <1>2, <3>1, ArrivedFacts
      <4>2. PICK l \in Nat : l = Len(buf)
        BY <4>1
      <4>3. PICK o \in Nat : o = taken - l
        BY <4>1, <4>2
      <4>4. Len(r) = l + n /\ l \in 0..Len(r) /\ o + l = t /\ o + Len(r) = u
        <5>1. Len(r) = l + n /\ o = t - l /\ u = t + n
          BY <1>3, <4>1, <4>2, <4>3
        <5>2. t \in Nat /\ l \in Nat /\ o \in Nat /\ n \in Nat
          BY <1>3, <4>2, <4>3
        <5> QED BY <5>1, <5>2
      <4>5. Stretch(r, bytes, o)
        <5>1. \A x \in 1..Len(r) : r[x] = bytes[o + x]
          BY <1>3, <4>1, <4>2, <4>3, <4>4
        <5> QED BY <1>3, <4>4, <5>1 DEF Stretch
      <4> QED BY <4>1, <4>2, <4>3, <4>4, <4>5
    <3>3. PICK x \in 1..Len(push(r).frames) :
             Decodes(push(r).frames[x]) /\ got' = Append(got, MessageOf(push(r).frames[x]))
      BY <2>2, <3>1
    <3>4. PICK fr \in Results : fr = push(r).frames[x] /\ Fresh(fr, r, l)
      <4>1. push(r).frames \in Seq(Results)
        BY <3>1, PushFacts
      <4>2. \A y \in 1..Len(push(r).frames) : Fresh(push(r).frames[y], r, l)
        BY <3>1, <3>2, PushIsFresh
      <4>3. push(r).frames[x] \in Results
        BY <3>3, <4>1, ElementOfSeq
      <4>4. Fresh(push(r).frames[x], r, l)
        BY <3>3, <4>2
      <4> QED BY <4>3, <4>4
    <3>5. PICK e \in 1..Len(msgs) : t < E[e] /\ E[e] <= u /\ msgs[e] = MessageOf(fr) /\ Known(msgs[e])
      <4>1. Decodes(fr)
        BY <3>3, <3>4
      <4>2. t = o + l /\ u = o + Len(r) /\ Stretch(r, bytes, o) /\ Fresh(fr, r, l)
        BY <3>2, <3>4
      <4>3. /\ msgs \in Seq(Sendable) /\ bytes \in Seq(Bytes) /\ r \in Seq(Bytes) /\ o \in Nat /\ l \in 0..Len(r)
            /\ fr \in Results /\ Marks(E, msgs) /\ Written(E, msgs, bytes)
        BY <1>3, <1>4, <3>1, <3>2, <3>4
      <4>4. \E e \in 1..Len(msgs) : /\ t < E[e] /\ E[e] <= u /\ msgs[e] = MessageOf(fr) /\ Known(msgs[e])
        <5>1. SentWithin(fr, msgs, E, t, u)
          BY <4>1, <4>2, <4>3, DecodedIsSent
        <5> QED BY <5>1 DEF SentWithin
      <4> QED BY <4>4
    <3>6. c < e /\ e <= d
      <4>1. Len(msgs) \in Nat
        BY <1>3
      <4> QED BY <1>3, <1>4, <1>5, <3>5, <4>1, EndsBetweenCounts
    <3>7. PICK i \in a + 1..b : known(msgs)[i] = msgs[e]
      <4>1. \E i \in Len(KnownTo(msgs, c)) + 1..Len(KnownTo(msgs, d)) : known(msgs)[i] = msgs[e]
        BY <1>3, <1>5, <3>5, <3>6, KnownBetween
      <4> QED BY <1>3, <1>6, <4>1
    <3>8. PICK m \in Messages : m = msgs[e]
      BY <1>3, <3>5 DEF Sendable
    <3>9. got' = Append(got, m) /\ Append(got, m) \in Seq(Messages)
      BY <1>7, <3>3, <3>4, <3>5, <3>8
    <3> QED BY <1>3, <3>7, <3>8, <3>9
  <2> QED BY <2>1, <2>2
<1>9. Adds(got, new, a, b)
  <2>1. a = b => new = got
    BY <1>6, <1>8
  <2> QED BY <1>8, <2>1 DEF Adds
<1>10. [Channel!Next]_(Channel!vars)
  BY <1>6, <1>7, <1>8, <1>9, ReadIsStep
<1>11. FramesTypes' /\ Buffered'
  <2>1. got' \in Seq(Messages)
    BY <1>8
  <2> QED BY <1>2, <2>1, ReadKeeps
<1>12. FramesInv'
  <2>1. Marks(E, sent)' /\ Written(E, sent, stream)'
    BY <1>1 DEF Marks, Written
  <2>2. InStep(E)'
    BY DEF InStep
  <2> QED BY <1>11, <2>1, <2>2 DEF FramesInv
<1> QED BY <1>10, <1>12

\* peek and recv are such reads.
LEMMA PeekStep ==
    ASSUME FramesInv, NEW n \in 1..MaxRead, peek(n)
    PROVE  FramesInv' /\ [Channel!Next]_(Channel!vars)
<1>1. n \in Nat /\ FramesTypes /\ Buffered
  BY FrameAssumption DEF FramesInv
<1>2. /\ dir = "toServer" /\ taken + n <= relayed /\ taken' = taken + n
      /\ dir' = dir /\ sent' = sent /\ stream' = stream /\ relayed' = relayed
  BY DEF peek, Read
<1>3. taken + n \in Nat
  BY <1>1 DEF FramesTypes
<1>4. PICK held : buf' = held /\ Holds(held, stream, taken + n)
  <2>1. buf' = Rest(n) \/ buf' = <<>>
    BY DEF peek, Rest
  <2>2. Holds(Rest(n), stream, taken + n)
    BY <1>1, <1>2, KeptFacts DEF Rest
  <2>3. PICK t \in Nat : t = taken + n
    BY <1>3
  <2>4. Holds(<<>>, stream, t)
    BY <2>3, NothingHeld
  <2> QED BY <2>1, <2>2, <2>3, <2>4
<1>5. \/ got' = got
      \/ \E x \in 1..Len(push(Arrived(n)).frames) :
            /\ Decodes(push(Arrived(n)).frames[x])
            /\ got' = Append(got, MessageOf(push(Arrived(n)).frames[x]))
  <2>1. push(Arrived(n)).frames \in Seq(Results)
    BY <1>1, <1>2, ArrivedFacts, PushFacts
  <2>2. \/ got' = got
        \/ /\ push(Arrived(n)).frames # <<>> /\ Decodes(push(Arrived(n)).frames[1])
           /\ got' = Append(got, MessageOf(push(Arrived(n)).frames[1]))
    BY DEF peek, Hello
  <2>3. push(Arrived(n)).frames # <<>> => 1 \in 1..Len(push(Arrived(n)).frames)
    BY <2>1, EmptySeq
  <2> QED BY <2>2, <2>3
<1> QED BY <1>1, <1>2, <1>4, <1>5, RuntimeStep

\* The session's read, which returns the first message of it.
LEMMA RecvStep ==
    ASSUME FramesInv, NEW n \in 1..MaxRead, recv(n)
    PROVE  FramesInv' /\ [Channel!Next]_(Channel!vars)
<1>1. n \in Nat /\ FramesTypes /\ Buffered
  BY FrameAssumption DEF FramesInv
<1>2. /\ dir = "toServer" /\ taken + n <= relayed /\ taken' = taken + n
      /\ dir' = dir /\ sent' = sent /\ stream' = stream /\ relayed' = relayed
  BY DEF recv, Read
<1>3. PICK held : buf' = held /\ Holds(held, stream, taken + n)
  <2>1. buf' = Rest(n)
    BY DEF recv, Rest
  <2>2. Holds(Rest(n), stream, taken + n)
    BY <1>1, <1>2, KeptFacts DEF Rest
  <2> QED BY <2>1, <2>2
<1>4. \/ got' = got
      \/ \E x \in 1..Len(push(Arrived(n)).frames) :
            /\ Decodes(push(Arrived(n)).frames[x])
            /\ got' = Append(got, MessageOf(push(Arrived(n)).frames[x]))
  <2>1. push(Arrived(n)).frames \in Seq(Results)
    BY <1>1, <1>2, ArrivedFacts, PushFacts
  <2>2. PICK frames \in Seq(Results) : frames = push(Arrived(n)).frames
    BY <2>1
  <2>3. got' = IF DecodedOf(frames) = <<>> THEN got ELSE Append(got, DecodedOf(frames)[1])
    BY <2>2 DEF recv
  <2>4. DecodedOf(frames) # <<>> =>
          \E x \in 1..Len(frames) : Decodes(frames[x]) /\ DecodedOf(frames)[1] = MessageOf(frames[x])
    BY <2>2, DecodedFirst
  <2> QED BY <2>2, <2>3, <2>4
<1> QED BY <1>1, <1>2, <1>3, <1>4, RuntimeStep

\* Steps that read nothing settle nothing.
LEMMA NothingSettled ==
    ASSUME sent' = sent, stream' = stream, taken' = taken, dir' = dir, got' = got
    PROVE  UNCHANGED Channel!vars
<1>1. Settled' = Settled
  BY DEF Settled, known, FrameLen
<1>2. known(sent)' = known(sent)
  BY DEF known
<1> QED BY <1>1, <1>2 DEF Channel!vars

\* They keep the invariant.
LEMMA NothingRead ==
    ASSUME FramesInv, sent' = sent, stream' = stream, taken' = taken, dir' = dir, got' = got, buf' = buf,
           relayed' \in taken..Len(stream)
    PROVE  FramesInv'
<1>1. PICK E : Marks(E, sent) /\ Written(E, sent, stream) /\ InStep(E)
  BY DEF FramesInv
<1>2. FramesTypes'
  BY DEF FramesInv, FramesTypes
<1>3. Buffered'
  BY DEF FramesInv, Buffered, WaitsFor, declared
<1>4. Marks(E, sent)' /\ Written(E, sent, stream)'
  BY <1>1 DEF Marks, Written
<1>5. InStep(E)'
  <2>1. ASSUME NEW c PROVE KnownTo(sent, c)' = KnownTo(sent, c)
    BY DEF KnownTo, known
  <2>2. ASSUME NEW c PROVE Complete(E, sent, c, taken)' <=> Complete(E, sent, c, taken)
    BY DEF Complete
  <2>3. CASE dir = "toClient"
    <3>1. PICK c \in 0..Len(sent) : Complete(E, sent, c, taken) /\ got = KnownTo(sent, c) /\ taken - Len(buf) = E[c]
      BY <1>1, <2>3 DEF InStep
    <3>2. Complete(E, sent, c, taken)' /\ got' = KnownTo(sent, c)' /\ (taken - Len(buf) = E[c])' /\ (c \in 0..Len(sent))'
      BY <2>1, <2>2, <3>1
    <3> QED BY <3>2 DEF InStep
  <2>4. CASE dir # "toClient"
    BY <2>4 DEF InStep
  <2> QED BY <2>3, <2>4
<1> QED BY <1>2, <1>3, <1>4, <1>5 DEF FramesInv

\* The proxy passes bytes on.
LEMMA PassOnStep ==
    ASSUME FramesInv, NEW n \in 1..MaxRead, pass_on(n)
    PROVE  FramesInv' /\ UNCHANGED Channel!vars
<1>1. /\ sent' = sent /\ stream' = stream /\ taken' = taken /\ dir' = dir /\ got' = got /\ buf' = buf
      /\ relayed' = relayed + n /\ relayed + n <= Len(stream)
  BY DEF pass_on
<1>2. relayed' \in taken..Len(stream)
  <2>1. stream \in Seq(Bytes) /\ relayed \in 0..Len(stream) /\ taken \in 0..relayed
    BY DEF FramesInv, FramesTypes
  <2>2. relayed + n \in taken..Len(stream)
    BY <1>1, <2>1, FrameAssumption
  <2> QED BY <1>1, <2>2
<1> QED BY <1>1, <1>2, NothingSettled, NothingRead

\* The stream ends, or nothing happens.
LEMMA EofStep ==
    ASSUME FramesInv, eof \/ UNCHANGED framesVars
    PROVE  FramesInv' /\ UNCHANGED Channel!vars
<1>1. /\ sent' = sent /\ stream' = stream /\ taken' = taken /\ dir' = dir /\ got' = got /\ buf' = buf
      /\ relayed' = relayed
  BY DEF eof, framesVars
<1>2. relayed' \in taken..Len(stream)
  <2>1. stream \in Seq(Bytes) /\ relayed \in 0..Len(stream) /\ taken \in 0..relayed
    BY DEF FramesInv, FramesTypes
  <2>2. relayed \in taken..Len(stream)
    BY <2>1
  <2> QED BY <1>1, <2>2
<1> QED BY <1>1, <1>2, NothingSettled, NothingRead

\* Before anything is sent there is nothing.
LEMMA FramesStart ==
    ASSUME FramesInit
    PROVE  FramesInv /\ Channel!Init
<1>1. /\ dir \in {"toClient", "toServer"} /\ sent = <<>> /\ stream = <<>> /\ relayed = 0 /\ taken = 0 /\ buf = <<>>
      /\ got = <<>>
  BY FrameAssumption DEF FramesInit
<1>2. <<>> \in Seq(Sendable) /\ <<>> \in Seq(Bytes) /\ <<>> \in Seq(Messages) /\ Len(<<>>) = 0
  BY EmptySeq
<1>3. KnownTo(<<>>, 0) = <<>> /\ known(<<>>) = <<>>
  <2>1. KnownTo(<<>>, 0) = <<>>
    BY KnownNone
  <2>2. PICK s \in Seq(Sendable) : s = <<>> /\ Len(s) = 0
    BY <1>2
  <2>3. KnownTo(s, Len(s)) = known(s)
    BY <2>2, KnownAll
  <2> QED BY <2>1, <2>2, <2>3
<1>4. FramesTypes
  BY <1>1, <1>2 DEF FramesTypes
<1>5. Buffered
  <2>1. PICK t \in Nat : t = 0
    OBVIOUS
  <2>2. Holds(<<>>, stream, t)
    BY NothingHeld
  <2> QED BY <1>1, <2>1, <2>2 DEF Holds, Buffered
<1>6. PICK E : E = [i \in 0..0 |-> 0]
  OBVIOUS
<1>7. E[0] = 0 /\ E \in [0..0 -> Nat]
  BY <1>6
<1>8. Marks(E, sent)
  BY <1>1, <1>2, <1>7 DEF Marks
<1>9. Written(E, sent, stream)
  BY <1>1, <1>2, <1>7 DEF Written
<1>10. InStep(E)
  <2>1. 0 \in 0..Len(sent) /\ Complete(E, sent, 0, taken) /\ got = KnownTo(sent, 0) /\ taken - Len(buf) = E[0]
    BY <1>1, <1>2, <1>3, <1>7 DEF Complete
  <2> QED BY <2>1 DEF InStep
<1>11. Settled = 0
  BY <1>1, <1>2, <1>3 DEF Settled, KnownTo
<1>12. Channel!Init
  BY <1>1, <1>3, <1>11 DEF Channel!Init
<1> QED BY <1>4, <1>5, <1>8, <1>9, <1>10, <1>12 DEF FramesInv

\* What a decoder holds is still the end of what was read when more has been written.
LEMMA HoldsMore ==
    ASSUME NEW s \in Seq(Bytes), NEW r \in Seq(Bytes), NEW t \in Nat, t <= Len(s), NEW held, Holds(held, s, t)
    PROVE  Holds(held, s \o r, t)
<1>1. PICK l \in Nat : l = Len(held) /\ l <= t
  BY DEF Holds
<1>2. PICK o \in Nat : o = t - l /\ o <= t /\ t - o = l
  <2>1. t - l \in Nat /\ t - l <= t /\ t - (t - l) = l
    BY <1>1
  <2> QED BY <2>1
<1>3. PICK q \in Seq(Bytes) : q = s \o r /\ t <= Len(q) /\ \A x \in 1..t : q[x] = s[x]
  <2>1. /\ s \o r \in Seq(Bytes) /\ Len(s \o r) = Len(s) + Len(r)
        /\ \A x \in 1..Len(s) + Len(r) : (s \o r)[x] = IF x <= Len(s) THEN s[x] ELSE r[x - Len(s)]
    BY ConcatProperties
  <2>2. PICK q \in Seq(Bytes) : q = s \o r
    BY <2>1
  <2>3. t <= Len(q)
    BY <2>1, <2>2
  <2>4. ASSUME NEW x \in 1..t PROVE q[x] = s[x]
    <3>1. x \in 1..Len(s) + Len(r) /\ x <= Len(s)
      OBVIOUS
    <3> QED BY <2>1, <2>2, <3>1
  <2> QED BY <2>2, <2>3, <2>4
<1>4. PICK a \in Seq(Bytes) : a = SubSeq(s, o + 1, t) /\ Len(a) = l /\ \A x \in 1..l : a[x] = s[o + x]
  <2>1. /\ SubSeq(s, o + 1, t) \in Seq(Bytes) /\ Len(SubSeq(s, o + 1, t)) = t - o
        /\ \A x \in 1..t - o : SubSeq(s, o + 1, t)[x] = s[o + x]
    BY <1>2, StretchFacts
  <2> QED BY <1>2, <2>1
<1>5. PICK b \in Seq(Bytes) : b = SubSeq(q, o + 1, t) /\ Len(b) = l /\ \A x \in 1..l : b[x] = q[o + x]
  <2>1. q \in Seq(Bytes) /\ o \in Nat /\ o <= t /\ t <= Len(q)
    BY <1>2, <1>3
  <2>2. /\ SubSeq(q, o + 1, t) \in Seq(Bytes) /\ Len(SubSeq(q, o + 1, t)) = t - o
        /\ \A x \in 1..t - o : SubSeq(q, o + 1, t)[x] = q[o + x]
    BY <2>1, StretchFacts
  <2> QED BY <1>2, <2>2
<1>6. ASSUME NEW x \in 1..l PROVE a[x] = b[x]
  <2>1. PICK y \in 1..t : y = o + x
    <3>1. o + x \in 1..t
      BY <1>1, <1>2
    <3> QED BY <3>1
  <2> QED BY <1>3, <1>4, <1>5, <2>1
<1>7. a = b
  BY <1>4, <1>5, <1>6, SeqEqual
<1>8. held = a
  BY <1>1, <1>2, <1>4 DEF Holds
<1>9. held = SubSeq(s \o r, t - Len(held) + 1, t)
  BY <1>1, <1>2, <1>3, <1>5, <1>7, <1>8
<1> QED BY <1>9 DEF Holds

\* One more frame.
LEMMA OneMore ==
    ASSUME NEW msgs \in Seq(Sendable), NEW E, NEW bytes \in Seq(Bytes), Marks(E, msgs), Written(E, msgs, bytes),
           NEW m \in Sendable, NEW ms, ms = Append(msgs, m), NEW b, b = bytes \o encode(m)
    PROVE  \E G : /\ Marks(G, ms) /\ Written(G, ms, b)
                  /\ \A i \in 0..Len(msgs) : G[i] = E[i]
                  /\ E[Len(msgs)] < G[Len(msgs) + 1]
<1>1. PICK L \in Nat : L = Len(msgs)
  OBVIOUS
<1>2. /\ E \in [0..L -> Nat] /\ E[0] = 0 /\ \A i \in 1..L : E[i] = E[i - 1] + FrameLen(msgs[i])
      /\ \A i, j \in 0..L : i < j => E[i] < E[j]
  BY <1>1 DEF Marks
<1>3. PICK f \in Nat : /\ f = FrameLen(m) /\ 0 < f /\ encode(m) \in Seq(Bytes) /\ Len(encode(m)) = f
                       /\ \A k \in 1..f : encode(m)[k] = Byte(m, k)
  <2>1. /\ encode(m) \in Seq(Bytes) /\ Len(encode(m)) = FrameLen(m) /\ FrameLen(m) \in Nat
        /\ m.size \in Nat \ {0} /\ FrameLen(m) = PrefixBytes + m.size
        /\ \A k \in 1..FrameLen(m) : encode(m)[k] = Byte(m, k)
    BY EncodeFacts
  <2>2. 0 < FrameLen(m)
    BY <2>1, FrameAssumption
  <2> QED BY <2>1, <2>2
<1>4. PICK e \in Nat : e = E[L] /\ e = Len(bytes)
  BY <1>1, <1>2 DEF Written
<1>5. PICK N \in Nat : N = L + 1 /\ L < N /\ N - 1 = L
  BY <1>1
<1>6. PICK G : G = [i \in 0..N |-> IF i <= L THEN E[i] ELSE e + f]
  OBVIOUS
<1>7. /\ ms \in Seq(Sendable) /\ Len(ms) = N /\ ms[N] = m /\ \A i \in 1..L : ms[i] = msgs[i]
  <2>1. /\ Append(msgs, m) \in Seq(Sendable) /\ Len(Append(msgs, m)) = Len(msgs) + 1
        /\ Append(msgs, m)[Len(msgs) + 1] = m /\ \A i \in 1..Len(msgs) : Append(msgs, m)[i] = msgs[i]
    BY AppendProperties
  <2> QED BY <1>1, <1>5, <2>1
<1>8. b \in Seq(Bytes) /\ Len(b) = e + f /\ \A x \in 1..e + f : b[x] = IF x <= e THEN bytes[x] ELSE encode(m)[x - e]
  <2>1. PICK c \in Seq(Bytes) : c = encode(m) /\ Len(c) = f
    BY <1>3
  <2>2. /\ bytes \o c \in Seq(Bytes) /\ Len(bytes \o c) = Len(bytes) + Len(c)
        /\ \A x \in 1..Len(bytes) + Len(c) : (bytes \o c)[x] = IF x <= Len(bytes) THEN bytes[x] ELSE c[x - Len(bytes)]
    BY <2>1, ConcatProperties
  <2> QED BY <1>4, <2>1, <2>2
<1>9. (\A i \in 0..L : G[i] = E[i] /\ E[i] \in Nat) /\ G[N] = e + f
  <2>1. \A i \in 0..L : i \in 0..N /\ i <= L /\ E[i] \in Nat
    BY <1>1, <1>2, <1>5
  <2>2. N \in 0..N /\ ~(N <= L)
    BY <1>1, <1>5
  <2> QED BY <1>6, <2>1, <2>2
<1>10. \A i \in 0..L : E[i] < e + f
  <2> TAKE i \in 0..L
  <2>1. i = L \/ i < L
    BY <1>1
  <2>2. L \in 0..L
    BY <1>1
  <2>3. i < L => E[i] < E[L]
    BY <1>2, <2>2
  <2>4. E[i] \in Nat
    BY <1>2
  <2>5. E[i] <= e
    <3>1. E[L] = e /\ e \in Nat
      BY <1>4
    <3>2. i < L => E[i] < e
      BY <2>3, <3>1
    <3> QED BY <2>1, <2>4, <3>1, <3>2
  <2> QED BY <1>3, <1>4, <2>4, <2>5
<1>11. Marks(G, ms)
  <2>1. G \in [0..N -> Nat]
    <3>1. ASSUME NEW i \in 0..N PROVE G[i] \in Nat
      <4>1. i \in 0..L \/ i = N
        BY <1>1, <1>5
      <4>2. e + f \in Nat
        BY <1>3, <1>4
      <4> QED BY <1>9, <4>1, <4>2
    <3> QED BY <1>6, <3>1
  <2>2. G[0] = 0
    BY <1>1, <1>2, <1>9
  <2>3. ASSUME NEW i \in 1..N PROVE G[i] = G[i - 1] + FrameLen(ms[i])
    <3>1. CASE i = N
      <4>1. G[i - 1] = e
        <5>1. L \in 0..L /\ i - 1 = L
          BY <1>1, <1>5, <3>1
        <5> QED BY <1>4, <1>9, <5>1
      <4> QED BY <1>3, <1>7, <1>9, <3>1, <4>1
    <3>2. CASE i # N
      <4>1. i \in 1..L /\ i \in 0..L /\ i - 1 \in 0..L
        BY <1>1, <1>5, <3>2
      <4> QED BY <1>2, <1>7, <1>9, <4>1
    <3> QED BY <3>1, <3>2
  <2>4. ASSUME NEW i \in 0..N, NEW j \in 0..N, i < j PROVE G[i] < G[j]
    <3>1. i \in 0..L
      BY <1>1, <1>5, <2>4
    <3>2. CASE j = N
      BY <1>9, <1>10, <3>1, <3>2
    <3>3. CASE j # N
      <4>1. j \in 0..L
        BY <1>1, <1>5, <3>3
      <4> QED BY <1>2, <1>9, <2>4, <3>1, <4>1
    <3> QED BY <3>2, <3>3
  <2> QED BY <1>7, <2>1, <2>2, <2>3, <2>4 DEF Marks
<1>12. Written(G, ms, b)
  <2>1. Len(b) = G[Len(ms)]
    BY <1>7, <1>8, <1>9
  <2>2. ASSUME NEW p \in 1..Len(b)
        PROVE  \E c \in 1..Len(ms) : G[c - 1] < p /\ p <= G[c] /\ b[p] = Byte(ms[c], p - G[c - 1])
    <3>1. p \in 1..e + f /\ p \in Nat
      BY <1>3, <1>4, <1>8
    <3>2. CASE p <= e
      <4>1. p \in 1..Len(bytes)
        BY <1>4, <3>1, <3>2
      <4>2. PICK c \in 1..Len(msgs) : E[c - 1] < p /\ p <= E[c] /\ bytes[p] = Byte(msgs[c], p - E[c - 1])
        BY <4>1 DEF Written
      <4>3. c \in 1..L /\ c \in 0..L /\ c - 1 \in 0..L /\ c \in 1..N
        BY <1>1, <1>5, <4>2
      <4>4. G[c] = E[c] /\ G[c - 1] = E[c - 1] /\ ms[c] = msgs[c]
        BY <1>7, <1>9, <4>3
      <4>5. b[p] = bytes[p]
        BY <1>8, <3>1, <3>2
      <4> QED BY <1>7, <4>2, <4>3, <4>4, <4>5
    <3>3. CASE ~(p <= e)
      <4>1. PICK k \in 1..f : k = p - e
        <5>1. e \in Nat /\ f \in Nat /\ p \in Nat /\ p <= e + f /\ e < p
          BY <1>3, <1>4, <3>1, <3>3
        <5>2. p - e \in 1..f
          BY <5>1
        <5> QED BY <5>2
      <4>2. b[p] = Byte(m, k)
        BY <1>3, <1>8, <3>1, <3>3, <4>1
      <4>3. G[N - 1] = e
        <5>1. L \in 0..L
          BY <1>1
        <5> QED BY <1>4, <1>5, <1>9, <5>1
      <4>4. G[N - 1] < p /\ p <= G[N] /\ p - G[N - 1] = k
        BY <1>3, <1>4, <1>9, <3>1, <3>3, <4>1, <4>3
      <4>5. N \in 1..N
        BY <1>1, <1>5
      <4> QED BY <1>7, <4>2, <4>4, <4>5
    <3> QED BY <3>2, <3>3
  <2> QED BY <2>1, <2>2 DEF Written
<1>13. E[L] < G[L + 1] /\ \A i \in 0..L : G[i] = E[i]
  BY <1>1, <1>5, <1>9, <1>10
<1> QED BY <1>1, <1>11, <1>12, <1>13

\* A frame is written.
LEMMA SendStep ==
    ASSUME FramesInv, NEW m \in Messages, send(m)
    PROVE  FramesInv' /\ [Channel!Next]_(Channel!vars)
<1>1. /\ m.id = Len(sent) + 1 /\ m.size \in 1..MAX_FRAME_BYTES
      /\ sent' = Append(sent, m) /\ stream' = stream \o encode(m)
      /\ dir' = dir /\ relayed' = relayed /\ taken' = taken /\ buf' = buf /\ got' = got
  BY DEF send
<1>2. m \in Sendable
  BY <1>1 DEF Sendable
<1>3. PICK E : Marks(E, sent) /\ Written(E, sent, stream) /\ InStep(E)
  BY DEF FramesInv
<1>4. FramesTypes /\ Buffered
  BY DEF FramesInv
<1>5. PICK msgs \in Seq(Sendable), bytes \in Seq(Bytes), t \in Nat, L \in Nat :
         /\ msgs = sent /\ bytes = stream /\ t = taken /\ t <= relayed /\ relayed <= Len(bytes) /\ L = Len(msgs)
         /\ t <= Len(bytes) /\ relayed \in Nat
  <2>1. sent \in Seq(Sendable) /\ stream \in Seq(Bytes) /\ relayed \in 0..Len(stream) /\ taken \in 0..relayed
    BY <1>4 DEF FramesTypes
  <2>2. taken \in Nat /\ taken <= relayed /\ relayed <= Len(stream) /\ taken <= Len(stream) /\ relayed \in Nat
        /\ Len(sent) \in Nat
    BY <2>1
  <2> QED BY <2>1, <2>2
<1>6. PICK code \in Seq(Bytes) : code = encode(m)
  BY <1>2, EncodeFacts
<1>7. PICK ms \in Seq(Sendable) : /\ ms = Append(msgs, m) /\ ms = sent' /\ Len(ms) = L + 1 /\ ms[L + 1] = m
                                  /\ \A i \in 1..L : ms[i] = msgs[i]
  <2>1. /\ Append(msgs, m) \in Seq(Sendable) /\ Len(Append(msgs, m)) = Len(msgs) + 1
        /\ Append(msgs, m)[Len(msgs) + 1] = m /\ \A i \in 1..Len(msgs) : Append(msgs, m)[i] = msgs[i]
    BY <1>2, <1>5, AppendProperties
  <2> QED BY <1>1, <1>5, <2>1
<1>8. PICK b \in Seq(Bytes) : b = bytes \o code /\ b = stream' /\ Len(b) \in Nat /\ Len(bytes) <= Len(b)
  <2>1. bytes \o code \in Seq(Bytes) /\ Len(bytes \o code) = Len(bytes) + Len(code)
    BY <1>5, <1>6, ConcatProperties
  <2>2. Len(bytes) \in Nat /\ Len(code) \in Nat
    BY <1>5, <1>6
  <2>3. bytes \o code = stream'
    BY <1>1, <1>5, <1>6
  <2> QED BY <2>1, <2>2, <2>3
<1>9. PICK G : /\ Marks(G, ms) /\ Written(G, ms, b) /\ (\A i \in 0..L : G[i] = E[i]) /\ E[L] < G[L + 1]
  <2>1. Marks(E, msgs) /\ Written(E, msgs, bytes) /\ b = bytes \o encode(m)
    BY <1>3, <1>5, <1>6, <1>8
  <2> QED BY <1>2, <1>5, <1>7, <2>1, OneMore
<1>10. PICK c \in 0..L : Complete(E, msgs, c, t)
  <2>1. Marks(E, msgs) /\ Written(E, msgs, bytes)
    BY <1>3, <1>5
  <2> QED BY <1>5, <2>1, CompleteExists
<1>11. ASSUME NEW d \in 0..L, Complete(E, msgs, d, t) PROVE d \in 0..Len(ms) /\ Complete(G, ms, d, t)
  <2>1. d \in 0..L + 1 /\ G[d] = E[d] /\ E[d] <= t /\ (d < L => t < E[d + 1])
    BY <1>5, <1>9, <1>11 DEF Complete
  <2>2. CASE d < L
    <3>1. d + 1 \in 0..L
      BY <1>5, <2>2
    <3>2. G[d + 1] = E[d + 1]
      BY <1>9, <3>1
    <3> QED BY <1>7, <2>1, <2>2, <3>2 DEF Complete
  <2>3. CASE d = L
    <3>1. t <= E[L] /\ E[L] \in Nat
      <4>1. Len(bytes) = E[L] /\ L \in 0..L
        BY <1>3, <1>5 DEF Written
      <4>2. Len(bytes) \in Nat
        BY <1>5
      <4> QED BY <1>5, <4>1, <4>2
    <3>2. G[L + 1] \in Nat
      <4>1. L + 1 \in 0..Len(ms)
        BY <1>5, <1>7
      <4> QED BY <1>9, <4>1 DEF Marks
    <3>3. t < G[L + 1]
      BY <1>5, <1>9, <3>1, <3>2
    <3> QED BY <1>7, <2>1, <2>3, <3>3 DEF Complete
  <2>4. d < L \/ d = L
    BY <1>5
  <2> QED BY <2>2, <2>3, <2>4
<1>12. ASSUME NEW d \in 0..L PROVE KnownTo(ms, d) = KnownTo(msgs, d)
  <2>1. d \in 0..Len(msgs)
    BY <1>5
  <2>2. KnownTo(Append(msgs, m), d) = KnownTo(msgs, d)
    BY <1>2, <1>5, <2>1, KnownAppend
  <2> QED BY <1>7, <2>2
<1>13. Settled' = Settled
  <2>1. Numbered(msgs)
    BY <1>4, <1>5 DEF FramesTypes, Numbered
  <2>2. Numbered(ms)
    <3>1. ASSUME NEW i \in 1..Len(ms) PROVE ms[i].id = i
      <4>1. i \in 1..L \/ i = L + 1
        BY <1>5, <1>7
      <4>2. m.id = L + 1
        BY <1>1, <1>5
      <4>3. i \in 1..L => msgs[i].id = i
        BY <1>5, <2>1 DEF Numbered
      <4> QED BY <1>7, <4>1, <4>2, <4>3
    <3> QED BY <1>7, <3>1 DEF Numbered
  <2>3. SettledAt(msgs, bytes, t) = Len(KnownTo(msgs, c))
    <3>1. Marks(E, msgs) /\ Written(E, msgs, bytes)
      BY <1>3, <1>5
    <3> QED BY <1>5, <1>10, <2>1, <3>1, SettledIs
  <2>4. SettledAt(ms, b, t) = Len(KnownTo(ms, c))
    <3>1. t <= Len(b)
      <4>1. Len(bytes) \in Nat
        BY <1>5
      <4> QED BY <1>5, <1>8, <4>1
    <3>2. Complete(G, ms, c, t)
      BY <1>10, <1>11
    <3> QED BY <1>5, <1>8, <1>9, <2>2, <3>1, <3>2, SettledIs
  <2>5. KnownTo(ms, c) = KnownTo(msgs, c)
    BY <1>10, <1>12
  <2>6. Settled = SettledAt(msgs, bytes, t)
    BY <1>5 DEF Settled, SettledAt, known, FrameLen
  <2>7. t = taken'
    BY <1>1, <1>5
  <2>8. Settled' = SettledAt(ms, b, t)
    BY <1>7, <1>8, <2>7 DEF Settled, SettledAt, known, FrameLen
  <2> QED BY <2>3, <2>4, <2>5, <2>6, <2>8
<1>14. known(sent') = IF Known(m) THEN Append(known(sent), m) ELSE known(sent)
  <2>1. PICK i \in 1..Len(ms) : i = L + 1 /\ i - 1 = L /\ i = Len(ms)
    BY <1>5, <1>7
  <2>2. KnownTo(ms, i) = IF Known(ms[i]) THEN Append(KnownTo(ms, i - 1), ms[i]) ELSE KnownTo(ms, i - 1)
    BY <1>7, KnownStep
  <2>3. KnownTo(ms, Len(ms)) = known(ms) /\ KnownTo(msgs, Len(msgs)) = known(msgs)
    BY <1>5, <1>7, KnownAll
  <2>4. KnownTo(ms, L) = KnownTo(msgs, L)
    <3>1. L \in 0..L
      BY <1>5
    <3> QED BY <1>12, <3>1
  <2> QED BY <1>5, <1>7, <2>1, <2>2, <2>3, <2>4
<1>15. [Channel!Next]_(Channel!vars)
  <2>1. (dir = "toServer")' = (dir = "toServer") /\ got' = got
    BY <1>1
  <2>2. known(sent)' = known(sent')
    BY DEF known
  <2>3. CASE Known(m)
    <3>1. Channel!Send
      BY <1>13, <1>14, <2>1, <2>2, <2>3 DEF Channel!Send
    <3> QED BY <3>1 DEF Channel!Next
  <2>4. CASE ~Known(m)
    BY <1>13, <1>14, <2>1, <2>2, <2>4 DEF Channel!vars
  <2> QED BY <2>3, <2>4
<1>16. FramesTypes'
  <2>1. \A i \in 1..Len(sent') : sent'[i].id = i
    <3>1. ASSUME NEW i \in 1..Len(ms) PROVE ms[i].id = i
      <4>1. i \in 1..L \/ i = L + 1
        BY <1>5, <1>7
      <4>2. m.id = L + 1
        BY <1>1, <1>5
      <4>3. i \in 1..L => msgs[i].id = i
        BY <1>4, <1>5 DEF FramesTypes
      <4> QED BY <1>7, <4>1, <4>2, <4>3
    <3> QED BY <1>7, <3>1
  <2>2. relayed' \in 0..Len(stream') /\ taken' \in 0..relayed'
    <3>1. Len(bytes) \in Nat
      BY <1>5
    <3>2. relayed \in 0..Len(b) /\ t \in 0..relayed
      BY <1>5, <1>8, <3>1
    <3> QED BY <1>1, <1>5, <1>8, <3>2
  <2>3. sent' \in Seq(Sendable) /\ stream' \in Seq(Bytes)
    BY <1>7, <1>8
  <2>4. dir' \in {"toClient", "toServer"} /\ got' \in Seq(Messages)
    BY <1>1, <1>4 DEF FramesTypes
  <2> QED BY <2>1, <2>2, <2>3, <2>4 DEF FramesTypes
<1>17. Buffered'
  <2>1. PICK held : held = buf
    OBVIOUS
  <2>2. Holds(held, bytes, t)
    BY <1>4, <1>5, <2>1 DEF Buffered, Holds
  <2>3. Holds(held, bytes \o code, t)
    BY <1>5, <1>6, <2>2, HoldsMore
  <2>4. Holds(held, b, t) /\ held = buf' /\ t = taken' /\ b = stream'
    BY <1>1, <1>5, <1>8, <2>1, <2>3
  <2> QED BY <2>4 DEF Holds, Buffered, WaitsFor, declared
<1>18. InStep(G)'
  <2> SUFFICES ASSUME dir' = "toClient"
               PROVE  \E d \in 0..Len(sent') : /\ Complete(G, sent', d, taken') /\ got' = KnownTo(sent', d)
                                               /\ taken' - Len(buf') = G[d]
    BY DEF InStep, Complete, KnownTo, known
  <2>1. PICK d \in 0..L : Complete(E, msgs, d, t) /\ got = KnownTo(msgs, d) /\ taken - Len(buf) = E[d]
    BY <1>1, <1>3, <1>5 DEF InStep
  <2>2. d \in 0..Len(ms) /\ Complete(G, ms, d, t) /\ KnownTo(ms, d) = KnownTo(msgs, d) /\ G[d] = E[d]
    BY <1>9, <1>11, <1>12, <2>1
  <2> QED BY <1>1, <1>5, <1>7, <2>1, <2>2
<1>19. FramesInv'
  <2>1. Marks(G, sent)' /\ Written(G, sent, stream)'
    BY <1>7, <1>8, <1>9 DEF Marks, Written
  <2> QED BY <1>16, <1>17, <1>18, <2>1 DEF FramesInv
<1> QED BY <1>15, <1>19

\* Every step keeps the invariant and is a step of the channel or none.
LEMMA FramesStep ==
    ASSUME FramesInv, [FramesNext]_framesVars
    PROVE  FramesInv' /\ [Channel!Next]_(Channel!vars)
<1>1. CASE \E m \in Messages : send(m)
  BY <1>1, SendStep
<1>2. CASE \E n \in 1..MaxRead : pass_on(n)
  BY <1>2, PassOnStep
<1>3. CASE Receive
  <2>1. PICK n \in 1..MaxRead : bridge_read(n) \/ peek(n) \/ recv(n)
    BY <1>3 DEF Receive
  <2> QED BY <2>1, BridgeStep, PeekStep, RecvStep
<1>4. CASE eof \/ UNCHANGED framesVars
  BY <1>4, EofStep
<1> QED BY <1>1, <1>2, <1>3, <1>4 DEF FramesNext

\* However the bytes are cut into reads, what the bridge forwards to the browser is the sequence of messages the
\* server framed, each once its last byte is there; on the way to the server the order is kept and nothing is
\* repeated or made up, but messages are skipped (FrameDecoder::push, run_ws_relay, StdioReader::recv).
THEOREM FramesCorrect == FramesSpec => ImplementsChannel
<1>1. FramesInit => FramesInv /\ Channel!Init
  BY FramesStart
<1>2. FramesInv /\ [FramesNext]_framesVars => FramesInv' /\ [Channel!Next]_(Channel!vars)
  BY FramesStep
<1> QED BY <1>1, <1>2, PTL DEF FramesSpec, ImplementsChannel, Channel!Spec
=============================================================================
