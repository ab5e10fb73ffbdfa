------------------------------ MODULE EdgeProofs ------------------------------
(***************************************************************************)
(* The proxy's edges, for any configuration, machine and keys: the inner   *)
(* server it launches (InnerLaunch), the keys it is given to use           *)
(* (KeyCustody), and the key service that signs for it (KmsKeySource).     *)
(***************************************************************************)
EXTENDS InnerLaunch, KeyCustody, KmsKeySource, TLAPS

(* Zenon proves most of the steps; those that need arithmetic say SMT.     *)
USE Zenon

-----------------------------------------------------------------------------
(* InnerLaunch                                                             *)

Forked == {"chdir", "rlimits", "sandbox", "close", "running"}

(* What a sandbox that was built lets an inner server do.                  *)
BoxIsNarrow(c, box) ==
    /\ \A use \in box.rules :
        /\ use[1] \in c.fs_allow_read \cup c.fs_allow_write
        /\ use[2] = "write" => use[1] \in c.fs_allow_write
    /\ c.network = "deny" => \A route \in EgressRoutes : route \cap box.filter # {}

(* What the parent prepared for the child, and what the path has become.   *)
PreparedAsAsked ==
    /\ ~setup.inherit_env => child.env \subseteq setup.allow \cup setup.explicit
    /\ IF setup.working_dir = "given" THEN child.dir \in Paths /\ child.dir.kind = "dir" ELSE path = Home
    /\ setup.mode = "enforce" => BackendCanEnforce(host) /\ BoxIsNarrow(setup, child.box)
    /\ "nofile" \in DOMAIN child.hard
    /\ setup.rlimits["nofile"] = None => child.hard["nofile"] = host.hard["nofile"]

EnteredAsChecked == ~child.cwd.linked /\ (setup.working_dir # "given" => child.cwd = Home)

SandboxInForce ==
    setup.mode = "enforce" =>
        child.no_new_privs /\ child.may = child.box.rules /\ child.denied = child.box.filter

ChildFields == {"env", "dir", "cwd", "box", "hard", "fds", "no_new_privs", "may", "denied"}

LaunchInv ==
    /\ setup \in Configs /\ host \in Hosts /\ path \in Paths /\ DOMAIN child = ChildFields
    /\ launch \in {"construct", "down", "idle"} \cup Forked
    /\ launch \in Forked => PreparedAsAsked
    /\ launch \in Forked \ {"chdir"} => EnteredAsChecked
    /\ launch \in {"close", "running"} => SandboxInForce
    /\ launch \in Forked \ {"running"} => child.fds = host.fds
    /\ launch = "running" => child.fds = CloseFdsAboveStdio(host.fds, child.hard["nofile"])

(* A directory that a path names was not reached through a link, and one   *)
(* of this user's that is private is the default one.                      *)
LEMMA PathFacts ==
    ASSUME NEW p \in Paths, p.kind = "dir"
    PROVE  ~p.linked /\ (p.owner = "self" /\ p.private => p = Home)
  BY SMT DEF Paths, Home, Absent, Link, Directory

(* The default directory is one of them.                                   *)
LEMMA HomeFacts == Home \in Paths /\ Home.kind = "dir" /\ Home.owner = "self" /\ ~Home.linked
  BY DEF Paths, Home, Directory

(* Outside a launch nothing is claimed of the child.                       *)
LEMMA NoChildYet ==
    ASSUME LaunchInv, launch' \in {"construct", "down", "idle"}, UNCHANGED <<setup, host>>,
           path' \in Paths, DOMAIN child' = ChildFields
    PROVE  LaunchInv'
  BY DEF LaunchInv, Forked

(* The environment of the child is the one that was asked for.             *)
LEMMA EnvFacts ==
    ASSUME NEW c, NEW env, ApplyEnv(c, env)[1] # "refused"
    PROVE  /\ ApplyEnv(c, env)[1] = "ok"
           /\ ~c.inherit_env => ApplyEnv(c, env)[2] \subseteq c.allow \cup c.explicit
<1>1. ApplyEnv(c, env) = <<"ok", c.allow \cup c.explicit \cup (IF c.inherit_env THEN env ELSE {})>>
  BY SMT DEF ApplyEnv
<1> DEFINE given == c.allow \cup c.explicit \cup (IF c.inherit_env THEN env ELSE {})
<1>2. ~c.inherit_env => given \subseteq c.allow \cup c.explicit
  OBVIOUS
<1> HIDE DEF given
<1>3. ApplyEnv(c, env)[1] = "ok" /\ ApplyEnv(c, env)[2] = given
  BY <1>1, SMT DEF given
<1> QED
  BY <1>2, <1>3

(* The directory that was looked at.                                       *)
LEMMA DirFacts ==
    ASSUME NEW c, NEW p \in Paths, ApplyWorkingDir(c, p)[1] # "refused"
    PROVE  /\ ApplyWorkingDir(c, p)[1] = "ok"
           /\ c.working_dir = "given" => p.kind = "dir" /\ ApplyWorkingDir(c, p)[2] = p
           /\ c.working_dir # "given" =>
                ApplyWorkingDir(c, p)[2] = Home /\ (p.kind # "absent" => p = Home)
<1>1. CASE c.working_dir = "given"
  <2>1. ApplyWorkingDir(c, p) = IF p.kind = "dir" THEN <<"ok", p>> ELSE <<"refused">>
    BY <1>1 DEF ApplyWorkingDir, OpenDirNofollow
  <2>2. p.kind = "dir" /\ ApplyWorkingDir(c, p) = <<"ok", p>>
    BY <2>1, SMT
  <2> QED
    BY <1>1, <2>2, SMT
<1>2. CASE c.working_dir # "given"
  <2>1. ApplyWorkingDir(c, p) = EnsurePrivateDefaultWorkingDir(p)
    BY <1>2 DEF ApplyWorkingDir
  <2>2. CASE p.kind = "absent"
    <3>1. ApplyWorkingDir(c, p) = <<"ok", Home>>
      BY <2>1, <2>2 DEF EnsurePrivateDefaultWorkingDir
    <3> QED
      BY <1>2, <2>2, <3>1, SMT
  <2>3. CASE p.kind # "absent" /\ p.kind = "dir" /\ p.owner = "self" /\ p.private
    <3>1. ApplyWorkingDir(c, p) = <<"ok", p>>
      BY <2>1, <2>3 DEF EnsurePrivateDefaultWorkingDir
    <3>2. p = Home
      BY <2>3, PathFacts
    <3> QED
      BY <1>2, <2>3, <3>1, <3>2, SMT
  <2>4. CASE p.kind # "absent" /\ ~(p.kind = "dir" /\ p.owner = "self" /\ p.private)
    <3>1. ApplyWorkingDir(c, p) = <<"refused">>
      BY <2>1, <2>4 DEF EnsurePrivateDefaultWorkingDir
    <3> QED
      BY <3>1, SMT
  <2> QED
    BY <2>2, <2>3, <2>4
<1> QED
  BY <1>1, <1>2

(* The sandbox grants what the allowlists say and closes every route out.  *)
LEMMA BoxFacts ==
    ASSUME NEW c, NEW h, c.mode = "enforce", ApplySandbox(c, h)[1] # "refused"
    PROVE  BackendCanEnforce(h) /\ BoxIsNarrow(c, ApplySandbox(c, h)[2])
<1> DEFINE ruleset == BuildLandlockRuleset(c)
           egress  == BuildEgressFilter(c, h)
           reads == c.fs_allow_read \X {"read"}
           writes == c.fs_allow_write \X {"read", "write"}
<1>1. ApplySandbox(c, h) = IF ~ValidatePlatform(c, h) THEN <<"refused">> ELSE InstallSandboxBackend(c, h)
  BY DEF ApplySandbox
<1>2. ValidatePlatform(c, h) /\ ApplySandbox(c, h) = InstallSandboxBackend(c, h)
  BY <1>1, SMT
<1>3. BackendCanEnforce(h)
  BY <1>2 DEF ValidatePlatform
<1>4. ApplySandbox(c, h) = BuildSandbox(c, h)
  BY <1>2, <1>3 DEF InstallSandboxBackend, BackendCanEnforce
<1>5. BuildSandbox(c, h) = IF "refused" \in {ruleset[1], egress[1]} THEN <<"refused">>
                           ELSE <<"ok", [rules |-> ruleset[2], filter |-> egress[2]]>>
  BY DEF BuildSandbox
<1> HIDE DEF ruleset, egress
<1>6. /\ ruleset[1] # "refused" /\ egress[1] # "refused"
      /\ BuildSandbox(c, h) = <<"ok", [rules |-> ruleset[2], filter |-> egress[2]]>>
  <2>1. BuildSandbox(c, h)[1] # "refused"
    BY <1>4
  <2>2. ~("refused" \in {ruleset[1], egress[1]})
    BY <1>5, <2>1, SMT
  <2> QED
    BY <1>5, <2>2
<1>7. ruleset[2] = reads \cup writes
  <2>1. ruleset = IF "gone" \in c.fs_allow_read \cup c.fs_allow_write THEN <<"refused">>
                  ELSE <<"ok", reads \cup writes>>
    BY DEF ruleset, BuildLandlockRuleset
  <2> HIDE DEF reads, writes
  <2> QED
    BY <1>6, <2>1, SMT
<1>8. c.network = "deny" => egress[2] = DeniedEgressSyscalls(h.arch)
  <2> SUFFICES ASSUME c.network = "deny" PROVE egress[2] = DeniedEgressSyscalls(h.arch)
    OBVIOUS
  <2>1. CASE CurrentTargetArch(h)
    <3>1. egress = <<"ok", DeniedEgressSyscalls(h.arch)>>
      BY <2>1 DEF egress, BuildEgressFilter
    <3> QED
      BY <3>1, SMT
  <2>2. CASE ~CurrentTargetArch(h)
    <3>1. egress = <<"refused">>
      BY <2>2 DEF egress, BuildEgressFilter
    <3> QED
      BY <1>6, <3>1, SMT
  <2> QED
    BY <2>1, <2>2
<1>9. ApplySandbox(c, h)[2].rules = reads \cup writes /\ ApplySandbox(c, h)[2].filter = egress[2]
  <2> DEFINE box == [rules |-> ruleset[2], filter |-> egress[2]]
  <2>1. box.rules = ruleset[2] /\ box.filter = egress[2]
    OBVIOUS
  <2> HIDE DEF box
  <2>2. ApplySandbox(c, h)[2] = box
    BY <1>4, <1>6, SMT DEF box
  <2> QED
    BY <1>7, <2>1, <2>2
<1>10. \A use \in reads \cup writes :
        /\ use[1] \in c.fs_allow_read \cup c.fs_allow_write
        /\ use[2] = "write" => use[1] \in c.fs_allow_write
  BY SMT
<1>11. c.network = "deny" => \A route \in EgressRoutes : route \cap egress[2] # {}
  <2>1. \A route \in EgressRoutes : "socket" \in route \/ "io_uring_setup" \in route
    BY DEF EgressRoutes
  <2> QED
    BY <1>8, <2>1 DEF DeniedEgressSyscalls
<1> HIDE DEF reads, writes
<1> QED
  BY <1>3, <1>9, <1>10, <1>11 DEF BoxIsNarrow

(* A command is prepared.                                                  *)
LEMMA PrepareStep == LaunchInv /\ Prepare => LaunchInv'
<1> SUFFICES ASSUME LaunchInv, Prepare PROVE LaunchInv'
  OBVIOUS
<1> DEFINE env == ApplyEnv(setup, host.env)
           dir == ApplyWorkingDir(setup, path)
           box == ApplySandbox(setup, host)
<1>1. /\ setup \in Configs /\ host \in Hosts /\ path \in Paths /\ DOMAIN child = ChildFields
      /\ launch \in {"construct", "idle"} /\ UNCHANGED <<setup, host>>
      /\ path' = IF env[1] = "ok" /\ path.kind = "absent" /\ dir[1] = "ok" THEN dir[2] ELSE path
  BY DEF LaunchInv, Prepare
<1>2. /\ "refused" \in {env[1], dir[1], box[1]} => LaunchRefused /\ child' = child
      /\ "refused" \notin {env[1], dir[1], box[1]} /\ launch = "construct" =>
            launch' = "idle" /\ child' = child
      /\ "refused" \notin {env[1], dir[1], box[1]} /\ launch # "construct" =>
            /\ launch' = "chdir"
            /\ child' = [NoChild EXCEPT !.env = env[2], !.dir = dir[2], !.box = box[2],
                                        !.hard = host.hard, !.fds = host.fds]
  BY DEF Prepare
<1>3. dir[1] # "refused" =>
        /\ dir[1] = "ok"
        /\ setup.working_dir = "given" => path.kind = "dir" /\ dir[2] = path
        /\ setup.working_dir # "given" => dir[2] = Home /\ (path.kind # "absent" => path = Home)
  BY <1>1, DirFacts
<1>4. env[1] # "refused" =>
        env[1] = "ok" /\ (~setup.inherit_env => env[2] \subseteq setup.allow \cup setup.explicit)
  BY EnvFacts
<1>5. setup.mode = "enforce" /\ box[1] # "refused" => BackendCanEnforce(host) /\ BoxIsNarrow(setup, box[2])
  BY BoxFacts
<1> HIDE DEF env, dir, box
<1>6. path' \in Paths
  <2>1. CASE env[1] = "ok" /\ path.kind = "absent" /\ dir[1] = "ok"
    <3>1. setup.working_dir # "given" /\ dir[2] = Home
      BY <1>3, <2>1
    <3> QED
      BY <1>1, <2>1, <3>1, HomeFacts
  <2>2. CASE ~(env[1] = "ok" /\ path.kind = "absent" /\ dir[1] = "ok")
    BY <1>1, <2>2
  <2> QED
    BY <2>1, <2>2
<1>7. CASE "refused" \in {env[1], dir[1], box[1]} \/ launch = "construct"
  BY <1>1, <1>2, <1>6, <1>7, NoChildYet DEF LaunchRefused
<1>8. CASE "refused" \notin {env[1], dir[1], box[1]} /\ launch # "construct"
  <2>1. /\ DOMAIN child' = ChildFields /\ child'.env = env[2] /\ child'.dir = dir[2] /\ child'.box = box[2]
        /\ child'.hard = host.hard /\ child'.fds = host.fds
    BY <1>2, <1>8 DEF NoChild, ChildFields
  <2>2. launch' = "chdir" /\ env[1] # "refused" /\ dir[1] # "refused" /\ box[1] # "refused"
    BY <1>2, <1>8
  <2>3. IF setup.working_dir = "given" THEN child'.dir \in Paths /\ child'.dir.kind = "dir" ELSE path' = Home
    BY <1>1, <1>3, <1>4, <2>1, <2>2
  <2>4. "nofile" \in DOMAIN host.hard
    BY <1>1, LaunchAssumption
  <2>5. BackendCanEnforce(host)' = BackendCanEnforce(host)
    BY <1>1 DEF BackendCanEnforce, LandlockAbiIsEnforceable
  <2>6. PreparedAsAsked'
    BY <1>1, <1>4, <1>5, <2>1, <2>2, <2>3, <2>4, <2>5 DEF PreparedAsAsked, BoxIsNarrow
  <2> QED
    BY <1>1, <1>6, <2>1, <2>2, <2>6 DEF LaunchInv, Forked
<1> QED
  BY <1>7, <1>8

(* What was prepared stays so while a hook changes the rest of the child.  *)
LEMMA PreparedStays ==
    ASSUME PreparedAsAsked, UNCHANGED <<setup, host, path>>,
           child'.env = child.env, child'.dir = child.dir, child'.box = child.box,
           "nofile" \in DOMAIN child'.hard,
           setup.rlimits["nofile"] = None => child'.hard["nofile"] = child.hard["nofile"]
    PROVE  PreparedAsAsked'
<1>1. setup' = setup /\ host' = host /\ path' = path
  OBVIOUS
<1>2. (~setup.inherit_env => child.env \subseteq setup.allow \cup setup.explicit)'
  BY <1>1 DEF PreparedAsAsked
<1>3. (IF setup.working_dir = "given" THEN child.dir \in Paths /\ child.dir.kind = "dir" ELSE path = Home)'
  BY <1>1 DEF PreparedAsAsked
<1>4. (setup.mode = "enforce" => BackendCanEnforce(host))'
  BY <1>1 DEF PreparedAsAsked, BackendCanEnforce, LandlockAbiIsEnforceable
<1>5. (setup.mode = "enforce" => BoxIsNarrow(setup, child.box))'
  BY <1>1 DEF PreparedAsAsked, BoxIsNarrow
<1>6. ("nofile" \in DOMAIN child.hard)'
  OBVIOUS
<1>7. (setup.rlimits["nofile"] = None => child.hard["nofile"] = host.hard["nofile"])'
  BY <1>1 DEF PreparedAsAsked
<1> QED
  BY <1>2, <1>3, <1>4, <1>5, <1>6, <1>7 DEF PreparedAsAsked

(* The hooks of the child, one after the other.                            *)
LEMMA HookStep == LaunchInv /\ (Chdir \/ SetRlimits \/ Enforce \/ CloseExtraFds) => LaunchInv'
<1> SUFFICES ASSUME LaunchInv, Chdir \/ SetRlimits \/ Enforce \/ CloseExtraFds PROVE LaunchInv'
  OBVIOUS
<1>1. /\ setup \in Configs /\ host \in Hosts /\ path \in Paths /\ DOMAIN child = ChildFields
      /\ UNCHANGED <<setup, host, path>> /\ launch \in Forked /\ PreparedAsAsked
      /\ child.fds = host.fds
  BY DEF LaunchInv, Chdir, SetRlimits, Enforce, CloseExtraFds, Forked
<1>3. CASE Chdir
  <2> DEFINE p == IF setup.working_dir = "given" THEN child.dir
                  ELSE IF path.kind = "link" THEN path.to
                  ELSE path
  <2>1. launch' = "rlimits" /\ p.kind = "dir" /\ child' = [child EXCEPT !.cwd = p]
    BY <1>3 DEF Chdir
  <2>2. ~p.linked /\ (setup.working_dir # "given" => p = Home)
    <3>1. CASE setup.working_dir = "given"
      <4>1. p = child.dir
        BY <3>1
      <4> HIDE DEF p
      <4> QED
        BY <1>1, <2>1, <3>1, <4>1, PathFacts DEF PreparedAsAsked
    <3>2. CASE setup.working_dir # "given"
      <4>1. path = Home /\ path.kind # "link"
        BY <1>1, <3>2, HomeFacts DEF PreparedAsAsked
      <4>2. p = path
        BY <3>2, <4>1
      <4> HIDE DEF p
      <4> QED
        BY <4>1, <4>2, HomeFacts
    <3> QED
      BY <3>1, <3>2
  <2> HIDE DEF p
  <2>3. /\ DOMAIN child' = ChildFields /\ child'.cwd = p
        /\ child'.env = child.env /\ child'.dir = child.dir /\ child'.box = child.box
        /\ child'.hard = child.hard /\ child'.fds = child.fds
    BY <1>1, <2>1 DEF ChildFields
  <2>4. PreparedAsAsked'
    <3>1. "nofile" \in DOMAIN child.hard
      BY <1>1 DEF PreparedAsAsked
    <3> QED
      BY <1>1, <2>3, <3>1, PreparedStays
  <2> QED
    BY <1>1, <2>1, <2>2, <2>3, <2>4 DEF LaunchInv, Forked, EnteredAsChecked
<1>4. CASE SetRlimits
  <2> DEFINE set == {r \in Configured(setup.rlimits) : ~(setup.rlimits[r] > child.hard[r])}
             lowered == [r \in DOMAIN child.hard |->
                            IF r \in set THEN setup.rlimits[r] ELSE child.hard[r]]
  <2>1. launch = "rlimits" /\ launch' = "sandbox" /\ child' = [child EXCEPT !.hard = lowered]
    BY <1>4 DEF SetRlimits
  <2>2. /\ DOMAIN lowered = DOMAIN child.hard
        /\ setup.rlimits["nofile"] = None /\ "nofile" \in DOMAIN child.hard =>
             lowered["nofile"] = child.hard["nofile"]
    BY DEF Configured
  <2> HIDE DEF lowered
  <2>3. /\ DOMAIN child' = ChildFields /\ child'.hard = lowered
        /\ child'.env = child.env /\ child'.dir = child.dir /\ child'.box = child.box
        /\ child'.cwd = child.cwd /\ child'.fds = child.fds
    BY <1>1, <2>1 DEF ChildFields
  <2>4. PreparedAsAsked'
    <3>1. "nofile" \in DOMAIN child.hard
      BY <1>1 DEF PreparedAsAsked
    <3> QED
      BY <1>1, <2>2, <2>3, <3>1, PreparedStays
  <2>5. EnteredAsChecked'
    BY <1>1, <2>1, <2>3 DEF LaunchInv, Forked, EnteredAsChecked
  <2> QED
    BY <1>1, <2>1, <2>3, <2>4, <2>5 DEF LaunchInv, Forked
<1>5. CASE Enforce
  <2>1. launch = "sandbox" /\ launch' = "close"
    BY <1>5 DEF Enforce
  <2>2. /\ DOMAIN child' = ChildFields
        /\ child'.env = child.env /\ child'.dir = child.dir /\ child'.box = child.box
        /\ child'.cwd = child.cwd /\ child'.fds = child.fds /\ child'.hard = child.hard
        /\ setup.mode = "enforce" =>
             child'.no_new_privs /\ child'.may = child.box.rules /\ child'.denied = child.box.filter
    <3>1. CASE setup.mode = "enforce"
      <4>1. child' = [child EXCEPT !.no_new_privs = TRUE, !.may = child.box.rules,
                                   !.denied = child.box.filter]
        BY <1>5, <3>1 DEF Enforce
      <4> QED
        BY <1>1, <4>1 DEF ChildFields
    <3>2. CASE setup.mode # "enforce"
      BY <1>1, <1>5, <3>2 DEF Enforce
    <3> QED
      BY <3>1, <3>2
  <2>3. PreparedAsAsked'
    <3>1. "nofile" \in DOMAIN child.hard
      BY <1>1 DEF PreparedAsAsked
    <3> QED
      BY <1>1, <2>2, <3>1, PreparedStays
  <2>4. EnteredAsChecked' /\ SandboxInForce'
    BY <1>1, <2>1, <2>2 DEF LaunchInv, Forked, EnteredAsChecked, SandboxInForce
  <2> QED
    BY <1>1, <2>1, <2>2, <2>3, <2>4 DEF LaunchInv, Forked
<1>6. CASE CloseExtraFds
  <2> DEFINE left == CloseFdsAboveStdio(child.fds, child.hard["nofile"])
  <2>1. launch = "close" /\ launch' = "running" /\ child' = [child EXCEPT !.fds = left]
    BY <1>6 DEF CloseExtraFds
  <2>2. left = CloseFdsAboveStdio(host.fds, child.hard["nofile"])
    BY <1>1
  <2> HIDE DEF left
  <2>3. /\ DOMAIN child' = ChildFields /\ child'.fds = left
        /\ child'.env = child.env /\ child'.dir = child.dir /\ child'.box = child.box
        /\ child'.cwd = child.cwd /\ child'.hard = child.hard
        /\ child'.no_new_privs = child.no_new_privs /\ child'.may = child.may /\ child'.denied = child.denied
    BY <1>1, <2>1 DEF ChildFields
  <2>4. PreparedAsAsked'
    <3>1. "nofile" \in DOMAIN child.hard
      BY <1>1 DEF PreparedAsAsked
    <3> QED
      BY <1>1, <2>3, <3>1, PreparedStays
  <2>5. EnteredAsChecked' /\ SandboxInForce'
    BY <1>1, <2>1, <2>3 DEF LaunchInv, Forked, EnteredAsChecked, SandboxInForce
  <2>6. child'.fds = CloseFdsAboveStdio(host.fds, child.hard["nofile"])'
    BY <1>1, <2>2, <2>3 DEF CloseFdsAboveStdio
  <2> QED
    BY <1>1, <2>1, <2>3, <2>4, <2>5, <2>6 DEF LaunchInv, Forked
<1> QED
  BY <1>3, <1>4, <1>5, <1>6

(* Somebody renames: the default directory stays.                          *)
LEMMA RetargetStep == LaunchInv /\ Retarget => LaunchInv'
<1> SUFFICES ASSUME LaunchInv, Retarget PROVE LaunchInv'
  OBVIOUS
<1>1. /\ UNCHANGED <<setup, host, launch, child>> /\ path' \in Paths
      /\ setup.working_dir = "given" \/ ~(path.kind = "dir" /\ path.owner = "self")
  BY DEF Retarget
<1>2. launch \in Forked => PreparedAsAsked'
  BY <1>1, HomeFacts DEF LaunchInv, PreparedAsAsked, BoxIsNarrow, BackendCanEnforce,
     LandlockAbiIsEnforceable
<1> QED
  BY <1>1, <1>2 DEF LaunchInv, EnteredAsChecked, SandboxInForce, CloseFdsAboveStdio

(* What is closed before exec: everything, where the kernel can, or where  *)
(* the limit that bounds the loop was not lowered.                         *)
LEMMA ClosedFds ==
    ASSUME NEW hard, host \in Hosts, host.kernel >= 9 \/ hard = host.hard["nofile"]
    PROVE  CloseFdsAboveStdio(host.fds, hard) = {}
<1>1. /\ HardCapFd \in Nat /\ host.kernel \in Int /\ (host.kernel >= 9 => host.linux)
      /\ host.hard["nofile"] \in Nat
      /\ host.fds \subseteq 3 .. HardCapFd /\ \A fd \in host.fds : fd < host.hard["nofile"]
  BY LaunchAssumption
<1>2. \A fd \in host.fds : ~(fd < 3)
  BY <1>1, SMT
<1>3. CASE host.linux /\ host.kernel >= 9
  BY <1>2, <1>3 DEF CloseFdsAboveStdio
<1>4. CASE ~(host.linux /\ host.kernel >= 9)
  <2> DEFINE max_fd == IF hard = 0 THEN FallbackMaxFd ELSE IF hard < HardCapFd THEN hard ELSE HardCapFd
  <2>1. hard = host.hard["nofile"]
    BY <1>1, <1>4
  <2>2. \A fd \in host.fds : ~(fd > max_fd)
    BY <1>1, <2>1, SMT
  <2> HIDE DEF max_fd
  <2>3. CloseFdsAboveStdio(host.fds, hard) = {fd \in host.fds : fd < 3 \/ fd > max_fd}
    BY <1>4 DEF CloseFdsAboveStdio, CloseFdsAboveStdioLoop, max_fd
  <2> QED
    BY <1>2, <2>2, <2>3
<1> QED
  BY <1>3, <1>4

(* For every configuration and machine, whatever happens to the path       *)
(* between two steps: an inner server that runs is contained as it was     *)
(* asked for, runs where it was checked, and inherits only what is given.  *)
THEOREM LaunchesAreContained == LaunchSpec => []LaunchIsContained
<1>1. LaunchInit => LaunchInv
  <2>1. DOMAIN NoChild = ChildFields
    BY DEF NoChild, ChildFields
  <2> QED
    BY <2>1 DEF LaunchInit, LaunchInv, Forked
<1>2. LaunchInv /\ [LaunchNext]_launchVars => LaunchInv'
  <2> SUFFICES ASSUME LaunchInv, [LaunchNext]_launchVars PROVE LaunchInv'
    OBVIOUS
  <2>1. CASE HookFails \/ Exits
    <3>1. DOMAIN NoChild = ChildFields
      BY DEF NoChild, ChildFields
    <3>2. launch' = "idle" /\ child' = NoChild /\ UNCHANGED <<setup, host, path>> /\ path \in Paths
      BY <2>1 DEF HookFails, Exits, LaunchInv
    <3> QED
      BY <3>1, <3>2, NoChildYet
  <2>2. CASE UNCHANGED launchVars
    BY <2>2 DEF launchVars, LaunchInv, PreparedAsAsked, EnteredAsChecked, SandboxInForce, BoxIsNarrow,
       BackendCanEnforce, LandlockAbiIsEnforceable, CloseFdsAboveStdio
  <2> QED
    BY <2>1, <2>2, PrepareStep, HookStep, RetargetStep DEF LaunchNext
<1>3. LaunchInv => LaunchIsContained
  <2> SUFFICES ASSUME LaunchInv, launch = "running" PROVE LaunchIsContained
    BY DEF LaunchIsContained, ContainedOrNotRun, RunsWhereItWasChecked, InheritsOnlyWhatIsGiven
  <2>1. /\ PreparedAsAsked /\ EnteredAsChecked /\ SandboxInForce /\ host \in Hosts
        /\ child.fds = CloseFdsAboveStdio(host.fds, child.hard["nofile"])
    BY DEF LaunchInv, Forked
  <2>2. host.kernel >= 9 \/ setup.rlimits["nofile"] = None => child.fds = {}
    BY <2>1, ClosedFds DEF PreparedAsAsked
  <2>3. BackendCanEnforce(host) => host.kernel >= 9
    BY <2>1, LaunchAssumption, SMT DEF BackendCanEnforce, LandlockAbiIsEnforceable
  <2>4. ContainedOrNotRun
    BY <2>1, <2>2, <2>3 DEF ContainedOrNotRun, PreparedAsAsked, SandboxInForce, BoxIsNarrow
  <2>5. RunsWhereItWasChecked
    BY <2>1 DEF RunsWhereItWasChecked, EnteredAsChecked
  <2>6. InheritsOnlyWhatIsGiven
    BY <2>1, <2>2 DEF InheritsOnlyWhatIsGiven, PreparedAsAsked
  <2> QED
    BY <2>4, <2>5, <2>6 DEF LaunchIsContained
<1> QED
  BY <1>1, <1>2, <1>3, PTL DEF LaunchSpec

-----------------------------------------------------------------------------
(* KmsKeySource                                                            *)

Token == [good_until : Int, expires_at : Int]

Reply == [kind : {"none", "error"}] \cup [kind : {"signed"}, key : Nat]

SigningCall ==
    [pc : {"idle", "bearer", "fetch", "store", "sign", "verify"}, now : Int, bearer : Token,
     lifetime : Nat, cached : BOOLEAN, key : Nat, reply : Reply]

(* A call is made only once the key is pinned, so the pinned key never     *)
(* changes under one.  A token that is to be stored outlasts the expiry it *)
(* will be stored with, because that is counted from before the fetch.     *)
CallIsSound(c) ==
    /\ c.now <= kmsNow
    /\ c.pc # "idle" => pinned # 0
    /\ c.reply.kind = "signed" => pinned # 0 /\ c.reply.key = pinned
    /\ c.pc \in {"bearer", "fetch", "store"} => ~c.cached
    /\ c.pc = "store" => c.now + c.lifetime <= c.bearer.good_until
    /\ c.cached => c.now + Margin < c.bearer.good_until

KmsInv ==
    /\ kmsNow \in Nat /\ service \in Nat \ {0} /\ pinned \in Nat
    /\ token_cache \in Token /\ token_cache.expires_at <= token_cache.good_until
    /\ calls \in [Threads -> SigningCall]
    /\ \A t \in Threads : CallIsSound(calls[t])

(* A call that has not begun is typed.                                     *)
LEMMA QuietType == NoToken \in Token /\ Quiet \in SigningCall
<1>1. NoToken \in Token
  BY SMT DEF NoToken, Token
<1>2. Quiet \in SigningCall
  BY <1>1, SMT DEF Quiet, SigningCall, Reply
<1> QED
  BY <1>1, <1>2

(* A call that has not begun is sound.                                     *)
LEMMA QuietIsSound ==
    ASSUME KmsInv, NEW r \in [kind : {"none", "error"}]
    PROVE  /\ [Quiet EXCEPT !.reply = r] \in SigningCall
           /\ CallIsSound([Quiet EXCEPT !.reply = r])
<1>0. r \in Reply
  BY DEF Reply
<1>1. [Quiet EXCEPT !.reply = r] \in SigningCall
  BY QuietType, <1>0 DEF SigningCall
<1>2. CallIsSound([Quiet EXCEPT !.reply = r])
  BY SMT DEF Quiet, CallIsSound, KmsInv
<1> QED
  BY <1>1, <1>2

(* Nothing is pinned, cached or asked for at first.                        *)
LEMMA KmsInitially == KmsInit => KmsInv
<1> SUFFICES ASSUME KmsInit PROVE KmsInv
  OBVIOUS
<1>1. NoToken \in Token /\ NoToken.expires_at <= NoToken.good_until
  BY SMT DEF NoToken, Token
<1>2. Quiet \in SigningCall
  BY QuietType
<1>3. CallIsSound(Quiet)
  BY SMT DEF Quiet, CallIsSound, KmsInit
<1> QED
  BY <1>1, <1>2, <1>3, SMT DEF KmsInit, KmsInv

(* One thread's step that makes its call c, and leaves the clock, the      *)
(* service and the pinned key alone.                                       *)
LEMMA OneCallMoves ==
    ASSUME KmsInv, NEW t \in Threads, NEW c \in SigningCall, CallIsSound(c),
           calls' = [calls EXCEPT ![t] = c],
           kmsNow' = kmsNow, service' = service, pinned' = pinned,
           token_cache' \in Token, token_cache'.expires_at <= token_cache'.good_until
    PROVE  KmsInv'
<1>1. calls' \in [Threads -> SigningCall]
  BY DEF KmsInv
<1>2. \A u \in Threads : calls'[u] = IF u = t THEN c ELSE calls[u]
  BY DEF KmsInv
<1>3. ASSUME NEW u \in Threads PROVE CallIsSound(calls[u])'
  <2>1. calls'[u] \in {c, calls[u]}
    BY <1>2
  <2>2. CallIsSound(calls[u])
    BY DEF KmsInv
  <2> QED
    BY <2>1, <2>2 DEF CallIsSound
<1> QED
  BY <1>1, <1>3 DEF KmsInv

(* Every step keeps the calls sound.                                       *)
LEMMA KmsStep == KmsInv /\ [KmsNext]_kmsVars => KmsInv'
<1> SUFFICES ASSUME KmsInv, [KmsNext]_kmsVars PROVE KmsInv'
  OBVIOUS
<1>0. /\ kmsNow \in Nat /\ service \in Nat \ {0} /\ pinned \in Nat
      /\ token_cache \in Token /\ token_cache.expires_at <= token_cache.good_until
      /\ calls \in [Threads -> SigningCall]
  BY DEF KmsInv
<1>1. CASE KmsTick
  BY <1>1, SMT DEF KmsTick, KmsInv, CallIsSound, SigningCall
<1>2. CASE KeyIsReplaced
  BY <1>2, SMT DEF KeyIsReplaced, KmsInv, CallIsSound
<1>3. CASE PinPublicKey
  BY <1>3 DEF PinPublicKey, KmsInv, CallIsSound
<1>4. ASSUME NEW t \in Threads, Failed(t), UNCHANGED <<kmsNow, service, pinned, token_cache>>
      PROVE  KmsInv'
  <2> DEFINE c == [Quiet EXCEPT !.reply = [kind |-> "error"]]
  <2>1. c \in SigningCall /\ CallIsSound(c)
    BY QuietIsSound
  <2> HIDE DEF c
  <2>2. calls' = [calls EXCEPT ![t] = c]
    BY <1>4 DEF Failed, c
  <2> QED
    BY <1>0, <1>4, <2>1, <2>2, OneCallMoves
<1>5. ASSUME NEW t \in Threads, ReadNow(t) PROVE KmsInv'
  <2> DEFINE c == [Quiet EXCEPT !.pc = "bearer", !.now = kmsNow]
  <2>1. c \in SigningCall
    <3>1. kmsNow \in Int /\ [Quiet EXCEPT !.pc = "bearer"] \in SigningCall
      BY <1>0, QuietType, SMT DEF SigningCall
    <3> QED
      BY <3>1 DEF SigningCall
  <2>2. CallIsSound(c)
    BY <1>0, <1>5, SMT DEF Quiet, CallIsSound, ReadNow
  <2> HIDE DEF c
  <2>3. calls' = [calls EXCEPT ![t] = c] /\ UNCHANGED <<kmsNow, service, pinned, token_cache>>
    BY <1>5 DEF ReadNow, c
  <2> QED
    BY <1>0, <2>1, <2>2, <2>3, OneCallMoves
<1>6. ASSUME NEW t \in Threads, LookUpToken(t) PROVE KmsInv'
  <2>0. calls[t] \in SigningCall /\ CallIsSound(calls[t]) /\ calls[t].pc = "bearer"
    BY <1>6 DEF KmsInv, LookUpToken, At
  <2>1. CASE calls[t].now + Margin < token_cache.expires_at
    <3> DEFINE c == [calls[t] EXCEPT !.pc = "sign", !.bearer = token_cache, !.cached = TRUE]
    <3>1. c \in SigningCall
      BY <1>0, <2>0 DEF SigningCall
    <3>2. calls[t].now + Margin < token_cache.good_until
      BY <1>0, <2>0, <2>1, TokenAssumption, SMT DEF Token, SigningCall
    <3>3. CallIsSound(c)
      BY <2>0, <3>2 DEF CallIsSound, SigningCall
    <3> HIDE DEF c
    <3>4. calls' = [calls EXCEPT ![t] = c] /\ UNCHANGED <<kmsNow, service, pinned, token_cache>>
      BY <1>6, <2>1 DEF LookUpToken, c
    <3> QED
      BY <1>0, <3>1, <3>3, <3>4, OneCallMoves
  <2>2. CASE ~(calls[t].now + Margin < token_cache.expires_at)
    <3> DEFINE c == [calls[t] EXCEPT !.pc = "fetch"]
    <3>1. c \in SigningCall /\ CallIsSound(c)
      BY <2>0 DEF SigningCall, CallIsSound
    <3> HIDE DEF c
    <3>2. calls' = [calls EXCEPT ![t] = c] /\ UNCHANGED <<kmsNow, service, pinned, token_cache>>
      BY <1>6, <2>2 DEF LookUpToken, c
    <3> QED
      BY <1>0, <3>1, <3>2, OneCallMoves
  <2> QED
    BY <2>1, <2>2
<1>7. ASSUME NEW t \in Threads, FetchToken(t) PROVE KmsInv'
  <2>0. calls[t] \in SigningCall /\ CallIsSound(calls[t]) /\ calls[t].pc = "fetch"
    BY <1>7 DEF KmsInv, FetchToken, At
  <2>1. ASSUME NEW life \in Lifetimes,
               calls' = [calls EXCEPT ![t] =
                   [calls[t] EXCEPT !.pc = "store", !.lifetime = life,
                                    !.bearer.good_until = kmsNow + life]]
        PROVE  KmsInv'
    <3> DEFINE c == [calls[t] EXCEPT !.pc = "store", !.lifetime = life,
                                     !.bearer.good_until = kmsNow + life]
    <3>1. life \in Nat /\ kmsNow + life \in Int
      BY <1>0, TokenAssumption, SMT
    <3>2. c \in SigningCall
      BY <2>0, <3>1 DEF SigningCall, Token
    <3>3. c.pc = "store" /\ c.now = calls[t].now /\ c.lifetime = life /\ c.cached = calls[t].cached
          /\ c.bearer.good_until = kmsNow + life /\ c.reply = calls[t].reply
      BY <2>0 DEF SigningCall, Token
    <3> HIDE DEF c
    <3>4. CallIsSound(c)
      BY <1>0, <2>0, <3>1, <3>3, SMT DEF CallIsSound, SigningCall
    <3>5. calls' = [calls EXCEPT ![t] = c] /\ UNCHANGED <<kmsNow, service, pinned, token_cache>>
      BY <1>7, <2>1 DEF FetchToken, c
    <3> QED
      BY <1>0, <3>2, <3>4, <3>5, OneCallMoves
  <2> QED
    BY <1>4, <1>7, <2>1 DEF FetchToken
<1>8. ASSUME NEW t \in Threads, StoreToken(t) PROVE KmsInv'
  <2>0. calls[t] \in SigningCall /\ CallIsSound(calls[t]) /\ calls[t].pc = "store"
    BY <1>8 DEF KmsInv, StoreToken, At
  <2> DEFINE c == [calls[t] EXCEPT !.pc = "sign"]
             k == [calls[t].bearer EXCEPT !.expires_at = ExpiryFromNow(calls[t])]
  <2>1. c \in SigningCall /\ CallIsSound(c)
    BY <2>0 DEF SigningCall, CallIsSound
  <2>2. k \in Token /\ k.expires_at <= k.good_until
    BY <2>0, SMT DEF SigningCall, Token, CallIsSound, ExpiryFromNow
  <2> HIDE DEF c, k
  <2>3. calls' = [calls EXCEPT ![t] = c] /\ token_cache' = k /\ UNCHANGED <<kmsNow, service, pinned>>
    BY <1>0, <1>8 DEF StoreToken, c, k
  <2> QED
    BY <2>1, <2>2, <2>3, OneCallMoves
<1>9. ASSUME NEW t \in Threads, PostSign(t) PROVE KmsInv'
  <2>0. calls[t] \in SigningCall /\ CallIsSound(calls[t]) /\ calls[t].pc = "sign"
    BY <1>9 DEF KmsInv, PostSign, At
  <2>1. ASSUME NEW key \in Nat,
               calls' = [calls EXCEPT ![t].pc = "verify", ![t].key = key]
        PROVE  KmsInv'
    <3> DEFINE c == [calls[t] EXCEPT !.pc = "verify", !.key = key]
    <3>1. c \in SigningCall /\ CallIsSound(c)
      BY <2>0 DEF SigningCall, CallIsSound
    <3> HIDE DEF c
    <3>2. calls' = [calls EXCEPT ![t] = c] /\ UNCHANGED <<kmsNow, service, pinned, token_cache>>
      BY <1>0, <1>9, <2>1 DEF PostSign, c
    <3> QED
      BY <1>0, <3>1, <3>2, OneCallMoves
  <2> QED
    BY <1>0, <1>4, <1>9, <2>1 DEF PostSign
<1>10. ASSUME NEW t \in Threads, SignRawEd25519(t) PROVE KmsInv'
  <2>0. calls[t] \in SigningCall /\ CallIsSound(calls[t]) /\ calls[t].pc = "verify"
    BY <1>10 DEF KmsInv, SignRawEd25519, At
  <2>1. CASE calls[t].key = pinned
    <3> DEFINE c == [Quiet EXCEPT !.reply = [kind |-> "signed", key |-> calls[t].key]]
    <3>0. [kind |-> "signed", key |-> calls[t].key] \in Reply
      BY <2>0 DEF SigningCall, Reply
    <3>1. c \in SigningCall
      BY <3>0, QuietType DEF SigningCall
    <3>2. CallIsSound(c)
      BY <1>0, <2>0, <2>1, SMT DEF Quiet, CallIsSound
    <3> HIDE DEF c
    <3>3. calls' = [calls EXCEPT ![t] = c] /\ UNCHANGED <<kmsNow, service, pinned, token_cache>>
      BY <1>10, <2>1 DEF SignRawEd25519, c
    <3> QED
      BY <1>0, <3>1, <3>2, <3>3, OneCallMoves
  <2>2. CASE calls[t].key # pinned
    BY <1>4, <1>10, <2>2 DEF SignRawEd25519
  <2> QED
    BY <2>1, <2>2
<1>11. CASE UNCHANGED kmsVars
  BY <1>11 DEF kmsVars, KmsInv, CallIsSound
<1> QED
  BY <1>1, <1>2, <1>3, <1>5, <1>6, <1>7, <1>8, <1>9, <1>10, <1>11 DEF KmsNext

(* Whatever key the service has moved to, a signature that sign_raw_ed25519 *)
(* returns was made by the key pinned at the start; and whichever of several *)
(* concurrent fetches was stored last, a token that access_token takes out  *)
(* of its cache has more than the margin left.                              *)
THEOREM KmsSigningSafety == KmsSpec => []KmsSigningIsSafe
<1>1. KmsInv => KmsSigningIsSafe
  BY DEF KmsInv, CallIsSound, EmittedUnderPinnedKey, CachedTokenIsLive, KmsSigningIsSafe
<1> QED
  BY <1>1, KmsInitially, KmsStep, PTL DEF KmsSpec

-----------------------------------------------------------------------------
(* KeyCustody                                                              *)

(* What the proxy signs a handshake with is the key of its certificate.    *)
KeysMatchLeaf ==
    /\ ~source.delegated => loaded.tls_key = loaded.chain[1]
    /\ source.delegated /\ source.kind \in Kms => loaded.pinned["tls"] = loaded.chain[1]
    /\ source.delegated /\ source.kind = "pkcs11" =>
         replacements > 0 \/ FindKey(Labelled(vault, "tls", "public")) = loaded.chain[1]

(* The key that response_public_key gives now.                             *)
ResponseKey ==
    CASE source.kind = "file" -> FileSigningKey(vault)
      [] source.kind = "env" -> EnvSigningKey(vault)
      [] source.kind = "pkcs11" -> TokenVerificationKey
      [] OTHER -> RawPointFromSpki(loaded.pinned["response"])

(* Responses and answers about the key are of that key, or failed.         *)
ResponseKeyKept ==
    \/ source.kind \in {"file", "pkcs11"} /\ replacements > 0
    \/ emitted \in {KeyError, ResponseKey} /\ advertised \in {KeyError, ResponseKey}

CustodyInv ==
    /\ replacements \in Nat
    /\ wiring # "serving" => shaken = KeyError /\ emitted = KeyError /\ advertised = KeyError
    /\ wiring = "serving" => KeysMatchLeaf
    /\ HandshakeUnderLeaf /\ ResponseKeyKept

(* Nothing is signed before the proxy serves.                              *)
LEMMA NothingSignedYet ==
    ASSUME wiring' # "serving", shaken' = KeyError, emitted' = KeyError, advertised' = KeyError,
           replacements' \in Nat
    PROVE  CustodyInv'
  BY DEF CustodyInv, HandshakeUnderLeaf, ResponseKeyKept

(* A point is a key, or there is none.                                     *)
LEMMA PointOfKey == \A k : RawPointFromSpki(k) # KeyError => RawPointFromSpki(k) = k
  BY DEF RawPointFromSpki

(* The start goes through its stages without a signature.                  *)
LEMMA StartStep ==
    ASSUME CustodyInv, OpenSource \/ LoadChain \/ LoadRoots \/ LoadTlsKey
    PROVE  CustodyInv'
<1>1. /\ wiring # "serving" /\ wiring' # "serving"
      /\ UNCHANGED <<advertised, emitted, shaken, replacements>>
  <2>1. CASE OpenSource
    BY <2>1 DEF OpenSource, AtStage, GoesOn, RefuseToServe
  <2>2. CASE LoadChain
    BY <2>2 DEF LoadChain, AtStage, GoesOn, RefuseToServe
  <2>3. CASE LoadRoots
    BY <2>3 DEF LoadRoots, AtStage, GoesOn, RefuseToServe
  <2>4. CASE LoadTlsKey
    BY <2>4 DEF LoadTlsKey, AtStage, GoesOn, RefuseToServe
  <2> QED
    BY <2>1, <2>2, <2>3, <2>4
<1> QED
  BY <1>1, NothingSignedYet DEF CustodyInv

(* Serving begins with a key that matches the certificate.                 *)
LEMMA ConfigStep == CustodyInv /\ BuildServerConfig => CustodyInv'
<1> SUFFICES ASSUME CustodyInv, BuildServerConfig PROVE CustodyInv'
  OBVIOUS
<1>1. /\ wiring = "config" /\ UNCHANGED <<source, vault, advertised, emitted, shaken, replacements, loaded>>
      /\ \/ wiring' = "refused"
         \/ /\ wiring' = "serving"
            /\ IF source.delegated THEN BuildServerConfigDelegatedValidated ELSE BuildServerConfigWithCrls
  BY DEF BuildServerConfig, AtStage, GoesOn, RefuseToServe
<1>2. CASE wiring' = "refused"
  BY <1>1, <1>2, NothingSignedYet DEF CustodyInv
<1>3. CASE wiring' = "serving"
  <2>1. source.delegated => TlsPublicKey = loaded.chain[1]
    BY <1>1, <1>3, PointOfKey DEF BuildServerConfigDelegatedValidated, LeafPoint
  <2>2. ~source.delegated => loaded.tls_key = loaded.chain[1]
    BY <1>1, <1>3 DEF BuildServerConfigWithCrls
  <2>3. "pkcs11" \notin Kms
    BY DEF Kms
  <2>4. KeysMatchLeaf
    BY <2>1, <2>2, <2>3 DEF KeysMatchLeaf, TlsPublicKey
  <2>5. KeysMatchLeaf'
    BY <1>1, <2>4 DEF KeysMatchLeaf
  <2>6. shaken' = KeyError /\ emitted' = KeyError /\ advertised' = KeyError /\ replacements' \in Nat
    BY <1>1 DEF CustodyInv
  <2> QED
    BY <1>3, <2>5, <2>6 DEF CustodyInv, HandshakeUnderLeaf, ResponseKeyKept
<1> QED
  BY <1>1, <1>2, <1>3

(* A response, and an answer about the response key.                       *)
LEMMA ResponseStep ==
    ASSUME CustodyInv, SignResponse \/ ResponsePublicKey
    PROVE  CustodyInv'
<1>1. wiring = "serving" /\ UNCHANGED <<source, vault, wiring, loaded, replacements, shaken>>
  BY DEF SignResponse, ResponsePublicKey, ServingOn
<1>2. ResponseKey' = ResponseKey
  BY <1>1 DEF ResponseKey, TokenVerificationKey
<1>3. KeysMatchLeaf' /\ HandshakeUnderLeaf'
  BY <1>1 DEF CustodyInv, KeysMatchLeaf, HandshakeUnderLeaf
<1>4. ~("file" \in Kms) /\ ~("env" \in Kms) /\ ~("pkcs11" \in Kms)
  BY DEF Kms
<1>5. ASSUME SignResponse PROVE emitted' \in {KeyError, ResponseKey} /\ advertised' = advertised
  <2>1. advertised' = advertised
    BY <1>5 DEF SignResponse, ServingOn
  <2>2. CASE source.kind = "file" /\ emitted' = FileSigningKey(vault)
    BY <2>1, <2>2 DEF ResponseKey
  <2>3. CASE source.kind = "env" /\ emitted' = EnvSigningKey(vault)
    BY <2>1, <2>3 DEF ResponseKey
  <2>4. CASE source.kind = "pkcs11" /\ emitted' = TokenSignResponse
    BY <2>1, <2>4 DEF ResponseKey, TokenSignResponse
  <2>5. CASE source.kind \in Kms /\ \E s \in ServiceSignatures("response") : emitted' = KmsSignResponse(s)
    <3>1. ResponseKey = RawPointFromSpki(loaded.pinned["response"])
      BY <1>4, <2>5 DEF ResponseKey
    <3> QED
      BY <2>1, <2>5, <3>1 DEF KmsSignResponse
  <2> QED
    BY <1>5, <2>2, <2>3, <2>4, <2>5 DEF SignResponse
<1>6. ASSUME ResponsePublicKey PROVE advertised' = ResponseKey /\ emitted' = emitted
  BY <1>6 DEF ResponsePublicKey, ServingOn, ResponseKey
<1>7. ResponseKeyKept'
  BY <1>1, <1>2, <1>5, <1>6 DEF CustodyInv, ResponseKeyKept
<1> QED
  BY <1>1, <1>3, <1>7 DEF CustodyInv

(* A handshake.                                                            *)
LEMMA HandshakeStep == CustodyInv /\ Handshake => CustodyInv'
<1> SUFFICES ASSUME CustodyInv, Handshake PROVE CustodyInv'
  OBVIOUS
<1>1. wiring = "serving" /\ UNCHANGED <<source, vault, wiring, loaded, replacements, advertised, emitted>>
  BY DEF Handshake, ServingOn
<1>2. KeysMatchLeaf' /\ ResponseKeyKept'
  BY <1>1 DEF CustodyInv, KeysMatchLeaf, ResponseKeyKept, ResponseKey, TokenVerificationKey
<1>3. KeysMatchLeaf
  BY <1>1 DEF CustodyInv
<1>4. ASSUME shaken' # KeyError
      PROVE  \/ shaken' = loaded.chain[1]
             \/ /\ source.delegated /\ source.kind = "pkcs11"
                /\ replacements > 0 \/ vault.objects["tls"].private # vault.objects["tls"].public
  <2>1. CASE ~source.delegated /\ shaken' = loaded.tls_key
    BY <1>3, <2>1 DEF KeysMatchLeaf
  <2>2. CASE source.delegated /\ source.kind = "pkcs11" /\ shaken' = TokenSignTls
    <3>1. vault.objects["tls"].private = vault.objects["tls"].public =>
            Labelled(vault, "tls", "private") = Labelled(vault, "tls", "public")
      BY SMT DEF Labelled
    <3> QED
      BY <1>3, <2>2, <3>1 DEF KeysMatchLeaf, TokenSignTls, TokenSignature
  <2>3. CASE /\ source.delegated /\ source.kind \in Kms
             /\ \E s \in ServiceSignatures("tls") : shaken' = KmsSignTls(s)
    <3>1. shaken' = loaded.pinned["tls"]
      BY <1>4, <2>3 DEF KmsSignTls, SignRaw
    <3> QED
      BY <1>3, <2>3, <3>1 DEF KeysMatchLeaf
  <2> QED
    BY <1>4, <2>1, <2>2, <2>3 DEF Handshake
<1> QED
  BY <1>1, <1>2, <1>4 DEF CustodyInv, HandshakeUnderLeaf

(* The operator replaces what the source reads.                            *)
LEMMA ReplaceStep == CustodyInv /\ Replace => CustodyInv'
<1> SUFFICES ASSUME CustodyInv, Replace PROVE CustodyInv'
  OBVIOUS
<1>1. /\ UNCHANGED <<source, wiring, loaded, advertised, emitted, shaken>> /\ source.kind # "env"
      /\ replacements' \in Nat /\ replacements' > 0
  BY SMT DEF Replace, CustodyInv
<1>2. wiring = "serving" => KeysMatchLeaf'
  BY <1>1 DEF CustodyInv, KeysMatchLeaf
<1>3. HandshakeUnderLeaf'
  BY <1>1 DEF CustodyInv, HandshakeUnderLeaf
<1>4. ResponseKeyKept'
  <2>1. CASE source.kind \in {"file", "pkcs11"}
    BY <1>1, <2>1 DEF ResponseKeyKept
  <2>2. CASE source.kind \notin {"file", "pkcs11"}
    <3>1. ResponseKey' = ResponseKey
      BY <1>1, <2>2 DEF ResponseKey
    <3> QED
      BY <1>1, <2>2, <3>1 DEF CustodyInv, ResponseKeyKept
  <2> QED
    BY <2>1, <2>2
<1> QED
  BY <1>1, <1>2, <1>3, <1>4 DEF CustodyInv

(* For every source and whatever an operator sets up or replaces, and      *)
(* whenever: handshakes are signed under the certificate that is shown,    *)
(* and responses under the key that is advertised.                         *)
THEOREM CustodyKeepsItsWord == CustodySpec => []CustodyIsHonest
<1>1. CustodyInit => CustodyInv
  <2>1. 0 \in Nat
    BY SMT
  <2> QED
    BY <2>1 DEF CustodyInit, CustodyInv, HandshakeUnderLeaf, ResponseKeyKept
<1>2. CustodyInv /\ [CustodyNext]_custodyVars => CustodyInv'
  <2> SUFFICES ASSUME CustodyInv, [CustodyNext]_custodyVars PROVE CustodyInv'
    OBVIOUS
  <2>1. CASE UNCHANGED custodyVars
    BY <2>1 DEF custodyVars, CustodyInv, HandshakeUnderLeaf, ResponseKeyKept, KeysMatchLeaf, ResponseKey,
       TokenVerificationKey
  <2> QED
    BY <2>1, StartStep, ConfigStep, ResponseStep, HandshakeStep, ReplaceStep DEF CustodyNext
<1>3. CustodyInv => CustodyIsHonest
  BY DEF CustodyInv, CustodyIsHonest, EmittedAsAdvertised, ResponseKeyKept
<1> QED
  BY <1>1, <1>2, <1>3, PTL DEF CustodySpec
=============================================================================
