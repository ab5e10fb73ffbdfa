------------------------------ MODULE InnerLaunch ------------------------------
(***************************************************************************)
(* How an inner server is started (mcps-proxy/src/inner_launch.rs,         *)
(* rlimits.rs, sandbox.rs and sandbox_linux.rs): the parent prepares the   *)
(* command, forks, and the child runs its hooks in the order they were     *)
(* registered before it becomes the inner server.  Between any two steps   *)
(* the working-directory path may come to name something else.             *)
(*                                                                         *)
(* What a path names is a record: its kind, and for a directory who owns   *)
(* it, whether only its owner may enter, and whether it was reached        *)
(* through a link.  The kernel is the minor number of a 5.x release.       *)
(***************************************************************************)
EXTENDS Integers, Sequences, SequencesExt, FiniteSets

CONSTANTS
    Configs, Hosts,        \* InnerLaunchConfigs, and the machines they meet
    FallbackMaxFd,         \* FALLBACK_MAX_FD
    HardCapFd              \* HARD_CAP_FD

(* The kernel's number is that of Linux; the proxy's own descriptors begin *)
(* after the three pipes and lie within its descriptor limit.              *)
ASSUME LaunchAssumption ==
    /\ HardCapFd \in Nat
    /\ \A h \in Hosts :
        /\ h.kernel \in Int /\ (h.kernel >= 9 => h.linux)
        /\ "nofile" \in DOMAIN h.hard /\ h.hard["nofile"] \in Nat
        /\ h.fds \subseteq 3 .. HardCapFd /\ \A fd \in h.fds : fd < h.hard["nofile"]

VARIABLES
    setup, host,   \* the launch configuration; the machine, its descriptors and its environment
    path,           \* what the working-directory path names now
    launch,         \* how far the launch is
    child           \* the process being made

launchVars == <<setup, host, path, launch, child>>

None == -1

Directory(owner, private, linked) ==
    [kind |-> "dir", owner |-> owner, private |-> private, linked |-> linked]
Home   == Directory("self", TRUE, FALSE)
Absent == [kind |-> "absent"]
Link   == [kind |-> "link", to |-> Directory("other", FALSE, TRUE)]
Paths  == {Absent, Home, Directory("self", FALSE, FALSE), Directory("other", TRUE, FALSE), Link,
           [kind |-> "file"]}

-----------------------------------------------------------------------------
(* The parent                                                              *)

(* A variable is passed through only if it is there to be passed.          *)
ApplyEnv(c, env) ==
    IF ~ c.allow \subseteq env THEN <<"refused">>
    ELSE <<"ok", c.allow \cup c.explicit \cup (IF c.inherit_env THEN env ELSE {})>>

OpenDirNofollow(p) == IF p.kind = "dir" THEN <<"ok", p>> ELSE <<"refused">>

(* Created, or found to be a directory of this user that nobody else may   *)
(* enter.                                                                  *)
EnsurePrivateDefaultWorkingDir(p) ==
    CASE p.kind = "absent" -> <<"ok", Home>>
      [] p.kind = "dir" /\ p.owner = "self" /\ p.private -> <<"ok", p>>
      [] OTHER -> <<"refused">>

ApplyWorkingDir(c, p) ==
    IF c.working_dir = "given" THEN OpenDirNofollow(p) ELSE EnsurePrivateDefaultWorkingDir(p)

LandlockAbiIsEnforceable(h) == h.kernel >= 13

BackendCanEnforce(h) == h.linux /\ LandlockAbiIsEnforceable(h)

(* An empty path is a slip of the operator's.                              *)
ValidateAllowlists(c) == "" \notin c.fs_allow_read \cup c.fs_allow_write

ValidatePlatform(c, h) == c.mode = "enforce" => ValidateAllowlists(c) /\ BackendCanEnforce(h)

CurrentTargetArch(h) == h.arch \in {"x86_64", "aarch64"}

(* The calls that make a socket or a ring, or use one.                     *)
DeniedEgressSyscalls(arch) ==
    {"socket", "connect", "io_uring_setup", "io_uring_enter", "io_uring_register"}
    \cup (IF arch = "x86" THEN {"socketcall"} ELSE {})

(* The system calls the filter answers with an error; every other passes.  *)
BuildEgressFilter(c, h) ==
    IF c.network = "allow" THEN <<"ok", {}>>
    ELSE IF CurrentTargetArch(h) THEN <<"ok", DeniedEgressSyscalls(h.arch)>>
    ELSE <<"refused">>

(* What each path may be used for.  Every path must open, and "gone" is    *)
(* one that does not; one that may be written may be read.                 *)
BuildLandlockRuleset(c) ==
    IF "gone" \in c.fs_allow_read \cup c.fs_allow_write THEN <<"refused">>
    ELSE <<"ok", c.fs_allow_read \X {"read"} \cup c.fs_allow_write \X {"read", "write"}>>

BuildSandbox(c, h) ==
    LET ruleset == BuildLandlockRuleset(c)
        egress  == BuildEgressFilter(c, h)
    IN  IF "refused" \in {ruleset[1], egress[1]} THEN <<"refused">>
        ELSE <<"ok", [rules |-> ruleset[2], filter |-> egress[2]]>>

Unbuilt == [rules |-> {}, filter |-> {}]

InstallSandboxBackend(c, h) == IF h.linux THEN BuildSandbox(c, h) ELSE <<"refused">>

ApplySandbox(c, h) ==
    IF ~ ValidatePlatform(c, h) THEN <<"refused">>
    ELSE IF c.mode # "enforce" THEN <<"ok", Unbuilt>>
    ELSE InstallSandboxBackend(c, h)

LaunchRefused == launch' = IF launch = "construct" THEN "down" ELSE "idle"

(* Landlock as the pairs of path and use it grants, everything until it is *)
(* in force; the filter as the system calls it denies.                     *)
Unrestricted == {"data", "log", "elsewhere"} \X {"read", "write"}
NoChild == [env |-> {}, dir |-> Absent, cwd |-> Absent, box |-> Unbuilt, hard |-> [r \in {} |-> 0],
            fds |-> {}, no_new_privs |-> FALSE, may |-> Unrestricted, denied |-> {}]

(* The constructor prepares a command it throws away, so that a            *)
(* configuration that cannot work stops the proxy; every dispatch prepares *)
(* its own.  The default directory is created as a side effect.            *)
Prepare ==
    /\ launch \in {"construct", "idle"}
    /\ LET env == ApplyEnv(setup, host.env)
           dir == ApplyWorkingDir(setup, path)
           box == ApplySandbox(setup, host)
       IN  /\ path' = IF env[1] = "ok" /\ path.kind = "absent" /\ dir[1] = "ok" THEN dir[2] ELSE path
           /\ IF "refused" \in {env[1], dir[1], box[1]}
              THEN LaunchRefused /\ UNCHANGED child
              ELSE IF launch = "construct"
              THEN launch' = "idle" /\ UNCHANGED child
              ELSE /\ launch' = "chdir"
                   /\ child' = [NoChild EXCEPT !.env = env[2], !.dir = dir[2], !.box = box[2],
                                               !.hard = host.hard, !.fds = host.fds]
    /\ UNCHANGED <<setup, host>>

-----------------------------------------------------------------------------
(* The child, from fork to exec.  A hook that fails ends it.               *)

HookFails ==
    /\ launch \in {"chdir", "rlimits", "sandbox", "close"}
    /\ launch' = "idle" /\ child' = NoChild
    /\ UNCHANGED <<setup, host, path>>

Chdir_ByPath ==
    /\ launch = "chdir"
    /\ LET p == IF path.kind = "link" THEN path.to ELSE path
       IN  /\ p.kind = "dir"
           /\ child' = [child EXCEPT !.cwd = p]
    /\ launch' = "rlimits"
    /\ UNCHANGED <<setup, host, path>>

(* A given directory is entered by the descriptor the parent opened, the   *)
(* default one by its path.                                                *)
Chdir ==
    /\ launch = "chdir"
    /\ LET p == IF setup.working_dir = "given" THEN child.dir
                ELSE IF path.kind = "link" THEN path.to
                ELSE path
       IN  /\ p.kind = "dir"
           /\ child' = [child EXCEPT !.cwd = p]
    /\ launch' = "rlimits"
    /\ UNCHANGED <<setup, host, path>>

(* The limits to set: those that were given.                               *)
Configured(limits) == {r \in DOMAIN limits : limits[r] # None}

(* setrlimit lowers the soft and the hard limit; raising a hard limit is   *)
(* not permitted, which is an error unless limits are best effort.         *)
SetRlimits ==
    /\ launch = "rlimits"
    /\ LET Raised(r) == setup.rlimits[r] > child.hard[r]
           set       == {r \in Configured(setup.rlimits) : ~Raised(r)}
       IN  /\ setup.best_effort \/ set = Configured(setup.rlimits)
           /\ child' = [child EXCEPT !.hard =
                  [r \in DOMAIN child.hard |-> IF r \in set THEN setup.rlimits[r] ELSE child.hard[r]]]
    /\ launch' = "sandbox"
    /\ UNCHANGED <<setup, host, path>>

(* The ruleset is cloned, which takes a descriptor below the limit; then   *)
(* Landlock, fully or not at all, and last the filter.                     *)
Enforce ==
    /\ launch = "sandbox"
    /\ IF setup.mode = "enforce"
       THEN /\ \E fd \in 3..HardCapFd : fd \notin child.fds /\ fd < child.hard["nofile"]
            /\ BackendCanEnforce(host)
            /\ child' = [child EXCEPT !.no_new_privs = TRUE, !.may = child.box.rules,
                                               !.denied = child.box.filter]
       ELSE UNCHANGED child
    /\ launch' = "close"
    /\ UNCHANGED <<setup, host, path>>

CloseFdsAboveStdioLoop(fds, hard) ==
    LET max_fd == IF hard = 0 THEN FallbackMaxFd ELSE IF hard < HardCapFd THEN hard ELSE HardCapFd
    IN  {fd \in fds : fd < 3 \/ fd > max_fd}

CloseFdsAboveStdio(fds, hard) ==
    IF host.linux /\ host.kernel >= 9 THEN {fd \in fds : fd < 3} ELSE CloseFdsAboveStdioLoop(fds, hard)

CloseExtraFds ==
    /\ launch = "close"
    /\ child' = [child EXCEPT !.fds = CloseFdsAboveStdio(child.fds, child.hard["nofile"])]
    /\ launch' = "running"
    /\ UNCHANGED <<setup, host, path>>

Exits ==
    /\ launch = "running"
    /\ launch' = "idle" /\ child' = NoChild
    /\ UNCHANGED <<setup, host, path>>

(* Somebody else renames.  The default path lies in a sticky directory: an *)
(* entry of this user's stays.                                             *)
Retarget ==
    /\ launch \notin {"running", "down"}
    /\ setup.working_dir = "given" \/ ~ (path.kind = "dir" /\ path.owner = "self")
    /\ path' \in Paths
    /\ UNCHANGED <<setup, host, launch, child>>

-----------------------------------------------------------------------------

LaunchInit ==
    /\ setup \in Configs /\ host \in Hosts /\ path \in Paths
    /\ launch = "construct" /\ child = NoChild

LaunchNext ==
    \/ Prepare \/ HookFails \/ Chdir \/ SetRlimits \/ Enforce \/ CloseExtraFds \/ Exits \/ Retarget

LaunchSpec == LaunchInit /\ [][LaunchNext]_launchVars

(* The system calls that a connection takes, by each of the ways there     *)
(* are.                                                                    *)
EgressRoutes == {{"socket", "connect"}, {"io_uring_setup", "io_uring_enter"}}

(* An inner server that runs under "enforce" has no way to gain            *)
(* privileges, reads and writes only what the allowlists say, has no way   *)
(* to make a connection unless the network is allowed, and holds no        *)
(* descriptor of the proxy (sandbox_linux.rs:113-378 and                   *)
(* inner_launch.rs:745-793, whose fall-back loop is never the one that     *)
(* runs here).                                                             *)
ContainedOrNotRun ==
    launch = "running" /\ setup.mode = "enforce" =>
        /\ child.no_new_privs
        /\ \A use \in child.may :
            /\ use[1] \in setup.fs_allow_read \cup setup.fs_allow_write
            /\ use[2] = "write" => use[1] \in setup.fs_allow_write
        /\ setup.network = "deny" => \A route \in EgressRoutes : route \cap child.denied # {}
        /\ child.fds = {}

(* It runs in the directory the parent looked at: never one reached        *)
(* through a link, and by default one that is this user's alone, whatever  *)
(* became of the path meanwhile (inner_launch.rs:316-361 and 474-515).     *)
RunsWhereItWasChecked ==
    launch = "running" =>
        /\ ~child.cwd.linked
        /\ setup.working_dir = "default" => child.cwd = Home

(* With close_range, or with the descriptor limit left alone, the inner    *)
(* server starts with the variables the configuration names and with no    *)
(* descriptor beyond its three pipes (inner_launch.rs:420-436, 766-868).   *)
InheritsOnlyWhatIsGiven ==
    launch = "running" =>
        /\ ~setup.inherit_env => child.env \subseteq setup.allow \cup setup.explicit
        /\ host.kernel >= 9 \/ setup.rlimits["nofile"] = None => child.fds = {}

(* What the operator relies on once the inner server runs (inner_launch.rs *)
(* and sandbox_linux.rs): its rights, its directory, and what it           *)
(* inherits.                                                               *)
LaunchIsContained == ContainedOrNotRun /\ RunsWhereItWasChecked /\ InheritsOnlyWhatIsGiven

(* As the comment of apply_close_extra_fds has it: "every descriptor at or *)
(* above fd 3 is closed in the forked child just before `exec`, so the     *)
(* inner inherits ONLY its own stdin/stdout/stderr pipes"                  *)
(* (inner_launch.rs:615-618).                                              *)
OnlyStdioIsInherited == launch = "running" => child.fds = {}

-----------------------------------------------------------------------------
(* The capture of the inner server's stderr                                *)

NoCapture == [bytes |-> <<>>, lines |-> 0, truncated |-> FALSE]

(* One byte; "n" is the newline.  Once at a limit the rest of the chunk is *)
(* dropped.                                                                *)
PushByte(cap, cap_bytes, cap_lines, byte) ==
    IF Len(cap.bytes) >= cap_bytes \/ cap.lines >= cap_lines THEN [cap EXCEPT !.truncated = TRUE]
    ELSE LET lines == cap.lines + (IF byte = "n" THEN 1 ELSE 0)
         IN  [bytes |-> Append(cap.bytes, byte), lines |-> lines,
              truncated |-> cap.truncated \/ lines >= cap_lines]

Push(cap, cap_bytes, cap_lines, chunk) ==
    FoldLeft(LAMBDA c, b : PushByte(c, cap_bytes, cap_lines, b), cap, chunk)

Capture(chunks, cap_bytes, cap_lines) ==
    FoldLeft(LAMBDA c, chunk : Push(c, cap_bytes, cap_lines, chunk), NoCapture, chunks)

(* However the pipe cuts the stream, what is kept is the same prefix of    *)
(* it: within both limits, and short of the stream only if marked so       *)
(* (inner_launch.rs:157-172).                                              *)
CaptureIgnoresChunking(chunks, cap_bytes, cap_lines) ==
    LET whole == FlattenSeq(chunks)
        cap   == Capture(chunks, cap_bytes, cap_lines)
    IN  /\ cap = Capture(<<whole>>, cap_bytes, cap_lines)
        /\ IsPrefix(cap.bytes, whole)
        /\ Len(cap.bytes) <= cap_bytes
        /\ Cardinality({i \in DOMAIN cap.bytes : cap.bytes[i] = "n"}) <= cap_lines
        /\ cap.bytes # whole => cap.truncated
=============================================================================
