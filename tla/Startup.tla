-------------------------------- MODULE Startup --------------------------------
(***************************************************************************)
(* How a proxy comes up: parse_args and the checks behind it               *)
(* (mcps-proxy/src/cli.rs), then run() (main.rs), which builds the parts   *)
(* one after the other and listens.  A command line is a sequence of       *)
(* options, each a flag and its value, and the tail --inner-command takes. *)
(* A value is one the flag accepts, "bad" for one it does not, "missing"   *)
(* at the end of the arguments, or one of the flag's own words.            *)
(***************************************************************************)
EXTENDS Naturals, Sequences, SequencesExt, FiniteSets

CONSTANTS
    CommandLines,   \* [options: Seq of [flag, value], tail: the words after --inner-command]
    Builds          \* the sets of cargo features the binary may be built with

VARIABLES
    args, build, exposed,   \* the command line, the features, whether a key file is group-readable
    config,                 \* what parse_args returned
    stage,                  \* how far run() has come
    running                 \* the parts built so far

startupVars == <<args, build, exposed, config, stage, running>>

-----------------------------------------------------------------------------
(* Flags.  given collects those whose presence is all that matters here.   *)

Valueless ==
    {"allow-env-keysource", "allow-reference-authz", "allow-empty-revocation", "strict", "production",
     "crl-allow-unknown-status", "ocsp-soft-fail", "gcp-kms-use-metadata"}

RequiredFlags ==
    {"bind", "audience", "server-signer", "server-key-id", "signing-key-seed", "tls-cert", "client-ca",
     "trust"}

Free ==
    RequiredFlags \cup
    {"tls-key", "pkcs11-module", "pkcs11-pin", "pkcs11-token-label", "pkcs11-key-label",
     "pkcs11-tls-key-label", "aws-kms-region", "aws-kms-key-id", "aws-kms-endpoint",
     "aws-kms-tls-key-id", "gcp-kms-key-version", "gcp-kms-endpoint", "gcp-kms-tls-key-version",
     "replay-path", "replay-redis-url", "inner-env-allow", "inner-working-dir"}

(* A value with an empty segment, a blank one, or a number out of range is refused.  *)
Checked ==
    {"client-crl", "revocation-list", "ocsp-responder-url", "cpstore-etcd-endpoint",
     "reverse-proxy-identity-header", "max-clock-skew", "max-header-bytes", "max-body-bytes",
     "read-timeout-secs", "request-deadline-secs", "write-timeout-secs", "inner-read-timeout-secs",
     "max-connections", "inner-env", "inner-stderr-cap-bytes", "inner-stderr-cap-lines",
     "inner-rlimit", "inner-fs-allow-read", "inner-fs-allow-write"}

Words ==
    [key_source  |-> {"file", "env", "pkcs11", "aws-kms", "gcp-kms"},
     replay      |-> {"memory", "file", "shared"},
     tier        |-> {"redis-async", "redis-wait-quorum", "linearizable", "single-store-fail-closed"},
     binding     |-> {"none", "exact", "lb-assertion"},
     identity    |-> {"uri_san", "dns_san", "cn_legacy"},
     client_ocsp |-> {"off", "require"},
     authz       |-> {"off", "reference"},
     inner_mode  |-> {"oneshot", "persistent"},
     lifetime    |-> {"bounded", "none"},
     inherit_env |-> {"true", "false"},
     best_effort |-> {"true", "false"},
     sandbox     |-> {"off", "enforce"},
     version     |-> {"draft-02-only", "draft-01-and-02"},
     revocation  |-> {"bounded-cache", "live", "push"},
     header      |-> {"xfcc", "plain"},
     net         |-> {"deny", "allow"}]

Defaults ==
    [key_source |-> "file", replay |-> "memory", tier |-> "none", binding |-> "exact",
     identity |-> "uri_san", client_ocsp |-> "off", authz |-> "off", inner_mode |-> "oneshot",
     lifetime |-> "bounded", inherit_env |-> "false", best_effort |-> "false", sandbox |-> "off",
     version |-> "draft-01-and-02", revocation |-> "bounded-cache", header |-> "xfcc", net |-> "deny"]

RecognizedFlags == Valueless \cup Free \cup Checked \cup DOMAIN Words \cup {"ingress-lb-key"}

(* The list the tail is scanned against.                                   *)
KnownProxyFlags == RecognizedFlags \ {"max-header-bytes"}

-----------------------------------------------------------------------------
(* parse_args                                                              *)

Empty == [given |-> {}, setting |-> Defaults, lb_keys |-> <<>>, error |-> FALSE]

Refused(c) == [c EXCEPT !.error = TRUE]

TakeSwitch(c, o) ==
    [c EXCEPT !.given = @ \cup {IF o.flag = "production" THEN "strict" ELSE o.flag}]

TakeText(c, o) == [c EXCEPT !.given = @ \cup {o.flag}]

TakeWord(c, o) ==
    IF o.value \notin Words[o.flag] THEN Refused(c)
    ELSE [c EXCEPT !.setting[o.flag] = o.value,
                   !.given = @ \cup {f \in {"sandbox-explicitly-off"} :
                                        o.flag = "sandbox" /\ o.value = "off"}]

TakeLbKey(c, o) == IF o.value = "bad" THEN Refused(c) ELSE [c EXCEPT !.lb_keys = Append(@, o.value)]

TakeChecked(c, o) == IF o.value = "bad" THEN Refused(c) ELSE TakeText(c, o)

ParseOption(c, o) ==
    IF c.error THEN c
    ELSE IF o.flag \in Valueless THEN TakeSwitch(c, o)
    ELSE IF o.value = "missing" THEN Refused(c)
    ELSE CASE o.flag \in DOMAIN Words    -> TakeWord(c, o)
           [] o.flag = "ingress-lb-key"  -> TakeLbKey(c, o)
           [] o.flag \in Free            -> TakeText(c, o)
           [] o.flag \in Checked         -> TakeChecked(c, o)
           [] o.flag \notin RecognizedFlags -> Refused(c)

(* --inner-command takes the rest; a proxy flag in it is refused.          *)
TakeTail(c, tail) ==
    IF c.error \/ tail \cap KnownProxyFlags # {} THEN [c EXCEPT !.error = TRUE]
    ELSE [c EXCEPT !.given = @ \cup {f \in {"inner-command"} : tail # {}}]

Given(c, flags) == flags \cap c.given # {}

Linearizable(c) == c.setting.tier = "linearizable"

ReplayMisconfigured(c) ==
    \/ c.setting.replay = "file" /\ ~Given(c, {"replay-path"})
    \/ /\ c.setting.replay = "shared"
       /\ \/ c.setting.tier = "none"
          \/ Linearizable(c) /\ ~Given(c, {"cpstore-etcd-endpoint"})
          \/ ~Linearizable(c) /\ ~Given(c, {"replay-redis-url"})
    \/ Given(c, {"cpstore-etcd-endpoint"}) /\ ~(c.setting.replay = "shared" /\ Linearizable(c))

KeySourceMisconfigured(c) ==
    \/ c.setting.key_source = "env" /\ (~Given(c, {"allow-env-keysource"}) \/ c.setting.inherit_env = "true")
    \/ /\ c.setting.key_source = "pkcs11"
       /\ ~({"pkcs11-module", "pkcs11-pin", "pkcs11-token-label", "pkcs11-key-label"} \subseteq c.given)
    \/ Given(c, {"pkcs11-tls-key-label"}) /\ c.setting.key_source # "pkcs11"
    \/ c.setting.key_source = "aws-kms" /\ ~({"aws-kms-region", "aws-kms-key-id"} \subseteq c.given)
    \/ Given(c, {"aws-kms-tls-key-id"}) /\ c.setting.key_source # "aws-kms"
    \/ c.setting.key_source = "gcp-kms" /\ ~Given(c, {"gcp-kms-key-version"})
    \/ Given(c, {"gcp-kms-tls-key-version", "gcp-kms-use-metadata"}) /\ c.setting.key_source # "gcp-kms"

(* An LB key stands for its id; "malformed" is one whose body is no key.   *)
IngressMisconfigured(c) ==
    \/ Given(c, {"reverse-proxy-identity-header"}) /\ c.setting.lifetime # "none"
    \/ (c.lb_keys = <<>>) = (c.setting.binding = "lb-assertion")
    \/ \E i, j \in DOMAIN c.lb_keys : i # j /\ c.lb_keys[i] = c.lb_keys[j]
    \/ \E i \in DOMAIN c.lb_keys : c.lb_keys[i] = "malformed"

OcspMisconfigured(c, features) ==
    \/ c.setting.client_ocsp # "require" /\ Given(c, {"ocsp-responder-url", "ocsp-soft-fail"})
    \/ /\ c.setting.client_ocsp = "require"
       /\ "online_ocsp" \notin features \/ Given(c, {"reverse-proxy-identity-header"})

Delegated(c) == Given(c, {"pkcs11-tls-key-label", "aws-kms-tls-key-id", "gcp-kms-tls-key-version"})

(* TRUE when the TLS key is both delegated and exported.                   *)
ValidateTlsSigningExclusivity(c) == Delegated(c) /\ Given(c, {"tls-key"})

Incomplete(c) == ~(RequiredFlags \cup {"inner-command"} \cup {f \in {"tls-key"} : ~Delegated(c)}
                        \subseteq c.given)

AuthzMisconfigured(c) ==
    /\ c.setting.authz = "reference"
    /\ \/ ~Given(c, {"revocation-list", "allow-empty-revocation"})
       \/ ~Given(c, {"allow-reference-authz"})

MeetsStrictProductionMinimum(tier) == tier \in {"redis-wait-quorum", "linearizable"}

StrictViolations(c) ==
    \/ c.setting.key_source = "env"
    \/ c.setting.lifetime = "none"
    \/ c.setting.inherit_env = "true"
    \/ c.setting.identity = "cn_legacy"
    \/ c.setting.best_effort = "true"
    \/ c.setting.replay = "memory"
    \/ c.setting.replay = "shared" /\ ~MeetsStrictProductionMinimum(c.setting.tier)
    \/ Given(c, {"sandbox-explicitly-off", "reverse-proxy-identity-header", "ocsp-soft-fail"})
    \/ c.setting.binding \in {"none", "lb-assertion"}
    \/ {"crl-allow-unknown-status", "client-crl"} \subseteq c.given
    \/ c.setting.authz = "reference"

ParseArgs(line, features) ==
    LET c == TakeTail(FoldLeft(ParseOption, Empty, line.options), line.tail)
    IN  [c EXCEPT !.error =
            \/ c.error
            \/ ReplayMisconfigured(c) \/ KeySourceMisconfigured(c) \/ IngressMisconfigured(c)
            \/ OcspMisconfigured(c, features) \/ ValidateTlsSigningExclusivity(c) \/ Incomplete(c)
            \/ AuthzMisconfigured(c)
            \/ Given(c, {"strict"}) /\ StrictViolations(c)]

-----------------------------------------------------------------------------
(* run(): the stages in their order.  A stage that reads a file, reaches a *)
(* service or starts a process may also fail, and then run() returns.      *)

Nothing ==
    [signer |-> "none", tls_key |-> "none", inner |-> "none", replay |-> "memory",
     authz |-> "none", binding |-> "none", crl |-> "none", identity |-> "none", ocsp |-> "none"]

StartupInit ==
    /\ args \in CommandLines
    /\ build \in Builds
    /\ exposed \in BOOLEAN
    /\ config = Empty
    /\ stage = "parse"
    /\ running = Nothing

Refuse ==
    /\ stage' = "refused"
    /\ running' = [running EXCEPT !.inner = IF @ = "none" THEN @ ELSE "reaped"]
    /\ UNCHANGED <<args, build, exposed, config>>

Proceed(next, parts) ==
    /\ stage' = next
    /\ running' = parts
    /\ UNCHANGED <<args, build, exposed, config>>

Parse ==
    /\ stage = "parse"
    /\ config' = ParseArgs(args, build)
    /\ stage' = IF config'.error THEN "refused" ELSE "perms"
    /\ UNCHANGED <<args, build, exposed, running>>

CheckKeyFilePerms ==
    /\ stage = "perms"
    /\ IF config.setting.key_source = "file" /\ exposed /\ Given(config, {"strict"})
       THEN Refuse ELSE Proceed("keys", running)

(* The feature a key source is compiled under.                             *)
FeatureOf(source) ==
    CASE source = "file"    -> "always"
      [] source = "env"     -> "dev_env_key_source"
      [] source = "pkcs11"  -> "pkcs11_keysource"
      [] source = "aws-kms" -> "aws_kms_keysource"
      [] source = "gcp-kms" -> "gcp_kms_keysource"

(* build_key_source, the chain, the roots and the TLS key or its signer.   *)
BuildKeySource ==
    /\ stage = "keys"
    /\ \/ /\ FeatureOf(config.setting.key_source) \in build \cup {"always"}
          /\ Proceed("trust", [running EXCEPT
                !.signer = config.setting.key_source,
                !.tls_key = IF Delegated(config) THEN "delegated" ELSE "exported"])
       \/ Refuse

LoadTrust ==
    /\ stage = "trust"
    /\ Proceed("inner", running) \/ Refuse

(* Either kind of inner server applies the whole launch policy first; the  *)
(* persistent one is also started.                                         *)
BuildInner ==
    /\ stage = "inner"
    /\ \/ Proceed("replay", [running EXCEPT
              !.inner = IF config.setting.inner_mode = "persistent" THEN "alive" ELSE "checked"])
       \/ Refuse

BuildCpstoreReplayCache_FallsBack(features) ==
    IF "cpstore_etcd" \in features THEN {"etcd"} ELSE {"redis"}

BuildCpstoreReplayCache(features) == {b \in {"etcd"} : "cpstore_etcd" \in features}

BuildSharedReplayCache(features) == {b \in {"redis"} : "redis_replay" \in features}

OpenReplayCache ==
    /\ stage = "replay"
    /\ \/ config.setting.replay = "memory" /\ Proceed("strict_replay", running)
       \/ config.setting.replay = "file" /\ Proceed("strict_replay", [running EXCEPT !.replay = "file"])
       \/ /\ config.setting.replay = "shared"
          /\ \E cache \in IF Linearizable(config) THEN BuildCpstoreReplayCache(build)
                                                  ELSE BuildSharedReplayCache(build) :
                Proceed("strict_replay", [running EXCEPT !.replay = cache])
       \/ config.setting.replay # "memory" /\ Refuse

RequireDurableReplay ==
    /\ stage = "strict_replay"
    /\ IF Given(config, {"strict"}) /\ running.replay = "memory"
       THEN Refuse ELSE Proceed("policy", running)

(* The reference profile with its deny list, then the transport binding.   *)
BuildPolicy ==
    /\ stage = "policy"
    /\ LET reference == config.setting.authz = "reference"
       IN  \/ Proceed("server", [running EXCEPT
                  !.authz   = IF reference THEN "reference" ELSE @,
                  !.binding = config.setting.binding])
           \/ reference /\ Refuse

IdentityStrategy ==
    CASE config.setting.binding = "lb-assertion" -> "lb-assertion"
      [] config.setting.binding # "lb-assertion" ->
            IF Given(config, {"reverse-proxy-identity-header"}) THEN "header" ELSE "direct"

(* load_client_crls, the TLS server configuration, the serve options.      *)
BuildServer ==
    /\ stage = "server"
    /\ \/ Proceed("bind", [running EXCEPT
              !.crl = CASE ~Given(config, {"client-crl"}) -> "none"
                        [] Given(config, {"client-crl"}) ->
                              IF Given(config, {"crl-allow-unknown-status"}) THEN "relaxed" ELSE "deny",
              !.identity = IdentityStrategy,
              !.ocsp = CASE config.setting.client_ocsp = "off" -> "none"
                         [] config.setting.client_ocsp = "require" ->
                              IF Given(config, {"ocsp-soft-fail"}) THEN "soft" ELSE "hard"])
       \/ Refuse

Bind ==
    /\ stage = "bind"
    /\ Proceed("serving", running) \/ Refuse

StartupNext ==
    \/ Parse \/ CheckKeyFilePerms \/ BuildKeySource \/ LoadTrust \/ BuildInner \/ OpenReplayCache
    \/ RequireDurableReplay \/ BuildPolicy \/ BuildServer \/ Bind

-----------------------------------------------------------------------------
Serving == stage = "serving"
Asked(flag) == \E i \in DOMAIN args.options : args.options[i].flag = flag

(* A proxy told to be strict serves only in a posture that is strict as    *)
(* built, however the options were ordered and whatever the build offers:  *)
(* replay memory that survives a restart at the minimum tier, the signer   *)
(* bound to the channel this process terminates, no key in the environment *)
(* or in an exposed file, and no relaxed revocation check.                 *)
StrictServesStrictly ==
    Serving /\ (Asked("strict") \/ Asked("production")) =>
        /\ running.replay # "memory"
        /\ running.replay = "redis" => config.setting.tier = "redis-wait-quorum"
        /\ running.binding = "exact" /\ running.identity = "direct"
        /\ running.signer # "env"
        /\ ~(running.signer = "file" /\ exposed)
        /\ running.crl # "relaxed" /\ running.ocsp # "soft" /\ running.authz = "none"

(* What was asked for is what runs.  An option that only has an effect     *)
(* beside another is never dropped in silence, also when a later option    *)
(* overrides the other: the etcd endpoint means the etcd store, an LB key  *)
(* the LB assertion, an OCSP option a checker, a device's TLS key a TLS    *)
(* key that was not exported.                                              *)
NothingAskedIsDropped ==
    Serving =>
        /\ Asked("cpstore-etcd-endpoint") => running.replay = "etcd"
        /\ Asked("ingress-lb-key") => running.binding = "lb-assertion"
        /\ Asked("ocsp-responder-url") \/ Asked("ocsp-soft-fail") => running.ocsp # "none"
        /\ Asked("gcp-kms-use-metadata") => running.signer = "gcp-kms"
        /\ Asked("pkcs11-tls-key-label") => running.signer = "pkcs11" /\ running.tls_key = "delegated"
        /\ (running.tls_key = "delegated") = ~Asked("tls-key")

(* The LINEARIZABLE tier is served by the linearizable store or not at     *)
(* all: a build without that store refuses to start, whatever else was     *)
(* configured that could have stood in for it.                             *)
LinearizableIsNeverDowngraded ==
    Serving /\ config.setting.replay = "shared" => (Linearizable(config) <=> running.replay = "etcd")

(* A proxy that serves runs as it was asked to (cli.rs): strict where that *)
(* was asked, with every option in force, and on the store it was given.   *)
RunsAsAsked == StrictServesStrictly /\ NothingAskedIsDropped /\ LinearizableIsNeverDowngraded

(* "Every proxy/security flag this parser recognizes ... HARD parse error  *)
(* (fail closed)": no flag of the proxy is passed to the inner server.     *)
MisplacedFlagIsRefused == Serving => args.tail \cap RecognizedFlags = {}

(* "The three strategies are mutually exclusive; the CLI forbids combining *)
(* lb-assertion with a reverse-proxy header."                              *)
IdentitySourcesExclude ==
    Serving => ~(running.identity = "lb-assertion" /\ Asked("reverse-proxy-identity-header"))
=============================================================================
