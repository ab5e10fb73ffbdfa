------------------------------- MODULE MCClient -------------------------------
(***************************************************************************)
(* The client sides for TLC, in one model: a behaviour is one of the       *)
(* client proxy, one of the host session, one of a pipelined user of the   *)
(* correlation store, one of the Python SDK, one of the client proxy's     *)
(* program, or one of discovery; or it is a single sample of the operators *)
(* they are built from.  kind says which; the variables of the others keep *)
(* their initial values.                                                   *)
(***************************************************************************)
EXTENDS ClientProxy, PendingTables, Discovery

CONSTANTS SdkSettings, SdkCalls, SdkTtl, SdkTime, SdkBodyLength,
          CliSetups, CliLines

VARIABLES kind, settings, trips, calls, group, cli, sample

Sdk == INSTANCE PythonSdk

Cli == INSTANCE ClientCli

proxyOnly == <<store, call, sent, answered>>
hostOnly  == <<pending, issued, concluded, verified>>
pipedOnly == <<table, registered, completed>>
sdkOnly   == <<settings, trips, calls, group>>
foundOnly == <<adverts, proven, observed, exchanges, received>>
clientVars == <<clock, time, moment, proxyOnly, hostOnly, pipedOnly, sdkOnly, cli, foundOnly, kind, sample>>

(* Samples of the operators: what the SDK is given to sign, a response it   *)
(* verifies, the lines of an event stream, and a command line.              *)
NoSettings == [transport |-> "none"]

NoCli == [phase |-> "none", read |-> <<>>, written |-> <<>>]

NoSample == [of |-> "none"]

MCPlain == {p \in PlainRequest : p.canonicalization_id = "allowed"}

MCConfigs ==
    [authorization : {"none", "opaque", "reference", "referenceWithEmptyField", "failingResolver"},
     digest_alg : {"absent", "sha256", "other"}, digest_value : BOOLEAN,
     restricted : BOOLEAN, allowed_types : SUBSET BindingTypeTag,
     signer : Sdk!SdkSigner, revoked : BOOLEAN, policy : SignerPolicy]

SignSamples ==
    [of : {"sign"}, plain : {p \in MCPlain : p.meta = "absent" /\ p.on_behalf_of = "ok"},
     callback : {"signature", "raises"},
     config : {c \in MCConfigs : /\ c.authorization # "none" => c.digest_alg = "absent" /\ ~c.digest_value
                                 /\ ~c.restricted => c.allowed_types = {}}]

MCResponses ==
    LET good == BuildSignedResponse("draft-02", 1, "s1", [kind |-> "object", members |-> {"field"}])
    IN  {[good EXCEPT !.envelope = e, !.signature = s, !.key = k, !.server_signer = g, !.request_hash = h] :
            e \in {"absent", "draft-01", "draft-02"}, s \in {"bad", "good"},
            k \in {"trusted", "unknown", "unavailable"}, g \in ServerSigner, h \in {1, 2}}

ResponseSamples ==
    [of : {"response"}, r : MCResponses, expected : ServerSigner \cup {"none"},
     mode : EnforcementMode, legacy : BOOLEAN]

StreamSamples ==
    [of : {"stream"}, lines : BoundedSeq({[field |-> f, value |-> "x"] : f \in {"data", "comment", "blank"}}, 5)]

ArgvSamples ==
    LET required == FoldSet(LAMBDA f, pairs : Append(pairs, [flag |-> f, value |-> "given"]),
                            <<>>, Cli!RequiredFlags)
        without(flag) == SelectSeq(required, LAMBDA pair : pair.flag # flag)
        sources == {<<>>} \cup {<< [flag |-> "--key-source", value |-> v] >> : v \in {"file", "gcp-kms", "hsm"}}
        keys == {<<>>} \cup {<< [flag |-> f, value |-> "given"] >> :
                                f \in {"--signing-key-seed", "--gcp-kms-key-version"}}
    IN  {[of |-> "argv", pairs |-> source \o key \o without(flag)] :
            source \in sources, key \in keys, flag \in Cli!RequiredFlags \cup {"none"}}

MCSamples == SignSamples \cup ResponseSamples \cup StreamSamples \cup ArgvSamples

MCInit ==
    /\ kind \in {"proxy", "session", "pipelined", "sdk", "cli", "discovery", "sample"}
    /\ Init /\ (kind # "proxy" => clock = 0)
    /\ TablesInit
    /\ trips = <<>> /\ calls = <<>> /\ group = "running"
    /\ settings \in IF kind = "sdk" THEN SdkSettings ELSE {NoSettings}
    /\ DiscoveryInit
    /\ IF kind = "cli" THEN Cli!CliInit ELSE cli = NoCli
    /\ sample \in IF kind = "sample" THEN MCSamples ELSE {NoSample}

MCNext ==
    \/ /\ kind = "proxy" /\ Next
       /\ UNCHANGED <<kind, sample, time, moment, cli, foundOnly, hostOnly, pipedOnly, sdkOnly>>
    \/ /\ kind = "session" /\ HostNext
       /\ UNCHANGED <<kind, sample, clock, moment, cli, foundOnly, proxyOnly, pipedOnly, sdkOnly>>
    \/ /\ kind = "pipelined" /\ PipelinedNext
       /\ UNCHANGED <<kind, sample, clock, moment, cli, foundOnly, proxyOnly, hostOnly, sdkOnly>>
    \/ /\ kind = "sdk" /\ Sdk!SdkNext
       /\ UNCHANGED <<kind, sample, time, moment, cli, foundOnly, proxyOnly, hostOnly, registered, completed>>
    \/ /\ kind = "cli" /\ Cli!CliNext
       /\ UNCHANGED <<kind, sample, clock, time, moment, proxyOnly, hostOnly, pipedOnly, sdkOnly, foundOnly>>
    \/ /\ kind = "discovery" /\ DiscoveryNext
       /\ UNCHANGED <<kind, sample, clock, time, cli, proxyOnly, hostOnly, pipedOnly, sdkOnly>>

MCSpec == MCInit /\ [][MCNext]_clientVars

MCRoutes ==
    {[mode |-> "RequireMcps", legacy_allowed |-> TRUE, signer |-> "s1"],
     [mode |-> "AllowLegacyExplicit", legacy_allowed |-> FALSE, signer |-> "s1"],
     [mode |-> "AllowLegacyExplicit", legacy_allowed |-> TRUE, signer |-> "s1"]}

MCAnswers ==
    {[kind |-> "object", members |-> {"field"}], [kind |-> "object", members |-> {"value", "field"}],
     [kind |-> "error", members |-> {}]}

MCSdkSettings ==
    {[transport |-> t, mode |-> "RequireMcps", legacy_allowed |-> TRUE, allow_unverified |-> FALSE,
      expected |-> "s1"] : t \in {"http", "stdio"}}
    \cup {[transport |-> t, mode |-> "AllowLegacyExplicit", legacy_allowed |-> TRUE,
           allow_unverified |-> TRUE, expected |-> "none"] : t \in {"http", "stdio"}}

(* The setup that starts, every one with one thing wrong, and every source  *)
(* of the key in both builds.                                               *)
MCCliSetups ==
    LET good  == [key_source |-> "file", gcp_kms |-> FALSE, kms_key |-> "ed25519", seed |-> "seed",
                  server_pubkey |-> "publicKey", audience |-> "sixFields", tls_cert |-> "chain",
                  tls_key |-> "key", server_ca |-> "anchors", server_name |-> "valid",
                  remote_addr |-> "resolves", route_id |-> "tools", server_signer |-> "s1"]
        sources == {[good EXCEPT !.key_source = k, !.gcp_kms = g] : k \in {"file", "gcp-kms"}, g \in BOOLEAN}
        flaws == [kms_key : {"otherKey"}] \cup [seed : {"@missing", "short"}]
                 \cup [server_pubkey : {"@missing", "garbled"}] \cup [audience : {"fiveFields", "noTenant"}]
                 \cup [tls_cert : {"empty"}] \cup [tls_key : {"garbled"}] \cup [server_ca : {"empty"}]
                 \cup [server_name : {"invalid"}] \cup [remote_addr : {"nothing"}]
    IN  sources \cup {[field \in DOMAIN s |-> IF field \in DOMAIN f THEN f[field] ELSE s[field]] :
                        s \in sources, f \in flaws}

MCSignerPolicy ==
    [environment |-> "Production", require_mcps |-> TRUE, require_non_exporting |-> FALSE]

(* A call of the SDK returns a result only in time, and only one signed for *)
(* it by a trusted server, or one without evidence where that is allowed    *)
(* (verify_inbound).                                                        *)
SdkResultsAreEarned == Sdk!SdkResultsAreEarned

(* A round trip that is over has ended its call (_round_trip).              *)
EveryTripSettlesItsCall == Sdk!EveryTripSettlesItsCall

(* A round trip that is over has left nothing in the store (_round_trip).   *)
TripsLeaveNoEntry == Sdk!TripsLeaveNoEntry

(* The SDK signs only what its policies allow, and what it signs passes the *)
(* verifier's structural checks (sign_outbound, sign_request_with_signer).  *)
SdkSigning ==
    sample.of = "sign" =>
        Sdk!SdkSignsGated(sample.config, sample.plain, sample.callback)

(* A verification names a server exactly when it accepted (verify_response).*)
SdkVerdicts ==
    sample.of = "response" =>
        Sdk!RejectedNamesNobody(sample.r, 1, sample.expected, sample.mode, sample.legacy)

(* Every line is answered once, in order, and only a verified answer is a   *)
(* result (run of the client proxy's program).                              *)
LinesAreAnsweredInOrder == Cli!LinesAreAnsweredInOrder

(* A program that started can sign, under the profile of its key source     *)
(* (build_signer, build_proxy).                                             *)
StartedProxyCanSign == Cli!StartedProxyCanSign

(* The order of the flags is no matter (parse_args).                        *)
CommandLines == sample.of = "argv" => Cli!OrderIsNoMatter(sample.pairs)

(* The events of a stream are its runs of data lines (sse_data_events).     *)
SdkStreams == sample.of = "stream" => Sdk!EventsAreTheRuns(sample.lines)

(* The Python SDK: results are earned, every call settled and forgotten,   *)
(* and its signing, verdicts and event streams as they are documented.     *)
SdkIsSound ==
    /\ SdkResultsAreEarned /\ EveryTripSettlesItsCall /\ TripsLeaveNoEntry
    /\ SdkSigning /\ SdkVerdicts /\ SdkStreams

(* The client program: lines answered in order by a program that can sign, *)
(* and command lines that mean one thing (run, build_proxy, parse_args).   *)
ProgramIsSound == LinesAreAnsweredInOrder /\ StartedProxyCanSign /\ CommandLines
=============================================================================
