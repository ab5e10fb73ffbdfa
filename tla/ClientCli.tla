------------------------------ MODULE ClientCli ------------------------------
(***************************************************************************)
(* The client proxy as a program (mcps-client-proxy-cli, main, transport   *)
(* and kms_signer): its arguments, the proxy it builds from them, and the  *)
(* loop that answers every line of its input with one line.  A value on    *)
(* the command line is abstracted to what building the proxy makes of it.  *)
(***************************************************************************)
EXTENDS ClientCore, Responses

CONSTANTS
    CliSetups,    \* what the program is started with
    CliLines      \* bound on the lines it is given

VARIABLE cli      \* the program: its phase, its setup, the lines read and written

-----------------------------------------------------------------------------
(* The arguments.                                                           *)

RequiredFlags ==
    {"--remote-addr", "--server-name", "--signer-id", "--key-id", "--server-signer", "--server-key-id",
     "--server-pubkey", "--audience", "--tls-cert", "--tls-key", "--server-ca"}

ValueFlags ==
    RequiredFlags \cup {"--key-source", "--signing-key-seed", "--gcp-kms-key-version",
                        "--gcp-kms-endpoint", "--route-id", "--on-behalf-of", "--ttl-secs"}

DefaultArgs ==
    [flag \in ValueFlags |-> CASE flag = "--key-source"   -> "file"
                               [] flag = "--route-id"     -> "tools"
                               [] flag = "--on-behalf-of" -> "user:demo"
                               [] flag = "--ttl-secs"     -> "300"
                               [] OTHER                   -> "absent"]

(* A flag takes the next token whatever it is; a later flag replaces an     *)
(* earlier one.                                                             *)
TakeArgument(state, token) ==
    CASE state.error -> state
      [] ~state.error /\ state.want # "none" ->
            [state EXCEPT !.got[state.want] = token, !.want = "none",
                          !.error = state.want = "--ttl-secs" /\ token = "text"]
      [] ~state.error /\ state.want = "none" ->
            IF token = "--gcp-kms-use-metadata" THEN state
            ELSE [state EXCEPT !.want = token, !.error = token \notin ValueFlags]

(* What the chosen key source needs.                                        *)
KeySourceGiven(got) ==
    CASE got["--key-source"] = "file"    -> got["--signing-key-seed"] # "absent"
      [] got["--key-source"] = "gcp-kms" -> got["--gcp-kms-key-version"] # "absent"
      [] OTHER                           -> FALSE

ParseArgs(argv) ==
    LET state == FoldLeft(TakeArgument, [want |-> "none", got |-> DefaultArgs, error |-> FALSE], argv)
    IN  [ok |-> /\ ~state.error /\ state.want = "none"
                /\ KeySourceGiven(state.got)
                /\ \A flag \in RequiredFlags : state.got[flag] # "absent",
         got |-> state.got]

-----------------------------------------------------------------------------
(* The proxy.  Only the build with the feature gcp_kms has the KMS arm.     *)

(* A value, or "@" and a file whose trimmed contents are the value.         *)
ResolveInlineOrFile(value) == IF value = "@missing" THEN "unreadable" ELSE value

SigningKeyFromSeed(value) == ResolveInlineOrFile(value) = "seed"

BasePolicy == [environment |-> "Production", require_mcps |-> TRUE, require_non_exporting |-> FALSE]

CliSigner(custody, signs) == [expected |-> TRUE, revoked |-> FALSE, custody |-> custody, signs |-> signs]

NoSigner == [ok |-> FALSE, signer |-> CliSigner("SoftwareHeldPrivate", FALSE), policy |-> BasePolicy]

(* The KMS key is fetched and checked once, here.                           *)
BuildKmsSigner(setup) ==
    IF ~setup.gcp_kms \/ setup.kms_key # "ed25519" THEN NoSigner
    ELSE [ok |-> TRUE, signer |-> CliSigner("NonExporting", TRUE),
          policy |-> [BasePolicy EXCEPT !.require_non_exporting = TRUE]]

BuildSigner(setup) ==
    IF setup.key_source = "gcp-kms" THEN BuildKmsSigner(setup)
    ELSE [ok |-> SigningKeyFromSeed(setup.seed), signer |-> CliSigner("SoftwareHeldPrivate", TRUE),
          policy |-> BasePolicy]

ParseAudience(value) == value = "sixFields"

(* An empty CA bundle, and one that holds no usable anchor, are refused.    *)
ClientTlsFromPem(setup) ==
    /\ setup.tls_cert = "chain" /\ setup.tls_key = "key"
    /\ setup.server_ca = "anchors"

NewMtlsClient(setup) == setup.server_name = "valid"

(* One strict route, pinned to one server signer, whose key is the only one *)
(* trusted.                                                                 *)
BuildProxy(setup) ==
    LET built == BuildSigner(setup)
    IN  [ok |-> /\ built.ok /\ ResolveInlineOrFile(setup.server_pubkey) = "publicKey"
                /\ ParseAudience(setup.audience) /\ ClientTlsFromPem(setup) /\ NewMtlsClient(setup)
                /\ setup.remote_addr = "resolves",
         signer |-> built.signer, policy |-> built.policy,
         routes |-> {setup.route_id},
         route  |-> [mode |-> "RequireMcps", legacy_allowed |-> FALSE, signer |-> setup.server_signer]]

-----------------------------------------------------------------------------
(* The loop.  A line is blank, not JSON, not UTF-8, a value without a       *)
(* method, or a request; an id that is absent is null.                      *)

InputLine ==
    [kind : {"blank", "notJson", "notUtf8"}, id : {"null"}]
    \cup [kind : {"noMethod", "request"}, id : {"null", "a"}]

(* What the remote leg makes of the signed request: an error, or an answer. *)
RemoteLeg == {"signerDown", "transportError", "unsigned", "otherSigner", "badSignature", "signed"}

RemoteAnswer(remote, server) ==
    LET good == BuildSignedResponse("draft-02", 1, server, [kind |-> "object", members |-> {"field"}])
    IN  CASE remote = "signed"       -> good
          [] remote = "unsigned"     -> [good EXCEPT !.envelope = "absent"]
          [] remote = "badSignature" -> [good EXCEPT !.signature = "bad"]
          [] remote = "otherSigner"  -> [good EXCEPT !.server_signer = CHOOSE s \in ServerSigner : s # server]

HandleLine(proxy, route_id, line, remote) ==
    LET route    == proxy.route
        signer   == [proxy.signer EXCEPT !.signs = remote # "signerDown"]
        outcome  == IF remote = "transportError" THEN <<"Absent", "TransportFailurePreEvidence">>
                    ELSE ClassifyResponseResult(
                            VerifySignedResponse(RemoteAnswer(remote, route.signer), 1, route.signer))
        decision == Decide(route.mode, route.legacy_allowed, outcome)
    IN  CASE route_id \notin proxy.routes   -> "UnknownRoute"
          [] line.kind = "noMethod"         -> "MalformedRequest"
          [] AuthorizeSigner(proxy.policy, signer) # "ok" \/ ~signer.signs -> "FailedClosed"
          [] decision[1] = "FailClosed"     -> "FailedClosed"
          [] remote = "transportError"      -> "Transport"
          [] decision[1] # "FailClosed"     -> "Ok"

ErrorCode(error) ==
    CASE error = "FailedClosed"     -> -32001
      [] error = "Transport"        -> -32002
      [] error = "UnknownRoute"     -> -32601
      [] error = "MalformedRequest" -> -32600

OutputLine(id, outcome) ==
    IF outcome = "Ok" THEN [id |-> id, member |-> "result", code |-> 0]
    ELSE [id |-> id, member |-> "error", code |-> ErrorCode(outcome)]

AnswerLine_SkipsGarbage(proxy, route_id, line, remote) ==
    IF line.kind \in {"blank", "notJson"} THEN <<>>
    ELSE << OutputLine(line.id, HandleLine(proxy, route_id, line, remote)) >>

AnswerLine(proxy, route_id, line, remote) ==
    IF line.kind = "blank" THEN <<>>
    ELSE IF line.kind = "notJson" THEN << OutputLine("null", "MalformedRequest") >>
    ELSE << OutputLine(line.id, HandleLine(proxy, route_id, line, remote)) >>

CliInit ==
    cli \in [phase : {"starting"}, setup : CliSetups, read : {<<>>}, written : {<<>>}]

StartCli ==
    /\ cli.phase = "starting"
    /\ cli' = [cli EXCEPT !.phase = IF BuildProxy(cli.setup).ok THEN "running" ELSE "failed"]

(* A line that is not UTF-8, and an output that is gone, end the program.   *)
ReadCliLine(line, remote, writable) ==
    LET answer == AnswerLine(BuildProxy(cli.setup), cli.setup.route_id, line, remote)
    IN  /\ cli.phase = "running" /\ Len(cli.read) < CliLines
        /\ cli' = IF line.kind = "notUtf8" THEN [cli EXCEPT !.phase = "failed"]
                  ELSE IF answer # <<>> /\ ~writable
                  THEN [cli EXCEPT !.phase = "failed", !.read = Append(@, [line |-> line, remote |-> remote])]
                  ELSE [cli EXCEPT !.read = Append(@, [line |-> line, remote |-> remote]),
                                   !.written = @ \o answer]

EndOfInput ==
    /\ cli.phase = "running"
    /\ cli' = [cli EXCEPT !.phase = "done"]

CliNext ==
    \/ StartCli \/ EndOfInput
    \/ \E line \in InputLine, remote \in RemoteLeg, writable \in BOOLEAN :
            ReadCliLine(line, remote, writable)

-----------------------------------------------------------------------------
(* Every line that is not blank is answered by one line, in order and under *)
(* its own id, with null for what cannot be read; and a result is written   *)
(* only where the pinned server's signature over this call was verified     *)
(* (run, error_response).                                                   *)
LinesAreAnsweredInOrder ==
    LET asked == SelectSeq(cli.read, LAMBDA r : r.line.kind # "blank")
    IN  /\ Len(cli.written) \in {Len(asked)} \cup IF cli.phase = "failed" THEN {Len(asked) - 1} ELSE {}
        /\ \A i \in DOMAIN cli.written :
            /\ cli.written[i].id = asked[i].line.id
            /\ cli.written[i].member = "result" <=>
                    asked[i].line.kind = "request" /\ asked[i].remote = "signed"

(* A program that started can serve: its policy admits its own signer, and  *)
(* its route is registered; a KMS key is held to the profile that no        *)
(* software key meets, and the route has no way around verification         *)
(* (build_signer, build_kms_signer, build_proxy).                           *)
StartedProxyCanSign ==
    cli.phase \in {"running", "done"} =>
        LET proxy == BuildProxy(cli.setup)
        IN  /\ AuthorizeSigner(proxy.policy, proxy.signer) = "ok" /\ cli.setup.route_id \in proxy.routes
            /\ cli.setup.key_source = "gcp-kms" => \A custody \in CustodyClass \ {"NonExporting"} :
                    AuthorizeSigner(proxy.policy, CliSigner(custody, TRUE)) # "ok"
            /\ \A remote \in RemoteLeg \ {"signed"} :
                    HandleLine(proxy, cli.setup.route_id, [kind |-> "request", id |-> "a"], remote)
                        = "FailedClosed"

(* The order of the flags is no matter: what is accepted is what has every  *)
(* required flag and the one its key source needs (parse_args).             *)
OrderIsNoMatter(pairs) ==
    LET argv(ps)  == FlattenSeq([i \in DOMAIN ps |-> << ps[i].flag, ps[i].value >>])
        given(f)  == \E i \in DOMAIN pairs : pairs[i].flag = f
        source    == IF given("--key-source")
                     THEN (CHOOSE i \in DOMAIN pairs : pairs[i].flag = "--key-source") ELSE 0
        needs     == IF source = 0 \/ pairs[source].value = "file" THEN "--signing-key-seed"
                     ELSE "--gcp-kms-key-version"
    IN  /\ ParseArgs(argv(pairs)).ok <=>
                /\ \A f \in RequiredFlags \cup {needs} : given(f)
                /\ source # 0 => pairs[source].value \in {"file", "gcp-kms"}
        /\ ParseArgs(argv(pairs)) = ParseArgs(argv(Reverse(pairs)))
=============================================================================
