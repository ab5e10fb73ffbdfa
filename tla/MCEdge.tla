-------------------------------- MODULE MCEdge --------------------------------
(***************************************************************************)
(* The edge of the proxy: the start from a command line, the launch of the *)
(* inner server, signing with a cloud KMS and the sessions of the demo     *)
(* servers as machines, one in each behaviour while the others rest; and   *)
(* the functions that judge a connection (its header block, identity and   *)
(* revocation) and keep the inner server's stderr, on samples.             *)
(***************************************************************************)
EXTENDS Startup, Ingress, InnerLaunch, KmsKeySource, KeyCustody, DemoServers

VARIABLES machine, sample

edgeVars == <<machine, sample, startupVars, launchVars, kmsVars, custodyVars, sessionVars>>

-----------------------------------------------------------------------------
(* Command lines: every pair of the phrases below after the required       *)
(* options, with a last word that may overrule them, or without a TLS key; *)
(* then each required option left out, and tails that hold a flag of the   *)
(* proxy.                                                                  *)

O(f, v) == [flag |-> f, value |-> v]
Ok(names) == [i \in DOMAIN names |-> O(names[i], "ok")]

Required ==
    Ok(<<"bind", "audience", "server-signer", "server-key-id", "signing-key-seed", "tls-cert",
         "client-ca", "trust">>)

Phrases ==
    {Ok(<<f>>) : f \in {"tls-key", "strict", "allow-env-keysource", "replay-path", "replay-redis-url",
                        "cpstore-etcd-endpoint", "reverse-proxy-identity-header", "client-crl",
                        "crl-allow-unknown-status", "ocsp-soft-fail"}}
    \cup {<<O("replay", v)>> : v \in {"file", "shared"}}
    \cup {<<O("replay", "shared"), O(f, "ok")>> : f \in {"replay-redis-url", "cpstore-etcd-endpoint"}}
    \cup {<<O("tier", v)>> : v \in Words.tier \cup {"bad"}}
    \cup {<<O("lifetime", "none")>>, <<O("inherit_env", "true")>>, <<O("sandbox", "off")>>,
          <<O("binding", "none")>>, <<O("identity", "cn_legacy")>>,
          <<O("binding", "lb-assertion"), O("ingress-lb-key", "a")>>,
          <<O("ingress-lb-key", "a")>>, <<O("ingress-lb-key", "malformed")>>,
          <<O("client_ocsp", "require")>>, <<O("client_ocsp", "off")>>,
          <<O("inner_mode", "persistent")>>, <<O("bind", "missing")>>, <<O("max-header-bytes", "bad")>>,
          <<O("nonsense", "ok")>>,
          <<O("authz", "reference"), O("allow-reference-authz", "ok"), O("revocation-list", "ok")>>,
          <<O("authz", "reference"), O("allow-empty-revocation", "ok")>>,
          <<O("key_source", "env")>>,
          <<O("key_source", "aws-kms"), O("aws-kms-region", "ok"), O("aws-kms-key-id", "ok")>>,
          <<O("key_source", "gcp-kms"), O("gcp-kms-key-version", "ok"), O("gcp-kms-use-metadata", "ok")>>,
          <<O("key_source", "pkcs11")>>
              \o Ok(<<"pkcs11-module", "pkcs11-pin", "pkcs11-token-label", "pkcs11-key-label">>),
          <<O("pkcs11-tls-key-label", "ok")>>}

Overrules ==
    {<<>>, Ok(<<"production">>), Ok(<<"cpstore-etcd-endpoint">>), Ok(<<"replay-redis-url">>),
     <<O("replay", "file")>>, <<O("lifetime", "none")>>, Ok(<<"pkcs11-tls-key-label">>),
     Ok(<<"replay-path">>)}

MCCommandLines ==
    {[options |-> Required \o p \o q \o end, tail |-> {"server"}] :
        p, q \in Phrases \cup {<<>>}, end \in {<<>>} \cup {Ok(<<"tls-key">>) \o r : r \in Overrules}}
    \cup {[options |-> Required \o p, tail |-> t] :
        p \in Phrases \cup {<<>>}, t \in {{}, {"server", "strict"}, {"server", "max-header-bytes"}}}
    \cup {[options |-> SelectSeq(Required, LAMBDA o : o.flag # f) \o Ok(<<"tls-key">>), tail |-> {"server"}] :
        f \in RequiredFlags}

MCBuilds ==
    {{}, {"online_ocsp", "redis_replay", "pkcs11_keysource"},
     {"redis_replay", "cpstore_etcd", "online_ocsp", "dev_env_key_source", "aws_kms_keysource",
      "gcp_kms_keysource", "pkcs11_keysource"}}

-----------------------------------------------------------------------------
(* Launches                                                                *)

MCConfigs ==
    LET sound == [allow : {{"PATH"}}, explicit : {{"X"}}, inherit_env : BOOLEAN,
                  working_dir : {"given", "default"}, rlimits : {[nofile |-> n] : n \in {None, 0, 5, 9}},
                  best_effort : BOOLEAN, mode : {"off", "enforce"}, network : {"deny", "allow"},
                  fs_allow_read : {{"data"}}, fs_allow_write : {{"log"}}]
        usual == {c \in sound : ~c.inherit_env /\ c.rlimits["nofile"] = None}
    IN  sound \cup {[c EXCEPT !.fs_allow_read = r] : c \in usual, r \in {{""}, {"gone"}}}
              \cup {[c EXCEPT !.fs_allow_write = {"gone"}] : c \in usual}

MCHosts ==
    [env : {{"HOME"}, {"HOME", "PATH"}}, linux : {TRUE}, kernel : {8, 12, 13},
     arch : {"x86_64", "riscv64"}, hard : {[nofile |-> 8]}, fds : {{3, 6}}]
    \cup [env : {{"HOME", "PATH"}}, linux : {FALSE}, kernel : {0},
          arch : {"aarch64"}, hard : {[nofile |-> 8]}, fds : {{3, 6}}]

-----------------------------------------------------------------------------
(* Key sources, and what an operator may have put where they look: sound   *)
(* material of either of two keys, or material with one fault.             *)

MCSources ==
    [kind : {"file", "env"}, delegated : {FALSE}]
    \cup [kind : {"pkcs11", "aws-kms", "gcp-kms"}, delegated : BOOLEAN]

Pair(k) == [private |-> <<k>>, public |-> <<k>>]
SoundVault(r, t) ==
    [present |-> {"seed", "chain", "tls_key", "roots"}, seed |-> r, chain |-> <<t>>, tls_key |-> t,
     roots |-> <<1>>, objects |-> [response |-> Pair(r), tls |-> Pair(t)]]
Pairs ==
    [private : {<<>>, <<1>>, <<2>>, <<1, 1>>, <<OtherKey>>, <<OtherKey, 1>>}, public : {<<1>>}]
    \cup [private : {<<1>>}, public : {<<>>, <<2>>, <<2, 1>>}]
MCVaults ==
    LET v == SoundVault(1, 1)
    IN  {SoundVault(r, t) : r, t \in Ed25519Keys}
        \cup {[v EXCEPT !.present = @ \ {item}] : item \in v.present}
        \cup {[v EXCEPT !.seed = KeyError], [v EXCEPT !.roots = <<>>]}
        \cup {[v EXCEPT !.chain = c] : c \in {<<>>, <<1, KeyError>>, <<OtherKey>>, <<1, OtherKey>>}}
        \cup {[v EXCEPT !.tls_key = k] : k \in {KeyError, 2, OtherKey}}
        \cup {[v EXCEPT !.chain = <<OtherKey>>, !.tls_key = OtherKey]}
        \cup {[v EXCEPT !.objects["response"] = p] : p \in Pairs}
        \cup {[v EXCEPT !.objects["tls"] = p] : p \in Pairs}

Signers == [access_key : {"A"}, secret : {"S"}, token : {"none", "T"}, region : {"r"}, service : {"kms"}]
Endpoints == [scheme : BOOLEAN, authority : {"", "host"}, path : {"none", "/", "/x"}]

(* Days around the ends of months, years and centuries, 1970 to 2400.      *)
Days == 0..1500 \cup 10950..11100 \cup 24800..24900 \cup 47400..47600 \cup 156900..157200

-----------------------------------------------------------------------------
(* Header blocks, XFCC headers, subjects, assertions, connections          *)

Words2(letters) == UNION {[1..n -> letters] : n \in 0..2}

HeaderBlocks == {pre \o <<CR, LF, CR, LF>> : pre \in UNION {[1..n -> {CR, LF, " ", "x"}] : n \in 0..6}}

XfccPairs == [key : {<<"U">>, <<"D">>}, value : Words2({"a", ",", ";", "="}) \cup {<<"^">>}]
XfccElements == {<<e>> : e \in UNION {[1..n -> XfccPairs] : n \in 1..2}}
                \cup {<<<<p>>, <<q>>>> : p \in XfccPairs, q \in {x \in XfccPairs : Len(x.value) < 2}}

Attributes ==
    LET values == {v \in Words2({"a", ",", "+", "\\"}) : v # <<>>}
                  \cup {v \o <<"N", "=", "a">> : v \in {<<",">>, <<"+">>, <<"\\", ",">>}}
    IN  [sep : {",", "+"}, type : {<<"N">>, <<"o">>}, value : values]
Subjects == {<<a, b>> : a \in {x \in Attributes : x.sep = ","}, b \in Attributes}

Shift == {<<"a">>, <<"1">>, <<"a", "1">>, <<"1", "a">>}
Assertions(ids, times) == [key_id : ids, identity : Shift, request_hash : Shift, time : times]
LbKeys == [k \in {<<"k">>} |-> "K"]

Vouched == [key_id |-> <<"k">>, identity |-> <<"a">>, request_hash |-> <<"q">>, time |-> 0]
Connections ==
    LET Header(v) == <<<<"h">>, v>>
    IN  [names : {[uri_san |-> u, dns_san |-> <<>>, cn_legacy |-> <<>>] : u \in {<<>>, <<<<"a">>>>}},
         validity : {<<0, 2>>, <<2, 0>>, <<0, 9>>},
         headers : {<<>>, <<Header(<<"a">>)>>, <<Header(<<"a">>), Header(<<"b">>)>>},
         routing : {<<>>, <<<<<<"mcp-name">>, <<"^">>>>>>},
         assertions : {<<>>, <<[fields |-> Vouched, signature |-> Sign("K", Vouched)]>>}]
Alike == {c \in Connections : c.validity = <<0, 2>> /\ c.routing = <<>>}
Options == [strategy : {"direct", "header", "lb-assertion"}, policy : {"uri_san"}, header : {<<"h">>},
            format : {"plain"}, max_lifetime : {2}, allowed : {<<>>, [s \in {<<"s">>} |-> {<<"a">>}]}]

-----------------------------------------------------------------------------
(* OCSP statements and spellings of addresses                              *)

Named(subject, key, signed_with) ==
    [subject |-> subject, key |-> key, serial |-> 1, signed_with |-> signed_with, aia |-> <<>>,
     validity |-> <<0, 9>>, ocsp_signing |-> TRUE]
Authority == Named("I", "I", "R")
Leaf == [Named("L", "L", "I") EXCEPT !.serial = 7]
Delegate == Named("D", "D", "I")
Delegates == {Delegate, [Delegate EXCEPT !.validity = <<0, 2>>], [Delegate EXCEPT !.ocsp_signing = FALSE],
              [Delegate EXCEPT !.signed_with = "D"]}

OwnId == BuildCertId(Leaf, Authority)
Said == [cert_id : {OwnId}, status : {"good", "revoked", "unknown"}, this_update : {0, 1, 3, 6},
         next_update : {Never, 2, 7}]
Siblings == [cert_id : {[OwnId EXCEPT !.serial = 8], [OwnId EXCEPT !.name = "J", !.key = "J"]},
             status : {"good"}, this_update : {6}, next_update : {7}]
Signings == {<<k, certs, by>> : k \in {"I", "X"}, certs \in {<<>>}, by \in {"I"}}
            \cup {<<"D", <<d>>, by>> : d \in Delegates, by \in {"I", "D"}}
Statements ==
    {[successful |-> TRUE, signed_with |-> g[1], certs |-> g[2], responder_id |-> [by |-> "key", value |-> g[3]],
      nonce |-> n, singles |-> x] :
        g \in Signings, n \in {"absent", "n", "m"},
        x \in {<<l>> : l \in Said} \cup {<<b, l>> : b \in Siblings, l \in Said} \cup {<<b>> : b \in Siblings}}

(* An operator's URL or the certificate's, and where its host resolves to. *)
Url(scheme) == [method |-> "ocsp", location |-> "uri", scheme |-> scheme, host |-> [kind |-> "name"]]
Responders ==
    {<<o, a, d>> : o \in {<<>>, <<Url("http")>>}, a \in {<<>>, <<Url("http")>>, <<Url("file")>>},
                   d \in {{}, {<<8, 8, 8, 8>>}, {<<8, 8, 8, 8>>, <<127, 0, 0, 1>>}}}
Usual == <<<<>>, <<Url("http")>>, {<<8, 8, 8, 8>>}>>

Addresses ==
    {<<0, 0, 0, 0>>, <<0, 0, 0, 1>>, <<8, 8, 8, 8>>, <<10, 1, 2, 3>>, <<11, 0, 0, 1>>,
     <<126, 255, 255, 255>>, <<127, 0, 0, 1>>}
LargeAddresses ==   \* past 2^31, where TLC's integers end: not as one number
    {<<169, 254, 169, 254>>, <<172, 16, 0, 1>>, <<172, 31, 255, 255>>, <<172, 32, 0, 0>>,
     <<192, 168, 1, 1>>, <<223, 1, 1, 1>>, <<224, 0, 0, 1>>, <<255, 255, 255, 255>>}

-----------------------------------------------------------------------------
(* Sessions of the demo servers: trees with links that leave the root,     *)
(* come back, dangle and loop; a root that is a link itself.               *)

Tree(entries) == [p \in {<<"r">>, <<"o">>, <<"o", "f">>} \cup DOMAIN entries |->
                    IF p \in DOMAIN entries THEN entries[p]
                    ELSE IF p = <<"o", "f">> THEN PlainFile(2) ELSE Dir]
One(p, node) == [q \in {p} |-> node]

MCRoot == <<"r">>

MCTrees ==
    {Tree(One(<<"r", "a">>, node)) :
        node \in {Dir, PlainFile(1), PlainFile(3), Binary, LinkTo(<<"o">>), LinkTo(<<"o", "f">>), LinkTo(<<"o", "g">>),
                  LinkTo(<<"r", "b">>), LinkTo(<<"r", "a">>), LinkTo(<<"r">>)}}
    \cup {Tree([p \in {<<"r">>, <<"s">>, <<"s", "a">>} |->
                   IF p = <<"r">> THEN LinkTo(<<"s">>) ELSE IF p = <<"s">> THEN Dir ELSE PlainFile(1)])}
    \cup {Tree([p \in {<<"r", "a">>, <<"o", "b">>} |-> IF p[1] = "r" THEN LinkTo(<<"o", "b">>) ELSE LinkTo(<<"r">>)])}

AskedPath(absolute, parts) == [absolute |-> absolute, parts |-> parts]
AskedPaths == {AskedPath(FALSE, p) : p \in {<<>>, <<".">>, <<"a">>, <<"a", "f">>, <<".", "a", ".">>, <<"..", "o", "f">>,
                                     <<"a", "..", "b">>, <<"b">>}}
         \cup {AskedPath(TRUE, <<"o", "f">>)}

Tooled(tool, at, content) ==
    [Initialize EXCEPT !.id = "1", !.method = "tools/call", !.tool = tool, !.path = at, !.content = content]
MCForwarded ==
    {Tooled(t, <<p>>, -1) : t \in {"list_files", "read_file", "stat"}, p \in AskedPaths}
    \cup {Tooled("write_file", <<p>>, n) : p \in AskedPaths, n \in {1, 3}}
    \cup {Tooled(t, <<>>, c) : t \in {"none", "other", "stat", "echo", "list_items", "reset_items"}, c \in {-1, 1}}
    \cup {[Initialize EXCEPT !.id = "1", !.method = m] : m \in {"none", "initialize", "tools/list", "shutdown", "other"}}
MCLines == MCForwarded \cup {Blank, [Initialize EXCEPT !.json = FALSE, !.id = "null", !.method = "none"]}

-----------------------------------------------------------------------------
(* stderr, in chunks                                                       *)

Chunks == UNION {[1..n -> Words2({"a", "n"})] : n \in 0..3}

-----------------------------------------------------------------------------

Sampled ==
    \/ sample \in {<<"framing", b>> : b \in HeaderBlocks}
    \/ sample \in {<<"xfcc", e, p>> : e \in XfccElements, p \in {"uri_san", "dns_san"}}
    \/ sample \in {<<"subject", s>> : s \in Subjects}
    \/ sample \in {<<"lb", s, k, f, h, n>> :
            s \in Assertions({<<"k">>}, {0}), k \in {"K", "X"},
            f \in Assertions({<<"k">>, <<"k", "a">>}, {0, 3}), h \in {<<"a">>, <<"1", "a">>}, n \in {2, 3}}
    \/ sample \in {<<"source", c, d, o>> : c \in Connections, d \in Alike, o \in Options}
    \/ sample \in {<<"ocsp", Usual, r, m, 2, n>> : r \in Statements, m \in {1, 2}, n \in {1, 4, 6, 7}}
    \/ sample \in {<<"ocsp", w, r, 1, 2, n>> :
            w \in Responders, r \in {x \in Statements : Len(x.singles) = 1 /\ x.nonce = "n"}, n \in {1, 7}}
    \/ \E n \in 1..4 :
        sample \in {<<"address", a, n, p>> :
            a \in Addresses \cup (IF n = 1 THEN {} ELSE LargeAddresses), p \in [1..n -> {"", "0", "0x"}]}
    \/ sample \in {<<"sigv4", s, u, t, b>> :
            s \in Signers, u \in Endpoints, t \in {"GetPublicKey", "Sign"}, b \in {"body", "message"}}
    \/ sample \in {<<"stamp", d, t>> : d \in Days, t \in {0, 59, 3599, 43200, 86399}}
    \/ sample \in {<<"stderr", c, b, l>> : c \in Chunks, b \in 1..5, l \in 1..3}

StartupRests ==
    /\ args = [options |-> <<>>, tail |-> {}] /\ build = {} /\ exposed = FALSE
    /\ config = Empty /\ stage = "refused" /\ running = Nothing

LaunchRests ==
    /\ setup = (CHOOSE c \in MCConfigs : TRUE) /\ host = (CHOOSE h \in MCHosts : TRUE)
    /\ path = Absent /\ launch = "construct" /\ child = NoChild

CustodyRests ==
    /\ source = [kind |-> "file", delegated |-> FALSE] /\ vault = SoundVault(1, 1) /\ wiring = "refused"
    /\ loaded = Unloaded /\ advertised = KeyError /\ emitted = KeyError /\ shaken = KeyError /\ replacements = 0

SessionRests ==
    /\ setting = [server |-> "demo", mode |-> "direct"] /\ files = Tree(<<>>) /\ opened = files
    /\ demo = NewDemoServer /\ process = "none" /\ received = <<>> /\ lines = 0 /\ last = NoLine

EdgeInit ==
    /\ machine \in {"startup", "launch", "kms", "custody", "session", "sample"}
    /\ IF machine = "startup" THEN StartupInit ELSE StartupRests
    /\ IF machine = "launch" THEN LaunchInit ELSE LaunchRests
    /\ KmsInit
    /\ IF machine = "custody" THEN CustodyInit ELSE CustodyRests
    /\ IF machine = "session" THEN SessionInit ELSE SessionRests
    /\ IF machine = "sample" THEN Sampled ELSE sample = <<"none">>

EdgeNext ==
    /\ UNCHANGED <<machine, sample>>
    /\ \/ machine = "startup" /\ StartupNext
          /\ UNCHANGED <<launchVars, kmsVars, custodyVars, sessionVars>>
       \/ machine = "launch" /\ LaunchNext
          /\ UNCHANGED <<startupVars, kmsVars, custodyVars, sessionVars>>
       \/ machine = "kms" /\ KmsNext
          /\ UNCHANGED <<startupVars, launchVars, custodyVars, sessionVars>>
       \/ machine = "custody" /\ CustodyNext
          /\ UNCHANGED <<startupVars, launchVars, kmsVars, sessionVars>>
       \/ machine = "session" /\ SessionNext
          /\ UNCHANGED <<startupVars, launchVars, kmsVars, custodyVars>>

EdgeSpec == EdgeInit /\ [][EdgeNext]_edgeVars

Case(kind) == sample[1] = kind

-----------------------------------------------------------------------------

(* FramingHidesNoLine in every header block (tls.rs).                      *)
HeaderFraming == Case("framing") => FramingHidesNoLine(sample[2])

(* XfccIsReadBack from every header (transport.rs).                        *)
XfccHeaders == Case("xfcc") => XfccIsReadBack(sample[2], sample[3])

(* SubjectIsReadBack from every subject (transport.rs).                    *)
SubjectNames == Case("subject") => SubjectIsReadBack(sample[2])

(* VerifiedMeansVouched for every assertion (transport.rs).                *)
LbAssertions == Case("lb") =>
    VerifiedMeansVouched(sample[2], sample[3], sample[4], LbKeys, sample[5], sample[6])

(* OnlyItsOwnSource on every two connections (tls.rs).                     *)
IdentitySources == Case("source") =>
    OnlyItsOwnSource(sample[2], sample[3], sample[4], LbKeys, <<"q">>, 1,
                     IF sample[4].allowed = <<>> THEN <<"a">> ELSE <<"s">>)

(* RevocationIsSeen through every statement (ocsp.rs).                     *)
OcspStatements == Case("ocsp") =>
    RevocationIsSeen(sample[2][1], <<[Leaf EXCEPT !.aia = sample[2][2]], Authority>>, sample[2][3],
                     sample[3], sample[4], sample[5], "n", sample[6])

(* SpellingDoesNotMatter for every address (ocsp.rs).                      *)
AddressSpellings == Case("address") => SpellingDoesNotMatter(sample[2], sample[3], sample[4])

(* SignedIsWhatIsSent for every request to the service (aws_sigv4.rs).     *)
KmsRequests == Case("sigv4") =>
    SignedIsWhatIsSent(sample[2], sample[3], sample[4], sample[5], FormatAmzDate(0, 0), "other")

(* StampsFollow one another (aws_kms_keysource.rs).                        *)
AmzStamps == Case("stamp") => StampsFollow(sample[2], sample[3])

(* CaptureIgnoresChunking of every stream (inner_launch.rs).               *)
StderrCapture == Case("stderr") => CaptureIgnoresChunking(sample[2], sample[3], sample[4])

(* The functions at the edge agree with their reference definitions: what  *)
(* a connection claims to be (headers, names, assertions, OCSP answers and *)
(* responder addresses), what is sent to a key service, and what is kept   *)
(* of the inner server's standard error.                                   *)
EdgeFunctionsAgree ==
    /\ HeaderFraming /\ XfccHeaders /\ SubjectNames /\ LbAssertions /\ IdentitySources
    /\ OcspStatements /\ AddressSpellings
    /\ KmsRequests /\ AmzStamps /\ StderrCapture
=============================================================================
