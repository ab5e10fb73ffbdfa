-------------------------------- MODULE MCCore --------------------------------
(***************************************************************************)
(* The verification pipeline on every plausible message, the trust tiers   *)
(* it resolves keys through, and the pure functions of the core, of the    *)
(* client core and of the policy crate on samples.  A behaviour runs one   *)
(* machine while the other rests, or holds one sample and stops.  The      *)
(* tiers stand over a resolver that is a plain map from bindings to        *)
(* statuses, and over authorized key sets whose answers change with the    *)
(* clock.                                                                  *)
(***************************************************************************)
EXTENDS RequestPipeline, CoreFormats, Responses, ClientCore, Authorization, TrustTiers, ReplayCaches,
        Conformance

CONSTANTS k1, k2, c1, c2

VARIABLES machine, sample

coreVars == <<machine, sample, pipelineVars, tvars, cacheVars>>

-----------------------------------------------------------------------------
(* Sources of trust                                                        *)

Us == "audience"

Entry(k, status, from, until) ==
    [key_id |-> k, audience |-> Us, status |-> status, valid_from |-> from,
     valid_until |-> until]

(* What an operator may publish: rotations with and without an overlap, a  *)
(* revoked predecessor, one key for the whole audience.                    *)
Lists == {<<Entry(k1, "active", 0, 1), Entry(k2, s, 1, Forever)>> :
             s \in {"active", "revoked"}}
         \cup {<<Entry(k1, "active", 0, Forever)>>,
               <<Entry(k1, "active", 0, 1), Entry(k1, "active", 2, Forever)>>}

Resolvers(lists) ==
    {r \in UNION {{PerNodeKeyset(New(l).set, Us), SharedRemoteSigner(New(l).set, Us, k1)}
                     : l \in {l \in lists : New(l).ok}} : r.ok}

(* The tiers run over the sets in which k1 ends and begins again.          *)
Turning == {l \in Lists : Len(l) = 2 /\ l[2].key_id = k1}

MapTable    == [kind : {"map"}, map : [Binding -> {"active", "revoked", "not_found"}]]
KeysetTable == [kind : {"keyset"}, resolver : Resolvers(Turning)]

MCTable == MapTable \cup KeysetTable

MCSays(t, b, n) ==
    IF t.kind = "map" THEN t.map[b] ELSE KeysetResolve(t.resolver, Us, b, n)

(* The map is edited in place; a key set is published once and stays.      *)
MCReplaces(t) == IF t.kind = "map" THEN MapTable ELSE {}

Symmetry == Permutations({c1, c2})

-----------------------------------------------------------------------------
(* JSON texts: leaves, one or two members or items, nested up to one level *)
(* more than MaxParseDepth.  1 + MaxSafeInteger and 20 stand for a number  *)
(* too large for JCS, and for an i64.                                      *)

Number(neg, digits, frac) == <<"num", [neg |-> neg, digits |-> digits, frac |-> frac]>>
Str(items) == <<"str", items>>

Leaves == {
    Number(FALSE, 0, FALSE), Number(TRUE, 0, FALSE), Number(TRUE, 3, FALSE),
    Number(FALSE, 4, FALSE), Number(FALSE, 1, TRUE), Number(FALSE, 20, FALSE),
    <<"lit", "true">>, Str(<<<<"esc", 10>>, <<"raw", 97>>>>), Str(<<<<"raw", 10>>>>),
    Str(<<<<"esc", 55296>>>>)}

Names == {Str(<<<<"raw", 97>>>>), Str(<<<<"esc", 97>>>>), Str(<<<<"raw", 57344>>>>),
          Str(<<<<"esc", 55296>>, <<"esc", 56320>>>>)}

Flat == {<<l>> : l \in Leaves}

Wrapped(ts) ==
    {<<<<"[">>, <<"]">>>>, <<<<"{">>, <<"}">>>>}
    \cup {<<<<"[">>>> \o t \o <<<<" ">>, <<"]">>>> : t \in ts}
    \cup {<<<<"{">>, k, <<":">>>> \o t \o <<<<"}">>>> : k \in Names, t \in ts}

Pairs(ts) ==
    {<<<<"[">>>> \o t \o <<<<",">>>> \o u \o <<<<"]">>>> : t \in ts, u \in ts}
    \cup {<<<<"{">>, k, <<":">>>> \o t \o <<<<",">>, l, <<":">>>> \o u \o <<<<"}">>>> :
            k \in Names, l \in Names, t \in ts, u \in ts}

Shallow == Flat \cup Wrapped(Flat) \cup Pairs(Flat)
JsonTexts == Shallow \cup Wrapped(Shallow)
             \cup {<<<<"[">>>> \o t \o <<<<"]">>>> : t \in Wrapped(Wrapped(Flat))}

-----------------------------------------------------------------------------
(* Dates: every day of the years around which the calendar changes.        *)

Years == {-401, -400, -1, 0, 1, 4, 99, 100, 399, 400, 1900, 1969, 1970, 2000, 2024, 2100,
          9999, 10000}

Dates == {<<y, m, d>> \in Years \X (1 .. 12) \X (1 .. 31) : d <= MaxDay(y, m)}

-----------------------------------------------------------------------------
(* Responses, requests, audiences, capabilities.                           *)

AudienceValues ==
    LET Words == {<<"a">>, <<";", "r", "=">>, <<"%">>, <<";">>, <<"3", "B">>}
    IN  Words \cup {v \o w : v \in Words, w \in Words}

Audiences == [host : {<<"a">>}, tenant : AudienceValues, route : AudienceValues]

CapabilityPolicies ==
    [required_min : {"draft-01", "draft-02"},
     supported : {{"draft-01"}, {"draft-02"}, {"draft-01", "draft-02"}}]

-----------------------------------------------------------------------------
(* Grants of two issuers, one of them trusted under one of its two key     *)
(* ids; grants changed after they were signed; requests in and out of      *)
(* their scope.                                                            *)

Object(f) == <<"object", f>>
NoMembers == [k \in {} |-> 0]
Member(k, v) == [x \in {k} |-> v]

Operations == {<<[method |-> m, tool |-> t, arguments |-> a]>> :
    m \in {"tools/call", "resources/read"}, t \in {"x", ""},
    a \in {<<>>, Object(NoMembers), Object(Member("p", 1))}}

Specs == [issuer : {"i1", "i2"}, grantee : {"agent"}, subject : {"user"}, audience : {"server", "other"},
          grants : Operations \cup {<<[method |-> "tools/call", tool |-> "x", arguments |-> Object(Member("p", 1))],
                                      [method |-> "tools/call", tool |-> "x", arguments |-> <<>>]>>},
          not_before : {1, -1}, expires_at : {2}, revocation_id : {"r"}]

Trust == [pair \in {<<"i1", "k">>, <<"i2", "k">>} |-> IF pair[1] = "i1" THEN "key1" ELSE "key2"]
Revocations == {[id \in {"r"} |-> s] : s \in {"notRevoked", "revoked", "unavailable"}}

Minted == {MintReferenceGrant(spec, key, k) : spec \in Specs, key \in {"key1"}, k \in {"k", "l"}}

Altered == UNION {{<<[b[1] EXCEPT !.audience = "server"]>>, <<[b[1] EXCEPT !.issuer = "i2"]>>,
                   <<[b[1] EXCEPT !.signature.alg = "rsa"]>>,
                   <<[b[1] EXCEPT !.grants = <<[method |-> "tools/call", tool |-> "x", arguments |-> <<>>]>>]>>} :
                  b \in {m \in Minted : m # <<>>}}

PolicyRequests == [method : {"tools/call", "resources/read", "tools/list"},
                   targets : {NoMembers, Member("name", "x"), Member("uri", "x")},
                   arguments : {<<>>, <<"other">>, Object(Member("p", 1)), Object(Member("q", 1)),
                                Object([k \in {"p", "q"} |-> IF k = "p" THEN 2 ELSE 1])},
                   block : {<<>>}]

VerifiedAs(evidence) == [verified_signer |-> "agent", on_behalf_of |-> "user",
                         audience |-> "server", authorization |-> evidence]

Evaluator == [profiles |-> {ReferenceProfileId}, resolvers |-> [s \in {"system"} |-> Allow]]

Blocks(bytes) == {<<"block", ReferenceProfileId, TRUE, bytes>>, <<"block", "unknown", TRUE, bytes>>,
                  <<"block", ReferenceProfileId, FALSE, bytes>>, <<>>, <<"other">>}

-----------------------------------------------------------------------------
(* Messages with `_meta` blocks at the container, under a member, inside   *)
(* an array and inside another `_meta`.                                    *)

Marked(keys) == Obj([k \in keys |-> Atom(k)])
MetaKeySets == SUBSET {"verified", "response", "traceparent", "other"}
Buried ==
    LET Metas == {Marked(keys) : keys \in MetaKeySets}
    IN  {Atom("a"), Obj(<<>>), Arr(<<>>)}
        \cup {Obj(Member("_meta", m)) : m \in Metas \cup {Atom("a"), Arr(<<Marked({"verified"})>>)}}
        \cup {Arr(<<Atom("a"), Obj(Member("_meta", m))>>) : m \in Metas}
        \cup {Obj(Member("x", Arr(<<Obj(Member("_meta", m))>>))) : m \in Metas}
        \cup {Obj(Member("_meta", Obj(Member("_meta", m)))) : m \in Metas}
Envelopes == {Obj(Member("signature", s)) : s \in {Atom("a"), Marked({"alg"}), Marked({"alg", "value"})}}
Containers(key) ==
    {Put(Put(Obj(<<>>), "_meta", Put(Put(Marked(keys), key, e), "_meta", Marked({"request", "baggage"}))), "x", b) :
        keys \in SUBSET {"authorization", "tracestate", "value"}, e \in Envelopes, b \in Buried}
MetaRequests  == {Obj([k \in {"params", "id"} |-> IF k = "id" THEN Atom("1") ELSE c]) : c \in Containers("request")}
InnerAnswers ==
    {Obj(Member("result", c)) : c \in Containers("response") \cup Buried}
    \cup {Obj(Member("error", b)) : b \in Buried}
    \cup {Obj(Member("result", Put(b, "_meta", Marked({"response"})))) : b \in {b \in Buried : b.t = "obj"}}
Panics(inner) == Has(inner, "result") /\ Has(inner.m["result"], "_meta") /\ inner.m["result"].m["_meta"].t # "obj"

-----------------------------------------------------------------------------

(* Vectors: messages that differ from a valid draft-01 request in one or   *)
(* two fields, and messages without an envelope.                           *)

ValidMessage ==
    [top |-> "object", jcs |-> TRUE, envelope |-> TRUE, version |-> "draft-01",
     canonicalization_id |-> "absent", authorization_binding |-> "absent",
     authorization_hash |-> "ok", on_behalf_of |-> "ok", shape |-> "ok",
     signature_block |-> TRUE, audience |-> TRUE]
NearMessages ==
    {m \in Message : Plausible(m) /\
        (~m.envelope \/ Cardinality({f \in DOMAIN m : m[f] # ValidMessage[f]}) <= 2)}
VectorRequest(m, expires, signed, known, nonce) ==
    [m |-> m, issued |-> 1000, expires |-> expires, signed |-> signed, known |-> known,
     nonce |-> nonce, id |-> "1"]
ValidRequest(nonce) == VectorRequest(ValidMessage, 1300, TRUE, TRUE, nonce)
Vector(name, kind, expected, request, answered) ==
    [name |-> name, kind |-> kind, expected |-> expected, resolver |-> "present",
     jcs |-> expected = "verify_ok", request |-> request,
     response |-> BuildSignedResponse("draft-01", RequestHash(ValidRequest(answered)), "server",
                                      [kind |-> "object", members |-> {"field"}])]
RequestVectors == {Vector("any", "request", e, VectorRequest(m, x, s, k, "n1"), "n1") :
    e \in {"verify_ok", "mcps.expired_request", "mcps.replay_detected"}, m \in NearMessages,
    x \in {1300, 900}, s \in BOOLEAN, k \in BOOLEAN}
SuiteVectors ==
    {Vector(CanonicalName, "request", "verify_ok", ValidRequest("n1"), "n1"),
     Vector("second", "request", "verify_ok", ValidRequest("n2"), "n1"),
     Vector("again", "request", "mcps.replay_detected", ValidRequest("n1"), "n1"),
     Vector("late", "request", "mcps.expired_request", ValidRequest("n1"), "n1"),
     Vector("answer", "response", "verify_ok", ValidRequest("n1"), "n1"),
     Vector("other answer", "response", "mcps.response_hash_mismatch", ValidRequest("n1"), "n2"),
     [Vector("unparsed", "response", "verify_ok", ValidRequest("n1"), "n1") EXCEPT !.resolver = "malformed"],
     Vector("raw", "raw", "mcps.canonicalization_failed", ValidRequest("n1"), "n1")}
Bodies == BoundedSeq({<<"b", 1>>, <<"C">>, <<"cl", 1>>}, 3)

-----------------------------------------------------------------------------
(* Signed requests of two keys, one key used twice.                        *)

MCSigned == {[key |-> "a", issued |-> 0, expires |-> 1], [key |-> "a", issued |-> 1, expires |-> 2],
             [key |-> "b", issued |-> 0, expires |-> 2]}

-----------------------------------------------------------------------------

PipelineRests == msg = "none" /\ policy = "none" /\ step = "idle" /\ verdict = "none"

TrustRests ==
    /\ tier = "live" /\ clock = 0 /\ back = 0
    /\ table = (CHOOSE t \in MapTable : TRUE) /\ up = TRUE /\ grants = "clear" /\ changes = 0
    /\ pending = {} /\ cache = [b \in Binding |-> Never]
    /\ call = [c \in Caller |-> Idle] /\ served = Unserved
    /\ said = [b \in Binding |-> [o \in Outcome |-> Never]]
    /\ gone = [b \in Binding |-> FALSE] /\ overlap = [b \in Binding |-> FALSE]

CachesRest ==
    /\ posture = "memory" /\ seen = [s \in Stores |-> NoEntries] /\ instant = 0
    /\ answer = NoAnswer /\ ever = [r \in Signed |-> 0]
    /\ admitted = [v \in Verifier |-> [r \in Signed |-> 0]]

Sampled ==
    \/ sample \in {<<"vector", v>> : v \in RequestVectors}
    \/ sample \in {<<"suite", s>> : s \in BoundedSeq(SuiteVectors, 3)}
    \/ sample \in {<<"keyset", r, n>> : r \in Resolvers(Lists), n \in -1 .. 3}
    \/ sample \in {<<"http", b, {c, d}>> : b \in Bodies, c \in 1 .. 9, d \in 1 .. 9}
    \/ sample \in {<<"json", t>> : t \in JsonTexts}
    \/ sample \in {<<"date", d>> : d \in Dates}
    \/ sample \in {<<"answer", a>> : a \in InnerAnswer}
    \/ sample \in {<<"response", r>> : r \in {r \in Response : r.content = {"field"}}}
    \/ sample \in {<<"request", p, v, s, y>> :
                      p \in PlainRequest, v \in Provider,
                      s \in Signer, y \in {y \in SignerPolicy : y.require_mcps}}
    \/ sample \in {<<"audience", a>> : a \in Audiences}
    \/ sample \in {<<"capability", v, i, p>> :
                      v \in {"draft-01", "draft-02", "other"},
                      i \in {"absent", "allowed", "known"}, p \in CapabilityPolicies}
    \/ sample \in {<<"carried", e, [[method |-> "tools/call", targets |-> Member("name", "x"),
                                     arguments |-> Object(Member("p", 1)), block |-> <<>>]
                                        EXCEPT !.block = b], at[1], at[2]>> :
                      e \in {"draft01", "opaque", "reference"},
                      b \in UNION {Blocks(bytes) : bytes \in Minted \cup Altered},
                      at \in (Revocations \X {2}) \cup {<<[id \in {"r"} |-> "notRevoked"], 3>>}}
    \/ sample \in {<<"forwarded", r>> : r \in MetaRequests}
    \/ sample \in {<<"signed", a>> : a \in {a \in InnerAnswers : ~Panics(a)}}
    \/ sample \in {<<"narrowed", s, r>> :
                      s \in {s \in Specs : s.issuer = "i1" /\ s.audience = "server" /\ s.not_before = 1},
                      r \in PolicyRequests}

CoreInit ==
    /\ machine \in {"pipeline", "trust", "caches", "sample"}
    /\ IF machine = "pipeline" THEN PipelineInit ELSE PipelineRests
    /\ IF machine = "trust" THEN TrustInit ELSE TrustRests
    /\ IF machine = "caches" THEN CachesInit ELSE CachesRest
    /\ IF machine = "sample" THEN Sampled ELSE sample = <<"none">>

CoreNext ==
    /\ UNCHANGED <<machine, sample>>
    /\ \/ machine = "pipeline" /\ PipelineNext /\ UNCHANGED <<tvars, cacheVars>>
       \/ machine = "trust" /\ TrustNext /\ UNCHANGED <<pipelineVars, cacheVars>>
       \/ machine = "caches" /\ CachesNext /\ UNCHANGED <<pipelineVars, tvars>>

CoreSpec == CoreInit /\ [][CoreNext]_coreVars

Case(kind) == sample[1] = kind

-----------------------------------------------------------------------------

(* CanonicalFormIsFaithful of every JSON text (canonical.rs).              *)
CanonicalForms == Case("json") => CanonicalFormIsFaithful(sample[2])

(* RawAndValuePathsAgree on every JSON text (canonical.rs).                *)
CanonicalPaths == Case("json") => RawAndValuePathsAgree(sample[2])

(* CalendarIsExact on every date (time.rs).                                *)
Calendar == Case("date") => CalendarIsExact(sample[2])

(* StampsReadBack at three seconds of every next day (time.rs).            *)
Stamps == Case("date") =>
    LET day == DaysFromCivil(sample[2][1], sample[2][2], sample[2][3])
    IN  \A second \in {0, 45296, 86399} : StampsReadBack(<<day + 1, second>>)

(* KindSurvives for every answer (proxy.rs, unwrap.rs).                    *)
Kinds == Case("answer") => KindSurvives(sample[2])

(* NoCrossAcceptance of every response (pipeline.rs, enforcement.rs).      *)
ProfilesApart == Case("response") => \A h \in Hash : NoCrossAcceptance(sample[2], h)

(* BuiltRequestIsAccepted for every request (request.rs, pipeline.rs).     *)
BuiltRequests == Case("request") =>
    BuiltRequestIsAccepted(sample[2], sample[3], sample[4], sample[5])

(* HardeningNarrowsCustody for every signer and policy (signer.rs).        *)
Custody == Case("request") => HardeningNarrowsCustody(sample[4], sample[5])

(* AudienceStringsAreDistinct for every two audiences (audience.rs).       *)
AudienceStrings == Case("audience") => AudienceStringsAreDistinct(sample[2], Audiences)

(* CapabilityIsEarned for every capability and policy (discovery.rs).      *)
Capabilities == Case("capability") => CapabilityIsEarned(sample[2], sample[3], sample[4])

(* OnlyTheBoundGrantCounts, the evidence binding the artifact carried or   *)
(* another (evaluator.rs, reference.rs).                                   *)
BoundGrants == Case("carried") =>
    LET bytes == IF sample[3].block = <<>> \/ sample[3].block[1] = "other" THEN <<>> ELSE sample[3].block[4]
    IN  \A bound \in {bytes, MintReferenceGrant(CHOOSE s \in Specs : s.issuer = "i1", "key1", "k")} :
          OnlyTheBoundGrantCounts(Evaluator,
              VerifiedAs(CASE sample[2] = "draft01" -> <<"draft01", HashId(bound)>>
                           [] sample[2] = "opaque" -> <<"opaque", bound>>
                           [] OTHER -> <<"reference", "system">>),
              sample[3], Trust, sample[4], sample[5])

(* NarrowingNeverWidens for every grant and request (reference.rs).        *)
NarrowGrants == Case("narrowed") =>
    \A operation \in DOMAIN sample[2].grants, member \in {"p", "q"} :
        NarrowingNeverWidens(sample[2], "key1", "k", operation, member, 1,
                             VerifiedAs(<<"opaque", <<>>>>), sample[3], Trust,
                             [id \in {"r"} |-> "notRevoked"], 2)

(* PreimageIsTheRest of every request and response (signing.rs).           *)
Preimages ==
    /\ Case("forwarded") => PreimageIsTheRest(sample[2], "Request")
    /\ Case("signed") => PreimageIsTheRest(BuildUnsignedResponse(sample[2], "draft-02", Atom("1")), "Response")

(* ForwardsOnlyItsOwn for every request (proxy.rs).                        *)
ForwardedBlocks == Case("forwarded") =>
    \A profile \in {"draft-01", "draft-02"} : ForwardsOnlyItsOwn(sample[2], profile)

(* SignsOnlyItsOwn for every inner answer (proxy.rs).                      *)
SignedBlocks == Case("signed") =>
    \A profile \in {"draft-01", "draft-02"} : SignsOnlyItsOwn(sample[2], profile, Atom("1"))

(* SameOnEveryTransport for every request vector (target.rs, echo_server.rs). *)
Transports == Case("vector") => SameOnEveryTransport(sample[2])

(* ClockLeavesTheRest for every request vector (target.rs).                *)
VectorClock == Case("vector") => ClockLeavesTheRest(sample[2])

(* SuiteIsUnordered for every suite of three vectors (runner.rs).          *)
Suites == Case("suite") => SuiteIsUnordered(sample[2])

(* BodyIsReadBack for every body and two cuts of the message (http.rs).    *)
HttpBodies == Case("http") => BodyIsReadBack(sample[2], sample[3])

(* A client in shared mode and one in per-node mode accept the same keys   *)
(* of the same published set: the shared constructor refuses the sets on   *)
(* which they would disagree (authorized_keyset.rs).                       *)
ModesAgree ==
    Case("keyset") /\ sample[2].mode = "shared" =>
        \A k \in {k1, k2} :
            KeysetResolve(PerNodeKeyset(sample[2].set, Us), Us, k, sample[3]) = "active"
               => KeysetResolve(sample[2], Us, k, sample[3]) = "active"

(* The byte formats of the core agree with their reference definitions:    *)
(* canonical JSON, the calendar, and the blocks the proxy owns in _meta    *)
(* (canonical.rs, time.rs, envelope.rs).                                   *)
FormatsAgree ==
    CanonicalForms /\ CanonicalPaths /\ Calendar /\ Stamps /\ Preimages /\ ForwardedBlocks /\ SignedBlocks

(* What a client builds the verifier accepts, only under the custody it    *)
(* was told to use, and what a server answers is read as what it was       *)
(* (client core, unwrap.rs, response verification).                        *)
ExchangesAgree ==
    Kinds /\ ProfilesApart /\ BuiltRequests /\ Custody /\ AudienceStrings /\ Capabilities

(* A grant authorizes the call it was minted for and no wider one, and the *)
(* two ways to publish a key set resolve it alike (policy crate,           *)
(* authorized key sets).                                                   *)
GrantsAreNarrow == BoundGrants /\ NarrowGrants /\ ModesAgree

(* The conformance suite judges alike over every transport and at every    *)
(* clock it sets (conformance crate).                                      *)
ConformanceIsFair == Transports /\ VectorClock /\ Suites /\ HttpBodies
=============================================================================
