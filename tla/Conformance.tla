----------------------------- MODULE Conformance -----------------------------
(***************************************************************************)
(* The conformance suite (mcps-conformance): the native echo server, the   *)
(* sidecar in front of a plain echo, the targets that submit a vector to   *)
(* the core directly, over stdio or over HTTP, and the runner.             *)
(*                                                                         *)
(* A request is a Message of Verification with what the later steps look   *)
(* at: its window, whether its key is the documented one, whether its      *)
(* signature verifies, its nonce.  Errors travel as their wire tokens.     *)
(***************************************************************************)
EXTENDS Responses, SequencesExt

TestSkew == 300    \* TEST_MAX_CLOCK_SKEW_SECS

(* McpsError::wire_code, for the errors that verification returns.         *)
WireCode(error) ==
    [MissingEnvelope |-> "mcps.missing_envelope",
     UnsupportedVersion |-> "mcps.unsupported_version",
     InvalidSignature |-> "mcps.invalid_signature",
     CanonicalizationFailed |-> "mcps.canonicalization_failed",
     ExpiredRequest |-> "mcps.expired_request",
     ReplayDetected |-> "mcps.replay_detected",
     InvalidAudience |-> "mcps.invalid_audience",
     ActorBindingFailed |-> "mcps.actor_binding_failed",
     AuthorizationHashMissing |-> "mcps.authorization_hash_missing",
     OnBehalfOfMissing |-> "mcps.on_behalf_of_missing",
     OnBehalfOfInvalidFormat |-> "mcps.on_behalf_of_invalid_format",
     ResponseSigInvalid |-> "mcps.response_sig_invalid",
     ResponseHashMismatch |-> "mcps.response_hash_mismatch",
     DowngradeForbidden |-> "mcps.downgrade_forbidden",
     BatchForbidden |-> "mcps.batch_forbidden",
     NotificationForbidden |-> "mcps.notification_forbidden",
     UnknownEnvelopeField |-> "mcps.unknown_envelope_field",
     TrustResolverUnavailable |-> "mcps.trust_resolver_unavailable",
     CanonicalizationIdMissing |-> "mcps.canonicalization_id_missing",
     CanonicalizationIdUnknown |-> "mcps.canonicalization_id_unknown",
     CanonicalizationIdNotAllowed |-> "mcps.canonicalization_id_not_allowed",
     CanonicalizationIdMismatch |-> "mcps.canonicalization_id_mismatch",
     AuthorizationBindingMissing |-> "mcps.authorization_binding_missing",
     AuthorizationBindingTypeUnsupported |-> "mcps.authorization_binding_type_unsupported",
     AuthorizationBindingMalformed |-> "mcps.authorization_binding_malformed",
     AuthorizationBindingAmbiguousBytes |-> "mcps.authorization_binding_ambiguous_bytes"][error]

(* map_result *)
Token(verdict) == IF verdict = "ok" THEN "verify_ok" ELSE WireCode(verdict)

-----------------------------------------------------------------------------
(* The servers.  seen holds the replay keys of an InMemoryReplayCache.     *)

FreshWithin(request, now) ==
    /\ request.expires >= request.issued
    /\ request.issued - TestSkew <= now
    /\ now <= request.expires + TestSkew

(* Steps 9 to 12, after the structural verdict.                            *)
VerifyFrom(structural, request, known, seen, now) == FirstFailure(<<
    Result(structural),
    Check(FreshWithin(request, now), "ExpiredRequest"),
    Check(known, "ActorBindingFailed"),
    Check(request.signed, "InvalidSignature"),
    Check(request.nonce \notin seen, "ReplayDetected") >>)

SeenAfter(verdict, request, seen) == IF verdict = "ok" THEN seen \cup {request.nonce} ELSE seen

(* Everything but the signature's value.                                   *)
RequestHash(request) == [request EXCEPT !.signed = TRUE]

(* A JSON-RPC error object, or a response signed under the server's key.   *)
ErrorObject(verdict, id) ==
    [id |-> id, error |-> WireCode(verdict), body |-> [content |-> {}]]
SignedObject(profile, request) ==
    [id |-> request.id, error |-> "none",
     body |-> BuildSignedResponse(profile, RequestHash(request), "server",
                                  [kind |-> "object", members |-> {"field"}])]

(* Best effort: null unless the bytes are JSON with an id.                 *)
IdOf(request) == IF request.m.top \in {"unparsable", "array", "noId"} THEN "null" ELSE request.id

(* EchoServer::handle speaks draft-01 only; Proxy::handle dispatches on    *)
(* the version and answers in the request's own profile.                   *)
HandleRequest(server, request, seen, now) ==
    LET structural == IF server = "Native" THEN VerifyRequest(request.m)
                      ELSE VerifyRequestDispatch(request.m, "draft-01-and-draft-02")
        verdict == VerifyFrom(structural, request, request.known, seen, now)
        profile == IF server = "Native" THEN "draft-01" ELSE request.m.version
    IN  [seen |-> SeenAfter(verdict, request, seen),
         response |-> IF verdict = "ok" THEN SignedObject(profile, request)
                      ELSE ErrorObject(verdict, IdOf(request))]

-----------------------------------------------------------------------------
(* The transports.                                                         *)

ServeOne(server, requests, now) == FoldLeft(LAMBDA state, request :
    LET handled == HandleRequest(server, request, state.seen, now)
    IN  [seen |-> handled.seen, out |-> Append(state.out, handled.response)],
    [seen |-> {}, out |-> <<>>], requests).out

(* StdioHarness::serve_kind: one process takes all the requests, a line    *)
(* each, and answers each.                                                 *)
StdioServeKind(server, requests, now) == ServeOne(server, requests, now)

(* The bytes of an HTTP message: <<"C">> is a line end, <<"cl", n>> a      *)
(* Content-Length header, <<"h">> another one, <<"b", i>> a byte of body.  *)
HttpMessage(body) ==
    <<<<"h">>, <<"C">>, <<"cl", Len(body)>>, <<"C">>, <<"h">>, <<"C">>, <<"C">>>> \o body

(* find_subsequence, just past the first empty line; 0 if there is none.   *)
HeaderEnd(buf) ==
    LET ends == {i \in 2 .. Len(buf) : buf[i - 1] = <<"C">> /\ buf[i] = <<"C">>}
    IN  IF ends = {} THEN 0 ELSE Min(ends)

ParseContentLength(head) ==
    LET lines == SelectSeq(head, LAMBDA b : b[1] = "cl")
    IN  IF lines = <<>> THEN 0 ELSE lines[1][2]

(* read_http_body: read until the header ends, then until the announced    *)
(* length is there or the peer is done; what exceeds it is left out.       *)
ReadHttpBody(chunks) ==
    LET Buffer(n) == FlattenSeq(SubSeq(chunks, 1, n))
        headed == {n \in 0 .. Len(chunks) : HeaderEnd(Buffer(n)) > 0}
        start == HeaderEnd(Buffer(Min(headed)))
        length == ParseContentLength(SubSeq(Buffer(Min(headed)), 1, start))
        enough == {n \in headed : Len(Buffer(n)) >= start + length}
        buf == Buffer(IF enough = {} THEN Len(chunks) ELSE Min(enough))
    IN  IF headed = {} THEN <<"UnexpectedEof">>
        ELSE SubSeq(buf, start + 1, Min({start + length, Len(buf)}))

(* HttpHarness::serve_kind: one server thread takes every request from the *)
(* body of a message of its own.                                           *)
HttpServeKind(server, requests, now) ==
    ServeOne(server, [i \in DOMAIN requests |->
        ReadHttpBody(<<HttpMessage(<<<<"b", requests[i]>>>>)>>)[1][2]], now)

(* outcome_token *)
OutcomeToken(response, hash) ==
    IF response.error # "none" THEN response.error
    ELSE Token(VerifyResponse(response.body, hash))

-----------------------------------------------------------------------------
(* The vectors, the object target and the runner.                          *)

HarnessError == "harness_error"

(* now_unix_for_case *)
NowUnixForCase(case) ==
    IF ~case.request.m.envelope THEN 0
    ELSE IF case.expected = "mcps.expired_request" THEN case.request.expires + TestSkew + 1
    ELSE case.request.issued + 60

(* The replay verdict shows on the second submission.                      *)
Submissions(case) ==
    IF case.expected = "mcps.replay_detected" THEN <<case.request, case.request>>
    ELSE <<case.request>>

(* ObjectTarget::run_request, with a cache of its own for every vector.    *)
RunRequest(case) ==
    LET now == NowUnixForCase(case)
        known == case.resolver = "present" /\ case.request.known
        Verdict(seen) == VerifyFrom(VerifyRequest(case.request.m), case.request, known, seen, now)
    IN  Token(IF Len(Submissions(case)) = 1 THEN Verdict({})
              ELSE Verdict(SeenAfter(Verdict({}), case.request, {})))

(* ObjectTarget::run_case; context is the canonical request's hash, in a   *)
(* sequence of at most one.                                                *)
RunCase(case, context) ==
    CASE case.kind = "raw" -> Token(IF case.jcs THEN "ok" ELSE "CanonicalizationFailed")
      [] case.kind \in {"request", "response"} /\ case.resolver = "malformed" -> HarnessError
      [] case.kind = "request" -> RunRequest(case)
      [] case.kind = "response" /\ context = <<>> -> HarnessError
      [] case.kind = "response" ->
            Token(VerifyResponse([case.response EXCEPT
                !.key = IF case.resolver = "present" THEN "trusted" ELSE "unknown"], context[1]))
      [] OTHER -> HarnessError

CanonicalName == "v1_valid_request"

BuildContext_FirstRequest(cases) ==
    LET canonical == SelectSeq(cases, LAMBDA c : c.kind = "request" /\ c.expected = "verify_ok")
    IN  IF canonical = <<>> THEN <<>> ELSE <<RequestHash(canonical[1].request)>>

(* build_context: the vector of the canonical name, or else the first      *)
(* request that should verify.                                             *)
BuildContext(cases) ==
    LET named == SelectSeq(cases, LAMBDA c : c.name = CanonicalName)
        valid == SelectSeq(cases, LAMBDA c : c.kind = "request" /\ c.expected = "verify_ok")
        canonical == IF named # <<>> THEN named ELSE valid
    IN  IF canonical = <<>> THEN <<>> ELSE <<RequestHash(canonical[1].request)>>

(* run_suite *)
RunSuite(cases) ==
    LET context == BuildContext(cases)
        results == [i \in DOMAIN cases |->
            LET actual == RunCase(cases[i], context)
            IN  [name |-> cases[i].name, actual |-> actual, pass |-> actual = cases[i].expected]]
        Passing == {i \in DOMAIN cases : results[i].pass}
    IN  [results |-> results, passed |-> Cardinality(Passing),
         failed |-> Cardinality(DOMAIN cases \ Passing), total |-> Len(cases)]

AllPassed(report) == report.failed = 0 /\ report.passed = report.total

-----------------------------------------------------------------------------
(* A request vector gets the same token from the core called directly and  *)
(* from the native server behind either transport; the sidecar accepts     *)
(* exactly the same draft-01 requests and answers the others with the same *)
(* token too, unless the version, which it looks at first, is what is      *)
(* wrong (ObjectTarget, EchoServer, Proxy; ADR-MCPS-011).                  *)
SameOnEveryTransport(case) ==
    LET object == RunCase(case, <<>>)
        now == NowUnixForCase(case)
        Tokens(server) == {OutcomeToken(Last(answers), RequestHash(case.request)) :
            answers \in {StdioServeKind(server, Submissions(case), now),
                         HttpServeKind(server, Submissions(case), now)}}
    IN  /\ Tokens("Native") = {object}
        /\ case.request.m.version # "draft-02" =>
             /\ ("verify_ok" \in Tokens("SidecarWrapped")) <=> (object = "verify_ok")
             /\ case.request.m.jcs /\ (case.request.m.envelope => case.request.m.version = "draft-01")
                  => Tokens("SidecarWrapped") = {object}

(* A vector that should expire does, and no other vector does, unless its  *)
(* window ends before it starts: the clock chosen for it leaves the tested *)
(* check to decide (now_unix_for_case, check_freshness).                   *)
ClockLeavesTheRest(case) ==
    LET reaches == VerifyRequest(case.request.m) = "ok"
    IN  reaches => ((RunRequest(case) = "mcps.expired_request") <=>
                    (case.expected = "mcps.expired_request" \/ case.request.expires < case.request.issued))

(* What a vector is reported as does not depend on the vectors around it   *)
(* or on their order, given the canonical request; nothing is counted      *)
(* twice or left out (run_suite, build_context).                           *)
SuiteIsUnordered(cases) ==
    LET report == RunSuite(cases)
        reversed == RunSuite(Reverse(cases))
    IN  /\ (\E i \in DOMAIN cases : cases[i].name = CanonicalName) =>
              \A i \in DOMAIN cases : report.results[i] = reversed.results[Len(cases) + 1 - i]
        /\ report.passed + report.failed = report.total
        /\ AllPassed(report) <=> \A i \in DOMAIN cases : report.results[i].actual = cases[i].expected

(* A body is read back as it was sent, however the bytes arrive, even when *)
(* it holds what ends a header or announces a length, and a body cut short *)
(* comes back as a prefix (read_http_body, http_post, write_response).     *)
BodyIsReadBack(body, cuts) ==
    LET bytes == HttpMessage(body)
        Chunked(stop) ==
            LET bounds == SetToSortSeq({0, stop} \cup {c \in cuts : c < stop}, LAMBDA a, b : a < b)
            IN  [i \in 1 .. Len(bounds) - 1 |-> SubSeq(bytes, bounds[i] + 1, bounds[i + 1])]
    IN  /\ ReadHttpBody(Chunked(Len(bytes))) = body
        /\ \A stop \in 7 .. Len(bytes) : IsPrefix(ReadHttpBody(Chunked(stop)), body)
=============================================================================
