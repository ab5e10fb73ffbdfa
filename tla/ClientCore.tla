------------------------------ MODULE ClientCore ------------------------------
(***************************************************************************)
(* The library of the clients, mcps-client-core: the table of outstanding  *)
(* requests and how a request is authored.                                 *)
(***************************************************************************)
EXTENDS Integers, Functions, TLC, Verification, SequencesExt

(***************************************************************************)
(* The client's table of outstanding requests (mcps-client-core,           *)
(* correlation). A store is a record of two maps: pending, from a          *)
(* correlation id to the retained request, and nonce_window, from a nonce  *)
(* to the deadline until which it may not be used again. An operation      *)
(* returns its error, or "ok", with the store it leaves.                   *)
(***************************************************************************)

EmptyStore == [pending |-> <<>>, nonce_window |-> <<>>]

Without(map, keys) == Restrict(map, DOMAIN map \ keys)

With(map, key, value) ==
    [k \in DOMAIN map \cup {key} |-> IF k = key THEN value ELSE map[k]]

Register_ForgetsCompleted(store, request, now) ==
    IF request.id \in DOMAIN store.pending
    THEN [error |-> "DuplicateCorrelationId", store |-> store]
    ELSE IF \E id \in DOMAIN store.pending : store.pending[id].nonce = request.nonce
    THEN [error |-> "NonceReuse", store |-> store]
    ELSE [error |-> "ok",
          store |-> [pending |-> With(store.pending, request.id, request),
                     nonce_window |-> With(store.nonce_window, request.nonce, request.deadline)]]

Register(store, request, now) ==
    IF request.id \in DOMAIN store.pending
    THEN [error |-> "DuplicateCorrelationId", store |-> store]
    ELSE IF request.nonce \in DOMAIN store.nonce_window /\ store.nonce_window[request.nonce] > now
    THEN [error |-> "NonceReuse", store |-> store]
    ELSE [error |-> "ok",
          store |-> [pending |-> With(store.pending, request.id, request),
                     nonce_window |-> With(store.nonce_window, request.nonce, request.deadline)]]

Cancel(store, id) == [store EXCEPT !.pending = Without(@, {id})]

(* The entry is removed even when it is expired.                            *)
TakeForResponse(store, id, now) ==
    IF id \notin DOMAIN store.pending
    THEN [error |-> "Uncorrelatable", store |-> store]
    ELSE [error |-> IF now > store.pending[id].deadline THEN "Expired" ELSE "ok",
          store |-> Cancel(store, id)]

SweepExpired(store, now) ==
    [pending |-> Without(store.pending,
                         {id \in DOMAIN store.pending : store.pending[id].deadline < now}),
     nonce_window |-> Without(store.nonce_window,
                              {n \in DOMAIN store.nonce_window : store.nonce_window[n] < now})]

ToMcpsError(error) ==
    CASE error \in {"DuplicateCorrelationId", "NonceReuse"} -> "ReplayDetected"
      [] error = "Uncorrelatable" -> "ResponseHashMismatch"
      [] error = "Expired"        -> "ExpiredRequest"

-----------------------------------------------------------------------------
(***************************************************************************)
(* How a client authors a request (mcps-client-core): the authorization    *)
(* binding (authz), the signer's custody policy (signer), the audience     *)
(* (audience), the signed draft-02 message (request), and the capability   *)
(* verdict on the exchange (discovery). Every refusal comes before         *)
(* anything is signed.                                                     *)
(***************************************************************************)

-----------------------------------------------------------------------------
(* The authorization binding: bound, never interpreted.                     *)

BindingTypeTag == {"opaque-bytes", "authz-system-reference"}

(* What a provider is built over; a resolver may fail with its own error,   *)
(* and may return a reference with an empty field.                          *)
Provider == {"opaque", "reference", "referenceWithEmptyField", "referenceWithoutResolver",
             "failingResolver", "structuredObject"}

Provide(provider) ==
    CASE provider = "opaque" -> [error |-> "ok", tag |-> "opaque-bytes", fields |-> "ok"]
      [] provider = "reference" ->
            [error |-> "ok", tag |-> "authz-system-reference", fields |-> "ok"]
      [] provider = "referenceWithEmptyField" ->
            [error |-> "ok", tag |-> "authz-system-reference", fields |-> "malformed"]
      [] provider \in {"referenceWithoutResolver", "failingResolver"} ->
            [error |-> "AuthorizationBindingMissing", tag |-> "none", fields |-> "absent"]
      [] provider = "structuredObject" ->
            [error |-> "AuthorizationBindingProfileRequired", tag |-> "none", fields |-> "absent"]

ResolveAuthorizationBinding(provider, allowed_types) ==
    LET binding == Provide(provider)
    IN  FirstFailure(<< Result(binding.error),
                        Check(binding.tag \in allowed_types, "AuthorizationBindingTypeUnsupported") >>)

-----------------------------------------------------------------------------
(* Custody of the signing key.                                              *)

CustodyClass == {"NonExporting", "SoftwareHeldPrivate", "DevFileUnprotected"}

Signer == [expected : BOOLEAN, revoked : BOOLEAN, custody : CustodyClass, signs : BOOLEAN]

SignerPolicy == [environment : {"Production", "DevTest"}, require_mcps : BOOLEAN,
                 require_non_exporting : BOOLEAN]

AuthorizeSigner_HardeningReplacesBase(policy, signer) ==
    FirstFailure(<<
        Check(signer.expected /\ ~signer.revoked, "ActorBindingFailed"),
        Check(IF policy.require_non_exporting THEN signer.custody # "DevFileUnprotected"
              ELSE TRUE, "ActorBindingFailed") >>)

AuthorizeSigner(policy, signer) ==
    FirstFailure(<<
        Check(signer.expected, "ActorBindingFailed"),
        Check(~signer.revoked, "ActorBindingFailed"),
        Check(policy.require_non_exporting => signer.custody = "NonExporting", "ActorBindingFailed"),
        Check(policy.require_mcps /\ policy.environment = "Production"
                => signer.custody # "DevFileUnprotected", "ActorBindingFailed") >>)

-----------------------------------------------------------------------------
(* The signed request.                                                      *)

(* A plain request, and the values the caller supplies for its envelope.    *)
PlainRequest == [id : BOOLEAN, jcs : BOOLEAN, meta : {"absent", "notAnObject", "foreign"},
                 on_behalf_of : {"empty", "ok"},
                 canonicalization_id : {"absent", "allowed", "known"}]

CheckCanonicalizationId(id) ==
    CASE id = "absent"  -> "CanonicalizationIdMissing"
      [] id = "allowed" -> "ok"
      [] OTHER          -> "CanonicalizationIdNotAllowed"

(* The envelope replaces a block of the caller's under the same key, and a  *)
(* _meta that is not an object.  The request without an id still has the    *)
(* member, with the value null, which the verifier takes for a missing id.  *)
AuthoredMessage(plain, binding) ==
    [top |-> IF plain.id THEN "object" ELSE "noId", jcs |-> plain.jcs, envelope |-> TRUE,
     version |-> "draft-02", canonicalization_id |-> plain.canonicalization_id,
     authorization_binding |-> binding.fields, authorization_hash |-> "absent",
     on_behalf_of |-> plain.on_behalf_of, shape |-> "ok", signature_block |-> TRUE,
     audience |-> TRUE]

BuildSignedRequestWithSigner(plain, binding, signer, policy) == FirstFailure(<<
    Result(AuthorizeSigner(policy, signer)),
    Result(CheckCanonicalizationId(plain.canonicalization_id)),
    Check(plain.jcs, "CanonicalizationFailed"),
    Check(signer.signs, "ActorBindingFailed") >>)

(* The same with a key in hand: no policy is asked, and signing cannot fail.*)
BuildSignedRequest(plain) == FirstFailure(<<
    Result(CheckCanonicalizationId(plain.canonicalization_id)),
    Check(plain.jcs, "CanonicalizationFailed") >>)

(* A tool call is a request whose parameters the core writes itself.        *)
BuildSignedToolCall(plain) == BuildSignedRequest([plain EXCEPT !.meta = "absent"])

(* The host's signer authors draft-01, from the values it is given; its key *)
(* is its own, so that only what cannot be canonicalized is refused.        *)
HostSignRequest(plain) == FirstFailure(<< Check(plain.jcs, "CanonicalizationFailed") >>)

HostAuthoredMessage(plain, authorization_hash) ==
    [top |-> IF plain.id THEN "object" ELSE "noId", jcs |-> plain.jcs, envelope |-> TRUE,
     version |-> "draft-01", canonicalization_id |-> "absent", authorization_binding |-> "absent",
     authorization_hash |-> authorization_hash, on_behalf_of |-> plain.on_behalf_of, shape |-> "ok",
     signature_block |-> TRUE, audience |-> TRUE]

HostSignToolCall(plain) == HostSignRequest([plain EXCEPT !.meta = "absent"])

-----------------------------------------------------------------------------
(* The audience string: characters, with the delimiters of fields escaped.  *)

EscapedCharacter(c) ==
    CASE c = "%" -> <<"%", "2", "5">>
      [] c = ";" -> <<"%", "3", "B">>
      [] c = "=" -> <<"%", "3", "D">>
      [] OTHER   -> <<c>>

EscapeField(value) == FlattenSeq([i \in DOMAIN value |-> EscapedCharacter(value[i])])

(* One field of the tuple; the names of the fields are one letter each.     *)
AudienceField(name, value) == <<name, "=">> \o EscapeField(value)

ToAudienceString(tuple) ==
    AudienceField("h", tuple.host) \o <<";">>
    \o AudienceField("t", tuple.tenant) \o <<";">> \o AudienceField("r", tuple.route)

NewAudienceTuple(tuple) ==
    IF tuple.tenant = <<>> \/ tuple.route = <<>> THEN "InvalidAudience" ELSE "ok"

(* policy: route ids to tuples; a route is bound under its tuple's own id.  *)
BindAudience(policy, tuple) == [r \in DOMAIN policy \cup {tuple.route} |->
                                    IF r = tuple.route THEN tuple ELSE policy[r]]

EnforceRequestAudience(request_audience, expected) ==
    IF request_audience = ToAudienceString(expected) THEN "ok" ELSE "InvalidAudience"

ResolveSignerAudience(policy, verified_host, route_id) ==
    IF route_id \notin DOMAIN policy THEN "InvalidAudience"
    ELSE IF policy[route_id].host # verified_host THEN "TransportBindingFailed"
    ELSE "ok"

-----------------------------------------------------------------------------
(* The capability an exchange used, against the local policy.               *)

VersionRank(version) ==
    CASE version = "draft-01" -> 1 [] version = "draft-02" -> 2 [] OTHER -> 0

EvaluateCapability(version, canonicalization_id, policy) ==
    IF \/ version = "draft-02" /\ canonicalization_id # "allowed"
       \/ version = "draft-01" /\ canonicalization_id # "absent"
    THEN "SelfContradictory"
    ELSE IF \/ VersionRank(version) = 0 \/ version \notin policy.supported
            \/ VersionRank(version) < VersionRank(policy.required_min)
    THEN "WeakerThanPolicy"
    ELSE IF VersionRank(version) > VersionRank(policy.required_min) THEN "StrongerSupported"
    ELSE "SatisfiesPolicy"

-----------------------------------------------------------------------------
(* A request the client core or the host's signer signs passes the          *)
(* structural checks of its profile's verifier, and of no other, unless the *)
(* caller gave it no id, no principal, or a binding that is malformed; the  *)
(* convenience for a tool call refuses nothing more                         *)
(* (build_signed_request_with, HostSigner::sign_request, verify_request,    *)
(* verify_request_draft02).                                                 *)
BuiltRequestIsAccepted(plain, provider, signer, policy) ==
    LET binding == Provide(provider)
        sound   == plain.id /\ plain.on_behalf_of = "ok"
    IN  /\ /\ ResolveAuthorizationBinding(provider, BindingTypeTag) = "ok"
           /\ BuildSignedRequestWithSigner(plain, binding, signer, policy) = "ok"
           => /\ BuildSignedToolCall(plain) = "ok"
              /\ sound /\ binding.fields = "ok" => VerifyRequestDraft02(AuthoredMessage(plain, binding)) = "ok"
              /\ VerifyRequest(AuthoredMessage(plain, binding)) # "ok"
        /\ HostSignRequest(plain) = "ok" => \A hash \in {"malformed", "ok"} :
              /\ HostSignToolCall(plain) = "ok"
              /\ VerifyRequest(HostAuthoredMessage(plain, hash)) = "ok" <=> sound /\ hash = "ok"
              /\ VerifyRequestDraft02(HostAuthoredMessage(plain, hash)) # "ok"

(* Hardening only ever narrows the keys a client may sign with, and a key   *)
(* that leaves a production host unprotected signs nothing there            *)
(* (authorize_signer).                                                      *)
HardeningNarrowsCustody(signer, policy) ==
    LET base == [policy EXCEPT !.require_non_exporting = FALSE]
        hard == [policy EXCEPT !.require_non_exporting = TRUE]
    IN  AuthorizeSigner(hard, signer) = "ok" =>
            AuthorizeSigner(base, signer) = "ok" /\ signer.custody = "NonExporting"

(* Two audiences have one string only if they are one tuple, so that the    *)
(* check of a request's audience admits no other route's, and a route that  *)
(* is bound resolves to its own tuple on its own host and nowhere else      *)
(* (to_audience_string, escape_field, enforce_request_audience, bind,       *)
(* resolve_signer_audience).                                                *)
AudienceStringsAreDistinct(tuple, others) ==
    \A other \in others :
        LET policy == BindAudience(BindAudience(<<>>, other), tuple)
        IN  /\ EnforceRequestAudience(ToAudienceString(other), tuple) = "ok" <=> other = tuple
            /\ policy[tuple.route] = tuple
            /\ ResolveSignerAudience(policy, other.host, tuple.route) = "ok" <=> other.host = tuple.host
            /\ ResolveSignerAudience(policy, other.host, other.route) = "ok" <=>
                    other.route = tuple.route => other.host = tuple.host

(* An exchange is accepted only if it is at least what the policy requires, *)
(* supported, and one the verifiers themselves can have produced            *)
(* (evaluate_capability).                                                   *)
CapabilityIsEarned(version, canonicalization_id, policy) ==
    EvaluateCapability(version, canonicalization_id, policy)
        \in {"SatisfiesPolicy", "StrongerSupported"} =>
        /\ version \in policy.supported
        /\ policy.required_min = "draft-02" => version = "draft-02"
        /\ <<version, canonicalization_id>> \in {<<"draft-01", "absent">>, <<"draft-02", "allowed">>}
=============================================================================
