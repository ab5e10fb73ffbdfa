------------------------------ MODULE Responses ------------------------------
(***************************************************************************)
(* The life of a response: how the proxy shapes and signs it (mcps-proxy,  *)
(* proxy), how a client verifies it (mcps-core, pipeline; mcps-client-core,*)
(* response), unwraps it (mcps-core, unwrap) and decides on it             *)
(* (mcps-client-core, enforcement and audit).                              *)
(*                                                                         *)
(* A response is abstracted to what these checks tell apart.  envelope is  *)
(* the profile of the block under result._meta, or "absent"; shape is the  *)
(* deserializer's first complaint about it; key is what the trust resolver *)
(* says of (server_signer, key_id).  content is the set of members of the  *)
(* result object other than _meta.                                         *)
(***************************************************************************)
EXTENDS Verification, FiniteSets

CONSTANTS
    ServerSigner,  \* server identities
    Hash           \* request hashes

Response == [
    top       : {"unparsable", "array", "noId", "object"},
    jcs       : BOOLEAN,
    envelope  : {"absent", "draft-01", "draft-02", "other"},
    canonicalization_id : {"absent", "allowed", "known", "unknown"},
    shape     : {"ok", "unknown", "malformed"},
    alg       : BOOLEAN,
    key       : {"trusted", "unknown", "unavailable"},
    signature : {"absent", "bad", "good"},
    server_signer : ServerSigner,
    request_hash  : Hash,
    content   : SUBSET {"value", "inner_error", "field"}]

-----------------------------------------------------------------------------
(* The proxy's side: build_signed_response.                                 *)

(* What the inner server answers: an object with some members, anything     *)
(* else under "result", or no "result" at all.                              *)
InnerAnswer ==
    [kind : {"object"}, members : SUBSET {"value", "inner_error", "field"}]
    \cup [kind : {"scalar", "error"}, members : {{}}]

BuildResult(answer) ==
    CASE answer.kind = "object" -> answer.members
      [] answer.kind = "scalar" -> {"value"}
      [] answer.kind = "error"  -> {"inner_error"}

(* The block of the request's own profile.                                  *)
BuildResponseEnvelope(profile, hash, signer, content) ==
    [top |-> "object", jcs |-> TRUE, envelope |-> profile,
     canonicalization_id |-> IF profile = "draft-02" THEN "allowed" ELSE "absent",
     shape |-> "ok", alg |-> TRUE, key |-> "trusted", signature |-> "good",
     server_signer |-> signer, request_hash |-> hash, content |-> content]

BuildSignedResponse(profile, hash, signer, answer) ==
    BuildResponseEnvelope(profile, hash, signer, BuildResult(answer))

-----------------------------------------------------------------------------
(* The client's side: verification.                                         *)

(* A block of the other profile has members this one does not know.         *)
DeserializeResponse(r, profile) ==
    CASE r.shape = "unknown"   -> "UnknownEnvelopeField"
      [] r.shape = "malformed" -> "CanonicalizationFailed"
      [] r.shape = "ok" /\ r.envelope = profile -> "ok"
      [] OTHER -> "UnknownEnvelopeField"

ExtractResponseEnvelope(r) == <<
    Check(r.envelope # "absent", "MissingEnvelope"),
    Result(DeserializeResponse(r, "draft-01")) >>

ExtractDraft02ResponseEnvelope(r) == <<
    Check(r.envelope # "absent", "MissingEnvelope"),
    Check(r.envelope = "draft-02", "UnsupportedVersion"),
    Result(ClassifyCanonicalizationId(r)),
    Result(DeserializeResponse(r, "draft-02")) >>

ResolveServerKey(r) ==
    CASE r.key = "trusted"     -> "ok"
      [] r.key = "unknown"     -> "ActorBindingFailed"
      [] r.key = "unavailable" -> "TrustResolverUnavailable"

(* Algorithm, key, signature: the same in both profiles.                    *)
CheckResponseSignature(r) == <<
    Check(r.alg, "ResponseSigInvalid"),
    Result(ResolveServerKey(r)),
    Check(r.signature = "good", "ResponseSigInvalid") >>

CheckRequestHash_Skipped(r, hash) == Check(TRUE, "ResponseHashMismatch")

CheckRequestHash(r, hash) == Check(r.request_hash = hash, "ResponseHashMismatch")

VerifyResponse(r, hash) == FirstFailure(
    StructuralRejects(r)
    \o << Check(r.jcs, "CanonicalizationFailed") >>
    \o ExtractResponseEnvelope(r)
    \o CheckResponseSignature(r)
    \o << CheckRequestHash(r, hash) >>)

VerifyResponseDraft02(r, hash) == FirstFailure(
    StructuralRejects(r)
    \o << Check(r.jcs, "CanonicalizationFailed") >>
    \o ExtractDraft02ResponseEnvelope(r)
    \o CheckResponseSignature(r)
    \o << Check(r.canonicalization_id = "allowed", "CanonicalizationIdMismatch"),
          CheckRequestHash(r, hash) >>)

(* The client pins the signer it expects on top of Core's verification.     *)
VerifySignedResponse(r, hash, signer) ==
    LET verdict == VerifyResponseDraft02(r, hash)
    IN  IF verdict = "ok" /\ r.server_signer # signer THEN "ActorBindingFailed" ELSE verdict

(* A wrapper is recognized only when it is the sole member.                 *)
UnwrapVerifiedResult(r) ==
    IF r.content = {"value"} THEN "Scalar"
    ELSE IF r.content = {"inner_error"} THEN "InnerError"
    ELSE "Object"

-----------------------------------------------------------------------------
(* The client's side: enforcement.                                          *)

EnforcementMode == {"RequireMcps", "AllowLegacyExplicit"}

(* Only a missing envelope is an absence of evidence; anything else wrong   *)
(* is bad evidence.                                                         *)
ClassifyResponseResult(verdict) ==
    CASE verdict = "ok"              -> <<"Verified">>
      [] verdict = "MissingEnvelope" -> <<"Absent", "PlainUnsigned">>
      [] OTHER                       -> <<"Invalid", verdict>>

AbsenceFailClosedCode(reason) ==
    IF reason = "PlainUnsigned" THEN "MissingEnvelope" ELSE "DowngradeForbidden"

Decide(mode, legacy_allowed, outcome) ==
    CASE outcome[1] = "Verified" -> <<"AcceptMcps">>
      [] outcome[1] = "Invalid"  -> <<"FailClosed", outcome[2]>>
      [] outcome[1] = "Absent" /\ mode = "AllowLegacyExplicit" /\ legacy_allowed ->
            <<"FallBackToLegacy", outcome[2]>>
      [] OTHER -> <<"FailClosed", AbsenceFailClosedCode(outcome[2])>>

AuditForDecision(decision) ==
    CASE decision[1] = "AcceptMcps"       -> [path |-> "McpsVerified", outcome |-> "Accepted"]
      [] decision[1] = "FallBackToLegacy" -> [path |-> "LegacyExplicit", outcome |-> "FellBackToLegacy"]
      [] decision[1] = "FailClosed"       -> [path |-> "McpsVerified", outcome |-> "Rejected"]

-----------------------------------------------------------------------------
(* What an inner server answered is told apart from the other two kinds     *)
(* after signing and unwrapping, unless it answered an object whose only    *)
(* member has the name of a wrapper (build_signed_response,                 *)
(* unwrap_verified_result).                                                 *)
KindSurvives(answer) ==
    LET unwrapped == UnwrapVerifiedResult([content |-> BuildResult(answer)])
    IN  answer.members \notin {{"value"}, {"inner_error"}} =>
            unwrapped = CASE answer.kind = "object" -> "Object"
                          [] answer.kind = "scalar" -> "Scalar"
                          [] answer.kind = "error"  -> "InnerError"

(* A response of one profile is never accepted by the verifier of the       *)
(* other, and only evidence that is absent, never evidence that is bad, can *)
(* fall back to legacy (verify_response, verify_response_draft02,           *)
(* classify_response_result, decide).                                       *)
NoCrossAcceptance(r, hash) ==
    /\ ~(VerifyResponse(r, hash) = "ok" /\ VerifyResponseDraft02(r, hash) = "ok")
    /\ \A mode \in EnforcementMode, legacy \in BOOLEAN :
         Decide(mode, legacy, ClassifyResponseResult(VerifyResponseDraft02(r, hash)))[1]
            = "FallBackToLegacy" => r.envelope = "absent"
=============================================================================
