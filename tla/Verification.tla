---------------------------- MODULE Verification ----------------------------
(***************************************************************************)
(* The structural part of request verification (mcps-core, pipeline and    *)
(* constraints): everything decided by the bytes of the message alone,     *)
(* before the clock, the trust resolver and the replay cache are asked.    *)
(*                                                                         *)
(* A message is abstracted to what the checks tell apart.  A function that *)
(* chains its checks with `?` is a sequence of checks; its result is the   *)
(* error of the first one that fails.                                      *)
(***************************************************************************)
EXTENDS Integers, Sequences

(* shape is the first complaint of the envelope's deserializer: a member   *)
(* the profile does not know, or a value of the wrong type or a required   *)
(* field, other than the ones listed here, that is missing ("malformed").  *)
Message == [
    top      : {"unparsable", "array", "noId", "object"},
    jcs      : BOOLEAN,
    envelope : BOOLEAN,
    version  : {"absent", "draft-01", "draft-02", "other"},
    canonicalization_id   : {"absent", "allowed", "known", "unknown"},
    authorization_binding : {"absent", "malformed", "ambiguous", "unsupported", "ok"},
    authorization_hash    : {"absent", "malformed", "ok"},
    on_behalf_of          : {"absent", "empty", "ok"},
    shape           : {"ok", "unknown", "malformed"},
    signature_block : BOOLEAN,
    audience        : BOOLEAN]

(* A field of the other profile is an unknown member: both profiles deny   *)
(* unknown members.                                                        *)
HasForeignField(m) ==
    IF m.version = "draft-02" THEN m.authorization_hash # "absent"
    ELSE m.canonicalization_id # "absent" \/ m.authorization_binding # "absent"

(* Only an object has members; only an envelope has fields.                *)
Plausible(m) ==
    /\ HasForeignField(m) => m.shape # "ok"
    /\ m.top \in {"unparsable", "array"} => ~m.envelope /\ m.jcs = (m.top = "array")
    /\ ~m.envelope =>
        /\ m.version = "absent" /\ m.canonicalization_id = "absent"
        /\ m.authorization_binding = "absent" /\ m.authorization_hash = "absent"
        /\ m.on_behalf_of = "absent" /\ m.shape = "ok"
        /\ ~m.signature_block /\ ~m.audience

VersionPolicy == {"draft-02-only", "draft-01-and-draft-02"}

Check(passes, error) == [passes |-> passes, error |-> error]

(* What a chain of checks returns: "ok", or the first failing one's error. *)
FirstFailure(checks) ==
    LET failing == {i \in DOMAIN checks : ~checks[i].passes}
    IN  IF failing = {} THEN "ok" 
        ELSE checks[CHOOSE i \in failing : \A j \in failing : i <= j].error

(***************************************************************************)
(* Envelope extraction.                                                    *)
(***************************************************************************)

(* A required field that is absent is only noticed at the end.             *)
DeserializeEnvelope(m, required) ==
    IF m.shape = "unknown" THEN "UnknownEnvelopeField"
    ELSE IF m.shape = "malformed" \/ \E f \in required : m[f] = "absent"
    THEN "CanonicalizationFailed"
    ELSE "ok"

(* A generic structural error gives way to the token of an absent field.   *)
ClassifyRequestEnvelopeError(m, original) ==
    IF original # "CanonicalizationFailed" THEN original
    ELSE IF m.authorization_hash = "absent" THEN "AuthorizationHashMissing"
    ELSE IF m.on_behalf_of = "absent" THEN "OnBehalfOfMissing"
    ELSE original

ClassifyDraft02Error(m, original) ==
    IF original = "CanonicalizationFailed" /\ m.authorization_binding = "absent"
    THEN "AuthorizationBindingMissing"
    ELSE original

ClassifyCanonicalizationId(m) ==
    CASE m.canonicalization_id = "allowed" -> "ok"
      [] m.canonicalization_id = "known"   -> "CanonicalizationIdNotAllowed"
      [] m.canonicalization_id = "unknown" -> "CanonicalizationIdUnknown"
      [] m.canonicalization_id = "absent"  -> "CanonicalizationIdMissing"

CheckAuthorizationBinding(m) ==
    CASE m.authorization_binding = "ok"          -> "ok"
      [] m.authorization_binding = "absent"      -> "AuthorizationBindingMissing"
      [] m.authorization_binding = "malformed"   -> "AuthorizationBindingMalformed"
      [] m.authorization_binding = "ambiguous"   -> "AuthorizationBindingAmbiguousBytes"
      [] m.authorization_binding = "unsupported" -> "AuthorizationBindingTypeUnsupported"

(* A check whose error is its result.                                      *)
Result(result) == Check(result = "ok", result)

ExtractRequestEnvelope(m) == <<
    Check(m.envelope, "MissingEnvelope"),
    Result(ClassifyRequestEnvelopeError(m,
        DeserializeEnvelope(m, {"version", "authorization_hash", "on_behalf_of"}))),
    Check(m.version = "draft-01", "UnsupportedVersion") >>

ExtractDraft02RequestEnvelope(m) == <<
    Check(m.envelope, "MissingEnvelope"),
    Check(m.version = "draft-02", "UnsupportedVersion"),
    Result(ClassifyCanonicalizationId(m)),
    Result(CheckAuthorizationBinding(m)),
    Result(ClassifyDraft02Error(m, DeserializeEnvelope(m, {"on_behalf_of"}))) >>

(***************************************************************************)
(* The two profiles, up to the audience check, and the dispatch.           *)
(***************************************************************************)

StructuralRejects(m) == <<
    Check(m.top # "unparsable", "CanonicalizationFailed"),
    Check(m.top # "array", "BatchForbidden"),
    Check(m.top # "noId", "NotificationForbidden") >>

CheckOnBehalfOf(m)     == Check(m.on_behalf_of # "empty", "OnBehalfOfInvalidFormat")
CheckSignatureBlock(m) == Check(m.signature_block, "InvalidSignature")
CheckAudience(m)       == Check(m.audience, "InvalidAudience")

(* verify_request, steps 1 to 8.                                           *)
VerifyRequest(m) == FirstFailure(
    StructuralRejects(m)
    \o << Check(m.jcs, "CanonicalizationFailed") >>
    \o ExtractRequestEnvelope(m)
    \o << Check(m.authorization_hash # "malformed", "AuthorizationHashMissing"),
          CheckOnBehalfOf(m), CheckSignatureBlock(m), CheckAudience(m) >>)

(* verify_request_draft02, steps 1 to 8.                                   *)
VerifyRequestDraft02(m) == FirstFailure(
    StructuralRejects(m)
    \o << Check(m.jcs, "CanonicalizationFailed") >>
    \o ExtractDraft02RequestEnvelope(m)
    \o << CheckOnBehalfOf(m), CheckSignatureBlock(m), CheckAudience(m) >>)

Admits_Everything(policy, version) == version \in {"draft-01", "draft-02"}

Admits(policy, version) ==
    \/ version = "draft-02"
    \/ version = "draft-01" /\ policy = "draft-01-and-draft-02"

(* verify_request_dispatch: the version selects exactly one profile.       *)
VerifyRequestDispatch(m, policy) ==
    LET selector == FirstFailure(
            StructuralRejects(m)
            \o << Check(m.envelope, "MissingEnvelope"),
                  Check(m.version \in {"draft-01", "draft-02"}, "UnsupportedVersion"),
                  Check(Admits(policy, m.version), "DowngradeForbidden") >>)
    IN  IF selector # "ok" THEN selector
        ELSE IF m.version = "draft-01" THEN VerifyRequest(m)
        ELSE VerifyRequestDraft02(m)
=============================================================================
