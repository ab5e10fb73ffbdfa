--------------------------- MODULE RequestPipeline ---------------------------
(***************************************************************************)
(* verify_request_dispatch on one message, from its bytes to its verdict.  *)
(* The structural checks are those of Verification; the clock, the trust   *)
(* resolver, the signature and the replay cache answer as they please.     *)
(***************************************************************************)
EXTENDS Verification

VARIABLES
    msg,      \* the message
    policy,   \* the expected-version policy the proxy runs with
    step,     \* the next check: structure, freshness, resolve, signature, replay
    verdict   \* "none" until the pipeline returns

pipelineVars == <<msg, policy, step, verdict>>

PipelineInit ==
    /\ msg \in {m \in Message : Plausible(m)}
    /\ policy \in VersionPolicy
    /\ step = "structure"
    /\ verdict = "none"

Return(v) ==
    /\ step' = "done"
    /\ verdict' = v

Structure ==
    /\ step = "structure"
    /\ LET v == VerifyRequestDispatch(msg, policy)
       IN  IF v = "ok" THEN step' = "freshness" /\ UNCHANGED verdict ELSE Return(v)
    /\ UNCHANGED <<msg, policy>>

(* One outside party is asked: it answers "ok" and the next check follows, *)
(* or it answers with one of its errors.                                   *)
Ask(party, errors, next) ==
    /\ step = party
    /\ \/ next = "done" /\ Return("ok")
       \/ next # "done" /\ step' = next /\ UNCHANGED verdict
       \/ \E e \in errors : Return(e)
    /\ UNCHANGED <<msg, policy>>

Freshness == Ask("freshness", {"ExpiredRequest"}, "resolve")
Resolve   == Ask("resolve", {"ActorBindingFailed", "TrustResolverUnavailable"}, "signature")
Signature == Ask("signature", {"InvalidSignature"}, "replay")
Replay    == Ask("replay", {"ReplayDetected", "ReplayCacheUnavailable"}, "done")

PipelineNext == Structure \/ Freshness \/ Resolve \/ Signature \/ Replay
PipelineSpec == PipelineInit /\ [][PipelineNext]_pipelineVars

-----------------------------------------------------------------------------
(* A message is accepted only if it is a single well-formed request of ONE   *)
(* profile that the policy admits: no field of the other profile, nothing    *)
(* missing, and the right audience (no fallback, no cross-acceptance, no     *)
(* downgrade in verify_request_dispatch).                                    *)
AcceptsOnlyOneProfile ==
    verdict = "ok" =>
        /\ msg.top = "object" /\ msg.jcs /\ msg.audience /\ msg.signature_block
        /\ msg.on_behalf_of = "ok" /\ msg.shape = "ok"
        /\ \/ /\ msg.version = "draft-02"
              /\ msg.canonicalization_id = "allowed" /\ msg.authorization_binding = "ok"
              /\ msg.authorization_hash = "absent"
           \/ /\ msg.version = "draft-01" /\ policy = "draft-01-and-draft-02"
              /\ msg.authorization_hash = "ok"
              /\ msg.canonicalization_id = "absent" /\ msg.authorization_binding = "absent"

(* A draft-01 envelope without authorization_hash is reported as exactly     *)
(* that, whatever other required field is missing or malformed with it; the  *)
(* wording of the deserializer plays no part (classify_request_envelope_error).*)
AbsentHashHasItsToken ==
    /\ step = "done" /\ msg.version = "draft-01" /\ policy = "draft-01-and-draft-02"
    /\ msg.top = "object" /\ msg.jcs /\ msg.shape # "unknown"
    /\ msg.authorization_hash = "absent"
    => verdict = "AuthorizationHashMissing"

(* The verdicts of the pipeline: what is accepted belongs to one profile     *)
(* only, and a draft-01 message without its hash has a token of its own.     *)
PipelineIsExact == AcceptsOnlyOneProfile /\ AbsentHashHasItsToken

(* The canonical step order of the Core Spec: a message outside the JCS-safe *)
(* domain (step 3) is reported as that before its envelope is looked for     *)
(* (step 4) or its version compared (step 6).                                *)
CanonicalStepOrder ==
    step = "done" /\ msg.top = "object" /\ ~msg.jcs => verdict = "CanonicalizationFailed"
=============================================================================
