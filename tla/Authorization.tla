----------------------------- MODULE Authorization -----------------------------
(***************************************************************************)
(* What mcps-policy decides of a request that Core has verified: the       *)
(* evaluator that picks the profile and checks that the artifact carried   *)
(* is the one bound, and the reference profile that reads a signed grant.  *)
(* Artifact bytes are <<>> (not canonical JSON of a grant) or <<grant>>; a *)
(* hash stands for what it digests, a signature names its key and its      *)
(* preimage.  Times are seconds; a negative one does not parse.             *)
(* Arguments are <<>> (absent), <<"other">> (not an object) or             *)
(* <<"object", f>>, f from member names to values.                         *)
(***************************************************************************)
EXTENDS Integers, Sequences, FiniteSets, Functions

ReferenceProfileId == "reference"
Ed25519Alg == "ed25519"

Deny(token) == <<"deny", token>>
Allow == <<"allow">>

(* The first check that fails gives its token; none, Allow.                *)
FirstDenial(checks) ==
    LET failing == {i \in DOMAIN checks : ~checks[i][1]}
    IN  IF failing = {} THEN Allow
        ELSE Deny(checks[CHOOSE i \in failing : \A j \in failing : i <= j][2])

-----------------------------------------------------------------------------
(* Grants.                                                                 *)

IssuerPreimage(grant) ==
    [f \in DOMAIN grant |-> IF f = "signature" THEN [alg |-> grant.signature.alg, key_id |-> grant.signature.key_id]
                            ELSE grant[f]]

HasEmptyTarget(operations) == \E i \in DOMAIN operations : operations[i].tool = ""

(* mint_reference_grant: the artifact's bytes, or none for an empty target. *)
MintReferenceGrant(spec, key, key_id) ==
    LET unsigned == [f \in DOMAIN spec \cup {"signature"} |->
                        IF f = "signature" THEN [alg |-> Ed25519Alg, key_id |-> key_id] ELSE spec[f]]
    IN  IF HasEmptyTarget(spec.grants) THEN <<>>
        ELSE <<[unsigned EXCEPT !.signature =
                    [alg |-> Ed25519Alg, key_id |-> key_id, value |-> [by |-> key, over |-> unsigned]]]>>

(* trust maps <<issuer, key_id>> to a key, where it resolves.              *)
VerifyIssuerSignature(grant, trust) ==
    /\ grant.signature.alg = Ed25519Alg
    /\ <<grant.issuer, grant.signature.key_id>> \in DOMAIN trust
    /\ grant.signature.value = [by |-> trust[<<grant.issuer, grant.signature.key_id>>],
                                over |-> IssuerPreimage(grant)]

CheckWindow(grant, now) == now >= grant.not_before /\ now <= grant.expires_at

ArgumentsSatisfied_AnyKey(constraint, actual) ==
    \/ constraint = <<>>
    \/ /\ constraint[1] = "object" /\ actual # <<>> /\ actual[1] = "object"
       /\ \E k \in DOMAIN constraint[2] :
             k \in DOMAIN actual[2] /\ actual[2][k] = constraint[2][k]

ArgumentsSatisfied(constraint, actual) ==
    \/ constraint = <<>>
    \/ /\ constraint[1] = "object"
       /\ LET given == IF actual # <<>> /\ actual[1] = "object" THEN actual[2] ELSE [k \in {} |-> 0]
          IN  \A k \in DOMAIN constraint[2] :
                 k \in DOMAIN given /\ given[k] = constraint[2][k]

(* The member of params that names the target, by method; none for others. *)
TargetKey(method) ==
    CASE method \in {"tools/call", "prompts/get"} -> {"name"}
      [] method = "resources/read" -> {"uri"}
      [] OTHER -> {}

CheckScope(grant, request) ==
    \E k \in TargetKey(request.method) \cap DOMAIN request.targets :
        \E i \in DOMAIN grant.grants :
            /\ grant.grants[i].method = request.method
            /\ grant.grants[i].tool = request.targets[k]
            /\ ArgumentsSatisfied(grant.grants[i].arguments, request.arguments)

(* ReferenceProfile::authorize.  revocation maps an id to what the source  *)
(* says of it.                                                             *)
Authorize(bytes, verified, request, trust, revocation, now) ==
    IF bytes = <<>> THEN Deny("malformed")
    ELSE LET grant == bytes[1]
             dated == grant.not_before >= 0 /\ grant.expires_at >= 0
         IN  FirstDenial(<<
                <<VerifyIssuerSignature(grant, trust), "signature_invalid">>,
                <<grant.grantee = verified.verified_signer, "signer_mismatch">>,
                <<grant.subject = verified.on_behalf_of, "subject_mismatch">>,
                <<grant.audience = verified.audience, "audience_mismatch">>,
                <<dated, "malformed">>,
                <<dated => CheckWindow(grant, now), "expired">>,
                <<revocation[grant.revocation_id] # "revoked", "revoked">>,
                <<revocation[grant.revocation_id] # "unavailable", "revocation_unavailable">>,
                <<~HasEmptyTarget(grant.grants), "malformed">>,
                <<CheckScope(grant, request), "scope_denied">> >>)

-----------------------------------------------------------------------------
(* The evaluator.                                                          *)

HashId(bytes) == <<"sha256:", bytes>>

(* A block is <<>> (absent), <<"other">> (misshapen) or                    *)
(* <<"block", profile, decodes, bytes>>.  bound is the hash identifier     *)
(* that the request's signature covers.                                    *)
EvaluateArtifactBinding(profiles, request, verified, trust, revocation, now, bound) ==
    LET block == request.block
    IN  CASE block = <<>> -> Deny("block_missing")
          [] block # <<>> /\ block[1] = "other" -> Deny("malformed")
          [] OTHER ->
             IF block[2] \notin profiles THEN Deny("profile_unsupported")
             ELSE IF ~block[3] \/ block[4] = <<>> THEN Deny("malformed")
             ELSE IF HashId(block[4]) # bound THEN Deny("hash_mismatch")
             ELSE Authorize(block[4], verified, request, trust, revocation, now)

(* PolicyEvaluator::evaluate.  Draft 01 binds the whole identifier, draft  *)
(* 02 the digest without its prefix; a reference goes to the resolver      *)
(* registered for its system.                                              *)
Evaluate(evaluator, verified, request, trust, revocation, now) ==
    LET evidence == verified.authorization
        Judged(bound) == EvaluateArtifactBinding(evaluator.profiles, request, verified,
                                                 trust, revocation, now, bound)
    IN  CASE evidence[1] = "draft01" -> Judged(evidence[2])
          [] evidence[1] = "opaque" -> Judged(HashId(evidence[2]))
          [] evidence[1] = "reference" ->
             IF evidence[2] \in DOMAIN evaluator.resolvers THEN evaluator.resolvers[evidence[2]]
             ELSE Deny("binding_profile_required")

-----------------------------------------------------------------------------

(* Only what was granted counts.  When an artifact allows a request, some  *)
(* trusted issuer's key signed exactly the claims it carries, and they are *)
(* the ones the request's own signature binds, whichever draft it speaks   *)
(* (evaluator.rs:160-182, reference.rs:195-228).                           *)
OnlyTheBoundGrantCounts(evaluator, verified, request, trust, revocation, now) ==
    /\ verified.authorization[1] # "reference"
    /\ Evaluate(evaluator, verified, request, trust, revocation, now) = Allow
    => /\ verified.authorization[2] \in {HashId(request.block[4]), request.block[4]}
       /\ LET grant == request.block[4][1]
              spec == [f \in DOMAIN grant \ {"signature"} |-> grant[f]]
          IN  \E signer \in DOMAIN trust :
                /\ signer[1] = grant.issuer
                /\ request.block[4] = MintReferenceGrant(spec, trust[signer], signer[2])

(* A narrower grant allows no more.  Take from a grant an operation, or    *)
(* add to one of its operations a constraint on another argument, and what *)
(* it still allows the first grant allowed too (reference.rs:257-302).     *)
NarrowingNeverWidens(spec, key, key_id, operation, member, value, verified, request, trust, revocation, now) ==
    LET Bind(s) == LET bytes == MintReferenceGrant(s, key, key_id)
                   IN  Evaluate([profiles |-> {ReferenceProfileId}, resolvers |-> [x \in {} |-> Allow]],
                                [verified EXCEPT !.authorization = <<"opaque", bytes>>],
                                [request EXCEPT !.block = <<"block", ReferenceProfileId, TRUE, bytes>>],
                                trust, revocation, now)
        op == spec.grants[operation]
        base == IF op.arguments = <<>> THEN [k \in {} |-> 0] ELSE op.arguments[2]
        more == [k \in DOMAIN base \cup {member} |-> IF k \in DOMAIN base THEN base[k] ELSE value]
    IN  /\ Bind([spec EXCEPT !.grants[operation].arguments = <<"object", more>>]) = Allow
           => Bind(spec) = Allow
        /\ Bind([spec EXCEPT !.grants = <<op>>]) = Allow => Bind(spec) = Allow
=============================================================================
