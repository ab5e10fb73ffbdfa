--------------------------- MODULE ExchangeProofs ----------------------------
(***************************************************************************)
(* Theorems about one exchange.  The verification pipeline, for every      *)
(* message and every policy: what it accepts is a request of one profile   *)
(* that passes every check of it.  The client's verdict on a response, and *)
(* what it learns of a server: only a verified exchange proves support.    *)
(***************************************************************************)
EXTENDS RequestPipeline, Discovery, WellFoundedInduction, TLAPS

(* Zenon proves most of the steps; those that need arithmetic say SMT.     *)
USE Zenon

-----------------------------------------------------------------------------
(* Chains of checks                                                        *)

(* A set of naturals that has an element has a least one.                  *)
LEMMA LeastExists ==
    ASSUME NEW S \in SUBSET Nat, S # {}
    PROVE  \E i \in S : \A j \in S : i <= j
<1>1. PICK i \in S : \A j \in S : ~(<<j, i>> \in OpToRel(<, Nat))
  BY NatLessThanWellFounded, WFMin
<1>2. \A j \in S : ~(j < i)
  BY <1>1 DEF OpToRel
<1> QED
  BY <1>2, SMT

(* A chain of checks passes, or one that fails gives its error.            *)
LEMMA ChainEnds ==
    ASSUME NEW checks, DOMAIN checks \subseteq Nat
    PROVE  \/ FirstFailure(checks) = "ok" /\ \A i \in DOMAIN checks : checks[i].passes
           \/ \E i \in DOMAIN checks : ~checks[i].passes /\ FirstFailure(checks) = checks[i].error
<1> DEFINE failing == {i \in DOMAIN checks : ~checks[i].passes}
<1>1. CASE failing = {}
  BY <1>1 DEF FirstFailure
<1>2. CASE failing # {}
  <2> DEFINE first == CHOOSE i \in failing : \A j \in failing : i <= j
  <2>1. failing \in SUBSET Nat
    OBVIOUS
  <2>2. first \in failing
    BY <1>2, <2>1, LeastExists
  <2>3. FirstFailure(checks) = checks[first].error
    BY <1>2 DEF FirstFailure
  <2> QED
    BY <2>2, <2>3
<1> QED
  BY <1>1, <1>2

(* A chain of which every failing check has an error, and that returns     *)
(* "ok", has none that fails.                                              *)
LEMMA ChainPasses ==
    ASSUME NEW checks, DOMAIN checks \subseteq Nat, FirstFailure(checks) = "ok",
           \A i \in DOMAIN checks : ~checks[i].passes => checks[i].error # "ok"
    PROVE  \A i \in DOMAIN checks : checks[i].passes
  BY ChainEnds

(* A chain returns the error of a failing check that only passing ones     *)
(* precede.                                                                *)
LEMMA ChainFailsAt ==
    ASSUME NEW checks, DOMAIN checks \subseteq Nat, NEW i \in DOMAIN checks, ~checks[i].passes,
           \A j \in DOMAIN checks : j < i => checks[j].passes
    PROVE  FirstFailure(checks) = checks[i].error
<1> DEFINE failing == {j \in DOMAIN checks : ~checks[j].passes}
           first == CHOOSE k \in failing : \A j \in failing : k <= j
<1>1. failing \in SUBSET Nat /\ i \in failing
  OBVIOUS
<1>2. first \in failing /\ first <= i
  BY <1>1, LeastExists
<1>3. ~(first < i) /\ first \in Nat /\ i \in Nat
  BY <1>1, <1>2
<1>4. first = i
  BY <1>2, <1>3, SMT
<1>5. FirstFailure(checks) = checks[first].error
  BY <1>1 DEF FirstFailure
<1> QED
  BY <1>4, <1>5

(* The error of a check.                                                   *)
LEMMA CheckError == \A p, e : Check(p, e).error = e
  BY DEF Check

(* A check whose error is its result.                                      *)
LEMMA ResultFields == \A x : Result(x).error = x /\ (Result(x).passes <=> x = "ok")
  BY DEF Result, Check

-----------------------------------------------------------------------------
(* RequestPipeline                                                         *)

(* When the checks that every profile makes pass.                          *)
LEMMA CheckPasses ==
    ASSUME NEW m, NEW p
    PROVE  /\ Check(m.top # "unparsable", "CanonicalizationFailed").passes <=> m.top # "unparsable"
           /\ Check(m.top # "array", "BatchForbidden").passes <=> m.top # "array"
           /\ Check(m.top # "noId", "NotificationForbidden").passes <=> m.top # "noId"
           /\ Check(m.envelope, "MissingEnvelope").passes <=> m.envelope
           /\ Check(m.version \in {"draft-01", "draft-02"}, "UnsupportedVersion").passes
                <=> m.version \in {"draft-01", "draft-02"}
           /\ Check(Admits(p, m.version), "DowngradeForbidden").passes <=> Admits(p, m.version)
           /\ Check(m.jcs, "CanonicalizationFailed").passes <=> m.jcs
           /\ Check(m.authorization_hash # "malformed", "AuthorizationHashMissing").passes
                <=> m.authorization_hash # "malformed"
           /\ CheckOnBehalfOf(m).passes <=> m.on_behalf_of # "empty"
           /\ CheckSignatureBlock(m).passes <=> m.signature_block
           /\ CheckAudience(m).passes <=> m.audience
  BY DEF Check, CheckOnBehalfOf, CheckSignatureBlock, CheckAudience

(* What selects the profile passes exactly the objects with an envelope of *)
(* a version that the policy admits (verify_request_dispatch).             *)
Selector(m, p) ==
    StructuralRejects(m)
    \o << Check(m.envelope, "MissingEnvelope"),
          Check(m.version \in {"draft-01", "draft-02"}, "UnsupportedVersion"),
          Check(Admits(p, m.version), "DowngradeForbidden") >>

LEMMA SelectorFacts ==
    ASSUME NEW m \in Message, NEW p
    PROVE  FirstFailure(Selector(m, p)) = "ok" <=>
             /\ m.top = "object" /\ m.envelope /\ m.version \in {"draft-01", "draft-02"}
             /\ Admits(p, m.version)
<1> DEFINE s == Selector(m, p)
<1>1. /\ DOMAIN s = 1 .. 6
      /\ s[1] = Check(m.top # "unparsable", "CanonicalizationFailed")
      /\ s[2] = Check(m.top # "array", "BatchForbidden")
      /\ s[3] = Check(m.top # "noId", "NotificationForbidden")
      /\ s[4] = Check(m.envelope, "MissingEnvelope")
      /\ s[5] = Check(m.version \in {"draft-01", "draft-02"}, "UnsupportedVersion")
      /\ s[6] = Check(Admits(p, m.version), "DowngradeForbidden")
  BY SMT DEF Selector, StructuralRejects
<1> HIDE DEF s
<1>2. /\ s[1].passes <=> m.top # "unparsable"
      /\ s[2].passes <=> m.top # "array"
      /\ s[3].passes <=> m.top # "noId"
      /\ s[4].passes <=> m.envelope
      /\ s[5].passes <=> m.version \in {"draft-01", "draft-02"}
      /\ s[6].passes <=> Admits(p, m.version)
  <2>1. s[1].passes <=> m.top # "unparsable"
    BY <1>1, CheckPasses
  <2>2. s[2].passes <=> m.top # "array"
    BY <1>1, CheckPasses
  <2>3. s[3].passes <=> m.top # "noId"
    BY <1>1, CheckPasses
  <2>4. s[4].passes <=> m.envelope
    BY <1>1, CheckPasses
  <2>5. s[5].passes <=> m.version \in {"draft-01", "draft-02"}
    BY <1>1, CheckPasses
  <2>6. s[6].passes <=> Admits(p, m.version)
    BY <1>1, CheckPasses
  <2> QED
    BY <2>1, <2>2, <2>3, <2>4, <2>5, <2>6
<1>3. \A i \in 1 .. 6 : s[i].error # "ok"
  <2>1. /\ s[1].error # "ok" /\ s[2].error # "ok" /\ s[3].error # "ok"
        /\ s[4].error # "ok" /\ s[5].error # "ok" /\ s[6].error # "ok"
    <3>1. s[1].error # "ok"
      BY <1>1, CheckError, SMT
    <3>2. s[2].error # "ok"
      BY <1>1, CheckError, SMT
    <3>3. s[3].error # "ok"
      BY <1>1, CheckError, SMT
    <3>4. s[4].error # "ok"
      BY <1>1, CheckError, SMT
    <3>5. s[5].error # "ok"
      BY <1>1, CheckError, SMT
    <3>6. s[6].error # "ok"
      BY <1>1, CheckError, SMT
    <3> QED
      BY <3>1, <3>2, <3>3, <3>4, <3>5, <3>6
  <2>2. \A i \in 1 .. 6 : i \in {1, 2, 3, 4, 5, 6}
    BY SMT
  <2> QED
    BY <2>1, <2>2
<1>4. FirstFailure(s) = "ok" <=> \A i \in 1 .. 6 : s[i].passes
  <2>1. DOMAIN s \subseteq Nat
    BY <1>1, SMT
  <2> QED
    BY <1>1, <1>3, <2>1, ChainEnds
<1>5. (\A i \in 1 .. 6 : s[i].passes)
        <=> s[1].passes /\ s[2].passes /\ s[3].passes /\ s[4].passes /\ s[5].passes /\ s[6].passes
  BY SMT
<1>6. m.top \in {"unparsable", "array", "noId", "object"}
  BY DEF Message
<1> QED
  BY <1>2, <1>4, <1>5, <1>6 DEF s

(* A draft-01 request that passes steps 1 to 8 is whole and has nothing of *)
(* the other profile (verify_request).                                     *)
LEMMA Draft01Facts ==
    ASSUME NEW m \in Message, Plausible(m), m.version = "draft-01"
    PROVE  /\ VerifyRequest(m) = "ok" =>
                /\ m.jcs /\ m.audience /\ m.signature_block
                /\ m.on_behalf_of = "ok" /\ m.shape = "ok" /\ m.authorization_hash = "ok"
                /\ m.canonicalization_id = "absent" /\ m.authorization_binding = "absent"
           /\ m.top = "object" /\ m.jcs /\ m.shape # "unknown" /\ m.authorization_hash = "absent"
                => VerifyRequest(m) = "AuthorizationHashMissing"
<1> DEFINE read == DeserializeEnvelope(m, {"version", "authorization_hash", "on_behalf_of"})
           c == StructuralRejects(m)
                \o << Check(m.jcs, "CanonicalizationFailed") >>
                \o ExtractRequestEnvelope(m)
                \o << Check(m.authorization_hash # "malformed", "AuthorizationHashMissing"),
                      CheckOnBehalfOf(m), CheckSignatureBlock(m), CheckAudience(m) >>
<1>1. /\ DOMAIN c = 1 .. 11
      /\ c[1] = Check(m.top # "unparsable", "CanonicalizationFailed")
      /\ c[2] = Check(m.top # "array", "BatchForbidden")
      /\ c[3] = Check(m.top # "noId", "NotificationForbidden")
      /\ c[4] = Check(m.jcs, "CanonicalizationFailed")
      /\ c[5] = Check(m.envelope, "MissingEnvelope")
      /\ c[6] = Result(ClassifyRequestEnvelopeError(m, read))
      /\ c[7] = Check(m.version = "draft-01", "UnsupportedVersion")
      /\ c[8] = Check(m.authorization_hash # "malformed", "AuthorizationHashMissing")
      /\ c[9] = CheckOnBehalfOf(m) /\ c[10] = CheckSignatureBlock(m) /\ c[11] = CheckAudience(m)
  BY SMT DEF StructuralRejects, ExtractRequestEnvelope
<1>2. VerifyRequest(m) = FirstFailure(c)
  BY DEF VerifyRequest
<1>3. /\ read \in {"ok", "UnknownEnvelopeField", "CanonicalizationFailed"}
      /\ read = "ok" => m.shape # "unknown" /\ m.shape # "malformed"
                        /\ m.authorization_hash # "absent" /\ m.on_behalf_of # "absent"
      /\ m.shape # "unknown" /\ m.authorization_hash = "absent" => read = "CanonicalizationFailed"
  <2>1. (\E f \in {"version", "authorization_hash", "on_behalf_of"} : m[f] = "absent")
          <=> m.version = "absent" \/ m.authorization_hash = "absent" \/ m.on_behalf_of = "absent"
    BY SMT DEF Message
  <2> QED
    BY <2>1 DEF DeserializeEnvelope
<1> HIDE DEF c, read
<1>4. /\ c[1].passes <=> m.top # "unparsable"
      /\ c[2].passes <=> m.top # "array"
      /\ c[3].passes <=> m.top # "noId"
      /\ c[4].passes <=> m.jcs
      /\ c[5].passes <=> m.envelope
      /\ c[8].passes <=> m.authorization_hash # "malformed"
      /\ c[9].passes <=> m.on_behalf_of # "empty"
      /\ c[10].passes <=> m.signature_block
      /\ c[11].passes <=> m.audience
  <2>1. c[1].passes <=> m.top # "unparsable"
    BY <1>1, CheckPasses
  <2>2. c[2].passes <=> m.top # "array"
    BY <1>1, CheckPasses
  <2>3. c[3].passes <=> m.top # "noId"
    BY <1>1, CheckPasses
  <2>4. c[4].passes <=> m.jcs
    BY <1>1, CheckPasses
  <2>5. c[5].passes <=> m.envelope
    BY <1>1, CheckPasses
  <2>6. c[8].passes <=> m.authorization_hash # "malformed"
    BY <1>1, CheckPasses
  <2>7. c[9].passes <=> m.on_behalf_of # "empty"
    <3>1. c[9] = CheckOnBehalfOf(m)
      BY <1>1
    <3> QED
      BY <3>1, CheckPasses
  <2>8. c[10].passes <=> m.signature_block
    <3>1. c[10] = CheckSignatureBlock(m)
      BY <1>1
    <3> QED
      BY <3>1, CheckPasses
  <2>9. c[11].passes <=> m.audience
    <3>1. c[11] = CheckAudience(m)
      BY <1>1
    <3> QED
      BY <3>1, CheckPasses
  <2> QED
    BY <2>1, <2>2, <2>3, <2>4, <2>5, <2>6, <2>7, <2>8, <2>9
<1>5. c[6].error = ClassifyRequestEnvelopeError(m, read)
      /\ (c[6].passes <=> ClassifyRequestEnvelopeError(m, read) = "ok")
  BY <1>1, ResultFields
<1>6. ClassifyRequestEnvelopeError(m, read) = "ok" <=> read = "ok"
  BY <1>3 DEF ClassifyRequestEnvelopeError
<1>7. DOMAIN c \subseteq Nat
  BY <1>1, SMT
<1>8. m.shape \in {"ok", "unknown", "malformed"} /\ m.authorization_hash \in {"absent", "malformed", "ok"}
      /\ m.on_behalf_of \in {"absent", "empty", "ok"}
  BY DEF Message
<1>9. ASSUME FirstFailure(c) = "ok"
      PROVE  /\ m.jcs /\ m.audience /\ m.signature_block
             /\ m.on_behalf_of = "ok" /\ m.shape = "ok" /\ m.authorization_hash = "ok"
             /\ m.canonicalization_id = "absent" /\ m.authorization_binding = "absent"
  <2>1. /\ c[1].error # "ok" /\ c[2].error # "ok" /\ c[3].error # "ok" /\ c[4].error # "ok"
        /\ c[5].error # "ok" /\ c[7].error # "ok" /\ c[8].error # "ok" /\ c[9].error # "ok"
        /\ c[10].error # "ok" /\ c[11].error # "ok" /\ (~c[6].passes => c[6].error # "ok")
    <3>1. c[1].error # "ok"
      BY <1>1, CheckError, SMT DEF CheckOnBehalfOf, CheckSignatureBlock, CheckAudience
    <3>2. c[2].error # "ok"
      BY <1>1, CheckError, SMT DEF CheckOnBehalfOf, CheckSignatureBlock, CheckAudience
    <3>3. c[3].error # "ok"
      BY <1>1, CheckError, SMT DEF CheckOnBehalfOf, CheckSignatureBlock, CheckAudience
    <3>4. c[4].error # "ok"
      BY <1>1, CheckError, SMT DEF CheckOnBehalfOf, CheckSignatureBlock, CheckAudience
    <3>5. c[5].error # "ok"
      BY <1>1, CheckError, SMT DEF CheckOnBehalfOf, CheckSignatureBlock, CheckAudience
    <3>6. c[7].error # "ok"
      BY <1>1, CheckError, SMT DEF CheckOnBehalfOf, CheckSignatureBlock, CheckAudience
    <3>7. c[8].error # "ok"
      BY <1>1, CheckError, SMT DEF CheckOnBehalfOf, CheckSignatureBlock, CheckAudience
    <3>8. c[9].error # "ok"
      BY <1>1, CheckError, SMT DEF CheckOnBehalfOf, CheckSignatureBlock, CheckAudience
    <3>9. c[10].error # "ok"
      BY <1>1, CheckError, SMT DEF CheckOnBehalfOf, CheckSignatureBlock, CheckAudience
    <3>10. c[11].error # "ok"
      BY <1>1, CheckError, SMT DEF CheckOnBehalfOf, CheckSignatureBlock, CheckAudience
    <3>11. (~c[6].passes => c[6].error # "ok")
      BY <1>5
    <3> QED
      BY <3>1, <3>2, <3>3, <3>4, <3>5, <3>6, <3>7, <3>8, <3>9, <3>10, <3>11
  <2>2. \A i \in 1 .. 11 : i \in {1, 2, 3, 4, 5, 6, 7, 8, 9, 10, 11}
    BY SMT
  <2>3. \A i \in DOMAIN c : c[i].passes
    <3>1. \A i \in DOMAIN c : ~c[i].passes => c[i].error # "ok"
      BY <1>1, <2>1, <2>2
    <3> QED
      BY <1>7, <1>9, <3>1, ChainPasses
  <2>4. 4 \in 1 .. 11 /\ 6 \in 1 .. 11 /\ 8 \in 1 .. 11 /\ 9 \in 1 .. 11 /\ 10 \in 1 .. 11 /\ 11 \in 1 .. 11
    BY SMT
  <2>5. /\ m.jcs /\ m.audience /\ m.signature_block /\ read = "ok"
        /\ m.authorization_hash # "malformed" /\ m.on_behalf_of # "empty"
    BY <1>1, <1>4, <1>5, <1>6, <2>3, <2>4
  <2>6. m.on_behalf_of = "ok" /\ m.shape = "ok" /\ m.authorization_hash = "ok"
    BY <1>3, <1>8, <2>5
  <2>7. m.canonicalization_id = "absent" /\ m.authorization_binding = "absent"
    BY <2>6 DEF Plausible, HasForeignField
  <2> QED
    BY <2>5, <2>6, <2>7
<1>10. ASSUME m.top = "object", m.jcs, m.shape # "unknown", m.authorization_hash = "absent"
       PROVE  FirstFailure(c) = "AuthorizationHashMissing"
  <2>1. m.envelope
    BY DEF Plausible
  <2>2. ClassifyRequestEnvelopeError(m, read) = "AuthorizationHashMissing"
    BY <1>3, <1>10 DEF ClassifyRequestEnvelopeError
  <2>3. c[1].passes /\ c[2].passes /\ c[3].passes /\ c[4].passes /\ c[5].passes /\ ~c[6].passes
    BY <1>4, <1>5, <1>10, <2>1, <2>2
  <2>4. \A j \in 1 .. 11 : j < 6 => j \in {1, 2, 3, 4, 5}
    BY SMT
  <2>5. \A j \in DOMAIN c : j < 6 => c[j].passes
    BY <1>1, <2>3, <2>4
  <2>6. 6 \in DOMAIN c
    BY <1>1, SMT
  <2>7. FirstFailure(c) = c[6].error
    BY <1>7, <2>3, <2>5, <2>6, ChainFailsAt
  <2> QED
    BY <1>5, <2>2, <2>7
<1> QED
  BY <1>2, <1>9, <1>10

(* The same of draft-02 (verify_request_draft02).                          *)
LEMMA Draft02Facts ==
    ASSUME NEW m \in Message, Plausible(m), m.version = "draft-02", VerifyRequestDraft02(m) = "ok"
    PROVE  /\ m.jcs /\ m.audience /\ m.signature_block
           /\ m.on_behalf_of = "ok" /\ m.shape = "ok" /\ m.authorization_hash = "absent"
           /\ m.canonicalization_id = "allowed" /\ m.authorization_binding = "ok"
<1> DEFINE read == DeserializeEnvelope(m, {"on_behalf_of"})
           c == StructuralRejects(m)
                \o << Check(m.jcs, "CanonicalizationFailed") >>
                \o ExtractDraft02RequestEnvelope(m)
                \o << CheckOnBehalfOf(m), CheckSignatureBlock(m), CheckAudience(m) >>
<1>1. /\ DOMAIN c = 1 .. 12
      /\ c[1] = Check(m.top # "unparsable", "CanonicalizationFailed")
      /\ c[2] = Check(m.top # "array", "BatchForbidden")
      /\ c[3] = Check(m.top # "noId", "NotificationForbidden")
      /\ c[4] = Check(m.jcs, "CanonicalizationFailed")
      /\ c[5] = Check(m.envelope, "MissingEnvelope")
      /\ c[6] = Check(m.version = "draft-02", "UnsupportedVersion")
      /\ c[7] = Result(ClassifyCanonicalizationId(m))
      /\ c[8] = Result(CheckAuthorizationBinding(m))
      /\ c[9] = Result(ClassifyDraft02Error(m, read))
      /\ c[10] = CheckOnBehalfOf(m) /\ c[11] = CheckSignatureBlock(m) /\ c[12] = CheckAudience(m)
  BY SMT DEF StructuralRejects, ExtractDraft02RequestEnvelope
<1>2. FirstFailure(c) = "ok"
  BY DEF VerifyRequestDraft02
<1>3. read \in {"ok", "UnknownEnvelopeField", "CanonicalizationFailed"}
      /\ (read = "ok" => m.shape # "unknown" /\ m.shape # "malformed" /\ m.on_behalf_of # "absent")
  <2>1. (\E f \in {"on_behalf_of"} : m[f] = "absent") <=> m.on_behalf_of = "absent"
    BY SMT DEF Message
  <2> QED
    BY <2>1 DEF DeserializeEnvelope
<1> HIDE DEF c, read
<1>4. /\ c[4].passes <=> m.jcs
      /\ c[10].passes <=> m.on_behalf_of # "empty"
      /\ c[11].passes <=> m.signature_block
      /\ c[12].passes <=> m.audience
  <2>1. c[4].passes <=> m.jcs
    BY <1>1, CheckPasses
  <2>2. c[10].passes <=> m.on_behalf_of # "empty"
    <3>1. c[10] = CheckOnBehalfOf(m)
      BY <1>1
    <3> QED
      BY <3>1, CheckPasses
  <2>3. c[11].passes <=> m.signature_block
    <3>1. c[11] = CheckSignatureBlock(m)
      BY <1>1
    <3> QED
      BY <3>1, CheckPasses
  <2>4. c[12].passes <=> m.audience
    <3>1. c[12] = CheckAudience(m)
      BY <1>1
    <3> QED
      BY <3>1, CheckPasses
  <2> QED
    BY <2>1, <2>2, <2>3, <2>4
<1>5. /\ c[7].error = ClassifyCanonicalizationId(m) /\ (c[7].passes <=> ClassifyCanonicalizationId(m) = "ok")
      /\ c[8].error = CheckAuthorizationBinding(m) /\ (c[8].passes <=> CheckAuthorizationBinding(m) = "ok")
      /\ c[9].error = ClassifyDraft02Error(m, read) /\ (c[9].passes <=> ClassifyDraft02Error(m, read) = "ok")
  <2>1. c[7].error = ClassifyCanonicalizationId(m) /\ (c[7].passes <=> ClassifyCanonicalizationId(m) = "ok")
    BY <1>1, ResultFields
  <2>2. c[8].error = CheckAuthorizationBinding(m) /\ (c[8].passes <=> CheckAuthorizationBinding(m) = "ok")
    BY <1>1, ResultFields
  <2>3. c[9].error = ClassifyDraft02Error(m, read) /\ (c[9].passes <=> ClassifyDraft02Error(m, read) = "ok")
    BY <1>1, ResultFields
  <2> QED
    BY <2>1, <2>2, <2>3
<1>6. \A i \in DOMAIN c : c[i].passes
  <2>1. /\ c[1].error # "ok" /\ c[2].error # "ok" /\ c[3].error # "ok" /\ c[4].error # "ok"
        /\ c[5].error # "ok" /\ c[6].error # "ok"
        /\ c[10].error # "ok" /\ c[11].error # "ok" /\ c[12].error # "ok"
        /\ (~c[7].passes => c[7].error # "ok") /\ (~c[8].passes => c[8].error # "ok")
        /\ (~c[9].passes => c[9].error # "ok")
    <3>1. c[1].error # "ok"
      BY <1>1, CheckError, SMT DEF CheckOnBehalfOf, CheckSignatureBlock, CheckAudience
    <3>2. c[2].error # "ok"
      BY <1>1, CheckError, SMT DEF CheckOnBehalfOf, CheckSignatureBlock, CheckAudience
    <3>3. c[3].error # "ok"
      BY <1>1, CheckError, SMT DEF CheckOnBehalfOf, CheckSignatureBlock, CheckAudience
    <3>4. c[4].error # "ok"
      BY <1>1, CheckError, SMT DEF CheckOnBehalfOf, CheckSignatureBlock, CheckAudience
    <3>5. c[5].error # "ok"
      BY <1>1, CheckError, SMT DEF CheckOnBehalfOf, CheckSignatureBlock, CheckAudience
    <3>6. c[6].error # "ok"
      BY <1>1, CheckError, SMT DEF CheckOnBehalfOf, CheckSignatureBlock, CheckAudience
    <3>7. c[10].error # "ok"
      BY <1>1, CheckError, SMT DEF CheckOnBehalfOf, CheckSignatureBlock, CheckAudience
    <3>8. c[11].error # "ok"
      BY <1>1, CheckError, SMT DEF CheckOnBehalfOf, CheckSignatureBlock, CheckAudience
    <3>9. c[12].error # "ok"
      BY <1>1, CheckError, SMT DEF CheckOnBehalfOf, CheckSignatureBlock, CheckAudience
    <3>10. (~c[7].passes => c[7].error # "ok")
      BY <1>5
    <3>11. (~c[8].passes => c[8].error # "ok")
      BY <1>5
    <3>12. (~c[9].passes => c[9].error # "ok")
      BY <1>5
    <3> QED
      BY <3>1, <3>2, <3>3, <3>4, <3>5, <3>6, <3>7, <3>8, <3>9, <3>10, <3>11, <3>12
  <2>2. \A i \in 1 .. 12 : i \in {1, 2, 3, 4, 5, 6, 7, 8, 9, 10, 11, 12}
    BY SMT
  <2>3. \A i \in DOMAIN c : ~c[i].passes => c[i].error # "ok"
    BY <1>1, <2>1, <2>2
  <2>4. DOMAIN c \subseteq Nat
    BY <1>1, SMT
  <2> QED
    BY <1>2, <2>3, <2>4, ChainPasses
<1>7. /\ 4 \in 1 .. 12 /\ 7 \in 1 .. 12 /\ 8 \in 1 .. 12 /\ 9 \in 1 .. 12 /\ 10 \in 1 .. 12
      /\ 11 \in 1 .. 12 /\ 12 \in 1 .. 12
  BY SMT
<1>8. /\ m.jcs /\ m.audience /\ m.signature_block /\ m.on_behalf_of # "empty"
      /\ ClassifyCanonicalizationId(m) = "ok" /\ CheckAuthorizationBinding(m) = "ok"
      /\ ClassifyDraft02Error(m, read) = "ok"
  BY <1>1, <1>4, <1>5, <1>6, <1>7
<1>9. read = "ok"
  BY <1>3, <1>8 DEF ClassifyDraft02Error
<1>10. /\ m.shape \in {"ok", "unknown", "malformed"} /\ m.on_behalf_of \in {"absent", "empty", "ok"}
       /\ m.canonicalization_id \in {"absent", "allowed", "known", "unknown"}
       /\ m.authorization_binding \in {"absent", "malformed", "ambiguous", "unsupported", "ok"}
  BY DEF Message
<1>11. m.canonicalization_id = "allowed"
  BY <1>8, <1>10 DEF ClassifyCanonicalizationId
<1>12. m.authorization_binding = "ok"
  BY <1>8, <1>10 DEF CheckAuthorizationBinding
<1>13. m.on_behalf_of = "ok" /\ m.shape = "ok"
  BY <1>3, <1>8, <1>9, <1>10
<1>14. m.authorization_hash = "absent"
  BY <1>13 DEF Plausible, HasForeignField
<1> QED
  BY <1>8, <1>11, <1>12, <1>13, <1>14

(* What a message is worth is settled by its bytes and the policy: the     *)
(* verdict of the structural checks, or one of a party asked after them.   *)
PipelineInv ==
    /\ msg \in Message /\ Plausible(msg) /\ policy \in VersionPolicy
    /\ step = "structure" => verdict = "none"
    /\ step \in {"freshness", "resolve", "signature", "replay"} =>
         verdict = "none" /\ VerifyRequestDispatch(msg, policy) = "ok"
    /\ step = "done" =>
         VerifyRequestDispatch(msg, policy) = "ok" \/ verdict = VerifyRequestDispatch(msg, policy)
    /\ step \in {"structure", "freshness", "resolve", "signature", "replay", "done"}

(* One party's answer.                                                     *)
LEMMA AskStep ==
    ASSUME PipelineInv, NEW party \in {"freshness", "resolve", "signature", "replay"}, NEW errors,
           NEW next \in {"resolve", "signature", "replay", "done"}, Ask(party, errors, next)
    PROVE  PipelineInv'
<1>1. /\ msg' = msg /\ policy' = policy /\ VerifyRequestDispatch(msg, policy) = "ok" /\ verdict = "none"
      /\ step' = "done" \/ (step' = next /\ next # "done" /\ verdict' = verdict)
  BY DEF Ask, Return, PipelineInv
<1> QED
  BY <1>1 DEF PipelineInv

(* The verdicts, from what the invariant says of them.                     *)
LEMMA PipelineVerdicts == PipelineInv => PipelineIsExact
<1> SUFFICES ASSUME PipelineInv PROVE AcceptsOnlyOneProfile /\ AbsentHashHasItsToken
  BY DEF PipelineIsExact
<1> DEFINE structural == VerifyRequestDispatch(msg, policy)
<1>1. /\ msg \in Message /\ Plausible(msg) /\ policy \in VersionPolicy
      /\ msg.version \in {"absent", "draft-01", "draft-02", "other"}
  BY DEF PipelineInv, Message
<1>2. structural = IF FirstFailure(Selector(msg, policy)) # "ok" THEN FirstFailure(Selector(msg, policy))
                   ELSE IF msg.version = "draft-01" THEN VerifyRequest(msg)
                   ELSE VerifyRequestDraft02(msg)
  BY DEF VerifyRequestDispatch, Selector
<1> HIDE DEF structural
<1>3. AcceptsOnlyOneProfile
  <2> SUFFICES ASSUME verdict = "ok"
               PROVE  /\ msg.top = "object" /\ msg.jcs /\ msg.audience /\ msg.signature_block
                      /\ msg.on_behalf_of = "ok" /\ msg.shape = "ok"
                      /\ \/ /\ msg.version = "draft-02"
                            /\ msg.canonicalization_id = "allowed" /\ msg.authorization_binding = "ok"
                            /\ msg.authorization_hash = "absent"
                         \/ /\ msg.version = "draft-01" /\ policy = "draft-01-and-draft-02"
                            /\ msg.authorization_hash = "ok"
                            /\ msg.canonicalization_id = "absent" /\ msg.authorization_binding = "absent"
    BY DEF AcceptsOnlyOneProfile
  <2>1. structural = "ok"
    BY DEF PipelineInv, structural
  <2>2. /\ FirstFailure(Selector(msg, policy)) = "ok"
        /\ msg.version = "draft-01" => VerifyRequest(msg) = "ok"
        /\ msg.version # "draft-01" => VerifyRequestDraft02(msg) = "ok"
    BY <1>2, <2>1
  <2>3. msg.top = "object" /\ msg.version \in {"draft-01", "draft-02"} /\ Admits(policy, msg.version)
    BY <1>1, <2>2, SelectorFacts
  <2>4. CASE msg.version = "draft-01"
    <3>1. policy = "draft-01-and-draft-02"
      BY <2>3, <2>4 DEF Admits
    <3> QED
      BY <1>1, <2>2, <2>3, <2>4, <3>1, Draft01Facts
  <2>5. CASE msg.version = "draft-02"
    <3>1. VerifyRequestDraft02(msg) = "ok"
      BY <2>2, <2>5
    <3> QED
      BY <1>1, <2>3, <2>5, <3>1, Draft02Facts
  <2> QED
    BY <2>3, <2>4, <2>5
<1>4. AbsentHashHasItsToken
  <2> SUFFICES ASSUME step = "done", msg.version = "draft-01", policy = "draft-01-and-draft-02",
                      msg.top = "object", msg.jcs, msg.shape # "unknown", msg.authorization_hash = "absent"
               PROVE  verdict = "AuthorizationHashMissing"
    BY DEF AbsentHashHasItsToken
  <2>1. msg.envelope /\ Admits(policy, msg.version)
    BY <1>1 DEF Plausible, Admits
  <2>2. FirstFailure(Selector(msg, policy)) = "ok"
    BY <1>1, <2>1, SelectorFacts
  <2>3. structural = "AuthorizationHashMissing"
    BY <1>1, <1>2, <2>2, Draft01Facts
  <2> QED
    BY <2>3 DEF PipelineInv, structural
<1> QED
  BY <1>3, <1>4

(* For every message and policy: what the pipeline accepts is a request of *)
(* one profile that the policy admits, and a draft-01 message without its  *)
(* hash gets that token, whatever the outside parties answer.              *)
THEOREM PipelineVerdictsAreExact == PipelineSpec => []PipelineIsExact
<1>1. PipelineInit => PipelineInv
  BY DEF PipelineInit, PipelineInv
<1>2. PipelineInv /\ [PipelineNext]_pipelineVars => PipelineInv'
  <2> SUFFICES ASSUME PipelineInv, [PipelineNext]_pipelineVars PROVE PipelineInv'
    OBVIOUS
  <2>1. CASE Structure
    <3>1. /\ msg' = msg /\ policy' = policy /\ step = "structure"
          /\ \/ VerifyRequestDispatch(msg, policy) = "ok" /\ step' = "freshness" /\ verdict' = verdict
             \/ step' = "done" /\ verdict' = VerifyRequestDispatch(msg, policy)
      BY <2>1 DEF Structure, Return
    <3> QED
      BY <3>1 DEF PipelineInv
  <2>2. CASE Freshness
    BY <2>2, AskStep DEF Freshness
  <2>3. CASE Resolve
    BY <2>3, AskStep DEF Resolve
  <2>4. CASE Signature
    BY <2>4, AskStep DEF Signature
  <2>5. CASE Replay
    BY <2>5, AskStep DEF Replay
  <2>6. CASE UNCHANGED pipelineVars
    BY <2>6 DEF pipelineVars, PipelineInv
  <2> QED
    BY <2>1, <2>2, <2>3, <2>4, <2>5, <2>6 DEF PipelineNext
<1> QED
  BY <1>1, <1>2, PipelineVerdicts, PTL DEF PipelineSpec
-----------------------------------------------------------------------------
(* What verification says of a response                                    *)

(* The checks of a chain, as a set.                                        *)
In(chain) == {chain[i] : i \in DOMAIN chain}

(* The checks of a chain made of two are those of both.                    *)
LEMMA ChecksOfTwo ==
    ASSUME NEW T, NEW s \in Seq(T), NEW t \in Seq(T)
    PROVE  s \o t \in Seq(T) /\ DOMAIN (s \o t) \subseteq Nat /\ In(s \o t) = In(s) \cup In(t)
<1>1. /\ s \o t \in Seq(T) /\ Len(s \o t) = Len(s) + Len(t) /\ Len(s) \in Nat /\ Len(t) \in Nat
      /\ DOMAIN s = 1 .. Len(s) /\ DOMAIN t = 1 .. Len(t) /\ DOMAIN (s \o t) = 1 .. (Len(s) + Len(t))
  BY SMT
<1>2. \A i \in 1 .. (Len(s) + Len(t)) : (s \o t)[i] = IF i <= Len(s) THEN s[i] ELSE t[i - Len(s)]
  BY SMT
<1>3. ASSUME NEW i \in DOMAIN (s \o t)
      PROVE  (\E j \in DOMAIN s : (s \o t)[i] = s[j]) \/ (\E j \in DOMAIN t : (s \o t)[i] = t[j])
  <2>1. CASE i <= Len(s)
    BY <1>1, <1>2, <2>1, SMT
  <2>2. CASE ~(i <= Len(s))
    <3>1. i - Len(s) \in 1 .. Len(t)
      BY <1>1, <2>2, SMT
    <3> QED
      BY <1>1, <1>2, <2>2, <3>1
  <2> QED
    BY <2>1, <2>2
<1>4. \A j \in DOMAIN s : \E i \in DOMAIN (s \o t) : (s \o t)[i] = s[j]
  BY <1>1, <1>2, SMT
<1>5. \A j \in DOMAIN t : \E i \in DOMAIN (s \o t) : (s \o t)[i] = t[j]
  <2>1. \A j \in 1 .. Len(t) : j + Len(s) \in 1 .. (Len(s) + Len(t)) /\ (s \o t)[j + Len(s)] = t[j]
    BY <1>1, <1>2, SMT
  <2> QED
    BY <1>1, <2>1
<1>6. In(s \o t) = In(s) \cup In(t)
  <2>1. ASSUME NEW x \in In(s \o t) PROVE x \in In(s) \cup In(t)
    BY <1>3, <2>1 DEF In
  <2>2. ASSUME NEW x \in In(s) PROVE x \in In(s \o t)
    BY <1>4, <2>2 DEF In
  <2>3. ASSUME NEW x \in In(t) PROVE x \in In(s \o t)
    BY <1>5, <2>3 DEF In
  <2> QED
    BY <2>1, <2>2, <2>3
<1>7. DOMAIN (s \o t) \subseteq Nat
  BY <1>1, SMT
<1> QED
  BY <1>1, <1>6, <1>7

(* What a client can be sent, for requests with these hashes.              *)
Reply(hashes) ==
    [top : {"unparsable", "object"}, jcs : BOOLEAN, envelope : {"absent", "draft-01", "draft-02"},
     canonicalization_id : {"allowed", "known"}, shape : {"ok", "unknown"}, alg : {TRUE},
     key : {"trusted", "unknown", "unavailable"}, signature : {"bad", "good"},
     server_signer : ServerSigner, request_hash : hashes,
     content : SUBSET {"value", "inner_error", "field"}]

(* What a server signs for one of these requests is of this form.          *)
LEMMA SignedReply ==
    ASSUME NEW hashes, NEW h \in hashes, NEW g \in ServerSigner, NEW a \in InnerAnswer
    PROVE  BuildSignedResponse("draft-02", h, g, a) \in Reply(hashes)
<1> DEFINE content == BuildResult(a)
<1>1. content \in SUBSET {"value", "inner_error", "field"}
  <2>1. /\ a.kind \in {"object", "scalar", "error"}
        /\ a.kind = "object" => a.members \in SUBSET {"value", "inner_error", "field"}
    BY DEF InnerAnswer
  <2> QED
    BY <2>1 DEF BuildResult
<1> HIDE DEF content
<1>2. BuildResponseEnvelope("draft-02", h, g, content) \in Reply(hashes)
  BY <1>1 DEF BuildResponseEnvelope, Reply
<1> QED
  BY <1>2 DEF BuildSignedResponse, content

(* And so it is with one thing wrong.                                      *)
Flaws(r) ==
    {[r EXCEPT !.signature = "bad"], [r EXCEPT !.key = "unknown"],
     [r EXCEPT !.key = "unavailable"], [r EXCEPT !.shape = "unknown"],
     [r EXCEPT !.canonicalization_id = "known"], [r EXCEPT !.envelope = "draft-01"],
     [r EXCEPT !.top = "unparsable"], [r EXCEPT !.jcs = FALSE],
     [r EXCEPT !.envelope = "absent"]}

(* A flawed reply is a reply.                                              *)
LEMMA FlawedReply ==
    ASSUME NEW hashes, NEW r \in Reply(hashes)
    PROVE  Flaws(r) \subseteq Reply(hashes)
<1>1. [r EXCEPT !.signature = "bad"] \in Reply(hashes) /\ [r EXCEPT !.shape = "unknown"] \in Reply(hashes)
  BY DEF Reply
<1>2. [r EXCEPT !.key = "unknown"] \in Reply(hashes) /\ [r EXCEPT !.key = "unavailable"] \in Reply(hashes)
  BY DEF Reply
<1>3. /\ [r EXCEPT !.canonicalization_id = "known"] \in Reply(hashes)
      /\ [r EXCEPT !.top = "unparsable"] \in Reply(hashes)
  BY DEF Reply
<1>4. [r EXCEPT !.envelope = "draft-01"] \in Reply(hashes) /\ [r EXCEPT !.envelope = "absent"] \in Reply(hashes)
  BY DEF Reply
<1>5. [r EXCEPT !.jcs = FALSE] \in Reply(hashes)
  BY DEF Reply
<1> QED
  BY <1>1, <1>2, <1>3, <1>4, <1>5 DEF Flaws

(* A response passes verification only with a good signature of a trusted  *)
(* key over this very request, and is said to lack an envelope only when   *)
(* it does (verify_response_draft02).                                      *)
LEMMA VerdictFacts ==
    ASSUME NEW hashes, NEW r \in Reply(hashes), NEW h
    PROVE  /\ VerifyResponseDraft02(r, h) = "ok" =>
                /\ r.signature = "good" /\ r.key = "trusted" /\ r.request_hash = h
                /\ r.envelope = "draft-02"
           /\ VerifyResponseDraft02(r, h) = "MissingEnvelope" => r.envelope = "absent"
<1> DEFINE s1 == StructuralRejects(r)
           s2 == << Check(r.jcs, "CanonicalizationFailed") >>
           s3 == ExtractDraft02ResponseEnvelope(r)
           s4 == CheckResponseSignature(r)
           s5 == << Check(r.canonicalization_id = "allowed", "CanonicalizationIdMismatch"),
                    CheckRequestHash(r, h) >>
           T  == In(s1) \cup In(s2) \cup In(s3) \cup In(s4) \cup In(s5)
           chain == s1 \o s2 \o s3 \o s4 \o s5
<1>1. /\ s1 \in Seq(T) /\ s2 \in Seq(T) /\ s3 \in Seq(T) /\ s4 \in Seq(T) /\ s5 \in Seq(T)
  BY SMT DEF In, StructuralRejects, ExtractDraft02ResponseEnvelope, CheckResponseSignature
<1>2. /\ VerifyResponseDraft02(r, h) = FirstFailure(chain)
  BY DEF VerifyResponseDraft02
<1>3. /\ \A i \in DOMAIN s1 : ~s1[i].passes => s1[i].error \notin {"ok", "MissingEnvelope"}
      /\ \A i \in DOMAIN s2 : ~s2[i].passes => s2[i].error \notin {"ok", "MissingEnvelope"}
      /\ \A i \in DOMAIN s5 : ~s5[i].passes => s5[i].error \notin {"ok", "MissingEnvelope"}
  BY SMT DEF StructuralRejects, CheckRequestHash, Check
<1>4. \A i \in DOMAIN s3 : ~s3[i].passes => /\ s3[i].error # "ok"
                                            /\ s3[i].error = "MissingEnvelope" => r.envelope = "absent"
  <2>1. ClassifyCanonicalizationId(r) \in {"ok", "CanonicalizationIdNotAllowed"}
    BY DEF Reply, ClassifyCanonicalizationId
  <2>2. DeserializeResponse(r, "draft-02") \in {"ok", "UnknownEnvelopeField"}
    BY DEF Reply, DeserializeResponse
  <2> QED
    <3>1. /\ DOMAIN s3 = 1 .. 4 /\ s3[1] = Check(r.envelope # "absent", "MissingEnvelope")
          /\ s3[2] = Check(r.envelope = "draft-02", "UnsupportedVersion")
          /\ s3[3] = Result(ClassifyCanonicalizationId(r)) /\ s3[4] = Result(DeserializeResponse(r, "draft-02"))
      BY SMT DEF ExtractDraft02ResponseEnvelope
    <3>2. ~Check(r.envelope # "absent", "MissingEnvelope").passes => r.envelope = "absent"
      BY DEF Check
    <3>3. s3[1].error = "MissingEnvelope" /\ s3[2].error = "UnsupportedVersion"
      BY <3>1, CheckError, SMT
    <3>4. ~s3[1].passes => r.envelope = "absent"
      BY <3>1, <3>2
    <3>5. ~s3[3].passes => s3[3].error \notin {"ok", "MissingEnvelope"}
      BY <2>1, <3>1, ResultFields
    <3>6. ~s3[4].passes => s3[4].error \notin {"ok", "MissingEnvelope"}
      BY <2>2, <3>1, ResultFields
    <3> HIDE DEF s3
    <3> QED
      BY <3>1, <3>5, <3>6, <3>3, <3>4, SMT
<1>5. \A i \in DOMAIN s4 : ~s4[i].passes => s4[i].error \notin {"ok", "MissingEnvelope"}
  <2>1. ResolveServerKey(r) \in {"ok", "ActorBindingFailed", "TrustResolverUnavailable"}
    BY DEF Reply, ResolveServerKey
  <2> QED
    <3>1. /\ DOMAIN s4 = 1 .. 3 /\ s4[1] = Check(r.alg, "ResponseSigInvalid")
          /\ s4[2] = Result(ResolveServerKey(r)) /\ s4[3] = Check(r.signature = "good", "ResponseSigInvalid")
      BY SMT DEF CheckResponseSignature
    <3>2. s4[1].error = "ResponseSigInvalid" /\ s4[3].error = "ResponseSigInvalid"
      BY <3>1, CheckError, SMT
    <3>3. ~s4[2].passes => s4[2].error \notin {"ok", "MissingEnvelope"}
      BY <2>1, <3>1, ResultFields
    <3> HIDE DEF s4
    <3> QED
      BY <3>1, <3>2, <3>3, SMT
<1>6. (\A i \in DOMAIN s4 : s4[i].passes) => r.signature = "good" /\ r.key = "trusted"
  <2>1. ResolveServerKey(r) = "ok" => r.key = "trusted"
    BY DEF Reply, ResolveServerKey
  <2>2. 2 \in DOMAIN s4 /\ 3 \in DOMAIN s4 /\ s4[2] = Result(ResolveServerKey(r))
        /\ s4[3] = Check(r.signature = "good", "ResponseSigInvalid")
    BY SMT DEF CheckResponseSignature
  <2>3. /\ Result(ResolveServerKey(r)).passes => ResolveServerKey(r) = "ok"
        /\ Check(r.signature = "good", "ResponseSigInvalid").passes => r.signature = "good"
    BY DEF Check, Result
  <2> QED
    BY <2>1, <2>2, <2>3
<1>7. (\A i \in DOMAIN s5 : s5[i].passes) => r.request_hash = h
  <2>1. 2 \in DOMAIN s5 /\ s5[2] = CheckRequestHash(r, h)
    BY SMT
  <2>2. CheckRequestHash(r, h).passes => r.request_hash = h
    BY DEF Check, CheckRequestHash
  <2> QED
    BY <2>1, <2>2
<1>8. (\A i \in DOMAIN s3 : s3[i].passes) => r.envelope = "draft-02"
  <2>1. 2 \in DOMAIN s3 /\ s3[2] = Check(r.envelope = "draft-02", "UnsupportedVersion")
    BY SMT DEF ExtractDraft02ResponseEnvelope
  <2>2. Check(r.envelope = "draft-02", "UnsupportedVersion").passes => r.envelope = "draft-02"
    BY DEF Check
  <2> QED
    BY <2>1, <2>2
<1>9. \A x \in In(s1) \cup In(s2) \cup In(s3) \cup In(s4) \cup In(s5) :
        ~x.passes => x.error # "ok" /\ (x.error = "MissingEnvelope" => r.envelope = "absent")
  BY <1>3, <1>4, <1>5, SMT DEF In
<1> HIDE DEF s1, s2, s3, s4, s5, T
<1>10. In(chain) = In(s1) \cup In(s2) \cup In(s3) \cup In(s4) \cup In(s5) /\ DOMAIN chain \subseteq Nat
  <2> DEFINE s12 == s1 \o s2
             s123 == s12 \o s3
             s1234 == s123 \o s4
  <2>1. s12 \in Seq(T) /\ In(s12) = In(s1) \cup In(s2)
    BY <1>1, ChecksOfTwo, ZenonT(60)
  <2> HIDE DEF s12
  <2>2. s123 \in Seq(T) /\ In(s123) = In(s12) \cup In(s3)
    BY <1>1, <2>1, ChecksOfTwo, SMT
  <2> HIDE DEF s123
  <2>3. s1234 \in Seq(T) /\ In(s1234) = In(s123) \cup In(s4)
    BY <1>1, <2>2, ChecksOfTwo, SMT
  <2> HIDE DEF s1234
  <2>4. In(s1234 \o s5) = In(s1234) \cup In(s5) /\ DOMAIN (s1234 \o s5) \subseteq Nat
    BY <1>1, <2>3, ChecksOfTwo, SMT
  <2>5. chain = s1234 \o s5
    BY DEF s1234, s123, s12
  <2> QED
    BY <2>1, <2>2, <2>3, <2>4, <2>5
<1> HIDE DEF chain
<1>11. \/ FirstFailure(chain) = "ok" /\ \A x \in In(chain) : x.passes
       \/ \E x \in In(chain) : ~x.passes /\ FirstFailure(chain) = x.error
  BY <1>10, ChainEnds DEF In
<1>12. (\A x \in In(chain) : x.passes) =>
        r.signature = "good" /\ r.key = "trusted" /\ r.request_hash = h /\ r.envelope = "draft-02"
  BY <1>6, <1>7, <1>10, <1>8 DEF In
<1> QED
  BY <1>2, <1>9, <1>10, <1>11, <1>12

(* What a verdict leads to: an answer is accepted, or falls back, only as  *)
(* the evidence and the route allow (classify_response_result, decide).    *)
LEMMA DecisionFacts ==
    ASSUME NEW mode, NEW legacy \in BOOLEAN, NEW found
    PROVE  LET d == Decide(mode, legacy, ClassifyResponseResult(found))
           IN  /\ d[1] \in {"AcceptMcps", "FallBackToLegacy", "FailClosed"}
               /\ d[1] = "AcceptMcps" => found = "ok"
               /\ d[1] = "FallBackToLegacy" =>
                    found = "MissingEnvelope" /\ mode = "AllowLegacyExplicit" /\ legacy
<1>1. CASE found = "ok"
  <2>1. ClassifyResponseResult(found) = <<"Verified">>
    BY <1>1 DEF ClassifyResponseResult
  <2>2. Decide(mode, legacy, <<"Verified">>) = <<"AcceptMcps">>
    BY DEF Decide
  <2> QED
    BY <1>1, <2>1, <2>2, SMT
<1>2. CASE found = "MissingEnvelope"
  <2>1. ClassifyResponseResult(found) = <<"Absent", "PlainUnsigned">>
    BY <1>2 DEF ClassifyResponseResult
  <2>2. \/ /\ Decide(mode, legacy, <<"Absent", "PlainUnsigned">>) = <<"FallBackToLegacy", "PlainUnsigned">>
           /\ mode = "AllowLegacyExplicit" /\ legacy
        \/ Decide(mode, legacy, <<"Absent", "PlainUnsigned">>)
              = <<"FailClosed", AbsenceFailClosedCode("PlainUnsigned")>>
    BY DEF Decide
  <2> QED
    BY <1>2, <2>1, <2>2, SMT
<1>3. CASE found \notin {"ok", "MissingEnvelope"}
  <2>1. ClassifyResponseResult(found) = <<"Invalid", found>>
    BY <1>3 DEF ClassifyResponseResult
  <2>2. Decide(mode, legacy, <<"Invalid", found>>) = <<"FailClosed", found>>
    BY DEF Decide
  <2> QED
    BY <1>3, <2>1, <2>2, SMT
<1> QED
  BY <1>1, <1>2, <1>3

-----------------------------------------------------------------------------
(* Discovery                                                               *)

(* What is kept of an exchange.                                            *)
ExchangeRecord ==
    [server : Server, outcome : {"Verified", "Absent", "Invalid"}, signer : ServerSigner,
     verdict : {"SelfContradictory", "WeakerThanPolicy", "StrongerSupported", "SatisfiesPolicy"},
     mismatch : BOOLEAN]

(* The entry of a server is its last advert; a server without one sent     *)
(* none that was not evicted, or it has expired.                           *)
AdvertsAreLast ==
    \A s \in Server :
        /\ received[s].at \in Int
        /\ s \in DOMAIN adverts =>
            /\ received[s].advert.present /\ adverts[s].advert = received[s].advert
            /\ adverts[s].expiry = received[s].at + AdvertTtl
        /\ s \notin DOMAIN adverts /\ received[s].advert.present => received[s].at + AdvertTtl <= moment

DiscoveryInv ==
    /\ moment \in Int /\ exchanges \in Seq(ExchangeRecord)
    /\ DOMAIN proven = Server /\ DOMAIN observed = Server /\ DOMAIN received = Server
    /\ AdvertsAreLast /\ ProofIsAVerifiedExchange

(* The cache answers with the last advert while its time lasts.            *)
LEMMA CacheIsCurrent == DiscoveryInv => CachedAdvertsAreCurrent
<1> SUFFICES ASSUME DiscoveryInv, NEW s \in Server
             PROVE  GetAdvert(adverts, s, moment) =
                        IF received[s].advert.present /\ moment < received[s].at + AdvertTtl
                        THEN received[s].advert ELSE NoAdvert
  BY DEF CachedAdvertsAreCurrent
<1>1. received[s].at + AdvertTtl \in Int /\ moment \in Int
  BY DiscoveryAssumption, SMT DEF DiscoveryInv, AdvertsAreLast
<1>2. (received[s].at + AdvertTtl > moment <=> moment < received[s].at + AdvertTtl)
      /\ ~(received[s].at + AdvertTtl <= moment /\ moment < received[s].at + AdvertTtl)
  BY <1>1, SMT
<1>3. CASE s \in DOMAIN adverts
  <2>1. /\ received[s].advert.present /\ adverts[s].advert = received[s].advert
        /\ adverts[s].expiry = received[s].at + AdvertTtl
    BY <1>3 DEF DiscoveryInv, AdvertsAreLast
  <2>2. LiveAdvert(adverts[s], moment) <=> moment < received[s].at + AdvertTtl
    BY <1>2, <2>1 DEF LiveAdvert
  <2> QED
    BY <1>3, <2>1, <2>2 DEF GetAdvert
<1>4. CASE s \notin DOMAIN adverts
  <2>1. ~(received[s].advert.present /\ moment < received[s].at + AdvertTtl)
    BY <1>2, <1>4 DEF DiscoveryInv, AdvertsAreLast
  <2> QED
    BY <1>4, <2>1 DEF GetAdvert
<1> QED
  BY <1>3, <1>4

(* An exchange whose response verified is one of draft-02, as the policy   *)
(* asks.                                                                   *)
LEMMA ExchangeFacts ==
    ASSUME NEW r \in Responded, NEW wanted,
           wanted = [required_min |-> "draft-02", supported |-> {"draft-02"}]
    PROVE  LET outcome == ClassifyResponseResult(VerifyResponseDraft02(r, 1))
               version == IF r.envelope = "absent" THEN "none" ELSE r.envelope
               id      == IF version = "draft-02" THEN r.canonicalization_id ELSE "absent"
               judged == EvaluateCapability(version, id, wanted)
           IN  /\ outcome[1] \in {"Verified", "Absent", "Invalid"} /\ r.server_signer \in ServerSigner
               /\ judged \in {"SelfContradictory", "WeakerThanPolicy", "StrongerSupported", "SatisfiesPolicy"}
               /\ outcome[1] = "Verified" => judged \in {"SatisfiesPolicy", "StrongerSupported"}
<1> DEFINE signer == CHOOSE s \in ServerSigner : TRUE
           good == BuildSignedResponse("draft-02", 1, signer, [kind |-> "object", members |-> {"field"}])
           found == VerifyResponseDraft02(r, 1)
           outcome == ClassifyResponseResult(found)
           version == IF r.envelope = "absent" THEN "none" ELSE r.envelope
           id      == IF version = "draft-02" THEN r.canonicalization_id ELSE "absent"
           judged == EvaluateCapability(version, id, wanted)
<1>1. signer \in ServerSigner
  BY DiscoveryAssumption
<1>2. [kind |-> "object", members |-> {"field"}] \in InnerAnswer
  BY DEF InnerAnswer
<1>3. good \in Reply({1})
  <2> HIDE DEF signer
  <2> QED
    BY <1>1, <1>2, SignedReply
<1>4. good.canonicalization_id = "allowed"
  BY DEF BuildSignedResponse, BuildResponseEnvelope
<1>5. r \in {good} \cup Flaws(good) /\ r \in {good, [good EXCEPT !.signature = "bad"],
            [good EXCEPT !.envelope = "absent"], [good EXCEPT !.envelope = "draft-01"]}
  BY DEF Responded, Flaws
<1> HIDE DEF good, signer
<1>6. r \in Reply({1})
  BY <1>3, <1>5, FlawedReply
<1>7. r.canonicalization_id = "allowed"
  BY <1>3, <1>4, <1>5 DEF Reply
<1>8. found = "ok" => r.envelope = "draft-02"
  BY <1>6, VerdictFacts
<1>9. r.server_signer \in ServerSigner
  BY <1>6 DEF Reply
<1> HIDE DEF found
<1>10. outcome[1] \in {"Verified", "Absent", "Invalid"} /\ (outcome[1] = "Verified" => found = "ok")
  BY SMT DEF ClassifyResponseResult
<1>11. r.envelope = "draft-02" => judged = "SatisfiesPolicy"
  <2> SUFFICES ASSUME r.envelope = "draft-02" PROVE judged = "SatisfiesPolicy"
    OBVIOUS
  <2>1. /\ version = "draft-02" /\ id = "allowed"
        /\ wanted.required_min = "draft-02" /\ version \in wanted.supported
    BY <1>7
  <2>2. VersionRank("draft-02") = 2
    BY SMT DEF VersionRank
  <2> HIDE DEF version, id
  <2>3. VersionRank(version) = 2 /\ VersionRank(wanted.required_min) = 2 /\ 2 # 0 /\ ~(2 < 2) /\ ~(2 > 2)
    BY <2>1, <2>2, SMT
  <2> QED
    BY <2>1, <2>3 DEF EvaluateCapability
<1>12. judged \in {"SelfContradictory", "WeakerThanPolicy", "StrongerSupported", "SatisfiesPolicy"}
  <2> HIDE DEF version, id
  <2> QED
    BY DEF EvaluateCapability
<1> QED
  BY <1>8, <1>9, <1>10, <1>11, <1>12 DEF found

(* A step on the cache leaves what was proven.                             *)
LEMMA ProofKept ==
    ASSUME ProofIsAVerifiedExchange, UNCHANGED <<proven, observed, exchanges>>
    PROVE  ProofIsAVerifiedExchange'
  BY DEF ProofIsAVerifiedExchange

(* An advert that comes is the last one of its server.                     *)
LEMMA ReceiveAdvertStep ==
    ASSUME DiscoveryInv, NEW server \in Server, NEW capabilities, ReceiveAdvert(server, capabilities)
    PROVE  DiscoveryInv'
<1> DEFINE advert == ParseLegacyAdvert(capabilities)
<1>1. /\ advert.present
      /\ adverts' = InsertAdvert(adverts, server, advert, moment)
      /\ received' = [received EXCEPT ![server] = [advert |-> advert, at |-> moment]]
      /\ UNCHANGED <<moment, proven, observed, exchanges>>
  BY DEF ReceiveAdvert
<1> HIDE DEF advert
<1>2. /\ DOMAIN adverts' = DOMAIN adverts \cup {server}
      /\ adverts'[server].advert = advert /\ adverts'[server].expiry = moment + AdvertTtl
      /\ \A s \in DOMAIN adverts : s # server => adverts'[s] = adverts[s]
  BY <1>1 DEF InsertAdvert
<1>3. /\ DOMAIN received' = Server /\ received'[server].advert = advert /\ received'[server].at = moment
      /\ \A s \in Server : s # server => received'[s] = received[s]
  BY <1>1 DEF DiscoveryInv
<1>4. AdvertsAreLast'
  <2> SUFFICES ASSUME NEW s \in Server
               PROVE  /\ received'[s].at \in Int
                      /\ s \in DOMAIN adverts' =>
                            /\ received'[s].advert.present /\ adverts'[s].advert = received'[s].advert
                            /\ adverts'[s].expiry = received'[s].at + AdvertTtl
                      /\ s \notin DOMAIN adverts' /\ received'[s].advert.present =>
                            received'[s].at + AdvertTtl <= moment'
    BY DEF AdvertsAreLast
  <2>1. CASE s = server
    BY <1>1, <1>2, <1>3, <2>1 DEF DiscoveryInv
  <2>2. CASE s # server
    <3>1. received'[s] = received[s] /\ (s \in DOMAIN adverts' <=> s \in DOMAIN adverts) /\ moment' = moment
      BY <1>1, <1>2, <1>3, <2>2
    <3>2. s \in DOMAIN adverts => adverts'[s] = adverts[s]
      BY <1>2, <2>2
    <3> QED
      BY <3>1, <3>2 DEF DiscoveryInv, AdvertsAreLast
  <2> QED
    BY <2>1, <2>2
<1> QED
  BY <1>1, <1>3, <1>4, ProofKept DEF DiscoveryInv

(* Servers whose entries go are those evicted, whose advert goes too, or   *)
(* those whose advert has expired.                                         *)
LEMMA EntriesGo ==
    ASSUME DiscoveryInv, NEW gone, adverts' = WithoutServers(adverts, gone),
           UNCHANGED <<moment, proven, observed, exchanges>>, DOMAIN received' = Server,
           \A s \in Server :
                \/ /\ received'[s] = received[s]
                   /\ s \in DOMAIN adverts /\ s \in gone => received[s].at + AdvertTtl <= moment
                \/ received'[s].at \in Int /\ ~received'[s].advert.present /\ s \in gone
    PROVE  DiscoveryInv'
<1>1. /\ DOMAIN adverts' = DOMAIN adverts \ gone
      /\ \A s \in DOMAIN adverts' : adverts'[s] = adverts[s]
  BY DEF WithoutServers
<1>2. AdvertsAreLast'
  <2> SUFFICES ASSUME NEW s \in Server
               PROVE  /\ received'[s].at \in Int
                      /\ s \in DOMAIN adverts' =>
                            /\ received'[s].advert.present /\ adverts'[s].advert = received'[s].advert
                            /\ adverts'[s].expiry = received'[s].at + AdvertTtl
                      /\ s \notin DOMAIN adverts' /\ received'[s].advert.present =>
                            received'[s].at + AdvertTtl <= moment'
    BY DEF AdvertsAreLast
  <2>1. CASE received'[s].at \in Int /\ ~received'[s].advert.present /\ s \in gone
    BY <1>1, <2>1
  <2>2. CASE /\ received'[s] = received[s]
             /\ s \in DOMAIN adverts /\ s \in gone => received[s].at + AdvertTtl <= moment
    BY <1>1, <2>2 DEF DiscoveryInv, AdvertsAreLast
  <2> QED
    BY <2>1, <2>2
<1> QED
  BY <1>2, ProofKept DEF DiscoveryInv

(* An exchange proves support exactly when its response verified.          *)
LEMMA ExchangeStep ==
    ASSUME DiscoveryInv, NEW server \in Server, NEW r \in Responded, NEW wanted,
           wanted = [required_min |-> "draft-02", supported |-> {"draft-02"}],
           Exchange(server, r, wanted)
    PROVE  DiscoveryInv'
<1> DEFINE outcome == ClassifyResponseResult(VerifyResponseDraft02(r, 1))
           version == IF r.envelope = "absent" THEN "none" ELSE r.envelope
           id      == IF version = "draft-02" THEN r.canonicalization_id ELSE "absent"
           judged  == EvaluateCapability(version, id, wanted)
           mismatch == AdvertMismatch(GetAdvert(adverts, server, moment), version)
           e == [server |-> server, outcome |-> outcome[1], signer |-> r.server_signer,
                 verdict |-> judged, mismatch |-> mismatch]
<1>1. /\ observed' = [observed EXCEPT ![server] = RecordObservation(outcome)]
      /\ proven' = ProveSupport(server, r, outcome)
      /\ exchanges' = Append(exchanges, e) /\ UNCHANGED <<moment, adverts, received>>
  BY DEF Exchange
<1>2. /\ outcome[1] \in {"Verified", "Absent", "Invalid"} /\ r.server_signer \in ServerSigner
      /\ judged \in {"SelfContradictory", "WeakerThanPolicy", "StrongerSupported", "SatisfiesPolicy"}
      /\ outcome[1] = "Verified" => judged \in {"SatisfiesPolicy", "StrongerSupported"}
  BY ExchangeFacts
<1>3. mismatch \in BOOLEAN
  BY DEF AdvertMismatch
<1> HIDE DEF outcome, judged, mismatch
<1>4. /\ e \in ExchangeRecord
      /\ e.server = server /\ e.outcome = outcome[1] /\ e.signer = r.server_signer /\ e.verdict = judged
  BY <1>2, <1>3 DEF ExchangeRecord
<1> HIDE DEF e
<1> DEFINE n == Len(exchanges) + 1
<1>5. /\ exchanges' \in Seq(ExchangeRecord) /\ DOMAIN exchanges' = DOMAIN exchanges \cup {n}
      /\ exchanges'[n] = e /\ \A i \in DOMAIN exchanges : exchanges'[i] = exchanges[i]
  BY <1>1, <1>4, SMT DEF DiscoveryInv
<1> HIDE DEF n
<1>6. /\ DOMAIN observed' = Server /\ observed'[server] = RecordObservation(outcome)
      /\ \A s \in Server : s # server => observed'[s] = observed[s]
  BY <1>1 DEF DiscoveryInv
<1>7. /\ DOMAIN proven' = Server
      /\ proven'[server] = IF outcome[1] = "Verified" THEN r.server_signer ELSE proven[server]
      /\ \A s \in Server : s # server => proven'[s] = proven[s]
  BY <1>1 DEF DiscoveryInv, ProveSupport
<1>8. ProofIsAVerifiedExchange'
  <2> SUFFICES ASSUME NEW s \in Server
               PROVE  /\ proven'[s] # "none" =>
                            \E i \in DOMAIN exchanges' :
                                /\ exchanges'[i].server = s /\ exchanges'[i].outcome = "Verified"
                                /\ exchanges'[i].signer = proven'[s]
                      /\ observed'[s] = "SupportsMcps" => proven'[s] # "none"
                      /\ \A i \in DOMAIN exchanges' :
                            exchanges'[i].server = s /\ exchanges'[i].outcome = "Verified" =>
                                exchanges'[i].verdict \in {"SatisfiesPolicy", "StrongerSupported"}
    BY DEF ProofIsAVerifiedExchange
  <2>1. /\ proven[s] # "none" =>
            \E i \in DOMAIN exchanges : /\ exchanges[i].server = s /\ exchanges[i].outcome = "Verified"
                                        /\ exchanges[i].signer = proven[s]
        /\ observed[s] = "SupportsMcps" => proven[s] # "none"
        /\ \A i \in DOMAIN exchanges :
                exchanges[i].server = s /\ exchanges[i].outcome = "Verified" =>
                    exchanges[i].verdict \in {"SatisfiesPolicy", "StrongerSupported"}
    BY DEF DiscoveryInv, ProofIsAVerifiedExchange
  <2>2. \A i \in DOMAIN exchanges' :
            exchanges'[i].server = s /\ exchanges'[i].outcome = "Verified" =>
                exchanges'[i].verdict \in {"SatisfiesPolicy", "StrongerSupported"}
    BY <1>2, <1>4, <1>5, <2>1
  <2>3. ASSUME proven'[s] = proven[s], proven'[s] # "none"
        PROVE  \E i \in DOMAIN exchanges' :
                    /\ exchanges'[i].server = s /\ exchanges'[i].outcome = "Verified"
                    /\ exchanges'[i].signer = proven'[s]
    <3>1. PICK i \in DOMAIN exchanges : /\ exchanges[i].server = s /\ exchanges[i].outcome = "Verified"
                                        /\ exchanges[i].signer = proven[s]
      BY <2>1, <2>3
    <3> QED
      BY <1>5, <2>3, <3>1
  <2>4. CASE s = server /\ outcome[1] = "Verified"
    <3>1. proven'[s] = r.server_signer /\ proven'[s] # "none"
      BY <1>2, <1>7, <2>4, DiscoveryAssumption
    <3>2. /\ n \in DOMAIN exchanges' /\ exchanges'[n].server = s /\ exchanges'[n].outcome = "Verified"
          /\ exchanges'[n].signer = proven'[s]
      BY <1>4, <1>5, <2>4, <3>1
    <3> QED
      BY <2>2, <3>1, <3>2
  <2>5. CASE ~(s = server /\ outcome[1] = "Verified")
    <3>1. proven'[s] = proven[s]
      BY <1>7, <2>5
    <3>2. observed'[s] = "SupportsMcps" => observed[s] = "SupportsMcps"
      BY <1>6, <2>5 DEF RecordObservation
    <3> QED
      BY <2>1, <2>2, <2>3, <3>1, <3>2
  <2> QED
    BY <2>4, <2>5
<1>9. AdvertsAreLast'
  BY <1>1 DEF DiscoveryInv, AdvertsAreLast
<1> QED
  BY <1>1, <1>5, <1>6, <1>7, <1>8, <1>9 DEF DiscoveryInv

(* The steps of discovery.                                                 *)
LEMMA DiscoveryInvStep == DiscoveryInv /\ [DiscoveryNext]_discoveryVars => DiscoveryInv'
<1> SUFFICES ASSUME DiscoveryInv, [DiscoveryNext]_discoveryVars PROVE DiscoveryInv'
  OBVIOUS
<1>1. ASSUME NEW server \in Server, EvictAdvert(server) PROVE DiscoveryInv'
  <2> DEFINE gone == {server}
             none == [advert |-> NoAdvert, at |-> 0]
  <2>1. /\ adverts' = WithoutServers(adverts, gone) /\ UNCHANGED <<moment, proven, observed, exchanges>>
        /\ received' = [received EXCEPT ![server] = none]
    BY <1>1 DEF EvictAdvert
  <2>2. none.at \in Int /\ ~none.advert.present
    BY SMT DEF NoAdvert
  <2> HIDE DEF none
  <2>3. /\ DOMAIN received' = Server /\ received'[server] = none
        /\ \A s \in Server : s # server => received'[s] = received[s]
    BY <2>1 DEF DiscoveryInv
  <2>4. \A s \in Server :
            \/ /\ received'[s] = received[s]
               /\ s \in DOMAIN adverts /\ s \in gone => received[s].at + AdvertTtl <= moment
            \/ received'[s].at \in Int /\ ~received'[s].advert.present /\ s \in gone
    BY <2>2, <2>3
  <2> HIDE DEF gone
  <2> QED
    BY <2>1, <2>3, <2>4, EntriesGo
<1>2. ASSUME SweepAdverts PROVE DiscoveryInv'
  <2> DEFINE gone == {k \in DOMAIN adverts : ~LiveAdvert(adverts[k], moment)}
  <2>1. /\ adverts' = WithoutServers(adverts, gone)
        /\ UNCHANGED <<moment, proven, observed, exchanges, received>>
    BY <1>2 DEF SweepAdverts, EvictExpired
  <2>2. ASSUME NEW s \in Server, s \in gone PROVE received[s].at + AdvertTtl <= moment
    <3>1. ~(received[s].at + AdvertTtl > moment)
      BY <2>2 DEF DiscoveryInv, AdvertsAreLast, LiveAdvert
    <3>2. received[s].at + AdvertTtl \in Int /\ moment \in Int
      BY DiscoveryAssumption, SMT DEF DiscoveryInv, AdvertsAreLast
    <3> QED
      BY <3>1, <3>2, SMT
  <2>3. DOMAIN received' = Server
    BY <2>1 DEF DiscoveryInv
  <2> HIDE DEF gone
  <2> QED
    BY <2>1, <2>2, <2>3, EntriesGo
<1>3. ASSUME moment' = moment + 1, UNCHANGED <<adverts, proven, observed, exchanges, received>>
      PROVE  DiscoveryInv'
  <2>1. moment' \in Int
    BY <1>3, SMT DEF DiscoveryInv
  <2>2. ASSUME NEW s \in Server, received[s].at + AdvertTtl <= moment
        PROVE  received[s].at + AdvertTtl <= moment'
    BY <1>3, <2>2, DiscoveryAssumption, SMT DEF DiscoveryInv, AdvertsAreLast
  <2>3. AdvertsAreLast'
    BY <1>3, <2>2 DEF DiscoveryInv, AdvertsAreLast
  <2> QED
    BY <1>3, <2>1, <2>3, ProofKept DEF DiscoveryInv
<1>4. CASE UNCHANGED discoveryVars
  <2>1. AdvertsAreLast'
    BY <1>4 DEF DiscoveryInv, AdvertsAreLast, discoveryVars
  <2> QED
    BY <1>4, <2>1, ProofKept DEF DiscoveryInv, discoveryVars
<1>5. DiscoveryTick => moment' = moment + 1 /\ UNCHANGED <<adverts, proven, observed, exchanges, received>>
  BY DEF DiscoveryTick
<1>6. CASE DiscoveryNext
  BY <1>1, <1>2, <1>3, <1>5, <1>6, ReceiveAdvertStep, ExchangeStep DEF DiscoveryNext
<1> QED
  BY <1>4, <1>6

(* Nothing is known of any server at first.                                *)
LEMMA DiscoveryInvInit == DiscoveryInit => DiscoveryInv
<1> SUFFICES ASSUME DiscoveryInit PROVE DiscoveryInv
  OBVIOUS
<1>1. /\ moment = 0 /\ adverts = <<>> /\ exchanges = <<>>
      /\ proven = [s \in Server |-> "none"] /\ observed = [s \in Server |-> "none"]
      /\ received = [s \in Server |-> [advert |-> NoAdvert, at |-> 0]]
  BY DEF DiscoveryInit
<1>2. moment \in Int /\ exchanges \in Seq(ExchangeRecord) /\ DOMAIN exchanges = {} /\ DOMAIN adverts = {}
  BY <1>1, SMT
<1>3. 0 \in Int /\ ~NoAdvert.present
  BY SMT DEF NoAdvert
<1>4. \A s \in Server : received[s].at \in Int /\ ~received[s].advert.present
  BY <1>1, <1>3
<1>5. AdvertsAreLast
  BY <1>2, <1>4 DEF AdvertsAreLast
<1>6. ProofIsAVerifiedExchange
  BY <1>1, <1>2 DEF ProofIsAVerifiedExchange
<1> QED
  BY <1>1, <1>2, <1>5, <1>6 DEF DiscoveryInv

(* What a client holds about a server is the last advert it sent and that  *)
(* was not evicted, while it lasts, and a proof that only an exchange with *)
(* a verified response gave (AdvertCache, ProvenSupport).                  *)
THEOREM SupportIsProven == DiscoverySpec => []DiscoveryIsSound
<1>1. DiscoveryInv => DiscoveryIsSound
  BY CacheIsCurrent DEF DiscoveryInv, DiscoveryIsSound
<1> QED
  BY <1>1, DiscoveryInvInit, DiscoveryInvStep, PTL DEF DiscoverySpec
=============================================================================
