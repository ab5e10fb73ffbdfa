------------------------------ MODULE KeyCustody ------------------------------
(***************************************************************************)
(* The keys of mcps-proxy: where they are kept, which of them it uses, and *)
(* how a request to AWS KMS is signed.                                     *)
(***************************************************************************)
EXTENDS Integers, Sequences, SequencesExt

(***************************************************************************)
(* Where the proxy's keys are kept and which of them it uses (mcps-        *)
(* proxy/src/key_source.rs, kms_keysource.rs, aws_kms_keysource.rs,        *)
(* gcp_kms_keysource.rs, pkcs11_keysource.rs, delegated_tls.rs, tls.rs and *)
(* main.rs). A key source signs responses, and either exports the TLS key  *)
(* or offers a signer for handshakes. What it reads is in a vault, files,  *)
(* environment, token objects and keys of a key service, that an operator  *)
(* may change under a running proxy.                                       *)
(*                                                                         *)
(* A key pair is a number: Ed25519Keys, OtherKey for one of another        *)
(* algorithm, KeyError where there is none. A certificate, a public key    *)
(* and a signature are the number of their key pair.                       *)
(***************************************************************************)

CONSTANTS
    Sources,            \* [kind, delegated]: --key-source and a TLS key label or id
    Vaults,             \* what an operator may have set up
    MaxReplacements     \* bound

Ed25519Keys == {1, 2}
OtherKey == 3
KeyError == 0
Labels == {"response", "tls"}
Kms == {"aws-kms", "gcp-kms"}

VARIABLES
    source,         \* build_key_source's choice
    vault,
    wiring,         \* how far main's run has come
    loaded,         \* what the source and the server config hold
    advertised,     \* the last response_public_key
    emitted,        \* the last sign_response
    shaken,         \* the last handshake signature
    replacements    \* how often the operator changed the vault

custodyVars == <<source, vault, wiring, loaded, advertised, emitted, shaken, replacements>>

Unloaded == [pinned |-> [l \in Labels |-> KeyError], chain |-> <<>>, tls_key |-> KeyError]

CustodyInit ==
    /\ source \in Sources /\ vault \in Vaults /\ wiring = "build" /\ loaded = Unloaded
    /\ advertised = KeyError /\ emitted = KeyError /\ shaken = KeyError
    /\ replacements = 0

-----------------------------------------------------------------------------
(* Reading                                                                 *)

(* An empty chain and one with a malformed block are errors: <<>>.         *)
CertsFromPem(pem) == IF \E i \in DOMAIN pem : pem[i] = KeyError THEN <<>> ELSE pem

SigningKeyFromSeed(text) == IF text \in Ed25519Keys THEN text ELSE KeyError

(* FileKeySource::signing_key reads its file at every call.                *)
FileSigningKey(v) == IF "seed" \in v.present THEN SigningKeyFromSeed(v.seed) ELSE KeyError

(* EnvKeySource, the same from variables of its environment.               *)
EnvSigningKey(v) == IF "seed" \in v.present THEN SigningKeyFromSeed(v.seed) ELSE KeyError

RawPointFromSpki(der) == IF der \in Ed25519Keys THEN der ELSE KeyError

FindKey(objects) == IF Len(objects) = 1 THEN objects[1] ELSE KeyError

(* A template asks for Ed25519 objects only.                               *)
Labelled(v, label, class) == SelectSeq(v.objects[label][class], LAMBDA k : k \in Ed25519Keys)

(* AWS: the key spec as the service states it, and the key.                *)
ParseGetPublicKeyResponse(reply) == IF reply.spec = "ed25519" THEN reply.lines[2] ELSE KeyError

Begin == -1
End == -2

(* GCP: a PEM text, line by line; what stands between the first BEGIN and  *)
(* the END after it is one key or nothing that decodes.                    *)
SpkiDerFromPem(lines) ==
    LET Before(i, mark) == \E j \in 1..i : lines[j] = mark
        body == {i \in DOMAIN lines : lines[i] # Begin /\ Before(i, Begin) /\ ~Before(i, End)}
    IN  IF body = {} \/ \E i, j \in body : i # j THEN KeyError ELSE lines[CHOOSE i \in body : TRUE]

ParsePublicKeyResponse(reply) == IF reply.spec = "ed25519" THEN SpkiDerFromPem(reply.lines) ELSE KeyError

(* The service speaks of the key behind the name, in its own words.        *)
Behind(v, label) == IF v.objects[label].private = <<>> THEN KeyError ELSE v.objects[label].private[1]
Replies(v, label) ==
    LET key == Behind(v, label)
    IN  {[spec |-> IF key \in Ed25519Keys THEN "ed25519" ELSE "other", lines |-> <<Begin, key, End>>],
         [spec |-> "other", lines |-> <<Begin, key, End>>],
         [spec |-> "ed25519", lines |-> <<Begin, OtherKey, End>>]}

(* with_client and with_transport.                                         *)
PublicKeyOf(kind, reply) ==
    RawPointFromSpki(IF kind = "aws-kms" THEN ParseGetPublicKeyResponse(reply)
                     ELSE ParsePublicKeyResponse(reply))

-----------------------------------------------------------------------------
(* The start, as main's run goes through it                                *)

RefuseToServe == wiring' = "refused" /\ UNCHANGED loaded
GoesOn(next, held) == wiring' = next /\ loaded' = held

AtStage(where) == wiring = where /\ UNCHANGED <<source, vault, advertised, emitted, shaken, replacements>>

(* The keys a source will sign with are looked up at the start: a service's  *)
(* are pinned, a token's only found, in both classes; a file is not opened. *)
Needed == {"response"} \cup (IF source.delegated THEN {"tls"} ELSE {})

OpenSource ==
    /\ AtStage("build")
    /\ \/ /\ source.kind \in {"file", "env"}
          /\ GoesOn("chain", loaded)
       \/ /\ source.kind = "pkcs11"
          /\ IF \A l \in Needed, c \in {"private", "public"} : FindKey(Labelled(vault, l, c)) # KeyError
             THEN GoesOn("chain", loaded)
             ELSE RefuseToServe
       \/ /\ source.kind \in Kms
          /\ \E r \in Replies(vault, "response"), t \in Replies(vault, "tls") :
                LET pin == [response |-> PublicKeyOf(source.kind, r),
                            tls |-> IF source.delegated THEN PublicKeyOf(source.kind, t) ELSE KeyError]
                IN  IF \A l \in Needed : pin[l] # KeyError
                    THEN GoesOn("chain", [loaded EXCEPT !.pinned = pin])
                    ELSE RefuseToServe

LoadChain ==
    /\ AtStage("chain")
    /\ IF "chain" \in vault.present /\ CertsFromPem(vault.chain) # <<>>
       THEN GoesOn("roots", [loaded EXCEPT !.chain = vault.chain])
       ELSE RefuseToServe

LoadRoots ==
    /\ AtStage("roots")
    /\ IF "roots" \in vault.present /\ CertsFromPem(vault.roots) # <<>>
       THEN GoesOn("key", loaded)
       ELSE RefuseToServe

(* The exported key is asked for only where there is no delegated signer.  *)
LoadTlsKey ==
    /\ AtStage("key")
    /\ IF source.delegated THEN GoesOn("config", loaded)
       ELSE IF "tls_key" \in vault.present /\ vault.tls_key # KeyError
       THEN GoesOn("config", [loaded EXCEPT !.tls_key = vault.tls_key])
       ELSE RefuseToServe

(* tls_public_key_spki_der: a service's pinned key, a token's object now.  *)
TlsPublicKey ==
    IF source.kind \in Kms THEN loaded.pinned["tls"] ELSE FindKey(Labelled(vault, "tls", "public"))

LeafPoint == RawPointFromSpki(loaded.chain[1])

BuildServerConfigDelegatedValidated == LeafPoint # KeyError /\ TlsPublicKey = LeafPoint

(* with_single_cert compares the two halves itself.                        *)
BuildServerConfigWithCrls == loaded.tls_key = loaded.chain[1]

BuildServerConfig ==
    /\ AtStage("config")
    /\ IF IF source.delegated THEN BuildServerConfigDelegatedValidated ELSE BuildServerConfigWithCrls
       THEN GoesOn("serving", loaded)
       ELSE RefuseToServe

-----------------------------------------------------------------------------
(* Serving                                                                 *)

ServingOn(others) == wiring = "serving" /\ UNCHANGED <<source, vault, wiring, loaded, replacements, others>>

(* C_Sign with the one private object under the label; what a key service  *)
(* returns is of the key behind the name, or no signature.                 *)
TokenSignature(label) == FindKey(Labelled(vault, label, "private"))
ServiceSignatures(label) == {Behind(vault, label), KeyError}

(* The backends' sign_raw_ed25519: against the key pinned at the start.    *)
SignRaw(label, signature) == IF signature = loaded.pinned[label] THEN signature ELSE KeyError

(* Once more, against the key that response_public_key gives.              *)
KmsSignResponse(signature) ==
    IF SignRaw("response", signature) = RawPointFromSpki(loaded.pinned["response"])
    THEN SignRaw("response", signature) ELSE KeyError

TokenVerificationKey == FindKey(Labelled(vault, "response", "public"))

TokenSignResponse_Unchecked == TokenSignature("response")

TokenSignResponse ==
    IF TokenSignature("response") = TokenVerificationKey THEN TokenSignature("response") ELSE KeyError

SignResponse ==
    /\ ServingOn(<<advertised, shaken>>)
    /\ \/ source.kind = "file" /\ emitted' = FileSigningKey(vault)
       \/ source.kind = "env" /\ emitted' = EnvSigningKey(vault)
       \/ source.kind = "pkcs11" /\ emitted' = TokenSignResponse
       \/ source.kind \in Kms /\ \E s \in ServiceSignatures("response") : emitted' = KmsSignResponse(s)

ResponsePublicKey ==
    /\ ServingOn(<<emitted, shaken>>)
    /\ advertised' = CASE source.kind = "file" -> FileSigningKey(vault)
                       [] source.kind = "env" -> EnvSigningKey(vault)
                       [] source.kind = "pkcs11" -> TokenVerificationKey
                       [] OTHER -> RawPointFromSpki(loaded.pinned["response"])

(* sign_tls_ed25519: the token's signature is measured, a service's goes   *)
(* through sign_raw_ed25519.                                               *)
TokenSignTls == TokenSignature("tls")
KmsSignTls(signature) == SignRaw("tls", signature)

(* rustls takes Ed25519 and no other scheme from a delegated key.          *)
ChooseScheme(offered) == "ED25519" \in offered

Handshake ==
    /\ ServingOn(<<advertised, emitted>>)
    /\ \/ ~source.delegated /\ shaken' = loaded.tls_key
       \/ /\ source.delegated
          /\ \E offered \in {{"ED25519", "ECDSA"}, {"ECDSA"}} :
                IF ~ChooseScheme(offered) THEN shaken' = KeyError
                ELSE \/ source.kind = "pkcs11" /\ shaken' = TokenSignTls
                     \/ source.kind \in Kms /\ \E s \in ServiceSignatures("tls") : shaken' = KmsSignTls(s)

(* The operator: a process's own environment does not change.              *)
Replace ==
    /\ replacements < MaxReplacements /\ wiring # "refused" /\ source.kind # "env"
    /\ vault' \in Vaults \ {vault} /\ replacements' = replacements + 1
    /\ UNCHANGED <<source, wiring, loaded, advertised, emitted, shaken>>

CustodyNext ==
    \/ OpenSource \/ LoadChain \/ LoadRoots \/ LoadTlsKey \/ BuildServerConfig
    \/ SignResponse \/ ResponsePublicKey \/ Handshake \/ Replace

CustodySpec == CustodyInit /\ [][CustodyNext]_custodyVars

-----------------------------------------------------------------------------

(* A handshake is signed with the key of the certificate that is shown,    *)
(* also when files or the keys behind a service's names change between the *)
(* reads of the start or later (tls.rs:403-443, main.rs:188-200, the       *)
(* backends' sign_raw_ed25519).  A token's TLS signature is not checked    *)
(* again: it is right while the token's pair is the one that was there.    *)
HandshakeUnderLeaf ==
    shaken # KeyError =>
        \/ shaken = loaded.chain[1]
        \/ /\ source.delegated /\ source.kind = "pkcs11"
           /\ replacements > 0 \/ vault.objects["tls"].private # vault.objects["tls"].public

(* Whoever has been told the response key can check every response, before *)
(* and after: with a key service whatever becomes of the key behind the    *)
(* name, else while the operator leaves the material alone                 *)
(* (kms_keysource.rs:111-149, key_source.rs:222-245,                       *)
(* pkcs11_keysource.rs:613-659).                                           *)
EmittedAsAdvertised ==
    emitted # KeyError /\ advertised # KeyError =>
        emitted = advertised \/ (source.kind \in {"file", "pkcs11"} /\ replacements > 0)

(* Both uses of a custodian's keys, the handshake and the response, stand  *)
(* by what the proxy has shown the other side (key_source.rs).             *)
CustodyIsHonest == HandshakeUnderLeaf /\ EmittedAsAdvertised

-----------------------------------------------------------------------------
(***************************************************************************)
(* A request to AWS KMS and its signature (mcps-proxy/src/aws_sigv4.rs and *)
(* the client in aws_kms_keysource.rs). Texts are model values, a header a *)
(* pair of a lower-case name and its trimmed value; a hash is what was     *)
(* hashed and a MAC the pair of its key and its text.                      *)
(*                                                                         *)
(* The service is external: it takes the headers that the request says are *)
(* signed, out of the request it received, and computes the same.          *)
(***************************************************************************)

TERMINATOR == "aws4_request"

(* Names in the order of their bytes.                                      *)
HeaderNames == <<"content-type", "host", "x-amz-date", "x-amz-security-token", "x-amz-target">>

-----------------------------------------------------------------------------
(* X-Amz-Date: a Unix time is a day and a second of it.                    *)

CivilFromDay(z) ==
    LET day == z + 719468
        era == day \div 146097
        doe == day - era * 146097
        yoe == (doe - doe \div 1460 + doe \div 36524 - doe \div 146096) \div 365
        doy == doe - (365 * yoe + yoe \div 4 - yoe \div 100)
        mp  == (5 * doy + 2) \div 153
        m   == IF mp < 10 THEN mp + 3 ELSE mp - 9
    IN  <<yoe + era * 400 + (IF m <= 2 THEN 1 ELSE 0), m, doy - (153 * mp + 2) \div 5 + 1>>

FormatAmzDate(day, second) ==
    CivilFromDay(day) \o <<second \div 3600, (second % 3600) \div 60, second % 60>>

-----------------------------------------------------------------------------
(* Signing                                                                 *)

HmacSha256(key, text) == <<key, text>>

Datestamp(amz_date) == SubSeq(amz_date, 1, 3)

Scope(signer, amz_date) == <<Datestamp(amz_date), signer.region, signer.service, TERMINATOR>>

SignerKey(signer, amz_date) ==
    HmacSha256(HmacSha256(HmacSha256(HmacSha256(signer.secret, Datestamp(amz_date)), signer.region),
                          signer.service), TERMINATOR)

CanonicalRequest(headers, payload) ==
    LET sorted == SelectSeq([i \in DOMAIN HeaderNames |->
                      LET of == SelectSeq(headers, LAMBDA h : h[1] = HeaderNames[i])
                      IN  IF of = <<>> THEN <<>> ELSE of[1]], LAMBDA h : h # <<>>)
    IN  [method |-> "POST", path |-> "/", headers |-> sorted,
         signed |-> [i \in DOMAIN sorted |-> sorted[i][1]], payload |-> payload]

(* The date is signed always, the session token when there is one.         *)
SignV4(signer, headers, payload, amz_date) ==
    LET all == headers \o <<<<"x-amz-date", amz_date>>>>
                 \o (IF signer.token = "none" THEN <<>> ELSE <<<<"x-amz-security-token", signer.token>>>>)
        canonical == CanonicalRequest(all, payload)
    IN  [credential |-> signer.access_key, scope |-> Scope(signer, amz_date), signed |-> canonical.signed,
         signature |-> HmacSha256(SignerKey(signer, amz_date), <<amz_date, Scope(signer, amz_date), canonical>>)]

-----------------------------------------------------------------------------
(* The client                                                              *)

(* Without a scheme, without a host or with a path there is no client; one *)
(* trailing slash is no path.                                              *)
AuthorityOf(url) ==
    IF url.scheme /\ url.authority # "" /\ url.path \in {"none", "/"} THEN url.authority ELSE ""

(* post_kms: what is put on the wire.                                      *)
PostKms(signer, url, target, body, amz_date) ==
    LET named == <<<<"host", AuthorityOf(url)>>, <<"content-type", "application/x-amz-json-1.1">>,
                   <<"x-amz-target", target>>>>
    IN  [path |-> IF url.path = "none" THEN "/" ELSE url.path,
         headers |-> named \o <<<<"x-amz-date", amz_date>>>>
             \o (IF signer.token = "none" THEN <<>> ELSE <<<<"x-amz-security-token", signer.token>>>>),
         body |-> body,
         authorization |-> SignV4(signer, named, body, amz_date)]

-----------------------------------------------------------------------------
(* The service                                                             *)

ValueOf(request, name) ==
    LET of == SelectSeq(request.headers, LAMBDA h : h[1] = name) IN IF of = <<>> THEN "none" ELSE of[1][2]

(* It wants what it acts on to be signed: the host, the date, the target,  *)
(* and a token when it is sent.                                            *)
ServiceAccepts(request, secret) ==
    LET a    == request.authorization
        sent == {request.headers[i][1] : i \in DOMAIN request.headers}
        date == ValueOf(request, "x-amz-date")
        key  == HmacSha256(HmacSha256(HmacSha256(HmacSha256(secret, a.scope[1]), a.scope[2]), a.scope[3]), a.scope[4])
        kept == SelectSeq(HeaderNames, LAMBDA n : n \in {a.signed[i] : i \in DOMAIN a.signed})
        canonical == [method |-> "POST", path |-> request.path,
                      headers |-> [i \in DOMAIN kept |-> <<kept[i], ValueOf(request, kept[i])>>],
                      signed |-> kept, payload |-> request.body]
    IN  /\ sent \ {"content-type"} \subseteq {a.signed[i] : i \in DOMAIN a.signed}
        /\ a.scope[1] = Datestamp(date) /\ a.scope[4] = TERMINATOR
        /\ a.signature = HmacSha256(key, <<date, a.scope, canonical>>)

-----------------------------------------------------------------------------

(* Every request a client that was built sends is accepted, with a session *)
(* token and without, and none is accepted any more once its body, its     *)
(* path or the value of one of its headers is another                      *)
(* (aws_sigv4.rs:118-183, aws_kms_keysource.rs:119-151 and 194-217).       *)
SignedIsWhatIsSent(signer, url, target, body, amz_date, other) ==
    AuthorityOf(url) # "" =>
        LET request == PostKms(signer, url, target, body, amz_date)
        IN  /\ ServiceAccepts(request, signer.secret)
            /\ ~ServiceAccepts([request EXCEPT !.body = other], signer.secret)
            /\ ~ServiceAccepts([request EXCEPT !.path = other], signer.secret)
            /\ \A i \in DOMAIN request.headers :
                LET value == IF request.headers[i][1] = "x-amz-date" THEN <<1, 1, 1, 0, 0, 0>> ELSE other
                IN  ~ServiceAccepts([request EXCEPT !.headers[i][2] = value], signer.secret)

(* The stamp a second later is the one a clock and the calendar show: the *)
(* seconds carry into the day, and the days into months and years          *)
(* (aws_kms_keysource.rs:228-250).                                         *)
StampsFollow(day, second) ==
    LET t    == FormatAmzDate(day, second)
        then == IF second = 86399 THEN FormatAmzDate(day + 1, 0) ELSE FormatAmzDate(day, second + 1)
        leap == (t[1] % 4 = 0 /\ t[1] % 100 # 0) \/ t[1] % 400 = 0
        last == IF t[2] = 2 THEN (IF leap THEN 29 ELSE 28) ELSE IF t[2] \in {4, 6, 9, 11} THEN 30 ELSE 31
        tops == <<9999, 12, last, 23, 59, 59>>
        i    == CHOOSE k \in 1..6 : t[k] # tops[k] /\ \A j \in k + 1..6 : t[j] = tops[j]
    IN  then = [k \in 1..6 |-> IF k < i THEN t[k] ELSE IF k = i THEN t[k] + 1 ELSE IF k <= 3 THEN 1 ELSE 0]
=============================================================================
