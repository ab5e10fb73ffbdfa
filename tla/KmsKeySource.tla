------------------------------ MODULE KmsKeySource ------------------------------
(***************************************************************************)
(* Signing in a cloud key service (mcps-proxy/src/kms_keysource.rs,        *)
(* aws_kms_keysource.rs, gcp_kms_keysource.rs, delegated_tls.rs and        *)
(* delegated_response_signer.rs): the public key is fetched once, at the   *)
(* start, and pinned; every signature is checked against it before it is   *)
(* used.  A bearer token is fetched from the metadata server, which stamps *)
(* it at some moment between the call and the reply, and is shared by all  *)
(* threads until shortly before it runs out.  The two services are         *)
(* external: one may put another key behind the same name.                 *)
(***************************************************************************)
EXTENDS Integers

CONSTANTS
    Threads,
    Margin,         \* TOKEN_REFRESH_MARGIN
    Lifetimes,      \* what expires_in may say; 0 stands for a reply without it
    MaxTime, MaxVersion     \* bounds

ASSUME TokenAssumption == Margin \in Nat /\ Lifetimes \subseteq Nat

VARIABLES
    kmsNow,     \* the system clock
    service,    \* the version of the key behind the name
    pinned,     \* verify_key and spki_der; 0 before the start
    token_cache,    \* MetadataServerTokenSource::cache
    calls       \* each thread's call

kmsVars == <<kmsNow, service, pinned, token_cache, calls>>

NoToken == [good_until |-> -1, expires_at |-> -1]
Quiet == [pc |-> "idle", now |-> 0, bearer |-> NoToken, lifetime |-> 0, cached |-> FALSE, key |-> 0,
          reply |-> [kind |-> "none"]]

KmsInit ==
    /\ kmsNow = 0 /\ service = 1 /\ pinned = 0 /\ token_cache = NoToken
    /\ calls = [t \in Threads |-> Quiet]

KmsTick == kmsNow < MaxTime /\ kmsNow' = kmsNow + 1 /\ UNCHANGED <<service, pinned, token_cache, calls>>
KeyIsReplaced ==
    service < MaxVersion /\ service' = service + 1 /\ UNCHANGED <<kmsNow, pinned, token_cache, calls>>

(* with_client and with_transport: a key that is not Ed25519 stops the     *)
(* start, and so it is never pinned.                                       *)
PinPublicKey ==
    /\ pinned = 0 /\ pinned' = service
    /\ UNCHANGED <<kmsNow, service, token_cache, calls>>

At(t, pc) == calls[t].pc = pc
Failed(t) == calls' = [calls EXCEPT ![t] = [Quiet EXCEPT !.reply = [kind |-> "error"]]]

(* A use of access_token: the clock is read before the cache is.           *)
ReadNow(t) ==
    /\ At(t, "idle") /\ pinned # 0
    /\ calls' = [calls EXCEPT ![t] = [Quiet EXCEPT !.pc = "bearer", !.now = kmsNow]]
    /\ UNCHANGED <<kmsNow, service, pinned, token_cache>>

LookUpToken(t) ==
    /\ At(t, "bearer")
    /\ calls' = [calls EXCEPT ![t] =
           IF calls[t].now + Margin < token_cache.expires_at
           THEN [calls[t] EXCEPT !.pc = "sign", !.bearer = token_cache, !.cached = TRUE]
           ELSE [calls[t] EXCEPT !.pc = "fetch"]]
    /\ UNCHANGED <<kmsNow, service, pinned, token_cache>>

FetchToken(t) ==
    /\ At(t, "fetch")
    /\ \/ Failed(t)
       \/ \E life \in Lifetimes :
            calls' = [calls EXCEPT ![t] =
                [calls[t] EXCEPT !.pc = "store", !.lifetime = life, !.bearer.good_until = kmsNow + life]]
    /\ UNCHANGED <<kmsNow, service, pinned, token_cache>>

ExpiryFromNow_AtStore(call) == kmsNow + call.lifetime

(* Counted from before the fetch.                                          *)
ExpiryFromNow(call) == call.now + call.lifetime

StoreToken(t) ==
    /\ At(t, "store")
    /\ token_cache' = [calls[t].bearer EXCEPT !.expires_at = ExpiryFromNow(calls[t])]
    /\ calls' = [calls EXCEPT ![t].pc = "sign"]
    /\ UNCHANGED <<kmsNow, service, pinned>>

(* The service signs with the key it has now, sends something that is no   *)
(* signature, or fails.                                                    *)
PostSign(t) ==
    /\ At(t, "sign")
    /\ \/ Failed(t)
       \/ \E answer \in {"signature", "other"} :
            calls' = [calls EXCEPT ![t].pc = "verify",
                                   ![t].key = IF answer = "signature" THEN service ELSE 0]
    /\ UNCHANGED <<kmsNow, service, pinned, token_cache>>

(* The rest of sign_raw_ed25519, which the TLS signer ends with and which  *)
(* KmsResponseSigner repeats on what it returned.                          *)
SignRawEd25519(t) ==
    /\ At(t, "verify")
    /\ IF calls[t].key # pinned THEN Failed(t)
       ELSE calls' = [calls EXCEPT ![t] =
                [Quiet EXCEPT !.reply = [kind |-> "signed", key |-> calls[t].key]]]
    /\ UNCHANGED <<kmsNow, service, pinned, token_cache>>

KmsNext ==
    \/ KmsTick \/ KeyIsReplaced \/ PinPublicKey
    \/ \E t \in Threads :
        ReadNow(t) \/ LookUpToken(t) \/ FetchToken(t) \/ StoreToken(t) \/ PostSign(t) \/ SignRawEd25519(t)

KmsSpec == KmsInit /\ [][KmsNext]_kmsVars

-----------------------------------------------------------------------------

(* A signature that is used was made by the key whose public half the      *)
(* proxy advertises and its certificate was checked against at the start,  *)
(* also after the service has moved to another key                         *)
(* (aws_kms_keysource.rs:411-466, gcp_kms_keysource.rs:459-514).           *)
EmittedUnderPinnedKey ==
    \A t \in Threads : calls[t].reply.kind = "signed" => calls[t].reply.key = pinned

(* A token out of the cache had more than the margin left when the call    *)
(* read the clock, however long the fetch that brought it took and         *)
(* whichever of several fetches was stored last                            *)
(* (gcp_kms_keysource.rs:94-97 and 122-183).                               *)
CachedTokenIsLive ==
    \A t \in Threads : calls[t].cached => calls[t].now + Margin < calls[t].bearer.good_until

(* The remote key sources as the proxy uses them: no signature under       *)
(* another key than the pinned one, and none asked for under a bearer      *)
(* token that is about to lapse.                                           *)
KmsSigningIsSafe == EmittedUnderPinnedKey /\ CachedTokenIsLive
=============================================================================
