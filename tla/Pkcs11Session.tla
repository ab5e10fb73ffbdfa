----------------------------- MODULE Pkcs11Session -----------------------------
(***************************************************************************)
(* Signing on a PKCS#11 token (mcps-proxy/src/pkcs11_keysource.rs over     *)
(* pkcs11_native.rs): one logged-in session, kept behind a mutex, serves   *)
(* the response signer and the TLS signer; an operation that finds the     *)
(* session dead opens one more and is tried once more.                     *)
(*                                                                         *)
(* The token is external: it may reset, let a login lapse, glitch for a    *)
(* while, and have the key pair behind a label replaced, private half      *)
(* first.  Closing the last session logs the application out, and a login  *)
(* while it is logged in is refused.                                       *)
(***************************************************************************)
EXTENDS Naturals, FiniteSets

CONSTANTS
    Handles,        \* session handles, at least three
    MaxVersion      \* how often the key pair is replaced (a bound)

ASSUME HandlesAssumption == Handles \subseteq Nat \ {0}

Signers == {"response", "tls"}
NoHandle == 0
Unsigned == [kind |-> "none"]
KeyError == [kind |-> "error"]

VARIABLES
    token,      \* [sessions, logged_in, device, private, public]
    cached,     \* AmortizedSession::cached
    holder,     \* who holds its mutex
    signers     \* each signer's call: where it is, its session, which attempt, the key it signed with,
                \* whether the token was sound throughout, and the reply

pkcs11Vars == <<token, cached, holder, signers>>

Unheld == "unheld"
Resting == [pc |-> "idle", handle |-> NoHandle, attempt |-> 1, key |-> 0, calm |-> FALSE, reply |-> Unsigned]

Pkcs11Init ==
    /\ token = [sessions |-> {}, logged_in |-> FALSE, device |-> "ok", private |-> 1, public |-> 1]
    /\ cached = NoHandle /\ holder = Unheld
    /\ signers = [c \in Signers |-> Resting]

-----------------------------------------------------------------------------
(* The token                                                               *)

Sound(t) == t.device = "ok" /\ t.private = t.public /\ (t.sessions # {} => t.logged_in)

Without(t, h) ==
    LET left == t.sessions \ {h}
    IN  [t EXCEPT !.sessions = left, !.logged_in = t.logged_in /\ left # {}]

CloseSession_Forgotten(t, h) == t

(* Drop for LoggedInSession: C_CloseSession, its result ignored.           *)
CloseSession(t, h) == Without(t, h)

Disturbed == signers' = [c \in Signers |-> [signers[c] EXCEPT !.calm = FALSE]]

TokenResets ==
    /\ token.sessions # {}
    /\ token' = [token EXCEPT !.sessions = {}, !.logged_in = FALSE]
    /\ Disturbed /\ UNCHANGED <<cached, holder>>

LoginLapses ==
    /\ token.logged_in
    /\ token' = [token EXCEPT !.logged_in = FALSE]
    /\ Disturbed /\ UNCHANGED <<cached, holder>>

DeviceGlitches ==
    /\ token' = [token EXCEPT !.device = IF token.device = "ok" THEN "error" ELSE "ok"]
    /\ Disturbed /\ UNCHANGED <<cached, holder>>

PairIsReplaced ==
    /\ \/ token.private < MaxVersion /\ token' = [token EXCEPT !.private = @ + 1]
       \/ token.public < token.private /\ token' = [token EXCEPT !.public = token.private]
    /\ Disturbed /\ UNCHANGED <<cached, holder>>

-----------------------------------------------------------------------------
(* with_session                                                            *)

CallSigner(c) ==
    /\ signers[c].pc = "idle"
    /\ signers' = [signers EXCEPT ![c] = [Resting EXCEPT !.pc = "lock", !.calm = Sound(token)]]
    /\ UNCHANGED <<token, cached, holder>>

TakeSession(c) ==
    /\ signers[c].pc = "lock" /\ holder = Unheld
    /\ holder' = c
    /\ signers' = [signers EXCEPT ![c].pc = IF cached = NoHandle THEN "open" ELSE "find",
                                  ![c].handle = cached]
    /\ UNCHANGED <<token, cached>>

(* The guard is dropped with the call.                                     *)
Reply(c, reply) ==
    /\ signers' = [signers EXCEPT ![c] = [Resting EXCEPT !.calm = signers[c].calm, !.reply = reply]]
    /\ holder' = Unheld

(* open_logged_in: C_OpenSession, then C_Login; a session that cannot log  *)
(* in is closed.  The first attempt caches the session before it is used.  *)
OpenLoggedIn(c) ==
    /\ signers[c].pc = "open"
    /\ IF token.device # "ok" \/ token.logged_in
       THEN Reply(c, KeyError) /\ UNCHANGED <<token, cached>>
       ELSE /\ \E h \in Handles \ token.sessions :
                /\ token' = [token EXCEPT !.sessions = @ \cup {h}, !.logged_in = TRUE]
                /\ signers' = [signers EXCEPT ![c].pc = "find", ![c].handle = h]
                /\ cached' = IF signers[c].attempt = 1 THEN h ELSE cached
            /\ UNCHANGED holder

(* The session is dead: it is dropped, and the operation tried once more   *)
(* on a new one.                                                           *)
SessionInvalid(c) ==
    /\ token' = CloseSession(token, signers[c].handle)
    /\ cached' = NoHandle
    /\ IF signers[c].attempt = 1
       THEN /\ signers' = [signers EXCEPT ![c].pc = "open", ![c].handle = NoHandle, ![c].attempt = 2]
            /\ UNCHANGED holder
       ELSE Reply(c, KeyError)

(* An error another session would not cure.  A second attempt's session is *)
(* not cached, so it goes.                                                 *)
FailSigning(c) ==
    /\ IF signers[c].attempt = 1 THEN UNCHANGED <<token, cached>>
       ELSE token' = CloseSession(token, signers[c].handle) /\ UNCHANGED cached
    /\ Reply(c, KeyError)

FinishSigning(c, reply) ==
    /\ cached' = signers[c].handle
    /\ Reply(c, reply) /\ UNCHANGED token

Alive(c) == token.device = "ok" /\ signers[c].handle \in token.sessions

(* find_key for the private half: after a lapse the token may say so, or   *)
(* hide the object.                                                        *)
FindPrivate(c) ==
    /\ signers[c].pc = "find"
    /\ \/ ~Alive(c) /\ SessionInvalid(c)
       \/ Alive(c) /\ ~token.logged_in /\ (SessionInvalid(c) \/ FailSigning(c))
       \/ /\ Alive(c) /\ token.logged_in
          /\ signers' = [signers EXCEPT ![c].pc = "sign"]
          /\ UNCHANGED <<token, cached, holder>>

(* C_SignInit and C_Sign.  The TLS signer returns what the token signed;   *)
(* the response signer looks at it first.                                  *)
SignEddsa(c) ==
    /\ signers[c].pc = "sign"
    /\ \/ ~(Alive(c) /\ token.logged_in) /\ SessionInvalid(c)
       \/ /\ Alive(c) /\ token.logged_in
          /\ IF c = "tls" THEN FinishSigning(c, [kind |-> "signed", key |-> token.private])
             ELSE /\ signers' = [signers EXCEPT ![c].pc = "verify", ![c].key = token.private]
                  /\ UNCHANGED <<token, cached, holder>>

(* verification_key and verify_before_emit: the public half is read again  *)
(* for every signature.                                                    *)
VerifyBeforeEmit(c) ==
    /\ signers[c].pc = "verify"
    /\ \/ ~Alive(c) /\ SessionInvalid(c)
       \/ Alive(c) /\ token.public # signers[c].key /\ FailSigning(c)
       \/ /\ Alive(c) /\ token.public = signers[c].key
          /\ FinishSigning(c, [kind |-> "signed", key |-> signers[c].key])

SignerStep(c) == TakeSession(c) \/ OpenLoggedIn(c) \/ FindPrivate(c) \/ SignEddsa(c) \/ VerifyBeforeEmit(c)

Pkcs11Next ==
    \/ \E c \in Signers : CallSigner(c) \/ SignerStep(c)
    \/ TokenResets \/ LoginLapses \/ DeviceGlitches \/ PairIsReplaced

Pkcs11Spec == Pkcs11Init /\ [][Pkcs11Next]_pkcs11Vars

(* The calls are the proxy's own threads; a mutex that is free again and   *)
(* again is taken in the end.                                              *)
Pkcs11Fairness == \A c \in Signers : WF_pkcs11Vars(SignerStep(c)) /\ SF_pkcs11Vars(TakeSession(c))

-----------------------------------------------------------------------------

(* Nothing is left open on the token but the session that is cached or the *)
(* one in use: a reconnect never costs a session                           *)
(* (pkcs11_keysource.rs:149-230, pkcs11_native.rs:267-275 and 667-681).    *)
SessionsAreAccounted ==
    token.sessions \subseteq {cached} \cup {signers[c].handle : c \in Signers}

(* A call during which the token was sound signs, whatever state earlier   *)
(* resets, glitches and failed calls left the cache in: no fault outlasts  *)
(* its cause (pkcs11_keysource.rs:175-196).  A login that lapsed under an  *)
(* open session is excepted: it may show as a key that is not there.       *)
SoundTokenSigns ==
    \A c \in Signers : signers[c].pc = "idle" /\ signers[c].calm => signers[c].reply.kind = "signed"

(* A response signature leaves the proxy only while the token publishes    *)
(* the public half of the very key that made it, also when the pair is     *)
(* being replaced (pkcs11_keysource.rs:613-650).                           *)
EmittedUnderPublishedKey ==
    [][signers'["response"].reply.kind = "signed" /\ signers["response"].reply.kind # "signed"
          => signers'["response"].reply.key = token.public]_pkcs11Vars

(* The PKCS#11 key source over all faults of the token                     *)
(* (pkcs11_keysource.rs): no session leaks, no fault lingers, and nothing  *)
(* is emitted under a key that is not the published one.                   *)
Pkcs11IsSound == [](SessionsAreAccounted /\ SoundTokenSigns) /\ EmittedUnderPublishedKey

(* Every signing call returns, however often the token fails under it      *)
(* ("no unbounded retry loop", pkcs11_keysource.rs:140-198).               *)
EverySigningReturns == \A c \in Signers : signers[c].pc = "lock" ~> signers[c].pc = "idle"
=============================================================================
