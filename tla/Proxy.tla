-------------------------------- MODULE Proxy --------------------------------
(***************************************************************************)
(* The verifying sidecar (mcps-proxy): its single-threaded serve loop,     *)
(* Proxy::handle_with_transport from the arrival of a message to the       *)
(* reply, the durable replay cache it owns, and the inner server behind    *)
(* it.  Time, revocation, process death and power loss interleave with the *)
(* handling of a message at every step.                                    *)
(***************************************************************************)
EXTENDS DurableReplay, Verification

CONSTANTS
    Msg,        \* what the network may deliver
    NoMsg,      \* no message being handled
    BodyOf,     \* the structure of each message
    RequestOf,  \* the request (key and window) each message claims to be
    SignerOf,   \* the signer each message claims
    Signed,     \* the messages whose signature verifies under that signer's key
    Signer,
    Config      \* the configurations to consider

ASSUME ProxyAssumption ==
    /\ NoMsg \notin Msg
    /\ BodyOf \in [Msg -> Message]
    /\ RequestOf \in [Msg -> Request]
    /\ SignerOf \in [Msg -> Signer]
    /\ Signed \subseteq Msg
    /\ Config \subseteq [policy : BOOLEAN, lb_assertion : BOOLEAN,
                       transport_binding : BOOLEAN, version : VersionPolicy]

VARIABLES
    config,      \* which gates are configured, and the version policy
    trusted,     \* the signers the trust resolver resolves
    stage,       \* the next step of the handling
    msg,         \* the message being handled
    inner,       \* what the inner server returned for it
    reply,       \* the last reply, and whether the inner server was touched
    dispatched,  \* history: how often each request reached the inner server
    panicked     \* history: the process died of a panic

handling  == <<stage, msg, inner, reply, dispatched, panicked>>
proxyVars == <<vars, config, trusted, handling>>

(* What the inner server's bytes are, as far as signing them tells apart.  *)
InnerReply == {"object", "wrapped", "badMeta", "notCanonical", "notJson"}

Stage == {"idle", "structure", "resolve", "replay", "policy", "assertion",
          "binding", "forward", "dispatch", "sign"}

ProxyInit ==
    /\ Init
    /\ config \in Config
    /\ trusted = Signer
    /\ stage = "idle"
    /\ msg = NoMsg
    /\ inner = "none"
    /\ reply = [kind |-> "none", touched |-> FALSE]
    /\ dispatched = [r \in Request |-> 0]
    /\ panicked = FALSE

(* The handling ends with a reply; the serve loop waits for the next.      *)
Reply(kind) ==
    /\ stage' = "idle"
    /\ msg' = NoMsg
    /\ inner' = "none"
    /\ reply' = [kind |-> kind, touched |-> inner # "none"]
    /\ UNCHANGED <<dispatched, panicked>>

Goto(s) ==
    /\ stage' = s
    /\ UNCHANGED <<msg, inner, reply, dispatched, panicked>>

(***************************************************************************)
(* Verification, with the replay check last.                               *)
(***************************************************************************)

Receive(m) ==
    /\ stage = "idle"
    /\ Serve
    /\ stage' = "structure"
    /\ msg' = m
    /\ UNCHANGED <<inner, reply, dispatched, panicked, config, trusted>>

(* The pure checks: structure, audience and freshness at arrival time.     *)
WellFormed(m) == VerifyRequestDispatch(BodyOf[m], config.version) = "ok"

Structure ==
    /\ stage = "structure"
    /\ IF WellFormed(msg) /\ CheckFreshness(RequestOf[msg], now)
       THEN Goto("resolve") /\ UNCHANGED vars
       ELSE Reply("error") /\ Abandon
    /\ UNCHANGED <<config, trusted>>

ResolveAndVerify_Unsigned ==
    /\ stage = "resolve"
    /\ \/ SignerOf[msg] \in trusted /\ Goto("replay") /\ Call(RequestOf[msg])
       \/ Reply("error") /\ Abandon
    /\ UNCHANGED <<config, trusted>>

(* The signer's key is resolved and the signature verified under it; the   *)
(* resolver may be unavailable.                                            *)
ResolveAndVerify ==
    /\ stage = "resolve"
    /\ \/ /\ SignerOf[msg] \in trusted /\ msg \in Signed
          /\ Goto("replay") /\ Call(RequestOf[msg])
       \/ Reply("error") /\ Abandon
    /\ UNCHANGED <<config, trusted>>

ReplayCheck_NoErrorArm ==
    /\ stage = "replay"
    /\ Step
    /\ \/ pc' # "idle" /\ Goto("replay")
       \/ pc' = "idle" /\ verdict' = "fresh" /\ Goto("policy")
       \/ pc' = "idle" /\ verdict' = "replay" /\ Reply("error")
       \/ pc' = "idle" /\ verdict' = "unavailable" /\ Goto("replay")
    /\ UNCHANGED <<config, trusted>>

ReplayCheck_FailsOpen ==
    /\ stage = "replay"
    /\ Step
    /\ \/ pc' # "idle" /\ Goto("replay")
       \/ pc' = "idle" /\ verdict' # "replay" /\ Goto("policy")
       \/ pc' = "idle" /\ verdict' = "replay" /\ Reply("error")
    /\ UNCHANGED <<config, trusted>>

(* check_and_insert, one of its steps at a time.                           *)
ReplayCheck ==
    /\ stage = "replay"
    /\ Step
    /\ \/ pc' # "idle" /\ Goto("replay")
       \/ pc' = "idle" /\ verdict' = "fresh" /\ Goto("policy")
       \/ pc' = "idle" /\ verdict' # "fresh" /\ Reply("error")
    /\ UNCHANGED <<config, trusted>>

(***************************************************************************)
(* The gates between verification and dispatch.                            *)
(***************************************************************************)

(* A gate that is configured allows or denies.                             *)
Gate(s, configured, next) ==
    /\ stage = s
    /\ Goto(next) \/ (configured /\ Reply("error"))
    /\ UNCHANGED <<vars, config, trusted>>

Policy == Gate("policy", config.policy, "assertion")

Assertion_Unguarded == Gate("assertion", config.lb_assertion, "binding")

(* An assertion verifier without a binding policy is a misconfiguration.   *)
Assertion ==
    /\ stage = "assertion"
    /\ \/ (config.lb_assertion => config.transport_binding) /\ Goto("binding")
       \/ config.lb_assertion /\ Reply("error")
    /\ UNCHANGED <<vars, config, trusted>>

Binding == Gate("binding", config.transport_binding, "forward")

(***************************************************************************)
(* Dispatch and signing.                                                   *)
(***************************************************************************)

(* The forwarded request is built, which cannot fail for a verified one,   *)
(* and written to the inner server.                                        *)
Forward ==
    /\ stage = "forward"
    /\ stage' = "dispatch"
    /\ dispatched' = [dispatched EXCEPT ![RequestOf[msg]] = @ + 1]
    /\ UNCHANGED <<vars, config, trusted, msg, inner, reply, panicked>>

Dispatch ==
    /\ stage = "dispatch"
    /\ inner' \in InnerReply
    /\ stage' = "sign"
    /\ UNCHANGED <<vars, config, trusted, msg, reply, dispatched, panicked>>

(* An object result is signed in place, any other result and any error is  *)
(* wrapped first.  The signer (a device, a remote key) may fail; bytes that*)
(* are not JSON, or hold a number outside the canonical domain, cannot be  *)
(* signed.                                                                 *)
Sign ==
    /\ stage = "sign"
    /\ \/ inner \in {"object", "wrapped"} /\ Reply("signed")
       \/ inner # "badMeta" /\ Reply("error")
    /\ UNCHANGED <<vars, config, trusted>>

(* result._meta is present but not an object: indexing it panics, and      *)
(* nothing between here and main catches a panic.                          *)
SignPanics ==
    /\ stage = "sign"
    /\ inner = "badMeta"
    /\ panicked' = TRUE
    /\ stage' = "idle" /\ msg' = NoMsg /\ inner' = "none"
    /\ Crash
    /\ UNCHANGED <<config, trusted, reply, dispatched>>

(***************************************************************************)
(* The environment.                                                        *)
(***************************************************************************)

Revoke ==
    /\ \E s \in trusted : trusted' = trusted \ {s}
    /\ UNCHANGED <<vars, config, handling>>

Time == Tick /\ UNCHANGED <<config, trusted, handling>>

Death ==
    /\ Crash \/ PowerLoss
    /\ stage' = "idle" /\ msg' = NoMsg /\ inner' = "none"
    /\ UNCHANGED <<config, trusted, reply, dispatched, panicked>>

Restart == Open /\ UNCHANGED <<config, trusted, handling>>

Handle ==
    \/ Structure \/ ResolveAndVerify \/ ReplayCheck
    \/ Policy \/ Assertion \/ Binding
    \/ Forward \/ Dispatch \/ Sign \/ SignPanics

ProxyNext ==
    \/ \E m \in Msg : Receive(m)
    \/ Handle
    \/ Revoke \/ Time \/ Death \/ Restart

ProxySpec == ProxyInit /\ [][ProxyNext]_proxyVars

(* The serve thread runs while the process does.  That each call it makes  *)
(* returns is part of this: for the dispatch to the inner server,          *)
(* SubprocessInner says when it does.                                      *)
FairSpec == ProxySpec /\ WF_proxyVars(Handle)

-----------------------------------------------------------------------------
(* The inner server sees a request at most once, however often it is         *)
(* delivered and wherever the proxy dies and restarts.                       *)
DispatchedAtMostOnce == \A r \in Request : dispatched[r] <= 1

(* Only a well-formed message with a valid signature can make the cache      *)
(* remember its key, on disk included: a message that fails any check before *)
(* the replay check cannot burn the nonce of somebody else's request.        *)
OnlyAuthenticBurnsNonce ==
    \A k \in Present(entries) \cup Present(file) :
        \E m \in Signed : WellFormed(m) /\ KeyOf[RequestOf[m]] = k

(* A proxy that verifies ingress assertions but has no binding policy to     *)
(* consume the asserted identity never reaches the inner server: the         *)
(* misconfiguration fails closed at run time.                                *)
UnboundAssertionNeverDispatches ==
    config.lb_assertion /\ ~config.transport_binding =>
        \A r \in Request : dispatched[r] = 0

(* Every message whose handling starts is replied to, or dies with the       *)
(* process: no step of the handling waits forever.                           *)
EveryMessageAnswered == stage # "idle" ~> stage = "idle"

(* handle_with_transport: "Never panics."                                    *)
NeverPanics == ~panicked

(* handle_with_transport: "on any failure, an unsigned JSON-RPC error        *)
(* WITHOUT touching the inner server".                                       *)
ErrorMeansUntouched == reply.kind = "error" => ~reply.touched
=============================================================================
