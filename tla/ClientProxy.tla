----------------------------- MODULE ClientProxy -----------------------------
(***************************************************************************)
(* The client proxy (mcps-client-proxy, proxy and mcps-client-proxy-cli,   *)
(* main): a local program speaks plain MCP to it, it signs the request,    *)
(* sends it to the remote endpoint, verifies the answer and hands plain    *)
(* MCP back.  It serves one call at a time, but the clock moves, and the   *)
(* network may deliver anything, while a call waits for its answer.        *)
(***************************************************************************)
EXTENDS ClientCore, Responses

CONSTANTS
    Route,      \* the registered routes: their mode, legacy permission, expected signer
    Id,         \* JSON-RPC ids
    Nonce,      \* nonces
    Answers,    \* what the inner server answers
    Ttl,        \* lifetime of a request, in seconds
    signer_policy, \* the signer policy of this proxy
    MaxTime,    \* bound on the clock
    MaxCalls    \* bound on the number of signed requests

ASSUME RouteAssumption ==
    Route \subseteq [mode : EnforcementMode, legacy_allowed : BOOLEAN, signer : ServerSigner]

ASSUME AnswersAssumption == Answers \subseteq InnerAnswer

(* A lifetime may be zero or negative: the program takes any i64.           *)
ASSUME TimesAssumption == Ttl \in Int /\ MaxTime \in Nat

VARIABLES
    clock,      \* the system clock, which may step in either direction
    store,      \* the correlation store
    call,       \* the call in flight, Idle if there is none
    sent,       \* every request put on the wire
    answered    \* how the last call ended

vars == <<clock, store, call, sent, answered>>

Idle == [phase |-> "idle"]

Failure(error) == [outcome |-> "error", error |-> error, shape |-> "none",
                   call |-> Idle, reply |-> Idle, at |-> 0]

(***************************************************************************)
(* handle, up to the round trip.  The hash of a signed request is fresh:   *)
(* it stands for the bytes signed, nonce and times included.               *)
(***************************************************************************)
CallParams(id, nonce) ==
    [id |-> id, nonce |-> nonce, now |-> clock, deadline |-> clock + Ttl,
     hash |-> Cardinality(sent) + 1]

(* The refusals before anything is registered: the registry's, a plain      *)
(* request without a method, the binding's and the signer's.  The binding   *)
(* is made before the signer is asked.                                      *)
RefusalBeforeSigning(known_route, has_method, provider, plain, signer) == FirstFailure(<<
    Check(known_route, "UnknownRoute"),
    Check(has_method, "MalformedRequest"),
    Result(ResolveAuthorizationBinding(provider, BindingTypeTag)),
    Result(BuildSignedRequestWithSigner(plain, Provide(provider), signer, signer_policy)) >>)

(* Every way a call can be refused this early.                              *)
EarlyRefusals ==
    {RefusalBeforeSigning(known_route, has_method, provider, plain, signer) :
        known_route \in BOOLEAN, has_method \in BOOLEAN, provider \in Provider,
        plain \in {p \in PlainRequest : p.canonicalization_id = "allowed"}, signer \in Signer} \ {"ok"}

RefuseEarly(error) ==
    /\ call = Idle
    /\ answered' = Failure(error)
    /\ UNCHANGED <<clock, store, call, sent>>

Send(route, id, nonce) ==
    LET request    == CallParams(id, nonce)
        registered == Register(store, request, request.now)
    IN  /\ call = Idle
        /\ Cardinality(sent) < MaxCalls
        /\ store' = registered.store
        /\ IF registered.error = "ok"
           THEN /\ call' = [phase |-> "forwarding", route |-> route, request |-> request]
                /\ sent' = sent \cup {request}
                /\ UNCHANGED answered
           ELSE /\ answered' = Failure(ToMcpsError(registered.error))
                /\ UNCHANGED <<call, sent>>
        /\ UNCHANGED clock

(***************************************************************************)
(* handle, after the round trip.                                           *)
(***************************************************************************)
TransportFailed ==
    /\ call # Idle
    /\ store' = Cancel(store, call.request.id)
    /\ LET decision == Decide(call.route.mode, call.route.legacy_allowed,
                              <<"Absent", "TransportFailurePreEvidence">>)
       IN  answered' = Failure(IF decision[1] = "FailClosed" THEN decision[2] ELSE "Transport")
    /\ call' = Idle
    /\ UNCHANGED <<clock, sent>>

(* The plain answer always puts what it unwraps under "result".             *)
PlainResponseFromVerified(reply) == [member |-> "result", kind |-> UnwrapVerifiedResult(reply)]

Ending(decision, reply) ==
    CASE decision[1] = "AcceptMcps" ->
            [outcome |-> "McpsVerified", error |-> "none",
             shape |-> PlainResponseFromVerified(reply),
             call |-> call, reply |-> reply, at |-> clock]
      [] decision[1] = "FallBackToLegacy" ->
            [outcome |-> "LegacyExplicit", error |-> "none", shape |-> "none",
             call |-> call, reply |-> reply, at |-> clock]
      [] decision[1] = "FailClosed" -> Failure(decision[2])

(* The entry is taken with the clock reading of the start of the call.      *)
Receive(reply) ==
    /\ call # Idle
    /\ LET verdict == VerifySignedResponse(reply, call.request.hash, call.route.signer)
           taken   == TakeForResponse(store, call.request.id, call.request.now)
           decision == Decide(call.route.mode, call.route.legacy_allowed,
                              ClassifyResponseResult(verdict))
       IN  /\ store' = taken.store
           /\ answered' = IF taken.error = "ok" THEN Ending(decision, reply)
                          ELSE Failure(ToMcpsError(taken.error))
    /\ call' = Idle
    /\ UNCHANGED <<clock, sent>>

-----------------------------------------------------------------------------
(* The network: the remote endpoint's answers to any request it was sent,   *)
(* and its answers to the call in flight with one thing wrong, among them   *)
(* the answer of an endpoint without MCP-S.                                 *)
Genuine ==
    {BuildSignedResponse("draft-02", request.hash, signer, answer) :
        request \in sent, signer \in ServerSigner, answer \in Answers}

Flawed ==
    UNION {{[r EXCEPT !.signature = "bad"], [r EXCEPT !.key = "unknown"],
            [r EXCEPT !.key = "unavailable"], [r EXCEPT !.shape = "unknown"],
            [r EXCEPT !.canonicalization_id = "known"], [r EXCEPT !.envelope = "draft-01"],
            [r EXCEPT !.top = "unparsable"], [r EXCEPT !.jcs = FALSE],
            [r EXCEPT !.envelope = "absent"]} :
                r \in {r \in Genuine : /\ r.content = {"field"}
                                       /\ r.request_hash = call.request.hash
                                       /\ r.server_signer = call.route.signer}}

Tick ==
    /\ clock' \in (0..MaxTime) \ {clock}
    /\ UNCHANGED <<store, call, sent, answered>>

Init ==
    /\ clock \in 0..MaxTime
    /\ store = EmptyStore
    /\ call = Idle
    /\ sent = {}
    /\ answered = Failure("none")

Next ==
    \/ \E error \in EarlyRefusals : RefuseEarly(error)
    \/ \E route \in Route, id \in Id, nonce \in Nonce : Send(route, id, nonce)
    \/ TransportFailed
    \/ call # Idle /\ \E reply \in Genuine \cup Flawed : Receive(reply)
    \/ Tick

Spec == Init /\ [][Next]_vars

-----------------------------------------------------------------------------
(* Whatever the network delivers, and however stale it is, an answer handed *)
(* to the program as verified is one the route's server signed for the very *)
(* request of this call (handle, verify_signed_response).                   *)
AcceptedAnswerIsForThisCall ==
    answered.outcome = "McpsVerified" =>
        /\ answered.reply.signature = "good" /\ answered.reply.key = "trusted"
        /\ answered.reply.server_signer = answered.call.route.signer
        /\ answered.reply.request_hash = answered.call.request.hash

(* A call that ended, however it ended, left nothing outstanding: its id    *)
(* can be used by the next call (handle's cancel and take_for_response).    *)
NothingOutstandingBetweenCalls ==
    DOMAIN store.pending = IF call = Idle THEN {} ELSE {call.request.id}

(* Two requests on the wire with one nonce have windows that do not         *)
(* overlap, also when calls were cancelled or completed in between and when *)
(* the clock stepped back (register, and the window that completion and     *)
(* cancellation leave alone).                                               *)
NonceWindowsDisjoint ==
    \A a, b \in sent : a.nonce = b.nonce /\ a # b =>
        a.deadline <= b.now \/ b.deadline <= a.now

(* An answer without evidence reaches the program only on a route that      *)
(* allows legacy twice over, and never when it carries evidence that is bad *)
(* (classify_response_result, decide).                                      *)
BadEvidenceNeverFallsBack ==
    answered.outcome = "LegacyExplicit" =>
        /\ answered.reply.envelope = "absent"
        /\ answered.call.route.legacy_allowed
        /\ answered.call.route.mode = "AllowLegacyExplicit"

(* What the local program can rely on when a call ends (handle): an answer  *)
(* passed on as verified is the answer to this call, one passed on without  *)
(* evidence was allowed to be, and the next call starts from nothing.       *)
AnswersAreEarned ==
    AcceptedAnswerIsForThisCall /\ NothingOutstandingBetweenCalls /\ BadEvidenceNeverFallsBack

(* What the inner server answered as an error reaches the program as a      *)
(* JSON-RPC error (unwrap.rs on InnerError, plain_response_from_verified).  *)
InnerErrorSurfacesAsError ==
    answered.outcome = "McpsVerified" /\ answered.shape.kind = "InnerError"
        => answered.shape.member = "error"

(* An answer that arrives after the deadline of its request is not          *)
(* delivered (PendingRequest's deadline_unix, handle's correlation step).   *)
LateAnswerFailsClosed ==
    answered.outcome = "McpsVerified" => answered.at <= answered.call.request.deadline
=============================================================================
