------------------------------ MODULE PythonSdk ------------------------------
(***************************************************************************)
(* The Python SDK: its native core (sdk/python/src/lib.rs), which binds    *)
(* mcps-client-core, and the two transports a ClientSession of the mcp     *)
(* library runs over (transport.py, http_transport.py, streamable.py).     *)
(* Over HTTP every call is a round trip of its own, run as a task; the     *)
(* tasks share one correlation store.  Over stdio one task signs what the  *)
(* session writes and one verifies the lines that come back.  An exception *)
(* nobody catches ends the task group, and with it the transport.          *)
(*                                                                         *)
(* The session numbers its calls, so the id of a call and the hash of its  *)
(* request are both the call's number.                                     *)
(***************************************************************************)
EXTENDS ClientCore, Responses

CONSTANTS
    SdkSettings,  \* configurations of a connection (McpsConfig)
    SdkCalls,     \* bound on the number of calls
    SdkTtl,       \* ttl_seconds
    SdkTime,      \* bound on the clock
    SdkBodyLength \* bound on the messages of one body

VARIABLES
    clock,    \* the clock of the client
    settings, \* this connection's configuration
    table,    \* its correlation store
    trips,    \* the round trip of every call
    calls,    \* what the session knows of every call
    group     \* whether the task group still runs

sdkVars == <<clock, settings, table, trips, calls, group>>

-----------------------------------------------------------------------------
(* The native core: signing.                                                *)

SdkSigner == {"software", "dev_file", "non_exporting"}

(* The callback of a non-exporting signer may raise, or return no string.   *)
NewSigner(signer, revoked, callback) ==
    [expected |-> TRUE, revoked |-> revoked,
     custody  |-> CASE signer = "software"      -> "SoftwareHeldPrivate"
                    [] signer = "dev_file"      -> "DevFileUnprotected"
                    [] signer = "non_exporting" -> "NonExporting",
     signs    |-> signer = "non_exporting" => callback = "signature"]

NoBinding == [error |-> "absent", tag |-> "none", fields |-> "absent"]

OpaqueBinding(digest_alg) ==
    [error |-> "ok", tag |-> "opaque-bytes", fields |-> IF digest_alg = "sha256" THEN "ok" ELSE "malformed"]

(* Exactly one of the two ways to give the binding.                         *)
ResolveBinding(binding, digest_alg, digest_value) ==
    IF binding.error = "ok" /\ digest_alg = "absent" /\ ~digest_value THEN binding
    ELSE IF binding.error # "ok" /\ digest_alg # "absent" /\ digest_value THEN OpaqueBinding(digest_alg)
    ELSE [NoBinding EXCEPT !.error = "ValueError"]

EnforceBindingPolicy(allowed_types, binding) ==
    IF binding.tag \in allowed_types THEN "ok" ELSE "AuthorizationBindingTypeUnsupported"

(* The path of the transports: the policy decides before anything is signed.*)
SignRequestWithSigner(binding, plain, signer, policy) == FirstFailure(<<
    Result(binding.error), Result(BuildSignedRequestWithSigner(plain, binding, signer, policy)) >>)

(* The dev/test path over a raw seed: no policy is asked.                   *)
SignRequest(binding, plain, seed) == FirstFailure(<<
    Check(seed, "ValueError"), Result(binding.error), Result(BuildSignedRequest(plain)) >>)

(* The route's policy is asked of a provider's binding, not of raw digests. *)
BindingKwargs(config) ==
    LET provided == Provide(config.authorization)
    IN  IF config.authorization = "none"
        THEN [error |-> "ok",
              binding |-> ResolveBinding(NoBinding, config.digest_alg, config.digest_value)]
        ELSE [error |-> FirstFailure(<< Result(provided.error),
                            Result(IF config.restricted
                                   THEN EnforceBindingPolicy(config.allowed_types, provided)
                                   ELSE "ok") >>),
              binding |-> ResolveBinding(provided, "absent", FALSE)]

SignOutbound(config, plain, callback) ==
    LET kwargs == BindingKwargs(config)
    IN  FirstFailure(<< Result(kwargs.error),
            Result(SignRequestWithSigner(kwargs.binding, plain,
                       NewSigner(config.signer, config.revoked, callback), config.policy)) >>)

-----------------------------------------------------------------------------
(* The native core: verification.  Absent values are "none".                *)

SdkVerifyResponse(r, hash, expected_server_signer, mode, legacy_allowed) ==
    LET verdict  == IF expected_server_signer = "none" THEN VerifyResponseDraft02(r, hash)
                    ELSE VerifySignedResponse(r, hash, expected_server_signer)
        decision == Decide(mode, legacy_allowed, ClassifyResponseResult(verdict))
        audit    == AuditForDecision(decision)
    IN  [decision |-> decision[1], path |-> audit.path, outcome |-> audit.outcome,
         reason        |-> IF decision[1] = "FailClosed" THEN decision[2] ELSE "none",
         legacy_reason |-> IF decision[1] = "FallBackToLegacy" THEN decision[2] ELSE "none",
         server_signer |-> IF verdict = "ok" THEN r.server_signer ELSE "none",
         request_hash  |-> IF verdict = "ok" THEN r.request_hash ELSE 0,
         accepted      |-> decision[1] = "AcceptMcps"]

-----------------------------------------------------------------------------
(* The native core: the correlation store; its errors are raised.           *)

StoreRegister(store, request, now) == Register(store, request, now)

StoreTake(store, id, now) == TakeForResponse(store, id, now)

StoreCancel(store, id) == Cancel(store, id)

-----------------------------------------------------------------------------
(* A text/event-stream body, line by line: data lines up to a blank one are *)
(* one event.                                                               *)

SseStep(events, line) ==
    IF line.field = "blank"
    THEN [done |-> IF Len(events.data) > 0 THEN Append(events.done, events.data) ELSE events.done,
          data |-> <<>>]
    ELSE [events EXCEPT !.data = IF line.field = "data" THEN Append(@, line.value) ELSE @]

(* The last event needs no blank line after it.                             *)
SseDataEvents(lines) ==
    FoldLeft(SseStep, [done |-> <<>>, data |-> <<>>], Append(lines, [field |-> "blank", value |-> ""])).done

-----------------------------------------------------------------------------
(* One message that came back.  kind is what verify_inbound tells apart:    *)
(* "garbage" is not JSON, "notAnObject" is JSON but no object; a response   *)
(* has the id it answers, and answer says what it is: "good" and "foreign"  *)
(* are signed for that call, by the first server or by another, "bad" has a *)
(* bad signature, "plain" no evidence, and "hollow" neither a result nor an *)
(* error.                                                                   *)

Signed(n, signer) ==
    BuildSignedResponse("draft-02", n, signer, [kind |-> "object", members |-> {"field"}])

FirstServer == CHOOSE s \in ServerSigner : TRUE

ReplyOf(n, answer) ==
    CASE answer = "good"    -> Signed(n, FirstServer)
      [] answer = "foreign" -> Signed(n, CHOOSE s \in ServerSigner : s # FirstServer)
      [] answer = "bad"     -> [Signed(n, FirstServer) EXCEPT !.signature = "bad"]
      [] answer \in {"plain", "hollow"} -> [Signed(n, FirstServer) EXCEPT !.envelope = "absent"]

(* The reasons of the rejections are not told apart.                        *)
Rejected == [kind |-> "reject", id |-> 0, answer |-> "none", at |-> 0]

Raised(exception) == [kind |-> exception, id |-> 0, answer |-> "none", at |-> 0]

Passed(kind, message, now) == [kind |-> kind, id |-> message.id, answer |-> message.answer, at |-> now]

(* The entry is taken before the response is verified, at the time it came. *)
VerifyInbound(message, config, store, now) ==
    LET taken  == StoreTake(store, message.id, now)
        result == SdkVerifyResponse(ReplyOf(message.id, message.answer), store.pending[message.id].hash,
                                    config.expected, config.mode, config.legacy_allowed)
        server == message.kind \in {"serverRequest", "notification"}
    IN  CASE message.kind = "garbage"     -> [store |-> store, outcome |-> Raised("ValueError")]
          [] message.kind = "notAnObject" -> [store |-> store, outcome |-> Raised("Exception")]
          [] server /\ config.allow_unverified ->
                [store |-> store, outcome |-> Passed("passthrough", message, 0)]
          [] message.kind = "noId" \/ (server /\ ~config.allow_unverified) ->
                [store |-> store, outcome |-> Rejected]
          [] message.kind = "response" ->
                [store |-> taken.store,
                 outcome |-> CASE taken.error # "ok" \/ result.decision = "FailClosed" -> Rejected
                               [] OTHER -> IF message.answer = "hollow" THEN Raised("ValueError")
                                           ELSE Passed("accept", message, now)]

(* Every payload of a body, in order.  A ValueError is a rejection of that  *)
(* payload; any other exception leaves the loop, with what it had done.     *)
VerifyInboundMessages(payloads, config, store, now) ==
    FoldLeft(LAMBDA seen, message :
                LET one == VerifyInbound(message, config, seen.store, now)
                IN  IF seen.raised THEN seen
                    ELSE [store    |-> one.store,
                          raised   |-> one.outcome.kind = "Exception",
                          outcomes |-> Append(seen.outcomes,
                                              IF one.outcome.kind = "ValueError"
                                              THEN Rejected
                                              ELSE one.outcome)],
             [store |-> store, raised |-> FALSE, outcomes |-> <<>>], payloads)

-----------------------------------------------------------------------------
(* The calls of the session.  A result or an error goes to the call that    *)
(* awaits that id; anything else the session only reports.                  *)

Awaiting(request) == [state |-> "awaiting", deadline |-> request.deadline, outcome |-> Rejected]

Settle(n, state, outcome) ==
    IF n \in DOMAIN calls /\ calls[n].state = "awaiting"
    THEN [calls EXCEPT ![n] = [@ EXCEPT !.state = state, !.outcome = outcome]]
    ELSE calls

(* sign_outbound, in the writer's task or the round trip's own.  A signer   *)
(* or a provider that fails raises, and a store that refuses does too.      *)
SendCall(signs) ==
    LET n          == Len(calls) + 1
        request    == [id |-> n, nonce |-> n, now |-> clock, deadline |-> clock + SdkTtl, hash |-> n]
        registered == StoreRegister(table, request, clock)
        sent       == signs /\ registered.error = "ok"
    IN  /\ group = "running" /\ n <= SdkCalls
        /\ calls' = Append(calls, Awaiting(request))
        /\ table' = IF signs THEN registered.store ELSE table
        /\ group' = IF sent THEN group ELSE "failed"
        /\ trips' = Append(trips, [phase |-> IF sent THEN "posted" ELSE "failed",
                                   queue |-> <<>>, other |-> FALSE])
        /\ UNCHANGED <<clock, settings>>

(* The call's own timeout, in the session.                                  *)
Abandon(n) ==
    /\ group = "running" /\ calls[n].state = "awaiting"
    /\ calls' = [calls EXCEPT ![n].state = "abandoned"]
    /\ UNCHANGED <<clock, settings, table, trips, group>>

-----------------------------------------------------------------------------
(* A round trip over HTTP.                                                  *)

(* The POST raised: not caught in the round trip.                           *)
PostFails(n) ==
    /\ group = "running" /\ settings.transport = "http" /\ trips[n].phase = "posted"
    /\ group' = "failed"
    /\ trips' = [trips EXCEPT ![n].phase = "failed"]
    /\ UNCHANGED <<clock, settings, table, calls>>

BodyOutcomes_EmptyIsSilent(n, body, checked) ==
    IF checked.raised \/ ~body.utf8 THEN << Rejected >> ELSE checked.outcomes

BodyOutcomes(n, body, checked) ==
    IF checked.raised \/ ~body.utf8 \/ checked.outcomes = <<>>
    THEN << Rejected >>
    ELSE checked.outcomes

(* Whatever came back, the entry of this call is gone afterwards.           *)
FinishTrip(store, n) == StoreCancel(store, n)

(* The whole body is verified before anything is handed on.                 *)
PostAnswers(n, body) ==
    LET checked  == IF body.utf8 THEN VerifyInboundMessages(body.payloads, settings, table, clock)
                    ELSE [store |-> table, raised |-> FALSE, outcomes |-> <<>>]
        outcomes == BodyOutcomes(n, body, checked)
        other    == \E i \in DOMAIN outcomes :
                        \/ outcomes[i].kind = "passthrough"
                        \/ outcomes[i].kind = "accept" /\ outcomes[i].id # n
    IN  /\ group = "running" /\ settings.transport = "http" /\ trips[n].phase = "posted"
        /\ trips' = [trips EXCEPT ![n] = [phase |-> IF outcomes = <<>> THEN "done" ELSE "delivering",
                                          queue |-> outcomes, other |-> other]]
        /\ table' = IF outcomes = <<>> THEN FinishTrip(checked.store, n) ELSE checked.store
        /\ UNCHANGED <<clock, settings, calls, group>>

(* One outcome is handed to the session; a rejection under this trip's id.  *)
Deliver(n) ==
    /\ group = "running" /\ trips[n].phase = "delivering"
    /\ LET outcome == Head(trips[n].queue)
           rest    == Tail(trips[n].queue)
       IN  /\ calls' = CASE outcome.kind = "accept"      -> Settle(outcome.id, "result", outcome)
                         [] outcome.kind = "passthrough" -> calls
                         [] OTHER                        -> Settle(n, "error", outcome)
           /\ trips' = [trips EXCEPT ![n].queue = rest, ![n].phase = IF rest = <<>> THEN "done" ELSE @]
           /\ table' = IF rest = <<>> THEN FinishTrip(table, n) ELSE table
    /\ UNCHANGED <<clock, settings, group>>

-----------------------------------------------------------------------------
(* A line over stdio.  A rejection goes to the session as an exception,     *)
(* which fails no call.                                                     *)
ReadLine(message) ==
    LET one == VerifyInbound(message, settings, table, clock)
    IN  /\ group = "running" /\ settings.transport = "stdio"
        /\ table' = one.store
        /\ group' = IF one.outcome.kind \in {"ValueError", "Exception"} THEN "failed" ELSE group
        /\ calls' = IF one.outcome.kind = "accept" THEN Settle(one.outcome.id, "result", one.outcome)
                    ELSE calls
        /\ UNCHANGED <<clock, settings, trips>>

SdkTick ==
    /\ clock < SdkTime /\ group = "running"
    /\ clock' = clock + 1
    /\ UNCHANGED <<settings, table, trips, calls, group>>

-----------------------------------------------------------------------------
(* What may come back: what a server signed for any call, an answer to a    *)
(* call with one thing wrong, a message of the server's own, and no message.*)

Inbound ==
    [kind : {"response"}, id : DOMAIN calls, answer : {"good", "foreign", "bad", "plain", "hollow"}]
    \cup [kind : {"serverRequest", "notification", "noId", "garbage", "notAnObject"},
          id : {0}, answer : {"none"}]

(* A body of several messages is an event stream.                           *)
Streamed ==
    {message \in Inbound : \/ message.answer \in {"good", "bad"}
                           \/ message.kind \in {"notification", "notAnObject"}}

Bodies ==
    {[utf8 |-> TRUE, payloads |-> <<message>>] : message \in Inbound}
    \cup [utf8 : {TRUE}, payloads : BoundedSeq(Streamed, SdkBodyLength)]
    \cup {[utf8 |-> FALSE, payloads |-> <<>>]}

SdkInit ==
    /\ clock = 0 /\ settings \in SdkSettings /\ table = EmptyStore
    /\ trips = <<>> /\ calls = <<>> /\ group = "running"

SdkNext ==
    \/ \E signs \in BOOLEAN : SendCall(signs)
    \/ \E n \in DOMAIN calls : Abandon(n) \/ PostFails(n) \/ Deliver(n)
    \/ \E n \in DOMAIN calls, body \in Bodies : PostAnswers(n, body)
    \/ \E message \in Inbound : ReadLine(message)
    \/ SdkTick

-----------------------------------------------------------------------------
(* However the tasks interleave, and whichever trip an answer comes back    *)
(* in, a call returns a result only in time, and only one that a server it  *)
(* trusts signed for that very call, or one without evidence where the      *)
(* configuration allows that twice over (verify_inbound, verify_response).  *)
SdkResultsAreEarned ==
    \A n \in DOMAIN calls : calls[n].state = "result" =>
        LET r == ReplyOf(n, calls[n].outcome.answer)
        IN  /\ calls[n].outcome.at <= calls[n].deadline
            /\ \/ /\ r.signature = "good" /\ r.key = "trusted" /\ r.request_hash = n
                  /\ r.envelope = "draft-02" /\ settings.expected \in {"none", r.server_signer}
               \/ /\ r.envelope = "absent"
                  /\ settings.mode = "AllowLegacyExplicit" /\ settings.legacy_allowed

(* A round trip that is over has ended its call, unless its body held what  *)
(* belongs to another call or to no call at all (_round_trip: "so the       *)
(* awaiting call raises, not hangs").                                       *)
EveryTripSettlesItsCall ==
    \A n \in DOMAIN trips : trips[n].phase = "done" /\ ~trips[n].other => calls[n].state # "awaiting"

(* A round trip that is over has left nothing in the store, whatever came   *)
(* back in it and however often (the cancel of _round_trip).                *)
TripsLeaveNoEntry ==
    settings.transport = "http" => \A n \in DOMAIN trips :
        trips[n].phase = "done" => n \notin DOMAIN table.pending

(* What a transport sends went through the custody policy, carries a binding*)
(* of a form the route permits where the route has a say, and passes the    *)
(* verifier's structural checks; the path without the policy refuses no     *)
(* more than it (sign_outbound, sign_request_with_signer, sign_request).    *)
SdkSignsGated(config, plain, callback) ==
    LET binding == BindingKwargs(config).binding
    IN  SignOutbound(config, plain, callback) = "ok" =>
            /\ AuthorizeSigner(config.policy, NewSigner(config.signer, config.revoked, callback)) = "ok"
            /\ callback # "signature" => config.signer # "non_exporting"
            /\ config.restricted /\ config.authorization # "none" => binding.tag \in config.allowed_types
            /\ SignRequest(binding, plain, TRUE) = "ok"
            /\ plain.id /\ plain.on_behalf_of = "ok" /\ binding.fields = "ok"
                => VerifyRequestDraft02(AuthoredMessage(plain, binding)) = "ok"

(* A verification names a server, and a request, exactly when it accepted,  *)
(* and gives a reason exactly when it did not (verify_response).            *)
RejectedNamesNobody(r, hash, expected, mode, legacy) ==
    LET v == SdkVerifyResponse(r, hash, expected, mode, legacy)
    IN  /\ v.accepted <=> v.server_signer # "none"
        /\ v.accepted <=> v.request_hash = hash
        /\ v.accepted <=> v.reason = "none" /\ v.legacy_reason = "none"
        /\ v.accepted => v.path = "McpsVerified" /\ v.outcome = "Accepted"

(* The events of a stream are its runs of data lines between blank ones:    *)
(* none is lost, none runs into the next (sse_data_events).                 *)
EventsAreTheRuns(lines) ==
    LET blank(i)  == i = 0 \/ i = Len(lines) + 1 \/ lines[i].field = "blank"
        runs      == {i \in 0..Len(lines) : blank(i) /\ \E j \in i+1..Len(lines) :
                        lines[j].field = "data" /\ \A k \in i+1..j : ~blank(k)}
        dataLines == SelectSeq(lines, LAMBDA line : line.field = "data")
    IN  /\ Len(SseDataEvents(lines)) = Cardinality(runs)
        /\ FlattenSeq(SseDataEvents(lines)) = [i \in DOMAIN dataLines |-> dataLines[i].value]
=============================================================================
