---------------------------- MODULE ClientProofs -----------------------------
(***************************************************************************)
(* Theorems about the client, for any routes, ids, nonces and answers, and *)
(* whatever the network delivers of them.  The proxy hands its program the *)
(* answer to the call it made, and puts no nonce on the wire twice at one  *)
(* time; the tables of open requests conclude each of them at most once.   *)
(***************************************************************************)
EXTENDS ClientProxy, PendingTables, ExchangeProofs, FiniteSetTheorems

(* Zenon proves most of the steps; those that need arithmetic say SMT.     *)
USE Zenon

-----------------------------------------------------------------------------
(* ClientProxy                                                             *)

(* The remote endpoint's answers are of this form, the flawed ones too.    *)
LEMMA RepliesAreReplies == Genuine \cup Flawed \subseteq Reply({request.hash : request \in sent})
<1> DEFINE hashes == {request.hash : request \in sent}
<1>1. Genuine \subseteq Reply(hashes)
  <2> SUFFICES ASSUME NEW q \in sent, NEW g \in ServerSigner, NEW a \in Answers
               PROVE  BuildSignedResponse("draft-02", q.hash, g, a) \in Reply(hashes)
    BY SMT DEF Genuine
  <2>1. q.hash \in hashes /\ a \in InnerAnswer
    BY AnswersAssumption
  <2> HIDE DEF hashes
  <2> QED
    BY <2>1, SignedReply
<1>2. \A x \in Flawed : \E r \in Genuine : x \in Flaws(r)
  BY DEF Flawed, Flaws
<1> HIDE DEF hashes
<1>3. Flawed \subseteq Reply(hashes)
  BY <1>1, <1>2, FlawedReply
<1> QED
  BY <1>1, <1>3 DEF hashes

(* A call under way.                                                       *)
Forwarding == [phase : {"forwarding"}, route : Route, request : sent]

(* The window of a nonce ends no earlier than any request that used it.    *)
WindowsKept ==
    /\ \A n \in DOMAIN store.nonce_window : store.nonce_window[n] \in Int
    /\ \A q \in sent :
        /\ q.now \in Int /\ q.deadline = q.now + Ttl
        /\ q.nonce \in DOMAIN store.nonce_window
        /\ Ttl >= 0 => q.deadline <= store.nonce_window[q.nonce]

ClientInv ==
    /\ clock \in Int
    /\ DOMAIN store = {"pending", "nonce_window"}
    /\ call = Idle \/ call \in Forwarding
    /\ WindowsKept /\ NonceWindowsDisjoint /\ AnswersAreEarned

(* A call in flight is not the idle one.                                   *)
LEMMA ForwardingIsNotIdle == \A f \in Forwarding : f # Idle /\ f.route \in Route /\ f.request \in sent
  BY SMT DEF Forwarding, Idle

(* A failure hands nothing on.                                             *)
LEMMA FailureHandsOnNothing ==
    ASSUME NEW e, answered' = Failure(e)
    PROVE  AcceptedAnswerIsForThisCall' /\ BadEvidenceNeverFallsBack'
<1>1. answered'.outcome = "error"
  BY DEF Failure
<1> QED
  BY <1>1 DEF AcceptedAnswerIsForThisCall, BadEvidenceNeverFallsBack

(* handle up to the round trip: the nonce's window has ended, and the new  *)
(* one does not end before it unless it is empty.                          *)
LEMMA SendStep ==
    ASSUME ClientInv, NEW route \in Route, NEW id \in Id, NEW nonce \in Nonce, Send(route, id, nonce)
    PROVE  ClientInv'
<1> DEFINE q == CallParams(id, nonce)
<1>1. q.id = id /\ q.nonce = nonce /\ q.now = clock /\ q.deadline = clock + Ttl
  BY DEF CallParams
<1>2. call = Idle /\ DOMAIN store.pending = {} /\ UNCHANGED clock
  BY DEF Send, ClientInv, AnswersAreEarned, NothingOutstandingBetweenCalls
<1>3. \/ /\ ~(nonce \in DOMAIN store.nonce_window /\ store.nonce_window[nonce] > clock)
         /\ DOMAIN store' = {"pending", "nonce_window"} /\ store'.pending = With(store.pending, id, q)
         /\ store'.nonce_window = With(store.nonce_window, nonce, q.deadline)
         /\ call' = [phase |-> "forwarding", route |-> route, request |-> q]
         /\ sent' = sent \cup {q} /\ UNCHANGED answered
      \/ \E e : store' = store /\ answered' = Failure(e) /\ UNCHANGED <<call, sent>>
  BY <1>1, <1>2 DEF Send, Register
<1> HIDE DEF q
<1>4. CASE \E e : store' = store /\ answered' = Failure(e) /\ UNCHANGED <<call, sent>>
  <2>1. AcceptedAnswerIsForThisCall' /\ BadEvidenceNeverFallsBack'
    BY <1>4, FailureHandsOnNothing
  <2> QED
    BY <1>2, <1>4, <2>1 DEF ClientInv, Forwarding, WindowsKept, NonceWindowsDisjoint, AnswersAreEarned,
                            NothingOutstandingBetweenCalls
<1>5. CASE /\ ~(nonce \in DOMAIN store.nonce_window /\ store.nonce_window[nonce] > clock)
           /\ DOMAIN store' = {"pending", "nonce_window"} /\ store'.pending = With(store.pending, id, q)
           /\ store'.nonce_window = With(store.nonce_window, nonce, q.deadline)
           /\ call' = [phase |-> "forwarding", route |-> route, request |-> q]
           /\ sent' = sent \cup {q} /\ UNCHANGED answered
  <2>1. call' \in Forwarding' /\ call'.request.id = id /\ call' # Idle
    BY <1>1, <1>5 DEF Forwarding, Idle
  <2>2. DOMAIN store'.pending = {id}
    BY <1>2, <1>5 DEF With
  <2>3. NothingOutstandingBetweenCalls'
    BY <2>1, <2>2 DEF NothingOutstandingBetweenCalls, Idle
  <2>4. /\ DOMAIN store'.nonce_window = DOMAIN store.nonce_window \cup {nonce}
        /\ store'.nonce_window[nonce] = clock + Ttl
        /\ \A n \in DOMAIN store.nonce_window : n # nonce => store'.nonce_window[n] = store.nonce_window[n]
    BY <1>1, <1>5 DEF With
  <2>5. clock \in Int /\ clock + Ttl \in Int /\ Ttl \in Int
    BY TimesAssumption, SMT DEF ClientInv
  <2>6. \A p \in sent : p.nonce = nonce => (Ttl >= 0 => p.deadline <= clock)
    BY <1>5, <2>5, SMT DEF ClientInv, WindowsKept
  <2>7. WindowsKept'
    <3>1. \A n \in DOMAIN store'.nonce_window : store'.nonce_window[n] \in Int
      BY <2>4, <2>5 DEF ClientInv, WindowsKept
    <3>2. ASSUME NEW p \in sent
          PROVE  /\ p.now \in Int /\ p.deadline = p.now + Ttl /\ p.nonce \in DOMAIN store'.nonce_window
                 /\ Ttl >= 0 => p.deadline <= store'.nonce_window[p.nonce]
      BY <2>4, <2>5, <2>6, SMT DEF ClientInv, WindowsKept
    <3> QED
      BY <1>1, <1>5, <2>4, <2>5, <3>1, <3>2, SMT DEF WindowsKept
  <2>8. NonceWindowsDisjoint'
    <3>1. ASSUME NEW p \in sent, p.nonce = nonce PROVE p.deadline <= clock \/ clock + Ttl <= p.now
      BY <2>5, <2>6, <3>1, SMT DEF ClientInv, WindowsKept
    <3> QED
      BY <1>1, <1>5, <3>1, SMT DEF ClientInv, NonceWindowsDisjoint
  <2> QED
    BY <1>2, <1>5, <2>1, <2>3, <2>7, <2>8
    DEF ClientInv, AnswersAreEarned, AcceptedAnswerIsForThisCall, BadEvidenceNeverFallsBack
<1> QED
  BY <1>3, <1>4, <1>5

(* A call that ends takes its entry with it and leaves its nonce's window. *)
LEMMA EntryTaken ==
    ASSUME ClientInv, call # Idle
    PROVE  LET cancelled == Cancel(store, call.request.id)
               taken     == TakeForResponse(store, call.request.id, call.request.now)
           IN  /\ DOMAIN cancelled = {"pending", "nonce_window"}
               /\ DOMAIN cancelled.pending = {} /\ cancelled.nonce_window = store.nonce_window
               /\ taken.store = cancelled
<1> DEFINE id == call.request.id
<1>1. DOMAIN store = {"pending", "nonce_window"} /\ DOMAIN store.pending = {id}
  BY DEF ClientInv, AnswersAreEarned, NothingOutstandingBetweenCalls
<1> DEFINE left == Without(store.pending, {id})
<1>2. DOMAIN left = {}
  BY <1>1 DEF Without, Restrict
<1>3. Cancel(store, id) = [store EXCEPT !.pending = left]
  BY DEF Cancel
<1> HIDE DEF left
<1>4. /\ DOMAIN Cancel(store, id) = {"pending", "nonce_window"}
      /\ Cancel(store, id).pending = left /\ Cancel(store, id).nonce_window = store.nonce_window
  BY <1>1, <1>3
<1>5. TakeForResponse(store, id, call.request.now).store = Cancel(store, id)
  BY <1>1 DEF TakeForResponse
<1> QED
  BY <1>2, <1>4, <1>5

(* What every end of a call leaves, its outcome aside.                     *)
LEMMA CallEnds ==
    ASSUME ClientInv, call # Idle, call' = Idle, UNCHANGED <<clock, sent>>,
           store' = Cancel(store, call.request.id),
           AcceptedAnswerIsForThisCall', BadEvidenceNeverFallsBack'
    PROVE  ClientInv'
<1>1. /\ DOMAIN store' = {"pending", "nonce_window"}
      /\ DOMAIN store'.pending = {} /\ store'.nonce_window = store.nonce_window
  BY EntryTaken
<1>2. NothingOutstandingBetweenCalls'
  BY <1>1 DEF NothingOutstandingBetweenCalls, Idle
<1>3. WindowsKept' /\ NonceWindowsDisjoint'
  BY <1>1 DEF ClientInv, WindowsKept, NonceWindowsDisjoint
<1>4. clock' \in Int /\ call' = Idle'
  BY DEF ClientInv, Idle
<1> QED
  BY <1>1, <1>2, <1>3, <1>4 DEF ClientInv, AnswersAreEarned

(* handle after the round trip: what is handed on has been verified for    *)
(* this call, or carries no evidence on a route that allows it.            *)
LEMMA ReceiveStep ==
    ASSUME ClientInv, NEW reply \in Genuine \cup Flawed, Receive(reply)
    PROVE  ClientInv'
<1> DEFINE core    == VerifyResponseDraft02(reply, call.request.hash)
           found == VerifySignedResponse(reply, call.request.hash, call.route.signer)
           decision == Decide(call.route.mode, call.route.legacy_allowed, ClassifyResponseResult(found))
<1>1. reply \in Reply({request.hash : request \in sent})
  BY RepliesAreReplies
<1>2. call # Idle /\ call \in Forwarding /\ call.route \in Route
  BY ForwardingIsNotIdle DEF Receive, ClientInv
<1>3. call.route.legacy_allowed \in BOOLEAN
  BY <1>2, RouteAssumption
<1>4. /\ core = "ok" => reply.signature = "good" /\ reply.key = "trusted"
                        /\ reply.request_hash = call.request.hash
      /\ core = "MissingEnvelope" => reply.envelope = "absent"
  BY <1>1, VerdictFacts
<1>5. /\ found = "ok" => core = "ok" /\ reply.server_signer = call.route.signer
      /\ found = "MissingEnvelope" => core = "MissingEnvelope"
  BY DEF VerifySignedResponse
<1>6. /\ decision[1] \in {"AcceptMcps", "FallBackToLegacy", "FailClosed"}
      /\ decision[1] = "AcceptMcps" => found = "ok"
      /\ decision[1] = "FallBackToLegacy" =>
            /\ found = "MissingEnvelope"
            /\ call.route.mode = "AllowLegacyExplicit" /\ call.route.legacy_allowed
  <2> HIDE DEF found
  <2> QED
    BY <1>3, DecisionFacts, SMT
<1>7. /\ store' = TakeForResponse(store, call.request.id, call.request.now).store
      /\ answered' = Ending(decision, reply) \/ \E e : answered' = Failure(e)
      /\ call' = Idle /\ UNCHANGED <<clock, sent>>
  BY DEF Receive
<1> HIDE DEF core, found, decision
<1>8. AcceptedAnswerIsForThisCall' /\ BadEvidenceNeverFallsBack'
  <2>1. CASE \E e : answered' = Failure(e)
    BY <2>1, FailureHandsOnNothing
  <2>2. CASE answered' = Ending(decision, reply)
    <3>1. CASE decision[1] = "AcceptMcps"
      <4>1. answered'.outcome = "McpsVerified" /\ answered'.reply = reply /\ answered'.call = call
        BY <2>2, <3>1 DEF Ending
      <4> QED
        BY <1>4, <1>5, <1>6, <3>1, <4>1 DEF AcceptedAnswerIsForThisCall, BadEvidenceNeverFallsBack
    <3>2. CASE decision[1] = "FallBackToLegacy"
      <4>1. answered'.outcome = "LegacyExplicit" /\ answered'.reply = reply /\ answered'.call = call
        BY <2>2, <3>2 DEF Ending
      <4> QED
        BY <1>4, <1>5, <1>6, <3>2, <4>1 DEF AcceptedAnswerIsForThisCall, BadEvidenceNeverFallsBack
    <3>3. CASE decision[1] = "FailClosed"
      <4>1. answered' = Failure(decision[2])
        BY <2>2, <3>3 DEF Ending
      <4> QED
        BY <4>1, FailureHandsOnNothing
    <3> QED
      BY <1>6, <3>1, <3>2, <3>3
  <2> QED
    BY <1>7, <2>1, <2>2
<1>9. store' = Cancel(store, call.request.id)
  BY <1>2, <1>7, EntryTaken
<1> QED
  BY <1>2, <1>7, <1>8, <1>9, CallEnds

(* The steps of the client proxy.                                          *)
LEMMA ClientInvStep == ClientInv /\ [Next]_vars => ClientInv'
<1> SUFFICES ASSUME ClientInv, [Next]_vars PROVE ClientInv'
  OBVIOUS
<1>1. ASSUME NEW error, RefuseEarly(error) PROVE ClientInv'
  <2>1. answered' = Failure(error) /\ UNCHANGED <<clock, store, call, sent>>
    BY <1>1 DEF RefuseEarly
  <2>2. AcceptedAnswerIsForThisCall' /\ BadEvidenceNeverFallsBack'
    BY <2>1, FailureHandsOnNothing
  <2> QED
    BY <2>1, <2>2 DEF ClientInv, Forwarding, WindowsKept, NonceWindowsDisjoint, AnswersAreEarned,
                      NothingOutstandingBetweenCalls
<1>2. ASSUME TransportFailed PROVE ClientInv'
  <2>1. /\ call # Idle /\ call' = Idle /\ UNCHANGED <<clock, sent>>
        /\ store' = Cancel(store, call.request.id) /\ \E e : answered' = Failure(e)
    BY <1>2 DEF TransportFailed
  <2>2. AcceptedAnswerIsForThisCall' /\ BadEvidenceNeverFallsBack'
    BY <2>1, FailureHandsOnNothing
  <2> QED
    BY <2>1, <2>2, CallEnds
<1>3. ASSUME Tick PROVE ClientInv'
  <2>1. clock' \in Int
    BY <1>3, TimesAssumption, SMT DEF Tick
  <2> QED
    BY <1>3, <2>1 DEF Tick, ClientInv, Forwarding, WindowsKept, NonceWindowsDisjoint, AnswersAreEarned,
                      NothingOutstandingBetweenCalls, AcceptedAnswerIsForThisCall, BadEvidenceNeverFallsBack
<1>4. CASE UNCHANGED vars
  BY <1>4 DEF vars, ClientInv, Forwarding, WindowsKept, NonceWindowsDisjoint, AnswersAreEarned,
              NothingOutstandingBetweenCalls, AcceptedAnswerIsForThisCall, BadEvidenceNeverFallsBack
<1>5. CASE Next
  BY <1>1, <1>2, <1>3, <1>5, SendStep, ReceiveStep DEF Next
<1> QED
  BY <1>4, <1>5

(* ClientInv holds when the proxy starts, and always.                      *)
LEMMA ClientInvInit == Init => ClientInv
<1> SUFFICES ASSUME Init PROVE ClientInv
  OBVIOUS
<1>1. clock \in Int /\ call = Idle /\ sent = {} /\ answered = Failure("none") /\ store = EmptyStore
  BY TimesAssumption, SMT DEF Init
<1>2. /\ DOMAIN store = {"pending", "nonce_window"}
      /\ DOMAIN store.pending = {} /\ DOMAIN store.nonce_window = {}
  BY <1>1, SMT DEF EmptyStore
<1>3. answered.outcome = "error"
  BY <1>1 DEF Failure
<1> QED
  BY <1>1, <1>2, <1>3 DEF ClientInv, WindowsKept, NonceWindowsDisjoint, AnswersAreEarned,
     NothingOutstandingBetweenCalls, AcceptedAnswerIsForThisCall, BadEvidenceNeverFallsBack

(* ClientInv is an invariant of the proxy.                                 *)
LEMMA ClientInvAlways == Spec => []ClientInv
  BY ClientInvInit, ClientInvStep, PTL DEF Spec

(* No two requests on the wire with one nonce have windows that overlap,   *)
(* for every lifetime, also a negative one, and however the clock steps    *)
(* (register in correlation.rs, handle in proxy.rs).                       *)
THEOREM NonceWindowsNeverOverlap == Spec => []NonceWindowsDisjoint
<1>1. ClientInv => NonceWindowsDisjoint
  BY DEF ClientInv
<1> QED
  BY <1>1, ClientInvAlways, PTL

(* What handle returns is earned, for all routes, ids, nonces and answers, *)
(* and whatever the network delivers of them.                              *)
THEOREM ClientAnswersAreEarned == Spec => []AnswersAreEarned
<1>1. ClientInv => AnswersAreEarned
  BY DEF ClientInv
<1> QED
  BY <1>1, ClientInvAlways, PTL

-----------------------------------------------------------------------------
(* PendingTables                                                           *)

(* A draft-01 response verifies only for the request it names              *)
(* (verify_response).                                                      *)
LEMMA HostVerdict ==
    ASSUME NEW r, NEW h, VerifyResponse(r, h) = "ok"
    PROVE  r.request_hash = h
<1> DEFINE read == DeserializeResponse(r, "draft-01")
           key  == ResolveServerKey(r)
           c == StructuralRejects(r)
                \o << Check(r.jcs, "CanonicalizationFailed") >>
                \o ExtractResponseEnvelope(r)
                \o CheckResponseSignature(r)
                \o << CheckRequestHash(r, h) >>
<1>1. /\ DOMAIN c = 1 .. 10
      /\ c[1] = Check(r.top # "unparsable", "CanonicalizationFailed")
      /\ c[2] = Check(r.top # "array", "BatchForbidden")
      /\ c[3] = Check(r.top # "noId", "NotificationForbidden")
      /\ c[4] = Check(r.jcs, "CanonicalizationFailed")
      /\ c[5] = Check(r.envelope # "absent", "MissingEnvelope")
      /\ c[6] = Result(read)
      /\ c[7] = Check(r.alg, "ResponseSigInvalid")
      /\ c[8] = Result(key)
      /\ c[9] = Check(r.signature = "good", "ResponseSigInvalid")
      /\ c[10] = CheckRequestHash(r, h)
  BY SMT DEF StructuralRejects, ExtractResponseEnvelope, CheckResponseSignature
<1>2. FirstFailure(c) = "ok"
  BY DEF VerifyResponse
<1> HIDE DEF c, read, key
<1>3. \A i \in 1 .. 10 : ~c[i].passes => c[i].error # "ok"
  <2>1. c[1].error # "ok" /\ c[2].error # "ok" /\ c[3].error # "ok"
    BY <1>1, CheckError, SMT
  <2>2. c[4].error # "ok" /\ c[5].error # "ok" /\ c[7].error # "ok"
    BY <1>1, CheckError, SMT
  <2>3. c[9].error # "ok" /\ c[10].error # "ok"
    BY <1>1, CheckError, SMT DEF CheckRequestHash
  <2>4. ~c[6].passes => c[6].error # "ok"
    <3>1. c[6] = Result(read)
      BY <1>1
    <3> QED
      BY <3>1, ResultFields
  <2>5. ~c[8].passes => c[8].error # "ok"
    <3>1. c[8] = Result(key)
      BY <1>1
    <3> QED
      BY <3>1, ResultFields
  <2>6. \A i \in 1 .. 10 : i \in {1, 2, 3, 4, 5, 6, 7, 8, 9, 10}
    BY SMT
  <2> QED
    BY <2>1, <2>2, <2>3, <2>4, <2>5, <2>6
<1>4. 10 \in DOMAIN c /\ DOMAIN c \subseteq Nat
  BY <1>1, SMT
<1>5. c[10].passes
  BY <1>1, <1>2, <1>3, <1>4, ChainPasses
<1>6. CheckRequestHash(r, h).passes => r.request_hash = h
  BY DEF CheckRequestHash, Check
<1> QED
  BY <1>1, <1>5, <1>6

(* Hashes that count the requests of S from one on, each with its own.     *)
Numbered(S) ==
    /\ IsFiniteSet(S)
    /\ \A q \in S : q.hash \in 1 .. Cardinality(S)
    /\ \A p, q \in S : p.hash = q.hash => p = q

(* A request signed gets a hash that no earlier one has (sign_request).    *)
LEMMA FreshHash ==
    ASSUME NEW S, Numbered(S), NEW x, x.hash = Cardinality(S) + 1
    PROVE  /\ Numbered(S \cup {x}) /\ Cardinality(S) \in Nat
           /\ Cardinality(S \cup {x}) = Cardinality(S) + 1
           /\ \A h \in 1 .. Cardinality(S) : h # x.hash /\ h \in 1 .. Cardinality(S \cup {x})
<1>1. Cardinality(S) \in Nat
  BY FS_CardinalityType DEF Numbered
<1>2. \A h \in 1 .. Cardinality(S) : h # x.hash /\ h \in 1 .. (Cardinality(S) + 1)
  BY <1>1, SMT
<1>3. x \notin S
  BY <1>2 DEF Numbered
<1>4. IsFiniteSet(S \cup {x}) /\ Cardinality(S \cup {x}) = Cardinality(S) + 1
  BY <1>3, FS_AddElement DEF Numbered
<1>5. x.hash \in 1 .. (Cardinality(S) + 1)
  BY <1>1, SMT
<1>6. \A q \in S : q.hash \in 1 .. Cardinality(S)
  BY DEF Numbered
<1>7. \A q \in S \cup {x} : q.hash \in 1 .. Cardinality(S \cup {x})
  BY <1>2, <1>4, <1>5, <1>6
<1>8. \A p, q \in S \cup {x} : p.hash = q.hash => p = q
  BY <1>2, <1>6 DEF Numbered
<1> QED
  BY <1>1, <1>2, <1>4, <1>7, <1>8 DEF Numbered

(* An entry of the host session stands for the request it was made for,    *)
(* and has not been concluded; a request without an entry has.             *)
EntriesAreIssued ==
    /\ \A id \in DOMAIN pending :
        /\ \E q \in issued : /\ q.id = id /\ q.hash = pending[id].hash
                             /\ q.expires_at = pending[id].expires_at
        /\ pending[id].hash \notin DOMAIN concluded
    /\ \A q \in issued : q.hash \in Outstanding \/ q.hash \in DOMAIN concluded
    /\ \A v \in verified : v.hash \in DOMAIN concluded

HostInv ==
    /\ Numbered(issued) /\ \A q \in issued : q.expires_at \in Int
    /\ DOMAIN concluded \subseteq 1 .. Cardinality(issued)
    /\ EntriesAreIssued /\ ResponseMatchesItsRequest /\ OnlyAVerdictRemoves

(* A registered request keeps its nonce closed, or its deadline is past.   *)
NoncesAreClosed ==
    /\ \A n \in DOMAIN table.nonce_window : table.nonce_window[n] \in Int
    /\ \A q \in registered :
        \/ q.deadline <= time
        \/ q.nonce \in DOMAIN table.nonce_window /\ q.deadline <= table.nonce_window[q.nonce]

PipelinedInv ==
    /\ Numbered(registered) /\ \A q \in registered : q.now \in Int /\ q.deadline \in Int
    /\ DOMAIN table = {"pending", "nonce_window"}
    /\ \A id \in DOMAIN table.pending : table.pending[id] \in registered
    /\ \A c \in completed : c.hash \in 1 .. Cardinality(registered)
    /\ NoncesAreClosed /\ SweptWindowsDisjoint /\ CompletedInTime

TablesInv == time \in Int /\ HostInv /\ PipelinedInv

(* Two entries of the host session never have one hash.                    *)
LEMMA EntriesDiffer ==
    ASSUME HostInv, NEW id \in DOMAIN pending, NEW jd \in DOMAIN pending, pending[id].hash = pending[jd].hash
    PROVE  id = jd
<1>1. PICK p \in issued : p.id = id /\ p.hash = pending[id].hash
  BY DEF HostInv, EntriesAreIssued
<1>2. PICK q \in issued : q.id = jd /\ q.hash = pending[jd].hash
  BY DEF HostInv, EntriesAreIssued
<1>3. p = q
  BY <1>1, <1>2 DEF HostInv, Numbered
<1> QED
  BY <1>1, <1>2, <1>3

(* Entries that leave the host session's table are concluded, once.        *)
LEMMA EntriesConcluded ==
    ASSUME HostInv, NEW gone, NEW how \in {"verified", "cancelled", "expired"},
           gone \subseteq DOMAIN pending, pending' = Without(pending, gone), UNCHANGED <<time, issued>>,
           how = "expired" => \A id \in gone : pending[id].expires_at <= time,
           DOMAIN concluded' = DOMAIN concluded \cup {pending[id].hash : id \in gone},
           \A id \in gone : concluded'[pending[id].hash] = how,
           \A h \in DOMAIN concluded :
                h \notin {pending[id].hash : id \in gone} => concluded'[h] = concluded[h],
           \A v \in verified' :
                \/ v \in verified
                \/ how = "verified" /\ \E id \in gone : v.id = id /\ v.hash = pending[id].hash
    PROVE  HostInv'
<1> DEFINE hashes == {pending[id].hash : id \in gone}
<1>1. /\ DOMAIN pending' = DOMAIN pending \ gone
      /\ \A id \in DOMAIN pending' : pending'[id] = pending[id]
  BY DEF Without, Restrict
<1>2. \A id \in DOMAIN pending : \E q \in issued :
        q.id = id /\ q.hash = pending[id].hash /\ q.expires_at = pending[id].expires_at
  BY DEF HostInv, EntriesAreIssued
<1>3. \A h \in DOMAIN concluded : concluded'[h] = concluded[h] /\ h \notin hashes
  <2> SUFFICES ASSUME NEW h \in DOMAIN concluded PROVE concluded'[h] = concluded[h] /\ h \notin hashes
    OBVIOUS
  <2>1. \A id \in DOMAIN pending : pending[id].hash \notin DOMAIN concluded
    BY DEF HostInv, EntriesAreIssued
  <2>2. h \notin hashes
    BY <2>1
  <2> QED
    BY <2>2
<1>4. EntriesAreIssued'
  <2>1. ASSUME NEW id \in DOMAIN pending' PROVE pending'[id].hash \notin DOMAIN concluded'
    <3>1. id \in DOMAIN pending /\ id \notin gone /\ pending'[id] = pending[id]
      BY <1>1
    <3>2. pending[id].hash \notin DOMAIN concluded
      BY <3>1 DEF HostInv, EntriesAreIssued
    <3>3. \A jd \in gone : pending[jd].hash # pending[id].hash
      BY <3>1, EntriesDiffer
    <3> QED
      BY <3>1, <3>2, <3>3
  <2>2. ASSUME NEW id \in DOMAIN pending'
        PROVE  \E q \in issued' : /\ q.id = id /\ q.hash = pending'[id].hash
                                  /\ q.expires_at = pending'[id].expires_at
    <3>1. id \in DOMAIN pending /\ pending'[id] = pending[id]
      BY <1>1
    <3>2. PICK q \in issued : q.id = id /\ q.hash = pending[id].hash /\ q.expires_at = pending[id].expires_at
      BY <1>2, <3>1
    <3> QED
      BY <3>1, <3>2
  <2>3. ASSUME NEW q \in issued' PROVE q.hash \in Outstanding' \/ q.hash \in DOMAIN concluded'
    <3>1. CASE q.hash \in DOMAIN concluded
      BY <3>1
    <3>2. CASE q.hash \in Outstanding
      <4>1. PICK id \in DOMAIN pending : q.hash = pending[id].hash
        BY <3>2 DEF Outstanding
      <4>2. CASE id \in gone
        BY <4>1, <4>2
      <4>3. CASE id \notin gone
        <5>1. id \in DOMAIN pending' /\ q.hash = pending'[id].hash
          BY <1>1, <4>1, <4>3
        <5> QED
          BY <5>1 DEF Outstanding
      <4> QED
        BY <4>2, <4>3
    <3>3. q \in issued
      OBVIOUS
    <3> QED
      BY <3>1, <3>2, <3>3 DEF HostInv, EntriesAreIssued
  <2>4. ASSUME NEW v \in verified' PROVE v.hash \in DOMAIN concluded'
    <3>1. CASE v \in verified
      <4>1. v.hash \in DOMAIN concluded
        BY <3>1 DEF HostInv, EntriesAreIssued
      <4> QED
        BY <4>1
    <3>2. CASE v \notin verified
      <4>1. PICK id \in gone : v.hash = pending[id].hash
        BY <3>2
      <4> QED
        BY <4>1
    <3> QED
      BY <3>1, <3>2
  <2> QED
    BY <2>1, <2>2, <2>3, <2>4 DEF EntriesAreIssued
<1>5. ResponseMatchesItsRequest'
  <2> SUFFICES ASSUME NEW v \in verified'
               PROVE  /\ \E q \in issued' : q.id = v.id /\ q.hash = v.hash
                      /\ concluded'[v.hash] = "verified"
    BY DEF ResponseMatchesItsRequest
  <2>1. CASE v \in verified
    <3>1. v.hash \in DOMAIN concluded
      BY <2>1 DEF HostInv, EntriesAreIssued
    <3> QED
      <4>1. (\E q \in issued : q.id = v.id /\ q.hash = v.hash) /\ concluded[v.hash] = "verified"
        BY <2>1 DEF HostInv, ResponseMatchesItsRequest
      <4> QED
        BY <1>3, <3>1, <4>1
  <2>2. CASE how = "verified" /\ \E id \in gone : v.id = id /\ v.hash = pending[id].hash
    <3>1. PICK id \in gone : v.id = id /\ v.hash = pending[id].hash
      BY <2>2
    <3>2. concluded'[v.hash] = "verified"
      BY <2>2, <3>1
    <3>3. PICK q \in issued : q.id = id /\ q.hash = pending[id].hash
      BY <1>2
    <3> QED
      BY <3>1, <3>2, <3>3
  <2> QED
    BY <2>1, <2>2
<1>6. OnlyAVerdictRemoves'
  <2> SUFFICES ASSUME NEW q \in issued', q.hash \notin Outstanding'
               PROVE  /\ concluded'[q.hash] \in {"verified", "cancelled", "expired"}
                      /\ concluded'[q.hash] = "expired" => q.expires_at <= time'
    BY DEF OnlyAVerdictRemoves
  <2>1. q \in issued /\ time' = time
    OBVIOUS
  <2>2. CASE q.hash \in DOMAIN concluded
    <3>1. q.hash \notin Outstanding
      <4>1. \A id \in DOMAIN pending : pending[id].hash \notin DOMAIN concluded
        BY DEF HostInv, EntriesAreIssued
      <4> QED
        BY <2>2, <4>1 DEF Outstanding
    <3> QED
      BY <1>3, <2>1, <2>2, <3>1 DEF HostInv, OnlyAVerdictRemoves
  <2>3. CASE q.hash \in Outstanding
    <3>1. PICK id \in DOMAIN pending : q.hash = pending[id].hash
      BY <2>3 DEF Outstanding
    <3>2. id \in gone
      <4>1. ASSUME id \notin gone PROVE FALSE
        <5>1. id \in DOMAIN pending' /\ q.hash = pending'[id].hash
          BY <1>1, <3>1, <4>1
        <5> QED
          BY <5>1 DEF Outstanding
      <4> QED
        BY <4>1
    <3>3. q.expires_at = pending[id].expires_at
      <4>1. PICK p \in issued : p.hash = pending[id].hash /\ p.expires_at = pending[id].expires_at
        BY <1>2
      <4>2. p = q
        BY <2>1, <3>1, <4>1 DEF HostInv, Numbered
      <4> QED
        BY <4>1, <4>2
    <3> QED
      BY <2>1, <3>1, <3>2, <3>3
  <2> QED
    BY <2>1, <2>2, <2>3 DEF HostInv, EntriesAreIssued
<1>7. DOMAIN concluded' \subseteq 1 .. Cardinality(issued')
  <2>1. ASSUME NEW id \in gone PROVE pending[id].hash \in 1 .. Cardinality(issued)
    BY <1>2 DEF HostInv, Numbered
  <2> QED
    BY <2>1 DEF HostInv
<1> QED
  BY <1>4, <1>5, <1>6, <1>7 DEF HostInv, Numbered

(* Time alone changes nothing for the pipelined client, nor for the host   *)
(* session.                                                                *)
LEMMA PipelinedLater ==
    ASSUME time \in Int, time' \in Int, time <= time', PipelinedInv, UNCHANGED <<table, registered, completed>>
    PROVE  PipelinedInv'
<1>1. NoncesAreClosed'
  <2>1. ASSUME NEW q \in registered, q.deadline <= time PROVE q.deadline <= time'
    BY <2>1, SMT DEF PipelinedInv
  <2> QED
    BY <2>1 DEF PipelinedInv, NoncesAreClosed
<1>2. SweptWindowsDisjoint' /\ CompletedInTime'
  BY DEF PipelinedInv, SweptWindowsDisjoint, CompletedInTime
<1> QED
  BY <1>1, <1>2 DEF PipelinedInv

LEMMA HostLater ==
    ASSUME time \in Int, time' \in Int, time <= time', HostInv,
           UNCHANGED <<pending, issued, concluded, verified>>
    PROVE  HostInv'
<1>1. Outstanding' = Outstanding
  BY DEF Outstanding
<1>2. ResponseMatchesItsRequest'
  BY DEF HostInv, ResponseMatchesItsRequest
<1>3. EntriesAreIssued'
  BY <1>1 DEF HostInv, EntriesAreIssued
<1>4. \A q \in issued : q.expires_at <= time => q.expires_at <= time'
  BY SMT DEF HostInv
<1>5. OnlyAVerdictRemoves'
  BY <1>1, <1>4 DEF HostInv, OnlyAVerdictRemoves
<1> QED
  BY <1>2, <1>3, <1>5 DEF HostInv

(* sign_request: the new request has an entry of its own.                  *)
LEMMA SignRequestStep ==
    ASSUME time \in Int, HostInv, NEW id \in TableId, SignRequest(id)
    PROVE  HostInv'
<1> DEFINE hash == Cardinality(issued) + 1
           expires_at == time + request_lifetime_secs
           q == [id |-> id, hash |-> hash, expires_at |-> expires_at]
<1>1. /\ id \notin DOMAIN pending /\ issued' = issued \cup {q}
      /\ pending' = With(pending, id, [hash |-> hash, expires_at |-> expires_at])
      /\ UNCHANGED <<time, concluded, verified>>
  BY DEF SignRequest
<1>2. q.id = id /\ q.hash = hash /\ q.expires_at = expires_at /\ expires_at \in Int
  BY TablesAssumption, SMT
<1>3. /\ DOMAIN pending' = DOMAIN pending \cup {id}
      /\ pending'[id].hash = hash /\ pending'[id].expires_at = expires_at
      /\ \A jd \in DOMAIN pending : pending'[jd] = pending[jd]
  BY <1>1 DEF With
<1>4. /\ Numbered(issued') /\ Cardinality(issued) \in Nat
      /\ \A h \in 1 .. Cardinality(issued) : h # hash /\ h \in 1 .. Cardinality(issued')
  <2>1. q.hash = Cardinality(issued) + 1 /\ Numbered(issued)
    BY <1>2 DEF HostInv
  <2> HIDE DEF q
  <2>2. /\ Numbered(issued \cup {q}) /\ Cardinality(issued) \in Nat
        /\ \A h \in 1 .. Cardinality(issued) : h # q.hash /\ h \in 1 .. Cardinality(issued \cup {q})
    BY <2>1, FreshHash
  <2> QED
    BY <1>1, <2>1, <2>2
<1> HIDE DEF q, hash, expires_at
<1>5. hash \notin DOMAIN concluded /\ DOMAIN concluded \subseteq 1 .. Cardinality(issued')
  BY <1>4 DEF HostInv
<1>6. Outstanding' = Outstanding \cup {hash}
  <2>1. Outstanding' = {pending'[jd].hash : jd \in DOMAIN pending'}
    BY DEF Outstanding
  <2>2. ASSUME NEW h \in Outstanding' PROVE h \in Outstanding \cup {hash}
    <3>1. PICK jd \in DOMAIN pending' : h = pending'[jd].hash
      BY <2>1
    <3> QED
      BY <1>3, <3>1 DEF Outstanding
  <2>3. ASSUME NEW h \in Outstanding PROVE h \in Outstanding'
    <3>1. PICK jd \in DOMAIN pending : h = pending[jd].hash
      BY DEF Outstanding
    <3>2. jd \in DOMAIN pending' /\ h = pending'[jd].hash
      BY <1>3, <3>1
    <3> QED
      BY <2>1, <3>2
  <2>4. hash \in Outstanding'
    BY <1>3, <2>1
  <2> QED
    BY <2>2, <2>3, <2>4
<1>7. EntriesAreIssued'
  <2>1. ASSUME NEW jd \in DOMAIN pending'
        PROVE  /\ \E p \in issued' : /\ p.id = jd /\ p.hash = pending'[jd].hash
                                     /\ p.expires_at = pending'[jd].expires_at
               /\ pending'[jd].hash \notin DOMAIN concluded'
    <3>1. CASE jd = id
      BY <1>1, <1>2, <1>3, <1>5, <3>1
    <3>2. CASE jd # id
      <4>1. jd \in DOMAIN pending /\ pending'[jd] = pending[jd]
        BY <1>3, <3>2
      <4>2. /\ \E p \in issued : /\ p.id = jd /\ p.hash = pending[jd].hash
                                 /\ p.expires_at = pending[jd].expires_at
            /\ pending[jd].hash \notin DOMAIN concluded
        BY <4>1 DEF HostInv, EntriesAreIssued
      <4> QED
        BY <1>1, <4>1, <4>2
    <3> QED
      BY <3>1, <3>2
  <2>2. \A p \in issued' : p.hash \in Outstanding' \/ p.hash \in DOMAIN concluded'
    BY <1>1, <1>2, <1>6 DEF HostInv, EntriesAreIssued
  <2>3. \A v \in verified' : v.hash \in DOMAIN concluded'
    BY <1>1 DEF HostInv, EntriesAreIssued
  <2> QED
    BY <2>1, <2>2, <2>3 DEF EntriesAreIssued
<1>8. ResponseMatchesItsRequest'
  BY <1>1 DEF HostInv, ResponseMatchesItsRequest
<1>9. OnlyAVerdictRemoves'
  BY <1>1, <1>2, <1>6 DEF HostInv, OnlyAVerdictRemoves
<1>10. \A p \in issued' : p.expires_at \in Int
  BY <1>1, <1>2 DEF HostInv
<1> QED
  BY <1>1, <1>4, <1>5, <1>7, <1>8, <1>9, <1>10 DEF HostInv

(* verify_response and cancel_request: one entry leaves.                   *)
LEMMA OneConcluded ==
    ASSUME HostInv, NEW id \in DOMAIN pending, NEW how \in {"verified", "cancelled"},
           pending' = Without(pending, {id}), concluded' = With(concluded, pending[id].hash, how),
           UNCHANGED <<time, issued>>,
           \A v \in verified' : v \in verified \/ (how = "verified" /\ v.id = id /\ v.hash = pending[id].hash)
    PROVE  HostInv'
<1> DEFINE gone == {id}
<1>1. /\ DOMAIN concluded' = DOMAIN concluded \cup {pending[id].hash}
      /\ concluded'[pending[id].hash] = how
      /\ \A h \in DOMAIN concluded : h # pending[id].hash => concluded'[h] = concluded[h]
  BY DEF With
<1>2. {pending[jd].hash : jd \in gone} = {pending[id].hash} /\ gone \subseteq DOMAIN pending
  OBVIOUS
<1>3. how # "expired" /\ how \in {"verified", "cancelled", "expired"}
  OBVIOUS
<1>4. \A v \in verified' :
        \/ v \in verified
        \/ how = "verified" /\ \E jd \in gone : v.id = jd /\ v.hash = pending[jd].hash
  OBVIOUS
<1>5. \A jd \in gone : concluded'[pending[jd].hash] = how
  BY <1>1
<1>6. pending' = Without(pending, gone)
  OBVIOUS
<1> HIDE DEF gone
<1> QED
  BY <1>1, <1>2, <1>3, <1>4, <1>5, <1>6, EntriesConcluded

(* The steps of the host session.                                          *)
LEMMA HostStep ==
    ASSUME time \in Int, HostInv, HostNext
    PROVE  time' \in Int /\ time <= time' /\ HostInv'
<1>1. ASSUME NEW id \in TableId, SignRequest(id) PROVE time' = time /\ HostInv'
  BY <1>1, SignRequestStep DEF SignRequest
<1>2. ASSUME NEW id \in TableId, CancelRequest(id) PROVE time' = time /\ HostInv'
  <2>1. /\ id \in DOMAIN pending /\ pending' = Without(pending, {id})
        /\ concluded' = With(concluded, pending[id].hash, "cancelled") /\ UNCHANGED <<time, issued, verified>>
    BY <1>2 DEF CancelRequest
  <2> QED
    BY <2>1, OneConcluded
<1>3. ASSUME NEW id \in TableId, NEW r, VerifyHostResponse(id, r) PROVE time' = time /\ HostInv'
  <2>1. /\ id \in DOMAIN pending /\ pending' = Without(pending, {id})
        /\ concluded' = With(concluded, pending[id].hash, "verified") /\ UNCHANGED <<time, issued>>
        /\ verified' = verified \cup {[id |-> id, hash |-> r.request_hash]}
        /\ VerifyResponse(r, pending[id].hash) = "ok"
    BY <1>3 DEF VerifyHostResponse
  <2>2. r.request_hash = pending[id].hash
    BY <2>1, HostVerdict
  <2>3. \A v \in verified' : v \in verified \/ (v.id = id /\ v.hash = pending[id].hash)
    <3> DEFINE v == [id |-> id, hash |-> r.request_hash]
    <3>1. v.id = id /\ v.hash = pending[id].hash
      BY <2>2
    <3> QED
      BY <2>1, <3>1
  <2> QED
    BY <2>1, <2>3, OneConcluded
<1>4. ASSUME ExpirePending PROVE time' = time /\ HostInv'
  <2> DEFINE expired == {id \in DOMAIN pending : IsExpiredAt(pending[id], time)}
             hashes  == {pending[id].hash : id \in expired}
  <2>1. /\ pending' = Without(pending, expired) /\ UNCHANGED <<time, issued, verified>>
        /\ concluded' = [h \in DOMAIN concluded \cup hashes |->
                            IF h \in hashes THEN "expired" ELSE concluded[h]]
    BY <1>4 DEF ExpirePending
  <2>2. \A id \in expired : pending[id].expires_at <= time
    <3> SUFFICES ASSUME NEW id \in expired PROVE pending[id].expires_at <= time
      OBVIOUS
    <3>1. time >= pending[id].expires_at
      BY DEF IsExpiredAt
    <3>2. pending[id].expires_at \in Int
      BY DEF HostInv, EntriesAreIssued
    <3> QED
      BY <3>1, <3>2, SMT
  <2>3. expired \subseteq DOMAIN pending
    OBVIOUS
  <2>4. /\ DOMAIN concluded' = DOMAIN concluded \cup hashes
        /\ \A id \in expired : concluded'[pending[id].hash] = "expired"
        /\ \A h \in DOMAIN concluded : h \notin hashes => concluded'[h] = concluded[h]
    BY <2>1
  <2> HIDE DEF expired
  <2> QED
    BY <2>1, <2>2, <2>3, <2>4, EntriesConcluded
<1>5. ASSUME HostTick PROVE time' \in Int /\ time <= time' /\ HostInv'
  <2>1. time' = time + 1 /\ UNCHANGED <<pending, issued, concluded, verified>>
    BY <1>5 DEF HostTick
  <2>2. time' \in Int /\ time <= time'
    BY <2>1, SMT
  <2> QED
    BY <2>1, <2>2, HostLater
<1>6. time <= time
  BY SMT
<1> QED
  BY <1>1, <1>2, <1>3, <1>4, <1>5, <1>6 DEF HostNext

(* Register: a nonce is taken only when the window it had is over.         *)
LEMMA RegisterStep ==
    ASSUME time \in Int, PipelinedInv,
           NEW id \in TableId, NEW nonce \in TableNonce, NEW ttl \in Ttls, RegisterRequest(id, nonce, ttl)
    PROVE  PipelinedInv'
<1> DEFINE deadline == time + ttl
           hash == Cardinality(registered) + 1
           q == [id |-> id, nonce |-> nonce, now |-> time, deadline |-> deadline, hash |-> hash]
<1>1. /\ q.id = id /\ q.nonce = nonce /\ q.now = time /\ q.deadline = deadline /\ q.hash = hash
      /\ deadline \in Int
  BY TablesAssumption, SMT
<1>2. /\ ~(nonce \in DOMAIN table.nonce_window /\ table.nonce_window[nonce] > time)
      /\ table' = [pending |-> With(table.pending, id, q),
                   nonce_window |-> With(table.nonce_window, nonce, deadline)]
      /\ registered' = registered \cup {q} /\ UNCHANGED <<time, completed>>
  BY <1>1 DEF RegisterRequest, Register
<1> HIDE DEF q
<1>3. /\ Numbered(registered') /\ Cardinality(registered) \in Nat
      /\ \A h \in 1 .. Cardinality(registered) : h # hash /\ h \in 1 .. Cardinality(registered')
  <2>1. Numbered(registered) /\ q.hash = Cardinality(registered) + 1
    BY <1>1 DEF PipelinedInv
  <2>2. /\ Numbered(registered \cup {q}) /\ Cardinality(registered) \in Nat
        /\ \A h \in 1 .. Cardinality(registered) :
                h # q.hash /\ h \in 1 .. Cardinality(registered \cup {q})
    BY <2>1, FreshHash
  <2> QED
    BY <1>2, <2>1, <2>2
<1> HIDE DEF deadline, hash
<1>4. /\ DOMAIN table' = {"pending", "nonce_window"}
      /\ table'.pending = With(table.pending, id, q)
      /\ table'.nonce_window = With(table.nonce_window, nonce, deadline)
  BY <1>2
<1>5. \A jd \in DOMAIN table'.pending : table'.pending[jd] \in registered'
  BY <1>2, <1>4 DEF PipelinedInv, With
<1>6. /\ DOMAIN table'.nonce_window = DOMAIN table.nonce_window \cup {nonce}
      /\ table'.nonce_window[nonce] = deadline
      /\ \A n \in DOMAIN table.nonce_window : n # nonce => table'.nonce_window[n] = table.nonce_window[n]
  BY <1>4 DEF With
<1>7. \A p \in registered : p.nonce = nonce => p.deadline <= time
  BY <1>2, SMT DEF PipelinedInv, NoncesAreClosed
<1>8. NoncesAreClosed'
  <2>1. \A n \in DOMAIN table'.nonce_window : table'.nonce_window[n] \in Int
    BY <1>1, <1>6 DEF PipelinedInv, NoncesAreClosed
  <2>2. ASSUME NEW p \in registered
        PROVE  \/ p.deadline <= time
               \/ p.nonce \in DOMAIN table'.nonce_window /\ p.deadline <= table'.nonce_window[p.nonce]
    BY <1>6, <1>7 DEF PipelinedInv, NoncesAreClosed
  <2>3. deadline <= deadline
    BY <1>1, SMT
  <2>4. q.nonce \in DOMAIN table'.nonce_window /\ q.deadline <= table'.nonce_window[q.nonce]
    BY <1>1, <1>6, <2>3
  <2> QED
    BY <1>2, <2>1, <2>2, <2>4 DEF NoncesAreClosed
<1>9. SweptWindowsDisjoint'
  BY <1>1, <1>2, <1>7 DEF PipelinedInv, SweptWindowsDisjoint
<1>10. CompletedInTime'
  BY <1>1, <1>2, <1>3 DEF PipelinedInv, CompletedInTime
<1>11. \A p \in registered' : p.now \in Int /\ p.deadline \in Int
  BY <1>1, <1>2 DEF PipelinedInv
<1>12. \A c \in completed' : c.hash \in 1 .. Cardinality(registered')
  BY <1>2, <1>3 DEF PipelinedInv
<1> QED
  BY <1>3, <1>4, <1>5, <1>8, <1>9, <1>10, <1>11, <1>12 DEF PipelinedInv

(* An entry that leaves the store leaves its nonce's window there.         *)
LEMMA CancelledEntry ==
    ASSUME PipelinedInv, NEW id, table' = Cancel(table, id), UNCHANGED <<time, registered>>
    PROVE  /\ DOMAIN table' = {"pending", "nonce_window"}
           /\ \A jd \in DOMAIN table'.pending : table'.pending[jd] \in registered'
           /\ NoncesAreClosed' /\ SweptWindowsDisjoint'
<1>1. /\ DOMAIN table' = {"pending", "nonce_window"}
      /\ table'.pending = Without(table.pending, {id}) /\ table'.nonce_window = table.nonce_window
  BY DEF PipelinedInv, Cancel
<1>2. \A jd \in DOMAIN table'.pending : table'.pending[jd] \in registered'
  BY <1>1 DEF PipelinedInv, Without, Restrict
<1>3. NoncesAreClosed'
  BY <1>1 DEF PipelinedInv, NoncesAreClosed
<1> QED
  BY <1>1, <1>2, <1>3 DEF PipelinedInv, SweptWindowsDisjoint

(* take_for_response: what completes is in time, whatever its hash.        *)
LEMMA CorrelateStep ==
    ASSUME time \in Int, PipelinedInv, NEW id \in TableId, CorrelateResponse(id)
    PROVE  PipelinedInv'
<1> DEFINE hash == table.pending[id].hash
<1>1. id \in DOMAIN table.pending
  BY DEF CorrelateResponse, TakeForResponse
<1>2. /\ table' = Cancel(table, id) /\ UNCHANGED <<time, registered>>
      /\ completed' = IF time > table.pending[id].deadline THEN completed
                      ELSE completed \cup {[hash |-> hash, at |-> time]}
  BY <1>1 DEF CorrelateResponse, TakeForResponse
<1>3. table.pending[id] \in registered /\ table.pending[id].deadline \in Int
  BY <1>1 DEF PipelinedInv
<1>4. \A c \in completed' :
        \/ c \in completed
        \/ c.hash = hash /\ c.at = time /\ ~(time > table.pending[id].deadline)
  <2> DEFINE new == [hash |-> hash, at |-> time]
  <2>1. new.hash = hash /\ new.at = time
    OBVIOUS
  <2>2. \A c \in completed' : c \in completed \/ (c = new /\ ~(time > table.pending[id].deadline))
    BY <1>2
  <2> HIDE DEF new
  <2> QED
    BY <2>1, <2>2
<1>5. CompletedInTime'
  <2> SUFFICES ASSUME NEW c \in completed', NEW p \in registered, p.hash = c.hash
               PROVE  c.at <= p.deadline
    BY <1>2 DEF CompletedInTime
  <2>1. CASE c \in completed
    BY <2>1 DEF PipelinedInv, CompletedInTime
  <2>2. CASE c.hash = hash /\ c.at = time /\ ~(time > table.pending[id].deadline)
    <3>1. p = table.pending[id]
      BY <1>3, <2>2 DEF PipelinedInv, Numbered
    <3> QED
      BY <1>3, <2>2, <3>1, SMT
  <2> QED
    BY <1>4, <2>1, <2>2
<1>6. \A c \in completed' : c.hash \in 1 .. Cardinality(registered')
  BY <1>2, <1>3, <1>4 DEF PipelinedInv, Numbered
<1> QED
  BY <1>2, <1>5, <1>6, CancelledEntry DEF PipelinedInv

(* The steps of a pipelined client.                                        *)
LEMMA PipelinedStep ==
    ASSUME time \in Int, PipelinedInv, PipelinedNext
    PROVE  time' \in Int /\ time <= time' /\ PipelinedInv'
<1>1. ASSUME NEW id \in TableId, NEW nonce \in TableNonce, NEW ttl \in Ttls, RegisterRequest(id, nonce, ttl)
      PROVE  time' = time /\ PipelinedInv'
  BY <1>1, RegisterStep DEF RegisterRequest
<1>2. ASSUME NEW id \in TableId, CorrelateResponse(id) PROVE time' = time /\ PipelinedInv'
  BY <1>2, CorrelateStep DEF CorrelateResponse
<1>3. ASSUME NEW id \in TableId, CancelPending(id) PROVE time' = time /\ PipelinedInv'
  <2>1. table' = Cancel(table, id) /\ UNCHANGED <<time, registered, completed>>
    BY <1>3 DEF CancelPending
  <2>2. CompletedInTime'
    BY <2>1 DEF PipelinedInv, CompletedInTime
  <2> QED
    BY <2>1, <2>2, CancelledEntry DEF PipelinedInv
<1>4. ASSUME SweepTimer PROVE time' = time /\ PipelinedInv'
  <2> DEFINE over == {n \in DOMAIN table.nonce_window : table.nonce_window[n] < time}
             late == {id \in DOMAIN table.pending : table.pending[id].deadline < time}
  <2>1. /\ table' = [pending |-> Without(table.pending, late),
                     nonce_window |-> Without(table.nonce_window, over)]
        /\ UNCHANGED <<time, registered, completed>>
    BY <1>4 DEF SweepTimer, SweepExpired
  <2>2. /\ DOMAIN table' = {"pending", "nonce_window"} /\ table'.pending = Without(table.pending, late)
        /\ table'.nonce_window = Without(table.nonce_window, over)
    BY <2>1
  <2>3. \A id \in DOMAIN table'.pending : table'.pending[id] \in registered'
    BY <2>1, <2>2 DEF PipelinedInv, Without, Restrict
  <2>4. /\ DOMAIN table'.nonce_window = DOMAIN table.nonce_window \ over
        /\ \A n \in DOMAIN table'.nonce_window : table'.nonce_window[n] = table.nonce_window[n]
    BY <2>2 DEF Without, Restrict
  <2>5. NoncesAreClosed'
    <3>1. ASSUME NEW q \in registered
          PROVE  \/ q.deadline <= time
                 \/ q.nonce \in DOMAIN table'.nonce_window /\ q.deadline <= table'.nonce_window[q.nonce]
      <4>1. CASE q.nonce \in over
        BY <4>1, SMT DEF PipelinedInv, NoncesAreClosed
      <4>2. CASE q.nonce \notin over
        BY <2>4, <4>2 DEF PipelinedInv, NoncesAreClosed
      <4> QED
        BY <4>1, <4>2
    <3>2. \A n \in DOMAIN table'.nonce_window : table'.nonce_window[n] \in Int
      BY <2>4 DEF PipelinedInv, NoncesAreClosed
    <3> QED
      BY <2>1, <3>1, <3>2 DEF NoncesAreClosed
  <2>6. SweptWindowsDisjoint' /\ CompletedInTime'
    BY <2>1 DEF PipelinedInv, SweptWindowsDisjoint, CompletedInTime
  <2> QED
    BY <2>1, <2>2, <2>3, <2>5, <2>6 DEF PipelinedInv
<1>5. ASSUME PipelinedTick PROVE time' = time + 1 /\ UNCHANGED <<table, registered, completed>>
  BY <1>5 DEF PipelinedTick
<1>6. time + 1 \in Int /\ time <= time + 1 /\ time <= time
  BY SMT
<1> QED
  BY <1>1, <1>2, <1>3, <1>4, <1>5, <1>6, PipelinedLater DEF PipelinedNext

(* The steps of both clients.                                              *)
LEMMA TablesInvStep == TablesInv /\ [TablesNext]_tablesVars => TablesInv'
<1> SUFFICES ASSUME TablesInv, [TablesNext]_tablesVars PROVE TablesInv'
  OBVIOUS
<1>1. time \in Int /\ HostInv /\ PipelinedInv /\ time <= time
  BY SMT DEF TablesInv
<1>2. CASE HostNext /\ UNCHANGED <<table, registered, completed>>
  BY <1>1, <1>2, HostStep, PipelinedLater DEF TablesInv
<1>3. CASE PipelinedNext /\ UNCHANGED <<pending, issued, concluded, verified>>
  BY <1>1, <1>3, PipelinedStep, HostLater DEF TablesInv
<1>4. CASE UNCHANGED tablesVars
  BY <1>1, <1>4, PipelinedLater, HostLater DEF TablesInv, tablesVars
<1> QED
  BY <1>2, <1>3, <1>4 DEF TablesNext

(* Nothing is outstanding when they start.                                 *)
LEMMA TablesInvInit == TablesInit => TablesInv
<1> SUFFICES ASSUME TablesInit PROVE TablesInv
  OBVIOUS
<1>1. /\ time = 0 /\ pending = <<>> /\ issued = {} /\ concluded = <<>> /\ verified = {}
      /\ table = EmptyStore /\ registered = {} /\ completed = {}
  BY DEF TablesInit, HostInit, PipelinedInit
<1>2. time \in Int /\ DOMAIN pending = {} /\ DOMAIN concluded = {}
  BY <1>1, SMT
<1>3. /\ DOMAIN table = {"pending", "nonce_window"}
      /\ DOMAIN table.pending = {} /\ DOMAIN table.nonce_window = {}
  BY <1>1, SMT DEF EmptyStore
<1>4. Numbered(issued) /\ Numbered(registered)
  BY <1>1, FS_EmptySet DEF Numbered
<1>5. HostInv
  BY <1>1, <1>2, <1>4 DEF HostInv, EntriesAreIssued, ResponseMatchesItsRequest, OnlyAVerdictRemoves
<1>6. PipelinedInv
  BY <1>1, <1>3, <1>4 DEF PipelinedInv, NoncesAreClosed, SweptWindowsDisjoint, CompletedInTime
<1> QED
  BY <1>2, <1>5, <1>6 DEF TablesInv

(* However responses are delayed, repeated or delivered under an id used   *)
(* again since, each is matched with its own request and in time, an entry *)
(* leaves only by a verdict, a cancellation or expiry, and a nonce stays   *)
(* closed for its window (verify_response of mcps-host, take_for_response  *)
(* and sweep_expired of mcps-client-core).                                 *)
THEOREM TablesStaySound == TablesSpec => []TablesAreSound
<1>1. TablesInv => TablesAreSound
  BY DEF TablesInv, HostInv, PipelinedInv, TablesAreSound
<1> QED
  BY <1>1, TablesInvInit, TablesInvStep, PTL DEF TablesSpec
=============================================================================
