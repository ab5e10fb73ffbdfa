---------------------------- MODULE PendingTables -----------------------------
(***************************************************************************)
(* Two clients with any number of requests outstanding: the host session,  *)
(* with its own table, and a user of the correlation store of mcps-client- *)
(* core.                                                                   *)
(***************************************************************************)
EXTENDS ClientCore, Responses

(***************************************************************************)
(* The host session (mcps-host, session and pending): a draft-01 client    *)
(* with any number of requests outstanding. It keeps the hash and expiry   *)
(* of each under its JSON-RPC id; responses arrive in any order, more than *)
(* once, for requests long settled, or not at all.                         *)
(***************************************************************************)

CONSTANTS
    TableId,               \* JSON-RPC ids
    request_lifetime_secs, \* lifetime of a request
    I64Max,                \* the largest clock value that can be represented
    MaxRequests,           \* bound on the number of requests
    TableNonce,            \* nonces
    Ttls,                  \* lifetimes a pipelined request may have
    TableTime              \* bound on the clock of a pipelined client

(* A lifetime may be zero or negative: both clients take any i64.           *)
ASSUME TablesAssumption ==
    /\ request_lifetime_secs \in Int /\ Ttls \subseteq Int
    /\ I64Max \in Int /\ TableTime \in Int /\ MaxRequests \in Nat

VARIABLES
    time,        \* the client's clock, which only moves forward
    pending,     \* id -> the hash and the expiry of the request outstanding under it
    issued,      \* every request signed so far
    concluded,   \* request hash -> how its entry left the table
    verified     \* the responses verified, with the id each was delivered under

hostVars == <<time, pending, issued, concluded, verified>>

Outstanding == {pending[id].hash : id \in DOMAIN pending}

(* sign_request: an id in flight is refused, and so is an expiry that       *)
(* cannot be represented.                                                   *)
SignRequest(id) ==
    LET entry == [hash |-> Cardinality(issued) + 1, expires_at |-> time + request_lifetime_secs]
    IN  /\ Cardinality(issued) < MaxRequests
        /\ id \notin DOMAIN pending
        /\ entry.expires_at <= I64Max
        /\ pending' = With(pending, id, entry)
        /\ issued' = issued \cup {[id |-> id, hash |-> entry.hash, expires_at |-> entry.expires_at]}
        /\ UNCHANGED <<time, concluded, verified>>

VerifyHostResponse_TakesFirst(id, r) ==
    /\ r.top \notin {"unparsable", "array", "noId"}
    /\ id \in DOMAIN pending
    /\ pending' = Without(pending, {id})
    /\ LET ok == VerifyResponse(r, pending[id].hash) = "ok"
       IN  /\ concluded' = With(concluded, pending[id].hash, IF ok THEN "verified" ELSE "refused")
           /\ verified' = verified \cup IF ok THEN {[id |-> id, hash |-> r.request_hash]} ELSE {}
    /\ UNCHANGED <<time, issued>>

(* verify_response, and verify_and_unwrap_response which adds no change of  *)
(* state: the entry is consulted by the response's own id, and removed only *)
(* when the response verifies against the hash stored there.                *)
VerifyHostResponse(id, r) ==
    /\ r.top \notin {"unparsable", "array", "noId"}
    /\ id \in DOMAIN pending
    /\ VerifyResponse(r, pending[id].hash) = "ok"
    /\ pending' = Without(pending, {id})
    /\ concluded' = With(concluded, pending[id].hash, "verified")
    /\ verified' = verified \cup {[id |-> id, hash |-> r.request_hash]}
    /\ UNCHANGED <<time, issued>>

CancelRequest(id) ==
    /\ id \in DOMAIN pending
    /\ pending' = Without(pending, {id})
    /\ concluded' = With(concluded, pending[id].hash, "cancelled")
    /\ UNCHANGED <<time, issued, verified>>

IsExpiredAt(entry, now) == now >= entry.expires_at

ExpirePending ==
    LET expired == {id \in DOMAIN pending : IsExpiredAt(pending[id], time)}
        hashes  == {pending[id].hash : id \in expired}
    IN  /\ expired # {}
        /\ pending' = Without(pending, expired)
        /\ concluded' = [h \in DOMAIN concluded \cup hashes |->
                            IF h \in hashes THEN "expired" ELSE concluded[h]]
        /\ UNCHANGED <<time, issued, verified>>

HostTick ==
    /\ time < I64Max
    /\ time' = time + 1
    /\ UNCHANGED <<pending, issued, concluded, verified>>

-----------------------------------------------------------------------------
(* The network delivers, under any id, what a server signed for any request *)
(* of this session, and responses with one thing wrong.                     *)
HostGenuine ==
    {BuildSignedResponse("draft-01", request.hash, signer, [kind |-> "object", members |-> {"field"}]) :
        request \in issued, signer \in ServerSigner}

HostFlawed ==
    UNION {{[r EXCEPT !.signature = "bad"], [r EXCEPT !.key = "unavailable"],
            [r EXCEPT !.envelope = "draft-02"], [r EXCEPT !.envelope = "absent"],
            [r EXCEPT !.top = "noId"], [r EXCEPT !.jcs = FALSE]} : r \in HostGenuine}

HostInit ==
    /\ time = 0
    /\ pending = <<>> /\ issued = {} /\ concluded = <<>> /\ verified = {}

HostNext ==
    \/ \E id \in TableId : SignRequest(id) \/ CancelRequest(id)
    \/ \E id \in TableId, r \in HostGenuine \cup HostFlawed : VerifyHostResponse(id, r)
    \/ ExpirePending
    \/ HostTick

-----------------------------------------------------------------------------
(* However responses are delayed, repeated or delivered under an id used    *)
(* again since, one verifies only for the request signed under that id, and *)
(* no request is answered once it was cancelled or had expired              *)
(* (verify_response, cancel_request, expire_pending).                       *)
ResponseMatchesItsRequest ==
    \A v \in verified :
        /\ \E request \in issued : request.id = v.id /\ request.hash = v.hash
        /\ concluded[v.hash] = "verified"

(* A response that does not verify costs the request nothing: an entry      *)
(* leaves the table only because its response verified, because it was      *)
(* cancelled, or because it had expired (verify_response).                  *)
OnlyAVerdictRemoves ==
    \A request \in issued :
        \/ request.hash \in Outstanding
        \/ /\ concluded[request.hash] \in {"verified", "cancelled", "expired"}
           /\ concluded[request.hash] = "expired" => request.expires_at <= time

-----------------------------------------------------------------------------
(***************************************************************************)
(* A client that keeps several requests outstanding in one correlation     *)
(* store and sweeps it on a timer, the use mcps-client-core documents for  *)
(* the store (correlation). Responses come in any order, late, twice, or   *)
(* never; cancellation and the sweep race with them.                       *)
(***************************************************************************)

VARIABLES
    table,       \* the correlation store
    registered,  \* every request registered so far
    completed    \* the hashes of the requests whose response was correlated, and when

pipelinedVars == <<time, table, registered, completed>>

RegisterRequest(id, nonce, ttl) ==
    LET request == [id |-> id, nonce |-> nonce, now |-> time, deadline |-> time + ttl,
                    hash |-> Cardinality(registered) + 1]
        outcome == Register(table, request, time)
    IN  /\ Cardinality(registered) < MaxRequests
        /\ outcome.error = "ok"
        /\ table' = outcome.store
        /\ registered' = registered \cup {request}
        /\ UNCHANGED <<time, completed>>

(* A response for a request, correlated by the id it was sent under.        *)
CorrelateResponse(id) ==
    LET taken == TakeForResponse(table, id, time)
    IN  /\ taken.error # "Uncorrelatable"
        /\ table' = taken.store
        /\ completed' = IF taken.error = "ok"
                        THEN completed \cup {[hash |-> table.pending[id].hash, at |-> time]}
                        ELSE completed
        /\ UNCHANGED <<time, registered>>

CancelPending(id) ==
    /\ id \in DOMAIN table.pending
    /\ table' = Cancel(table, id)
    /\ UNCHANGED <<time, registered, completed>>

SweepTimer ==
    /\ table' = SweepExpired(table, time)
    /\ table' # table
    /\ UNCHANGED <<time, registered, completed>>

PipelinedTick ==
    /\ time < TableTime
    /\ time' = time + 1
    /\ UNCHANGED <<table, registered, completed>>

PipelinedInit ==
    /\ time = 0
    /\ table = EmptyStore
    /\ registered = {} /\ completed = {}

PipelinedNext ==
    \/ \E id \in TableId, nonce \in TableNonce, ttl \in Ttls : RegisterRequest(id, nonce, ttl)
    \/ \E id \in TableId : CorrelateResponse(id) \/ CancelPending(id)
    \/ SweepTimer
    \/ PipelinedTick

-----------------------------------------------------------------------------
(* The sweep, like completion and cancellation, never reopens a nonce       *)
(* inside the window it was used for (sweep_expired, register).             *)
SweptWindowsDisjoint ==
    \A a, b \in registered : a.nonce = b.nonce /\ a # b =>
        a.deadline <= b.now \/ b.deadline <= a.now

(* No response completes a request past its deadline, however the sweep and *)
(* the response race (take_for_response).                                   *)
CompletedInTime ==
    \A c \in completed : \A request \in registered :
        request.hash = c.hash => c.at <= request.deadline

-----------------------------------------------------------------------------
(* Both clients, on one machine's clock.                                    *)

tablesVars == <<time, pending, issued, concluded, verified, table, registered, completed>>

TablesInit == HostInit /\ PipelinedInit

TablesNext ==
    \/ HostNext /\ UNCHANGED <<table, registered, completed>>
    \/ PipelinedNext /\ UNCHANGED <<pending, issued, concluded, verified>>

TablesSpec == TablesInit /\ [][TablesNext]_tablesVars

(* The tables of outstanding requests: an answer is matched with its own    *)
(* request, in time, nothing but a verdict, a cancellation or expiry        *)
(* removes an entry, and a nonce stays closed for its window                *)
(* (verify_response, take_for_response, sweep_expired).                     *)
TablesAreSound ==
    ResponseMatchesItsRequest /\ OnlyAVerdictRemoves /\ SweptWindowsDisjoint /\ CompletedInTime
=============================================================================
