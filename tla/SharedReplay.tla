---------------------------- MODULE SharedReplay ----------------------------
(***************************************************************************)
(* The replay cache that several proxies share (mcps-proxy: shared_replay, *)
(* redis_store, etcd_store).  Each node serves one request at a time and   *)
(* asks the store to insert its key if absent, with a time to live that    *)
(* the node derives from its own clock.  The store is a Redis primary with *)
(* replicas, which may fail over, or a linearizable etcd.                  *)
(*                                                                         *)
(* A time to live is counted by the store from the moment it executes the  *)
(* insert (Redis) or grants the lease (etcd).                              *)
(***************************************************************************)
EXTENDS Requests, FiniteSets

CONSTANTS
    Node,         \* the proxies
    Server,       \* the Redis servers, or the one etcd cluster as seen outside
    Tiers,        \* the durability tiers to consider
    Quorum,       \* the replicas WAIT asks for
    Offset,       \* how far each node's clock is ahead of the store's
    Ahead,        \* no node is further ahead than this
    Absent,       \* no entry under a key
    MaxInflight,  \* MAX_INFLIGHT_CONNECTS
    MaxClock,     \* bound: the clock stops here
    MaxFailovers  \* bound: failovers stop here

Tier == {"redis_async", "redis_wait_quorum", "linearizable", "single_store"}

ASSUME SharedAssumption ==
    /\ IsFiniteSet(Server) /\ Server # {}
    /\ Tiers \subseteq Tier
    /\ Quorum \in Nat \ {0}
    /\ Offset \in [Node -> Int]
    /\ Ahead \in Nat
    /\ \A n \in Node : Offset[n] <= Ahead
    /\ Absent \notin Int
    /\ MaxInflight \in Nat
    /\ MaxClock \in Nat
    /\ MaxFailovers \in Nat

VARIABLES
    tier,        \* the declared tier
    clock,       \* the store's clock
    primary,     \* the server that executes the commands
    data,        \* when each key expires, on every server
    pc,          \* where each node is in check_and_insert
    cur,         \* the request it is for
    ttl,         \* the time to live it computed; with a lease, when that ends
    stranded,    \* its connect threads that nobody waits for and still run
    verdict,     \* the last answer of each node
    calls,       \* history: how often each key was presented (0, 1, more)
    admissions,  \* history: how often each request was answered "fresh"
    lostReply,   \* history: the reply to the first SET of this call was lost
    failovers    \* history: how often a replica was promoted

nodeVars  == <<pc, cur, ttl, stranded, verdict>>
storeVars == <<primary, data>>
history   == <<calls, admissions, lostReply, failovers>>
vars      == <<tier, clock, storeVars, nodeVars, history>>

NodeClock(n) == clock + Offset[n]

SharedTypeOK ==
    /\ tier \in Tiers
    /\ clock \in Nat
    /\ primary \in Server
    /\ data \in [Server -> [Key -> Int \cup {Absent}]]
    /\ pc \in [Node -> {"idle", "guard", "set", "reconnect", "connecting", "reset",
                        "wait", "grant", "txn"}]
    /\ cur \in [Node -> Request \cup {NoRequest}]
    /\ ttl \in [Node -> Int]
    /\ stranded \in [Node -> 0 .. MaxInflight]
    /\ verdict \in [Node -> {"none", "fresh", "replay", "unavailable"}]
    /\ calls \in [Key -> 0 .. 2]
    /\ admissions \in [Request -> Nat]
    /\ lostReply \in [Node -> BOOLEAN]
    /\ failovers \in Nat
    /\ \A n \in Node : pc[n] = "idle" <=> cur[n] = NoRequest
    /\ \A n \in Node : pc[n] = "connecting" => stranded[n] < MaxInflight

Init ==
    /\ tier \in Tiers
    /\ clock = 0
    /\ primary \in Server
    /\ data = [s \in Server |-> [k \in Key |-> Absent]]
    /\ pc = [n \in Node |-> "idle"]
    /\ cur = [n \in Node |-> NoRequest]
    /\ ttl = [n \in Node |-> 0]
    /\ stranded = [n \in Node |-> 0]
    /\ verdict = [n \in Node |-> "none"]
    /\ calls = [k \in Key |-> 0]
    /\ admissions = [r \in Request |-> 0]
    /\ lostReply = [n \in Node |-> FALSE]
    /\ failovers = 0

CurKey(n) == KeyOf[cur[n]]

Goto(n, label) ==
    /\ pc' = [pc EXCEPT ![n] = label]
    /\ UNCHANGED <<cur, ttl, verdict>>

(* insert_if_absent returns; the call is over.                             *)
Answer(n, v) ==
    /\ pc' = [pc EXCEPT ![n] = "idle"]
    /\ cur' = [cur EXCEPT ![n] = NoRequest]
    /\ ttl' = [ttl EXCEPT ![n] = 0]
    /\ verdict' = [verdict EXCEPT ![n] = v]

Admit(n) ==
    /\ Answer(n, "fresh")
    /\ admissions' = [admissions EXCEPT ![cur[n]] = @ + 1]

-----------------------------------------------------------------------------
(* A node: from a fresh request to the store, and its answer               *)

(* Request r has passed every check before the replay check.               *)
Call(n, r) ==
    /\ pc[n] = "idle"
    /\ CheckFreshness(r, NodeClock(n))
    /\ pc' = [pc EXCEPT ![n] = "guard"]
    /\ cur' = [cur EXCEPT ![n] = r]
    /\ verdict' = [verdict EXCEPT ![n] = "none"]
    /\ calls' = [calls EXCEPT ![KeyOf[r]] = IF @ = 0 THEN 1 ELSE 2]
    /\ lostReply' = [lostReply EXCEPT ![n] = FALSE]
    /\ UNCHANGED <<tier, clock, storeVars, ttl, stranded, admissions, failovers>>

(* compute_ttl_ms and compute_ttl_secs, in seconds, for a window that      *)
(* passed the guard.                                                       *)
ComputeTtl(r, t) == RetainUntil(r) - t

IsStalePreStore(r, t) == RetainUntil(r) - t <= 0

(* The clock is read once, for the staleness guard and the time to live.   *)
Guard(n) ==
    /\ pc[n] = "guard"
    /\ \/ /\ IsStalePreStore(cur[n], NodeClock(n))
          /\ Answer(n, "unavailable")
       \/ /\ ~IsStalePreStore(cur[n], NodeClock(n))
          /\ ttl' = [ttl EXCEPT ![n] = ComputeTtl(cur[n], NodeClock(n))]
          /\ pc' = [pc EXCEPT ![n] = IF tier = "linearizable" THEN "grant" ELSE "set"]
          /\ UNCHANGED <<cur, verdict>>
    /\ UNCHANGED <<tier, clock, storeVars, stranded, history>>

(* What the store does with the insert of node n.                          *)
Vacant(n)    == data[primary][CurKey(n)] = Absent
Put(n, ends) == data' = [data EXCEPT ![primary][CurKey(n)] = ends]

-----------------------------------------------------------------------------
(* Redis: SET NX PX, one reconnect and retry, WAIT                         *)

(* SET is executed and answered: the key was present, or it is set.        *)
SetAnswered(n) ==
    /\ pc[n] \in {"set", "reset"}
    /\ \/ /\ ~Vacant(n)
          /\ Answer(n, "replay")
          /\ UNCHANGED <<data, admissions>>
       \/ /\ Vacant(n) /\ tier # "redis_wait_quorum"
          /\ Put(n, clock + ttl[n])
          /\ Admit(n)
       \/ /\ Vacant(n) /\ tier = "redis_wait_quorum"
          /\ Put(n, clock + ttl[n])
          /\ Goto(n, "wait")
          /\ UNCHANGED admissions
    /\ UNCHANGED <<tier, clock, primary, stranded, calls, lostReply, failovers>>

(* The connection breaks before SET is executed or before its reply is     *)
(* read.  The first time the node reconnects; the second time it gives up. *)
SetTransient(n) ==
    /\ pc[n] \in {"set", "reset"}
    /\ IF pc[n] = "set" THEN Goto(n, "reconnect") ELSE Answer(n, "unavailable")
    /\ \/ UNCHANGED <<data, lostReply>>
       \/ /\ Vacant(n)
          /\ Put(n, clock + ttl[n])
          /\ lostReply' = [lostReply EXCEPT ![n] = TRUE]
    /\ UNCHANGED <<tier, clock, primary, stranded, calls, admissions, failovers>>

(* Any other error of SET is final, as is a poisoned mutex.                *)
SetFatal(n) ==
    /\ pc[n] \in {"set", "reset"}
    /\ Answer(n, "unavailable")
    /\ UNCHANGED <<tier, clock, storeVars, stranded, history>>

AcquirePermit_Unbounded(n) ==
    /\ pc[n] = "reconnect"
    /\ Goto(n, "connecting")
    /\ UNCHANGED <<tier, clock, storeVars, stranded, history>>

(* bounded_connect: a thread connects, if there is a permit for it.        *)
AcquirePermit(n) ==
    /\ pc[n] = "reconnect"
    /\ IF stranded[n] >= MaxInflight THEN Answer(n, "unavailable") ELSE Goto(n, "connecting")
    /\ UNCHANGED <<tier, clock, storeVars, stranded, history>>

(* The thread sends its outcome; it may keep its permit a little longer.   *)
Connected(n) ==
    /\ pc[n] = "connecting"
    /\ Goto(n, "reset") \/ Answer(n, "unavailable")
    /\ UNCHANGED stranded \/ stranded' = [stranded EXCEPT ![n] = @ + 1]
    /\ UNCHANGED <<tier, clock, storeVars, history>>

(* The deadline passes first: the thread keeps its permit until it ends.   *)
Abandon(n) ==
    /\ pc[n] = "connecting"
    /\ Answer(n, "unavailable")
    /\ stranded' = [stranded EXCEPT ![n] = @ + 1]
    /\ UNCHANGED <<tier, clock, storeVars, history>>

WorkerEnds(n) ==
    /\ stranded[n] > 0
    /\ stranded' = [stranded EXCEPT ![n] = @ - 1]
    /\ UNCHANGED <<tier, clock, storeVars, pc, cur, ttl, verdict, history>>

(* The replicas that have what the primary has under the key of node n.    *)
Acked(n) == {s \in Server \ {primary} : data[s][CurKey(n)] = data[primary][CurKey(n)]}

WaitSatisfied_OneShort(n) == Cardinality(Acked(n)) + 1 >= Quorum

WaitSatisfied(n) == Cardinality(Acked(n)) >= Quorum

WaitFails_Retried(n) ==
    /\ pc[n] = "wait"
    /\ Goto(n, "reconnect")
    /\ UNCHANGED <<tier, clock, storeVars, stranded, history>>

(* Too few acknowledgements in time, or an error: final, never retried.    *)
WaitFails(n) ==
    /\ pc[n] = "wait"
    /\ Answer(n, "unavailable")
    /\ UNCHANGED <<tier, clock, storeVars, stranded, history>>

WaitSucceeds(n) ==
    /\ pc[n] = "wait"
    /\ WaitSatisfied(n)
    /\ Admit(n)
    /\ UNCHANGED <<tier, clock, storeVars, stranded, calls, lostReply, failovers>>

-----------------------------------------------------------------------------
(* etcd: lease grant, put-if-absent transaction, best-effort revoke        *)

Grant(n) ==
    /\ pc[n] = "grant"
    /\ \/ /\ ttl' = [ttl EXCEPT ![n] = clock + @]
          /\ pc' = [pc EXCEPT ![n] = "txn"]
          /\ UNCHANGED <<cur, verdict>>
       \/ Answer(n, "unavailable")
    /\ UNCHANGED <<tier, clock, storeVars, stranded, history>>

(* The transaction, and the reply to it.  On a replay the lease, attached  *)
(* to nothing, is revoked or left to expire.                               *)
TxnAnswered(n) ==
    /\ pc[n] = "txn"
    /\ \/ /\ Vacant(n)
          /\ Put(n, ttl[n])
          /\ Admit(n)
       \/ /\ ~Vacant(n)
          /\ Answer(n, "replay")
          /\ UNCHANGED <<data, admissions>>
    /\ UNCHANGED <<tier, clock, primary, stranded, calls, lostReply, failovers>>

(* The request fails, its lease has expired, or its reply is lost.         *)
TxnFails(n) ==
    /\ pc[n] = "txn"
    /\ Answer(n, "unavailable")
    /\ UNCHANGED data \/ (Vacant(n) /\ Put(n, ttl[n]))
    /\ UNCHANGED <<tier, clock, primary, stranded, history>>

-----------------------------------------------------------------------------
(* Time, the store's own steps, and the death of a node                    *)

Tick ==
    /\ clock < MaxClock
    /\ clock' = clock + 1
    /\ UNCHANGED <<tier, storeVars, nodeVars, history>>

Replicate(s) ==
    /\ tier \in {"redis_async", "redis_wait_quorum"}
    /\ data[s] # data[primary]
    /\ data' = [data EXCEPT ![s] = data[primary]]
    /\ UNCHANGED <<tier, clock, primary, nodeVars, history>>

(* The time to live of key k has run out: no server has it any more.       *)
Expire(k) ==
    /\ data[primary][k] # Absent
    /\ data[primary][k] <= clock
    /\ data' = [s \in Server |-> [data[s] EXCEPT ![k] = Absent]]
    /\ UNCHANGED <<tier, clock, primary, nodeVars, history>>

(* A replica is promoted; the other servers follow it.  Connections to the *)
(* old primary are lost: a WAIT in progress has failed before.             *)
Failover(s) ==
    /\ tier \in {"redis_async", "redis_wait_quorum"}
    /\ s # primary /\ failovers < MaxFailovers
    /\ \A n \in Node : pc[n] # "wait"
    /\ primary' = s
    /\ data' = [x \in Server |-> data[s]]
    /\ failovers' = failovers + 1
    /\ UNCHANGED <<tier, clock, nodeVars, calls, admissions, lostReply>>

Die(n) ==
    /\ pc[n] # "idle"
    /\ Answer(n, "none")
    /\ stranded' = [stranded EXCEPT ![n] = 0]
    /\ UNCHANGED <<tier, clock, storeVars, history>>

Redis(n) ==
    \/ SetAnswered(n) \/ SetTransient(n) \/ SetFatal(n)
    \/ AcquirePermit(n) \/ Connected(n) \/ Abandon(n) \/ WorkerEnds(n)
    \/ WaitFails(n) \/ WaitSucceeds(n)

Etcd(n) == Grant(n) \/ TxnAnswered(n) \/ TxnFails(n)

Next ==
    \/ \E n \in Node :
        (\E r \in Request : Call(n, r)) \/ Guard(n) \/ Redis(n) \/ Etcd(n) \/ Die(n)
    \/ \E s \in Server : Replicate(s) \/ Failover(s)
    \/ \E k \in Key : Expire(k)
    \/ Tick

Spec == Init /\ [][Next]_vars

-----------------------------------------------------------------------------
(* The tiers under which a failover cannot lose an admitted key: there is  *)
(* none, or WAIT asked every replica.                                      *)
Lossless ==
    \/ tier \in {"linearizable", "single_store"}
    \/ tier = "redis_wait_quorum" /\ Quorum >= Cardinality(Server) - 1

(* While a request that was admitted can still be fresh by the clock of    *)
(* the node furthest ahead, no node admits it again: not after a lost      *)
(* reply and its retry, not on another node, and, if the tier is lossless, *)
(* not after a failover.                                                   *)
NoReadmissionInWindow ==
    [][Lossless \/ failovers = 0 =>
        \A r \in Request :
            admissions[r] > 0 /\ admissions'[r] # admissions[r] =>
                clock + Ahead >= RetainUntil(r)]_vars

(* No key stays in the store for longer than a request with that key can   *)
(* be valid: the time to live is the window that is left, never an         *)
(* absolute time.                                                          *)
KeysExpire ==
    \A s \in Server, k \in Key : data[s][k] # Absent =>
        \E r \in Request :
            /\ KeyOf[r] = k
            /\ data[s][k] <= clock + ExpiresAt[r] - IssuedAt[r] + 2 * Skew

(* Nothing piles up, however often replies are lost and nodes reconnect:   *)
(* keys go with their windows, and the connect threads of a node, given up *)
(* or at work, never outnumber its permits (compute_ttl, bounded_connect). *)
ResourcesAreBounded ==
    /\ KeysExpire
    /\ \A n \in Node : stranded[n] + (IF pc[n] = "connecting" THEN 1 ELSE 0) <= MaxInflight

(* A request whose key was never presented before is called a replay only  *)
(* when its own first SET was executed and the reply to it lost: a WAIT    *)
(* that falls short is not retried.                                        *)
ReplayIsEarned ==
    \A n \in Node : \A r \in Request :
        cur[n] = r /\ calls[KeyOf[r]] = 1 /\ pc[n] \in {"set", "reset", "txn"} /\ ~Vacant(n)
            => lostReply[n]

(* "It can only ever REJECT a legitimate request, never ADMIT a replay."   *)
NeverAdmitsReplay == \A r \in Request : admissions[r] <= 1
=============================================================================
