------------------------------- MODULE EtcdStore -------------------------------
(***************************************************************************)
(* The linearizable store at the level of its requests                     *)
(* (mcps-proxy/src/etcd_store.rs): an insert grants a lease, runs a        *)
(* transaction that puts the key under it if the key is absent, and        *)
(* revokes the lease if it was not.  Each is one POST, which may fail      *)
(* before or after etcd acted on it; a transaction whose POST timed out    *)
(* may be executed later still.                                            *)
(*                                                                         *)
(* Lease 0 is no lease: a key put under it never expires.                  *)
(***************************************************************************)
EXTENDS Integers, FiniteSets

CONSTANTS
    EtcdCallers, EtcdKeys,
    Windows,       \* what is left of a request's validity when it is inserted
    MaxLeases,     \* bound: leases at one time
    MaxEtcdTime,   \* bound: the clock stops here
    NoKey, NoCall

VARIABLES
    etcdNow,   \* etcd's clock
    leases,    \* lease id -> when it ends, and whether a failure excuses that it holds no key
    kv,        \* key -> the lease it was put under
    inserting,   \* the insert_if_absent each caller is in
    replies,   \* the last answer of each caller
    inflight   \* transactions whose caller no longer waits

etcdVars == <<etcdNow, leases, kv, inserting, replies, inflight>>

Ids == 1 .. MaxLeases

(* An insert_if_absent under way, and what a caller wants of the store.    *)
EtcdInsert == [at : {"grant", "txn", "revoke"}, key : EtcdKeys, ttl : Nat, lease : Nat, due : Int]
EtcdWish   == [key : EtcdKeys, ttl : Nat, due : Int]

ASSUME EtcdAssumption ==
    /\ Windows \subseteq Int /\ MaxLeases \in Nat
    /\ NoKey \notin Int /\ NoCall \notin EtcdInsert \cup EtcdWish

EtcdInit ==
    /\ etcdNow = 0
    /\ leases = [id \in {} |-> 0]
    /\ kv = [k \in EtcdKeys |-> NoKey]
    /\ inserting = [c \in EtcdCallers |-> NoCall]
    /\ replies = [c \in EtcdCallers |-> "none"]
    /\ inflight = {}

-----------------------------------------------------------------------------
(* etcd                                                                    *)

Held(id)  == (\E c \in EtcdCallers : inserting[c] # NoCall /\ inserting[c].lease = id)
             \/ (\E t \in inflight : t.lease = id)
(* One id that is not in use; which one makes no difference.               *)
NewIds ==
    LET unused == {id \in Ids \ DOMAIN leases : ~Held(id)}
    IN  {id \in unused : \A other \in unused : id <= other}
WithLease(id, ttl, excused) ==
    [i \in DOMAIN leases \cup {id} |->
        IF i = id THEN [ends |-> etcdNow + ttl, excused |-> excused] ELSE leases[i]]
WithoutLease(id) == [i \in DOMAIN leases \ {id} |-> leases[i]]
Excuse(id) == [i \in DOMAIN leases |-> IF i = id THEN [leases[i] EXCEPT !.excused = TRUE] ELSE leases[i]]

(* A lease that ends takes its keys with it.                               *)
LeaseGone(id) ==
    /\ leases' = WithoutLease(id)
    /\ kv' = [k \in EtcdKeys |-> IF kv[k] = id THEN NoKey ELSE kv[k]]

LeaseKnown(id) == id = 0 \/ id \in DOMAIN leases

LeaseExpires(id) ==
    /\ leases[id].ends <= etcdNow
    /\ LeaseGone(id)
    /\ UNCHANGED <<etcdNow, inserting, replies, inflight>>

EtcdTick ==
    /\ etcdNow < MaxEtcdTime
    /\ etcdNow' = etcdNow + 1
    /\ UNCHANGED <<leases, kv, inserting, replies, inflight>>

-----------------------------------------------------------------------------
(* EtcdAtomicReplayStore::insert_if_absent                                 *)

Conclude(c, answer) ==
    /\ inserting' = [inserting EXCEPT ![c] = NoCall]
    /\ replies' = [replies EXCEPT ![c] = answer]

ComputeTtlSecs(window) == IF window > 1 THEN window ELSE 1

InsertIfAbsent(c, k, window) ==
    /\ inserting[c] = NoCall
    /\ IF window <= 0 THEN Conclude(c, "unavailable")
       ELSE /\ inserting' = [inserting EXCEPT ![c] =
                  [at |-> "grant", key |-> k, ttl |-> ComputeTtlSecs(window), lease |-> 0,
                   due |-> etcdNow + window]]
            /\ replies' = [replies EXCEPT ![c] = "none"]
    /\ UNCHANGED <<etcdNow, leases, kv, inflight>>

ParseLeaseId_AnyInteger(raw) ==
    IF raw.form \in {"string", "number"} THEN <<"ok", raw.id>> ELSE <<"unavailable">>

(* The id is an integer, or an integer in a string, and not zero.          *)
ParseLeaseId(raw) ==
    IF raw.form \in {"string", "number"} /\ raw.id # 0 THEN <<"ok", raw.id>> ELSE <<"unavailable">>

(* The replies to a grant: the gateway's, and ones that are JSON but not   *)
(* what was asked for.                                                     *)
GrantReplies(id) ==
    [form : {"string", "number"}, id : {id}]
    \cup {[form |-> "number", id |-> 0], [form |-> "missing", id |-> 0], [form |-> "other", id |-> 0]}

GrantLease(c) ==
    /\ inserting[c] # NoCall /\ inserting[c].at = "grant"
    /\ \E id \in NewIds : \E raw \in GrantReplies(id) :
        LET parsed == ParseLeaseId(raw)
        IN  /\ leases' = WithLease(id, inserting[c].ttl, parsed # <<"ok", id>>)
            /\ IF parsed[1] = "ok"
               THEN /\ inserting' = [inserting EXCEPT ![c].at = "txn", ![c].lease = parsed[2]]
                    /\ UNCHANGED replies
               ELSE Conclude(c, "unavailable")
    /\ UNCHANGED <<etcdNow, kv, inflight>>

(* The POST fails, before or after the lease was made.                     *)
GrantFails(c) ==
    /\ inserting[c] # NoCall /\ inserting[c].at = "grant"
    /\ \/ UNCHANGED leases
       \/ \E id \in NewIds : leases' = WithLease(id, inserting[c].ttl, TRUE)
    /\ Conclude(c, "unavailable")
    /\ UNCHANGED <<etcdNow, kv, inflight>>

(* The transaction's condition: the key has never been created.            *)
Compare(k) == kv[k] = NoKey

(* A comparison that does not hold is said by leaving the field out.       *)
DecisionFromTxn(resp) == IF resp = "true" THEN "fresh" ELSE "replay"

AfterTxn_NeverRevokes(c, decision) == Conclude(c, decision)

(* On a replay the lease was for nothing.                                  *)
AfterTxn(c, decision) ==
    IF decision = "replay"
    THEN inserting' = [inserting EXCEPT ![c].at = "revoke"] /\ UNCHANGED replies
    ELSE Conclude(c, decision)

Txn(c) ==
    /\ inserting[c] # NoCall /\ inserting[c].at = "txn"
    /\ LeaseKnown(inserting[c].lease)
    /\ LET k == inserting[c].key
       IN  /\ kv' = IF Compare(k) THEN [kv EXCEPT ![k] = inserting[c].lease] ELSE kv
           /\ \E resp \in (IF Compare(k) THEN {"true"} ELSE {"false", "absent"}) :
                AfterTxn(c, DecisionFromTxn(resp))
    /\ UNCHANGED <<etcdNow, leases, inflight>>

(* etcd refuses a lease it no longer knows; or the POST fails, and the     *)
(* transaction may be on its way.                                          *)
TxnFails(c) ==
    /\ inserting[c] # NoCall /\ inserting[c].at = "txn"
    /\ leases' = Excuse(inserting[c].lease)
    /\ inflight' \in {inflight, inflight \cup {inserting[c]}}
    /\ Conclude(c, "unavailable")
    /\ UNCHANGED <<etcdNow, kv>>

LateTxn(t) ==
    /\ kv' = IF LeaseKnown(t.lease) /\ Compare(t.key) THEN [kv EXCEPT ![t.key] = t.lease] ELSE kv
    /\ inflight' = inflight \ {t}
    /\ UNCHANGED <<etcdNow, leases, inserting, replies>>

Revoke(c) ==
    /\ inserting[c] # NoCall /\ inserting[c].at = "revoke"
    /\ LeaseGone(inserting[c].lease)
    /\ Conclude(c, "replay")
    /\ UNCHANGED <<etcdNow, inflight>>

(* The answer stays what it was; the lease runs out by itself.             *)
RevokeFails(c) ==
    /\ inserting[c] # NoCall /\ inserting[c].at = "revoke"
    /\ leases' = Excuse(inserting[c].lease)
    /\ Conclude(c, "replay")
    /\ UNCHANGED <<etcdNow, kv, inflight>>

EtcdNext ==
    \/ \E c \in EtcdCallers :
        \/ \E k \in EtcdKeys, w \in Windows : InsertIfAbsent(c, k, w)
        \/ GrantLease(c) \/ GrantFails(c) \/ Txn(c) \/ TxnFails(c) \/ Revoke(c) \/ RevokeFails(c)
    \/ \E t \in inflight : LateTxn(t)
    \/ \E id \in DOMAIN leases : LeaseExpires(id)
    \/ EtcdTick

EtcdSpec == EtcdInit /\ [][EtcdNext]_etcdVars

-----------------------------------------------------------------------------

Unending == 1000
Wanted(i) == [key |-> i.key, ttl |-> i.ttl, due |-> i.due]

(* A call that only has its lease to revoke has its answer already.        *)
Answered(c) == inserting[c] # NoCall /\ inserting[c].at = "revoke"

StoredUntil == [k \in EtcdKeys |-> IF kv[k] = NoKey THEN NoKey
                                   ELSE IF kv[k] = 0 THEN Unending ELSE leases[kv[k]].ends]
WaitedFor   == [c \in EtcdCallers |->
                  IF inserting[c] = NoCall \/ Answered(c) THEN NoCall ELSE Wanted(inserting[c])]
Told        == [c \in EtcdCallers |-> IF Answered(c) THEN "replay" ELSE replies[c]]
GivenUp     == {Wanted(t) : t \in inflight}

Atomic == INSTANCE AtomicStore WITH
    Callers <- EtcdCallers, Keys <- EtcdKeys,
    now <- etcdNow, until <- StoredUntil, pending <- WaitedFor, answers <- Told, loose <- GivenUp

(* Two proxies that insert one key do it as if in one step: at most one is *)
(* told "fresh", the key is kept from then on for the time it asked for    *)
(* and no longer, and neither a lost answer, a late transaction nor the    *)
(* revocation of a lease takes it away (etcd_store.rs:307-383).            *)
EtcdIsAtomic == Atomic!Spec

(* A lease that no key hangs on, of a call that is over, is there because  *)
(* one of that call's requests failed: a replay gives its lease back       *)
(* (etcd_store.rs:366-380).                                                *)
LeasesAreReturned ==
    \A id \in DOMAIN leases :
        Held(id) \/ leases[id].excused \/ \E k \in EtcdKeys : kv[k] = id
=============================================================================
