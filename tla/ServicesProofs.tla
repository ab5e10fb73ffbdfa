--------------------------- MODULE ServicesProofs ---------------------------
(***************************************************************************)
(* The services the proxy calls, for any number of callers and keys, any   *)
(* windows and lifetimes, and every fault.  Whatever becomes of a request  *)
(* to etcd, the store it makes inserts in one step and leaves no lease     *)
(* behind without a failure (EtcdStore).  However a PKCS#11 token fails,   *)
(* no session is leaked and no fault outlasts its cause (Pkcs11Session).   *)
(***************************************************************************)
EXTENDS EtcdStore, Pkcs11Session, TLAPS

(* Zenon proves most of the steps; those that need arithmetic say SMT.     *)
USE Zenon

-----------------------------------------------------------------------------
(* EtcdStore                                                               *)

LeaseRecord == [ends : Int, excused : BOOLEAN]

EtcdTypes ==
    /\ etcdNow \in Int
    /\ DOMAIN leases \subseteq Ids
    /\ leases \in [DOMAIN leases -> LeaseRecord]
    /\ kv \in [EtcdKeys -> {NoKey} \cup Nat]
    /\ inserting \in [EtcdCallers -> EtcdInsert \cup {NoCall}]
    /\ replies \in [EtcdCallers -> {"none", "fresh", "replay", "unavailable"}]
    /\ inflight \subseteq EtcdInsert

(* A lease is for one insert only: until its transaction, no key hangs on  *)
(* it, and it ends where the insert wants the key to.                      *)
LeaseServes(i) ==
    /\ i.due <= etcdNow + i.ttl
    /\ i.at = "grant" => i.lease = 0
    /\ i.at # "grant" => i.lease \in Ids /\ \A k \in EtcdKeys : kv[k] # i.lease
    /\ i.lease \in DOMAIN leases =>
        i.due <= leases[i.lease].ends /\ leases[i.lease].ends <= etcdNow + i.ttl

(* Every key is under a lease, and no two under one.                       *)
KeysAreLeased ==
    \A k \in EtcdKeys : kv[k] # NoKey =>
        kv[k] \in DOMAIN leases /\ \A l \in EtcdKeys : kv[l] = kv[k] => l = k

(* No two calls have one lease.                                            *)
CallsAreServed ==
    \A c \in EtcdCallers : inserting[c] # NoCall =>
        /\ LeaseServes(inserting[c])
        /\ \A d \in EtcdCallers :
            d # c /\ inserting[d] # NoCall /\ inserting[c].at # "grant" => inserting[d].lease # inserting[c].lease

(* A transaction on its way has a lease to itself too; its caller saw the  *)
(* request fail.                                                           *)
LateOnesAreServed ==
    \A t \in inflight :
        /\ t.at = "txn" /\ LeaseServes(t)
        /\ \A c \in EtcdCallers : inserting[c] # NoCall => inserting[c].lease # t.lease
        /\ \A u \in inflight : u.lease = t.lease => u = t
        /\ t.lease \in DOMAIN leases => leases[t.lease].excused

EtcdInv ==
    EtcdTypes /\ KeysAreLeased /\ CallsAreServed /\ LateOnesAreServed /\ LeasesAreReturned

(* Before any request every table is empty.                                *)
LEMMA EtcdInitially == EtcdInit => EtcdInv
  BY EtcdAssumption, SMT
  DEF EtcdInit, EtcdInv, EtcdTypes, KeysAreLeased, CallsAreServed, LateOnesAreServed, LeasesAreReturned, Ids

(* etcd gives out an id that nothing refers to (NewIds).                   *)
LEMMA NewIdIsNew ==
    ASSUME NEW id \in NewIds
    PROVE  id \in Ids /\ id \notin DOMAIN leases /\ ~Held(id)
  BY DEF NewIds

(* Granting, ending and excusing a lease make tables of leases again.      *)
LEMMA LeaseTables ==
    ASSUME EtcdTypes, NEW id, NEW ttl \in Int, NEW e \in BOOLEAN
    PROVE  /\ WithLease(id, ttl, e) \in [DOMAIN leases \cup {id} -> LeaseRecord]
           /\ WithoutLease(id) \in [DOMAIN leases \ {id} -> LeaseRecord]
           /\ Excuse(id) \in [DOMAIN leases -> LeaseRecord]
<1>1. \A i \in DOMAIN leases : leases[i] \in LeaseRecord /\ [leases[i] EXCEPT !.excused = TRUE] \in LeaseRecord
  BY DEF EtcdTypes, LeaseRecord
<1>2. [ends |-> etcdNow + ttl, excused |-> e] \in LeaseRecord
  BY SMT DEF EtcdTypes, LeaseRecord
<1> QED
  BY <1>1, <1>2 DEF WithLease, WithoutLease, Excuse

(* What a grant does: a lease nobody uses, for this call or for no one.    *)
LEMMA GrantCases ==
    ASSUME EtcdTypes, NEW c \in EtcdCallers, GrantLease(c) \/ GrantFails(c)
    PROVE  /\ inserting[c] \in EtcdInsert /\ inserting[c].at = "grant" /\ UNCHANGED <<etcdNow, kv, inflight>>
           /\ \/ leases' = leases /\ Conclude(c, "unavailable")
              \/ \E id \in NewIds :
                    leases' = WithLease(id, inserting[c].ttl, TRUE) /\ Conclude(c, "unavailable")
              \/ \E id \in NewIds :
                    /\ leases' = WithLease(id, inserting[c].ttl, FALSE) /\ UNCHANGED replies
                    /\ inserting' = [inserting EXCEPT ![c].at = "txn", ![c].lease = id]
<1>1. CASE GrantFails(c)
  BY <1>1 DEF GrantFails, EtcdTypes
<1>2. CASE GrantLease(c)
  <2>1. inserting[c] \in EtcdInsert /\ inserting[c].at = "grant" /\ UNCHANGED <<etcdNow, kv, inflight>>
    BY <1>2 DEF GrantLease, EtcdTypes
  <2>2. PICK id \in NewIds : \E raw \in GrantReplies(id) :
          /\ leases' = WithLease(id, inserting[c].ttl, ParseLeaseId(raw) # <<"ok", id>>)
          /\ IF ParseLeaseId(raw)[1] = "ok"
             THEN /\ inserting' = [inserting EXCEPT ![c].at = "txn", ![c].lease = ParseLeaseId(raw)[2]]
                  /\ UNCHANGED replies
             ELSE Conclude(c, "unavailable")
    BY <1>2 DEF GrantLease
  <2>3. PICK raw \in GrantReplies(id) :
          /\ leases' = WithLease(id, inserting[c].ttl, ParseLeaseId(raw) # <<"ok", id>>)
          /\ IF ParseLeaseId(raw)[1] = "ok"
             THEN /\ inserting' = [inserting EXCEPT ![c].at = "txn", ![c].lease = ParseLeaseId(raw)[2]]
                  /\ UNCHANGED replies
             ELSE Conclude(c, "unavailable")
    BY <2>2
  <2>4. \/ ParseLeaseId(raw) = <<"ok", id>>
        \/ ParseLeaseId(raw) = <<"unavailable">>
    BY <2>2, SMT DEF GrantReplies, ParseLeaseId
  <2>5. CASE ParseLeaseId(raw) = <<"ok", id>>
    <3>1. ParseLeaseId(raw)[1] = "ok" /\ ParseLeaseId(raw)[2] = id /\ (ParseLeaseId(raw) # <<"ok", id>>) = FALSE
      BY <2>5, SMT
    <3> QED
      BY <2>1, <2>3, <3>1
  <2>6. CASE ParseLeaseId(raw) = <<"unavailable">>
    <3>1. ParseLeaseId(raw)[1] # "ok" /\ (ParseLeaseId(raw) # <<"ok", id>>) = TRUE
      BY <2>6, SMT
    <3> QED
      BY <2>1, <2>3, <3>1
  <2> QED
    BY <2>4, <2>5, <2>6
<1> QED
  BY <1>1, <1>2

(* A grant, whatever is replied, keeps the types.                          *)
LEMMA GrantTypes ==
    ASSUME EtcdTypes, NEW c \in EtcdCallers, GrantLease(c) \/ GrantFails(c)
    PROVE  EtcdTypes'
<1>0. /\ inserting[c] \in EtcdInsert /\ UNCHANGED <<etcdNow, kv, inflight>>
      /\ \/ leases' = leases /\ Conclude(c, "unavailable")
         \/ \E id \in NewIds :
               leases' = WithLease(id, inserting[c].ttl, TRUE) /\ Conclude(c, "unavailable")
         \/ \E id \in NewIds :
               /\ leases' = WithLease(id, inserting[c].ttl, FALSE) /\ UNCHANGED replies
               /\ inserting' = [inserting EXCEPT ![c].at = "txn", ![c].lease = id]
  BY GrantCases
<1>1. inserting[c].ttl \in Int
  BY <1>0, SMT DEF EtcdInsert
<1>2. \A id \in NewIds : id \in Ids
  BY NewIdIsNew
<1>3. Ids \subseteq Nat
  BY EtcdAssumption, SMT DEF Ids
<1>4. ASSUME NEW id \in NewIds, NEW e \in BOOLEAN, leases' = WithLease(id, inserting[c].ttl, e)
      PROVE  DOMAIN leases' \subseteq Ids /\ leases' \in [DOMAIN leases' -> LeaseRecord]
  <2>1. leases' \in [DOMAIN leases \cup {id} -> LeaseRecord]
    BY <1>1, <1>4, LeaseTables
  <2> QED
    BY <1>2, <1>4, <2>1 DEF EtcdTypes
<1>5. ASSUME Conclude(c, "unavailable")
      PROVE  /\ inserting' \in [EtcdCallers -> EtcdInsert \cup {NoCall}]
             /\ replies' \in [EtcdCallers -> {"none", "fresh", "replay", "unavailable"}]
  BY <1>5 DEF Conclude, EtcdTypes
<1>6. CASE leases' = leases /\ Conclude(c, "unavailable")
  BY <1>0, <1>5, <1>6 DEF EtcdTypes
<1>7. ASSUME NEW id \in NewIds, leases' = WithLease(id, inserting[c].ttl, TRUE), Conclude(c, "unavailable")
      PROVE  EtcdTypes'
  BY <1>0, <1>2, <1>4, <1>5, <1>7 DEF EtcdTypes
<1>8. ASSUME NEW id \in NewIds, leases' = WithLease(id, inserting[c].ttl, FALSE), UNCHANGED replies,
             inserting' = [inserting EXCEPT ![c].at = "txn", ![c].lease = id]
      PROVE  EtcdTypes'
  <2>1. inserting' \in [EtcdCallers -> EtcdInsert \cup {NoCall}]
    BY <1>0, <1>2, <1>3, <1>8 DEF EtcdInsert, EtcdTypes
  <2> QED
    BY <1>0, <1>2, <1>4, <1>8, <2>1 DEF EtcdTypes
<1> QED
  BY <1>0, <1>6, <1>7, <1>8

(* Every step keeps the types.                                             *)
LEMMA TypesStep == EtcdTypes /\ [EtcdNext]_etcdVars => EtcdTypes'
<1> SUFFICES ASSUME EtcdTypes, [EtcdNext]_etcdVars PROVE EtcdTypes'
  OBVIOUS
<1>0. \A id : /\ WithoutLease(id) \in [DOMAIN leases \ {id} -> LeaseRecord]
              /\ Excuse(id) \in [DOMAIN leases -> LeaseRecord]
  <2>1. 0 \in Int /\ TRUE \in BOOLEAN
    BY SMT
  <2> QED
    BY <2>1, LeaseTables
<1> USE EtcdAssumption DEF EtcdTypes
<1>1. ASSUME NEW c \in EtcdCallers, NEW k \in EtcdKeys, NEW w \in Windows, InsertIfAbsent(c, k, w)
      PROVE EtcdTypes'
  BY <1>1, SMT DEF InsertIfAbsent, Conclude, ComputeTtlSecs, EtcdInsert
<1>2. ASSUME NEW c \in EtcdCallers, GrantLease(c) \/ GrantFails(c) PROVE EtcdTypes'
  BY <1>2, GrantTypes
<1>4. ASSUME NEW c \in EtcdCallers, Txn(c) PROVE EtcdTypes'
  BY <1>4, SMT DEF Txn, LeaseKnown, Ids, AfterTxn, DecisionFromTxn, Conclude, EtcdInsert
<1>5. ASSUME NEW c \in EtcdCallers, TxnFails(c) PROVE EtcdTypes'
  <2>1. leases' \in [DOMAIN leases -> LeaseRecord]
    BY <1>5, <1>0 DEF TxnFails
  <2>2. /\ inserting' \in [EtcdCallers -> EtcdInsert \cup {NoCall}]
        /\ replies' \in [EtcdCallers -> {"none", "fresh", "replay", "unavailable"}]
        /\ inflight' \subseteq EtcdInsert
    BY <1>5 DEF TxnFails, Conclude
  <2> QED
    BY <1>5, <2>1, <2>2 DEF TxnFails
<1>6. ASSUME NEW c \in EtcdCallers, Revoke(c) PROVE EtcdTypes'
  BY <1>6, <1>0 DEF Revoke, LeaseGone, Conclude, EtcdInsert
<1>7. ASSUME NEW c \in EtcdCallers, RevokeFails(c) PROVE EtcdTypes'
  <2>1. leases' \in [DOMAIN leases -> LeaseRecord]
    BY <1>7, <1>0 DEF RevokeFails
  <2> QED
    BY <1>7, <2>1 DEF RevokeFails, Conclude
<1>8. ASSUME NEW t \in inflight, LateTxn(t) PROVE EtcdTypes'
  BY <1>8 DEF LateTxn, LeaseKnown, Ids, EtcdInsert
<1>9. ASSUME NEW id \in DOMAIN leases, LeaseExpires(id) PROVE EtcdTypes'
  BY <1>9, <1>0 DEF LeaseExpires, LeaseGone
<1>10. CASE EtcdTick
  BY <1>10, SMT DEF EtcdTick
<1>11. CASE UNCHANGED etcdVars
  BY <1>11 DEF etcdVars
<1> QED
  BY <1>1, <1>2, <1>4, <1>5, <1>6, <1>7, <1>8, <1>9, <1>10, <1>11 DEF EtcdNext

(* A grant keeps the invariant: the lease is new, so nobody else has it.   *)
LEMMA GrantStep ==
    ASSUME EtcdInv, EtcdTypes', NEW c \in EtcdCallers, GrantLease(c) \/ GrantFails(c)
    PROVE  EtcdInv'
<1>0. /\ inserting[c] \in EtcdInsert /\ inserting[c].at = "grant" /\ UNCHANGED <<etcdNow, kv, inflight>>
      /\ \/ leases' = leases /\ Conclude(c, "unavailable")
         \/ \E id \in NewIds :
               leases' = WithLease(id, inserting[c].ttl, TRUE) /\ Conclude(c, "unavailable")
         \/ \E id \in NewIds :
               /\ leases' = WithLease(id, inserting[c].ttl, FALSE) /\ UNCHANGED replies
               /\ inserting' = [inserting EXCEPT ![c].at = "txn", ![c].lease = id]
  BY GrantCases DEF EtcdInv
<1>1. Ids \subseteq Nat \ {0}
  BY EtcdAssumption, SMT DEF Ids
<1>2. ASSUME NEW id \in NewIds PROVE id \in Ids /\ id \notin DOMAIN leases /\ ~Held(id)
  BY NewIdIsNew, <1>2
<1> USE EtcdAssumption, <1>0, <1>1 DEF EtcdInv, EtcdTypes, EtcdInsert, LeaseRecord
<1>3. CASE leases' = leases /\ Conclude(c, "unavailable")
  <2>1. KeysAreLeased' /\ CallsAreServed'
    BY <1>3, ZenonT(60) DEF Conclude, KeysAreLeased, CallsAreServed, LeaseServes
  <2>2. LateOnesAreServed'
    BY <1>3 DEF Conclude, LateOnesAreServed, LeaseServes
  <2>3. LeasesAreReturned'
    BY <1>3, SMT DEF Conclude, LeasesAreReturned, Held, CallsAreServed, LeaseServes
  <2> QED
    BY <2>1, <2>2, <2>3
<1>4. ASSUME NEW id \in NewIds, leases' = WithLease(id, inserting[c].ttl, TRUE), Conclude(c, "unavailable")
      PROVE  EtcdInv'
  <2>0. /\ id \in Ids /\ id \notin DOMAIN leases
        /\ \A d \in EtcdCallers : inserting[d] # NoCall => inserting[d].lease # id
        /\ \A t \in inflight : t.lease # id
    BY <1>2 DEF Held
  <2>1. /\ DOMAIN leases' = DOMAIN leases \cup {id}
        /\ \A i \in DOMAIN leases : leases'[i] = leases[i]
        /\ leases'[id].ends = etcdNow + inserting[c].ttl /\ leases'[id].excused = TRUE
    BY <1>4, <2>0 DEF WithLease
  <2>2. inserting'[c] = NoCall /\ \A d \in EtcdCallers : d # c => inserting'[d] = inserting[d]
    BY <1>4 DEF Conclude
  <2>3. KeysAreLeased'
    BY <2>0, <2>1 DEF KeysAreLeased
  <2>4. CallsAreServed'
    BY <2>0, <2>1, <2>2, SMT DEF CallsAreServed, LeaseServes
  <2>5. LateOnesAreServed'
    BY <2>0, <2>1, <2>2, SMT DEF LateOnesAreServed, LeaseServes
  <2>6. LeasesAreReturned'
    <3>1. inserting[c] # NoCall /\ inserting[c].lease = 0
      BY DEF CallsAreServed, LeaseServes
    <3>2. ASSUME NEW i \in DOMAIN leases PROVE (Held(i) => Held(i)') /\ leases'[i].excused = leases[i].excused
      BY <2>1, <2>2, <3>1, <3>2, SMT DEF Held
    <3> QED
      BY <2>1, <3>2 DEF LeasesAreReturned
  <2> QED
    BY <2>3, <2>4, <2>5, <2>6
<1>5. ASSUME NEW id \in NewIds, leases' = WithLease(id, inserting[c].ttl, FALSE), UNCHANGED replies,
             inserting' = [inserting EXCEPT ![c].at = "txn", ![c].lease = id]
      PROVE  EtcdInv'
  <2>0. /\ id \in Ids /\ id \notin DOMAIN leases
        /\ \A d \in EtcdCallers : inserting[d] # NoCall => inserting[d].lease # id
        /\ \A t \in inflight : t.lease # id
    BY <1>2 DEF Held
  <2>1. /\ DOMAIN leases' = DOMAIN leases \cup {id}
        /\ \A i \in DOMAIN leases : leases'[i] = leases[i]
        /\ leases'[id].ends = etcdNow + inserting[c].ttl /\ leases'[id].excused = FALSE
    BY <1>5, <2>0 DEF WithLease
  <2>2. /\ inserting'[c] # NoCall /\ inserting'[c].at = "txn" /\ inserting'[c].lease = id
        /\ inserting'[c].due = inserting[c].due /\ inserting'[c].ttl = inserting[c].ttl
        /\ \A d \in EtcdCallers : d # c => inserting'[d] = inserting[d]
    <3>1. inserting'[c] = [inserting[c] EXCEPT !.at = "txn", !.lease = id]
      BY <1>5
    <3>2. inserting'[c] \in EtcdInsert
      BY <3>1, <2>0, ZenonT(60)
    <3> QED
      BY <1>5, <3>1, <3>2
  <2>3. KeysAreLeased'
    BY <2>0, <2>1 DEF KeysAreLeased
  <2>4. CallsAreServed'
    BY <2>0, <2>1, <2>2, SMT DEF CallsAreServed, LeaseServes, KeysAreLeased
  <2>5. LateOnesAreServed'
    BY <2>0, <2>1, <2>2, SMT DEF LateOnesAreServed, LeaseServes
  <2>6. LeasesAreReturned'
    BY <2>0, <2>1, <2>2, SMT DEF LeasesAreReturned, Held, CallsAreServed, LeaseServes
  <2> QED
    BY <2>3, <2>4, <2>5, <2>6
<1> QED
  BY <1>0, <1>3, <1>4, <1>5

(* Every request, answered, failed or late, keeps the invariant.           *)
LEMMA EtcdStep == EtcdInv /\ [EtcdNext]_etcdVars => EtcdInv'
<1> SUFFICES ASSUME EtcdInv, [EtcdNext]_etcdVars PROVE EtcdInv'
  OBVIOUS
<1>0. EtcdTypes /\ EtcdTypes'
  BY TypesStep DEF EtcdInv
<1>a. Ids \subseteq Nat \ {0}
  BY EtcdAssumption, SMT DEF Ids
<1> USE <1>0, <1>a, EtcdAssumption DEF EtcdTypes, EtcdInv
<1>1. ASSUME NEW c \in EtcdCallers, NEW k \in EtcdKeys, NEW w \in Windows, InsertIfAbsent(c, k, w)
      PROVE EtcdInv'
  <2>1. KeysAreLeased'
    BY <1>1 DEF InsertIfAbsent, Conclude, ComputeTtlSecs, EtcdInsert, KeysAreLeased, CallsAreServed,
                LateOnesAreServed, LeaseServes
  <2>2. CallsAreServed'
    BY <1>1, SMT DEF InsertIfAbsent, Conclude, ComputeTtlSecs, EtcdInsert, CallsAreServed,
                     LateOnesAreServed, LeaseServes, KeysAreLeased
  <2>3. LateOnesAreServed'
    BY <1>1, SMT DEF InsertIfAbsent, Conclude, ComputeTtlSecs, EtcdInsert, CallsAreServed,
                     LateOnesAreServed, LeaseServes, KeysAreLeased
  <2>4. LeasesAreReturned'
    BY <1>1, SMT DEF InsertIfAbsent, Conclude, ComputeTtlSecs, EtcdInsert, LeasesAreReturned, Held,
                     CallsAreServed, LateOnesAreServed, LeaseServes, KeysAreLeased
  <2> QED
    BY <2>1, <2>2, <2>3, <2>4
<1>2. ASSUME NEW c \in EtcdCallers, GrantLease(c) \/ GrantFails(c)
      PROVE EtcdInv'
  BY <1>2, GrantStep
<1>3. ASSUME NEW c \in EtcdCallers, Txn(c)
      PROVE EtcdInv'
  <2>1. KeysAreLeased'
    BY <1>3, SMT DEF Txn, LeaseKnown, Compare, AfterTxn, DecisionFromTxn, Conclude, EtcdInsert,
                     KeysAreLeased, CallsAreServed, LateOnesAreServed, LeaseServes
  <2>2. CallsAreServed'
    BY <1>3, SMT DEF Txn, LeaseKnown, Compare, AfterTxn, DecisionFromTxn, Conclude, EtcdInsert,
                     CallsAreServed, LateOnesAreServed, LeaseServes, KeysAreLeased
  <2>3. LateOnesAreServed'
    BY <1>3, SMT DEF Txn, LeaseKnown, Compare, AfterTxn, DecisionFromTxn, Conclude, EtcdInsert,
                     CallsAreServed, LateOnesAreServed, LeaseServes, KeysAreLeased
  <2>4. LeasesAreReturned'
    BY <1>3, SMT DEF Txn, LeaseKnown, Compare, AfterTxn, DecisionFromTxn, Conclude, EtcdInsert,
                     LeasesAreReturned, Held, CallsAreServed, LateOnesAreServed, LeaseServes,
                     KeysAreLeased
  <2> QED
    BY <2>1, <2>2, <2>3, <2>4
<1>4. ASSUME NEW c \in EtcdCallers, TxnFails(c)
      PROVE EtcdInv'
  <2>1. KeysAreLeased'
    BY <1>4, ZenonT(60) DEF TxnFails, Excuse, Conclude, EtcdInsert, LeaseRecord, KeysAreLeased,
                            CallsAreServed, LateOnesAreServed, LeaseServes
  <2>2. CallsAreServed'
    BY <1>4, SMT DEF TxnFails, Excuse, Conclude, EtcdInsert, LeaseRecord, CallsAreServed,
                     LateOnesAreServed, LeaseServes, KeysAreLeased
  <2>3. LateOnesAreServed'
    BY <1>4, SMT DEF TxnFails, Excuse, Conclude, EtcdInsert, LeaseRecord, CallsAreServed,
                     LateOnesAreServed, LeaseServes, KeysAreLeased
  <2>4. LeasesAreReturned'
    BY <1>4, SMT DEF TxnFails, Excuse, Conclude, EtcdInsert, LeaseRecord, LeasesAreReturned, Held,
                     CallsAreServed, LateOnesAreServed, LeaseServes, KeysAreLeased
  <2> QED
    BY <2>1, <2>2, <2>3, <2>4
<1>5. ASSUME NEW c \in EtcdCallers, Revoke(c)
      PROVE EtcdInv'
  <2>1. KeysAreLeased'
    BY <1>5 DEF Revoke, LeaseGone, WithoutLease, Conclude, EtcdInsert, KeysAreLeased, CallsAreServed,
                LateOnesAreServed, LeaseServes
  <2>2. CallsAreServed'
    BY <1>5, SMT DEF Revoke, LeaseGone, WithoutLease, Conclude, EtcdInsert, CallsAreServed,
                     LateOnesAreServed, LeaseServes, KeysAreLeased
  <2>3. LateOnesAreServed'
    BY <1>5, SMT DEF Revoke, LeaseGone, WithoutLease, Conclude, EtcdInsert, CallsAreServed,
                     LateOnesAreServed, LeaseServes, KeysAreLeased
  <2>4. LeasesAreReturned'
    BY <1>5 DEF Revoke, LeaseGone, WithoutLease, Conclude, EtcdInsert, LeasesAreReturned, Held,
                CallsAreServed, LateOnesAreServed, LeaseServes, KeysAreLeased
  <2> QED
    BY <2>1, <2>2, <2>3, <2>4
<1>6. ASSUME NEW c \in EtcdCallers, RevokeFails(c)
      PROVE EtcdInv'
  <2>1. KeysAreLeased'
    BY <1>6 DEF RevokeFails, Excuse, Conclude, EtcdInsert, LeaseRecord, KeysAreLeased, CallsAreServed,
                LateOnesAreServed, LeaseServes
  <2>2. CallsAreServed'
    BY <1>6, SMT DEF RevokeFails, Excuse, Conclude, EtcdInsert, LeaseRecord, CallsAreServed,
                     LateOnesAreServed, LeaseServes, KeysAreLeased
  <2>3. LateOnesAreServed'
    BY <1>6 DEF RevokeFails, Excuse, Conclude, EtcdInsert, LeaseRecord, CallsAreServed,
                LateOnesAreServed, LeaseServes, KeysAreLeased
  <2>4. LeasesAreReturned'
    BY <1>6, SMT DEF RevokeFails, Excuse, Conclude, EtcdInsert, LeaseRecord, LeasesAreReturned, Held,
                     CallsAreServed, LateOnesAreServed, LeaseServes, KeysAreLeased
  <2> QED
    BY <2>1, <2>2, <2>3, <2>4
<1>7. ASSUME NEW t \in inflight, LateTxn(t)
      PROVE EtcdInv'
  <2>1. KeysAreLeased'
    BY <1>7, SMT DEF LateTxn, LeaseKnown, Compare, EtcdInsert, KeysAreLeased, CallsAreServed,
                     LateOnesAreServed, LeaseServes
  <2>2. CallsAreServed'
    BY <1>7, SMT DEF LateTxn, LeaseKnown, Compare, EtcdInsert, CallsAreServed, LateOnesAreServed,
                     LeaseServes, KeysAreLeased
  <2>3. LateOnesAreServed'
    BY <1>7, ZenonT(60) DEF LateTxn, LeaseKnown, Compare, EtcdInsert, CallsAreServed, LateOnesAreServed,
                            LeaseServes, KeysAreLeased
  <2>4. LeasesAreReturned'
    BY <1>7, SMT DEF LateTxn, LeaseKnown, Compare, EtcdInsert, LeasesAreReturned, Held, CallsAreServed,
                     LateOnesAreServed, LeaseServes, KeysAreLeased
  <2> QED
    BY <2>1, <2>2, <2>3, <2>4
<1>8. ASSUME NEW id \in DOMAIN leases, LeaseExpires(id)
      PROVE EtcdInv'
  <2>1. KeysAreLeased'
    BY <1>8 DEF LeaseExpires, LeaseGone, WithoutLease, KeysAreLeased, CallsAreServed, LateOnesAreServed,
                LeaseServes
  <2>2. CallsAreServed'
    BY <1>8, SMT DEF LeaseExpires, LeaseGone, WithoutLease, CallsAreServed, LateOnesAreServed,
                     LeaseServes, KeysAreLeased
  <2>3. LateOnesAreServed'
    BY <1>8, SMT DEF LeaseExpires, LeaseGone, WithoutLease, CallsAreServed, LateOnesAreServed,
                     LeaseServes, KeysAreLeased
  <2>4. LeasesAreReturned'
    BY <1>8 DEF LeaseExpires, LeaseGone, WithoutLease, LeasesAreReturned, Held, CallsAreServed,
                LateOnesAreServed, LeaseServes, KeysAreLeased
  <2> QED
    BY <2>1, <2>2, <2>3, <2>4
<1>9. ASSUME EtcdTick
      PROVE EtcdInv'
  <2>1. KeysAreLeased'
    BY <1>9 DEF EtcdTick, EtcdInsert, LeaseRecord, KeysAreLeased, CallsAreServed, LateOnesAreServed,
                LeaseServes
  <2>2. CallsAreServed'
    BY <1>9, SMT DEF EtcdTick, EtcdInsert, LeaseRecord, CallsAreServed, LateOnesAreServed, LeaseServes,
                     KeysAreLeased
  <2>3. LateOnesAreServed'
    BY <1>9, SMT DEF EtcdTick, EtcdInsert, LeaseRecord, CallsAreServed, LateOnesAreServed, LeaseServes,
                     KeysAreLeased
  <2>4. LeasesAreReturned'
    BY <1>9 DEF EtcdTick, EtcdInsert, LeaseRecord, LeasesAreReturned, Held, CallsAreServed,
                LateOnesAreServed, LeaseServes, KeysAreLeased
  <2> QED
    BY <2>1, <2>2, <2>3, <2>4
<1>10. ASSUME UNCHANGED etcdVars
      PROVE EtcdInv'
  <2>1. KeysAreLeased'
    BY <1>10 DEF etcdVars, KeysAreLeased, CallsAreServed, LateOnesAreServed, LeaseServes
  <2>2. CallsAreServed'
    BY <1>10 DEF etcdVars, CallsAreServed, LateOnesAreServed, LeaseServes, KeysAreLeased
  <2>3. LateOnesAreServed'
    BY <1>10 DEF etcdVars, CallsAreServed, LateOnesAreServed, LeaseServes, KeysAreLeased
  <2>4. LeasesAreReturned'
    BY <1>10 DEF etcdVars, LeasesAreReturned, Held, CallsAreServed, LateOnesAreServed, LeaseServes,
                 KeysAreLeased
  <2> QED
    BY <2>1, <2>2, <2>3, <2>4
<1> QED
  BY <1>1, <1>2, <1>3, <1>4, <1>5, <1>6, <1>7, <1>8, <1>9, <1>10 DEF EtcdNext

(* The leases granted and put to use are those of calls under way, those   *)
(* that hold a key, and those a failed request has left                    *)
(* (etcd_store.rs).                                                        *)
THEOREM LeasesReturn == EtcdSpec => []LeasesAreReturned
<1>1. EtcdInv => LeasesAreReturned
  BY DEF EtcdInv
<1> QED
  BY <1>1, EtcdInitially, EtcdStep, PTL DEF EtcdSpec

-----------------------------------------------------------------------------
(* Implementing AtomicStore                                                *)

(* The empty store is an empty AtomicStore.                                *)
LEMMA MapsInitially == EtcdInit => Atomic!Init
<1> SUFFICES ASSUME EtcdInit PROVE Atomic!Init
  OBVIOUS
<1>1. StoredUntil = [k \in EtcdKeys |-> NoKey] /\ GivenUp = {}
  BY DEF EtcdInit, StoredUntil, GivenUp
<1>2. WaitedFor = [c \in EtcdCallers |-> NoCall] /\ Told = [c \in EtcdCallers |-> "none"]
  BY DEF EtcdInit, WaitedFor, Told, Answered
<1> QED
  BY <1>1, <1>2 DEF EtcdInit, Atomic!Init

(* What the mapped variables are, key by key and caller by caller.         *)
MappedAsMeant ==
    /\ StoredUntil = [k \in EtcdKeys |-> IF kv[k] = NoKey THEN NoKey ELSE leases[kv[k]].ends]
    /\ \A k \in EtcdKeys : kv[k] # NoKey => leases[kv[k]].ends \in Int
    /\ \A c \in EtcdCallers : inserting[c] # NoCall => Wanted(inserting[c]) # NoCall

(* Under the invariant a key that is stored is stored until its lease      *)
(* ends.                                                                   *)
LEMMA Mapped == EtcdInv => MappedAsMeant
<1> SUFFICES ASSUME EtcdInv PROVE MappedAsMeant
  OBVIOUS
<1>1. Ids \subseteq Nat \ {0}
  BY EtcdAssumption, SMT DEF Ids
<1>2. \A k \in EtcdKeys : kv[k] # NoKey => kv[k] # 0 /\ leases[kv[k]].ends \in Int
  BY <1>1 DEF EtcdInv, EtcdTypes, KeysAreLeased, LeaseRecord
<1>3. StoredUntil = [k \in EtcdKeys |-> IF kv[k] = NoKey THEN NoKey ELSE leases[kv[k]].ends]
  BY <1>2 DEF StoredUntil
<1>4. \A i \in EtcdInsert : Wanted(i) \in EtcdWish
  BY DEF EtcdInsert, EtcdWish, Wanted
<1> QED
  BY <1>2, <1>3, <1>4, EtcdAssumption DEF EtcdInv, EtcdTypes, MappedAsMeant

(* A call that waits and concludes returns, in the terms of AtomicStore.   *)
LEMMA ConcludingReturns ==
    ASSUME EtcdInv, NEW c \in EtcdCallers, inserting[c] # NoCall, inserting[c].at # "revoke",
           NEW answer, Conclude(c, answer), UNCHANGED etcdNow
    PROVE  Atomic!Return(c, answer) /\ WaitedFor[c] = Wanted(inserting[c])
<1>1. WaitedFor[c] = Wanted(inserting[c]) /\ WaitedFor[c] # NoCall
  BY Mapped DEF WaitedFor, Answered, MappedAsMeant
<1>2. WaitedFor' = [WaitedFor EXCEPT ![c] = NoCall]
  BY DEF Conclude, WaitedFor, Answered, EtcdInv, EtcdTypes
<1>3. Told' = [Told EXCEPT ![c] = answer]
  BY DEF Conclude, Told, Answered, EtcdInv, EtcdTypes
<1> QED
  BY <1>1, <1>2, <1>3 DEF Atomic!Return

(* That a lease is excused says nothing of when its keys go.               *)
LEMMA ExcusingKeepsKeys ==
    ASSUME EtcdInv, NEW id, leases' = Excuse(id), NEW k \in EtcdKeys, kv[k] # NoKey
    PROVE  leases'[kv[k]].ends = leases[kv[k]].ends
<1>1. kv[k] \in DOMAIN leases /\ leases[kv[k]] \in LeaseRecord
  BY DEF EtcdInv, KeysAreLeased, EtcdTypes
<1>2. [leases[kv[k]] EXCEPT !.excused = TRUE].ends = leases[kv[k]].ends
  BY <1>1 DEF LeaseRecord
<1> QED
  BY <1>1, <1>2 DEF Excuse

(* Every request is one step of AtomicStore or none: the transaction is    *)
(* the one that counts, the grant before it and the revocation after it do *)
(* nothing to the store.                                                   *)
LEMMA MapsStep == EtcdInv /\ EtcdInv' /\ [EtcdNext]_etcdVars => [Atomic!Next]_(Atomic!vars)
<1> SUFFICES ASSUME EtcdInv, EtcdInv', EtcdNext PROVE Atomic!Next \/ UNCHANGED Atomic!vars
  BY DEF etcdVars, Atomic!vars, StoredUntil, WaitedFor, Told, GivenUp, Answered
<1>0. EtcdTypes /\ EtcdTypes' /\ (Ids \subseteq Nat \ {0})
  BY EtcdAssumption, SMT DEF EtcdInv, Ids
<1>m. MappedAsMeant /\ MappedAsMeant'
  BY Mapped, PTL
<1>1. ASSUME NEW c \in EtcdCallers, NEW k \in EtcdKeys, NEW w \in Windows, InsertIfAbsent(c, k, w)
      PROVE Atomic!Ask(c, k, w)
  <2>1. UNCHANGED <<etcdNow, StoredUntil, GivenUp>>
    BY <1>1 DEF InsertIfAbsent, StoredUntil, GivenUp
  <2>2. WaitedFor[c] = NoCall
    BY <1>1 DEF InsertIfAbsent, WaitedFor
  <2>3. CASE w <= 0
    <3>1. inserting' = inserting /\ replies' = [replies EXCEPT ![c] = "unavailable"]
      BY <1>0, <1>1, <2>3 DEF InsertIfAbsent, Conclude, EtcdTypes
    <3>2. WaitedFor' = WaitedFor
      BY <3>1 DEF WaitedFor, Answered
    <3>3. Told' = [Told EXCEPT ![c] = "unavailable"]
      BY <1>0, <1>1, <3>1 DEF InsertIfAbsent, Told, Answered, EtcdTypes
    <3> QED
      BY <2>1, <2>2, <2>3, <3>2, <3>3 DEF Atomic!Ask
  <2>4. CASE ~(w <= 0)
    <3>1. inserting' = [inserting EXCEPT ![c] =
             [at |-> "grant", key |-> k, ttl |-> w, lease |-> 0, due |-> etcdNow + w]]
      BY <1>1, <2>4, EtcdAssumption, SMT DEF InsertIfAbsent, ComputeTtlSecs
    <3>2. inserting'[c] # NoCall
      BY <1>0, <3>1, <2>4, EtcdAssumption, SMT DEF EtcdInsert, EtcdTypes
    <3>3. WaitedFor' = [WaitedFor EXCEPT ![c] = [key |-> k, ttl |-> w, due |-> etcdNow + w]]
      BY <1>0, <3>1, <3>2 DEF WaitedFor, Wanted, Answered, EtcdTypes
    <3>4. Told' = [Told EXCEPT ![c] = "none"]
      BY <1>0, <1>1, <2>4, <3>1, <3>2 DEF InsertIfAbsent, Told, Answered, EtcdTypes
    <3> QED
      BY <2>1, <2>2, <2>4, <3>3, <3>4 DEF Atomic!Ask
  <2> QED
    BY <2>3, <2>4
<1>2. ASSUME NEW c \in EtcdCallers, GrantLease(c) \/ GrantFails(c)
      PROVE Atomic!GiveUp(c) \/ UNCHANGED Atomic!vars
  <2>1. /\ inserting[c] # NoCall /\ inserting[c] \in EtcdInsert /\ inserting[c].at = "grant"
        /\ UNCHANGED <<etcdNow, kv, inflight>>
    BY <1>2, <1>0, GrantCases, EtcdAssumption
  <2>2. ASSUME NEW id \in NewIds, NEW e \in BOOLEAN, leases' = WithLease(id, inserting[c].ttl, e)
        PROVE  StoredUntil' = StoredUntil
    <3>1. \A i \in DOMAIN leases : leases'[i] = leases[i]
      BY <2>2, NewIdIsNew DEF WithLease
    <3>2. \A k \in EtcdKeys : kv[k] # NoKey => kv[k] \in DOMAIN leases
      BY DEF EtcdInv, KeysAreLeased
    <3> QED
      BY <1>m, <2>1, <3>1, <3>2 DEF MappedAsMeant
  <2>3. leases' = leases => StoredUntil' = StoredUntil
    BY <2>1 DEF StoredUntil
  <2>4. GivenUp' = GivenUp
    BY <2>1 DEF GivenUp
  <2>5. ASSUME Conclude(c, "unavailable"), StoredUntil' = StoredUntil PROVE Atomic!GiveUp(c)
    BY <2>1, <2>4, <2>5, ConcludingReturns DEF Atomic!GiveUp
  <2>6. ASSUME NEW id \in NewIds, leases' = WithLease(id, inserting[c].ttl, FALSE), UNCHANGED replies,
               inserting' = [inserting EXCEPT ![c].at = "txn", ![c].lease = id]
        PROVE  UNCHANGED Atomic!vars
    <3>1. /\ inserting'[c] = [inserting[c] EXCEPT !.at = "txn", !.lease = id]
          /\ \A d \in EtcdCallers : d # c => inserting'[d] = inserting[d]
      BY <1>0, <2>6 DEF EtcdTypes
    <3>a. \A i \in EtcdInsert : LET j == [i EXCEPT !.at = "txn", !.lease = id]
                                IN  j.at = "txn" /\ Wanted(j) = Wanted(i)
      BY DEF EtcdInsert, Wanted
    <3>b. inserting'[c] # NoCall
      <4>1. id \in Nat
        BY <1>0, <2>6, NewIdIsNew
      <4>2. \A i \in EtcdInsert : [i EXCEPT !.at = "txn", !.lease = id] \in EtcdInsert
        BY <4>1 DEF EtcdInsert
      <4> QED
        BY <2>1, <3>1, <4>2, EtcdAssumption
    <3>2. inserting'[c] # NoCall /\ inserting'[c].at = "txn" /\ Wanted(inserting'[c]) = Wanted(inserting[c])
      BY <2>1, <3>1, <3>a, <3>b
    <3>3. WaitedFor' = WaitedFor
      BY <2>1, <3>1, <3>2, EtcdAssumption DEF WaitedFor, Answered
    <3>4. Told' = Told
      BY <2>1, <2>6, <3>1, <3>2 DEF Told, Answered
    <3> QED
      BY <2>1, <2>2, <2>4, <2>6, <3>3, <3>4 DEF Atomic!vars
  <2> QED
    BY <1>0, <1>2, <2>2, <2>3, <2>5, <2>6, GrantCases
<1>3. ASSUME NEW c \in EtcdCallers, Txn(c)
      PROVE Atomic!Fresh(c) \/ Atomic!Replay(c)
  <2> DEFINE i == inserting[c]
  <2>1. /\ i # NoCall /\ i \in EtcdInsert /\ i.at = "txn" /\ i.lease \in DOMAIN leases
        /\ LeaseServes(i) /\ UNCHANGED <<etcdNow, leases, inflight>>
    BY <1>0, <1>3 DEF Txn, LeaseKnown, EtcdInv, EtcdTypes, CallsAreServed, LeaseServes
  <2>2. GivenUp' = GivenUp
    BY <2>1 DEF GivenUp
  <2>3. CASE kv[i.key] = NoKey
    <3>1. Conclude(c, "fresh") /\ kv' = [kv EXCEPT ![i.key] = i.lease]
      BY <1>3, <2>3 DEF Txn, Compare, AfterTxn, DecisionFromTxn
    <3>2. Atomic!Return(c, "fresh") /\ WaitedFor[c] = Wanted(i)
      BY <2>1, <3>1, ConcludingReturns
    <3>3. StoredUntil[i.key] = NoKey
      BY <1>m, <2>1, <2>3 DEF MappedAsMeant, EtcdInsert
    <3>4. StoredUntil' = [StoredUntil EXCEPT ![i.key] = leases[i.lease].ends]
      BY <1>0, <1>m, <2>1, <3>1, EtcdAssumption, SMT DEF MappedAsMeant, EtcdInsert, EtcdTypes
    <3>5. leases[i.lease].ends \in i.due .. (etcdNow + i.ttl)
      BY <1>0, <2>1, SMT DEF LeaseServes, EtcdTypes, LeaseRecord, EtcdInsert
    <3>a. Wanted(i).key = i.key /\ Wanted(i).due = i.due /\ Wanted(i).ttl = i.ttl
      BY DEF Wanted
    <3>b. Atomic!Record(Wanted(i))
      BY <3>3, <3>4, <3>5, <3>a DEF Atomic!Record
    <3>6. Atomic!Record(WaitedFor[c])
      BY <3>2, <3>b
    <3> QED
      BY <2>2, <3>2, <3>6 DEF Atomic!Fresh
  <2>4. CASE kv[i.key] # NoKey
    <3>1. inserting' = [inserting EXCEPT ![c].at = "revoke"] /\ UNCHANGED <<kv, replies>>
      BY <1>3, <2>4 DEF Txn, Compare, AfterTxn, DecisionFromTxn
    <3>2. inserting'[c] # NoCall /\ inserting'[c].at = "revoke"
      BY <1>0, <2>1, <3>1, EtcdAssumption, SMT DEF EtcdTypes, EtcdInsert
    <3>3. StoredUntil' = StoredUntil /\ StoredUntil[i.key] # NoKey
      BY <1>m, <2>1, <2>4, <3>1, EtcdAssumption DEF MappedAsMeant, EtcdInsert
    <3>4. WaitedFor[c] = Wanted(i) /\ WaitedFor[c] # NoCall
      BY <1>m, <2>1 DEF WaitedFor, Answered, MappedAsMeant
    <3>5. WaitedFor' = [WaitedFor EXCEPT ![c] = NoCall]
      BY <1>0, <3>1, <3>2 DEF WaitedFor, Answered, EtcdTypes
    <3>6. Told' = [Told EXCEPT ![c] = "replay"]
      BY <1>0, <3>1, <3>2 DEF Told, Answered, EtcdTypes
    <3> QED
      <4>1. Atomic!Return(c, "replay")
        BY <2>1, <2>2, <3>4, <3>5, <3>6 DEF Atomic!Return
      <4>2. StoredUntil[WaitedFor[c].key] # NoKey
        BY <3>3, <3>4, SMT DEF Wanted
      <4> QED
        BY <2>1, <2>2, <3>3, <4>1, <4>2 DEF Atomic!Replay
  <2> QED
    BY <2>3, <2>4
<1>4. ASSUME NEW c \in EtcdCallers, TxnFails(c)
      PROVE Atomic!GiveUp(c)
  <2>1. /\ inserting[c] # NoCall /\ inserting[c].at = "txn" /\ leases' = Excuse(inserting[c].lease)
        /\ inflight' \in {inflight, inflight \cup {inserting[c]}}
        /\ Conclude(c, "unavailable") /\ UNCHANGED <<etcdNow, kv>>
    BY <1>4 DEF TxnFails
  <2>2. Atomic!Return(c, "unavailable") /\ WaitedFor[c] = Wanted(inserting[c])
    BY <2>1, ConcludingReturns
  <2>3. StoredUntil' = StoredUntil
    BY <1>m, <2>1, ExcusingKeepsKeys DEF MappedAsMeant
  <2>4. GivenUp' \in {GivenUp, GivenUp \cup {WaitedFor[c]}}
    BY <2>1, <2>2 DEF GivenUp
  <2> QED
    BY <2>2, <2>3, <2>4 DEF Atomic!GiveUp
<1>5. ASSUME NEW c \in EtcdCallers, Revoke(c) \/ RevokeFails(c)
      PROVE UNCHANGED Atomic!vars
  <2>1. /\ inserting[c] # NoCall /\ inserting[c].at = "revoke"
        /\ Conclude(c, "replay") /\ UNCHANGED <<etcdNow, inflight>>
    BY <1>5 DEF Revoke, RevokeFails
  <2>2. ASSUME Revoke(c) PROVE StoredUntil' = StoredUntil
    <3>1. LeaseGone(inserting[c].lease) /\ \A k \in EtcdKeys : kv[k] # inserting[c].lease
      BY <2>1, <2>2 DEF Revoke, EtcdInv, CallsAreServed, LeaseServes
    <3>2. \A k \in EtcdKeys : kv'[k] = kv[k]
      BY <3>1 DEF LeaseGone
    <3>3. \A k \in EtcdKeys : kv[k] # NoKey => kv[k] \in DOMAIN leases /\ leases'[kv[k]] = leases[kv[k]]
      BY <3>1 DEF LeaseGone, WithoutLease, EtcdInv, KeysAreLeased
    <3> QED
      BY <1>m, <3>2, <3>3 DEF MappedAsMeant
  <2>3. ASSUME RevokeFails(c) PROVE StoredUntil' = StoredUntil
    BY <1>m, <2>3, ExcusingKeepsKeys DEF MappedAsMeant, RevokeFails
  <2>4. StoredUntil' = StoredUntil
    BY <1>5, <2>2, <2>3
  <2>5. WaitedFor' = WaitedFor
    BY <1>0, <2>1 DEF Conclude, WaitedFor, Answered, EtcdTypes
  <2>6. Told' = Told
    BY <1>0, <2>1 DEF Conclude, Told, Answered, EtcdTypes
  <2> QED
    BY <2>1, <2>4, <2>5, <2>6 DEF Atomic!vars, GivenUp
<1>6. ASSUME NEW t \in inflight, LateTxn(t)
      PROVE Wanted(t) \in GivenUp /\ Atomic!Late(Wanted(t))
  <2>1. /\ t \in EtcdInsert /\ t.lease \in Ids /\ LeaseServes(t)
        /\ inflight' = inflight \ {t} /\ UNCHANGED <<etcdNow, leases, inserting, replies>>
    BY <1>6 DEF LateTxn, EtcdInv, EtcdTypes, LateOnesAreServed, LeaseServes
  <2>2. GivenUp' \in {GivenUp, GivenUp \ {Wanted(t)}} /\ Wanted(t) \in GivenUp
    BY <2>1 DEF GivenUp
  <2>3. Wanted(t).key = t.key /\ Wanted(t).due = t.due /\ Wanted(t).ttl = t.ttl
    BY DEF Wanted
  <2>4. Atomic!Record(Wanted(t)) \/ StoredUntil' = StoredUntil
    <3>1. CASE kv' = kv
      BY <2>1, <3>1 DEF StoredUntil
    <3>2. CASE kv' # kv
      <4>1. t.lease \in DOMAIN leases /\ kv[t.key] = NoKey /\ kv' = [kv EXCEPT ![t.key] = t.lease]
        BY <1>0, <1>6, <2>1, <3>2 DEF LateTxn, LeaseKnown, Compare
      <4>2. StoredUntil[t.key] = NoKey
        BY <1>m, <2>1, <4>1 DEF MappedAsMeant, EtcdInsert
      <4>3. StoredUntil' = [StoredUntil EXCEPT ![t.key] = leases[t.lease].ends]
        BY <1>0, <1>m, <2>1, <4>1, EtcdAssumption, SMT DEF MappedAsMeant, EtcdInsert, EtcdTypes
      <4>4. leases[t.lease].ends \in t.due .. (etcdNow + t.ttl)
        BY <1>0, <2>1, <4>1, SMT DEF LeaseServes, EtcdTypes, LeaseRecord, EtcdInsert
      <4> QED
        BY <2>3, <4>2, <4>3, <4>4 DEF Atomic!Record
    <3> QED
      BY <3>1, <3>2
  <2>5. UNCHANGED <<etcdNow, WaitedFor, Told>>
    BY <2>1 DEF WaitedFor, Told, Answered
  <2> QED
    BY <2>2, <2>4, <2>5 DEF Atomic!Late
<1>7. ASSUME NEW id \in DOMAIN leases, LeaseExpires(id)
      PROVE (\E k \in EtcdKeys : Atomic!Lapse(k)) \/ UNCHANGED Atomic!vars
  <2>1. /\ leases[id].ends <= etcdNow /\ LeaseGone(id) /\ id \in Nat
        /\ UNCHANGED <<etcdNow, inserting, replies, inflight>>
    BY <1>0, <1>7 DEF LeaseExpires, EtcdTypes
  <2>2. UNCHANGED <<etcdNow, WaitedFor, Told, GivenUp>>
    BY <2>1 DEF WaitedFor, Told, Answered, GivenUp
  <2>3. \A k \in EtcdKeys : kv[k] # id => kv'[k] = kv[k] /\ StoredUntil'[k] = StoredUntil[k]
    <3>1. \A k \in EtcdKeys : kv[k] # id => kv'[k] = kv[k]
      BY <2>1 DEF LeaseGone
    <3>2. \A k \in EtcdKeys : kv[k] # NoKey /\ kv[k] # id => leases'[kv[k]] = leases[kv[k]]
      BY <2>1 DEF LeaseGone, WithoutLease, EtcdInv, KeysAreLeased
    <3> QED
      BY <1>m, <3>1, <3>2 DEF MappedAsMeant
  <2>4. CASE \E k \in EtcdKeys : kv[k] = id
    <3>1. PICK k \in EtcdKeys : kv[k] = id
      BY <2>4
    <3>2. \A l \in EtcdKeys : l # k => kv[l] # id
      BY <2>1, <3>1, EtcdAssumption, SMT DEF EtcdInv, KeysAreLeased
    <3>3. StoredUntil[k] = leases[id].ends /\ leases[id].ends \in Int
      BY <1>m, <2>1, <3>1, EtcdAssumption, SMT DEF MappedAsMeant
    <3>4. kv'[k] = NoKey /\ StoredUntil'[k] = NoKey
      BY <1>m, <2>1, <3>1 DEF LeaseGone, MappedAsMeant
    <3>5. StoredUntil' = [StoredUntil EXCEPT ![k] = NoKey]
      BY <2>3, <3>2, <3>4 DEF StoredUntil
    <3> QED
      BY <2>1, <2>2, <3>3, <3>5, EtcdAssumption DEF Atomic!Lapse
  <2>5. CASE \A k \in EtcdKeys : kv[k] # id
    <3>1. StoredUntil' = StoredUntil
      BY <2>3, <2>5 DEF StoredUntil
    <3> QED
      BY <2>2, <3>1 DEF Atomic!vars
  <2> QED
    BY <2>4, <2>5
<1>8. ASSUME EtcdTick PROVE Atomic!Tick
  BY <1>8 DEF EtcdTick, Atomic!Tick, StoredUntil, WaitedFor, Told, Answered, GivenUp
<1> QED
  BY <1>1, <1>2, <1>3, <1>4, <1>5, <1>6, <1>7, <1>8 DEF EtcdNext, Atomic!Next

(* The requests of the etcd client, lost, late and refused as they may be, *)
(* make a store that inserts in one step (etcd_store.rs).                  *)
THEOREM EtcdImplementsAtomicStore == EtcdSpec => EtcdIsAtomic
  BY MapsInitially, MapsStep, EtcdInitially, EtcdStep, PTL DEF EtcdIsAtomic, Atomic!Spec, EtcdSpec

-----------------------------------------------------------------------------
(* Pkcs11Session: signing on a token                                      *)

SigningReply == [kind : {"none", "error"}] \cup [kind : {"signed"}, key : Nat]

TokenState ==
    [sessions : SUBSET Handles, logged_in : BOOLEAN, device : {"ok", "error"}, private : Nat, public : Nat]

SignerCall ==
    [pc : {"idle", "lock", "open", "find", "sign", "verify"}, handle : Handles \cup {NoHandle},
     attempt : {1, 2}, key : Nat, calm : BOOLEAN, reply : SigningReply]

Pkcs11Types ==
    /\ token \in TokenState
    /\ cached \in Handles \cup {NoHandle}
    /\ holder \in Signers \cup {Unheld}
    /\ signers \in [Signers -> SignerCall]

(* Who is past the mutex, and which session it uses: the cached one on the *)
(* first attempt, one of its own on the second.                            *)
MutexIsHeld ==
    \A c \in Signers :
        /\ signers[c].pc \in {"open", "find", "sign", "verify"} <=> holder = c
        /\ signers[c].pc \in {"idle", "lock", "open"} => signers[c].handle = NoHandle
        /\ signers[c].pc \in {"find", "sign", "verify"} =>
            signers[c].handle # NoHandle
            /\ cached = IF signers[c].attempt = 1 THEN signers[c].handle ELSE NoHandle
        /\ signers[c].pc = "open" => cached = NoHandle
        /\ signers[c].pc = "lock" => signers[c].attempt = 1

(* What a call that nothing disturbs can count on.                         *)
CalmCalls ==
    \A c \in Signers : signers[c].calm /\ signers[c].pc # "idle" =>
        /\ Sound(token)
        /\ (signers[c].pc = "find" /\ signers[c].attempt = 2) \/ signers[c].pc \in {"sign", "verify"}
            => signers[c].handle \in token.sessions
        /\ signers[c].pc = "verify" => signers[c].key = token.private

Pkcs11Inv ==
    /\ Pkcs11Types /\ MutexIsHeld /\ CalmCalls
    /\ token.logged_in => token.sessions # {}
    /\ SessionsAreAccounted /\ SoundTokenSigns

(* A signer at rest is one.                                                *)
LEMMA RestingType == Resting \in SignerCall /\ Unsigned \in SigningReply /\ KeyError \in SigningReply
BY DEF Resting, SignerCall, Unsigned, KeyError, SigningReply, NoHandle

(* Nothing is open and nobody signs.                                       *)
LEMMA Pkcs11Initially == Pkcs11Init => Pkcs11Inv
<1> SUFFICES ASSUME Pkcs11Init PROVE Pkcs11Inv
  OBVIOUS
<1>1. Pkcs11Types
  BY RestingType DEF Pkcs11Init, Pkcs11Types, TokenState
<1>2. \A c \in Signers : signers[c] = Resting
  BY DEF Pkcs11Init
<1>3. Resting.pc = "idle" /\ Resting.handle = NoHandle /\ ~Resting.calm
  BY DEF Resting
<1>4. MutexIsHeld /\ CalmCalls /\ SoundTokenSigns
  BY <1>2, <1>3 DEF Pkcs11Init, MutexIsHeld, CalmCalls, SoundTokenSigns, Signers, Unheld
<1>5. token.sessions = {} /\ ~token.logged_in
  BY DEF Pkcs11Init
<1> QED
  BY <1>1, <1>4, <1>5 DEF Pkcs11Inv, SessionsAreAccounted

(* The token's faults end the calm of every call, and open no session.     *)
LEMMA FaultStep ==
    ASSUME Pkcs11Inv, token' \in TokenState, token'.sessions \subseteq token.sessions,
           token'.logged_in => token'.sessions # {}, Disturbed, UNCHANGED <<cached, holder>>
    PROVE  Pkcs11Inv'
<1>1. \A c \in Signers :
        /\ signers'[c] \in SignerCall /\ ~signers'[c].calm
        /\ signers'[c].pc = signers[c].pc /\ signers'[c].handle = signers[c].handle
        /\ signers'[c].attempt = signers[c].attempt
  <2>1. \A s \in SignerCall : LET t == [s EXCEPT !.calm = FALSE]
                              IN  t \in SignerCall /\ ~t.calm /\ t.pc = s.pc /\ t.handle = s.handle
                                  /\ t.attempt = s.attempt
    BY DEF SignerCall
  <2> QED
    BY <2>1 DEF Disturbed, Pkcs11Inv, Pkcs11Types
<1>2. Pkcs11Types'
  BY <1>1 DEF Pkcs11Inv, Pkcs11Types, Disturbed
<1>3. MutexIsHeld'
  BY <1>1 DEF Pkcs11Inv, MutexIsHeld
<1>4. CalmCalls' /\ SoundTokenSigns'
  BY <1>1 DEF CalmCalls, SoundTokenSigns
<1>5. SessionsAreAccounted'
  BY <1>1, SMT DEF Pkcs11Inv, SessionsAreAccounted
<1> QED
  BY <1>2, <1>3, <1>4, <1>5 DEF Pkcs11Inv

(* A call past the mutex goes on, or returns and lets the mutex go.        *)
LEMMA HolderStep ==
    ASSUME Pkcs11Inv, NEW c \in Signers, holder = c, NEW t \in SignerCall,
           signers' = [signers EXCEPT ![c] = t],
           token' \in TokenState, cached' \in Handles \cup {NoHandle},
           t.pc \in {"idle", "open", "find", "sign", "verify"},
           holder' = IF t.pc = "idle" THEN Unheld ELSE c,
           t.pc \in {"idle", "open"} => t.handle = NoHandle,
           t.pc \in {"find", "sign", "verify"} =>
               t.handle # NoHandle /\ cached' = IF t.attempt = 1 THEN t.handle ELSE NoHandle,
           t.pc = "open" => cached' = NoHandle,
           token'.logged_in => token'.sessions # {},
           token'.sessions \subseteq {cached', t.handle},
           Sound(token) => Sound(token'),
           t.calm = signers[c].calm,
           t.calm /\ t.pc # "idle" =>
               /\ (t.pc = "find" /\ t.attempt = 2) \/ t.pc \in {"sign", "verify"} => t.handle \in token'.sessions
               /\ t.pc = "verify" => t.key = token'.private,
           t.calm /\ t.pc = "idle" => t.reply.kind = "signed"
    PROVE  Pkcs11Inv'
<1>1. /\ signers'[c] = t /\ \A d \in Signers : d # c => signers'[d] = signers[d]
      /\ signers' \in [Signers -> SignerCall]
  BY DEF Pkcs11Inv, Pkcs11Types
<1>2. signers[c].pc # "idle" /\ \A d \in Signers : d # c => signers[d].pc \in {"idle", "lock"}
  BY DEF Pkcs11Inv, MutexIsHeld, Pkcs11Types, SignerCall
<1>3. Pkcs11Types'
  BY <1>1 DEF Pkcs11Inv, Pkcs11Types
<1>4. Unheld \notin Signers
  BY DEF Unheld, Signers
<1>5. MutexIsHeld'
  BY <1>1, <1>2, <1>4 DEF Pkcs11Inv, MutexIsHeld
<1>6. CalmCalls'
  BY <1>1, <1>2 DEF Pkcs11Inv, CalmCalls
<1>7. SoundTokenSigns'
  BY <1>1, <1>2 DEF Pkcs11Inv, SoundTokenSigns
<1>8. SessionsAreAccounted'
  BY <1>1 DEF SessionsAreAccounted
<1> QED
  BY <1>3, <1>5, <1>6, <1>7, <1>8 DEF Pkcs11Inv

(* Whoever is past the mutex has the only session of the token, or is      *)
(* about to open it.                                                       *)
LEMMA OnlySession ==
    ASSUME Pkcs11Inv, NEW c \in Signers, holder = c
    PROVE  /\ signers[c] \in SignerCall /\ token \in TokenState
           /\ signers[c].pc \in {"open", "find", "sign", "verify"}
           /\ signers[c].pc = "open" => token.sessions = {} /\ ~token.logged_in
           /\ signers[c].pc # "open" => token.sessions \subseteq {signers[c].handle}
<1>1. signers[c] \in SignerCall /\ token \in TokenState /\ token.sessions \subseteq Handles
  BY DEF Pkcs11Inv, Pkcs11Types, TokenState
<1>2. signers[c].pc \in {"open", "find", "sign", "verify"}
  BY DEF Pkcs11Inv, MutexIsHeld
<1>3. \A d \in Signers : d # c => signers[d].handle = NoHandle
  BY DEF Pkcs11Inv, MutexIsHeld, Pkcs11Types, SignerCall
<1>4. token.sessions \subseteq {cached, signers[c].handle, NoHandle}
  BY <1>3 DEF Pkcs11Inv, SessionsAreAccounted
<1>5. NoHandle \notin Handles
  BY HandlesAssumption DEF NoHandle
<1>6. signers[c].pc = "open" => cached = NoHandle /\ signers[c].handle = NoHandle
  BY DEF Pkcs11Inv, MutexIsHeld
<1>7. signers[c].pc # "open" => cached \in {NoHandle, signers[c].handle}
  BY <1>2 DEF Pkcs11Inv, MutexIsHeld
<1> QED
  BY <1>1, <1>2, <1>4, <1>5, <1>6, <1>7 DEF Pkcs11Inv

(* The three ways a call leaves the session it has.                        *)
LEMMA LeavingSteps ==
    ASSUME Pkcs11Inv, NEW c \in Signers, signers[c].pc \in {"find", "sign", "verify"}
    PROVE  /\ SessionInvalid(c) /\ (signers[c].calm => signers[c].attempt = 1) => Pkcs11Inv'
           /\ FailSigning(c) /\ ~signers[c].calm => Pkcs11Inv'
           /\ \A k \in Nat : FinishSigning(c, [kind |-> "signed", key |-> k]) => Pkcs11Inv'
<1> DEFINE s == signers[c]
<1>1. holder = c
  BY DEF Pkcs11Inv, MutexIsHeld
<1>2. /\ s \in SignerCall /\ token \in TokenState /\ token.sessions \subseteq {s.handle}
      /\ s.handle \in Handles /\ NoHandle \notin Handles
      /\ cached = IF s.attempt = 1 THEN s.handle ELSE NoHandle
      /\ cached \in Handles \cup {NoHandle} /\ s.attempt \in {1, 2}
  BY <1>1, OnlySession, HandlesAssumption
  DEF Pkcs11Inv, MutexIsHeld, Pkcs11Types, SignerCall, NoHandle
<1>3. LET t == CloseSession(token, s.handle)
      IN  /\ t \in TokenState /\ t.sessions = {} /\ ~t.logged_in
          /\ Sound(token) => Sound(t)
  BY <1>2 DEF CloseSession, Without, TokenState, Sound
<1> DEFINE Back(reply) == [Resting EXCEPT !.calm = s.calm, !.reply = reply]
<1>4. \A reply \in SigningReply :
        /\ Back(reply) \in SignerCall /\ Back(reply).pc = "idle" /\ Back(reply).handle = NoHandle
        /\ Back(reply).calm = s.calm /\ Back(reply).reply = reply
  BY <1>2, RestingType DEF SignerCall, Resting
<1>5. ASSUME SessionInvalid(c), s.calm => s.attempt = 1
      PROVE  Pkcs11Inv'
  <2>1. token' = CloseSession(token, s.handle) /\ cached' = NoHandle
    BY <1>5 DEF SessionInvalid
  <2>2. CASE s.attempt = 1
    <3> DEFINE t == [s EXCEPT !.pc = "open", !.handle = NoHandle, !.attempt = 2]
    <3>1. /\ t \in SignerCall /\ t.pc = "open" /\ t.handle = NoHandle /\ t.calm = s.calm
      BY <1>2 DEF SignerCall
    <3>2. signers' = [signers EXCEPT ![c] = t] /\ holder' = c
      BY <1>1, <1>5, <2>2 DEF SessionInvalid
    <3> HIDE DEF t
    <3> QED
      BY <1>1, <1>3, <2>1, <3>1, <3>2, HolderStep
  <2>3. CASE s.attempt = 2
    <3>1. signers' = [signers EXCEPT ![c] = Back(KeyError)] /\ holder' = Unheld
      BY <1>5, <2>3, SMT DEF SessionInvalid, Reply
    <3>2. ~s.calm
      BY <1>5, <2>3, SMT
    <3> HIDE DEF Back
    <3> QED
      BY <1>1, <1>3, <1>4, <2>1, <3>1, <3>2, HolderStep, RestingType
  <2> QED
    BY <1>2, <2>2, <2>3
<1>6. ASSUME FailSigning(c), ~s.calm
      PROVE  Pkcs11Inv'
  <2>1. signers' = [signers EXCEPT ![c] = Back(KeyError)] /\ holder' = Unheld /\ cached' = cached
    BY <1>6 DEF FailSigning, Reply
  <2>2. /\ token' \in TokenState /\ token'.sessions \subseteq {cached} /\ (token'.logged_in => token'.sessions # {})
        /\ Sound(token) => Sound(token')
    BY <1>2, <1>3, <1>6 DEF FailSigning, Pkcs11Inv
  <2> HIDE DEF Back
  <2> QED
    BY <1>1, <1>2, <1>4, <1>6, <2>1, <2>2, HolderStep, RestingType
<1>7. ASSUME NEW k \in Nat, FinishSigning(c, [kind |-> "signed", key |-> k])
      PROVE  Pkcs11Inv'
  <2>1. [kind |-> "signed", key |-> k] \in SigningReply
    BY DEF SigningReply
  <2>2. /\ signers' = [signers EXCEPT ![c] = Back([kind |-> "signed", key |-> k])] /\ holder' = Unheld
        /\ cached' = s.handle /\ token' = token
    BY <1>7 DEF FinishSigning, Reply
  <2>3. token.logged_in => token.sessions # {}
    BY DEF Pkcs11Inv
  <2> HIDE DEF Back
  <2>4. Back([kind |-> "signed", key |-> k]).reply.kind = "signed"
    BY <1>4, <2>1, SMT
  <2> QED
    BY <1>1, <1>2, <1>4, <2>1, <2>2, <2>3, <2>4, HolderStep
<1> QED
  BY <1>5, <1>6, <1>7

(* A call starts, and takes the mutex.                                     *)
LEMMA StartingSteps ==
    ASSUME Pkcs11Inv, NEW c \in Signers, CallSigner(c) \/ TakeSession(c)
    PROVE  Pkcs11Inv'
<1> DEFINE s == signers[c]
<1>0. /\ s \in SignerCall /\ cached \in Handles \cup {NoHandle} /\ token \in TokenState
      /\ \A d \in Signers : signers[d] \in SignerCall
  BY DEF Pkcs11Inv, Pkcs11Types
<1>1. CASE CallSigner(c)
  <2> DEFINE t == [Resting EXCEPT !.pc = "lock", !.calm = Sound(token)]
  <2>1. signers' = [signers EXCEPT ![c] = t] /\ UNCHANGED <<token, cached, holder>> /\ s.pc = "idle"
    BY <1>1 DEF CallSigner
  <2>2. /\ t \in SignerCall /\ t.pc = "lock" /\ t.handle = NoHandle /\ t.attempt = 1
        /\ t.calm = Sound(token)
    BY RestingType DEF SignerCall, Resting, Sound
  <2> HIDE DEF t
  <2>3. signers'[c] = t /\ \A d \in Signers : d # c => signers'[d] = signers[d]
    BY <2>1 DEF Pkcs11Inv, Pkcs11Types
  <2>4. Pkcs11Types'
    BY <2>1, <2>2 DEF Pkcs11Inv, Pkcs11Types
  <2>5. MutexIsHeld'
    BY <2>1, <2>2, <2>3, ZenonT(60) DEF Pkcs11Inv, MutexIsHeld
  <2>6. CalmCalls'
    BY <2>1, <2>2, <2>3, ZenonT(60) DEF Pkcs11Inv, CalmCalls, Sound
  <2>7. SoundTokenSigns'
    BY <2>2, <2>3 DEF Pkcs11Inv, SoundTokenSigns
  <2>8. s.handle = NoHandle
    BY <2>1 DEF Pkcs11Inv, MutexIsHeld
  <2>9. SessionsAreAccounted'
    BY <2>1, <2>2, <2>3, <2>8, SMT DEF Pkcs11Inv, SessionsAreAccounted
  <2> QED
    BY <2>1, <2>4, <2>5, <2>6, <2>7, <2>9 DEF Pkcs11Inv
<1>2. CASE TakeSession(c)
  <2> DEFINE t == [s EXCEPT !.pc = IF cached = NoHandle THEN "open" ELSE "find", !.handle = cached]
  <2>1. /\ signers' = [signers EXCEPT ![c] = t] /\ UNCHANGED <<token, cached>> /\ s.pc = "lock"
        /\ holder = Unheld /\ holder' = c
    BY <1>2 DEF TakeSession
  <2>2. /\ t \in SignerCall /\ t.pc = (IF cached = NoHandle THEN "open" ELSE "find")
        /\ t.handle = cached /\ t.attempt = s.attempt /\ t.calm = s.calm
    BY <1>0 DEF SignerCall
  <2> HIDE DEF t
  <2>3. signers'[c] = t /\ \A d \in Signers : d # c => signers'[d] = signers[d]
    BY <2>1 DEF Pkcs11Inv, Pkcs11Types
  <2>4. Pkcs11Types'
    BY <2>1, <2>2 DEF Pkcs11Inv, Pkcs11Types
  <2>5. s.attempt = 1 /\ s.handle = NoHandle
    BY <2>1 DEF Pkcs11Inv, MutexIsHeld
  <2>6. \A d \in Signers : signers[d].pc \in {"idle", "lock"}
    BY <1>0, <2>1 DEF Pkcs11Inv, MutexIsHeld, Unheld, Signers, SignerCall
  <2>7. MutexIsHeld'
    BY <2>1, <2>2, <2>3, <2>5, <2>6, SMT DEF Pkcs11Inv, MutexIsHeld
  <2>8. CalmCalls'
    BY <2>1, <2>2, <2>3, <2>5, SMT DEF Pkcs11Inv, CalmCalls, Sound
  <2>9. SoundTokenSigns'
    BY <2>2, <2>3 DEF Pkcs11Inv, SoundTokenSigns
  <2>10. SessionsAreAccounted'
    <3>1. NoHandle \notin token.sessions
      BY <1>0, HandlesAssumption DEF TokenState, NoHandle
    <3> QED
      BY <2>1, <2>2, <2>3, <2>5, <3>1, SMT DEF Pkcs11Inv, SessionsAreAccounted
  <2> QED
    BY <2>1, <2>4, <2>7, <2>8, <2>9, <2>10 DEF Pkcs11Inv
<1> QED
  BY <1>1, <1>2

(* A new session is the only one, and logged in.                           *)
LEMMA OpeningStep ==
    ASSUME Pkcs11Inv, NEW c \in Signers, OpenLoggedIn(c)
    PROVE  Pkcs11Inv'
<1> DEFINE s == signers[c]
<1>1. s.pc = "open" /\ holder = c /\ cached = NoHandle
  BY DEF OpenLoggedIn, Pkcs11Inv, MutexIsHeld
<1>2. /\ s \in SignerCall /\ token \in TokenState /\ token.sessions = {} /\ ~token.logged_in
      /\ NoHandle \notin Handles /\ s.attempt \in {1, 2}
  BY <1>1, OnlySession, HandlesAssumption DEF NoHandle, SignerCall
<1>3. CASE token.device # "ok"
  <2> DEFINE t == [Resting EXCEPT !.calm = s.calm, !.reply = KeyError]
  <2>1. signers' = [signers EXCEPT ![c] = t] /\ holder' = Unheld /\ UNCHANGED <<token, cached>>
    BY <1>3 DEF OpenLoggedIn, Reply
  <2>2. t \in SignerCall /\ t.pc = "idle" /\ t.handle = NoHandle /\ t.calm = s.calm
    BY <1>2, RestingType DEF SignerCall, Resting
  <2>3. ~s.calm
    BY <1>1, <1>3 DEF Pkcs11Inv, CalmCalls, Sound
  <2> HIDE DEF t
  <2> QED
    BY <1>1, <1>2, <2>1, <2>2, <2>3, HolderStep
<1>4. CASE token.device = "ok"
  <2>1. PICK h \in Handles :
          /\ token' = [token EXCEPT !.sessions = @ \cup {h}, !.logged_in = TRUE]
          /\ signers' = [signers EXCEPT ![c].pc = "find", ![c].handle = h]
          /\ cached' = IF s.attempt = 1 THEN h ELSE cached
          /\ holder' = holder
    BY <1>2, <1>4 DEF OpenLoggedIn
  <2> DEFINE t == [s EXCEPT !.pc = "find", !.handle = h]
  <2>2. signers' = [signers EXCEPT ![c] = t]
    BY <2>1
  <2>3. /\ t \in SignerCall /\ t.pc = "find" /\ t.handle = h /\ t.calm = s.calm /\ t.attempt = s.attempt
    BY <1>2 DEF SignerCall
  <2>4. /\ token' \in TokenState /\ token'.sessions = {h} /\ token'.logged_in
        /\ Sound(token) => Sound(token')
    BY <1>2, <2>1 DEF TokenState, Sound
  <2> HIDE DEF t
  <2>5. /\ h # NoHandle /\ holder' = c /\ cached' \in Handles \cup {NoHandle}
        /\ cached' = IF t.attempt = 1 THEN t.handle ELSE NoHandle
        /\ token'.sessions \subseteq {cached', t.handle} /\ t.handle \in token'.sessions
    BY <1>1, <1>2, <2>1, <2>3, <2>4
  <2> QED
    BY <1>1, <2>2, <2>3, <2>4, <2>5, HolderStep
<1> QED
  BY <1>3, <1>4

(* A call that nothing disturbs passes every check of its session.         *)
LEMMA UsingSteps ==
    ASSUME Pkcs11Inv, NEW c \in Signers, FindPrivate(c) \/ SignEddsa(c) \/ VerifyBeforeEmit(c)
    PROVE  Pkcs11Inv'
<1> DEFINE s == signers[c]
<1>1. s.pc \in {"find", "sign", "verify"} /\ holder = c
  BY DEF FindPrivate, SignEddsa, VerifyBeforeEmit, Pkcs11Inv, MutexIsHeld
<1>2. /\ s \in SignerCall /\ token \in TokenState /\ token.sessions \subseteq {s.handle} /\ s.attempt \in {1, 2}
      /\ token.private \in Nat /\ s.key \in Nat /\ s.handle # NoHandle
      /\ cached = IF s.attempt = 1 THEN s.handle ELSE NoHandle
      /\ cached \in Handles \cup {NoHandle}
      /\ token.logged_in => token.sessions # {}
  BY <1>1, OnlySession DEF SignerCall, TokenState, Pkcs11Inv, MutexIsHeld, Pkcs11Types
<1>3. s.calm =>
        /\ token.device = "ok" /\ token.private = token.public /\ (token.sessions # {} => token.logged_in)
        /\ s.attempt = 2 \/ s.pc # "find" => s.handle \in token.sessions
        /\ s.pc = "verify" => s.key = token.private
  BY <1>1, <1>2 DEF Pkcs11Inv, CalmCalls, Sound
<1>4. ASSUME NEW at \in {"sign", "verify"}, NEW k \in Nat,
             signers' = [signers EXCEPT ![c] = [s EXCEPT !.pc = at, !.key = k]],
             UNCHANGED <<token, cached, holder>>, Alive(c), at = "verify" => k = token.private
      PROVE  Pkcs11Inv'
  <2> DEFINE t == [s EXCEPT !.pc = at, !.key = k]
  <2>1. /\ t \in SignerCall /\ t.pc = at /\ t.key = k /\ t.handle = s.handle /\ t.calm = s.calm
        /\ t.attempt = s.attempt
    BY <1>2 DEF SignerCall
  <2>2. signers' = [signers EXCEPT ![c] = t]
    BY <1>4
  <2> HIDE DEF t
  <2>3. /\ token' = token /\ cached' = cached /\ holder' = c /\ t.handle \in token.sessions
        /\ t.pc = "verify" => t.key = token.private
    BY <1>1, <1>4, <2>1 DEF Alive
  <2>4. /\ token' \in TokenState /\ cached' \in Handles \cup {NoHandle} /\ t.handle # NoHandle
        /\ cached' = IF t.attempt = 1 THEN t.handle ELSE NoHandle
        /\ token'.logged_in => token'.sessions # {}
        /\ token'.sessions \subseteq {cached', t.handle}
    BY <1>2, <2>1, <2>3
  <2> QED
    <3>1. /\ t.pc \in {"sign", "verify"} /\ t.calm = signers[c].calm /\ t.handle \in token'.sessions
          /\ t.pc = "verify" => t.key = token'.private
          /\ Sound(token) => Sound(token')
      BY <1>4, <2>1, <2>3
    <3> QED
      BY <1>1, <2>1, <2>2, <2>3, <2>4, <3>1, HolderStep
<1>5. CASE FindPrivate(c)
  <2>1. CASE ~(Alive(c) /\ token.logged_in) /\ SessionInvalid(c)
    <3>1. s.pc = "find" /\ (s.calm => s.attempt = 1)
      BY <1>2, <1>3, <1>5, <2>1 DEF FindPrivate, Alive
    <3> QED
      BY <1>1, <2>1, <3>1, LeavingSteps
  <2>2. CASE FailSigning(c) /\ Alive(c) /\ ~token.logged_in
    <3>1. ~s.calm
      BY <1>3, <2>2 DEF Alive
    <3> QED
      BY <1>1, <2>2, <3>1, LeavingSteps
  <2>3. CASE /\ Alive(c) /\ signers' = [signers EXCEPT ![c].pc = "sign"]
             /\ UNCHANGED <<token, cached, holder>>
    <3>1. [s EXCEPT !.pc = "sign"] = [s EXCEPT !.pc = "sign", !.key = s.key]
      BY <1>2 DEF SignerCall
    <3> QED
      BY <1>2, <1>4, <2>3, <3>1
  <2> QED
    BY <1>5, <2>1, <2>2, <2>3 DEF FindPrivate
<1>6. CASE SignEddsa(c)
  <2>0. s.pc = "sign"
    BY <1>6 DEF SignEddsa
  <2>1. CASE ~(Alive(c) /\ token.logged_in) /\ SessionInvalid(c)
    <3>1. ~s.calm
      BY <1>2, <1>3, <2>0, <2>1 DEF Alive
    <3> QED
      BY <1>1, <2>1, <3>1, LeavingSteps
  <2>2. CASE FinishSigning(c, [kind |-> "signed", key |-> token.private])
    BY <1>1, <1>2, <2>2, LeavingSteps
  <2>3. CASE /\ Alive(c) /\ signers' = [signers EXCEPT ![c].pc = "verify", ![c].key = token.private]
             /\ UNCHANGED <<token, cached, holder>>
    BY <1>2, <1>4, <2>3
  <2> QED
    BY <1>6, <2>1, <2>2, <2>3 DEF SignEddsa
<1>7. CASE VerifyBeforeEmit(c)
  <2>0. s.pc = "verify"
    BY <1>7 DEF VerifyBeforeEmit
  <2>1. CASE ~Alive(c) /\ SessionInvalid(c)
    <3>1. ~s.calm
      BY <1>3, <2>0, <2>1 DEF Alive
    <3> QED
      BY <1>1, <2>1, <3>1, LeavingSteps
  <2>2. CASE token.public # s.key /\ FailSigning(c)
    <3>1. ~s.calm
      BY <1>3, <2>0, <2>2
    <3> QED
      BY <1>1, <2>2, <3>1, LeavingSteps
  <2>3. CASE FinishSigning(c, [kind |-> "signed", key |-> s.key])
    BY <1>1, <1>2, <2>3, LeavingSteps
  <2> QED
    BY <1>7, <2>1, <2>2, <2>3 DEF VerifyBeforeEmit
<1> QED
  BY <1>5, <1>6, <1>7

(* Every step of the signers and of the token keeps the invariant.         *)
LEMMA Pkcs11Step == Pkcs11Inv /\ [Pkcs11Next]_pkcs11Vars => Pkcs11Inv'
<1> SUFFICES ASSUME Pkcs11Inv, [Pkcs11Next]_pkcs11Vars PROVE Pkcs11Inv'
  OBVIOUS
<1>0. token \in TokenState /\ (token.logged_in => token.sessions # {})
  BY DEF Pkcs11Inv, Pkcs11Types
<1>1. CASE TokenResets \/ LoginLapses
  <2>1. /\ token' \in TokenState /\ token'.sessions \subseteq token.sessions /\ ~token'.logged_in
        /\ Disturbed /\ UNCHANGED <<cached, holder>>
    BY <1>0, <1>1 DEF TokenResets, LoginLapses, TokenState
  <2> QED
    BY <2>1, FaultStep
<1>2. CASE DeviceGlitches \/ PairIsReplaced
  <2>1. /\ token' \in TokenState /\ token'.sessions = token.sessions /\ token'.logged_in = token.logged_in
        /\ Disturbed /\ UNCHANGED <<cached, holder>>
    BY <1>0, <1>2, SMT DEF DeviceGlitches, PairIsReplaced, TokenState
  <2> QED
    BY <1>0, <2>1, FaultStep
<1>3. ASSUME NEW c \in Signers, CallSigner(c) \/ SignerStep(c) PROVE Pkcs11Inv'
  BY <1>3, StartingSteps, OpeningStep, UsingSteps DEF SignerStep
<1>4. CASE UNCHANGED pkcs11Vars
  BY <1>4 DEF pkcs11Vars, Pkcs11Inv, Pkcs11Types, MutexIsHeld, CalmCalls, SessionsAreAccounted,
     SoundTokenSigns, Sound
<1> QED
  BY <1>1, <1>2, <1>3, <1>4 DEF Pkcs11Next

(* A response signature is emitted by VerifyBeforeEmit alone, which has    *)
(* just compared its key with the published one.                           *)
LEMMA EmittedStep ==
    ASSUME Pkcs11Inv, [Pkcs11Next]_pkcs11Vars,
           signers'["response"].reply.kind = "signed", signers["response"].reply.kind # "signed"
    PROVE  signers'["response"].reply.key = token.public
<1> DEFINE s == signers["response"]
<1>0. s \in SignerCall /\ "response" \in Signers /\ signers \in [Signers -> SignerCall]
  BY DEF Pkcs11Inv, Pkcs11Types, Signers
<1>1. signers' # signers
  OBVIOUS
<1>2. ~Disturbed
  <2>1. \A t \in SignerCall : [t EXCEPT !.calm = FALSE].reply = t.reply
    BY DEF SignerCall
  <2> QED
    BY <1>0, <2>1 DEF Disturbed
<1>3. PICK c \in Signers : CallSigner(c) \/ SignerStep(c)
  BY <1>1, <1>2 DEF Pkcs11Next, pkcs11Vars, TokenResets, LoginLapses, DeviceGlitches, PairIsReplaced
<1>4. ASSUME NEW f, signers' = [signers EXCEPT ![c] = f] PROVE c = "response" /\ signers'["response"] = f
  BY <1>0, <1>4
<1>5. ASSUME NEW reply, Reply(c, reply)
      PROVE  c = "response" /\ signers'["response"].reply = reply
  <2>1. c = "response" /\ signers'["response"] = [Resting EXCEPT !.calm = s.calm, !.reply = reply]
    BY <1>4, <1>5 DEF Reply
  <2> QED
    BY <2>1 DEF Resting
<1>6. ASSUME NEW f, signers' = [signers EXCEPT ![c] = f], f.reply = signers[c].reply PROVE FALSE
  BY <1>4, <1>6
<1>7. \A t \in SignerCall : \A at :
        /\ \A h : [t EXCEPT !.pc = at, !.handle = h].reply = t.reply
        /\ \A h, a : [t EXCEPT !.pc = at, !.handle = h, !.attempt = a].reply = t.reply
        /\ \A k : [t EXCEPT !.pc = at, !.key = k].reply = t.reply
        /\ [t EXCEPT !.pc = at].reply = t.reply
  BY DEF SignerCall
<1>8. signers[c] \in SignerCall
  BY <1>0
<1>9. ~CallSigner(c)
  <2>1. \A calm : [Resting EXCEPT !.pc = "lock", !.calm = calm].reply.kind = "none"
    BY DEF Resting, Unsigned
  <2> QED
    BY <1>4, <2>1 DEF CallSigner
<1>10. ~TakeSession(c)
  <2> DEFINE at == IF cached = NoHandle THEN "open" ELSE "find"
             f == [signers[c] EXCEPT !.pc = at, !.handle = cached]
  <2>1. TakeSession(c) => signers' = [signers EXCEPT ![c] = f]
    BY DEF TakeSession
  <2>2. f.reply = signers[c].reply
    BY <1>7, <1>8, SMT
  <2> HIDE DEF f
  <2> QED
    BY <1>6, <2>1, <2>2
<1>11. ~Reply(c, KeyError)
  BY <1>5, SMT DEF KeyError
<1>12. ~OpenLoggedIn(c)
  <2> SUFFICES ASSUME OpenLoggedIn(c) PROVE FALSE
    OBVIOUS
  <2>1. PICK h \in Handles : signers' = [signers EXCEPT ![c].pc = "find", ![c].handle = h]
    BY <1>11 DEF OpenLoggedIn
  <2> DEFINE f == [signers[c] EXCEPT !.pc = "find", !.handle = h]
  <2>2. signers' = [signers EXCEPT ![c] = f]
    BY <2>1
  <2>3. f.reply = signers[c].reply
    BY <1>7, <1>8, SMT
  <2> HIDE DEF f
  <2> QED
    BY <1>6, <2>2, <2>3
<1>13. ~SessionInvalid(c) /\ ~FailSigning(c)
  <2> DEFINE f == [signers[c] EXCEPT !.pc = "open", !.handle = NoHandle, !.attempt = 2]
  <2>1. SessionInvalid(c) => signers' = [signers EXCEPT ![c] = f]
    BY <1>11 DEF SessionInvalid
  <2>2. f.reply = signers[c].reply
    BY <1>7, <1>8, SMT
  <2>3. ~FailSigning(c)
    BY <1>11 DEF FailSigning
  <2> HIDE DEF f
  <2> QED
    BY <1>6, <2>1, <2>2, <2>3
<1>14. ~FindPrivate(c)
  <2> DEFINE f == [signers[c] EXCEPT !.pc = "sign"]
  <2>1. FindPrivate(c) => signers' = [signers EXCEPT ![c] = f]
    BY <1>13 DEF FindPrivate
  <2>2. f.reply = signers[c].reply
    BY <1>7, <1>8
  <2> HIDE DEF f
  <2> QED
    BY <1>6, <2>1, <2>2
<1>15. ~SignEddsa(c)
  <2> DEFINE f == [signers[c] EXCEPT !.pc = "verify", !.key = token.private]
  <2>1. SignEddsa(c) /\ c # "tls" => signers' = [signers EXCEPT ![c] = f]
    BY <1>13 DEF SignEddsa
  <2>2. f.reply = signers[c].reply
    BY <1>7, <1>8, SMT
  <2>3. SignEddsa(c) /\ c = "tls" => Reply(c, [kind |-> "signed", key |-> token.private])
    BY <1>13 DEF SignEddsa, FinishSigning
  <2> HIDE DEF f
  <2> QED
    BY <1>5, <1>6, <2>1, <2>2, <2>3
<1>16. CASE VerifyBeforeEmit(c)
  <2>1. token.public = signers[c].key /\ Reply(c, [kind |-> "signed", key |-> signers[c].key])
    BY <1>13, <1>16 DEF VerifyBeforeEmit, FinishSigning
  <2> QED
    BY <1>5, <2>1, SMT
<1> QED
  BY <1>3, <1>9, <1>10, <1>12, <1>14, <1>15, <1>16 DEF SignerStep

(* For any handles and however often the key pair is replaced: no session  *)
(* leaks, a call during which the token was sound signs, and a response    *)
(* signature is by the key the token publishes (pkcs11_keysource.rs).      *)
THEOREM Pkcs11SigningIsSound == Pkcs11Spec => Pkcs11IsSound
<1>1. Pkcs11Inv => SessionsAreAccounted /\ SoundTokenSigns
  BY DEF Pkcs11Inv
<1>2. Pkcs11Inv /\ [Pkcs11Next]_pkcs11Vars =>
        [signers'["response"].reply.kind = "signed" /\ signers["response"].reply.kind # "signed"
            => signers'["response"].reply.key = token.public]_pkcs11Vars
  BY EmittedStep
<1> QED
  BY <1>1, <1>2, Pkcs11Initially, Pkcs11Step, PTL DEF Pkcs11Spec, Pkcs11IsSound, EmittedUnderPublishedKey
=============================================================================
