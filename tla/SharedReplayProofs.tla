------------------------- MODULE SharedReplayProofs -------------------------
(*****************************************************************************)
(* Theorems about the shared replay cache, for any number of nodes and       *)
(* servers, any requests, any clock offsets up to Ahead, and every tier.     *)
(*****************************************************************************)
EXTENDS SharedReplay, FiniteSetTheorems, TLAPS

(* Zenon proves most of the steps; those that need arithmetic say SMT.     *)
USE Zenon

(* r may still pass the staleness guard of the node furthest ahead.        *)
InWindow(r) == clock + Ahead < RetainUntil(r)

(* No failover can have lost an admitted key.                              *)
Safe == Lossless \/ failovers = 0

(* A server with the keys db has that of r until r is out of its window.   *)
Holds(db, r) == db[KeyOf[r]] # Absent /\ db[KeyOf[r]] + Ahead >= RetainUntil(r)

Longest(r) == ExpiresAt[r] - IssuedAt[r] + 2 * Skew

Ready == {"set", "reconnect", "connecting", "reset", "grant"}

(* What a node has computed and not yet used reaches past the window of    *)
(* its request, and no further than its window is long.                    *)
Timely(n) ==
    /\ pc[n] # "idle" => NodeClock(n) >= IssuedAt[cur[n]] - Skew
    /\ pc[n] \in Ready => /\ clock + ttl[n] + Ahead >= RetainUntil(cur[n])
                          /\ ttl[n] <= Longest(cur[n])
    /\ pc[n] = "txn" => /\ ttl[n] + Ahead >= RetainUntil(cur[n])
                        /\ ttl[n] <= clock + Longest(cur[n])

(* A node in WAIT has its key on the primary and is the only one that can  *)
(* be about to admit its request.                                          *)
Waiting(n) ==
    pc[n] = "wait" /\ InWindow(cur[n]) =>
        /\ Holds(data[primary], cur[n])
        /\ Safe => admissions[cur[n]] = 0
        /\ \A m \in Node \ {n} : ~(pc[m] = "wait" /\ cur[m] = cur[n])

(* An admitted request in its window is remembered: by the primary, and in *)
(* the lossless WAIT tier by every server.                                 *)
Kept(r) ==
    Safe /\ admissions[r] > 0 /\ InWindow(r) =>
        /\ Holds(data[primary], r)
        /\ tier = "redis_wait_quorum" /\ Lossless => \A s \in Server : Holds(data[s], r)

(* What the invariant says beyond the types.                               *)
Core ==
    /\ KeysExpire
    /\ \A n \in Node : pc[n] = "wait" => tier = "redis_wait_quorum"
    /\ \A n \in Node : pc[n] \in {"grant", "txn"} => tier = "linearizable"
    /\ \A n \in Node : Timely(n) /\ Waiting(n)
    /\ \A r \in Request : Kept(r)

SInv == SharedTypeOK /\ Core

(* The constants, as the arithmetic below needs them.                      *)
LEMMA SharedConstants ==
    /\ \A r \in Request : /\ RetainUntil(r) \in Int /\ Longest(r) \in Int
                          /\ IssuedAt[r] \in Int /\ ExpiresAt[r] \in Int
                          /\ RetainUntil(r) = ExpiresAt[r] + Skew
                          /\ KeyOf[r] \in Key /\ r # NoRequest
    /\ Skew \in Int /\ Ahead \in Nat /\ Absent \notin Int
    /\ \A n \in Node : Offset[n] \in Int /\ Offset[n] <= Ahead
  BY RequestAssumption, SharedAssumption, SMT DEF RetainUntil, Longest

(* Initially nothing is in flight, stored or admitted.                     *)
LEMMA SharedInit == Init => SInv
  <1>. SUFFICES ASSUME Init PROVE SInv
    OBVIOUS
  <1>1. SharedTypeOK
    BY SharedAssumption, SMT DEF Init, SharedTypeOK
  <1>2. \A s \in Server, k \in Key : data[s][k] = Absent
    BY DEF Init
  <1>3. KeysExpire
    BY <1>2 DEF KeysExpire
  <1>. QED
    BY <1>1, <1>3, SMT DEF Init, SInv, Core, Timely, Waiting, Kept, Ready

-----------------------------------------------------------------------------
(* The types of what a node's step assigns, and of the rest.               *)
NodeType ==
    /\ pc \in [Node -> {"idle", "guard", "set", "reconnect", "connecting", "reset",
                        "wait", "grant", "txn"}]
    /\ cur \in [Node -> Request \cup {NoRequest}]
    /\ ttl \in [Node -> Int]
    /\ verdict \in [Node -> {"none", "fresh", "replay", "unavailable"}]
    /\ \A n \in Node : pc[n] = "idle" <=> cur[n] = NoRequest

Permits ==
    /\ stranded \in [Node -> 0 .. MaxInflight]
    /\ \A n \in Node : pc[n] = "connecting" => stranded[n] < MaxInflight

StoreType ==
    /\ tier \in Tiers
    /\ clock \in Nat
    /\ primary \in Server
    /\ data \in [Server -> [Key -> Int \cup {Absent}]]

HistoryType ==
    /\ calls \in [Key -> 0 .. 2]
    /\ admissions \in [Request -> Nat]
    /\ lostReply \in [Node -> BOOLEAN]
    /\ failovers \in Nat

(* The four parts make up the type invariant.                              *)
LEMMA TypeParts == SharedTypeOK <=> NodeType /\ Permits /\ StoreType /\ HistoryType
  BY DEF SharedTypeOK, NodeType, Permits, StoreType, HistoryType

(* An answer leaves the node idle, whatever it is.                         *)
LEMMA AnswerType ==
    ASSUME NodeType, NEW n \in Node,
           NEW v \in {"none", "fresh", "replay", "unavailable"}, Answer(n, v)
    PROVE  NodeType' /\ pc'[n] = "idle" /\ \A m \in Node \ {n} : pc'[m] = pc[m]
  BY SharedConstants, SMT DEF NodeType, Answer

(* A jump from one label of the operation to another.                      *)
LEMMA GotoType ==
    ASSUME NodeType, NEW n \in Node, pc[n] # "idle",
           NEW l \in {"guard", "set", "reconnect", "connecting", "reset", "wait", "grant", "txn"},
           Goto(n, l)
    PROVE  NodeType' /\ pc'[n] = l /\ \A m \in Node \ {n} : pc'[m] = pc[m]
  BY DEF NodeType, Goto

(* A node in the middle of an operation has a request.                     *)
LEMMA CurType ==
    ASSUME NodeType, NEW n \in Node, pc[n] # "idle"
    PROVE  cur[n] \in Request /\ CurKey(n) \in Key
  BY SharedConstants DEF NodeType, CurKey

(* An insert changes one key of the primary.                               *)
LEMMA PutType ==
    ASSUME StoreType, NEW n \in Node, CurKey(n) \in Key, NEW e \in Int, Put(n, e)
    PROVE  /\ data' \in [Server -> [Key -> Int \cup {Absent}]]
           /\ \A s \in Server, k \in Key :
                 data'[s][k] = IF s = primary /\ k = CurKey(n) THEN e ELSE data[s][k]
  <1>1. data' = [data EXCEPT ![primary] = [data[primary] EXCEPT ![CurKey(n)] = e]]
    BY DEF Put
  <1>2. data[primary] \in [Key -> Int \cup {Absent}]
    BY DEF StoreType
  <1>3. [data[primary] EXCEPT ![CurKey(n)] = e] \in [Key -> Int \cup {Absent}]
    BY <1>2
  <1>. QED
    BY <1>1, <1>2, <1>3 DEF StoreType

(* Every step keeps the types.                                             *)
LEMMA SharedType == SharedTypeOK /\ [Next]_vars => SharedTypeOK'
  <1>. SUFFICES ASSUME NodeType, Permits, StoreType, HistoryType, [Next]_vars
                PROVE NodeType' /\ Permits' /\ StoreType' /\ HistoryType'
    BY DEF SharedTypeOK, NodeType, Permits, StoreType, HistoryType
  <1>. USE SharedConstants
  <1>0. ASSUME NEW n \in Node, pc'[n] # "connecting", stranded' = stranded,
               \A m \in Node \ {n} : pc'[m] = pc[m]
        PROVE  Permits'
    BY <1>0 DEF Permits
  <1>1. ASSUME NEW n \in Node, NEW r \in Request, Call(n, r)
        PROVE NodeType' /\ Permits' /\ StoreType' /\ HistoryType'
    <2>1. NodeType' /\ pc'[n] = "guard" /\ \A m \in Node \ {n} : pc'[m] = pc[m]
      BY <1>1 DEF Call, NodeType
    <2>2. StoreType'
      BY <1>1 DEF Call, StoreType, storeVars
    <2>3. HistoryType'
      BY <1>1, SMT DEF Call, HistoryType
    <2>4. stranded' = stranded
      BY <1>1 DEF Call
    <2>. QED  BY <1>0, <2>1, <2>2, <2>3, <2>4
  <1>2. ASSUME NEW n \in Node, Guard(n)
        PROVE NodeType' /\ Permits' /\ StoreType' /\ HistoryType'
    <2>1. cur[n] \in Request
      BY <1>2, CurType DEF Guard
    <2>2. ComputeTtl(cur[n], NodeClock(n)) \in Int
      BY <2>1, SMT DEF ComputeTtl, NodeClock, StoreType
    <2>3. StoreType' /\ HistoryType' /\ stranded' = stranded
      BY <1>2 DEF Guard, StoreType, HistoryType, storeVars, history
    <2>4. CASE Answer(n, "unavailable")
      BY <1>0, <2>3, <2>4, AnswerType
    <2>5. CASE ~Answer(n, "unavailable")
      <3>1. NodeType' /\ pc'[n] # "connecting" /\ \A m \in Node \ {n} : pc'[m] = pc[m]
        BY <1>2, <2>1, <2>2, <2>5, SMT DEF Guard, NodeType
      <3>. QED  BY <1>0, <2>3, <3>1
    <2>. QED  BY <2>4, <2>5
  <1>3. ASSUME NEW n \in Node, SetAnswered(n) \/ SetTransient(n) \/ TxnAnswered(n) \/ TxnFails(n)
        PROVE NodeType' /\ Permits' /\ StoreType' /\ HistoryType'
    <2>1. cur[n] \in Request /\ CurKey(n) \in Key /\ pc[n] # "idle"
      BY <1>3, CurType DEF SetAnswered, SetTransient, TxnAnswered, TxnFails
    <2>2. \/ \E v \in {"fresh", "replay", "unavailable"} : Answer(n, v)
          \/ \E l \in {"reconnect", "wait"} : Goto(n, l)
      BY <1>3 DEF SetAnswered, SetTransient, TxnAnswered, TxnFails, Admit
    <2>3. NodeType' /\ pc'[n] # "connecting" /\ \A m \in Node \ {n} : pc'[m] = pc[m]
      BY <2>1, <2>2, AnswerType, GotoType
    <2>4. clock + ttl[n] \in Int /\ ttl[n] \in Int
      BY SMT DEF NodeType, StoreType
    <2>5. data' = data \/ \E e \in Int : Put(n, e)
      BY <1>3, <2>4 DEF SetAnswered, SetTransient, TxnAnswered, TxnFails
    <2>6. StoreType'
      <3>1. data' \in [Server -> [Key -> Int \cup {Absent}]]
        BY <2>1, <2>5, PutType DEF StoreType
      <3>. QED
        BY <1>3, <3>1 DEF SetAnswered, SetTransient, TxnAnswered, TxnFails, StoreType
    <2>7. HistoryType' /\ stranded' = stranded
      <3>1. lostReply' = lostReply \/ lostReply' = [lostReply EXCEPT ![n] = TRUE]
        BY <1>3 DEF SetAnswered, SetTransient, TxnAnswered, TxnFails, history
      <3>2. lostReply' \in [Node -> BOOLEAN]
        BY <3>1 DEF HistoryType
      <3>3. /\ calls' = calls /\ failovers' = failovers /\ stranded' = stranded
            /\ \/ admissions' = admissions
               \/ admissions' = [admissions EXCEPT ![cur[n]] = @ + 1]
        BY <1>3 DEF SetAnswered, SetTransient, TxnAnswered, TxnFails, Admit, history
      <3>4. admissions' \in [Request -> Nat]
        BY <2>1, <3>3, SMT DEF HistoryType
      <3>. QED  BY <3>2, <3>3, <3>4 DEF HistoryType
    <2>. QED  BY <1>0, <2>3, <2>6, <2>7
  <1>5. ASSUME NEW n \in Node, SetFatal(n) \/ WaitFails(n)
        PROVE NodeType' /\ Permits' /\ StoreType' /\ HistoryType'
    <2>2. NodeType' /\ pc'[n] # "connecting" /\ \A m \in Node \ {n} : pc'[m] = pc[m]
      BY <1>5, AnswerType DEF SetFatal, WaitFails
    <2>3. StoreType' /\ HistoryType' /\ stranded' = stranded
      BY <1>5 DEF SetFatal, WaitFails, StoreType, HistoryType, storeVars, history
    <2>. QED  BY <1>0, <2>2, <2>3
  <1>6. ASSUME NEW n \in Node, WaitSucceeds(n)
        PROVE NodeType' /\ Permits' /\ StoreType' /\ HistoryType'
    <2>1. cur[n] \in Request
      BY <1>6, CurType DEF WaitSucceeds
    <2>2. NodeType' /\ pc'[n] # "connecting" /\ \A m \in Node \ {n} : pc'[m] = pc[m]
      BY <1>6, AnswerType DEF WaitSucceeds, Admit
    <2>3. StoreType' /\ HistoryType' /\ stranded' = stranded
      BY <1>6, <2>1, SMT DEF WaitSucceeds, Admit, StoreType, HistoryType, storeVars
    <2>. QED  BY <1>0, <2>2, <2>3
  <1>7. ASSUME NEW n \in Node, Grant(n)
        PROVE NodeType' /\ Permits' /\ StoreType' /\ HistoryType'
    <2>1. StoreType' /\ HistoryType' /\ stranded' = stranded
      BY <1>7 DEF Grant, StoreType, HistoryType, storeVars, history
    <2>2. CASE Answer(n, "unavailable")
      BY <1>0, <2>1, <2>2, AnswerType
    <2>3. CASE ~Answer(n, "unavailable")
      <3>1. NodeType' /\ pc'[n] # "connecting" /\ \A m \in Node \ {n} : pc'[m] = pc[m]
        BY <1>7, <2>3, SMT DEF Grant, NodeType, StoreType
      <3>. QED  BY <1>0, <2>1, <3>1
    <2>. QED  BY <2>2, <2>3
  <1>8. ASSUME NEW n \in Node, AcquirePermit(n)
        PROVE NodeType' /\ Permits' /\ StoreType' /\ HistoryType'
    <2>1. StoreType' /\ HistoryType' /\ stranded' = stranded
      BY <1>8 DEF AcquirePermit, StoreType, HistoryType, storeVars, history
    <2>2. CASE stranded[n] >= MaxInflight
      BY <1>0, <1>8, <2>1, <2>2, AnswerType DEF AcquirePermit
    <2>3. CASE ~(stranded[n] >= MaxInflight)
      <3>1. NodeType' /\ \A m \in Node \ {n} : pc'[m] = pc[m]
        BY <1>8, <2>3, GotoType DEF AcquirePermit
      <3>2. Permits'
        BY <2>1, <2>3, <3>1, SharedAssumption, SMT DEF Permits
      <3>. QED  BY <2>1, <3>1, <3>2
    <2>. QED  BY <2>2, <2>3
  <1>9. ASSUME NEW n \in Node, Connected(n) \/ Abandon(n) \/ Die(n)
        PROVE NodeType' /\ Permits' /\ StoreType' /\ HistoryType'
    <2>1. StoreType' /\ HistoryType'
      BY <1>9 DEF Connected, Abandon, Die, StoreType, HistoryType, storeVars, history
    <2>2. pc[n] # "idle" /\ (Goto(n, "reset") \/ \E v \in {"none", "unavailable"} : Answer(n, v))
      BY <1>9 DEF Connected, Abandon, Die
    <2>3. NodeType' /\ pc'[n] # "connecting" /\ \A m \in Node \ {n} : pc'[m] = pc[m]
      BY <2>2, AnswerType, GotoType
    <2>4. \/ stranded' = stranded
          \/ stranded' = [stranded EXCEPT ![n] = 0]
          \/ stranded' = [stranded EXCEPT ![n] = @ + 1] /\ pc[n] = "connecting"
      BY <1>9 DEF Connected, Abandon, Die
    <2>5. Permits'
      BY <2>3, <2>4, SharedAssumption, SMT DEF Permits
    <2>. QED  BY <2>1, <2>3, <2>5
  <1>10. ASSUME NEW n \in Node, WorkerEnds(n)
         PROVE NodeType' /\ Permits' /\ StoreType' /\ HistoryType'
    BY <1>10, SharedAssumption, SMT
    DEF WorkerEnds, NodeType, Permits, StoreType, HistoryType, storeVars, history
  <1>11. ASSUME NEW s \in Server, Replicate(s) \/ Failover(s)
         PROVE NodeType' /\ Permits' /\ StoreType' /\ HistoryType'
    BY <1>11, SMT DEF Replicate, Failover, NodeType, Permits, StoreType, HistoryType, nodeVars, history
  <1>12. ASSUME NEW k \in Key, Expire(k)
         PROVE NodeType' /\ Permits' /\ StoreType' /\ HistoryType'
    BY <1>12 DEF Expire, NodeType, Permits, StoreType, HistoryType, nodeVars, history
  <1>13. CASE Tick
    BY <1>13, SMT DEF Tick, NodeType, Permits, StoreType, HistoryType, storeVars, nodeVars, history
  <1>14. CASE UNCHANGED vars
    BY <1>14 DEF vars, NodeType, Permits, StoreType, HistoryType, storeVars, nodeVars, history
  <1>. QED
    BY <1>1, <1>2, <1>3, <1>5, <1>6, <1>7, <1>8, <1>9, <1>10, <1>11, <1>12, <1>13, <1>14
    DEF Next, Redis, Etcd

-----------------------------------------------------------------------------
(***************************************************************************)
(* How the two kinds of step preserve the invariant of the shared replay   *)
(* cache: those of one node (alone, or with an insert), and those of the   *)
(* store and of time.                                                      *)
(***************************************************************************)

(* Only node n moves.                                                      *)
OnlyNode(n) ==
    \A m \in Node \ {n} : pc'[m] = pc[m] /\ cur'[m] = cur[m] /\ ttl'[m] = ttl[m]

(* A step of a node that neither reaches the store nor admits anything.    *)
LEMMA LocalStep ==
    ASSUME SharedTypeOK, Core, NEW n \in Node, OnlyNode(n),
           UNCHANGED <<tier, clock, primary, data, admissions, failovers>>,
           pc'[n] # "wait", pc'[n] \in {"grant", "txn"} => tier = "linearizable", Timely(n)'
    PROVE  Core'
  <1>1. KeysExpire'
    BY DEF Core, KeysExpire
  <1>2. Lossless' = Lossless /\ Safe' = Safe
    BY DEF Lossless, Safe
  <1>3. \A r : InWindow(r)' = InWindow(r)
    BY DEF InWindow
  <1>4. ASSUME NEW r \in Request PROVE Kept(r)'
    BY <1>2, <1>3 DEF Core, Kept
  <1>5. ASSUME NEW m \in Node PROVE Timely(m)'
    <2>1. CASE m = n
      BY <2>1
    <2>2. CASE m # n
      <3>1. Timely(m)
        BY DEF Core
      <3>2. pc'[m] = pc[m] /\ cur'[m] = cur[m] /\ ttl'[m] = ttl[m]
        BY <2>2 DEF OnlyNode
      <3>. QED
        BY <3>1, <3>2 DEF Timely, NodeClock, Longest, RetainUntil
    <2>. QED  BY <2>1, <2>2
  <1>6. ASSUME NEW m \in Node PROVE Waiting(m)'
    <2>1. CASE m = n
      BY <2>1 DEF Waiting
    <2>2. CASE m # n
      <3>1. Waiting(m)
        BY DEF Core
      <3>2. pc'[m] = pc[m] /\ cur'[m] = cur[m]
        BY <2>2 DEF OnlyNode
      <3>3. SUFFICES ASSUME pc[m] = "wait", InWindow(cur[m])
                     PROVE  /\ Holds(data[primary], cur[m])
                            /\ Safe => admissions[cur[m]] = 0
                            /\ \A x \in Node \ {m} : ~(pc'[x] = "wait" /\ cur'[x] = cur[m])
        BY <1>2, <1>3, <3>2 DEF Waiting
      <3>4. ASSUME NEW x \in Node \ {m} PROVE ~(pc'[x] = "wait" /\ cur'[x] = cur[m])
        BY <3>1, <3>3 DEF Waiting, OnlyNode
      <3>. QED  BY <3>1, <3>3, <3>4 DEF Waiting
    <2>. QED  BY <2>1, <2>2
  <1>7. ASSUME NEW m \in Node
        PROVE  /\ pc'[m] = "wait" => tier' = "redis_wait_quorum"
               /\ pc'[m] \in {"grant", "txn"} => tier' = "linearizable"
    BY DEF Core, OnlyNode
  <1>. QED
    BY <1>1, <1>4, <1>5, <1>6, <1>7 DEF Core

(* While a request is in its window and its key absent from the primary,   *)
(* it has not been admitted and nobody waits for it.                       *)
LEMMA VacantFacts ==
    ASSUME SharedTypeOK, Core, NEW n \in Node, cur[n] \in Request, Vacant(n)
    PROVE  /\ \A r \in Request : KeyOf[r] = CurKey(n) /\ InWindow(r) /\ Safe => admissions[r] = 0
           /\ \A m \in Node : pc[m] = "wait" /\ InWindow(cur[m]) => CurKey(m) # CurKey(n)
  <1>1. ASSUME NEW r \in Request, KeyOf[r] = CurKey(n), InWindow(r), Safe
        PROVE  admissions[r] = 0
    <2>1. ~Holds(data[primary], r)
      BY <1>1 DEF Holds, Vacant
    <2>2. ~(admissions[r] > 0)
      BY <1>1, <2>1 DEF Core, Kept
    <2>. QED  BY <2>2, SMT DEF SharedTypeOK
  <1>2. ASSUME NEW m \in Node, pc[m] = "wait", InWindow(cur[m])
        PROVE  CurKey(m) # CurKey(n)
    <2>1. Holds(data[primary], cur[m])
      BY <1>2 DEF Core, Waiting
    <2>. QED  BY <2>1 DEF Holds, Vacant, CurKey
  <1>. QED  BY <1>1, <1>2

(* An insert of node n keeps what the store remembers of an admitted       *)
(* request: its own was never admitted, and other keys are left alone.     *)
LEMMA PutKeeps ==
    ASSUME SharedTypeOK, Core, NEW n \in Node, cur[n] \in Request, Vacant(n), NEW r \in Request,
           UNCHANGED <<tier, primary, Safe, Lossless>>, InWindow(r)' = InWindow(r),
           Holds(data'[primary], cur[n]),
           \A s \in Server : KeyOf[r] # CurKey(n) => Holds(data'[s], r) = Holds(data[s], r),
           admissions'[r] # admissions[r] => r = cur[n] /\ tier # "redis_wait_quorum"
    PROVE  Kept(r)'
  <1>. SUFFICES ASSUME Safe, admissions'[r] > 0, InWindow(r)
                PROVE  /\ Holds(data'[primary], r)
                       /\ tier = "redis_wait_quorum" /\ Lossless => \A s \in Server : Holds(data'[s], r)
    BY DEF Kept
  <1>1. CASE KeyOf[r] = CurKey(n)
    <2>1. admissions[r] = 0
      BY <1>1, VacantFacts
    <2>. QED  BY <2>1, SMT
  <1>2. CASE KeyOf[r] # CurKey(n)
    <2>1. r # cur[n] /\ Kept(r)
      BY <1>2 DEF CurKey, Core
    <2>2. admissions'[r] = admissions[r] /\ primary \in Server
      BY <2>1 DEF SharedTypeOK
    <2>. QED  BY <1>2, <2>1, <2>2 DEF Kept
  <1>. QED  BY <1>1, <1>2

(* An insert of node n leaves every node in WAIT as it has to be: nobody   *)
(* waits for a request with the key that was vacant.                       *)
LEMMA PutWaits ==
    ASSUME SharedTypeOK, Core, NEW n \in Node, cur[n] \in Request, Vacant(n), OnlyNode(n),
           UNCHANGED <<primary, Safe>>, \A r : InWindow(r)' = InWindow(r),
           Holds(data'[primary], cur[n]),
           \A r \in Request : KeyOf[r] # CurKey(n) => Holds(data'[primary], r) = Holds(data[primary], r),
           \A r \in Request : r # cur[n] => admissions'[r] = admissions[r],
           pc'[n] = "wait" => admissions' = admissions /\ cur'[n] = cur[n],
           NEW m \in Node
    PROVE  Waiting(m)'
  <1>. SUFFICES ASSUME pc'[m] = "wait", InWindow(cur'[m])
                PROVE  /\ Holds(data'[primary], cur'[m])
                       /\ Safe => admissions'[cur'[m]] = 0
                       /\ \A x \in Node \ {m} : ~(pc'[x] = "wait" /\ cur'[x] = cur'[m])
    BY DEF Waiting, InWindow
  <1>1. \A x \in Node : pc[x] = "wait" /\ InWindow(cur[x]) => CurKey(x) # CurKey(n)
    BY VacantFacts
  <1>2. CASE m = n
    <2>1. cur'[m] = cur[n] /\ admissions' = admissions
      BY <1>2
    <2>2. Safe => admissions[cur[n]] = 0
      BY <2>1, VacantFacts DEF CurKey
    <2>3. ASSUME NEW x \in Node \ {m}, pc'[x] = "wait", cur'[x] = cur'[m]
          PROVE  FALSE
      <3>1. pc[x] = "wait" /\ cur[x] = cur[n]
        BY <1>2, <2>1, <2>3 DEF OnlyNode
      <3>. QED  BY <1>1, <2>1, <3>1 DEF CurKey
    <2>. QED  BY <2>1, <2>2, <2>3
  <1>3. CASE m # n
    <2>1. pc[m] = "wait" /\ cur'[m] = cur[m]
      BY <1>3 DEF OnlyNode
    <2>2. Waiting(m) /\ cur[m] \in Request
      BY <2>1 DEF Core, SharedTypeOK
    <2>3. KeyOf[cur[m]] # CurKey(n) /\ cur[m] # cur[n]
      BY <1>1, <2>1 DEF CurKey
    <2>4. Holds(data[primary], cur[m]) /\ (Safe => admissions[cur[m]] = 0)
      BY <2>1, <2>2 DEF Waiting
    <2>5. ASSUME NEW x \in Node \ {m} PROVE ~(pc'[x] = "wait" /\ cur'[x] = cur'[m])
      <3>1. CASE x = n
        BY <2>1, <2>3, <3>1
      <3>2. CASE x # n
        BY <2>1, <2>2, <3>2 DEF Waiting, OnlyNode
      <3>. QED  BY <3>1, <3>2
    <2>. QED  BY <2>1, <2>2, <2>3, <2>4, <2>5
  <1>. QED  BY <1>2, <1>3

(* An insert of node n, whatever becomes of its answer: the node may admit *)
(* at once, go on to WAIT, or lose the reply.                              *)
LEMMA PutStep ==
    ASSUME SharedTypeOK, Core, NEW n \in Node, cur[n] \in Request, pc[n] # "wait",
           Vacant(n), NEW e \in Int, Put(n, e),
           e + Ahead >= RetainUntil(cur[n]), e <= clock + Longest(cur[n]),
           OnlyNode(n), UNCHANGED <<tier, clock, primary, failovers>>, Timely(n)',
           pc'[n] \notin {"grant", "txn"},
           \/ admissions' = admissions /\ pc'[n] # "wait"
           \/ /\ admissions' = admissions /\ cur'[n] = cur[n]
              /\ pc'[n] = "wait" /\ tier = "redis_wait_quorum"
           \/ /\ admissions' = [admissions EXCEPT ![cur[n]] = @ + 1]
              /\ pc'[n] # "wait" /\ tier # "redis_wait_quorum"
    PROVE  Core'
  <1>1. CurKey(n) \in Key /\ primary \in Server /\ StoreType
    BY SharedConstants DEF CurKey, SharedTypeOK, StoreType
  <1>2. \A s \in Server, k \in Key :
           data'[s][k] = IF s = primary /\ k = CurKey(n) THEN e ELSE data[s][k]
    BY <1>1, PutType
  <1>3. Lossless' = Lossless /\ Safe' = Safe
    BY DEF Lossless, Safe
  <1>4. \A r : InWindow(r)' = InWindow(r)
    BY DEF InWindow
  <1>5. \A r \in Request : r # cur[n] => admissions'[r] = admissions[r]
    BY DEF SharedTypeOK
  <1>6. \A s \in Server : \A r \in Request : KeyOf[r] # CurKey(n) => Holds(data'[s], r) = Holds(data[s], r)
    BY <1>2, SharedConstants DEF Holds
  <1>7. Holds(data'[primary], cur[n])
    BY <1>1, <1>2, SharedConstants DEF Holds, CurKey
  <1>8. KeysExpire'
    <2>. SUFFICES ASSUME NEW s \in Server, NEW k \in Key, data'[s][k] # Absent
                  PROVE  \E r \in Request :
                            /\ KeyOf[r] = k
                            /\ data'[s][k] <= clock + ExpiresAt[r] - IssuedAt[r] + 2 * Skew
      BY DEF KeysExpire
    <2>1. CASE s = primary /\ k = CurKey(n)
      <3>1. data'[s][k] = e /\ KeyOf[cur[n]] = k
        BY <1>2, <2>1 DEF CurKey
      <3>2. e <= clock + ExpiresAt[cur[n]] - IssuedAt[cur[n]] + 2 * Skew
        BY SharedConstants, SMT DEF Longest, SharedTypeOK
      <3>. QED  BY <3>1, <3>2
    <2>2. CASE ~(s = primary /\ k = CurKey(n))
      <3>1. data'[s][k] = data[s][k]
        BY <1>2, <2>2
      <3>. QED  BY <3>1 DEF Core, KeysExpire
    <2>. QED  BY <2>1, <2>2
  <1>9. ASSUME NEW r \in Request PROVE Kept(r)'
    <2>1. admissions'[r] # admissions[r] => r = cur[n] /\ tier # "redis_wait_quorum"
      BY <1>5
    <2>. QED  BY <1>3, <1>4, <1>6, <1>7, <2>1, PutKeeps
  <1>10. ASSUME NEW m \in Node PROVE Waiting(m)'
    <2>1. pc'[n] = "wait" => admissions' = admissions /\ cur'[n] = cur[n]
      OBVIOUS
    <2>. QED  BY <1>1, <1>3, <1>4, <1>5, <1>6, <1>7, <2>1, PutWaits
  <1>11. ASSUME NEW m \in Node
         PROVE  /\ pc'[m] = "wait" => tier' = "redis_wait_quorum"
                /\ pc'[m] \in {"grant", "txn"} => tier' = "linearizable"
                /\ Timely(m)'
    <2>1. CASE m = n
      BY <2>1
    <2>2. CASE m # n
      <3>1. pc'[m] = pc[m] /\ cur'[m] = cur[m] /\ ttl'[m] = ttl[m]
        BY <2>2 DEF OnlyNode
      <3>2. Timely(m)'
        BY <3>1 DEF Core, Timely, NodeClock, Longest, RetainUntil
      <3>. QED  BY <3>1, <3>2 DEF Core
    <2>. QED  BY <2>1, <2>2
  <1>. QED
    BY <1>8, <1>9, <1>10, <1>11 DEF Core

(* A step of the store or of time: no node moves, and a request that is in *)
(* its window afterwards was in it before.                                 *)
LEMMA StoreStep ==
    ASSUME SharedTypeOK, Core, KeysExpire', clock' \in {clock, clock + 1},
           UNCHANGED <<tier, pc, cur, ttl, admissions>>, Safe' => Safe,
           \A n \in Node : pc[n] = "wait" /\ InWindow(cur[n]) => Holds(data'[primary'], cur[n]),
           \A r \in Request :
             Safe' /\ admissions[r] > 0 /\ InWindow(r) =>
               /\ Holds(data'[primary'], r)
               /\ tier = "redis_wait_quorum" /\ Lossless => \A s \in Server : Holds(data'[s], r)
    PROVE  Core'
  <1>1. Lossless' = Lossless
    BY DEF Lossless
  <1>2. clock \in Nat /\ Ahead \in Nat /\ \A r \in Request : RetainUntil(r) \in Int
    BY SharedConstants DEF SharedTypeOK
  <1>3. \A r \in Request : clock' + Ahead < RetainUntil(r) => InWindow(r)
    BY <1>2, SMT DEF InWindow
  <1>4. ASSUME NEW r \in Request PROVE Kept(r)'
    BY <1>1, <1>3 DEF Kept, InWindow
  <1>5. ASSUME NEW n \in Node PROVE Waiting(n)'
    <2>. SUFFICES ASSUME pc[n] = "wait", clock' + Ahead < RetainUntil(cur[n])
                  PROVE  /\ Holds(data'[primary'], cur[n])
                         /\ Safe' => admissions[cur[n]] = 0
                         /\ \A m \in Node \ {n} : ~(pc[m] = "wait" /\ cur[m] = cur[n])
      BY DEF Waiting, InWindow
    <2>1. Waiting(n) /\ cur[n] \in Request
      BY DEF Core, SharedTypeOK
    <2>2. InWindow(cur[n])
      BY <1>3, <2>1
    <2>. QED  BY <2>1, <2>2 DEF Waiting
  <1>6. ASSUME NEW n \in Node PROVE Timely(n)'
    <2>1. Timely(n) /\ ttl[n] \in Int /\ Offset[n] \in Int
      BY SharedConstants DEF Core, SharedTypeOK
    <2>2. CASE pc[n] = "idle"
      BY <2>2 DEF Timely, Ready
    <2>3. CASE pc[n] # "idle"
      <3>1. /\ RetainUntil(cur[n]) \in Int /\ Longest(cur[n]) \in Int
            /\ IssuedAt[cur[n]] \in Int /\ Skew \in Int
        BY <2>3, SharedConstants DEF SharedTypeOK
      <3>2. /\ NodeClock(n) >= IssuedAt[cur[n]] - Skew
            /\ clock' + Offset[n] >= NodeClock(n) /\ NodeClock(n) \in Int
        BY <1>2, <2>1, <2>3, SMT DEF Timely, NodeClock
      <3>. QED  BY <1>2, <2>1, <2>3, <3>1, <3>2, SMT DEF Timely, NodeClock
    <2>. QED  BY <2>2, <2>3
  <1>. QED
    BY <1>4, <1>5, <1>6 DEF Core

(* A step that leaves all the invariant speaks of as it is.                *)
LEMMA Unmoved ==
    ASSUME Core,
           UNCHANGED <<tier, clock, primary, data, pc, cur, ttl, admissions, failovers>>
    PROVE  Core'
  <1>1. \A n \in Node : Timely(n)' /\ Waiting(n)'
    BY DEF Core, Timely, Waiting, NodeClock, InWindow, Safe, Lossless
  <1>2. \A r \in Request : Kept(r)'
    BY DEF Core, Kept, InWindow, Safe, Lossless
  <1>3. KeysExpire'
    BY DEF Core, KeysExpire
  <1>. QED  BY <1>1, <1>2, <1>3 DEF Core

(* What an insert would have to be remembered for is on the primary.       *)
LEMMA OnPrimary ==
    ASSUME Core
    PROVE  /\ \A n \in Node : pc[n] = "wait" /\ InWindow(cur[n]) => Holds(data[primary], cur[n])
           /\ \A r \in Request : Safe /\ admissions[r] > 0 /\ InWindow(r) => Holds(data[primary], r)
           /\ \A r \in Request :
                Safe /\ admissions[r] > 0 /\ InWindow(r) /\ tier = "redis_wait_quorum" /\ Lossless =>
                  \A s \in Server : Holds(data[s], r)
  BY DEF Core, Waiting, Kept

LEMMA TickStep == SharedTypeOK /\ Core /\ Tick => Core'
  <1>. SUFFICES ASSUME SharedTypeOK, Core, Tick PROVE Core'
    OBVIOUS
  <1>1. /\ UNCHANGED <<tier, primary, data, pc, cur, ttl, admissions, failovers>>
        /\ clock' = clock + 1
    BY DEF Tick, storeVars, nodeVars, history
  <1>2. KeysExpire'
    <2>. SUFFICES ASSUME NEW s \in Server, NEW k \in Key, data[s][k] # Absent
                  PROVE  \E r \in Request :
                            /\ KeyOf[r] = k
                            /\ data[s][k] <= clock' + ExpiresAt[r] - IssuedAt[r] + 2 * Skew
      BY <1>1 DEF KeysExpire
    <2>1. PICK r \in Request :
            KeyOf[r] = k /\ data[s][k] <= clock + ExpiresAt[r] - IssuedAt[r] + 2 * Skew
      BY DEF Core, KeysExpire
    <2>2. data[s][k] \in Int /\ clock \in Nat
      BY SMT DEF SharedTypeOK
    <2>3. data[s][k] <= clock' + ExpiresAt[r] - IssuedAt[r] + 2 * Skew
      BY <1>1, <2>1, <2>2, SharedConstants, SMT
    <2>. QED  BY <2>1, <2>3
  <1>3. Safe' => Safe
    BY <1>1 DEF Safe, Lossless
  <1>. QED
    BY <1>1, <1>2, <1>3, OnPrimary, StoreStep

LEMMA ReplicateStep ==
    ASSUME SharedTypeOK, Core, NEW s \in Server, Replicate(s) PROVE Core'
  <1>1. UNCHANGED <<tier, clock, primary, pc, cur, ttl, admissions, failovers>>
    BY DEF Replicate, nodeVars, history
  <1>2. /\ data'[primary] = data[primary]
        /\ \A x \in Server : data'[x] = data[x] \/ data'[x] = data[primary]
        /\ primary \in Server
    BY DEF Replicate, SharedTypeOK
  <1>3. KeysExpire'
    <2>. SUFFICES ASSUME NEW x \in Server, NEW k \in Key, data'[x][k] # Absent
                  PROVE  \E r \in Request :
                            /\ KeyOf[r] = k
                            /\ data'[x][k] <= clock + ExpiresAt[r] - IssuedAt[r] + 2 * Skew
      BY <1>1 DEF KeysExpire
    <2>. QED  BY <1>2, SMT DEF Core, KeysExpire
  <1>4. Safe' => Safe
    BY <1>1 DEF Safe, Lossless
  <1>5. \A r \in Request :
           Safe' /\ admissions[r] > 0 /\ InWindow(r) =>
               /\ Holds(data'[primary'], r)
               /\ tier = "redis_wait_quorum" /\ Lossless => \A x \in Server : Holds(data'[x], r)
    BY <1>1, <1>2, <1>4, OnPrimary
  <1>6. \A n \in Node : pc[n] = "wait" /\ InWindow(cur[n]) => Holds(data'[primary'], cur[n])
    BY <1>1, <1>2, OnPrimary
  <1>. QED
    BY <1>1, <1>3, <1>4, <1>5, <1>6, StoreStep

(* A key whose time to live has run out protects no request in its window. *)
LEMMA ExpireStep ==
    ASSUME SharedTypeOK, Core, NEW k \in Key, Expire(k) PROVE Core'
  <1>1. /\ UNCHANGED <<tier, clock, primary, pc, cur, ttl, admissions, failovers>>
        /\ data[primary][k] # Absent /\ data[primary][k] <= clock
    BY DEF Expire, nodeVars, history
  <1>2. \A s \in Server, j \in Key : data'[s][j] = IF j = k THEN Absent ELSE data[s][j]
    BY DEF Expire, SharedTypeOK
  <1>3. KeysExpire'
    <2>. SUFFICES ASSUME NEW s \in Server, NEW j \in Key, data'[s][j] # Absent
                  PROVE  \E r \in Request :
                            /\ KeyOf[r] = j
                            /\ data'[s][j] <= clock + ExpiresAt[r] - IssuedAt[r] + 2 * Skew
      BY <1>1 DEF KeysExpire
    <2>. QED  BY <1>2, SMT DEF Core, KeysExpire
  <1>4. Safe' => Safe
    BY <1>1 DEF Safe, Lossless
  <1>5. ASSUME NEW r \in Request, InWindow(r), Holds(data[primary], r) PROVE KeyOf[r] # k
    <2>1. data[primary][k] \in Int /\ clock \in Nat
      BY <1>1, SMT DEF SharedTypeOK
    <2>. QED  BY <1>1, <1>5, <2>1, SharedConstants, SMT DEF InWindow, Holds
  <1>6. \A s \in Server : \A r \in Request : KeyOf[r] # k => Holds(data'[s], r) = Holds(data[s], r)
    BY <1>2, SharedConstants DEF Holds
  <1>7. \A r \in Request :
           Safe' /\ admissions[r] > 0 /\ InWindow(r) =>
               /\ Holds(data'[primary'], r)
               /\ tier = "redis_wait_quorum" /\ Lossless => \A x \in Server : Holds(data'[x], r)
    <2>1. primary \in Server
      BY DEF SharedTypeOK
    <2>. QED  BY <1>1, <1>4, <1>5, <1>6, <2>1, OnPrimary
  <1>8. \A n \in Node : pc[n] = "wait" /\ InWindow(cur[n]) => Holds(data'[primary'], cur[n])
    <2>1. primary \in Server /\ \A n \in Node : pc[n] = "wait" => cur[n] \in Request
      BY DEF SharedTypeOK
    <2>. QED  BY <1>1, <1>5, <1>6, <2>1, OnPrimary
  <1>. QED
    BY <1>1, <1>3, <1>4, <1>7, <1>8, StoreStep

(* After a failover only the lossless WAIT tier still promises anything,   *)
(* and there every server has the admitted keys.                           *)
LEMMA FailoverStep ==
    ASSUME SharedTypeOK, Core, NEW s \in Server, Failover(s) PROVE Core'
  <1>1. /\ UNCHANGED <<tier, clock, pc, cur, ttl, admissions>>
        /\ primary' = s /\ failovers' = failovers + 1
        /\ tier \in {"redis_async", "redis_wait_quorum"}
        /\ \A n \in Node : pc[n] # "wait"
        /\ \A x \in Server : data'[x] = data[s]
    BY DEF Failover, nodeVars
  <1>2. Safe' => Safe /\ Lossless /\ tier = "redis_wait_quorum"
    BY <1>1, SMT DEF Safe, Lossless, SharedTypeOK
  <1>3. KeysExpire'
    <2>. SUFFICES ASSUME NEW x \in Server, NEW j \in Key, data'[x][j] # Absent
                  PROVE  \E r \in Request :
                            /\ KeyOf[r] = j
                            /\ data'[x][j] <= clock + ExpiresAt[r] - IssuedAt[r] + 2 * Skew
      BY <1>1 DEF KeysExpire
    <2>. QED  BY <1>1, SMT DEF Core, KeysExpire
  <1>4. \A r \in Request :
           Safe' /\ admissions[r] > 0 /\ InWindow(r) =>
               /\ Holds(data'[primary'], r)
               /\ tier = "redis_wait_quorum" /\ Lossless => \A x \in Server : Holds(data'[x], r)
    BY <1>1, <1>2, OnPrimary
  <1>. QED
    BY <1>1, <1>2, <1>3, <1>4, StoreStep

(* An answer or a jump moves one node only.                                *)
LEMMA Moves ==
    ASSUME SharedTypeOK, NEW n \in Node
    PROVE  /\ \A v : Answer(n, v) => OnlyNode(n) /\ pc'[n] = "idle" /\ Timely(n)'
           /\ \A l : Goto(n, l) => /\ OnlyNode(n) /\ pc'[n] = l
                                   /\ cur'[n] = cur[n] /\ ttl'[n] = ttl[n]
  BY DEF SharedTypeOK, Answer, Goto, OnlyNode, Timely, Ready

(* Between the guard and the insert the node keeps its time to live.       *)
LEMMA GotoTimely ==
    ASSUME SharedTypeOK, Core, NEW n \in Node, pc[n] \in Ready,
           NEW l \in Ready \cup {"wait"}, Goto(n, l), clock' = clock
    PROVE  Timely(n)'
  BY Moves DEF Core, Timely, NodeClock, Ready, Longest, RetainUntil

(* What is computed at the guard and used at the insert.                   *)
LEMMA TimelyInsert ==
    ASSUME SharedTypeOK, Core, NEW n \in Node
    PROVE  /\ pc[n] \in {"set", "reset"} =>
                 /\ clock + ttl[n] \in Int
                 /\ clock + ttl[n] + Ahead >= RetainUntil(cur[n])
                 /\ clock + ttl[n] <= clock + Longest(cur[n])
           /\ pc[n] = "txn" =>
                 /\ ttl[n] \in Int
                 /\ ttl[n] + Ahead >= RetainUntil(cur[n])
                 /\ ttl[n] <= clock + Longest(cur[n])
  <1>1. Timely(n) /\ clock \in Nat /\ ttl[n] \in Int
    BY DEF Core, SharedTypeOK
  <1>2. pc[n] # "idle" => cur[n] \in Request
    BY DEF SharedTypeOK
  <1>. QED  BY <1>1, <1>2, SharedConstants, SMT DEF Timely, Ready

(* The steps of a node up to its insert.                                   *)
LEMMA BeforeInsert ==
    ASSUME SharedTypeOK, Core, NEW n \in Node,
           (\E r \in Request : Call(n, r)) \/ Guard(n) \/ Grant(n)
    PROVE  Core'
  <1>. USE SharedConstants
  <1>0. UNCHANGED <<tier, clock, primary, data, admissions, failovers>>
    BY DEF Call, Guard, Grant, storeVars, history
  <1>1. ASSUME NEW r \in Request, Call(n, r) PROVE Core'
    <2>1. OnlyNode(n) /\ pc'[n] = "guard" /\ cur'[n] = r
      BY <1>1 DEF Call, OnlyNode, SharedTypeOK
    <2>2. Timely(n)'
      BY <1>0, <1>1, <2>1 DEF Call, CheckFreshness, Timely, NodeClock, Ready, SharedTypeOK
    <2>. QED  BY <1>0, <2>1, <2>2, LocalStep
  <1>2. CASE \E v : Answer(n, v)
    BY <1>0, <1>2, Moves, LocalStep
  <1>3. CASE Guard(n) /\ ~Answer(n, "unavailable")
    <2>1. /\ OnlyNode(n) /\ cur'[n] = cur[n] /\ pc[n] = "guard"
          /\ pc'[n] = IF tier = "linearizable" THEN "grant" ELSE "set"
          /\ ttl'[n] = RetainUntil(cur[n]) - NodeClock(n)
      BY <1>3 DEF Guard, OnlyNode, SharedTypeOK, ComputeTtl
    <2>2. /\ cur[n] \in Request /\ clock \in Nat
          /\ clock + Offset[n] >= IssuedAt[cur[n]] - Skew
      BY <2>1 DEF SharedTypeOK, Core, Timely, NodeClock
    <2>3. /\ ttl'[n] + clock + Ahead >= RetainUntil(cur[n])
          /\ ttl'[n] <= RetainUntil(cur[n]) - IssuedAt[cur[n]] + Skew
      BY <2>1, <2>2, SMT DEF NodeClock
    <2>4. RetainUntil(cur[n]) - IssuedAt[cur[n]] + Skew = Longest(cur[n])
      BY <2>2, SMT DEF RetainUntil, Longest
    <2>5. ttl'[n] \in Int
      BY <2>1, <2>2, SMT DEF NodeClock
    <2>6. Timely(n)'
      BY <1>0, <2>1, <2>2, <2>3, <2>4, <2>5, SMT DEF Timely, NodeClock, Longest, RetainUntil
    <2>. QED  BY <1>0, <2>1, <2>6, LocalStep
  <1>4. CASE Grant(n) /\ ~Answer(n, "unavailable")
    <2>1. /\ OnlyNode(n) /\ cur'[n] = cur[n] /\ pc[n] = "grant" /\ pc'[n] = "txn"
          /\ ttl'[n] = clock + ttl[n]
      BY <1>4 DEF Grant, OnlyNode, SharedTypeOK
    <2>2. /\ cur[n] \in Request /\ clock \in Nat /\ ttl[n] \in Int /\ Timely(n)
      BY <2>1 DEF SharedTypeOK, Core
    <2>3. Timely(n)'
      BY <1>0, <2>1, <2>2, SMT DEF Timely, NodeClock, Ready, Longest, RetainUntil
    <2>4. tier = "linearizable"
      BY <2>1 DEF Core
    <2>. QED  BY <1>0, <2>1, <2>3, <2>4, LocalStep
  <1>. QED
    BY <1>1, <1>2, <1>3, <1>4

(* The steps that run SET or the transaction.                              *)
LEMMA AtInsert ==
    ASSUME SharedTypeOK, Core, NEW n \in Node,
           SetAnswered(n) \/ SetTransient(n) \/ TxnAnswered(n) \/ TxnFails(n)
    PROVE  Core'
  <1>1. /\ UNCHANGED <<tier, clock, primary, failovers>>
        /\ pc[n] \in {"set", "reset", "txn"} /\ cur[n] \in Request
    BY DEF SetAnswered, SetTransient, TxnAnswered, TxnFails, history, SharedTypeOK
  <1>2. /\ OnlyNode(n) /\ Timely(n)' /\ pc'[n] \notin {"grant", "txn"}
        /\ \/ pc'[n] # "wait" /\ admissions' = admissions
           \/ /\ pc'[n] # "wait" /\ tier # "redis_wait_quorum" /\ Vacant(n)
              /\ admissions' = [admissions EXCEPT ![cur[n]] = @ + 1]
           \/ /\ pc'[n] = "wait" /\ cur'[n] = cur[n] /\ tier = "redis_wait_quorum"
              /\ admissions' = admissions /\ Vacant(n)
    <2>1. CASE SetAnswered(n) /\ Goto(n, "wait")
      <3>1. pc'[n] = "wait" /\ cur'[n] = cur[n] /\ OnlyNode(n) /\ pc[n] \in Ready
        BY <2>1, Moves DEF SetAnswered, Ready
      <3>2. Timely(n)'
        BY <1>1, <2>1, <3>1, GotoTimely
      <3>3. \A v : ~Answer(n, v)
        BY <3>1, Moves
      <3>4. tier = "redis_wait_quorum" /\ admissions' = admissions /\ Vacant(n)
        BY <2>1, <3>3 DEF SetAnswered, Admit
      <3>. QED  BY <3>1, <3>2, <3>4
    <2>2. CASE SetTransient(n) /\ Goto(n, "reconnect")
      <3>1. pc'[n] = "reconnect" /\ OnlyNode(n) /\ pc[n] \in Ready /\ admissions' = admissions
        BY <2>2, Moves DEF SetTransient, Ready
      <3>2. "reconnect" \in Ready
        BY DEF Ready
      <3>3. Timely(n)'
        BY <1>1, <2>2, <3>1, <3>2, GotoTimely
      <3>. QED  BY <3>1, <3>3
    <2>3. CASE \E v : Answer(n, v)
      <3>1. OnlyNode(n) /\ Timely(n)' /\ pc'[n] = "idle"
        BY <2>3, Moves
      <3>2. \/ admissions' = admissions
            \/ /\ tier # "redis_wait_quorum" /\ Vacant(n)
               /\ admissions' = [admissions EXCEPT ![cur[n]] = @ + 1]
        BY DEF SetAnswered, SetTransient, TxnAnswered, TxnFails, Admit, history, Core
      <3>. QED  BY <3>1, <3>2
    <2>. QED
      BY <2>1, <2>2, <2>3 DEF SetAnswered, SetTransient, TxnAnswered, TxnFails, Admit
  <1>3. \/ UNCHANGED data /\ UNCHANGED admissions /\ pc'[n] # "wait"
        \/ Vacant(n) /\ \E e \in Int :
              /\ Put(n, e)
              /\ e + Ahead >= RetainUntil(cur[n]) /\ e <= clock + Longest(cur[n])
    <2>1. CASE SetAnswered(n) \/ SetTransient(n)
      <3>1. UNCHANGED data \/ (Vacant(n) /\ Put(n, clock + ttl[n]))
        BY <2>1 DEF SetAnswered, SetTransient
      <3>2. UNCHANGED data => \/ UNCHANGED admissions /\ pc'[n] # "wait"
                              \/ Vacant(n) /\ Put(n, clock + ttl[n])
        BY <1>2, <2>1, Moves, SMT DEF SetAnswered, SetTransient
      <3>3. /\ clock + ttl[n] \in Int
            /\ clock + ttl[n] + Ahead >= RetainUntil(cur[n])
            /\ clock + ttl[n] <= clock + Longest(cur[n])
        BY <2>1, TimelyInsert DEF SetAnswered, SetTransient
      <3>. QED  BY <3>1, <3>2, <3>3
    <2>2. CASE TxnAnswered(n) \/ TxnFails(n)
      <3>1. UNCHANGED data \/ (Vacant(n) /\ Put(n, ttl[n]))
        BY <2>2 DEF TxnAnswered, TxnFails
      <3>2. UNCHANGED data => \/ UNCHANGED admissions /\ pc'[n] # "wait"
                              \/ Vacant(n) /\ Put(n, ttl[n])
        BY <1>2, <2>2, Moves DEF TxnAnswered, TxnFails, history, Admit
      <3>3. /\ ttl[n] \in Int
            /\ ttl[n] + Ahead >= RetainUntil(cur[n]) /\ ttl[n] <= clock + Longest(cur[n])
        BY <2>2, TimelyInsert DEF TxnAnswered, TxnFails
      <3>. QED  BY <3>1, <3>2, <3>3
    <2>. QED  BY <2>1, <2>2
  <1>4. CASE UNCHANGED data /\ UNCHANGED admissions /\ pc'[n] # "wait"
    BY <1>1, <1>2, <1>4, LocalStep
  <1>5. CASE Vacant(n) /\ \E e \in Int :
              /\ Put(n, e)
              /\ e + Ahead >= RetainUntil(cur[n]) /\ e <= clock + Longest(cur[n])
    <2>1. PICK e \in Int :
              /\ Put(n, e)
              /\ e + Ahead >= RetainUntil(cur[n]) /\ e <= clock + Longest(cur[n])
      BY <1>5
    <2>. QED  BY <1>1, <1>2, <1>5, <2>1, PutStep
  <1>. QED  BY <1>3, <1>4, <1>5

(* The steps in which a node gives up, reconnects or dies.                 *)
LEMMA AwayFromStore ==
    ASSUME SharedTypeOK, Core, NEW n \in Node,
           \/ SetFatal(n) \/ AcquirePermit(n) \/ Connected(n) \/ Abandon(n) \/ WorkerEnds(n)
           \/ WaitFails(n) \/ Die(n)
    PROVE  Core'
  <1>0. UNCHANGED <<tier, clock, primary, data, admissions, failovers>>
    BY
    DEF SetFatal, AcquirePermit, Connected, Abandon, WorkerEnds, WaitFails, Die,
           storeVars, history
  <1>1. CASE \E v : Answer(n, v)
    <2>1. OnlyNode(n) /\ pc'[n] = "idle" /\ Timely(n)'
      BY <1>1, Moves
    <2>. QED  BY <1>0, <2>1, LocalStep
  <1>2. CASE pc[n] \in Ready /\ \E l \in Ready \ {"grant"} : Goto(n, l)
    <2>1. PICK l \in Ready \ {"grant"} : Goto(n, l)
      BY <1>2
    <2>2. Timely(n)' /\ OnlyNode(n) /\ pc'[n] = l
      BY <1>0, <1>2, <2>1, Moves, GotoTimely
    <2>. QED  BY <1>0, <2>2, LocalStep DEF Ready
  <1>3. CASE WorkerEnds(n)
    <2>1. UNCHANGED <<pc, cur, ttl>>
      BY <1>3 DEF WorkerEnds
    <2>. QED  BY <1>0, <2>1, Unmoved
  <1>. QED
    BY <1>1, <1>2, <1>3
    DEF SetFatal, AcquirePermit, Connected, Abandon, WaitFails, Die, Ready

(* In the lossless WAIT tier a satisfied WAIT means every server.          *)
LEMMA QuorumIsAll ==
    ASSUME SharedTypeOK, NEW n \in Node, WaitSatisfied(n),
           tier = "redis_wait_quorum", Lossless
    PROVE  \A s \in Server : data[s][CurKey(n)] = data[primary][CurKey(n)]
  <1>1. /\ IsFiniteSet(Server \ {primary})
        /\ Cardinality(Server \ {primary}) = Cardinality(Server) - 1
    BY FS_RemoveElement, SharedAssumption DEF SharedTypeOK
  <1>2. Acked(n) \in SUBSET (Server \ {primary})
    BY DEF Acked
  <1>3. /\ Cardinality(Acked(n)) <= Cardinality(Server \ {primary})
        /\ Cardinality(Server \ {primary}) = Cardinality(Acked(n)) => Server \ {primary} = Acked(n)
        /\ IsFiniteSet(Acked(n))
    BY <1>1, <1>2, FS_Subset
  <1>4. /\ Cardinality(Server) \in Nat /\ Cardinality(Acked(n)) \in Nat
    BY <1>3, FS_CardinalityType, SharedAssumption
  <1>5. Quorum >= Cardinality(Server) - 1 /\ Cardinality(Acked(n)) >= Quorum
    BY DEF Lossless, WaitSatisfied
  <1>6. Server \ {primary} = Acked(n)
    BY <1>1, <1>3, <1>4, <1>5, SharedAssumption, SMT
  <1>. QED  BY <1>6 DEF Acked

(* A satisfied WAIT admits a request that nobody else has admitted.        *)
LEMMA WaitStep ==
    ASSUME SharedTypeOK, Core, NEW n \in Node, WaitSucceeds(n) PROVE Core'
  <1>. USE SharedConstants
  <1>1. /\ pc[n] = "wait" /\ WaitSatisfied(n) /\ tier = "redis_wait_quorum"
        /\ cur[n] \in Request /\ CurKey(n) \in Key /\ primary \in Server
    BY DEF WaitSucceeds, Core, SharedTypeOK, CurKey
  <1>2. /\ UNCHANGED <<tier, clock, primary, data, failovers>> /\ OnlyNode(n)
        /\ pc'[n] = "idle" /\ admissions' = [admissions EXCEPT ![cur[n]] = @ + 1]
    BY DEF WaitSucceeds, Admit, Answer, storeVars, OnlyNode, SharedTypeOK
  <1>3. Lossless' = Lossless /\ Safe' = Safe /\ \A r : InWindow(r)' = InWindow(r)
    BY <1>2 DEF Lossless, Safe, InWindow
  <1>4. KeysExpire'
    BY <1>2 DEF Core, KeysExpire
  <1>5. \A r \in Request : r # cur[n] => admissions'[r] = admissions[r]
    BY <1>2 DEF SharedTypeOK
  <1>6. ASSUME NEW r \in Request PROVE Kept(r)'
    <2>. SUFFICES ASSUME Safe, admissions'[r] > 0, InWindow(r)
                  PROVE  /\ Holds(data[primary], r)
                         /\ Lossless => \A s \in Server : Holds(data[s], r)
      BY <1>2, <1>3 DEF Kept
    <2>1. CASE r = cur[n]
      <3>1. Holds(data[primary], r)
        BY <1>1, <2>1, OnPrimary
      <3>2. ASSUME Lossless, NEW s \in Server PROVE Holds(data[s], r)
        BY <1>1, <2>1, <3>1, <3>2, QuorumIsAll DEF Holds, CurKey
      <3>. QED  BY <3>1, <3>2
    <2>2. CASE r # cur[n]
      BY <1>1, <1>5, <2>2, OnPrimary
    <2>. QED  BY <2>1, <2>2
  <1>7. ASSUME NEW m \in Node PROVE Waiting(m)'
    <2>1. CASE m = n
      BY <1>2, <2>1 DEF Waiting
    <2>2. CASE m # n
      <3>1. pc'[m] = pc[m] /\ cur'[m] = cur[m] /\ Waiting(m) /\ Waiting(n)
        BY <1>2, <2>2 DEF OnlyNode, Core
      <3>. SUFFICES ASSUME pc[m] = "wait", InWindow(cur[m])
                    PROVE  /\ Holds(data[primary], cur[m])
                           /\ Safe => admissions'[cur[m]] = 0
                           /\ \A x \in Node \ {m} : ~(pc'[x] = "wait" /\ cur'[x] = cur[m])
        BY <1>2, <1>3, <3>1 DEF Waiting
      <3>2. cur[m] # cur[n] /\ cur[m] \in Request
        BY <1>1, <2>2, <3>1 DEF Waiting, SharedTypeOK
      <3>3. ASSUME NEW x \in Node \ {m} PROVE ~(pc'[x] = "wait" /\ cur'[x] = cur[m])
        BY <1>2, <3>1 DEF OnlyNode, Waiting
      <3>. QED  BY <1>5, <3>1, <3>2, <3>3 DEF Waiting
    <2>. QED  BY <2>1, <2>2
  <1>8. ASSUME NEW m \in Node
        PROVE  /\ pc'[m] = "wait" => tier' = "redis_wait_quorum"
               /\ pc'[m] \in {"grant", "txn"} => tier' = "linearizable"
               /\ Timely(m)'
    <2>1. CASE m = n
      BY <1>2, <2>1 DEF Timely, Ready
    <2>2. CASE m # n
      <3>1. pc'[m] = pc[m] /\ cur'[m] = cur[m] /\ ttl'[m] = ttl[m]
        BY <1>2, <2>2 DEF OnlyNode
      <3>2. Timely(m)'
        BY <1>2, <3>1 DEF Core, Timely, NodeClock, Longest, RetainUntil
      <3>. QED  BY <1>2, <3>1, <3>2 DEF Core
    <2>. QED  BY <2>1, <2>2
  <1>. QED
    BY <1>4, <1>6, <1>7, <1>8 DEF Core

(* Every step keeps the invariant.                                         *)
LEMMA SharedStep == SInv /\ [Next]_vars => SInv'
  <1>. SUFFICES ASSUME SharedTypeOK, Core, [Next]_vars PROVE Core'
    BY SharedType DEF SInv
  <1>1. CASE UNCHANGED vars
    <2>1. UNCHANGED <<tier, clock, primary, data, pc, cur, ttl, admissions, failovers>>
      BY <1>1 DEF vars, storeVars, nodeVars, history
    <2>. QED  BY <2>1, Unmoved
  <1>. QED
    BY <1>1, BeforeInsert, AtInsert, AwayFromStore, WaitStep, TickStep, ReplicateStep,
       ExpireStep, FailoverStep DEF Next, Redis, Etcd

(* The invariant of the shared cache, for any nodes, servers and clocks.   *)
THEOREM SharedInvariance == Spec => []SInv
  BY SharedInit, SharedStep, PTL DEF Spec

(* The types, with the bound on the connect threads a node may strand.     *)
THEOREM SharedTypes == Spec => []SharedTypeOK
  <1>1. SInv => SharedTypeOK
    BY DEF SInv
  <1>. QED  BY <1>1, SharedInvariance, PTL

(* No key outlives the longest window of a request that carries it, and no *)
(* node has more connect threads than permits.                             *)
THEOREM NothingPilesUp == Spec => []ResourcesAreBounded
  <1>1. SInv => ResourcesAreBounded
    <2>. SUFFICES ASSUME SInv, NEW n \in Node
                  PROVE  stranded[n] + (IF pc[n] = "connecting" THEN 1 ELSE 0) <= MaxInflight
      BY DEF SInv, Core, ResourcesAreBounded
    <2>1. stranded[n] \in 0 .. MaxInflight /\ (pc[n] = "connecting" => stranded[n] < MaxInflight)
      BY DEF SInv, SharedTypeOK
    <2>. QED  BY <2>1, SharedAssumption, SMT
  <1>. QED  BY <1>1, SharedInvariance, PTL

(* Where a request is admitted: by an insert that finds the key vacant, or *)
(* by the WAIT that follows it.                                            *)
LEMMA AdmitsHere ==
    ASSUME Next
    PROVE  \/ admissions' = admissions
           \/ \E n \in Node : /\ Vacant(n) \/ WaitSucceeds(n)
                             /\ admissions' = [admissions EXCEPT ![cur[n]] = @ + 1]
  <1>1. ASSUME NEW n \in Node, SetAnswered(n) \/ TxnAnswered(n) \/ WaitSucceeds(n)
        PROVE  \/ admissions' = admissions
               \/ /\ Vacant(n) \/ WaitSucceeds(n)
                  /\ admissions' = [admissions EXCEPT ![cur[n]] = @ + 1]
    BY <1>1 DEF SetAnswered, TxnAnswered, WaitSucceeds, Admit
  <1>2. ASSUME NEW n \in Node,
               \/ \E r \in Request : Call(n, r)
               \/ Guard(n) \/ SetTransient(n) \/ SetFatal(n) \/ AcquirePermit(n) \/ Connected(n)
               \/ Abandon(n) \/ WorkerEnds(n) \/ WaitFails(n) \/ Grant(n) \/ TxnFails(n) \/ Die(n)
        PROVE  admissions' = admissions
    BY <1>2 DEF Call, Guard, SetTransient, SetFatal, AcquirePermit, Connected, Abandon,
                WorkerEnds, WaitFails, Grant, TxnFails, Die, history
  <1>3. ASSUME \/ \E s \in Server : Replicate(s) \/ Failover(s)
               \/ \E k \in Key : Expire(k)
               \/ Tick
        PROVE  admissions' = admissions
    BY <1>3 DEF Replicate, Failover, Expire, Tick, history
  <1>. QED
    BY <1>1, <1>2, <1>3 DEF Next, Redis, Etcd

(* No node admits a request again while any node could find it fresh, up   *)
(* to the first failover in every tier and without limit in the lossless.  *)
THEOREM AdmittedOnceInWindow == Spec => NoReadmissionInWindow
  <1>1. SInv /\ [Next]_vars =>
          [Lossless \/ failovers = 0 =>
            \A r \in Request :
              admissions[r] > 0 /\ admissions'[r] # admissions[r] =>
                clock + Ahead >= RetainUntil(r)]_vars
    <2>0. ASSUME SInv, NEW r \in Request, ~(clock + Ahead >= RetainUntil(r)) PROVE InWindow(r)
      BY <2>0, SharedConstants, SMT DEF SInv, InWindow, SharedTypeOK
    <2>. SUFFICES ASSUME SharedTypeOK, Core, Next, Safe, NEW r \in Request,
                         admissions'[r] # admissions[r], InWindow(r)
                  PROVE  ~(admissions[r] > 0)
      BY <2>0 DEF SInv, Safe
    <2>1. PICK n \in Node : cur[n] = r /\ (Vacant(n) \/ WaitSucceeds(n))
      BY AdmitsHere DEF SharedTypeOK
    <2>2. CASE Vacant(n)
      <3>1. admissions[r] = 0
        BY <2>1, <2>2, VacantFacts DEF CurKey
      <3>. QED  BY <3>1, SMT
    <2>3. CASE WaitSucceeds(n)
      <3>1. Waiting(n) /\ pc[n] = "wait"
        BY <2>3 DEF WaitSucceeds, Core
      <3>2. admissions[r] = 0
        BY <2>1, <3>1 DEF Waiting
      <3>. QED  BY <3>2, SMT
    <2>. QED  BY <2>1, <2>2, <2>3
  <1>. QED
    BY <1>1, SharedInvariance, PTL DEF Spec, NoReadmissionInWindow

-----------------------------------------------------------------------------
(* A key nobody presented is nowhere in the store and in no node's hands.   *)
Unpresented(k) ==
    calls[k] = 0 =>
        /\ \A s \in Server : data[s][k] = Absent
        /\ \A n \in Node : cur[n] # NoRequest => CurKey(n) # k

(* Node n holds the only request ever presented under its key.              *)
First(n) == cur[n] # NoRequest /\ calls[CurKey(n)] = 1

(* The key of a first request is in one node's hands only, and in the store *)
(* only after that node's own SET: it waits for the replicas, or the reply  *)
(* was lost.                                                                *)
Earned ==
    /\ \A k \in Key : Unpresented(k)
    /\ \A n \in Node : First(n) =>
        /\ \A m \in Node \ {n} : cur[m] # NoRequest => CurKey(m) # CurKey(n)
        /\ pc[n] = "wait" \/ lostReply[n] \/ \A s \in Server : data[s][CurKey(n)] = Absent

(* A step that presents nothing and puts nothing into the store.            *)
LEMMA EarnedKept ==
    ASSUME SharedTypeOK, Earned, UNCHANGED calls,
           \A s \in Server, k \in Key : (\A x \in Server : data[x][k] = Absent) => data'[s][k] = Absent,
           \A n \in Node : \/ cur'[n] = NoRequest
                           \/ /\ cur'[n] = cur[n] /\ lostReply'[n] = lostReply[n]
                              /\ pc[n] = "wait" => pc'[n] = "wait"
    PROVE  Earned'
  <1>1. \A n \in Node : cur'[n] # NoRequest =>
          cur'[n] = cur[n] /\ KeyOf[cur[n]] \in Key
    <2>. SUFFICES ASSUME NEW n \in Node, cur'[n] # NoRequest
                  PROVE  cur'[n] = cur[n] /\ KeyOf[cur[n]] \in Key
      OBVIOUS
    <2>1. cur'[n] = cur[n]
      OBVIOUS
    <2>2. cur[n] \in Request
      BY <2>1 DEF SharedTypeOK
    <2>. QED  BY <2>1, <2>2, SharedConstants
  <1>2. ASSUME NEW k \in Key PROVE Unpresented(k)'
    <2>. SUFFICES ASSUME calls[k] = 0
                  PROVE  /\ \A s \in Server : data'[s][k] = Absent
                         /\ \A m \in Node : cur'[m] # NoRequest => KeyOf[cur'[m]] # k
      BY DEF Unpresented, CurKey
    <2>1. /\ \A s \in Server : data[s][k] = Absent
          /\ \A m \in Node : cur[m] # NoRequest => KeyOf[cur[m]] # k
      BY DEF Earned, Unpresented, CurKey
    <2>2. \A s \in Server : data'[s][k] = Absent
      BY <2>1
    <2>. QED  BY <1>1, <2>1, <2>2
  <1>3. ASSUME NEW n \in Node, First(n)'
        PROVE  /\ \A m \in Node \ {n} : cur'[m] # NoRequest => KeyOf[cur'[m]] # KeyOf[cur'[n]]
               /\ pc'[n] = "wait" \/ lostReply'[n] \/ \A s \in Server : data'[s][KeyOf[cur'[n]]] = Absent
    <2>1. First(n) /\ cur'[n] = cur[n] /\ KeyOf[cur[n]] \in Key /\ cur'[n] # NoRequest
      BY <1>1, <1>3 DEF First, CurKey
    <2>2. \A m \in Node \ {n} : cur'[m] # NoRequest => KeyOf[cur'[m]] # KeyOf[cur'[n]]
      <3>1. \A m \in Node \ {n} : cur[m] # NoRequest => KeyOf[cur[m]] # KeyOf[cur[n]]
        BY <2>1 DEF Earned, CurKey
      <3>. SUFFICES ASSUME NEW m \in Node \ {n}, cur'[m] # NoRequest
                    PROVE  KeyOf[cur'[m]] # KeyOf[cur'[n]]
        OBVIOUS
      <3>2. cur'[m] = cur[m]
        BY <1>1
      <3>. QED  BY <2>1, <3>1, <3>2
    <2>3. pc[n] = "wait" \/ lostReply[n] \/ \A s \in Server : data[s][KeyOf[cur[n]]] = Absent
      BY <2>1 DEF Earned, CurKey
    <2>. QED  BY <2>1, <2>2, <2>3
  <1>. QED  BY <1>2, <1>3 DEF Earned, CurKey

(* Node n puts its key into the store, and with that its call is over, or  *)
(* it waits for the replicas, or the reply is lost.                         *)
LEMMA EarnedPut ==
    ASSUME SharedTypeOK, Earned, UNCHANGED calls, NEW n \in Node, cur[n] # NoRequest, NEW ends,
           Put(n, ends),
           cur'[n] = NoRequest \/ (cur'[n] = cur[n] /\ (pc'[n] = "wait" \/ lostReply'[n])),
           \A m \in Node \ {n} : cur'[m] = cur[m] /\ lostReply'[m] = lostReply[m] /\ pc'[m] = pc[m]
    PROVE  Earned'
  <1>1. \A m \in Node : cur[m] # NoRequest => KeyOf[cur[m]] \in Key
    BY SharedConstants DEF SharedTypeOK
  <1>2. \A s \in Server, k \in Key : k # CurKey(n) => data'[s][k] = data[s][k]
    BY <1>1 DEF Put, CurKey, SharedTypeOK
  <1>3. calls[CurKey(n)] # 0
    BY <1>1 DEF Earned, Unpresented, CurKey
  <1>4. \A m \in Node : cur'[m] # NoRequest => cur'[m] = cur[m]
    OBVIOUS
  <1>5. ASSUME NEW k \in Key PROVE Unpresented(k)'
    <2>. SUFFICES ASSUME calls[k] = 0
                  PROVE  /\ \A s \in Server : data'[s][k] = Absent
                         /\ \A m \in Node : cur'[m] # NoRequest => KeyOf[cur'[m]] # k
      BY DEF Unpresented, CurKey
    <2>1. k # CurKey(n) /\ Unpresented(k)
      BY <1>3 DEF Earned
    <2>. QED  BY <1>2, <1>4, <2>1 DEF Unpresented, CurKey
  <1>6. ASSUME NEW m \in Node, First(m)'
        PROVE  /\ \A x \in Node \ {m} : cur'[x] # NoRequest => KeyOf[cur'[x]] # KeyOf[cur'[m]]
               /\ pc'[m] = "wait" \/ lostReply'[m] \/ \A s \in Server : data'[s][KeyOf[cur'[m]]] = Absent
    <2>1. First(m) /\ cur'[m] = cur[m] /\ KeyOf[cur[m]] \in Key
      BY <1>1, <1>4, <1>6 DEF First, CurKey
    <2>2. \A x \in Node \ {m} : cur[x] # NoRequest => KeyOf[cur[x]] # KeyOf[cur[m]]
      BY <2>1 DEF Earned, CurKey
    <2>3. \A x \in Node \ {m} : cur'[x] # NoRequest => KeyOf[cur'[x]] # KeyOf[cur'[m]]
      BY <1>4, <2>1, <2>2
    <2>4. CASE m = n
      BY <1>6, <2>3, <2>4 DEF First
    <2>5. CASE m # n
      <3>1. KeyOf[cur[m]] # CurKey(n)
        BY <2>2, <2>5 DEF CurKey
      <3>2. pc[m] = "wait" \/ lostReply[m] \/ \A s \in Server : data[s][KeyOf[cur[m]]] = Absent
        BY <2>1 DEF Earned, CurKey
      <3>3. pc'[m] = pc[m] /\ lostReply'[m] = lostReply[m]
        BY <2>5
      <3>4. \A s \in Server : data'[s][KeyOf[cur[m]]] = data[s][KeyOf[cur[m]]]
        BY <1>2, <2>1, <3>1
      <3>. QED  BY <2>1, <2>3, <3>2, <3>3, <3>4
    <2>. QED  BY <2>4, <2>5
  <1>. QED  BY <1>5, <1>6 DEF Earned, CurKey

(* A request is presented to a node.                                        *)
LEMMA EarnedCall ==
    ASSUME SharedTypeOK, Earned, NEW n \in Node, NEW r \in Request, Call(n, r)
    PROVE  Earned'
  <1>1. /\ UNCHANGED data /\ cur'[n] = r /\ r # NoRequest /\ KeyOf[r] \in Key
        /\ \A m \in Node \ {n} : cur'[m] = cur[m] /\ lostReply'[m] = lostReply[m] /\ pc'[m] = pc[m]
        /\ \A m \in Node : cur[m] # NoRequest => KeyOf[cur[m]] \in Key
    BY SharedConstants DEF Call, storeVars, SharedTypeOK
  <1>2. /\ \A k \in Key : k # KeyOf[r] => calls'[k] = calls[k]
        /\ calls'[KeyOf[r]] = IF calls[KeyOf[r]] = 0 THEN 1 ELSE 2
    BY <1>1 DEF Call, SharedTypeOK
  <1>3. ASSUME NEW k \in Key PROVE Unpresented(k)'
    <2>. SUFFICES ASSUME calls'[k] = 0
                  PROVE  /\ \A s \in Server : data[s][k] = Absent
                         /\ \A m \in Node : cur'[m] # NoRequest => KeyOf[cur'[m]] # k
      BY <1>1 DEF Unpresented, CurKey
    <2>1. k # KeyOf[r] /\ calls[k] = 0
      BY <1>2, SMT
    <2>2. Unpresented(k)
      BY DEF Earned
    <2>. QED  BY <1>1, <2>1, <2>2 DEF Unpresented, CurKey
  <1>4. ASSUME NEW m \in Node, First(m)'
        PROVE  /\ \A x \in Node \ {m} : cur'[x] # NoRequest => KeyOf[cur'[x]] # KeyOf[cur'[m]]
               /\ pc'[m] = "wait" \/ lostReply'[m] \/ \A s \in Server : data[s][KeyOf[cur'[m]]] = Absent
    <2>1. CASE KeyOf[cur'[m]] = KeyOf[r]
      <3>1. calls'[KeyOf[r]] = 1
        BY <1>4, <2>1 DEF First, CurKey
      <3>2. calls[KeyOf[r]] = 0
        BY <1>2, <3>1, SMT
      <3>3. /\ \A s \in Server : data[s][KeyOf[r]] = Absent
            /\ \A x \in Node : cur[x] # NoRequest => KeyOf[cur[x]] # KeyOf[r]
        BY <1>1, <3>2 DEF Earned, Unpresented, CurKey
      <3>4. m = n
        BY <1>1, <1>4, <2>1, <3>3 DEF First
      <3>. QED  BY <1>1, <2>1, <3>3, <3>4
    <2>2. CASE KeyOf[cur'[m]] # KeyOf[r]
      <3>1. m # n /\ cur'[m] = cur[m] /\ cur[m] # NoRequest
        BY <1>1, <1>4, <2>2 DEF First
      <3>2. First(m)
        BY <1>1, <1>2, <1>4, <2>2, <3>1 DEF First, CurKey
      <3>3. /\ \A x \in Node \ {m} : cur[x] # NoRequest => KeyOf[cur[x]] # KeyOf[cur[m]]
            /\ pc[m] = "wait" \/ lostReply[m] \/ \A s \in Server : data[s][KeyOf[cur[m]]] = Absent
        BY <3>2 DEF Earned, CurKey
      <3>. QED  BY <1>1, <2>2, <3>1, <3>3
    <2>. QED  BY <2>1, <2>2
  <1>. QED  BY <1>1, <1>3, <1>4 DEF Earned, CurKey

(* Every step keeps what a first request may find in the store.             *)
LEMMA EarnedStep == SharedTypeOK /\ Earned /\ [Next]_vars => Earned'
  <1>. SUFFICES ASSUME SharedTypeOK, Earned, [Next]_vars PROVE Earned'
    OBVIOUS
  <1>1. ASSUME NEW n \in Node, NEW r \in Request, Call(n, r) PROVE Earned'
    BY <1>1, EarnedCall
  <1>2. ASSUME NEW n \in Node, Guard(n) \/ Grant(n) \/ SetFatal(n) \/ AcquirePermit(n) \/ WaitFails(n)
        PROVE  Earned'
    <2>1. /\ UNCHANGED <<calls, data, lostReply>>
          /\ \A m \in Node : \/ cur'[m] = NoRequest
                             \/ cur'[m] = cur[m] /\ (pc[m] = "wait" => pc'[m] = "wait")
      BY <1>2 DEF Guard, Grant, SetFatal, AcquirePermit, WaitFails, Answer, Goto, storeVars, history,
                  SharedTypeOK
    <2>. QED  BY <2>1, EarnedKept
  <1>3. ASSUME NEW n \in Node,
               Connected(n) \/ Abandon(n) \/ WorkerEnds(n) \/ WaitSucceeds(n) \/ Die(n)
        PROVE  Earned'
    <2>1. /\ UNCHANGED <<calls, data, lostReply>>
          /\ \A m \in Node : \/ cur'[m] = NoRequest
                             \/ cur'[m] = cur[m] /\ (pc[m] = "wait" => pc'[m] = "wait")
      BY <1>3 DEF Connected, Abandon, WorkerEnds, WaitSucceeds, Die, Admit, Answer, Goto, storeVars,
                  history, SharedTypeOK
    <2>. QED  BY <2>1, EarnedKept
  <1>4. ASSUME NEW n \in Node, SetAnswered(n) PROVE Earned'
    <2>1. cur[n] # NoRequest /\ UNCHANGED <<calls, lostReply>>
      BY <1>4 DEF SetAnswered, SharedTypeOK
    <2>2. CASE ~Vacant(n) /\ Answer(n, "replay") /\ UNCHANGED data
      <3>1. \A m \in Node : cur'[m] = NoRequest \/ (cur'[m] = cur[m] /\ pc'[m] = pc[m])
        BY <2>2 DEF Answer, SharedTypeOK
      <3>. QED  BY <2>1, <2>2, <3>1, EarnedKept
    <2>3. CASE Put(n, clock + ttl[n]) /\ (Admit(n) \/ Goto(n, "wait"))
      <3>1. /\ cur'[n] = NoRequest \/ (cur'[n] = cur[n] /\ pc'[n] = "wait")
            /\ \A m \in Node \ {n} : cur'[m] = cur[m] /\ pc'[m] = pc[m]
        BY <2>3 DEF Admit, Answer, Goto, SharedTypeOK
      <3>. QED  BY <2>1, <2>3, <3>1, EarnedPut
    <2>. QED  BY <1>4, <2>2, <2>3 DEF SetAnswered
  <1>5. ASSUME NEW n \in Node, SetTransient(n) PROVE Earned'
    <2>1. /\ cur[n] # NoRequest /\ UNCHANGED calls /\ pc[n] # "wait"
          /\ cur'[n] = NoRequest \/ cur'[n] = cur[n]
          /\ \A m \in Node \ {n} : cur'[m] = cur[m] /\ pc'[m] = pc[m]
      BY <1>5 DEF SetTransient, Answer, Goto, SharedTypeOK
    <2>2. CASE UNCHANGED <<data, lostReply>>
      BY <2>1, <2>2, EarnedKept
    <2>3. CASE Put(n, clock + ttl[n]) /\ lostReply' = [lostReply EXCEPT ![n] = TRUE]
      <3>1. lostReply'[n] /\ \A m \in Node \ {n} : lostReply'[m] = lostReply[m]
        BY <2>3 DEF SharedTypeOK
      <3>. QED  BY <2>1, <2>3, <3>1, EarnedPut
    <2>. QED  BY <1>5, <2>2, <2>3 DEF SetTransient
  <1>6. ASSUME NEW n \in Node, TxnAnswered(n) \/ TxnFails(n) PROVE Earned'
    <2>1. /\ cur[n] # NoRequest /\ UNCHANGED <<calls, lostReply>>
          /\ cur'[n] = NoRequest
          /\ \A m \in Node \ {n} : cur'[m] = cur[m] /\ pc'[m] = pc[m]
      BY <1>6 DEF TxnAnswered, TxnFails, Admit, Answer, history, SharedTypeOK
    <2>2. CASE UNCHANGED data
      BY <2>1, <2>2, EarnedKept
    <2>3. CASE Put(n, ttl[n])
      BY <2>1, <2>3, EarnedPut
    <2>. QED  BY <1>6, <2>2, <2>3 DEF TxnAnswered, TxnFails
  <1>7. ASSUME NEW s \in Server, Replicate(s) \/ Failover(s) PROVE Earned'
    <2>1. /\ UNCHANGED <<calls, lostReply, cur, pc>>
          /\ \A x \in Server : data'[x] \in {data[x], data[primary], data[s]}
      BY <1>7 DEF Replicate, Failover, nodeVars, history, SharedTypeOK
    <2>2. primary \in Server
      BY DEF SharedTypeOK
    <2>3. \A x \in Server, k \in Key : (\A y \in Server : data[y][k] = Absent) => data'[x][k] = Absent
      BY <2>1, <2>2
    <2>. QED  BY <2>1, <2>3, EarnedKept
  <1>8. ASSUME NEW k \in Key, Expire(k) PROVE Earned'
    <2>1. /\ UNCHANGED <<calls, lostReply, cur, pc>>
          /\ \A x \in Server, j \in Key : data'[x][j] \in {data[x][j], Absent}
      BY <1>8 DEF Expire, nodeVars, history, SharedTypeOK
    <2>. QED  BY <2>1, EarnedKept
  <1>9. CASE Tick \/ UNCHANGED vars
    <2>1. UNCHANGED <<calls, lostReply, cur, pc, data>>
      BY <1>9 DEF Tick, vars, storeVars, nodeVars, history
    <2>. QED  BY <2>1, EarnedKept
  <1>. QED
    BY <1>1, <1>2, <1>3, <1>4, <1>5, <1>6, <1>7, <1>8, <1>9 DEF Next, Redis, Etcd

(* A request that is the first under its key is called a replay only when  *)
(* its own SET was executed and the reply lost, for any nodes, servers and  *)
(* tiers, through retries, failovers and the death of nodes.                *)
THEOREM ReplaysAreEarned == Spec => []ReplayIsEarned
  <1>1. Init => Earned
    BY SMT DEF Init, Earned, Unpresented, First, CurKey
  <1>2. SharedTypeOK /\ Earned => ReplayIsEarned
    <2>. SUFFICES ASSUME SharedTypeOK, Earned, NEW n \in Node, NEW r \in Request, cur[n] = r,
                         calls[KeyOf[r]] = 1, pc[n] \in {"set", "reset", "txn"}, ~Vacant(n)
                  PROVE  lostReply[n]
      BY DEF ReplayIsEarned
    <2>1. cur[n] # NoRequest /\ primary \in Server
      BY SharedConstants DEF SharedTypeOK
    <2>2. First(n) /\ pc[n] # "wait" /\ data[primary][CurKey(n)] # Absent
      BY <2>1 DEF First, CurKey, Vacant
    <2>. QED  BY <2>1, <2>2 DEF Earned
  <1>. QED  BY <1>1, <1>2, EarnedStep, SharedTypes, PTL DEF Spec
=============================================================================
