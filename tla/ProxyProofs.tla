----------------------------- MODULE ProxyProofs -----------------------------
(***************************************************************************)
(* Theorems about the proxy and its durable replay cache.  The cache, for  *)
(* every set of requests and keys, every window, skew, prune cadence and   *)
(* ceiling: at most one fresh answer per request, crashes included.  The   *)
(* proxy, for every set of messages, every configuration and every cache:  *)
(* it drives its replay cache as the cache expects, dispatches a request   *)
(* at most once, and lets only authentic messages burn a nonce.            *)
(***************************************************************************)
EXTENDS Proxy, FiniteSetTheorems, TLAPS

(* Zenon proves most of the steps; those that need arithmetic say SMT.     *)
USE Zenon

-----------------------------------------------------------------------------
(* At most one "fresh" per request.                                         *)

(* Which request each control point carries, that it was fresh when it      *)
(* arrived, and that only a running process is inside an operation.         *)
Control ==
    /\ pc \in {"idle", "serve"} => cur = NoRequest
    /\ pc = "check" => cur \in Request /\ now <= RetainUntil(cur)
    /\ ~up => pc = "idle"

(* The file is one of its own possible survivors; after the rename it is    *)
(* what memory holds.                                                       *)
FileInv ==
    /\ file \in durable
    /\ pc = "dirsync" => file = entries

(* An insert that is being written holds its key in memory, was never       *)
(* admitted before, and no admitted request with its key can still be fresh.*)
InFlight ==
    pc \in {"persist", "dirsync"} /\ cur # NoRequest =>
        /\ entries[CurKey] = RetainUntil(cur)
        /\ admissions[cur] = 0
        /\ \A r \in Request :
              KeyOf[r] = CurKey /\ admissions[r] > 0 => clock > RetainUntil(r)

IInv ==
    /\ TypeOK
    /\ Control
    /\ FileInv
    /\ AtMostOnce
    /\ Remembered
    /\ InFlight

(* retain_until is a timestamp, never the absence of an entry.              *)
LEMMA RetainUntilInt ==
    ASSUME NEW r \in Request
    PROVE  RetainUntil(r) \in Int /\ RetainUntil(r) # Absent /\ KeyOf[r] \in Key
  BY RequestAssumption, DurableAssumption, SMT DEF RetainUntil

(* What eviction returns: the same map, without the entries that ended      *)
(* before t.                                                                *)
LEMMA RetainedType ==
    ASSUME NEW m \in Content, NEW t \in Int
    PROVE  /\ Retained(m, t) \in Content
           /\ \A k \in Key : Retained(m, t)[k] \in {m[k], Absent}
           /\ \A k \in Key : m[k] \in Int /\ m[k] >= t => Retained(m, t)[k] = m[k]
  BY DurableAssumption, SMT DEF Retained, Content

(* The inline prune keeps the map a map of instants.                       *)
LEMMA KeptType ==
    ASSUME TypeOK
    PROVE  /\ Kept \in Content
           /\ \A k \in Key : Kept[k] \in {entries[k], Absent}
           /\ \A k \in Key : entries[k] \in Int /\ entries[k] >= clock
                                => Kept[k] = entries[k]
  <1>1. entries \in Content /\ clock \in Int
    BY SMT DEF TypeOK
  <1>. QED  BY <1>1, RetainedType DEF Kept

(* The cadence counter stays below PruneEvery, because the prune it        *)
(* triggers resets it.                                                     *)
LEMMA RecountType ==
    ASSUME TypeOK, Recount
    PROVE  inserts' \in 0 .. PruneEvery - 1
  BY DurableAssumption, SMT DEF TypeOK, Recount, PruneDue, Counted

(* The initial state satisfies the invariant.                               *)
LEMMA InitInv == Init => IInv
  <1>. SUFFICES ASSUME Init PROVE IInv
    OBVIOUS
  <1>1. TypeOK
    BY DurableAssumption, SMT DEF Init, TypeOK, Content, Empty
  <1>2. Control /\ FileInv /\ AtMostOnce /\ Remembered /\ InFlight
    BY SMT DEF Init, Control, FileInv, AtMostOnce, Remembered, InFlight
  <1>. QED  BY <1>1, <1>2 DEF IInv

(* Every step preserves the types.                                          *)
LEMMA TypeStep == TypeOK /\ Control /\ [Next]_vars => TypeOK'
  <1>. SUFFICES ASSUME TypeOK, Control, [Next]_vars PROVE TypeOK'
    OBVIOUS
  <1>. USE DurableAssumption, RequestAssumption
  <1>e. Empty \in Content
    BY DEF Empty, Content
  <1>1. ASSUME NEW r \in Request, Call(r) PROVE TypeOK'
    BY <1>1, RetainUntilInt, SMT DEF Call, TypeOK, cacheVars
  <1>2. CASE AnswerReplay
    BY <1>2 DEF AnswerReplay, Answer, TypeOK, cacheVars, history
  <1>3. CASE RefuseAtCapacity
    BY <1>3, KeptType, RecountType, SMT DEF RefuseAtCapacity, Answer, TypeOK
  <1>4. CASE Insert
    <2>1. cur \in Request
      BY <1>4 DEF Insert, Control
    <2>2. entries' \in Content
      BY <1>4, <2>1, KeptType, RetainUntilInt DEF Insert, Content
    <2>. QED  BY <1>4, <2>2, RecountType DEF Insert, TypeOK
  <1>5. CASE WriteFails \/ DirSyncFails
    <2>1. entries' \in Content
      BY <1>5 DEF WriteFails, DirSyncFails, PersistFailed, Rollback, TypeOK, Content
    <2>. QED
      BY <1>5, <2>1, SMT DEF WriteFails, DirSyncFails, PersistFailed, Answer, TypeOK, history
  <1>6. CASE Rename
    BY <1>6 DEF Rename, TypeOK, history
  <1>7. CASE DirSync
    BY <1>7, SMT DEF DirSync, Answer, TypeOK
  <1>8. CASE Prune
    <2>1. entries' \in Content
      BY <1>8, RetainedType, SMT DEF Prune, TypeOK
    <2>. QED  BY <1>8, <2>1 DEF Prune, TypeOK
  <1>9. CASE Tick
    BY <1>9, SMT DEF Tick, TypeOK, cacheVars, history
  <1>10. CASE Crash \/ PowerLoss
    <2>1. file' \in Content /\ durable' \subseteq Content
      BY <1>10 DEF Crash, PowerLoss, TypeOK
    <2>2. Stopped
      BY <1>10 DEF Crash, PowerLoss
    <2>3. 0 \in 0 .. PruneEvery - 1
      BY SMT
    <2>. QED  BY <2>1, <2>2, <2>3, <1>e DEF Stopped, Answer, TypeOK
  <1>11. CASE Open
    BY <1>11 DEF Open, TypeOK, Present
  <1>12. CASE UNCHANGED vars
    BY <1>12 DEF vars, cacheVars, history, TypeOK
  <1>13. CASE Serve \/ Abandon
    BY <1>13, SMT DEF Serve, Abandon, TypeOK, cacheVars, history
  <1>. QED
    BY <1>1, <1>2, <1>3, <1>4, <1>5, <1>6, <1>7, <1>8, <1>9, <1>10, <1>11, <1>12, <1>13
    DEF Next, Step

(* Every step preserves the control and file parts.                         *)
LEMMA ControlStep == TypeOK /\ Control /\ FileInv /\ [Next]_vars => Control' /\ FileInv'
  <1>. SUFFICES ASSUME TypeOK, Control, FileInv, [Next]_vars
                PROVE  Control' /\ FileInv'
    OBVIOUS
  <1>. USE DEF Control, FileInv
  <1>1. ASSUME NEW r \in Request, Call(r) PROVE Control' /\ FileInv'
    BY <1>1 DEF Call, cacheVars, CheckFreshness, RetainUntil
  <1>2. CASE AnswerReplay \/ RefuseAtCapacity
    BY <1>2 DEF AnswerReplay, RefuseAtCapacity, Answer, cacheVars
  <1>3. CASE Insert \/ Rename
    BY <1>3 DEF Insert, Rename, RetainUntil
  <1>4. CASE WriteFails \/ DirSyncFails
    BY <1>4 DEF WriteFails, DirSyncFails, PersistFailed, Answer
  <1>5. CASE DirSync
    BY <1>5 DEF DirSync, Answer
  <1>6. CASE Prune
    BY <1>6 DEF Prune
  <1>7. CASE Tick
    BY <1>7 DEF Tick, cacheVars, RetainUntil
  <1>8. CASE Crash \/ PowerLoss
    BY <1>8 DEF Crash, PowerLoss, Stopped, Answer
  <1>9. CASE Open
    BY <1>9 DEF Open
  <1>10. CASE UNCHANGED vars
    BY <1>10 DEF vars, cacheVars, RetainUntil
  <1>13. CASE Serve \/ Abandon
    BY <1>13, SMT DEF Serve, Abandon, cacheVars
  <1>. QED
    BY <1>1, <1>2, <1>3, <1>4, <1>5, <1>6, <1>7, <1>8, <1>9, <1>10, <1>13 DEF Next, Step

(* A request in the replay check was never admitted, and no admitted        *)
(* request with its key can be fresh, unless its key is in memory.          *)
LEMMA CheckAbsent ==
    ASSUME TypeOK, Control, Remembered, pc = "check", entries[CurKey] = Absent
    PROVE  /\ admissions[cur] = 0
           /\ \A r \in Request :
                 KeyOf[r] = CurKey /\ admissions[r] > 0 => clock > RetainUntil(r)
  <1>1. cur \in Request /\ up
    BY DEF Control
  <1>2. ASSUME NEW r \in Request, KeyOf[r] = CurKey, admissions[r] > 0
        PROVE  r # cur /\ clock > RetainUntil(r)
    <2>1. ~(clock <= RetainUntil(r) \/ now <= RetainUntil(r))
      BY <1>1, <1>2, RetainUntilInt DEF Remembered
    <2>2. now <= RetainUntil(cur)
      BY DEF Control
    <2>. QED  BY <2>1, <2>2, RetainUntilInt, SMT DEF TypeOK
  <1>3. admissions[cur] = 0
    BY <1>1, <1>2, SMT DEF TypeOK, CurKey
  <1>. QED  BY <1>2, <1>3

(* Every step preserves the memory of admitted requests.                    *)
LEMMA SafetyStep == IInv /\ TypeOK' /\ [Next]_vars => AtMostOnce' /\ Remembered' /\ InFlight'
  <1>. SUFFICES ASSUME IInv, TypeOK', [Next]_vars
                PROVE  AtMostOnce' /\ Remembered' /\ InFlight'
    OBVIOUS
  <1>. USE DEF IInv
  <1>k. \A r \in Request : RetainUntil(r) \in Int /\ RetainUntil(r) # Absent /\ KeyOf[r] \in Key
    BY RetainUntilInt
  <1>1. ASSUME NEW r \in Request, Call(r) PROVE AtMostOnce' /\ Remembered' /\ InFlight'
    BY <1>1 DEF Call, cacheVars, AtMostOnce, Remembered, InFlight, RetainUntil
  <1>2. CASE AnswerReplay
    BY <1>2 DEF AnswerReplay, Answer, cacheVars, history, AtMostOnce, Remembered, InFlight
  <1>3. CASE RefuseAtCapacity
    BY <1>3, <1>k, KeptType DEF RefuseAtCapacity, Answer, AtMostOnce, Remembered, InFlight, TypeOK
  <1>4. CASE Insert
    <2>1. cur \in Request /\ up
      BY <1>4 DEF Insert, Control
    <2>2. /\ admissions[cur] = 0
          /\ \A r \in Request :
                KeyOf[r] = CurKey /\ admissions[r] > 0 => clock > RetainUntil(r)
      BY <1>4, CheckAbsent DEF Insert
    <2>3. entries' = [Kept EXCEPT ![CurKey] = RetainUntil(cur)] /\ CurKey \in Key
      BY <1>4, <2>1, <1>k DEF Insert, CurKey
    <2>4. entries'[CurKey] = RetainUntil(cur)
      BY <2>3, KeptType DEF Content
    <2>5. InFlight'
      BY <1>4, <2>2, <2>4 DEF Insert, InFlight, CurKey, RetainUntil
    <2>6. Remembered'
      <3>. SUFFICES ASSUME NEW r \in Request, admissions[r] > 0, clock <= RetainUntil(r)
                    PROVE  /\ entries'[KeyOf[r]] = RetainUntil(r)
                           /\ file[KeyOf[r]] = RetainUntil(r)
                           /\ \A c \in durable : c[KeyOf[r]] = RetainUntil(r)
        BY <1>4 DEF Insert, Remembered, RetainUntil
      <3>1. entries[KeyOf[r]] = RetainUntil(r) /\ KeyOf[r] # CurKey
        BY <2>1, <2>2, <1>k, SMT DEF Remembered, TypeOK
      <3>2. Kept[KeyOf[r]] = RetainUntil(r)
        BY <3>1, <1>k, KeptType DEF TypeOK
      <3>. QED  BY <3>1, <3>2, <2>3, KeptType, SMT DEF Remembered, Content
    <2>. QED  BY <1>4, <2>5, <2>6 DEF Insert, AtMostOnce
  <1>5. CASE WriteFails \/ DirSyncFails
    <2>1. AtMostOnce' /\ InFlight'
      BY <1>5 DEF WriteFails, DirSyncFails, PersistFailed, Answer, history, AtMostOnce, InFlight
    <2>2. Remembered'
      <3>. SUFFICES ASSUME NEW r \in Request, admissions[r] > 0, clock <= RetainUntil(r), up
                    PROVE  entries'[KeyOf[r]] = RetainUntil(r)
        BY <1>5 DEF WriteFails, DirSyncFails, PersistFailed, Answer, history, Remembered, RetainUntil
      <3>1. entries[KeyOf[r]] = RetainUntil(r)
        BY DEF Remembered
      <3>2. cur # NoRequest => KeyOf[r] # CurKey
        BY <1>5, <1>k, SMT DEF WriteFails, DirSyncFails, InFlight, TypeOK
      <3>3. entries' = IF cur = NoRequest THEN entries
                       ELSE [entries EXCEPT ![CurKey] = Absent]
        BY <1>5 DEF WriteFails, DirSyncFails, PersistFailed, Rollback
      <3>. QED  BY <3>1, <3>2, <3>3, <1>k DEF TypeOK, Content
    <2>. QED  BY <2>1, <2>2
  <1>6. CASE Rename
    BY <1>6 DEF Rename, history, AtMostOnce, Remembered, InFlight, Control, CurKey, RetainUntil
  <1>7. CASE DirSync
    <2>1. CASE cur = NoRequest
      BY <1>7, <2>1 DEF DirSync, Answer, AtMostOnce, Remembered, InFlight, FileInv, RetainUntil
    <2>2. CASE cur # NoRequest
      <3>1. cur \in Request /\ admissions[cur] = 0 /\ entries[KeyOf[cur]] = RetainUntil(cur)
        BY <1>7, <2>2 DEF DirSync, InFlight, TypeOK, CurKey
      <3>2. admissions' = [admissions EXCEPT ![cur] = 1]
        BY <1>7, <2>2, <3>1, SMT DEF DirSync
      <3>3. AtMostOnce'
        BY <3>1, <3>2, SMT DEF AtMostOnce, TypeOK
      <3>4. Remembered'
        <4>. SUFFICES ASSUME NEW r \in Request, admissions'[r] > 0, clock <= RetainUntil(r)
                      PROVE  entries[KeyOf[r]] = RetainUntil(r) /\ file = entries
          BY <1>7 DEF DirSync, Answer, Remembered, RetainUntil
        <4>. QED
          BY <1>7, <3>1, <3>2 DEF DirSync, Remembered, FileInv, Control, TypeOK
      <3>. QED  BY <1>7, <3>3, <3>4 DEF DirSync, Answer, InFlight
    <2>. QED  BY <2>1, <2>2
  <1>8. CASE Prune
    <2>1. cur = NoRequest /\ entries' = Retained(entries, clock)
      BY <1>8 DEF Prune, Control
    <2>2. Remembered'
      <3>. SUFFICES ASSUME NEW r \in Request, admissions[r] > 0, clock <= RetainUntil(r)
                    PROVE  up => entries'[KeyOf[r]] = RetainUntil(r)
        BY <1>8 DEF Prune, Remembered, RetainUntil
      <3>1. up => entries[KeyOf[r]] = RetainUntil(r)
        BY DEF Remembered
      <3>2. entries \in Content /\ clock \in Int
        BY SMT DEF TypeOK
      <3>. QED  BY <2>1, <3>1, <3>2, <1>k, RetainedType
    <2>. QED  BY <1>8, <2>1, <2>2 DEF Prune, AtMostOnce, InFlight
  <1>9. CASE Tick
    <2>1. clock' > clock
      BY <1>9, SMT DEF Tick, TypeOK
    <2>2. AtMostOnce' /\ InFlight'
      BY <1>9, <2>1, <1>k, SMT DEF Tick, cacheVars, history, AtMostOnce, InFlight, TypeOK, CurKey, RetainUntil
    <2>3. Remembered'
      BY <1>9, <2>1, <1>k, SMT DEF Tick, cacheVars, history, Remembered, TypeOK, RetainUntil
    <2>. QED  BY <2>2, <2>3
  <1>10. CASE Crash \/ PowerLoss
    BY <1>10 DEF Crash, PowerLoss, Stopped, Answer, AtMostOnce, Remembered, InFlight, RetainUntil, FileInv
  <1>11. CASE Open
    BY <1>11 DEF Open, AtMostOnce, Remembered, InFlight, RetainUntil, Control
  <1>12. CASE UNCHANGED vars
    BY <1>12 DEF vars, cacheVars, history, AtMostOnce, Remembered, InFlight, RetainUntil, CurKey
  <1>13. CASE Serve \/ Abandon
    BY <1>13, SMT DEF Serve, Abandon, cacheVars, history, AtMostOnce, Remembered, InFlight, RetainUntil,
                      CurKey
  <1>. QED
    BY <1>1, <1>2, <1>3, <1>4, <1>5, <1>6, <1>7, <1>8, <1>9, <1>10, <1>11, <1>12, <1>13
    DEF Next, Step

(* The inductive invariant holds in every reachable state.                  *)
THEOREM Invariance == Spec => []IInv
  <1>1. Init => IInv
    BY InitInv
  <1>2. IInv /\ [Next]_vars => IInv'
    BY TypeStep, ControlStep, SafetyStep DEF IInv
  <1>. QED  BY <1>1, <1>2, PTL DEF Spec

(* The variables keep their types.                                          *)
THEOREM TypeCorrect == Spec => []TypeOK
  <1>1. IInv => TypeOK
    BY DEF IInv
  <1>. QED  BY <1>1, Invariance, PTL

(* No request is answered "fresh" twice, whatever fails between.            *)
THEOREM FreshAtMostOnce == Spec => []AtMostOnce
  <1>1. IInv => AtMostOnce
    BY DEF IInv
  <1>. QED  BY <1>1, Invariance, PTL

(* An admitted request is remembered, in memory and on disk, for as long    *)
(* as the freshness check could let it pass again.                          *)
THEOREM AdmittedRemembered == Spec => []Remembered
  <1>1. IInv => Remembered
    BY DEF IInv
  <1>. QED  BY <1>1, Invariance, PTL

-----------------------------------------------------------------------------
(* "replay" only for a key presented before, and the trait's contract.      *)

(* Every key in memory, in the file or in a survivor was presented; the one *)
(* being checked, if memory holds it, was presented before this call too.   *)
Presented ==
    /\ \A k \in Key : entries[k] # Absent => calls[k] > 0
    /\ \A c \in durable : \A k \in Key : c[k] # Absent => calls[k] > 0
    /\ cur # NoRequest => calls[CurKey] > 0
    /\ pc = "check" /\ entries[CurKey] # Absent => calls[CurKey] = 2

(* At the first start no key has been presented.                           *)
LEMMA PresentedInit == Init => Presented
  BY DEF Init, Presented, Empty

(* Every step keeps each stored key a presented one, so a "replay" answer  *)
(* always follows an earlier presentation.                                 *)
LEMMA PresentedStep == IInv /\ Presented /\ TypeOK' /\ [Next]_vars => Presented'
  <1>. SUFFICES ASSUME IInv, Presented, TypeOK', [Next]_vars PROVE Presented'
    OBVIOUS
  <1>. USE DurableAssumption, RequestAssumption DEF IInv, Presented
  <1>k. cur \in Request => CurKey \in Key
    BY RetainUntilInt DEF CurKey
  <1>1. ASSUME NEW r \in Request, Call(r) PROVE Presented'
    <2>1. \A k \in Key : calls'[k] >= calls[k] /\ (k = KeyOf[r] => calls'[k] > 0)
      BY <1>1, SMT DEF Call, TypeOK
    <2>2. entries[KeyOf[r]] # Absent => calls'[KeyOf[r]] = 2
      BY <1>1, RetainUntilInt, SMT DEF Call, TypeOK
    <2>. QED
      BY <1>1, <2>1, <2>2, RetainUntilInt DEF Call, TypeOK, CurKey, cacheVars
  <1>2. CASE AnswerReplay
    BY <1>2 DEF AnswerReplay, Answer, cacheVars, history
  <1>3. CASE RefuseAtCapacity
    BY <1>3, KeptType DEF RefuseAtCapacity, Answer
  <1>4. CASE Insert
    BY <1>4, <1>k, KeptType DEF Insert, Control, CurKey, Content
  <1>5. CASE WriteFails \/ DirSyncFails
    <2>1. \A k \in Key : entries'[k] # Absent => entries[k] # Absent
      BY <1>5 DEF WriteFails, DirSyncFails, PersistFailed, Rollback, TypeOK, Content
    <2>. QED
      BY <1>5, <2>1 DEF WriteFails, DirSyncFails, PersistFailed, Answer, history
  <1>6. CASE Rename
    BY <1>6 DEF Rename, history, CurKey
  <1>7. CASE DirSync
    BY <1>7 DEF DirSync, Answer, FileInv
  <1>8. CASE Prune
    <2>1. \A k \in Key : entries'[k] \in {entries[k], Absent}
      <3>1. entries \in Content /\ clock \in Int /\ entries' = Retained(entries, clock)
        BY <1>8, SMT DEF Prune, TypeOK
      <3>. QED  BY <3>1, RetainedType
    <2>. QED  BY <1>8, <2>1 DEF Prune, Control
  <1>9. CASE Tick
    BY <1>9 DEF Tick, cacheVars, history, CurKey
  <1>10. CASE Crash \/ PowerLoss
    BY <1>10 DEF Crash, PowerLoss, Stopped, Answer, Empty
  <1>11. CASE Open
    BY <1>11 DEF Open, Control, FileInv
  <1>12. CASE UNCHANGED vars
    BY <1>12 DEF vars, cacheVars, history, CurKey
  <1>13. CASE Serve \/ Abandon
    BY <1>13 DEF Serve, Abandon, cacheVars, history, Control
  <1>. QED
    BY <1>1, <1>2, <1>3, <1>4, <1>5, <1>6, <1>7, <1>8, <1>9, <1>10, <1>11, <1>12, <1>13
    DEF Next, Step

(* Each step of the cache is a step of the contract, or leaves the          *)
(* contract's variables alone.                                              *)
LEMMA ContractStep ==
    IInv /\ Presented /\ [Next]_vars => [Contract!Next]_(Contract!vars)
  <1>. SUFFICES ASSUME IInv, Presented, Next PROVE Contract!Next \/ UNCHANGED Contract!vars
    BY DEF vars, history, Contract!vars
  <1>. USE RequestAssumption
  <1>p. cur # NoRequest => cur \in Request
    BY DEF IInv, TypeOK
  <1>1. ASSUME NEW r \in Request, Call(r) PROVE Contract!Call("proxy", r)
    BY <1>1 DEF Call, Contract!Call, IInv, Control
  <1>2. CASE AnswerReplay
    <2>1. cur # NoRequest /\ calls[KeyOf[cur]] = 2
      BY <1>2 DEF AnswerReplay, IInv, Control, Presented, CurKey
    <2>. QED
      BY <1>2, <2>1 DEF AnswerReplay, Answer, history, Contract!AnswerReplay, Contract!Return, Contract!Next
  <1>3. CASE RefuseAtCapacity
    <2>1. cur # NoRequest
      BY <1>3 DEF RefuseAtCapacity, IInv, Control
    <2>. QED
      BY <1>3, <2>1 DEF RefuseAtCapacity, Answer, Contract!AnswerUnavailable, Contract!Return, Contract!Next
  <1>4. CASE Insert \/ Rename \/ Prune \/ Tick \/ Open \/ Serve \/ Abandon
    BY <1>4 DEF Insert, Rename, Prune, Tick, Open, Serve, Abandon, history, Contract!vars
  <1>5. CASE WriteFails \/ DirSyncFails
    BY <1>5 DEF WriteFails, DirSyncFails, PersistFailed, Answer, history,
                Contract!AnswerUnavailable, Contract!Return, Contract!Next, Contract!vars
  <1>6. CASE DirSync
    <2>1. CASE cur = NoRequest
      BY <1>6, <2>1 DEF DirSync, Answer, Contract!vars
    <2>2. CASE cur # NoRequest
      <3>1. admissions[cur] = 0 /\ cur \in Request
        BY <1>6, <2>2, <1>p DEF DirSync, IInv, InFlight
      <3>2. admissions' = [admissions EXCEPT ![cur] = 1]
        BY <1>6, <2>2, <3>1, SMT DEF DirSync
      <3>3. cur' = NoRequest /\ verdict' = "fresh" /\ calls' = calls
        BY <1>6, <2>2 DEF DirSync, Answer
      <3>4. Contract!AnswerFresh("proxy")
        BY <2>2, <3>1, <3>2, <3>3 DEF Contract!AnswerFresh, Contract!Return
      <3>. QED  BY <3>4 DEF Contract!Next
    <2>. QED  BY <2>1, <2>2
  <1>7. CASE Crash \/ PowerLoss
    BY <1>7 DEF Crash, PowerLoss, Stopped, Answer, Contract!Abort, Contract!Next
  <1>. QED
    BY <1>1, <1>2, <1>3, <1>4, <1>5, <1>6, <1>7 DEF Next, Step, Contract!Next

(* The durable cache implements the contract of the ReplayCache trait.      *)
THEOREM ImplementsContract == Spec => KeepsContract
  <1>1. Init => Contract!Init
    BY DEF Init, Contract!Init
  <1>2. IInv /\ Presented /\ [Next]_vars => Presented'
    BY PresentedStep, TypeStep DEF IInv
  <1>. QED
    BY <1>1, <1>2, PresentedInit, ContractStep, Invariance, PTL
    DEF Spec, KeepsContract, Contract!Spec

-----------------------------------------------------------------------------
(* A refused or failed insert leaves nothing behind.                        *)

(* Every key in memory was read at open, belongs to an admitted request, or *)
(* is the one being written.                                                *)
Traced == \A k \in Present(entries) \ loaded :
    \/ \E r \in Request : KeyOf[r] = k /\ admissions[r] > 0
    \/ pc \in {"persist", "dirsync"} /\ cur # NoRequest /\ k = CurKey

(* At the first start memory is empty.                                     *)
LEMMA TracedInit == Init => Traced
  BY DEF Init, Traced, Present, Empty

(* Every step keeps each key in memory accounted for: read at open,        *)
(* admitted, or of the insert in progress.                                 *)
LEMMA TracedStep == IInv /\ Traced /\ [Next]_vars => Traced'
  <1>. SUFFICES ASSUME IInv, Traced, [Next]_vars PROVE Traced'
    OBVIOUS
  <1>. USE DEF IInv, Traced, Present
  <1>1. ASSUME NEW r \in Request, Call(r) PROVE Traced'
    BY <1>1 DEF Call, cacheVars
  <1>2. CASE AnswerReplay
    BY <1>2 DEF AnswerReplay, cacheVars, history
  <1>3. CASE RefuseAtCapacity
    BY <1>3, KeptType DEF RefuseAtCapacity
  <1>4. CASE Insert
    <2>1. CurKey' = CurKey /\ cur # NoRequest
      BY <1>4, RequestAssumption DEF Insert, CurKey, Control
    <2>2. \A k \in Key : k # CurKey => entries'[k] \in {entries[k], Absent}
      BY <1>4, KeptType DEF Insert, Content
    <2>. QED  BY <1>4, <2>1, <2>2 DEF Insert
  <1>5. CASE WriteFails \/ DirSyncFails
    <2>1. \A k \in Key :
             entries'[k] # Absent => entries[k] # Absent /\ (cur # NoRequest => k # CurKey)
      BY <1>5 DEF WriteFails, DirSyncFails, PersistFailed, Rollback, TypeOK, Content
    <2>. QED
      BY <1>5, <2>1 DEF WriteFails, DirSyncFails, PersistFailed, Answer, history
  <1>6. CASE Rename
    BY <1>6 DEF Rename, history, CurKey
  <1>7. CASE DirSync
    <2>1. CASE cur = NoRequest
      BY <1>7, <2>1 DEF DirSync, Answer
    <2>2. CASE cur # NoRequest
      <3>1. cur \in Request /\ admissions'[cur] > 0
        BY <1>7, <2>2, SMT DEF DirSync, TypeOK
      <3>2. \A r \in Request : admissions[r] > 0 => admissions'[r] > 0
        BY <1>7, <3>1 DEF DirSync, TypeOK
      <3>. QED  BY <1>7, <3>1, <3>2 DEF DirSync, Answer, CurKey
    <2>. QED  BY <2>1, <2>2
  <1>8. CASE Prune
    <2>1. \A k \in Key : entries'[k] \in {entries[k], Absent}
      <3>1. entries \in Content /\ clock \in Int /\ entries' = Retained(entries, clock)
        BY <1>8, SMT DEF Prune, TypeOK
      <3>. QED  BY <3>1, RetainedType
    <2>. QED  BY <1>8, <2>1 DEF Prune
  <1>9. CASE Tick
    BY <1>9 DEF Tick, cacheVars, history, CurKey
  <1>10. CASE Crash \/ PowerLoss
    BY <1>10 DEF Crash, PowerLoss, Stopped, Empty
  <1>11. CASE Open
    BY <1>11 DEF Open
  <1>12. CASE UNCHANGED vars
    BY <1>12 DEF vars, cacheVars, history, CurKey
  <1>13. CASE Serve \/ Abandon
    BY <1>13 DEF Serve, Abandon, cacheVars, history
  <1>. QED
    BY <1>1, <1>2, <1>3, <1>4, <1>5, <1>6, <1>7, <1>8, <1>9, <1>10, <1>11, <1>12, <1>13
    DEF Next, Step

(* Between operations memory holds only keys read at open and keys of       *)
(* admitted requests, so a request whose insert failed can be retried.      *)
THEOREM FailedInsertLeavesNoTrace == Spec => []RefusalLeavesNoTrace
  <1>1. Traced => RefusalLeavesNoTrace
    BY DEF Traced, RefusalLeavesNoTrace
  <1>. QED  BY <1>1, TracedInit, TracedStep, Invariance, PTL DEF Spec

-----------------------------------------------------------------------------
(* The ceiling drains.                                                      *)

(* No map exceeds the ceiling, and every refusal that an eviction would     *)
(* have avoided has been counted toward the next eviction.                  *)
Bounded ==
    /\ Size(entries) <= MaxEntries
    /\ \A c \in durable : Size(c) <= MaxEntries
    /\ stuck <= inserts

(* The number of entries of a map with fewer keys, and with one more.       *)
LEMMA SizeSubset ==
    ASSUME NEW m, NEW n, Present(n) \subseteq Present(m)
    PROVE  /\ Size(m) \in Nat /\ Size(n) \in Nat
           /\ Size(n) <= Size(m)
           /\ Size(n) = Size(m) => Present(n) = Present(m)
  <1>1. IsFiniteSet(Present(m))
    <2>1. Present(m) \subseteq Key
      BY DEF Present
    <2>. QED  BY <2>1, FS_Subset, DurableAssumption
  <1>2. /\ IsFiniteSet(Present(n))
        /\ Cardinality(Present(n)) <= Cardinality(Present(m))
        /\ Cardinality(Present(m)) = Cardinality(Present(n)) => Present(m) = Present(n)
    BY <1>1, FS_Subset
  <1>3. Cardinality(Present(m)) \in Nat /\ Cardinality(Present(n)) \in Nat
    BY <1>1, <1>2, FS_CardinalityType
  <1>. QED  BY <1>2, <1>3 DEF Size

(* Inserting one key makes the map larger by at most one.                  *)
LEMMA SizeInsert ==
    ASSUME NEW m \in Content, NEW k \in Key, NEW v \in Int
    PROVE  Size(m) \in Nat /\ Size([m EXCEPT ![k] = v]) <= Size(m) + 1
  <1>1. Present([m EXCEPT ![k] = v]) = Present(m) \cup {k}
    BY DurableAssumption DEF Present, Content
  <1>2. IsFiniteSet(Present(m))
    <2>1. Present(m) \subseteq Key
      BY DEF Present
    <2>. QED  BY <2>1, FS_Subset, DurableAssumption
  <1>3. Cardinality(Present(m)) \in Nat
    BY <1>2, FS_CardinalityType
  <1>4. Cardinality(Present(m) \cup {k}) =
           IF k \in Present(m) THEN Cardinality(Present(m)) ELSE Cardinality(Present(m)) + 1
    BY <1>2, FS_AddElement
  <1>5. Size([m EXCEPT ![k] = v]) = Cardinality(Present(m) \cup {k})
    BY <1>1 DEF Size
  <1>. QED  BY <1>3, <1>4, <1>5, SMT DEF Size

(* Eviction from a map that stays as large as it was changes nothing.       *)
LEMMA RetainedSize ==
    ASSUME NEW m \in Content, NEW t \in Int
    PROVE  /\ Size(m) \in Nat /\ Size(Retained(m, t)) \in Nat
           /\ Size(Retained(m, t)) <= Size(m)
           /\ Size(Retained(m, t)) = Size(m) => Retained(m, t) = m
  <1>1. Present(Retained(m, t)) \subseteq Present(m)
    BY RetainedType DEF Present
  <1>2. Present(Retained(m, t)) = Present(m) => Retained(m, t) = m
    BY DEF Present, Retained, Content
  <1>. QED  BY <1>1, <1>2, SizeSubset

(* The inline prune does not make the map larger.                          *)
LEMMA KeptSize ==
    ASSUME TypeOK
    PROVE  Size(entries) \in Nat /\ Size(Kept) \in Nat /\ Size(Kept) <= Size(entries)
  <1>1. Present(Kept) \subseteq Present(entries)
    BY KeptType DEF Present
  <1>. QED  BY <1>1, SizeSubset

(* The empty map has no entries.                                           *)
LEMMA EmptySize == Size(Empty) = 0
  BY FS_EmptySet DEF Size, Present, Empty

(* At the first start nothing has been refused.                            *)
LEMMA BoundedInit == Init => Bounded
  BY EmptySize, DurableAssumption, SMT DEF Init, Bounded

(* Every step keeps the run of avoidable refusals within the count of      *)
(* attempts since the last prune.                                          *)
LEMMA BoundedStep == IInv /\ Bounded /\ TypeOK' /\ [Next]_vars => Bounded'
  <1>. SUFFICES ASSUME IInv, Bounded, TypeOK', [Next]_vars PROVE Bounded'
    OBVIOUS
  <1>. USE DurableAssumption DEF IInv, Bounded
  <1>1. ASSUME NEW r \in Request, Call(r) PROVE Bounded'
    BY <1>1 DEF Call, cacheVars
  <1>2. CASE AnswerReplay
    BY <1>2 DEF AnswerReplay, cacheVars, history
  <1>3. CASE RefuseAtCapacity
    <2>1. Size(Kept) >= MaxEntries /\ entries' = Kept /\ Recount
      BY <1>3 DEF RefuseAtCapacity
    <2>2. Size(entries') <= MaxEntries
      BY <2>1, KeptSize, SMT
    <2>3. CASE PruneDue
      <3>1. Kept = Retained(entries, clock) /\ Size(Kept) = Size(entries)
        BY <2>1, <2>3, KeptSize, SMT DEF Kept
      <3>2. Retained(entries, clock) = entries
        <4>1. entries \in Content /\ clock \in Int
          BY SMT DEF TypeOK
        <4>. QED  BY <3>1, <4>1, RetainedSize
      <3>3. stuck' = 0
        BY <1>3, <3>2 DEF RefuseAtCapacity
      <3>. QED  BY <1>3, <2>2, <3>3, SMT DEF RefuseAtCapacity, TypeOK
    <2>4. CASE ~PruneDue
      <3>1. inserts' = inserts + 1
        BY <2>1, <2>4 DEF Recount, Counted
      <3>2. stuck' <= stuck + 1
        BY <1>3, SMT DEF RefuseAtCapacity, TypeOK
      <3>. QED  BY <1>3, <2>2, <3>1, <3>2, SMT DEF RefuseAtCapacity, TypeOK
    <2>. QED  BY <2>3, <2>4
  <1>4. CASE Insert
    <2>1. /\ cur \in Request /\ Size(Kept) < MaxEntries
          /\ entries' = [Kept EXCEPT ![CurKey] = RetainUntil(cur)]
      BY <1>4 DEF Insert, Control
    <2>2. Kept \in Content /\ CurKey \in Key /\ RetainUntil(cur) \in Int
      BY <2>1, KeptType, RetainUntilInt DEF CurKey
    <2>3. Size(entries') <= Size(Kept) + 1 /\ Size(Kept) \in Nat
      BY <2>1, <2>2, SizeInsert
    <2>4. Size(entries') \in Nat
      BY SizeSubset
    <2>5. Size(entries') <= MaxEntries
      BY <2>1, <2>3, <2>4, SMT
    <2>. QED  BY <1>4, <2>5, SMT DEF Insert, TypeOK
  <1>5. CASE WriteFails \/ DirSyncFails
    <2>1. Present(entries') \subseteq Present(entries)
      BY <1>5 DEF WriteFails, DirSyncFails, PersistFailed, Rollback, TypeOK, Content, Present
    <2>2. Size(entries') <= MaxEntries
      BY <2>1, SizeSubset, SMT
    <2>. QED
      BY <1>5, <2>2 DEF WriteFails, DirSyncFails, PersistFailed, history
  <1>6. CASE Rename
    BY <1>6 DEF Rename, history
  <1>7. CASE DirSync
    BY <1>7 DEF DirSync, FileInv
  <1>8. CASE Prune
    <2>1. Size(entries') <= MaxEntries
      <3>1. entries \in Content /\ clock \in Int /\ entries' = Retained(entries, clock)
        BY <1>8, SMT DEF Prune, TypeOK
      <3>. QED  BY <3>1, RetainedSize, SMT
    <2>. QED  BY <1>8, <2>1, SMT DEF Prune, TypeOK
  <1>9. CASE Tick
    BY <1>9 DEF Tick, cacheVars, history
  <1>10. CASE Crash \/ PowerLoss
    BY <1>10, EmptySize, SMT DEF Crash, PowerLoss, Stopped
  <1>11. CASE Open
    BY <1>11 DEF Open, FileInv
  <1>12. CASE UNCHANGED vars
    BY <1>12 DEF vars, cacheVars, history
  <1>13. CASE Serve \/ Abandon
    BY <1>13 DEF Serve, Abandon, cacheVars, history
  <1>. QED
    BY <1>1, <1>2, <1>3, <1>4, <1>5, <1>6, <1>7, <1>8, <1>9, <1>10, <1>11, <1>12, <1>13
    DEF Next, Step

(* A full cache that holds an expired entry evicts it within PruneEvery     *)
(* refused calls.                                                           *)
THEOREM CeilingDrains == Spec => []CapacityDrains
  <1>1. IInv /\ Bounded => CapacityDrains
    BY DurableAssumption, SMT DEF IInv, TypeOK, Bounded, CapacityDrains
  <1>2. IInv /\ Bounded /\ [Next]_vars => Bounded'
    BY BoundedStep, TypeStep DEF IInv
  <1>. QED  BY <1>1, <1>2, BoundedInit, Invariance, PTL DEF Spec

-----------------------------------------------------------------------------
(* The proxy.                                                               *)

(* The stages between the replay check and the dispatch.                    *)
Gates == {"policy", "assertion", "binding", "forward"}

(* Where the cache stands while a message is at each stage.                 *)
Handling ==
    /\ stage \in Stage
    /\ config \in Config
    /\ dispatched \in [Request -> Nat]
    /\ stage # "idle" => msg \in Msg
    /\ stage \in {"structure", "resolve"} => pc = "serve"
    /\ stage = "replay" => cur = RequestOf[msg] /\ pc \in {"check", "persist", "dirsync"}
    /\ stage \notin {"structure", "resolve", "replay"} => pc = "idle"

(* A request passes the gates with an admission it has not used yet.        *)
Admitted ==
    /\ \A r \in Request : dispatched[r] <= admissions[r]
    /\ stage \in Gates => dispatched[RequestOf[msg]] < admissions[RequestOf[msg]]

(* The key k belongs to a message that is well formed and signed.           *)
Authentic(k) == \E m \in Signed : WellFormed(m) /\ KeyOf[RequestOf[m]] = k

(* Every key in memory and in every content of the file is an authentic     *)
(* message's, and so is the one on its way there.                           *)
Vouched ==
    /\ stage = "resolve" => WellFormed(msg)
    /\ cur # NoRequest => Authentic(CurKey)
    /\ \A k \in Present(entries) : Authentic(k)
    /\ \A c \in durable : \A k \in Present(c) : Authentic(k)

ProxyInv == IInv /\ Handling /\ Admitted /\ Vouched

(* The request a message claims is one of the requests.                     *)
LEMMA RequestOfType == \A m \in Msg : RequestOf[m] \in Request /\ RequestOf[m] # NoRequest
  BY ProxyAssumption, RequestAssumption

(* Every step of the proxy is, to the cache, one of the cache's own steps.  *)
LEMMA ProxyStepIsCacheStep == Handling /\ [ProxyNext]_proxyVars => [Next]_vars
  <1>. SUFFICES ASSUME Handling, [ProxyNext]_proxyVars PROVE [Next]_vars
    OBVIOUS
  <1>1. ASSUME NEW m \in Msg, Receive(m) PROVE Next
    BY <1>1 DEF Receive, Next
  <1>2. CASE Structure
    BY <1>2 DEF Structure, Next
  <1>3. CASE ResolveAndVerify
    <2>1. RequestOf[msg] \in Request
      BY <1>3, RequestOfType DEF ResolveAndVerify, Handling
    <2>. QED  BY <1>3, <2>1 DEF ResolveAndVerify, Next
  <1>4. CASE ReplayCheck
    BY <1>4 DEF ReplayCheck, Next
  <1>5. CASE Policy \/ Assertion \/ Binding \/ Forward \/ Dispatch \/ Sign \/ Revoke
    BY <1>5 DEF Policy, Assertion, Binding, Gate, Forward, Dispatch, Sign, Revoke
  <1>6. CASE SignPanics \/ Time \/ Death \/ Restart
    BY <1>6 DEF SignPanics, Time, Death, Restart, Next
  <1>7. CASE UNCHANGED proxyVars
    BY <1>7 DEF proxyVars
  <1>. QED
    BY <1>1, <1>2, <1>3, <1>4, <1>5, <1>6, <1>7 DEF ProxyNext, Handle

(* A step of check_and_insert either leaves the call in progress, or ends   *)
(* it; it ends it with "fresh" exactly when it adds an admission.           *)
LEMMA ReplayStep ==
    ASSUME IInv, Step, cur # NoRequest
    PROVE  /\ \/ pc' \in {"check", "persist", "dirsync"} /\ cur' = cur /\ admissions' = admissions
              \/ pc' = "idle" /\ verdict' # "fresh" /\ admissions' = admissions
              \/ /\ pc' = "idle" /\ verdict' = "fresh"
                 /\ admissions' = [admissions EXCEPT ![cur] = @ + 1]
           /\ pc' = "idle" => cur' = NoRequest
  <1>1. CASE AnswerReplay
    BY <1>1 DEF AnswerReplay, Answer, history
  <1>2. CASE RefuseAtCapacity
    BY <1>2 DEF RefuseAtCapacity, Answer
  <1>3. CASE Insert \/ Rename
    BY <1>3 DEF Insert, Rename, history
  <1>4. CASE WriteFails \/ DirSyncFails
    BY <1>4 DEF WriteFails, DirSyncFails, PersistFailed, Answer, history
  <1>5. CASE DirSync
    BY <1>5 DEF DirSync, Answer
  <1>. QED  BY <1>1, <1>2, <1>3, <1>4, <1>5 DEF Step

(* Every step keeps the stage and the cache together.                       *)
LEMMA HandlingStep == IInv /\ Handling /\ [ProxyNext]_proxyVars => Handling'
  <1>. SUFFICES ASSUME IInv, Handling, [ProxyNext]_proxyVars PROVE Handling'
    OBVIOUS
  <1>. USE DEF Handling, Stage
  <1>1. ASSUME NEW m \in Msg, Receive(m) PROVE Handling'
    BY <1>1 DEF Receive, Serve
  <1>2. CASE Structure
    BY <1>2 DEF Structure, Goto, Reply, Abandon, vars
  <1>3. CASE ResolveAndVerify
    BY <1>3 DEF ResolveAndVerify, Goto, Reply, Abandon, Call
  <1>4. CASE ReplayCheck
    <2>1. cur # NoRequest
      BY <1>4, RequestOfType DEF ReplayCheck
    <2>. QED  BY <1>4, <2>1, ReplayStep DEF ReplayCheck, Goto, Reply
  <1>5. CASE Policy \/ Assertion \/ Binding
    BY <1>5 DEF Policy, Assertion, Binding, Gate, Goto, Reply, vars
  <1>6. CASE Forward
    <2>1. RequestOf[msg] \in Request
      BY <1>6, RequestOfType DEF Forward
    <2>2. dispatched' \in [Request -> Nat]
      BY <1>6, <2>1, SMT DEF Forward
    <2>. QED  BY <1>6, <2>2 DEF Forward, vars
  <1>7. CASE Dispatch \/ Sign
    BY <1>7 DEF Dispatch, Sign, Reply, vars
  <1>8. CASE SignPanics \/ Death
    BY <1>8 DEF SignPanics, Death, Crash, PowerLoss, Stopped, Answer
  <1>9. CASE Revoke \/ Time \/ Restart
    BY <1>9 DEF Revoke, Time, Restart, Tick, Open, vars, handling
  <1>10. CASE UNCHANGED proxyVars
    BY <1>10 DEF proxyVars, vars, handling
  <1>. QED
    BY <1>1, <1>2, <1>3, <1>4, <1>5, <1>6, <1>7, <1>8, <1>9, <1>10 DEF ProxyNext, Handle

(* Every step keeps dispatches within admissions.                           *)
LEMMA AdmittedStep == IInv /\ Handling /\ Admitted /\ [ProxyNext]_proxyVars => Admitted'
  <1>. SUFFICES ASSUME IInv, Handling, Admitted, [ProxyNext]_proxyVars PROVE Admitted'
    OBVIOUS
  <1>. USE DEF Admitted, Gates
  <1>1. ASSUME NEW m \in Msg, Receive(m) PROVE Admitted'
    BY <1>1 DEF Receive, Serve, history
  <1>2. CASE Structure
    BY <1>2 DEF Structure, Goto, Reply, Abandon, vars, history
  <1>3. CASE ResolveAndVerify
    BY <1>3 DEF ResolveAndVerify, Goto, Reply, Abandon, Call, history
  <1>4. CASE ReplayCheck
    <2>1. cur # NoRequest /\ cur = RequestOf[msg] /\ cur \in Request
      BY <1>4, RequestOfType DEF ReplayCheck, Handling
    <2>2. dispatched' = dispatched
      BY <1>4 DEF ReplayCheck, Goto, Reply
    <2>3. CASE admissions' = admissions /\ ~(pc' = "idle" /\ verdict' = "fresh")
      BY <1>4, <2>2, <2>3 DEF ReplayCheck, Goto, Reply
    <2>4. CASE pc' = "idle" /\ verdict' = "fresh" /\ admissions' = [admissions EXCEPT ![cur] = @ + 1]
      <3>1. \A r \in Request : dispatched[r] \in Nat /\ admissions[r] \in Nat
        BY DEF Handling, IInv, TypeOK
      <3>2. \A r \in Request : admissions'[r] = IF r = cur THEN admissions[r] + 1 ELSE admissions[r]
        BY <2>4 DEF IInv, TypeOK
      <3>3. msg' = msg
        BY <1>4, <2>4 DEF ReplayCheck, Goto
      <3>. QED  BY <2>1, <2>2, <3>1, <3>2, <3>3, SMT
    <2>. QED  BY <1>4, <2>1, <2>3, <2>4, ReplayStep DEF ReplayCheck
  <1>5. CASE Policy \/ Assertion \/ Binding
    BY <1>5 DEF Policy, Assertion, Binding, Gate, Goto, Reply, vars, history
  <1>6. CASE Forward
    <2>1. RequestOf[msg] \in Request /\ dispatched[RequestOf[msg]] < admissions[RequestOf[msg]]
      BY <1>6, RequestOfType DEF Forward, Handling
    <2>2. \A r \in Request : dispatched[r] \in Nat /\ admissions[r] \in Nat
      BY DEF Handling, IInv, TypeOK
    <2>3. \A r \in Request : dispatched'[r] = IF r = RequestOf[msg] THEN dispatched[r] + 1 ELSE dispatched[r]
      BY <1>6 DEF Forward, Handling
    <2>. QED  BY <1>6, <2>1, <2>2, <2>3, SMT DEF Forward, vars, history
  <1>7. CASE Dispatch \/ Sign
    BY <1>7 DEF Dispatch, Sign, Reply, vars, history
  <1>8. CASE SignPanics \/ Death
    BY <1>8 DEF SignPanics, Death, Crash, PowerLoss, Stopped
  <1>9. CASE Revoke \/ Time \/ Restart
    BY <1>9 DEF Revoke, Time, Restart, Tick, Open, vars, handling, history
  <1>10. CASE UNCHANGED proxyVars
    BY <1>10 DEF proxyVars, vars, handling, history
  <1>. QED
    BY <1>1, <1>2, <1>3, <1>4, <1>5, <1>6, <1>7, <1>8, <1>9, <1>10 DEF ProxyNext, Handle

(* Where the keys that the cache holds after a step come from: from memory, *)
(* from the request in progress, or from a content of the file.             *)
LEMMA KeyOrigin ==
    ASSUME IInv, [Next]_vars
    PROVE  /\ \A k \in Present(entries') :
                 \/ k \in Present(entries)
                 \/ cur # NoRequest /\ k = CurKey
                 \/ \E c \in durable : k \in Present(c)
           /\ \A c \in durable' : c \in durable \/ c = entries
  <1>. USE DEF Present
  <1>1. ASSUME NEW r \in Request, Call(r)
        PROVE  entries' = entries /\ durable' = durable
    BY <1>1 DEF Call, cacheVars
  <1>2. CASE AnswerReplay \/ Serve \/ Abandon \/ Tick
    BY <1>2 DEF AnswerReplay, Serve, Abandon, Tick, cacheVars
  <1>3. CASE RefuseAtCapacity
    BY <1>3, KeptType DEF RefuseAtCapacity, IInv
  <1>4. CASE Insert
    <2>1. cur # NoRequest
      BY <1>4, RequestAssumption DEF Insert, IInv, Control
    <2>2. \A k \in Key : k # CurKey => entries'[k] \in {entries[k], Absent}
      BY <1>4, KeptType DEF Insert, Content, IInv
    <2>. QED  BY <1>4, <2>1, <2>2 DEF Insert
  <1>5. CASE WriteFails \/ DirSyncFails
    <2>1. \A k \in Key : entries'[k] # Absent => entries[k] # Absent
      BY <1>5 DEF WriteFails, DirSyncFails, PersistFailed, Rollback, IInv, TypeOK, Content
    <2>. QED  BY <1>5, <2>1 DEF WriteFails, DirSyncFails, PersistFailed
  <1>6. CASE Rename \/ DirSync
    BY <1>6 DEF Rename, DirSync, IInv, FileInv
  <1>7. CASE Prune
    <2>1. entries \in Content /\ clock \in Int /\ entries' = Retained(entries, clock)
      BY <1>7, SMT DEF Prune, IInv, TypeOK
    <2>. QED  BY <1>7, <2>1, RetainedType, SMT DEF Prune
  <1>8. CASE Crash \/ PowerLoss
    BY <1>8 DEF Crash, PowerLoss, Stopped, Empty
  <1>9. CASE Open
    BY <1>9 DEF Open, IInv, FileInv
  <1>10. CASE UNCHANGED vars
    BY <1>10 DEF vars, cacheVars
  <1>. QED
    BY <1>1, <1>2, <1>3, <1>4, <1>5, <1>6, <1>7, <1>8, <1>9, <1>10 DEF Next, Step

(* No step changes the configuration.                                       *)
LEMMA ConfigStays == [ProxyNext]_proxyVars => config' = config
  BY DEF ProxyNext, Handle, Receive, Structure, ResolveAndVerify, ReplayCheck, Policy,
         Assertion, Binding, Gate, Forward, Dispatch, Sign, SignPanics, Revoke, Time,
         Death, Restart, proxyVars

(* Every step keeps the remembered keys authentic.                          *)
LEMMA VouchedStep == IInv /\ Handling /\ Vouched /\ [ProxyNext]_proxyVars => Vouched'
  <1>. SUFFICES ASSUME IInv, Handling, Vouched, [ProxyNext]_proxyVars PROVE Vouched'
    OBVIOUS
  <1>c. config' = config
    BY ConfigStays
  <1>w. \A m : WellFormed(m)' = WellFormed(m)
    BY <1>c DEF WellFormed
  <1>a. \A k : Authentic(k)' <=> Authentic(k)
    BY <1>w DEF Authentic
  <1>k. /\ \A k \in Present(entries') : Authentic(k)
        /\ \A c \in durable' : \A k \in Present(c) : Authentic(k)
    BY KeyOrigin, ProxyStepIsCacheStep DEF Vouched
  <1>1. stage' = "resolve" => WellFormed(msg')
    <2>1. ASSUME NEW m \in Msg, Receive(m) PROVE stage' # "resolve"
      BY <2>1 DEF Receive
    <2>2. CASE Structure
      BY <2>2 DEF Structure, Goto, Reply
    <2>3. CASE ResolveAndVerify \/ ReplayCheck \/ Policy \/ Assertion \/ Binding \/ Sign
      BY <2>3 DEF ResolveAndVerify, ReplayCheck, Policy, Assertion, Binding, Gate, Sign, Goto, Reply
    <2>4. CASE Forward \/ Dispatch \/ SignPanics \/ Death
      BY <2>4 DEF Forward, Dispatch, SignPanics, Death
    <2>5. CASE Revoke \/ Time \/ Restart \/ UNCHANGED proxyVars
      BY <2>5 DEF Revoke, Time, Restart, handling, proxyVars, Vouched
    <2>. QED  BY <2>1, <2>2, <2>3, <2>4, <2>5 DEF ProxyNext, Handle
  <1>2. cur' # NoRequest => Authentic(KeyOf[cur'])
    <2>1. ASSUME NEW m \in Msg, Receive(m) PROVE cur' = cur
      BY <2>1 DEF Receive, Serve
    <2>2. CASE Structure
      BY <2>2 DEF Structure, Abandon, vars, Vouched, CurKey
    <2>3. CASE ResolveAndVerify
      BY <2>3 DEF ResolveAndVerify, Abandon, Call, Vouched, CurKey, Authentic
    <2>4. CASE ReplayCheck
      <3>1. cur # NoRequest
        BY <2>4, RequestOfType DEF ReplayCheck, Handling
      <3>. QED  BY <2>4, <3>1, ReplayStep DEF ReplayCheck, Vouched, CurKey
    <2>5. CASE Policy \/ Assertion \/ Binding \/ Forward \/ Dispatch \/ Sign \/ Revoke
      BY <2>5 DEF Policy, Assertion, Binding, Gate, Forward, Dispatch, Sign, Revoke, vars, Vouched, CurKey
    <2>6. CASE SignPanics \/ Death
      BY <2>6 DEF SignPanics, Death, Crash, PowerLoss, Stopped, Answer
    <2>7. CASE Time \/ Restart \/ UNCHANGED proxyVars
      BY <2>7 DEF Time, Tick, Restart, Open, proxyVars, vars, Vouched, CurKey
    <2>. QED  BY <2>1, <2>2, <2>3, <2>4, <2>5, <2>6, <2>7 DEF ProxyNext, Handle, Vouched, CurKey
  <1>. QED  BY <1>w, <1>a, <1>k, <1>1, <1>2 DEF Vouched, CurKey

(* The whole invariant: it holds initially and every step preserves it.     *)
LEMMA ProxyInvInit == ProxyInit => ProxyInv
  <1>. SUFFICES ASSUME ProxyInit PROVE ProxyInv
    OBVIOUS
  <1>1. IInv
    BY InitInv DEF ProxyInit
  <1>2. Handling /\ Admitted /\ Vouched
    <2>1. Handling
      BY DEF ProxyInit, Init, Handling, Stage
    <2>2. Admitted
      BY SMT DEF ProxyInit, Init, Admitted, Gates
    <2>3. Vouched
      BY DEF ProxyInit, Init, Vouched, Present, Empty
    <2>. QED  BY <2>1, <2>2, <2>3
  <1>. QED  BY <1>1, <1>2 DEF ProxyInv

(* Every step of the serve loop and of its environment preserves the       *)
(* invariant.                                                              *)
LEMMA ProxyInvStep == ProxyInv /\ [ProxyNext]_proxyVars => ProxyInv'
  <1>. SUFFICES ASSUME ProxyInv, [ProxyNext]_proxyVars PROVE ProxyInv'
    OBVIOUS
  <1>1. IInv'
    BY ProxyStepIsCacheStep, TypeStep, ControlStep, SafetyStep DEF ProxyInv, IInv
  <1>2. Handling' /\ Admitted' /\ Vouched'
    BY HandlingStep, AdmittedStep, VouchedStep DEF ProxyInv
  <1>. QED  BY <1>1, <1>2 DEF ProxyInv

(* The invariant that ties the stage of the handling to the state of the   *)
(* replay cache holds of every behaviour of the proxy.                     *)
THEOREM ProxyInvariance == ProxySpec => []ProxyInv
  BY ProxyInvInit, ProxyInvStep, PTL DEF ProxySpec

(* The proxy drives its replay cache as the cache's specification says, so  *)
(* every theorem about the cache holds of the cache inside the proxy.       *)
THEOREM ProxyImplementsCache == ProxySpec => Spec
  <1>1. ProxyInit => Init
    BY DEF ProxyInit
  <1>2. ProxyInv /\ [ProxyNext]_proxyVars => [Next]_vars
    BY ProxyStepIsCacheStep DEF ProxyInv
  <1>. QED  BY <1>1, <1>2, ProxyInvariance, PTL DEF ProxySpec, Spec

(* The inner server sees each request at most once.                         *)
THEOREM InnerSeesOnce == ProxySpec => []DispatchedAtMostOnce
  <1>1. ProxyInv => DispatchedAtMostOnce
    <2>. SUFFICES ASSUME ProxyInv, NEW r \in Request PROVE dispatched[r] <= 1
      BY DEF DispatchedAtMostOnce
    <2>1. dispatched[r] \in Nat /\ admissions[r] \in Nat
      BY DEF ProxyInv, Handling, IInv, TypeOK
    <2>2. dispatched[r] <= admissions[r] /\ admissions[r] <= 1
      BY DEF ProxyInv, Admitted, IInv, AtMostOnce
    <2>. QED  BY <2>1, <2>2, SMT
  <1>. QED  BY <1>1, ProxyInvariance, PTL

(* Only authentic messages burn nonces.                                     *)
THEOREM NoncesBurntByAuthentic == ProxySpec => []OnlyAuthenticBurnsNonce
  <1>1. ProxyInv => OnlyAuthenticBurnsNonce
    BY DEF ProxyInv, IInv, FileInv, Vouched, Authentic, OnlyAuthenticBurnsNonce
  <1>. QED  BY <1>1, ProxyInvariance, PTL

(* With an assertion verifier and no binding policy to use what it asserts, *)
(* no message gets past the assertion gate.                                 *)
Unbound ==
    config.lb_assertion /\ ~config.transport_binding =>
        /\ stage \notin {"binding", "forward", "dispatch", "sign"}
        /\ \A r \in Request : dispatched[r] = 0

(* Every step keeps messages behind the gate.                               *)
LEMMA UnboundStep == Unbound /\ [ProxyNext]_proxyVars => Unbound'
  <1>. SUFFICES ASSUME Unbound, [ProxyNext]_proxyVars,
                       config.lb_assertion, ~config.transport_binding
                PROVE  /\ stage' \notin {"binding", "forward", "dispatch", "sign"}
                       /\ dispatched' = dispatched
    BY ConfigStays DEF Unbound
  <1>1. stage \notin {"binding", "forward", "dispatch", "sign"}
    BY DEF Unbound
  <1>2. ASSUME NEW m \in Msg, Receive(m)
        PROVE  stage' = "structure" /\ dispatched' = dispatched
    BY <1>2 DEF Receive
  <1>3. CASE Structure \/ ResolveAndVerify \/ ReplayCheck \/ Policy
    BY <1>3 DEF Structure, ResolveAndVerify, ReplayCheck, Policy, Gate, Goto, Reply
  <1>4. CASE Assertion
    BY <1>4 DEF Assertion, Goto, Reply
  <1>5. CASE Binding \/ Forward \/ Dispatch \/ Sign \/ SignPanics
    BY <1>1, <1>5 DEF Binding, Gate, Forward, Dispatch, Sign, SignPanics
  <1>6. CASE Death
    BY <1>6 DEF Death
  <1>7. CASE Revoke \/ Time \/ Restart \/ UNCHANGED proxyVars
    BY <1>1, <1>7 DEF Revoke, Time, Restart, handling, proxyVars
  <1>. QED  BY <1>2, <1>3, <1>4, <1>5, <1>6, <1>7 DEF ProxyNext, Handle

(* A proxy that verifies assertions and has nothing to bind them to hands   *)
(* no request to the inner server, whatever it is sent and wherever it dies *)
(* and restarts.                                                            *)
THEOREM UnboundProxyIsSilent == ProxySpec => []UnboundAssertionNeverDispatches
  <1>1. ProxyInit => Unbound
    BY DEF ProxyInit, Unbound
  <1>2. Unbound => UnboundAssertionNeverDispatches
    BY DEF Unbound, UnboundAssertionNeverDispatches
  <1>. QED  BY <1>1, <1>2, UnboundStep, PTL DEF ProxySpec
=============================================================================
