----------------------------- MODULE CachesProofs -----------------------------
(***************************************************************************)
(* What is remembered in memory, for any number of keys, requests and      *)
(* callers and any times: the trust caches in front of a revocation source *)
(* (TrustTiers), and the replay caches of one process (ReplayCaches).      *)
(***************************************************************************)
EXTENDS TrustTiers, ReplayCaches, FiniteSetTheorems, TLAPS

(* Zenon proves most of the steps; those that need arithmetic say SMT.     *)
USE Zenon

-----------------------------------------------------------------------------
(* TrustTiers                                                              *)

Entry == [outcome : Outcome, expires_at : Int]

Call == [pc : {"idle", "drain", "evict", "lookup", "ask", "second", "store"},
         b : Binding \cup {Never}, now : Int, at : Int,
         answer : Outcome \cup {"none", "unavailable"}, events : SUBSET Binding]

(* The clock, the source and what it has said.  While the source answers,  *)
(* the answer it gives now is one it was last heard to give now.           *)
SourceInv ==
    /\ tier \in {"bounded", "push", "live"} /\ grants \in {"clear", "revoked", "down"}
    /\ clock \in Int /\ back \in 0 .. MaxBack /\ elapsed \in 0 .. MaxClock
    /\ table \in Table /\ up \in BOOLEAN
    /\ said \in [Binding -> [Outcome -> Int \cup {Never}]]
    /\ \A b \in Binding, o \in Outcome : said[b][o] # Never => said[b][o] <= elapsed
    /\ up => \A b \in Binding : said[b][Source(b)] = elapsed

(* An entry expires no later than its time to live after the source last   *)
(* gave its answer.                                                        *)
CacheInv ==
    /\ pending \subseteq Binding
    /\ cache \in [Binding -> Entry \cup {Never}]
    /\ \A b \in Binding : cache[b] # Never =>
        /\ said[b][cache[b].outcome] # Never
        /\ cache[b].expires_at <= said[b][cache[b].outcome] + Ttl(cache[b].outcome)

(* What a caller holds: an instant the clock has shown, and an answer the  *)
(* source gave no earlier than that.                                       *)
CallInv ==
    /\ call \in [Caller -> Call]
    /\ \A c \in Caller : call[c].pc # "idle" =>
        /\ call[c].b \in Binding
        /\ call[c].at <= elapsed
        /\ call[c].now <= call[c].at /\ call[c].at <= call[c].now + back
    /\ \A c \in Caller : call[c].pc \in {"store", "second"} =>
        /\ call[c].answer \in Outcome
        /\ said[call[c].b][call[c].answer] # Never
        /\ call[c].at <= said[call[c].b][call[c].answer]
    /\ \A c \in Caller : call[c].pc = "second" => call[c].answer = "active"

ServedInv ==
    /\ served.answer \in Outcome => served.b \in Binding /\ served.at \in Int
    /\ StalenessBounded

StaleInv == SourceInv /\ CacheInv /\ CallInv /\ ServedInv

(* The time to live of an answer is a natural number.                      *)
LEMMA TtlType == \A o : Ttl(o) \in Nat
BY TrustAssumption DEF Ttl

(* Whatever the source's table says of a binding is one of its answers.    *)
LEMMA SourceType ==
    ASSUME SourceInv, NEW b \in Binding
    PROVE  Source(b) \in Outcome
<1>1. clock \in -MaxBack .. MaxClock
  BY TrustAssumption, SMT DEF SourceInv, elapsed
<1> QED
  BY <1>1, TrustAssumption DEF SourceInv, Source

(* Nothing is cached, held or served at first.                             *)
LEMMA StaleInit == TrustInit => StaleInv
<1> SUFFICES ASSUME TrustInit PROVE StaleInv
  OBVIOUS
<1>1. SourceInv
  <2>1. 0 \in -MaxBack .. MaxClock /\ 0 \in 0 .. MaxBack /\ 0 \in 0 .. MaxClock
    BY TrustAssumption, SMT
  <2>2. \A b \in Binding : Says(table, b, 0) \in Outcome
    BY <2>1, TrustAssumption DEF TrustInit
  <2> QED
    BY <2>1, <2>2, SMT DEF TrustInit, SourceInv, elapsed, Source
<1>2. CacheInv
  BY DEF TrustInit, CacheInv
<1>3. CallInv
  BY SMT DEF TrustInit, CallInv, Call, Idle
<1>4. ServedInv
  BY DEF TrustInit, ServedInv, StalenessBounded, Unserved, Outcome
<1> QED
  BY <1>1, <1>2, <1>3, <1>4 DEF StaleInv

(* What the source has said is only ever said again later.                 *)
Later ==
    /\ elapsed <= elapsed' /\ back <= back'
    /\ \A b \in Binding, o \in Outcome : said[b][o] # Never =>
        said'[b][o] # Never /\ said[b][o] <= said'[b][o]

(* The instants at which an answer was last given, before and after time   *)
(* has gone from e to f.                                                   *)
LEMMA Advance ==
    ASSUME NEW e \in Int, NEW f \in Int, e <= f,
           NEW s \in Int \cup {Never}, s # Never => s <= e, NEW t \in {s, f}
    PROVE  (s # Never => t # Never /\ s <= t) /\ (t # Never => t <= f)
<1>1. Never \notin Int
  BY TrustAssumption
<1> QED
  BY <1>1, SMT

(* A clock n set back k in all stays in its range.                         *)
LEMMA ClockRange ==
    ASSUME NEW n \in Int, NEW k \in 0 .. MaxBack, n + k \in 0 .. MaxClock
    PROVE  n \in -MaxBack .. MaxClock
<1>1. MaxBack \in Nat /\ MaxClock \in Nat
  BY TrustAssumption
<1> QED
  BY <1>1, SMT

(* A change of the source, an outage or a movement of the clock within its *)
(* bounds records what the source says from then on.                       *)
LEMMA HeardLater ==
    ASSUME SourceInv, UNCHANGED <<tier, grants>>,
           clock' \in Int, back' \in 0 .. MaxBack, elapsed' \in 0 .. MaxClock,
           elapsed <= elapsed', back <= back', table' \in Table, up' \in BOOLEAN,
           said' = Heard(table', up', clock')
    PROVE  SourceInv' /\ Later
<1>0. clock' + back' \in 0 .. MaxClock
  BY DEF elapsed
<1>1. clock' \in -MaxBack .. MaxClock
  BY <1>0, ClockRange
<1>2. \A b \in Binding : Says(table', b, clock') \in Outcome
  BY <1>1, TrustAssumption
<1>3. elapsed' \in Int /\ elapsed' = clock' + back' /\ elapsed \in Int
  BY SMT DEF elapsed, SourceInv
<1>4. \A b \in Binding, o \in Outcome :
        said'[b][o] = IF up' /\ Says(table', b, clock') = o THEN elapsed' ELSE said[b][o]
  BY <1>3 DEF Heard
<1>5. said' \in [Binding -> [Outcome -> Int \cup {Never}]]
  BY <1>3 DEF Heard, SourceInv
<1>6. \A b \in Binding, o \in Outcome :
        said[b][o] \in Int \cup {Never} /\ (said[b][o] # Never => said[b][o] <= elapsed)
  BY DEF SourceInv
<1>7. ASSUME NEW b \in Binding, NEW o \in Outcome
      PROVE  /\ said[b][o] # Never => said'[b][o] # Never /\ said[b][o] <= said'[b][o]
             /\ said'[b][o] # Never => said'[b][o] <= elapsed'
  <2> DEFINE s == said[b][o]
             t == said'[b][o]
             e == elapsed
             f == elapsed'
  <2>1. s \in Int \cup {Never} /\ (s # Never => s <= e)
    BY <1>6
  <2>2. t \in {s, f}
    BY <1>4
  <2>3. e \in Int /\ f \in Int /\ e <= f
    BY <1>3
  <2> HIDE DEF s, t, e, f
  <2>4. (s # Never => t # Never /\ s <= t) /\ (t # Never => t <= f)
    BY <2>1, <2>2, <2>3, Advance, ZenonT(60)
  <2> QED
    BY <2>4 DEF s, t, f
<1>8. Later
  BY <1>7 DEF Later
<1>9. up' => \A b \in Binding : said'[b][Says(table', b, clock')] = elapsed'
  BY <1>2, <1>4
<1> QED
  BY <1>5, <1>7, <1>8, <1>9 DEF SourceInv, Source

(* When only the source and the clock move, what is cached, held and       *)
(* served stays within its bounds.                                         *)
LEMMA LaterKeeps ==
    ASSUME StaleInv, SourceInv', Later, UNCHANGED <<cache, call, served>>,
           pending' \subseteq Binding
    PROVE  StaleInv'
<1> USE TtlType, TrustAssumption
<1>0. /\ elapsed \in Int /\ elapsed' \in Int /\ back \in Int /\ back' \in Int
      /\ \A b \in Binding, o \in Outcome :
            said[b][o] \in Int \cup {Never} /\ said'[b][o] \in Int \cup {Never}
  BY SMT DEF StaleInv, SourceInv
<1>1. CacheInv'
  BY <1>0, SMT DEF StaleInv, CacheInv, Entry, Later, Ttl
<1>2. CallInv'
  <2>1. \A c \in Caller : call[c].pc # "idle" =>
          /\ call[c].at <= elapsed' /\ call[c].at <= call[c].now + back'
    BY <1>0, SMT DEF StaleInv, CallInv, Call, Later
  <2>2. \A c \in Caller : call[c].pc \in {"store", "second"} =>
          /\ said'[call[c].b][call[c].answer] # Never
          /\ call[c].at <= said'[call[c].b][call[c].answer]
    BY <1>0, SMT DEF StaleInv, CallInv, Call, Later
  <2> QED
    BY <2>1, <2>2 DEF StaleInv, CallInv
<1>3. ServedInv'
  BY <1>0, SMT DEF StaleInv, ServedInv, StalenessBounded, Later, Ttl
<1> QED
  BY <1>1, <1>2, <1>3 DEF StaleInv

(* The operator, the source and the clock keep the bounds.                 *)
LEMMA OperatorStep == StaleInv /\ (Operator \/ Tick \/ SetBack) => StaleInv'
<1> SUFFICES ASSUME StaleInv, Operator \/ Tick \/ SetBack PROVE StaleInv'
  OBVIOUS
<1>0. /\ clock \in Int /\ back \in 0 .. MaxBack /\ elapsed \in 0 .. MaxClock
      /\ table \in Table /\ up \in BOOLEAN /\ pending \subseteq Binding /\ SourceInv
  BY DEF StaleInv, SourceInv, CacheInv
<1>1. CASE Publish
  <2>1. table' \in Table
    BY <1>0, <1>1, TrustAssumption DEF Publish
  <2>2. SourceInv' /\ Later
    BY <1>0, <1>1, <2>1, HeardLater, SMT DEF Publish, elapsed
  <2> QED
    BY <1>0, <1>1, <2>2, LaterKeeps DEF Publish
<1>2. CASE Outage
  <2>1. SourceInv' /\ Later
    BY <1>0, <1>2, HeardLater, SMT DEF Outage, elapsed
  <2> QED
    BY <1>0, <1>2, <2>1, LaterKeeps DEF Outage
<1>3. ASSUME DenyList \/ \E b \in Binding : Push(b) PROVE StaleInv'
  <2>1. UNCHANGED <<tier, clock, back, table, up, said, cache, call, served>>
    BY <1>3 DEF DenyList, Push
  <2>2. SourceInv'
    BY <1>0, <1>3, <2>1 DEF SourceInv, elapsed, Source, DenyList, Push
  <2>3. Later
    BY <1>0, <2>1, SMT DEF Later, SourceInv, elapsed
  <2>4. pending' \subseteq Binding
    BY <1>0, <1>3 DEF DenyList, Push
  <2> QED
    BY <2>1, <2>2, <2>3, <2>4, LaterKeeps
<1>4. ASSUME Tick \/ SetBack PROVE StaleInv'
  <2>1. /\ clock' \in Int /\ back' \in 0 .. MaxBack /\ elapsed' \in 0 .. MaxClock
        /\ elapsed <= elapsed' /\ back <= back'
    BY <1>0, <1>4, TrustAssumption, SMT DEF Tick, SetBack, Moves, elapsed
  <2>2. /\ UNCHANGED <<tier, grants>> /\ table' = table /\ up' = up /\ said' = Heard(table', up', clock')
        /\ UNCHANGED <<pending, cache, call, served>>
    BY <1>4 DEF Tick, SetBack, Moves
  <2>3. SourceInv' /\ Later
    BY <1>0, <2>1, <2>2, HeardLater
  <2> QED
    BY <1>0, <2>2, <2>3, LaterKeeps
<1> QED
  BY <1>1, <1>2, <1>3, <1>4 DEF Operator

(* The steps of a call, and the pruning of the cache, keep the bounds.     *)
LEMMA CallerStep ==
    ASSUME StaleInv, NEW c \in Caller,
           CallStep(c) \/ \E b \in Binding : ResolveAtTier(c, b)
    PROVE  StaleInv'
<1> USE TtlType
<1>1. UNCHANGED <<clock, back, table, up, said, tier, grants, elapsed>>
  BY DEF CallStep, Drain, Evict, ReadClock, Cached, AskSource, Second, Store,
         ResolveAtTier, env, elapsed
<1>2. SourceInv'
  BY <1>1 DEF StaleInv, SourceInv, Source
<1>3. /\ call[c] \in Call /\ call[c].at \in Int /\ call[c].now \in Int
      /\ clock \in Int /\ back \in Nat /\ elapsed = clock + back /\ elapsed \in Int
      /\ Never \notin Int
      /\ \A b \in Binding, o \in Outcome : said[b][o] \in Int \cup {Never}
  BY TrustAssumption, SMT DEF StaleInv, SourceInv, CallInv, Call, elapsed
<1>4. /\ pending \subseteq Binding /\ cache \in [Binding -> Entry \cup {Never}]
      /\ call \in [Caller -> Call]
      /\ (call[c].pc # "idle" => call[c].b \in Binding)
  BY DEF StaleInv, CacheInv, CallInv
<1>5. ASSUME NEW b \in Binding, ResolveAtTier(c, b) PROVE StaleInv'
  <2>0. tier \in {"bounded", "push", "live"}
    BY DEF StaleInv, SourceInv
  <2>1. /\ call' = [call EXCEPT ![c] = call'[c]] /\ call'[c] \in Call
        /\ call'[c].b = b /\ call'[c].now = clock /\ call'[c].at = elapsed
        /\ call'[c].pc \notin {"store", "second"}
    BY <2>0, <1>3, <1>4, <1>5 DEF ResolveAtTier, Step, Idle, Call
  <2>2. CallInv'
    BY <1>1, <1>3, <1>4, <2>1, SMT DEF StaleInv, CallInv
  <2>3. CacheInv'
    BY <1>1, <1>5 DEF StaleInv, CacheInv, ResolveAtTier
  <2>4. ServedInv'
    BY <1>5 DEF ServedInv, StalenessBounded, ResolveAtTier, Unserved, Outcome
  <2> QED
    BY <1>2, <2>2, <2>3, <2>4 DEF StaleInv
<1>6. CASE Drain(c)
  <2>1. /\ call' = [call EXCEPT ![c] = call'[c]] /\ call'[c] \in Call
        /\ call'[c].pc = "evict" /\ call'[c].b = call[c].b
        /\ call'[c].now = call[c].now /\ call'[c].at = call[c].at /\ call[c].pc = "drain"
    BY <1>3, <1>4, <1>6 DEF Drain, Step, Call
  <2>2. CallInv'
    BY <1>1, <1>3, <1>4, <2>1 DEF StaleInv, CallInv
  <2>3. CacheInv' /\ ServedInv'
    BY <1>1, <1>6 DEF StaleInv, CacheInv, ServedInv, StalenessBounded, Drain
  <2> QED
    BY <1>2, <2>2, <2>3 DEF StaleInv
<1>7. CASE Evict(c)
  <2>1. /\ call' = [call EXCEPT ![c] = call'[c]] /\ call'[c] \in Call
        /\ call'[c].pc = "evict" /\ call'[c].b = call[c].b
        /\ call'[c].now = call[c].now /\ call'[c].at = call[c].at /\ call[c].pc = "evict"
    BY <1>3, <1>4, <1>7, SMT DEF Evict, Step, Call
  <2>2. CallInv'
    BY <1>1, <1>3, <1>4, <2>1 DEF StaleInv, CallInv
  <2>3. CacheInv'
    BY <1>1, <1>4, <1>7 DEF StaleInv, CacheInv, Evict
  <2>4. ServedInv'
    BY <1>1, <1>7 DEF StaleInv, ServedInv, StalenessBounded, Evict
  <2> QED
    BY <1>2, <2>2, <2>3, <2>4 DEF StaleInv
<1>8. CASE ReadClock(c)
  <2>1. /\ call' = [call EXCEPT ![c] = call'[c]] /\ call'[c] \in Call
        /\ call'[c].pc = "lookup" /\ call'[c].b = call[c].b
        /\ call'[c].now = clock /\ call'[c].at = elapsed /\ call[c].pc = "evict"
    BY <1>3, <1>4, <1>8 DEF ReadClock, Step, Call
  <2>2. CallInv'
    BY <1>1, <1>3, <1>4, <2>1, SMT DEF StaleInv, CallInv
  <2>3. CacheInv' /\ ServedInv'
    BY <1>1, <1>8 DEF StaleInv, CacheInv, ServedInv, StalenessBounded, ReadClock
  <2> QED
    BY <1>2, <2>2, <2>3 DEF StaleInv
<1>9. CASE Cached(c)
  <2> DEFINE b == call[c].b
  <2>0. call[c].pc = "lookup" /\ b \in Binding
    BY <1>4, <1>9 DEF Cached
  <2>1. CacheInv'
    BY <1>1, <1>9 DEF StaleInv, CacheInv, Cached
  <2>2. CASE Live(b, call[c].now)
    <3>1. call' = [call EXCEPT ![c] = Idle]
      BY <1>9, <2>2 DEF Cached, Step
    <3>2. CallInv'
      BY <1>1, <1>4, <3>1, SMT DEF StaleInv, CallInv, Idle, Call
    <3>3. /\ cache[b] \in Entry /\ call[c].now < cache[b].expires_at
          /\ said[b][cache[b].outcome] # Never
          /\ cache[b].expires_at <= said[b][cache[b].outcome] + Ttl(cache[b].outcome)
      BY <1>4, <2>0, <2>2 DEF Live, StaleInv, CacheInv
    <3>4. call[c].at <= call[c].now + back
      BY <2>0 DEF StaleInv, CallInv
    <3>5. served' = [b |-> b, answer |-> cache[b].outcome, at |-> call[c].at]
      BY <1>9, <2>2 DEF Cached, Answer
    <3>6. call[c].at - said[b][cache[b].outcome] < Ttl(cache[b].outcome) + back
      BY <1>3, <2>0, <3>3, <3>4, SMT DEF Entry
    <3>7. ServedInv'
      BY <1>1, <1>3, <2>0, <3>3, <3>5, <3>6 DEF ServedInv, StalenessBounded, Ttl
    <3> QED
      BY <1>2, <2>1, <3>2, <3>7 DEF StaleInv
  <2>3. CASE ~Live(b, call[c].now)
    <3>1. call' = [call EXCEPT ![c] = [call[c] EXCEPT !.pc = "ask"]] /\ served' = served
      BY <1>9, <2>3 DEF Cached, Step
    <3>2. CallInv'
      BY <1>1, <1>3, <1>4, <2>0, <3>1 DEF StaleInv, CallInv, Call
    <3>3. ServedInv'
      BY <1>1, <3>1 DEF StaleInv, ServedInv, StalenessBounded
    <3> QED
      BY <1>2, <2>1, <3>2, <3>3 DEF StaleInv
  <2> QED
    BY <2>2, <2>3
<1>10. CASE AskSource(c)
  <2> DEFINE b == call[c].b
             o == IF up THEN Source(b) ELSE "unavailable"
  <2>0. call[c].pc = "ask" /\ b \in Binding /\ call[c].at <= elapsed
    BY <1>4, <1>10 DEF AskSource, StaleInv, CallInv
  <2>1. CacheInv'
    BY <1>1, <1>10 DEF StaleInv, CacheInv, AskSource
  <2>2. o # "unavailable" => o \in Outcome /\ said[b][o] = elapsed
    BY <2>0, SourceType DEF StaleInv, SourceInv
  <2>3. o \in Outcome \cup {"unavailable"} /\ "unavailable" \notin Outcome
    BY <2>2 DEF Outcome
  <2> HIDE DEF o
  <2>4. ASSUME NEW pc \in {"store", "second"}, pc = "second" => o = "active",
               o # "unavailable", served' = served,
               call' = [call EXCEPT ![c] = [call[c] EXCEPT !.pc = pc, !.answer = o]]
        PROVE  StaleInv'
    <3>1. /\ call'[c] \in Call /\ call'[c].pc = pc /\ call'[c].b = b
          /\ call'[c].now = call[c].now /\ call'[c].at = call[c].at
          /\ call'[c].answer = o /\ call' = [call EXCEPT ![c] = call'[c]]
      BY <1>3, <1>4, <2>3, <2>4 DEF Call
    <3>2. CallInv'
      BY <1>1, <1>3, <1>4, <2>0, <2>2, <2>4, <3>1, SMT DEF StaleInv, CallInv
    <3>3. ServedInv'
      BY <1>1, <2>4 DEF StaleInv, ServedInv, StalenessBounded
    <3> QED
      BY <1>2, <2>1, <3>2, <3>3 DEF StaleInv
  <2>5. ASSUME call' = [call EXCEPT ![c] = Idle], Answer(c, o)
        PROVE  StaleInv'
    <3>1. CallInv'
      BY <1>1, <1>4, <2>5, SMT DEF StaleInv, CallInv, Idle, Call
    <3>2. served' = [b |-> b, answer |-> o, at |-> call[c].at]
      BY <2>5 DEF Answer
    <3>3. ServedInv'
      BY <1>1, <1>3, <2>0, <2>2, <2>3, <3>2 DEF ServedInv, StalenessBounded
    <3> QED
      BY <1>2, <2>1, <3>1, <3>3 DEF StaleInv
  <2>6. \/ /\ o # "unavailable" /\ served' = served
           /\ call' = [call EXCEPT ![c] = [call[c] EXCEPT !.pc = "store", !.answer = o]]
        \/ /\ o = "active" /\ served' = served
           /\ call' = [call EXCEPT ![c] = [call[c] EXCEPT !.pc = "second", !.answer = o]]
        \/ call' = [call EXCEPT ![c] = Idle] /\ Answer(c, o)
    BY <1>10 DEF AskSource, Step, o
  <2> QED
    BY <2>4, <2>5, <2>6
<1>11. CASE Second(c)
  <2>0. /\ call[c].pc = "second" /\ call[c].b \in Binding /\ call[c].answer = "active"
        /\ said[call[c].b]["active"] # Never /\ call[c].at <= said[call[c].b]["active"]
    BY <1>4, <1>11 DEF Second, Step, StaleInv, CallInv
  <2>1. CacheInv'
    BY <1>1, <1>11 DEF StaleInv, CacheInv, Second
  <2>2. CallInv'
    BY <1>1, <1>4, <1>11, SMT DEF StaleInv, CallInv, Idle, Call, Second, Step
  <2>3. ServedInv'
    <3>1. PICK o : served' = [b |-> call[c].b, answer |-> o, at |-> call[c].at]
      BY <1>11 DEF Second, Answer
    <3>0. grants \in {"clear", "revoked", "down"}
      BY DEF StaleInv, SourceInv
    <3>2. o \in Outcome => o = "active"
      BY <1>11, <3>0, <3>1, SMT DEF Second, Answer, Outcome
    <3> QED
      BY <1>1, <1>3, <2>0, <3>1, <3>2 DEF ServedInv, StalenessBounded
  <2> QED
    BY <1>2, <2>1, <2>2, <2>3 DEF StaleInv
<1>12. CASE Store(c)
  <2> DEFINE b == call[c].b
             o == call[c].answer
  <2>0. /\ b \in Binding /\ o \in Outcome /\ said[b][o] # Never /\ call[c].at <= said[b][o]
        /\ call[c].now <= call[c].at
    BY <1>12 DEF Store, Step, StaleInv, CallInv
  <2>1. cache' = [cache EXCEPT ![b] = [outcome |-> o, expires_at |-> call[c].now + Ttl(o)]]
    BY <1>12 DEF Store
  <2>2. call[c].now + Ttl(o) \in Int /\ call[c].now + Ttl(o) <= said[b][o] + Ttl(o)
    BY <1>3, <2>0, SMT
  <2>3. CacheInv'
    <3>1. pending' \subseteq Binding
      BY <1>4, <1>12 DEF Store
    <3>2. [outcome |-> o, expires_at |-> call[c].now + Ttl(o)] \in Entry
      BY <2>0, <2>2 DEF Entry
    <3>3. cache' \in [Binding -> Entry \cup {Never}]
      BY <1>4, <2>1, <3>2
    <3>4. ASSUME NEW d \in Binding, cache'[d] # Never
          PROVE  /\ said[d][cache'[d].outcome] # Never
                 /\ cache'[d].expires_at <= said[d][cache'[d].outcome] + Ttl(cache'[d].outcome)
      <4>1. CASE d = b
        <5>1. cache'[d] = [outcome |-> o, expires_at |-> call[c].now + Ttl(o)]
          BY <1>4, <2>0, <2>1, <4>1
        <5> QED
          BY <2>0, <2>2, <4>1, <5>1, SMT
      <4>2. CASE d # b
        <5>1. cache'[d] = cache[d]
          BY <1>4, <2>1, <4>2
        <5> QED
          BY <3>4, <5>1 DEF StaleInv, CacheInv
      <4> QED
        BY <4>1, <4>2
    <3> QED
      BY <1>1, <3>1, <3>3, <3>4 DEF CacheInv, Ttl
  <2>4. CallInv'
    BY <1>1, <1>4, <1>12, SMT DEF StaleInv, CallInv, Idle, Call, Store, Step
  <2>5. ServedInv'
    BY <1>1, <1>3, <1>12, <2>0 DEF ServedInv, StalenessBounded, Store, Answer
  <2> QED
    BY <1>2, <2>3, <2>4, <2>5 DEF StaleInv
<1> QED
  BY <1>5, <1>6, <1>7, <1>8, <1>9, <1>10, <1>11, <1>12 DEF CallStep

(* Every step keeps every answer within its window.                        *)
LEMMA StaleStep == StaleInv /\ [TrustNext]_tvars => StaleInv'
<1> SUFFICES ASSUME StaleInv, [TrustNext]_tvars PROVE StaleInv'
  OBVIOUS
<1>1. CASE Prune
  <2>1. UNCHANGED <<tier, clock, back, table, up, grants, said, pending, call, served, elapsed>>
    BY <1>1 DEF Prune, env, elapsed
  <2>2. \A b \in Binding : cache'[b] \in {cache[b], Never}
    BY <1>1 DEF Prune
  <2>3. cache' \in [Binding -> Entry \cup {Never}]
    BY <1>1, <2>2 DEF Prune, StaleInv, CacheInv
  <2>4. CacheInv'
    BY <2>1, <2>2, <2>3 DEF StaleInv, CacheInv
  <2>5. SourceInv' /\ CallInv' /\ ServedInv'
    BY <2>1 DEF StaleInv, SourceInv, Source, CallInv, ServedInv, StalenessBounded
  <2> QED
    BY <2>4, <2>5 DEF StaleInv
<1>2. CASE UNCHANGED tvars
  BY <1>2 DEF tvars, env, StaleInv, SourceInv, Source, elapsed, CacheInv, CallInv,
     ServedInv, StalenessBounded
<1> QED
  BY <1>1, <1>2, CallerStep, OperatorStep DEF TrustNext

(* Whatever a resolve of any tier returns, the source of trust gave that   *)
(* answer less than its time to live before the call read the clock, plus  *)
(* however far the clock was set back: revocation_tier.rs, trust_cache.rs, *)
(* push_trust.rs and live_trust.rs for every window and every source.      *)
THEOREM TrustIsNeverStale == TrustSpec => []StalenessBounded
<1>1. StaleInv => StalenessBounded
  BY DEF StaleInv, ServedInv
<1> QED
  BY <1>1, StaleInit, StaleStep, PTL DEF TrustSpec

(***************************************************************************)
(* Pushed evictions.                                                       *)
(***************************************************************************)

(* A caller that is about to store an active answer for b.                 *)
Filling(b) == \E c \in Caller :
    call[c].pc = "store" /\ call[c].b = b /\ call[c].answer = "active"

CachesActive(b) == cache[b] # Never /\ cache[b].outcome = "active"

(* An eviction is remembered only while the source does not say active, so *)
(* no later call can bring an active answer back; only a fill that was     *)
(* under way can, and that is what `overlap' records.                      *)
EvictedInv ==
    /\ gone \in [Binding -> BOOLEAN] /\ overlap \in [Binding -> BOOLEAN]
    /\ \A b \in Binding : gone[b] => Source(b) # "active"
    /\ \A b \in Binding : gone[b] /\ Filling(b) => overlap[b]
    /\ \A b \in Binding : gone[b] /\ CachesActive(b) => overlap[b]

(* Nothing has been evicted at first.                                      *)
LEMMA EvictedInit == TrustInit => EvictedInv
BY DEF TrustInit, EvictedInv

(* A step that leaves the source, gone and overlap alone, and brings no    *)
(* new active answer for an evicted binding, keeps the invariant.          *)
LEMMA EvictedKept ==
    ASSUME EvictedInv, UNCHANGED <<table, clock, gone, overlap>>,
           \A b \in Binding : gone[b] /\ (Filling(b)' \/ CachesActive(b)') =>
                Filling(b) \/ CachesActive(b)
    PROVE  EvictedInv'
<1>1. /\ gone' \in [Binding -> BOOLEAN] /\ overlap' \in [Binding -> BOOLEAN]
      /\ \A b \in Binding : gone'[b] => Source(b)' # "active"
  BY DEF EvictedInv, Source
<1>2. \A b \in Binding : gone'[b] /\ (Filling(b)' \/ CachesActive(b)') => overlap'[b]
  BY DEF EvictedInv
<1> QED
  BY <1>1, <1>2 DEF EvictedInv

(* A change of the source or of the clock forgets the evictions of the     *)
(* bindings the source says active of.                                     *)
LEMMA EvictedForgotten ==
    ASSUME EvictedInv, UNCHANGED <<cache, call>>,
           gone' = [b \in Binding |-> gone[b] /\ Source(b)' # "active"],
           overlap' = [b \in Binding |-> overlap[b] /\ Source(b)' # "active"]
    PROVE  EvictedInv'
<1>1. gone' \in [Binding -> BOOLEAN] /\ overlap' \in [Binding -> BOOLEAN]
  BY DEF EvictedInv
<1>2. ASSUME NEW b \in Binding
      PROVE  /\ gone'[b] <=> gone[b] /\ Source(b)' # "active"
             /\ overlap'[b] <=> overlap[b] /\ Source(b)' # "active"
             /\ Filling(b)' <=> Filling(b)
             /\ CachesActive(b)' <=> CachesActive(b)
  <2>1. /\ gone'[b] <=> gone[b] /\ Source(b)' # "active"
        /\ overlap'[b] <=> overlap[b] /\ Source(b)' # "active"
    OBVIOUS
  <2>2. Filling(b)' <=> Filling(b)
    BY DEF Filling
  <2>3. CachesActive(b)' <=> CachesActive(b)
    BY DEF CachesActive
  <2> QED
    BY <2>1, <2>2, <2>3
<1> QED
  BY <1>1, <1>2 DEF EvictedInv

(* Every step keeps the invariant.                                         *)
LEMMA EvictedStep == StaleInv /\ EvictedInv /\ [TrustNext]_tvars => EvictedInv'
<1> SUFFICES ASSUME StaleInv, EvictedInv, [TrustNext]_tvars PROVE EvictedInv'
  OBVIOUS
<1>0. call \in [Caller -> Call] /\ cache \in [Binding -> Entry \cup {Never}]
  BY DEF StaleInv, CallInv, CacheInv
<1>1. CASE Publish
  BY <1>1, EvictedForgotten DEF Publish, Source
<1>2. ASSUME Tick \/ SetBack PROVE EvictedInv'
  BY <1>2, EvictedForgotten DEF Tick, SetBack, Moves, Source
<1>3. ASSUME Outage \/ DenyList \/ (\E b \in Binding : Push(b)) \/ UNCHANGED tvars
      PROVE  EvictedInv'
  BY <1>3, EvictedKept DEF Outage, DenyList, Push, tvars, env, Filling, CachesActive
<1>4. CASE Prune
  <2>1. UNCHANGED <<table, clock, gone, overlap, call>>
    BY <1>4 DEF Prune, env
  <2>2. \A b \in Binding : cache'[b] \in {cache[b], Never}
    BY <1>4 DEF Prune
  <2>3. \A b \in Binding : CachesActive(b)' => CachesActive(b)
    BY <2>2 DEF CachesActive
  <2>4. \A b \in Binding : Filling(b)' => Filling(b)
    BY <2>1 DEF Filling
  <2> QED
    BY <2>1, <2>3, <2>4, EvictedKept
<1>5. ASSUME NEW c \in Caller,
             Drain(c) \/ ReadClock(c) \/ Cached(c) \/ Second(c)
                \/ \E b \in Binding : ResolveAtTier(c, b)
      PROVE  EvictedInv'
  <2>1. UNCHANGED <<table, clock, gone, overlap, cache>>
    BY <1>5 DEF Drain, ReadClock, Cached, Second, ResolveAtTier, env
  <2>2. call' = [call EXCEPT ![c] = call'[c]] /\ call'[c].pc # "store"
    <3>1. tier \in {"bounded", "push", "live"}
      BY DEF StaleInv, SourceInv
    <3>2. CASE Drain(c)
      BY <1>0, <3>2 DEF Drain, Step, Call
    <3>3. CASE ReadClock(c)
      BY <1>0, <3>3 DEF ReadClock, Step, Call
    <3>4. CASE Cached(c)
      BY <1>0, <3>4, SMT DEF Cached, Step, Idle, Call
    <3>5. CASE Second(c)
      BY <1>0, <3>5 DEF Second, Step, Idle
    <3>6. CASE \E b \in Binding : ResolveAtTier(c, b)
      BY <1>0, <3>1, <3>6, ZenonT(60) DEF ResolveAtTier, Step, Idle
    <3> QED
      BY <1>5, <3>2, <3>3, <3>4, <3>5, <3>6
  <2>3. \A b \in Binding : Filling(b)' => Filling(b)
    BY <1>0, <2>2 DEF Filling
  <2>4. \A b \in Binding : CachesActive(b)' => CachesActive(b)
    BY <2>1 DEF CachesActive
  <2> QED
    BY <2>1, <2>3, <2>4, EvictedKept
<1>6. ASSUME NEW c \in Caller, AskSource(c) PROVE EvictedInv'
  <2>1. UNCHANGED <<table, clock, gone, overlap, cache>>
    BY <1>6 DEF AskSource, env
  <2>2. /\ call' = [call EXCEPT ![c] = call'[c]]
        /\ call'[c].pc = "store" /\ call'[c].answer = "active" =>
               Source(call'[c].b) = "active"
    <3> DEFINE o == IF up THEN Source(call[c].b) ELSE "unavailable"
    <3>1. o = "active" => Source(call[c].b) = "active"
      OBVIOUS
    <3> HIDE DEF o
    <3>2. \/ \E pc \in {"store", "second"} :
               call' = [call EXCEPT ![c] = [call[c] EXCEPT !.pc = pc, !.answer = o]]
          \/ call' = [call EXCEPT ![c] = Idle]
      BY <1>6 DEF AskSource, Step, o
    <3>3. ASSUME NEW pc \in {"store", "second"},
                 call' = [call EXCEPT ![c] = [call[c] EXCEPT !.pc = pc, !.answer = o]]
          PROVE  call'[c].b = call[c].b /\ call'[c].answer = o
      BY <1>0, <3>3 DEF Call
    <3>4. call' = [call EXCEPT ![c] = Idle] => call'[c].pc = "idle"
      BY <1>0, SMT DEF Idle
    <3>5. call' = [call EXCEPT ![c] = call'[c]]
      BY <1>0, <3>2
    <3> QED
      BY <3>1, <3>2, <3>3, <3>4, <3>5
  <2>3. ASSUME NEW b \in Binding, gone[b], Filling(b)' PROVE Filling(b)
    <3>1. Source(b) # "active"
      BY <2>3 DEF EvictedInv
    <3> QED
      BY <1>0, <2>2, <2>3, <3>1 DEF Filling
  <2>4. \A b \in Binding : CachesActive(b)' => CachesActive(b)
    BY <2>1 DEF CachesActive
  <2> QED
    BY <2>1, <2>3, <2>4, EvictedKept
<1>7. ASSUME NEW c \in Caller, Store(c) PROVE EvictedInv'
  <2>1. UNCHANGED <<table, clock, gone, overlap>>
    BY <1>7 DEF Store, env
  <2>2. \A b \in Binding : Filling(b)' => Filling(b)
    BY <1>0, <1>7 DEF Store, Step, Idle, Filling
  <2>3. \A b \in Binding : CachesActive(b)' => CachesActive(b) \/ Filling(b)
    BY <1>0, <1>7 DEF Store, Step, CachesActive, Filling
  <2> QED
    BY <2>1, <2>2, <2>3, EvictedKept
<1>8. ASSUME NEW c \in Caller, Evict(c) PROVE EvictedInv'
  <2>1. PICK e \in call[c].events :
          /\ call' = [call EXCEPT ![c] = [call[c] EXCEPT !.events = @ \ {e}]]
          /\ cache' = [cache EXCEPT ![e] = Never]
          /\ gone' = [gone EXCEPT ![e] = @ \/ Source(e) # "active"]
          /\ overlap' = [overlap EXCEPT ![e] = @ \/ Filling(e)]
    BY <1>8 DEF Evict, Step, Filling
  <2>2. e \in Binding
    BY <1>0, <2>1 DEF Call
  <2>3. UNCHANGED <<table, clock>>
    BY <1>8 DEF Evict, env
  <2>4. \A b \in Binding : Filling(b)' => Filling(b)
    BY <1>0, <2>1 DEF Filling, Call
  <2>5. \A b \in Binding : CachesActive(b)' => CachesActive(b) /\ b # e
    BY <1>0, <2>1, <2>2 DEF CachesActive
  <2>6. gone' \in [Binding -> BOOLEAN] /\ overlap' \in [Binding -> BOOLEAN]
    BY <2>1 DEF EvictedInv
  <2>7. ASSUME NEW b \in Binding, gone'[b]
        PROVE  /\ Source(b)' # "active"
               /\ Filling(b)' => overlap'[b]
               /\ CachesActive(b)' => overlap'[b]
    <3>1. Source(b)' = Source(b)
      BY <2>3 DEF Source
    <3>2. CASE b = e
      <4>1. gone'[b] = (gone[b] \/ Source(b) # "active") /\ overlap'[b] = (overlap[b] \/ Filling(b))
        BY <2>1, <3>2 DEF EvictedInv
      <4> QED
        BY <2>4, <2>5, <2>7, <3>1, <3>2, <4>1 DEF EvictedInv
    <3>3. CASE b # e
      <4>1. gone'[b] = gone[b] /\ overlap'[b] = overlap[b]
        BY <2>1, <3>3 DEF EvictedInv
      <4> QED
        BY <2>4, <2>5, <2>7, <3>1, <4>1 DEF EvictedInv
    <3> QED
      BY <3>2, <3>3
  <2> QED
    BY <2>6, <2>7 DEF EvictedInv
<1> QED
  BY <1>1, <1>2, <1>3, <1>4, <1>5, <1>6, <1>7, <1>8 DEF TrustNext, Operator, CallStep

(* Once a pushed event is applied after the source stopped saying active,  *)
(* the cache of push_trust.rs holds no active entry for the binding, save  *)
(* through a fill that was already under way.                              *)
THEOREM PushesTakeEffect == TrustSpec => []PushTakesEffect
<1>1. EvictedInv => PushTakesEffect
  BY DEF EvictedInv, PushTakesEffect, CachesActive
<1> QED
  BY <1>1, StaleInit, StaleStep, EvictedInit, EvictedStep, PTL DEF TrustSpec

-----------------------------------------------------------------------------
(* ReplayCaches                                                            *)

Until(r) == r.expires + ClockSkew

CachesTyped ==
    /\ posture \in {"memory", "shared", "external"} /\ instant \in Nat
    /\ DOMAIN seen = Stores
    /\ \A s \in Stores : IsFiniteSet(DOMAIN seen[s]) /\ \A k \in DOMAIN seen[s] : seen[s][k] \in Int
    /\ admitted \in [Verifier -> [Signed -> 0 .. 2]] /\ ever \in [Signed -> 0 .. 2]

(* The store s has the key of r for as long as r may be presented.         *)
Keeps(s, r) == r.key \in DOMAIN seen[s] /\ seen[s][r.key] >= Until(r)

(* What was answered Fresh and may come again is still in its store; for a *)
(* store outside the process also what was answered before a restart.      *)
CachesRemember ==
    /\ \A v \in Verifier, r \in Signed :
        admitted[v][r] > 0 /\ instant <= Until(r) => Keeps(StoreOf(v), r)
    /\ posture = "external" => \A r \in Signed : ever[r] > 0 /\ instant <= Until(r) => Keeps("store", r)

CachesInv == CachesTyped /\ CachesRemember /\ CachesKeepTheirClass

(* The store of a verifier is one of the stores.                           *)
LEMMA StoreOfType == "store" \in Stores /\ \A v \in Verifier : StoreOf(v) \in Stores
  BY DEF StoreOf, Stores

(* The end of a window is a time after the epoch.                          *)
LEMMA UntilType == \A r \in Signed : Until(r) \in Nat \ {0} /\ r.issued \in Int
  BY CachesAssumption, SMT DEF Until

(* At first every store is empty and nothing was admitted.                 *)
LEMMA CachesInitially == CachesInit => CachesInv
<1> SUFFICES ASSUME CachesInit PROVE CachesInv
  OBVIOUS
<1>1. DOMAIN NoEntries = {} /\ IsFiniteSet({}) /\ Cardinality({}) = 0
  BY FS_EmptySet DEF NoEntries
<1>2. 0 \in 0 .. 2 /\ 0 \in Nat /\ ~(0 > 0) /\ 0 <= 1 /\ 0 + 0 <= 1 /\ 0 <= MaxStoreEntries
  BY CachesAssumption, SMT
<1>3. CachesTyped
  BY <1>1, <1>2 DEF CachesInit, CachesTyped
<1>4. CachesRemember
  BY <1>2 DEF CachesInit, CachesRemember
<1>5. AdmittedOncePerStore
  BY <1>2 DEF CachesInit, AdmittedOncePerStore
<1>6. FullStoreStillRecognizes
  BY <1>1, <1>2 DEF CachesInit, FullStoreStillRecognizes, NoAnswer, Stores
<1>7. ClassIsHonest
  BY <1>2 DEF CachesInit, ClassIsHonest
<1> QED
  BY <1>3, <1>4, <1>5, <1>6, <1>7 DEF CachesInv, CachesKeepTheirClass

(* A store answers Fresh only for a key it does not have, or no longer     *)
(* needs; the bounded store only while there is room.                      *)
LEMMA FreshIsNew ==
    ASSUME CachesTyped, NEW v \in Verifier, NEW r \in Signed,
           "Fresh" \in Decisions(seen[StoreOf(v)], r.key, Until(r))
    PROVE  /\ \A q \in Signed : q.key = r.key /\ instant <= Until(q) => ~Keeps(StoreOf(v), q)
           /\ posture = "shared" => /\ r.key \notin DOMAIN seen[StoreOf(v)]
                                    /\ ~(Cardinality(DOMAIN seen[StoreOf(v)]) >= MaxStoreEntries)
<1> DEFINE held == seen[StoreOf(v)]
<1>1. CASE posture = "memory"
  <2>1. Decisions(held, r.key, Until(r)) = {MemoryDecision(held, r.key)}
    BY <1>1 DEF Decisions
  <2>2. r.key \notin DOMAIN held
    BY <2>1 DEF MemoryDecision
  <2> QED
    BY <1>1, <2>2 DEF Keeps
<1>2. CASE posture = "shared"
  <2>1. Decisions(held, r.key, Until(r)) = {InsertIfAbsent(held, r.key, Until(r))}
    BY <1>2 DEF Decisions
  <2>2. r.key \notin DOMAIN held /\ ~(Cardinality(DOMAIN held) >= MaxStoreEntries)
    BY <2>1 DEF InsertIfAbsent
  <2> QED
    BY <2>2 DEF Keeps
<1>3. CASE posture = "external"
  <2>1. Decisions(held, r.key, Until(r)) = ExternalDecisions(held, r.key, Until(r))
    BY <1>3 DEF Decisions
  <2>2. r.key \notin DOMAIN Pruned(held, instant)
    <3> HIDE DEF held
    <3>1. "Fresh" \in {"Unavailable", MemoryDecision(Pruned(held, instant), r.key)}
      <4>1. CASE IsStale(Until(r), instant)
        <5>1. ExternalDecisions(held, r.key, Until(r)) = {"Unavailable"}
          BY <4>1 DEF ExternalDecisions
        <5>2. "Fresh" \in {"Unavailable"}
          BY <2>1, <5>1 DEF held
        <5> QED
          BY <5>2
      <4>2. CASE ~IsStale(Until(r), instant)
        BY <2>1, <4>2 DEF ExternalDecisions, held
      <4> QED
        BY <4>1, <4>2
    <3>2. MemoryDecision(Pruned(held, instant), r.key) = "Fresh"
      BY <3>1
    <3> QED
      BY <3>2 DEF MemoryDecision
  <2>3. r.key \in DOMAIN held => ~(held[r.key] >= instant)
    BY <2>2 DEF Pruned
  <2>4. r.key \in DOMAIN held => held[r.key] \in Int
    BY StoreOfType DEF CachesTyped
  <2>5. ASSUME NEW q \in Signed, q.key = r.key, instant <= Until(q), Keeps(StoreOf(v), q)
        PROVE  FALSE
    <3>1. r.key \in DOMAIN held /\ held[r.key] >= Until(q)
      BY <2>5 DEF Keeps
    <3>2. instant \in Nat /\ Until(q) \in Nat
      BY UntilType DEF CachesTyped
    <3> HIDE DEF held
    <3> QED
      BY <2>3, <2>4, <2>5, <3>1, <3>2, SMT
  <2> QED
    BY <1>3, <2>5
<1> QED
  BY <1>1, <1>2, <1>3 DEF CachesTyped

(* The bounded store knows a key it holds: the window is never stale.      *)
LEMMA KnownIsReplay ==
    ASSUME posture = "shared", NEW v \in Verifier, NEW r \in Signed, r.key \in DOMAIN seen[StoreOf(v)],
           NEW d \in Decisions(seen[StoreOf(v)], r.key, Until(r))
    PROVE  d = "Replay"
<1>1. d = InsertIfAbsent(seen[StoreOf(v)], r.key, Until(r))
  BY DEF Decisions
<1>2. ~IsStale(Until(r), 0)
  BY UntilType, SMT DEF IsStale
<1> QED
  BY <1>1, <1>2 DEF InsertIfAbsent

(* A request is answered Fresh: nobody who shares the store admitted it.   *)
LEMMA FreshStep ==
    ASSUME CachesInv, NEW v \in Verifier, NEW r \in Signed, instant <= Until(r),
           "Fresh" \in Decisions(seen[StoreOf(v)], r.key, Until(r)),
           seen' = [seen EXCEPT ![StoreOf(v)] = Recorded(@, r.key, Until(r))],
           admitted' = [admitted EXCEPT ![v][r] = Twice(@)], ever' = [ever EXCEPT ![r] = Twice(@)],
           UNCHANGED <<posture, instant>>
    PROVE  /\ CachesTyped' /\ CachesRemember' /\ AdmittedOncePerStore' /\ ClassIsHonest'
           /\ posture = "shared" => Cardinality(DOMAIN seen'["store"]) <= MaxStoreEntries
<1> DEFINE s == StoreOf(v)
           held == seen[s]
           known == DOMAIN held
<1>1. /\ s \in Stores /\ posture' = posture /\ instant' = instant
      /\ \A w : StoreOf(w)' = StoreOf(w)
  BY StoreOfType DEF StoreOf
<1>2. /\ CachesTyped /\ CachesRemember /\ AdmittedOncePerStore /\ ClassIsHonest
      /\ IsFiniteSet(known) /\ \A k \in known : held[k] \in Int
      /\ DOMAIN seen = Stores
  BY <1>1 DEF CachesInv, CachesKeepTheirClass, CachesTyped
<1>3. /\ DOMAIN seen' = Stores
      /\ \A x \in Stores : x # s => seen'[x] = seen[x]
      /\ DOMAIN seen'[s] = known \cup {r.key}
      /\ seen'[s][r.key] = Until(r)
      /\ \A k \in known : k # r.key => seen'[s][k] = held[k]
  BY <1>1, <1>2 DEF Recorded
<1>4. /\ \A q \in Signed : q.key = r.key /\ instant <= Until(q) => ~Keeps(s, q)
      /\ posture = "shared" => r.key \notin known /\ ~(Cardinality(known) >= MaxStoreEntries)
  BY <1>2, FreshIsNew
<1>5. /\ \A w \in Verifier, q \in Signed : admitted[w][q] \in 0 .. 2 /\ ever[q] \in 0 .. 2
      /\ \A w \in Verifier, q \in Signed :
           admitted'[w][q] = IF w = v /\ q = r THEN Twice(admitted[v][r]) ELSE admitted[w][q]
      /\ \A q \in Signed : ever'[q] = IF q = r THEN Twice(ever[r]) ELSE ever[q]
      /\ DOMAIN admitted' = Verifier /\ DOMAIN ever' = Signed
      /\ \A w \in Verifier : DOMAIN admitted'[w] = Signed
  BY <1>2 DEF CachesTyped
<1>6. \A w \in Verifier : StoreOf(w) = s => admitted[w][r] = 0
  <2>1. \A w \in Verifier : StoreOf(w) = s => ~(admitted[w][r] > 0)
    BY <1>2, <1>4 DEF CachesRemember
  <2> QED
    BY <1>5, <2>1, SMT
<1>7. posture = "external" => ever[r] = 0
  <2>1. posture = "external" => s = "store" /\ ~(ever[r] > 0)
    BY <1>2, <1>4 DEF CachesRemember, StoreOf
  <2> QED
    BY <1>5, <2>1, SMT
<1>8. Twice(admitted[v][r]) = 1 /\ Twice(ever[r]) \in 0 .. 2 /\ (posture = "external" => Twice(ever[r]) = 1)
  BY <1>6, <1>7, SMT DEF Twice
<1> HIDE DEF s, held, known
<1>9. CachesTyped'
  <2>1. IsFiniteSet(known \cup {r.key}) /\ Until(r) \in Int
    <3>1. Until(r) \in Int
      BY UntilType, SMT
    <3> QED
      BY <1>2, <3>1, FS_AddElement
  <2>2. ASSUME NEW x \in Stores
        PROVE  IsFiniteSet(DOMAIN seen'[x]) /\ \A k \in DOMAIN seen'[x] : seen'[x][k] \in Int
    <3>1. CASE x = s
      BY <1>2, <1>3, <2>1, <3>1
    <3>2. CASE x # s
      BY <1>2, <1>3, <3>2 DEF CachesTyped
    <3> QED
      BY <3>1, <3>2
  <2>3. 1 \in 0 .. 2
    BY SMT
  <2>4. /\ \A w \in Verifier, q \in Signed : admitted'[w][q] \in 0 .. 2
        /\ \A q \in Signed : ever'[q] \in 0 .. 2
    <3>1. ASSUME NEW w \in Verifier, NEW q \in Signed PROVE admitted'[w][q] \in 0 .. 2
      <4>1. CASE w = v /\ q = r
        BY <1>5, <1>8, <2>3, <4>1
      <4>2. CASE ~(w = v /\ q = r)
        BY <1>5, <4>2
      <4> QED
        BY <4>1, <4>2
    <3>2. ASSUME NEW q \in Signed PROVE ever'[q] \in 0 .. 2
      <4>1. CASE q = r
        BY <1>5, <1>8, <4>1
      <4>2. CASE q # r
        BY <1>5, <4>2
      <4> QED
        BY <4>1, <4>2
    <3> QED
      BY <3>1, <3>2
  <2>5. admitted' \in [Verifier -> [Signed -> 0 .. 2]] /\ ever' \in [Signed -> 0 .. 2]
    <3>1. \A w \in Verifier : admitted'[w] \in [Signed -> 0 .. 2]
      <4> SUFFICES ASSUME NEW w \in Verifier PROVE admitted'[w] \in [Signed -> 0 .. 2]
        OBVIOUS
      <4>1. admitted[w] \in [Signed -> 0 .. 2]
        BY <1>2 DEF CachesTyped
      <4>2. CASE w = v
        BY <2>3, <1>8, <4>1, <4>2, <1>2 DEF CachesTyped
      <4>3. CASE w # v
        BY <4>1, <4>3, <1>2 DEF CachesTyped
      <4> QED
        BY <4>2, <4>3
    <3>2. admitted' \in [Verifier -> [Signed -> 0 .. 2]]
      BY <3>1, <1>2 DEF CachesTyped
    <3>3. ever' \in [Signed -> 0 .. 2]
      BY <1>2, <1>8 DEF CachesTyped
    <3> QED
      BY <3>2, <3>3
  <2> QED
    BY <1>1, <1>2, <1>3, <2>2, <2>5 DEF CachesTyped
<1>10. CachesRemember'
  <2>1. ASSUME NEW x \in Stores, NEW q \in Signed, Keeps(x, q), instant <= Until(q) PROVE Keeps(x, q)'
    <3>1. CASE x = s
      BY <1>3, <1>4, <2>1, <3>1 DEF Keeps, held, known, s, Until
    <3>2. CASE x # s
      BY <1>3, <2>1, <3>2 DEF Keeps, Until
    <3> QED
      BY <3>1, <3>2
  <2>2. Keeps(s, r)'
    <3>1. Until(r) >= Until(r)
      BY UntilType, SMT
    <3> QED
      BY <1>1, <1>3, <3>1 DEF Keeps, s, Until
  <2>3. ASSUME NEW w \in Verifier, NEW q \in Signed, admitted'[w][q] > 0, instant <= Until(q)
        PROVE  Keeps(StoreOf(w), q)'
    <3>1. CASE w = v /\ q = r
      BY <1>1, <2>2, <3>1 DEF s, Keeps
    <3>2. CASE ~(w = v /\ q = r)
      <4>1. admitted[w][q] > 0
        BY <1>5, <2>3, <3>2
      <4>2. Keeps(StoreOf(w), q)
        BY <1>2, <2>3, <4>1 DEF CachesRemember
      <4> QED
        BY <1>1, <2>1, <2>3, <4>2, StoreOfType DEF Keeps
    <3> QED
      BY <3>1, <3>2
  <2>4. ASSUME posture = "external", NEW q \in Signed, ever'[q] > 0, instant <= Until(q)
        PROVE  Keeps("store", q)'
    <3>1. s = "store"
      BY <2>4 DEF s, StoreOf
    <3>2. CASE q = r
      <4>1. s' = "store"
        BY <1>1, <3>1 DEF s
      <4> QED
        BY <2>2, <3>2, <4>1 DEF Keeps, Until
    <3>3. CASE q # r
      <4>1. ever[q] > 0
        BY <1>5, <2>4, <3>3
      <4>2. Keeps("store", q)
        BY <1>2, <2>4, <4>1 DEF CachesRemember
      <4> QED
        BY <2>1, <2>4, <4>2, StoreOfType
    <3> QED
      BY <3>2, <3>3
  <2> QED
    BY <1>1, <2>3, <2>4 DEF CachesRemember, Until
<1>11. AdmittedOncePerStore'
  <2> SUFFICES ASSUME NEW q \in Signed, NEW x \in Verifier, NEW w \in Verifier
               PROVE  /\ admitted'[x][q] <= 1
                      /\ x # w /\ StoreOf(x) = StoreOf(w) => admitted'[x][q] + admitted'[w][q] <= 1
    BY <1>1 DEF AdmittedOncePerStore
  <2>1. /\ admitted[x][q] <= 1
        /\ x # w /\ StoreOf(x) = StoreOf(w) => admitted[x][q] + admitted[w][q] <= 1
    BY <1>2 DEF AdmittedOncePerStore
  <2>2. admitted[x][q] \in 0 .. 2 /\ admitted[w][q] \in 0 .. 2
    BY <1>5
  <2>3. CASE q # r \/ (x # v /\ w # v)
    BY <1>5, <2>1, <2>3
  <2>4. CASE q = r /\ x = v
    <3>1. admitted'[x][q] = 1
      BY <1>5, <1>8, <2>4
    <3>2. x # w /\ StoreOf(x) = StoreOf(w) => admitted'[w][q] = 0
      BY <1>5, <1>6, <2>4 DEF s
    <3> QED
      BY <3>1, <3>2, SMT
  <2>5. CASE q = r /\ w = v /\ x # v
    <3>1. admitted'[w][q] = 1 /\ admitted'[x][q] = admitted[x][q]
      BY <1>5, <1>8, <2>5
    <3>2. StoreOf(x) = StoreOf(w) => admitted'[x][q] = 0
      BY <1>6, <2>5, <3>1 DEF s
    <3> QED
      BY <2>1, <3>1, <3>2, SMT
  <2> QED
    BY <2>3, <2>4, <2>5
<1>12. ClassIsHonest'
  <2> SUFFICES ASSUME DurabilityClass(posture) = "Durable", NEW q \in Signed PROVE ever'[q] <= 1
    BY <1>1 DEF ClassIsHonest
  <2>1. posture = "external"
    BY DEF DurabilityClass, StoreClass
  <2>2. CASE q = r
    BY <1>5, <1>8, <2>1, <2>2, SMT
  <2>3. CASE q # r
    BY <1>2, <1>5, <2>3 DEF ClassIsHonest
  <2> QED
    BY <2>2, <2>3
<1>13. ASSUME posture = "shared" PROVE Cardinality(DOMAIN seen'["store"]) <= MaxStoreEntries
  <2>1. s = "store"
    BY <1>13 DEF s, StoreOf
  <2>2. Cardinality(known \cup {r.key}) = Cardinality(known) + 1 /\ Cardinality(known) \in Nat
    BY <1>2, <1>4, <1>13, FS_AddElement, FS_CardinalityType
  <2>3. Cardinality(known) + 1 <= MaxStoreEntries
    BY <1>4, <1>13, <2>2, CachesAssumption, SMT
  <2> QED
    BY <1>3, <2>1, <2>2, <2>3
<1> QED
  BY <1>9, <1>10, <1>11, <1>12, <1>13

(* Every step of the caches preserves the invariant.                       *)
LEMMA CachesStep == CachesInv /\ [CachesNext]_cacheVars => CachesInv'
<1> SUFFICES ASSUME CachesInv, [CachesNext]_cacheVars PROVE CachesInv'
  OBVIOUS
<1> USE DEF CachesInv, CachesKeepTheirClass
<1>1. ASSUME NEW v \in Verifier, NEW r \in Signed, CheckAndInsert(v, r) PROVE CachesInv'
  <2>1. PICK d \in Decisions(seen[StoreOf(v)], r.key, Until(r)) :
          /\ answer' = [verifier |-> v, request |-> r, decision |-> d,
                        known |-> r.key \in DOMAIN seen[StoreOf(v)]]
          /\ IF d = "Fresh"
             THEN /\ seen' = [seen EXCEPT ![StoreOf(v)] = Recorded(@, r.key, Until(r))]
                  /\ admitted' = [admitted EXCEPT ![v][r] = Twice(@)]
                  /\ ever' = [ever EXCEPT ![r] = Twice(@)]
             ELSE UNCHANGED <<seen, admitted, ever>>
    BY <1>1 DEF CheckAndInsert, Until
  <2>2. instant <= Until(r) /\ UNCHANGED <<posture, instant>>
    BY <1>1 DEF CheckAndInsert, Until
  <2>3. posture = "shared" /\ answer'.known => answer'.decision = "Replay"
    <3>1. answer'.decision = d /\ (answer'.known <=> r.key \in DOMAIN seen[StoreOf(v)])
      BY <2>1
    <3> QED
      BY <3>1, KnownIsReplay
  <2>4. CASE d = "Fresh"
    <3>1. /\ CachesTyped' /\ CachesRemember' /\ AdmittedOncePerStore' /\ ClassIsHonest'
          /\ posture = "shared" => Cardinality(DOMAIN seen'["store"]) <= MaxStoreEntries
      BY <2>1, <2>2, <2>4, FreshStep
    <3> QED
      BY <2>2, <2>3, <3>1 DEF FullStoreStillRecognizes
  <2>5. CASE d # "Fresh"
    <3>1. UNCHANGED <<posture, seen, instant, admitted, ever>>
      BY <2>1, <2>2, <2>5
    <3>2. CachesTyped' /\ CachesRemember' /\ AdmittedOncePerStore' /\ ClassIsHonest'
      BY <3>1 DEF CachesTyped, CachesRemember, AdmittedOncePerStore, ClassIsHonest, Keeps, StoreOf
    <3> QED
      BY <2>3, <3>1, <3>2 DEF FullStoreStillRecognizes
  <2> QED
    BY <2>4, <2>5
<1>2. ASSUME NEW s \in Stores, PruneStore(s) PROVE CachesInv'
  <2> DEFINE held == seen[s]
  <2>1. /\ UNCHANGED <<posture, instant, answer, admitted, ever>> /\ DOMAIN seen' = Stores
        /\ \A x \in Stores : x # s => seen'[x] = seen[x]
        /\ seen'[s] = Pruned(held, instant)
    BY <1>2 DEF PruneStore, CachesTyped
  <2>2. /\ DOMAIN seen'[s] \subseteq DOMAIN held
        /\ \A k \in DOMAIN seen'[s] : seen'[s][k] = held[k]
        /\ \A k \in DOMAIN held : held[k] >= instant => k \in DOMAIN seen'[s]
    BY <2>1 DEF Pruned
  <2>3. ASSUME NEW x \in Stores
        PROVE  /\ IsFiniteSet(DOMAIN seen'[x]) /\ \A k \in DOMAIN seen'[x] : seen'[x][k] \in Int
               /\ Cardinality(DOMAIN seen'[x]) <= Cardinality(DOMAIN seen[x])
               /\ Cardinality(DOMAIN seen'[x]) \in Nat /\ Cardinality(DOMAIN seen[x]) \in Nat
    <3>1. IsFiniteSet(DOMAIN seen[x]) /\ \A k \in DOMAIN seen[x] : seen[x][k] \in Int
      BY DEF CachesTyped
    <3>2. DOMAIN seen'[x] \in SUBSET DOMAIN seen[x] /\ \A k \in DOMAIN seen'[x] : seen'[x][k] = seen[x][k]
      BY <2>1, <2>2
    <3>3. IsFiniteSet(DOMAIN seen'[x]) /\ Cardinality(DOMAIN seen'[x]) <= Cardinality(DOMAIN seen[x])
      BY <3>1, <3>2, FS_Subset
    <3> QED
      BY <3>1, <3>2, <3>3, FS_CardinalityType
  <2>4. ASSUME NEW x \in Stores, NEW q \in Signed, Keeps(x, q), instant <= Until(q) PROVE Keeps(x, q)'
    <3>1. CASE x = s
      <4>1. q.key \in DOMAIN held /\ held[q.key] >= Until(q) /\ held[q.key] \in Int
        BY <2>4, <3>1 DEF Keeps, CachesTyped
      <4>2. held[q.key] >= instant
        <5>1. instant \in Nat /\ Until(q) \in Nat
          BY UntilType DEF CachesTyped
        <5> HIDE DEF held
        <5> QED
          BY <2>4, <4>1, <5>1, SMT
      <4> QED
        BY <2>2, <3>1, <4>1, <4>2 DEF Keeps, Until
    <3>2. CASE x # s
      BY <2>1, <2>4, <3>2 DEF Keeps, Until
    <3> QED
      BY <3>1, <3>2
  <2>5. CachesTyped' /\ AdmittedOncePerStore' /\ ClassIsHonest'
    BY <2>1, <2>3 DEF CachesTyped, AdmittedOncePerStore, ClassIsHonest, StoreOf
  <2>6. CachesRemember'
    BY <2>1, <2>4, StoreOfType DEF CachesRemember, StoreOf, Until
  <2>7. FullStoreStillRecognizes'
    <3>1. "store" \in Stores
      BY DEF Stores
    <3>2. posture = "shared" => Cardinality(DOMAIN seen'["store"]) <= MaxStoreEntries
      BY <2>3, <3>1, CachesAssumption, SMT DEF FullStoreStillRecognizes
    <3> QED
      BY <2>1, <3>2 DEF FullStoreStillRecognizes
  <2> QED
    BY <2>5, <2>6, <2>7
<1>3. CASE Restart
  <2>1. DOMAIN NoEntries = {} /\ IsFiniteSet({}) /\ Cardinality({}) = 0
    BY FS_EmptySet DEF NoEntries
  <2>2. 0 \in 0 .. 2 /\ ~(0 > 0) /\ 0 <= 1 /\ 0 + 0 <= 1 /\ 0 <= MaxStoreEntries
    BY CachesAssumption, SMT
  <2>3. /\ \A x \in Stores : seen'[x] = IF posture = "external" THEN seen[x] ELSE NoEntries
        /\ DOMAIN seen' = Stores /\ answer' = NoAnswer /\ UNCHANGED <<posture, instant, ever>>
        /\ admitted' = [v \in Verifier |-> [r \in Signed |-> 0]]
    BY <1>3 DEF Restart
  <2>4. CachesTyped'
    BY <2>1, <2>2, <2>3 DEF CachesTyped
  <2>5. CachesRemember'
    BY <2>2, <2>3 DEF CachesRemember, Keeps, Stores
  <2>6. AdmittedOncePerStore' /\ ClassIsHonest'
    BY <2>2, <2>3 DEF AdmittedOncePerStore, ClassIsHonest
  <2>7. FullStoreStillRecognizes'
    BY <2>1, <2>2, <2>3 DEF FullStoreStillRecognizes, NoAnswer, Stores
  <2> QED
    BY <2>4, <2>5, <2>6, <2>7
<1>4. CASE CacheTick
  <2>1. UNCHANGED <<posture, seen, answer, admitted, ever>> /\ instant' = instant + 1
    BY <1>4 DEF CacheTick
  <2>2. instant' \in Nat /\ \A r \in Signed : instant' <= Until(r) => instant <= Until(r)
    BY <2>1, UntilType, SMT DEF CachesTyped
  <2>3. CachesTyped' /\ AdmittedOncePerStore' /\ ClassIsHonest' /\ FullStoreStillRecognizes'
    BY <2>1, <2>2 DEF CachesTyped, AdmittedOncePerStore, ClassIsHonest, FullStoreStillRecognizes, StoreOf
  <2>4. CachesRemember'
    BY <2>1, <2>2 DEF CachesRemember, Keeps, StoreOf, Until
  <2> QED
    BY <2>3, <2>4
<1>5. CASE UNCHANGED cacheVars
  BY <1>5 DEF cacheVars, CachesTyped, CachesRemember, AdmittedOncePerStore, ClassIsHonest,
              FullStoreStillRecognizes, Keeps, StoreOf
<1> QED
  BY <1>1, <1>2, <1>3, <1>4, <1>5 DEF CachesNext

(* For any requests, keys, windows and ceiling, in every posture and       *)
(* through prunings and restarts: caches that share a store admit a        *)
(* request once, a full store still knows its keys, and a cache that calls *)
(* itself durable never admits a request twice.                            *)
THEOREM CachesAreTrueToClass == CachesSpec => []CachesKeepTheirClass
<1>1. CachesInv => CachesKeepTheirClass
  BY DEF CachesInv
<1> QED
  BY <1>1, CachesInitially, CachesStep, PTL DEF CachesSpec
=============================================================================
