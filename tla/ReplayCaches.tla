----------------------------- MODULE ReplayCaches -----------------------------
(***************************************************************************)
(* The replay caches that keep their entries in memory (mcps-core, replay; *)
(* mcps-proxy, shared_replay), and what each says of its own durability.   *)
(*                                                                         *)
(* Two verifiers of one process hold a cache each.  In posture "memory"    *)
(* each is an InMemoryReplayCache; in the others each is a                 *)
(* SharedReplayCache over clones of one store: the in-memory one           *)
(* ("shared"), or an external one that outlives the process ("external").  *)
(* The external store stands for Redis or etcd as this layer sees them;    *)
(* SharedReplay models them.                                               *)
(***************************************************************************)
EXTENDS Integers, FiniteSets

CONSTANTS
    Verifier,         \* the caches of the process
    Signed,           \* requests: [key, issued, expires], of which keys may repeat
    ClockSkew,        \* max_clock_skew_secs
    MaxStoreEntries,  \* MAX_ATOMIC_STORE_ENTRIES
    LastInstant       \* bound: the clock stops here

(* Times are Unix times: every window ends after the epoch.                *)
ASSUME CachesAssumption ==
    /\ ClockSkew \in Nat /\ MaxStoreEntries \in Nat
    /\ \A r \in Signed : r.issued \in Int /\ r.expires \in Nat \ {0}

VARIABLES
    posture,   \* how the caches are built
    seen,      \* retain_until by key, of each store
    instant,   \* the clock
    answer,    \* the last decision: [verifier, request, decision, known]
    admitted,  \* history: how often a verifier answered Fresh since the last restart
    ever       \* history: how often a request was answered Fresh at all

cacheVars == <<posture, seen, instant, answer, admitted, ever>>

Twice(n) == IF n = 0 THEN 1 ELSE 2    \* 2 is "more than once"

(* The store behind a verifier's cache: its own map, or the one of which   *)
(* every cache holds a clone.                                              *)
Stores == Verifier \cup {"store"}
StoreOf(v) == IF posture = "memory" THEN v ELSE "store"

NoEntries == [k \in {} |-> 0]
Recorded(entries, k, until) ==
    [x \in DOMAIN entries \cup {k} |-> IF x = k THEN until ELSE entries[x]]

(* Pruning keeps what a request of that key could still be presented for.  *)
Pruned_Early(entries, now) ==
    [k \in {k \in DOMAIN entries : entries[k] > now} |-> entries[k]]

Pruned(entries, now) ==
    [k \in {k \in DOMAIN entries : entries[k] >= now} |-> entries[k]]

NoAnswer == [verifier |-> "none", request |-> [key |-> "none", issued |-> 0, expires |-> 0],
             decision |-> "none", known |-> FALSE]

CachesInit ==
    /\ posture \in {"memory", "shared", "external"}
    /\ seen = [s \in Stores |-> NoEntries]
    /\ instant = 0
    /\ answer = NoAnswer
    /\ admitted = [v \in Verifier |-> [r \in Signed |-> 0]]
    /\ ever = [r \in Signed |-> 0]

-----------------------------------------------------------------------------

(* InMemoryReplayCache::check_and_insert never fails.                      *)
MemoryDecision(entries, k) == IF k \in DOMAIN entries THEN "Replay" ELSE "Fresh"

IsStale(until, now) == until - now <= 0

(* InMemoryAtomicReplayStore::insert_if_absent; now is the vestigial 0.    *)
InsertIfAbsent(entries, k, until) ==
    IF IsStale(until, 0) THEN "Unavailable"
    ELSE IF k \in DOMAIN entries THEN "Replay"
    ELSE IF Cardinality(DOMAIN entries) >= MaxStoreEntries THEN "Unavailable"
    ELSE "Fresh"

(* The external store expires entries by itself, with the clock of the     *)
(* presenting verifier; it may be out of reach.                            *)
ExternalDecisions(entries, k, until) ==
    IF IsStale(until, instant) THEN {"Unavailable"}
    ELSE {"Unavailable", MemoryDecision(Pruned(entries, instant), k)}

Decisions(entries, k, until) ==
    CASE posture = "memory"   -> {MemoryDecision(entries, k)}
      [] posture = "shared"   -> {InsertIfAbsent(entries, k, until)}
      [] posture = "external" -> ExternalDecisions(entries, k, until)

(* A verifier presents a request that passed every earlier check, the      *)
(* freshness window included.                                              *)
CheckAndInsert(v, r) ==
    LET until == r.expires + ClockSkew
        s == StoreOf(v)
    IN  /\ r.issued - ClockSkew <= instant /\ instant <= r.expires + ClockSkew
        /\ \E d \in Decisions(seen[s], r.key, until) :
             /\ answer' = [verifier |-> v, request |-> r, decision |-> d,
                           known |-> r.key \in DOMAIN seen[s]]
             /\ IF d = "Fresh"
                THEN /\ seen' = [seen EXCEPT ![s] = Recorded(@, r.key, until)]
                     /\ admitted' = [admitted EXCEPT ![v][r] = Twice(@)]
                     /\ ever' = [ever EXCEPT ![r] = Twice(@)]
                ELSE UNCHANGED <<seen, admitted, ever>>
        /\ UNCHANGED <<posture, instant>>

PruneStore(s) ==
    /\ seen' = [seen EXCEPT ![s] = Pruned(@, instant)]
    /\ UNCHANGED <<posture, instant, answer, admitted, ever>>

(* The process restarts: what is only in its memory is gone.               *)
Restart ==
    /\ seen' = [s \in Stores |-> IF posture = "external" THEN seen[s] ELSE NoEntries]
    /\ answer' = NoAnswer
    /\ admitted' = [v \in Verifier |-> [r \in Signed |-> 0]]
    /\ UNCHANGED <<posture, instant, ever>>

CacheTick ==
    /\ instant < LastInstant
    /\ instant' = instant + 1
    /\ UNCHANGED <<posture, seen, answer, admitted, ever>>

CachesNext ==
    \/ \E v \in Verifier, r \in Signed : CheckAndInsert(v, r)
    \/ \E s \in Stores : PruneStore(s)
    \/ Restart
    \/ CacheTick

CachesSpec == CachesInit /\ [][CachesNext]_cacheVars

-----------------------------------------------------------------------------
(* ReplayDurabilityClass: a store is single-process unless it says         *)
(* otherwise, and SharedReplayCache passes its store's word on.            *)

StoreClass(p) == IF p = "external" THEN "Durable" ELSE "SingleProcessReference"

DurabilityClass(p) == IF p = "memory" THEN "SingleProcessReference" ELSE StoreClass(p)

-----------------------------------------------------------------------------
(* Until a restart, a request is answered Fresh at most once by the caches *)
(* that share a store, whenever the entries are pruned: an entry that was  *)
(* evicted belongs to a request that is no longer fresh                    *)
(* (check_and_insert, insert_if_absent, prune).                            *)
AdmittedOncePerStore ==
    \A r \in Signed, v, w \in Verifier :
        /\ admitted[v][r] <= 1
        /\ v # w /\ StoreOf(v) = StoreOf(w) => admitted[v][r] + admitted[w][r] <= 1

(* A full store refuses new keys and grows no further, and it still        *)
(* recognizes the keys it holds (the ceiling of insert_if_absent).         *)
FullStoreStillRecognizes ==
    posture = "shared" =>
        /\ Cardinality(DOMAIN seen["store"]) <= MaxStoreEntries
        /\ answer.known => answer.decision = "Replay"

(* A cache that declares itself durable never answers Fresh twice for one  *)
(* request, across verifiers, prunings and restarts: the strict startup    *)
(* gate relies on that word alone (durability_class).                      *)
ClassIsHonest ==
    DurabilityClass(posture) = "Durable" => \A r \in Signed : ever[r] <= 1

(* The in-memory caches keep what the ReplayCache trait promises for their *)
(* class: single use per store, the ceiling, and an honest class.          *)
CachesKeepTheirClass == AdmittedOncePerStore /\ FullStoreStillRecognizes /\ ClassIsHonest
=============================================================================
