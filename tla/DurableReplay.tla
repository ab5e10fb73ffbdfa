---------------------------- MODULE DurableReplay ----------------------------
(***************************************************************************)
(* The single-node file-backed replay cache (mcps-proxy, durable_replay),  *)
(* driven by the single-threaded serve loop that owns it.                  *)
(*                                                                         *)
(* The cache is a map in memory, a file that the map is written to on      *)
(* every insert (temp file, fsync, rename, fsync of the directory) and a   *)
(* counter that makes every PruneEvery-th insert evict expired entries.    *)
(* The process may be killed, and the host may lose power, between any two *)
(* of these steps; each system call of the write may fail.                 *)
(*                                                                         *)
(* A definition named D_Variant is D with a plausible defect.  No          *)
(* specification uses it: it shows that a property would notice.           *)
(***************************************************************************)
EXTENDS Requests, FiniteSets

CONSTANTS
    Absent,      \* no entry under a key
    PruneEvery,  \* PRUNE_EVERY_N_INSERTS
    MaxEntries,  \* max_entries
    MaxClock     \* bound: the clock stops here

ASSUME DurableAssumption ==
    /\ IsFiniteSet(Key)
    /\ Absent \notin Int
    /\ PruneEvery \in Nat \ {0}
    /\ MaxEntries \in Nat
    /\ MaxClock \in Nat

VARIABLES
    clock,       \* the host's clock, Unix seconds
    now,         \* now_unix: the clock as the request being served read it
    up,          \* the process is running and the cache is open
    entries,     \* the map in memory: retain_until of each key
    inserts,     \* inserts_since_prune
    file,        \* what the path names, as a running system sees it
    durable,     \* what the path may name after a power loss
    pc,          \* where the operation in progress stands
    cur,         \* the request it is for; NoRequest in prune
    verdict,     \* the last answer of check_and_insert
    calls,       \* history: how often each key was presented (0, 1, more)
    admissions,  \* history: how often each request was answered "fresh"
    loaded,      \* history: the keys that open read from the file
    stuck        \* history: refusals in a row that an eviction would avoid

cacheVars == <<entries, inserts, file, durable>>
history   == <<calls, admissions, loaded, stuck>>
vars == <<clock, now, up, cacheVars, pc, cur, verdict, history>>

Content == [Key -> Int \cup {Absent}]
Empty   == [k \in Key |-> Absent]

Present(m) == {k \in Key : m[k] # Absent}
Size(m)    == Cardinality(Present(m))

Retained_Exclusive(m, t) ==
    [k \in Key |-> IF m[k] # Absent /\ m[k] <= t THEN Absent ELSE m[k]]

(* entries.retain(|_, retain_until| retain_until >= now)                   *)
Retained(m, t) ==
    [k \in Key |-> IF m[k] # Absent /\ m[k] < t THEN Absent ELSE m[k]]

TypeOK ==
    /\ clock \in Nat
    /\ now \in Nat
    /\ up \in BOOLEAN
    /\ entries \in Content
    /\ inserts \in 0 .. PruneEvery - 1
    /\ file \in Content
    /\ durable \subseteq Content
    /\ pc \in {"idle", "serve", "check", "persist", "dirsync"}
    /\ cur \in Request \cup {NoRequest}
    /\ verdict \in {"none", "fresh", "replay", "unavailable"}
    /\ calls \in [Key -> 0 .. 2]
    /\ admissions \in [Request -> Nat]
    /\ loaded \subseteq Key
    /\ stuck \in Nat

(* The first start: there is no file yet, and open returns an empty cache. *)
Init ==
    /\ clock = 0
    /\ now = 0
    /\ up = TRUE
    /\ entries = Empty
    /\ inserts = 0
    /\ file = Empty
    /\ durable = {Empty}
    /\ pc = "idle"
    /\ cur = NoRequest
    /\ verdict = "none"
    /\ calls = [k \in Key |-> 0]
    /\ admissions = [r \in Request |-> 0]
    /\ loaded = {}
    /\ stuck = 0

(***************************************************************************)
(* check_and_insert, from the arrival of the request to the answer.        *)
(***************************************************************************)

(* The serve loop has read a request; handle gets the time it arrived.     *)
Serve ==
    /\ up /\ pc = "idle"
    /\ pc' = "serve"
    /\ now' = clock
    /\ UNCHANGED <<clock, up, cacheVars, cur, verdict, history>>

(* A check before the replay check rejects the request.                    *)
Abandon ==
    /\ pc = "serve"
    /\ pc' = "idle"
    /\ now' = 0
    /\ UNCHANGED <<clock, up, cacheVars, cur, verdict, history>>

(* Request r passed the freshness check, at the time it arrived, and every *)
(* check between that one and the replay check.                            *)
Call(r) ==
    /\ pc = "serve"
    /\ CheckFreshness(r, now)
    /\ pc' = "check"
    /\ cur' = r
    /\ verdict' = "none"
    /\ calls' = [calls EXCEPT ![KeyOf[r]] = IF @ = 0 THEN 1 ELSE 2]
    /\ UNCHANGED <<clock, now, up, cacheVars, admissions, loaded, stuck>>

(* The call returns v; from here on nothing below reads now again.         *)
Answer(v) ==
    /\ pc' = "idle"
    /\ now' = 0
    /\ cur' = NoRequest
    /\ verdict' = v

CurKey == KeyOf[cur]

(* The cadence counter counts attempts that are not replays.               *)
Counted  == inserts + 1
PruneDue == Counted >= PruneEvery
Kept     == IF PruneDue THEN Retained(entries, clock) ELSE entries

(* The counter starts again when the prune it triggers has run.            *)
Recount == inserts' = IF PruneDue THEN 0 ELSE Counted

AnswerReplay ==
    /\ pc = "check"
    /\ entries[CurKey] # Absent
    /\ Answer("replay")
    /\ UNCHANGED <<clock, up, cacheVars, history>>

RefuseAtCapacity_Uncounted ==
    /\ pc = "check"
    /\ entries[CurKey] = Absent
    /\ Size(entries) >= MaxEntries
    /\ Answer("unavailable")
    /\ stuck' = IF Retained(entries, clock) # entries THEN stuck + 1 ELSE 0
    /\ UNCHANGED <<clock, up, cacheVars, calls, admissions, loaded>>

RefuseAtCapacity ==
    /\ pc = "check"
    /\ entries[CurKey] = Absent
    /\ Recount
    /\ entries' = Kept
    /\ Size(Kept) >= MaxEntries
    /\ Answer("unavailable")
    /\ stuck' = IF Retained(entries, clock) # entries THEN stuck + 1 ELSE 0
    /\ UNCHANGED <<clock, up, file, durable, calls, admissions, loaded>>

Insert ==
    /\ pc = "check"
    /\ entries[CurKey] = Absent
    /\ Recount
    /\ Size(Kept) < MaxEntries
    /\ entries' = [Kept EXCEPT ![CurKey] = RetainUntil(cur)]
    /\ pc' = "persist"
    /\ stuck' = 0
    /\ UNCHANGED <<clock, now, up, file, durable, cur, verdict, calls,
                   admissions, loaded>>

(***************************************************************************)
(* persist: one step up to the rename, one for the directory.              *)
(***************************************************************************)

Rollback_Dropped == entries' = entries

(* A failed insert is taken back; a failed prune stays pruned in memory.   *)
Rollback ==
    entries' = IF cur = NoRequest THEN entries
               ELSE [entries EXCEPT ![CurKey] = Absent]

PersistFailed ==
    /\ Rollback
    /\ Answer(IF cur = NoRequest THEN verdict ELSE "unavailable")
    /\ UNCHANGED <<clock, up, inserts, file, durable, history>>

(* Creating, writing or syncing the temp file, or the rename, fails: the   *)
(* path still names the previous content.                                  *)
WriteFails == pc = "persist" /\ PersistFailed

(* The rename: the system sees the new file at once; after a power loss it *)
(* may find this content, or one that an earlier rename left unsynced.     *)
Rename ==
    /\ pc = "persist"
    /\ file' = entries
    /\ durable' = durable \cup {entries}
    /\ pc' = "dirsync"
    /\ UNCHANGED <<clock, now, up, entries, inserts, cur, verdict, history>>

(* The directory cannot be opened or synced: the insert is taken back in   *)
(* memory, but the file already holds it.                                  *)
DirSyncFails == pc = "dirsync" /\ PersistFailed

DirSync_Skipped ==
    /\ pc = "dirsync"
    /\ durable' = durable
    /\ Answer(IF cur = NoRequest THEN verdict ELSE "fresh")
    /\ admissions' = IF cur = NoRequest THEN admissions
                     ELSE [admissions EXCEPT ![cur] = @ + 1]
    /\ UNCHANGED <<clock, up, entries, inserts, file, calls, loaded, stuck>>

DirSync ==
    /\ pc = "dirsync"
    /\ durable' = {file}
    /\ Answer(IF cur = NoRequest THEN verdict ELSE "fresh")
    /\ admissions' = IF cur = NoRequest THEN admissions
                     ELSE [admissions EXCEPT ![cur] = @ + 1]
    /\ UNCHANGED <<clock, up, entries, inserts, file, calls, loaded, stuck>>

(* The explicit prune: evict in memory, then persist.                      *)
Prune ==
    /\ up /\ pc = "idle"
    /\ entries' = Retained(entries, clock)
    /\ pc' = "persist"
    /\ stuck' = 0
    /\ UNCHANGED <<clock, now, up, inserts, file, durable, cur, verdict, calls,
                   admissions, loaded>>

(***************************************************************************)
(* The environment: time, process death, power loss, restart.              *)
(***************************************************************************)

Tick ==
    /\ clock < MaxClock
    /\ clock' = clock + 1
    /\ UNCHANGED <<now, up, cacheVars, pc, cur, verdict, history>>

Stopped ==
    /\ up' = FALSE
    /\ entries' = Empty
    /\ inserts' = 0
    /\ Answer("none")
    /\ loaded' = {}
    /\ stuck' = 0
    /\ UNCHANGED <<clock, calls, admissions>>

Crash == up /\ Stopped /\ UNCHANGED <<file, durable>>

PowerLoss ==
    /\ Stopped
    /\ \E c \in durable : file' = c /\ durable' = {c}

(* open: read the file, if there is one, and count inserts from zero.      *)
Open ==
    /\ ~up
    /\ up' = TRUE
    /\ entries' = file
    /\ loaded' = Present(file)
    /\ UNCHANGED <<clock, now, inserts, file, durable, pc, cur, verdict, calls,
                   admissions, stuck>>

Step ==
    \/ AnswerReplay \/ RefuseAtCapacity \/ Insert
    \/ WriteFails \/ Rename \/ DirSyncFails \/ DirSync

Next ==
    \/ Serve \/ Abandon \/ \E r \in Request : Call(r)
    \/ Step
    \/ Prune \/ Tick \/ Crash \/ PowerLoss \/ Open

Spec == Init /\ [][Next]_vars

-----------------------------------------------------------------------------
(* A request is answered "fresh" at most once, across failed writes, kills,  *)
(* power losses and restarts: what check_and_insert is for.                  *)
AtMostOnce == \A r \in Request : admissions[r] <= 1

(* While a request that was admitted could still pass the freshness check -  *)
(* at the current time, or at the time the request being served arrived -    *)
(* its key is in memory, in the file and in every content that a power loss  *)
(* could leave behind, with its own retain_until.  retain's >= boundary and  *)
(* the two fsyncs of persist are what this rests on.                         *)
Remembered == \A r \in Request :
    /\ admissions[r] > 0
    /\ clock <= RetainUntil(r) \/ (pc \in {"serve", "check"} /\ now <= RetainUntil(r))
    => /\ up => entries[KeyOf[r]] = RetainUntil(r)
       /\ file[KeyOf[r]] = RetainUntil(r)
       /\ \A c \in durable : c[KeyOf[r]] = RetainUntil(r)

(* Between two operations, memory holds no key but the ones read at open and *)
(* the ones of admitted requests: a failed write leaves nothing behind, so   *)
(* the same request can be retried (the rollback in check_and_insert).       *)
RefusalLeavesNoTrace ==
    pc \in {"idle", "serve", "check"} =>
        \A k \in Present(entries) \ loaded :
            \E r \in Request : KeyOf[r] = k /\ admissions[r] > 0

(* A full cache that holds an expired entry refuses fewer than PruneEvery    *)
(* times in a row: refusals count toward the cadence of the inline prune,    *)
(* so the ceiling drains without a scheduler.                                *)
CapacityDrains == stuck < PruneEvery

(* The cache keeps the promise of the ReplayCache trait to its one caller.   *)
Contract == INSTANCE ReplayContract WITH
    Caller  <- {"proxy"},
    pending <- [c \in {"proxy"} |-> cur],
    verdict <- [c \in {"proxy"} |-> verdict]

(* check_and_insert implements the contract of ReplayCache: at most one      *)
(* "fresh" per request, "replay" only for a key presented before.            *)
KeepsContract == Contract!Spec
=============================================================================
