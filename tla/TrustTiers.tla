------------------------------ MODULE TrustTiers ------------------------------
(***************************************************************************)
(* Whose keys mcps-proxy trusts, and for how long an answer to that        *)
(* question is used: the revocation tiers over a source of trust, and the  *)
(* operator's published set of response-signing keys.                      *)
(***************************************************************************)
EXTENDS Integers, FiniteSets, Sequences, FiniteSetsExt

(***************************************************************************)
(* The three revocation tiers of mcps-proxy over one source of trust: the  *)
(* bounded cache (trust_cache.rs), the cache with push invalidation        *)
(* (push_trust.rs) and live resolution (live_trust.rs). The resolver is    *)
(* shared by the callers of a threaded server; between the clock read, the *)
(* cache lookup, the call to the source and the store of its answer, each  *)
(* under its own lock, other callers, the operator and the clock take      *)
(* steps.                                                                  *)
(*                                                                         *)
(* The clock is the wall clock: it advances, and it may be set back. The   *)
(* time that has really passed is `clock + back'.                          *)
(***************************************************************************)

CONSTANTS
    Binding,      \* the (signer, key_id) pairs
    Caller,       \* the threads that resolve
    Window,       \* t_secs of active and revoked answers
    NegativeTtl,  \* negative_ttl_secs of the other answers
    Never,        \* no entry, no instant
    Says(_, _, _),\* the answer of the source's table for a binding at a time
    Table,        \* the tables the source may hold
    Replaces(_),  \* the tables an operator may replace a table by
    MaxChanges,   \* bound on changes of the source, outages and pushes
    MaxClock,     \* bound on the time that passes
    MaxBack       \* bound on how far the clock is set back in total

Outcome == {"active", "revoked", "not_found", "malformed"}

ASSUME TrustAssumption ==
    /\ Window \in Nat /\ NegativeTtl \in Nat
    /\ Never \notin Int /\ Never \notin [outcome : Outcome, expires_at : Int]
    /\ MaxClock \in Nat /\ MaxBack \in Nat
    /\ \A t \in Table, b \in Binding, n \in -MaxBack .. MaxClock :
        Says(t, b, n) \in Outcome
    /\ \A t \in Table : Replaces(t) \subseteq Table

VARIABLES
    tier,     \* the declared revocation tier
    changes,  \* how many of these have happened
    clock, back,
    table,    \* what the source of trust holds
    up,       \* whether the source answers
    grants,   \* the second authority of a live check
    pending,  \* pushed revocations not yet drained
    cache,    \* the bounded cache
    call,     \* the call each caller is in
    served,   \* the last answer of any call
    said,     \* history: when the source last gave each answer
    gone,     \* history: evicted by a push when the source no longer said active
    overlap   \* history: a fill of an active answer was under way then

env   == <<tier, clock, back, table, up, grants, said, changes>>
tvars == <<env, pending, cache, call, served, gone, overlap>>

elapsed == clock + back
Source(b) == Says(table, b, clock)

(* How long each kind of answer may be served from the cache.              *)
Ttl(o) == IF o \in {"active", "revoked"} THEN Window ELSE NegativeTtl

Idle == [pc |-> "idle", b |-> Never, now |-> 0, at |-> 0, answer |-> "none",
         events |-> {}]

Unserved == [b |-> Never, answer |-> "none", at |-> 0]

(* What the source has said, once it holds t at clock n in state u.        *)
Heard(t, u, n) ==
    [b \in Binding |-> [o \in Outcome |->
        IF u /\ Says(t, b, n) = o THEN n + back' ELSE said[b][o]]]

TrustInit ==
    /\ tier \in {"bounded", "push", "live"}
    /\ clock = 0 /\ back = 0
    /\ table \in Table /\ up = TRUE /\ grants = "clear"
    /\ changes = 0
    /\ pending = {}
    /\ cache = [b \in Binding |-> Never]
    /\ call = [c \in Caller |-> Idle]
    /\ served = Unserved
    /\ said = [b \in Binding |-> [o \in Outcome |->
                  IF Says(table, b, 0) = o THEN 0 ELSE Never]]
    /\ gone = [b \in Binding |-> FALSE]
    /\ overlap = [b \in Binding |-> FALSE]

(***************************************************************************)
(* One call of resolve.                                                    *)
(***************************************************************************)

Step(c, from, to) ==
    /\ call[c].pc = from
    /\ call' = [call EXCEPT ![c] = to]

(* The call returns o.                                                     *)
Answer(c, o) ==
    served' = [b |-> call[c].b, answer |-> o, at |-> call[c].at]

ResolveAtTier(c, b) ==
    /\ Step(c, "idle",
            [Idle EXCEPT !.b = b, !.now = clock, !.at = elapsed,
                !.pc = CASE tier = "bounded" -> "lookup"
                         [] tier = "push"    -> "drain"
                         [] tier = "live"    -> "ask"])
    /\ served' = Unserved
    /\ UNCHANGED <<env, pending, cache, gone, overlap>>

(* An entry is served strictly before it expires.                          *)
Live(b, n) == cache[b] # Never /\ n < cache[b].expires_at

(* drain_pending empties the queue under its lock.                         *)
Drain(c) ==
    /\ Step(c, "drain", [call[c] EXCEPT !.pc = "evict", !.events = pending])
    /\ pending' = {}
    /\ UNCHANGED <<env, cache, served, gone, overlap>>

Evict_Expired(c) ==
    /\ call[c].events # {}
    /\ \E b \in call[c].events :
        /\ Step(c, "evict", [call[c] EXCEPT !.events = @ \ {b}])
        /\ cache' = [cache EXCEPT ![b] = IF Live(b, clock) THEN @ ELSE Never]
        /\ gone' = [gone EXCEPT ![b] = @ \/ Source(b) # "active"]
    /\ UNCHANGED <<env, pending, served, overlap>>

(* The drained events are evicted, each under the cache's lock.            *)
Evict(c) ==
    /\ call[c].events # {}
    /\ \E b \in call[c].events :
        /\ Step(c, "evict", [call[c] EXCEPT !.events = @ \ {b}])
        /\ cache' = [cache EXCEPT ![b] = Never]
        /\ gone' = [gone EXCEPT ![b] = @ \/ Source(b) # "active"]
        /\ overlap' = [overlap EXCEPT ![b] = @ \/ \E d \in Caller :
                /\ call[d].pc = "store" /\ call[d].b = b
                /\ call[d].answer = "active"]
    /\ UNCHANGED <<env, pending, served>>

(* The bounded cache then reads the clock, before it locks its map.        *)
ReadClock(c) ==
    /\ call[c].events = {}
    /\ Step(c, "evict", [call[c] EXCEPT !.pc = "lookup", !.now = clock,
                                        !.at = elapsed])
    /\ UNCHANGED <<env, pending, cache, served, gone, overlap>>

Cached(c) ==
    LET b == call[c].b IN
    /\ call[c].pc = "lookup"
    /\ IF Live(b, call[c].now)
       THEN Step(c, "lookup", Idle) /\ Answer(c, cache[b].outcome)
       ELSE Step(c, "lookup", [call[c] EXCEPT !.pc = "ask"]) /\ UNCHANGED served
    /\ UNCHANGED <<env, pending, cache, gone, overlap>>

(* The source answers, or is unavailable: that is never cached.  A live    *)
(* check may go on to the second authority.                                *)
AskSource(c) ==
    LET o == IF up THEN Source(call[c].b) ELSE "unavailable" IN
    /\ call[c].pc = "ask"
    /\ \/ /\ tier # "live" /\ o # "unavailable"
          /\ Step(c, "ask", [call[c] EXCEPT !.pc = "store", !.answer = o])
          /\ UNCHANGED served
       \/ /\ tier = "live" \/ o = "unavailable"
          /\ Step(c, "ask", Idle) /\ Answer(c, o)
       \/ /\ tier = "live" /\ o = "active"
          /\ Step(c, "ask", [call[c] EXCEPT !.pc = "second", !.answer = o])
          /\ UNCHANGED served
    /\ UNCHANGED <<env, pending, cache, gone, overlap>>

(* resolve_with_revocation_id gates an active binding on the deny-list.  Its*)
(* answer, Revoked too, is told apart here from the source's.              *)
Second(c) ==
    /\ Step(c, "second", Idle)
    /\ Answer(c, CASE grants = "clear"   -> "active"
                   [] grants = "revoked" -> "denied"
                   [] grants = "down"    -> "unavailable")
    /\ UNCHANGED <<env, pending, cache, gone, overlap>>

Store_FromNow(c) ==
    LET o == call[c].answer IN
    /\ Step(c, "store", Idle)
    /\ Answer(c, o)
    /\ cache' = [cache EXCEPT ![call[c].b] =
                    [outcome |-> o, expires_at |-> clock + Ttl(o)]]
    /\ UNCHANGED <<env, pending, gone, overlap>>

(* The answer is stored from the instant read before the source was asked. *)
Store(c) ==
    LET o == call[c].answer IN
    /\ Step(c, "store", Idle)
    /\ Answer(c, o)
    /\ cache' = [cache EXCEPT ![call[c].b] =
                    [outcome |-> o, expires_at |-> call[c].now + Ttl(o)]]
    /\ UNCHANGED <<env, pending, gone, overlap>>

(* prune drops what has expired.                                           *)
Prune ==
    /\ tier # "live"
    /\ cache' = [b \in Binding |-> IF Live(b, clock) THEN cache[b] ELSE Never]
    /\ UNCHANGED <<env, pending, call, served, gone, overlap>>

(***************************************************************************)
(* The environment: the operator, the source, the channel and the clock.   *)
(***************************************************************************)

(* The source's table changes: a key is published, revoked, replaced.      *)
Publish ==
    /\ changes < MaxChanges /\ changes' = changes + 1
    /\ \E t \in Replaces(table) :
        /\ table' = t
        /\ gone' = [b \in Binding |-> gone[b] /\ Says(t, b, clock) # "active"]
        /\ overlap' = [b \in Binding |-> overlap[b] /\ Says(t, b, clock) # "active"]
        /\ UNCHANGED <<tier, clock, back, up, grants>>
        /\ said' = Heard(t, up, clock)
    /\ UNCHANGED <<pending, cache, call, served>>

Outage ==
    /\ changes < MaxChanges /\ changes' = changes + 1
    /\ up' = ~up
    /\ UNCHANGED <<tier, clock, back, table, grants>>
    /\ said' = Heard(table, up', clock)
    /\ UNCHANGED <<pending, cache, call, served, gone, overlap>>

DenyList ==
    /\ tier = "live"
    /\ grants' \in {"clear", "revoked", "down"}
    /\ UNCHANGED <<tier, clock, back, table, up, said, changes, pending, cache,
                   call, served, gone, overlap>>

(* A revocation event arrives; one that is lost never does.  Nothing orders*)
(* it with the change of the source.                                       *)
Push(b) ==
    /\ tier = "push"
    /\ changes < MaxChanges /\ changes' = changes + 1
    /\ pending' = pending \cup {b}
    /\ UNCHANGED <<tier, clock, back, table, up, grants, said, cache, call,
                   served, gone, overlap>>

Moves(n, k) ==
    /\ clock' = n /\ back' = k
    /\ UNCHANGED <<tier, table, up, grants, changes>>
    /\ said' = Heard(table, up, n)
    /\ gone' = [b \in Binding |-> gone[b] /\ Says(table, b, n) # "active"]
    /\ overlap' = [b \in Binding |-> overlap[b] /\ Says(table, b, n) # "active"]
    /\ UNCHANGED <<pending, cache, call, served>>

Tick == elapsed < MaxClock /\ Moves(clock + 1, back)
SetBack == back < MaxBack /\ Moves(clock - 1, back + 1)

Operator == Publish \/ Outage \/ DenyList \/ \E b \in Binding : Push(b)

CallStep(c) ==
    \/ Drain(c) \/ Evict(c) \/ ReadClock(c)
    \/ Cached(c) \/ AskSource(c) \/ Second(c) \/ Store(c)

TrustNext ==
    \/ \E c \in Caller : CallStep(c) \/ \E b \in Binding : ResolveAtTier(c, b)
    \/ Prune \/ Operator \/ Tick \/ SetBack

TrustSpec == TrustInit /\ [][TrustNext]_tvars

-----------------------------------------------------------------------------
(* An answer is never staler than its class allows: whatever a resolve of    *)
(* any tier returns, the source of trust gave that answer less than its time *)
(* to live (plus however far the clock has been set back) before the call    *)
(* read the clock, or later.  This bounds the exposure of a revoked key by   *)
(* the window T, through outages, lost pushes and delayed fills, and the     *)
(* suppression of a new key by the short negative window.                    *)
StalenessBounded ==
    served.answer \in Outcome =>
        LET last == said[served.b][served.answer] IN
        /\ last # Never
        /\ served.at <= last \/ served.at - last < Ttl(served.answer) + back

(* A pushed eviction holds: once an event is applied after the source has    *)
(* stopped saying active, the cache holds no active entry for the binding,   *)
(* unless a caller that had already asked the source was still to store its  *)
(* answer.                                                                   *)
PushTakesEffect ==
    \A b \in Binding :
        gone[b] /\ cache[b] # Never /\ cache[b].outcome = "active" => overlap[b]

-----------------------------------------------------------------------------
(***************************************************************************)
(* The operator's published set of response-signing keys and the resolver  *)
(* over it (mcps-proxy, authorized_keyset.rs). A set is built from a list  *)
(* of entries; an entry carries its key id, audience, status and validity  *)
(* window; a resolver serves one audience in one of two identity modes.    *)
(***************************************************************************)

CONSTANT Forever  \* valid_until of an entry without an end

(* AuthorizedKeySet::new refuses a repeated key id.                        *)
New(entries) ==
    IF \E i, j \in DOMAIN entries : i < j /\ entries[i].key_id = entries[j].key_id
    THEN [ok |-> FALSE, set |-> {}]
    ELSE [ok |-> TRUE, set |-> {entries[i] : i \in DOMAIN entries}]

Lookup(set, audience, key) ==
    {e \in set : e.key_id = key /\ e.audience = audience}

ActiveCountFor(set, audience) ==
    Quantify(set, LAMBDA e : e.audience = audience /\ e.status = "active")

PerNodeKeyset(set, audience) ==
    [ok |-> TRUE, mode |-> "per-node", set |-> set, audience |-> audience,
     shared |-> "none"]

(* shared_remote_signer: the shared key is an active entry of the audience *)
(* and its only active one.                                                *)
SharedRemoteSigner(set, audience, key) ==
    [ok       |-> /\ \E e \in Lookup(set, audience, key) : e.status = "active"
                  /\ ActiveCountFor(set, audience) <= 1,
     mode     |-> "shared", set |-> set, audience |-> audience,
     shared   |-> key]

InWindow(e, now) ==
    now >= e.valid_from /\ (e.valid_until = Forever \/ now <= e.valid_until)

(* KeySetTrustResolver::resolve, in the order of its checks.               *)
KeysetResolve(r, signer, key, now) ==
    LET found == Lookup(r.set, r.audience, key) IN
    IF signer # r.audience \/ found = {} THEN "not_found"
    ELSE IF r.mode = "shared" /\ r.shared # key THEN "not_found"
    ELSE IF \E e \in found : e.status # "active" THEN "revoked"
    ELSE IF \E e \in found : ~InWindow(e, now) THEN "not_found"
    ELSE "active"
=============================================================================
