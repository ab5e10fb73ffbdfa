--------------------------- MODULE ReplayContract ---------------------------
(***************************************************************************)
(* What the verification pipeline relies on when it calls                  *)
(* ReplayCache::check_and_insert, stated without saying how a cache keeps  *)
(* its promise:                                                            *)
(*                                                                         *)
(*   - a request is answered "fresh" at most once, however often, and      *)
(*     through however many callers, it is presented;                      *)
(*   - "replay" is answered only for a key that was presented before;      *)
(*   - "unavailable" may be answered at any time (the caller fails         *)
(*     closed), and a caller may die while its call is in progress.        *)
(***************************************************************************)
EXTENDS Requests

CONSTANT Caller  \* the verifiers that share the cache

VARIABLES
    pending,    \* the request each caller is waiting for an answer to
    verdict,    \* the last answer each caller received
    calls,      \* how often each key was presented: 0, 1, or 2 for "more"
    admissions  \* how often each request was answered "fresh"

vars == <<pending, verdict, calls, admissions>>

(* ReplayDecision, with ReplayCacheError::Unavailable as a third answer.   *)
Verdict == {"none", "fresh", "replay", "unavailable"}

Init ==
    /\ pending = [c \in Caller |-> NoRequest]
    /\ verdict = [c \in Caller |-> "none"]
    /\ calls = [k \in Key |-> 0]
    /\ admissions = [r \in Request |-> 0]

(* A caller presents r.                                                    *)
Call(c, r) ==
    /\ pending[c] = NoRequest
    /\ pending' = [pending EXCEPT ![c] = r]
    /\ verdict' = [verdict EXCEPT ![c] = "none"]
    /\ calls' = [calls EXCEPT ![KeyOf[r]] = IF @ = 0 THEN 1 ELSE 2]
    /\ UNCHANGED admissions

(* The call in progress ends with answer v.                                *)
Return(c, v) ==
    /\ pending[c] # NoRequest
    /\ pending' = [pending EXCEPT ![c] = NoRequest]
    /\ verdict' = [verdict EXCEPT ![c] = v]
    /\ UNCHANGED calls

AnswerFresh(c) ==
    /\ Return(c, "fresh")
    /\ admissions[pending[c]] = 0
    /\ admissions' = [admissions EXCEPT ![pending[c]] = 1]

AnswerReplay(c) ==
    /\ Return(c, "replay")
    /\ calls[KeyOf[pending[c]]] = 2
    /\ UNCHANGED admissions

AnswerUnavailable(c) ==
    /\ Return(c, "unavailable")
    /\ UNCHANGED admissions

(* The calling process dies, in a call or between two calls.               *)
Abort(c) ==
    /\ pending' = [pending EXCEPT ![c] = NoRequest]
    /\ verdict' = [verdict EXCEPT ![c] = "none"]
    /\ UNCHANGED <<calls, admissions>>

Next == \E c \in Caller :
    \/ \E r \in Request : Call(c, r)
    \/ AnswerFresh(c)
    \/ AnswerReplay(c)
    \/ AnswerUnavailable(c)
    \/ Abort(c)

Spec == Init /\ [][Next]_vars
=============================================================================
