------------------------------ MODULE AtomicStore ------------------------------
(***************************************************************************)
(* What a SharedReplayCache needs of a store (AtomicReplayStore in         *)
(* mcps-proxy/src/shared_replay.rs), for stores that count a time to live: *)
(* the key is looked for and recorded in one step, and is kept for as long *)
(* as the call asked, from some moment of the call on.                     *)
(*                                                                         *)
(* A call that was given up may still take effect later, and its caller    *)
(* never learns of it.                                                     *)
(***************************************************************************)
EXTENDS Integers

CONSTANTS Callers, Keys, Windows, NoKey, NoCall

VARIABLES
    now,       \* the store's time
    until,     \* when the store forgets each key
    pending,   \* the insert each caller waits for
    answers,   \* the last answer of each caller
    loose      \* inserts that were given up and may yet happen

vars == <<now, until, pending, answers, loose>>

Init ==
    /\ now = 0
    /\ until = [k \in Keys |-> NoKey]
    /\ pending = [c \in Callers |-> NoCall]
    /\ answers = [c \in Callers |-> "none"]
    /\ loose = {}

(* A window that has passed is refused before the store is asked.          *)
Ask(c, k, window) ==
    /\ pending[c] = NoCall
    /\ IF window <= 0
       THEN UNCHANGED pending /\ answers' = [answers EXCEPT ![c] = "unavailable"]
       ELSE /\ pending' = [pending EXCEPT ![c] = [key |-> k, ttl |-> window, due |-> now + window]]
            /\ answers' = [answers EXCEPT ![c] = "none"]
    /\ UNCHANGED <<now, until, loose>>

Record(insert) ==
    /\ until[insert.key] = NoKey
    /\ \E ends \in insert.due .. (now + insert.ttl) : until' = [until EXCEPT ![insert.key] = ends]

Return(c, answer) ==
    /\ pending[c] # NoCall
    /\ pending' = [pending EXCEPT ![c] = NoCall]
    /\ answers' = [answers EXCEPT ![c] = answer]
    /\ UNCHANGED now

Fresh(c) == Return(c, "fresh") /\ Record(pending[c]) /\ UNCHANGED loose

Replay(c) == Return(c, "replay") /\ until[pending[c].key] # NoKey /\ UNCHANGED <<until, loose>>

GiveUp(c) == Return(c, "unavailable") /\ loose' \in {loose, loose \cup {pending[c]}} /\ UNCHANGED until

(* Two inserts may look alike, and then one remains.                       *)
Late(insert) ==
    /\ Record(insert) \/ UNCHANGED until
    /\ loose' \in {loose, loose \ {insert}}
    /\ UNCHANGED <<now, pending, answers>>

Lapse(k) ==
    /\ until[k] # NoKey /\ until[k] <= now
    /\ until' = [until EXCEPT ![k] = NoKey]
    /\ UNCHANGED <<now, pending, answers, loose>>

Tick == now' = now + 1 /\ UNCHANGED <<until, pending, answers, loose>>

Next ==
    \/ \E c \in Callers :
        (\E k \in Keys, w \in Windows : Ask(c, k, w)) \/ Fresh(c) \/ Replay(c) \/ GiveUp(c)
    \/ \E insert \in loose : Late(insert)
    \/ \E k \in Keys : Lapse(k)
    \/ Tick

Spec == Init /\ [][Next]_vars
=============================================================================
