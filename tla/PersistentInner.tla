---------------------------- MODULE PersistentInner ----------------------------
(***************************************************************************)
(* The long-lived inner server (mcps-proxy/src/persistent_inner.rs): one   *)
(* child, one pair of pipes, and one mutex that a dispatch holds from its  *)
(* first byte to its answer.  A call is a caller and a number; a line on   *)
(* the child's stdout answers a call under that call's id, or is one of    *)
(* "note" (a line with another id), "blank" and "junk" (no JSON).  The     *)
(* child answers a call at most once, when it likes, and may die.  Request *)
(* ids are the clients' own: two calls may share one.                      *)
(***************************************************************************)
EXTENDS Naturals, Sequences, FiniteSets

CONSTANTS
    Callers, RequestIds,
    Boot,               \* the constructor, which makes the initialize call
    MaxSkippedLines,    \* MAX_SKIPPED_LINES
    ExchangeTimeout,    \* inner_read_timeout, for the write and again for the read
    MaxCalls,           \* calls a caller makes (a bound)
    PipeRoom            \* lines a pipe holds (a bound)

VARIABLES
    session,    \* [holder, poisoned, child, up]
    callers,    \* each caller: where it is, its call, the id, lines skipped, time spent, its reply
    to_inner, from_inner,   \* the two pipes
    pending     \* calls the child has read and not answered

persistentVars == <<session, callers, to_inner, from_inner, pending>>

Free == "free"

ASSUME BootAssumption == Boot \notin Callers /\ Free \notin Callers \cup {Boot}

NoReply == [kind |-> "none"]
FailClosed == [kind |-> "unavailable"]

Starting ==
    [pc |-> "calling", call |-> 1, id |-> CHOOSE i \in RequestIds : TRUE, skipped |-> 0, age |-> 0,
     reply |-> NoReply]
Idle == [Starting EXCEPT !.pc = "idle", !.call = 0]

PersistentInit ==
    /\ session = [holder |-> Free, poisoned |-> FALSE, child |-> "alive", up |-> "starting"]
    /\ callers = [c \in Callers \cup {Boot} |-> IF c = Boot THEN Starting ELSE Idle]
    /\ to_inner = <<>> /\ from_inner = <<>> /\ pending = {}

Call(c) == [caller |-> c, number |-> callers[c].call, id |-> callers[c].id]

Begin(c) ==
    /\ c # Boot /\ session.up = "up"
    /\ callers[c].pc = "idle" /\ callers[c].call < MaxCalls
    /\ \E id \in RequestIds :
        callers' = [callers EXCEPT ![c] = [Starting EXCEPT !.call = callers[c].call + 1, !.id = id]]
    /\ UNCHANGED <<session, to_inner, from_inner, pending>>

Return(c, reply) ==
    callers' = [callers EXCEPT ![c].pc = "idle", ![c].reply = reply, ![c].skipped = 0, ![c].age = 0]

(* dispatch up to the exchange: a session that failed is not used again.   *)
Lock(c) ==
    /\ callers[c].pc = "calling" /\ session.holder = Free
    /\ IF session.poisoned
       THEN Return(c, FailClosed) /\ UNCHANGED session
       ELSE /\ session' = [session EXCEPT !.holder = c]
            /\ callers' = [callers EXCEPT ![c].pc = "writing"]
    /\ UNCHANGED <<to_inner, from_inner, pending>>

(* The exchange succeeded.  The constructor also wants a result.           *)
Succeed(c, line) ==
    /\ session' = [session EXCEPT !.holder = Free, !.up = IF c = Boot THEN "up" ELSE @]
    /\ Return(c, [kind |-> "line", line |-> line])

Fail_NotReaped(c) ==
    /\ session' = [session EXCEPT !.holder = Free, !.poisoned = TRUE, !.up = IF c = Boot THEN "failed" ELSE @]
    /\ Return(c, FailClosed)

(* poisoned, then kill_and_reap, then the fail-closed answer.              *)
Fail(c) ==
    /\ session' = [session EXCEPT !.holder = Free, !.poisoned = TRUE, !.child = "reaped",
                                  !.up = IF c = Boot THEN "failed" ELSE @]
    /\ Return(c, FailClosed)

WriteLine(c) ==
    /\ callers[c].pc = "writing" /\ session.child = "alive"
    /\ Len(to_inner) < PipeRoom
    /\ to_inner' = Append(to_inner, Call(c))
    /\ callers' = [callers EXCEPT ![c].pc = "reading", ![c].age = 0]
    /\ UNCHANGED <<session, from_inner, pending>>

(* A broken pipe, a newline in the request, a full pipe at the deadline.   *)
WriteFails(c) ==
    /\ callers[c].pc = "writing"
    /\ session.child = "dead" \/ callers[c].age = ExchangeTimeout
    /\ Fail(c)
    /\ UNCHANGED <<to_inner, from_inner, pending>>

(* One turn of write_line_read_matching with a line at hand.               *)
ReadLine(c) ==
    /\ callers[c].pc = "reading" /\ from_inner # <<>>
    /\ LET line == Head(from_inner)
           ours == line.kind = "answer" /\ line.call.id = callers[c].id
       IN  /\ from_inner' = Tail(from_inner)
           /\ \/ line.kind = "junk" /\ Fail(c)
              \/ ours /\ IF c = Boot /\ ~line.ok THEN Fail(c) ELSE Succeed(c, line)
              \/ /\ line.kind # "junk" /\ ~ours
                 /\ IF callers[c].skipped = MaxSkippedLines THEN Fail(c)
                    ELSE callers' = [callers EXCEPT ![c].skipped = @ + 1] /\ UNCHANGED session
    /\ UNCHANGED <<to_inner, pending>>

ReadFails_OnlyAtEof(c) ==
    /\ callers[c].pc = "reading" /\ from_inner = <<>>
    /\ session.child = "dead"
    /\ Fail(c)
    /\ UNCHANGED <<to_inner, from_inner, pending>>

(* End of file, or the deadline with no whole line buffered.               *)
ReadFails(c) ==
    /\ callers[c].pc = "reading" /\ from_inner = <<>>
    /\ session.child = "dead" \/ callers[c].age = ExchangeTimeout
    /\ Fail(c)
    /\ UNCHANGED <<to_inner, from_inner, pending>>

(* Drop: nothing if poisoned, otherwise kill and wait.                     *)
Drop ==
    /\ session.up = "up" /\ \A c \in Callers : callers[c].pc = "idle"
    /\ session' = [session EXCEPT !.up = "dropped",
                                  !.child = IF session.poisoned THEN @ ELSE "reaped"]
    /\ UNCHANGED <<callers, to_inner, from_inner, pending>>

PersistentTick ==
    /\ \E c \in DOMAIN callers : callers[c].pc \in {"writing", "reading"} /\ callers[c].age < ExchangeTimeout
    /\ callers' = [c \in DOMAIN callers |->
                     IF callers[c].pc \in {"writing", "reading"} THEN [callers[c] EXCEPT !.age = @ + 1]
                     ELSE callers[c]]
    /\ UNCHANGED <<session, to_inner, from_inner, pending>>

-----------------------------------------------------------------------------
(* The child                                                               *)

ChildAlive == session.child = "alive"

Take ==
    /\ ChildAlive /\ to_inner # <<>>
    /\ pending' = pending \cup {Head(to_inner)}
    /\ to_inner' = Tail(to_inner)
    /\ UNCHANGED <<session, callers, from_inner>>

Answer ==
    /\ ChildAlive /\ Len(from_inner) < PipeRoom
    /\ \E call \in pending, ok \in BOOLEAN :
        /\ call.caller = Boot \/ ok
        /\ from_inner' = Append(from_inner, [kind |-> "answer", call |-> call, ok |-> ok])
        /\ pending' = pending \ {call}
    /\ UNCHANGED <<session, callers, to_inner>>

Chatter ==
    /\ ChildAlive /\ Len(from_inner) < PipeRoom
    /\ \E kind \in {"note", "blank", "junk"} : from_inner' = Append(from_inner, [kind |-> kind])
    /\ UNCHANGED <<session, callers, to_inner, pending>>

Die ==
    /\ ChildAlive
    /\ session' = [session EXCEPT !.child = "dead"]
    /\ UNCHANGED <<callers, to_inner, from_inner, pending>>

Step(c) == Lock(c) \/ WriteLine(c) \/ WriteFails(c) \/ ReadLine(c) \/ ReadFails(c)

PersistentNext ==
    \/ \E c \in Callers \cup {Boot} : Begin(c) \/ Step(c)
    \/ Drop \/ PersistentTick \/ Take \/ Answer \/ Chatter \/ Die

PersistentSpec == PersistentInit /\ [][PersistentNext]_persistentVars

(* A caller runs, the mutex is granted to each that waits, time passes;    *)
(* nothing is asked of the child.                                          *)
PersistentFairness ==
    /\ \A c \in Callers \cup {Boot} :
        WF_persistentVars(WriteLine(c) \/ WriteFails(c) \/ ReadLine(c) \/ ReadFails(c)) /\ SF_persistentVars(Lock(c))
    /\ WF_persistentVars(PersistentTick)

-----------------------------------------------------------------------------
(* A caller gets the answer to the call it made.  An answer that comes     *)
(* after its caller gave up is never taken for that of a later call, even  *)
(* one made under the same id, because the session died with the first.    *)
AnswersAreOwn ==
    \A c \in DOMAIN callers :
        callers[c].pc = "idle" /\ callers[c].reply.kind = "line" => callers[c].reply.line.call = Call(c)

(* "Once the session is poisoned it stays poisoned ... rather than         *)
(* touching a half-dead child": no byte is written to it, it has been      *)
(* reaped, and no call succeeds any more.                                  *)
PoisonIsFinal ==
    [][session.poisoned =>
        /\ session'.poisoned /\ session'.child = "reaped"
        /\ to_inner' = to_inner
        /\ \A c \in DOMAIN callers :
            callers'[c].reply.kind = "line" => callers[c].reply.kind = "line"]_persistentVars

(* What the callers of the shared session rely on (persistent_inner.rs):   *)
(* answers are never mixed up, and a failure is the last thing a session   *)
(* does.                                                                   *)
SessionIsSound == []AnswersAreOwn /\ PoisonIsFinal

(* "Fail-closed on any inner failure; never panics, never hangs": every    *)
(* dispatch returns, whether the child answers, floods, falls silent, does *)
(* not read, or dies, and however many callers stand in line.              *)
EveryDispatchReturns ==
    \A c \in Callers \cup {Boot} : (callers[c].pc = "calling") ~> (callers[c].pc = "idle")
=============================================================================
