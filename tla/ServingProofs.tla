---------------------------- MODULE ServingProofs ----------------------------
(***************************************************************************)
(* What holds of serving for every number of connections and threads,      *)
(* every limit and every interleaving: one dispatch to the one-shot inner  *)
(* server with its watchdog (SubprocessInner), the session of the          *)
(* persistent inner server that all serve threads share (PersistentInner), *)
(* the accept loops and the client's round trip (TlsConnections).          *)
(***************************************************************************)
EXTENDS SubprocessInner, PersistentInner, TlsConnections, FiniteSetTheorems, TLAPS

(* Zenon proves most of the steps; those that need arithmetic say SMT.     *)
USE Zenon

-----------------------------------------------------------------------------
(* SubprocessInner: one dispatch to the one-shot inner server              *)

(* How far the two threads can be apart: the sender speaks only once the   *)
(* child is reaped, nobody passes the join before the watchdog is done,    *)
(* and the flag is up before any signal is sent.                           *)
Threads ==
    /\ pc = "spawn" => child = "none" /\ watchdog = "none"
    /\ pc \in {"send", "join", "drain", "decide"} => child = "reaped"
    /\ pc \in {"drain", "decide"} => watchdog = "done"
    /\ pc \notin {"spawn", "returned"} => watchdog # "none"
    /\ channel = "sent" => child = "reaped"
    /\ channel = "dropped" => pc = "returned" /\ result = "wait_error"
    /\ signalled # {} => timed_out
    /\ watchdog \in {"none", "waiting", "storing"} => ~timed_out
    /\ watchdog = "killing" => timed_out
    /\ pc # "returned" => result = "none"

DispatchInv == TypeOK /\ Threads /\ TimeoutIsNeverAReply /\ NothingLeftBehind

(* The initial state satisfies the invariant.                              *)
LEMMA DispatchInit == Init => DispatchInv
BY DEF Init, DispatchInv, TypeOK, Threads, TimeoutIsNeverAReply, NothingLeftBehind, Pipe, Process

(* Every step of a thread or of the inner process keeps the state typed.   *)
LEMMA DispatchType == TypeOK /\ [Next]_vars => TypeOK'
<1> SUFFICES ASSUME TypeOK, [Next]_vars PROVE TypeOK'
  OBVIOUS
<1> USE DEF TypeOK, Pipe, Process, serveVars, guardVars, innerVars, Returns, Dies
<1>1. CASE SpawnFails BY <1>1, SMT DEF SpawnFails
<1>2. CASE Spawn BY <1>2 DEF Spawn
<1>3. CASE Write BY <1>3, SMT DEF Write
<1>4. CASE ReadToEnd BY <1>4, SMT DEF ReadToEnd
<1>5. CASE Reap BY <1>5, ZenonT(60) DEF Reap
<1>6. CASE WaitFails BY <1>6, SMT DEF WaitFails
<1>7. CASE Send BY <1>7, SMT DEF Send
<1>8. CASE Join BY <1>8, SMT DEF Join
<1>9. CASE JoinStderr BY <1>9, SMT DEF JoinStderr
<1>10. CASE Decide BY <1>10, SMT DEF Decide
<1>11. CASE StandDown BY <1>11, SMT DEF StandDown
<1>12. CASE Expire BY <1>12, SMT DEF Expire
<1>13. CASE Store BY <1>13, SMT DEF Store
<1>14. CASE Kill BY <1>14, SMT DEF Kill
<1>15. CASE Consume BY <1>15, SMT DEF Consume
<1>16. CASE Emit BY <1>16, SMT DEF Emit
<1>17. CASE Fork BY <1>17, SMT DEF Fork
<1>18. CASE Close BY <1>18, SMT DEF Close
<1>19. CASE Exit BY <1>19, SMT DEF Exit
<1>20. CASE ReusePid BY <1>20, SMT DEF ReusePid
<1>21. CASE UNCHANGED vars BY <1>21, SMT DEF vars
<1> QED
  BY <1>1, <1>2, <1>3, <1>4, <1>5, <1>6, <1>7, <1>8, <1>9, <1>10, <1>11, <1>12, <1>13,
     <1>14, <1>15, <1>16, <1>17, <1>18, <1>19, <1>20, <1>21
  DEF Next, Serve, Watch, Environment

(* Every step keeps the two threads within their distance, so neither a    *)
(* late signal nor an unreaped process survives a return.                  *)
LEMMA DispatchStep == DispatchInv /\ [Next]_vars => DispatchInv'
<1> SUFFICES ASSUME DispatchInv, [Next]_vars PROVE DispatchInv'
  OBVIOUS
<1>0. TypeOK /\ TypeOK'
  BY DispatchType DEF DispatchInv
<1> USE <1>0 DEF DispatchInv, TypeOK, Threads, TimeoutIsNeverAReply, NothingLeftBehind,
          serveVars, guardVars, innerVars, Returns
<1>1. CASE SpawnFails BY <1>1 DEF SpawnFails
<1>2. CASE Spawn BY <1>2 DEF Spawn
<1>3. CASE Write BY <1>3 DEF Write
<1>4. CASE ReadToEnd BY <1>4 DEF ReadToEnd
<1>5. CASE Reap BY <1>5 DEF Reap
<1>6. CASE WaitFails BY <1>6 DEF WaitFails
<1>7. CASE Send BY <1>7 DEF Send
<1>8. CASE Join BY <1>8 DEF Join
<1>9. CASE JoinStderr BY <1>9 DEF JoinStderr
<1>10. CASE Decide
  <2>1. child = "reaped" /\ watchdog = "done" /\ channel # "dropped"
    BY <1>10 DEF Decide
  <2>2. result' = "reply" => ~timed_out
    BY <1>10 DEF Decide
  <2>3. ~timed_out => signalled = {}
    OBVIOUS
  <2>4. TimeoutIsNeverAReply' /\ NothingLeftBehind'
    BY <1>10, <2>1, <2>2, <2>3 DEF Decide
  <2> QED
    BY <1>10, <2>1, <2>4 DEF Decide
<1>11. CASE StandDown BY <1>11 DEF StandDown
<1>12. CASE Expire BY <1>12 DEF Expire
<1>13. CASE Store BY <1>13 DEF Store
<1>14. CASE Kill BY <1>14 DEF Kill
<1>15. CASE Consume \/ Emit \/ Close \/ ReusePid
  BY <1>15, ZenonT(60) DEF Consume, Emit, Close, ReusePid
<1>16. CASE Fork \/ Exit BY <1>16 DEF Fork, Exit
<1>17. CASE UNCHANGED vars BY <1>17 DEF vars
<1> QED
  BY <1>1, <1>2, <1>3, <1>4, <1>5, <1>6, <1>7, <1>8, <1>9, <1>10, <1>11, <1>12, <1>13,
     <1>14, <1>15, <1>16, <1>17
  DEF Next, Serve, Watch, Environment

(* The distance between the threads is an invariant of the dispatch.       *)
THEOREM DispatchInvariance == Spec => []DispatchInv
<1>1. DispatchInv /\ [Next]_vars => DispatchInv'
  BY DispatchStep
<1> QED
  BY DispatchInit, <1>1, PTL DEF Spec

(* No interleaving turns an interaction the watchdog cut short into a      *)
(* reply, and a dispatch that waited for its child returns with the child  *)
(* reaped and the watchdog finished (run, cli.rs).                         *)
THEOREM DispatchesAreSound == Spec => []DispatchIsSound
<1>1. DispatchInv => DispatchIsSound
  BY DEF DispatchInv, DispatchIsSound
<1> QED
  BY DispatchInvariance, <1>1, PTL

-----------------------------------------------------------------------------
(* PersistentInner: the session the serve threads share                   *)

Everyone == Callers \cup {Boot}
AnyId    == RequestIds \cup {CHOOSE i \in RequestIds : TRUE}
ACall    == [caller : Everyone, number : Nat, id : AnyId]
ALine    == [kind : {"answer"}, call : ACall, ok : BOOLEAN] \cup [kind : {"note", "blank", "junk"}]
AReply   == [kind : {"none", "unavailable"}] \cup [kind : {"line"}, line : ALine]

CallerState ==
    [pc : {"idle", "calling", "writing", "reading"}, call : Nat, id : AnyId, skipped : Nat, age : Nat,
     reply : AReply]

SessionState ==
    [holder : Everyone \cup {Free}, poisoned : BOOLEAN, child : {"alive", "dead", "reaped"},
     up : {"starting", "up", "failed", "dropped"}]

SessionTypes ==
    /\ session \in SessionState
    /\ callers \in [Everyone -> CallerState]
    /\ to_inner \in Seq(ACall) /\ from_inner \in Seq(ALine)
    /\ pending \subseteq ACall

Exchanging(c) == callers[c].pc \in {"writing", "reading"}

(* One caller at most is past the mutex, and none once the session failed. *)
OneExchange ==
    /\ \A c \in Everyone : Exchanging(c) <=> session.holder = c
    /\ session.poisoned => session.holder = Free /\ session.child = "reaped"

Quiet == to_inner = <<>> /\ pending = {}
IsAnswer(i) == from_inner[i].kind = "answer"

(* Until the session fails, all that is under way between the two          *)
(* processes is the call of whoever reads, in one place: that is what ids  *)
(* alone could not tell.                                                   *)
OneCallUnderWay ==
    ~session.poisoned =>
        /\ (~\E c \in Everyone : callers[c].pc = "reading")
            => Quiet /\ \A i \in DOMAIN from_inner : ~IsAnswer(i)
        /\ \A c \in Everyone : callers[c].pc = "reading" =>
            /\ \A i \in DOMAIN from_inner : IsAnswer(i) => Quiet /\ from_inner[i].call = Call(c)
            /\ \A i, j \in DOMAIN from_inner : IsAnswer(i) /\ IsAnswer(j) => i = j
            /\ \/ to_inner = <<>> /\ pending \subseteq {Call(c)}
               \/ to_inner = <<Call(c)>> /\ pending = {}

SessionInv == SessionTypes /\ OneExchange /\ OneCallUnderWay /\ AnswersAreOwn

(* What Append and Tail do to a pipe.                                      *)
LEMMA PipeFacts ==
    ASSUME NEW S, NEW s \in Seq(S)
    PROVE  /\ \A x \in S : /\ Append(s, x) \in Seq(S) /\ DOMAIN Append(s, x) = DOMAIN s \cup {Len(s) + 1}
                           /\ Append(s, x)[Len(s) + 1] = x /\ Len(s) + 1 \notin DOMAIN s
                           /\ \A i \in DOMAIN s : Append(s, x)[i] = s[i]
           /\ s # <<>> => /\ Tail(s) \in Seq(S) /\ 1 \in DOMAIN s /\ Head(s) = s[1] /\ s[1] \in S
                          /\ \A i \in DOMAIN Tail(s) : i + 1 \in DOMAIN s /\ Tail(s)[i] = s[i + 1] /\ i + 1 # 1
                          /\ \A i, j \in DOMAIN Tail(s) : i + 1 = j + 1 => i = j
  BY SMT

(* A record of a caller with some of its fields changed.                   *)
LEMMA CallerFields ==
    ASSUME NEW s \in CallerState
    PROVE  /\ LET t == [s EXCEPT !.pc = "writing"]
              IN  t \in CallerState /\ t.pc = "writing" /\ t.call = s.call /\ t.id = s.id /\ t.reply = s.reply
           /\ LET t == [s EXCEPT !.pc = "reading", !.age = 0]
              IN  t \in CallerState /\ t.pc = "reading" /\ t.call = s.call /\ t.id = s.id /\ t.reply = s.reply
           /\ LET t == [s EXCEPT !.skipped = @ + 1]
              IN  t \in CallerState /\ t.pc = s.pc /\ t.call = s.call /\ t.id = s.id /\ t.reply = s.reply
           /\ LET t == [s EXCEPT !.age = @ + 1]
              IN  t \in CallerState /\ t.pc = s.pc /\ t.call = s.call /\ t.id = s.id /\ t.reply = s.reply
<1>1. LET t == [s EXCEPT !.pc = "writing"]
      IN  t \in CallerState /\ t.pc = "writing" /\ t.call = s.call /\ t.id = s.id /\ t.reply = s.reply
  BY DEF CallerState
<1>2. LET t == [s EXCEPT !.pc = "reading", !.age = 0]
      IN  t \in CallerState /\ t.pc = "reading" /\ t.call = s.call /\ t.id = s.id /\ t.reply = s.reply
  BY DEF CallerState
<1>3. LET t == [s EXCEPT !.skipped = @ + 1]
      IN  t \in CallerState /\ t.pc = s.pc /\ t.call = s.call /\ t.id = s.id /\ t.reply = s.reply
  BY SMT DEF CallerState
<1>4. LET t == [s EXCEPT !.age = @ + 1]
      IN  t \in CallerState /\ t.pc = s.pc /\ t.call = s.call /\ t.id = s.id /\ t.reply = s.reply
  BY SMT DEF CallerState
<1> QED
  BY <1>1, <1>2, <1>3, <1>4

(* The replies a caller can be given.                                      *)
LEMMA ReplyTypes ==
    /\ NoReply \in AReply /\ FailClosed \in AReply /\ NoReply.kind # "line" /\ FailClosed.kind # "line"
    /\ \A line \in ALine : LET r == [kind |-> "line", line |-> line]
                           IN  r \in AReply /\ r.kind = "line" /\ r.line = line
  BY DEF NoReply, FailClosed, AReply

(* The call of a caller is its own.                                        *)
LEMMA CallType ==
    ASSUME SessionTypes, NEW c \in Everyone
    PROVE  Call(c) \in ACall /\ callers[c] \in CallerState
  BY DEF SessionTypes, Call, ACall, CallerState

(* Only c's record changes, and c's call does not.                         *)
Only(c) ==
    /\ callers' \in [Everyone -> CallerState]
    /\ \A d \in Everyone : d # c => callers'[d] = callers[d]
    /\ callers'[c].call = callers[c].call /\ callers'[c].id = callers[c].id

(* What a return does to the callers.                                      *)
LEMMA Returning ==
    ASSUME SessionTypes, NEW c \in Everyone, NEW r \in AReply, Return(c, r)
    PROVE  Only(c) /\ callers'[c].pc = "idle" /\ callers'[c].reply = r
<1>1. callers[c] \in CallerState /\ callers \in [Everyone -> CallerState]
  BY DEF SessionTypes
<1> DEFINE t == [callers[c] EXCEPT !.pc = "idle", !.reply = r, !.skipped = 0, !.age = 0]
<1>2. t \in CallerState /\ t.pc = "idle" /\ t.call = callers[c].call /\ t.id = callers[c].id /\ t.reply = r
  BY <1>1 DEF CallerState
<1>3. callers' = [callers EXCEPT ![c] = t]
  BY DEF Return
<1> QED
  BY <1>1, <1>2, <1>3 DEF Only

(* A failed exchange leaves a poisoned session and no one in it.           *)
LEMMA FailStep ==
    ASSUME SessionInv, NEW c \in Everyone, Exchanging(c), Fail(c),
           UNCHANGED <<to_inner, pending>>, from_inner' \in Seq(ALine)
    PROVE  SessionInv'
<1>1. Only(c) /\ callers'[c].pc = "idle" /\ callers'[c].reply = FailClosed
  BY Returning, ReplyTypes DEF Fail, SessionInv
<1>2. /\ session' \in SessionState /\ session'.holder = Free /\ session'.poisoned
      /\ session'.child = "reaped"
  BY DEF Fail, SessionInv, SessionTypes, SessionState
<1>3. SessionTypes'
  BY <1>1, <1>2 DEF SessionInv, SessionTypes, Only
<1>4. OneExchange'
  BY <1>1, <1>2, BootAssumption DEF SessionInv, OneExchange, Exchanging, Only, Everyone
<1>5. OneCallUnderWay'
  BY <1>2 DEF OneCallUnderWay
<1>6. AnswersAreOwn'
  BY <1>1, <1>3, ReplyTypes, SMT DEF SessionInv, SessionTypes, AnswersAreOwn, Only, Call
<1> QED
  BY <1>3, <1>4, <1>5, <1>6 DEF SessionInv

(* Steps that leave the pipes alone and nobody's position of reading.      *)
LEMMA BesideThePipes ==
    ASSUME SessionInv, SessionTypes', OneExchange', session'.poisoned = session.poisoned,
           UNCHANGED <<to_inner, from_inner, pending>>,
           \A c \in Everyone : /\ callers'[c].pc = "reading" <=> callers[c].pc = "reading"
                               /\ callers[c].pc = "reading" => Call(c)' = Call(c)
                               /\ callers'[c].pc = "idle" /\ callers'[c].reply.kind = "line" =>
                                    callers'[c].reply.line.call = Call(c)'
    PROVE  SessionInv'
<1>1. OneCallUnderWay'
  BY DEF SessionInv, OneCallUnderWay, Quiet, IsAnswer
<1>2. AnswersAreOwn'
  BY DEF SessionTypes, AnswersAreOwn
<1> QED
  BY <1>1, <1>2 DEF SessionInv

(* A call begins, and waits for the mutex or is refused by a session that  *)
(* failed.                                                                 *)
LEMMA EnteringSteps ==
    ASSUME SessionInv, NEW c \in Everyone, Begin(c) \/ Lock(c)
    PROVE  SessionInv'
<1>0. SessionTypes /\ OneExchange /\ AnswersAreOwn /\ callers[c] \in CallerState /\ session \in SessionState
  BY DEF SessionInv, SessionTypes
<1>1. CASE Begin(c)
  <2>1. PICK id \in RequestIds :
          callers' = [callers EXCEPT ![c] = [Starting EXCEPT !.call = callers[c].call + 1, !.id = id]]
    BY <1>1 DEF Begin
  <2> DEFINE t == [Starting EXCEPT !.call = callers[c].call + 1, !.id = id]
  <2>2. t \in CallerState /\ t.pc = "calling"
    <3>1. Starting \in CallerState /\ Starting.pc = "calling"
      BY ReplyTypes DEF Starting, CallerState, AnyId
    <3>2. id \in AnyId /\ callers[c].call + 1 \in Nat
      BY <1>0, SMT DEF CallerState, AnyId
    <3> HIDE DEF Starting
    <3> QED
      BY <3>1, <3>2 DEF CallerState
  <2> HIDE DEF t
  <2>3. callers' = [callers EXCEPT ![c] = t]
    BY <2>1 DEF t
  <2>4. callers'[c] = t /\ (\A d \in Everyone : d # c => callers'[d] = callers[d])
        /\ callers' \in [Everyone -> CallerState]
    BY <1>0, <2>2, <2>3 DEF SessionTypes
  <2>5. callers[c].pc = "idle" /\ UNCHANGED <<session, to_inner, from_inner, pending>>
    BY <1>1 DEF Begin
  <2>6. SessionTypes'
    BY <1>0, <2>4, <2>5 DEF SessionTypes
  <2>7. OneExchange'
    BY <1>0, <2>2, <2>4, <2>5 DEF OneExchange, Exchanging
  <2> QED
    BY <1>0, <2>2, <2>4, <2>5, <2>6, <2>7, BesideThePipes DEF AnswersAreOwn, SessionTypes, Call
<1>2. CASE Lock(c)
  <2>1. callers[c].pc = "calling" /\ session.holder = Free /\ UNCHANGED <<to_inner, from_inner, pending>>
    BY <1>2 DEF Lock
  <2>2. CASE session.poisoned
    <3>1. Only(c) /\ callers'[c].pc = "idle" /\ callers'[c].reply = FailClosed /\ session' = session
      BY <1>0, <1>2, <2>2, Returning, ReplyTypes DEF Lock
    <3>2. SessionTypes'
      BY <1>0, <2>1, <3>1 DEF SessionTypes, Only
    <3>3. OneExchange'
      BY <1>0, <2>1, <3>1 DEF OneExchange, Exchanging, Only
    <3> QED
      BY <1>0, <2>1, <3>1, <3>2, <3>3, BesideThePipes, ReplyTypes, SMT DEF AnswersAreOwn, SessionTypes,
              Call, Only
  <2>3. CASE ~session.poisoned
    <3> DEFINE t == [callers[c] EXCEPT !.pc = "writing"]
    <3>1. t \in CallerState /\ t.pc = "writing"
      BY <1>0, CallerFields
    <3>2. callers' = [callers EXCEPT ![c] = t] /\ session' = [session EXCEPT !.holder = c]
      BY <1>2, <2>3 DEF Lock
    <3> HIDE DEF t
    <3>3. callers'[c] = t /\ (\A d \in Everyone : d # c => callers'[d] = callers[d])
          /\ callers' \in [Everyone -> CallerState]
      BY <1>0, <3>1, <3>2 DEF SessionTypes
    <3>4. session' \in SessionState /\ session'.holder = c /\ ~session'.poisoned
      BY <1>0, <2>3, <3>2 DEF SessionState
    <3>5. SessionTypes'
      BY <1>0, <2>1, <3>3, <3>4 DEF SessionTypes
    <3>6. \A d \in Everyone : ~Exchanging(d)
      BY <1>0, <2>1, BootAssumption DEF OneExchange, Everyone
    <3>7. OneExchange'
      BY <3>1, <3>3, <3>4, <3>6 DEF OneExchange, Exchanging
    <3> QED
      <4>1. \A d \in Everyone : /\ callers'[d].pc = "reading" <=> callers[d].pc = "reading"
                                /\ callers[d].pc = "reading" => Call(d)' = Call(d)
        BY <2>1, <3>1, <3>3 DEF Call
      <4>2. \A d \in Everyone : callers'[d].pc = "idle" /\ callers'[d].reply.kind = "line" =>
                                callers'[d].reply.line.call = Call(d)'
        BY <1>0, <3>1, <3>3 DEF AnswersAreOwn, SessionTypes, Call
      <4>3. session'.poisoned = session.poisoned
        BY <1>0, <2>3, <3>4 DEF SessionState
      <4> QED
        BY <2>1, <3>5, <3>7, <4>1, <4>2, <4>3, BesideThePipes
  <2> QED
    BY <2>2, <2>3
<1> QED
  BY <1>1, <1>2

(* Whoever is past the mutex is alone there.                               *)
LEMMA Alone ==
    ASSUME SessionInv, NEW c \in Everyone, Exchanging(c)
    PROVE  ~session.poisoned /\ session.holder = c /\ \A d \in Everyone : d # c => ~Exchanging(d)
  BY BootAssumption DEF SessionInv, OneExchange, Everyone

(* The request is written: it is now all that is under way.                *)
LEMMA WritingStep ==
    ASSUME SessionInv, NEW c \in Everyone, WriteLine(c)
    PROVE  SessionInv'
<1>1. callers[c].pc = "writing" /\ UNCHANGED <<session, from_inner, pending>> /\ to_inner' = Append(to_inner, Call(c))
  BY DEF WriteLine
<1>2. ~session.poisoned /\ session.holder = c /\ \A d \in Everyone : d # c => ~Exchanging(d)
  BY <1>1, Alone DEF Exchanging
<1>3. Quiet /\ \A i \in DOMAIN from_inner : ~IsAnswer(i)
  BY <1>1, <1>2 DEF SessionInv, OneCallUnderWay, Exchanging
<1>4. callers[c] \in CallerState /\ callers \in [Everyone -> CallerState] /\ Call(c) \in ACall
  BY CallType DEF SessionInv, SessionTypes
<1> DEFINE t == [callers[c] EXCEPT !.pc = "reading", !.age = 0]
<1>5. /\ t \in CallerState /\ t.pc = "reading" /\ t.call = callers[c].call /\ t.id = callers[c].id
      /\ callers' = [callers EXCEPT ![c] = t]
  BY <1>4, CallerFields DEF WriteLine
<1> HIDE DEF t
<1>6. callers'[c] = t /\ (\A d \in Everyone : d # c => callers'[d] = callers[d])
      /\ callers' \in [Everyone -> CallerState]
  BY <1>4, <1>5
<1>7. to_inner' = <<Call(c)>> /\ to_inner' \in Seq(ACall)
  BY <1>1, <1>3, <1>4, SMT DEF Quiet
<1>8. Call(c)' = Call(c)
  BY <1>5, <1>6 DEF Call
<1>9. SessionTypes'
  BY <1>1, <1>6, <1>7 DEF SessionInv, SessionTypes
<1>10. OneExchange'
  BY <1>1, <1>2, <1>5, <1>6 DEF SessionInv, OneExchange, Exchanging
<1>11. OneCallUnderWay'
  BY <1>1, <1>2, <1>3, <1>5, <1>6, <1>7, <1>8 DEF OneCallUnderWay, Exchanging, Quiet, IsAnswer
<1>12. AnswersAreOwn'
  BY <1>5, <1>6 DEF SessionInv, SessionTypes, AnswersAreOwn, Call
<1> QED
  BY <1>9, <1>10, <1>11, <1>12 DEF SessionInv

(* A line is read: it is the answer, and then nothing is under way, or it  *)
(* is skipped, or it ends the session.                                     *)
LEMMA ReadingStep ==
    ASSUME SessionInv, NEW c \in Everyone, ReadLine(c)
    PROVE  SessionInv'
<1> DEFINE line == Head(from_inner)
<1>1. /\ callers[c].pc = "reading" /\ from_inner # <<>> /\ from_inner' = Tail(from_inner)
      /\ UNCHANGED <<to_inner, pending>>
  BY DEF ReadLine
<1>2. ~session.poisoned /\ session.holder = c /\ \A d \in Everyone : d # c => ~Exchanging(d)
  BY <1>1, Alone DEF Exchanging
<1>3. /\ from_inner \in Seq(ALine) /\ callers[c] \in CallerState /\ callers \in [Everyone -> CallerState]
      /\ session \in SessionState /\ SessionTypes
  BY DEF SessionInv, SessionTypes
<1>4. /\ from_inner' \in Seq(ALine) /\ 1 \in DOMAIN from_inner /\ line = from_inner[1] /\ line \in ALine
      /\ \A i \in DOMAIN from_inner' :
            i + 1 \in DOMAIN from_inner /\ from_inner'[i] = from_inner[i + 1] /\ i + 1 # 1
      /\ \A i, j \in DOMAIN from_inner' : i + 1 = j + 1 => i = j
  BY <1>1, <1>3, PipeFacts, SMT
<1>5. /\ \A i \in DOMAIN from_inner : IsAnswer(i) => Quiet /\ from_inner[i].call = Call(c)
      /\ \A i, j \in DOMAIN from_inner : IsAnswer(i) /\ IsAnswer(j) => i = j
      /\ \/ to_inner = <<>> /\ pending \subseteq {Call(c)}
         \/ to_inner = <<Call(c)>> /\ pending = {}
  BY <1>1, <1>2 DEF SessionInv, OneCallUnderWay
<1>6. CASE Fail(c)
  BY <1>1, <1>4, <1>6, FailStep DEF Exchanging
<1>7. CASE Succeed(c, line) /\ line.kind = "answer"
  <2>1. [kind |-> "line", line |-> line] \in AReply
    BY <1>4, ReplyTypes
  <2>2. Only(c) /\ callers'[c].pc = "idle" /\ callers'[c].reply = [kind |-> "line", line |-> line]
    BY <1>3, <1>7, <2>1, Returning DEF Succeed
  <2>3. session' \in SessionState /\ session'.holder = Free /\ ~session'.poisoned
    BY <1>2, <1>3, <1>7 DEF Succeed, SessionState
  <2>4. IsAnswer(1) /\ Quiet /\ line.call = Call(c)
    BY <1>4, <1>5, <1>7 DEF IsAnswer
  <2>5. \A i \in DOMAIN from_inner' : from_inner'[i].kind # "answer"
    BY <1>4, <1>5, <2>4 DEF IsAnswer
  <2>6. SessionTypes'
    BY <1>1, <1>3, <1>4, <2>2, <2>3 DEF SessionTypes, Only
  <2>7. \A d \in Everyone : ~Exchanging(d)'
    BY <1>2, <2>2 DEF Exchanging, Only
  <2>8. OneExchange'
    BY <2>3, <2>7, BootAssumption DEF OneExchange, Everyone
  <2>9. OneCallUnderWay'
    BY <1>1, <2>4, <2>5, <2>7 DEF OneCallUnderWay, Exchanging, Quiet, IsAnswer
  <2>10. callers'[c].reply.line.call = Call(c)'
    BY <2>2, <2>4, SMT DEF Call, Only
  <2>11. AnswersAreOwn'
    BY <1>3, <2>2, <2>6, <2>10 DEF SessionInv, SessionTypes, AnswersAreOwn, Only, Call
  <2> QED
    BY <2>6, <2>8, <2>9, <2>11 DEF SessionInv
<1>8. CASE callers' = [callers EXCEPT ![c].skipped = @ + 1] /\ UNCHANGED session
  <2> DEFINE t == [callers[c] EXCEPT !.skipped = @ + 1]
  <2>1. /\ t \in CallerState /\ t.pc = "reading" /\ t.call = callers[c].call /\ t.id = callers[c].id
        /\ callers' = [callers EXCEPT ![c] = t]
    BY <1>1, <1>3, <1>8, CallerFields
  <2> HIDE DEF t
  <2>2. callers'[c] = t /\ (\A d \in Everyone : d # c => callers'[d] = callers[d])
        /\ callers' \in [Everyone -> CallerState]
    BY <1>3, <2>1
  <2>3. Call(c)' = Call(c)
    BY <2>1, <2>2 DEF Call
  <2>4. SessionTypes'
    BY <1>1, <1>3, <1>4, <1>8, <2>2 DEF SessionTypes
  <2>5. OneExchange'
    BY <1>1, <1>8, <2>1, <2>2 DEF SessionInv, OneExchange, Exchanging
  <2>6. \A d \in Everyone : callers'[d].pc = "reading" => d = c
    BY <1>2, <2>2 DEF Exchanging
  <2>7. OneCallUnderWay'
    BY <1>1, <1>4, <1>5, <2>1, <2>2, <2>3, <2>6, SMT DEF OneCallUnderWay, Quiet, IsAnswer
  <2>8. AnswersAreOwn'
    BY <1>3, <2>1, <2>2 DEF SessionInv, SessionTypes, AnswersAreOwn, Call
  <2> QED
    BY <2>4, <2>5, <2>7, <2>8 DEF SessionInv
<1> QED
  BY <1>6, <1>7, <1>8 DEF ReadLine

(* The child reads, answers, chatters and dies.                            *)
LEMMA ChildSteps ==
    ASSUME SessionInv, Take \/ Answer \/ Chatter \/ Die
    PROVE  SessionInv'
<1>0. SessionTypes /\ OneExchange /\ OneCallUnderWay /\ AnswersAreOwn
  BY DEF SessionInv
<1>1. session.child = "alive" /\ ~session.poisoned /\ UNCHANGED callers
  BY <1>0 DEF Take, Answer, Chatter, Die, ChildAlive, OneExchange
<1>2. AnswersAreOwn' /\ \A c \in Everyone : Call(c)' = Call(c) /\ (Exchanging(c)' <=> Exchanging(c))
  BY <1>0, <1>1 DEF AnswersAreOwn, Call, Exchanging
<1>3. CASE Die
  <2>1. session' = [session EXCEPT !.child = "dead"] /\ UNCHANGED <<to_inner, from_inner, pending>>
    BY <1>3 DEF Die
  <2>2. session' \in SessionState /\ session'.holder = session.holder /\ ~session'.poisoned
    BY <1>0, <1>1, <2>1 DEF SessionTypes, SessionState
  <2>3. SessionTypes' /\ OneExchange'
    BY <1>0, <1>1, <1>2, <2>1, <2>2 DEF SessionTypes, OneExchange
  <2>4. OneCallUnderWay'
    BY <1>0, <1>1, <1>2, <2>1, <2>2 DEF OneCallUnderWay, Quiet, IsAnswer
  <2> QED
    BY <1>2, <2>3, <2>4 DEF SessionInv
<1>4. CASE Take
  <2>1. /\ to_inner # <<>> /\ pending' = pending \cup {Head(to_inner)} /\ to_inner' = Tail(to_inner)
        /\ UNCHANGED <<session, from_inner>>
    BY <1>4 DEF Take
  <2>2. PICK c \in Everyone : callers[c].pc = "reading"
    BY <1>0, <1>1, <2>1 DEF OneCallUnderWay, Quiet
  <2>3. to_inner = <<Call(c)>> /\ pending = {} /\ \A i \in DOMAIN from_inner : ~IsAnswer(i)
    BY <1>0, <1>1, <2>1, <2>2 DEF OneCallUnderWay, Quiet
  <2>4. to_inner' = <<>> /\ pending' = {Call(c)}
    BY <2>1, <2>3, SMT
  <2>5. SessionTypes'
    BY <1>0, <1>1, <2>1, <2>4, CallType, SMT DEF SessionTypes
  <2>6. OneExchange'
    BY <1>0, <1>2, <2>1 DEF OneExchange
  <2>7. \A d \in Everyone : callers[d].pc = "reading" => d = c
    BY <2>2, Alone DEF Exchanging
  <2>8. OneCallUnderWay'
    BY <1>1, <1>2, <2>1, <2>2, <2>3, <2>4, <2>7 DEF OneCallUnderWay, Quiet, IsAnswer
  <2> QED
    BY <1>2, <2>5, <2>6, <2>8 DEF SessionInv
<1>5. CASE Answer
  <2>1. PICK call \in pending, ok \in BOOLEAN :
          /\ from_inner' = Append(from_inner, [kind |-> "answer", call |-> call, ok |-> ok])
          /\ pending' = pending \ {call}
    BY <1>5 DEF Answer
  <2>2. UNCHANGED <<session, to_inner>>
    BY <1>5 DEF Answer
  <2>3. PICK c \in Everyone : callers[c].pc = "reading"
    BY <1>0, <1>1, <2>1 DEF OneCallUnderWay, Quiet
  <2>4. to_inner = <<>> /\ call = Call(c) /\ pending' = {} /\ \A i \in DOMAIN from_inner : ~IsAnswer(i)
    BY <1>0, <1>1, <2>1, <2>3 DEF OneCallUnderWay, Quiet
  <2>5. [kind |-> "answer", call |-> call, ok |-> ok] \in ALine
    BY <1>0, <2>4, CallType DEF ALine
  <2>6. /\ from_inner' \in Seq(ALine) /\ DOMAIN from_inner' = DOMAIN from_inner \cup {Len(from_inner) + 1}
        /\ from_inner'[Len(from_inner) + 1] = [kind |-> "answer", call |-> call, ok |-> ok]
        /\ \A i \in DOMAIN from_inner : from_inner'[i] = from_inner[i]
    BY <1>0, <2>1, <2>5, PipeFacts, SMT DEF SessionTypes
  <2>7. /\ \A i \in DOMAIN from_inner' : from_inner'[i].kind = "answer" => i = Len(from_inner) + 1
        /\ from_inner'[Len(from_inner) + 1].call = Call(c)
    BY <2>4, <2>6, SMT DEF IsAnswer
  <2>8. SessionTypes'
    BY <1>0, <1>1, <2>2, <2>4, <2>6 DEF SessionTypes
  <2>9. OneExchange'
    BY <1>0, <1>2, <2>2 DEF OneExchange
  <2>10. \A d \in Everyone : callers[d].pc = "reading" => d = c
    BY <2>3, Alone DEF Exchanging
  <2>11. OneCallUnderWay'
    BY <1>1, <1>2, <2>2, <2>3, <2>4, <2>7, <2>10 DEF OneCallUnderWay, Quiet, IsAnswer
  <2> QED
    BY <1>2, <2>8, <2>9, <2>11 DEF SessionInv
<1>6. CASE Chatter
  <2>1. PICK kind \in {"note", "blank", "junk"} : from_inner' = Append(from_inner, [kind |-> kind])
    BY <1>6 DEF Chatter
  <2>2. UNCHANGED <<session, to_inner, pending>>
    BY <1>6 DEF Chatter
  <2>3. [kind |-> kind] \in ALine /\ [kind |-> kind].kind # "answer"
    BY DEF ALine
  <2>4. /\ from_inner' \in Seq(ALine) /\ DOMAIN from_inner' = DOMAIN from_inner \cup {Len(from_inner) + 1}
        /\ from_inner'[Len(from_inner) + 1] = [kind |-> kind]
        /\ \A i \in DOMAIN from_inner : from_inner'[i] = from_inner[i]
    BY <1>0, <2>1, <2>3, PipeFacts, SMT DEF SessionTypes
  <2>5. \A i \in DOMAIN from_inner' : from_inner'[i].kind = "answer" =>
          i \in DOMAIN from_inner /\ IsAnswer(i) /\ from_inner'[i] = from_inner[i]
    BY <2>3, <2>4 DEF IsAnswer
  <2>6. SessionTypes'
    BY <1>0, <1>1, <2>2, <2>4 DEF SessionTypes
  <2>7. OneExchange'
    BY <1>0, <1>2, <2>2 DEF OneExchange
  <2>8. OneCallUnderWay'
    BY <1>0, <1>1, <1>2, <2>2, <2>5 DEF OneCallUnderWay, Quiet, IsAnswer
  <2> QED
    BY <1>2, <2>6, <2>7, <2>8 DEF SessionInv
<1> QED
  BY <1>3, <1>4, <1>5, <1>6

(* Time passes, and the session is dropped.                                *)
LEMMA OutsideSteps ==
    ASSUME SessionInv, PersistentTick \/ Drop
    PROVE  SessionInv'
<1>0. /\ SessionTypes /\ OneExchange /\ AnswersAreOwn /\ session \in SessionState
      /\ callers \in [Everyone -> CallerState]
  BY DEF SessionInv, SessionTypes
<1>1. CASE PersistentTick
  <2>1. UNCHANGED <<session, to_inner, from_inner, pending>>
    BY <1>1 DEF PersistentTick
  <2>2. /\ callers' \in [Everyone -> CallerState]
        /\ \A c \in Everyone : /\ callers'[c].pc = callers[c].pc /\ callers'[c].call = callers[c].call
                               /\ callers'[c].id = callers[c].id /\ callers'[c].reply = callers[c].reply
    <3>1. callers' = [c \in Everyone |-> IF callers[c].pc \in {"writing", "reading"}
                                         THEN [callers[c] EXCEPT !.age = @ + 1] ELSE callers[c]]
      BY <1>0, <1>1 DEF PersistentTick
    <3>2. \A c \in Everyone :
            LET t == [callers[c] EXCEPT !.age = @ + 1]
            IN  /\ t \in CallerState /\ t.pc = callers[c].pc /\ t.call = callers[c].call
                /\ t.id = callers[c].id /\ t.reply = callers[c].reply
      BY <1>0, CallerFields
    <3> QED
      BY <1>0, <3>1, <3>2
  <2>3. SessionTypes'
    BY <1>0, <2>1, <2>2 DEF SessionTypes
  <2>4. OneExchange'
    BY <1>0, <2>1, <2>2 DEF OneExchange, Exchanging
  <2> QED
    BY <1>0, <2>1, <2>2, <2>3, <2>4, BesideThePipes, ZenonT(60) DEF AnswersAreOwn, Call
<1>2. CASE Drop
  <2>1. UNCHANGED <<callers, to_inner, from_inner, pending>>
    BY <1>2 DEF Drop
  <2>2. /\ session' \in SessionState /\ session'.holder = session.holder
        /\ session'.poisoned = session.poisoned /\ (session.poisoned => session'.child = session.child)
    BY <1>0, <1>2 DEF Drop, SessionState
  <2>3. SessionTypes'
    BY <1>0, <2>1, <2>2 DEF SessionTypes
  <2>4. OneExchange'
    BY <1>0, <2>1, <2>2 DEF OneExchange, Exchanging
  <2> QED
    BY <1>0, <2>1, <2>2, <2>3, <2>4, BesideThePipes DEF AnswersAreOwn, Call
<1> QED
  BY <1>1, <1>2

(* The constructor is about to make the first call.                        *)
LEMMA SessionInitially == PersistentInit => SessionInv
<1> SUFFICES ASSUME PersistentInit PROVE SessionInv
  OBVIOUS
<1>1. Starting \in CallerState /\ Starting.pc = "calling"
  BY ReplyTypes DEF Starting, CallerState, AnyId
<1>2. Idle \in CallerState /\ Idle.pc = "idle" /\ Idle.reply = NoReply
  BY ReplyTypes DEF Idle, Starting, CallerState, AnyId
<1>3. /\ callers \in [Everyone -> CallerState]
      /\ \A c \in Everyone : callers[c] \in {Starting, Idle}
  BY <1>1, <1>2 DEF PersistentInit, Everyone
<1>4. SessionTypes
  BY <1>3, SMT DEF PersistentInit, SessionTypes, SessionState
<1>5. OneExchange
  BY <1>1, <1>2, <1>3, BootAssumption DEF PersistentInit, OneExchange, Exchanging, Everyone
<1>6. OneCallUnderWay
  BY <1>1, <1>2, <1>3, SMT DEF PersistentInit, OneCallUnderWay, Quiet, IsAnswer
<1>7. AnswersAreOwn
  BY <1>1, <1>2, <1>3, ReplyTypes DEF AnswersAreOwn
<1> QED
  BY <1>4, <1>5, <1>6, <1>7 DEF SessionInv

(* Every step keeps the invariant.                                         *)
LEMMA SessionStep == SessionInv /\ [PersistentNext]_persistentVars => SessionInv'
<1> SUFFICES ASSUME SessionInv, [PersistentNext]_persistentVars PROVE SessionInv'
  OBVIOUS
<1>1. ASSUME NEW c \in Everyone, WriteFails(c) \/ ReadFails(c) PROVE SessionInv'
  <2>1. Exchanging(c) /\ Fail(c) /\ UNCHANGED <<to_inner, from_inner, pending>>
    BY <1>1 DEF WriteFails, ReadFails, Exchanging
  <2>2. from_inner' \in Seq(ALine)
    BY <2>1 DEF SessionInv, SessionTypes
  <2> QED
    BY <2>1, <2>2, FailStep
<1>2. CASE UNCHANGED persistentVars
  <2>1. UNCHANGED <<session, callers, to_inner, from_inner, pending>>
    BY <1>2 DEF persistentVars
  <2>2. SessionTypes'
    BY <2>1 DEF SessionInv, SessionTypes
  <2>3. OneExchange' /\ AnswersAreOwn'
    BY <2>1 DEF SessionInv, OneExchange, Exchanging, AnswersAreOwn, Call
  <2>4. OneCallUnderWay'
    BY <2>1 DEF SessionInv, OneCallUnderWay, Quiet, IsAnswer, Call
  <2> QED
    BY <2>2, <2>3, <2>4 DEF SessionInv
<1> QED
  BY <1>1, <1>2, EnteringSteps, WritingStep, ReadingStep, ChildSteps, OutsideSteps
  DEF PersistentNext, Step, Everyone

(* In a poisoned session nobody is past the mutex, so nothing is written   *)
(* and nothing succeeds.                                                   *)
LEMMA PoisonedStep ==
    ASSUME SessionInv, [PersistentNext]_persistentVars, session.poisoned
    PROVE  /\ session'.poisoned /\ session'.child = "reaped" /\ to_inner' = to_inner
           /\ \A c \in DOMAIN callers : callers'[c].reply.kind = "line" => callers[c].reply.kind = "line"
<1>0. /\ SessionTypes /\ session \in SessionState /\ callers \in [Everyone -> CallerState]
      /\ session.child = "reaped" /\ \A c \in Everyone : ~Exchanging(c)
  BY BootAssumption DEF SessionInv, SessionTypes, OneExchange, Everyone
<1>1. \A c \in Everyone : ~WriteLine(c) /\ ~WriteFails(c) /\ ~ReadLine(c) /\ ~ReadFails(c)
  BY <1>0 DEF WriteLine, WriteFails, ReadLine, ReadFails, Exchanging
<1>2. ~Take /\ ~Answer /\ ~Chatter /\ ~Die /\ ~PersistentTick
  BY <1>0 DEF Take, Answer, Chatter, Die, ChildAlive, PersistentTick, Exchanging
<1>3. ASSUME NEW c \in Everyone, Begin(c)
      PROVE  /\ UNCHANGED <<session, to_inner>>
             /\ \A d \in Everyone : callers'[d].reply.kind = "line" => callers[d].reply.kind = "line"
  <2>1. \A n, i : [Starting EXCEPT !.call = n, !.id = i].reply = NoReply
    BY DEF Starting
  <2> QED
    BY <1>0, <1>3, <2>1, ReplyTypes, SMT DEF Begin
<1>4. ASSUME NEW c \in Everyone, Lock(c)
      PROVE  /\ UNCHANGED <<session, to_inner>>
             /\ \A d \in Everyone : callers'[d].reply.kind = "line" => callers[d].reply.kind = "line"
  <2>1. Return(c, FailClosed) /\ UNCHANGED <<session, to_inner>>
    BY <1>4 DEF Lock
  <2> QED
    BY <1>0, <2>1, Returning, ReplyTypes DEF Only
<1>5. CASE Drop
  BY <1>0, <1>5 DEF Drop, SessionState
<1>6. CASE UNCHANGED persistentVars
  BY <1>0, <1>6 DEF persistentVars
<1> QED
  BY <1>0, <1>1, <1>2, <1>3, <1>4, <1>5, <1>6 DEF PersistentNext, Step, Everyone

(* For any callers and request ids, any timeout and limit on skipped       *)
(* lines: a caller of the shared session gets the answer to its own call,  *)
(* and a session that failed stays dead (persistent_inner.rs).             *)
THEOREM SharedSessionIsSound == PersistentSpec => SessionIsSound
<1>1. SessionInv => AnswersAreOwn
  BY DEF SessionInv
<1>2. SessionInv /\ [PersistentNext]_persistentVars =>
        [session.poisoned =>
            /\ session'.poisoned /\ session'.child = "reaped"
            /\ to_inner' = to_inner
            /\ \A c \in DOMAIN callers :
                callers'[c].reply.kind = "line" => callers[c].reply.kind = "line"]_persistentVars
  BY PoisonedStep
<1> QED
  BY <1>1, <1>2, SessionInitially, SessionStep, PTL DEF PersistentSpec, SessionIsSound, PoisonIsFinal

-----------------------------------------------------------------------------
(* TlsConnections: the server                                              *)

ConnPcs ==
    {"backlog", "read", "blocked", "judge", "handle", "write", "closing", "closed", "over", "dropped",
     "crashed"}

Conn == [pc : ConnPcs, got : Nat, age : Nat, waited : Nat]

PeerState == [header : Nat, declared : Nat, sent : Nat, framed : BOOLEAN, admitted : BOOLEAN]

ServerTypes ==
    /\ threaded \in BOOLEAN
    /\ peer \in [Conns -> PeerState]
    /\ conn \in [Conns -> Conn]
    /\ in_flight \in Int

LivePcs == {"read", "blocked", "judge", "handle", "write", "closing"}
LostPcs == {"over", "crashed"}
Of(pcs) == {c \in Conns : conn[c].pc \in pcs}

(* As long as a thread reads, what it has is part of the handshake, of a   *)
(* header within the limit, or of a body whose length was accepted, behind *)
(* a header that exceeds the limit by less than one read.                  *)
HoldsPart(p, got) ==
    LET buf == got - Hello
    IN  \/ got < Hello
        \/ buf < p.header /\ buf <= MaxHeader
        \/ /\ p.header <= buf /\ buf < p.header + p.declared
           /\ p.declared <= MaxBody /\ p.header <= MaxHeader + Chunk

(* A read that is under way began before the deadline.                     *)
ReadInv ==
    \A c \in Conns :
        /\ conn[c].pc = "backlog" => conn[c].got = 0
        /\ conn[c].pc \in {"read", "blocked"} => HoldsPart(peer[c], conn[c].got)
        /\ conn[c].pc = "blocked" =>
            conn[c].age < RequestDeadline + conn[c].waited /\ conn[c].waited <= ReadTimeout

SlotInv ==
    threaded =>
        /\ in_flight = Cardinality(Of(LivePcs)) + Cardinality(Of(LostPcs))
        /\ Cardinality(Of(LivePcs)) <= MaxConnections

ServerInv == ServerTypes /\ ReadInv /\ SlotInv /\ IntakeIsBounded

(* The constants as the proofs use them.                                   *)
LEMMA Limits ==
    /\ MaxConnections \in Nat /\ Chunk \in Nat /\ Hello \in Nat /\ ReadTimeout \in Nat /\ RequestDeadline \in Nat
    /\ Chunk > 0 /\ Hello > 0 /\ ReadTimeout > 0 /\ RequestDeadline > 0 /\ MaxConnections > 0
    /\ MaxHeader \in Nat /\ MaxBody \in Nat /\ IsFiniteSet(Conns)
  BY LimitsAssumption, SMT

(* Where a connection goes, it keeps only what the next phase needs.       *)
LEMMA AtFacts ==
    ASSUME NEW k \in Conn, NEW at \in ConnPcs
    PROVE  /\ At(at, k) \in Conn /\ At(at, k).pc = at /\ At(at, k).waited = 0
           /\ At(at, k).got = IF at \in {"read", "blocked", "judge"} THEN k.got ELSE 0
           /\ At(at, k).age = IF at \in {"read", "blocked"} THEN k.age ELSE 0
  BY DEF At, Conn, ConnPcs

(* Reading on keeps the three forms, and what has come is within the       *)
(* limits and two reads.                                                   *)
LEMMA ReadFacts ==
    ASSUME NEW p \in PeerState, NEW got \in Nat, HoldsPart(p, got), NEW n \in 1 .. Chunk
    PROVE  /\ ReadHttpRequest(p, got + n, FALSE) \in {"closing", "read", "judge"}
           /\ ReadHttpRequest(p, got + n, FALSE) = "read" => HoldsPart(p, got + n)
           /\ (got + n) - Hello < MaxHeader + MaxBody + 2 * Chunk
           /\ got - Hello < MaxHeader + MaxBody + 2 * Chunk
           /\ ReadHttpRequest(p, got, TRUE) \in {"closing", "judge"}
<1>1. /\ p.header \in Nat /\ p.declared \in Nat /\ p.framed \in BOOLEAN /\ n \in Nat /\ n <= Chunk
      /\ \A g \in Nat : g < Hello \/ g >= Hello
      /\ \A g \in Nat : g - Hello < p.header \/ g - Hello >= p.header
  BY Limits, SMT DEF PeerState
<1>2. ReadHttpRequest(p, got + n, FALSE) \in {"closing", "read", "judge"}
  BY <1>1, Limits, SMT DEF ReadHttpRequest
<1>3. ReadHttpRequest(p, got, TRUE) \in {"closing", "judge"}
  BY <1>1, Limits DEF ReadHttpRequest
<1>4. (got + n) - Hello < MaxHeader + MaxBody + 2 * Chunk
  BY <1>1, Limits, SMT DEF HoldsPart
<1>5. got - Hello < MaxHeader + MaxBody + 2 * Chunk
  BY <1>1, Limits, SMT DEF HoldsPart
<1>6. ASSUME ReadHttpRequest(p, got + n, FALSE) = "read" PROVE HoldsPart(p, got + n)
  <2>1. \/ got + n < Hello
        \/ (got + n) - Hello < p.header /\ (got + n) - Hello <= MaxHeader
        \/ /\ p.header <= (got + n) - Hello /\ (got + n) - Hello < p.header + p.declared
           /\ p.declared <= MaxBody
    BY <1>1, <1>6, Limits, SMT DEF ReadHttpRequest
  <2>2. p.header <= (got + n) - Hello => p.header <= MaxHeader + Chunk
    BY <1>1, Limits, SMT DEF HoldsPart
  <2> QED
    BY <1>1, <2>1, <2>2, Limits DEF HoldsPart
<1> QED
  BY <1>2, <1>3, <1>4, <1>5, <1>6

(* One connection more or less at some of the positions.                   *)
LEMMA CountOne ==
    ASSUME ServerTypes, NEW c \in Conns, NEW k \in Conn, conn' = [conn EXCEPT ![c] = k], NEW pcs
    PROVE  /\ Cardinality(Of(pcs)) \in Nat /\ Cardinality(Of(pcs))' \in Nat
           /\ Cardinality(Of(pcs))' = Cardinality(Of(pcs)) + (IF k.pc \in pcs THEN 1 ELSE 0)
                                                           - (IF conn[c].pc \in pcs THEN 1 ELSE 0)
<1>1. IsFiniteSet(Of(pcs)) /\ Cardinality(Of(pcs)) \in Nat
  BY Limits, FS_Subset, FS_CardinalityType DEF Of
<1>2. conn'[c] = k /\ \A d \in Conns : d # c => conn'[d] = conn[d]
  BY DEF ServerTypes
<1>3. CASE k.pc \in pcs /\ conn[c].pc \in pcs
  <2>1. Of(pcs)' = Of(pcs)
    BY <1>2, <1>3 DEF Of
  <2> QED
    BY <1>1, <1>3, <2>1, SMT
<1>4. CASE k.pc \in pcs /\ conn[c].pc \notin pcs
  <2>1. Of(pcs)' = Of(pcs) \cup {c} /\ c \notin Of(pcs)
    BY <1>2, <1>4 DEF Of
  <2>2. Cardinality(Of(pcs) \cup {c}) = Cardinality(Of(pcs)) + 1
    BY <1>1, <2>1, FS_AddElement
  <2> QED
    BY <1>1, <1>4, <2>1, <2>2, SMT
<1>5. CASE k.pc \notin pcs /\ conn[c].pc \in pcs
  <2>1. Of(pcs)' = Of(pcs) \ {c} /\ c \in Of(pcs)
    BY <1>2, <1>5 DEF Of
  <2>2. Cardinality(Of(pcs) \ {c}) = Cardinality(Of(pcs)) - 1 /\ IsFiniteSet(Of(pcs) \ {c})
    BY <1>1, <2>1, FS_RemoveElement
  <2>3. Cardinality(Of(pcs) \ {c}) \in Nat
    BY <2>2, FS_CardinalityType
  <2> QED
    BY <1>1, <1>5, <2>1, <2>2, <2>3, SMT
<1>6. CASE k.pc \notin pcs /\ conn[c].pc \notin pcs
  <2>1. Of(pcs)' = Of(pcs)
    BY <1>2, <1>6 DEF Of
  <2> QED
    BY <1>1, <1>6, <2>1, SMT
<1> QED
  BY <1>3, <1>4, <1>5, <1>6

(* One connection goes on: its reading, its bytes and the count of slots   *)
(* are what matters.                                                       *)
LEMMA OneMoves ==
    ASSUME ServerInv, NEW c \in Conns, NEW k \in Conn, conn' = [conn EXCEPT ![c] = k],
           UNCHANGED <<threaded, peer>>, in_flight' \in Int,
           k.pc # "backlog",
           k.pc \in {"read", "blocked"} => HoldsPart(peer[c], k.got),
           k.pc = "blocked" => k.age < RequestDeadline + k.waited /\ k.waited <= ReadTimeout,
           k.got - Hello < MaxHeader + MaxBody + 2 * Chunk,
           threaded =>
             /\ in_flight' = in_flight + (IF k.pc \in LivePcs \cup LostPcs THEN 1 ELSE 0)
                                       - (IF conn[c].pc \in LivePcs \cup LostPcs THEN 1 ELSE 0)
             /\ k.pc \in LivePcs /\ conn[c].pc \notin LivePcs =>
                    in_flight < MaxConnections /\ conn[c].pc \notin LostPcs
    PROVE  ServerInv'
<1>1. ServerTypes /\ conn'[c] = k /\ \A d \in Conns : d # c => conn'[d] = conn[d]
  BY DEF ServerInv, ServerTypes
<1>2. ServerTypes'
  BY <1>1 DEF ServerTypes
<1>3. ReadInv'
  BY <1>1 DEF ServerInv, ReadInv, HoldsPart
<1>4. IntakeIsBounded'
  BY <1>1 DEF ServerInv, IntakeIsBounded
<1>5. SlotInv'
  <2> DEFINE live == Cardinality(Of(LivePcs))
             lost == Cardinality(Of(LostPcs))
             One(set, at) == IF at \in set THEN 1 ELSE 0
  <2>1. /\ live \in Nat /\ live' \in Nat /\ lost \in Nat /\ lost' \in Nat
        /\ live' = live + One(LivePcs, k.pc) - One(LivePcs, conn[c].pc)
        /\ lost' = lost + One(LostPcs, k.pc) - One(LostPcs, conn[c].pc)
    BY <1>1, CountOne
  <2>2. \A at : One(LivePcs \cup LostPcs, at) = One(LivePcs, at) + One(LostPcs, at)
    BY SMT DEF LivePcs, LostPcs
  <2>3. \A set, at : One(set, at) \in {0, 1} /\ (One(set, at) = 1 <=> at \in set)
    BY SMT
  <2>4. threaded => /\ in_flight = live + lost /\ live <= MaxConnections
                    /\ in_flight' = in_flight + One(LivePcs \cup LostPcs, k.pc)
                                              - One(LivePcs \cup LostPcs, conn[c].pc)
    BY DEF ServerInv, SlotInv
  <2>5. SUFFICES ASSUME threaded PROVE in_flight' = live' + lost' /\ live' <= MaxConnections
    BY DEF SlotInv
  <2> HIDE DEF live, lost, One
  <2>6. in_flight' = live' + lost'
    BY <2>1, <2>2, <2>3, <2>4, <2>5, SMT
  <2>7. live' <= MaxConnections
    BY <2>1, <2>3, <2>4, <2>5, Limits, SMT
  <2> QED
    BY <2>6, <2>7
<1> QED
  BY <1>2, <1>3, <1>4, <1>5 DEF ServerInv

(* The facts of one connection that its own steps use.                     *)
LEMMA OneConn ==
    ASSUME ServerInv, NEW c \in Conns
    PROVE  /\ conn[c] \in Conn /\ conn[c].got \in Nat /\ conn[c].age \in Nat /\ peer[c] \in PeerState
           /\ in_flight \in Int /\ threaded \in BOOLEAN
           /\ conn[c].pc = "backlog" => conn[c].got = 0
           /\ conn[c].pc \in {"read", "blocked"} => HoldsPart(peer[c], conn[c].got)
           /\ conn[c].got - Hello < MaxHeader + MaxBody + 2 * Chunk
           /\ 0 - Hello < MaxHeader + MaxBody + 2 * Chunk
  BY Limits, SMT DEF ServerInv, ServerTypes, ReadInv, IntakeIsBounded, Conn

(* The accept loops.                                                       *)
LEMMA AcceptSteps ==
    ASSUME ServerInv, NEW c \in Conns, AcceptStep(c)
    PROVE  ServerInv'
<1>0. conn[c].got = 0 => HoldsPart(peer[c], conn[c].got)
  BY Limits DEF HoldsPart
<1>1. ASSUME NEW at \in {"over", "read", "dropped"}, To(c, at), conn[c].pc \in {"backlog", "over"},
             at # "dropped" => conn[c].pc = "backlog", UNCHANGED <<threaded, peer>>, in_flight' \in Int,
             threaded =>
               /\ in_flight' = in_flight + (IF at \in {"over", "read"} THEN 1 ELSE 0)
                                         - (IF conn[c].pc = "over" THEN 1 ELSE 0)
               /\ at = "read" => in_flight < MaxConnections
      PROVE  ServerInv'
  <2> DEFINE k == At(at, conn[c])
  <2>1. k \in Conn /\ k.pc = at /\ (k.got = IF at = "read" THEN conn[c].got ELSE 0)
    BY <1>1, OneConn, AtFacts, SMT DEF ConnPcs
  <2>2. conn' = [conn EXCEPT ![c] = k]
    BY <1>1 DEF To
  <2> HIDE DEF k
  <2>3. /\ k.pc \in LivePcs \cup LostPcs <=> at \in {"over", "read"}
        /\ conn[c].pc \in LivePcs \cup LostPcs <=> conn[c].pc = "over"
        /\ conn[c].pc \notin LivePcs /\ (k.pc \in LivePcs <=> at = "read")
        /\ at = "read" => conn[c].pc \notin LostPcs
    BY <1>1, <2>1 DEF LivePcs, LostPcs
  <2>4. k.pc \in {"read", "blocked"} => HoldsPart(peer[c], k.got)
    BY <1>0, <1>1, <2>1, OneConn
  <2>5. k.got - Hello < MaxHeader + MaxBody + 2 * Chunk /\ k.pc \notin {"backlog", "blocked"}
    BY <1>1, <2>1, OneConn
  <2> QED
    BY <1>1, <2>1, <2>2, <2>3, <2>4, <2>5, OneMoves
<1>2. CASE Reserve(c)
  BY <1>1, <1>2, OneConn, Limits, SMT DEF Reserve
<1>3. CASE GiveBack(c)
  BY <1>1, <1>3, OneConn, SMT DEF GiveBack
<1>4. CASE ServeOnce(c)
  BY <1>1, <1>4, OneConn DEF ServeOnce
<1> QED
  BY <1>2, <1>3, <1>4 DEF AcceptStep

(* A connection that has a thread goes on with it.                         *)
LEMMA ThreadGoesOn ==
    ASSUME ServerInv, NEW c \in Conns, conn[c].pc \in LivePcs,
           NEW got \in Nat, NEW at \in ConnPcs, at # "backlog",
           conn' = [conn EXCEPT ![c] = At(at, [conn[c] EXCEPT !.got = got])],
           UNCHANGED <<threaded, peer>>, in_flight' \in Int,
           at \in {"read", "blocked"} => HoldsPart(peer[c], got),
           at = "blocked" => conn[c].age < RequestDeadline,
           got - Hello < MaxHeader + MaxBody + 2 * Chunk,
           threaded => in_flight' = IF at \in LivePcs \cup LostPcs THEN in_flight ELSE in_flight - 1
    PROVE  ServerInv'
<1>1. [conn[c] EXCEPT !.got = got] \in Conn /\ [conn[c] EXCEPT !.got = got].got = got
      /\ [conn[c] EXCEPT !.got = got].age = conn[c].age
  BY OneConn DEF Conn
<1> DEFINE k == At(at, [conn[c] EXCEPT !.got = got])
<1>2. /\ k \in Conn /\ k.pc = at /\ k.waited = 0 /\ (at = "blocked" => k.age = conn[c].age)
      /\ k.got = IF at \in {"read", "blocked", "judge"} THEN got ELSE 0
  BY <1>1, AtFacts
<1>3. conn' = [conn EXCEPT ![c] = k]
  OBVIOUS
<1> HIDE DEF k
<1>4. k.got - Hello < MaxHeader + MaxBody + 2 * Chunk
  BY <1>2, OneConn
<1>5. k.pc = "blocked" => k.age < RequestDeadline + k.waited /\ k.waited <= ReadTimeout
  BY <1>2, Limits, SMT
<1>6. threaded => in_flight' = in_flight + (IF k.pc \in LivePcs \cup LostPcs THEN 1 ELSE 0)
                                         - (IF conn[c].pc \in LivePcs \cup LostPcs THEN 1 ELSE 0)
  BY <1>2, OneConn, SMT
<1> QED
  BY <1>2, <1>3, <1>4, <1>5, <1>6, OneMoves

(* The thread of a connection, and its peer.                               *)
LEMMA ThreadSteps ==
    ASSUME ServerInv, NEW c \in Conns,
           ThreadStep(c) \/ Receive(c) \/ PeerCloses(c) \/ PeerFails(c) \/ Panic(c)
    PROVE  ServerInv'
<1>0. [conn[c] EXCEPT !.got = conn[c].got] = conn[c]
  BY OneConn DEF Conn
<1>1. ASSUME NEW at \in ConnPcs, at # "backlog", To(c, at), conn[c].pc \in LivePcs,
             UNCHANGED <<threaded, peer>>, in_flight' \in Int,
             at = "read" => FALSE, at = "blocked" => conn[c].pc = "read" /\ conn[c].age < RequestDeadline,
             threaded => in_flight' = IF at \in LivePcs \cup LostPcs THEN in_flight ELSE in_flight - 1
      PROVE  ServerInv'
  BY <1>0, <1>1, OneConn, ThreadGoesOn DEF To
<1> USE DEF ConnPcs, LivePcs, LostPcs
<1>2. CASE StartRead(c)
  BY <1>1, <1>2, OneConn DEF StartRead, CheckDeadline
<1>3. CASE ReadTimesOut(c) \/ PeerFails(c)
  BY <1>1, <1>3, OneConn DEF ReadTimesOut, PeerFails
<1>4. CASE Judge(c)
  BY <1>1, <1>4, OneConn DEF Judge
<1>5. CASE Handle(c) \/ WriteResponse(c) \/ Panic(c)
  BY <1>1, <1>5, OneConn DEF Handle, WriteResponse, Panic
<1>6. CASE Release(c)
  BY <1>1, <1>6, OneConn, SMT DEF Release
<1>7. CASE PeerCloses(c)
  <2>1. ReadHttpRequest(peer[c], conn[c].got, TRUE) \in {"closing", "judge"} /\ conn[c].pc = "blocked"
    <3>1. 1 \in 1 .. Chunk
      BY Limits, SMT
    <3> QED
      BY <1>7, <3>1, OneConn, ReadFacts DEF PeerCloses
  <2> QED
    BY <1>1, <1>7, <2>1, OneConn DEF PeerCloses
<1>8. CASE Receive(c)
  <2>1. PICK n \in 1 .. Chunk :
          conn' = [conn EXCEPT ![c] = At(ReadHttpRequest(peer[c], conn[c].got + n, FALSE),
                                         [conn[c] EXCEPT !.got = @ + n])]
    BY <1>8 DEF Receive
  <2>2. conn[c].pc = "blocked" /\ UNCHANGED <<threaded, peer, in_flight>>
    BY <1>8 DEF Receive
  <2>3. conn[c].got + n \in Nat
    BY OneConn, SMT
  <2>4. /\ ReadHttpRequest(peer[c], conn[c].got + n, FALSE) \in {"closing", "read", "judge"}
        /\ ReadHttpRequest(peer[c], conn[c].got + n, FALSE) = "read" => HoldsPart(peer[c], conn[c].got + n)
        /\ (conn[c].got + n) - Hello < MaxHeader + MaxBody + 2 * Chunk
    BY <2>2, OneConn, ReadFacts
  <2> DEFINE got == conn[c].got + n
             at  == ReadHttpRequest(peer[c], got, FALSE)
  <2>5. conn' = [conn EXCEPT ![c] = At(at, [conn[c] EXCEPT !.got = got])]
    BY <2>1
  <2>6. in_flight' \in Int
    BY <2>2, OneConn
  <2>7. got \in Nat
    BY <2>3
  <2>8. at \in {"closing", "read", "judge"}
    BY <2>4
  <2>9. at = "read" => HoldsPart(peer[c], got)
    BY <2>4
  <2>10. got - Hello < MaxHeader + MaxBody + 2 * Chunk
    BY <2>4
  <2> HIDE DEF got, at
  <2> QED
    BY <2>2, <2>5, <2>6, <2>7, <2>8, <2>9, <2>10, ThreadGoesOn
<1> QED
  BY <1>2, <1>3, <1>4, <1>5, <1>6, <1>7, <1>8 DEF ThreadStep

(* Time passes for the reads that are under way.                           *)
LEMMA ServerTick == ServerInv /\ Tick => ServerInv'
<1> SUFFICES ASSUME ServerInv, Tick PROVE ServerInv'
  OBVIOUS
<1>0. /\ conn \in [Conns -> Conn] /\ AgeCap \in Nat /\ UNCHANGED <<threaded, peer, in_flight>>
      /\ \A c \in Conns : conn[c].pc = "blocked" => conn[c].waited < ReadTimeout
  <2>1. AgeCap \in Nat
    BY Limits, SMT DEF AgeCap
  <2>2. conn \in [Conns -> Conn]
    BY DEF ServerInv, ServerTypes
  <2> QED
    BY <2>1, <2>2 DEF Tick
<1>1. \A c \in Conns :
        /\ conn'[c] \in Conn /\ conn'[c].pc = conn[c].pc /\ conn'[c].got = conn[c].got
        /\ conn[c].pc = "blocked" => conn'[c].waited = conn[c].waited + 1 /\ conn'[c].age <= conn[c].age + 1
  <2>1. ASSUME NEW k \in Conn
        PROVE  LET t == [k EXCEPT !.waited = @ + 1, !.age = Least(@ + 1, AgeCap)]
               IN  /\ t \in Conn /\ t.pc = k.pc /\ t.got = k.got /\ t.waited = k.waited + 1
                   /\ t.age <= k.age + 1
    <3>1. k.waited \in Nat /\ k.age \in Nat
      BY DEF Conn
    <3> DEFINE w == k.waited + 1
               a == Least(k.age + 1, AgeCap)
    <3>2. w \in Nat /\ a \in Nat /\ a <= k.age + 1
      BY <1>0, <3>1, SMT DEF Least
    <3> HIDE DEF w, a
    <3>3. LET t == [k EXCEPT !.waited = w, !.age = a]
          IN  /\ t \in Conn /\ t.pc = k.pc /\ t.got = k.got /\ t.waited = w /\ t.age = a
      BY <3>2 DEF Conn
    <3> QED
      BY <3>2, <3>3 DEF w, a
  <2> QED
    BY <1>0, <2>1 DEF Tick
<1>2. ServerTypes'
  <2>1. DOMAIN conn' = Conns /\ conn' = [c \in Conns |-> conn'[c]]
    BY DEF Tick
  <2> QED
    BY <1>0, <1>1, <2>1 DEF ServerInv, ServerTypes
<1>3. ReadInv'
  <2>1. \A c \in Conns : conn[c].age \in Nat /\ conn'[c].age \in Nat /\ conn[c].waited \in Nat
    BY <1>0, <1>1 DEF Conn
  <2> QED
    BY <1>0, <1>1, <2>1, Limits, SMT DEF ServerInv, ReadInv, HoldsPart
<1>4. IntakeIsBounded'
  BY <1>1 DEF ServerInv, IntakeIsBounded
<1>5. \A pcs : Of(pcs)' = Of(pcs)
  BY <1>1 DEF Of
<1>6. SlotInv'
  BY <1>0, <1>5 DEF ServerInv, SlotInv
<1> QED
  BY <1>2, <1>3, <1>4, <1>6 DEF ServerInv

(* Everyone is in the backlog.                                             *)
LEMMA ServerInitially == ServerInit => ServerInv
<1> SUFFICES ASSUME ServerInit PROVE ServerInv
  OBVIOUS
<1>1. Backlog \in Conn /\ Backlog.pc = "backlog" /\ Backlog.got = 0
  BY DEF Backlog, Conn, ConnPcs
<1>2. \A c \in Conns : conn[c] = Backlog
  BY DEF ServerInit
<1>3. ServerTypes
  BY <1>1, LimitsAssumption, SMT DEF ServerInit, ServerTypes, PeerState
<1>4. ReadInv /\ IntakeIsBounded
  BY <1>1, <1>2, Limits, SMT DEF ReadInv, IntakeIsBounded
<1>5. Of(LivePcs) = {} /\ Of(LostPcs) = {}
  BY <1>1, <1>2 DEF Of, LivePcs, LostPcs
<1>6. SlotInv
  BY <1>5, FS_EmptySet, Limits, SMT DEF SlotInv, ServerInit
<1> QED
  BY <1>3, <1>4, <1>6 DEF ServerInv

(* For any finite set of connections, any peers and any limits: the slots  *)
(* are accounted for, no read outlasts the deadline by more than one       *)
(* socket timeout, and what is held is bounded (tls.rs).                   *)
THEOREM ServerLimits == ServerSpec => []ServerKeepsLimits
<1>1. ServerInv => ServerKeepsLimits
  <2> SUFFICES ASSUME ServerInv PROVE ServerKeepsLimits
    OBVIOUS
  <2>1. {c \in Conns : Live(c)} = Of(LivePcs)
    BY DEF Live, Of, LivePcs
  <2>2. {c \in Conns : conn[c].pc \in {"over", "crashed"}} = Of(LostPcs)
    BY DEF Of, LostPcs
  <2>3. SlotsAreAccounted
    BY <2>1, <2>2 DEF ServerInv, SlotInv, SlotsAreAccounted
  <2>4. ReadPhaseBounded
    BY Limits, SMT DEF ServerInv, ReadInv, ReadPhaseBounded, ServerTypes, Conn
  <2> QED
    BY <2>3, <2>4 DEF ServerInv, ServerKeepsLimits
<1>2. ServerInv /\ [ServerNext]_serverVars => ServerInv'
  <2> SUFFICES ASSUME ServerInv, [ServerNext]_serverVars PROVE ServerInv'
    OBVIOUS
  <2>1. CASE UNCHANGED serverVars
    BY <2>1 DEF serverVars, ServerInv, ServerTypes, ReadInv, SlotInv, IntakeIsBounded, Of, HoldsPart
  <2> QED
    BY <2>1, AcceptSteps, ThreadSteps, ServerTick DEF ServerNext
<1> QED
  BY <1>1, <1>2, ServerInitially, PTL DEF ServerSpec

-----------------------------------------------------------------------------
(* TlsConnections: the round trip of the client                            *)

TripState ==
    [pc : {"connect", "handshake", "handshake-read", "authenticate", "write", "write-wait", "response",
           "response-read", "done"},
     got : Nat, held : Nat, age : Nat, waited : Nat]

ServerState == [trusted : BOOLEAN, drains : BOOLEAN, closes : BOOLEAN, response : Nat]

(* Past the handshake the server is known; a read of the handshake began   *)
(* before the deadline.                                                    *)
TripInv ==
    /\ server \in ServerState /\ trip \in TripState
    /\ trip.pc \in {"write", "write-wait", "response", "response-read"} => server.trusted
    /\ trip.pc = "handshake-read" => trip.age < TripTimeout + trip.waited /\ trip.waited <= TripTimeout
    /\ OnlyToAnAuthenticServer /\ ResponseIsBounded

(* The constants as the proof uses them, and the start of a phase.         *)
LEMMA TripLimits ==
    /\ HelloBytes \in Nat /\ RecordBytes \in Nat /\ TripTimeout \in Nat /\ TripTimeout > 0 /\ MaxResponse \in Nat
    /\ \A at \in {"connect", "handshake", "write", "write-wait", "response", "done"} :
        /\ Phase(at) \in TripState /\ Phase(at).pc = at /\ Phase(at).got = 0
  BY TripAssumption, SMT DEF Phase, TripState

(* Every step of the client and of the server keeps the invariant.         *)
LEMMA TripStep == TripInv /\ [TripNext]_tripVars => TripInv'
<1> SUFFICES ASSUME TripInv, [TripNext]_tripVars PROVE TripInv'
  OBVIOUS
<1>0. server \in ServerState /\ trip \in TripState /\ trip.got \in Nat /\ trip.age \in Nat /\ trip.waited \in Nat
  BY DEF TripInv, TripState
<1>1. ASSUME NEW r, Finish(r), r = "body" => server.trusted PROVE TripInv'
  BY <1>1, TripLimits DEF Finish, TripInv, OnlyToAnAuthenticServer, ResponseIsBounded
<1>2. ASSUME NEW t \in TripState, GoOn(t),
             t.pc \in {"write", "write-wait", "response", "response-read"} => server.trusted,
             t.pc = "handshake-read" => t.age < TripTimeout + t.waited /\ t.waited <= TripTimeout,
             t.pc \in {"response", "response-read"} => t.got <= MaxResponse
      PROVE  TripInv'
  BY <1>2 DEF GoOn, TripInv, OnlyToAnAuthenticServer, ResponseIsBounded
<1>3. CASE Connect
  BY <1>1, <1>2, <1>3, TripLimits DEF Connect
<1>4. CASE HandshakeRead
  <2> DEFINE t == [trip EXCEPT !.pc = "handshake-read", !.waited = 0]
  <2>1. t \in TripState /\ t.pc = "handshake-read" /\ t.waited = 0 /\ t.age = trip.age
    BY <1>0 DEF TripState
  <2>2. Finish("timeout") \/ (GoOn(t) /\ trip.age < TripTimeout)
    BY <1>0, <1>4, TripLimits, SMT DEF HandshakeRead, DeadlinePassed
  <2> HIDE DEF t
  <2> QED
    BY <1>1, <1>2, <2>1, <2>2, TripLimits, SMT
<1>5. CASE CompleteHandshake
  BY <1>1, <1>2, <1>5, TripLimits DEF CompleteHandshake
<1>6. CASE WriteRequest
  BY <1>6, TripLimits DEF WriteRequest, TripInv, OnlyToAnAuthenticServer, ResponseIsBounded
<1>7. CASE ResponseRead
  <2> DEFINE t == [trip EXCEPT !.pc = "response-read", !.waited = 0]
  <2>1. t \in TripState /\ t.pc = "response-read" /\ t.got = trip.got
    BY <1>0 DEF TripState
  <2>2. trip.pc = "response" /\ (Finish("timeout") \/ GoOn(t))
    BY <1>7 DEF ResponseRead
  <2>3. server.trusted /\ trip.got <= MaxResponse
    BY <2>2 DEF TripInv, ResponseIsBounded
  <2> HIDE DEF t
  <2> QED
    BY <1>1, <1>2, <2>1, <2>2, <2>3
<1>8. CASE TripTimesOut
  BY <1>1, <1>8 DEF TripTimesOut
<1>9. CASE ServerSendsHello
  <2> DEFINE t == [trip EXCEPT !.pc = IF trip.got + 1 = HelloBytes THEN "authenticate" ELSE "handshake",
                               !.got = @ + 1]
  <2>1. t \in TripState /\ t.pc \in {"authenticate", "handshake"}
    <3> DEFINE g == trip.got + 1
    <3>1. g \in Nat
      BY <1>0, SMT
    <3> HIDE DEF g
    <3>2. ASSUME NEW at \in {"authenticate", "handshake"}
          PROVE  [trip EXCEPT !.pc = at, !.got = g] \in TripState /\ [trip EXCEPT !.pc = at, !.got = g].pc = at
      BY <1>0, <3>1 DEF TripState
    <3> QED
      BY <3>2 DEF g
  <2>2. GoOn(t)
    BY <1>9 DEF ServerSendsHello
  <2> HIDE DEF t
  <2> QED
    BY <1>2, <2>1, <2>2
<1>10. CASE ServerSendsByte
  <2>1. trip.pc = "response-read" /\ server.trusted /\ trip.got <= MaxResponse
    BY <1>10 DEF ServerSendsByte, TripInv, ResponseIsBounded
  <2> DEFINE t == [trip EXCEPT !.pc = "response", !.got = @ + RecordBytes, !.held = 0]
             u == [trip EXCEPT !.held = @ + 1, !.waited = 0]
  <2>2. /\ t \in TripState /\ t.pc = "response" /\ t.got = trip.got + RecordBytes
        /\ u \in TripState /\ u.pc = "response-read" /\ u.got = trip.got
    <3> DEFINE g == trip.got + RecordBytes
               h == trip.held + 1
    <3>1. g \in Nat /\ h \in Nat
      BY <1>0, TripLimits, SMT DEF TripState
    <3> HIDE DEF g, h
    <3>2. LET x == [trip EXCEPT !.pc = "response", !.got = g, !.held = 0]
          IN  x \in TripState /\ x.pc = "response" /\ x.got = g
      BY <1>0, <3>1 DEF TripState
    <3>3. LET x == [trip EXCEPT !.held = h, !.waited = 0]
          IN  x \in TripState /\ x.pc = "response-read" /\ x.got = trip.got
      BY <1>0, <2>1, <3>1 DEF TripState
    <3> QED
      BY <3>2, <3>3 DEF g, h
  <2>3. \/ Finish("too large")
        \/ GoOn(t) /\ ~(trip.got + RecordBytes > MaxResponse)
        \/ GoOn(u)
    BY <1>10 DEF ServerSendsByte, TakeRecord
  <2> HIDE DEF t, u
  <2>4. ~(trip.got + RecordBytes > MaxResponse) => t.got <= MaxResponse
    BY <1>0, <2>2, TripLimits, SMT
  <2> QED
    BY <1>1, <1>2, <2>1, <2>2, <2>3, <2>4
<1>11. CASE ServerCloses
  BY <1>1, <1>11 DEF ServerCloses, TripInv
<1>12. CASE ServerDrains
  <2>1. server.trusted
    BY <1>12 DEF ServerDrains, TripInv
  <2> QED
    BY <1>2, <1>12, <2>1, TripLimits, SMT DEF ServerDrains
<1>13. CASE ServerFails
  BY <1>1, <1>13 DEF ServerFails
<1>14. CASE TripTick
  <2> DEFINE t == [trip EXCEPT !.waited = @ + 1, !.age = IF @ <= 2 * TripTimeout THEN @ + 1 ELSE @]
  <2>1. /\ t \in TripState /\ t.pc = trip.pc /\ t.got = trip.got /\ t.waited = trip.waited + 1
        /\ t.age \in Nat /\ t.age <= trip.age + 1
    <3> DEFINE w == trip.waited + 1
               a == IF trip.age <= 2 * TripTimeout THEN trip.age + 1 ELSE trip.age
    <3>1. w \in Nat /\ a \in Nat /\ a <= trip.age + 1
      BY <1>0, TripLimits, SMT
    <3> HIDE DEF w, a
    <3>2. LET x == [trip EXCEPT !.waited = w, !.age = a]
          IN  x \in TripState /\ x.pc = trip.pc /\ x.got = trip.got /\ x.waited = w /\ x.age = a
      BY <1>0, <3>1 DEF TripState
    <3> QED
      BY <3>1, <3>2 DEF w, a
  <2>2. GoOn(t) /\ trip.waited < TripTimeout
    BY <1>14 DEF TripTick
  <2> HIDE DEF t
  <2>3. t.pc = "handshake-read" => t.age < TripTimeout + t.waited /\ t.waited <= TripTimeout
    BY <1>0, <2>1, <2>2, TripLimits, SMT DEF TripInv
  <2> QED
    BY <1>2, <2>1, <2>2, <2>3 DEF TripInv, ResponseIsBounded
<1>15. CASE UNCHANGED tripVars
  BY <1>15 DEF tripVars, TripInv, OnlyToAnAuthenticServer, ResponseIsBounded
<1> QED
  BY <1>3, <1>4, <1>5, <1>6, <1>7, <1>8, <1>9, <1>10, <1>11, <1>12, <1>13, <1>14, <1>15
  DEF TripNext, ClientStep

(* For any server, any timeout and any limit: a request leaves only for an *)
(* authenticated server, the handshake is over within its deadline and one *)
(* socket read, and no more of a response is kept than the limit           *)
(* (mcps-transport/src/lib.rs).                                            *)
THEOREM RoundTripIsBounded == TripSpec => []TripIsBounded
<1>1. TripInit => TripInv
  BY TripLimits, TripAssumption
  DEF TripInit, TripInv, ServerState, OnlyToAnAuthenticServer, ResponseIsBounded
<1>2. TripInv => TripIsBounded
  <2>1. TripInv => HandshakeIsBounded
    BY TripLimits, SMT DEF TripInv, TripState, HandshakeIsBounded
  <2> QED
    BY <2>1 DEF TripInv, TripIsBounded
<1> QED
  BY <1>1, <1>2, TripStep, PTL DEF TripSpec
=============================================================================
