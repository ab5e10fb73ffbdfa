---------------------------- MODULE SubprocessInner ----------------------------
(***************************************************************************)
(* One dispatch to the one-shot inner server (SubprocessInner::run in      *)
(* mcps-proxy/src/cli.rs): the serve thread spawns the inner process,      *)
(* writes the request to its stdin, reads its stdout to the end and reaps  *)
(* it, while a watchdog thread kills it when the read deadline passes and  *)
(* a third thread drains its stderr.  The inner process does as it likes.  *)
(***************************************************************************)
VARIABLES
    pc,         \* where the serve thread is in run()
    written,    \* write_result
    watchdog,   \* where the watchdog thread is
    channel,    \* done_tx: nothing sent yet, sent, or the sender dropped
    timed_out,  \* the flag the two threads share
    result,     \* what run() returned
    child,      \* the inner process
    pid,        \* who holds the process id run() recorded
    open,       \* who holds the inner end of each pipe
    bulky,      \* the pipes whose traffic exceeds the pipe's buffer
    consumed,   \* all of the request has been read
    stdout,     \* what has been written of the reply
    signalled   \* history: whom the watchdog's SIGKILL reached

serveVars == <<pc, written, result>>
guardVars == <<watchdog, channel, timed_out, signalled>>
innerVars == <<child, pid, open, bulky, consumed, stdout>>
vars      == <<serveVars, guardVars, innerVars>>

Pipe    == {"stdin", "stdout", "stderr"}
Process == {"child", "descendant"}

TypeOK ==
    /\ pc \in {"spawn", "write", "read", "wait", "send", "join", "drain",
               "decide", "returned"}
    /\ written \in {"none", "ok", "failed"}
    /\ watchdog \in {"none", "waiting", "storing", "killing", "done"}
    /\ channel \in {"empty", "sent", "dropped"}
    /\ timed_out \in BOOLEAN
    /\ result \in {"none", "reply", "timeout", "error", "wait_error"}
    /\ child \in {"none", "running", "exited", "reaped"}
    /\ pid \in {"child", "free", "stranger"}
    /\ open \in [Pipe -> SUBSET Process]
    /\ bulky \subseteq {"stdin", "stdout"}
    /\ consumed \in BOOLEAN
    /\ stdout \in {"nothing", "partial", "whole"}
    /\ signalled \subseteq {"child", "nobody", "stranger"}
    /\ child = "none" <=> watchdog = "none"

Init ==
    /\ pc = "spawn" /\ written = "none" /\ result = "none"
    /\ watchdog = "none" /\ channel = "empty" /\ timed_out = FALSE
    /\ child = "none" /\ pid = "free" /\ open = [p \in Pipe |-> {}]
    /\ bulky \in SUBSET {"stdin", "stdout"}
    /\ consumed = FALSE /\ stdout = "nothing" /\ signalled = {}

-----------------------------------------------------------------------------
(* The serve thread                                                        *)

Returns(r) ==
    /\ pc' = "returned"
    /\ result' = r

(* A launch policy that no longer applies, or a failed spawn.              *)
SpawnFails ==
    /\ pc = "spawn"
    /\ Returns("error")
    /\ UNCHANGED <<written, guardVars, innerVars>>

Spawn ==
    /\ pc = "spawn"
    /\ pc' = "write"
    /\ watchdog' = "waiting"
    /\ child' = "running"
    /\ pid' = "child"
    /\ open' = [p \in Pipe |-> {"child"}]
    /\ UNCHANGED <<written, result, channel, timed_out, signalled, bulky, consumed, stdout>>

(* write_all returns once the request is in the pipe's buffer or read, or  *)
(* fails when nobody holds the other end.  stdin is closed either way.     *)
Write ==
    /\ pc = "write"
    /\ \/ /\ open["stdin"] # {} /\ ("stdin" \in bulky => consumed)
          /\ written' = "ok"
       \/ /\ open["stdin"] = {}
          /\ written' = "failed"
    /\ pc' = "read"
    /\ UNCHANGED <<result, guardVars, innerVars>>

(* wait_with_output: stdout to its end, then the exit status.              *)
ReadToEnd ==
    /\ pc = "read"
    /\ open["stdout"] = {}
    /\ pc' = "wait"
    /\ UNCHANGED <<written, result, guardVars, innerVars>>

Reap ==
    /\ pc = "wait"
    /\ child = "exited"
    /\ child' = "reaped"
    /\ pid' = "free"
    /\ pc' = "send"
    /\ UNCHANGED <<written, result, guardVars, open, bulky, consumed, stdout>>

(* wait_with_output fails: run() returns at once and drops done_tx.        *)
WaitFails ==
    /\ pc = "wait"
    /\ Returns("wait_error")
    /\ channel' = "dropped"
    /\ UNCHANGED <<written, watchdog, timed_out, signalled, innerVars>>

Send ==
    /\ pc = "send"
    /\ channel' = "sent"
    /\ pc' = "join"
    /\ UNCHANGED <<written, result, watchdog, timed_out, signalled, innerVars>>

Join_Skipped ==
    /\ pc = "join"
    /\ pc' = "drain"
    /\ UNCHANGED <<written, result, guardVars, innerVars>>

Join ==
    /\ pc = "join"
    /\ watchdog = "done"
    /\ pc' = "drain"
    /\ UNCHANGED <<written, result, guardVars, innerVars>>

(* The stderr thread reads to the end of its pipe before it can be joined. *)
JoinStderr ==
    /\ pc = "drain"
    /\ open["stderr"] = {}
    /\ pc' = "decide"
    /\ UNCHANGED <<written, result, guardVars, innerVars>>

Decide ==
    /\ pc = "decide"
    /\ Returns(IF timed_out THEN "timeout"
               ELSE IF written = "failed" THEN "error" ELSE "reply")
    /\ UNCHANGED <<written, guardVars, innerVars>>

Serve ==
    \/ SpawnFails \/ Spawn \/ Write \/ ReadToEnd \/ Reap \/ Send \/ Join
    \/ JoinStderr \/ Decide

-----------------------------------------------------------------------------
(* The watchdog thread                                                     *)

StandDown ==
    /\ watchdog = "waiting"
    /\ channel = "sent"
    /\ watchdog' = "done"
    /\ UNCHANGED <<serveVars, channel, timed_out, signalled, innerVars>>

(* recv_timeout fails: the deadline has passed, or the sender is gone.     *)
Expire ==
    /\ watchdog = "waiting"
    /\ channel # "sent"
    /\ watchdog' = "storing"
    /\ UNCHANGED <<serveVars, channel, timed_out, signalled, innerVars>>

Store ==
    /\ watchdog = "storing"
    /\ timed_out' = TRUE
    /\ watchdog' = "killing"
    /\ UNCHANGED <<serveVars, channel, signalled, innerVars>>

Dies == [p \in Pipe |-> open[p] \ {"child"}]

(* kill(pid, SIGKILL): whoever holds the number now.                       *)
Kill ==
    /\ watchdog = "killing"
    /\ watchdog' = "done"
    /\ signalled' = signalled \cup {IF pid = "free" THEN "nobody" ELSE pid}
    /\ IF child = "running"
       THEN child' = "exited" /\ open' = Dies
       ELSE UNCHANGED <<child, open>>
    /\ UNCHANGED <<serveVars, channel, timed_out, pid, bulky, consumed, stdout>>

Watch == StandDown \/ Expire \/ Store \/ Kill

-----------------------------------------------------------------------------
(* The inner process, what it leaves behind, and the operating system.     *)
(* Whoever holds the inner end of a pipe may use it or close it.           *)

Consume ==
    /\ open["stdin"] # {}
    /\ ~consumed
    /\ consumed' = TRUE
    /\ UNCHANGED <<serveVars, guardVars, child, pid, open, bulky, stdout>>

(* A reply larger than the pipe's buffer completes only while it is read.  *)
Emit ==
    /\ open["stdout"] # {}
    /\ \/ stdout = "nothing" /\ stdout' = "partial"
       \/ /\ stdout = "partial" /\ ("stdout" \in bulky => pc = "read")
          /\ stdout' = "whole"
    /\ UNCHANGED <<serveVars, guardVars, child, pid, open, bulky, consumed>>

Fork ==
    /\ child = "running"
    /\ open' = [p \in Pipe |-> IF "child" \in open[p] THEN Process ELSE open[p]]
    /\ open' # open
    /\ UNCHANGED <<serveVars, guardVars, child, pid, bulky, consumed, stdout>>

Close ==
    /\ \E p \in Pipe : \E q \in open[p] : open' = [open EXCEPT ![p] = @ \ {q}]
    /\ UNCHANGED <<serveVars, guardVars, child, pid, bulky, consumed, stdout>>

Exit ==
    /\ child = "running"
    /\ child' = "exited"
    /\ open' = Dies
    /\ UNCHANGED <<serveVars, guardVars, pid, bulky, consumed, stdout>>

(* The kernel gives the free number to an unrelated process.               *)
ReusePid ==
    /\ pid = "free" /\ child = "reaped"
    /\ pid' = "stranger"
    /\ UNCHANGED <<serveVars, guardVars, child, open, bulky, consumed, stdout>>

Environment == Consume \/ Emit \/ Fork \/ Close \/ Exit \/ ReusePid

Next == Serve \/ WaitFails \/ Watch \/ Environment

(* Both threads run when they can, and the deadline passes; nothing is     *)
(* assumed of the inner process.                                           *)
Spec     == Init /\ [][Next]_vars
FairSpec == Spec /\ WF_vars(Serve) /\ WF_vars(Watch)

-----------------------------------------------------------------------------
(* An interaction the watchdog cut short is never passed off as a reply,   *)
(* whichever thread is ahead: once it has decided that the deadline has    *)
(* passed, run() fails with a timeout, whatever stdout holds by then.      *)
TimeoutIsNeverAReply == result = "reply" => watchdog = "done" /\ ~timed_out /\ signalled = {}

(* run() leaves nothing behind: when it returns after a spawn the inner    *)
(* process is reaped, and the watchdog can signal nobody any more.  The    *)
(* one exception is a failed wait, which abandons both.                    *)
NothingLeftBehind ==
    (pc = "returned" /\ child # "none" /\ result # "wait_error") =>
        child = "reaped" /\ watchdog = "done"

(* What a caller of run() relies on (SubprocessInner, cli.rs): a reply is  *)
(* the whole of an interaction nobody cut short, and run() cleans up after *)
(* itself.                                                                 *)
DispatchIsSound == TimeoutIsNeverAReply /\ NothingLeftBehind

(* The signal only ever reaches the inner process this run() spawned: the  *)
(* process id cannot have passed to another process by the time of kill.   *)
KillsOnlyItsChild == "stranger" \notin signalled

(* A dispatch returns, however the inner process behaves, unless one of    *)
(* its descendants keeps a pipe for good: full pipes, an inner process     *)
(* that never reads, writes or exits, and a late deadline all end.         *)
HangsOnlyOnDescendant ==
    []<>(\A p \in Pipe : "descendant" \notin open[p]) => <>(pc = "returned")

(* "Bound the one-shot interaction so a wedged inner cannot hang the       *)
(* single-threaded serve loop."                                            *)
NeverHangs == <>(pc = "returned")
=============================================================================
