---------------------------- MODULE TlsConnections ----------------------------
(***************************************************************************)
(* The two ends of a TLS connection: the proxy's accept loops and the      *)
(* round trip of the client transport.                                     *)
(***************************************************************************)
EXTENDS Integers, FiniteSets

(***************************************************************************)
(* The two accept loops of mcps-proxy/src/tls.rs: serve, one thread per    *)
(* connection under a cap, and the loop of main.rs around                  *)
(* serve_once_with_assertion, one connection at a time. Bytes are counted  *)
(* and not looked at: a peer's wire is its half of the handshake, a header *)
(* block, and as much of the declared body as it sends before it closes. A *)
(* thread that can run does so before time passes.                         *)
(***************************************************************************)

CONSTANTS
    Conns,              \* the connections peers open
    Peers,              \* [header, declared, sent : Nat, framed, admitted : BOOLEAN]
    MaxConnections, MaxHeader, MaxBody,
    Chunk,              \* the most one read returns
    Hello,              \* bytes of the handshake
    ReadTimeout, RequestDeadline

ASSUME LimitsAssumption ==
    /\ {MaxConnections, Chunk, Hello, ReadTimeout, RequestDeadline} \subseteq Nat \ {0}
    /\ {MaxHeader, MaxBody} \subseteq Nat
    /\ IsFiniteSet(Conns)
    /\ Peers \subseteq [header : Nat, declared : Nat, sent : Nat, framed : BOOLEAN, admitted : BOOLEAN]

VARIABLES
    threaded,   \* serve, or the loop of main.rs
    peer,       \* what each peer sends
    conn,       \* each connection: where its thread is, bytes read, and its two timers
    body,       \* length of the body the handler was called with
    in_flight   \* the slots taken

serverVars == <<threaded, peer, conn, body, in_flight>>

NoBody == -1

(* Timers stop where nothing distinguishes a later value.                  *)
AgeCap == RequestDeadline + ReadTimeout + 1

Backlog == [pc |-> "backlog", got |-> 0, age |-> 0, waited |-> 0]

ServerInit ==
    /\ threaded \in BOOLEAN
    /\ peer \in [Conns -> Peers]
    /\ conn = [c \in Conns |-> Backlog]
    /\ body = [c \in Conns |-> NoBody]
    /\ in_flight = 0

Live(c) == conn[c].pc \in {"read", "blocked", "judge", "handle", "write", "closing"}
Crashed == \E c \in Conns : conn[c].pc = "crashed"

(* The timers count in the read phase only, and the bytes until they are   *)
(* handed on.                                                              *)
At(pc, k) ==
    [pc     |-> pc,
     got    |-> IF pc \in {"read", "blocked", "judge"} THEN k.got ELSE 0,
     age    |-> IF pc \in {"read", "blocked"} THEN k.age ELSE 0,
     waited |-> 0]

To(c, pc) == conn' = [conn EXCEPT ![c] = At(pc, conn[c])]

(* fetch_add, and the thread unless the cap was reached.                   *)
Reserve(c) ==
    /\ threaded
    /\ conn[c].pc = "backlog"
    /\ ~\E d \in Conns : conn[d].pc = "over"
    /\ in_flight' = in_flight + 1
    /\ To(c, IF in_flight >= MaxConnections THEN "over" ELSE "read")
    /\ UNCHANGED <<threaded, peer, body>>

GiveBack(c) ==
    /\ conn[c].pc = "over"
    /\ in_flight' = in_flight - 1
    /\ To(c, "dropped")
    /\ UNCHANGED <<threaded, peer, body>>

ServeOnce(c) ==
    /\ ~threaded /\ ~Crashed
    /\ conn[c].pc = "backlog"
    /\ \A d \in Conns : ~Live(d)
    /\ To(c, "read")
    /\ UNCHANGED <<threaded, peer, body, in_flight>>

CheckDeadline_Skipped(c) == TRUE

CheckDeadline(c) == conn[c].age < RequestDeadline

StartRead(c) ==
    /\ conn[c].pc = "read"
    /\ IF CheckDeadline(c)
       THEN To(c, "blocked") ELSE To(c, "closing")
    /\ UNCHANGED <<threaded, peer, body, in_flight>>

Wire(p) == Hello + p.header + p.sent

(* Where a thread goes once got bytes have come and no more is known.      *)
ReadHttpRequest(p, got, eof) ==
    LET buf == got - Hello
    IN  CASE got < Hello -> IF eof THEN "closing" ELSE "read"
          [] got >= Hello /\ buf < p.header ->
                IF eof \/ buf > MaxHeader THEN "closing" ELSE "read"
          [] got >= Hello /\ buf >= p.header ->
                IF ~p.framed \/ p.declared > MaxBody THEN "closing"
                ELSE IF eof \/ buf >= p.header + p.declared THEN "judge" ELSE "read"

Receive(c) ==
    /\ conn[c].pc = "blocked"
    /\ \E n \in 1..Chunk :
        /\ conn[c].got + n <= Wire(peer[c])
        /\ conn' = [conn EXCEPT ![c] = At(ReadHttpRequest(peer[c], conn[c].got + n, FALSE),
                                          [conn[c] EXCEPT !.got = @ + n])]
    /\ UNCHANGED <<threaded, peer, body, in_flight>>

PeerCloses(c) ==
    /\ conn[c].pc = "blocked"
    /\ conn[c].got = Wire(peer[c])
    /\ To(c, ReadHttpRequest(peer[c], conn[c].got, TRUE))
    /\ UNCHANGED <<threaded, peer, body, in_flight>>

(* The peer resets the connection, or fails the handshake.                 *)
PeerFails(c) ==
    /\ conn[c].pc = "blocked"
    /\ To(c, "closing")
    /\ UNCHANGED <<threaded, peer, body, in_flight>>

ReadTimesOut(c) ==
    /\ conn[c].pc = "blocked"
    /\ conn[c].waited = ReadTimeout
    /\ To(c, "closing")
    /\ UNCHANGED <<threaded, peer, body, in_flight>>

Least(a, b) == IF a < b THEN a ELSE b

(* connection_rejection and routing_header_rejection, or the handler.      *)
Judge(c) ==
    /\ conn[c].pc = "judge"
    /\ IF peer[c].admitted
       THEN /\ To(c, "handle")
            /\ body' = [body EXCEPT ![c] = Least(conn[c].got - Hello - peer[c].header, peer[c].declared)]
       ELSE To(c, "write") /\ UNCHANGED body
    /\ UNCHANGED <<threaded, peer, in_flight>>

Handle(c) ==
    /\ conn[c].pc = "handle"
    /\ To(c, "write")
    /\ UNCHANGED <<threaded, peer, body, in_flight>>

(* The handler panics: its thread ends without the fetch_sub; without      *)
(* threads the process does.                                               *)
Panic(c) ==
    /\ conn[c].pc = "handle"
    /\ To(c, "crashed")
    /\ UNCHANGED <<threaded, peer, body, in_flight>>

(* The answer is written, or its write times out.                          *)
WriteResponse(c) ==
    /\ conn[c].pc = "write"
    /\ To(c, "closing")
    /\ UNCHANGED <<threaded, peer, body, in_flight>>

Release(c) ==
    /\ conn[c].pc = "closing"
    /\ in_flight' = IF threaded THEN in_flight - 1 ELSE in_flight
    /\ To(c, "closed")
    /\ UNCHANGED <<threaded, peer, body>>

Tick ==
    /\ \E c \in Conns : conn[c].pc = "blocked"
    /\ \A c \in Conns :
        /\ conn[c].pc # "read"
        /\ conn[c].pc = "blocked" => conn[c].waited < ReadTimeout
    /\ conn' = [c \in Conns |->
                  IF conn[c].pc # "blocked" THEN conn[c]
                  ELSE [conn[c] EXCEPT !.waited = @ + 1, !.age = Least(@ + 1, AgeCap)]]
    /\ UNCHANGED <<threaded, peer, body, in_flight>>

ThreadStep(c) ==
    \/ StartRead(c) \/ ReadTimesOut(c) \/ Judge(c) \/ Handle(c) \/ WriteResponse(c) \/ Release(c)

AcceptStep(c) == Reserve(c) \/ GiveBack(c) \/ ServeOnce(c)

ServerNext ==
    \/ \E c \in Conns :
        AcceptStep(c) \/ ThreadStep(c) \/ Receive(c) \/ PeerCloses(c) \/ PeerFails(c) \/ Panic(c)
    \/ Tick

ServerSpec == ServerInit /\ [][ServerNext]_serverVars

(* Threads run and time passes; a peer need not send, nor close.           *)
ServerFairness ==
    /\ \A c \in Conns : WF_serverVars(ThreadStep(c)) /\ WF_serverVars(AcceptStep(c))
    /\ WF_serverVars(Tick)

-----------------------------------------------------------------------------
(* The cap holds with the slots counted as the code counts them, and a     *)
(* slot is lost only to a handler that panicked: whatever a peer does,     *)
(* every other end of a connection, an error on any path included, gives   *)
(* its slot back, and gives it back once.                                  *)
SlotsAreAccounted ==
    LET In(pcs) == Cardinality({c \in Conns : conn[c].pc \in pcs})
    IN  threaded =>
            /\ in_flight = Cardinality({c \in Conns : Live(c)}) + In({"over", "crashed"})
            /\ Cardinality({c \in Conns : Live(c)}) <= MaxConnections

(* A peer that trickles its bytes, each just within the read timeout,      *)
(* cannot hold a thread in the read phase, handshake included, beyond the  *)
(* aggregate deadline by more than the one read that was under way.        *)
ReadPhaseBounded ==
    \A c \in Conns : conn[c].pc = "blocked" => conn[c].age < RequestDeadline + ReadTimeout

(* What a connection makes the proxy hold is bounded by the two limits and *)
(* the read size, whatever lengths the peer declares or sends.             *)
IntakeIsBounded ==
    \A c \in Conns : conn[c].got - Hello < MaxHeader + MaxBody + 2 * Chunk

(* The limits of the server (ServerOptions): connections, time in the read *)
(* phase and bytes held, all three whatever the peers do.                  *)
ServerKeepsLimits == SlotsAreAccounted /\ ReadPhaseBounded /\ IntakeIsBounded

(* Every peer in the backlog is taken or turned away, and every connection *)
(* taken is let go, also when peers fall silent at any point: in the       *)
(* serial loop one connection stands before all the others.                *)
EveryPeerIsTaken ==
    \A c \in Conns : (conn[c].pc = "backlog") ~> (conn[c].pc \in {"closed", "dropped"} \/ Crashed)

(* "the header block may not exceed max_header_bytes ... (either overflow  *)
(* fails closed with an error": no request is handled with a larger one.   *)
HeaderWithinLimit == \A c \in Conns : body[c] # NoBody => peer[c].header <= MaxHeader

-----------------------------------------------------------------------------
(***************************************************************************)
(* One round trip of the client transport (mcps-transport/src/lib.rs):     *)
(* connect, handshake, one request, and the response up to its end. The    *)
(* server is a record of how it behaves; it sends a byte at a time, as     *)
(* slowly as it likes. A read of the response returns when a whole TLS     *)
(* record has come, and meanwhile only the timeout of each socket read     *)
(* counts (rustls::Stream, external).                                      *)
(***************************************************************************)

CONSTANTS
    Servers,        \* [trusted, drains, closes : BOOLEAN, response : Nat], response in records
    HelloBytes,     \* bytes of the server's half of the handshake
    RecordBytes,    \* bytes of a TLS record
    TripTimeout,    \* read_timeout, write_timeout and connect_timeout
    MaxResponse     \* max_response_bytes

ASSUME TripAssumption ==
    /\ {HelloBytes, RecordBytes, TripTimeout} \subseteq Nat \ {0} /\ MaxResponse \in Nat
    /\ Servers \subseteq [trusted : BOOLEAN, drains : BOOLEAN, closes : BOOLEAN, response : Nat]

VARIABLES
    server,     \* the server's behaviour
    trip,       \* [pc, got, held, age, waited]: bytes of this phase, of the record under way, timers
    sent,       \* whether the request has left
    outcome     \* what round_trip returned

tripVars == <<server, trip, sent, outcome>>

Phase(pc) == [pc |-> pc, got |-> 0, held |-> 0, age |-> 0, waited |-> 0]

TripInit ==
    /\ server \in Servers
    /\ trip = Phase("connect") /\ sent = FALSE /\ outcome = "none"

Finish(result) == trip' = Phase("done") /\ outcome' = result /\ UNCHANGED <<server, sent>>
GoOn(next) == trip' = next /\ UNCHANGED <<server, sent, outcome>>

Connect == trip.pc = "connect" /\ \/ GoOn(Phase("handshake"))
                                  \/ \E e \in {"io", "timeout"} : Finish(e)

Waiting == trip.pc \in {"handshake-read", "write-wait", "response-read"}

DeadlinePassed(t) == t.age >= TripTimeout

(* Each socket read of the handshake looks at the deadline first.          *)
HandshakeRead ==
    /\ trip.pc = "handshake"
    /\ IF DeadlinePassed(trip) THEN Finish("timeout")
       ELSE GoOn([trip EXCEPT !.pc = "handshake-read", !.waited = 0])

CompleteHandshake_AnyServer ==
    /\ trip.pc = "authenticate" /\ GoOn(Phase("write"))

(* The certificate is judged before a byte of the request is written.      *)
CompleteHandshake ==
    /\ trip.pc = "authenticate"
    /\ IF server.trusted THEN GoOn(Phase("write")) ELSE Finish("handshake")

WriteRequest ==
    /\ trip.pc = "write"
    /\ trip' = Phase("write-wait") /\ sent' = TRUE
    /\ UNCHANGED <<server, outcome>>

(* read_response_bounded: the aggregate deadline is looked at before each  *)
(* read of plaintext.                                                      *)
ResponseRead ==
    /\ trip.pc = "response"
    /\ IF DeadlinePassed(trip) THEN Finish("timeout")
       ELSE GoOn([trip EXCEPT !.pc = "response-read", !.waited = 0])

TakeRecord(t) ==
    IF t.got + RecordBytes > MaxResponse THEN Finish("too large")
    ELSE GoOn([t EXCEPT !.pc = "response", !.got = @ + RecordBytes, !.held = 0])

TripTimesOut == Waiting /\ trip.waited = TripTimeout /\ Finish("timeout")

(* The server: a byte of the handshake, or of the record under way; the    *)
(* end of the stream, which with or without close_notify, and wherever it  *)
(* falls, ends the response; room for the request; or a failure.           *)
ServerSendsHello ==
    /\ trip.pc = "handshake-read"
    /\ GoOn([trip EXCEPT !.pc = IF trip.got + 1 = HelloBytes THEN "authenticate" ELSE "handshake",
                         !.got = @ + 1])

ServerSendsByte ==
    /\ trip.pc = "response-read" /\ trip.got + trip.held < server.response * RecordBytes
    /\ IF trip.held + 1 = RecordBytes THEN TakeRecord(trip)
       ELSE GoOn([trip EXCEPT !.held = @ + 1, !.waited = 0])

ServerCloses ==
    /\ trip.pc = "response-read" /\ server.closes
    /\ Finish("body")

ServerDrains == trip.pc = "write-wait" /\ server.drains /\ GoOn(Phase("response"))

ServerFails == Waiting /\ \E e \in {"io", "handshake"} : Finish(e)

TripTick ==
    /\ Waiting /\ trip.waited < TripTimeout
    /\ GoOn([trip EXCEPT !.waited = @ + 1, !.age = IF @ <= 2 * TripTimeout THEN @ + 1 ELSE @])

ClientStep ==
    \/ Connect \/ HandshakeRead \/ CompleteHandshake \/ WriteRequest \/ ResponseRead \/ TripTimesOut

TripNext ==
    ClientStep \/ ServerSendsHello \/ ServerSendsByte \/ ServerCloses \/ ServerDrains
    \/ ServerFails \/ TripTick

TripSpec == TripInit /\ [][TripNext]_tripVars

(* The client runs and time passes; the server owes nothing.               *)
TripFairness == WF_tripVars(ClientStep) /\ WF_tripVars(TripTick)

-----------------------------------------------------------------------------

(* A request leaves for an authenticated server only, and a body is handed *)
(* on only from one ("the request body never reaches the wire",            *)
(* lib.rs:288-369).                                                        *)
OnlyToAnAuthenticServer == sent \/ outcome = "body" => server.trusted

(* The handshake ends within the aggregate deadline and one more socket    *)
(* read, however finely the server cuts it (lib.rs:317-334, 459-491).      *)
HandshakeIsBounded ==
    trip.pc = "handshake-read" => trip.age < 2 * TripTimeout

(* No more of a response is held than the limit (lib.rs:406-413).          *)
ResponseIsBounded == trip.pc \in {"response", "response-read"} => trip.got <= MaxResponse

(* What the client of the transport relies on: whom it talked to, how long *)
(* the handshake may take, and how much of a response is kept.             *)
TripIsBounded == OnlyToAnAuthenticServer /\ HandshakeIsBounded /\ ResponseIsBounded

(* Every round trip returns, against any server (lib.rs:295-369).          *)
EveryTripReturns == trip.pc = "connect" ~> trip.pc = "done"

(* As the comment on the response read has it: "The aggregate deadline     *)
(* caps total wall-clock at `read_timeout`" (lib.rs:350-357), give or take *)
(* the read that was under way.                                            *)
ResponseReadIsBounded == trip.pc = "response-read" => trip.age < 2 * TripTimeout
=============================================================================
