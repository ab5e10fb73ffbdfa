------------------------------- MODULE MCServing -------------------------------
(***************************************************************************)
(* The machines that wait on somebody: the one-shot and the persistent     *)
(* inner process, the TLS server, the PKCS#11 session and the client's     *)
(* round trip.  They share nothing, so each behaviour runs one of them,    *)
(* from each of its initial states, and the others rest.                   *)
(***************************************************************************)
EXTENDS SubprocessInner, TlsConnections, PersistentInner, Pkcs11Session

VARIABLE running    \* the machine this behaviour runs

servingVars == <<running, vars, serverVars, persistentVars, pkcs11Vars, tripVars>>

Peer(header, declared, sent_, framed, admitted) ==
    [header |-> header, declared |-> declared, sent |-> sent_, framed |-> framed, admitted |-> admitted]

(* Not admitted, and short of its declared body; malformed; declaring too  *)
(* large a body; with a header past the limit by less, and by more, than   *)
(* one read.                                                               *)
MCPeers == {Peer(3, 2, 1, TRUE, FALSE), Peer(3, 0, 0, FALSE, TRUE), Peer(2, 9, 9, TRUE, TRUE),
            Peer(5, 1, 1, TRUE, TRUE), Peer(8, 0, 0, TRUE, TRUE)}

(* A response that is empty, fits, or is one record too long.              *)
MCServers == [trusted : BOOLEAN, drains : BOOLEAN, closes : BOOLEAN, response : {0, 1, 3}]

OneShotRests ==
    /\ pc = "returned" /\ written = "none" /\ result = "error"
    /\ watchdog = "none" /\ channel = "empty" /\ timed_out = FALSE
    /\ child = "none" /\ pid = "free" /\ open = [p \in Pipe |-> {}] /\ bulky = {}
    /\ consumed = FALSE /\ stdout = "nothing" /\ signalled = {}

ServerRests ==
    /\ threaded = FALSE /\ peer = [c \in Conns |-> Peer(1, 0, 0, TRUE, FALSE)]
    /\ conn = [c \in Conns |-> [Backlog EXCEPT !.pc = "closed"]]
    /\ body = [c \in Conns |-> NoBody] /\ in_flight = 0

PersistentRests ==
    /\ session = [holder |-> Free, poisoned |-> FALSE, child |-> "alive", up |-> "up"]
    /\ callers = [c \in Callers \cup {Boot} |-> Idle]
    /\ to_inner = <<>> /\ from_inner = <<>> /\ pending = {}

TripRests ==
    /\ server = [trusted |-> FALSE, drains |-> FALSE, closes |-> FALSE, response |-> 0]
    /\ trip = Phase("done") /\ sent = FALSE /\ outcome = "io"

ServingInit ==
    /\ running \in {"oneshot", "server", "persistent", "pkcs11", "trip"}
    /\ IF running = "oneshot" THEN Init ELSE OneShotRests
    /\ IF running = "server" THEN ServerInit ELSE ServerRests
    /\ IF running = "persistent" THEN PersistentInit ELSE PersistentRests
    /\ Pkcs11Init
    /\ IF running = "trip" THEN TripInit ELSE TripRests

(* An action of the running machine, the others left alone.                *)
Of(machine, action) ==
    /\ running = machine /\ action
    /\ UNCHANGED running
    /\ machine = "oneshot" \/ UNCHANGED vars
    /\ machine = "server" \/ UNCHANGED serverVars
    /\ machine = "persistent" \/ UNCHANGED persistentVars
    /\ machine = "pkcs11" \/ UNCHANGED pkcs11Vars
    /\ machine = "trip" \/ UNCHANGED tripVars

ServingNext ==
    \/ Of("oneshot", Next) \/ Of("server", ServerNext) \/ Of("persistent", PersistentNext)
    \/ Of("pkcs11", Pkcs11Next) \/ Of("trip", TripNext)

(* The fairness of FairSpec, ServerFairness, PersistentFairness,           *)
(* Pkcs11Fairness and TripFairness.                                        *)
ServingFairness ==
    /\ WF_servingVars(Of("oneshot", Serve)) /\ WF_servingVars(Of("oneshot", Watch))
    /\ \A c \in Conns :
        WF_servingVars(Of("server", ThreadStep(c))) /\ WF_servingVars(Of("server", AcceptStep(c)))
    /\ WF_servingVars(Of("server", Tick))
    /\ \A c \in Callers \cup {Boot} :
        /\ WF_servingVars(Of("persistent", WriteLine(c) \/ WriteFails(c) \/ ReadLine(c) \/ ReadFails(c)))
        /\ SF_servingVars(Of("persistent", Lock(c)))
    /\ WF_servingVars(Of("persistent", PersistentTick))
    /\ \A c \in Signers :
        /\ WF_servingVars(Of("pkcs11", SignerStep(c)))
        /\ SF_servingVars(Of("pkcs11", TakeSession(c)))
    /\ WF_servingVars(Of("trip", ClientStep)) /\ WF_servingVars(Of("trip", TripTick))

ServingSpec == ServingInit /\ [][ServingNext]_servingVars /\ ServingFairness

(* Every wait ends (serve loops, dispatch, signing, round trip): a         *)
(* one-shot dispatch unless a descendant keeps a pipe for good, every peer *)
(* in the backlog, every dispatch to the session, every signing call and   *)
(* every round trip.                                                       *)
EveryWaitEnds ==
    /\ HangsOnlyOnDescendant
    /\ EveryPeerIsTaken
    /\ EveryDispatchReturns
    /\ EverySigningReturns
    /\ EveryTripReturns
=============================================================================
