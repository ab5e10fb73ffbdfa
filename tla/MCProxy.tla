------------------------------- MODULE MCProxy -------------------------------
(* Two requests that are sent as they should be, one of which the network   *)
(* also delivers with a broken signature, and a third one for which only    *)
(* messages that must not be accepted exist: unsigned, or signed but meant  *)
(* for another audience.                                                    *)
EXTENDS Proxy, TLC

CONSTANTS r1, r2, r3, k1, k2, k3, good1, good2, forged1, forged3, misdirected3,
          alice

MCRequest   == {r1, r2, r3}
MCKey       == {k1, k2, k3}
MCKeyOf     == r1 :> k1 @@ r2 :> k2 @@ r3 :> k3
MCIssuedAt  == r1 :> 0 @@ r2 :> 1 @@ r3 :> 0
MCExpiresAt == r1 :> 1 @@ r2 :> 2 @@ r3 :> 1

MCMsg    == {good1, good2, forged1, forged3, misdirected3}
MCSigner == {alice}
MCSigned == {good1, good2, misdirected3}

Draft02 == [top |-> "object", jcs |-> TRUE, envelope |-> TRUE,
            version |-> "draft-02", canonicalization_id |-> "allowed",
            authorization_binding |-> "ok", authorization_hash |-> "absent",
            on_behalf_of |-> "ok", shape |-> "ok", signature_block |-> TRUE,
            audience |-> TRUE]

MCBodyOf == [m \in MCMsg |->
    IF m = misdirected3 THEN [Draft02 EXCEPT !.audience = FALSE] ELSE Draft02]
MCRequestOf == good1 :> r1 @@ good2 :> r2 @@ forged1 :> r1
                  @@ forged3 :> r3 @@ misdirected3 :> r3
MCSignerOf == [m \in MCMsg |-> alice]

(* No gate, every gate, and an assertion verifier without a binding policy. *)
MCConfig == [policy : {FALSE}, lb_assertion : {FALSE}, transport_binding : {FALSE},
             version : {"draft-02-only"}]
            \cup [policy : {TRUE}, lb_assertion : {TRUE}, transport_binding : BOOLEAN,
                  version : {"draft-02-only"}]

(* A smaller instance for liveness: one request, good and forged.           *)
LiveRequest   == {r1}
LiveKey       == {k1}
LiveKeyOf     == r1 :> k1
LiveIssuedAt  == r1 :> 0
LiveExpiresAt == r1 :> 0
LiveMsg       == {good1, forged1}
LiveSigned    == {good1}
LiveBodyOf    == [m \in LiveMsg |-> Draft02]
LiveRequestOf == [m \in LiveMsg |-> r1]
LiveSignerOf  == [m \in LiveMsg |-> alice]
=============================================================================
