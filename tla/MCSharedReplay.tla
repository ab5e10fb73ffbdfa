---------------------------- MODULE MCSharedReplay ----------------------------
(* Two proxies, one of them a second ahead, over a primary and a replica;   *)
(* two requests that carry one replay key, and overlap in time.             *)
EXTENDS SharedReplay, TLC

CONSTANTS r1, r2, k1, n1, n2, s1, s2

MCRequest   == {r1, r2}
MCKey       == {k1}
MCKeyOf     == r1 :> k1 @@ r2 :> k1
MCIssuedAt  == r1 :> 1 @@ r2 :> 1
MCExpiresAt == r1 :> 2 @@ r2 :> 3
MCNode      == {n1, n2}
MCServer    == {s1, s2}
MCOffset    == n1 :> 0 @@ n2 :> 1
Synchronized == [n \in MCNode |-> 0]
Interchangeable == Permutations(MCServer)
=============================================================================
