--------------------------- MODULE MCDurableReplay ---------------------------
(***************************************************************************)
(* The two stores that keep a contract, one in each behaviour while the    *)
(* other rests.                                                            *)
(*                                                                         *)
(* The file: three requests, two of which carry one replay key; the second *)
(* of these is issued later and outlives the first.  With a ceiling of one *)
(* entry either key finds the cache full while it holds the other.         *)
(*                                                                         *)
(* etcd: two proxies that insert one key, for windows of 0 to 2 seconds.   *)
(***************************************************************************)
EXTENDS DurableReplay, EtcdStore, TLC

VARIABLE store

storesVars == <<store, vars, etcdVars>>

CONSTANTS r1, r2, r3, k1, k2

MCRequest   == {r1, r2, r3}
MCKey       == {k1, k2}
MCKeyOf     == r1 :> k1 @@ r2 :> k1 @@ r3 :> k2
MCIssuedAt  == r1 :> 0 @@ r2 :> 1 @@ r3 :> 0
MCExpiresAt == r1 :> 1 @@ r2 :> 3 @@ r3 :> 2

StoresInit == store \in {"file", "etcd"} /\ Init /\ EtcdInit

StoresNext ==
    /\ UNCHANGED store
    /\ \/ store = "file" /\ Next /\ UNCHANGED etcdVars
       \/ store = "etcd" /\ EtcdNext /\ UNCHANGED vars

StoresSpec == StoresInit /\ [][StoresNext]_storesVars
=============================================================================
