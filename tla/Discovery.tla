------------------------------ MODULE Discovery ------------------------------
(***************************************************************************)
(* What a client learns about a server's support (mcps-client-core,        *)
(* discovery and the dev probe): the advert a server may send, cached for  *)
(* a while, and the proof, which only a verified exchange gives.           *)
(***************************************************************************)
EXTENDS ClientCore, Responses

CONSTANTS
    Server,      \* the servers, which are the cache's keys
    ServerVersions, \* the versions an advert may name
    AdvertTtl,   \* ttl_secs
    DiscoveryTime, \* bound on the clock
    DiscoveryExchanges \* bound on the number of exchanges

(* A time to live of zero, or less, is an advert that is never used.        *)
ASSUME DiscoveryAssumption ==
    AdvertTtl \in Int /\ DiscoveryTime \in Int /\ ServerSigner # {} /\ "none" \notin ServerSigner

VARIABLES
    moment,      \* the caller's clock
    adverts,     \* the cache: server -> advert and expiry
    proven,      \* server -> the signer a verified exchange proved
    observed,    \* server -> what the probe recorded last
    exchanges,   \* the exchanges so far: server, outcome, verdict and mismatch
    received     \* history: server -> the last advert not evicted, and when it came

discoveryVars == <<moment, adverts, proven, observed, exchanges, received>>

-----------------------------------------------------------------------------
(* The advert.  A member that is missing, or not an array of strings, names *)
(* nothing; an element that is no string is passed over.                    *)

StringArray(value) ==
    IF value.kind # "array" THEN {} ELSE {item \in value.items : item # "notAString"}

(* capabilities: where under experimental the block is, and what it holds.  *)
ParseLegacyAdvert(capabilities) ==
    IF capabilities.block # "object" THEN [present |-> FALSE, versions |-> {}]
    ELSE [present |-> TRUE, versions |-> StringArray(capabilities.versions)]

AdvertMismatch(advert, version) == advert.versions # {} /\ version \notin advert.versions

InsertAdvert(cache, server, advert, now) ==
    [k \in DOMAIN cache \cup {server} |-> IF k = server THEN [advert |-> advert, expiry |-> now + AdvertTtl]
                                          ELSE cache[k]]

LiveAdvert(entry, now) == entry.expiry > now

NoAdvert == [present |-> FALSE, versions |-> {}]

GetAdvert(cache, server, now) ==
    IF server \in DOMAIN cache /\ LiveAdvert(cache[server], now) THEN cache[server].advert ELSE NoAdvert

WithoutServers(f, servers) == [k \in DOMAIN f \ servers |-> f[k]]

EvictExpired(cache, now) == WithoutServers(cache, {k \in DOMAIN cache : ~LiveAdvert(cache[k], now)})

-----------------------------------------------------------------------------
(* The operations.                                                          *)

Capabilities ==
    [block : {"absent", "object"},
     versions : [kind : {"array"}, items : SUBSET (ServerVersions \cup {"notAString"})]
                \cup [kind : {"other"}, items : {{}}]]

ReceiveAdvert(server, capabilities) ==
    LET advert == ParseLegacyAdvert(capabilities)
    IN  /\ advert.present
        /\ adverts' = InsertAdvert(adverts, server, advert, moment)
        /\ received' = [received EXCEPT ![server] = [advert |-> advert, at |-> moment]]
        /\ UNCHANGED <<moment, proven, observed, exchanges>>

(* On a change of the connection or the policy.                             *)
EvictAdvert(server) ==
    /\ server \in DOMAIN adverts
    /\ adverts' = WithoutServers(adverts, {server})
    /\ received' = [received EXCEPT ![server] = [advert |-> NoAdvert, at |-> 0]]
    /\ UNCHANGED <<moment, proven, observed, exchanges>>

SweepAdverts ==
    /\ adverts' = EvictExpired(adverts, moment)
    /\ UNCHANGED <<moment, proven, observed, exchanges, received>>

RecordObservation(outcome) == IF outcome[1] = "Verified" THEN "SupportsMcps" ELSE "NoMcpsEvidence"

ProveSupport_OnAdvert(server, r, outcome) ==
    IF outcome[1] = "Verified" \/ GetAdvert(adverts, server, moment).present
    THEN [proven EXCEPT ![server] = r.server_signer]
    ELSE proven

(* Proof is made of a verified response, and of nothing else.               *)
ProveSupport(server, r, outcome) ==
    IF outcome[1] = "Verified" THEN [proven EXCEPT ![server] = r.server_signer] ELSE proven

(* One exchange with a server that uses some version, and its answer.       *)
Exchange(server, r, policy) ==
    LET outcome == ClassifyResponseResult(VerifyResponseDraft02(r, 1))
        version == IF r.envelope = "absent" THEN "none" ELSE r.envelope
        id      == IF version = "draft-02" THEN r.canonicalization_id ELSE "absent"
    IN  /\ Len(exchanges) < DiscoveryExchanges
        /\ observed' = [observed EXCEPT ![server] = RecordObservation(outcome)]
        /\ proven' = ProveSupport(server, r, outcome)
        /\ exchanges' = Append(exchanges,
                [server |-> server, outcome |-> outcome[1], signer |-> r.server_signer,
                 verdict |-> EvaluateCapability(version, id, policy),
                 mismatch |-> AdvertMismatch(GetAdvert(adverts, server, moment), version)])
        /\ UNCHANGED <<moment, adverts, received>>

DiscoveryTick ==
    /\ moment < DiscoveryTime
    /\ moment' = moment + 1
    /\ UNCHANGED <<adverts, proven, observed, exchanges, received>>

DiscoveryInit ==
    /\ moment = 0 /\ adverts = <<>> /\ exchanges = <<>>
    /\ proven = [s \in Server |-> "none"] /\ observed = [s \in Server |-> "none"]
    /\ received = [s \in Server |-> [advert |-> NoAdvert, at |-> 0]]

Responded ==
    LET good == BuildSignedResponse("draft-02", 1, CHOOSE s \in ServerSigner : TRUE,
                                    [kind |-> "object", members |-> {"field"}])
    IN  {good, [good EXCEPT !.signature = "bad"], [good EXCEPT !.envelope = "absent"],
         [good EXCEPT !.envelope = "draft-01"]}

DiscoveryNext ==
    \/ \E server \in Server :
        \/ \E capabilities \in Capabilities : ReceiveAdvert(server, capabilities)
        \/ EvictAdvert(server)
        \/ \E r \in Responded :
            Exchange(server, r, [required_min |-> "draft-02", supported |-> {"draft-02"}])
    \/ SweepAdverts \/ DiscoveryTick

DiscoverySpec == DiscoveryInit /\ [][DiscoveryNext]_discoveryVars

-----------------------------------------------------------------------------
(* At every moment the cache answers with the last advert that came and was *)
(* not evicted, while its time lasts, and with nothing after that: whenever *)
(* the sweep runs, nobody can tell (insert, get, evict, evict_expired).     *)
CachedAdvertsAreCurrent ==
    \A s \in Server :
        GetAdvert(adverts, s, moment) =
            IF received[s].advert.present /\ moment < received[s].at + AdvertTtl
            THEN received[s].advert ELSE NoAdvert

(* Whatever a server advertised, it is proven only by an exchange whose     *)
(* response verified, as the signer of that response; and the probe agrees  *)
(* with the last exchange (from_verified_response, record).                 *)
ProofIsAVerifiedExchange ==
    \A s \in Server :
        /\ proven[s] # "none" =>
                \E i \in DOMAIN exchanges : /\ exchanges[i].server = s /\ exchanges[i].outcome = "Verified"
                                            /\ exchanges[i].signer = proven[s]
        /\ observed[s] = "SupportsMcps" => proven[s] # "none"
        /\ \A i \in DOMAIN exchanges :
                exchanges[i].server = s /\ exchanges[i].outcome = "Verified" =>
                    exchanges[i].verdict \in {"SatisfiesPolicy", "StrongerSupported"}

(* What a client holds about a server is the last advert, while it lasts,   *)
(* and a proof that a verified exchange gave (AdvertCache, ProvenSupport).  *)
DiscoveryIsSound == CachedAdvertsAreCurrent /\ ProofIsAVerifiedExchange
=============================================================================
