------------------------------- MODULE Ingress --------------------------------
(***************************************************************************)
(* Who is at the other end of a connection of mcps-proxy: the identity a   *)
(* connection speaks for, and the online check that its certificate is not *)
(* revoked.                                                                *)
(***************************************************************************)
EXTENDS Integers, Sequences, SequencesExt, FiniteSets

(***************************************************************************)
(* Whom a connection speaks for: the header block of tls.rs, the identity  *)
(* from the client certificate, from a trusted proxy's header (plain or    *)
(* XFCC), or from a load balancer's signed assertion, and the binding of   *)
(* that identity to the request's signer (mcps-proxy/src/transport.rs). A  *)
(* text is a sequence of characters. The letters "U", "D" and "S" stand    *)
(* for the keys uri, dns and subject, "N" for the attribute type cn and    *)
(* "^" for a control character; blanks around values are left out.         *)
(***************************************************************************)

CONSTANTS
    MaxAssertedIdentityLen,   \* MAX_ASSERTED_IDENTITY_LEN
    MaxAge                    \* DEFAULT_LB_ASSERTION_MAX_AGE_SECS

(* No identity.  An identity is never empty.                               *)
Nobody == <<>>

-----------------------------------------------------------------------------
(* The header block                                                        *)

CR == "CR"
LF == "LF"

RejectMalformedHeaderFraming(bytes) ==
    \E i \in DOMAIN bytes :
        \/ bytes[i] = CR /\ (i = Len(bytes) \/ bytes[i + 1] # LF)
        \/ bytes[i] = LF /\ (i = 1 \/ bytes[i - 1] # CR)
        \/ bytes[i] = LF /\ i < Len(bytes) /\ bytes[i + 1] \in {" ", "TAB"}

(* str::lines: split at each LF, less the CR before it.                    *)
Lines(bytes) ==
    LET StripCR(l) == IF l # <<>> /\ l[Len(l)] = CR THEN SubSeq(l, 1, Len(l) - 1) ELSE l
        Step(acc, b) == IF b = LF THEN [done |-> Append(acc.done, StripCR(acc.line)), line |-> <<>>]
                        ELSE [acc EXCEPT !.line = Append(@, b)]
    IN  FoldLeft(Step, [done |-> <<>>, line |-> <<>>], bytes).done

SplitOnce(text, sep) ==
    LET at == {i \in DOMAIN text : text[i] = sep}
        i  == CHOOSE j \in at : \A k \in at : j <= k
    IN  IF at = {} THEN <<>> ELSE <<SubSeq(text, 1, i - 1), SubSeq(text, i + 1, Len(text))>>

(* RequestHeaders::parse: every line but the first that has a colon.       *)
ParseHeaders(bytes) ==
    LET fields == [i \in 1..(Len(Lines(bytes)) - 1) |-> SplitOnce(Lines(bytes)[i + 1], ":")]
    IN  SelectSeq(fields, LAMBDA f : f # <<>>)

ValuesOf(headers, name) ==
    LET named == SelectSeq(headers, LAMBDA h : h[1] = name)
    IN  [i \in DOMAIN named |-> named[i][2]]

ValidateAssertedIdentityValue(value) ==
    /\ value # <<>>
    /\ Len(value) <= MaxAssertedIdentityLen
    /\ \A i \in DOMAIN value : value[i] # "^"

(* Absent, or once and well formed.                                        *)
ValidateRoutingHeaders(headers) ==
    \A name \in {<<"mcp-method">>, <<"mcp-name">>} :
        LET values == ValuesOf(headers, name)
        IN  values = <<>> \/ (Len(values) = 1 /\ ValidateAssertedIdentityValue(values[1]))

-----------------------------------------------------------------------------
(* XFCC and the distinguished name                                         *)

Unbalanced == <<"unbalanced">>

Cut(acc) == [acc EXCEPT !.parts = Append(@, acc.part), !.part = <<>>]
Keep(acc, ch) == [acc EXCEPT !.part = Append(@, ch)]
Uncut == [parts |-> <<>>, part |-> <<>>, quoted |-> FALSE, escaped |-> FALSE]

SplitOutsideQuotes(text, sep) ==
    LET Step(acc, ch) ==
            IF ch = sep /\ ~acc.quoted THEN Cut(acc)
            ELSE Keep([acc EXCEPT !.quoted = IF ch = "\"" THEN ~@ ELSE @], ch)
        end == FoldLeft(Step, Uncut, text)
    IN  IF end.quoted THEN Unbalanced ELSE Cut(end).parts

StripOptionalQuotes(text) ==
    IF Len(text) >= 2 /\ text[1] = "\"" /\ text[Len(text)] = "\"" THEN SubSeq(text, 2, Len(text) - 1)
    ELSE text

SplitUnescaped(text, sep) ==
    LET Step(acc, ch) ==
            IF acc.escaped THEN Keep([acc EXCEPT !.escaped = FALSE], ch)
            ELSE IF ch = sep /\ ~acc.quoted THEN Cut(acc)
            ELSE Keep([acc EXCEPT !.escaped = ch = "\\",
                                  !.quoted = IF ch = "\"" THEN ~@ ELSE @], ch)
    IN  Cut(FoldLeft(Step, Uncut, text)).parts

HexDigits == {"a", "b"}
HexPair(hi, lo) == <<"0x", hi, lo>>

(* Nobody for a dangling backslash.  A hex pair is the byte it names.      *)
UnescapeRfc2253Value(value) ==
    LET inner == StripOptionalQuotes(value)
        Step(acc, ch) ==
            CASE acc.after = <<>> ->
                    IF ch = "\\" THEN [acc EXCEPT !.after = <<ch>>] ELSE [acc EXCEPT !.out = Append(@, ch)]
              [] acc.after = <<"\\">> ->
                    IF ch \in HexDigits THEN [acc EXCEPT !.after = <<"\\", ch>>]
                    ELSE [acc EXCEPT !.out = Append(@, ch), !.after = <<>>]
              [] Len(acc.after) = 2 ->
                    IF ch \in HexDigits THEN [out |-> Append(acc.out, HexPair(acc.after[2], ch)), after |-> <<>>]
                    ELSE IF ch = "\\" THEN [out |-> Append(acc.out, acc.after[2]), after |-> <<ch>>]
                    ELSE [out |-> acc.out \o <<acc.after[2], ch>>, after |-> <<>>]
        end == FoldLeft(Step, [out |-> <<>>, after |-> <<>>], inner)
    IN  CASE end.after = <<>> -> end.out
          [] end.after = <<"\\">> -> Nobody
          [] Len(end.after) = 2 -> Append(end.out, end.after[2])

(* The value of the first attribute of type cn.                            *)
CommonNameFromRfc2253(dn) ==
    LET attrs == FlattenSeq([i \in DOMAIN SplitUnescaped(dn, ",") |->
                                SplitUnescaped(SplitUnescaped(dn, ",")[i], "+")])
        names == SelectSeq([i \in DOMAIN attrs |-> SplitOnce(attrs[i], "=")],
                           LAMBDA a : a # <<>> /\ a[1] = <<"N">>)
    IN  IF names = <<>> THEN Nobody ELSE UnescapeRfc2253Value(names[1][2])

WantedKeys ==
    [uri_san |-> {<<"U">>}, dns_san |-> {<<"D">>}, cn_legacy |-> {<<"S">>, <<"N">>}]

(* All the values there are, if they are one.                              *)
Agreed(values) ==
    IF values # <<>> /\ \A i \in DOMAIN values : values[i] = values[1] THEN values[1] ELSE Nobody

ParseXfcc(text, policy) ==
    LET elements == SplitOutsideQuotes(text, ",")
        pairs    == FlattenSeq([i \in DOMAIN elements |-> SplitOutsideQuotes(elements[i], ";")])
        wanted   == SelectSeq([i \in DOMAIN pairs |-> SplitOnce(pairs[i], "=")],
                              LAMBDA p : p # <<>> /\ p[1] \in WantedKeys[policy])
        Extract(p) == LET v == StripOptionalQuotes(p[2])
                      IN  IF p[1] = <<"S">> THEN CommonNameFromRfc2253(v) ELSE v
        found    == Agreed([i \in DOMAIN wanted |-> Extract(wanted[i])])
    IN  IF elements # Unbalanced /\ ValidateAssertedIdentityValue(found) THEN found ELSE Nobody

ParsePlain(text) == IF ValidateAssertedIdentityValue(text) THEN text ELSE Nobody

(* ReverseProxyMtlsProvider: the header must be there exactly once.        *)
VerifiedIdentity(headers, opts) ==
    LET values == ValuesOf(headers, opts.header)
    IN  IF Len(values) # 1 THEN Nobody
        ELSE IF opts.format = "xfcc" THEN ParseXfcc(values[1], opts.policy) ELSE ParsePlain(values[1])

-----------------------------------------------------------------------------
(* The load balancer's assertion                                           *)

(* Every field after its length; a length may look like any other byte.    *)
Preimage(a) ==
    LET Framed(f) == <<ToString(Len(f))>> \o f
    IN  <<"tag">> \o Framed(a.key_id) \o Framed(a.identity) \o Framed(a.request_hash) \o <<ToString(a.time)>>

Sign(key, a) == [key |-> key, over |-> Preimage(a)]

ParsableAssertion(h) ==
    /\ ValidateAssertedIdentityValue(h.fields.identity)
    /\ \A f \in {h.fields.key_id, h.fields.request_hash} :
        f # <<>> /\ \A i \in DOMAIN f : f[i] # "^"

Magnitude(n) == IF n < 0 THEN -n ELSE n

(* keys: the registered keys by id.  LbAssertionBinding::verify.           *)
VerifyAssertion(h, keys, in_hand, now) ==
    IF /\ ParsableAssertion(h)
       /\ h.fields.key_id \in DOMAIN keys
       /\ h.signature = Sign(keys[h.fields.key_id], h.fields)
       /\ h.fields.request_hash = in_hand
       /\ Magnitude(now - h.fields.time) <= MaxAge
    THEN h.fields.identity ELSE Nobody

-----------------------------------------------------------------------------
(* The connection: the names in the leaf and its validity, the headers     *)
(* (identity, routing) and the assertions that came with the request.      *)

FirstOf(names) == IF names = <<>> THEN Nobody ELSE names[1]

ExtractIdentity(names, policy) == FirstOf(names[policy])

ResolveIdentity(conn, opts) ==
    CASE opts.strategy = "direct"       -> ExtractIdentity(conn.names, opts.policy)
      [] opts.strategy = "header"       -> VerifiedIdentity(conn.headers, opts)
      [] opts.strategy = "lb-assertion" -> Nobody

(* The assertion, if it is there exactly once and asked for.               *)
AssertionHeader(conn, opts) ==
    IF opts.strategy = "lb-assertion" /\ Len(conn.assertions) = 1 THEN conn.assertions ELSE <<>>

(* A leaf whose validity is empty or reversed has no lifetime.             *)
CertLifetimeRejection(validity, max) ==
    /\ max # 0
    /\ ~(validity[1] < validity[2] /\ validity[2] - validity[1] <= max)

ExactMatch(signer, identity) == identity # Nobody /\ identity = signer

MappedMatch(allowed, signer, identity) ==
    identity # Nobody /\ signer \in DOMAIN allowed /\ identity \in allowed[signer]

(* Whether the signer of a request is bound to the connection it came on.  *)
Bound(conn, opts, keys, hash, now, signer) ==
    LET assertion == AssertionHeader(conn, opts)
        identity  == IF assertion # <<>> THEN VerifyAssertion(assertion[1], keys, hash, now)
                     ELSE ResolveIdentity(conn, opts)
    IN  /\ ~CertLifetimeRejection(conn.validity, opts.max_lifetime)
        /\ ValidateRoutingHeaders(conn.routing)
        /\ IF opts.allowed = <<>> THEN ExactMatch(signer, identity)
           ELSE MappedMatch(opts.allowed, signer, identity)

-----------------------------------------------------------------------------
(* What these promise                                                      *)

(* A header block that is let through has only the lines its CRLFs make:   *)
(* what the line-based parser sees, a stray CR or LF or a folded line      *)
(* cannot have added to, hidden or joined.                                 *)
FramingHidesNoLine(bytes) ==
    ~RejectMalformedHeaderFraming(bytes) =>
        /\ Len(Lines(bytes)) = Cardinality({i \in 1..(Len(bytes) - 1) : bytes[i] = CR /\ bytes[i + 1] = LF})
        /\ \A i \in DOMAIN Lines(bytes) :
            LET l == Lines(bytes)[i]
            IN  /\ \A j \in DOMAIN l : l[j] \notin {CR, LF}
                /\ i > 1 /\ l # <<>> => l[1] \notin {" ", "TAB"}

(* What a proxy writes: pairs joined by semicolons, elements by commas,    *)
(* each value quoted.                                                      *)
Rendered(elements) ==
    LET Pair(p) == p.key \o <<"=", "\"">> \o p.value \o <<"\"">>
        Joined(parts, sep) ==
            FlattenSeq([i \in DOMAIN parts |-> IF i = 1 THEN parts[i] ELSE <<sep>> \o parts[i]])
    IN  Joined([i \in DOMAIN elements |->
                  Joined([j \in DOMAIN elements[i] |-> Pair(elements[i][j])], ";")], ",")

(* An XFCC header names somebody only if every certificate of the chain of *)
(* proxies that has the wanted field has that very value, and then names   *)
(* that value exactly, separators inside the quotes included.              *)
XfccIsReadBack(elements, policy) ==
    LET wanted == {p.value : p \in {q \in ToSet(FlattenSeq(elements)) : q.key \in WantedKeys[policy]}}
    IN  ParseXfcc(Rendered(elements), policy) =
            IF Cardinality(wanted) = 1 /\ \A v \in wanted : ValidateAssertedIdentityValue(v)
            THEN CHOOSE v \in wanted : TRUE ELSE Nobody

(* RFC 2253: a separator, a plus or a backslash in a value is escaped.     *)
Escaped(value) ==
    FlattenSeq([i \in DOMAIN value |->
        IF value[i] \in {",", "+", "\\"} THEN <<"\\", value[i]>> ELSE <<value[i]>>])

(* The common name taken from an escaped subject is the value of its first *)
(* cn attribute, whatever separators and backslashes that and the others   *)
(* hold: a value cannot pass for an attribute of its own.                  *)
SubjectIsReadBack(attrs) ==
    LET text  == FlattenSeq([i \in DOMAIN attrs |->
                    (IF i = 1 THEN <<>> ELSE <<attrs[i].sep>>) \o attrs[i].type \o <<"=">> \o Escaped(attrs[i].value)])
        named == SelectSeq(attrs, LAMBDA a : a.type = <<"N">>)
    IN  CommonNameFromRfc2253(text) = IF named = <<>> THEN Nobody ELSE named[1].value

(* An assertion that verifies is one a registered load balancer signed, as *)
(* it stands, for the request in hand and not long ago: no part of a       *)
(* signed assertion can be read as another part.                           *)
VerifiedMeansVouched(signed, key, fields, keys, in_hand, now) ==
    VerifyAssertion([fields |-> fields, signature |-> Sign(key, signed)], keys, in_hand, now) # Nobody =>
        /\ fields = signed
        /\ signed.key_id \in DOMAIN keys /\ keys[signed.key_id] = key
        /\ signed.request_hash = in_hand
        /\ now \in (signed.time - MaxAge)..(signed.time + MaxAge)

(* The source the proxy was set up with is the only one that counts: two   *)
(* connections that differ only in the other sources are judged alike, so  *)
(* no header or certificate makes up for a missing identity.               *)
OnlyItsOwnSource(conn, other, opts, keys, hash, now, signer) ==
    LET source == [direct |-> "names", header |-> "headers"] @@ ("lb-assertion" :> "assertions")
        own    == {"validity", "routing", source[opts.strategy]}
        mixed  == [f \in DOMAIN conn |-> IF f \in own THEN conn[f] ELSE other[f]]
    IN  Bound(conn, opts, keys, hash, now, signer) = Bound(mixed, opts, keys, hash, now, signer)

-----------------------------------------------------------------------------
(***************************************************************************)
(* The online revocation check of a client certificate (mcps-              *)
(* proxy/src/ocsp.rs, called by ocsp_rejection of tls.rs): where the       *)
(* responder may be, what makes its statement count, and what an answer, a *)
(* missing one or a broken one means for the connection. A certificate is  *)
(* a record of what is read of it; a hash is as good as what it is of.     *)
(***************************************************************************)

CONSTANTS
    Skew,             \* OCSP_FRESHNESS_SKEW
    MaxResponseAge    \* OCSP_MAX_RESPONSE_AGE

Never == -1

-----------------------------------------------------------------------------
(* Addresses: the four bytes of an IPv4 address.                           *)

Ipv4IsPublic(b) ==
    ~ \/ b[1] = 127                                  \* loopback
      \/ b[1] = 10                                   \* private
      \/ b[1] = 172 /\ b[2] \in 16..31
      \/ b[1] = 192 /\ b[2] = 168
      \/ b[1] = 169 /\ b[2] = 254                    \* link-local
      \/ b = <<0, 0, 0, 0>>
      \/ b = <<255, 255, 255, 255>>
      \/ b[1] \in 224..239                           \* multicast

(* An IPv6 address by its first segment, or the IPv4 address it embeds.    *)
Ipv6IsPublic(a) ==
    IF a.loopback \/ a.unspecified \/ a.first >= 65280 THEN FALSE
    ELSE IF a.embedded # <<>> THEN Ipv4IsPublic(a.embedded)
    ELSE a.first \notin 65152..65215 /\ a.first \notin 64512..65023

(* A part is a prefix and its digits; Never is no number.                  *)
ParseInetAtonPart(part) ==
    LET radix == CASE part.prefix = "0x" -> 16 [] part.prefix = "0" -> 8 [] part.prefix = "" -> 10
    IN  IF part.digits = <<>> \/ \E i \in DOMAIN part.digits : part.digits[i] >= radix THEN Never
        ELSE FoldLeft(LAMBDA v, d : v * radix + d, 0, part.digits)

(* Up to four parts; the last one fills the bytes that are left.  <<>> is  *)
(* no address.                                                             *)
ParseInetAtonIpv4(parts) ==
    LET n     == Len(parts)
        vals  == [i \in DOMAIN parts |-> ParseInetAtonPart(parts[i])]
        width == 5 - n
        Byte(v, i) == (v \div (256 ^ (width - i))) % 256
    IN  IF n \notin 1..4 \/ Never \in ToSet(vals) THEN <<>>
        ELSE IF (\E i \in 1..(n - 1) : vals[i] > 255) \/ (n > 1 /\ vals[n] >= 256 ^ width) THEN <<>>
        ELSE SubSeq(vals, 1, n - 1) \o [i \in 1..width |-> Byte(vals[n], i)]

(* A host with an empty label is none; a name that is no number is public. *)
HostIsPublic(host) ==
    CASE host.kind \in {"empty", "localhost"} -> FALSE
      [] host.kind = "v6"     -> Ipv6IsPublic(host.address)
      [] host.kind = "dotted" -> LET v4 == ParseInetAtonIpv4(host.parts)
                                 IN  v4 = <<>> \/ Ipv4IsPublic(v4)
      [] host.kind = "name"   -> TRUE

ResponderSchemeAllowed(url) == url.scheme \in {"http", "https"}

AiaResponderUrlIsSafe(url) == ResponderSchemeAllowed(url) /\ HostIsPublic(url.host)

(* resolve_vetted: one address that is not public spoils the answer.       *)
ResolveVetted(addrs) == addrs # {} /\ \A a \in addrs : Ipv4IsPublic(a)

-----------------------------------------------------------------------------
(* Requests and statements                                                 *)

Foremost(s) == IF s = <<>> THEN <<>> ELSE <<s[1]>>

(* The first access description that is OCSP's and a URI.                  *)
ExtractOcspResponderUrl(leaf) ==
    Foremost(SelectSeq(leaf.aia, LAMBDA d : d.method = "ocsp" /\ d.location = "uri"))

(* The operator's URL wins, and is checked for its scheme only; one from   *)
(* the certificate must be safe as well, and every address its host        *)
(* resolves to when it is fetched.  "forbidden" is never asked.            *)
PostRequest(override, leaf, addrs) ==
    LET url == IF override # <<>> THEN override ELSE ExtractOcspResponderUrl(leaf)
    IN  IF url = <<>> THEN "forbidden"
        ELSE IF override # <<>>
        THEN IF ~ResponderSchemeAllowed(url[1]) THEN "forbidden"
             ELSE IF addrs = {} THEN "unreachable" ELSE "asked"
        ELSE IF ~AiaResponderUrlIsSafe(url[1]) THEN "forbidden"
             ELSE IF ~ResolveVetted(addrs) THEN "unreachable" ELSE "asked"

(* build_sha256_cert_id: the issuer's name and key, and the leaf's number. *)
BuildCertId(leaf, issuer) == [name |-> issuer.subject, key |-> issuer.key, serial |-> leaf.serial]

CertIdsBind_SerialOnly(a, b) == a.serial = b.serial

CertIdsBind(a, b) == a.name = b.name /\ a.key = b.key /\ a.serial = b.serial

SignatureVerifies(cert, r) == r.signed_with = cert.key

CertIsSignedBy(child, issuer) == child.signed_with = issuer.key

DelegatedResponderIsValid(cert, issuer, now) ==
    now \in cert.validity[1]..cert.validity[2] /\ cert.ocsp_signing /\ CertIsSignedBy(cert, issuer)

(* The issuer's key is tried first, then each certificate carried along    *)
(* that the issuer lets respond.                                           *)
VerifyResponderSignature(r, issuer, now) ==
    LET candidates == <<issuer>> \o SelectSeq(r.certs, LAMBDA c : DelegatedResponderIsValid(c, issuer, now))
    IN  Foremost(SelectSeq(candidates, LAMBDA c : SignatureVerifies(c, r)))

ResponderIdMatches(id, signer) == id.value = (IF id.by = "name" THEN signer.subject ELSE signer.key)

NonceOk(r, nonce) == r.nonce \in {"absent", nonce}

IsFresh(s, now) ==
    LET cap   == s.this_update + MaxResponseAge
        upper == IF s.next_update = Never \/ cap < s.next_update THEN cap ELSE s.next_update
    IN  now + Skew >= s.this_update /\ now <= upper + Skew

SelectMatchingSingleResponse(r, cert_id) ==
    Foremost(SelectSeq(r.singles, LAMBDA s : CertIdsBind(s.cert_id, cert_id)))

MapCertStatus(status) ==
    CASE status = "good" -> "Good" [] status = "revoked" -> "Revoked" [] status = "unknown" -> "Unknown"

VerifyAndMapResponse(r, issuer, cert_id, nonce, now) ==
    LET signer == VerifyResponderSignature(r, issuer, now)
        single == SelectMatchingSingleResponse(r, cert_id)
    IN  IF /\ r.successful
           /\ signer # <<>> /\ ResponderIdMatches(r.responder_id, signer[1])
           /\ NonceOk(r, nonce)
           /\ single # <<>> /\ IsFresh(single[1], now)
        THEN MapCertStatus(single[1].status) ELSE "Err"

(* reply is what the responder sends to the request for cert_id and nonce: *)
(* nothing or a response.                                                  *)
Check(override, leaf, issuer, addrs, reply, nonce, now) ==
    LET asked == PostRequest(override, leaf, addrs)
    IN  IF asked = "forbidden" THEN "Unknown"
        ELSE IF asked = "unreachable" \/ reply = <<>> THEN "Err"
        ELSE VerifyAndMapResponse(reply[1], issuer, BuildCertId(leaf, issuer), nonce, now)

DecideAllow(status, soft_fail) == status = "Good" \/ (status = "Unknown" /\ soft_fail)

(* An error settles nothing, and so does a peer that sent no issuer.       *)
OcspRejects(checker, chain, addrs, reply, nonce, now) ==
    LET status == IF Len(chain) < 2 THEN "Err"
                  ELSE Check(checker.override, chain[1], chain[2], addrs, reply, nonce, now)
    IN  ~DecideAllow(IF status = "Err" THEN "Unknown" ELSE status, checker.soft_fail)

-----------------------------------------------------------------------------
(* What they promise                                                       *)

(* The statement is the issuer's, or of one the issuer delegated to whose  *)
(* time has not run out.                                                   *)
Truthful(r, issuer, now) ==
    \/ r.signed_with = issuer.key
    \/ \E i \in DOMAIN r.certs :
        LET d == r.certs[i]
        IN  /\ r.signed_with = d.key /\ d.signed_with = issuer.key /\ d.ocsp_signing
            /\ d.validity[1] <= now /\ now <= d.validity[2]

(* made: when the statement was made; revoked: when the certificate was.   *)
(* A statement of the issuer or of one it delegated to tells the truth of  *)
(* its time about each certificate it names; the network may bring it late *)
(* and in place of another, and whatever anybody else says.  With          *)
(* hard-fail a revoked certificate is let in for no longer than the age a  *)
(* response may have and the two clocks' skew, a nonce echoed or not,      *)
(* wherever the responder is (ocsp.rs, ocsp_rejection of tls.rs).          *)
RevocationIsSeen(override, chain, addrs, r, made, revoked, nonce, now) ==
    LET leaf == chain[1]
        issuer == chain[2]
        own == SelectSeq(r.singles, LAMBDA s : /\ s.cert_id.name = issuer.subject
                                              /\ s.cert_id.key = issuer.key
                                              /\ s.cert_id.serial = leaf.serial)
        honest == \A i \in DOMAIN own :
                    /\ own[i].this_update \in (made - Skew)..(made + Skew)
                    /\ own[i].status = "good" => (revoked = Never \/ made < revoked)
        checker == [override |-> override, soft_fail |-> FALSE]
    IN  /\ Truthful(r, issuer, now) => honest
        /\ revoked # Never
        /\ ~OcspRejects(checker, chain, addrs, <<r>>, nonce, now)
        => now <= revoked + MaxResponseAge + 2 * Skew

(* The digits a number is written with.                                    *)
DigitsOf(v, radix) ==
    LET most   == CASE radix = 8 -> 11 [] radix = 10 -> 10 [] radix = 16 -> 8
        widths == {k \in 1..most : k = 1 \/ radix ^ (k - 1) <= v}
        k      == CHOOSE w \in widths : \A x \in widths : x <= w
    IN  [i \in 1..k |-> (v \div (radix ^ (k - i))) % radix]

Spelled(bytes, n, prefixes) ==
    LET tail == FoldLeft(LAMBDA v, b : v * 256 + b, 0, SubSeq(bytes, n, 4))
        Radix(p) == CASE p = "0x" -> 16 [] p = "0" -> 8 [] p = "" -> 10
    IN  [i \in 1..n |-> [prefix |-> prefixes[i],
                         digits |-> DigitsOf(IF i < n THEN bytes[i] ELSE tail, Radix(prefixes[i]))]]

(* However an address is spelled, in fewer parts, in hex or in octal, or   *)
(* inside an IPv6 address, the host is judged by the address the resolver  *)
(* would make of it.                                                       *)
SpellingDoesNotMatter(bytes, n, prefixes) ==
    /\ HostIsPublic([kind |-> "dotted", parts |-> Spelled(bytes, n, prefixes)]) = Ipv4IsPublic(bytes)
    /\ HostIsPublic([kind |-> "v6", address |-> [loopback |-> FALSE, unspecified |-> FALSE,
                                                 first |-> 0, embedded |-> bytes]]) = Ipv4IsPublic(bytes)
=============================================================================
