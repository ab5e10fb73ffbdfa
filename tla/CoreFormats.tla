----------------------------- MODULE CoreFormats ------------------------------
(***************************************************************************)
(* The data formats of mcps-core: canonical JSON, the `_meta` blocks of a  *)
(* message, and timestamps.                                                *)
(***************************************************************************)
EXTENDS Integers, Sequences, SequencesExt

(***************************************************************************)
(* RFC 8785 canonicalization over the JCS-safe domain (mcps-core,          *)
(* canonical). Two paths lead to canonical bytes: the raw bytes of a       *)
(* message are parsed by the module's own parser (canonicalize), and the   *)
(* serde_json value of the same message is converted for the signing       *)
(* preimage (canonicalize_json_value).                                     *)
(*                                                                         *)
(* Text is a sequence of lexical tokens. A string token carries the items  *)
(* between its quotes, <<"raw", c>> or <<"esc", c>> for a code point or an *)
(* escaped code unit; a number token its sign, magnitude and whether a     *)
(* fraction or an exponent follows. A value is <<"lit", name>>, <<"int",   *)
(* n>>, <<"str", code points>>, <<"arr", values>> or <<"obj", members>>, a *)
(* member being a pair <<key, value>>.                                     *)
(***************************************************************************)

CONSTANTS
    MaxSafeInteger,  \* MAX_SAFE_INTEGER, 2^53 - 1
    I64Max,          \* the largest i64
    MaxParseDepth    \* MAX_PARSE_DEPTH

Fail == [ok |-> FALSE, value |-> <<"lit", "none">>, next |-> 0]
Done(value, next) == [ok |-> TRUE, value |-> value, next |-> next]

At(text, i) == IF i <= Len(text) THEN text[i][1] ELSE "end"

(* The first position from i on that is not white space.                   *)
SkipWs(text, i) ==
    CHOOSE j \in i .. Len(text) + 1 :
        /\ At(text, j) # " " \/ j > Len(text)
        /\ \A k \in i .. j - 1 : At(text, k) = " "

-----------------------------------------------------------------------------
(* Strings: a bare control character, an unpaired surrogate and a bad       *)
(* second half of a pair are refused.                                       *)

High(unit) == unit \in 55296 .. 56319
Low(unit)  == unit \in 56320 .. 57343

RECURSIVE ParseString(_)
ParseString(items) ==
    IF items = <<>> THEN [ok |-> TRUE, chars |-> <<>>]
    ELSE LET kind == items[1][1]
             unit == items[1][2]
             pair == /\ kind = "esc" /\ High(unit) /\ Len(items) > 1
                     /\ items[2][1] = "esc" /\ Low(items[2][2])
             char == IF pair THEN 65536 + (unit - 55296) * 1024 + (items[2][2] - 56320) ELSE unit
             rest == ParseString(SubSeq(items, IF pair THEN 3 ELSE 2, Len(items)))
             bad  == \/ kind = "raw" /\ unit <= 31
                     \/ kind = "esc" /\ (High(unit) \/ Low(unit)) /\ ~pair
         IN  [ok |-> ~bad /\ rest.ok, chars |-> <<char>> \o rest.chars]

(* Only the quote, the backslash and control characters are escaped.        *)
WriteString(chars) ==
    [i \in 1 .. Len(chars) |->
        <<IF chars[i] \in {34, 92} \cup 0 .. 31 THEN "esc" ELSE "raw", chars[i]>>]

EncodeUtf16(chars) ==
    FlattenSeq([i \in 1 .. Len(chars) |->
        IF chars[i] < 65536 THEN <<chars[i]>>
        ELSE <<55296 + (chars[i] - 65536) \div 1024, 56320 + ((chars[i] - 65536) % 1024)>>])

CmpUtf16Less(a, b) ==
    LET x == EncodeUtf16(a)
        y == EncodeUtf16(b)
    IN  \/ Len(x) < Len(y) /\ SubSeq(y, 1, Len(x)) = x
        \/ \E i \in 1 .. Len(x) :
              /\ i <= Len(y) /\ x[i] < y[i]
              /\ \A j \in 1 .. i - 1 : x[j] = y[j]

-----------------------------------------------------------------------------
(* Numbers: integers only, within the safe range.                           *)

CheckSafeInteger(n) == n \in -MaxSafeInteger .. MaxSafeInteger

Integer(number) == IF number.neg THEN -number.digits ELSE number.digits

ParseNumber_AnyI64(number) == ~number.frac /\ Integer(number) \in -I64Max - 1 .. I64Max

ParseNumber(number) ==
    /\ ~number.frac
    /\ Integer(number) \in -I64Max - 1 .. I64Max
    /\ CheckSafeInteger(Integer(number))

-----------------------------------------------------------------------------
(* parse: the recursive descent over the raw bytes.  unique asks for member *)
(* names to be distinct and numbers to be safe integers; serde_json's own   *)
(* parser reads the same grammar without either demand.                     *)

RECURSIVE ParseValue(_, _, _, _), ParseArray(_, _, _, _, _), ParseObject(_, _, _, _, _)

ParseValue(text, i, depth, unique) ==
    CASE At(text, i) = "{" /\ depth < MaxParseDepth ->
            LET j == SkipWs(text, i + 1)
            IN  IF At(text, j) = "}" THEN Done(<<"obj", <<>>>>, j + 1)
                ELSE ParseObject(text, j, <<>>, depth + 1, unique)
      [] At(text, i) = "[" /\ depth < MaxParseDepth ->
            LET j == SkipWs(text, i + 1)
            IN  IF At(text, j) = "]" THEN Done(<<"arr", <<>>>>, j + 1)
                ELSE ParseArray(text, j, <<>>, depth + 1, unique)
      [] At(text, i) = "str" /\ ParseString(text[i][2]).ok ->
            Done(<<"str", ParseString(text[i][2]).chars>>, i + 1)
      [] At(text, i) = "lit" -> Done(text[i], i + 1)
      [] At(text, i) = "num" /\ unique /\ ParseNumber(text[i][2]) ->
            Done(<<"int", Integer(text[i][2])>>, i + 1)
      [] At(text, i) = "num" /\ ~unique -> Done(text[i], i + 1)
      [] OTHER -> Fail

ParseArray(text, i, items, depth, unique) ==
    LET item  == ParseValue(text, SkipWs(text, i), depth, unique)
        j     == SkipWs(text, item.next)
        all   == Append(items, item.value)
    IN  IF ~item.ok THEN Fail
        ELSE CASE At(text, j) = "," -> ParseArray(text, j + 1, all, depth, unique)
               [] At(text, j) = "]" -> Done(<<"arr", all>>, j + 1)
               [] OTHER -> Fail

ParseObject(text, i, members, depth, unique) ==
    LET k     == SkipWs(text, i)
        key   == ParseString(text[k][2])
        colon == SkipWs(text, k + 1)
        value == ParseValue(text, SkipWs(text, colon + 1), depth, unique)
        j     == SkipWs(text, value.next)
        all   == Append(members, <<key.chars, value.value>>)
    IN  IF \/ At(text, k) # "str" \/ ~key.ok
           \/ unique /\ \E m \in 1 .. Len(members) : members[m][1] = key.chars
           \/ At(text, colon) # ":" \/ ~value.ok
        THEN Fail
        ELSE CASE At(text, j) = "," -> ParseObject(text, j + 1, all, depth, unique)
               [] At(text, j) = "}" -> Done(<<"obj", all>>, j + 1)
               [] OTHER -> Fail

Whole(text, unique) ==
    LET v == ParseValue(text, SkipWs(text, 1), 0, unique)
    IN  IF v.ok /\ SkipWs(text, v.next) > Len(text) THEN v ELSE Fail

Parse(text) == Whole(text, TRUE)

-----------------------------------------------------------------------------
(* write_value: the canonical text.                                         *)

RECURSIVE WriteValue(_, _)

SortMembers(members) == SortSeq(members, LAMBDA a, b : CmpUtf16Less(a[1], b[1]))

Joined(texts) ==
    FlattenSeq([i \in 1 .. Len(texts) |-> IF i = 1 THEN texts[i] ELSE <<<<",">>>> \o texts[i]])

WriteInteger(n) == <<<<"num", [neg |-> n < 0, digits |-> IF n < 0 THEN -n ELSE n, frac |-> FALSE]>>>>

WriteValue(value, depth) ==
    CASE value[1] = "lit" -> <<value>>
      [] value[1] = "int" -> WriteInteger(value[2])
      [] value[1] = "str" -> <<<<"str", WriteString(value[2])>>>>
      [] value[1] = "arr" ->
            <<<<"[">>>> \o Joined([i \in 1 .. Len(value[2]) |-> WriteValue(value[2][i], depth + 1)])
                \o <<<<"]">>>>
      [] value[1] = "obj" ->
            LET sorted == SortMembers(value[2])
            IN  <<<<"{">>>> \o Joined([i \in 1 .. Len(sorted) |->
                    <<<<"str", WriteString(sorted[i][1])>>, <<":">>>>
                        \o WriteValue(sorted[i][2], depth + 1)]) \o <<<<"}">>>>

(* The two conditions under which write_value refuses a value tree.         *)
RECURSIVE Writable(_, _)
Writable(value, depth) ==
    value[1] \in {"arr", "obj"} =>
        /\ depth < MaxParseDepth
        /\ \A i \in 1 .. Len(value[2]) :
              Writable(IF value[1] = "arr" THEN value[2][i] ELSE value[2][i][2], depth + 1)
        /\ value[1] = "obj" => IsInjective([i \in 1 .. Len(value[2]) |-> value[2][i][1]])

CanonicalizeValue(value) ==
    IF Writable(value, 0) THEN [ok |-> TRUE, bytes |-> WriteValue(value, 0)]
    ELSE [ok |-> FALSE, bytes |-> <<>>]

Canonicalize(text) ==
    IF Parse(text).ok THEN CanonicalizeValue(Parse(text).value) ELSE [ok |-> FALSE, bytes |-> <<>>]

-----------------------------------------------------------------------------
(* The value path.  serde_json keeps the last of several members with one   *)
(* name, and reads a number as an i64, a u64 or else a float; -0 is a float.*)

AsInteger(number) ==
    /\ ~number.frac
    /\ ~(number.neg /\ number.digits = 0)
    /\ Integer(number) \in -I64Max - 1 .. 2 * I64Max + 1

RECURSIVE FromSerdeValue(_, _)
FromSerdeValue(value, depth) ==
    CASE value[1] \in {"lit", "str"} -> Done(value, 0)
      [] value[1] = "num" ->
            IF AsInteger(value[2]) /\ CheckSafeInteger(Integer(value[2]))
            THEN Done(<<"int", Integer(value[2])>>, 0) ELSE Fail
      [] value[1] = "arr" ->
            LET items == [i \in 1 .. Len(value[2]) |-> FromSerdeValue(value[2][i], depth + 1)]
            IN  IF depth >= MaxParseDepth \/ \E i \in DOMAIN items : ~items[i].ok THEN Fail
                ELSE Done(<<"arr", [i \in DOMAIN items |-> items[i].value]>>, 0)
      [] value[1] = "obj" ->
            LET IsLast(i) == \A j \in i + 1 .. Len(value[2]) : value[2][j][1] # value[2][i][1]
                kept    == SelectSeq([i \in 1 .. Len(value[2]) |-> i], IsLast)
                members == [i \in 1 .. Len(kept) |-> FromSerdeValue(value[2][kept[i]][2], depth + 1)]
            IN  IF depth >= MaxParseDepth \/ \E i \in DOMAIN members : ~members[i].ok THEN Fail
                ELSE Done(<<"obj", [i \in DOMAIN members |->
                        <<value[2][kept[i]][1], members[i].value>>]>>, 0)

CanonicalizeJsonValue(text) ==
    LET value == Whole(text, FALSE)
        jcs   == FromSerdeValue(value.value, 0)
    IN  IF value.ok /\ jcs.ok THEN CanonicalizeValue(jcs.value) ELSE [ok |-> FALSE, bytes |-> <<>>]

-----------------------------------------------------------------------------
(* What a value means: its members are a function of their names.           *)
RECURSIVE Meaning(_)
Meaning(value) ==
    CASE value[1] = "arr" -> <<"arr", [i \in 1 .. Len(value[2]) |-> Meaning(value[2][i])]>>
      [] value[1] = "obj" ->
            <<"obj", {<<value[2][i][1], Meaning(value[2][i][2])>> : i \in 1 .. Len(value[2])}>>
      [] OTHER -> value

HasMinusZero(text) ==
    \E i \in 1 .. Len(text) : text[i][1] = "num" /\ text[i][2].neg /\ text[i][2].digits = 0

(* The same text with the members of its outermost object in reverse order. *)
Reversed(value) == IF value[1] = "obj" THEN <<"obj", Reverse(value[2])>> ELSE value

(* Canonical bytes stand for exactly one meaning: they are accepted by the  *)
(* parser, read back as what was written, are their own canonical form, and *)
(* do not depend on the order of members (canonicalize).                    *)
CanonicalFormIsFaithful(text) ==
    LET c == Canonicalize(text)
    IN  c.ok =>
            /\ Parse(c.bytes).ok
            /\ Meaning(Parse(c.bytes).value) = Meaning(Parse(text).value)
            /\ Canonicalize(c.bytes) = c
            /\ CanonicalizeValue(Reversed(Parse(text).value)) = c

(* The bytes that are checked are the bytes that are signed: on a text the  *)
(* raw path accepts, the value path yields the same bytes, or refuses it;   *)
(* it refuses only a text that spells zero as -0.                           *)
RawAndValuePathsAgree(text) ==
    LET raw   == Canonicalize(text)
        value == CanonicalizeJsonValue(text)
    IN  raw.ok => IF value.ok THEN value.bytes = raw.bytes ELSE HasMinusZero(text)

-----------------------------------------------------------------------------
(***************************************************************************)
(* The `_meta` blocks of a message as JSON trees: what a signature covers  *)
(* (mcps-core/src/signing.rs), and what the proxy removes from and adds to *)
(* a request before the inner server sees it, and a result before it signs *)
(* it (mcps-proxy/src/proxy.rs). A tree is an object, an array or an atom. *)
(* The canonical bytes of a tree stand for the tree: the first section is  *)
(* about them.                                                             *)
(***************************************************************************)

Obj(members) == [t |-> "obj", m |-> members]
Arr(items)   == [t |-> "arr", s |-> items]
Atom(a)      == [t |-> "atom", a |-> a]

Has(v, key) == v.t = "obj" /\ key \in DOMAIN v.m
Put(v, key, w) == Obj([k \in DOMAIN v.m \cup {key} |-> IF k = key THEN w ELSE v.m[k]])
Drop(v, keys)  == Obj([k \in DOMAIN v.m \ keys |-> v.m[k]])

ProxyOwnedMetaKeys    == {"request", "response", "verified", "authorization"}
ObservabilityMetaKeys == {"traceparent", "tracestate", "baggage"}

Failed == [t |-> "error"]

-----------------------------------------------------------------------------
(* signing.rs                                                              *)

ContainerKey(location) == IF location = "Request" THEN "params" ELSE "result"
MetaKey(location)      == IF location = "Request" THEN "request" ELSE "response"

(* The envelope's signature block is there, and is an object.              *)
HasSignatureBlock(object, location) ==
    /\ Has(object, ContainerKey(location))
    /\ LET container == object.m[ContainerKey(location)]
       IN  /\ Has(container, "_meta") /\ Has(container.m["_meta"], MetaKey(location))
           /\ LET envelope == container.m["_meta"].m[MetaKey(location)]
              IN  Has(envelope, "signature") /\ envelope.m["signature"].t = "obj"

StripSignatureValue(object, location) ==
    LET c == ContainerKey(location)
        k == MetaKey(location)
        container == object.m[c]
        meta == container.m["_meta"]
        envelope == meta.m[k]
    IN  Put(object, c, Put(container, "_meta",
            Put(meta, k, Put(envelope, "signature", Drop(envelope.m["signature"], {"value"})))))

(* At the container only: nowhere deeper.                                  *)
StripObservabilityMeta(object, location) ==
    LET c == ContainerKey(location)
        container == object.m[c]
    IN  Put(object, c, Put(container, "_meta", Drop(container.m["_meta"], ObservabilityMetaKeys)))

SigningPreimage(object, location) ==
    IF ~HasSignatureBlock(object, location) THEN Failed
    ELSE StripObservabilityMeta(StripSignatureValue(object, location), location)

PreimageExclusionPaths(location) ==
    {<<ContainerKey(location), "_meta", MetaKey(location), "signature", "value">>}
    \cup {<<ContainerKey(location), "_meta", k>> : k \in ObservabilityMetaKeys}

-----------------------------------------------------------------------------
(* proxy.rs                                                                *)

RECURSIVE ScrubProxyOwnedMeta(_)
ScrubProxyOwnedMeta(v) ==
    CASE v.t = "obj" ->
           LET own == IF Has(v, "_meta") /\ v.m["_meta"].t = "obj"
                      THEN Put(v, "_meta", Drop(v.m["_meta"], ProxyOwnedMetaKeys)) ELSE v
           IN  Obj([k \in DOMAIN own.m |-> ScrubProxyOwnedMeta(own.m[k])])
      [] v.t = "arr" -> Arr([i \in DOMAIN v.s |-> ScrubProxyOwnedMeta(v.s[i])])
      [] v.t = "atom" -> v

(* The verdict's fields, and what only one profile has.                    *)
BuildVerifiedContext(profile) ==
    Obj([k \in {"verified_signer", "request_hash", "verifier"}
               \cup (IF profile = "draft-01" THEN {"authorization_hash"}
                     ELSE {"version", "canonicalization_id", "authorization_binding"}) |-> Atom("proxy")])

(* Scrub, then insert: the block the proxy writes is the one that stays.   *)
BuildForwardedRequest(request, profile) ==
    LET scrubbed == ScrubProxyOwnedMeta(request)
        params == scrubbed.m["params"]
    IN  Put(scrubbed, "params", Put(params, "_meta",
            Put(params.m["_meta"], "verified", BuildVerifiedContext(profile))))

BuildResponseEnvelopeBlock(profile) ==
    LET fields == {"request_hash", "server_signer", "issued_at"}
                  \cup (IF profile = "draft-01" THEN {} ELSE {"version", "canonicalization_id"})
    IN  Obj([k \in fields \cup {"signature"} |->
                IF k = "signature" THEN Obj([a \in {"alg", "key_id"} |-> Atom("proxy")]) ELSE Atom("proxy")])

(* The three shapes of an inner answer become an object, which is scrubbed *)
(* before it gets its block.  The answer's own `_meta` is an object, null  *)
(* or absent here: on any other the code panics (NeverPanics).             *)
BuildUnsignedResponse(inner, profile, id) ==
    LET shaped == IF Has(inner, "result") /\ inner.m["result"].t = "obj" THEN inner.m["result"]
                  ELSE IF Has(inner, "result") THEN Obj([k \in {"value"} |-> inner.m["result"]])
                  ELSE Obj([k \in {"inner_error"} |-> inner])
        result == ScrubProxyOwnedMeta(shaped)
        meta == IF Has(result, "_meta") /\ result.m["_meta"].t = "obj" THEN result.m["_meta"] ELSE Obj(<<>>)
    IN  Obj([k \in {"jsonrpc", "id", "result"} |->
                CASE k = "jsonrpc" -> Atom("2.0")
                  [] k = "id" -> id
                  [] k = "result" ->
                       Put(result, "_meta", Put(meta, "response", BuildResponseEnvelopeBlock(profile)))])

-----------------------------------------------------------------------------
(* The nodes of a tree with their paths; an item of an array is a step     *)
(* named "[]", whichever it is.                                            *)

Leaf(v) == IF v.t = "atom" THEN v.a ELSE v.t

RECURSIVE Nodes(_, _)
Nodes(v, path) ==
    {<<path, Leaf(v)>>}
    \cup (CASE v.t = "obj"  -> UNION {Nodes(v.m[k], Append(path, k)) : k \in DOMAIN v.m}
            [] v.t = "arr"  -> UNION {Nodes(v.s[i], Append(path, "[]")) : i \in DOMAIN v.s}
            [] v.t = "atom" -> {})

Under(path, prefix) == Len(prefix) <= Len(path) /\ SubSeq(path, 1, Len(prefix)) = prefix

(* The path steps into a key that the proxy owns from a `_meta` object.    *)
IsOwned(path) == \E i \in 1 .. Len(path) - 1 : path[i] = "_meta" /\ path[i + 1] \in ProxyOwnedMetaKeys

(* The preimage is the message without exactly the enumerated paths: what  *)
(* an independent verifier gets by deleting them, for requests and for     *)
(* responses (signing_preimage, preimage_exclusion_paths).                 *)
PreimageIsTheRest(object, location) ==
    HasSignatureBlock(object, location) =>
        Nodes(SigningPreimage(object, location), <<>>)
            = {n \in Nodes(object, <<>>) :
                  \A p \in PreimageExclusionPaths(location) : ~Under(n[1], p)}

(* The inner server sees one block of the proxy's keys, the one the proxy  *)
(* wrote, however deep the caller put its own; all else arrives as it was  *)
(* sent (build_forwarded_request).                                         *)
ForwardsOnlyItsOwn(request, profile) ==
    LET at == <<"params", "_meta", "verified">>
        nodes == Nodes(BuildForwardedRequest(request, profile), <<>>)
    IN  /\ {n \in nodes : ~Under(n[1], at)} = {n \in Nodes(request, <<>>) : ~IsOwned(n[1])}
        /\ {n \in nodes : Under(n[1], at)} = Nodes(BuildVerifiedContext(profile), at)

(* The signed response carries the inner answer and one block of the       *)
(* proxy's keys, its own, which is where a client looks for the signature: *)
(* the preimage exists, and covers the inner answer except for its trace   *)
(* keys (build_signed_response, response_signing_preimage).                *)
SignsOnlyItsOwn(inner, profile, id) ==
    LET at == <<"result", "_meta", "response">>
        response == BuildUnsignedResponse(inner, profile, id)
        preimage == SigningPreimage(response, "Response")
        owned == {n \in Nodes(response, <<>>) : IsOwned(n[1])}
        carried == IF ~Has(inner, "result") THEN Nodes(inner, <<"result", "inner_error">>)
                   ELSE Nodes(inner.m["result"], IF inner.m["result"].t = "obj" THEN <<"result">>
                                                 ELSE <<"result", "value">>)
    IN  /\ {n \in carried : ~IsOwned(n[1])} \subseteq Nodes(response, <<>>)
        /\ owned = Nodes(BuildResponseEnvelopeBlock(profile), at)
        /\ preimage # Failed
        /\ \A n \in Nodes(response, <<>>) :
             n \in Nodes(preimage, <<>>)
             \/ \E k \in ObservabilityMetaKeys : Under(n[1], <<"result", "_meta", k>>)

-----------------------------------------------------------------------------
(***************************************************************************)
(* RFC 3339 timestamps and Unix time (mcps-core, time).                    *)
(*                                                                         *)
(* A Unix time is a pair of a day number and a second of that day, which   *)
(* is how the code takes it apart (div_euclid and rem_euclid by 86400).    *)
(* The text of a timestamp is a record of what the parser tells apart: the *)
(* fields, whether each of them is made of digits at its fixed place, and  *)
(* what follows the seconds.                                               *)
(***************************************************************************)

Text == [fixed : BOOLEAN, year : Int, month : Nat, day : Nat,
         hour : Nat, minute : Nat, second : Nat,
         tail : {"Z", "fraction Z", "offset", "nothing"}]

(* Division of i64: towards zero.                                          *)
Quotient(a, b) == IF a >= 0 THEN a \div b ELSE -((-a) \div b)

IsLeapYear(year) == (year % 4 = 0 /\ year % 100 # 0) \/ year % 400 = 0

DAYS_IN_MONTH == <<31, 28, 31, 30, 31, 30, 31, 31, 30, 31, 30, 31>>

MaxDay(year, month) == IF month = 2 /\ IsLeapYear(year) THEN 29 ELSE DAYS_IN_MONTH[month]

(* Days since 1970-01-01; the shifted year begins in March.                *)
DaysFromCivil(year, month, day) ==
    LET y   == IF month <= 2 THEN year - 1 ELSE year
        era == Quotient(IF y >= 0 THEN y ELSE y - 399, 400)
        yoe == y - era * 400
        doy == (153 * (IF month > 2 THEN month - 3 ELSE month + 9) + 2) \div 5 + day - 1
        doe == yoe * 365 + yoe \div 4 - yoe \div 100 + doy
    IN  era * 146097 + doe - 719468

CivilFromDays(days) ==
    LET z   == days + 719468
        era == Quotient(IF z >= 0 THEN z ELSE z - 146096, 146097)
        doe == z - era * 146097
        yoe == (doe - doe \div 1460 + doe \div 36524 - doe \div 146096) \div 365
        doy == doe - (365 * yoe + yoe \div 4 - yoe \div 100)
        mp  == (5 * doy + 2) \div 153
        m   == IF mp < 10 THEN mp + 3 ELSE mp - 9
    IN  <<yoe + era * 400 + (IF m <= 2 THEN 1 ELSE 0), m, doy - (153 * mp + 2) \div 5 + 1>>

(* A text that is not a UTC timestamp is "ExpiredRequest", never a time.   *)
ParseRfc3339Utc(text) ==
    IF /\ text.fixed
       /\ text.tail \in {"Z", "fraction Z"}
       /\ text.month \in 1 .. 12
       /\ text.day \in 1 .. MaxDay(text.year, text.month)
       /\ text.hour <= 23 /\ text.minute <= 59 /\ text.second <= 59
    THEN <<DaysFromCivil(text.year, text.month, text.day),
           text.hour * 3600 + text.minute * 60 + text.second>>
    ELSE <<"ExpiredRequest">>

(* A year is padded to four characters, the sign included: only the years  *)
(* 0 to 9999 leave four digits in front of the first separator.            *)
UnixToRfc3339Utc(unix) ==
    LET civil == CivilFromDays(unix[1])
    IN  [fixed |-> civil[1] \in 0 .. 9999,
         year |-> civil[1], month |-> civil[2], day |-> civil[3],
         hour |-> unix[2] \div 3600, minute |-> (unix[2] % 3600) \div 60, second |-> unix[2] % 60,
         tail |-> "Z"]

-----------------------------------------------------------------------------
(* The Gregorian calendar, as a reference: the day after a day.             *)
NextDate(year, month, day) ==
    IF day < MaxDay(year, month) THEN <<year, month, day + 1>>
    ELSE IF month < 12 THEN <<year, month + 1, 1>>
    ELSE <<year + 1, 1, 1>>

(* days_from_civil counts days one by one from the epoch, across month      *)
(* ends, leap days, centuries and year 0, and civil_from_days undoes it.    *)
CalendarIsExact(date) ==
    LET next == NextDate(date[1], date[2], date[3])
        days == DaysFromCivil(date[1], date[2], date[3])
    IN  /\ DaysFromCivil(next[1], next[2], next[3]) = days + 1
        /\ CivilFromDays(days) = date
        /\ DaysFromCivil(1970, 1, 1) = 0

(* What a host or a proxy stamps is what a verifier reads: a formatted time *)
(* parses back to itself, and a time whose year has no four-digit form is   *)
(* refused rather than read as another time (unix_to_rfc3339_utc,           *)
(* parse_rfc3339_utc).                                                      *)
StampsReadBack(unix) ==
    LET text == UnixToRfc3339Utc(unix)
    IN  ParseRfc3339Utc(text) =
            IF text.year \in 0 .. 9999 THEN unix ELSE <<"ExpiredRequest">>
=============================================================================
