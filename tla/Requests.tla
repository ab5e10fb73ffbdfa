------------------------------ MODULE Requests ------------------------------
(***************************************************************************)
(* The part of a signed MCP-S request that replay protection depends on:   *)
(* its replay key, the triple (signer, audience, nonce), and its           *)
(* validity window.  Two different requests may carry the same key (a      *)
(* signer that reuses a nonce); their windows are then independent.        *)
(*                                                                         *)
(* Timestamps are Unix seconds, already parsed.  The code adds and         *)
(* subtracts the skew with saturation; RFC 3339 years end at 9999, so      *)
(* neither bound is within reach of an i64 and plain arithmetic is exact.  *)
(***************************************************************************)
EXTENDS Integers

CONSTANTS
    Request,    \* the signed requests that may be presented
    NoRequest,  \* the absence of one: no call in progress
    Key,        \* the replay keys (signer, audience, nonce)
    KeyOf,      \* the replay key of each request
    IssuedAt,   \* issued_at of each request
    ExpiresAt,  \* expires_at of each request
    Skew        \* max_clock_skew_secs; a negative skew only narrows the window

ASSUME RequestAssumption ==
    /\ NoRequest \notin Request
    /\ KeyOf \in [Request -> Key]
    /\ IssuedAt \in [Request -> Int]
    /\ ExpiresAt \in [Request -> Int]
    /\ Skew \in Int

(* check_freshness: both ends of the window are inclusive, and a window    *)
(* that ends before it starts is never fresh.                              *)
CheckFreshness(r, t) ==
    /\ ExpiresAt[r] >= IssuedAt[r]
    /\ IssuedAt[r] - Skew <= t
    /\ t <= ExpiresAt[r] + Skew

RetainUntil_NoSkew(r) == ExpiresAt[r]

(* The instant through which every replay cache keeps the key of r.        *)
RetainUntil(r) == ExpiresAt[r] + Skew
=============================================================================
