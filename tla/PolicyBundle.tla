---------------------------- MODULE PolicyBundle ----------------------------
(***************************************************************************)
(* Signed policy bundles and the local rules that accept them:             *)
(* crates/dambi-core/src/bundle/semantics.rs, with the validation pipeline *)
(* of crates/dambi-core/src/snapshot/store.rs.                             *)
(*                                                                         *)
(* A payload is what the signature covers.  Its bytes are compared as a    *)
(* whole (check_update), so a payload is identified with its bytes: two    *)
(* payloads that differ in any field differ in bytes, and `body' stands    *)
(* for everything the other fields do not say (policies, whitespace...).   *)
(* Wire times are in seconds; clocks and skew are in milliseconds.         *)
(***************************************************************************)
EXTENDS Integers

CONSTANTS
    Payloads,         \* the payloads that can reach the Store
    TrustScope,       \* the (env, profile) pair of the local configuration
    MaxBundleAgeSec,  \* max_bundle_age_sec
    AllowedClockSkew, \* allowed_clock_skew_ms
    MsPerSec,         \* 1000 in the code
    MaxSafeInteger,   \* 2^53 - 1 in the code: the largest clock value
    NoExpiry          \* a payload without expires_at

ASSUME BundleAssumption ==
    /\ MaxBundleAgeSec \in Nat \ {0}
    /\ AllowedClockSkew \in Nat
    /\ MsPerSec \in Nat \ {0}
    /\ MaxSafeInteger \in Nat
    /\ NoExpiry \notin Nat
    /\ \A p \in Payloads : /\ p.sequence \in Nat
                           /\ p.issuedAt \in Nat
                           /\ p.expiresAt \in Nat \cup {NoExpiry}

\* A clock reading as a caller can supply it; MaxSafeInteger + 1 stands for
\* every reading outside the JS-safe range.
ClockReadings == 0 .. MaxSafeInteger + 1

\* What reaches the Store: a payload, whether its bytes parse and its policy
\* entries are valid, and whether its signature verifies under a trusted key.
SignedInputs == [payload : Payloads, wellFormed : BOOLEAN, authentic : BOOLEAN]

IssuedAtMs(p) == p.issuedAt * MsPerSec

\* Exclusive expiration: the earlier of the signed expiry and the maximum age.
ValidUntilMs(p) ==
    LET ageDeadline == p.issuedAt + MaxBundleAgeSec
        deadline == IF p.expiresAt = NoExpiry \/ ageDeadline < p.expiresAt
                    THEN ageDeadline ELSE p.expiresAt
    IN  deadline * MsPerSec

CheckClock(now) == now <= MaxSafeInteger

\* check_time: issuance may lie in the future by the skew, expiry may not.
CheckTime(p, now) ==
    /\ CheckClock(now)
    /\ IssuedAtMs(p) <= now + AllowedClockSkew
    /\ now < ValidUntilMs(p)

EnsureFresh(p, now) == CheckTime(p, now)

\* validate_input: parse, verify, then validate against the local trust.
ValidateInput(in, now) ==
    /\ in.wellFormed
    /\ in.authentic
    /\ CheckClock(now)
    /\ in.payload.scope = TrustScope
    /\ in.payload.expiresAt # NoExpiry => in.payload.expiresAt > in.payload.issuedAt
    /\ CheckTime(in.payload, now)

\* Slips: a repeated sequence replaces; the freshness of preparation is trusted
\* at commit; an expired policy is no longer a floor.
ReplacesOnRepeat(p, previous, now) ==
    /\ EnsureFresh(p, now)
    /\ p.scope = previous.scope
    /\ p.sequence >= previous.sequence
ReplacesUnchecked(p, previous, now) ==
    /\ p.scope = previous.scope
    /\ p.sequence > previous.sequence
ReplacesWithoutFloor(p, previous, now) ==
    /\ EnsureFresh(p, now)
    /\ p.scope = previous.scope
    /\ p.sequence > previous.sequence \/ ~EnsureFresh(previous, now)

\* check_update against the active policy, itself expired or not: a higher
\* sequence replaces.  (A repeat of the same bytes is accepted and changes
\* nothing; everything else is refused.)
Replaces(p, previous, now) ==
    /\ EnsureFresh(p, now)
    /\ p.scope = previous.scope
    /\ p.sequence > previous.sequence
=============================================================================
