---------------------------- MODULE RateLimiter -----------------------------
(***************************************************************************)
(* registry-api/src/rate-limiter.ts: a token bucket per client address, in *)
(* a Map whose order is that of the last use.  Tokens are fractions in the *)
(* code; here they are counted in units of which a request costs Cost.     *)
(* The time is Date.now(), which may be set back.                          *)
(***************************************************************************)
EXTENDS Integers, Sequences, SequencesExt

CONSTANTS
    Ips,      \* client addresses
    Burst,    \* capacity of a bucket, in units
    Refill,   \* units per unit of time
    Cost,     \* units per request
    MaxIps,   \* buckets kept
    Times     \* readings of the clock

\* What RateLimiter is constructed with (registry-api/src/server.ts:86).
Limits ==
    /\ Burst \in Nat /\ Refill \in Nat /\ Cost \in Nat \ {0} /\ Cost <= Burst
    /\ MaxIps \in Nat \ {0}
    /\ Times \subseteq Int

VARIABLES
    order,    \* the addresses that have a bucket, least recently used first
    tokens,   \* their units
    last,     \* their lastRefillMs
    now,      \* the clock
    born,     \* history: when the bucket was made
    granted   \* history: requests allowed since then

vars == <<order, tokens, last, now, born, granted>>

Least(a, b) == IF a < b THEN a ELSE b

\* What the bucket holds when allow() looks at it.
Filled(ip) == Least(Burst, tokens[ip] + (now - last[ip]) * Refill)

\* Map.delete and Map.set, then the oldest is dropped while there are too many.
Used(ip) ==
    LET others == SelectSeq(order, LAMBDA i : i # ip)
        all == Append(others, ip)
    IN IF Len(all) > MaxIps THEN Tail(all) ELSE all

Known(ip) == ip \in Range(order)
Have(ip) == IF Known(ip) THEN Filled(ip) ELSE Burst

\* What allow() returns.
Enough(ip) == Have(ip) >= Cost

\* allow(ip): a token is taken if there is one; the bucket is stored either way.
Allow(ip) ==
    LET before == IF Known(ip) THEN granted[ip] ELSE 0 IN
    /\ order' = Used(ip)
    /\ tokens' = [tokens EXCEPT ![ip] = IF Enough(ip) THEN Have(ip) - Cost ELSE Have(ip)]
    /\ last' = [last EXCEPT ![ip] = now]
    /\ born' = IF Known(ip) THEN born ELSE [born EXCEPT ![ip] = now]
    /\ granted' = [granted EXCEPT ![ip] = IF Enough(ip) THEN before + 1 ELSE before]
    /\ now' = now

Clock ==
    /\ now' \in Times
    /\ UNCHANGED <<order, tokens, last, born, granted>>

Init ==
    /\ order = <<>>
    /\ now \in Times
    /\ tokens = [ip \in Ips |-> Burst]
    /\ last = [ip \in Ips |-> now] /\ born = [ip \in Ips |-> now]
    /\ granted = [ip \in Ips |-> 0]

Next == (\E ip \in Ips : Allow(ip)) \/ Clock

Spec == Init /\ [][Next]_vars

-----------------------------------------------------------------------------
TypeOK ==
    /\ tokens \in [Ips -> Int] /\ last \in [Ips -> Int] /\ born \in [Ips -> Int]
    /\ granted \in [Ips -> Nat]
    /\ now \in Int

\* What a bucket holds is never more than the burst, and together with what it has
\* given never more than the burst and the refill of the time by its own clock,
\* also when that clock is set back and forth.
Paid ==
    \A ip \in Ips :
        /\ tokens[ip] <= Burst
        /\ tokens[ip] + Cost * granted[ip] <= Burst + Refill * (last[ip] - born[ip])

\* The bucket leaves room for a burst and caps the sustained rate of one address
\* (rate-limiter.ts:4): when a request is allowed, those allowed since the bucket was
\* made cost no more than the burst and the refill of the time since.
RateCapped ==
    [][\A ip \in Ips :
          Allow(ip) /\ Enough(ip)
          => Cost * granted'[ip] <= Burst + Refill * (now - born'[ip])]_vars
=============================================================================
