----------------------------- MODULE FactCache -----------------------------
(***************************************************************************)
(* packages/core/src/runtime/fact-cache.ts: the raw fact responses one     *)
(* Core instance keeps between checks, least recently used first.          *)
(*                                                                         *)
(* A key stands for (chain, method, params); a response for what put()     *)
(* reads of it.  The clock readings of different callers arrive in any     *)
(* order.                                                                  *)
(***************************************************************************)
EXTENDS Integers, Sequences, FiniteSets, FiniteSetsExt

CONSTANTS
    Keys,
    Batches,         \* the calls of a plan, in order, with their responses
    Sizes,           \* bytes of a key with its response
    MaxEntries,      \* limits.maxPlanCalls
    MaxBytes,        \* limits.maxFactBytes
    MaxFactAge,      \* limits.maxFactAgeMs
    AllowedClockSkew,
    MaxSafeInteger,
    NoTime,          \* #lastNow before the first reading
    NoHit

VARIABLES
    entries,   \* #entries, in insertion order
    bytes,     \* #bytes
    lastNow,   \* #lastNow
    hit        \* what the last get() returned, and when

vars == <<entries, bytes, lastNow, hit>>

ClockReadings == 0 .. MaxSafeInteger + 1
Entries == [key : Keys, observedAt : 0 .. MaxSafeInteger, bytes : Sizes]

\* A call of the plan with its response.  put() skips an optional call, one
\* without outputs, and a response of the wrong shape; a call whose key cannot
\* be computed ends its loop with what was stored so far.
Responses == [key : Keys, observedAt : 0 .. MaxSafeInteger, bytes : Sizes,
              kind : {"storable", "skipped", "throws"}]

ASSUME CacheAssumption ==
    /\ Sizes \subseteq Nat \ {0}
    /\ Batches \subseteq Seq(Responses)
    /\ MaxEntries \in Nat \ {0} /\ MaxBytes \in Nat \ {0}
    /\ MaxFactAge \in Nat /\ AllowedClockSkew \in Nat /\ MaxSafeInteger \in Nat
    /\ NoTime \notin Nat

Fresh(observedAt, now) ==
    /\ observedAt - now <= AllowedClockSkew
    /\ now - observedAt <= MaxFactAge

SumBytes(s) ==
    LET sum[i \in 0 .. Len(s)] == IF i = 0 THEN 0 ELSE sum[i - 1] + s[i].bytes
    IN  sum[Len(s)]

\* The entries of s that are in S, in their order.
Keep(kept, e, S) == IF e \in S THEN Append(kept, e) ELSE kept
Only(s, S) ==
    LET kept[i \in 0 .. Len(s)] == IF i = 0 THEN <<>> ELSE Keep(kept[i - 1], s[i], S)
    IN  kept[Len(s)]

Without(s, key) == Only(s, {e \in Entries : e.key # key})
Found(s, key) == Only(s, {e \in Entries : e.key = key})
KeysOf(s) == {s[i].key : i \in DOMAIN s}

SaneClock(now) == now <= MaxSafeInteger
Observe(now) == SaneClock(now) /\ (lastNow # NoTime => now >= lastNow)

\* Slip: a reading before the last is noted and the entries are kept.
ForgetNothing(now) ==
    /\ ~Observe(now)
    /\ UNCHANGED <<entries, bytes>>
    /\ lastNow' = IF SaneClock(now) THEN now ELSE NoTime

\* #observe: an impossible reading, or one before the last, forgets everything.
Forget(now) ==
    /\ ~Observe(now)
    /\ entries' = <<>>
    /\ bytes' = 0
    /\ lastNow' = IF SaneClock(now) THEN now ELSE NoTime

\* The cache as put() and get() see it after #prune.
Cache(s, b) == [entries |-> s, bytes |-> b]
RemoveKey(c, key) ==
    LET kept == Without(c.entries, key)
    IN  Cache(kept, c.bytes - (SumBytes(c.entries) - SumBytes(kept)))
Prune(now) ==
    LET kept == Only(entries, {e \in Entries : Fresh(e.observedAt, now)})
    IN  Cache(kept, bytes - (SumBytes(entries) - SumBytes(kept)))

\* The loop that makes room: the oldest entries go until the new one fits.
Room(c, size) ==
    LET Fits(k) == /\ Len(c.entries) - k < MaxEntries
                   /\ size <= MaxBytes - (c.bytes - SumBytes(SubSeq(c.entries, 1, k)))
        gone == CHOOSE k \in 0 .. Len(c.entries) :
                    /\ Fits(k) \/ k = Len(c.entries)
                    /\ \A j \in 0 .. k - 1 : ~Fits(j)
    IN  Cache(SubSeq(c.entries, gone + 1, Len(c.entries)),
              c.bytes - SumBytes(SubSeq(c.entries, 1, gone)))

\* Slips: an older observation replaces a newer one; a replaced entry stays in
\* the byte count.
StoreOlder(c, r, now) ==
    IF r.kind = "skipped" \/ ~Fresh(r.observedAt, now) \/ r.bytes > MaxBytes THEN c
    ELSE LET room == Room(RemoveKey(c, r.key), r.bytes)
         IN  Cache(Append(room.entries, [key |-> r.key, observedAt |-> r.observedAt,
                                         bytes |-> r.bytes]),
                   room.bytes + r.bytes)
StoreDrifting(c, r, now) ==
    IF r.kind = "skipped" \/ ~Fresh(r.observedAt, now) \/ r.bytes > MaxBytes THEN c
    ELSE LET room == Room(Cache(Without(c.entries, r.key), c.bytes), r.bytes)
         IN  Cache(Append(room.entries, [key |-> r.key, observedAt |-> r.observedAt,
                                         bytes |-> r.bytes]),
                   room.bytes + r.bytes)

\* One turn of put()'s loop over the calls.
Store(c, r, now) ==
    IF \/ r.kind = "skipped"
       \/ ~Fresh(r.observedAt, now)
       \/ r.bytes > MaxBytes
       \/ \E i \in DOMAIN c.entries : /\ c.entries[i].key = r.key
                                      /\ c.entries[i].observedAt > r.observedAt
    THEN c
    ELSE LET room == Room(RemoveKey(c, r.key), r.bytes)
         IN  Cache(Append(room.entries, [key |-> r.key, observedAt |-> r.observedAt,
                                         bytes |-> r.bytes]),
                   room.bytes + r.bytes)

Init == /\ entries = <<>>
        /\ bytes = 0
        /\ lastNow = NoTime
        /\ hit = NoHit

\* What get() finds, and what it does to the map: a hit becomes the most
\* recently used entry.
Lookup(key, now) == IF Observe(now) THEN Found(Prune(now).entries, key) ELSE <<>>
Touch(key, now) ==
    \/ Forget(now)
    \/ /\ Observe(now)
       /\ LET c == Prune(now)
          IN  /\ entries' = Without(c.entries, key) \o Found(c.entries, key)
              /\ bytes' = c.bytes
       /\ lastNow' = now

Get(key, now) ==
    /\ Touch(key, now)
    /\ hit' = IF Lookup(key, now) = <<>> THEN NoHit
              ELSE [key |-> key, observedAt |-> Lookup(key, now)[1].observedAt, at |-> now]

\* The calls put() reaches before one of them throws.
Reached(batch) ==
    LET throws == {i \in DOMAIN batch : batch[i].kind = "throws"}
    IN  IF throws = {} THEN batch ELSE SubSeq(batch, 1, Min(throws) - 1)

\* put()'s loop over the calls.
StoreAll(c, batch, now) ==
    LET stored[i \in 0 .. Len(batch)] ==
            IF i = 0 THEN c ELSE Store(stored[i - 1], batch[i], now)
    IN  stored[Len(batch)]

\* put(): `copied' is whether the batch passes the copy that bounds its bytes.
Put(batch, copied, now) ==
    /\ hit' = NoHit
    /\ \/ Forget(now)
       \/ /\ Observe(now)
          /\ LET c == IF copied /\ Len(batch) <= MaxEntries
                      THEN StoreAll(Prune(now), Reached(batch), now)
                      ELSE Prune(now)
             IN  entries' = c.entries /\ bytes' = c.bytes
          /\ lastNow' = now

\* clear(): after every committed refresh, and when Core is disposed.
Clear ==
    /\ entries' = <<>>
    /\ bytes' = 0
    /\ lastNow' = NoTime
    /\ hit' = NoHit

Next ==
    \/ \E key \in Keys, now \in ClockReadings : Get(key, now)
    \/ \E batch \in Batches, copied \in BOOLEAN, now \in ClockReadings : Put(batch, copied, now)
    \/ Clear

Spec == Init /\ [][Next]_vars

-----------------------------------------------------------------------------

\* The running byte count is the sum of what is held and stays under the limit,
\* through replacement, eviction, expiry and clearing.  A drift would either
\* starve the cache or let it outgrow maxFactBytes.  There are at most maxEntries
\* entries, one per key.
BytesAccounted ==
    /\ bytes = SumBytes(entries) /\ bytes <= MaxBytes
    /\ Len(entries) <= MaxEntries
    /\ Cardinality(KeysOf(entries)) = Len(entries)

\* Everything held was fresh at the last clock reading, so nothing outlives a
\* reading that proved it stale, and nothing is held without a reading.  A hit passes
\* the age check native evaluation applies at the same reading.
FactsFresh ==
    /\ \A i \in DOMAIN entries : lastNow # NoTime /\ Fresh(entries[i].observedAt, lastNow)
    /\ hit # NoHit => Fresh(hit.observedAt, hit.at)

ForwardOnly ==
    \A i \in DOMAIN entries, j \in DOMAIN entries' :
        entries[i].key = entries'[j].key => entries[i].observedAt <= entries'[j].observedAt

\* Nothing held has to go for the responses of this batch.
FitsBeside(batch) ==
    /\ Len(entries) + Len(batch) <= MaxEntries
    /\ SumBytes(entries) + SumBytes(batch) <= MaxBytes

\* Checks that finish in reverse order never put an older observation over a
\* newer one, as long as put() needs to make no room for its other responses.
NewestObservationKept ==
    [][\/ ForwardOnly
       \/ \A batch \in Batches, copied \in BOOLEAN, now \in ClockReadings :
             FitsBeside(batch) => ~Put(batch, copied, now)]_vars

\* What the comment in put() promises without that condition: the newer fact of
\* a key is kept.  It fails when an earlier call of the same put() evicts the
\* newer entry before the older response of its key is looked at.
NewestObservationAlwaysKept == [][ForwardOnly]_vars
=============================================================================
