---------------------------- MODULE MCFactCache ----------------------------
(* Three keys for a cache of two entries; sizes that fit one, two or none.   *)
EXTENDS FactCache

CONSTANTS k1, k2, k3

MCKeys == {k1, k2, k3}
MCSizes == {1, 2, 4}

Response(k, t, b, kind) == [key |-> k, observedAt |-> t, bytes |-> b, kind |-> kind]
Singles == {<<Response(k, t, b, "storable")>> : k \in MCKeys, t \in 0 .. MaxSafeInteger, b \in {1, 2}}

\* Single calls, a call too large for the cache, one the loop skips, one that
\* throws before the next, two calls of the same key, two that crowd each other
\* out, and more calls than the cache has room for.
MCBatches ==
    Singles \cup
    {<<Response(k1, 1, 4, "storable"), Response(k2, 1, 1, "storable")>>,
     <<Response(k1, 2, 1, "skipped"), Response(k3, 2, 2, "storable")>>,
     <<Response(k2, 2, 1, "storable"), Response(k1, 2, 1, "throws")>>,
     <<Response(k2, 2, 1, "throws"), Response(k3, 2, 1, "storable")>>,
     <<Response(k1, 2, 2, "storable"), Response(k1, 1, 1, "storable")>>,
     <<Response(k2, 2, 2, "storable"), Response(k3, 1, 2, "storable")>>,
     <<Response(k1, 2, 1, "storable"), Response(k2, 2, 1, "storable"),
       Response(k3, 2, 1, "storable")>>}
=============================================================================
