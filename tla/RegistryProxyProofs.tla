------------------------ MODULE RegistryProxyProofs -------------------------
(***************************************************************************)
(* Proofs about RegistryProxy for any number of requests, objects, context *)
(* versions and publications, and any size and lifetime of the cache.      *)
(* Nothing need be known of the order of its keys: whatever is dropped, an *)
(* object maps to what it was given last or to nothing.  Then the rate     *)
(* limiter: the rate of an address is capped for every burst, refill, cost *)
(* and clock.                                                              *)
(***************************************************************************)
EXTENDS RegistryProxy, Integers, TLAPS

IsMap(f) == f = [o \in Objects |-> f[o]]
Matched(v) == v.entry.claims = v.ctx

FieldNames == {"target", "waits", "got", "entry", "sure", "landed", "seen", "reply"}
Shaped(q) ==
    /\ q = [f \in FieldNames |-> q[f]]
    /\ q.sure \in BOOLEAN /\ q.landed \in BOOLEAN /\ q.seen \in BOOLEAN

\* An entry is never cached with a context it was not built with, and a missing leaf
\* is not cached.
CacheOK(m) ==
    /\ IsMap(m.held)
    /\ \A o \in Objects : m.held[o] # None =>
          m.held[o] = [val |-> m.held[o].val, left |-> m.held[o].left]
    /\ \A o \in Entries : m.held[o] # None /\ m.held[o].val # Absent => Matched(m.held[o].val)
    /\ \A o \in Bundles : m.held[o] # None => m.held[o].val # Absent

\* One read per object in flight, which gives content of that object or none.
FlightOK ==
    /\ IsMap(bucket) /\ IsMap(flight) /\ IsMap(reads)
    /\ \A o \in Objects :
          /\ bucket[o] \in Content(o) \cup {Absent}
          /\ flight[o] \in Content(o) \cup {None, Reading, Absent, Fault}
          /\ reads[o] = IF flight[o] = None THEN 0 ELSE 1

\* Where a request stands: it waits for its target, or for what the entry it asked for
\* needs.
Waiting(q) ==
    /\ q.target \in Objects \cup {None} /\ q.waits \in Objects \cup {None}
    /\ q.waits # None => \/ q.waits = q.target
                         \/ q.target \in Entries /\ q.waits \in Bundles \cup {Context}
    /\ q.got # None => q.waits # None /\ q.got \in Content(q.waits) \cup {Absent, Fault}
    /\ q.target \in Entries /\ q.reply \notin {None, Absent, Fault} => Matched(q.reply)

\* A request that began the read it waits for is not answered before that read is.
Begun(q, fl) ==
    q.sure /\ ~q.seen =>
        /\ q.waits = q.target /\ q.waits # None /\ q.got = None /\ q.reply = None
        /\ fl[q.waits] = Reading

\* A leaf that was there is there, and no read that began since has missed it.
Landed(q, fl, bk) ==
    /\ q.landed => q.target \in Bundles /\ q.reply # Absent
    /\ q.landed /\ q.waits # None =>
          /\ q.waits = q.target /\ q.got # Absent
          /\ bk[q.target] # Absent /\ fl[q.target] # Absent

RequestOK(q, fl, bk) == Shaped(q) /\ Waiting(q) /\ Begun(q, fl) /\ Landed(q, fl, bk)

IInv ==
    /\ CacheOK(cache) /\ FlightOK
    /\ req = [r \in Requests |-> req[r]]
    /\ \A r \in Requests : RequestOK(req[r], flight, bucket)
-----------------------------------------------------------------------------
\* ObjectCache.

Item(v) == [val |-> v, left |-> IF v = Absent THEN NegTtl ELSE Ttl]

LEMMA TouchedOK ==
    ASSUME CacheOK(cache), NEW o PROVE CacheOK(Touched(o))
<1> DEFINE m == Touched(o)
<1>1. m.held = cache.held \/ m.held = [cache.held EXCEPT ![o] = None] BY DEF Touched, Dropped
<1> HIDE DEF m
<1>2. IsMap(m.held) /\ \A x \in Objects : m.held[x] \in {cache.held[x], None}
  BY <1>1 DEF CacheOK, IsMap
<1>3. CacheOK(m) BY <1>2 DEF CacheOK, Objects
<1>4. QED BY <1>3 DEF m

LEMMA PutOK ==
    ASSUME NEW m, CacheOK(m), NEW o \in Objects, NEW v,
           o \in Entries /\ v # Absent => Matched(v), o \in Bundles => v # Absent
    PROVE  CacheOK(Put(m, o, v))
<1> DEFINE held == [m.held EXCEPT ![o] = Item(v)]
           gone == Head(Append(Others(m, o), o))
           n == Put(m, o, v)
<1>1. n.held = held \/ n.held = [held EXCEPT ![gone] = None] BY DEF Put, Item
<1> HIDE DEF n, gone
<1>2. IsMap(held) /\ \A x \in Objects : held[x] = m.held[x] \/ (x = o /\ held[x] = Item(v))
  BY DEF CacheOK, IsMap
<1> HIDE DEF held
<1>3. IsMap(n.held) /\ \A x \in Objects : n.held[x] \in {held[x], None} BY <1>1, <1>2 DEF IsMap
<1>4. Item(v).val = v /\ Item(v) = [val |-> Item(v).val, left |-> Item(v).left] BY DEF Item
<1>5. CacheOK(n) BY <1>2, <1>3, <1>4 DEF CacheOK, Objects
<1>6. QED BY <1>5 DEF n
-----------------------------------------------------------------------------
\* What the continuations do.

\* Every other request is as before.
OthersSame(r) ==
    /\ req' = [q \in Requests |-> req'[q]]
    /\ \A q \in Requests \ {r} : req'[q] = req[q]
    /\ Shaped(req'[r])

\* What of a request never changes while it lasts.
Kept(r) ==
    /\ req'[r].target = req[r].target /\ req'[r].landed = req[r].landed
    /\ req'[r].sure = req[r].sure /\ req'[r].seen = req[r].seen

Replied(r, v) ==
    /\ OthersSame(r) /\ Kept(r) /\ UNCHANGED <<flight, reads>>
    /\ req'[r].waits = None /\ req'[r].got = None /\ req'[r].reply = v

Awaited(r, o) ==
    /\ OthersSame(r) /\ Kept(r) /\ Run(o)
    /\ req'[r].waits = o /\ req'[r].got = None /\ req'[r].reply = req[r].reply

LEMMA ReplyShape ==
    ASSUME IInv, NEW r \in Requests, NEW v, Reply(r, v) PROVE Replied(r, v)
<1> DEFINE old == req[r]
           new == [old EXCEPT !.waits = None, !.got = None, !.entry = None, !.reply = v]
<1>1. Shaped(old) /\ req = [q \in Requests |-> req[q]] BY DEF IInv, RequestOK
<1>2. req' = [req EXCEPT ![r] = new] /\ UNCHANGED <<flight, reads>> BY DEF Reply
<1>3. req'[r] = new /\ req' = [q \in Requests |-> req'[q]]
      /\ \A q \in Requests \ {r} : req'[q] = req[q]
  BY <1>1, <1>2
<1> HIDE DEF old
<1>4. /\ new.target = old.target /\ new.landed = old.landed /\ new.sure = old.sure
      /\ new.seen = old.seen /\ new.waits = None /\ new.got = None /\ new.reply = v
  BY <1>1 DEF Shaped, FieldNames
<1>5. new = [f \in FieldNames |-> new[f]] BY <1>1, Zenon DEF Shaped
<1>6. Shaped(new) BY <1>1, <1>4, <1>5, ZenonT(30) DEF Shaped
<1> HIDE DEF new
<1>7. Kept(r) BY <1>3, <1>4 DEF Kept, old
<1>8. QED BY <1>2, <1>3, <1>4, <1>6, <1>7 DEF Replied, OthersSame, old

LEMMA AwaitShape ==
    ASSUME IInv, NEW r \in Requests, NEW o, NEW e, Await(r, o, e) PROVE Awaited(r, o)
<1> DEFINE old == req[r]
           new == [old EXCEPT !.waits = o, !.got = None, !.entry = e]
<1>1. Shaped(old) /\ req = [q \in Requests |-> req[q]] BY DEF IInv, RequestOK
<1>2. req' = [req EXCEPT ![r] = new] /\ Run(o) BY DEF Await
<1>3. req'[r] = new /\ req' = [q \in Requests |-> req'[q]]
      /\ \A q \in Requests \ {r} : req'[q] = req[q]
  BY <1>1, <1>2
<1> HIDE DEF old
<1>4. /\ new.target = old.target /\ new.landed = old.landed /\ new.sure = old.sure
      /\ new.seen = old.seen /\ new.waits = o /\ new.got = None /\ new.reply = old.reply
  BY <1>1 DEF Shaped, FieldNames
<1>5. new = [f \in FieldNames |-> new[f]] BY <1>1, Zenon DEF Shaped
<1>6. Shaped(new) BY <1>1, <1>4, <1>5, ZenonT(30) DEF Shaped
<1> HIDE DEF new
<1>7. Kept(r) BY <1>3, <1>4 DEF Kept, old
<1>8. QED BY <1>2, <1>3, <1>4, <1>6, <1>7 DEF Awaited, OthersSame, old

\* Serving a value: the target is cached with it.
LEMMA ServeShape ==
    ASSUME IInv, NEW r \in Requests, NEW m, CacheOK(m), NEW v, Serve(r, m, v),
           req[r].target \in Objects,
           req[r].target \in Entries /\ v # Absent => Matched(v),
           req[r].target \in Bundles => v # Absent
    PROVE  Replied(r, v) /\ CacheOK(cache')
BY ReplyShape, PutOK DEF Serve

\* What may be answered to a request.
Fitting(r, v) ==
    /\ req[r].target \in Entries /\ v \notin {None, Absent, Fault} => Matched(v)
    /\ req[r].target \in Bundles /\ v = Absent => req[r].got = Absent

\* A continuation answers the request, or goes on to read what its entry needs.
Resumed(r) ==
    /\ CacheOK(cache')
    /\ \/ \E v : Replied(r, v) /\ Fitting(r, v)
       \/ \E o \in Bundles \cup {Context} : Awaited(r, o) /\ req[r].target \in Entries

LEMMA Answers ==
    ASSUME NEW r \in Requests, NEW v, CacheOK(cache'), Replied(r, v), Fitting(r, v)
    PROVE  Resumed(r)
BY Zenon DEF Resumed

LEMMA GoesOnReading ==
    ASSUME NEW r \in Requests, NEW o \in Bundles \cup {Context}, CacheOK(cache'), Awaited(r, o),
           req[r].target \in Entries
    PROVE  Resumed(r)
BY Zenon DEF Resumed

LEMMA BundleShape ==
    ASSUME IInv, NEW r \in Requests, NEW m, CacheOK(m), NEW e, HaveBundle(r, m, e),
           req[r].target \in Entries
    PROVE  Resumed(r)
<1>1. CASE e.claims = NoContext
  <2> DEFINE v == [entry |-> e, ctx |-> NoContext]
  <2>1. Serve(r, m, v) BY <1>1 DEF HaveBundle
  <2>2. Matched(v) BY <1>1 DEF Matched
  <2> HIDE DEF v
  <2>3. req[r].target \in Objects /\ req[r].target \notin Bundles BY ProxyAssumption DEF Objects
  <2>4. Replied(r, v) /\ CacheOK(cache') BY <2>1, <2>2, <2>3, ServeShape
  <2>5. QED BY <2>2, <2>3, <2>4, Answers DEF Fitting
<1>2. CASE e.claims # NoContext
  <2>1. cache' = m /\ Await(r, Context, e) BY <1>2 DEF HaveBundle
  <2>2. Awaited(r, Context) BY <2>1, AwaitShape
  <2>3. QED BY <2>1, <2>2, GoesOnReading
<1>3. QED BY <1>1, <1>2

LEMMA ResumeShape ==
    ASSUME IInv, NEW r \in Requests, Resume(r) PROVE Resumed(r)
<1> DEFINE q == req[r]
<1>0. /\ q.got # None /\ q.waits \in Objects /\ q.target \in Objects
      /\ q.got \in Content(q.waits) \cup {Absent, Fault} /\ CacheOK(cache) /\ UNCHANGED bucket
      /\ \/ q.waits = q.target
         \/ q.target \in Entries /\ q.waits \in Bundles \cup {Context}
  BY DEF Resume, IInv, RequestOK, Waiting, Objects
<1>1. CASE Failed(r)
  <2>1. Replied(r, Fault) /\ cache' = cache BY <1>1, ReplyShape DEF Failed
  <2>2. QED BY <1>0, <2>1, ProxyAssumption, Answers DEF Fitting
<1>2. CASE Missing(r)
  <2>1. q.got = Absent BY <1>2 DEF Missing
  <2>2. CASE q.target \in Bundles
    <3>1. Replied(r, Absent) /\ cache' = cache BY <1>2, <2>2, ReplyShape DEF Missing
    <3>2. QED BY <1>0, <2>1, <3>1, Answers DEF Fitting
  <2>3. CASE q.target \notin Bundles
    <3>1. Serve(r, cache, Absent) BY <1>2, <2>3 DEF Missing
    <3>2. Replied(r, Absent) /\ CacheOK(cache') BY <1>0, <2>3, <3>1, ServeShape
    <3>3. QED BY <2>1, <3>2, Answers DEF Fitting
  <2>4. QED BY <2>2, <2>3
<1>3. CASE HaveObject(r)
  <2>1. q.got \notin {None, Absent, Fault} /\ q.waits = q.target BY <1>3 DEF HaveObject
  <2>2. CASE q.target \notin Entries
    <3>1. Serve(r, cache, q.got) BY <1>3, <2>2 DEF HaveObject
    <3>2. Replied(r, q.got) /\ CacheOK(cache') BY <1>0, <2>1, <2>2, <3>1, ServeShape
    <3>3. QED BY <2>1, <2>2, <3>2, Answers DEF Fitting
  <2>3. CASE q.target \in Entries
    <3>0. q.got \in IndexEntry /\ q.target \notin Bundles
      BY <1>0, <2>1, <2>3, ProxyAssumption DEF Content
    <3>1. CASE q.got.bundle = NoBundle
      <4> DEFINE v == [entry |-> q.got, ctx |-> NoContext]
      <4>1. Serve(r, cache, v) BY <1>3, <2>3, <3>1 DEF HaveObject
      <4>2. q.got.claims = NoContext BY <3>0, <3>1, ProxyAssumption DEF IndexEntry
      <4>3. Matched(v) BY <4>2 DEF Matched
      <4> HIDE DEF v
      <4>4. Replied(r, v) /\ CacheOK(cache') BY <1>0, <3>0, <4>1, <4>3, ServeShape, Zenon
      <4>5. QED BY <3>0, <4>3, <4>4, Answers, Zenon DEF Fitting
    <3>2. CASE q.got.bundle # NoBundle /\ Live(q.got.bundle)
      <4>1. HaveBundle(r, Touched(q.got.bundle), q.got) BY <1>3, <2>3, <3>2 DEF HaveObject
      <4>2. QED BY <1>0, <2>3, <4>1, TouchedOK, BundleShape, Zenon
    <3>3. CASE q.got.bundle # NoBundle /\ ~Live(q.got.bundle)
      <4>1. cache' = Touched(q.got.bundle) /\ Await(r, q.got.bundle, q.got)
        BY <1>3, <2>3, <3>3 DEF HaveObject
      <4>2. q.got.bundle \in Bundles BY <3>0, <3>3, Zenon DEF IndexEntry
      <4>3. CacheOK(cache') /\ Awaited(r, q.got.bundle)
        BY <1>0, <4>1, TouchedOK, AwaitShape, Zenon
      <4>4. QED BY <2>3, <4>2, <4>3, GoesOnReading, Zenon
    <3>4. QED BY <3>1, <3>2, <3>3
  <2>4. QED BY <2>2, <2>3
<1>4. CASE GotBundle(r)
  <2>1. q.got = Leaf /\ q.waits # q.target /\ HaveBundle(r, Put(cache, q.waits, Leaf), q.entry)
    BY <1>4 DEF GotBundle
  <2>2. q.target \in Entries /\ q.waits \in Bundles \cup {Context} BY <1>0, <2>1
  <2>3. CacheOK(Put(cache, q.waits, Leaf))
    <3>1. q.waits \notin Entries BY <2>2, ProxyAssumption
    <3>2. q.waits \in Bundles => Leaf # Absent BY <1>0, ProxyAssumption DEF Content
    <3>3. QED BY <1>0, <3>1, <3>2, PutOK
  <2>4. QED BY <2>1, <2>2, <2>3, BundleShape
<1>5. CASE GotContext(r)
  <2>0. q.waits # q.target /\ q.target \in Entries /\ q.target \notin Bundles
    BY <1>0, <1>5, ProxyAssumption, Zenon DEF GotContext
  <2>1. CASE q.got = q.entry.claims
    <3> DEFINE v == [entry |-> q.entry, ctx |-> q.got]
    <3>1. Serve(r, cache, v) BY <1>5, <2>1 DEF GotContext
    <3>2. Matched(v) BY <2>1, Zenon DEF Matched
    <3> HIDE DEF v
    <3>3. Replied(r, v) /\ CacheOK(cache') BY <1>0, <2>0, <3>1, <3>2, ServeShape, Zenon
    <3>4. QED BY <2>0, <3>2, <3>3, Answers, Zenon DEF Fitting
  <2>2. CASE q.got # q.entry.claims
    <3>1. Replied(r, Fault) /\ cache' = cache BY <1>5, <2>2, ReplyShape DEF GotContext
    <3>2. QED BY <1>0, <3>1, ProxyAssumption, Answers DEF Fitting
  <2>3. QED BY <2>1, <2>2, Zenon
<1>6. QED BY <1>0, <1>1, <1>2, <1>3, <1>4, <1>5 DEF Resume
-----------------------------------------------------------------------------
\* Steps.

\* A read is begun only for an object that has none in flight.
LEMMA RunFacts ==
    ASSUME FlightOK, NEW o \in Objects, Run(o), UNCHANGED bucket
    PROVE  FlightOK' /\ flight'[o] # None /\ (flight[o] = None => flight'[o] = Reading)
           /\ \A x \in Objects : flight'[x] \in {flight[x], Reading}
<1>1. CASE flight[o] # None BY <1>1 DEF Run, FlightOK, IsMap
<1>2. CASE flight[o] = None
  <2>1. flight' = [flight EXCEPT ![o] = Reading] /\ reads' = [reads EXCEPT ![o] = reads[o] + 1]
    BY <1>2 DEF Run
  <2>2. reads[o] = 0 /\ Reading # None BY <1>2, ProxyAssumption, Zenon DEF FlightOK
  <2>3. /\ IsMap(flight') /\ flight'[o] = Reading
        /\ \A x \in Objects \ {o} : flight'[x] = flight[x]
        /\ IsMap(reads') /\ reads'[o] = 1 /\ \A x \in Objects \ {o} : reads'[x] = reads[x]
    <3>1. IsMap(flight) /\ IsMap(reads) BY DEF FlightOK
    <3>2. IsMap(flight') /\ flight'[o] = Reading
          /\ \A x \in Objects \ {o} : flight'[x] = flight[x]
      BY <2>1, <3>1 DEF IsMap
    <3>3. IsMap(reads') /\ reads'[o] = 1 /\ \A x \in Objects \ {o} : reads'[x] = reads[x]
      BY <2>1, <2>2, <3>1 DEF IsMap
    <3>4. QED BY <3>2, <3>3
  <2>4. FlightOK' BY <2>2, <2>3 DEF FlightOK
  <2>5. QED BY <1>2, <2>2, <2>3, <2>4
<1>3. QED BY <1>1, <1>2

\* A request the step is not about.
LEMMA Undisturbed ==
    ASSUME NEW q, RequestOK(q, flight, bucket),
           \A o \in Objects : flight'[o] \in {flight[o], Reading},
           \A o \in Objects : bucket[o] # Absent => bucket'[o] # Absent
    PROVE  RequestOK(q, flight', bucket')
<1>1. Begun(q, flight') BY Zenon DEF RequestOK, Waiting, Begun
<1>2. Landed(q, flight', bucket') BY ProxyAssumption DEF RequestOK, Waiting, Landed, Objects
<1>3. QED BY <1>1, <1>2, Zenon DEF RequestOK

LEMMA ResumeKeeps == ASSUME IInv, NEW r \in Requests, Resume(r) PROVE IInv'
<1> DEFINE q == req[r]
           n == req'[r]
<1>0. Resumed(r) /\ UNCHANGED bucket BY ResumeShape DEF Resume
<1>1. /\ FlightOK /\ RequestOK(q, flight, bucket) /\ q.got # None
      /\ \A x \in Requests : RequestOK(req[x], flight, bucket)
  BY Zenon DEF IInv, Resume
<1>2. q.sure => q.seen BY <1>1, Zenon DEF RequestOK, Begun, Shaped
<1>3. q.waits # None /\ q.target \in Objects \cup {None} BY <1>1 DEF RequestOK, Waiting
<1>4. CASE \E v : Replied(r, v) /\ Fitting(r, v)
  <2>1. PICK v : Replied(r, v) /\ Fitting(r, v) BY <1>4, Zenon
  <2>2. /\ FlightOK'
        /\ \A o \in Objects : flight'[o] \in {flight[o], Reading} /\ bucket'[o] = bucket[o]
    BY <1>0, <1>1, <2>1 DEF Replied, FlightOK
  <2>3. /\ Shaped(n) /\ n.waits = None /\ n.got = None /\ n.reply = v /\ n.target = q.target
        /\ n.landed = q.landed /\ n.sure = q.sure /\ n.seen = q.seen
    BY <2>1, Zenon DEF Replied, OthersSame, Kept
  <2> HIDE DEF n
  <2>4. Waiting(n) BY <1>3, <2>1, <2>3, Zenon DEF Waiting, Fitting
  <2>5. Begun(n, flight') BY <1>2, <2>3, Zenon DEF Begun
  <2>6. Landed(n, flight', bucket')
    <3>1. q.landed => q.target \in Bundles /\ q.got # Absent
      BY <1>1, <1>3, Zenon DEF RequestOK, Landed
    <3>2. QED BY <2>1, <2>3, <3>1, Zenon DEF Landed, Fitting
  <2>7. RequestOK(n, flight', bucket') BY <2>3, <2>4, <2>5, <2>6, Zenon DEF RequestOK
  <2>8. \A x \in Requests : RequestOK(req'[x], flight', bucket')
    BY <1>1, <2>1, <2>2, <2>7, Undisturbed, Zenon DEF Replied, OthersSame, n
  <2>9. QED BY <1>0, <2>1, <2>2, <2>8 DEF IInv, Resumed, Replied, OthersSame
<1>5. CASE \E o \in Bundles \cup {Context} : Awaited(r, o) /\ q.target \in Entries
  <2>1. PICK o \in Bundles \cup {Context} : Awaited(r, o) /\ q.target \in Entries BY <1>5
  <2>2. o \in Objects /\ q.target \notin Bundles /\ o # None
    BY <2>1, ProxyAssumption, Zenon DEF Objects
  <2>3. FlightOK' /\ \A x \in Objects : flight'[x] \in {flight[x], Reading}
    BY <1>0, <1>1, <2>1, <2>2, RunFacts, Zenon DEF Awaited
  <2>4. /\ Shaped(n) /\ n.waits = o /\ n.got = None /\ n.reply = q.reply /\ n.target = q.target
        /\ n.landed = q.landed /\ n.sure = q.sure /\ n.seen = q.seen
    BY <2>1, Zenon DEF Awaited, OthersSame, Kept
  <2> HIDE DEF n
  <2>5. Waiting(n) BY <1>1, <1>3, <2>1, <2>2, <2>4, Zenon DEF RequestOK, Waiting
  <2>6. Begun(n, flight') BY <1>2, <2>4, Zenon DEF Begun
  <2>7. Landed(n, flight', bucket')
    <3>1. ~q.landed BY <1>1, <2>2, Zenon DEF RequestOK, Landed, Shaped
    <3>2. QED BY <2>4, <3>1, Zenon DEF Landed
  <2>8. RequestOK(n, flight', bucket') BY <2>4, <2>5, <2>6, <2>7, Zenon DEF RequestOK
  <2>9. \A x \in Requests : RequestOK(req'[x], flight', bucket')
    BY <1>0, <1>1, <2>1, <2>3, <2>8, Undisturbed DEF Awaited, OthersSame, n
  <2>10. QED BY <1>0, <2>1, <2>3, <2>9 DEF IInv, Resumed, Awaited, OthersSame
<1>6. QED BY <1>0, <1>4, <1>5 DEF Resumed

\* A request arrives: answered from the cache, or it waits for its target.
Started(r, o) ==
    LET n == req'[r] IN
    /\ OthersSame(r) /\ n.target = o /\ n.got = None /\ n.seen = FALSE
    /\ n.landed => o \in Bundles /\ bucket[o] # Absent /\ reads[o] = 0
    /\ \/ /\ Live(o) /\ n.waits = None /\ n.reply = Held(o).val /\ n.sure = FALSE
          /\ UNCHANGED <<flight, reads>>
       \/ /\ n.waits = o /\ n.reply = None /\ (n.sure => reads[o] = 0)
          /\ Run(o)

LEMMA StartShape ==
    ASSUME IInv, NEW r \in Requests, NEW o \in Objects, Start(r, o) PROVE Started(r, o)
<1> DEFINE there == o \in Bundles /\ bucket[o] # Absent /\ reads[o] = 0
           free == reads[o] = 0
           new == [NoRequest EXCEPT !.target = o, !.landed = there]
           hit == [new EXCEPT !.reply = Held(o).val]
           miss == [new EXCEPT !.waits = o, !.sure = free]
<1>0. req = [q \in Requests |-> req[q]] BY DEF IInv
<1>1. there \in BOOLEAN /\ free \in BOOLEAN OBVIOUS
<1>2. /\ Live(o) => req' = [req EXCEPT ![r] = hit] /\ UNCHANGED <<flight, reads>>
      /\ ~Live(o) => req' = [req EXCEPT ![r] = miss] /\ Run(o)
  BY Zenon DEF Start
<1>3. /\ NoRequest = [f \in FieldNames |-> NoRequest[f]] /\ NoRequest.waits = None
      /\ NoRequest.got = None /\ NoRequest.sure = FALSE /\ NoRequest.seen = FALSE
      /\ NoRequest.reply = None
  BY DEF NoRequest, FieldNames
<1>4. there => o \in Bundles /\ bucket[o] # Absent /\ reads[o] = 0 OBVIOUS
<1>5. free => reads[o] = 0 OBVIOUS
<1> HIDE DEF there, free
<1>6. /\ new = [f \in FieldNames |-> new[f]] /\ new.target = o /\ new.landed = there
      /\ new.waits = None /\ new.got = None /\ new.sure = FALSE /\ new.seen = FALSE
      /\ new.reply = None
  BY <1>3, Zenon DEF FieldNames
<1> HIDE DEF new
<1>7. /\ hit = [f \in FieldNames |-> hit[f]] /\ hit.target = o /\ hit.landed = there
      /\ hit.waits = None /\ hit.got = None /\ hit.sure = FALSE /\ hit.seen = FALSE
      /\ hit.reply = Held(o).val
  BY <1>6 DEF FieldNames
<1>8. /\ miss = [f \in FieldNames |-> miss[f]] /\ miss.target = o /\ miss.landed = there
      /\ miss.waits = o /\ miss.got = None /\ miss.sure = free /\ miss.seen = FALSE
      /\ miss.reply = None
  BY <1>6, Zenon DEF FieldNames
<1> HIDE DEF hit, miss
<1>9. Shaped(hit) /\ Shaped(miss) BY <1>1, <1>7, <1>8, Zenon DEF Shaped
<1>10. CASE Live(o)
  <2>1. req'[r] = hit /\ OthersSame(r) BY <1>0, <1>2, <1>9, <1>10 DEF OthersSame
  <2>2. QED BY <1>2, <1>4, <1>7, <1>10, <2>1 DEF Started
<1>11. CASE ~Live(o)
  <2>1. req'[r] = miss /\ OthersSame(r) BY <1>0, <1>2, <1>9, <1>11 DEF OthersSame
  <2>2. QED BY <1>2, <1>4, <1>5, <1>8, <1>11, <2>1 DEF Started
<1>12. QED BY <1>10, <1>11

LEMMA StartKeeps ==
    ASSUME IInv, NEW r \in Requests, NEW o \in Objects, Start(r, o) PROVE IInv'
<1> DEFINE n == req'[r]
<1>0. Started(r, o) /\ UNCHANGED bucket /\ cache' = Touched(o) BY StartShape, Zenon DEF Start
<1>1. CacheOK(cache') BY <1>0, TouchedOK, Zenon DEF IInv
<1>2. FlightOK' /\ \A x \in Objects : flight'[x] \in {flight[x], Reading}
  BY <1>0, RunFacts DEF Started, IInv, FlightOK
<1>3. Shaped(n) /\ n.target = o /\ n.got = None BY <1>0 DEF Started, OthersSame
<1>4. o # None BY ProxyAssumption, Zenon
<1>5. CASE /\ Live(o) /\ n.waits = None /\ n.reply = Held(o).val /\ n.sure = FALSE
  <2> HIDE DEF n
  <2>1. Waiting(n) BY <1>3, <1>5 DEF Waiting, IInv, CacheOK, Live, Held, Objects
  <2>2. Begun(n, flight') BY <1>5, Zenon DEF Begun
  <2>3. n.landed => o \in Bundles BY <1>0, Zenon DEF Started, n
  <2>4. Landed(n, flight', bucket')
    BY <1>3, <1>5, <2>3, Zenon DEF Landed, IInv, CacheOK, Live, Held
  <2>5. QED BY <1>0, <1>1, <1>2, <1>3, <2>1, <2>2, <2>4, Undisturbed, Zenon
            DEF IInv, RequestOK, Started, OthersSame, n
<1>6. CASE n.waits = o /\ n.reply = None /\ (n.sure => reads[o] = 0) /\ Run(o)
  <2>1. reads[o] = 0 => flight'[o] = Reading BY <1>0, <1>6, RunFacts DEF IInv, FlightOK
  <2>2. n.landed => o \in Bundles /\ bucket'[o] # Absent /\ flight'[o] = Reading
    BY <1>0, <2>1, Zenon DEF Started
  <2> HIDE DEF n
  <2>3. Waiting(n) BY <1>3, <1>4, <1>6, Zenon DEF Waiting
  <2>4. Begun(n, flight') BY <1>3, <1>4, <1>6, <2>1, Zenon DEF Begun
  <2>5. Landed(n, flight', bucket') BY <1>3, <1>6, <2>2, ProxyAssumption DEF Landed
  <2>6. QED BY <1>0, <1>1, <1>2, <1>3, <2>3, <2>4, <2>5, Undisturbed
            DEF IInv, RequestOK, Started, OthersSame, n
<1>7. QED BY <1>0, <1>5, <1>6, Zenon DEF Started

LEMMA UpstreamKeeps == ASSUME IInv, NEW o \in Objects, Upstream(o) PROVE IInv'
<1>1. PICK v \in {bucket[o], Fault} : flight' = [flight EXCEPT ![o] = v] BY Zenon DEF Upstream
<1>2. v # None /\ v \in Content(o) \cup {Absent, Fault} /\ flight[o] = Reading
  BY ProxyAssumption DEF IInv, FlightOK, Upstream
<1>3. UNCHANGED <<bucket, cache, reads>> BY DEF Upstream
<1>4. IsMap(flight') /\ flight'[o] = v /\ \A x \in Objects \ {o} : flight'[x] = flight[x]
  BY <1>1 DEF IInv, FlightOK, IsMap
<1>5. FlightOK' BY <1>2, <1>3, <1>4, ProxyAssumption DEF IInv, FlightOK
<1>6. ASSUME NEW r \in Requests PROVE RequestOK(req'[r], flight', bucket')
  <2> DEFINE q == req[r]
             asked == q.seen \/ (q.sure /\ q.waits = o)
             n == [q EXCEPT !.seen = asked]
  <2>1. req'[r] = n BY DEF Upstream
  <2>2. RequestOK(q, flight, bucket) /\ Shaped(q) BY DEF IInv, RequestOK
  <2>3. asked \in BOOLEAN /\ (asked => q.seen \/ q.waits = o)
        /\ (~asked /\ q.sure => ~q.seen /\ q.waits # o)
    BY <2>2 DEF Shaped
  <2> HIDE DEF q, asked
  <2>4. /\ n = [f \in FieldNames |-> n[f]] /\ n.target = q.target /\ n.waits = q.waits
        /\ n.reply = q.reply /\ n.landed = q.landed /\ n.sure = q.sure /\ n.seen = asked
        /\ n.got = q.got
    BY <2>2 DEF Shaped, FieldNames
  <2> HIDE DEF n
  <2>5. Shaped(n) BY <2>2, <2>3, <2>4 DEF Shaped
  <2>6. Waiting(n) BY <2>2, <2>4, Zenon DEF RequestOK, Waiting
  <2>7. Begun(n, flight') BY <1>4, <2>2, <2>3, <2>4 DEF RequestOK, Waiting, Begun
  <2>8. Landed(n, flight', bucket')
    BY <1>1, <1>3, <1>4, <2>2, <2>4, ProxyAssumption DEF RequestOK, Waiting, Landed, Objects
  <2>9. QED BY <2>1, <2>5, <2>6, <2>7, <2>8 DEF RequestOK
<1>7. req' = [r \in Requests |-> req'[r]] BY DEF Upstream
<1>8. QED BY <1>3, <1>5, <1>6, <1>7 DEF IInv

LEMMA SettleKeeps == ASSUME IInv, NEW o \in Objects, Settle(o) PROVE IInv'
<1> DEFINE v == flight[o]
<1>1. v \in Content(o) \cup {Absent, Fault} /\ v # None /\ v # Reading
  BY DEF IInv, FlightOK, Settle
<1>2. /\ UNCHANGED <<bucket, cache>> /\ flight' = [flight EXCEPT ![o] = None]
      /\ reads' = [reads EXCEPT ![o] = 0]
  BY DEF Settle
<1>3. /\ IsMap(flight') /\ flight'[o] = None /\ \A x \in Objects \ {o} : flight'[x] = flight[x]
      /\ IsMap(reads') /\ reads'[o] = 0 /\ \A x \in Objects \ {o} : reads'[x] = reads[x]
  <2>1. IsMap(flight) /\ IsMap(reads) BY DEF IInv, FlightOK
  <2>2. IsMap(flight') /\ flight'[o] = None /\ \A x \in Objects \ {o} : flight'[x] = flight[x]
    BY <1>2, <2>1 DEF IsMap
  <2>3. IsMap(reads') /\ reads'[o] = 0 /\ \A x \in Objects \ {o} : reads'[x] = reads[x]
    BY <1>2, <2>1 DEF IsMap
  <2>4. QED BY <2>2, <2>3
<1>4. FlightOK' BY <1>2, <1>3 DEF IInv, FlightOK
<1>5. ASSUME NEW r \in Requests PROVE RequestOK(req'[r], flight', bucket')
  <2> DEFINE q == req[r]
             n == [q EXCEPT !.got = v]
  <2>1. RequestOK(q, flight, bucket) /\ Shaped(q) BY DEF IInv, RequestOK
  <2>2. CASE q.waits # o
    <3>1. req'[r] = q BY <2>2 DEF Settle
    <3> HIDE DEF q
    <3>2. Begun(q, flight') BY <1>3, <2>1, <2>2 DEF RequestOK, Waiting, Begun
    <3>3. Landed(q, flight', bucket')
      BY <1>2, <1>3, <2>1, <2>2, ProxyAssumption DEF RequestOK, Waiting, Landed, Objects
    <3>4. QED BY <2>1, <3>1, <3>2, <3>3 DEF RequestOK
  <2>3. CASE q.waits = o
    <3>1. req'[r] = n BY <2>3 DEF Settle
    <3> HIDE DEF q
    <3>2. /\ n = [f \in FieldNames |-> n[f]] /\ n.target = q.target /\ n.waits = q.waits
          /\ n.reply = q.reply /\ n.landed = q.landed /\ n.sure = q.sure /\ n.seen = q.seen
          /\ n.got = v
      BY <2>1 DEF Shaped, FieldNames
    <3> HIDE DEF n
    <3>3. Shaped(n) BY <2>1, <3>2 DEF Shaped
    <3>4. o # None BY ProxyAssumption, Zenon
    <3>5. Waiting(n) BY <1>1, <2>1, <2>3, <3>2, <3>4, Zenon DEF RequestOK, Waiting
    <3>6. Begun(n, flight') BY <1>1, <2>1, <2>3, <3>2, Zenon DEF RequestOK, Begun
    <3>7. Landed(n, flight', bucket')
      BY <1>2, <1>3, <2>1, <2>3, <3>2, <3>4, ProxyAssumption DEF RequestOK, Landed
    <3>8. QED BY <3>1, <3>3, <3>5, <3>6, <3>7 DEF RequestOK
  <2>4. QED BY <2>2, <2>3
<1>6. req' = [r \in Requests |-> req'[r]] BY DEF Settle
<1>7. QED BY <1>2, <1>4, <1>5, <1>6, Zenon DEF IInv

LEMMA PublishKeeps == ASSUME IInv, NEW o \in Objects, Publish(o) PROVE IInv'
<1>1. PICK v \in Content(o) : bucket' = [bucket EXCEPT ![o] = v] BY Zenon DEF Publish
<1>2. UNCHANGED <<cache, flight, reads, req>> BY DEF Publish
<1>3. IsMap(bucket') /\ bucket'[o] = v /\ \A x \in Objects \ {o} : bucket'[x] = bucket[x]
  BY <1>1 DEF IInv, FlightOK, IsMap
<1>4. v # Absent BY ProxyAssumption
<1>5. FlightOK' BY <1>2, <1>3 DEF IInv, FlightOK
<1>6. \A r \in Requests : RequestOK(req'[r], flight', bucket')
  BY <1>2, <1>3, <1>4, Undisturbed DEF IInv
<1>7. QED BY <1>2, <1>5, <1>6 DEF IInv

LEMMA ClockKeeps == ASSUME IInv, Clock PROVE IInv'
<1> DEFINE aged(o) == [Held(o) EXCEPT !.left = @ - 1]
<1>1. UNCHANGED <<bucket, flight, reads, req>> BY DEF Clock
<1>2. /\ IsMap(cache'.held)
      /\ \A o \in Objects : cache'.held[o] = IF Live(o) THEN aged(o) ELSE Held(o)
  BY DEF Clock, IsMap
<1>3. ASSUME NEW o \in Objects, cache'.held[o] # None
      PROVE  /\ Held(o) # None /\ cache'.held[o].val = Held(o).val
             /\ cache'.held[o] = [val |-> cache'.held[o].val, left |-> cache'.held[o].left]
  <2>1. Held(o) # None BY <1>2, <1>3, Zenon DEF Live, Held
  <2>2. Held(o) = [val |-> Held(o).val, left |-> Held(o).left] BY <2>1 DEF IInv, CacheOK, Held
  <2>3. aged(o).val = Held(o).val /\ aged(o) = [val |-> aged(o).val, left |-> aged(o).left]
    BY <2>2
  <2>4. QED BY <1>2, <2>1, <2>2, <2>3, Zenon
<1>4. CacheOK(cache') BY <1>2, <1>3, Zenon DEF IInv, CacheOK, Held, Objects
<1>5. FlightOK' BY <1>1 DEF IInv, FlightOK
<1>6. QED BY <1>1, <1>4, <1>5 DEF IInv

LEMMA InitOK == Init => IInv
<1> SUFFICES ASSUME Init PROVE IInv OBVIOUS
<1>1. CacheOK(cache) BY DEF Init, CacheOK, IsMap, Objects
<1>2. IsMap(bucket) /\ \A o \in Objects : bucket[o] \in Content(o) \cup {Absent}
  <2>1. CASE bucket = [o \in Objects |-> Absent] BY <2>1 DEF IsMap
  <2>2. CASE bucket = Build
    <3>1. IsMap(bucket) BY <2>2 DEF Build, IsMap
    <3> DEFINE v == CHOOSE v \in Versions : TRUE
               b == CHOOSE b \in Bundles : TRUE
    <3>2. v \in Versions /\ (Entries # {} => b \in Bundles) BY ProxyAssumption
    <3> HIDE DEF v, b
    <3>3. ASSUME NEW o \in Objects PROVE bucket[o] \in Content(o)
      <4>1. CASE o \in Entries
        <5>1. bucket[o] = [bundle |-> b, claims |-> v] BY <2>2, <4>1, Zenon DEF Build, b, v
        <5>2. QED BY <3>2, <4>1, <5>1 DEF Content, IndexEntry
      <4>2. CASE o \in Bundles /\ o \notin Entries BY <2>2, <4>2 DEF Build, Content
      <4>3. CASE o \notin Entries /\ o \notin Bundles
        <5>1. bucket[o] = v BY <2>2, <4>3, Zenon DEF Build, v
        <5>2. QED BY <3>2, <4>3, <5>1 DEF Content
      <4>4. QED BY <4>1, <4>2, <4>3, Zenon
    <3>4. QED BY <3>1, <3>3
  <2>3. QED BY <2>1, <2>2 DEF Init
<1>3. FlightOK BY <1>2, Zenon DEF Init, FlightOK, IsMap
<1>4. /\ NoRequest = [f \in FieldNames |-> NoRequest[f]] /\ NoRequest.waits = None
      /\ NoRequest.got = None /\ NoRequest.sure = FALSE /\ NoRequest.seen = FALSE
      /\ NoRequest.reply = None /\ NoRequest.landed = FALSE /\ NoRequest.target = None
  BY Zenon DEF NoRequest, FieldNames
<1>5. Shaped(NoRequest) /\ Waiting(NoRequest) BY <1>4, Zenon DEF Shaped, Waiting
<1>6. Begun(NoRequest, flight) /\ Landed(NoRequest, flight, bucket) BY <1>4 DEF Begun, Landed
<1>7. req = [r \in Requests |-> req[r]] /\ \A r \in Requests : req[r] = NoRequest BY DEF Init
<1>8. QED BY <1>1, <1>3, <1>5, <1>6, <1>7 DEF IInv, RequestOK

\* Whatever is read, cached or published while requests wait, the cache matches
\* entries with contexts, each object has at most one read in flight, and a request
\* is where its last step left it.
THEOREM ProxyInvariant == Spec => []IInv
<1>1. IInv /\ [Next]_vars => IInv'
  <2> SUFFICES ASSUME IInv, [Next]_vars PROVE IInv' OBVIOUS
  <2>1. CASE UNCHANGED vars BY <2>1 DEF vars, IInv, FlightOK
  <2>2. QED BY <2>1, StartKeeps, ResumeKeeps, UpstreamKeeps, SettleKeeps, PublishKeeps, ClockKeeps
            DEF Next
<1>2. QED BY <1>1, InitOK, PTL DEF Spec

\* Concurrent misses share one read, and a request that began a read is answered from
\* that read or a later one (single-flight.ts, server.ts handleProxy).
THEOREM FlightsAreShared == Spec => []FlightsShared
<1>1. IInv => FlightsShared
  <2> SUFFICES ASSUME IInv PROVE FlightsShared OBVIOUS
  <2>1. \A o \in Objects : reads[o] <= 1 BY DEF IInv, FlightOK
  <2>2. \A r \in Requests : req[r].sure /\ req[r].reply # None => req[r].seen
    BY DEF IInv, RequestOK, Begun
  <2>3. QED BY <2>1, <2>2 DEF FlightsShared
<1>2. QED BY <1>1, ProxyInvariant, PTL

\* No answer and nothing in the cache joins an entry with another build's context.
THEOREM BuildsNeverMix == Spec => []NeverMixed
<1>1. IInv => NeverMixed BY Zenon DEF IInv, CacheOK, RequestOK, Waiting, Matched, Held, NeverMixed
<1>2. QED BY <1>1, ProxyInvariant, PTL

\* A leaf that was there when it was asked for is never answered by a 404.
THEOREM LandedLeavesAreFound == Spec => []LandedLeafFound
<1>1. IInv => LandedLeafFound BY Zenon DEF IInv, RequestOK, Landed, LandedLeafFound
<1>2. QED BY <1>1, ProxyInvariant, PTL
-----------------------------------------------------------------------------
\* The rate limiter before handleProxy.  A bucket pays for what it grants out of its
\* burst and of the time its own clock has seen (Paid); an address without a bucket
\* still satisfies it, so that nothing need be known of the order of the Map.

CONSTANTS Ips, Burst, Refill, Cost, MaxIps, Times
VARIABLES order, tokens, last, now, born, granted

Limiter == INSTANCE RateLimiter

\* Type correctness: tokens may be negative, once the clock was set back.
THEOREM LimiterTypeCorrect ==
    ASSUME Limiter!Limits
    PROVE  Limiter!Spec => []Limiter!TypeOK
<1> USE DEF Limiter!Limits
<1>1. Limiter!Init => Limiter!TypeOK
  BY DEF Limiter!Init, Limiter!TypeOK
<1>2. Limiter!TypeOK /\ [Limiter!Next]_Limiter!vars => Limiter!TypeOK'
  <2> SUFFICES ASSUME Limiter!TypeOK, [Limiter!Next]_Limiter!vars PROVE Limiter!TypeOK'
    BY ZenonT(30)
  <2>1. ASSUME NEW ip \in Ips, Limiter!Allow(ip) PROVE Limiter!TypeOK'
    BY <2>1 DEF Limiter!TypeOK, Limiter!Allow, Limiter!Enough, Limiter!Have, Limiter!Filled,
                Limiter!Least
  <2>2. CASE Limiter!Clock
    BY <2>2, ZenonT(30) DEF Limiter!TypeOK, Limiter!Clock
  <2>3. CASE UNCHANGED Limiter!vars
    BY <2>3, Zenon DEF Limiter!TypeOK, Limiter!vars
  <2> QED
    BY <2>1, <2>2, <2>3, ZenonT(30) DEF Limiter!Next
<1> QED
  BY <1>1, <1>2, PTL DEF Limiter!Spec

\* Time that has passed twice is refilled twice: what allow() adds to a bucket is
\* what moves the bound of Paid.
LEMMA RefillAdds ==
    ASSUME NEW r \in Int, NEW a \in Int, NEW b \in Int, NEW c \in Int
    PROVE  (a - b) * r + r * (b - c) = r * (a - c)
BY Z3

\* A step of allow() keeps Paid, for the address asked and for every other.
LEMMA AllowPays ==
    ASSUME Limiter!Limits, Limiter!TypeOK, Limiter!Paid, NEW ip \in Ips, Limiter!Allow(ip)
    PROVE  Limiter!Paid'
<1> USE DEF Limiter!Limits
<1> DEFINE have == Limiter!Have(ip)
           before == IF Limiter!Known(ip) THEN granted[ip] ELSE 0
<1>1. /\ tokens'[ip] = IF have >= Cost THEN have - Cost ELSE have
      /\ granted'[ip] = IF have >= Cost THEN before + 1 ELSE before
      /\ last'[ip] = now
      /\ born'[ip] = IF Limiter!Known(ip) THEN born[ip] ELSE now
  BY ZenonT(30) DEF Limiter!Allow, Limiter!Enough, Limiter!TypeOK
<1>2. /\ have \in Int /\ before \in Nat /\ have <= Burst
      /\ Cost * before \in Int /\ Cost * (before + 1) = Cost * before + Cost
  BY DEF Limiter!TypeOK, Limiter!Have, Limiter!Filled, Limiter!Least
<1>3. have + Cost * before <= Burst + Refill * (last'[ip] - born'[ip])
  <2>1. CASE Limiter!Known(ip)
    <3>1. tokens[ip] + Cost * granted[ip] <= Burst + Refill * (last[ip] - born[ip])
      BY Zenon DEF Limiter!Paid
    <3>2. have <= tokens[ip] + (now - last[ip]) * Refill
      BY <2>1 DEF Limiter!TypeOK, Limiter!Have, Limiter!Filled, Limiter!Least
    <3>3. (now - last[ip]) * Refill + Refill * (last[ip] - born[ip]) = Refill * (now - born[ip])
      BY RefillAdds, SMTT(30), ZenonT(30) DEF Limiter!TypeOK
    <3> QED
      BY <1>1, <1>2, <2>1, <3>1, <3>2, <3>3, SMTT(30), ZenonT(30) DEF Limiter!TypeOK
  <2>2. CASE ~Limiter!Known(ip)
    BY <1>1, <2>2, SMTT(30), ZenonT(30) DEF Limiter!TypeOK, Limiter!Have
  <2> QED
    BY <2>1, <2>2, SMTT(30), ZenonT(30)
<1>4. tokens'[ip] <= Burst
  BY <1>1, <1>2, SMTT(30), ZenonT(30)
<1> HIDE DEF have, before
<1>5. tokens'[ip] + Cost * granted'[ip] = have + Cost * before
  <2>1. CASE have >= Cost
    <3>1. tokens'[ip] = have - Cost /\ granted'[ip] = before + 1
      BY <1>1, <2>1, SMTT(30), ZenonT(30)
    <3>2. tokens'[ip] + Cost * granted'[ip] = (have - Cost) + (Cost * before + Cost)
      BY <1>2, <3>1, SMTT(30), ZenonT(30)
    <3> QED BY <1>2, <3>2, SMTT(30), ZenonT(30)
  <2>2. CASE ~(have >= Cost) BY <1>1, <2>2, SMTT(30), ZenonT(30)
  <2> QED BY <2>1, <2>2, ZenonT(30)
<1>6. ASSUME NEW j \in Ips \ {ip}
      PROVE  /\ tokens'[j] = tokens[j] /\ granted'[j] = granted[j]
             /\ last'[j] = last[j] /\ born'[j] = born[j]
  BY Zenon DEF Limiter!Allow, Limiter!TypeOK
<1> QED
  BY <1>3, <1>4, <1>5, <1>6, ZenonT(30) DEF Limiter!Paid

\* Every bucket pays for what it grants (rate-limiter.ts:45 allow).
THEOREM PaidAlways ==
    ASSUME Limiter!Limits
    PROVE  Limiter!Spec => []Limiter!Paid
<1> USE DEF Limiter!Limits
<1>1. Limiter!Init => Limiter!Paid
  BY DEF Limiter!Init, Limiter!Paid
<1>2. Limiter!TypeOK /\ Limiter!Paid /\ [Limiter!Next]_Limiter!vars => Limiter!Paid'
  <2> SUFFICES ASSUME Limiter!TypeOK, Limiter!Paid, [Limiter!Next]_Limiter!vars
               PROVE  Limiter!Paid'
    BY Zenon
  <2>1. ASSUME NEW ip \in Ips, Limiter!Allow(ip) PROVE Limiter!Paid'
    BY <2>1, AllowPays, ZenonT(30)
  <2>2. CASE Limiter!Clock
    BY <2>2, ZenonT(30) DEF Limiter!Paid, Limiter!Clock
  <2>3. CASE UNCHANGED Limiter!vars
    BY <2>3 DEF Limiter!Paid, Limiter!vars
  <2> QED
    BY <2>1, <2>2, <2>3, ZenonT(30) DEF Limiter!Next
<1> QED
  BY <1>1, <1>2, LimiterTypeCorrect, PTL DEF Limiter!Spec

\* The requests allowed since a bucket was made cost no more than the burst and the
\* refill of the time since (rate-limiter.ts:45 allow).
THEOREM RateIsCapped ==
    ASSUME Limiter!Limits
    PROVE  Limiter!Spec => Limiter!RateCapped
<1> USE DEF Limiter!Limits
<1> DEFINE Capped ==
      \A ip \in Ips :
          Limiter!Allow(ip) /\ Limiter!Enough(ip)
          => Cost * granted'[ip] <= Burst + Refill * (now - born'[ip])
<1>1. Limiter!TypeOK /\ Limiter!TypeOK' /\ Limiter!Paid /\ [Limiter!Next]_Limiter!vars
      => [Capped]_Limiter!vars
  <2> SUFFICES ASSUME Limiter!TypeOK, Limiter!TypeOK', Limiter!Paid, NEW ip \in Ips,
                      Limiter!Allow(ip), Limiter!Enough(ip)
               PROVE  Cost * granted'[ip] <= Burst + Refill * (now - born'[ip])
    BY ZenonT(30)
  <2>1. tokens'[ip] + Cost * granted'[ip] <= Burst + Refill * (last'[ip] - born'[ip])
    BY AllowPays, SMTT(30), ZenonT(30) DEF Limiter!Paid
  <2>2. last'[ip] = now /\ tokens'[ip] >= 0
    BY DEF Limiter!Allow, Limiter!Enough, Limiter!Have, Limiter!Filled, Limiter!Least,
           Limiter!TypeOK
  <2>3. /\ Cost * granted'[ip] \in Int /\ Refill * (now - born'[ip]) \in Int
        /\ tokens'[ip] \in Int
    BY DEF Limiter!TypeOK
  <2> QED
    BY <2>1, <2>2, <2>3, SMTT(30), ZenonT(30)
<1> QED
  BY <1>1, LimiterTypeCorrect, PaidAlways, PTL DEF Limiter!Spec, Limiter!RateCapped
=============================================================================
