--------------------------- MODULE RegistryProxy ----------------------------
(***************************************************************************)
(* registry-api: handleProxy of server.ts over the object cache (cache.ts),*)
(* the single-flight map (single-flight.ts) and a bucket that a publisher  *)
(* writes object by object (external).  An index entry may refer to a      *)
(* bundle, a leaf named by its hash, and to a context, whose name stays    *)
(* while its content changes with a rebuild; the entry's own hash tells    *)
(* which version of the context it was built with.  Between two awaits the *)
(* server runs alone: continuations come before the next event.            *)
(***************************************************************************)
EXTENDS Naturals, Sequences

CONSTANTS
    Requests,        \* connections, each with at most one request
    Entries,         \* objects under index/by-callkey
    Bundles,         \* content-addressed leaves
    Context,         \* the context object
    Versions,        \* its contents
    MaxEntries,      \* entries of the cache
    Ttl, NegTtl,     \* lifetime of a cached object and of a cached 404
    MaxPublishes,    \* bound on the writes of the publisher
    None, Reading, Absent, Fault, Leaf, NoBundle, NoContext

VARIABLES
    bucket,     \* content of the objects, or Absent
    cache,      \* ObjectCache.entries: the keys, least recently used first, and what they map to
    flight,     \* SingleFlight.inflight: None, Reading or what was read
    reads,      \* reads of an object that have not been answered
    req,        \* the requests
    published   \* writes of the publisher so far

vars == <<bucket, cache, flight, reads, req, published>>

Objects == Entries \cup Bundles \cup {Context}

\* Contents.  A plain entry has no bundle.
IndexEntry ==
    [bundle : Bundles, claims : Versions \cup {NoContext}]
        \cup [bundle : {NoBundle}, claims : {NoContext}]
Content(o) ==
    IF o \in Entries THEN IndexEntry ELSE IF o \in Bundles THEN {Leaf} ELSE Versions

\* The paths tell the kinds of objects apart, and what stands for no content is none.
ASSUME ProxyAssumption ==
    /\ Entries \cap Bundles = {} /\ Context \notin Entries \cup Bundles
    /\ Bundles # {} /\ Versions # {} /\ None \notin Objects /\ NoBundle \notin Bundles
    /\ \A o \in Objects : {None, Reading, Absent, Fault} \cap Content(o) = {}
    /\ None \notin {Reading, Absent, Fault} /\ Reading \notin {Absent, Fault} /\ Absent # Fault

NoRequest ==
    [target |-> None, waits |-> None, got |-> None, entry |-> None,
     sure |-> FALSE, landed |-> FALSE, seen |-> FALSE, reply |-> None]

-----------------------------------------------------------------------------
\* ObjectCache.

Others(m, o) == SelectSeq(m.order, LAMBDA k : k # o)
Live(o) == cache.held[o] # None /\ cache.held[o].left > 0
Held(o) == cache.held[o]
Dropped(o) == [order |-> Others(cache, o), held |-> [cache.held EXCEPT ![o] = None]]

\* Slip: a hit extends the lifetime.
TouchedSliding(o) ==
    IF Live(o) THEN [order |-> Append(Others(cache, o), o),
                     held |-> [cache.held EXCEPT ![o] = [@ EXCEPT !.left = Ttl]]]
    ELSE Dropped(o)

\* The map after get(o): a hit is moved to the end, what has expired is dropped.
Touched(o) ==
    IF Live(o) THEN [order |-> Append(Others(cache, o), o), held |-> cache.held]
    ELSE Dropped(o)

\* The map after set(o, v): the least recently used goes when there is one too many.
Put(m, o, v) ==
    LET order == Append(Others(m, o), o)
        held == [m.held EXCEPT ![o] = [val |-> v, left |-> IF v = Absent THEN NegTtl ELSE Ttl]]
    IN IF Len(order) > MaxEntries
       THEN [order |-> Tail(order), held |-> [held EXCEPT ![Head(order)] = None]]
       ELSE [order |-> order, held |-> held]

-----------------------------------------------------------------------------
\* SingleFlight.run: join the read in flight, or start one.
Run(o) ==
    IF flight[o] # None THEN UNCHANGED <<flight, reads>>
    ELSE /\ flight' = [flight EXCEPT ![o] = Reading]
         /\ reads' = [reads EXCEPT ![o] = @ + 1]

\* No continuation is waiting for its turn.
Quiet == \A r \in Requests : req[r].got = None

Reply(r, v) ==
    /\ req' = [req EXCEPT ![r] = [@ EXCEPT !.waits = None, !.got = None, !.entry = None,
                                           !.reply = v]]
    /\ UNCHANGED <<flight, reads>>

Await(r, o, e) ==
    /\ req' = [req EXCEPT ![r] = [@ EXCEPT !.waits = o, !.got = None, !.entry = e]]
    /\ Run(o)

\* A request arrives and looks into the cache.
Start(r, o) ==
    LET new == [NoRequest EXCEPT !.target = o,
                                 !.landed = o \in Bundles /\ bucket[o] # Absent /\ reads[o] = 0]
    IN /\ Quiet /\ req[r].waits = None
       /\ cache' = Touched(o)
       /\ IF Live(o)
          THEN /\ req' = [req EXCEPT ![r] = [new EXCEPT !.reply = Held(o).val]]
               /\ UNCHANGED <<flight, reads>>
          ELSE /\ req' = [req EXCEPT ![r] = [new EXCEPT !.waits = o, !.sure = reads[o] = 0]]
               /\ Run(o)
       /\ UNCHANGED <<bucket, published>>

\* GcsObjectReader.read: what the bucket holds at some time of the read, or an error.
Upstream(o) ==
    /\ flight[o] = Reading
    /\ \E v \in {bucket[o], Fault} : flight' = [flight EXCEPT ![o] = v]
    /\ req' = [r \in Requests |->
                 [req[r] EXCEPT !.seen = @ \/ (req[r].sure /\ req[r].waits = o)]]
    /\ UNCHANGED <<bucket, cache, reads, published>>

\* Slip: a failed read stays in the map.
SettleKeepsFault(o) ==
    /\ Quiet /\ flight[o] \notin {None, Reading}
    /\ req' = [r \in Requests |->
                 IF req[r].waits = o THEN [req[r] EXCEPT !.got = flight[o]] ELSE req[r]]
    /\ flight' = IF flight[o] = Fault THEN flight ELSE [flight EXCEPT ![o] = None]
    /\ reads' = [reads EXCEPT ![o] = 0]
    /\ UNCHANGED <<bucket, cache, published>>

\* Slip: one of the callers is answered.
SettleOne(o) ==
    /\ Quiet /\ flight[o] \notin {None, Reading}
    /\ \E r \in Requests :
          /\ req[r].waits = o
          /\ req' = [req EXCEPT ![r].got = flight[o]]
    /\ flight' = [flight EXCEPT ![o] = None]
    /\ reads' = [reads EXCEPT ![o] = 0]
    /\ UNCHANGED <<bucket, cache, published>>

\* The read settles: it leaves the map, and all who share it go on.
Settle(o) ==
    /\ Quiet /\ flight[o] \notin {None, Reading}
    /\ req' = [r \in Requests |->
                 IF req[r].waits = o THEN [req[r] EXCEPT !.got = flight[o]] ELSE req[r]]
    /\ flight' = [flight EXCEPT ![o] = None]
    /\ reads' = [reads EXCEPT ![o] = 0]
    /\ UNCHANGED <<bucket, cache, published>>

-----------------------------------------------------------------------------
\* The continuations of a request; c is the cache as the continuation has left it.

Serve(r, c, v) == cache' = Put(c, req[r].target, v) /\ Reply(r, v)

Failed(r) ==
    /\ req[r].got = Fault \/ (req[r].got = Absent /\ req[r].waits # req[r].target)
    /\ Reply(r, Fault)
    /\ UNCHANGED cache

\* Slip: every 404 is remembered.
MissingCached(r) ==
    /\ req[r].got = Absent /\ req[r].waits = req[r].target
    /\ Serve(r, cache, Absent)

\* A 404: remembered, unless it is that of a leaf, which may be published any moment.
Missing(r) ==
    /\ req[r].got = Absent /\ req[r].waits = req[r].target
    /\ IF req[r].target \in Bundles
       THEN Reply(r, Absent) /\ UNCHANGED cache
       ELSE Serve(r, cache, Absent)

\* The template is there: serve it, or read the context.
HaveBundle(r, c, e) ==
    IF e.claims = NoContext
    THEN Serve(r, c, [entry |-> e, ctx |-> NoContext])
    ELSE cache' = c /\ Await(r, Context, e)

\* The object itself: served as it is, or an entry that needs its bundle.
HaveObject(r) ==
    LET got == req[r].got IN
    /\ got \notin {None, Absent, Fault} /\ req[r].waits = req[r].target
    /\ IF req[r].target \notin Entries THEN Serve(r, cache, got)
       ELSE IF got.bundle = NoBundle THEN Serve(r, cache, [entry |-> got, ctx |-> NoContext])
       ELSE IF Live(got.bundle) THEN HaveBundle(r, Touched(got.bundle), got)
       ELSE cache' = Touched(got.bundle) /\ Await(r, got.bundle, got)

\* readGeneratedJson of a bundle: remembered under its own name.
GotBundle(r) ==
    /\ req[r].got = Leaf /\ req[r].waits # req[r].target
    /\ HaveBundle(r, Put(cache, req[r].waits, Leaf), req[r].entry)

\* Slip: the hash of the materialised bundle is not compared.
GotContextUnchecked(r) ==
    /\ req[r].waits = Context /\ req[r].waits # req[r].target /\ req[r].got \in Versions
    /\ Serve(r, cache, [entry |-> req[r].entry, ctx |-> req[r].got])

\* materializeSourceBundle and assertBundleSha256; a context read for an entry is not
\* remembered, nor is one that was asked for by itself taken from the cache.
GotContext(r) ==
    /\ req[r].waits = Context /\ req[r].waits # req[r].target /\ req[r].got \in Versions
    /\ IF req[r].got = req[r].entry.claims
       THEN Serve(r, cache, [entry |-> req[r].entry, ctx |-> req[r].got])
       ELSE Reply(r, Fault) /\ UNCHANGED cache

Resume(r) ==
    /\ req[r].got # None
    /\ Failed(r) \/ Missing(r) \/ HaveObject(r) \/ GotBundle(r) \/ GotContext(r)
    /\ UNCHANGED <<bucket, published>>

-----------------------------------------------------------------------------
\* The publisher writes one object; leaves are written once and nothing is removed.
Publish(o) ==
    /\ published < MaxPublishes
    /\ \E v \in Content(o) \ {bucket[o]} : bucket' = [bucket EXCEPT ![o] = v]
    /\ published' = published + 1
    /\ UNCHANGED <<cache, flight, reads, req>>

Clock ==
    /\ \E o \in Objects : Live(o)
    /\ cache' = [order |-> cache.order,
                 held |-> [o \in Objects |->
                             IF Live(o) THEN [Held(o) EXCEPT !.left = @ - 1] ELSE Held(o)]]
    /\ UNCHANGED <<bucket, flight, reads, req, published>>

\* Nothing is published, or one complete build.
Build ==
    LET v == CHOOSE v \in Versions : TRUE IN
    [o \in Objects |->
        IF o \in Entries THEN [bundle |-> CHOOSE b \in Bundles : TRUE, claims |-> v]
        ELSE IF o \in Bundles THEN Leaf ELSE v]
Init ==
    /\ bucket \in {[o \in Objects |-> Absent], Build}
    /\ cache = [order |-> <<>>, held |-> [o \in Objects |-> None]]
    /\ flight = [o \in Objects |-> None]
    /\ reads = [o \in Objects |-> 0]
    /\ req = [r \in Requests |-> NoRequest]
    /\ published = 0

Next ==
    \/ \E r \in Requests, o \in Objects : Start(r, o)
    \/ \E r \in Requests : Resume(r)
    \/ \E o \in Objects : Upstream(o) \/ Settle(o) \/ Publish(o)
    \/ Clock

\* Every read is answered or fails, continuations run, and time passes.  Settling is
\* an event that waits for the continuations of others, and the event loop takes its
\* events in turn: strong fairness.  Requests and the publisher owe nothing.
Fairness ==
    /\ \A r \in Requests : WF_vars(Resume(r))
    /\ \A o \in Objects : WF_vars(Upstream(o)) /\ SF_vars(Settle(o))
    /\ WF_vars(Clock)

Spec == Init /\ [][Next]_vars /\ Fairness

-----------------------------------------------------------------------------
\* Concurrent misses of one object make one read of the bucket (single-flight.ts:5),
\* whether the object is asked for or needed for an entry; and a failed read does not
\* wedge its key (single-flight.ts:10): a request that found no read in flight and
\* nothing in the cache is answered from a read made since.
FlightsShared ==
    /\ \A o \in Objects : reads[o] <= 1
    /\ \A r \in Requests : req[r].sure /\ req[r].reply # None => req[r].seen

\* No answer, and nothing in the cache, puts an entry of one build together with the
\* context of another, although the publisher replaces them one by one while they
\* are being read (server.ts:669).
NeverMixed ==
    LET Sound(v) == v.entry.claims = v.ctx IN
    /\ \A o \in Entries : Held(o) # None /\ Held(o).val # Absent => Sound(Held(o).val)
    /\ \A r \in Requests :
          req[r].target \in Entries /\ req[r].reply \notin {None, Absent, Fault}
          => Sound(req[r].reply)

\* A leaf that was there when a request came, with no read of it under way, is never
\* answered by a 404, however recently it was asked for in vain (server.ts:347).
LandedLeafFound ==
    \A r \in Requests :
        req[r].landed => req[r].reply # Absent

\* Every request is answered.
RequestsEnd == \A r \in Requests : req[r].waits # None ~> req[r].waits = None

\* Once the publisher stops, what the cache still serves becomes what the bucket
\* holds, and stays so, for all that late requests store (server.ts:341).
Converges ==
    <>[](\A o \in Objects :
            Live(o) => IF o \in Entries /\ Held(o).val # Absent THEN Held(o).val.entry = bucket[o]
                       ELSE Held(o).val = bucket[o])
=============================================================================
