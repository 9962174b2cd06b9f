------------------------- MODULE VerdictGateProofs --------------------------
(***************************************************************************)
(* Nothing is forwarded that was not cleared, for any number of requests,  *)
(* of any actors, decided in any interleaving.  An "allow" can be in a     *)
(* message, in a result, in a window or in any of the maps that are read   *)
(* and written back whole; wherever it is, its request was cleared.        *)
(* And the pending map is exact while one actor makes the requests: the    *)
(* chain of withActorLock serialises what reads it and writes it back.     *)
(***************************************************************************)
EXTENDS VerdictGate, TLAPS

Kinds == {"awaiting", "allow", "deny"}
Pages == {"idle", "phase1", "phase2", "forwarded", "rejected"}
Statuses == {"none", "pending", "awaiting", "allow", "deny"}
Pairs == Requests \X Statuses
Messages == [id : {PortId(r) : r \in Requests}, kind : Kinds]

Types ==
    /\ page \in [Requests -> Pages]
    /\ choice \in [Requests -> {"none", "allow", "deny"}]
    /\ ok \in [Requests -> BOOLEAN] /\ cleared \in [Requests -> BOOLEAN]
    /\ port \in [Requests -> Seq(Messages)]
    /\ pend \subseteq Pairs /\ store \subseteq Pairs
    /\ held \in [Requests -> SUBSET Pairs] /\ copy \in [Requests -> SUBSET Pairs]

\* The pairs of S that allow a request are of requests that were cleared.
Traced(S) == \A r \in Requests : <<r, "allow">> \in S => cleared[r]

AllowsTraced ==
    /\ \A r \in Requests :
         /\ ok[r] => cleared[r]
         /\ choice[r] = "allow" => cleared[r]
         /\ \A i \in 1 .. Len(port[r]) : port[r][i].kind = "allow" => cleared[r]
         /\ Traced(held[r]) /\ Traced(copy[r])
    /\ Traced(pend) /\ Traced(store)

IInv == Types /\ AllowsTraced /\ OnlyCleared

\* A message on the port of one request leaves the ports of the others, and what was
\* on it.
LEMMA PostTraced ==
    ASSUME IInv, NEW r \in Requests, NEW kind \in Kinds, Post(r, kind),
           kind = "allow" => cleared[r]
    PROVE  /\ port' \in [Requests -> Seq(Messages)]
           /\ \A s \in Requests : \A i \in 1 .. Len(port'[s]) :
                port'[s][i].kind = "allow" => cleared[s]
<1> DEFINE m == [id |-> PortId(r), kind |-> kind]
<1>1. m \in Messages
  BY DEF Messages
<1>2. CASE port' = port
  BY <1>2 DEF IInv, Types, AllowsTraced
<1>3. CASE port' = [port EXCEPT ![r] = Append(port[r], m)]
  <2>1. port[r] \in Seq(Messages)
    BY DEF IInv, Types
  <2>2. /\ Append(port[r], m) \in Seq(Messages)
        /\ Len(Append(port[r], m)) = Len(port[r]) + 1
        /\ \A i \in 1 .. Len(port[r]) + 1 :
             Append(port[r], m)[i] = IF i = Len(port[r]) + 1 THEN m ELSE port[r][i]
    BY <1>1, <2>1
  <2>3. ASSUME NEW s \in Requests, NEW i \in 1 .. Len(port'[s]), port'[s][i].kind = "allow"
        PROVE  cleared[s]
    <3>1. CASE s = r
      <4>1. port'[s] = Append(port[r], m)
        BY <1>3, <3>1 DEF IInv, Types
      <4>2. CASE i = Len(port[r]) + 1
        BY <2>2, <2>3, <3>1, <4>1, <4>2
      <4>3. CASE i # Len(port[r]) + 1
        BY <2>1, <2>2, <2>3, <3>1, <4>1, <4>3 DEF IInv, AllowsTraced
      <4> QED
        BY <4>2, <4>3
    <3>2. CASE s # r
      BY <1>3, <2>3, <3>2 DEF IInv, Types, AllowsTraced
    <3> QED
      BY <3>1, <3>2
  <2> QED
    BY <1>3, <2>2, <2>3 DEF IInv, Types
<1> QED
  BY <1>2, <1>3 DEF Post, Set

\* A verdict reaches the page while it waits, and only an "allow" is forwarded.
LEMMA ReceiveCleared ==
    ASSUME IInv, NEW r \in Requests, NEW kind \in Kinds,
           Receive(r, kind), kind = "allow" => cleared[r], cleared' = cleared
    PROVE  page' \in [Requests -> Pages] /\ OnlyCleared'
<1>1. Phase(kind) \in Pages
  BY DEF Phase, Pages
<1>2. Phase(kind) = "forwarded" => kind = "allow"
  BY DEF Phase
<1> QED
  BY <1>1, <1>2 DEF IInv, Types, OnlyCleared, Receive, Set

\* Writing a record back keeps what was traced, if the record is.
LEMMA StoredTraced ==
    ASSUME NEW S \in SUBSET Pairs, Traced(S), NEW r \in Requests, NEW status \in Statuses,
           status = "allow" => cleared[r]
    PROVE  Stored(S, r, status) \in SUBSET Pairs /\ Traced(Stored(S, r, status))
<1>1. Stored(S, r, status) \in SUBSET Pairs
  BY DEF Stored, Pairs
<1>2. ASSUME NEW s \in Requests, <<s, "allow">> \in Stored(S, r, status)
      PROVE  cleared[s]
  BY <1>2 DEF Stored, Traced
<1> QED
  BY <1>1, <1>2 DEF Traced


\* What is read of the pairs of a request is among those pairs.
LEMMA StatusOf ==
    ASSUME NEW S \in SUBSET Pairs, NEW r \in Requests, NEW status \in Status(S, r)
    PROVE  <<r, status>> \in S /\ status \in Statuses
BY DEF Status, Pairs

\* The steps of a request in its tab.
LEMMA TabCleared ==
    ASSUME IInv, NEW r \in Requests, TabStep(r) \/ Ask(r)
    PROVE  IInv'
<1> USE DEF IInv
<1>1. CASE Ask(r)
  BY <1>1 DEF Ask, Set, Types, Pages, AllowsTraced, Traced, OnlyCleared, worker, window
<1>2. CASE PageTimeout(r)
  BY <1>2, Zenon
    DEF PageTimeout, Set, Types, Pages, AllowsTraced, Traced, OnlyCleared, worker, window
<1>3. CASE Connect(r)
  <2>1. page' \in [Requests -> Pages] /\ OnlyCleared'
    <3>1. CASE Receive(r, "deny")
      BY <1>3, <3>1, ReceiveCleared DEF Connect, Kinds
    <3>2. CASE page' = page
      BY <1>3, <3>2, Zenon DEF Connect, Types, OnlyCleared
    <3> QED
      BY <1>3, <3>1, <3>2 DEF Connect
  <2> QED
    BY <1>3, <2>1 DEF Connect, Types, AllowsTraced, Traced, window
<1>4. CASE BridgeTimeout(r)
  <2>1. page' \in [Requests -> Pages] /\ OnlyCleared'
    BY <1>4, ReceiveCleared DEF BridgeTimeout, Kinds
  <2>2. /\ port' \in [Requests -> Seq(Messages)]
        /\ \A s \in Requests : port'[s] = IF s = r THEN <<>> ELSE port[s]
    BY <1>4 DEF BridgeTimeout, Set, Types
  <2>3. \A s \in Requests : \A i \in 1 .. Len(port'[s]) :
            port'[s][i].kind = "allow" => cleared[s]
    BY <2>2 DEF AllowsTraced
  <2> QED
    BY <1>4, <2>1, <2>2, <2>3 DEF BridgeTimeout, Types, AllowsTraced, Traced, window, worker
<1>5. CASE BridgeMessage(r)
  <2> DEFINE m == Head(port[r])
  <2>1. port[r] \in Seq(Messages) /\ port[r] # <<>>
    BY <1>5 DEF BridgeMessage, Types
  <2>2. m \in Messages /\ m = port[r][1] /\ 1 \in 1 .. Len(port[r])
    BY <2>1
  <2>3. m.kind \in Kinds /\ (m.kind = "allow" => cleared[r])
    BY <2>2 DEF Messages, AllowsTraced
  <2>4. page' \in [Requests -> Pages] /\ OnlyCleared'
    <3>1. CASE Receive(r, m.kind)
      BY <1>5, <2>3, <3>1, ReceiveCleared DEF BridgeMessage
    <3>2. CASE page' = page
      BY <1>5, <3>2 DEF BridgeMessage, Types, OnlyCleared
    <3> QED
      BY <1>5, <3>1, <3>2, Zenon DEF BridgeMessage
  <2>5. /\ Tail(port[r]) \in Seq(Messages)
        /\ Len(Tail(port[r])) = Len(port[r]) - 1
        /\ \A i \in 1 .. Len(Tail(port[r])) : Tail(port[r])[i] = port[r][i + 1]
    BY <2>1
  <2>6. /\ port' \in [Requests -> Seq(Messages)]
        /\ \A s \in Requests : port'[s] = IF s = r THEN Tail(port[r]) ELSE port[s]
    BY <1>5, <2>5 DEF BridgeMessage, Set, Types
  <2>7. ASSUME NEW s \in Requests, NEW i \in 1 .. Len(port'[s]), port'[s][i].kind = "allow"
        PROVE  cleared[s]
    <3>1. CASE s = r
      <4>1. Len(port[r]) \in Nat /\ port'[s] = Tail(port[r])
        BY <2>1, <2>6, <3>1
      <4>2. i \in 1 .. Len(Tail(port[r])) /\ i + 1 \in 1 .. Len(port[r])
        BY <2>5, <4>1
      <4>3. port'[s][i] = port[r][i + 1]
        BY <2>5, <4>1, <4>2
      <4> QED
        BY <2>7, <3>1, <4>2, <4>3 DEF AllowsTraced
    <3>2. CASE s # r
      BY <2>6, <2>7, <3>2, Zenon DEF AllowsTraced
    <3> QED
      BY <3>1, <3>2
  <2> QED
    BY <1>5, <2>4, <2>6, <2>7, Zenon
      DEF BridgeMessage, Types, AllowsTraced, Traced, window, worker
<1> QED
  BY <1>1, <1>2, <1>3, <1>4, <1>5 DEF TabStep

\* The window closes, and reads the decisions once more.
LEMMA ClosingCleared ==
    ASSUME IInv, NEW r \in Requests, Closing(r),
           UNCHANGED <<actor, tab, port, worker, pend, store, cleared>>
    PROVE  IInv'
BY Zenon DEF IInv, Closing, Set, Types, AllowsTraced, Traced, OnlyCleared, tab, worker

\* The service worker takes a decision that was made for this request.
LEMMA SettleCleared ==
    ASSUME IInv, NEW r \in Requests, NEW res \in BOOLEAN, Settle(r, res), res => cleared[r]
    PROVE  IInv'
BY DEF IInv, Settle, Finish, Closing, Set, Types, AllowsTraced, Traced, OnlyCleared, tab

\* The steps of a request in the service worker.
LEMMA WorkerCleared ==
    ASSUME IInv, NEW r \in Requests, SwStep(r)
    PROVE  IInv'
<1> USE DEF IInv
<1>1. CASE Begin(r)
  BY <1>1, Zenon DEF Begin, Set, Types, AllowsTraced, Traced, OnlyCleared, tab, window
<1>2. CASE PendingPut(r)
  <2>1. pend' \in SUBSET Pairs /\ Traced(pend')
    BY <1>2, StoredTraced, Zenon DEF PendingPut, Types, AllowsTraced, Statuses
  <2> QED
    BY <1>2, <2>1, Zenon
      DEF PendingPut, Set, Types, AllowsTraced, Traced, OnlyCleared, tab, window
<1>3. CASE Decide(r)
  <2>1. PICK kind \in {"pass", "warn", "fail"}, scam \in BOOLEAN, modal \in BOOLEAN :
          LET outcome == Outcome(kind, scam, modal) IN
          /\ IF outcome = "review"
             THEN held' = Set(held, r, store) /\ Goto(r, "recording") /\ UNCHANGED ok
             ELSE Finish(r, outcome = "clear")
          /\ cleared' = IF outcome = "clear" THEN Set(cleared, r, TRUE) ELSE cleared
    BY <1>3, Zenon DEF Decide
  <2> DEFINE outcome == Outcome(kind, scam, modal)
  <2>2. /\ cleared' \in [Requests -> BOOLEAN]
        /\ \A s \in Requests : cleared[s] => cleared'[s]
        /\ outcome = "clear" => cleared'[r]
    BY <2>1 DEF Set, Types
  <2>3. CASE outcome = "review"
    <3>1. held' = Set(held, r, store) /\ ok' = ok
      BY <2>1, <2>3
    <3>2. /\ held' \in [Requests -> SUBSET Pairs]
          /\ \A s \in Requests : held'[s] = held[s] \/ held'[s] = store
      BY <3>1 DEF Set, Types
    <3> QED
      BY <1>3, <2>2, <3>1, <3>2, Zenon
      DEF Decide, Types, AllowsTraced, Traced, OnlyCleared, tab, window
  <2>4. CASE outcome # "review"
    <3>1. Finish(r, outcome = "clear")
      BY <2>1, <2>4
    <3>2. /\ ok' \in [Requests -> BOOLEAN]
          /\ \A s \in Requests : ok'[s] => cleared'[s]
      BY <2>2, <3>1 DEF Finish, Set, Types, AllowsTraced
    <3>3. /\ held' \in [Requests -> SUBSET Pairs]
          /\ \A s \in Requests : held'[s] = held[s] \/ held'[s] = pend
      BY <3>1 DEF Finish, Set, Types
    <3> QED
      BY <1>3, <2>2, <3>2, <3>3, Zenon
      DEF Decide, Types, AllowsTraced, Traced, OnlyCleared, tab, window
  <2> QED
    BY <2>3, <2>4
<1>4. CASE Record(r)
  <2>1. store' \in SUBSET Pairs /\ Traced(store')
    BY <1>4, StoredTraced, Zenon DEF Record, Types, AllowsTraced, Statuses
  <2> QED
    BY <1>4, <2>1, Zenon DEF Record, Set, Types, AllowsTraced, Traced, OnlyCleared, tab, window
<1>5. CASE Open(r)
  <2>1. CASE Finish(r, FALSE)
    BY <1>5, <2>1 DEF Open, Finish, Set, Types, AllowsTraced, Traced, OnlyCleared, tab
  <2>2. CASE UNCHANGED <<ok, held>>
    BY <1>5, <2>2, Zenon DEF Open, Types, AllowsTraced, Traced, OnlyCleared, tab
  <2> QED
    BY <1>5, <2>1, <2>2, Zenon DEF Open
<1>6. CASE Listen(r)
  <2>1. /\ port' \in [Requests -> Seq(Messages)]
        /\ \A s \in Requests : \A i \in 1 .. Len(port'[s]) :
             port'[s][i].kind = "allow" => cleared[s]
    BY <1>6, PostTraced, Zenon DEF Listen, Kinds
  <2> QED
    BY <1>6, <2>1, Zenon DEF Listen, Types, AllowsTraced, Traced, OnlyCleared, tab, window
<1>7. CASE PendingDelete(r)
  <2>1. /\ Answer(ok[r]) \in Kinds
        /\ Answer(ok[r]) = "allow" => cleared[r]
    BY DEF Answer, Kinds, AllowsTraced
  <2>2. /\ port' \in [Requests -> Seq(Messages)]
        /\ \A s \in Requests : \A i \in 1 .. Len(port'[s]) :
             port'[s][i].kind = "allow" => cleared[s]
    BY <1>7, <2>1, PostTraced DEF PendingDelete
  <2> QED
    BY <1>7, <2>2, Zenon
    DEF PendingDelete, Leave, Set, Types, AllowsTraced, Traced, OnlyCleared, tab, window
<1>8. CASE Poll(r)
  <2>1. PICK status \in Status(store, r) : Settle(r, status = "allow")
    BY <1>8 DEF Poll
  <2>2. status = "allow" => cleared[r]
    BY StatusOf, Zenon DEF Types, AllowsTraced, Traced
  <2> QED
    BY <2>1, <2>2, SettleCleared, Zenon
<1>9. CASE Deadline(r)
  BY <1>9, SettleCleared, Zenon DEF Deadline
<1>10. CASE StorageFails(r)
  <2> USE DEF Set, Types, AllowsTraced, Traced, OnlyCleared, tab, window
  <2>1. CASE Leave(r, "lost")
    BY <1>10, <2>1 DEF StorageFails, Leave
  <2>2. CASE Finish(r, FALSE)
    BY <1>10, <2>2 DEF StorageFails, Finish
  <2> QED
    BY <1>10, <2>1, <2>2, Zenon DEF StorageFails
<1> QED
  BY <1>1, <1>2, <1>3, <1>4, <1>5, <1>6, <1>7, <1>8, <1>9, <1>10, Zenon DEF SwStep

\* The steps of a request's window, its user's included.
LEMMA WindowCleared ==
    ASSUME IInv, NEW r \in Requests,
           WindowStep(r) \/ Close(r) \/ \E b \in BOOLEAN : Press(r, b)
    PROVE  IInv'
<1> USE DEF IInv
<1>1. ASSUME NEW b \in BOOLEAN, Press(r, b)
      PROVE  IInv'
  <2>1. /\ cleared' \in [Requests -> BOOLEAN] /\ \A q \in Requests : cleared[q] => cleared'[q]
        /\ b => cleared'[r]
    BY <1>1, Zenon DEF Press, Set, Types
  <2>2. /\ choice' \in [Requests -> {"none", "allow", "deny"}]
        /\ \A q \in Requests : choice'[q] = "allow" => choice[q] = "allow" \/ (q = r /\ b)
    <3>1. /\ choice' = [choice EXCEPT ![r] = Answer(b)]
          /\ choice \in [Requests -> {"none", "allow", "deny"}]
          /\ Answer(b) \in {"none", "allow", "deny"} /\ (Answer(b) = "allow" => b)
      BY <1>1 DEF Press, Answer, Set, Types
    <3> QED
      BY <3>1
  <2>3. /\ copy' \in [Requests -> SUBSET Pairs]
        /\ \A q \in Requests : copy'[q] \in {copy[q], store}
    BY <1>1, Zenon DEF Press, Set, Types
  <2>4. UNCHANGED <<page, port, ok, held, pend, store>>
    BY <1>1, Zenon DEF Press, tab, worker
  <2>5. Types'
    BY <2>1, <2>2, <2>3, <2>4, Zenon DEF Types
  <2>6. \A q \in Requests : /\ ok'[q] => cleared'[q]
                            /\ choice'[q] = "allow" => cleared'[q]
                            /\ \A i \in 1 .. Len(port'[q]) :
                                 port'[q][i].kind = "allow" => cleared'[q]
    BY <2>1, <2>2, <2>4, Zenon DEF AllowsTraced
  <2>7. AllowsTraced'
    <3>1. ASSUME NEW q \in Requests
          PROVE  /\ (<<q, "allow">> \in pend' => cleared'[q])
                 /\ (<<q, "allow">> \in store' => cleared'[q])
                 /\ \A p \in Requests : /\ (<<q, "allow">> \in held'[p] => cleared'[q])
                                        /\ (<<q, "allow">> \in copy'[p] => cleared'[q])
      BY <2>1, <2>3, <2>4, Zenon DEF AllowsTraced, Traced
    <3>2. (Traced(pend) /\ Traced(store))'
      BY <3>1 DEF Traced
    <3>3. (\A p \in Requests : Traced(held[p]) /\ Traced(copy[p]))'
      BY <3>1 DEF Traced
    <3> QED
      BY <2>6, <3>2, <3>3, Zenon DEF AllowsTraced, Traced
  <2> QED
    BY <2>1, <2>4, <2>5, <2>7, Zenon DEF OnlyCleared
<1>2. CASE Persist(r)
  <2>1. store' \in SUBSET Pairs /\ Traced(store')
    <3>1. CASE Status(copy[r], r) # {}
      BY <1>2, <3>1, StoredTraced, Zenon DEF Persist, Types, AllowsTraced, Statuses
    <3>2. CASE Status(copy[r], r) = {}
      BY <1>2, <3>2 DEF Persist, Types, AllowsTraced
    <3> QED
      BY <3>1, <3>2, Zenon
  <2> QED
    BY <1>2, <2>1 DEF Persist, Set, Types, AllowsTraced, Traced, OnlyCleared, tab, worker
<1>3. CASE Tell(r)
  <2>1. CASE At(r, "awaiting")
    BY <1>3, <2>1, SettleCleared, Zenon DEF Tell, AllowsTraced
  <2>2. CASE ~At(r, "awaiting")
    BY <1>3, <2>2, ClosingCleared DEF Tell
  <2> QED
    BY <2>1, <2>2
<1>4. CASE Close(r)
  <2>1. CASE At(r, "awaiting")
    BY <1>4, <2>1, SettleCleared, Zenon DEF Close
  <2>2. CASE ~At(r, "awaiting")
    BY <1>4, <2>2, ClosingCleared DEF Close
  <2> QED
    BY <2>1, <2>2
<1>5. CASE Unload(r)
  <2>1. store' \in SUBSET Pairs /\ Traced(store')
    <3>1. CASE store' = store
      BY <3>1, Zenon DEF Types, AllowsTraced
    <3>2. CASE store' = Stored(copy[r], r, "deny")
      BY <3>2, StoredTraced, Zenon DEF Types, AllowsTraced, Statuses
    <3> QED
      BY <1>5, <3>1, <3>2 DEF Unload
  <2> QED
    BY <1>5, <2>1 DEF Unload, Set, Types, AllowsTraced, Traced, OnlyCleared, tab, worker
<1> QED
  BY <1>1, <1>2, <1>3, <1>4, <1>5, Zenon DEF WindowStep

\* Every step keeps the "allow"s with what was cleared.
LEMMA StepCleared == IInv /\ [Next]_vars => IInv'
<1> SUFFICES ASSUME IInv, [Next]_vars
             PROVE  IInv'
  OBVIOUS
<1>1. ASSUME NEW r \in Requests, TabStep(r) \/ SwStep(r) \/ WindowStep(r) \/ UserStep(r)
      PROVE  IInv'
  BY <1>1, TabCleared, WorkerCleared, WindowCleared DEF UserStep
<1>2. CASE Die
  BY <1>2 DEF Die, IInv, Types, AllowsTraced, Traced, OnlyCleared, tab, window
<1>3. CASE UNCHANGED vars
  BY <1>3, Zenon DEF vars, IInv, Types, AllowsTraced, Traced, OnlyCleared
<1> QED
  BY <1>1, <1>2, <1>3 DEF Next

LEMMA InitCleared == Init => IInv
BY DEF Init, IInv, Types, Pages, AllowsTraced, Traced, OnlyCleared

\* A request reaches the wallet only if the policy cleared it or its user pressed the
\* button in its window: awaitVerdict, decideInner and reply never make an "allow" of a
\* timer, a failure, a stop of the service worker or another request's decision.
THEOREM OnlyClearedAlways == Spec => []OnlyCleared
<1>1. IInv => OnlyCleared
  BY DEF IInv
<1> QED
  BY <1>1, InitCleared, StepCleared, PTL DEF Spec

\* No step of anyone takes a request back once its page has rejected it: finish of
\* awaitVerdict unregisters the request, so a late verdict finds nobody.
THEOREM RejectedStaysAlways == Spec => RejectedStays
<1> DEFINE PageType == page \in [Requests -> Pages]
           Stays == \A r \in Requests : page[r] = "rejected" => page'[r] = "rejected"
<1>1. Init => PageType
  BY DEF Init, Pages
<1>2. PageType /\ [Next]_vars => PageType' /\ Stays
  <2> SUFFICES ASSUME PageType, [Next]_vars
               PROVE  PageType' /\ Stays
    OBVIOUS
  <2>1. ASSUME NEW r \in Requests, NEW kind, Receive(r, kind)
        PROVE  PageType' /\ Stays
    BY <2>1 DEF Receive, Phase, Set, Waiting, Pages
  <2>2. CASE page' = page
    BY <2>2
  <2>3. ASSUME NEW r \in Requests, PageTimeout(r) \/ Ask(r)
        PROVE  PageType' /\ Stays
    BY <2>3, Zenon DEF PageTimeout, Ask, Set, Waiting, Pages
  <2>4. ASSUME NEW r \in Requests, Connect(r) \/ BridgeMessage(r) \/ BridgeTimeout(r)
        PROVE  PageType' /\ Stays
    BY <2>1, <2>2, <2>4, Zenon DEF Connect, BridgeMessage, BridgeTimeout
  <2>5. ASSUME NEW r \in Requests, SwStep(r)
        PROVE  page' = page
    BY <2>5, Zenon
      DEF SwStep, Begin, PendingPut, Decide, Record, Open, Listen, PendingDelete, Poll,
       Deadline, StorageFails, Settle, tab
  <2>6. ASSUME NEW r \in Requests, WindowStep(r) \/ Close(r) \/ \E b \in BOOLEAN : Press(r, b)
        PROVE  page' = page
    BY <2>6, Zenon DEF WindowStep, Persist, Tell, Unload, Close, Press, Settle, tab
  <2>7. Die \/ UNCHANGED vars => page' = page
    BY DEF Die, vars, tab
  <2> QED
    BY <2>2, <2>3, <2>4, <2>5, <2>6, <2>7 DEF Next, TabStep, UserStep
<1> QED
  BY <1>1, <1>2, PTL DEF Spec, RejectedStays
-----------------------------------------------------------------------------
(***************************************************************************)
(* The pending map.  Of two requests of one actor that have not settled    *)
(* one is chained to the other, and it is still queued: so the map that a  *)
(* request has read is the map it writes back.                             *)
(***************************************************************************)
OneActor == \A r, s \in Requests : actor[r] = actor[s] /\ actor[r] # NoActor

Active == {"deciding", "recording", "opening", "opened", "awaiting", "deleting"}
Labels == Ended \cup {"queued", "putting"} \cup Active
Bridges == {"none", "asked", "waiting", "done"}

Chained ==
    /\ sw \in [Requests -> Labels] /\ ahead \in [Requests -> SUBSET Requests]
    /\ bridge \in [Requests -> Bridges]
    /\ \A r \in Requests : page[r] = "idle" => bridge[r] = "none"
    /\ \A r \in Requests : bridge[r] \in {"none", "asked"} => sw[r] = "none"
    /\ \A r \in Requests : ahead[r] # {} => sw[r] = "queued"

Exact ==
    /\ \A r, s \in Requests : r # s /\ sw[r] \notin Ended /\ sw[s] \notin Ended
                                => r \in ahead[s] \/ s \in ahead[r]
    /\ \A r \in Requests : sw[r] \in {"putting", "deleting"} => held[r] = pend
    /\ \A r \in Requests : sw[r] \in Active => <<r, "pending">> \in pend
    /\ \A d \in pend : sw[d[1]] \in Active \cup {"lost"}

PendInv == IInv /\ Chained /\ (OneActor => Exact)

\* A request that has begun is alone: the others have ended or are queued.
LEMMA Alone ==
    ASSUME Chained, Exact, NEW r \in Requests, sw[r] \notin Ended,
           sw[r] # "queued" \/ ahead[r] = {}
    PROVE  \A s \in Requests : s # r => sw[s] \in Ended \cup {"queued"}
<1>1. ahead[r] = {} BY DEF Chained
<1>2. QED BY <1>1 DEF Chained, Exact

\* Steps of the tab and of the window leave the service worker as it is.
LEMMA ElsewhereExact ==
    ASSUME PendInv, IInv', UNCHANGED <<actor, ahead, sw, held, pend>>,
           bridge' \in [Requests -> Bridges],
           \A r \in Requests : page'[r] = "idle" => bridge'[r] = "none",
           \A r \in Requests : bridge'[r] \in {"none", "asked"} => bridge[r] \in {"none", "asked"}
    PROVE  PendInv'
<1>1. Chained' BY DEF PendInv, Chained
<1>2. OneActor' => Exact' BY DEF PendInv, OneActor, Exact
<1>3. QED BY <1>1, <1>2 DEF PendInv

\* A request is chained to those of its actor that have not settled.
LEMMA ConnectExact ==
    ASSUME PendInv, IInv', NEW r \in Requests, Connect(r)
    PROVE  PendInv'
<1>0. Chained /\ page \in [Requests -> Pages] /\ sw[r] = "none" /\ bridge[r] = "asked"
      /\ page[r] # "idle"
  BY Zenon DEF PendInv, Chained, Connect, IInv, Types
<1>1. CASE Receive(r, "deny") /\ bridge' = Set(bridge, r, "done") /\ UNCHANGED <<ahead, sw>>
  <2>1. bridge' \in [Requests -> Bridges] BY <1>0, <1>1, Zenon DEF Chained, Set, Bridges
  <2>2. \A s \in Requests : page'[s] = "idle" => bridge'[s] = "none"
    BY <1>0, <1>1, Zenon DEF Chained, Receive, Set, Phase
  <2>3. \A s \in Requests : bridge'[s] \in {"none", "asked"} => bridge[s] \in {"none", "asked"}
    BY <1>0, <1>1 DEF Chained, Set
  <2>4. QED BY <1>1, <2>1, <2>2, <2>3, ElsewhereExact, Zenon DEF Connect
<1>2. CASE /\ bridge' = Set(bridge, r, "waiting") /\ UNCHANGED page
           /\ ahead' = Set(ahead, r, Unsettled(actor[r])) /\ sw' = Set(sw, r, "queued")
  <2>0. UNCHANGED <<actor, held, pend>> BY Zenon DEF Connect
  <2>1. Chained'
    <3>1. Unsettled(actor[r]) \subseteq Requests BY Zenon DEF Unsettled
    <3>2. /\ sw' \in [Requests -> Labels] /\ ahead' \in [Requests -> SUBSET Requests]
          /\ bridge' \in [Requests -> Bridges]
      BY <1>0, <1>2, <3>1, Zenon DEF Chained, Set, Labels, Bridges
    <3>3. QED BY <1>0, <1>2, <3>2 DEF Chained, Set
  <2>2. ASSUME OneActor' PROVE Exact'
    <3>1. OneActor /\ Exact BY <2>0, <2>2, Zenon DEF PendInv, OneActor
    <3>2. /\ \A s \in Requests : s # r => sw'[s] = sw[s] /\ ahead'[s] = ahead[s]
          /\ sw'[r] = "queued" /\ ahead'[r] = Unsettled(actor[r])
      BY <1>0, <1>2, Zenon DEF Chained, Set
    <3>3. \A s \in Requests : s # r /\ sw[s] \notin Ended => s \in ahead'[r]
      BY <3>1, <3>2, Zenon DEF OneActor, Unsettled
    <3>4. \A d \in pend : d[1] # r /\ d[1] \in Requests
      BY <1>0, <3>1, Zenon DEF Exact, Active, PendInv, IInv, Types, Pairs
    <3>5. \A d \in pend' : sw'[d[1]] \in Active \cup {"lost"}
      BY <2>0, <3>1, <3>2, <3>4 DEF Exact
    <3>6. \A s, t \in Requests : s # t /\ sw'[s] \notin Ended /\ sw'[t] \notin Ended
                                 => s \in ahead'[t] \/ t \in ahead'[s]
      BY <3>1, <3>2, <3>3 DEF Exact
    <3>7. QED BY <2>0, <3>1, <3>2, <3>5, <3>6 DEF Exact, Active
  <2>3. QED BY <2>1, <2>2, Zenon DEF PendInv
<1>3. QED BY <1>1, <1>2 DEF Connect
\* A request whose turn it is goes on; it alone has read the map and may write it.
LEMMA GoOnExact ==
    ASSUME PendInv, IInv', NEW r \in Requests, NEW l \in Active \cup {"putting"},
           sw[r] \notin Ended, sw[r] = "queued" => ahead[r] = {},
           sw' = Set(sw, r, l), UNCHANGED <<actor, page, bridge, ahead>>,
           Exact => /\ l \in {"putting", "deleting"} => held'[r] = pend'
                    /\ l \in Active => <<r, "pending">> \in pend'
                    /\ \A d \in pend' : IF d[1] = r THEN l \in Active ELSE d \in pend
    PROVE  PendInv'
<1>1. Chained' BY DEF PendInv, Chained, Set, Labels, Ended
<1>2. ASSUME OneActor' PROVE Exact'
  <2>1. Chained /\ Exact BY <1>2, Zenon DEF PendInv, OneActor
  <2>2. \A s \in Requests : s # r => sw[s] \in Ended \cup {"queued"} BY <2>1, Alone, Zenon
  <2>3. sw'[r] = l /\ \A s \in Requests : s # r => sw'[s] = sw[s] BY <2>1, Zenon DEF Chained, Set
  <2>4. \A s \in Requests : s # r => sw'[s] \notin Active \cup {"putting"}
    BY <2>2, <2>3, Zenon DEF Ended, Active
  <2>5. \A s, t \in Requests : s # t /\ sw'[s] \notin Ended /\ sw'[t] \notin Ended
                               => s \in ahead'[t] \/ t \in ahead'[s]
    BY <2>1, <2>3, Zenon DEF Exact
  <2>6. \A s \in Requests : sw'[s] \in {"putting", "deleting"} => held'[s] = pend'
    BY <2>1, <2>3, <2>4, Zenon DEF Active
  <2>7. \A s \in Requests : sw'[s] \in Active => <<s, "pending">> \in pend'
    BY <2>1, <2>3, <2>4, Zenon
  <2>8. \A d \in pend' : d[1] \in Requests BY Zenon DEF IInv, Types, Pairs
  <2>9. \A d \in pend' : sw'[d[1]] \in Active \cup {"lost"} BY <2>1, <2>3, <2>8 DEF Exact
  <2>10. QED BY <2>5, <2>6, <2>7, <2>9, Zenon DEF Exact
<1>3. QED BY <1>1, <1>2 DEF PendInv

\* A request that ends lets those behind it go on.
LEMMA LeaveExact ==
    ASSUME PendInv, IInv', NEW r \in Requests, NEW l \in {"done", "lost"},
           sw[r] \notin Ended \cup {"queued"}, Leave(r, l), UNCHANGED <<actor, page, bridge>>,
           Exact => \A d \in pend' : d \in pend /\ (d[1] = r => l = "lost")
    PROVE  PendInv'
<1>0. /\ Chained /\ sw'[r] = l /\ \A s \in Requests : s # r => sw'[s] = sw[s]
      /\ \A s \in Requests : ahead'[s] = ahead[s] \ {r}
  BY Zenon DEF PendInv, Chained, Leave, Goto, Set
<1>1. Chained'
  <2>1. sw' \in [Requests -> Labels] /\ ahead' \in [Requests -> SUBSET Requests]
    BY <1>0, Zenon DEF Chained, Leave, Goto, Set, Labels, Ended
  <2>2. ahead[r] = {} BY <1>0, Zenon DEF Chained
  <2>3. \A s \in Requests : ahead'[s] # {} => sw'[s] = "queued" BY <1>0, <2>2 DEF Chained
  <2>4. \A s \in Requests : bridge'[s] \in {"none", "asked"} => sw'[s] = "none"
    BY <1>0, Zenon DEF Chained, Ended
  <2>5. QED BY <1>0, <2>1, <2>3, <2>4, Zenon DEF Chained
<1>2. ASSUME OneActor' PROVE Exact'
  <2>1. Exact BY <1>2, Zenon DEF PendInv, OneActor
  <2>2. \A s \in Requests : sw'[s] \notin Active \cup {"putting"}
    <3>1. \A s \in Requests : s # r => sw[s] \in Ended \cup {"queued"} BY <1>0, <2>1, Alone, Zenon
    <3>2. QED BY <1>0, <3>1, Zenon DEF Ended, Active
  <2>3. \A s, t \in Requests : s # t /\ sw'[s] \notin Ended /\ sw'[t] \notin Ended
                               => s \in ahead'[t] \/ t \in ahead'[s]
    BY <1>0, <2>1 DEF Exact, Ended
  <2>4. \A d \in pend' : d[1] \in Requests BY Zenon DEF IInv, Types, Pairs
  <2>5. \A d \in pend' : sw'[d[1]] \in Active \cup {"lost"} BY <1>0, <2>1, <2>4 DEF Exact
  <2>6. QED BY <2>2, <2>3, <2>5 DEF Exact, Active
<1>3. QED BY <1>1, <1>2, Zenon DEF PendInv

\* A stop of the service worker leaves the map, and nobody who would write it.
LEMMA DieExact == ASSUME PendInv, IInv', Die PROVE PendInv'
<1>0. /\ Chained /\ UNCHANGED <<actor, page, bridge, pend>>
      /\ \A s \in Requests : sw'[s] = IF sw[s] \in {"done", "none"} THEN sw[s] ELSE "lost"
      /\ \A s \in Requests : ahead'[s] = {}
  BY DEF PendInv, Die, At, tab
<1>1. Chained'
  <2>1. sw' \in [Requests -> Labels] /\ ahead' \in [Requests -> SUBSET Requests]
    BY <1>0, Zenon DEF Die, At, Chained, Labels, Ended
  <2>2. QED BY <1>0, <2>1, Zenon DEF Chained
<1>2. ASSUME OneActor' PROVE Exact'
  <2>1. Exact BY <1>0, <1>2 DEF PendInv, OneActor
  <2>2. \A s \in Requests : sw'[s] \in Ended BY <1>0, Zenon DEF Ended
  <2>3. \A d \in pend : d[1] \in Requests BY Zenon DEF PendInv, IInv, Types, Pairs
  <2>4. \A d \in pend' : sw'[d[1]] \in Active \cup {"lost"}
    BY <1>0, <2>1, <2>3 DEF Exact, Active
  <2>5. QED BY <2>2, <2>4 DEF Exact, Active, Ended
<1>3. QED BY <1>1, <1>2 DEF PendInv
\* The steps of the tab and of the window that are not of the service worker.
LEMMA TabExact ==
    ASSUME PendInv, IInv', NEW r \in Requests,
           Ask(r) \/ PageTimeout(r) \/ BridgeMessage(r) \/ BridgeTimeout(r)
    PROVE  PendInv'
<1>0. /\ Chained /\ page \in [Requests -> Pages] /\ UNCHANGED <<actor, ahead, sw, held, pend>>
      /\ \A s \in Requests : page[s] = "idle" => bridge[s] = "none"
  BY Zenon
    DEF PendInv, Chained, IInv, Types, Ask, PageTimeout, BridgeMessage, BridgeTimeout,
        worker
<1>1. CASE Ask(r)
  <2>1. /\ page' = Set(page, r, "phase1") /\ bridge' = Set(bridge, r, "asked")
        /\ bridge[r] = "none"
    BY <1>0, <1>1, Zenon DEF Ask
  <2>2. QED BY <1>0, <2>1, ElsewhereExact, Zenon DEF Chained, Set, Bridges
<1>2. CASE PageTimeout(r) \/ BridgeMessage(r) \/ BridgeTimeout(r)
  <2>1. \/ page' = Set(page, r, "rejected") \/ UNCHANGED page \/ \E kind : Receive(r, kind)
    BY <1>2, Zenon DEF PageTimeout, BridgeMessage, BridgeTimeout
  <2>2. UNCHANGED bridge \/ (bridge[r] = "waiting" /\ bridge' = Set(bridge, r, "done"))
    BY <1>2, Zenon DEF PageTimeout, BridgeMessage, BridgeTimeout
  <2>3. \A s \in Requests : page'[s] = "idle" => page[s] = "idle"
    BY <1>0, <2>1, Zenon DEF Set, Receive, Phase
  <2>4. bridge' \in [Requests -> Bridges] BY <1>0, <2>2, Zenon DEF Chained, Set, Bridges
  <2>5. \A s \in Requests : /\ bridge'[s] \in {"none", "asked"} => bridge[s] \in {"none", "asked"}
                            /\ bridge[s] = "none" => bridge'[s] = "none"
    BY <1>0, <2>2, Zenon DEF Chained, Set
  <2>6. QED BY <1>0, <2>3, <2>4, <2>5, ElsewhereExact, Zenon
<1>3. QED BY <1>1, <1>2, Zenon

\* The decision of a request has its result, or the user's window has one for it.
LEMMA FinishExact ==
    ASSUME PendInv, IInv', NEW r \in Requests, sw[r] \in Active, NEW res, Finish(r, res),
           UNCHANGED <<actor, page, bridge, ahead, pend>>
    PROVE  PendInv'
<1>1. held'[r] = pend /\ sw' = Set(sw, r, "deleting")
  BY Zenon DEF Finish, Goto, Set, PendInv, IInv, Types
<1>2. Exact => <<r, "pending">> \in pend BY DEF Exact
<1>3. sw[r] \notin Ended /\ sw[r] # "queued" BY DEF Active, Ended
<1>4. "deleting" \in Active BY Zenon DEF Active
<1>5. QED BY <1>1, <1>2, <1>3, <1>4, GoOnExact, Zenon

\* The steps of the service worker.
LEMMA WorkerExact ==
    ASSUME PendInv, IInv', NEW r \in Requests, SwStep(r)
    PROVE  PendInv'
<1>0. /\ Chained /\ pend \subseteq Pairs /\ held \in [Requests -> SUBSET Pairs]
      /\ UNCHANGED <<actor, page, bridge>>
  BY Zenon DEF PendInv, IInv, Types, SwStep, Begin, PendingPut, Decide, Record, Open, Listen,
         PendingDelete, Poll, Deadline, StorageFails, Settle, tab
<1>1. CASE Begin(r)
  <2>1. /\ sw[r] = "queued" /\ ahead[r] = {} /\ held'[r] = pend /\ UNCHANGED <<pend, ahead>>
        /\ sw' = Set(sw, r, "putting")
    BY <1>0, <1>1, Zenon DEF Begin, At, Turn, Goto, Set
  <2>2. Exact => \A d \in pend : d[1] # r BY <2>1, Zenon DEF Exact, Active
  <2>3. "putting" \notin Active /\ sw[r] \notin Ended BY <2>1, Zenon DEF Active, Ended
  <2>4. QED BY <1>0, <2>1, <2>2, <2>3, GoOnExact, Zenon
<1>2. CASE PendingPut(r)
  <2>1. /\ sw[r] = "putting" /\ pend' = Stored(held[r], r, "pending") /\ UNCHANGED ahead
        /\ sw' = Set(sw, r, "deciding")
    BY <1>2, Zenon DEF PendingPut, At, Goto
  <2>2. /\ <<r, "pending">> \in pend'
        /\ Exact => \A d \in pend' : d[1] # r => d \in pend
    BY <2>1 DEF Stored, Exact
  <2>3. "deciding" \in Active /\ sw[r] \notin Ended BY <2>1, Zenon DEF Active, Ended
  <2>4. QED BY <1>0, <2>1, <2>2, <2>3, GoOnExact, Zenon
<1>3. ASSUME NEW l \in Active \ {"deleting"}, sw[r] \in Active, Goto(r, l),
             UNCHANGED <<ahead, pend>>
      PROVE  PendInv'
  <2>1. Exact => <<r, "pending">> \in pend BY <1>3, Zenon DEF Exact
  <2>2. l # "putting" /\ sw[r] \notin Ended /\ sw[r] # "queued" BY <1>3, Zenon DEF Active, Ended
  <2>3. QED BY <1>0, <1>3, <2>1, <2>2, GoOnExact, Zenon DEF Goto
<1>4. CASE Decide(r)
  <2>1. sw[r] \in Active /\ UNCHANGED <<ahead, pend>> BY <1>4, Zenon DEF Decide, At, Active
  <2>2. Goto(r, "recording") \/ \E res : Finish(r, res) BY <1>4, Zenon DEF Decide
  <2>3. QED BY <1>0, <1>3, <2>1, <2>2, FinishExact, Zenon DEF Active
<1>5. CASE Record(r) \/ Listen(r)
  BY <1>3, <1>5, Zenon DEF Record, Listen, At, Active
<1>6. CASE Open(r)
  <2>1. sw[r] \in Active /\ UNCHANGED <<ahead, pend>> BY <1>6, Zenon DEF Open, At, Active
  <2>2. Goto(r, "opened") \/ \E res : Finish(r, res) BY <1>6, Zenon DEF Open
  <2>3. QED BY <1>0, <1>3, <2>1, <2>2, FinishExact, Zenon DEF Active
<1>7. CASE Poll(r) \/ Deadline(r)
  <2>1. sw[r] \in Active /\ \E res : Settle(r, res) BY <1>7, Zenon DEF Poll, Deadline, At, Active
  <2>2. QED BY <1>0, <2>1, FinishExact DEF Settle
<1>8. CASE PendingDelete(r)
  <2>1. sw[r] = "deleting" /\ pend' = {d \in held[r] : d[1] # r} /\ Leave(r, "done")
    BY <1>8 DEF PendingDelete, At
  <2>2. Exact => \A d \in pend' : d \in pend /\ d[1] # r BY <2>1 DEF Exact
  <2>3. QED BY <1>0, <2>1, <2>2, LeaveExact, Zenon DEF Ended
<1>9. CASE StorageFails(r)
  <2>1. CASE sw[r] \in {"putting", "deleting"} /\ Leave(r, "lost")
    BY <1>0, <1>9, <2>1, LeaveExact DEF StorageFails, Ended
  <2>2. CASE At(r, "recording") /\ Finish(r, FALSE) /\ UNCHANGED ahead
    BY <1>0, <1>9, <2>2, FinishExact, Zenon DEF StorageFails, At, Active
  <2>3. QED BY <1>9, <2>1, <2>2, Zenon DEF StorageFails
<1>10. QED BY <1>1, <1>2, <1>4, <1>5, <1>6, <1>7, <1>8, <1>9, Zenon DEF SwStep

\* The steps of the window and of the user.
LEMMA WindowExact ==
    ASSUME PendInv, IInv', NEW r \in Requests,
           WindowStep(r) \/ Close(r) \/ \E b \in BOOLEAN : Press(r, b)
    PROVE  PendInv'
<1>0. Chained /\ UNCHANGED <<actor, page, bridge>>
  BY Zenon DEF PendInv, WindowStep, Persist, Tell, Unload, Close, Press, Settle, tab
<1>1. \/ sw[r] \in Active /\ \E res : Settle(r, res)
      \/ UNCHANGED <<ahead, sw, held, pend>>
  BY Zenon DEF WindowStep, Persist, Tell, Unload, Close, Press, worker, At, Active
<1>2. CASE sw[r] \in Active /\ \E res : Settle(r, res)
  BY <1>0, <1>2, FinishExact, Zenon DEF Settle
<1>3. CASE UNCHANGED <<ahead, sw, held, pend>>
  BY <1>0, <1>3, ElsewhereExact DEF Chained
<1>4. QED BY <1>1, <1>2, <1>3

\* As long as all requests are of one actor, the pending map has every request that is
\* being decided and, besides, only those whose deletion a failure or a stop prevented:
\* withActorLock lets no two requests read and write the map at the same time.
THEOREM PendingIsExact == Spec => []PendingExact
<1>1. Init => PendInv
  <2> SUFFICES ASSUME Init PROVE PendInv BY Zenon
  <2>1. Chained BY Zenon DEF Init, Chained, Labels, Ended, Bridges
  <2>2. Exact BY Zenon DEF Init, Exact, Ended, Active
  <2>3. QED BY <2>1, <2>2, InitCleared DEF PendInv
<1>2. PendInv /\ [Next]_vars => PendInv'
  <2> SUFFICES ASSUME PendInv, [Next]_vars PROVE PendInv' OBVIOUS
  <2>1. IInv' BY StepCleared, Zenon DEF PendInv
  <2>2. CASE UNCHANGED vars BY <2>1, <2>2, ElsewhereExact, Zenon DEF vars, PendInv, Chained
  <2>3. QED
    BY <2>1, <2>2, TabExact, ConnectExact, WorkerExact, WindowExact, DieExact, Zenon
       DEF Next, TabStep, UserStep
<1>3. PendInv => PendingExact
  <2> SUFFICES ASSUME PendInv, OneActor
               PROVE  /\ \A r \in Requests :
                           sw[r] \notin Ended \cup {"queued", "putting"}
                           => <<r, "pending">> \in pend
                      /\ \A d \in pend : sw[d[1]] \notin {"none", "queued", "putting", "done"}
    BY DEF OneActor, PendingExact
  <2>1. QED BY Zenon DEF PendInv, Exact, Chained, Labels, Active
<1>4. QED BY <1>1, <1>2, <1>3, PTL DEF Spec
=============================================================================
