---------------------------- MODULE VerdictGate -----------------------------
(***************************************************************************)
(* browser-extension: a wallet request on its way to a verdict and back.   *)
(* The page's proxy asks and waits (lib/messages.ts, lib/verdict-channel   *)
(* .ts); a content script carries the request to the service worker and    *)
(* the answer back (content-scripts/window-ethereum-messages.ts); the      *)
(* service worker decides, one request of an actor at a time               *)
(* (service-worker/index.ts, orchestrator.ts), and may ask the user in a   *)
(* window of its own (frontend/confirm/index.ts).                          *)
(*                                                                         *)
(* The tab, the service worker and the window run by themselves and talk   *)
(* by messages.  Time is not measured: a timer may fire whenever it is     *)
(* armed.  The service worker may be stopped at any moment, with all it    *)
(* had in memory.                                                          *)
(***************************************************************************)
EXTENDS Naturals, Sequences, FiniteSets

CONSTANTS
    Requests,   \* wallet requests
    NoActor,    \* inferActor found none
    Actors      \* the ways the requests may be of actors

VARIABLES
    actor,    \* whom a request acts for
    page,     \* page: awaitVerdict, and what became of the request
    bridge,   \* content script: the handler of the request
    port,     \* the runtime port: messages to the content script
    ahead,    \* service worker: actorChain, the requests whose promises r is chained to
    sw,       \* service worker: where decideInner is
    ok,       \* service worker: its result
    held,     \* service worker: the stored map it has read and will write back
    pend,     \* storage.session "requests:pending": requests, marked "pending"
    store,    \* storage.session "requests:pending-decisions": requests and status
    win,      \* the window of a request
    choice,   \* the button pressed in it
    copy,     \* the decisions it has read and will write back
    cleared   \* history: the policy let the request pass, or its user did

tab == <<page, bridge>>
worker == <<ahead, sw, ok, held>>
window == <<win, choice, copy>>
vars == <<actor, page, bridge, port, ahead, sw, ok, held, pend, store, win, choice, copy,
          cleared>>

Set(f, r, v) == [f EXCEPT ![r] = v]

-----------------------------------------------------------------------------
(***************************************************************************)
(* The page and the content script, which share a thread.                  *)
(***************************************************************************)
Waiting == {"phase1", "phase2"}

\* generateRequestId makes a new id for every call: one for the stream from the page
\* to the content script, another for the port from there to the service worker.
StreamId(r) == <<"stream", r>>
PortId(r) == <<"port", r>>
Answer(b) == IF b THEN "allow" ELSE "deny"

\* sendRequestAndAwaitVerdict: write to the stream, wait in phase 1.
Ask(r) ==
    /\ page[r] = "idle"
    /\ page' = Set(page, r, "phase1")
    /\ bridge' = Set(bridge, r, "asked")
    /\ UNCHANGED <<actor, port, worker, pend, store, window, cleared>>

Phase(kind) ==
    IF kind = "awaiting" THEN "phase2" ELSE IF kind = "allow" THEN "forwarded" ELSE "rejected"

\* Slip: a request that was settled is still found by its id.
ReceiveLate(r, kind) == page' = Set(page, r, Phase(kind))

\* The verdict channel: a request that was settled is no longer pending.
Receive(r, kind) == page' = IF page[r] \in Waiting THEN Set(page, r, Phase(kind)) ELSE page

\* Slip: the first timer is not armed.
PageTimeoutLate(r) ==
    /\ page[r] = "phase2"
    /\ page' = Set(page, r, "rejected")
    /\ UNCHANGED <<actor, bridge, port, worker, pend, store, window, cleared>>

\* The timer of the phase fires: finish(false).
PageTimeout(r) ==
    /\ page[r] \in Waiting
    /\ page' = Set(page, r, "rejected")
    /\ UNCHANGED <<actor, bridge, port, worker, pend, store, window, cleared>>

\* withActorLock: the decisions of an actor that have not settled.
Ended == {"none", "done", "lost"}
Unsettled(a) == IF a = NoActor THEN {} ELSE {s \in Requests : actor[s] = a /\ sw[s] \notin Ended}

\* The content script connects and posts the request, which wakes the service worker
\* and joins its actor's chain; it denies when it cannot connect.
Connect(r) ==
    /\ bridge[r] = "asked"
    /\ \/ /\ Receive(r, "deny")
          /\ bridge' = Set(bridge, r, "done")
          /\ UNCHANGED <<ahead, sw>>
       \/ /\ bridge' = Set(bridge, r, "waiting")
          /\ ahead' = Set(ahead, r, Unsettled(actor[r]))
          /\ sw' = Set(sw, r, "queued")
          /\ UNCHANGED page
    /\ UNCHANGED <<actor, port, ok, held, pend, store, window, cleared>>

\* A message on the port meets two listeners: one relays an awaiting-user that has
\* the stream's id, the other takes those with the port's id and ends with a verdict.
BridgeMessage(r) ==
    LET m == Head(port[r])
        verdict == m.kind # "awaiting" /\ m.id = PortId(r)
        relayed == m.kind = "awaiting" /\ m.id = StreamId(r)
    IN
    /\ bridge[r] = "waiting" /\ port[r] # <<>>
    /\ IF verdict \/ relayed THEN Receive(r, m.kind) ELSE UNCHANGED page
    /\ bridge' = IF verdict THEN Set(bridge, r, "done") ELSE bridge
    /\ port' = Set(port, r, Tail(port[r]))
    /\ UNCHANGED <<actor, worker, pend, store, window, cleared>>

\* sendToPortAndAwaitResponse gives up; the port is disconnected.
BridgeTimeout(r) ==
    /\ bridge[r] = "waiting"
    /\ Receive(r, "deny")
    /\ bridge' = Set(bridge, r, "done")
    /\ port' = Set(port, r, <<>>)
    /\ UNCHANGED <<actor, worker, pend, store, window, cleared>>

-----------------------------------------------------------------------------
(***************************************************************************)
(* The service worker.  decideInner is cut at its awaits.                  *)
(***************************************************************************)
At(r, pc) == sw[r] = pc
Goto(r, pc) == sw' = Set(sw, r, pc)

\* The promise of the request settles: whoever waits for it may go on.
Leave(r, pc) ==
    /\ Goto(r, pc)
    /\ ahead' = [s \in Requests |-> ahead[s] \ {r}]
    /\ ok' = Set(ok, r, FALSE)
    /\ held' = Set(held, r, {})

\* A message with the id of the request; the port may be gone.
Post(r, kind) ==
    port' = IF bridge[r] = "waiting"
            THEN Set(port, r, Append(port[r], [id |-> PortId(r), kind |-> kind])) ELSE port

\* Slip: the decision before is not waited for.
TurnAtOnce(r) == r \in Requests

\* withActorLock: a request waits for those of its actor that came before.
Turn(r) == ahead[r] = {}

\* Maps in storage, as sets of pairs.
Status(S, r) == {d[2] : d \in {e \in S : e[1] = r}}

\* The stored map with a status for r.
Stored(S, r, status) == {d \in S : d[1] # r} \cup {<<r, status>>}

\* pendingPut reads the map ...
Begin(r) ==
    /\ At(r, "queued") /\ Turn(r)
    /\ held' = Set(held, r, pend)
    /\ Goto(r, "putting")
    /\ UNCHANGED <<actor, tab, port, ahead, ok, pend, store, window, cleared>>

\* ... and writes it.
PendingPut(r) ==
    /\ At(r, "putting")
    /\ pend' = Stored(held[r], r, "pending")
    /\ held' = Set(held, r, {})
    /\ Goto(r, "deciding")
    /\ UNCHANGED <<actor, tab, port, ahead, ok, store, window, cleared>>

Outcome(kind, scam, modal) ==
    IF kind = "fail" THEN "blocked"
    ELSE IF scam \/ (kind = "warn" /\ modal) THEN "review" ELSE "clear"

\* The body of decideInner has its result; the finally clause reads the pending map.
Finish(r, res) ==
    /\ ok' = Set(ok, r, res)
    /\ held' = Set(held, r, pend)
    /\ Goto(r, "deleting")

\* The lifecycle answers, throws or runs into its timeout, each a verdict; the scam
\* check asks for a review or not.  A review first reads the stored decisions.
Decide(r) ==
    /\ At(r, "deciding")
    /\ \E kind \in {"pass", "warn", "fail"}, scam, modal \in BOOLEAN :
         LET outcome == Outcome(kind, scam, modal) IN
         /\ IF outcome = "review"
            THEN held' = Set(held, r, store) /\ Goto(r, "recording") /\ UNCHANGED ok
            ELSE Finish(r, outcome = "clear")
         /\ cleared' = IF outcome = "clear" THEN Set(cleared, r, TRUE) ELSE cleared
    /\ UNCHANGED <<actor, tab, port, ahead, pend, store, window>>

\* openVerdictWindowAndAwait: write the record.
Record(r) ==
    /\ At(r, "recording")
    /\ store' = Stored(held[r], r, "awaiting")
    /\ held' = Set(held, r, {})
    /\ Goto(r, "opening")
    /\ UNCHANGED <<actor, tab, port, ahead, ok, pend, window, cleared>>

\* Ask for the window; it is there before the service worker listens to it, or not
\* at all.
Open(r) ==
    /\ At(r, "opening")
    /\ \/ /\ win' = Set(win, r, "open")
          /\ Goto(r, "opened")
          /\ UNCHANGED <<ok, held>>
       \/ Finish(r, FALSE) /\ UNCHANGED win
    /\ UNCHANGED <<actor, tab, port, ahead, pend, store, choice, copy, cleared>>

\* Listen for its message and its end, start to poll, and ask for more time.
Listen(r) ==
    /\ At(r, "opened")
    /\ Goto(r, "awaiting")
    /\ Post(r, "awaiting")
    /\ UNCHANGED <<actor, tab, ahead, ok, held, pend, store, window, cleared>>

\* settle: the window is closed if it is still there, and reads the decisions once more.
Present == {"open", "replying", "persisted"}
Closing(r) ==
    /\ win' = IF win[r] \in Present THEN Set(win, r, "unloading") ELSE win
    /\ copy' = IF win[r] \in Present THEN Set(copy, r, store) ELSE copy
    /\ choice' = Set(choice, r, "none")
Settle(r, res) ==
    /\ Finish(r, res) /\ Closing(r)
    /\ UNCHANGED <<actor, tab, port, ahead, pend, store, cleared>>

\* Slip: any decision will do.
PollAny(r) ==
    At(r, "awaiting") /\ \E d \in store : d[2] # "awaiting" /\ Settle(r, d[2] = "allow")

\* The poll finds a persisted decision.
Poll(r) ==
    /\ At(r, "awaiting")
    /\ \E status \in Status(store, r) \ {"awaiting"} : Settle(r, status = "allow")

\* Slip: an open window stops the clock.
DeadlineClosed(r) == At(r, "awaiting") /\ win[r] \notin Present /\ Settle(r, FALSE)

\* The user walked away.
Deadline(r) == At(r, "awaiting") /\ Settle(r, FALSE)

\* The finally clause writes the pending map, and handleMessage posts the result.
PendingDelete(r) ==
    /\ At(r, "deleting")
    /\ pend' = {d \in held[r] : d[1] # r}
    /\ Post(r, Answer(ok[r]))
    /\ Leave(r, "done")
    /\ UNCHANGED <<actor, tab, store, window, cleared>>

\* A call of storage.session fails: before the try and in the finally clause nothing
\* is answered, inside it an unknown error is a fail verdict.
StorageFails(r) ==
    /\ \/ sw[r] \in {"putting", "deleting"} /\ Leave(r, "lost")
       \/ At(r, "recording") /\ Finish(r, FALSE) /\ UNCHANGED ahead
    /\ UNCHANGED <<actor, tab, port, pend, store, window, cleared>>

\* The browser stops the service worker.
Die ==
    /\ \E r \in Requests : sw[r] \notin Ended
    /\ sw' = [r \in Requests |-> IF At(r, "done") \/ At(r, "none") THEN sw[r] ELSE "lost"]
    /\ ok' = [r \in Requests |-> FALSE]
    /\ held' = [r \in Requests |-> {}]
    /\ ahead' = [r \in Requests |-> {}]
    /\ UNCHANGED <<actor, tab, port, pend, store, window, cleared>>

-----------------------------------------------------------------------------
(***************************************************************************)
(* The window.                                                             *)
(***************************************************************************)
\* reply: the window reads the stored decisions ...
Press(r, b) ==
    /\ win[r] = "open"
    /\ win' = Set(win, r, "replying")
    /\ choice' = Set(choice, r, Answer(b))
    /\ copy' = Set(copy, r, store)
    /\ cleared' = IF b THEN Set(cleared, r, TRUE) ELSE cleared
    /\ UNCHANGED <<actor, tab, port, worker, pend, store>>

\* ... writes its own, if the record is there ...
Persist(r) ==
    /\ win[r] = "replying"
    /\ store' = IF Status(copy[r], r) # {} THEN Stored(copy[r], r, choice[r]) ELSE store
    /\ win' = Set(win, r, "persisted")
    /\ copy' = Set(copy, r, {})
    /\ UNCHANGED <<actor, tab, port, worker, pend, choice, cleared>>

\* ... and sends it; a service worker that waits for it takes it.  Then it closes.
Tell(r) ==
    /\ win[r] = "persisted"
    /\ IF At(r, "awaiting") THEN Settle(r, choice[r] = "allow")
       ELSE Closing(r) /\ UNCHANGED <<actor, tab, port, worker, pend, store, cleared>>

\* The user closes the window: onRemoved, if the service worker listens.
Close(r) ==
    /\ win[r] \in Present
    /\ IF At(r, "awaiting") THEN Settle(r, FALSE)
       ELSE Closing(r) /\ UNCHANGED <<actor, tab, port, worker, pend, store, cleared>>

\* beforeunload: an undecided request is cancelled, if the page lives to write it.
Unload(r) ==
    /\ win[r] = "unloading"
    /\ \/ store' = store
       \/ "awaiting" \in Status(copy[r], r) /\ store' = Stored(copy[r], r, "deny")
    /\ win' = Set(win, r, "closed")
    /\ copy' = Set(copy, r, {})
    /\ UNCHANGED <<actor, tab, port, worker, pend, choice, cleared>>

-----------------------------------------------------------------------------
Init ==
    /\ actor \in Actors
    /\ page = [r \in Requests |-> "idle"]
    /\ bridge = [r \in Requests |-> "none"]
    /\ port = [r \in Requests |-> <<>>]
    /\ ahead = [r \in Requests |-> {}]
    /\ sw = [r \in Requests |-> "none"]
    /\ ok = [r \in Requests |-> FALSE]
    /\ held = [r \in Requests |-> {}]
    /\ pend = {} /\ store = {}
    /\ win = [r \in Requests |-> "none"]
    /\ choice = [r \in Requests |-> "none"]
    /\ copy = [r \in Requests |-> {}]
    /\ cleared = [r \in Requests |-> FALSE]

TabStep(r) == Connect(r) \/ PageTimeout(r) \/ BridgeMessage(r) \/ BridgeTimeout(r)
SwStep(r) ==
    \/ Begin(r) \/ PendingPut(r) \/ Decide(r) \/ Record(r) \/ Open(r) \/ Listen(r)
    \/ PendingDelete(r) \/ Poll(r) \/ Deadline(r) \/ StorageFails(r)
WindowStep(r) == Persist(r) \/ Tell(r) \/ Unload(r)
UserStep(r) == Ask(r) \/ Close(r) \/ \E b \in BOOLEAN : Press(r, b)

Next ==
    \/ \E r \in Requests : TabStep(r) \/ SwStep(r) \/ WindowStep(r) \/ UserStep(r)
    \/ Die

\* The page's timers fire, and the service worker goes on while it lives.  The user,
\* the browser and the content script owe nothing.
Fairness == \A r \in Requests : WF_vars(PageTimeout(r)) /\ WF_vars(SwStep(r))

Spec == Init /\ [][Next]_vars /\ Fairness

-----------------------------------------------------------------------------
\* A request reaches the wallet only if the policy cleared it without a review, or the
\* user pressed the button in the window of this very request: not by a timer, a stop
\* of the service worker, a closed window, a lost record or another request's answer.
OnlyCleared == \A r \in Requests : page[r] = "forwarded" => cleared[r]

\* A request that was rejected stays rejected, also when its verdict comes after the
\* timer (verdict-channel.ts:107).
RejectedStays ==
    [][\A r \in Requests : page[r] = "rejected" => page'[r] = "rejected"]_vars

\* "we serialize lifecycles per `actor`" (orchestrator.ts:178): while all requests are of
\* one actor, the pending map has every request that is being decided, and besides only
\* those whose deletion a failure or a stop prevented: no update is lost.
PendingExact ==
    (\A r, s \in Requests : actor[r] = actor[s] /\ actor[r] # NoActor)
        => /\ \A r \in Requests :
                sw[r] \notin Ended \cup {"queued", "putting"} => <<r, "pending">> \in pend
           /\ \A d \in pend : sw[d[1]] \notin {"none", "queued", "putting", "done"}

\* Every request of the page is answered, whatever the stream, the content script, the
\* service worker and the user do.
PageAnswered == \A r \in Requests : page[r] \in Waiting ~> page[r] \notin Waiting

\* A user who walks away from a window does not block the actor's next requests
\* (orchestrator.ts:2073).
QueueMoves == \A r \in Requests : sw[r] = "queued" ~> sw[r] \in Ended

\* "Extend the inpage stream timer so the user has time to read and decide"
\* (orchestrator.ts:2095): once its messages are delivered, a page whose request waits
\* for the user is not in phase 1.
UserHasTime ==
    \A r \in Requests : sw[r] = "awaiting" /\ port[r] = <<>> => page[r] # "phase1"
=============================================================================
