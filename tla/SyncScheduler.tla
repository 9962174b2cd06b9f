--------------------------- MODULE SyncScheduler ----------------------------
(***************************************************************************)
(* crates/policy-server: which of one user's wallets the sync workers      *)
(* refresh, and when (sync/src/runtime/scheduler.rs, server/src/bin/       *)
(* sync_worker.rs, PostgresWalletStore::list_wallets_for_sync).  Every     *)
(* worker process keeps a Scheduler with a cursor and due times of its     *)
(* own; the due times are also stored, and the user's lock keeps two ticks *)
(* apart while its time to live lasts.                                     *)
(*                                                                         *)
(* Times are relative: a due time is what is left until it, so the model   *)
(* has no unbounded clock.                                                 *)
(***************************************************************************)
EXTENDS Integers, Sequences, FiniteSets

CONSTANTS
    Wallets,      \* active wallets: addresses are compared, so numbers
    Workers,      \* sync worker processes
    Limit,        \* max_wallets_per_tick
    MinInterval,  \* wallet_min_sync_interval
    MaxRestarts,  \* bound on worker restarts
    NoWorker,     \* nobody
    Handler       \* a write handler, as holder of the lock

\* The history's mark for a due time that no process knows any more.
Forgotten == "forgotten"

\* What the workers are set up with, and that the marks are nobody's names.
Configured ==
    /\ Wallets \subseteq Nat \ {0} /\ IsFiniteSet(Wallets)
    /\ Limit \in Nat /\ MinInterval \in Nat
    /\ NoWorker \notin Workers /\ Handler \notin Workers
    /\ Forgotten \notin Workers \cup {NoWorker}

ASSUME SchedulerAssumption == Configured

VARIABLES
    lock,      \* Redis: a worker, Handler or NoWorker
    running,   \* a worker is inside tick_once
    cursor,    \* wallet_cursor of each worker, 0 for None
    due,       \* wallet_next_due of each worker: time left
    stored,    \* sync_cursors.next_due_at: time left
    todo,      \* the wallets a worker's tick still has to do
    elapsed,   \* time since a worker's tick began, up to MinInterval
    restarts,  \* how often a worker has restarted
    since,     \* history: time since the tick that last synced the wallet began
    unsaved,   \* history: the worker that alone knows the wallet's due time
    overran    \* history: a lock expired under a running tick

vars == <<lock, running, cursor, due, stored, todo, elapsed, restarts,
          since, unsaved, overran>>

AtMost(n, m) == IF n < m THEN n ELSE m
Minus1(n) == IF n = 0 THEN 0 ELSE n - 1

DueNow == {w \in Wallets : stored[w] = 0}

\* ORDER BY address, those after the cursor first.
Before(k, v, w) ==
    \/ v > cursor[k] /\ w <= cursor[k]
    \/ (v > cursor[k] <=> w > cursor[k]) /\ v < w

\* Slip: the cursor is left out of the order.
ListFromStart(k) ==
    {w \in DueNow : Cardinality({v \in DueNow : v < w}) < Limit}

\* list_wallets_for_sync: due in the database, the first Limit of them.
ListWalletsForSync(k) ==
    {w \in DueNow : Cardinality({v \in DueNow : Before(k, v, w)}) < Limit}

\* select_wallets_for_tick: also due by this worker's own record.
SelectWalletsForTick(k) == {w \in ListWalletsForSync(k) : due[k][w] = 0}

\* The wallets S as the list they come in.
InOrder(k, S) ==
    {s \in [1 .. Cardinality(S) -> S] :
        \A i, j \in DOMAIN s : i < j => Before(k, s[i], s[j])}

\* The worker takes the lock and tick_once lists; the due check and the new due
\* times use the time the tick began.
Begin(k) ==
    /\ lock = NoWorker /\ ~running[k]
    /\ lock' = k
    /\ running' = [running EXCEPT ![k] = TRUE]
    /\ \E list \in InOrder(k, SelectWalletsForTick(k)) : todo' = [todo EXCEPT ![k] = list]
    /\ elapsed' = [elapsed EXCEPT ![k] = 0]
    /\ UNCHANGED <<cursor, due, stored, restarts, since, unsaved, overran>>

\* Slip: the due time is kept in memory only.
SyncOkInMemory(k, saved) ==
    LET w == Head(todo[k]) IN
    /\ running[k] /\ todo[k] # <<>>
    /\ cursor' = [cursor EXCEPT ![k] = w]
    /\ due' = [due EXCEPT ![k][w] = MinInterval - elapsed[k]]
    /\ unsaved' = [unsaved EXCEPT ![w] = IF saved THEN NoWorker ELSE k]
    /\ since' = [since EXCEPT ![w] = elapsed[k]]
    /\ todo' = [todo EXCEPT ![k] = Tail(@)]
    /\ UNCHANGED <<lock, running, stored, elapsed, restarts, overran>>

\* Load, sync and save went well: mark_wallet_synced moves the cursor and the
\* worker's due time, and stores the due time if that write succeeds.
SyncOk(k, saved) ==
    LET w == Head(todo[k])
        left == MinInterval - elapsed[k]
    IN
    /\ running[k] /\ todo[k] # <<>>
    /\ cursor' = [cursor EXCEPT ![k] = w]
    /\ due' = [due EXCEPT ![k][w] = left]
    /\ stored' = IF saved THEN [stored EXCEPT ![w] = left] ELSE stored
    /\ unsaved' = [unsaved EXCEPT ![w] = IF saved THEN NoWorker ELSE k]
    /\ since' = [since EXCEPT ![w] = elapsed[k]]
    /\ todo' = [todo EXCEPT ![k] = Tail(@)]
    /\ UNCHANGED <<lock, running, elapsed, restarts, overran>>

\* Load or save failed: the error is reported, the tick goes on, nothing is marked.
SyncError(k) ==
    /\ running[k] /\ todo[k] # <<>>
    /\ todo' = [todo EXCEPT ![k] = Tail(@)]
    /\ UNCHANGED <<lock, running, cursor, due, stored, elapsed, restarts,
                   since, unsaved, overran>>

\* The tick is over: release_lock compares the value.
End(k) ==
    /\ running[k] /\ todo[k] = <<>>
    /\ running' = [running EXCEPT ![k] = FALSE]
    /\ lock' = IF lock = k THEN NoWorker ELSE lock
    /\ UNCHANGED <<cursor, due, stored, todo, elapsed, restarts, since,
                   unsaved, overran>>

\* The process stops, in a tick or between two, and starts again with a fresh
\* Scheduler.  A lock it held is left to expire.
Restart(k) ==
    /\ restarts < MaxRestarts
    /\ restarts' = restarts + 1
    /\ running' = [running EXCEPT ![k] = FALSE]
    /\ todo' = [todo EXCEPT ![k] = <<>>]
    /\ cursor' = [cursor EXCEPT ![k] = 0]
    /\ due' = [due EXCEPT ![k] = [w \in Wallets |-> 0]]
    /\ elapsed' = [elapsed EXCEPT ![k] = 0]
    /\ unsaved' = [w \in Wallets |-> IF unsaved[w] = k THEN Forgotten ELSE unsaved[w]]
    /\ UNCHANGED <<lock, stored, since, overran>>

HandlerLock ==
    /\ lock = NoWorker
    /\ lock' = Handler
    /\ UNCHANGED <<running, cursor, due, stored, todo, elapsed, restarts, since,
                   unsaved, overran>>

\* A handler's release, or the lock's time to live runs out.
Expire ==
    /\ lock # NoWorker
    /\ lock' = NoWorker
    /\ overran' = (overran \/ (lock \in Workers /\ running[lock]))
    /\ UNCHANGED <<running, cursor, due, stored, todo, elapsed, restarts,
                   since, unsaved>>

Clock ==
    /\ due' = [k \in Workers |-> [w \in Wallets |-> Minus1(due[k][w])]]
    /\ stored' = [w \in Wallets |-> Minus1(stored[w])]
    /\ elapsed' = [k \in Workers |-> IF running[k] THEN AtMost(elapsed[k] + 1, MinInterval)
                                     ELSE 0]
    /\ since' = [w \in Wallets |-> AtMost(since[w] + 1, 2 * MinInterval)]
    /\ UNCHANGED <<lock, running, cursor, todo, restarts, unsaved, overran>>

Init ==
    /\ lock = NoWorker
    /\ running = [k \in Workers |-> FALSE]
    /\ cursor = [k \in Workers |-> 0]
    /\ due = [k \in Workers |-> [w \in Wallets |-> 0]]
    /\ stored = [w \in Wallets |-> 0]
    /\ todo = [k \in Workers |-> <<>>]
    /\ elapsed = [k \in Workers |-> 0]
    /\ restarts = 0
    /\ since = [w \in Wallets |-> 2 * MinInterval]
    /\ unsaved = [w \in Wallets |-> NoWorker]
    /\ overran = FALSE

Next ==
    \/ \E k \in Workers :
         \/ Begin(k) \/ SyncError(k) \/ End(k) \/ Restart(k)
         \/ \E saved \in BOOLEAN : SyncOk(k, saved)
    \/ HandlerLock \/ Expire \/ Clock

\* Workers loop, and handlers do not hold the lock each time one comes for it; Redis
\* expires keys; a wallet does not fail each time it is tried, nor does the write of
\* its due time.
SyncWallet(w) == \E k \in Workers : todo[k] # <<>> /\ Head(todo[k]) = w /\ SyncOk(k, TRUE)
TakeTurn(k) == SyncError(k) \/ End(k) \/ \E saved \in BOOLEAN : SyncOk(k, saved)
Fairness ==
    /\ SF_vars(\E k \in Workers : Begin(k))
    /\ \A k \in Workers : WF_vars(TakeTurn(k))
    /\ WF_vars(lock # NoWorker /\ (lock \in Workers => ~running[lock]) /\ Expire)
    /\ WF_vars(Clock)
    /\ \A w \in Wallets : SF_vars(SyncWallet(w))

Spec == Init /\ [][Next]_vars /\ Fairness

-----------------------------------------------------------------------------
\* wallet_next_due "mirrors" the stored due time (scheduler.rs:86): two ticks that
\* sync the same wallet begin at least the interval apart, over workers and their
\* restarts - unless the stored due time could not be written and another process
\* than the one that knows it comes next, or a tick outlived the lock.
NotTooSoon ==
    [][\A k \in Workers, saved \in BOOLEAN :
          SyncOk(k, saved) /\ unsaved[Head(todo[k])] \in {NoWorker, k} /\ ~overran
          => since[Head(todo[k])] - elapsed[k] >= MinInterval]_vars

\* "Round-robin cursor into the stable wallet list. This prevents the first
\* `max_wallets_per_tick` wallets from monopolizing every tick" (scheduler.rs:83):
\* every wallet whose syncs do not all fail is synced again and again.
EveryWalletSynced ==
    \A w \in Wallets : []<>(since[w] <= MinInterval)
=============================================================================
