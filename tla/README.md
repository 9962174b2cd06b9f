# A TLA+ development of Dambi

Dambi decodes wallet requests into actions and judges them against signed
policies before anything is signed. This directory models the parts of it that
hold state others depend on:

* the Dambi Core, which holds the trust state and gives the verdicts: the Rust
  session that is compiled to WASM (`crates/dambi-core`) and the JavaScript runtime
  that drives it on the event loop (`packages/core`);
* the browser extension's path of a request from the page to a verdict and back;
* the policy server's wallets, sync workers, logins and refresh sessions;
* the registry API's proxy and rate limiter.

Safety properties are checked by TLC on small instances and proved with TLAPS for all
values of the constants; liveness is checked by TLC only; the logins, the refresh
sessions and the rate limiter are proved only.

## The system and its parts

| Part | Where | Here |
|---|---|---|
| Policy bundle rules: time, scope, sequence | `dambi-core/src/bundle/semantics.rs` | `PolicyBundle` |
| Snapshot store: the active policy and its refreshes | `dambi-core/src/snapshot/store.rs` | `SnapshotStore`, proofs in `RefreshProofs` |
| Session: plans, evaluation, refresh handles | `dambi-core/src/session/mod.rs`, `session/facts.rs` | `CoreSession`, proofs in `CoreSessionProofs` |
| Fact cache | `packages/core/src/runtime/fact-cache.ts` | `FactCache`, proofs in `FactCacheProofs` |
| Runtime: `check`, `plan`, `evaluate`, `refreshPolicies`, `dispose` | `packages/core/src/runtime/core-runtime.ts`, `io.ts`, `scam-runtime.ts` | `CoreRuntime`, proofs in `CoreRuntimeProofs` |
| Extension: request, verdict, window, timers | `browser-extension/backend` (`lib`, `content-scripts`, `service-worker`), `frontend/confirm` | `VerdictGate`, proofs in `VerdictGateProofs` |
| Extension and policy-server: refresh sessions | `service-worker/dambi-auth`, `auth/oauth.rs`, `postgres.rs` | `AuthSession`, proofs in `AuthProofs` |
| policy-server: which user a login is | `db/src/stores/postgres.rs` | `OAuthUsers`, proofs in `AuthProofs` |
| policy-server: user lock, write handlers, sync of a wallet | `server/src/write_handlers.rs`, `coordination.rs`, `sync_worker.rs`, `postgres.rs` | `WalletSync`, proofs in `WalletSyncProofs` |
| policy-server: choice and timing of the wallets to sync | `sync/src/runtime/scheduler.rs`, `sync_worker.rs` | `SyncScheduler`, proofs in `RefreshProofs` |
| Registry API: proxy, object cache, coalesced reads | `registry-api/src/server.ts`, `cache.ts`, `single-flight.ts` | `RegistryProxy`, proofs in `RegistryProxyProofs` |
| Registry API: rate limiter | `registry-api/src/rate-limiter.ts` | `RateLimiter`, proofs in `RegistryProxyProofs` |
| Scam channel, policy runtime, lowering, decoding, asset model, adapters, registry, UI | remaining crates and directories | not modelled |

How they interact, in the Core: the runtime owns one session (through WASM) and one fact
cache. `check()` has the session plan a request, which pins the active policy and
names the facts it needs; takes facts from the cache; fetches the rest; hands all
to the session, which consumes the plan and gives a verdict; and caches the facts
of an evaluated verdict unless a refresh committed meanwhile. `refreshPolicies()`
takes a ticket from the session, fetches a bundle and commits it under the ticket;
the session passes it to its store, where the attempt begun last wins.

`PolicyAuthority` is the abstract specification of the trust state: one policy,
replaced only by one of a strictly higher sequence and the same scope, until it is
retired for good. `SnapshotStore` and `CoreSession` are both shown to implement it.

Around the Core: the extension's service worker asks a verdict for every request a
page makes, and the user if the verdict is a warning. It signs in at the policy
server and keeps a pair of tokens, which rotate. The server keeps what each wallet
holds; write handlers (on behalf of the extension) and sync workers load and save
the same rows under a lock per user. The registry API serves the index of adapters
from a bucket that a publisher rewrites.

## The modules

**PolicyBundle** has operators only. A payload is a record of the fields the
rules look at; `body` stands for the rest of the bytes. Parsing and signature
verification are two Booleans of an input. `ValidateInput`, `CheckTime`,
`EnsureFresh` and `Replaces` are `validate_policy_bundle`, `check_time`,
`ensure_fresh` and the accepting branch of `check_update`.

**SnapshotStore.** `disposed`, `generation`, `pending` and `active` are the
fields of the Store and its lifecycle; `prepared` holds the candidates callers
have in hand (a `PreparedRefresh` is a value of its own and may belong to another
Store); `installs` is a history. One action per operation. A commit by a current
attempt ends the attempt whatever `check_update` says; any other changes nothing.

**CoreSession** contains the Store's variables and uses its actions through
INSTANCE. `plans` is the pending table, `retired` the tombstones, `refresh` the
session's own refresh record; `issued` and `consumed` are histories and `reply` is
the verdict returned last. `Plan` evicts expired plans even when it then refuses
the request, as the code does. `Evaluate` consumes the plan first and then judges
with two clock readings, the caller's and one after the advisory (scam) analysis;
without an advisory the second is the first. What Cedar
answers for a node is arbitrary among pass, warn, deny and failure. The advisory
channel can turn an allow into a warning, no more.

**FactCache** is the insertion-ordered map with its byte count, its limits and
the last clock reading; a reading that goes back clears it. A batch is a sequence
of responses, each storable, skipped, or ending the loop by an exception. Whether
the batch as a whole can be copied is arbitrary, because the code measures it
without the keys that count in the entries.

**CoreRuntime** is one instance on the event loop. A call is cut into actions at
every await and wherever code of the host runs (the pending hook, the clock inside an
evaluation, the hooks of `#publish`), since that code may call back into the instance.
A call that has its verdict and tells the hooks of it is at that verdict (`Publishes`)
until they return and the promise resolves (`Publish`). `depth` is `#evaluationDepth`: while it is 1
the WASM engine is on the stack, and a re-entrant call that needs the engine fails
(an exclusive borrow in the generated bindings, outside the repository). `op` and
`scamOp` are the operations of `startOperation`, which settle once: by their
answer, their timer, the caller's signal or `cancel()`. The engine is reduced to
the plans it holds, the ticket it expects and the number of policies installed;
whether it accepts a request or a bundle is arbitrary, as is whether a plan has
expired. Each check plans one required call. `FactCache` is composed by INSTANCE
with one key and room for one entry.

**VerdictGate** is a tab, the service worker, a window per request and the stored
maps. `page` is `awaitVerdict` with its two phases, `bridge` the content script's
handler, `port` the messages on the way to it. `sw` is where `decideInner` is, cut at
its awaits; `ahead` is `actorChain`, as the requests of the same actor that came before
and have not settled, and `Turn` the wait for them. `pend` and `store` are the maps in `storage.session`: each
update reads a whole map, awaits and writes it whole, so `held` (service worker) and
`copy` (window) hold what was read. The lifecycle's verdict, the scam review and the
choice to ask are arbitrary. `Die` is the browser stopping the service worker, at any
moment: the stored maps and the window survive it, the memory does not. Timers may
fire whenever they are armed.

**AuthSession** numbers token pairs as they are issued. The server has their
descent and revocation, the client the stored pair, the guard of its notice and its
requests, each cut where it awaits the server; a dashboard page may refresh by itself
and send the extension what it has, old or new. Answers get lost and the service
worker stops. **OAuthUsers** is one `upsert_oauth_user` transaction per login, with
its advisory and row locks and the unique indexes of the table.

**WalletSync** has one process per operation (add, patch, delete, sync, permit
report, worker tick) on the wallets of one user, cut at every call of the store. The
lock may expire under an operation, which then goes on, as in the code: there is no
fencing. An operation may be dropped between any two steps. `overran` remembers which
outlived their lock. A wallet's state is reduced to its chain set, its signed permits
and whether holdings are empty, native only or more.

**SyncScheduler** is the other side of the worker: its cursor and due times in
memory, the due times in the database, ticks of at most `Limit` wallets, syncs that
fail, saves that fail, restarts. Times are what is left until them. The wallets of a
tick are those with fewer than `Limit` due wallets before them in the order of the
query, and the list is the sequence of them in that order (`InOrder`), which needs no
recursion.

**RegistryProxy** has requests for objects, index entries (materialised from a
bundle and a context) and leaves; the LRU cache with its lifetimes; the single-flight
map; reads that fail; and the publisher, external, who replaces objects one by one.
**RateLimiter** is the map of token buckets, in units of which a request costs
`Cost`, under a clock that may be set back.

**MC\*** modules define the payloads, requests and batches of the instances.
Definitions marked *Slip* are wrong variants of the definition they precede; they
document which mistake each property detects, and are used nowhere else.

## What TLC checks

| Run | Configuration | Distinct states | Properties |
|---|---|---|---|
| `snapshot_store` | `MCSnapshotStore.cfg` | 62,532 | `InstallsOrdered` `FreshWhenActivated` `OnlyLatestBegunActivates` `RefinesAuthority` |
| `session_lifecycle` | `MCCoreSession_lifecycle.cfg` | 46,910 | `RefreshMatchesStore` `PlanAccounting` `OneJudgementPerPlan` `RefinesAuthority` |
| `session_verdicts` | `MCCoreSession_verdicts.cfg` | 2,225 | `EvaluatedIsSound` `PinnedPolicy` `FailClosed` |
| `fact_cache` | `MCFactCache.cfg` | 2,142 | `BytesAccounted` `FactsFresh` `NewestObservationKept` |
| `fact_cache_order` | `MCFactCache_order.cfg` | violation | `NewestObservationAlwaysKept` |
| `runtime_checks` | `MCCoreRuntime_checks.cfg` | 814,607 | `NothingAfterDispose` `NothingLeftBehind` `CachedUnderInstalledPolicy` `OnlyDisposalRejects` |
| `runtime_progress` | `MCCoreRuntime_progress.cfg` | 220,865 | `ReleasedOnce` `LatestRefreshInstalls` `CallsEnd` `InterruptionHonoured` |
| `verdict_gate` | `MCVerdictGate.cfg` | 172,324 | `OnlyCleared` `PendingExact` `RejectedStays` `PageAnswered` `QueueMoves` |
| `verdict_gate_time` | `MCVerdictGate_time.cfg` | violation | `UserHasTime` |
| `wallet_sync` | `MCWalletSync.cfg` | 175,734 | `HoldsItsLock` `PermitsKept` `StaysDeleted` `OwnershipKept` `QuotaHeld` `ChainsAgree` |
| `sync_scheduler` | `MCSyncScheduler.cfg` | 152,678 | `NotTooSoon` `EveryWalletSynced` |
| `registry_proxy` | `MCRegistryProxy.cfg` | 94,578 | `FlightsShared` `NeverMixed` `LandedLeafFound` `RequestsEnd` `Converges` |

Types are left to the proofs (`TypeOK` of the store, the session, the logins and the
rate limiter; `Types` and `Server`, `Client` in the proofs of the gate and the refresh
sessions); a run checks only what could go wrong in the code.

To run one: `tlc -config MCFactCache.cfg MCFactCache`.

The bounds, and why they are enough for the question asked:

* *snapshot_store*: two generations, two candidates, five payloads: two of the
  same sequence, one expiring early, one issued in the future, one of another
  scope. Two generations give a superseded and a superseding attempt; clocks run
  over every boundary of the time rules, with seconds and milliseconds distinct.
* *session_lifecycle*: three plans for a table and tombstones of two, so both
  overflow; two refreshes. *session_verdicts*: one plan and batches around every
  condition of `facts.rs`; one refresh that changes the policy's required facts.
* *fact_cache*: three keys for two entries; sizes that fit singly, together, and
  not at all; five clock values and one outside the safe range.
* *runtime_checks*: two checks, one refresh. Two checks share cache and engine and
  can evict each other's plans. *runtime_progress*: two refreshes, so that one can
  supersede the other, a check and a host's `plan()`/`evaluate()` pair; no clock. The
  check may be interrupted at any cut: `InterruptionHonoured` is about all of its steps
  from there to its answer, and ends where the verdict is given to the hooks.
* *verdict_gate*: two requests of one actor: one waits in the queue for the other,
  and after a stop of the service worker the window of the first is still open while
  the second is decided. More requests, and several actors, are left to the proofs.
* *wallet_sync*: two operations, of any kind, one after the other or overlapping
  through an expired lock; two wallets, chain sets and permits with limits of one, so
  that each limit is met; some of the wallets are there at the start. Every property
  is about what one operation does to what another has read or written.
  `PermitsKept` is about every step and every permit that is stored, reported or
  not yet answered; its one exception is the add that starts a new state.
* *sync_scheduler*: two wallets, one per tick, so that a tick leaves one out; two
  workers with cursors of their own; a restart forgets one.
* *registry_proxy*: two requests for three objects and a cache of one entry, so that
  every store evicts; one write of the publisher, between any two steps, to an empty
  bucket or a complete build; a 404 that lives shorter than an object.

Deadlock is not reported where the system may stop: a disposed store or session
does nothing more, and finite sets of calls, requests or operations end. The
scheduler never stops, and is checked for deadlock.

Fairness, where a run has liveness properties:

* *runtime_progress*: weak fairness of the event loop (a call whose next step can run
  takes it, a due timer fires) and of the engine and the hooks returning. Nothing is
  assumed of providers, callers, the host or `dispose()`; `Answer` is not fair.
* *verdict_gate*: the page's timers fire, and the service worker goes on while it
  lives. The content script, the port, the window and the user owe nothing, and the
  service worker may die. `QueueMoves` counts a request that died with it as ended.
* *sync_scheduler*: some worker gets the lock again and again (strong: handlers take
  it between), a tick goes on, a lock whose holder is gone expires, time passes, and a
  wallet that is tried again and again does not fail for ever.
* *registry_proxy*: a read is answered or fails, continuations run, timers pass. The
  event loop takes settled promises in turn, hence strong fairness of `Settle`: its
  guard is off while another continuation runs. Requests and publisher owe nothing.

### A comment the code does not keep

`fact-cache.ts:84` says "Concurrent checks may complete in reverse order. Keep the
newer fact." `fact_cache_order` shows a `put()` whose first call makes room by
evicting the newer fact of its second call, whose older observation is then stored.
`NewestObservationKept` is what does hold: the newer fact is kept unless the batch
had to evict. The older fact is still within the allowed age, so no verdict is
affected.

### A message that does not arrive

`orchestrator.ts:2095` says "Extend the inpage stream timer so the user has time to
read and decide." `verdict_gate_time` shows a page still in phase 1 while its user
is asked and every message was delivered. The content script makes a new id for the
port (`sendToPortAndAwaitResponse`), the service worker answers with that id, and the
listener at `window-ethereum-messages.ts:62` compares it with the id of the page's
stream: they never match, and the page rejects after ten seconds. The request is
refused, never let through (`OnlyCleared`), but the user's answer comes too late.
`content-scripts/fetch-bridge.ts:80` has the same comparison.

### Observations

Met while modelling; each is what the models do, and no property claims otherwise.

* `packages/core/README.md:736` says "A disposed instance rejects ongoing and new
  checks.", and `core-runtime.ts:555` "A disposed instance rejects, including in-flight
  checks." A hook of `#publish` that disposes the instance, or aborts the signal, comes
  after the last test of either: the verdict it was told of is answered. The cache has
  been written before, and is cleared. `InterruptionHonoured` ends where that begins.
* `orchestrator.ts:199` compares the stored chain with `next`, while what was stored
  is `next.finally(...)`: the entry of an actor is never deleted. Only memory is lost.
* `orchestrator.ts:2002` says a decision "Survives SW restart via storage.session
  decision durability". The record does; nobody reads it after a restart, and the page
  answers by its timer.
* The pending and decision maps are read, awaited and written whole without
  synchronisation between actors, so an update can be lost. `PendingExact` is
  therefore about one actor. `OnlyCleared` holds regardless; a lost decision is found
  by the message, the window's end or the deadline.
* `write_handlers.rs:148` says "For already-known wallets this is a no-op — the
  existing holdings stay put.", and lines 157-159 explain the new state by a
  soft-deleted wallet that is added again. The test is of the chain set only: an active
  wallet added with another one gets a new state too, and its recorded permits are gone
  with the old. It is the exception `PermitsKept` names; `ChainsAgree` is what holds.
* `scheduler.rs:83` says the cursor "prevents the first `max_wallets_per_tick` wallets
  from monopolizing every tick". Cursor and due time move only when a sync succeeds: as
  many wallets as fit a tick, each failing every time, fill every tick.
* `dambi-auth/client.ts:197`: any answer to a refresh but a success, a 500 or a lost
  race included, drops the stored tokens and shows the session-expired notice.
  `SessionKept` names the overlap as its exception.

## What is proved

Eight modules are checked by `tlapm` to the last leaf. The Core's theorems are for any
payloads, limits and clock range allowed by `BundleAssumption` and
the other named assumptions (constants are naturals, limits positive where the
code's configuration demands it, planned nodes well formed); the hypotheses of the
others are named below.

* **SnapshotStore**: `TypeCorrect`, `InstallsAreOrdered`, `ActivationsAreFresh`,
  `LatestBegunActivates`, `StoreRefinesAuthority`. `InstallsOrdered` alone is not
  inductive: a commit adds an install, and nothing says that those already there
  are older and lower. `Floor` does: only the attempt begun last can be pending,
  installs are older than a pending attempt, and the active policy has the
  highest sequence activated so far. Prepared candidates need no invariant beyond
  their type, since a commit checks the attempt, the freshness and the floor again.
* **CoreSession**: `TypeCorrect`, `RefreshConsistent`, `PlansAccounted`,
  `EvaluatedVerdictsAreSound`, `VerdictsArePinned`, `FailuresDeny`, `JudgedOnce`,
  `SessionRefinesAuthority`. The invariant `IInv` joins `TypeOK`, the agreement of
  session and Store (`RefreshMatchesStore`), the `Bookkeeping` of pending plans,
  tombstones and consumed plans, and `Numbered`. `Bookkeeping` is not inductive
  without `Numbered`: a new plan could carry the identifier of a tombstone, were
  not all identifiers in use at most `nextPlan` and those of issued plans unique.
  Lemmas say what the operators do to these (`retire` keeps the newest tombstones,
  `Judge` looks at every condition). The verdict properties follow from one lemma on
  `Evaluate`: a reply comes from a pending plan, which was issued as it is.
* **FactCache** (`CacheAssumption`), for any keys, sizes, limits, clock range and
  batches of any length: `BytesAreAccounted`, `FactsAreFresh`, `NewestIsKept`. The
  operators recur over sequences, so this needs induction over data. The library's
  induction theorems take a predicate, which the provers cannot instantiate; here
  `Induction`, `SeqInduction` and `LeastMember` are stated for *sets*, proved from
  well-foundedness of the naturals, and applied to the set of the numbers or sequences
  that have the property. With them: `Only` filters and splits over concatenation,
  removing a key takes its bytes off the sum, the eviction loop (`Room`) ends with room
  for the entry, and `StoreAll` keeps the invariant and, when the batch fits, moves
  observations forward only.
* **CoreRuntime** (`RuntimeAssumption`, `NoAnswerAssumption`), for any number of checks,
  handles and refreshes: `EngineReleasedOnce`, `DisposedIsQuiet`, `CallsLeaveNothing`,
  `InterruptedNotJudged`, `LiveChecksAnswer`, `LatestInstalls`, `CachedUnderPolicy`. The
  invariant says where each kind of call can be (`Placed`), that only one is in the
  engine and `depth` counts it (`EngineInv`), that a pending operation belongs to a
  check or to the one refresh that `dispose()` cancels (`OpInv`), and that a plan of a
  check is in the engine only while the check would still end it (`PlanInv`).
  `InterruptionHonoured` looks from one state to all later ones, and so needs what
  stays true in between: the check is not at a judged verdict, and is interrupted until
  it is at `fail_closed` or has ended (`Interrupted`, kept by every step); and a judged
  answer is only that of a check which was at that verdict (`JudgedAnswer`).
  `CachedUnderInstalledPolicy` is about the cache alone and needs `EpochInv`: a call
  whose epoch is still the current one was planned under the installed policy. What
  `get` and `put` do to the entries is cited from `FactCacheProofs`: every step of the
  runtime is, for the cache, one of its operations with a fact that was observed under
  the installed policy (`CacheMoves`), or leaves it alone.
* **VerdictGate**, without hypotheses, any number of requests and actors:
  `OnlyClearedAlways`, `RejectedStaysAlways`, `PendingIsExact`. `OnlyCleared` is about the page, which
  believes a message, which was posted from a result, which came from a button or a
  stored decision, which another request may have written back from an old copy.
  `AllowsTraced` says of each of these places that an allow in it is of a cleared
  request. That no map is written by one hand only does not matter then: whatever is
  written back was read, and names its request. `PendingExact` does depend on who
  writes: of two unsettled requests one is ahead of the other (`Exact`), and only queued
  requests have others ahead (`Chained`), so at most one is past its turn (`Alone`) and
  the map it has read is the map it writes back. `Die` empties the chain, but it ends
  every request with it.
* **AuthSession**, for any number of requests and any `MaxTokens` in `Nat` (`Bound`):
  `OneLiveSessionAlways`, `NoticeOnceAlways`, `SessionKeptAlways`. The invariant joins
  the server's side (a pair with a successor is revoked, what is not issued has no
  descent), the client's (it holds only issued pairs), the notices (once one was
  shown the guard is set), and
  `InStep`: undisturbed, a request that awaits a refresh is the only one and holds the
  stored pair or its successor.
* **OAuthUsers**, for any logins, subjects and emails (`Distinct`: the markers for
  nothing are not values): `SameUserAlways`, `FirstLoginSucceeds`. The argument is
  what a lock lets its holder rely on: a login that found no row of its subject, and
  later none of its email, holds both advisory locks, so neither can have appeared
  (`Locked`, `Searched`); `Rows` has the unique indexes and that a row with a
  subject's id is that subject's.
* **WalletSync** (`WalletAssumption`, `NoStateAssumption`), for any number of
  operations, wallets, chain sets and permits: `LockHeld`, `DeletedStays`,
  `RecordedPermitsKept`, `QuotaKept`, `OwnershipAsAsked`, `SnapshotsOfRows`. `LockInv` and
  `RowsKept` hold however long operations take. `DeletedInv` is conditional on adds and
  deletes staying within their locks, whatever syncs and ticks do. `AloneInv` is for
  when no operation outlived its lock: what the holder of the lock has read
  (`UpToDate`) is what the tables hold, including that a quota once checked still has
  room. For `RecordedPermitsKept` that is the point: a save that is not of an add with
  another chain set writes what it read, less the permits that ended (`PlainSaves`).
* **SyncScheduler** (`Configured`: finitely many wallets, the marks for nobody are no
  workers), for any number of workers, wallets and restarts, any limit and any interval:
  `SyncsApart`. That a tick syncs no wallet too soon says nothing between the syncs.
  `DueKnown` does: what is left until a wallet is due and the age of its last sync make
  up at least the interval, by the stored due time or by that of the worker that could not store
  it. What a tick has listed was due when it began, and stays so by its own clock
  (`InTime`), as long as nobody else syncs it: unless a tick outlives the lock, the one
  that runs holds it (`OneTick`), and has each wallet on its list once (`Once`).
* **RegistryProxy** (`ProxyAssumption`: the markers are no contents, and entries,
  bundles and context are distinct), for any number of requests, objects and builds,
  any size and lifetimes of the cache: `FlightsAreShared`, `BuildsNeverMix`,
  `LandedLeavesAreFound`. The invariant has one read per object that is in flight, of
  its content or none (`FlightOK`); cached entries matched with their context and no
  missing leaf cached (`CacheOK`); and of a request that the read it began is still
  under way while it is unanswered (`Begun`), and that no read since its start has
  missed a leaf that was there (`Landed`). Eviction order plays no part in it.
* **RateLimiter** (`Limits`: burst, refill and cost are naturals, a request costs
  something and fits a burst): `PaidAlways`, `RateIsCapped`. A clock set back
  takes units away with it, so units held plus units given are bounded by burst and
  refill of the time since the bucket was made, read at its own clock.

`AuthSession`, `OAuthUsers` and `RateLimiter` are proved and have no TLC run of
their own. Only model-checked are the liveness properties (`CallsEnd`, `PageAnswered`,
`QueueMoves`, `EveryWalletSynced`, `RequestsEnd`, `Converges`: fairness and ENABLED are
out of the prover's reach).

## Not modelled

Because there is no protocol in it or TLC cannot reach it: lowering to Cedar and Cedar
itself, calldata decoding, the asset-model reducers (arithmetic over many protocols),
ABI lookup, the registry data and its scripts, the user interfaces, generated
bindings. These are by far the most of the repository's lines.

In the Core, parsing, signatures, digests, messages and diagnostics are abstracted
away. The Scam channel is a second refresh channel like the policy's, whose answer
can only weaken a verdict; `CoreSession` has that answer as a choice, and
`initializeCore`, `refreshScam` and `setScamSettings` are left out.

In the extension: requests that bypass the gate, batches, the hooks of `fetch` and
`XMLHttpRequest` (whose bridge is like the modelled one), windows that only inform,
the list of past verdicts, manifest installation. A failed write of the audit entry
is not told apart. In the policy server: the OAuth exchange, JWT, read handlers,
policies, markets and simulation. In the registry API: path checks, headers, the log.

Known and accepted: `evaluate()` leaves the engine's plan to its TTL when the
handle has expired or the second clock reading throws; `HostEvaluate` models it,
so `NothingLeftBehind` speaks of the plans of checks only.
