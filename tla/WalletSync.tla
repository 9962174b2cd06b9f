----------------------------- MODULE WalletSync -----------------------------
(***************************************************************************)
(* crates/policy-server: the operations that change one user's wallets.    *)
(* The write handlers and the sync worker take the user's lock in Redis    *)
(* (coordination.rs), load wallet states, wait on the network and save     *)
(* them whole (db/src/stores/postgres.rs).  The lock has a time to live    *)
(* and no fencing: nothing stops an operation that outlives its lock.      *)
(*                                                                         *)
(* An operation is a process of its own, cut at every call of the store:   *)
(* between two of its steps any other operation may run, the lock may      *)
(* expire, and the process (or the request's future) may be dropped.       *)
(***************************************************************************)
EXTENDS Integers, FiniteSets

CONSTANTS
    Ops,         \* operations: the value a lock is taken with is unique to one
    Wallets,     \* addresses
    ChainSets,   \* the chain sets a wallet may be tracked on
    Permits,     \* deterministic ids of signed permits
    MaxActive,   \* MAX_ACTIVE_WALLETS_PER_USER: 128 in the code
    MaxPermits,  \* MAX_SIGNED_PERMIT_PENDINGS_PER_WALLET: 256 in the code
    NoLock,      \* the lock's key is absent from Redis
    NoState      \* the wallet has no row in wallet_states

ASSUME WalletAssumption ==
    /\ NoLock \notin Ops
    /\ MaxActive \in Nat /\ MaxPermits \in Nat
    /\ IsFiniteSet(Permits)
    /\ Wallets # {} /\ IsFiniteSet(Wallets)
    /\ ChainSets # {}

VARIABLES
    lock,     \* Redis "sync:user:<id>": the holder, or NoLock
    row,      \* table wallets
    snap,     \* table wallet_states
    ended,    \* permits that have expired or been consumed on chain
    op,       \* the operations: request, program counter, what they have read
    overran,  \* history: operations whose lock expired while they ran
    deleted,  \* history: wallets deleted, and not added again since
    asked     \* history: the ownership the user last set

db == <<row, snap>>
history == <<overran, deleted, asked>>
vars == <<lock, row, snap, ended, op, overran, deleted, asked>>

(***************************************************************************)
(* WalletState, as far as the handlers tell states apart: "empty" is what  *)
(* WalletState::new returns, "bare" holds something and no ERC-20.         *)
(***************************************************************************)
Holdings == {"empty", "bare", "erc20"}
WalletStates == [chains : ChainSets, holdings : Holdings, permits : SUBSET Permits]
ASSUME NoStateAssumption == NoState \notin WalletStates

New(chains) == [chains |-> chains, holdings |-> "empty", permits |-> {}]

Active == {w \in Wallets : row[w].tracked /\ ~row[w].archived}

Load(w, chains) == IF snap[w] = NoState THEN New(chains) ELSE snap[w]

\* Slip: every save reactivates.
SaveRevives(w, st, reactivate) ==
    /\ snap' = [snap EXCEPT ![w] = st]
    /\ row' = [row EXCEPT ![w] = [tracked |-> TRUE, archived |-> FALSE, chains |-> st.chains,
                                  owned |-> @.owned]]

\* save_state: one transaction over both tables.  A plain save touches only the
\* state of a wallet that is already there; reactivate also sets chains and
\* archived.
SaveState(w, st, reactivate) ==
    /\ snap' = [snap EXCEPT ![w] = st]
    /\ row' = [row EXCEPT ![w] =
          IF ~@.tracked THEN [tracked |-> TRUE, archived |-> FALSE,
                              chains |-> st.chains, owned |-> TRUE]
          ELSE IF reactivate THEN [tracked |-> TRUE, archived |-> FALSE,
                                   chains |-> st.chains, owned |-> @.owned]
          ELSE @]

\* What seed_holdings may leave: it only adds holdings.  It fails part of the way
\* or returns with at least the native balance of every chain.
Seeded(st, found) ==
    {[st EXCEPT !.holdings = h] : h \in (IF found THEN {"bare", "erc20"} ELSE Holdings)
                                        \ (IF st.holdings = "erc20" THEN {"empty", "bare"}
                                           ELSE IF st.holdings = "bare" THEN {"empty"} ELSE {})}

\* Slip: a permit whose nonce cannot be read is dropped as well.
SyncedUnsure(st) ==
    {[st EXCEPT !.permits = @ \ gone] : gone \in SUBSET st.permits}

\* What the orchestrator may leave: block heights and venue accounts make a state
\* non-empty; reconcile_permits drops permits that have ended, if it can tell.
Synced(st) ==
    {s \in WalletStates :
        /\ s.chains = st.chains
        /\ IF st.holdings = "empty" THEN s.holdings # "erc20" ELSE s.holdings = st.holdings
        /\ s.permits \subseteq st.permits /\ st.permits \ s.permits \subseteq ended}

(***************************************************************************)
(* The operations.                                                         *)
(***************************************************************************)
\* st: the state loaded; owned: what update_wallet_metadata selected; todo: the
\* wallets a tick has left.
Idle == [kind |-> "idle", w |-> CHOOSE w \in Wallets : TRUE, arg |-> "none",
         permit |-> {}, pc |-> "idle", chains |-> CHOOSE c \in ChainSets : TRUE,
         st |-> New(CHOOSE c \in ChainSets : TRUE), owned |-> TRUE, todo |-> {}]

Request(kinds, wallets, chainSets, args, permits) ==
    [kind : kinds, w : wallets, arg : args, permit : permits, pc : {"check"},
     chains : chainSets, st : {Idle.st}, owned : {TRUE}, todo : {{}}]

Requests ==
    Request({"add"}, Wallets, ChainSets, {"none", "label"}, {{}})
    \cup Request({"patch"}, Wallets, {Idle.chains}, {"label", "own", "watch"}, {{}})
    \cup Request({"delete", "sync"}, Wallets, {Idle.chains}, {"none"}, {{}})
    \cup Request({"permit"}, Wallets, {Idle.chains}, {"none"}, {{p} : p \in Permits})
    \cup Request({"tick"}, {Idle.w}, {Idle.chains}, {"none"}, {{}})

Running(o) == op[o].pc \notin {"idle", "done"}
At(o, kind, pc) == op[o].kind = kind /\ op[o].pc = pc
Goto(o, pc) == op' = [op EXCEPT ![o].pc = pc]
\* The handler's body returns: its locals are gone.
Leave(o, pc) == op' = [op EXCEPT ![o] = [Idle EXCEPT !.pc = pc, !.kind = op[o].kind]]

\* try_lock: SET NX PX with a fresh value.  A held lock is a 409, or the worker's
\* next user: nothing changes.  An add starts a new life of its wallet.
TryLock(o) ==
    /\ op[o].pc = "idle" /\ lock = NoLock
    /\ lock' = o
    /\ \E r \in Requests : op' = [op EXCEPT ![o] = r]
    /\ deleted' = IF op'[o].kind = "add" THEN deleted \ {op'[o].w} ELSE deleted
    /\ UNCHANGED <<row, snap, ended, overran, asked>>

\* Slip: the limit may be exceeded by one.
AddCheckOver(o) ==
    /\ At(o, "add", "check")
    /\ IF Cardinality(Active) > MaxActive /\ op[o].w \notin Active
       THEN Leave(o, "release") ELSE Goto(o, "load")
    /\ UNCHANGED <<lock, row, snap, ended, history>>

\* add_wallet_locked: the quota counts active wallets, this one excepted.
AddCheck(o) ==
    /\ At(o, "add", "check")
    /\ IF Cardinality(Active) >= MaxActive /\ op[o].w \notin Active
       THEN Leave(o, "release") ELSE Goto(o, "load")
    /\ UNCHANGED <<lock, row, snap, ended, history>>

\* Slip: the stored state is kept, whatever chains it is of.
AddLoadAny(o) ==
    /\ At(o, "add", "load")
    /\ op' = [op EXCEPT ![o].pc = "seed", ![o].st = Load(op[o].w, op[o].chains)]
    /\ UNCHANGED <<lock, row, snap, ended, history>>

\* A stored state of another chain set is replaced by a new one.
AddLoad(o) ==
    /\ At(o, "add", "load")
    /\ LET e == Load(op[o].w, op[o].chains) IN
       op' = [op EXCEPT ![o].pc = "seed",
                        ![o].st = IF e.chains = op[o].chains THEN e ELSE New(op[o].chains)]
    /\ UNCHANGED <<lock, row, snap, ended, history>>

AfterAdd(o) == IF op[o].arg = "label" THEN "update" ELSE "syncload"

\* A new state is seeded before it is saved; when discovery fails the empty state
\* is saved first and what was found is saved right after.
AddSave(o) ==
    LET w == op[o].w
        st == op[o].st
        isNew == st = New(op[o].chains)
    IN
    /\ At(o, "add", "seed")
    /\ \/ \E s \in IF isNew THEN Seeded(st, TRUE) ELSE {st} :
            SaveState(w, s, TRUE) /\ Goto(o, AfterAdd(o))
       \/ isNew /\ SaveState(w, st, TRUE) /\ Goto(o, "reseed")
    /\ UNCHANGED <<lock, ended, history>>

AddSaveFound(o) ==
    /\ At(o, "add", "reseed")
    /\ \E s \in Seeded(op[o].st, FALSE) : SaveState(op[o].w, s, TRUE)
    /\ Goto(o, AfterAdd(o))
    /\ UNCHANGED <<lock, ended, history>>

\* update_wallet_metadata, for an add's label and for patch_wallet: it selects
\* label and owned of an active row ...
SelectMetadata(o) ==
    /\ (At(o, "add", "update") /\ op[o].arg = "label") \/ At(o, "patch", "check")
    /\ IF op[o].w \in Active
       THEN op' = [op EXCEPT ![o].pc = "update", ![o].owned = row[op[o].w].owned,
                             ![o].arg = IF @ = "label" THEN "none" ELSE @]
       ELSE Leave(o, "release")
    /\ UNCHANGED <<lock, row, snap, ended, history>>

\* Slip: without an answer to "is it yours" the wallet is taken for owned.
UpdateOwned(o) ==
    LET w == op[o].w
        owned == op[o].arg # "watch"
    IN
    /\ op[o].pc = "update" /\ op[o].arg # "label"
    /\ row' = IF w \in Active THEN [row EXCEPT ![w].owned = owned] ELSE row
    /\ asked' = IF w \in Active /\ op[o].arg # "none"
                THEN [asked EXCEPT ![w] = owned] ELSE asked
    /\ IF op[o].kind = "add" THEN Goto(o, "syncload") ELSE Leave(o, "release")
    /\ UNCHANGED <<lock, snap, ended, overran, deleted>>

\* ... and updates both columns, if the row is still active.
UpdateMetadata(o) ==
    LET w == op[o].w
        owned == IF op[o].arg = "none" THEN op[o].owned ELSE op[o].arg = "own"
    IN
    /\ op[o].pc = "update" /\ op[o].arg # "label"
    /\ row' = IF w \in Active THEN [row EXCEPT ![w].owned = owned] ELSE row
    /\ asked' = IF w \in Active /\ op[o].arg # "none"
                THEN [asked EXCEPT ![w] = owned] ELSE asked
    /\ IF op[o].kind = "add" THEN Goto(o, "syncload") ELSE Leave(o, "release")
    /\ UNCHANGED <<lock, snap, ended, overran, deleted>>

\* delete_wallet_locked: archive_wallet, one UPDATE.
Delete(o) ==
    LET w == op[o].w IN
    /\ At(o, "delete", "check")
    /\ IF w \in Active
       THEN row' = [row EXCEPT ![w].archived = TRUE] /\ deleted' = deleted \cup {w}
       ELSE UNCHANGED <<row, deleted>>
    /\ Leave(o, "release")
    /\ UNCHANGED <<lock, snap, ended, overran, asked>>

\* ingest_permit_locked: an active, owned wallet that tracks the permit's chain.
\* sync_wallet_locked: an active wallet.  Both keep the row's chain set.
Resolve(o) ==
    LET w == op[o].w IN
    /\ op[o].kind \in {"sync", "permit"} /\ op[o].pc = "check"
    /\ \E tracked \in BOOLEAN :
         IF w \in Active /\ (op[o].kind = "permit" => row[w].owned /\ tracked)
         THEN op' = [op EXCEPT ![o].pc = "load", ![o].chains = row[w].chains]
         ELSE Leave(o, "release")
    /\ UNCHANGED <<lock, row, snap, ended, history>>

LoadInto(o, w, chains, pc) ==
    op' = [op EXCEPT ![o].pc = pc, ![o].w = w,
                     ![o].st = [Load(w, chains) EXCEPT !.chains = chains]]

\* Load before the permit upsert, before a sync's discovery, and in run_sync.
HandlerLoad(o) ==
    /\ op[o].kind \in {"add", "sync", "permit"}
    /\ \/ op[o].kind # "add" /\ op[o].pc = "load" /\ LoadInto(o, op[o].w, op[o].chains, "seed")
       \/ op[o].pc = "syncload" /\ LoadInto(o, op[o].w, op[o].chains, "syncsave")
    /\ UNCHANGED <<lock, row, snap, ended, history>>

\* upsert_pending_from_delta: by id, within the limit; then the save.
PermitSave(o) ==
    LET st == op[o].st
        next == st.permits \cup op[o].permit
    IN
    /\ At(o, "permit", "seed")
    /\ IF Cardinality(next) > MaxPermits /\ next # st.permits
       THEN UNCHANGED db
       ELSE SaveState(op[o].w, [st EXCEPT !.permits = next], FALSE)
    /\ Leave(o, "release")
    /\ UNCHANGED <<lock, ended, history>>

\* A sync without ERC-20 holdings seeds again and saves if that succeeded; with
\* them it looks for approvals and saves if it found some (holdings unchanged).
SyncDiscover(o) ==
    /\ At(o, "sync", "seed")
    /\ \/ \E s \in IF op[o].st.holdings = "erc20" THEN {op[o].st} ELSE Seeded(op[o].st, TRUE) :
            SaveState(op[o].w, s, FALSE)
       \/ UNCHANGED db
    /\ Goto(o, "syncload")
    /\ UNCHANGED <<lock, ended, history>>

\* run_sync's save, the last step of an add and of a sync.
SyncSave(o) ==
    /\ op[o].kind \in {"add", "sync"} /\ op[o].pc = "syncsave"
    /\ \E s \in Synced(op[o].st) : SaveState(op[o].w, s, FALSE)
    /\ Leave(o, "release")
    /\ UNCHANGED <<lock, ended, history>>

\* Scheduler::tick_once: list_wallets_for_sync picks some of the active wallets;
\* each is loaded, synced and saved, and an error goes on to the next.
TickList(o) ==
    /\ At(o, "tick", "check")
    /\ \E due \in SUBSET Active :
         op' = [op EXCEPT ![o].pc = "load", ![o].todo = {<<w, row[w].chains>> : w \in due}]
    /\ UNCHANGED <<lock, row, snap, ended, history>>

TickLoad(o) ==
    /\ At(o, "tick", "load")
    /\ \/ \E t \in op[o].todo :
            op' = [op EXCEPT ![o].pc = "syncsave", ![o].w = t[1], ![o].todo = @ \ {t},
                             ![o].st = [Load(t[1], t[2]) EXCEPT !.chains = t[2]]]
       \/ \E t \in op[o].todo : op' = [op EXCEPT ![o].todo = @ \ {t}]
       \/ op[o].todo = {} /\ Leave(o, "release")
    /\ UNCHANGED <<lock, row, snap, ended, history>>

TickSave(o) ==
    /\ At(o, "tick", "syncsave")
    /\ \/ \E s \in Synced(op[o].st) : SaveState(op[o].w, s, FALSE)
       \/ UNCHANGED db
    /\ Goto(o, "load")
    /\ UNCHANGED <<lock, ended, history>>

\* Any call of the store or the orchestrator may fail: the handler answers with an
\* error and releases its lock.  A tick ends early only when it cannot list.
Fail(o) ==
    /\ Running(o) /\ op[o].pc # "release"
    /\ op[o].kind = "tick" => op[o].pc = "check"
    /\ Leave(o, "release")
    /\ UNCHANGED <<lock, row, snap, ended, history>>

\* Slip: the key is deleted whoever holds it.
ReleaseAny(o) ==
    /\ op[o].pc = "release"
    /\ lock' = NoLock
    /\ Leave(o, "done")
    /\ UNCHANGED <<row, snap, ended, history>>
\* release_lock deletes the key only while it holds this operation's value.
Release(o) ==
    /\ op[o].pc = "release"
    /\ lock' = IF lock = o THEN NoLock ELSE lock
    /\ Leave(o, "done")
    /\ UNCHANGED <<row, snap, ended, history>>

\* The process stops, the client goes away and its request is dropped, or Redis
\* refuses the release: the lock is left to its time to live.
Vanish(o) ==
    /\ Running(o)
    /\ Leave(o, "done")
    /\ UNCHANGED <<lock, row, snap, ended, history>>

\* PX: Redis drops the key, whether or not its holder is still at work.
Expire ==
    /\ lock # NoLock
    /\ overran' = IF Running(lock) THEN overran \cup {lock} ELSE overran
    /\ lock' = NoLock
    /\ UNCHANGED <<row, snap, ended, op, deleted, asked>>

\* A permit's deadline passes or its nonce is used.
End(p) ==
    /\ p \notin ended
    /\ ended' = ended \cup {p}
    /\ UNCHANGED <<lock, row, snap, op, history>>

\* Some of the wallets were added by operations that are over.
Init ==
    /\ lock = NoLock
    /\ \E known \in {k \in SUBSET Wallets : Cardinality(k) <= MaxActive} :
         /\ row = [w \in Wallets |-> [tracked |-> w \in known, archived |-> FALSE,
                                      chains |-> Idle.chains, owned |-> TRUE]]
         /\ snap = [w \in Wallets |-> IF w \in known
                                      THEN [New(Idle.chains) EXCEPT !.holdings = "erc20"]
                                      ELSE NoState]
    /\ ended = {}
    /\ op = [o \in Ops |-> Idle]
    /\ overran = {} /\ deleted = {}
    /\ asked = [w \in Wallets |-> TRUE]

Step(o) ==
    \/ TryLock(o) \/ AddCheck(o) \/ AddLoad(o) \/ AddSave(o) \/ AddSaveFound(o)
    \/ SelectMetadata(o) \/ UpdateMetadata(o) \/ Delete(o) \/ Resolve(o)
    \/ HandlerLoad(o) \/ PermitSave(o) \/ SyncDiscover(o) \/ SyncSave(o)
    \/ TickList(o) \/ TickLoad(o) \/ TickSave(o)
    \/ Fail(o) \/ Release(o) \/ Vanish(o)

Next == (\E o \in Ops : Step(o)) \/ Expire \/ (\E p \in Permits : End(p))

Spec == Init /\ [][Next]_vars
-----------------------------------------------------------------------------
(***************************************************************************)
(* What the lock gives, and what holds even when it is outlived.           *)
(***************************************************************************)
\* A running operation holds the user's lock unless the lock expired under it:
\* release_lock compares the value, so an operation that comes late never frees the
\* lock of the one that took over.
HoldsItsLock == \A o \in Ops : Running(o) /\ o \notin overran => lock = o

\* The permits recorded for a wallet: ingest_permit answers OK once they are saved.
Recorded(w) == IF snap[w] = NoState THEN {} ELSE snap[w].permits

\* A recorded permit that has neither expired nor been consumed leaves the stored
\* state in one way only: an add of its wallet that asks for another chain set than
\* the stored one starts with a new state (write_handlers.rs:154), for an active
\* wallet as well as for a deleted one.  No other load-modify-save writes it away, as
\* long as no operation outlived its lock.
PermitsKept ==
    [][overran = {} =>
         \A w \in Wallets : \A p \in Recorded(w) \ ended :
            \/ p \in Recorded(w)'
            \/ \E o \in Ops : /\ At(o, "add", "seed")
                             /\ op[o].w = w /\ op[o].chains # snap[w].chains]_vars

\* add_wallet_locked checks the quota long before it reactivates the wallet; the
\* lock keeps the check valid.
QuotaHeld == overran = {} => Cardinality(Active) <= MaxActive

\* "plain state saves preserve `archived` so in-flight syncs cannot resurrect a
\* user-deleted wallet" (write_handlers.rs:190): a deleted wallet stays archived
\* until it is added again, even if syncs, ticks, patches and permit reports outlive
\* their locks.
StaysDeleted ==
    (\A o \in overran : op[o].kind \notin {"add", "delete"})
        => \A w \in deleted : row[w].archived

\* update_wallet_metadata writes back the column it was not asked to change: the
\* lock keeps a label write from undoing the ownership the user set.
OwnershipKept ==
    overran = {} => \A w \in Wallets : row[w].owned = asked[w]

\* The snapshot of an active wallet is one of the chain set it is tracked on: what
\* load_active_by_address and the scheduler take the wallet's identity to be.
ChainsAgree ==
    overran = {} => \A w \in Active : snap[w] # NoState /\ snap[w].chains = row[w].chains
=============================================================================
