-------------------------- MODULE WalletSyncProofs --------------------------
(***************************************************************************)
(* TLAPS proofs about WalletSync, for any number of operations, wallets,   *)
(* chain sets and permits and every limit: what the user's lock gives the  *)
(* operations that hold it, and what survives one that outlives its lock.  *)
(***************************************************************************)
EXTENDS WalletSync, FiniteSetTheorems, TLAPS

Rows == [tracked : BOOLEAN, archived : BOOLEAN, chains : ChainSets, owned : BOOLEAN]
Kinds == {"idle", "add", "patch", "delete", "sync", "permit", "tick"}
Labels == {"idle", "check", "load", "seed", "reseed", "update", "syncload", "syncsave",
           "release", "done"}
Operations ==
    [kind : Kinds, w : Wallets, arg : {"none", "label", "own", "watch"},
     permit : SUBSET Permits, pc : Labels, chains : ChainSets, st : WalletStates,
     owned : BOOLEAN, todo : SUBSET (Wallets \X ChainSets)]

Types ==
    /\ lock \in Ops \cup {NoLock}
    /\ row \in [Wallets -> Rows]
    /\ snap \in [Wallets -> WalletStates \cup {NoState}]
    /\ op \in [Ops -> Operations]
    /\ overran \subseteq Ops
    /\ deleted \subseteq Wallets
    /\ asked \in [Wallets -> BOOLEAN]

(***************************************************************************)
(* The inductive invariant, in four parts.                                 *)
(***************************************************************************)
\* Who has the lock; an operation that outlived it was started.
LockInv == HoldsItsLock /\ \A o \in overran : op[o].pc # "idle"

\* The operation has found its wallet's row, or made it.
Found(o) ==
    \/ op[o].pc = "syncsave"
    \/ op[o].kind \in {"sync", "permit"} /\ op[o].pc \in {"load", "seed", "syncload"}
    \/ op[o].kind = "add" /\ op[o].pc \in {"reseed", "update", "syncload"}

\* Rows are never removed: this holds however long operations take.
RowsKept ==
    /\ \A w \in deleted : row[w].tracked
    /\ \A o \in Ops : /\ Found(o) => row[op[o].w].tracked
                      /\ \A t \in op[o].todo : row[t[1]].tracked

\* Adds and deletes exclude each other while none of them outlives its lock.
DeletedInv ==
    (\A o \in overran : op[o].kind \notin {"add", "delete"})
        => /\ \A w \in deleted : row[w].archived
           /\ \A o \in Ops : op[o].kind = "add" /\ op[o].pc \notin {"idle", "done", "release"}
                                => op[o].w \notin deleted

\* The tables themselves, when operations run one at a time.
OwnedAsAsked ==
    \A w \in Wallets : row[w].owned = asked[w] /\ (~row[w].tracked => row[w].owned = TRUE)
ChainsIn == \A w \in Active : snap[w] # NoState /\ snap[w].chains = row[w].chains
InQuota == Cardinality(Active) <= MaxActive
TablesGood == OwnedAsAsked /\ ChainsIn /\ InQuota

\* What an operation that runs alone has read is what the tables hold: the quota
\* checked by an add still has room, a state to be saved has the permits of the one
\* it replaces and the chain set of its row.
Room(w) == w \in Active \/ Cardinality(Active) < MaxActive

UpToDate(o) ==
    LET w == op[o].w
        st == op[o].st
        pc == op[o].pc
    IN
    /\ op[o].kind = "add" /\ pc \in {"load", "seed", "reseed"} => Room(w)
    /\ op[o].kind = "add" /\ pc \in {"seed", "reseed"}
        => /\ st.chains = op[o].chains
           /\ snap[w] # NoState /\ snap[w].chains = st.chains => st.permits = snap[w].permits
           /\ pc = "reseed" => snap[w] # NoState /\ snap[w].chains = st.chains
    /\ Found(o) /\ op[o].kind # "tick" => op[o].chains = row[w].chains
    /\ pc = "syncsave" \/ (op[o].kind # "add" /\ pc = "seed")
        => /\ st.chains = row[w].chains
           /\ snap[w] # NoState => st.permits = snap[w].permits
    /\ pc = "update" /\ op[o].arg = "none" => op[o].owned = row[w].owned
    /\ \A t \in op[o].todo : op[o].kind = "tick" /\ t[2] = row[t[1]].chains

AloneInv ==
    overran = {} => TablesGood /\ \A o \in Ops : Running(o) => UpToDate(o)

IInv == Types /\ LockInv /\ RowsKept /\ DeletedInv /\ AloneInv

(***************************************************************************)
(* The operators.                                                          *)
(***************************************************************************)
LEMMA IdleType == Idle \in Operations
<1>1. Idle.w \in Wallets /\ Idle.chains \in ChainSets
  BY WalletAssumption DEF Idle
<1> QED
  BY <1>1 DEF Idle, Operations, Kinds, Labels, WalletStates, Holdings, New

LEMMA NewType == ASSUME NEW c \in ChainSets PROVE New(c) \in WalletStates
  BY Zenon DEF New, WalletStates, Holdings

\* save_state writes one wallet; a plain save leaves a row that is there alone.
LEMMA SaveWrites ==
    ASSUME Types, NEW w \in Wallets, NEW st \in WalletStates, NEW re \in BOOLEAN,
           SaveState(w, st, re)
    PROVE  /\ row' \in [Wallets -> Rows]
           /\ snap' \in [Wallets -> WalletStates \cup {NoState}]
           /\ \A v \in Wallets \ {w} : row'[v] = row[v] /\ snap'[v] = snap[v]
           /\ snap'[w] = st
           /\ row'[w].tracked
           /\ re => row'[w].chains = st.chains /\ ~row'[w].archived
           /\ row[w].tracked => row'[w].owned = row[w].owned
           /\ ~row[w].tracked => row'[w].owned = TRUE
           /\ row[w].tracked /\ ~re => row'[w] = row[w]
<1>1. row[w] \in Rows /\ snap[w] \in WalletStates \cup {NoState} /\ st.chains \in ChainSets
  BY DEF Types, WalletStates
<1>2. row'[w] = IF ~row[w].tracked
                THEN [tracked |-> TRUE, archived |-> FALSE, chains |-> st.chains, owned |-> TRUE]
                ELSE IF re THEN [tracked |-> TRUE, archived |-> FALSE,
                                 chains |-> st.chains, owned |-> row[w].owned]
                ELSE row[w]
  BY DEF SaveState, Types
<1>4. ASSUME row'[w] \in Rows
      PROVE  /\ row' \in [Wallets -> Rows]
             /\ snap' \in [Wallets -> WalletStates \cup {NoState}]
             /\ \A v \in Wallets \ {w} : row'[v] = row[v] /\ snap'[v] = snap[v]
             /\ snap'[w] = st
  BY <1>4 DEF SaveState, Types
<1>3. CASE ~row[w].tracked
  <2>1. row'[w] = [tracked |-> TRUE, archived |-> FALSE, chains |-> st.chains, owned |-> TRUE]
    BY <1>2, <1>3
  <2>2. row'[w] \in Rows
    BY <1>1, <2>1 DEF Rows
  <2>3. row'[w].tracked /\ ~row'[w].archived /\ row'[w].chains = st.chains
        /\ row'[w].owned = TRUE
    BY <2>1
  <2> QED
    BY <1>3, <1>4, <2>2, <2>3, Zenon
<1>5. CASE row[w].tracked /\ re
  <2>1. row'[w] = [tracked |-> TRUE, archived |-> FALSE, chains |-> st.chains,
                   owned |-> row[w].owned]
    BY <1>2, <1>5, Zenon
  <2>2. row'[w] \in Rows
    BY <1>1, <2>1 DEF Rows
  <2> QED
    BY <1>4, <1>5, <2>1, <2>2
<1>6. CASE row[w].tracked /\ ~re
  BY <1>1, <1>2, <1>4, <1>6, Zenon DEF Rows
<1> QED
  BY <1>3, <1>5, <1>6, Zenon

LEMMA SaveElsewhere ==
    ASSUME Types, NEW w \in Wallets, NEW st, NEW re, SaveState(w, st, re),
           NEW v \in Wallets, v # w
    PROVE  row'[v] = row[v] /\ snap'[v] = snap[v]
  BY DEF SaveState, Types

\* Discovery and sync keep a state's chain set; discovery keeps its permits, and a
\* sync takes away only what has ended.
LEMMA SeededFacts ==
    ASSUME NEW st \in WalletStates, NEW found \in BOOLEAN, NEW s \in Seeded(st, found)
    PROVE  s \in WalletStates /\ s.chains = st.chains /\ s.permits = st.permits
  BY DEF Seeded, WalletStates, Holdings

LEMMA SyncedFacts ==
    ASSUME NEW st \in WalletStates, NEW s \in Synced(st)
    PROVE  /\ s \in WalletStates /\ s.chains = st.chains
           /\ \A p \in st.permits : p \notin ended => p \in s.permits
  BY DEF Synced

LEMMA LoadFacts ==
    ASSUME Types, NEW w \in Wallets, NEW c \in ChainSets
    PROVE  /\ Load(w, c) \in WalletStates
           /\ [Load(w, c) EXCEPT !.chains = c] \in WalletStates
           /\ [Load(w, c) EXCEPT !.chains = c].chains = c
           /\ snap[w] # NoState => /\ Load(w, c) = snap[w]
                                   /\ [Load(w, c) EXCEPT !.chains = c].permits = snap[w].permits
           /\ snap[w] = NoState => Load(w, c) = New(c)
<1>1. Load(w, c) \in WalletStates
  BY NewType DEF Load, Types
<1> QED
  BY <1>1 DEF Load, WalletStates
\* Goto moves one operation on; the rest of its record stays.
LEMMA GotoFacts ==
    ASSUME Types, NEW o \in Ops, NEW pc \in Labels, Goto(o, pc)
    PROVE  /\ op' \in [Ops -> Operations]
           /\ \A x \in Ops \ {o} : op'[x] = op[x]
           /\ op'[o].pc = pc
           /\ op'[o].kind = op[o].kind /\ op'[o].w = op[o].w /\ op'[o].arg = op[o].arg
           /\ op'[o].chains = op[o].chains /\ op'[o].st = op[o].st
           /\ op'[o].owned = op[o].owned /\ op'[o].todo = op[o].todo
<1>1. op[o] \in Operations
  BY DEF Types
<1>2. op' = [op EXCEPT ![o] = [op[o] EXCEPT !.pc = pc]]
  BY DEF Goto
<1>3. [op[o] EXCEPT !.pc = pc] \in Operations
  BY <1>1 DEF Operations
<1>4. op'[o] = [op[o] EXCEPT !.pc = pc]
  BY <1>2 DEF Types
<1> QED
  BY <1>1, <1>2, <1>3, <1>4, Zenon DEF Operations, Types

\* Leave drops the operation's locals and keeps its kind.
LEMMA LeaveFacts ==
    ASSUME Types, NEW o \in Ops, NEW pc \in Labels, Leave(o, pc)
    PROVE  /\ op' \in [Ops -> Operations]
           /\ \A x \in Ops \ {o} : op'[x] = op[x]
           /\ op'[o].pc = pc /\ op'[o].kind = op[o].kind /\ op'[o].todo = {}
<1>1. op[o].kind \in Kinds
  BY DEF Types, Operations
<1>2. [Idle EXCEPT !.pc = pc, !.kind = op[o].kind] \in Operations
  BY <1>1, IdleType, Zenon DEF Operations
<1>3. op'[o] = [Idle EXCEPT !.pc = pc, !.kind = op[o].kind]
  BY DEF Types, Leave
<1>4. op'[o].pc = pc /\ op'[o].kind = op[o].kind /\ op'[o].todo = {}
  BY <1>3, IdleType DEF Operations, Idle
<1> QED
  BY <1>2, <1>3, <1>4, Zenon DEF Types, Leave
LEMMA RequestFacts ==
    ASSUME NEW r \in Requests
    PROVE  r \in Operations /\ r.todo = {} /\ r.pc = "check" /\ r.kind # "idle"
<1>1. Idle.w \in Wallets /\ Idle.chains \in ChainSets /\ Idle.st \in WalletStates
  BY IdleType DEF Operations
<1>2. CASE r \in Request({"add"}, Wallets, ChainSets, {"none", "label"}, {{}})
  BY <1>1, <1>2, Zenon DEF Request, Operations, Kinds, Labels
<1>3. CASE r \in Request({"patch"}, Wallets, {Idle.chains}, {"label", "own", "watch"}, {{}})
  BY <1>1, <1>3, Zenon DEF Request, Operations, Kinds, Labels
<1>4. CASE r \in Request({"delete", "sync"}, Wallets, {Idle.chains}, {"none"}, {{}})
  BY <1>1, <1>4, Zenon DEF Request, Operations, Kinds, Labels
<1>5. CASE r \in Request({"permit"}, Wallets, {Idle.chains}, {"none"}, {{p} : p \in Permits})
  <2>1. \A x \in {{p} : p \in Permits} : x \in SUBSET Permits
    OBVIOUS
  <2>2. r.permit \in SUBSET Permits
    BY <1>5, <2>1 DEF Request
  <2>3. r \in [kind : {"permit"}, w : Wallets, arg : {"none"}, permit : SUBSET Permits,
               pc : {"check"}, chains : {Idle.chains}, st : {Idle.st}, owned : {TRUE},
               todo : {{}}]
    BY <1>5, <2>2, Zenon DEF Request
  <2> QED
    BY <1>1, <2>3, Zenon DEF Operations, Kinds, Labels
<1>6. CASE r \in Request({"tick"}, {Idle.w}, {Idle.chains}, {"none"}, {{}})
  BY <1>1, <1>6, Zenon DEF Request, Operations, Kinds, Labels
<1> QED
  BY <1>2, <1>3, <1>4, <1>5, <1>6 DEF Requests
-----------------------------------------------------------------------------
(***************************************************************************)
(* Types.                                                                  *)
(***************************************************************************)
LEMMA InitTypes == Init => Types
<1> SUFFICES ASSUME Init PROVE Types
  OBVIOUS
<1>1. PICK known \in SUBSET Wallets :
        /\ row = [w \in Wallets |-> [tracked |-> w \in known, archived |-> FALSE,
                                     chains |-> Idle.chains, owned |-> TRUE]]
        /\ snap = [w \in Wallets |-> IF w \in known
                                     THEN [New(Idle.chains) EXCEPT !.holdings = "erc20"]
                                     ELSE NoState]
  BY Zenon DEF Init
<1>2. Idle.chains \in ChainSets
  BY IdleType DEF Operations
<1>3. [New(Idle.chains) EXCEPT !.holdings = "erc20"] \in WalletStates
  BY <1>2 DEF New, WalletStates, Holdings
<1>4. snap \in [Wallets -> WalletStates \cup {NoState}]
  BY <1>1, <1>3
<1>5. row \in [Wallets -> Rows]
  BY <1>1, <1>2 DEF Rows
<1> QED
  BY <1>4, <1>5, IdleType, Zenon DEF Init, Types

\* An operation goes on with a state it has loaded.
LEMMA HandlerLoadFacts ==
    ASSUME Types, NEW o \in Ops, HandlerLoad(o)
    PROVE  /\ op' \in [Ops -> Operations]
           /\ \A x \in Ops \ {o} : op'[x] = op[x]
           /\ op'[o].pc = IF op[o].pc = "load" THEN "seed" ELSE "syncsave"
           /\ op'[o].kind = op[o].kind /\ op'[o].w = op[o].w
           /\ op'[o].chains = op[o].chains /\ op'[o].todo = op[o].todo
           /\ op'[o].st = [Load(op[o].w, op[o].chains) EXCEPT !.chains = op[o].chains]
<1> DEFINE l == [Load(op[o].w, op[o].chains) EXCEPT !.chains = op[o].chains]
           pc == IF op[o].pc = "load" THEN "seed" ELSE "syncsave"
           r == [op[o] EXCEPT !.pc = pc, !.w = op[o].w, !.st = l]
<1>1. op[o] \in Operations /\ op[o].w \in Wallets /\ op[o].chains \in ChainSets
  BY DEF Types, Operations
<1>2. l \in WalletStates
  BY <1>1, LoadFacts, Zenon
<1>3. op' = [op EXCEPT ![o] = r]
  BY Zenon DEF HandlerLoad, LoadInto
<1>4. pc \in Labels
  BY DEF Labels
<1> HIDE DEF l, pc
<1>5. r \in Operations
  BY <1>1, <1>2, <1>4, Zenon DEF Operations
<1>6. r.pc = pc /\ r.kind = op[o].kind /\ r.w = op[o].w /\ r.chains = op[o].chains
      /\ r.todo = op[o].todo /\ r.st = l
  BY <1>1, Zenon DEF Operations
<1> HIDE DEF r
<1> QED
  BY <1>3, <1>5, <1>6 DEF Types, l, pc

LEMMA AddLoadFacts ==
    ASSUME Types, NEW o \in Ops, AddLoad(o)
    PROVE  /\ op' \in [Ops -> Operations]
           /\ \A x \in Ops \ {o} : op'[x] = op[x]
           /\ op'[o].pc = "seed" /\ op'[o].kind = "add" /\ op'[o].w = op[o].w
           /\ op'[o].chains = op[o].chains /\ op'[o].todo = op[o].todo
           /\ op'[o].st = LET e == Load(op[o].w, op[o].chains) IN
                          IF e.chains = op[o].chains THEN e ELSE New(op[o].chains)
<1> DEFINE e == Load(op[o].w, op[o].chains)
           l == IF e.chains = op[o].chains THEN e ELSE New(op[o].chains)
<1>1. op[o] \in Operations /\ op[o].w \in Wallets /\ op[o].chains \in ChainSets
  BY DEF Types, Operations
<1>2. l \in WalletStates
  BY <1>1, LoadFacts, NewType, Zenon
<1>3. op' = [op EXCEPT ![o] = [op[o] EXCEPT !.pc = "seed", !.st = l]]
  BY Zenon DEF AddLoad
<1>7. op[o].kind = "add"
  BY DEF AddLoad, At
<1> HIDE DEF l
<1>4. [op[o] EXCEPT !.pc = "seed", !.st = l] \in Operations
  BY <1>1, <1>2, Zenon DEF Operations, Labels
<1>5. op'[o] = [op[o] EXCEPT !.pc = "seed", !.st = l]
  BY <1>3 DEF Types
<1>6. /\ op'[o].pc = "seed" /\ op'[o].kind = op[o].kind /\ op'[o].w = op[o].w
      /\ op'[o].chains = op[o].chains /\ op'[o].todo = op[o].todo /\ op'[o].st = l
  BY <1>1, <1>5 DEF Operations
<1> QED
  BY <1>3, <1>4, <1>6, <1>7, Zenon DEF Types, l

LEMMA SelectFacts ==
    ASSUME Types, NEW o \in Ops, SelectMetadata(o), op[o].w \in Active
    PROVE  /\ op' \in [Ops -> Operations]
           /\ \A x \in Ops \ {o} : op'[x] = op[x]
           /\ op'[o].pc = "update" /\ op'[o].kind = op[o].kind /\ op'[o].w = op[o].w
           /\ op'[o].chains = op[o].chains /\ op'[o].todo = op[o].todo
           /\ op'[o].owned = row[op[o].w].owned
<1> DEFINE a == IF op[o].arg = "label" THEN "none" ELSE op[o].arg
           own == row[op[o].w].owned
<1>1. op[o] \in Operations /\ a \in {"none", "label", "own", "watch"} /\ own \in BOOLEAN
  BY DEF Types, Operations, Rows
<1>2. op' = [op EXCEPT ![o] = [op[o] EXCEPT !.pc = "update", !.owned = own, !.arg = a]]
  BY Zenon DEF SelectMetadata
<1> HIDE DEF a, own
<1>3. [op[o] EXCEPT !.pc = "update", !.owned = own, !.arg = a] \in Operations
  BY <1>1, Zenon DEF Operations, Labels
<1>4. op'[o] = [op[o] EXCEPT !.pc = "update", !.owned = own, !.arg = a]
  BY <1>2 DEF Types
<1>5. /\ op'[o].pc = "update" /\ op'[o].kind = op[o].kind /\ op'[o].w = op[o].w
      /\ op'[o].chains = op[o].chains /\ op'[o].todo = op[o].todo /\ op'[o].owned = own
  BY <1>1, <1>4 DEF Operations
<1> QED
  BY <1>2, <1>3, <1>5 DEF Types, own

LEMMA ResolveFacts ==
    ASSUME Types, NEW o \in Ops, Resolve(o), ~Leave(o, "release")
    PROVE  /\ op' \in [Ops -> Operations]
           /\ \A x \in Ops \ {o} : op'[x] = op[x]
           /\ op[o].w \in Active
           /\ op'[o].pc = "load" /\ op'[o].kind = op[o].kind /\ op'[o].w = op[o].w
           /\ op'[o].chains = row[op[o].w].chains /\ op'[o].todo = op[o].todo
<1> DEFINE c == row[op[o].w].chains
<1>1. op[o] \in Operations /\ c \in ChainSets
  BY Zenon DEF Types, Operations, Rows
<1>2. op' = [op EXCEPT ![o] = [op[o] EXCEPT !.pc = "load", !.chains = c]]
  BY Zenon DEF Resolve
<1>6. op[o].w \in Active
  BY DEF Resolve
<1> HIDE DEF c
<1>3. [op[o] EXCEPT !.pc = "load", !.chains = c] \in Operations
  BY <1>1, Zenon DEF Operations, Labels
<1>4. op'[o] = [op[o] EXCEPT !.pc = "load", !.chains = c]
  BY <1>2 DEF Types
<1>5. /\ op'[o].pc = "load" /\ op'[o].kind = op[o].kind /\ op'[o].w = op[o].w
      /\ op'[o].chains = c /\ op'[o].todo = op[o].todo
  BY <1>1, <1>4 DEF Operations
<1> QED
  BY <1>2, <1>3, <1>5, <1>6, Zenon DEF Types, c

\* A tick takes up the wallets it lists with the chain sets of their rows.
LEMMA TickListFacts ==
    ASSUME Types, NEW o \in Ops, TickList(o)
    PROVE  /\ op' \in [Ops -> Operations]
           /\ \A x \in Ops \ {o} : op'[x] = op[x]
           /\ op'[o].pc = "load" /\ op'[o].kind = "tick"
           /\ \A t \in op'[o].todo : t[1] \in Active /\ t[2] = row[t[1]].chains
<1>1. PICK due \in SUBSET Active :
        op' = [op EXCEPT ![o].pc = "load", ![o].todo = {<<w, row[w].chains>> : w \in due}]
  BY Zenon DEF TickList
<1> DEFINE todo == {<<w, row[w].chains>> : w \in due}
<1>2. \A w \in due : w \in Active /\ w \in Wallets /\ row[w].chains \in ChainSets
  BY DEF Types, Rows, Active
<1>3. /\ todo \in SUBSET (Wallets \X ChainSets)
      /\ \A t \in todo : t[1] \in Active /\ t[2] = row[t[1]].chains
  BY <1>2
<1>4. op[o] \in Operations
  BY DEF Types
<1>5. op[o].kind = "tick"
  BY DEF TickList, At
<1>6. op' = [op EXCEPT ![o] = [op[o] EXCEPT !.pc = "load", !.todo = todo]]
  BY <1>1, Zenon
<1> HIDE DEF todo
<1>7. [op[o] EXCEPT !.pc = "load", !.todo = todo] \in Operations
  BY <1>3, <1>4, Zenon DEF Operations, Labels
<1>8. op'[o] = [op[o] EXCEPT !.pc = "load", !.todo = todo]
  BY <1>6 DEF Types
<1>9. op'[o].pc = "load" /\ op'[o].kind = op[o].kind /\ op'[o].todo = todo
  BY <1>4, <1>8 DEF Operations
<1> QED
  BY <1>3, <1>5, <1>6, <1>7, <1>9, Zenon DEF Types

LEMMA TickLoadFacts ==
    ASSUME Types, NEW o \in Ops, TickLoad(o), ~Leave(o, "release")
    PROVE  /\ op' \in [Ops -> Operations]
           /\ \A x \in Ops \ {o} : op'[x] = op[x]
           /\ op'[o].kind = "tick" /\ op'[o].todo \subseteq op[o].todo
           /\ \/ op'[o].pc = "load"
              \/ \E t \in op[o].todo :
                    /\ t \in Wallets \X ChainSets
                    /\ op'[o].pc = "syncsave" /\ op'[o].w = t[1]
                    /\ op'[o].st = [Load(t[1], t[2]) EXCEPT !.chains = t[2]]
<1>1. /\ op[o] \in Operations /\ op[o].kind = "tick" /\ op[o].pc = "load"
      /\ op[o].todo \subseteq Wallets \X ChainSets
  BY Zenon DEF Types, Operations, TickLoad, At
<1>2. ASSUME NEW t \in op[o].todo, op' = [op EXCEPT ![o].todo = @ \ {t}]
      PROVE  /\ op' \in [Ops -> Operations]
             /\ \A x \in Ops \ {o} : op'[x] = op[x]
             /\ op'[o].kind = "tick" /\ op'[o].todo \subseteq op[o].todo /\ op'[o].pc = "load"
  <2>1. op'[o] = [op[o] EXCEPT !.todo = op[o].todo \ {t}]
    BY <1>2, Zenon DEF Types
  <2>2. op'[o] \in Operations /\ op'[o].kind = "tick"
        /\ op'[o].todo = op[o].todo \ {t} /\ op'[o].pc = "load"
    BY <1>1, <2>1 DEF Operations
  <2> QED
    BY <1>2, <2>2, Zenon DEF Types
<1>3. ASSUME NEW t \in op[o].todo,
             op' = [op EXCEPT ![o].pc = "syncsave", ![o].w = t[1], ![o].todo = @ \ {t},
                              ![o].st = [Load(t[1], t[2]) EXCEPT !.chains = t[2]]]
      PROVE  /\ op' \in [Ops -> Operations]
             /\ \A x \in Ops \ {o} : op'[x] = op[x]
             /\ op'[o].kind = "tick" /\ op'[o].todo \subseteq op[o].todo
             /\ t \in Wallets \X ChainSets
             /\ op'[o].pc = "syncsave" /\ op'[o].w = t[1]
             /\ op'[o].st = [Load(t[1], t[2]) EXCEPT !.chains = t[2]]
  <2> DEFINE l == [Load(t[1], t[2]) EXCEPT !.chains = t[2]]
             left == op[o].todo \ {t}
             r == [op[o] EXCEPT !.pc = "syncsave", !.w = t[1], !.todo = left, !.st = l]
  <2>1. t \in Wallets \X ChainSets /\ t[1] \in Wallets /\ t[2] \in ChainSets
    BY <1>1
  <2>2. l \in WalletStates
    BY <2>1, LoadFacts, Zenon
  <2>3. op' = [op EXCEPT ![o] = r]
    BY <1>3, Zenon
  <2> HIDE DEF l
  <2>4. r \in Operations
    BY <1>1, <2>1, <2>2, Zenon DEF Operations, Labels
  <2>5. r.kind = "tick" /\ r.todo = left /\ r.pc = "syncsave" /\ r.w = t[1] /\ r.st = l
    BY <1>1, ZenonT(30) DEF Operations
  <2> HIDE DEF r
  <2> QED
    BY <2>1, <2>3, <2>4, <2>5, Zenon DEF Types, l
<1> QED
  BY <1>2, <1>3, Zenon DEF TickLoad
\* A step of one operation leaves the others alone and keeps its own kind.
LEMMA OneMoves ==
    ASSUME Types, NEW o \in Ops, Step(o)
    PROVE  /\ op' \in [Ops -> Operations]
           /\ \A x \in Ops \ {o} : op'[x] = op[x]
           /\ op'[o].pc # "idle"
           /\ TryLock(o) \/ (Running(o) /\ op'[o].kind = op[o].kind)
<1> USE DEF Labels
<1>1. CASE TryLock(o)
  <2>1. PICK r \in Requests : op' = [op EXCEPT ![o] = r]
    BY <1>1, Zenon DEF TryLock
  <2>2. r \in Operations /\ r.pc = "check"
    BY RequestFacts
  <2> QED
    BY <1>1, <2>1, <2>2, Zenon DEF Types
<1>2. ASSUME NEW pc \in Labels \ {"idle"}, Running(o), Leave(o, pc) \/ Goto(o, pc)
      PROVE  /\ op' \in [Ops -> Operations]
             /\ \A x \in Ops \ {o} : op'[x] = op[x]
             /\ op'[o].pc # "idle" /\ op'[o].kind = op[o].kind
  BY <1>2, LeaveFacts, GotoFacts
<1>3. CASE AddCheck(o) \/ Delete(o) \/ PermitSave(o) \/ SyncDiscover(o) \/ SyncSave(o)
           \/ TickSave(o) \/ Fail(o) \/ Release(o) \/ Vanish(o)
  <2>1. Running(o)
    BY <1>3, Zenon
      DEF AddCheck, Delete, PermitSave, SyncDiscover, SyncSave, TickSave, Fail, Release,
                Vanish, At, Running
  <2>2. \E pc \in Labels \ {"idle"} : Leave(o, pc) \/ Goto(o, pc)
    BY <1>3, Zenon
      DEF AddCheck, Delete, PermitSave, SyncDiscover, SyncSave, TickSave, Fail, Release,
                Vanish
  <2> QED
    BY <1>2, <2>1, <2>2
<1>4. CASE AddSave(o) \/ AddSaveFound(o)
  <2>1. Running(o)
    BY <1>4, Zenon DEF AddSave, AddSaveFound, At, Running
  <2>2. \E pc \in Labels \ {"idle"} : Goto(o, pc)
    BY <1>4, Zenon DEF AddSave, AddSaveFound, AfterAdd
  <2> QED
    BY <1>2, <2>1, <2>2
<1>5. CASE AddLoad(o)
  BY <1>5, AddLoadFacts, Zenon DEF AddLoad, At, Running
<1>6. CASE SelectMetadata(o)
  <2>1. Running(o)
    BY <1>6 DEF SelectMetadata, At, Running
  <2>2. CASE op[o].w \in Active
    BY <1>6, <2>1, <2>2, SelectFacts
  <2>3. CASE op[o].w \notin Active
    BY <1>2, <1>6, <2>1, <2>3 DEF SelectMetadata
  <2> QED
    BY <2>2, <2>3
<1>7. CASE UpdateMetadata(o)
  <2>1. Running(o)
    BY <1>7, Zenon DEF UpdateMetadata, Running
  <2>2. \E pc \in Labels \ {"idle"} : Leave(o, pc) \/ Goto(o, pc)
    BY <1>7, Zenon DEF UpdateMetadata
  <2> QED
    BY <1>2, <2>1, <2>2
<1>8. CASE Resolve(o)
  <2>1. Running(o)
    BY <1>8, Zenon DEF Resolve, Running
  <2>2. CASE Leave(o, "release")
    BY <1>2, <2>1, <2>2, Zenon
  <2>3. CASE ~Leave(o, "release")
    BY <1>8, <2>1, <2>3, ResolveFacts, Zenon
  <2> QED
    BY <2>2, <2>3, Zenon
<1>9. CASE HandlerLoad(o)
  <2>1. Running(o)
    BY <1>9 DEF HandlerLoad, Running
  <2> QED
    BY <1>9, <2>1, HandlerLoadFacts, Zenon
<1>10. CASE TickList(o)
  BY <1>10, TickListFacts, Zenon DEF TickList, At, Running
<1>11. CASE TickLoad(o)
  <2>1. Running(o) /\ op[o].kind = "tick"
    BY <1>11, Zenon DEF TickLoad, At, Running
  <2>2. CASE Leave(o, "release")
    BY <1>2, <2>1, <2>2, Zenon
  <2>3. CASE ~Leave(o, "release")
    BY <1>11, <2>1, <2>3, TickLoadFacts, Zenon
  <2> QED
    BY <2>2, <2>3
<1> QED
  BY <1>1, <1>3, <1>4, <1>5, <1>6, <1>7, <1>8, <1>9, <1>10, <1>11 DEF Step
\* Who writes the tables: only an add reactivates; every other save is of a wallet
\* whose row the operation has found.
Writes(o) ==
    \/ UNCHANGED db
    \/ \E st \in WalletStates : /\ SaveState(op[o].w, st, TRUE)
                              /\ op[o].kind = "add" /\ op[o].pc \in {"seed", "reseed"}
    \/ \E st \in WalletStates : SaveState(op[o].w, st, FALSE) /\ Found(o)
    \/ UpdateMetadata(o)
    \/ Delete(o)

LEMMA StepWrites ==
    ASSUME Types, NEW o \in Ops, Step(o)
    PROVE  Writes(o)
<1>1. op[o].st \in WalletStates /\ op[o].w \in Wallets /\ op[o].permit \in SUBSET Permits
  BY DEF Types, Operations
<1>2. CASE AddSave(o)
  BY <1>1, <1>2, SeededFacts, Zenon DEF AddSave, At, Writes
<1>3. CASE AddSaveFound(o)
  BY <1>1, <1>3, SeededFacts, Zenon DEF AddSaveFound, At, Writes
<1>4. CASE PermitSave(o)
  <2>1. [op[o].st EXCEPT !.permits = op[o].st.permits \cup op[o].permit] \in WalletStates
    BY <1>1 DEF WalletStates
  <2> QED
    BY <1>4, <2>1, Zenon DEF PermitSave, At, Writes, Found, db
<1>5. CASE SyncDiscover(o)
  BY <1>1, <1>5, SeededFacts, Zenon DEF SyncDiscover, At, Writes, Found
<1>6. CASE SyncSave(o)
  BY <1>1, <1>6, SyncedFacts, Zenon DEF SyncSave, Writes, Found
<1>7. CASE TickSave(o)
  BY <1>1, <1>7, SyncedFacts, Zenon DEF TickSave, At, Writes, Found
<1>8. CASE UpdateMetadata(o) \/ Delete(o)
  BY <1>8, Zenon DEF Writes
<1>9. CASE TryLock(o) \/ AddCheck(o) \/ AddLoad(o) \/ SelectMetadata(o) \/ Resolve(o)
           \/ HandlerLoad(o) \/ TickList(o) \/ TickLoad(o) \/ Fail(o) \/ Release(o) \/ Vanish(o)
  BY <1>9, Zenon DEF TryLock, AddCheck, AddLoad, SelectMetadata, Resolve, HandlerLoad, TickList,
              TickLoad, Fail, Release, Vanish, Writes, db
<1> QED
  BY <1>2, <1>3, <1>4, <1>5, <1>6, <1>7, <1>8, <1>9 DEF Step
\* Who changes the lock and the histories.
LEMMA Frame ==
    ASSUME NEW o \in Ops, Step(o)
    PROVE  /\ overran' = overran /\ ended' = ended
           /\ TryLock(o) \/ Release(o) \/ lock' = lock
           /\ TryLock(o) \/ Delete(o) \/ deleted' = deleted
           /\ UpdateMetadata(o) \/ asked' = asked
<1>1. CASE TryLock(o)
  BY <1>1, Zenon DEF TryLock
<1>2. CASE Release(o)
  BY <1>2 DEF Release, history
<1>3. CASE Delete(o)
  BY <1>3 DEF Delete
<1>4. CASE UpdateMetadata(o)
  BY <1>4 DEF UpdateMetadata
<1>5. CASE AddSave(o) \/ AddSaveFound(o)
  BY <1>5, Zenon DEF AddSave, AddSaveFound, history
<1>6. CASE PermitSave(o)
  BY <1>6, ZenonT(30) DEF PermitSave, history
<1>7. CASE AddCheck(o) \/ AddLoad(o) \/ SelectMetadata(o) \/ Resolve(o) \/ HandlerLoad(o)
  BY <1>7 DEF AddCheck, AddLoad, SelectMetadata, Resolve, HandlerLoad, history
<1>8. CASE SyncDiscover(o) \/ SyncSave(o) \/ TickList(o) \/ TickLoad(o) \/ TickSave(o)
  BY <1>8, Zenon DEF SyncDiscover, SyncSave, TickList, TickLoad, TickSave, history
<1>9. CASE Fail(o) \/ Vanish(o)
  BY <1>9, Zenon DEF Fail, Vanish, history
<1> QED
  BY <1>1, <1>2, <1>3, <1>4, <1>5, <1>6, <1>7, <1>8, <1>9 DEF Step

LEMMA StepTypes == Types /\ [Next]_vars => Types'
<1> SUFFICES ASSUME Types, [Next]_vars PROVE Types'
  OBVIOUS
<1>1. CASE UNCHANGED vars
  BY <1>1, Zenon DEF Types, vars
<1>2. CASE Expire
  BY <1>2, Zenon DEF Types, Expire
<1>3. ASSUME NEW p \in Permits, End(p) PROVE Types'
  BY <1>3, Zenon DEF Types, End, history
<1>4. ASSUME NEW o \in Ops, Step(o) PROVE Types'
  <2>1. op' \in [Ops -> Operations] /\ op[o].w \in Wallets /\ op[o].permit \in SUBSET Permits
    BY <1>4, OneMoves, Zenon DEF Types, Operations
  <2>2. row' \in [Wallets -> Rows] /\ snap' \in [Wallets -> WalletStates \cup {NoState}]
    <3>1. CASE UNCHANGED db
      BY <3>1 DEF Types, db
    <3>2. ASSUME NEW st \in WalletStates, NEW re \in BOOLEAN, SaveState(op[o].w, st, re)
          PROVE  row' \in [Wallets -> Rows] /\ snap' \in [Wallets -> WalletStates \cup {NoState}]
      BY <2>1, <3>2, SaveWrites, Zenon
    <3>3. CASE UpdateMetadata(o)
      <4>1. ASSUME NEW own \in BOOLEAN
            PROVE  [row EXCEPT ![op[o].w].owned = own] \in [Wallets -> Rows]
        BY <2>1 DEF Types, Rows
      <4>2. op[o].owned \in BOOLEAN
        BY DEF Types, Operations
      <4> QED
        BY <3>3, <4>1, <4>2, Zenon DEF UpdateMetadata, Types
    <3>4. CASE Delete(o)
      <4>1. [row EXCEPT ![op[o].w].archived = TRUE] \in [Wallets -> Rows]
        BY <2>1, ZenonT(30) DEF Types, Rows
      <4> QED
        BY <3>4, <4>1 DEF Delete, Types
    <3> QED
      BY <1>4, <3>1, <3>2, <3>3, <3>4, StepWrites, Zenon DEF Writes
  <2>3. lock' \in Ops \cup {NoLock} /\ overran' \subseteq Ops
    BY <1>4, Frame DEF Types, TryLock, Release
  <2>4. deleted' \subseteq Wallets
    <3>1. CASE TryLock(o)
      BY <3>1 DEF Types, TryLock
    <3>2. CASE Delete(o)
      BY <2>1, <3>2 DEF Types, Delete
    <3> QED
      BY <1>4, <3>1, <3>2, Frame DEF Types
  <2>5. asked' \in [Wallets -> BOOLEAN]
    <3>1. CASE UpdateMetadata(o)
      <4>1. \A own \in BOOLEAN : [asked EXCEPT ![op[o].w] = own] \in [Wallets -> BOOLEAN]
        BY Zenon DEF Types
      <4>2. op[o].owned \in BOOLEAN
        BY DEF Types, Operations
      <4> QED
        BY <3>1, <4>1, <4>2, Zenon DEF UpdateMetadata, Types
    <3>2. CASE UNCHANGED asked
      BY <3>2 DEF Types
    <3> QED
      BY <1>4, <3>1, <3>2, Frame, Zenon
  <2> QED
    BY <2>1, <2>2, <2>3, <2>4, <2>5, Zenon DEF Types
<1> QED
  BY <1>1, <1>2, <1>3, <1>4, Zenon DEF Next
-----------------------------------------------------------------------------
(***************************************************************************)
(* The lock.                                                               *)
(***************************************************************************)
LEMMA InitLock == Init => LockInv
  BY DEF Init, LockInv, HoldsItsLock, Running, Idle

LEMMA StepLock == Types /\ LockInv /\ [Next]_vars => LockInv'
<1> SUFFICES ASSUME Types, LockInv, [Next]_vars PROVE LockInv'
  OBVIOUS
<1> USE DEF LockInv, HoldsItsLock, Running
<1>1. CASE UNCHANGED vars
  BY <1>1 DEF vars
<1>2. CASE Expire
  BY <1>2, WalletAssumption DEF Expire, Types
<1>3. ASSUME NEW p \in Permits, End(p) PROVE LockInv'
  BY <1>3, Zenon DEF End, history
<1>4. ASSUME NEW o \in Ops, Step(o) PROVE LockInv'
  <2>1. /\ \A x \in Ops \ {o} : op'[x] = op[x]
        /\ op'[o].pc # "idle" /\ overran' = overran /\ overran \subseteq Ops
    BY <1>4, OneMoves, Frame, Zenon DEF Types
  <2>2. CASE TryLock(o)
    BY <2>1, <2>2, WalletAssumption, Zenon DEF TryLock
  <2>3. CASE Release(o)
    <3>1. op'[o].pc = "done"
      BY <2>3, LeaveFacts, Zenon DEF Release, Labels
    <3> QED
      BY <2>1, <2>3, <3>1, Zenon DEF Release
  <2>4. CASE lock' = lock /\ ~TryLock(o)
    <3>1. Running(o)
      BY <1>4, <2>4, OneMoves, Zenon
    <3> QED
      BY <2>1, <2>4, <3>1, Zenon
  <2> QED
    BY <1>4, <2>2, <2>3, <2>4, Frame, Zenon
<1> QED
  BY <1>1, <1>2, <1>3, <1>4 DEF Next

\* A running operation holds the lock unless the lock expired under it.
THEOREM LockHeld == Spec => []HoldsItsLock
<1>1. Init => Types /\ LockInv
  BY InitTypes, InitLock, Zenon
<1>2. Types /\ LockInv /\ [Next]_vars => (Types /\ LockInv)'
  BY StepTypes, StepLock, Zenon
<1>3. Types /\ LockInv => HoldsItsLock
  BY Zenon DEF LockInv
<1> QED
  BY <1>1, <1>2, <1>3, PTL DEF Spec
-----------------------------------------------------------------------------
(***************************************************************************)
(* The rows.                                                               *)
(***************************************************************************)
\* No operation removes a row.
LEMMA TrackedStays ==
    ASSUME Types, RowsKept, NEW o \in Ops, Step(o), NEW v \in Wallets, row[v].tracked
    PROVE  row'[v].tracked
<1>1. op[o].w \in Wallets /\ row[v] \in Rows /\ op[o].owned \in BOOLEAN
  BY DEF Types, Operations
<1>2. ASSUME NEW st \in WalletStates, NEW re \in BOOLEAN, SaveState(op[o].w, st, re)
      PROVE  row'[v].tracked
  <2>1. CASE v = op[o].w
    BY <1>1, <1>2, <2>1, SaveWrites, ZenonT(30)
  <2>2. CASE v # op[o].w
    <3>1. row'[v] = row[v]
      BY <1>1, <1>2, <2>2, SaveElsewhere
    <3> QED
      BY <3>1, Zenon
  <2> QED
    BY <2>1, <2>2
<1>3. CASE UpdateMetadata(o)
  BY <1>1, <1>3 DEF UpdateMetadata, Types, Rows
<1>4. CASE Delete(o)
  BY <1>1, <1>4 DEF Delete, Types, Rows
<1>5. CASE UNCHANGED db
  <2>1. row' = row
    BY <1>5, Zenon DEF db
  <2> QED
    BY <2>1, Zenon
<1> QED
  BY <1>2, <1>3, <1>4, <1>5, StepWrites, Zenon DEF Writes

\* What the operation that moves has found is there afterwards.
LEMMA FoundStays ==
    ASSUME Types, RowsKept, NEW o \in Ops, Step(o)
    PROVE  /\ Found(o)' => row'[op'[o].w].tracked
           /\ \A t \in op'[o].todo : row'[t[1]].tracked
<1> DEFINE Goal == /\ Found(o)' => row'[op'[o].w].tracked
                   /\ \A t \in op'[o].todo : row'[t[1]].tracked
<1>1. /\ op[o].w \in Wallets /\ op[o].st \in WalletStates
      /\ op[o].todo \subseteq Wallets \X ChainSets
  BY Zenon DEF Types, Operations
<1>2. \A t \in op[o].todo : row'[t[1]].tracked
  BY <1>1, TrackedStays, Zenon DEF RowsKept
<1>3. Found(o) => row'[op[o].w].tracked
  BY <1>1, TrackedStays, Zenon DEF RowsKept
<1>4. ASSUME NEW pc \in {"release", "done"}, Leave(o, pc) PROVE Goal
  <2>1. pc \in Labels
    BY Zenon DEF Labels
  <2>2. op'[o].pc = pc /\ op'[o].todo = {}
    BY <1>4, <2>1, LeaveFacts, Zenon
  <2> QED
    BY <2>2, Zenon DEF Found
<1>5. ASSUME NEW pc \in Labels, Goto(o, pc), row'[op[o].w].tracked PROVE Goal
  BY <1>2, <1>5, GotoFacts, Zenon
<1>6. CASE TryLock(o)
  <2>1. PICK r \in Requests : op' = [op EXCEPT ![o] = r]
    BY <1>6, Zenon DEF TryLock
  <2>2. op'[o] = r /\ r.todo = {} /\ r.pc = "check"
    BY <2>1, RequestFacts DEF Types
  <2> QED
    BY <2>2, Zenon DEF Found
<1>7. CASE AddCheck(o)
  <2>1. CASE Goto(o, "load")
    <3>1. op'[o].pc = "load" /\ op'[o].kind = "add" /\ op'[o].todo = op[o].todo
      BY <1>7, <2>1, GotoFacts, Zenon DEF AddCheck, At, Labels
    <3> QED
      BY <1>2, <3>1, Zenon DEF Found
  <2> QED
    BY <1>4, <1>7, <2>1 DEF AddCheck
<1>8. CASE AddLoad(o)
  BY <1>2, <1>8, AddLoadFacts, Zenon DEF Found
<1>9. CASE AddSave(o) \/ AddSaveFound(o)
  <2>1. \E s \in WalletStates : SaveState(op[o].w, s, TRUE)
    BY <1>1, <1>9, SeededFacts, Zenon DEF AddSave, AddSaveFound
  <2>2. row'[op[o].w].tracked
    BY <1>1, <2>1, SaveWrites, Zenon
  <2>3. \E pc \in Labels : Goto(o, pc)
    BY <1>9, Zenon DEF AddSave, AddSaveFound, AfterAdd, Labels
  <2> QED
    BY <1>5, <2>2, <2>3, Zenon
<1>10. CASE SelectMetadata(o)
  <2>1. CASE op[o].w \in Active
    <3>1. op[o].kind = "patch" \/ Found(o)
      BY <1>10, Zenon DEF SelectMetadata, At, Found
    <3>2. op'[o].pc = "update" /\ op'[o].kind = op[o].kind /\ op'[o].w = op[o].w
          /\ op'[o].todo = op[o].todo
      BY <1>10, <2>1, SelectFacts, Zenon
    <3> QED
      BY <1>2, <1>3, <3>1, <3>2 DEF Found
  <2> QED
    BY <1>4, <1>10, <2>1 DEF SelectMetadata
<1>11. CASE UpdateMetadata(o)
  <2>1. CASE op[o].kind = "add"
    <3>1. Found(o) /\ Goto(o, "syncload") /\ "syncload" \in Labels
      BY <1>11, <2>1, Zenon DEF UpdateMetadata, Found, Labels
    <3> QED
      BY <1>3, <1>5, <3>1, Zenon
  <2> QED
    BY <1>4, <1>11, <2>1, Zenon DEF UpdateMetadata
<1>12. CASE Resolve(o)
  <2>1. CASE Leave(o, "release")
    BY <1>4, <2>1, Zenon
  <2>2. CASE ~Leave(o, "release")
    <3>1. op[o].w \in Active /\ op'[o].w = op[o].w /\ op'[o].todo = op[o].todo
      BY <1>12, <2>2, ResolveFacts, Zenon
    <3>2. row'[op[o].w].tracked
      BY <1>1, <3>1, TrackedStays, Zenon DEF Active
    <3> QED
      BY <1>2, <3>1, <3>2, Zenon
  <2> QED
    BY <2>1, <2>2, Zenon
<1>13. CASE HandlerLoad(o)
  <2>1. Found(o)
    BY <1>13, Zenon DEF HandlerLoad, Found
  <2>2. op'[o].w = op[o].w /\ op'[o].todo = op[o].todo
    BY <1>13, HandlerLoadFacts, Zenon
  <2> QED
    BY <1>2, <1>3, <2>1, <2>2, Zenon
<1>14. CASE SyncDiscover(o)
  <2>1. Found(o) /\ Goto(o, "syncload") /\ "syncload" \in Labels
    BY <1>14 DEF SyncDiscover, At, Found, Labels
  <2> QED
    BY <1>3, <1>5, <2>1
<1>15. CASE TickList(o)
  <2>1. op'[o].pc = "load" /\ op'[o].kind = "tick" /\ \A t \in op'[o].todo : t[1] \in Active
    BY <1>15, TickListFacts, Zenon
  <2>2. \A w \in Active : row'[w].tracked
    BY TrackedStays DEF Active
  <2> QED
    BY <2>1, <2>2 DEF Found
<1>16. CASE TickLoad(o)
  <2>1. CASE Leave(o, "release")
    BY <1>4, <2>1
  <2>2. CASE ~Leave(o, "release")
    <3>1. /\ op'[o].kind = "tick" /\ op'[o].todo \subseteq op[o].todo
          /\ op'[o].pc = "load" \/ \E t \in op[o].todo : op'[o].w = t[1]
      BY <1>16, <2>2, TickLoadFacts, Zenon
    <3> QED
      BY <1>2, <3>1, Zenon DEF Found
  <2> QED
    BY <2>1, <2>2
<1>17. CASE TickSave(o)
  <2>1. op'[o].pc = "load" /\ op'[o].kind = "tick" /\ op'[o].todo = op[o].todo
    BY <1>17, GotoFacts DEF TickSave, At, Labels
  <2> QED
    BY <1>2, <2>1, SMTT(30), ZenonT(30) DEF Found
<1>18. CASE Delete(o) \/ PermitSave(o) \/ SyncSave(o) \/ Fail(o) \/ Release(o) \/ Vanish(o)
  BY <1>4, <1>18, Zenon DEF Delete, PermitSave, SyncSave, Fail, Release, Vanish
<1> QED
  BY <1>6, <1>7, <1>8, <1>9, <1>10, <1>11, <1>12, <1>13, <1>14, <1>15, <1>16, <1>17, <1>18, Zenon
  DEF Step
LEMMA InitRows == Init => RowsKept
  BY DEF Init, RowsKept, Found, Idle

LEMMA StepRows == Types /\ RowsKept /\ [Next]_vars => RowsKept'
<1> SUFFICES ASSUME Types, RowsKept, [Next]_vars PROVE RowsKept'
  OBVIOUS
<1>1. CASE row' = row /\ op' = op /\ deleted' = deleted
  BY <1>1 DEF RowsKept, Found
<1>2. ASSUME NEW o \in Ops, Step(o) PROVE RowsKept'
  <2>1. ASSUME NEW w \in deleted' PROVE row'[w].tracked
    <3>1. w \in Wallets /\ row[w].tracked
      <4>1. CASE TryLock(o)
        BY <2>1, <4>1, Zenon DEF TryLock, RowsKept, Types
      <4>2. CASE Delete(o)
        BY <2>1, <4>2, Zenon DEF Delete, Active, RowsKept, Types
      <4>3. CASE deleted' = deleted
        BY <2>1, <4>3, Zenon DEF RowsKept, Types
      <4> QED
        BY <1>2, <4>1, <4>2, <4>3, Frame, Zenon
    <3> QED
      BY <1>2, <3>1, TrackedStays, Zenon
  <2>2. ASSUME NEW x \in Ops \ {o}
        PROVE  /\ Found(x)' => row'[op'[x].w].tracked
               /\ \A t \in op'[x].todo : row'[t[1]].tracked
    <3>1. op'[x] = op[x] /\ op[x].w \in Wallets /\ op[x].todo \subseteq Wallets \X ChainSets
      BY <1>2, OneMoves, Zenon DEF Types, Operations
    <3>2. Found(x) => row'[op[x].w].tracked
      BY <1>2, <3>1, TrackedStays, Zenon DEF RowsKept
    <3>3. \A t \in op[x].todo : row'[t[1]].tracked
      BY <1>2, <3>1, TrackedStays, ZenonT(30) DEF RowsKept
    <3> QED
      BY <3>1, <3>2, <3>3, Zenon DEF Found
  <2> QED
    BY <1>2, <2>1, <2>2, FoundStays DEF RowsKept
<1> QED
  BY <1>1, <1>2 DEF Next, Expire, End, history, vars

\* An add is about one wallet from its request to its answer.
LEMMA AddKeepsWallet ==
    ASSUME Types, NEW o \in Ops, Step(o), ~TryLock(o), op[o].kind = "add"
    PROVE  op'[o].pc \in {"release", "done"} \/ op'[o].w = op[o].w
<1>1. ASSUME NEW pc \in Labels, Goto(o, pc) PROVE op'[o].w = op[o].w
  BY <1>1, GotoFacts, Zenon
<1>2. ASSUME NEW pc \in {"release", "done"}, Leave(o, pc) PROVE op'[o].pc \in {"release", "done"}
  BY <1>2, LeaveFacts, Zenon DEF Labels
<1>3. CASE AddCheck(o) \/ AddSave(o) \/ AddSaveFound(o) \/ UpdateMetadata(o)
  BY <1>1, <1>2, <1>3, Zenon DEF AddCheck, AddSave, AddSaveFound, UpdateMetadata, AfterAdd, Labels
<1>4. CASE AddLoad(o)
  BY <1>4, AddLoadFacts
<1>5. CASE SelectMetadata(o)
  <2>1. CASE op[o].w \in Active
    BY <1>5, <2>1, SelectFacts, Zenon
  <2> QED
    BY <1>2, <1>5, <2>1 DEF SelectMetadata
<1>6. CASE HandlerLoad(o)
  BY <1>6, HandlerLoadFacts, Zenon
<1>7. CASE SyncSave(o) \/ Fail(o) \/ Release(o) \/ Vanish(o)
  BY <1>2, <1>7, Zenon DEF SyncSave, Fail, Release, Vanish
<1>8. ~(\/ Delete(o) \/ Resolve(o) \/ PermitSave(o) \/ SyncDiscover(o) \/ TickList(o)
        \/ TickLoad(o) \/ TickSave(o))
  BY DEF Delete, Resolve, PermitSave, SyncDiscover, TickList, TickLoad, TickSave, At
<1> QED
  BY <1>3, <1>4, <1>5, <1>6, <1>7, <1>8 DEF Step
-----------------------------------------------------------------------------
(***************************************************************************)
(* Deleted wallets.                                                        *)
(***************************************************************************)
InTime == \A o \in overran : op[o].kind \notin {"add", "delete"}

LEMMA InitDeleted == Init => DeletedInv
  BY DEF Init, DeletedInv, Idle

\* Once an add or a delete has outlived its lock, one has for ever.
LEMMA InTimeBefore ==
    ASSUME Types, LockInv, Next, InTime'
    PROVE  InTime
<1>1. ASSUME NEW o \in Ops, Step(o), NEW x \in overran
      PROVE  op'[x].kind = op[x].kind
  <2>1. x \in Ops /\ op[x].pc # "idle"
    BY Zenon DEF Types, LockInv
  <2>2. CASE x = o
    BY <1>1, <2>1, <2>2, OneMoves, Zenon DEF TryLock
  <2>3. CASE x # o
    BY <1>1, <2>1, <2>3, OneMoves, Zenon
  <2> QED
    BY <2>2, <2>3, Zenon
<1>2. ASSUME NEW o \in Ops, Step(o) PROVE InTime
  <2>1. overran' = overran
    BY <1>2, Frame, Zenon
  <2> QED
    BY <1>1, <1>2, <2>1, Zenon DEF InTime
<1>3. CASE Expire
  BY <1>3, Zenon DEF Expire, InTime
<1>4. ASSUME NEW p \in Permits, End(p) PROVE InTime
  BY <1>4, Zenon DEF End, history, InTime
<1> QED
  BY <1>2, <1>3, <1>4 DEF Next

LEMMA StepDeleted ==
    Types /\ LockInv /\ RowsKept /\ DeletedInv /\ [Next]_vars => DeletedInv'
<1> SUFFICES ASSUME Types, LockInv, RowsKept, DeletedInv, [Next]_vars PROVE DeletedInv'
  BY Zenon
<1>1. CASE UNCHANGED vars
  BY <1>1, Zenon DEF vars, DeletedInv
<1> SUFFICES ASSUME Next, InTime' PROVE DeletedInv'
  BY <1>1, Zenon DEF DeletedInv, InTime
<1>2. /\ InTime
      /\ \A w \in deleted : row[w].archived /\ w \in Wallets
      /\ \A x \in Ops : op[x].kind = "add" /\ op[x].pc \notin {"idle", "done", "release"}
                            => op[x].w \notin deleted
  BY InTimeBefore, Zenon DEF DeletedInv, InTime, Types
<1>3. CASE row' = row /\ op' = op /\ deleted' = deleted
  BY <1>2, <1>3, Zenon DEF DeletedInv
<1>4. ASSUME NEW o \in Ops, Step(o) PROVE DeletedInv'
  <2>1. /\ \A x \in Ops \ {o} : op'[x] = op[x]
        /\ TryLock(o) \/ (Running(o) /\ op'[o].kind = op[o].kind)
        /\ op[o].w \in Wallets /\ op[o].owned \in BOOLEAN
    BY <1>4, OneMoves, Zenon DEF Types, Operations
  <2>2. CASE TryLock(o)
    <3>1. /\ row' = row /\ deleted' \subseteq deleted
          /\ op'[o].kind = "add" => op'[o].w \notin deleted'
      BY <2>2, Zenon DEF TryLock
    <3> QED
      BY <1>2, <2>1, <3>1, Zenon DEF DeletedInv
  <2>3. CASE Delete(o)
    <3>1. op[o].kind = "delete" /\ Running(o)
      BY <2>3, Zenon DEF Delete, At, Running
    <3>2. ASSUME NEW x \in Ops, op'[x].kind = "add", op'[x].pc \notin {"idle", "done", "release"}
          PROVE  FALSE
      <4>1. x # o /\ op'[x] = op[x]
        BY <2>1, <2>3, <3>1, <3>2, Zenon DEF TryLock, Delete, At
      <4>2. Running(x) /\ x \notin overran
        BY <1>2, <3>2, <4>1, Zenon DEF Running, InTime
      <4>3. lock = x
        BY <4>2, Zenon DEF LockInv, HoldsItsLock
      <4>4. o \notin overran
        BY <1>2, <3>1, Zenon DEF InTime
      <4> QED
        BY <3>1, <4>1, <4>3, <4>4, Zenon DEF LockInv, HoldsItsLock
    <3>3. \A w \in deleted' : row'[w].archived
      BY <1>2, <2>1, <2>3 DEF Delete, Types, Rows
    <3> QED
      BY <3>2, <3>3, Zenon DEF DeletedInv
  <2>4. CASE ~TryLock(o) /\ ~Delete(o)
    <3>1. deleted' = deleted
      BY <1>4, <2>4, Frame, Zenon
    <3>2. ASSUME NEW x \in Ops, op'[x].kind = "add", op'[x].pc \notin {"idle", "done", "release"}
          PROVE  op'[x].w \notin deleted'
      <4>1. CASE x = o
        <5>1. op[o].kind = "add" /\ op'[o].w = op[o].w /\ op[o].pc # "release"
          <6>1. op[o].kind = "add" /\ op'[o].w = op[o].w
            BY <1>4, <2>1, <2>4, <3>2, <4>1, AddKeepsWallet, Zenon
          <6>2. ASSUME op[o].pc = "release" PROVE FALSE
            <7>1. Release(o) \/ Vanish(o)
              BY <1>4, <2>4, <6>1, <6>2, ZenonT(30)
                DEF Step, AddCheck, AddLoad, AddSave, AddSaveFound,
                 SelectMetadata, UpdateMetadata, Resolve, HandlerLoad, PermitSave, SyncDiscover,
                 SyncSave, TickList, TickLoad, TickSave, Fail, At
            <7>2. op'[o].pc = "done"
              BY <7>1, LeaveFacts, Zenon DEF Release, Vanish, Labels
            <7> QED
              BY <3>2, <4>1, <7>2, Zenon
          <6> QED
            BY <6>1, <6>2, Zenon
        <5> QED
          BY <1>2, <2>1, <2>4, <3>1, <4>1, <5>1, Zenon DEF Running
      <4>2. CASE x # o
        BY <1>2, <2>1, <3>1, <3>2, <4>2, Zenon
      <4> QED
        BY <4>1, <4>2, Zenon
    <3>3. ASSUME NEW w \in deleted PROVE row'[w].archived
      <4>1. row[w].archived /\ w \in Wallets /\ row[w].tracked
        BY <1>2, Zenon DEF RowsKept
      <4>2. CASE row'[w] = row[w]
        BY <4>1, <4>2, Zenon
      <4>3. ASSUME NEW st \in WalletStates, SaveState(op[o].w, st, TRUE),
                   op[o].kind = "add", op[o].pc \in {"seed", "reseed"}
            PROVE  row'[w] = row[w]
        BY <1>2, <2>1, <4>1, <4>3, SaveElsewhere, Zenon
      <4>4. ASSUME NEW st \in WalletStates, SaveState(op[o].w, st, FALSE)
            PROVE  row'[w] = row[w]
        <5>1. CASE w = op[o].w
          BY <2>1, <4>1, <4>4, <5>1, SaveWrites, Zenon
        <5>2. CASE w # op[o].w
          BY <2>1, <4>1, <4>4, <5>2, SaveElsewhere, Zenon
        <5> QED
          BY <5>1, <5>2
      <4>5. CASE UpdateMetadata(o)
        BY <2>1, <4>1, <4>5 DEF UpdateMetadata, Types, Rows
      <4> QED
        BY <1>4, <2>4, <4>2, <4>3, <4>4, <4>5, StepWrites, Zenon DEF Writes, db
    <3> QED
      BY <3>1, <3>2, <3>3, Zenon DEF DeletedInv
  <2> QED
    BY <2>2, <2>3, <2>4, Zenon
<1> QED
  BY <1>3, <1>4, Zenon DEF Next, Expire, End, history

\* A deleted wallet stays archived until it is added again, whatever syncs, ticks,
\* patches and permit reports outlive their locks.
THEOREM DeletedStays == Spec => []StaysDeleted
<1> DEFINE J == Types /\ LockInv /\ RowsKept /\ DeletedInv
<1>1. Init => J
  BY InitTypes, InitLock, InitRows, InitDeleted, Zenon
<1>2. J /\ [Next]_vars => J'
  BY StepTypes, StepLock, StepRows, StepDeleted, Zenon
<1>3. J => StaysDeleted
  BY Zenon DEF DeletedInv, StaysDeleted
<1> QED
  BY <1>1, <1>2, <1>3, PTL DEF Spec
-----------------------------------------------------------------------------
(***************************************************************************)
(* The tables, while no operation has outlived its lock.                   *)
(***************************************************************************)
LEMMA ActiveFinite == IsFiniteSet(Active) /\ Cardinality(Active) \in Nat
<1>1. Active \in SUBSET Wallets
  BY Zenon DEF Active
<1>2. IsFiniteSet(Active)
  BY <1>1, WalletAssumption, FS_Subset, Zenon
<1> QED
  BY <1>2, FS_CardinalityType, Zenon

\* Saving the state of one wallet.
LEMMA SavedOwned ==
    ASSUME Types, OwnedAsAsked, NEW w \in Wallets, NEW st \in WalletStates, NEW re \in BOOLEAN,
           SaveState(w, st, re), asked' = asked
    PROVE  OwnedAsAsked'
<1> SUFFICES ASSUME NEW v \in Wallets
             PROVE  row'[v].owned = asked[v] /\ (~row'[v].tracked => row'[v].owned = TRUE)
  BY Zenon DEF OwnedAsAsked
<1>1. row[v].owned = asked[v] /\ (~row[v].tracked => row[v].owned = TRUE)
  BY DEF OwnedAsAsked
<1>2. CASE v = w
  <2>1. /\ row'[w].tracked
        /\ row[w].tracked => row'[w].owned = row[w].owned
        /\ ~row[w].tracked => row'[w].owned = TRUE
    BY SaveWrites, ZenonT(30)
  <2> QED
    BY <1>1, <1>2, <2>1, Zenon
<1>3. CASE v # w
  <2>1. row'[v] = row[v]
    BY <1>3, SaveElsewhere
  <2> QED
    BY <1>1, <2>1, Zenon
<1> QED
  BY <1>2, <1>3, Zenon

\* A plain save of a wallet whose row is there.
LEMMA SavedPlain ==
    ASSUME Types, ChainsIn, InQuota, NEW w \in Wallets, NEW st \in WalletStates,
           SaveState(w, st, FALSE), row[w].tracked, st.chains = row[w].chains
    PROVE  row' = row /\ Active' = Active /\ ChainsIn' /\ InQuota'
<1>1. row'[w] = row[w] /\ row' \in [Wallets -> Rows] /\ snap'[w] = st
  BY SaveWrites, Zenon
<1>2. \A v \in Wallets : row'[v] = row[v]
  BY <1>1, SaveElsewhere, Zenon
<1>3. row' = row
  BY <1>1, <1>2 DEF Types
<1>4. Active' = Active
  BY <1>3 DEF Active
<1>5. ASSUME NEW v \in Active PROVE snap'[v] # NoState /\ snap'[v].chains = row'[v].chains
  <2>1. v \in Wallets
    BY Zenon DEF Active
  <2>2. CASE v = w
    BY <1>1, <1>3, <2>2, NoStateAssumption, Zenon
  <2>3. CASE v # w
    BY <1>3, <2>1, <2>3, SaveElsewhere, Zenon DEF ChainsIn
  <2> QED
    BY <2>2, <2>3, Zenon
<1> QED
  BY <1>3, <1>4, <1>5 DEF ChainsIn, InQuota

\* A reactivating save of a wallet for which there is room.
LEMMA SavedAdd ==
    ASSUME Types, ChainsIn, InQuota, NEW w \in Wallets, NEW st \in WalletStates,
           SaveState(w, st, TRUE), Room(w)
    PROVE  ChainsIn' /\ InQuota' /\ w \in Active' /\ row'[w].chains = st.chains
           /\ row'[w].tracked
<1>1. /\ row'[w].tracked /\ ~row'[w].archived /\ row'[w].chains = st.chains /\ snap'[w] = st
  BY SaveWrites, ZenonT(30)
<1>2. Active' = Active \cup {w}
  <2>1. \A v \in Wallets \ {w} : row'[v] = row[v]
    BY SaveElsewhere, Zenon
  <2>2. \A v \in Wallets \ {w} : v \in Active' <=> v \in Active
    BY <2>1, Zenon DEF Active
  <2>3. w \in Active'
    BY <1>1 DEF Active
  <2> QED
    BY <2>2, <2>3 DEF Active
<1>3. ASSUME NEW v \in Active' PROVE snap'[v] # NoState /\ snap'[v].chains = row'[v].chains
  <2>1. v \in Wallets
    BY <1>2, Zenon DEF Active
  <2>2. CASE v = w
    BY <1>1, <2>2, NoStateAssumption, Zenon
  <2>3. CASE v # w
    BY <1>2, <2>1, <2>3, SaveElsewhere, Zenon DEF ChainsIn
  <2> QED
    BY <2>2, <2>3, Zenon
<1>4. InQuota'
  <2>1. CASE w \in Active
    <3>1. Active' = Active
      BY <1>2, <2>1
    <3> QED
      BY <3>1 DEF InQuota
  <2>2. CASE w \notin Active
    <3>1. Cardinality(Active \cup {w}) = Cardinality(Active) + 1
      BY <2>2, ActiveFinite, FS_AddElement, Zenon
    <3> QED
      BY <1>2, <2>2, <3>1, ActiveFinite, WalletAssumption DEF Room, InQuota
  <2> QED
    BY <2>1, <2>2
<1> QED
  BY <1>1, <1>2, <1>3, <1>4 DEF ChainsIn
-----------------------------------------------------------------------------
(***************************************************************************)
(* An operation that runs alone stays up to date.                          *)
(***************************************************************************)
LEMMA LeaveUpToDate ==
    ASSUME Types, NEW o \in Ops, NEW pc \in {"release", "done"}, Leave(o, pc)
    PROVE  UpToDate(o)'
<1>1. op'[o].pc = pc /\ op'[o].todo = {}
  BY LeaveFacts, Zenon DEF Labels
<1> QED
  BY <1>1, Zenon DEF UpToDate, Found

LEMMA ReadsUpToDate ==
    ASSUME Types, NEW o \in Ops, Running(o) => UpToDate(o), UNCHANGED db,
           \/ TryLock(o) \/ AddCheck(o) \/ AddLoad(o) \/ SelectMetadata(o) \/ Resolve(o)
           \/ HandlerLoad(o) \/ TickList(o) \/ TickLoad(o)
    PROVE  UpToDate(o)'
<1>1. row' = row /\ snap' = snap /\ Active' = Active
  BY Zenon DEF db, Active
<1>2. op[o].w \in Wallets /\ op[o].chains \in ChainSets /\ Cardinality(Active) \in Nat
  BY ActiveFinite, Zenon DEF Types, Operations
<1>3. CASE TryLock(o)
  <2>1. PICK r \in Requests : op' = [op EXCEPT ![o] = r]
    BY <1>3, Zenon DEF TryLock
  <2>2. op'[o] = r /\ r.todo = {} /\ r.pc = "check"
    BY <2>1, RequestFacts, Zenon DEF Types
  <2> QED
    BY <2>2, Zenon DEF UpToDate, Found
<1> SUFFICES ASSUME ~TryLock(o) PROVE UpToDate(o)'
  BY <1>3, Zenon
<1>4. UpToDate(o)
  BY Zenon
    DEF AddCheck, AddLoad, SelectMetadata, Resolve, HandlerLoad, TickList, TickLoad, At,
        Running
<1>5. \A t \in op[o].todo : op[o].kind = "tick" /\ t[2] = row'[t[1]].chains
  BY <1>1, <1>4, Zenon DEF UpToDate
<1>6. CASE AddCheck(o)
  <2>1. CASE Goto(o, "load") /\ ~(Cardinality(Active) >= MaxActive /\ op[o].w \notin Active)
    <3>1. op'[o].pc = "load" /\ op'[o].kind = "add" /\ op'[o].w = op[o].w
          /\ op'[o].todo = op[o].todo /\ op[o].kind = "add"
      BY <1>6, <2>1, GotoFacts, Zenon DEF AddCheck, At, Labels
    <3>2. Room(op[o].w)
      BY <1>2, <2>1, WalletAssumption DEF Room
    <3>3. Room(op[o].w)'
      BY <1>1, <3>1, <3>2, Zenon DEF Room
    <3> QED
      BY <1>5, <3>1, <3>3, Zenon DEF UpToDate, Found, Room
  <2> QED
    BY <1>6, <2>1, LeaveUpToDate, Zenon DEF AddCheck
<1>7. CASE AddLoad(o)
  <2> DEFINE e == Load(op[o].w, op[o].chains)
  <2>1. /\ op'[o].pc = "seed" /\ op'[o].kind = "add" /\ op'[o].w = op[o].w
        /\ op'[o].chains = op[o].chains /\ op'[o].todo = op[o].todo
        /\ op'[o].st = IF e.chains = op[o].chains THEN e ELSE New(op[o].chains)
    BY <1>7, AddLoadFacts, Zenon
  <2>2. Room(op[o].w) /\ op[o].kind = "add"
    BY <1>4, <1>7, Zenon DEF UpToDate, AddLoad, At
  <2> HIDE DEF e
  <2>3. /\ op'[o].st.chains = op[o].chains
        /\ snap[op[o].w] # NoState /\ snap[op[o].w].chains = op[o].chains
             => op'[o].st.permits = snap[op[o].w].permits
    <3>1. New(op[o].chains).chains = op[o].chains
      BY Zenon DEF New
    <3>2. snap[op[o].w] # NoState => e = snap[op[o].w]
      BY Zenon DEF e, Load
    <3> QED
      BY <2>1, <3>1, <3>2, Zenon
  <2> QED
    BY <1>1, <1>5, <2>1, <2>2, <2>3, Zenon DEF UpToDate, Found, Room
<1>8. CASE SelectMetadata(o)
  <2>1. CASE op[o].w \in Active
    <3>1. /\ op'[o].pc = "update" /\ op'[o].kind = op[o].kind /\ op'[o].w = op[o].w
          /\ op'[o].chains = op[o].chains /\ op'[o].todo = op[o].todo
          /\ op'[o].owned = row[op[o].w].owned
      BY <1>8, <2>1, SelectFacts, Zenon
    <3>2. op[o].kind = "add" => Found(o) /\ op[o].chains = row[op[o].w].chains
      BY <1>4, <1>8, Zenon DEF SelectMetadata, At, Found, UpToDate
    <3> QED
      BY <1>1, <1>5, <1>8, <3>1, <3>2, Zenon DEF UpToDate, Found
  <2> QED
    BY <1>8, <2>1, LeaveUpToDate, Zenon DEF SelectMetadata
<1>9. CASE Resolve(o)
  <2>1. CASE ~Leave(o, "release")
    <3>1. /\ op'[o].pc = "load" /\ op'[o].kind = op[o].kind /\ op'[o].w = op[o].w
          /\ op'[o].chains = row[op[o].w].chains /\ op'[o].todo = op[o].todo
      BY <1>9, <2>1, ResolveFacts, Zenon
    <3>2. op[o].kind # "add"
      BY <1>9, Zenon DEF Resolve
    <3> QED
      BY <1>1, <1>5, <3>1, <3>2, Zenon DEF UpToDate, Found
  <2> QED
    BY <2>1, LeaveUpToDate, Zenon
<1>10. CASE HandlerLoad(o)
  <2> DEFINE l == [Load(op[o].w, op[o].chains) EXCEPT !.chains = op[o].chains]
  <2>1. /\ op'[o].pc = IF op[o].pc = "load" THEN "seed" ELSE "syncsave"
        /\ op'[o].kind = op[o].kind /\ op'[o].w = op[o].w
        /\ op'[o].chains = op[o].chains /\ op'[o].todo = op[o].todo /\ op'[o].st = l
    BY <1>10, HandlerLoadFacts, Zenon
  <2>2. /\ l.chains = op[o].chains
        /\ snap[op[o].w] # NoState => l.permits = snap[op[o].w].permits
    BY <1>2, LoadFacts, ZenonT(30)
  <2>3. /\ op[o].chains = row[op[o].w].chains
        /\ op'[o].kind = "add" => op'[o].pc = "syncsave"
    BY <1>4, <1>10, <2>1, Zenon DEF UpToDate, Found, HandlerLoad
  <2> HIDE DEF l
  <2> QED
    BY <1>1, <1>5, <2>1, <2>2, <2>3, ZenonT(30) DEF UpToDate, Found
<1>11. CASE TickList(o)
  <2>1. /\ op'[o].pc = "load" /\ op'[o].kind = "tick"
        /\ \A t \in op'[o].todo : t[2] = row[t[1]].chains
    BY <1>11, TickListFacts, Zenon
  <2> QED
    BY <1>1, <2>1, Zenon DEF UpToDate, Found
<1>12. CASE TickLoad(o)
  <2>1. CASE ~Leave(o, "release")
    <3>1. op'[o].kind = "tick" /\ op'[o].todo \subseteq op[o].todo
      BY <1>12, <2>1, TickLoadFacts
    <3>2. CASE op'[o].pc = "load"
      BY <1>5, <3>1, <3>2, ZenonT(30) DEF UpToDate, Found
    <3>3. ASSUME NEW t \in op[o].todo, t \in Wallets \X ChainSets, op'[o].pc = "syncsave",
                 op'[o].w = t[1], op'[o].st = [Load(t[1], t[2]) EXCEPT !.chains = t[2]]
          PROVE  UpToDate(o)'
      <4>1. t[1] \in Wallets /\ t[2] \in ChainSets /\ t[2] = row[t[1]].chains
        BY <1>1, <1>5, <3>3, Zenon
      <4>2. /\ op'[o].st.chains = row[t[1]].chains
            /\ snap[t[1]] # NoState => op'[o].st.permits = snap[t[1]].permits
        BY <3>3, <4>1, LoadFacts, SMTT(30), ZenonT(30)
      <4> QED
        BY <1>1, <1>5, <3>1, <3>3, <4>2 DEF UpToDate, Found
    <3> QED
      BY <1>12, <2>1, <3>2, <3>3, TickLoadFacts, Zenon
  <2> QED
    BY <2>1, LeaveUpToDate
<1> QED
  BY <1>6, <1>7, <1>8, <1>9, <1>10, <1>11, <1>12

\* One save of an add: the wallet becomes active, within the quota.
LEMMA AddSaveGood ==
    ASSUME Types, TablesGood, NEW o \in Ops, UpToDate(o), op[o].kind = "add",
           op[o].pc \in {"seed", "reseed"}, NEW s \in WalletStates,
           s.chains = op[o].st.chains, SaveState(op[o].w, s, TRUE), asked' = asked
    PROVE  /\ TablesGood' /\ op[o].w \in Active' /\ row'[op[o].w].chains = op[o].chains
           /\ snap'[op[o].w] = s
<1> DEFINE w == op[o].w
<1>1. w \in Wallets /\ Room(w) /\ op[o].st.chains = op[o].chains
  BY Zenon DEF Types, Operations, UpToDate
<1>2. SaveState(w, s, TRUE)
  BY Zenon
<1>3. OwnedAsAsked'
  BY <1>1, <1>2, SavedOwned, Zenon DEF TablesGood
<1>4. ChainsIn' /\ InQuota' /\ w \in Active' /\ row'[w].chains = s.chains
  BY <1>1, <1>2, SavedAdd, ZenonT(30) DEF TablesGood
<1>5. snap'[w] = s
  BY <1>1, <1>2, SaveWrites, ZenonT(30)
<1> QED
  BY <1>1, <1>3, <1>4, <1>5, Zenon DEF TablesGood

LEMMA AddSaveUpToDate ==
    ASSUME Types, TablesGood, NEW o \in Ops, UpToDate(o), AddSave(o) \/ AddSaveFound(o)
    PROVE  TablesGood' /\ UpToDate(o)'
<1>1. /\ op[o].st \in WalletStates /\ op[o].kind = "add" /\ op[o].pc \in {"seed", "reseed"}
      /\ asked' = asked
  BY Zenon DEF Types, Operations, AddSave, AddSaveFound, At, history
<1>2. PICK s \in WalletStates, pc \in {"update", "syncload", "reseed"} :
        /\ s.chains = op[o].st.chains /\ s.permits = op[o].st.permits
        /\ SaveState(op[o].w, s, TRUE) /\ Goto(o, pc)
        /\ pc = "update" => op[o].arg = "label"
  BY <1>1, SeededFacts, Zenon DEF AddSave, AddSaveFound, AfterAdd
<1>3. /\ TablesGood' /\ op[o].w \in Active' /\ row'[op[o].w].chains = op[o].chains
      /\ snap'[op[o].w] = s
  BY <1>1, <1>2, AddSaveGood, Zenon
<1>4. pc \in Labels
  BY Zenon DEF Labels
<1>5. /\ op'[o].pc = pc /\ op'[o].kind = "add" /\ op'[o].w = op[o].w /\ op'[o].arg = op[o].arg
      /\ op'[o].chains = op[o].chains /\ op'[o].st = op[o].st /\ op'[o].todo = op[o].todo
  BY <1>1, <1>2, <1>4, GotoFacts, Zenon
<1>6. op[o].st.chains = op[o].chains /\ op[o].todo = {}
  BY <1>1, Zenon DEF UpToDate
<1> QED
  BY <1>2, <1>3, <1>5, <1>6, NoStateAssumption, Zenon DEF UpToDate, Found, Room

LEMMA UpdateUpToDate ==
    ASSUME Types, TablesGood, NEW o \in Ops, UpToDate(o), UpdateMetadata(o)
    PROVE  TablesGood' /\ UpToDate(o)'
<1> DEFINE w == op[o].w
           owned == IF op[o].arg = "none" THEN op[o].owned ELSE op[o].arg = "own"
<1>1. /\ w \in Wallets /\ op[o].owned \in BOOLEAN /\ owned \in BOOLEAN
      /\ op[o].arg = "none" => owned = row[w].owned
      /\ snap' = snap
  BY Zenon DEF Types, Operations, UpToDate, UpdateMetadata
<1>2. /\ row' = IF w \in Active THEN [row EXCEPT ![w].owned = owned] ELSE row
      /\ asked' = IF w \in Active /\ op[o].arg # "none"
                  THEN [asked EXCEPT ![w] = owned] ELSE asked
  BY DEF UpdateMetadata
<1> HIDE DEF owned
<1>3. ASSUME NEW v \in Wallets
      PROVE  /\ row'[v].tracked = row[v].tracked /\ row'[v].archived = row[v].archived
             /\ row'[v].chains = row[v].chains
  BY <1>1, <1>2 DEF Types, Rows
<1>4. ASSUME NEW v \in Wallets
      PROVE  row'[v].owned = asked'[v] /\ (~row'[v].tracked => row'[v].owned = TRUE)
  <2>1. row[v].owned = asked[v] /\ (~row[v].tracked => row[v].owned = TRUE)
    BY Zenon DEF TablesGood, OwnedAsAsked
  <2>2. CASE v = w /\ w \in Active
    <3>1. row'[v].owned = owned /\ asked'[v] = IF op[o].arg # "none" THEN owned ELSE asked[v]
      BY <1>1, <1>2, <2>2 DEF Types, Rows
    <3>2. row'[v].owned = asked'[v]
      BY <1>1, <2>1, <2>2, <3>1, Zenon
    <3>3. row'[v].tracked
      BY <1>3, <2>2, Zenon DEF Active
    <3> QED
      BY <3>2, <3>3, Zenon
  <2>3. CASE ~(v = w /\ w \in Active)
    <3>1. row'[v] = row[v] /\ asked'[v] = asked[v]
      BY <1>1, <1>2, <2>3, Zenon DEF Types
    <3> QED
      BY <2>1, <3>1, Zenon
  <2> QED
    BY <2>2, <2>3, Zenon
<1>5. Active' = Active
  BY <1>3, Zenon DEF Active
<1>6. TablesGood'
  <2>1. InQuota'
    BY <1>5, Zenon DEF TablesGood, InQuota
  <2>2. ChainsIn'
    BY <1>1, <1>3, <1>5, Zenon DEF TablesGood, ChainsIn, Active
  <2>3. OwnedAsAsked'
    BY <1>4, Zenon DEF OwnedAsAsked
  <2> QED
    BY <2>1, <2>2, <2>3, Zenon DEF TablesGood
<1>7. CASE op[o].kind = "add"
  <2>1. /\ op'[o].pc = "syncload" /\ op'[o].kind = "add" /\ op'[o].w = w
        /\ op'[o].chains = op[o].chains /\ op'[o].todo = op[o].todo
    BY <1>7, GotoFacts, Zenon DEF UpdateMetadata, Labels
  <2>2. op[o].chains = row[w].chains /\ op[o].todo = {}
    BY <1>7, Zenon DEF UpToDate, Found, UpdateMetadata
  <2> QED
    BY <1>1, <1>3, <1>6, <2>1, <2>2, Zenon DEF UpToDate, Found
<1> QED
  BY <1>6, <1>7, LeaveUpToDate, Zenon DEF UpdateMetadata
LEMMA DeleteUpToDate ==
    ASSUME Types, TablesGood, NEW o \in Ops, Delete(o)
    PROVE  TablesGood' /\ UpToDate(o)'
<1> DEFINE w == op[o].w
<1>1. /\ w \in Wallets /\ snap' = snap /\ asked' = asked
      /\ row' = [row EXCEPT ![w].archived = TRUE] \/ row' = row
  BY DEF Types, Operations, Delete
<1>2. ASSUME NEW v \in Wallets
      PROVE  /\ row'[v].tracked = row[v].tracked /\ row'[v].owned = row[v].owned
             /\ row'[v].chains = row[v].chains /\ (row[v].archived => row'[v].archived)
  BY <1>1 DEF Types, Rows
<1>3. Active' \subseteq Active
  BY <1>2, Zenon DEF Active
<1>4. OwnedAsAsked'
  BY <1>1, <1>2, Zenon DEF TablesGood, OwnedAsAsked
<1>5. ChainsIn'
  BY <1>1, <1>2, <1>3, Zenon DEF TablesGood, ChainsIn, Active
<1>6. InQuota'
  <2>1. Cardinality(Active') <= Cardinality(Active) /\ Cardinality(Active') \in Nat
    BY <1>3, ActiveFinite, FS_Subset, FS_CardinalityType, Zenon
  <2> QED
    BY <2>1, ActiveFinite, WalletAssumption DEF TablesGood, InQuota
<1> QED
  BY <1>4, <1>5, <1>6, LeaveUpToDate, Zenon DEF TablesGood, Delete

\* One plain save of a state with the chain set of its row.
LEMMA PlainSaveGood ==
    ASSUME Types, RowsKept, TablesGood, NEW o \in Ops, Found(o),
           NEW s \in WalletStates, s.chains = row[op[o].w].chains,
           SaveState(op[o].w, s, FALSE), asked' = asked
    PROVE  TablesGood' /\ row' = row
<1> DEFINE w == op[o].w
<1>1. w \in Wallets /\ row[w].tracked /\ SaveState(w, s, FALSE)
  BY Zenon DEF Types, Operations, RowsKept
<1>2. OwnedAsAsked'
  BY <1>1, SavedOwned, Zenon DEF TablesGood
<1>3. row' = row /\ ChainsIn' /\ InQuota'
  BY <1>1, SavedPlain, ZenonT(30) DEF TablesGood
<1> QED
  BY <1>2, <1>3, Zenon DEF TablesGood

\* What the plain saves write: the chain set of the state they loaded, and all of its
\* permits that have not ended.
LEMMA PlainSaves ==
    ASSUME Types, NEW o \in Ops, ~UNCHANGED db,
           PermitSave(o) \/ SyncDiscover(o) \/ SyncSave(o) \/ TickSave(o)
    PROVE  \E s \in WalletStates :
              /\ SaveState(op[o].w, s, FALSE) /\ s.chains = op[o].st.chains
              /\ \A p \in op[o].st.permits : p \notin ended => p \in s.permits
<1> DEFINE w == op[o].w
           st == op[o].st
<1>1. st \in WalletStates /\ op[o].permit \in SUBSET Permits
  BY Zenon DEF Types, Operations
<1>2. CASE PermitSave(o)
  <2> DEFINE s == [st EXCEPT !.permits = st.permits \cup op[o].permit]
  <2>1. SaveState(w, s, FALSE)
    BY <1>2, Zenon DEF PermitSave
  <2>2. s \in WalletStates /\ s.chains = st.chains /\ s.permits = st.permits \cup op[o].permit
    BY <1>1, SMTT(30), ZenonT(30) DEF WalletStates
  <2> HIDE DEF s
  <2> QED
    BY <2>1, <2>2, Zenon
<1>3. CASE SyncDiscover(o)
  BY <1>1, <1>3, SeededFacts, Zenon DEF SyncDiscover
<1>4. CASE SyncSave(o)
  <2>1. PICK s \in Synced(st) : SaveState(w, s, FALSE)
    BY <1>4, ZenonT(30) DEF SyncSave
  <2> QED
    BY <1>1, <2>1, SyncedFacts, ZenonT(30)
<1>5. CASE TickSave(o)
  <2>1. PICK s \in Synced(st) : SaveState(w, s, FALSE)
    BY <1>5, Zenon DEF TickSave
  <2> QED
    BY <1>1, <2>1, SyncedFacts, ZenonT(30)
<1> QED
  BY <1>2, <1>3, <1>4, <1>5, Zenon

\* An operation that is about to save plainly has found its row, and has the permits
\* of the state it will replace.
LEMMA PlainSaver ==
    ASSUME NEW o \in Ops, UpToDate(o),
           PermitSave(o) \/ SyncDiscover(o) \/ SyncSave(o) \/ TickSave(o)
    PROVE  /\ Found(o) /\ op[o].st.chains = row[op[o].w].chains
           /\ snap[op[o].w] # NoState => op[o].st.permits = snap[op[o].w].permits
           /\ op[o].kind # "tick" => op[o].chains = row[op[o].w].chains
           /\ \A t \in op[o].todo : op[o].kind = "tick" /\ t[2] = row[t[1]].chains
  BY Zenon DEF PermitSave, SyncDiscover, SyncSave, TickSave, At, UpToDate, Found

LEMMA PlainSavesUpToDate ==
    ASSUME Types, RowsKept, TablesGood, NEW o \in Ops, UpToDate(o), ~UNCHANGED db,
           PermitSave(o) \/ SyncDiscover(o) \/ SyncSave(o) \/ TickSave(o)
    PROVE  TablesGood' /\ UpToDate(o)'
<1>1. asked' = asked
  BY Zenon DEF PermitSave, SyncDiscover, SyncSave, TickSave, history
<1>2. TablesGood' /\ row' = row
  BY <1>1, PlainSaves, PlainSaver, PlainSaveGood, ZenonT(30)
<1>3. CASE PermitSave(o) \/ SyncSave(o)
  BY <1>2, <1>3, LeaveUpToDate, Zenon DEF PermitSave, SyncSave
<1>4. CASE SyncDiscover(o)
  <2>1. /\ op'[o].pc = "syncload" /\ op'[o].kind = "sync" /\ op[o].kind = "sync"
        /\ op'[o].w = op[o].w /\ op'[o].chains = op[o].chains /\ op'[o].todo = op[o].todo
    BY <1>4, GotoFacts, Zenon DEF SyncDiscover, At, Labels
  <2> QED
    BY <1>2, <1>4, <2>1, PlainSaver, Zenon DEF UpToDate, Found
<1>5. CASE TickSave(o)
  <2>1. op'[o].pc = "load" /\ op'[o].kind = "tick" /\ op'[o].todo = op[o].todo
    BY <1>5, GotoFacts, Zenon DEF TickSave, At, Labels
  <2> QED
    BY <1>2, <1>5, <2>1, PlainSaver, Zenon DEF UpToDate, Found
<1> QED
  BY <1>2, <1>3, <1>4, <1>5, Zenon

\* The same steps when they write nothing.
LEMMA NoSaveUpToDate ==
    ASSUME Types, NEW o \in Ops, UpToDate(o), UNCHANGED db,
           PermitSave(o) \/ SyncDiscover(o) \/ SyncSave(o) \/ TickSave(o)
    PROVE  UpToDate(o)'
<1>1. row' = row /\ \A t \in op[o].todo : op[o].kind = "tick" /\ t[2] = row[t[1]].chains
  BY Zenon DEF db, UpToDate
<1>2. CASE SyncDiscover(o)
  <2>1. /\ op'[o].pc = "syncload" /\ op'[o].kind = "sync" /\ op[o].kind = "sync"
        /\ op'[o].w = op[o].w /\ op'[o].chains = op[o].chains /\ op'[o].todo = op[o].todo
    BY <1>2, GotoFacts, Zenon DEF SyncDiscover, At, Labels
  <2>2. op[o].chains = row[op[o].w].chains
    BY <1>2, Zenon DEF SyncDiscover, At, UpToDate, Found
  <2> QED
    BY <1>1, <2>1, <2>2, Zenon DEF UpToDate, Found
<1>3. CASE TickSave(o)
  <2>1. op'[o].pc = "load" /\ op'[o].kind = "tick" /\ op'[o].todo = op[o].todo
    BY <1>3, GotoFacts, Zenon DEF TickSave, At, Labels
  <2> QED
    BY <1>1, <2>1, Zenon DEF UpToDate, Found
<1>4. CASE PermitSave(o) \/ SyncSave(o)
  BY <1>4, LeaveUpToDate, Zenon DEF PermitSave, SyncSave
<1> QED
  BY <1>2, <1>3, <1>4, Zenon

LEMMA InitAlone == Init => AloneInv
<1> SUFFICES ASSUME Init PROVE AloneInv
  OBVIOUS
<1>1. PICK known \in SUBSET Wallets :
        /\ Cardinality(known) <= MaxActive
        /\ row = [w \in Wallets |-> [tracked |-> w \in known, archived |-> FALSE,
                                     chains |-> Idle.chains, owned |-> TRUE]]
        /\ snap = [w \in Wallets |-> IF w \in known
                                     THEN [New(Idle.chains) EXCEPT !.holdings = "erc20"]
                                     ELSE NoState]
  BY Zenon DEF Init
<1>2. Active = known
  BY <1>1, Zenon DEF Active
<1>3. InQuota
  BY <1>1, <1>2 DEF InQuota
<1>4. OwnedAsAsked
  BY <1>1, Zenon DEF Init, OwnedAsAsked
<1>5. ChainsIn
  <2>1. /\ [New(Idle.chains) EXCEPT !.holdings = "erc20"] \in WalletStates
        /\ [New(Idle.chains) EXCEPT !.holdings = "erc20"].chains = Idle.chains
    BY IdleType DEF Operations, New, WalletStates, Holdings
  <2> QED
    BY <1>1, <1>2, <2>1, NoStateAssumption, Zenon DEF ChainsIn
<1>6. \A o \in Ops : ~Running(o)
  BY DEF Init, Running, Idle
<1> QED
  BY <1>3, <1>4, <1>5, <1>6 DEF AloneInv, TablesGood

LEMMA StepAlone == IInv /\ [Next]_vars => AloneInv'
<1> SUFFICES ASSUME IInv, [Next]_vars, overran' = {}
             PROVE  TablesGood' /\ \A x \in Ops : Running(x)' => UpToDate(x)'
  BY DEF AloneInv
<1>0. Types /\ LockInv /\ RowsKept /\ AloneInv
  BY Zenon DEF IInv
<1>1. CASE UNCHANGED <<row, snap, asked, op>> /\ overran = {}
  <2>1. TablesGood /\ \A x \in Ops : Running(x) => UpToDate(x)
    BY <1>0, <1>1, Zenon DEF AloneInv
  <2>2. Active' = Active
    BY <1>1, Zenon DEF Active
  <2>3. TablesGood'
    BY <1>1, <2>1, <2>2, ZenonT(30) DEF TablesGood, OwnedAsAsked, ChainsIn, InQuota
  <2>4. ASSUME NEW x \in Ops, Running(x)' PROVE UpToDate(x)'
    <3>1. UpToDate(x)
      BY <1>1, <2>1, <2>4, Zenon DEF Running
    <3> QED
      BY <1>1, <2>2, <3>1 DEF UpToDate, Found, Room
  <2> QED
    BY <2>3, <2>4, Zenon
<1>2. ASSUME NEW o \in Ops, Step(o)
      PROVE  TablesGood' /\ \A x \in Ops : Running(x)' => UpToDate(x)'
  <2>1. overran = {}
    BY <1>2, Frame, Zenon
  <2>2. TablesGood /\ (Running(o) => UpToDate(o))
    BY <1>0, <2>1, Zenon DEF AloneInv
  <2>3. ASSUME NEW x \in Ops \ {o} PROVE ~Running(x)'
    <3>1. op'[x] = op[x] /\ (TryLock(o) \/ Running(o))
      BY <1>0, <1>2, OneMoves, Zenon
    <3>2. ~Running(x)
      BY <1>0, <2>1, <3>1, WalletAssumption, Zenon DEF LockInv, HoldsItsLock, TryLock
    <3> QED
      BY <3>1, <3>2, Zenon DEF Running
  <2>4. SUFFICES TablesGood' /\ UpToDate(o)'
    BY <2>3, Zenon
  <2>5. ASSUME UNCHANGED <<db, asked>> PROVE TablesGood'
    <3>1. row' = row /\ snap' = snap /\ Active' = Active
      BY <2>5, Zenon DEF db, Active
    <3> QED
      BY <2>1, <2>2, <2>5, <3>1, Zenon DEF TablesGood, OwnedAsAsked, ChainsIn, InQuota
  <2>6. CASE \/ TryLock(o) \/ AddCheck(o) \/ AddLoad(o) \/ SelectMetadata(o) \/ Resolve(o)
             \/ HandlerLoad(o) \/ TickList(o) \/ TickLoad(o)
    <3>1. UNCHANGED <<db, asked>>
      BY <2>6, ZenonT(30)
        DEF TryLock, AddCheck, AddLoad, SelectMetadata, Resolve, HandlerLoad, TickList,
                  TickLoad, db, history
    <3> QED
      BY <1>0, <2>2, <2>5, <2>6, <3>1, ReadsUpToDate, SMTT(30), ZenonT(30)
  <2>7. CASE AddSave(o) \/ AddSaveFound(o)
    BY <1>0, <2>2, <2>7, AddSaveUpToDate, ZenonT(30) DEF AddSave, AddSaveFound, At, Running
  <2>8. CASE UpdateMetadata(o)
    BY <1>0, <2>2, <2>8, UpdateUpToDate, Zenon DEF UpdateMetadata, Running
  <2>9. CASE Delete(o)
    BY <1>0, <2>2, <2>9, DeleteUpToDate, Zenon
  <2>10. CASE PermitSave(o) \/ SyncDiscover(o) \/ SyncSave(o) \/ TickSave(o)
    <3>1. UpToDate(o) /\ asked' = asked
      BY <2>2, <2>10, Zenon DEF PermitSave, SyncDiscover, SyncSave, TickSave, At, Running, history
    <3>2. CASE UNCHANGED db
      BY <1>0, <2>5, <2>10, <3>1, <3>2, NoSaveUpToDate, SMTT(30), ZenonT(30)
    <3>3. CASE ~UNCHANGED db
      BY <1>0, <2>1, <2>2, <2>10, <3>1, <3>3, PlainSavesUpToDate, SMTT(30), ZenonT(30)
    <3> QED
      BY <3>2, <3>3, Zenon
  <2>11. CASE Fail(o) \/ Release(o) \/ Vanish(o)
    <3>1. UNCHANGED <<db, asked>>
      BY <2>11, Zenon DEF Fail, Release, Vanish, db, history
    <3> QED
      BY <1>0, <2>5, <2>11, <3>1, LeaveUpToDate, ZenonT(30) DEF Fail, Release, Vanish
  <2> QED
    BY <1>2, <2>6, <2>7, <2>8, <2>9, <2>10, <2>11, SMTT(30), ZenonT(30) DEF Step
<1>3. CASE Expire \/ (\E p \in Permits : End(p)) \/ UNCHANGED vars
  <2>1. UNCHANGED <<row, snap, asked, op>> /\ overran = {}
    BY <1>3, Zenon DEF Expire, End, history, vars
  <2> QED
    BY <1>1, <2>1, Zenon
<1> QED
  BY <1>2, <1>3, Zenon DEF Next

-----------------------------------------------------------------------------
\* The inductive invariant holds in every reachable state.
THEOREM WalletsInvariant == Spec => []IInv
<1>1. Init => IInv
  BY InitTypes, InitLock, InitRows, InitDeleted, InitAlone, Zenon DEF IInv
<1>2. IInv /\ [Next]_vars => IInv'
  BY StepTypes, StepLock, StepRows, StepDeleted, StepAlone, ZenonT(30) DEF IInv
<1> QED
  BY <1>1, <1>2, PTL DEF Spec

\* A recorded permit that has not ended is written away only by an add that asks for
\* another chain set than the stored one: every other save has the permits of the
\* state it replaces, since the lock kept what was loaded up to date.
THEOREM RecordedPermitsKept == Spec => PermitsKept
<1> DEFINE A == overran = {} =>
                  \A w \in Wallets : \A p \in Recorded(w) \ ended :
                     \/ p \in Recorded(w)'
                     \/ \E o \in Ops : /\ At(o, "add", "seed")
                                      /\ op[o].w = w /\ op[o].chains # snap[w].chains
<1>1. IInv /\ Next => A
  <2> SUFFICES ASSUME IInv, Next, overran = {}, NEW w \in Wallets, NEW p \in Recorded(w),
                      p \notin ended, p \notin Recorded(w)'
               PROVE  \E o \in Ops : /\ At(o, "add", "seed")
                                     /\ op[o].w = w /\ op[o].chains # snap[w].chains
    BY Zenon
  <2>1. Types /\ snap[w] # NoState /\ p \in snap[w].permits
    BY Zenon DEF IInv, Recorded
  <2>2. ASSUME snap'[w] = snap[w] PROVE FALSE
    BY <2>2, Zenon DEF Recorded
  <2>3. PICK o \in Ops : Step(o)
    <3>1. Expire \/ (\E q \in Permits : End(q)) => snap' = snap
      BY Zenon DEF Expire, End
    <3> QED
      BY <2>2, <3>1, Zenon DEF Next
  <2>4. /\ ~UNCHANGED db /\ op[o].w = w
        /\ \E st \in WalletStates, re \in BOOLEAN : SaveState(w, st, re)
    <3>1. op[o].w \in Wallets
      BY <2>1, Zenon DEF Types, Operations
    <3>2. snap' # snap /\ ~UNCHANGED db
      BY <2>2, Zenon DEF db
    <3>3. ~UpdateMetadata(o) /\ ~Delete(o)
      BY <3>2, Zenon DEF UpdateMetadata, Delete
    <3>4. PICK st \in WalletStates, re \in BOOLEAN : SaveState(op[o].w, st, re)
      BY <2>1, <2>3, <3>2, <3>3, StepWrites, Zenon DEF Writes
    <3> QED
      BY <2>1, <2>2, <3>1, <3>2, <3>4, SaveElsewhere, ZenonT(30)
  <2>5. ASSUME NEW s \in WalletStates, NEW re \in BOOLEAN, SaveState(w, s, re), p \in s.permits
        PROVE  FALSE
    <3>1. snap'[w] = s /\ s # NoState
      BY <2>1, <2>5, SaveWrites, NoStateAssumption, ZenonT(30)
    <3> QED
      BY <2>5, <3>1, Zenon DEF Recorded
  <2>6. Running(o) => UpToDate(o)
    BY Zenon DEF IInv, AloneInv
  <2>7. CASE PermitSave(o) \/ SyncDiscover(o) \/ SyncSave(o) \/ TickSave(o)
    <3>1. UpToDate(o)
      BY <2>6, <2>7, Zenon DEF PermitSave, SyncDiscover, SyncSave, TickSave, At, Running
    <3>2. p \in op[o].st.permits
      BY <2>1, <2>4, <2>7, <3>1, PlainSaver, Zenon
    <3> QED
      BY <2>1, <2>4, <2>5, <2>7, <3>2, PlainSaves, ZenonT(30)
  <2>8. CASE AddSave(o) \/ AddSaveFound(o)
    <3>1. op[o].kind = "add" /\ op[o].pc \in {"seed", "reseed"} /\ UpToDate(o)
      BY <2>6, <2>8, Zenon DEF AddSave, AddSaveFound, At, Running
    <3>2. PICK s \in WalletStates : s.permits = op[o].st.permits /\ SaveState(w, s, TRUE)
      BY <2>1, <2>4, <2>8, SeededFacts, ZenonT(30)
        DEF AddSave, AddSaveFound, Types, Operations
    <3>3. snap[w].permits # op[o].st.permits
      BY <2>1, <2>5, <3>2, Zenon
    <3>4. snap[w].chains # op[o].st.chains /\ op[o].st.chains = op[o].chains
      BY <2>1, <2>4, <3>1, <3>3, Zenon DEF UpToDate
    <3>5. op[o].pc = "seed"
      BY <2>4, <3>1, <3>4, Zenon DEF UpToDate
    <3> QED
      BY <2>4, <3>1, <3>4, <3>5, Zenon DEF At
  <2>9. CASE \/ TryLock(o) \/ AddCheck(o) \/ AddLoad(o) \/ SelectMetadata(o) \/ Resolve(o)
             \/ HandlerLoad(o) \/ TickList(o) \/ TickLoad(o) \/ Fail(o) \/ Release(o) \/ Vanish(o)
             \/ UpdateMetadata(o) \/ Delete(o)
    <3>1. snap' = snap
      BY <2>9, ZenonT(30)
        DEF TryLock, AddCheck, AddLoad, SelectMetadata, Resolve, HandlerLoad, TickList,
            TickLoad, Fail, Release, Vanish, UpdateMetadata, Delete
    <3> QED
      BY <2>2, <3>1, Zenon
  <2> QED
    BY <2>3, <2>7, <2>8, <2>9, SMTT(30), ZenonT(30) DEF Step
<1> HIDE DEF A
<1>2. IInv /\ [Next]_vars => [A]_vars
  BY <1>1, Zenon
<1> QED
  BY <1>2, WalletsInvariant, PTL DEF Spec, PermitsKept, A

\* The quota holds although it is checked long before the wallet is reactivated.
THEOREM QuotaKept == Spec => []QuotaHeld
<1>1. IInv => QuotaHeld
  BY Zenon DEF IInv, AloneInv, TablesGood, InQuota, QuotaHeld
<1> QED
  BY <1>1, WalletsInvariant, PTL

\* A label write never undoes the ownership the user set.
THEOREM OwnershipAsAsked == Spec => []OwnershipKept
<1>1. IInv => OwnershipKept
  BY Zenon DEF IInv, AloneInv, TablesGood, OwnedAsAsked, OwnershipKept
<1> QED
  BY <1>1, WalletsInvariant, PTL

\* The snapshot of an active wallet is one of the chain set it is tracked on.
THEOREM SnapshotsOfRows == Spec => []ChainsAgree
<1>1. IInv => ChainsAgree
  BY DEF IInv, AloneInv, TablesGood, ChainsIn, ChainsAgree
<1> QED
  BY <1>1, WalletsInvariant, PTL
=============================================================================
