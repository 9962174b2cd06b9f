------------------------- MODULE RefreshProofs -----------------------------
(***************************************************************************)
(* What is refreshed, and when. First the policy: the invariants, the      *)
(* action property and the refinement of PolicyAuthority by SnapshotStore, *)
(* for every set of payloads, every bound and every configuration of the   *)
(* acceptance rules. Then, below, the wallets that SyncScheduler's workers *)
(* sync.                                                                   *)
(***************************************************************************)
EXTENDS SnapshotStore, Sequences, FiniteSetTheorems, TLAPS

IInv == TypeOK /\ InstallsOrdered /\ FreshWhenActivated /\ Floor

\* The Store comes into existence with the invariant: SnapshotStore::new.
LEMMA InitIInv == Init => IInv
<1> SUFFICES ASSUME Init PROVE IInv
  OBVIOUS
<1>1. PICK in \in SignedInputs, now \in ClockReadings :
        /\ ValidateInput(in, now)
        /\ active = in.payload
        /\ installs = {[generation |-> 0, policy |-> in.payload, at |-> now]}
  BY DEF Init
<1>2. /\ in.payload \in Payloads /\ in.payload.scope = TrustScope
      /\ EnsureFresh(in.payload, now) /\ in.payload.sequence \in Nat
  BY <1>1, BundleAssumption DEF SignedInputs, ValidateInput, EnsureFresh
<1>3. TypeOK
  <2>1. installs \subseteq
          [generation : 0 .. MaxGeneration, policy : Payloads, at : ClockReadings]
    BY <1>1, <1>2, StoreAssumption
  <2>2. disposed \in BOOLEAN /\ (disposed <=> active = NoPolicy)
    BY <1>1, <1>2, StoreAssumption, Zenon DEF Init
  <2> QED
    BY <1>1, <1>2, <2>1, <2>2, StoreAssumption DEF Init, TypeOK, NoTicket
<1>4. InstallsOrdered /\ FreshWhenActivated
  BY <1>1, <1>2 DEF InstallsOrdered, FreshWhenActivated
<1>5. Floor
  BY <1>1, <1>2 DEF Init, Floor, NoTicket
<1> QED
  BY <1>3, <1>4, <1>5 DEF IInv

\* The commit of the pending attempt with a replacing candidate: the only step
\* that adds to the history.
LEMMA ActivationIInv ==
    ASSUME IInv, NEW c \in prepared, NEW now \in ClockReadings,
           CommitRefresh(c, now), CheckAttempt(c),
           Replaces(c.policy, active, now)
    PROVE  IInv'
<1> DEFINE r == [generation |-> c.generation, policy |-> c.policy, at |-> now]
<1>1. /\ c.policy \in Payloads /\ c.generation \in 1 .. MaxGeneration
      /\ pending = c.generation /\ pending = generation /\ ~disposed
      /\ active \in Payloads
  BY DEF IInv, TypeOK, Floor, PreparedRefreshes, CheckAttempt, NoTicket
<1>2. /\ disposed' = disposed /\ generation' = generation /\ pending' = NoTicket
      /\ active' = c.policy /\ installs' = installs \cup {r}
      /\ prepared' = prepared \ {c}
  BY DEF CommitRefresh, FinishRefresh, Activates, storeVars
<1>3. /\ EnsureFresh(c.policy, now) /\ c.policy.scope = TrustScope
      /\ c.policy.sequence > active.sequence
      /\ c.policy.sequence \in Nat /\ active.sequence \in Nat
  BY <1>1, BundleAssumption DEF Replaces, IInv, Floor
<1>4. TypeOK'
  <2>1. r \in [generation : 0 .. MaxGeneration, policy : Payloads, at : ClockReadings]
    BY <1>1, StoreAssumption
  <2>2. (disposed \in BOOLEAN /\ (disposed <=> active = NoPolicy))'
    BY <1>1, <1>2, StoreAssumption, Zenon DEF IInv, TypeOK
  <2>3. installs' \subseteq
          [generation : 0 .. MaxGeneration, policy : Payloads, at : ClockReadings]
    BY <1>2, <2>1 DEF IInv, TypeOK
  <2>4. prepared' \subseteq PreparedRefreshes
    BY <1>2 DEF IInv, TypeOK
  <2>5. generation' \in 0 .. MaxGeneration /\ pending' \in 0 .. generation'
    BY <1>2 DEF IInv, TypeOK, NoTicket
  <2> QED
    BY <1>1, <1>2, <2>2, <2>3, <2>4, <2>5 DEF TypeOK
<1>5. \A a \in installs : /\ a.generation \in Nat /\ a.policy.sequence \in Nat
                          /\ a.generation < r.generation
                          /\ a.policy.sequence < r.policy.sequence
  BY <1>1, <1>3, BundleAssumption, StoreAssumption DEF IInv, TypeOK, Floor, NoTicket
<1>6. r.generation = c.generation /\ r.policy = c.policy /\ r.at = now
  OBVIOUS
<1>7. /\ r.generation \in Nat /\ r.policy.sequence \in Nat
      /\ \A a \in installs : /\ a.generation \in Nat /\ a.policy.sequence \in Nat
                             /\ a.generation < r.generation
                             /\ a.policy.sequence < r.policy.sequence
  BY <1>1, <1>3, <1>5
<1> HIDE DEF r
<1>8. InstallsOrdered'
  <2> SUFFICES ASSUME NEW a \in installs', NEW b \in installs'
               PROVE  /\ a.generation < b.generation => a.policy.sequence < b.policy.sequence
                      /\ a.generation = b.generation => a = b
    BY DEF InstallsOrdered
  <2>1. CASE a \in installs /\ b \in installs
    BY <2>1 DEF IInv, InstallsOrdered
  <2>2. CASE a \in installs /\ b = r
    BY <1>7, <2>2
  <2>3. CASE a = r /\ b \in installs
    BY <1>7, <2>3
  <2>4. CASE a = r /\ b = r
    BY <1>7, <2>4
  <2> QED
    BY <1>2, <2>1, <2>2, <2>3, <2>4
<1>9. FreshWhenActivated'
  BY <1>2, <1>3, <1>6 DEF IInv, FreshWhenActivated
<1>10. Floor'
  <2>1. ASSUME NEW a \in installs'
        PROVE  a.generation <= generation' /\ a.policy.sequence <= active'.sequence
    <3>1. generation' = r.generation /\ active' = r.policy
      BY <1>1, <1>2, <1>6, Zenon
    <3>2. CASE a \in installs
      BY <1>7, <3>1, <3>2
    <3>3. CASE a = r
      BY <1>7, <3>1, <3>3
    <3> QED
      BY <1>2, <3>2, <3>3
  <2> QED
    BY <1>2, <1>3, <2>1 DEF Floor
<1> QED
  BY <1>4, <1>8, <1>9, <1>10 DEF IInv

\* Every step of the Store preserves the invariant.
LEMMA NextIInv == IInv /\ [Next]_vars => IInv'
<1> SUFFICES ASSUME IInv, [Next]_vars PROVE IInv'
  OBVIOUS
<1> USE DEF IInv
<1>1. CASE BeginRefresh
  <2>1. TypeOK'
    BY <1>1, StoreAssumption DEF BeginRefresh, TypeOK, NoTicket
  <2>2. Floor'
    BY <1>1, StoreAssumption DEF BeginRefresh, TypeOK, Floor, NoTicket
  <2> QED
    BY <1>1, <2>1, <2>2 DEF BeginRefresh, InstallsOrdered, FreshWhenActivated
<1>2. ASSUME NEW t \in Tickets, NEW in \in SignedInputs, NEW now \in ClockReadings,
             PrepareRefresh(t, in, now)
      PROVE  IInv'
  <2>1. t.generation \in 1 .. MaxGeneration /\ in.payload \in Payloads
    BY <1>2, StoreAssumption DEF PrepareRefresh, Tickets, CheckAttempt, TypeOK, SignedInputs
  <2>2. TypeOK'
    BY <1>2, <2>1 DEF PrepareRefresh, TypeOK, PreparedRefreshes, Owners
  <2> QED
    BY <1>2, <2>2 DEF PrepareRefresh, InstallsOrdered, FreshWhenActivated, Floor
<1>3. ASSUME NEW t \in Tickets, NEW p \in Payloads, PrepareElsewhere(t, p)
      PROVE  IInv'
  <2>1. t.generation \in 1 .. MaxGeneration
    BY <1>3, StoreAssumption DEF PrepareElsewhere, Tickets, TypeOK
  <2>2. TypeOK'
    BY <1>3, <2>1 DEF PrepareElsewhere, TypeOK, PreparedRefreshes, Owners
  <2> QED
    BY <1>3, <2>2 DEF PrepareElsewhere, InstallsOrdered, FreshWhenActivated, Floor
<1>4. ASSUME NEW t \in Tickets, CancelRefresh(t)
      PROVE  IInv'
  BY <1>4 DEF CancelRefresh, TypeOK, InstallsOrdered, FreshWhenActivated, Floor, NoTicket
<1>5. ASSUME NEW c \in prepared, NEW now \in ClockReadings, CommitRefresh(c, now)
      PROVE  IInv'
  <2>1. CASE CheckAttempt(c) /\ Replaces(c.policy, active, now)
    BY <1>5, <2>1, ActivationIInv
  <2>2. CASE ~(CheckAttempt(c) /\ Replaces(c.policy, active, now))
    <3>1. /\ UNCHANGED <<disposed, generation, active, installs>>
          /\ prepared' \subseteq prepared /\ pending' \in {pending, NoTicket}
      BY <1>5, <2>2 DEF CommitRefresh, FinishRefresh, Activates, storeVars
    <3> QED
      BY <3>1 DEF TypeOK, InstallsOrdered, FreshWhenActivated, Floor, NoTicket
  <2> QED
    BY <2>1, <2>2
<1>6. CASE Dispose
  BY <1>6 DEF Dispose, TypeOK, InstallsOrdered, FreshWhenActivated, Floor, NoTicket
<1>7. CASE UNCHANGED vars
  BY <1>7 DEF vars, TypeOK, InstallsOrdered, FreshWhenActivated, Floor
<1> QED
  BY <1>1, <1>2, <1>3, <1>4, <1>5, <1>6, <1>7 DEF Next

\* IInv holds throughout, whatever the callers of the Store do.
THEOREM IInvInvariant == Spec => []IInv
BY InitIInv, NextIInv, PTL DEF Spec

\* Type correctness of the Store's state.
THEOREM TypeCorrect == Spec => []TypeOK
BY IInvInvariant, PTL DEF IInv

\* Refreshes take effect in the order they were begun and the accepted
\* sequence only grows (latest begun wins; failed refreshes keep the floor).
THEOREM InstallsAreOrdered == Spec => []InstallsOrdered
BY IInvInvariant, PTL DEF IInv

\* No policy is ever activated that was stale or out of scope at its commit.
THEOREM ActivationsAreFresh == Spec => []FreshWhenActivated
BY IInvInvariant, PTL DEF IInv

\* A step that changes a live Store's policy is the commit of the attempt
\* begun last: superseded, cancelled, finished and foreign attempts have none.
THEOREM LatestBegunActivates == Spec => OnlyLatestBegunActivates
<1>1. IInv /\ [Next]_vars =>
        [active' # active /\ ~disposed'
            => /\ pending = generation
               /\ pending' = NoTicket
               /\ \E c \in prepared : /\ c.owner = ThisStore
                                      /\ c.generation = generation
                                      /\ active' = c.policy]_vars
  <2> SUFFICES ASSUME IInv, Next, active' # active, ~disposed'
               PROVE  /\ pending = generation
                      /\ pending' = NoTicket
                      /\ \E c \in prepared : /\ c.owner = ThisStore
                                             /\ c.generation = generation
                                             /\ active' = c.policy
    BY DEF vars
  <2>1. PICK c \in prepared, now \in ClockReadings : CommitRefresh(c, now)
    BY DEF Next, BeginRefresh, PrepareRefresh, PrepareElsewhere, CancelRefresh, Dispose
  <2>2. CheckAttempt(c) /\ pending' = NoTicket /\ active' = c.policy
    BY <2>1 DEF CommitRefresh, FinishRefresh, Activates, storeVars
  <2>3. c.generation \in 1 .. MaxGeneration
    BY DEF IInv, TypeOK, PreparedRefreshes
  <2> QED
    BY <2>2, <2>3 DEF CheckAttempt, IInv, Floor, NoTicket
<1> QED
  BY <1>1, IInvInvariant, PTL DEF Spec, OnlyLatestBegunActivates

\* The Store implements the abstract policy register: a step of the Store is
\* an advance, the retirement, or a stutter of the register.
THEOREM StoreRefinesAuthority == Spec => RefinesAuthority
<1>1. Init => Authority!Init
  BY DEF Init, Authority!Init, SignedInputs, ValidateInput
<1>2. IInv /\ [Next]_vars => [Authority!Next]_<<active, disposed>>
  <2> SUFFICES ASSUME IInv, Next
               PROVE  Authority!Next \/ UNCHANGED <<active, disposed>>
    BY DEF vars
  <2>1. ASSUME NEW c \in prepared, NEW now \in ClockReadings, CommitRefresh(c, now)
        PROVE  Authority!Next \/ UNCHANGED <<active, disposed>>
    <3>1. CASE CheckAttempt(c) /\ Replaces(c.policy, active, now)
      <4>1. c.policy \in Payloads /\ c.policy.scope = TrustScope
        BY <3>1 DEF IInv, TypeOK, Floor, PreparedRefreshes, Replaces, CheckAttempt
      <4> QED
        BY <2>1, <3>1, <4>1
        DEF CommitRefresh, FinishRefresh, Activates, storeVars, CheckAttempt, Replaces,
            Authority!Next, Authority!Advance
    <3>2. CASE ~(CheckAttempt(c) /\ Replaces(c.policy, active, now))
      BY <2>1, <3>2 DEF CommitRefresh, FinishRefresh, Activates, storeVars
    <3> QED
      BY <3>1, <3>2
  <2>2. CASE Dispose
    BY <2>2 DEF Dispose, Authority!Next, Authority!Retire
  <2> QED
    BY <2>1, <2>2 DEF Next, BeginRefresh, PrepareRefresh, PrepareElsewhere, CancelRefresh
<1> QED
  BY <1>1, <1>2, IInvInvariant, PTL DEF Spec, RefinesAuthority, Authority!Spec

-----------------------------------------------------------------------------
(***************************************************************************)
(* When a wallet is synced again, for any number of workers and wallets,   *)
(* any interval and any limit.                                             *)
(***************************************************************************)
CONSTANTS Wallets, Workers, Limit, MinInterval, MaxRestarts, NoWorker, Handler
VARIABLES lock, running, cursor, due, stored, todo, elapsed, restarts, since, unsaved,
          overran

Scheduler == INSTANCE SyncScheduler

Types ==
    /\ running \in [Workers -> BOOLEAN] /\ overran \in BOOLEAN
    /\ cursor \in [Workers -> Nat]
    /\ due \in [Workers -> [Wallets -> 0 .. MinInterval]]
    /\ stored \in [Wallets -> 0 .. MinInterval]
    /\ todo \in [Workers -> Seq(Wallets)]
    /\ elapsed \in [Workers -> 0 .. MinInterval]
    /\ since \in [Wallets -> 0 .. 2 * MinInterval]
    /\ unsaved \in [Wallets -> Workers \cup {NoWorker, Scheduler!Forgotten}]

\* Whoever knows the due time of a wallet knows how long ago it was synced.
DueKnown ==
    \A w \in Wallets :
        /\ unsaved[w] = NoWorker => stored[w] + since[w] >= MinInterval
        /\ \A k \in Workers : unsaved[w] = k => due[k][w] + since[w] >= MinInterval

\* Unless a tick outlived the lock, a tick that runs has it.
OneTick == ~overran => \A k \in Workers : running[k] => lock = k

\* A tick has each wallet to do once.
Once ==
    \A k \in Workers : \A i, j \in 1 .. Len(todo[k]) : todo[k][i] = todo[k][j] => i = j

\* What a tick has to do was due when the tick began.
DueAtBegin(k) ==
    \A i \in 1 .. Len(todo[k]) :
        LET w == todo[k][i] IN
        unsaved[w] \in {NoWorker, k} => since[w] - elapsed[k] >= MinInterval

InTime == ~overran => \A k \in Workers : running[k] => DueAtBegin(k)

SchedInv == Types /\ DueKnown /\ OneTick /\ Once /\ InTime

\* list_wallets_for_sync and select_wallets_for_tick return wallets that are due
\* by the database and by the worker, each of them once.
LEMMA ListedAreDue ==
    ASSUME Scheduler!Configured, Types, NEW k \in Workers,
           NEW s \in Scheduler!InOrder(k, Scheduler!SelectWalletsForTick(k))
    PROVE  /\ s \in Seq(Wallets)
           /\ \A i \in 1 .. Len(s) : stored[s[i]] = 0 /\ due[k][s[i]] = 0
           /\ \A i, j \in 1 .. Len(s) : s[i] = s[j] => i = j
<1> USE DEF Scheduler!Configured
<1> DEFINE S == Scheduler!SelectWalletsForTick(k)
<1>1. S \subseteq Wallets /\ \A w \in S : stored[w] = 0 /\ due[k][w] = 0
  BY DEF Scheduler!SelectWalletsForTick, Scheduler!ListWalletsForSync, Scheduler!DueNow
<1>2. /\ s \in [1 .. Scheduler!Cardinality(S) -> S]
      /\ \A i, j \in DOMAIN s : i < j => Scheduler!Before(k, s[i], s[j])
  BY Zenon DEF Scheduler!InOrder
<1> HIDE DEF S
<1>3. Scheduler!Cardinality(S) \in Nat
  <2>1. IsFiniteSet(Wallets)
    BY Zenon DEF Scheduler!IsFiniteSet, IsFiniteSet
  <2>2. IsFiniteSet(S)
    BY <1>1, <2>1, FS_Subset, Zenon
  <2>3. Scheduler!Cardinality(S) = Cardinality(S)
    BY Zenon DEF Scheduler!Cardinality, Cardinality
  <2> QED
    BY <2>2, <2>3, FS_CardinalityType, Zenon
<1>4. s \in Seq(S) /\ Len(s) = Scheduler!Cardinality(S)
  BY <1>2, <1>3
<1>5. s \in Seq(Wallets)
  <2>1. s \in [1 .. Scheduler!Cardinality(S) -> Wallets]
    BY <1>1, <1>2, Zenon
  <2> QED
    BY <1>3, <2>1
<1>6. \A w \in Wallets : ~Scheduler!Before(k, w, w)
  BY DEF Types, Scheduler!Before
<1>7. ASSUME NEW i \in 1 .. Len(s), NEW j \in 1 .. Len(s), s[i] = s[j]
      PROVE  i = j
  <2>1. ~(i < j) /\ ~(j < i)
    BY <1>1, <1>2, <1>3, <1>4, <1>6, <1>7, Zenon
  <2> QED
    BY <1>2, <1>4, <2>1
<1> QED
  BY <1>1, <1>2, <1>3, <1>4, <1>5, <1>7, Zenon

\* A tick lists wallets that its worker and the database agree are due.
LEMMA BeginInv ==
    ASSUME Scheduler!Configured, SchedInv, NEW k \in Workers, Scheduler!Begin(k)
    PROVE  SchedInv'
<1> USE DEF Scheduler!Configured
<1>0. /\ Types /\ DueKnown /\ OneTick /\ Once /\ InTime
      /\ lock = NoWorker /\ lock' = k /\ running' = [running EXCEPT ![k] = TRUE]
      /\ elapsed' = [elapsed EXCEPT ![k] = 0]
      /\ UNCHANGED <<cursor, due, stored, since, unsaved, overran>>
  BY DEF SchedInv, Scheduler!Begin
<1>1. PICK s \in Scheduler!InOrder(k, Scheduler!SelectWalletsForTick(k)) :
        todo' = [todo EXCEPT ![k] = s]
  BY Zenon DEF Scheduler!Begin
<1>2. /\ s \in Seq(Wallets)
      /\ \A i \in 1 .. Len(s) : stored[s[i]] = 0 /\ due[k][s[i]] = 0
      /\ \A i, j \in 1 .. Len(s) : s[i] = s[j] => i = j
  BY <1>0, ListedAreDue
<1>3. Types'
  BY <1>0, <1>1, <1>2 DEF Types
<1>4. DueKnown'
  BY <1>0, Zenon DEF DueKnown
<1>5. OneTick'
  BY <1>0 DEF OneTick, Types
<1>6. Once'
  BY <1>0, <1>1, <1>2 DEF Once, Types
<1>7. InTime'
  <2> SUFFICES ASSUME ~overran, NEW j \in Workers, running'[j]
               PROVE  DueAtBegin(j)'
    BY <1>0 DEF InTime
  <2>1. j = k
    BY <1>0 DEF OneTick, Types
  <2>2. todo'[k] = s /\ elapsed'[k] = 0
    BY <1>0, <1>1, Zenon DEF Types
  <2>3. ASSUME NEW i \in 1 .. Len(s), unsaved[s[i]] \in {NoWorker, k}
        PROVE  since[s[i]] >= MinInterval /\ since[s[i]] \in Nat
    <3> DEFINE w == s[i]
    <3>1. w \in Wallets /\ stored[w] = 0 /\ due[k][w] = 0 /\ unsaved[w] \in {NoWorker, k}
      BY <1>2, <2>3
    <3> HIDE DEF w
    <3>2. since[w] \in Nat
      BY <1>0, <3>1 DEF Types
    <3>3. 0 + since[w] >= MinInterval
      <4>1. CASE unsaved[w] = NoWorker
        BY <1>0, <3>1, <4>1, Zenon DEF DueKnown
      <4>2. CASE unsaved[w] = k
        BY <1>0, <3>1, <4>2, Zenon DEF DueKnown
      <4> QED
        BY <3>1, <4>1, <4>2, Zenon
    <3> QED
      BY <3>2, <3>3 DEF w
  <2> QED
    BY <1>0, <2>1, <2>2, <2>3 DEF DueAtBegin
<1> QED
  BY <1>3, <1>4, <1>5, <1>6, <1>7 DEF SchedInv

\* The rest of a tick's list.
LEMMA Rest ==
    ASSUME NEW s \in Seq(Wallets), s # <<>>
    PROVE  /\ Head(s) = s[1] /\ Head(s) \in Wallets /\ Len(s) \in Nat /\ Len(s) >= 1
           /\ Tail(s) \in Seq(Wallets) /\ Len(Tail(s)) = Len(s) - 1
           /\ \A i \in 1 .. Len(Tail(s)) : i + 1 \in 1 .. Len(s) /\ Tail(s)[i] = s[i + 1]
  OBVIOUS

\* Taking a wallet off a tick's list leaves each on it once.
LEMMA RestOnce ==
    ASSUME Scheduler!Configured, Once, NEW k \in Workers,
           todo[k] \in Seq(Wallets), todo[k] # <<>>,
           todo'[k] = Tail(todo[k]), \A j \in Workers : j # k => todo'[j] = todo[j]
    PROVE  Once'
<1> USE DEF Scheduler!Configured
<1>2. /\ Len(todo[k]) \in Nat /\ Len(todo[k]) >= 1 /\ Len(Tail(todo[k])) = Len(todo[k]) - 1
      /\ \A i \in 1 .. Len(Tail(todo[k])) :
           i + 1 \in 1 .. Len(todo[k]) /\ Tail(todo[k])[i] = todo[k][i + 1]
  BY Rest
<1> SUFFICES ASSUME NEW j \in Workers, NEW a \in 1 .. Len(todo'[j]),
                    NEW b \in 1 .. Len(todo'[j]), todo'[j][a] = todo'[j][b]
             PROVE  a = b
  BY DEF Once
<1>3. CASE j # k
  BY <1>3 DEF Once
<1>4. CASE j = k
  <2>1. a + 1 \in 1 .. Len(todo[k]) /\ b + 1 \in 1 .. Len(todo[k])
        /\ todo[k][a + 1] = todo[k][b + 1]
    BY <1>2, <1>4, Zenon
  <2>2. a + 1 = b + 1
    BY <2>1 DEF Once
  <2> QED
    BY <1>2, <1>4, <2>2
<1> QED
  BY <1>3, <1>4

\* mark_wallet_synced leaves the wallet's due time and its age in step.
LEMMA SyncOkInv ==
    ASSUME Scheduler!Configured, SchedInv, NEW k \in Workers, NEW saved \in BOOLEAN,
           Scheduler!SyncOk(k, saved)
    PROVE  SchedInv'
<1> USE DEF Scheduler!Configured
<1> DEFINE w == Head(todo[k])
           left == MinInterval - elapsed[k]
<1>0. /\ Types /\ DueKnown /\ OneTick /\ Once /\ InTime
      /\ running[k] /\ todo[k] # <<>>
      /\ cursor' = [cursor EXCEPT ![k] = w]
      /\ due' = [due EXCEPT ![k][w] = left]
      /\ stored' = IF saved THEN [stored EXCEPT ![w] = left] ELSE stored
      /\ unsaved' = [unsaved EXCEPT ![w] = IF saved THEN NoWorker ELSE k]
      /\ since' = [since EXCEPT ![w] = elapsed[k]]
      /\ todo' = [todo EXCEPT ![k] = Tail(@)]
      /\ UNCHANGED <<lock, running, elapsed, overran>>
  BY DEF SchedInv, Scheduler!SyncOk
<1>1. todo[k] \in Seq(Wallets) /\ elapsed[k] \in 0 .. MinInterval
  BY <1>0 DEF Types
<1>2. /\ w = todo[k][1] /\ w \in Wallets /\ Len(todo[k]) \in Nat /\ Len(todo[k]) >= 1
      /\ Tail(todo[k]) \in Seq(Wallets) /\ Len(Tail(todo[k])) = Len(todo[k]) - 1
      /\ \A i \in 1 .. Len(Tail(todo[k])) :
           i + 1 \in 1 .. Len(todo[k]) /\ Tail(todo[k])[i] = todo[k][i + 1]
  BY <1>0, <1>1, Rest, Zenon
<1>3. left \in 0 .. MinInterval /\ left + elapsed[k] = MinInterval
  BY <1>1
<1> HIDE DEF w, left
<1>4. Types'
  <2>1. stored' \in [Wallets -> 0 .. MinInterval]
    BY <1>0, <1>2, <1>3, Zenon DEF Types
  <2>5. since' \in [Wallets -> 0 .. 2 * MinInterval]
    <3>1. elapsed[k] \in 0 .. 2 * MinInterval
      BY <1>1
    <3> QED
      BY <1>0, <1>2, <3>1 DEF Types
  <2>2. due' \in [Workers -> [Wallets -> 0 .. MinInterval]]
    BY <1>0, <1>2, <1>3, Zenon DEF Types
  <2>3. unsaved' \in [Wallets -> Workers \cup {NoWorker, Scheduler!Forgotten}]
    BY <1>0, <1>2, Zenon DEF Types
  <2>4. todo' \in [Workers -> Seq(Wallets)] /\ cursor' \in [Workers -> Nat]
    BY <1>0, <1>2, Zenon DEF Types
  <2> QED
    BY <1>0, <2>1, <2>2, <2>3, <2>4, <2>5, Zenon DEF Types
<1>5. DueKnown'
  <2> SUFFICES ASSUME NEW v \in Wallets
               PROVE  /\ unsaved'[v] = NoWorker => stored'[v] + since'[v] >= MinInterval
                      /\ \A j \in Workers :
                           unsaved'[v] = j => due'[j][v] + since'[v] >= MinInterval
    BY DEF DueKnown
  <2>1. CASE v = w
    <3>1. since'[v] = elapsed[k] /\ due'[k][v] = left
      BY <1>0, <1>2, <2>1, Zenon DEF Types
    <3>2. saved => unsaved'[v] = NoWorker /\ stored'[v] = left
      BY <1>0, <1>2, <2>1, Zenon DEF Types
    <3>3. ~saved => unsaved'[v] = k
      BY <1>0, <1>2, <2>1, Zenon DEF Types
    <3> QED
      BY <1>1, <1>3, <3>1, <3>2, <3>3
  <2>2. CASE v # w
    <3>1. /\ since'[v] = since[v] /\ unsaved'[v] = unsaved[v] /\ stored'[v] = stored[v]
          /\ \A j \in Workers : due'[j][v] = due[j][v]
      BY <1>0, <1>2, <2>2 DEF Types
    <3> QED
      BY <1>0, <3>1, Zenon DEF DueKnown
  <2> QED
    BY <2>1, <2>2
<1>6. OneTick'
  BY <1>0, Zenon DEF OneTick
<1>7. /\ todo'[k] = Tail(todo[k])
      /\ \A j \in Workers : j # k => todo'[j] = todo[j]
  BY <1>0, Zenon DEF Types
<1>8. Once'
  BY <1>0, <1>1, <1>7, RestOnce, Zenon
<1>9. InTime'
  <2> SUFFICES ASSUME ~overran, NEW j \in Workers, running[j]
               PROVE  DueAtBegin(j)'
    BY <1>0 DEF InTime
  <2>1. j = k
    BY <1>0 DEF OneTick
  <2>2. DueAtBegin(k)
    BY <1>0 DEF InTime
  <2>3. ASSUME NEW i \in 1 .. Len(Tail(todo[k]))
        PROVE  LET v == Tail(todo[k])[i] IN
               unsaved'[v] \in {NoWorker, k} => since'[v] - elapsed[k] >= MinInterval
    <3> DEFINE v == Tail(todo[k])[i]
    <3>1. i + 1 \in 1 .. Len(todo[k]) /\ v = todo[k][i + 1] /\ v \in Wallets
      BY <1>1, <1>2
    <3>2. i + 1 # 1 /\ 1 \in 1 .. Len(todo[k])
      BY <1>2
    <3> HIDE DEF v
    <3>3. v # w
      BY <1>0, <1>2, <3>1, <3>2, Zenon DEF Once
    <3>4. since'[v] = since[v] /\ unsaved'[v] = unsaved[v]
      BY <1>0, <1>2, <3>1, <3>3 DEF Types
    <3>5. unsaved[v] \in {NoWorker, k} => since[v] - elapsed[k] >= MinInterval
      BY <2>2, <3>1, Zenon DEF DueAtBegin
    <3>6. unsaved'[v] \in {NoWorker, k} => since'[v] - elapsed[k] >= MinInterval
      BY <3>4, <3>5
    <3> QED
      BY <3>6 DEF v
  <2> QED
    BY <1>0, <1>7, <2>1, <2>3, ZenonT(30) DEF DueAtBegin
<1> QED
  BY <1>4, <1>5, <1>6, <1>8, <1>9 DEF SchedInv

\* A wallet that could not be synced is left for another tick.
LEMMA SyncErrorInv ==
    ASSUME Scheduler!Configured, SchedInv, NEW k \in Workers, Scheduler!SyncError(k)
    PROVE  SchedInv'
<1> USE DEF Scheduler!Configured
<1>0. /\ Types /\ DueKnown /\ OneTick /\ Once /\ InTime
      /\ running[k] /\ todo[k] # <<>>
      /\ todo' = [todo EXCEPT ![k] = Tail(@)]
      /\ UNCHANGED <<lock, running, cursor, due, stored, elapsed, since, unsaved, overran>>
  BY DEF SchedInv, Scheduler!SyncError
<1>1. todo[k] \in Seq(Wallets)
  BY <1>0, Zenon DEF Types
<1>2. /\ Tail(todo[k]) \in Seq(Wallets) /\ Len(Tail(todo[k])) = Len(todo[k]) - 1
      /\ Len(todo[k]) \in Nat /\ Len(todo[k]) >= 1
      /\ \A i \in 1 .. Len(Tail(todo[k])) :
           i + 1 \in 1 .. Len(todo[k]) /\ Tail(todo[k])[i] = todo[k][i + 1]
  BY <1>0, <1>1, Rest, Zenon
<1>3. /\ todo'[k] = Tail(todo[k])
      /\ \A j \in Workers : j # k => todo'[j] = todo[j]
  BY <1>0, Zenon DEF Types
<1>4. Types'
  BY <1>0, <1>2, Zenon DEF Types
<1>5. DueKnown' /\ OneTick'
  BY <1>0, Zenon DEF DueKnown, OneTick
<1>6. Once'
  BY <1>0, <1>1, <1>3, RestOnce, SMTT(30), ZenonT(30)
<1>7. InTime'
  <2> SUFFICES ASSUME ~overran, NEW j \in Workers, running[j]
               PROVE  DueAtBegin(j)'
    BY <1>0, Zenon DEF InTime
  <2>1. j = k /\ DueAtBegin(k)
    BY <1>0, Zenon DEF OneTick, InTime
  <2>2. ASSUME NEW i \in 1 .. Len(Tail(todo[k]))
        PROVE  LET v == Tail(todo[k])[i] IN
               unsaved[v] \in {NoWorker, k} => since[v] - elapsed[k] >= MinInterval
    BY <1>2, <2>1, Zenon DEF DueAtBegin
  <2> QED
    BY <1>0, <1>3, <2>1, <2>2, SMTT(30), ZenonT(30) DEF DueAtBegin
<1> QED
  BY <1>4, <1>5, <1>6, <1>7, Zenon DEF SchedInv

\* A tick that ends has no more wallets.
LEMMA EndInv ==
    ASSUME Scheduler!Configured, SchedInv, NEW k \in Workers, Scheduler!End(k)
    PROVE  SchedInv'
<1> USE DEF Scheduler!Configured
<1>0. /\ Types /\ DueKnown /\ OneTick /\ Once /\ InTime
      /\ running[k] /\ running' = [running EXCEPT ![k] = FALSE]
      /\ lock' = IF lock = k THEN NoWorker ELSE lock
      /\ UNCHANGED <<cursor, due, stored, todo, elapsed, since, unsaved, overran>>
  BY DEF SchedInv, Scheduler!End
<1>1. running' \in [Workers -> BOOLEAN] /\ ~running'[k]
      /\ \A j \in Workers : j # k => running'[j] = running[j]
  BY <1>0, Zenon DEF Types
<1>2. Types'
  BY <1>0, <1>1, Zenon DEF Types
<1>3. DueKnown' /\ Once'
  BY <1>0, Zenon DEF DueKnown, Once
<1>4. OneTick'
  BY <1>0, <1>1, Zenon DEF OneTick
<1>5. InTime'
  BY <1>0, <1>1 DEF InTime, DueAtBegin
<1> QED
  BY <1>2, <1>3, <1>4, <1>5, Zenon DEF SchedInv

\* A worker that restarts knows no due times: those it alone knew are forgotten.
LEMMA RestartInv ==
    ASSUME Scheduler!Configured, SchedInv, NEW k \in Workers, Scheduler!Restart(k)
    PROVE  SchedInv'
<1> USE DEF Scheduler!Configured
<1>0. /\ Types /\ DueKnown /\ OneTick /\ Once /\ InTime
      /\ running' = [running EXCEPT ![k] = FALSE]
      /\ todo' = [todo EXCEPT ![k] = <<>>]
      /\ cursor' = [cursor EXCEPT ![k] = 0]
      /\ due' = [due EXCEPT ![k] = [w \in Wallets |-> 0]]
      /\ elapsed' = [elapsed EXCEPT ![k] = 0]
      /\ unsaved' = [w \in Wallets |->
                       IF unsaved[w] = k THEN Scheduler!Forgotten ELSE unsaved[w]]
      /\ UNCHANGED <<lock, stored, since, overran>>
  BY DEF SchedInv, Scheduler!Restart
<1>1. running' \in [Workers -> BOOLEAN] /\ ~running'[k]
      /\ \A j \in Workers : j # k => running'[j] = running[j]
  BY <1>0, Zenon DEF Types
<1>2. Types'
  <2>1. due' \in [Workers -> [Wallets -> 0 .. MinInterval]]
    <3>1. [w \in Wallets |-> 0] \in [Wallets -> 0 .. MinInterval]
      OBVIOUS
    <3> QED
      BY <1>0, <3>1, Zenon DEF Types
  <2>2. unsaved' \in [Wallets -> Workers \cup {NoWorker, Scheduler!Forgotten}]
    BY <1>0, Zenon DEF Types
  <2>3. cursor' \in [Workers -> Nat] /\ elapsed' \in [Workers -> 0 .. MinInterval]
    BY <1>0 DEF Types
  <2>4. todo' \in [Workers -> Seq(Wallets)]
    BY <1>0 DEF Types
  <2> QED
    BY <1>0, <1>1, <2>1, <2>2, <2>3, <2>4, Zenon DEF Types
<1>3. /\ todo'[k] = <<>>
      /\ \A j \in Workers : j # k => /\ todo'[j] = todo[j] /\ due'[j] = due[j]
                                     /\ elapsed'[j] = elapsed[j]
      /\ \A w \in Wallets :
           unsaved'[w] = IF unsaved[w] = k THEN Scheduler!Forgotten ELSE unsaved[w]
  BY <1>0, Zenon DEF Types
<1>4. DueKnown'
  BY <1>0, <1>3, Zenon DEF DueKnown
<1>5. OneTick'
  BY <1>0, <1>1, Zenon DEF OneTick
<1>6. Once'
  BY <1>0, <1>3 DEF Once
<1>7. InTime'
  <2> SUFFICES ASSUME ~overran, NEW j \in Workers, running'[j],
                      NEW i \in 1 .. Len(todo'[j]), unsaved'[todo'[j][i]] \in {NoWorker, j}
               PROVE  since[todo'[j][i]] - elapsed'[j] >= MinInterval
    BY <1>0, Zenon DEF InTime, DueAtBegin
  <2>1. j # k /\ running[j] /\ todo'[j] = todo[j] /\ elapsed'[j] = elapsed[j]
    BY <1>1, <1>3, Zenon
  <2> DEFINE w == todo[j][i]
  <2>2. w \in Wallets /\ i \in 1 .. Len(todo[j])
    BY <1>0, <2>1 DEF Types
  <2>3. unsaved[w] \in {NoWorker, j}
    <3>1. unsaved'[w] \in {NoWorker, j}
      BY <2>1, Zenon
    <3> HIDE DEF w
    <3>2. unsaved'[w] # Scheduler!Forgotten
      BY <3>1, Zenon
    <3> QED
      BY <1>3, <2>2, <3>1, <3>2, Zenon
  <2> QED
    BY <1>0, <2>1, <2>2, <2>3, Zenon DEF InTime, DueAtBegin
<1> QED
  BY <1>2, <1>4, <1>5, <1>6, <1>7, ZenonT(30) DEF SchedInv

\* The lock changes hands: a handler takes it, or a key expires.
LEMMA LockInv ==
    ASSUME Scheduler!Configured, SchedInv, Scheduler!HandlerLock \/ Scheduler!Expire
    PROVE  SchedInv'
<1> USE DEF Scheduler!Configured
<1>0. /\ Types /\ DueKnown /\ OneTick /\ Once /\ InTime
      /\ UNCHANGED <<running, cursor, due, stored, todo, elapsed, since, unsaved>>
      /\ overran' \in BOOLEAN /\ (~overran' => ~overran)
  BY Zenon DEF SchedInv, Scheduler!HandlerLock, Scheduler!Expire, Types
<1>1. Types'
  BY <1>0, Zenon DEF Types
<1>2. DueKnown' /\ Once'
  BY <1>0, Zenon DEF DueKnown, Once
<1>3. OneTick'
  <2>1. CASE Scheduler!HandlerLock
    BY <1>0, <2>1, Zenon DEF Scheduler!HandlerLock, OneTick
  <2>2. CASE Scheduler!Expire
    <3> SUFFICES ASSUME ~overran', NEW k \in Workers, running[k]
                 PROVE  FALSE
      BY <1>0, Zenon DEF OneTick
    <3> QED
      BY <1>0, <2>2, Zenon DEF Scheduler!Expire, OneTick
  <2> QED
    BY <2>1, <2>2
<1>4. InTime'
  BY <1>0, Zenon DEF InTime, DueAtBegin
<1> QED
  BY <1>1, <1>2, <1>3, <1>4, Zenon DEF SchedInv

\* Time passes: what is left until a wallet is due goes down by what its age goes up.
LEMMA ClockInv ==
    ASSUME Scheduler!Configured, SchedInv, Scheduler!Clock
    PROVE  SchedInv'
<1> USE DEF Scheduler!Configured
<1>0. /\ Types /\ DueKnown /\ OneTick /\ Once /\ InTime
      /\ UNCHANGED <<lock, running, cursor, todo, unsaved, overran>>
  BY DEF SchedInv, Scheduler!Clock
<1>1. /\ \A n \in 0 .. MinInterval : /\ Scheduler!Minus1(n) \in 0 .. MinInterval
                                     /\ Scheduler!Minus1(n) >= n - 1 /\ Scheduler!Minus1(n) >= 0
                                     /\ Scheduler!AtMost(n + 1, MinInterval) \in 0 .. MinInterval
                                     /\ Scheduler!AtMost(n + 1, MinInterval) <= n + 1
      /\ \A n \in 0 .. 2 * MinInterval :
           /\ Scheduler!AtMost(n + 1, 2 * MinInterval) \in 0 .. 2 * MinInterval
           /\ Scheduler!AtMost(n + 1, 2 * MinInterval) = n + 1
              \/ Scheduler!AtMost(n + 1, 2 * MinInterval) = 2 * MinInterval
  BY DEF Scheduler!Minus1, Scheduler!AtMost
<1>2. /\ \A k \in Workers, w \in Wallets : due'[k][w] = Scheduler!Minus1(due[k][w])
      /\ \A w \in Wallets : stored'[w] = Scheduler!Minus1(stored[w])
      /\ \A w \in Wallets : since'[w] = Scheduler!AtMost(since[w] + 1, 2 * MinInterval)
      /\ \A k \in Workers :
           running[k] => elapsed'[k] = Scheduler!AtMost(elapsed[k] + 1, MinInterval)
  BY Zenon DEF Scheduler!Clock
<1>3. Types'
  <2>1. due' \in [Workers -> [Wallets -> 0 .. MinInterval]]
    BY <1>0, <1>1, ZenonT(30) DEF Scheduler!Clock, Types
  <2>2. stored' \in [Wallets -> 0 .. MinInterval]
    BY <1>0, <1>1, Zenon DEF Scheduler!Clock, Types
  <2>3. since' \in [Wallets -> 0 .. 2 * MinInterval]
    BY <1>0, <1>1, Zenon DEF Scheduler!Clock, Types
  <2>4. elapsed' \in [Workers -> 0 .. MinInterval]
    BY <1>0, <1>1, SMTT(30), ZenonT(30) DEF Scheduler!Clock, Types
  <2> QED
    BY <1>0, <2>1, <2>2, <2>3, <2>4, Zenon DEF Types
<1>4. \A w \in Wallets : /\ since[w] \in 0 .. 2 * MinInterval /\ stored[w] \in 0 .. MinInterval
                         /\ \A k \in Workers : due[k][w] \in 0 .. MinInterval
  BY <1>0 DEF Types
<1>5. DueKnown'
  <2>1. ASSUME NEW left \in 0 .. MinInterval, NEW age \in 0 .. 2 * MinInterval,
               left + age >= MinInterval
        PROVE  Scheduler!Minus1(left) + Scheduler!AtMost(age + 1, 2 * MinInterval) >= MinInterval
    BY <2>1 DEF Scheduler!Minus1, Scheduler!AtMost
  <2> QED
    BY <1>0, <1>2, <1>4, <2>1, ZenonT(30) DEF DueKnown
<1>6. OneTick' /\ Once'
  BY <1>0, Zenon DEF OneTick, Once
<1>7. InTime'
  <2> SUFFICES ASSUME ~overran, NEW k \in Workers, running[k],
                      NEW i \in 1 .. Len(todo[k]), unsaved[todo[k][i]] \in {NoWorker, k}
               PROVE  since'[todo[k][i]] - elapsed'[k] >= MinInterval
    BY <1>0, Zenon DEF InTime, DueAtBegin
  <2> DEFINE w == todo[k][i]
  <2>1. w \in Wallets /\ elapsed[k] \in 0 .. MinInterval
    BY <1>0 DEF Types
  <2>2. since[w] - elapsed[k] >= MinInterval
    BY <1>0 DEF InTime, DueAtBegin
  <2>3. /\ since'[w] = Scheduler!AtMost(since[w] + 1, 2 * MinInterval)
        /\ elapsed'[k] = Scheduler!AtMost(elapsed[k] + 1, MinInterval)
        /\ since[w] \in 0 .. 2 * MinInterval
    BY <1>2, <1>4, <2>1, Zenon
  <2> HIDE DEF w
  <2>4. since'[w] - elapsed'[k] >= MinInterval
    BY <2>1, <2>2, <2>3, SMTT(30), ZenonT(30) DEF Scheduler!AtMost
  <2> QED
    BY <2>4, Zenon DEF w
<1> QED
  BY <1>3, <1>5, <1>6, <1>7, ZenonT(30) DEF SchedInv

\* The workers keep the due times, the ages and the lists in step.
LEMMA SchedInvInvariant ==
    ASSUME Scheduler!Configured
    PROVE  Scheduler!Spec => []SchedInv
<1> USE DEF Scheduler!Configured
<1>1. Scheduler!Init => SchedInv
  <2> SUFFICES ASSUME Scheduler!Init PROVE SchedInv
    OBVIOUS
  <2>1. Types
    <3>1. /\ cursor \in [Workers -> Nat] /\ elapsed \in [Workers -> 0 .. MinInterval]
          /\ stored \in [Wallets -> 0 .. MinInterval]
          /\ since \in [Wallets -> 0 .. 2 * MinInterval]
      BY DEF Scheduler!Init
    <3>2. due \in [Workers -> [Wallets -> 0 .. MinInterval]]
      BY DEF Scheduler!Init
    <3>3. todo \in [Workers -> Seq(Wallets)]
      BY DEF Scheduler!Init
    <3>4. unsaved \in [Wallets -> Workers \cup {NoWorker, Scheduler!Forgotten}]
      BY Zenon DEF Scheduler!Init
    <3>5. running \in [Workers -> BOOLEAN] /\ overran \in BOOLEAN
      BY Zenon DEF Scheduler!Init
    <3> QED
      BY <3>1, <3>2, <3>3, <3>4, <3>5, Zenon DEF Types
  <2>2. DueKnown /\ OneTick /\ Once /\ InTime
    BY DEF Scheduler!Init, DueKnown, OneTick, Once, InTime
  <2> QED
    BY <2>1, <2>2 DEF SchedInv
<1>2. SchedInv /\ [Scheduler!Next]_Scheduler!vars => SchedInv'
  <2> SUFFICES ASSUME SchedInv, [Scheduler!Next]_Scheduler!vars PROVE SchedInv'
    OBVIOUS
  <2>1. CASE UNCHANGED Scheduler!vars
    BY <2>1, Zenon
      DEF Scheduler!vars, SchedInv, Types, DueKnown, OneTick, Once, InTime,
          DueAtBegin
  <2>2. CASE Scheduler!Next
    BY <2>2, BeginInv, SyncErrorInv, EndInv, RestartInv, SyncOkInv, LockInv, ClockInv, Zenon
    DEF Scheduler!Next
  <2> QED
    BY <2>1, <2>2
<1> QED
  BY <1>1, <1>2, PTL DEF Scheduler!Spec

\* Two ticks that sync a wallet begin at least the interval apart.
THEOREM SyncsApart ==
    ASSUME Scheduler!Configured
    PROVE  Scheduler!Spec => Scheduler!NotTooSoon
<1> USE DEF Scheduler!Configured
<1>1. SchedInv /\ [Scheduler!Next]_Scheduler!vars =>
        [\A k \in Workers, saved \in BOOLEAN :
            Scheduler!SyncOk(k, saved) /\ unsaved[Head(todo[k])] \in {NoWorker, k} /\ ~overran
            => since[Head(todo[k])] - elapsed[k] >= MinInterval]_Scheduler!vars
  <2> SUFFICES ASSUME SchedInv, NEW k \in Workers, NEW saved \in BOOLEAN,
                      Scheduler!SyncOk(k, saved),
                      unsaved[Head(todo[k])] \in {NoWorker, k}, ~overran
               PROVE  since[Head(todo[k])] - elapsed[k] >= MinInterval
    BY Zenon
  <2>1. running[k] /\ todo[k] # <<>> /\ todo[k] \in Seq(Wallets)
    BY Zenon DEF Scheduler!SyncOk, SchedInv, Types
  <2>2. Head(todo[k]) = todo[k][1] /\ 1 \in 1 .. Len(todo[k])
    BY <2>1, Rest
  <2>3. DueAtBegin(k)
    BY <2>1 DEF SchedInv, InTime
  <2> QED
    BY <2>2, <2>3, Zenon DEF DueAtBegin
<1> QED
  BY <1>1, SchedInvInvariant, PTL DEF Scheduler!Spec, Scheduler!NotTooSoon
=============================================================================
