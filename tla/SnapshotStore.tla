--------------------------- MODULE SnapshotStore ---------------------------
(***************************************************************************)
(* crates/dambi-core/src/snapshot/store.rs: the active policy snapshot and *)
(* its staged refreshes.  A caller begins a refresh before it fetches,     *)
(* prepares what it fetched, and commits the prepared candidate; any       *)
(* number of callers may be between these steps at once, and each supplies *)
(* its own clock reading.                                                  *)
(*                                                                         *)
(* The Decoder is fixed for the life of a Store, so a snapshot is its      *)
(* policy payload.                                                         *)
(***************************************************************************)
EXTENDS PolicyBundle, FiniteSets

CONSTANTS
    MaxGeneration,    \* bound on refreshes: u64::MAX in the code
    MaxPrepared,      \* bound on the candidates callers hold at once
    ThisStore,        \* the identity (Arc pointer) of this Store
    OtherStore,       \* the identity of another Store of the process
    NoPolicy          \* the Store's state after disposal

ASSUME StoreAssumption ==
    /\ MaxGeneration \in Nat
    /\ MaxPrepared \in Nat
    /\ ThisStore # OtherStore
    /\ NoPolicy \notin Payloads

VARIABLES
    disposed,    \* lifecycle.disposed
    generation,  \* the generation of the latest ticket
    pending,     \* the generation that may still finish, or NoTicket
    active,      \* the active policy, or NoPolicy once disposed
    prepared,    \* prepared candidates held by callers
    installs     \* history: what was activated, by which attempt and when

storeVars == <<disposed, generation, pending, active>>
vars == <<disposed, generation, pending, active, prepared, installs>>

NoTicket == 0
Owners == {ThisStore, OtherStore}

\* RefreshTicket: a capability naming its Store and its generation.  Another
\* Store's tickets carry generations of their own.
Tickets == [owner : {ThisStore}, generation : 1 .. generation]
           \cup [owner : {OtherStore}, generation : 1 .. MaxGeneration]

PreparedRefreshes ==
    [owner : Owners, generation : 1 .. MaxGeneration, policy : Payloads]

\* Slip: any attempt may finish while some attempt is pending.
CheckAttemptAnyGeneration(t) ==
    /\ ~disposed
    /\ t.owner = ThisStore
    /\ pending # NoTicket

CheckAttempt(t) ==
    /\ ~disposed
    /\ t.owner = ThisStore
    /\ pending = t.generation

Init ==
    /\ disposed = FALSE
    /\ generation = 0
    /\ pending = NoTicket
    /\ prepared = {}
    /\ \E in \in SignedInputs, now \in ClockReadings :
        /\ ValidateInput(in, now)
        /\ active = in.payload
        /\ installs = {[generation |-> 0, policy |-> in.payload, at |-> now]}

\* The new ticket invalidates every older attempt, prepared ones included.
BeginRefresh ==
    /\ ~disposed
    /\ generation < MaxGeneration
    /\ generation' = generation + 1
    /\ pending' = generation + 1
    /\ UNCHANGED <<disposed, active, prepared, installs>>

\* Read-only for the Store: the candidate it returns is the caller's.
PrepareRefresh(t, in, now) ==
    /\ CheckAttempt(t)
    /\ ValidateInput(in, now)
    /\ Cardinality(prepared) < MaxPrepared
    /\ prepared' = prepared \cup
            {[owner |-> ThisStore, generation |-> t.generation, policy |-> in.payload]}
    /\ UNCHANGED <<disposed, generation, pending, active, installs>>

\* The candidate of a Store with its own configuration, prepared over there.
PrepareElsewhere(t, p) ==
    /\ t.owner = OtherStore
    /\ Cardinality(prepared) < MaxPrepared
    /\ prepared' = prepared \cup
            {[owner |-> OtherStore, generation |-> t.generation, policy |-> p]}
    /\ UNCHANGED <<disposed, generation, pending, active, installs>>

Activates(c, now) == CheckAttempt(c) /\ Replaces(c.policy, active, now)

\* A current attempt is finished, whatever check_update then says.
FinishRefresh(c, now) ==
    /\ CheckAttempt(c)
    /\ pending' = NoTicket
    /\ active' = IF Activates(c, now) THEN c.policy ELSE active
    /\ UNCHANGED <<disposed, generation>>

\* Any other attempt is refused and changes nothing.  The candidate is moved
\* into the call.
CommitRefresh(c, now) ==
    /\ \/ FinishRefresh(c, now)
       \/ ~CheckAttempt(c) /\ UNCHANGED storeVars
    /\ prepared' = prepared \ {c}
    /\ installs' = IF Activates(c, now)
                   THEN installs \cup {[generation |-> c.generation,
                                        policy |-> c.policy, at |-> now]}
                   ELSE installs

CancelRefresh(t) ==
    /\ CheckAttempt(t)
    /\ pending' = NoTicket
    /\ UNCHANGED <<disposed, generation, active, prepared, installs>>

Dispose ==
    /\ ~disposed
    /\ disposed' = TRUE
    /\ pending' = NoTicket
    /\ active' = NoPolicy
    /\ UNCHANGED <<generation, prepared, installs>>

Next ==
    \/ BeginRefresh
    \/ \E t \in Tickets :
        \/ \E in \in SignedInputs, now \in ClockReadings : PrepareRefresh(t, in, now)
        \/ \E p \in Payloads : PrepareElsewhere(t, p)
        \/ CancelRefresh(t)
    \/ \E c \in prepared, now \in ClockReadings : CommitRefresh(c, now)
    \/ Dispose

Spec == Init /\ [][Next]_vars

-----------------------------------------------------------------------------

\* Every variable keeps its type; a live Store always has an active policy.
TypeOK ==
    /\ disposed \in BOOLEAN
    /\ generation \in 0 .. MaxGeneration
    /\ pending \in 0 .. generation
    /\ active \in Payloads \cup {NoPolicy}
    /\ disposed <=> active = NoPolicy
    /\ prepared \subseteq PreparedRefreshes
    /\ installs \subseteq
        [generation : 0 .. MaxGeneration, policy : Payloads, at : ClockReadings]

\* "Latest begun wins" together with the sequence floor: refresh attempts are
\* activated in the order they were begun, each at most once, and each with a
\* strictly higher sequence than every policy activated before it (also after
\* failed refreshes, and when the previous policy has expired).
InstallsOrdered ==
    \A a, b \in installs :
        /\ a.generation < b.generation => a.policy.sequence < b.policy.sequence
        /\ a.generation = b.generation => a = b

\* Preparation is not a lease: whatever was activated was fresh at the clock
\* reading of its own commit, and in the local trust scope.
FreshWhenActivated ==
    \A a \in installs : /\ EnsureFresh(a.policy, a.at)
                        /\ a.policy.scope = TrustScope

\* The inductive strengthening: only the attempt begun last can be pending; no
\* attempt that can still finish is older than an activated one; the active
\* policy is the sequence floor of everything activated so far.
Floor ==
    /\ pending \in {NoTicket, generation}
    /\ ~disposed => active.scope = TrustScope
    /\ \A a \in installs :
        /\ a.generation <= generation
        /\ pending # NoTicket => a.generation < pending
        /\ ~disposed => a.policy.sequence <= active.sequence

\* A superseded, cancelled, finished or foreign attempt never activates: when
\* the active policy changes, it is by the attempt begun last, still pending.
OnlyLatestBegunActivates ==
    [][active' # active /\ ~disposed'
        => /\ pending = generation
           /\ pending' = NoTicket
           /\ \E c \in prepared : /\ c.owner = ThisStore
                                  /\ c.generation = generation
                                  /\ active' = c.policy]_vars

\* The Store implements the abstract policy register.
Authority == INSTANCE PolicyAuthority
                WITH policy <- active, retired <- disposed
RefinesAuthority == Authority!Spec
=============================================================================
