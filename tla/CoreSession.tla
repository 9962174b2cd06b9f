---------------------------- MODULE CoreSession ----------------------------
(***************************************************************************)
(* crates/dambi-core/src/session: a Core session plans a decoded request   *)
(* under the active policy, and later evaluates the plan once, with facts  *)
(* the caller fetched in between.  Plans and refreshes of several callers  *)
(* interleave; each call brings its own clock reading.                     *)
(*                                                                         *)
(* A request is what request::decode makes of it; Planned(r, p) are the    *)
(* nodes of its action tree as policy p plans them, in traversal order.    *)
(* A call is named by its position in its plan.  What the policy engine    *)
(* says of the nodes is arbitrary.                                         *)
(***************************************************************************)
EXTENDS PolicyBundle, Sequences, FiniteSets

CONSTANTS
    MaxGeneration,     \* bound on refreshes of the Store
    NoPolicy,          \* the Store's state after disposal
    MaxRefreshId,      \* bound on the process-wide refresh identifiers
    MaxPlanId,         \* bound on plan identifiers
    MaxPendingPlans,   \* limits.max_pending_plans
    MaxPlanCalls,      \* limits.max_plan_calls
    MaxActionNodes,    \* MAX_ACTION_NODES
    PlanTtl,           \* limits.plan_ttl_ms
    MaxFactAge,        \* limits.max_fact_age_ms
    Calls,             \* positions of calls in a plan
    Requests,          \* decoded requests: [decodes, partial]
    Planned(_, _),     \* the nodes of a request under a policy
    FactBatches,       \* fact batches callers can supply
    NoReply

Nodes == [required : SUBSET Calls, optional : SUBSET Calls,
          planningError : BOOLEAN, unknown : BOOLEAN]
CallsOfNode(node) == node.required \cup node.optional

\* A FactResult: observedAt outside the safe range stands for any fact whose
\* shape is wrong.
Facts == [call : Calls, observedAt : ClockReadings]

ASSUME LimitsAssumption ==
    /\ MaxGeneration \in Nat /\ MaxRefreshId \in Nat /\ MaxPlanId \in Nat
    /\ MaxPendingPlans \in Nat \ {0}
    /\ MaxPlanCalls \in Nat /\ MaxActionNodes \in Nat
    /\ PlanTtl \in Nat \ {0} /\ MaxFactAge \in Nat

ASSUME InputsAssumption ==
    /\ NoPolicy \notin Payloads
    /\ IsFiniteSet(Calls)
    /\ \A r \in Requests : r.decodes \in BOOLEAN /\ r.partial \in BOOLEAN
    /\ \A r \in Requests, p \in Payloads :
        /\ Planned(r, p) \in Seq(Nodes)
        /\ \A i \in DOMAIN Planned(r, p) :
            Planned(r, p)[i].planningError => CallsOfNode(Planned(r, p)[i]) = {}
    /\ \A b \in FactBatches : b.readable \in BOOLEAN /\ b.results \subseteq Facts

VARIABLES
    disposed, generation, pending, active,   \* the SnapshotStore
    refresh,      \* the refresh begun last and not finished: [id, generation]
    refreshId,    \* NEXT_REFRESH
    nextPlan,     \* the number of the plan issued last
    plans,        \* pending plans
    retired,      \* tombstones, oldest first
    issued,       \* history: every plan as it was issued
    consumed,     \* history: numbers of the plans handed to the evaluator
    reply         \* the verdict the last call returned, if it returned one

storeVars == <<disposed, generation, pending, active>>
refreshVars == <<refresh, refreshId>>
planVars == <<nextPlan, plans, retired>>
ghosts == <<issued, consumed>>
vars == <<storeVars, refreshVars, planVars, ghosts, reply>>

\* A prepared candidate lives within one call of the session.
Store == INSTANCE SnapshotStore
            WITH prepared <- {}, installs <- {}, MaxPrepared <- 0,
                 ThisStore <- "this", OtherStore <- "other"

Plans == [id : 1 .. MaxPlanId, request : Requests, policy : Payloads,
          expiresAt : 0 .. MaxSafeInteger]
NodesOf(plan) == Planned(plan.request, plan.policy)
CallsOf(nodes) == UNION {CallsOfNode(nodes[i]) : i \in DOMAIN nodes}
Required(nodes) == UNION {nodes[i].required : i \in DOMAIN nodes}

\* Slip: tombstones are never dropped.
RetireUnbounded(ids, code) ==
    retired \o [i \in 1 .. Len(ids) |-> [id |-> ids[i], code |-> code]]

\* retire, for each id in turn.
Retire(ids, code) ==
    LET all == retired \o [i \in 1 .. Len(ids) |-> [id |-> ids[i], code |-> code]]
    IN  IF Len(all) <= MaxPendingPlans THEN all
        ELSE SubSeq(all, Len(all) - MaxPendingPlans + 1, Len(all))

\* The orders of a set of pending identifiers.
Orders(S) == {s \in UNION {[1 .. n -> S] : n \in 0 .. MaxPendingPlans} :
                /\ \A i, j \in DOMAIN s : s[i] = s[j] => i = j
                /\ \A id \in S : \E i \in DOMAIN s : s[i] = id}

Expired(now) == {plan \in plans : now >= plan.expiresAt}

\* plan()'s conditions once the expired plans are evicted, in any combination
\* that refuses the request.
Plannable(request, nodes, now) ==
    /\ Cardinality(plans \ Expired(now)) < MaxPendingPlans
    /\ EnsureFresh(active, now)
    /\ request.decodes
    /\ now + PlanTtl <= MaxSafeInteger
    /\ nextPlan < MaxPlanId
    /\ Len(nodes) <= MaxActionNodes
    /\ Cardinality(CallsOf(nodes)) <= MaxPlanCalls
    /\ Len(nodes) = 1 => ~nodes[1].planningError
-----------------------------------------------------------------------------
Init ==
    /\ disposed = FALSE
    /\ generation = 0
    /\ pending = Store!NoTicket
    /\ \E in \in SignedInputs, now \in ClockReadings :
        ValidateInput(in, now) /\ active = in.payload
    /\ refresh = {}
    /\ refreshId = 0
    /\ nextPlan = 0
    /\ plans = {}
    /\ retired = <<>>
    /\ issued = {}
    /\ consumed = {}
    /\ reply = NoReply

\* Expired plans are evicted, in the order of their identifiers' text, also
\* when the request is then refused.
Plan(request, now) ==
    /\ ~disposed
    /\ CheckClock(now)
    /\ \E ids \in Orders({plan.id : plan \in Expired(now)}) :
        retired' = Retire(ids, "PLAN_EXPIRED")
    /\ LET plan == [id |-> nextPlan + 1, request |-> request, policy |-> active,
                    expiresAt |-> now + PlanTtl]
       IN  \/ /\ Plannable(request, NodesOf(plan), now)
              /\ nextPlan' = nextPlan + 1
              /\ plans' = (plans \ Expired(now)) \cup {plan}
              /\ issued' = issued \cup {plan}
           \/ /\ ~Plannable(request, NodesOf(plan), now)
              /\ plans' = plans \ Expired(now)
              /\ UNCHANGED <<nextPlan, issued>>
    /\ reply' = NoReply
    /\ UNCHANGED <<storeVars, refreshVars, consumed>>

\* facts::validate_result.
ValidResult(f, at) ==
    /\ CheckClock(f.observedAt)
    /\ f.observedAt <= at + AllowedClockSkew
    /\ at - f.observedAt <= MaxFactAge

\* facts::validate: the facts it accepts, and whether it reports a failure.  A
\* batch that cannot be read, or belongs to another plan, contributes nothing.
Accepted(plan, batch, at) ==
    {f \in batch.results : /\ batch.readable
                           /\ batch.plan = plan.id
                           /\ f.call \in CallsOf(NodesOf(plan))
                           /\ ValidResult(f, at)}
BatchFails(plan, batch, at) ==
    ~batch.readable \/ batch.plan # plan.id \/ Accepted(plan, batch, at) # batch.results

\* The worst the evaluator says of the nodes; "fail" is an engine error or the
\* evaluator's system verdict, a deny that marks the report as failed.
EngineOutcomes == {"pass", "warn", "deny", "fail"}

\* Slip: a node that could not be planned is skipped.
NodeFailsOnFacts(node, accepted) ==
    \E c \in node.required : \A f \in accepted : f.call # c

NodeFails(node, accepted) ==
    \/ node.planningError
    \/ \E c \in node.required : \A f \in accepted : f.call # c

\* Slip: the time of the call, not of the evaluation, decides.
UnusableAtEntry(plan, now, later) ==
    \/ later < now \/ ~CheckClock(later)
    \/ now >= plan.expiresAt
    \/ ~EnsureFresh(plan.policy, now)

\* The clock is read again once the scam analysis has run; without one, `later'
\* is `now'.
Unusable(plan, now, later) ==
    \/ later < now \/ ~CheckClock(later)
    \/ later >= plan.expiresAt
    \/ ~EnsureFresh(plan.policy, later)

\* Slip: the verdict names the policy in force now.
VerdictOfActive(plan, decision, source, at, facts) ==
    [plan |-> plan.id, policy |-> active, decision |-> decision,
     source |-> source, at |-> at, facts |-> facts]

Verdict(plan, decision, source, at, facts) ==
    [plan |-> plan.id, policy |-> plan.policy, decision |-> decision,
     source |-> source, at |-> at, facts |-> facts]

\* Report::finish and scam::compose: a failure denies, an advisory scam warning
\* raises an allow and nothing else.
Judge(plan, batch, now, later, failure, engine, scamWarns) ==
    LET nodes == NodesOf(plan)
        accepted == IF Unusable(plan, now, later) THEN {} ELSE Accepted(plan, batch, later)
        failed == \/ failure
                  \/ Unusable(plan, now, later)
                  \/ BatchFails(plan, batch, later)
                  \/ \E i \in DOMAIN nodes : NodeFails(nodes[i], accepted)
                  \/ engine = "fail"
        warned == \/ plan.request.partial
                  \/ \E i \in DOMAIN nodes : nodes[i].unknown
                  \/ engine = "warn"
                  \/ scamWarns
    IN  Verdict(plan,
                IF failed \/ engine = "deny" THEN "deny"
                ELSE IF warned THEN "warn" ELSE "allow",
                IF failed THEN "fail_closed" ELSE "evaluated",
                later, accepted)

\* Slip: a plan whose facts are refused stays, for a second attempt.
EvaluateRetryable(plan, batch, now, later, check, failure, engine, scamWarns) ==
    /\ ~disposed
    /\ CheckClock(now)
    /\ now < plan.expiresAt
    /\ plans' = IF BatchFails(plan, batch, later) THEN plans ELSE plans \ {plan}
    /\ retired' = Retire(<<plan.id>>, "PLAN_CONSUMED")
    /\ consumed' = consumed \cup {plan.id}
    /\ reply' = Judge(plan, batch, now, later, failure, engine, scamWarns)
    /\ UNCHANGED <<storeVars, refreshVars, nextPlan, issued>>

\* evaluate (check = FALSE) and evaluate_check.  A plan is consumed before its
\* facts or its trust are looked at.  For a plan that is not pending the call
\* fails with its tombstone's code and changes nothing.
Evaluate(plan, batch, now, later, check, failure, engine, scamWarns) ==
    /\ ~disposed
    /\ CheckClock(now)
    /\ plans' = plans \ {plan}
    /\ \/ /\ now >= plan.expiresAt
          /\ retired' = Retire(<<plan.id>>, "PLAN_EXPIRED")
          /\ reply' = IF check THEN Verdict(plan, "deny", "fail_closed", now, {})
                      ELSE NoReply
          /\ UNCHANGED consumed
       \/ /\ now < plan.expiresAt
          /\ retired' = Retire(<<plan.id>>, "PLAN_CONSUMED")
          /\ consumed' = consumed \cup {plan.id}
          /\ reply' = Judge(plan, batch, now, later, failure, engine, scamWarns)
    /\ UNCHANGED <<storeVars, refreshVars, nextPlan, issued>>

BeginRefresh ==
    /\ Store!BeginRefresh
    /\ refreshId < MaxRefreshId
    /\ refreshId' = refreshId + 1
    /\ refresh' = {[id |-> refreshId + 1, generation |-> generation + 1]}
    /\ reply' = NoReply
    /\ UNCHANGED <<planVars, ghosts>>

\* Another session of the process, or a scam refresh, takes an identifier.
RefreshElsewhere ==
    /\ refreshId < MaxRefreshId
    /\ refreshId' = refreshId + 1
    /\ reply' = NoReply
    /\ UNCHANGED <<storeVars, refresh, planVars, ghosts>>

Ticket(r) == [owner |-> "this", generation |-> r.generation]
Candidate(r, in) == [owner |-> "this", generation |-> r.generation, policy |-> in.payload]

\* Slip: whatever is valid replaces the active policy.
CommitRefreshUnordered(r, in, now) ==
    /\ ~disposed
    /\ CheckClock(now)
    /\ refresh' = {}
    /\ active' = IF ValidateInput(in, now) THEN in.payload ELSE active
    /\ pending' = IF Store!CheckAttempt(Ticket(r)) THEN Store!NoTicket ELSE pending
    /\ reply' = NoReply
    /\ UNCHANGED <<disposed, generation, refreshId, planVars, ghosts>>

\* The refresh is taken; what was fetched is parsed, prepared and committed
\* within the call, and an error on the way cancels the Store's attempt.
CommitRefresh(r, in, now) ==
    /\ ~disposed
    /\ CheckClock(now)
    /\ refresh' = {}
    /\ active' = IF ValidateInput(in, now) /\ Store!Activates(Candidate(r, in), now)
                 THEN in.payload ELSE active
    /\ pending' = IF Store!CheckAttempt(Ticket(r)) THEN Store!NoTicket ELSE pending
    /\ reply' = NoReply
    /\ UNCHANGED <<disposed, generation, refreshId, planVars, ghosts>>

\* Slip: the session forgets its refresh and the Store does not.
CancelRefreshHere(r) ==
    /\ ~disposed
    /\ refresh' = {}
    /\ reply' = NoReply
    /\ UNCHANGED <<storeVars, refreshId, planVars, ghosts>>

CancelRefresh(r) ==
    /\ ~disposed
    /\ refresh' = {}
    /\ pending' = IF Store!CheckAttempt(Ticket(r)) THEN Store!NoTicket ELSE pending
    /\ reply' = NoReply
    /\ UNCHANGED <<disposed, generation, active, refreshId, planVars, ghosts>>

Dispose ==
    /\ Store!Dispose
    /\ plans' = {}
    /\ retired' = <<>>
    /\ refresh' = {}
    /\ reply' = NoReply
    /\ UNCHANGED <<refreshId, nextPlan, ghosts>>

Next ==
    \/ \E request \in Requests, now \in ClockReadings : Plan(request, now)
    \/ \E plan \in plans, batch \in FactBatches, now, later \in ClockReadings,
          check, failure, scamWarns \in BOOLEAN, engine \in EngineOutcomes :
            /\ failure => check
            /\ Evaluate(plan, batch, now, later, check, failure, engine, scamWarns)
    \/ BeginRefresh
    \/ RefreshElsewhere
    \/ \E r \in refresh :
        \/ \E in \in SignedInputs, now \in ClockReadings : CommitRefresh(r, in, now)
        \/ CancelRefresh(r)
    \/ Dispose

Spec == Init /\ [][Next]_vars
-----------------------------------------------------------------------------
Verdicts == [plan : 1 .. MaxPlanId, policy : Payloads,
             decision : {"allow", "warn", "deny"}, source : {"evaluated", "fail_closed"},
             at : ClockReadings, facts : SUBSET Facts]
Tombstones == [id : 1 .. MaxPlanId, code : {"PLAN_EXPIRED", "PLAN_CONSUMED"}]

\* Every variable keeps its type.
TypeOK ==
    /\ disposed \in BOOLEAN
    /\ generation \in 0 .. MaxGeneration
    /\ pending \in 0 .. generation
    /\ active \in Payloads \cup {NoPolicy}
    /\ disposed <=> active = NoPolicy
    /\ refreshId \in 0 .. MaxRefreshId
    /\ refresh \subseteq [id : 1 .. refreshId, generation : 1 .. generation]
    /\ nextPlan \in 0 .. MaxPlanId
    /\ plans \subseteq Plans /\ issued \subseteq Plans
    /\ retired \in Seq(Tombstones)
    /\ consumed \subseteq 1 .. MaxPlanId
    /\ reply \in Verdicts \cup {NoReply}

\* The session's handle on a refresh and the Store's pending attempt stand and
\* fall together: no failed, superseded or cancelled refresh leaves one of them
\* behind (commit_refresh's error path, begin_refresh over an older attempt).
RefreshMatchesStore ==
    /\ pending = Store!NoTicket => refresh = {}
    /\ pending # Store!NoTicket => \E r \in refresh : refresh = {r} /\ r.generation = pending

\* A plan is judged at most once, whatever its facts were worth: no verdict is
\* returned for a plan that was consumed before.
OneJudgementPerPlan ==
    [][reply' # NoReply => reply'.plan \notin consumed]_vars

\* The accounting of plans without the count of the pending ones.
Bookkeeping ==
    /\ Len(retired) <= MaxPendingPlans
    /\ plans \subseteq issued
    /\ \A plan \in plans :
        plan.id \notin consumed /\ \A i \in DOMAIN retired : retired[i].id # plan.id
    /\ \A i, j \in DOMAIN retired : retired[i].id = retired[j].id => i = j
    /\ \A i \in DOMAIN retired :
        retired[i].code = "PLAN_CONSUMED" <=> retired[i].id \in consumed

\* Pending plans and tombstones stay within their bound; a plan is pending or
\* has ended, and ends once; the code of a tombstone tells the truth.
PlanAccounting == Cardinality(plans) <= MaxPendingPlans /\ Bookkeeping

\* The verdict in `reply' says "evaluated" only if, at the time of evaluation,
\* the plan had not expired, the policy it was planned under was still trusted,
\* and every fact that policy requires was there and neither stale nor from the
\* future.  Refreshes, other plans and disposals may lie in between.
EvaluatedIsSound ==
    reply # NoReply /\ reply.source = "evaluated" =>
        \E plan \in issued :
            /\ plan.id = reply.plan
            /\ reply.at < plan.expiresAt
            /\ EnsureFresh(plan.policy, reply.at)
            /\ \A c \in Required(NodesOf(plan)) :
                \E f \in reply.facts :
                    /\ f.call = c
                    /\ reply.at - MaxFactAge <= f.observedAt
                    /\ f.observedAt <= reply.at + AllowedClockSkew

\* A verdict names the policy its plan was made under, not a newer one.
PinnedPolicy ==
    reply # NoReply =>
        \E plan \in issued : plan.id = reply.plan /\ plan.policy = reply.policy

\* A failure denies; an allow is given only to a request that was interpreted
\* and planned in full.
FailClosed ==
    reply # NoReply =>
        /\ reply.source = "fail_closed" => reply.decision = "deny"
        /\ reply.decision = "allow" =>
            \A plan \in issued : plan.id = reply.plan =>
                /\ ~plan.request.partial
                /\ \A i \in DOMAIN NodesOf(plan) : /\ ~NodesOf(plan)[i].unknown
                                                   /\ ~NodesOf(plan)[i].planningError

\* The session implements the abstract policy register.
Authority == INSTANCE PolicyAuthority
                WITH policy <- active, retired <- disposed
RefinesAuthority == Authority!Spec
=============================================================================
