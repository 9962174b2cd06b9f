------------------------- MODULE CoreSessionProofs -------------------------
(***************************************************************************)
(* TLAPS proofs about CoreSession, for every policy set, request set,      *)
(* planner, fact batch and limit: the inductive invariant of its types,    *)
(* refresh handles and plan bookkeeping; that it never holds more than     *)
(* MaxPendingPlans plans; that every verdict is sound, pinned to the       *)
(* policy of its plan and fails closed, and no plan is judged twice; and   *)
(* that the session implements PolicyAuthority.                            *)
(***************************************************************************)
EXTENDS CoreSession, FiniteSetTheorems, TLAPS

(***************************************************************************)
(* The inductive invariant, and the two facts about the operators that     *)
(* the proofs rest on: what becomes of the tombstones when plans end, and  *)
(* what the judgement of a plan returns.                                   *)
(***************************************************************************)
\* What the session's histories say together: identifiers are not reused, the
\* policy in force is of the local scope, and every plan that ended is known.
Numbered ==
    /\ ~disposed => active.scope = TrustScope
    /\ \A a \in issued : a.id <= nextPlan
    /\ \A a, b \in issued : a.id = b.id => a = b
    /\ \A n \in consumed : n <= nextPlan
    /\ \A i \in DOMAIN retired : retired[i].id <= nextPlan

IInv == TypeOK /\ RefreshMatchesStore /\ Bookkeeping /\ Numbered

Codes == {"PLAN_EXPIRED", "PLAN_CONSUMED"}

\* The tombstones after retire(): the newest of the old ones followed by the
\* new ones, MaxPendingPlans at most.
LEMMA RetireKeepsNewest ==
    ASSUME retired \in Seq(Tombstones), NEW ids \in Seq(1 .. MaxPlanId), NEW code \in Codes
    PROVE  /\ Retire(ids, code) \in Seq(Tombstones)
           /\ Len(Retire(ids, code)) <= MaxPendingPlans
           /\ \E d \in Nat : \A i \in DOMAIN Retire(ids, code) :
                /\ i + d \in 1 .. Len(retired) + Len(ids)
                /\ i + d <= Len(retired) => Retire(ids, code)[i] = retired[i + d]
                /\ i + d > Len(retired) =>
                    Retire(ids, code)[i] = [id |-> ids[(i + d) - Len(retired)], code |-> code]
<1> DEFINE new == [i \in 1 .. Len(ids) |-> [id |-> ids[i], code |-> code]]
           all == retired \o new
<1>1. new \in Seq(Tombstones) /\ Len(new) = Len(ids)
  <2>1. ASSUME NEW i \in 1 .. Len(ids)
        PROVE  [id |-> ids[i], code |-> code] \in Tombstones
    <3>1. ids[i] \in 1 .. MaxPlanId
      BY LimitsAssumption
    <3> QED
      BY <3>1 DEF Tombstones, Codes
  <2> QED
    BY <2>1
<1>2. all \in Seq(Tombstones) /\ Len(all) = Len(retired) + Len(ids)
  BY <1>1
<1>3. \A j \in 1 .. Len(all) :
        /\ j <= Len(retired) => all[j] = retired[j]
        /\ j > Len(retired) => all[j] = [id |-> ids[j - Len(retired)], code |-> code]
  BY <1>1
<1> HIDE DEF new
<1>4. Retire(ids, code) = IF Len(all) <= MaxPendingPlans THEN all
                          ELSE SubSeq(all, Len(all) - MaxPendingPlans + 1, Len(all))
  BY DEF Retire, new
<1> HIDE DEF all
<1>5. CASE Len(all) <= MaxPendingPlans
  <2>1. Retire(ids, code) = all
    BY <1>4, <1>5
  <2>2. \A i \in DOMAIN all : /\ i + 0 \in 1 .. Len(all)
                              /\ i + 0 <= Len(retired) => all[i] = retired[i + 0]
                              /\ i + 0 > Len(retired) =>
                                  all[i] = [id |-> ids[(i + 0) - Len(retired)], code |-> code]
    BY <1>2, <1>3
  <2> QED
    BY <1>2, <1>5, <2>1, <2>2, Zenon
<1>6. CASE Len(all) > MaxPendingPlans
  <2> DEFINE d == Len(all) - MaxPendingPlans
             R == SubSeq(all, d + 1, Len(all))
  <2>1. d \in Nat /\ Retire(ids, code) = R
    BY <1>2, <1>4, <1>6, LimitsAssumption
  <2>2. /\ R \in Seq(Tombstones) /\ Len(R) = MaxPendingPlans
        /\ \A i \in 1 .. Len(R) : i + d \in 1 .. Len(all) /\ R[i] = all[i + d]
    BY <1>2, <1>6, LimitsAssumption, SMTT(30), ZenonT(30)
  <2> HIDE DEF d, R
  <2>3. ASSUME NEW i \in DOMAIN R
        PROVE  /\ i + d \in 1 .. Len(all)
               /\ i + d <= Len(retired) => R[i] = retired[i + d]
               /\ i + d > Len(retired) =>
                    R[i] = [id |-> ids[(i + d) - Len(retired)], code |-> code]
    <3>1. i + d \in 1 .. Len(all) /\ R[i] = all[i + d]
      BY <2>2
    <3> DEFINE j == i + d
    <3>2. j \in 1 .. Len(all) /\ R[i] = all[j]
      BY <3>1, Zenon
    <3> HIDE DEF j
    <3>3. /\ j <= Len(retired) => R[i] = retired[j]
          /\ j > Len(retired) => R[i] = [id |-> ids[j - Len(retired)], code |-> code]
      BY <1>3, <3>2, Zenon
    <3> QED
      BY <3>1, <3>3 DEF j
  <2>4. Len(R) <= MaxPendingPlans /\ DOMAIN R = 1 .. Len(R)
    BY <2>2, LimitsAssumption
  <2>5. Len(all) = Len(retired) + Len(ids)
    BY <1>2, Zenon
  <2> QED
    BY <2>1, <2>2, <2>3, <2>4, <2>5, ZenonT(30)
<1> QED
  BY <1>2, <1>5, <1>6, LimitsAssumption

\* The pending plans E, with identifiers ids, end for the reason code.
Ends(E, ids, code) ==
    /\ E \subseteq plans
    /\ ids \in Seq(1 .. MaxPlanId)
    /\ code \in Codes
    /\ \A i \in DOMAIN ids : \E p \in E : ids[i] = p.id
    /\ \A i, j \in DOMAIN ids : ids[i] = ids[j] => i = j
    /\ retired' = Retire(ids, code)
    /\ consumed \subseteq consumed'
    /\ \A n \in consumed' \ consumed : \E p \in E : n = p.id
    /\ \A p \in E : code = "PLAN_CONSUMED" <=> p.id \in consumed'

\* What the tombstones say once the plans E have ended.
Buried(E) ==
    /\ retired' \in Seq(Tombstones) /\ Len(retired') <= MaxPendingPlans
    /\ \A i \in DOMAIN retired' : retired'[i].id <= nextPlan
    /\ \A i \in DOMAIN retired' : \A p \in plans \ E : retired'[i].id # p.id
    /\ \A i, j \in DOMAIN retired' : retired'[i].id = retired'[j].id => i = j
    /\ \A i \in DOMAIN retired' :
        retired'[i].code = "PLAN_CONSUMED" <=> retired'[i].id \in consumed'

\* When pending plans end, their tombstones are new, unique and truthful, and
\* those kept from before stay so.
LEMMA EndPlans ==
    ASSUME IInv, NEW E, NEW ids, NEW code, Ends(E, ids, code)
    PROVE  Buried(E)
<1> USE DEF IInv, Ends
<1>1. /\ retired \in Seq(Tombstones)
      /\ \A p \in plans : /\ p.id \in 1 .. MaxPlanId /\ p.id <= nextPlan
                          /\ p.id \notin consumed
                          /\ \A i \in DOMAIN retired : retired[i].id # p.id
      /\ \A p, q \in plans : p.id = q.id => p = q
  BY Zenon DEF TypeOK, Plans, Bookkeeping, Numbered
<1> DEFINE R == Retire(ids, code)
<1>0. retired \in Seq(Tombstones) /\ ids \in Seq(1 .. MaxPlanId) /\ code \in Codes
  BY <1>1, Zenon
<1>2. /\ R \in Seq(Tombstones)
      /\ Len(R) <= MaxPendingPlans
      /\ \E d \in Nat : \A i \in DOMAIN R :
            /\ i + d \in 1 .. Len(retired) + Len(ids)
            /\ i + d <= Len(retired) => R[i] = retired[i + d]
            /\ i + d > Len(retired) =>
                R[i] = [id |-> ids[(i + d) - Len(retired)], code |-> code]
  BY ONLY <1>0, RetireKeepsNewest, Zenon
<1>3. PICK d \in Nat : \A i \in DOMAIN retired' :
            /\ i + d \in 1 .. Len(retired) + Len(ids)
            /\ i + d <= Len(retired) => retired'[i] = retired[i + d]
            /\ i + d > Len(retired) =>
                retired'[i] = [id |-> ids[(i + d) - Len(retired)], code |-> code]
  BY <1>2, Zenon
<1> DEFINE Old(i, k) == k \in DOMAIN retired /\ k = i + d /\ retired'[i] = retired[k]
           New(i, k) == /\ k \in DOMAIN ids /\ k = (i + d) - Len(retired)
                        /\ retired'[i].id = ids[k] /\ retired'[i].code = code
<1>4. ASSUME NEW i \in DOMAIN retired'
      PROVE  i \in Nat /\ ((\E k \in Nat : Old(i, k)) \/ (\E k \in Nat : New(i, k)))
  <2>1. i \in Nat /\ Len(retired) \in Nat /\ Len(ids) \in Nat
    BY <1>1, <1>2
  <2>2. CASE i + d <= Len(retired)
    <3>1. Old(i, i + d)
      BY <1>1, <1>3, <2>1, <2>2, SMTT(30), ZenonT(30)
    <3> QED
      BY <2>1, <3>1
  <2>3. CASE i + d > Len(retired)
    <3>1. (i + d) - Len(retired) \in 1 .. Len(ids)
      BY <1>3, <2>1, <2>3
    <3>2. retired'[i] = [id |-> ids[(i + d) - Len(retired)], code |-> code]
      BY <1>3, <2>3, Zenon
    <3>3. New(i, (i + d) - Len(retired))
      BY <3>1, <3>2
    <3> QED
      BY <2>1, <3>1, <3>3, SMTT(30), ZenonT(30)
  <2> QED
    BY <1>3, <2>1, <2>2, <2>3
<1>5. ASSUME NEW i \in DOMAIN retired'
      PROVE  /\ retired'[i].id <= nextPlan
             /\ \A p \in plans \ E : retired'[i].id # p.id
             /\ retired'[i].code = "PLAN_CONSUMED" <=> retired'[i].id \in consumed'
  <2>1. CASE \E k \in Nat : Old(i, k)
    <3>1. PICK k \in Nat : Old(i, k)
      BY <2>1, Zenon
    <3>2. /\ retired[k].id <= nextPlan
          /\ \A p \in plans : retired[k].id # p.id
          /\ retired[k].code = "PLAN_CONSUMED" <=> retired[k].id \in consumed
      BY <3>1, Zenon DEF Numbered, Bookkeeping
    <3> QED
      BY <3>1, <3>2, Zenon
  <2>2. CASE \E k \in Nat : New(i, k)
    <3>1. PICK k \in Nat : New(i, k)
      BY <2>2, Zenon
    <3>2. PICK p \in E : ids[k] = p.id
      BY <3>1, Zenon
    <3>3. code = "PLAN_CONSUMED" <=> p.id \in consumed'
      BY <1>1, <3>2, Zenon
    <3> QED
      BY <1>1, <3>1, <3>2, <3>3
  <2> QED
    BY <1>4, <2>1, <2>2, Zenon
<1>6. ASSUME NEW i \in DOMAIN retired', NEW j \in DOMAIN retired',
             retired'[i].id = retired'[j].id
      PROVE  i = j
  <2>1. i \in Nat /\ j \in Nat /\ Len(retired) \in Nat
    BY <1>1, <1>4
  <2>2. ASSUME NEW k \in Nat, NEW l \in Nat, Old(i, k), Old(j, l) PROVE i = j
    <3>1. k = l
      BY <1>6, <2>2 DEF Bookkeeping
    <3> QED
      BY <2>1, <2>2, <3>1
  <2>3. ASSUME NEW k \in Nat, NEW l \in Nat, New(i, k), New(j, l) PROVE i = j
    <3>1. k = l
      BY <1>6, <2>3, Zenon
    <3> QED
      BY <2>1, <2>3, <3>1
  <2>4. ASSUME NEW k \in Nat, NEW l \in Nat, Old(i, k), New(j, l) PROVE FALSE
    BY <1>1, <1>6, <2>4
  <2>5. ASSUME NEW k \in Nat, NEW l \in Nat, New(i, k), Old(j, l) PROVE FALSE
    <3>1. PICK p \in E : ids[k] = p.id
      BY <2>5, Zenon
    <3>2. retired[l].id = p.id /\ l \in DOMAIN retired /\ p \in plans
      BY <1>6, <2>5, <3>1, Zenon
    <3> QED
      BY <1>1, <3>2
  <2> HIDE DEF Old, New
  <2> QED
    BY <1>4, <2>2, <2>3, <2>4, <2>5, Zenon
<1> QED
  BY <1>2, <1>5, <1>6, Zenon DEF Buried

\* What a judgement says of its plan: it fails closed, it is evaluated from usable
\* facts alone, and it allows only what was understood completely.
Judged(v, plan, batch, now, later) ==
    /\ v \in Verdicts
    /\ v.plan = plan.id /\ v.policy = plan.policy /\ v.at = later
    /\ v.source = "fail_closed" => v.decision = "deny"
    /\ v.source = "evaluated" =>
         /\ ~Unusable(plan, now, later)
         /\ v.facts = Accepted(plan, batch, later)
         /\ \A i \in DOMAIN NodesOf(plan) : ~NodeFails(NodesOf(plan)[i], v.facts)
    /\ v.decision = "allow" =>
         /\ v.source = "evaluated"
         /\ ~plan.request.partial
         /\ \A i \in DOMAIN NodesOf(plan) : ~NodesOf(plan)[i].unknown

\* What the judgement of a plan returns: the plan's own identity and policy, a
\* deny when it failed, and an "evaluated" only when nothing failed.
LEMMA JudgeFacts ==
    ASSUME NEW plan \in Plans, NEW batch \in FactBatches,
           NEW now \in ClockReadings, NEW later \in ClockReadings,
           NEW failure \in BOOLEAN, NEW scamWarns \in BOOLEAN,
           NEW engine \in EngineOutcomes,
           NEW v, v = Judge(plan, batch, now, later, failure, engine, scamWarns)
    PROVE  Judged(v, plan, batch, now, later)
<1> DEFINE nodes == NodesOf(plan)
           accepted == IF Unusable(plan, now, later) THEN {} ELSE Accepted(plan, batch, later)
           failed == \/ failure
                     \/ Unusable(plan, now, later)
                     \/ BatchFails(plan, batch, later)
                     \/ \E i \in DOMAIN nodes : NodeFails(nodes[i], accepted)
                     \/ engine = "fail"
           warned == \/ plan.request.partial
                     \/ \E i \in DOMAIN nodes : nodes[i].unknown
                     \/ engine = "warn"
                     \/ scamWarns
           decision == IF failed \/ engine = "deny" THEN "deny"
                       ELSE IF warned THEN "warn" ELSE "allow"
           source == IF failed THEN "fail_closed" ELSE "evaluated"
<1>1. v = [plan |-> plan.id, policy |-> plan.policy, decision |-> decision,
           source |-> source, at |-> later, facts |-> accepted]
  BY Zenon DEF Judge, Verdict
<1>2. accepted \subseteq Facts
  BY InputsAssumption, Zenon DEF Accepted
<1>3. plan.id \in 1 .. MaxPlanId /\ plan.policy \in Payloads
  BY Zenon DEF Plans
<1> HIDE DEF accepted, failed, warned
<1>4. v \in Verdicts
  <2>1. decision \in {"allow", "warn", "deny"} /\ source \in {"evaluated", "fail_closed"}
    BY Zenon
  <2> HIDE DEF decision, source
  <2> QED
    BY <1>1, <1>2, <1>3, <2>1 DEF Verdicts
<1>5. /\ v.plan = plan.id /\ v.policy = plan.policy /\ v.at = later
      /\ v.decision = decision /\ v.source = source /\ v.facts = accepted
  BY <1>1
<1>6. ~failed => /\ ~Unusable(plan, now, later)
                 /\ accepted = Accepted(plan, batch, later)
                 /\ \A i \in DOMAIN nodes : ~NodeFails(nodes[i], accepted)
  BY DEF failed, accepted
<1>7. ~warned => /\ ~plan.request.partial
                 /\ \A i \in DOMAIN nodes : ~nodes[i].unknown
  BY DEF warned
<1>8. /\ source = "fail_closed" => decision = "deny"
      /\ source = "evaluated" => ~failed
      /\ decision = "allow" => ~failed /\ ~warned /\ source = "evaluated"
  OBVIOUS
<1> HIDE DEF decision, source
<1> QED
  BY <1>4, <1>5, <1>6, <1>7, <1>8 DEF Judged

-----------------------------------------------------------------------------
(***************************************************************************)
(* The invariant is inductive: one lemma per operation.                    *)
(***************************************************************************)
\* A session comes into existence with the invariant: CoreSession::new.
LEMMA InitIInv == Init => IInv
<1> SUFFICES ASSUME Init PROVE IInv
  BY Zenon
<1>1. active \in Payloads /\ active.scope = TrustScope
  BY DEF Init, SignedInputs, ValidateInput
<1>3. disposed \in BOOLEAN /\ (disposed <=> active = NoPolicy)
  BY <1>1, InputsAssumption, Zenon DEF Init
<1>4. TypeOK
  BY <1>1, <1>3, LimitsAssumption DEF Init, TypeOK, Store!NoTicket
<1>5. RefreshMatchesStore
  BY Zenon DEF Init, RefreshMatchesStore
<1>6. Bookkeeping /\ Numbered
  BY <1>1, LimitsAssumption DEF Init, Bookkeeping, Numbered
<1> QED
  BY <1>4, <1>5, <1>6, Zenon DEF IInv

\* plan(): the eviction of expired plans, then at most one new plan.
LEMMA PlanIInv ==
    ASSUME IInv, NEW request \in Requests, NEW now \in ClockReadings, Plan(request, now)
    PROVE  IInv'
<1> DEFINE E == Expired(now)
           S == {p.id : p \in E}
           plan == [id |-> nextPlan + 1, request |-> request, policy |-> active,
                    expiresAt |-> now + PlanTtl]
<1>1. E \subseteq plans
  BY Zenon DEF Expired
<1>2. S \subseteq 1 .. MaxPlanId
  BY <1>1, Zenon DEF IInv, TypeOK, Plans
<1>3. PICK ids \in Orders(S) : retired' = Retire(ids, "PLAN_EXPIRED")
  BY Zenon DEF Plan
<1> HIDE DEF E, S
<1>4. PICK len \in Nat : ids \in [1 .. len -> S]
  BY LimitsAssumption DEF Orders
<1>5. \A i, j \in DOMAIN ids : ids[i] = ids[j] => i = j
  BY DEF Orders
<1>6. ids \in Seq(1 .. MaxPlanId)
  <2>1. \A i \in 1 .. len : ids[i] \in 1 .. MaxPlanId
    BY <1>2, <1>4, Zenon
  <2>2. [i \in 1 .. len |-> ids[i]] \in Seq(1 .. MaxPlanId)
    BY <2>1
  <2>3. ids = [i \in 1 .. len |-> ids[i]]
    BY <1>4
  <2> QED
    BY <2>2, <2>3, Zenon
<1>7. \A i \in DOMAIN ids : \E p \in E : ids[i] = p.id
  BY <1>4 DEF S
<1>8. consumed' = consumed
  BY DEF Plan
<1>9. Buried(E)
  <2>1. "PLAN_EXPIRED" \in Codes /\ "PLAN_EXPIRED" # "PLAN_CONSUMED"
    BY Zenon DEF Codes
  <2>2. \A p \in E : p.id \notin consumed'
    BY <1>1, <1>8, Zenon DEF IInv, Bookkeeping
  <2>3. Ends(E, ids, "PLAN_EXPIRED")
    BY <1>1, <1>3, <1>5, <1>6, <1>7, <1>8, <2>1, <2>2 DEF Ends
  <2> QED
    BY <2>3, EndPlans
<1> USE DEF Buried
<1>11. /\ UNCHANGED <<disposed, generation, pending, active, refresh, refreshId, consumed>>
       /\ reply' = NoReply /\ ~disposed /\ CheckClock(now)
  BY Zenon DEF Plan, storeVars, refreshVars
<1>12. RefreshMatchesStore'
  BY <1>11, Zenon DEF IInv, RefreshMatchesStore
<1>13. CASE UNCHANGED <<nextPlan, issued>> /\ plans' = plans \ E
  <2>1. TypeOK'
    BY <1>9, <1>11, <1>13, Zenon DEF IInv, TypeOK
  <2>2. Bookkeeping'
    BY <1>9, <1>11, <1>13 DEF IInv, Bookkeeping
  <2>3. Numbered'
    BY <1>9, <1>11, <1>13 DEF IInv, Numbered
  <2> QED
    BY <1>12, <2>1, <2>2, <2>3 DEF IInv
<1>14. CASE /\ Plannable(request, NodesOf(plan), now) /\ nextPlan' = nextPlan + 1
            /\ plans' = (plans \ E) \cup {plan} /\ issued' = issued \cup {plan}
  <2>1. /\ nextPlan \in Nat /\ nextPlan < MaxPlanId /\ nextPlan' \in 0 .. MaxPlanId
        /\ active \in Payloads /\ now + PlanTtl \in 0 .. MaxSafeInteger
    BY <1>11, <1>14, LimitsAssumption, BundleAssumption
    DEF IInv, TypeOK, Plannable, E, ClockReadings
  <2>2. /\ plan \in Plans
        /\ plan.id = nextPlan + 1
    <3>1. nextPlan + 1 \in 1 .. MaxPlanId
      BY <2>1, LimitsAssumption
    <3> QED
      BY <2>1, <3>1, Zenon DEF Plans
  <2> HIDE DEF plan
  <2>3. TypeOK'
    BY <1>9, <1>11, <1>14, <2>1, <2>2, Zenon DEF IInv, TypeOK
  <2>5. /\ \A a \in issued : a.id \in Nat /\ a.id <= nextPlan
        /\ \A n \in consumed : n \in Nat /\ n <= nextPlan
        /\ \A i \in DOMAIN retired' : retired'[i].id \in Nat
    <3>1. \A a \in issued : a.id \in Nat /\ a.id <= nextPlan
      BY LimitsAssumption DEF IInv, TypeOK, Numbered, Plans
    <3>2. \A n \in consumed : n \in Nat /\ n <= nextPlan
      BY LimitsAssumption DEF IInv, TypeOK, Numbered
    <3>3. ASSUME NEW i \in DOMAIN retired' PROVE retired'[i].id \in Nat
      <4>1. retired'[i] \in Tombstones
        BY <1>9
      <4> QED
        BY <4>1, LimitsAssumption DEF Tombstones
    <3> QED
      BY <3>1, <3>2, <3>3, Zenon
  <2>6. /\ plan.id \notin consumed
        /\ \A i \in DOMAIN retired' : retired'[i].id # plan.id
        /\ \A a \in issued : a.id # plan.id
    BY <1>9, <2>1, <2>2, <2>5
  <2>7. Bookkeeping'
    <3>1. \A p \in plans' :
            p.id \notin consumed' /\ \A i \in DOMAIN retired' : retired'[i].id # p.id
      BY <1>9, <1>11, <1>14, <2>6 DEF IInv, Bookkeeping
    <3>2. plans' \subseteq issued'
      BY <1>14, Zenon DEF IInv, Bookkeeping
    <3> QED
      BY <1>9, <3>1, <3>2, ZenonT(30) DEF Bookkeeping
  <2>8. Numbered'
    <3>1. \A a, b \in issued' : a.id = b.id => a = b
      BY <1>14, <2>6, Zenon DEF IInv, Numbered
    <3>2. \A a \in issued' : a.id <= nextPlan'
      BY <1>14, <2>1, <2>2, <2>5, SMTT(30)
    <3>3. (\A n \in consumed' : n <= nextPlan')
          /\ \A i \in DOMAIN retired' : retired'[i].id <= nextPlan'
      <4>1. \A i \in DOMAIN retired' : retired'[i].id <= nextPlan
        BY <1>9, Zenon
      <4>2. nextPlan' = nextPlan + 1 /\ consumed' = consumed
        BY <1>11, <1>14, Zenon
      <4> QED
        BY <2>1, <2>5, <4>1, <4>2
    <3> QED
      BY <1>11, <3>1, <3>2, <3>3 DEF IInv, Numbered
  <2> QED
    BY <1>12, <2>3, <2>7, <2>8 DEF IInv
<1> QED
  BY <1>13, <1>14, Zenon DEF Plan, E

\* evaluate() and evaluate_check(): the plan leaves the table for good.
LEMMA EvaluateIInv ==
    ASSUME IInv, NEW plan \in plans, NEW batch \in FactBatches,
           NEW now \in ClockReadings, NEW later \in ClockReadings,
           NEW check \in BOOLEAN, NEW failure \in BOOLEAN, NEW scamWarns \in BOOLEAN,
           NEW engine \in EngineOutcomes,
           Evaluate(plan, batch, now, later, check, failure, engine, scamWarns)
    PROVE  IInv'
<1> DEFINE ids == <<plan.id>>
           code == IF now < plan.expiresAt THEN "PLAN_CONSUMED" ELSE "PLAN_EXPIRED"
<1>1. /\ plan \in Plans /\ plan.id \in 1 .. MaxPlanId /\ plan.policy \in Payloads
      /\ plan.expiresAt \in Nat /\ plan.id <= nextPlan /\ now \in Nat
      /\ 0 \notin {plan.id}
  BY BundleAssumption DEF IInv, TypeOK, Plans, Bookkeeping, Numbered, ClockReadings
<1>2. /\ UNCHANGED <<disposed, generation, pending, active, refresh, refreshId>>
      /\ UNCHANGED <<nextPlan, issued>> /\ plans' = plans \ {plan}
  BY Zenon DEF Evaluate, storeVars, refreshVars
<1>3. /\ retired' = Retire(ids, code)
      /\ consumed' = IF code = "PLAN_CONSUMED" THEN consumed \cup {p.id : p \in {plan}}
                     ELSE consumed
  <2>1. {p.id : p \in {plan}} = {plan.id}
    BY Zenon
  <2> QED
    BY <1>1, <2>1 DEF Evaluate
<1>4. reply' \in Verdicts \cup {NoReply}
  <2>1. Verdict(plan, "deny", "fail_closed", now, {}) \in Verdicts
    BY <1>1, Zenon DEF Verdict, Verdicts
  <2>2. Judge(plan, batch, now, later, failure, engine, scamWarns) \in Verdicts
    BY <1>1, JudgeFacts DEF Judged
  <2> QED
    BY <2>1, <2>2, Zenon DEF Evaluate
<1>5. code \in Codes
  BY Zenon DEF Codes
<1>6. ids \in Seq(1 .. MaxPlanId) /\ DOMAIN ids = {1} /\ ids[1] = plan.id
  BY <1>1
<1> HIDE DEF ids, code
<1>7. Buried({plan})
  <2>1. plan.id \notin consumed
    BY Zenon DEF IInv, Bookkeeping
  <2>2. Ends({plan}, ids, code)
    BY <1>3, <1>5, <1>6, <2>1, Zenon DEF Ends
  <2> QED
    BY <2>2, EndPlans, Zenon
<1> USE DEF Buried
<1>9. consumed' \subseteq consumed \cup {plan.id}
  BY <1>3, Zenon
<1>10. TypeOK'
  BY <1>1, <1>2, <1>4, <1>7, <1>9, Zenon DEF IInv, TypeOK
<1>11. RefreshMatchesStore'
  BY <1>2, Zenon DEF IInv, RefreshMatchesStore
<1>12. Bookkeeping'
  <2>1. \A p \in plans \ {plan} : p.id # plan.id /\ p.id \notin consumed
    BY ZenonT(30) DEF IInv, Bookkeeping, Numbered
  <2> QED
    BY <1>2, <1>7, <1>9, <2>1 DEF IInv, Bookkeeping
<1>13. Numbered'
  BY <1>1, <1>2, <1>7, <1>9 DEF IInv, Numbered
<1> QED
  BY <1>10, <1>11, <1>12, <1>13, SMTT(30) DEF IInv

\* The steps that leave plans, tombstones and the plans' histories alone.
LEMMA RefreshIInv ==
    ASSUME IInv, UNCHANGED <<planVars, ghosts>>, reply' = NoReply,
           \/ BeginRefresh
           \/ RefreshElsewhere
           \/ \E r \in refresh, in \in SignedInputs, now \in ClockReadings :
                CommitRefresh(r, in, now)
           \/ \E r \in refresh : CancelRefresh(r)
    PROVE  IInv'
<1> USE DEF IInv
<1>1. Bookkeeping'
  BY DEF Bookkeeping, planVars, ghosts
<1>2. UNCHANGED <<nextPlan, plans, retired, issued, consumed>>
  BY Zenon DEF planVars, ghosts
<1>3. CASE BeginRefresh
  <2>1. /\ ~disposed /\ generation < MaxGeneration /\ UNCHANGED <<disposed, active>>
        /\ generation' = generation + 1 /\ pending' = generation + 1
        /\ refreshId < MaxRefreshId /\ refreshId' = refreshId + 1
        /\ refresh' = {[id |-> refreshId + 1, generation |-> generation + 1]}
    BY <1>3, Zenon DEF BeginRefresh, Store!BeginRefresh
  <2>2. generation \in Nat /\ refreshId \in Nat
    BY LimitsAssumption DEF TypeOK
  <2>3. TypeOK'
    BY <1>2, <2>1, <2>2, LimitsAssumption DEF TypeOK
  <2>4. RefreshMatchesStore'
    BY <2>1, <2>2, SMTT(30) DEF RefreshMatchesStore, Store!NoTicket
  <2> QED
    BY <1>1, <1>2, <2>1, <2>3, <2>4, Zenon DEF Numbered
<1>4. CASE RefreshElsewhere
  <2>1. UNCHANGED storeVars /\ refresh' = refresh
        /\ refreshId < MaxRefreshId /\ refreshId' = refreshId + 1
    BY <1>4, Zenon DEF RefreshElsewhere
  <2>2. TypeOK'
    BY <1>2, <2>1, LimitsAssumption, SMTT(30) DEF TypeOK, storeVars
  <2> QED
    BY <1>1, <1>2, <2>1, <2>2 DEF Numbered, RefreshMatchesStore, storeVars
<1>5. ASSUME NEW r \in refresh, refresh' = {}, ~disposed,
             UNCHANGED <<disposed, generation, refreshId>>,
             active' = active \/ (active' \in Payloads /\ active'.scope = TrustScope),
             pending' = IF Store!CheckAttempt(Ticket(r)) THEN Store!NoTicket ELSE pending
      PROVE  IInv'
  <2>1. Store!CheckAttempt(Ticket(r))
    BY <1>5, Zenon DEF RefreshMatchesStore, Store!CheckAttempt, Ticket
  <2>2. pending' = 0
    BY <1>5, <2>1, Zenon DEF Store!NoTicket
  <2>3. disposed' \in BOOLEAN /\ (disposed' <=> active' = NoPolicy)
    BY <1>5, InputsAssumption, Zenon DEF TypeOK
  <2>4. TypeOK'
    BY <1>2, <1>5, <2>2, <2>3 DEF TypeOK
  <2>5. RefreshMatchesStore'
    BY <1>5, <2>2, Zenon DEF RefreshMatchesStore, Store!NoTicket
  <2> QED
    BY <1>1, <1>2, <1>5, <2>4, <2>5, Zenon DEF Numbered
<1>6. ASSUME NEW r \in refresh, NEW in \in SignedInputs, NEW now \in ClockReadings,
             CommitRefresh(r, in, now)
      PROVE  IInv'
  BY <1>5, <1>6, Zenon DEF CommitRefresh, SignedInputs, ValidateInput
<1>7. ASSUME NEW r \in refresh, CancelRefresh(r)
      PROVE  IInv'
  BY <1>5, <1>7, Zenon DEF CancelRefresh
<1> QED
  BY <1>3, <1>4, <1>6, <1>7, ZenonT(30)

\* Every step of the session preserves the invariant.
LEMMA NextIInv == IInv /\ [Next]_vars => IInv'
<1> SUFFICES ASSUME IInv, [Next]_vars PROVE IInv'
  BY Zenon
<1>1. ASSUME NEW request \in Requests, NEW now \in ClockReadings, Plan(request, now)
      PROVE  IInv'
  BY <1>1, PlanIInv, Zenon
<1>2. ASSUME NEW plan \in plans, NEW batch \in FactBatches,
             NEW now \in ClockReadings, NEW later \in ClockReadings,
             NEW check \in BOOLEAN, NEW failure \in BOOLEAN, NEW scamWarns \in BOOLEAN,
             NEW engine \in EngineOutcomes,
             Evaluate(plan, batch, now, later, check, failure, engine, scamWarns)
      PROVE  IInv'
  BY <1>2, EvaluateIInv
<1>3. CASE BeginRefresh
  BY <1>3, RefreshIInv, Zenon DEF BeginRefresh
<1>4. CASE RefreshElsewhere
  BY <1>4, RefreshIInv, Zenon DEF RefreshElsewhere
<1>5. ASSUME NEW r \in refresh, NEW in \in SignedInputs, NEW now \in ClockReadings,
             CommitRefresh(r, in, now)
      PROVE  IInv'
  BY <1>5, RefreshIInv, Zenon DEF CommitRefresh
<1>6. ASSUME NEW r \in refresh, CancelRefresh(r)
      PROVE  IInv'
  BY <1>6, RefreshIInv, Zenon DEF CancelRefresh
<1>7. CASE Dispose
  <2>1. /\ disposed' = TRUE /\ pending' = 0 /\ active' = NoPolicy
        /\ UNCHANGED <<generation, refreshId, nextPlan, issued, consumed>>
        /\ plans' = {} /\ retired' = <<>> /\ refresh' = {} /\ reply' = NoReply
    BY <1>7, Zenon DEF Dispose, Store!Dispose, Store!NoTicket, ghosts
  <2>2. TypeOK' /\ RefreshMatchesStore'
    BY <2>1 DEF IInv, TypeOK, RefreshMatchesStore, Store!NoTicket
  <2>4. Bookkeeping' /\ Numbered'
    BY <2>1, LimitsAssumption, SMTT(30), ZenonT(30) DEF IInv, Bookkeeping, Numbered
  <2> QED
    BY <2>2, <2>4, Zenon DEF IInv
<1>8. CASE UNCHANGED vars
  BY <1>8 DEF vars, storeVars, refreshVars, planVars, ghosts,
              IInv, TypeOK, RefreshMatchesStore, Bookkeeping, Numbered
<1> QED
  BY <1>1, <1>2, <1>3, <1>4, <1>5, <1>6, <1>7, <1>8, SMTT(30), ZenonT(30) DEF Next

\* IInv holds throughout, whatever callers, clocks and the engine do.
THEOREM IInvInvariant == Spec => []IInv
BY InitIInv, NextIInv, PTL DEF Spec

\* Type correctness of the session's state.
THEOREM TypeCorrect == Spec => []TypeOK
BY IInvInvariant, PTL DEF IInv

\* A refresh handle of the session and a pending attempt of the Store always
\* go together.
THEOREM RefreshConsistent == Spec => []RefreshMatchesStore
BY IInvInvariant, PTL DEF IInv

-----------------------------------------------------------------------------
\* The table of pending plans is finite and within its bound.
Bounded == IsFiniteSet(plans) /\ Cardinality(plans) <= MaxPendingPlans

\* Plans that leave the table leave it within its bound.
LEMMA FewerPlans ==
    ASSUME Bounded, NEW T, T \subseteq plans
    PROVE  /\ IsFiniteSet(T) /\ Cardinality(T) \in Nat
           /\ Cardinality(T) <= MaxPendingPlans
<1>1. /\ IsFiniteSet(plans) /\ Cardinality(plans) \in Nat
      /\ Cardinality(plans) <= MaxPendingPlans
  BY FS_CardinalityType, Zenon DEF Bounded
<1>2. IsFiniteSet(T) /\ Cardinality(T) <= Cardinality(plans)
  BY <1>1, FS_Subset, Zenon
<1> QED
  BY <1>1, <1>2, FS_CardinalityType, LimitsAssumption

\* Only plan() adds to the table, one plan, and only if there is room once the
\* expired ones are evicted.
LEMMA NextBounded == Bounded /\ [Next]_vars => Bounded'
<1> SUFFICES ASSUME Bounded, [Next]_vars PROVE Bounded'
  OBVIOUS
<1>1. ASSUME plans' \subseteq plans PROVE Bounded'
  BY <1>1, FewerPlans, Zenon DEF Bounded
<1>2. ASSUME NEW request \in Requests, NEW now \in ClockReadings, Plan(request, now)
      PROVE  Bounded'
  <2> DEFINE left == plans \ Expired(now)
  <2>1. CASE plans' = left
    BY <1>1, <2>1, Zenon
  <2>2. CASE Cardinality(left) < MaxPendingPlans /\ \E plan : plans' = left \cup {plan}
    <3>1. PICK plan : plans' = left \cup {plan}
      BY <2>2, Zenon
    <3>2. IsFiniteSet(left) /\ Cardinality(left) \in Nat
      BY FewerPlans, Zenon
    <3> HIDE DEF left
    <3>3. /\ IsFiniteSet(left \cup {plan})
          /\ Cardinality(left \cup {plan}) \in {Cardinality(left), Cardinality(left) + 1}
      BY <3>2, FS_AddElement, Zenon
    <3> QED
      BY <2>2, <3>1, <3>2, <3>3, LimitsAssumption DEF Bounded
  <2> QED
    BY <1>2, <2>1, <2>2, Zenon DEF Plan, Plannable
<1>3. ASSUME NEW plan \in plans, NEW batch \in FactBatches,
             NEW now \in ClockReadings, NEW later \in ClockReadings,
             NEW check \in BOOLEAN, NEW failure \in BOOLEAN, NEW scamWarns \in BOOLEAN,
             NEW engine \in EngineOutcomes,
             Evaluate(plan, batch, now, later, check, failure, engine, scamWarns)
      PROVE  Bounded'
  <2>1. plans' = plans \ {plan}
    BY <1>3, Zenon DEF Evaluate
  <2> QED
    BY <1>1, <2>1, Zenon
<1>4. BeginRefresh \/ RefreshElsewhere \/ Dispose => plans' \subseteq plans
  BY Zenon DEF BeginRefresh, RefreshElsewhere, Dispose, planVars
<1>5. ASSUME NEW r \in refresh,
             \/ CancelRefresh(r)
             \/ \E in \in SignedInputs, now \in ClockReadings : CommitRefresh(r, in, now)
      PROVE  plans' = plans
  BY <1>5, Zenon DEF CommitRefresh, CancelRefresh, planVars
<1>6. CASE UNCHANGED vars
  BY <1>1, <1>6, Zenon DEF vars, planVars
<1> QED
  BY <1>1, <1>2, <1>3, <1>4, <1>5, <1>6, SMTT(30), ZenonT(30) DEF Next

\* The tables stay within their bound, no plan ends twice, and tombstones tell
\* the truth.
THEOREM PlansAccounted == Spec => []PlanAccounting
<1>1. Init => Bounded
  <2>1. IsFiniteSet({}) /\ Cardinality({}) = 0
    BY FS_EmptySet, Zenon
  <2> QED
    BY <2>1, LimitsAssumption DEF Init, Bounded
<1>2. IInv /\ Bounded => PlanAccounting
  BY Zenon DEF IInv, Bounded, PlanAccounting
<1> QED
  BY <1>1, <1>2, NextBounded, IInvInvariant, PTL DEF Spec

-----------------------------------------------------------------------------
(***************************************************************************)
(* What the session answers.                                               *)
(***************************************************************************)
\* A verdict is about a plan that was pending, and comes from its judgement or
\* from its expiry.
LEMMA ReplyComesFromPlan ==
    ASSUME IInv, Next, reply' # NoReply
    PROVE  \E plan \in plans :
            /\ plan \in issued' /\ plan \in issued /\ plan \in Plans
            /\ \/ reply' = Verdict(plan, "deny", "fail_closed", reply'.at, {})
               \/ \E batch \in FactBatches, now \in ClockReadings, later \in ClockReadings,
                     failure \in BOOLEAN, scamWarns \in BOOLEAN, engine \in EngineOutcomes :
                    reply' = Judge(plan, batch, now, later, failure, engine, scamWarns)
<1>1. PICK plan \in plans, batch \in FactBatches, now \in ClockReadings, later \in ClockReadings,
           check \in BOOLEAN, failure \in BOOLEAN, scamWarns \in BOOLEAN,
           engine \in EngineOutcomes :
        Evaluate(plan, batch, now, later, check, failure, engine, scamWarns)
  <2>1. ASSUME NEW request \in Requests, NEW now \in ClockReadings, Plan(request, now)
        PROVE  FALSE
    BY <2>1, Zenon DEF Plan
  <2>2. ASSUME NEW r \in refresh, NEW in \in SignedInputs, NEW now \in ClockReadings,
               CommitRefresh(r, in, now)
        PROVE  FALSE
    BY <2>2, Zenon DEF CommitRefresh
  <2>3. ASSUME NEW r \in refresh, CancelRefresh(r)
        PROVE  FALSE
    BY <2>3, Zenon DEF CancelRefresh
  <2>4. ~BeginRefresh /\ ~RefreshElsewhere /\ ~Dispose
    BY Zenon DEF BeginRefresh, RefreshElsewhere, Dispose
  <2> QED
    BY <2>1, <2>2, <2>3, <2>4 DEF Next
<1>2. plan \in issued /\ plan \in issued' /\ plan \in Plans
  BY <1>1, Zenon DEF IInv, TypeOK, Bookkeeping, Evaluate
<1>3. CASE reply' = Verdict(plan, "deny", "fail_closed", now, {})
  <2>1. reply'.at = now
    BY <1>3, Zenon DEF Verdict
  <2> QED
    BY <1>2, <1>3, <2>1, Zenon
<1>4. CASE reply' = Judge(plan, batch, now, later, failure, engine, scamWarns)
  BY <1>2, <1>4
<1> QED
  BY <1>1, <1>3, <1>4, Zenon DEF Evaluate

\* What holds of a verdict while it is the last reply.
VerdictInv == EvaluatedIsSound /\ PinnedPolicy /\ FailClosed

\* A new verdict is sound, pinned and fails closed; every other step clears it.
LEMMA VerdictStep == IInv /\ IInv' /\ VerdictInv /\ [Next]_vars => VerdictInv'
<1> SUFFICES ASSUME IInv, IInv', VerdictInv, [Next]_vars PROVE VerdictInv'
  BY ZenonT(30)
<1>1. CASE UNCHANGED vars
  BY <1>1 DEF vars, storeVars, refreshVars, planVars, ghosts,
              VerdictInv, EvaluatedIsSound, PinnedPolicy, FailClosed
<1>2. CASE reply' = NoReply
  BY <1>2, Zenon DEF VerdictInv, EvaluatedIsSound, PinnedPolicy, FailClosed
<1>3. CASE Next /\ reply' # NoReply
  <2>1. PICK plan \in plans :
            /\ plan \in issued' /\ plan \in issued /\ plan \in Plans
            /\ \/ reply' = Verdict(plan, "deny", "fail_closed", reply'.at, {})
               \/ \E batch \in FactBatches, now \in ClockReadings, later \in ClockReadings,
                     failure \in BOOLEAN, scamWarns \in BOOLEAN, engine \in EngineOutcomes :
                    reply' = Judge(plan, batch, now, later, failure, engine, scamWarns)
    BY <1>3, ReplyComesFromPlan
  <2>2. \A p \in issued' : p.id = plan.id => p = plan
    BY <2>1, ZenonT(30) DEF IInv, Numbered
  <2>3. CASE reply' = Verdict(plan, "deny", "fail_closed", reply'.at, {})
    <3>1. /\ reply'.source = "fail_closed" /\ reply'.decision = "deny"
          /\ reply'.plan = plan.id /\ reply'.policy = plan.policy
      BY <2>3 DEF Verdict
    <3> QED
      BY <2>1, <3>1 DEF VerdictInv, EvaluatedIsSound, PinnedPolicy, FailClosed
  <2>4. ASSUME NEW batch \in FactBatches, NEW now \in ClockReadings, NEW later \in ClockReadings,
               NEW failure \in BOOLEAN, NEW scamWarns \in BOOLEAN, NEW engine \in EngineOutcomes,
               reply' = Judge(plan, batch, now, later, failure, engine, scamWarns)
        PROVE  VerdictInv'
    <3>1. /\ reply'.plan = plan.id /\ reply'.policy = plan.policy /\ reply'.at = later
          /\ reply'.source = "fail_closed" => reply'.decision = "deny"
          /\ reply'.source = "evaluated" =>
                /\ ~Unusable(plan, now, later)
                /\ reply'.facts = Accepted(plan, batch, later)
                /\ \A i \in DOMAIN NodesOf(plan) : ~NodeFails(NodesOf(plan)[i], reply'.facts)
          /\ reply'.decision = "allow" =>
                /\ reply'.source = "evaluated"
                /\ ~plan.request.partial
                /\ \A i \in DOMAIN NodesOf(plan) : ~NodesOf(plan)[i].unknown
      <4>1. plan \in Plans
        BY <2>1, Zenon
      <4>2. Judged(reply', plan, batch, now, later)
        BY <2>4, <4>1, JudgeFacts, Zenon
      <4> QED
        BY <4>2, Zenon DEF Judged
    <3>2. ASSUME reply'.source = "evaluated"
          PROVE  /\ reply'.at < plan.expiresAt
                 /\ EnsureFresh(plan.policy, reply'.at)
                 /\ \A c \in Required(NodesOf(plan)) :
                        \E f \in reply'.facts : /\ f.call = c
                                                /\ reply'.at - MaxFactAge <= f.observedAt
                                                /\ f.observedAt <= reply'.at + AllowedClockSkew
      <4>1. ~Unusable(plan, now, later) /\ reply'.facts = Accepted(plan, batch, later)
        BY <3>1, <3>2, Zenon
      <4>2. /\ later \in Nat /\ plan.expiresAt \in Nat
            /\ MaxFactAge \in Nat /\ AllowedClockSkew \in Nat
        BY <2>1, LimitsAssumption, BundleAssumption DEF ClockReadings, Plans
      <4>3. later < plan.expiresAt /\ EnsureFresh(plan.policy, later)
        BY <4>1, <4>2 DEF Unusable
      <4>4. ASSUME NEW c \in Required(NodesOf(plan))
            PROVE  \E f \in reply'.facts : /\ f.call = c
                                           /\ later - MaxFactAge <= f.observedAt
                                           /\ f.observedAt <= later + AllowedClockSkew
        <5>1. PICK i \in DOMAIN NodesOf(plan) : c \in NodesOf(plan)[i].required
          BY Zenon DEF Required
        <5>2. PICK f \in reply'.facts : f.call = c
          BY <3>1, <3>2, <5>1, Zenon DEF NodeFails
        <5>3. ValidResult(f, later) /\ f \in Facts
          BY <4>1, InputsAssumption, Zenon DEF Accepted
        <5>4. f.observedAt \in Nat
          BY <5>3, BundleAssumption DEF Facts, ClockReadings
        <5>5. later - MaxFactAge <= f.observedAt /\ f.observedAt <= later + AllowedClockSkew
          BY <4>2, <5>3, <5>4 DEF ValidResult
        <5> QED
          BY <5>2, <5>5, Zenon
      <4> QED
        BY <3>1, <4>3, <4>4, Zenon
    <3>3. EvaluatedIsSound'
      BY <2>1, <3>1, <3>2, Zenon DEF EvaluatedIsSound
    <3>4. PinnedPolicy'
      BY <2>1, <3>1, Zenon DEF PinnedPolicy
    <3>5. ASSUME reply'.decision = "allow"
          PROVE  \A i \in DOMAIN NodesOf(plan) : ~NodesOf(plan)[i].planningError
      BY <3>1, <3>5, Zenon DEF NodeFails
    <3>6. FailClosed'
      BY <2>2, <3>1, <3>5, Zenon DEF FailClosed
    <3> QED
      BY <3>3, <3>4, <3>6, Zenon DEF VerdictInv
  <2> QED
    BY <2>1, <2>3, <2>4
<1> QED
  BY <1>1, <1>2, <1>3

\* Every verdict evaluate_inner returns is sound, pinned and fails closed.
THEOREM VerdictInvariant == Spec => []VerdictInv
<1>1. Init => VerdictInv
  BY Zenon DEF Init, VerdictInv, EvaluatedIsSound, PinnedPolicy, FailClosed
<1> QED
  BY <1>1, VerdictStep, IInvInvariant, PTL DEF Spec

\* Every "evaluated" verdict rests on an unexpired plan, a policy still trusted
\* and a fresh fact for each required call, all at the time of evaluation.
THEOREM EvaluatedVerdictsAreSound == Spec => []EvaluatedIsSound
BY VerdictInvariant, PTL DEF VerdictInv

\* Verdicts name the policy their plan was made under.
THEOREM VerdictsArePinned == Spec => []PinnedPolicy
BY VerdictInvariant, PTL DEF VerdictInv

\* Failures deny, and nothing half-understood is allowed.
THEOREM FailuresDeny == Spec => []FailClosed
BY VerdictInvariant, PTL DEF VerdictInv

\* No plan is judged a second time.
THEOREM JudgedOnce == Spec => OneJudgementPerPlan
<1>1. IInv /\ [Next]_vars => [reply' # NoReply => reply'.plan \notin consumed]_vars
  <2> SUFFICES ASSUME IInv, Next, reply' # NoReply
               PROVE  reply'.plan \notin consumed
    BY Zenon DEF vars
  <2>1. PICK plan \in plans :
            /\ plan \in issued' /\ plan \in issued /\ plan \in Plans
            /\ \/ reply' = Verdict(plan, "deny", "fail_closed", reply'.at, {})
               \/ \E batch \in FactBatches, now \in ClockReadings, later \in ClockReadings,
                     failure \in BOOLEAN, scamWarns \in BOOLEAN, engine \in EngineOutcomes :
                    reply' = Judge(plan, batch, now, later, failure, engine, scamWarns)
    BY ReplyComesFromPlan, Zenon
  <2>2. reply'.plan = plan.id
    BY <2>1, JudgeFacts DEF Verdict, Judged
  <2> QED
    BY <2>2, Zenon DEF IInv, Bookkeeping
<1> QED
  BY <1>1, IInvInvariant, PTL DEF Spec, OneJudgementPerPlan

\* The session implements the abstract policy register.
THEOREM SessionRefinesAuthority == Spec => RefinesAuthority
<1>1. Init => Authority!Init
  BY Zenon DEF Init, Authority!Init, SignedInputs, ValidateInput
<1>2. IInv /\ [Next]_vars => [Authority!Next]_<<active, disposed>>
  <2> SUFFICES ASSUME IInv, Next
               PROVE  Authority!Next \/ UNCHANGED <<active, disposed>>
    BY Zenon DEF vars, storeVars
  <2>1. ASSUME NEW r \in refresh, NEW in \in SignedInputs, NEW now \in ClockReadings,
               CommitRefresh(r, in, now)
        PROVE  Authority!Next \/ UNCHANGED <<active, disposed>>
    <3>1. CASE active' = active
      BY <2>1, <3>1, Zenon DEF CommitRefresh
    <3>2. CASE active' # active
      <4>1. /\ ValidateInput(in, now) /\ Store!Activates(Candidate(r, in), now)
            /\ active' = in.payload /\ ~disposed /\ disposed' = disposed
        BY <2>1, <3>2, Zenon DEF CommitRefresh
      <4>2. Candidate(r, in).policy = in.payload
        BY Zenon DEF Candidate
      <4>3. /\ in.payload \in Payloads /\ in.payload.scope = TrustScope
            /\ in.payload.sequence > active.sequence
        BY <4>1, <4>2, Zenon
          DEF SignedInputs, ValidateInput, Store!Activates, Store!Replaces, Replaces
      <4> QED
        BY <4>1, <4>3, Zenon DEF Authority!Next, Authority!Advance
    <3> QED
      BY <3>1, <3>2, Zenon
  <2>2. CASE Dispose
    BY <2>2, Zenon DEF Dispose, Store!Dispose, Authority!Next, Authority!Retire
  <2>3. ASSUME NEW request \in Requests, NEW now \in ClockReadings, Plan(request, now)
        PROVE  UNCHANGED <<active, disposed>>
    BY <2>3, Zenon DEF Plan, storeVars
  <2>4. ASSUME NEW plan \in plans, NEW batch \in FactBatches,
               NEW now \in ClockReadings, NEW later \in ClockReadings,
               NEW check \in BOOLEAN, NEW failure \in BOOLEAN, NEW scamWarns \in BOOLEAN,
               NEW engine \in EngineOutcomes,
               Evaluate(plan, batch, now, later, check, failure, engine, scamWarns)
        PROVE  UNCHANGED <<active, disposed>>
    BY <2>4, Zenon DEF Evaluate, storeVars
  <2>5. ASSUME NEW r \in refresh, CancelRefresh(r)
        PROVE  UNCHANGED <<active, disposed>>
    BY <2>5, Zenon DEF CancelRefresh
  <2>6. BeginRefresh \/ RefreshElsewhere => UNCHANGED <<active, disposed>>
    BY DEF BeginRefresh, Store!BeginRefresh, RefreshElsewhere, storeVars
  <2> QED
    BY <2>1, <2>2, <2>3, <2>4, <2>5, <2>6 DEF Next
<1> QED
  BY <1>1, <1>2, IInvInvariant, PTL DEF Spec, RefinesAuthority, Authority!Spec
=============================================================================
