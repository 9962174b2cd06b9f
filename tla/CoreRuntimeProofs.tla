------------------------- MODULE CoreRuntimeProofs -------------------------
(***************************************************************************)
(* Proofs about CoreRuntime for any number of checks, handles and          *)
(* refreshes: what dispose() and the end of a call leave behind, when the  *)
(* engine is released, how checks and refreshes may end, and under which   *)
(* policy the facts in the cache were judged.                              *)
(***************************************************************************)
EXTENDS CoreRuntime, TLAPS

CheckLabels == {"idle", "entered", "facts", "scam", "failing", "engine",
                "fail_closed", "unsupported", "evaluated", "done"}
HandleLabels == {"idle", "held", "engine", "fail_closed", "unsupported", "evaluated", "done"}
RefreshLabels == {"idle", "fetching", "done"}

CallTypes ==
    /\ pc \in [Tasks -> CheckLabels \cup HandleLabels \cup RefreshLabels]
    /\ op \in [Tasks -> {"none", "pending", "value", "error"}]
    /\ aborted \in [Tasks -> BOOLEAN]

OtherTypes ==
    /\ disposed \in BOOLEAN /\ depth \in {0, 1} /\ released \in Nat
    /\ refresh \in Refreshes \cup {NoRefresh}
    /\ scamOp \in [Checks -> {"none", "pending"}]
    /\ ticket \in [Refreshes -> Nat]
    /\ plans \subseteq Planners
    /\ tickets \in Nat /\ expected \in Nat

Types == CallTypes /\ OtherTypes

\* A call is where its kind of call can be.
Placed ==
    /\ \A c \in Checks : pc[c] \in CheckLabels
    /\ \A h \in Handles : pc[h] \in HandleLabels
    /\ \A r \in Refreshes : pc[r] \in RefreshLabels

\* The engine runs one evaluation at a time, and `depth' counts it.
EngineInv ==
    /\ \A t \in Tasks : pc[t] = "engine" => depth = 1
    /\ \A t, u \in Tasks : pc[t] = "engine" /\ pc[u] = "engine" => t = u
    /\ ReleasedOnce

\* A pending operation of a refresh is that of the refresh dispose() cancels.
OpInv ==
    /\ disposed => refresh = NoRefresh
    /\ \A t \in Tasks : op[t] # "none" => pc[t] \in {"facts", "fetching"}
    /\ \A t \in Tasks : op[t] = "pending" => ~disposed /\ t \in Checks \cup {refresh}
    /\ \A c \in Checks :
         scamOp[c] = "pending" => ~disposed /\ pc[c] \in {"facts", "scam", "failing"}

\* A plan of a check is in the engine only while the check would still end it.
PlanInv ==
    ~disposed => \A c \in Checks : c \in plans => pc[c] \in {"facts", "scam", "failing"}

\* The engine expects the ticket it gave last, or none.
TicketInv ==
    /\ expected \in {0, tickets}
    /\ \A r \in Refreshes : pc[r] = "fetching" => ticket[r] > 0

CacheGone == disposed => entries = <<>>

IInv ==
    /\ Types /\ Placed /\ EngineInv /\ OpInv /\ PlanInv /\ TicketInv /\ CacheGone
-----------------------------------------------------------------------------
\* What the larger actions do to the state the invariant is about.

\* The call has ended, or has its verdict and tells the hooks of it.
Ended(t) ==
    /\ \E l \in {"fail_closed", "unsupported", "evaluated", "done"} : pc' = [pc EXCEPT ![t] = l]
    /\ op' = [op EXCEPT ![t] = "none"]
    /\ aborted' = [aborted EXCEPT ![t] = FALSE] \/ aborted' = aborted

Entered(t) ==
    /\ depth = 0 /\ depth' = 1
    /\ pc' = [pc EXCEPT ![t] = "engine"]
    /\ plans' = plans \ {t}
    /\ UNCHANGED <<op, aborted>>

\* Ends and Publishes do this.
LEMMA EndShape ==
    /\ \A t, how : Ends(t, how) => Ended(t)
    /\ \A t : \A verdict \in Verdicts : Publishes(t, verdict) => Ended(t)
BY Zenon DEF Ends, Publishes, GoesOn, Ended, Verdicts

PlanOutcome(c) ==
    /\ pc[c] = "entered"
    /\ UNCHANGED <<disposed, depth, released, refresh, ticket, tickets, expected>>
    /\ disposed => entries' = entries /\ plans' = plans
    /\ \/ Ended(c) /\ plans' \subseteq plans /\ UNCHANGED scamOp
       \/ /\ ~disposed
          /\ plans' \subseteq plans \cup {c}
          /\ UNCHANGED aborted
          /\ \/ pc' = [pc EXCEPT ![c] = "failing"] /\ UNCHANGED <<op, scamOp>>
             \/ /\ \/ pc' = [pc EXCEPT ![c] = "facts"] /\ op' = [op EXCEPT ![c] = "pending"]
                   \/ pc' = [pc EXCEPT ![c] = "scam"] /\ UNCHANGED op
                /\ \E o \in {"none", "pending"} : scamOp' = [scamOp EXCEPT ![c] = o]

\* PlanCheck ends the check, or leaves it at one of three labels.
LEMMA PlanShape == ASSUME NEW c \in Checks, PlanCheck(c) PROVE PlanOutcome(c)
<1> USE DEF PlanOutcome, life, engineVars, cacheVars
<1>1. pc[c] = "entered" /\ UNCHANGED <<disposed, depth, released, refresh, ticket>>
  BY Zenon DEF PlanCheck
<1>2. CASE disposed BY <1>1, <1>2, EndShape, Zenon DEF PlanCheck
<1>3. CASE ~disposed /\ Publishes(c, "fail_closed") /\ EngineRefuses /\ UNCHANGED scamOp
  BY <1>1, <1>3, EndShape DEF EngineRefuses, Verdicts
<1>4. CASE ~disposed /\ Publishes(c, "unsupported") /\ EngineRefuses /\ UNCHANGED scamOp
  BY <1>1, <1>4, EndShape DEF EngineRefuses, Verdicts
<1>5. CASE /\ ~disposed /\ EnginePlans(c) /\ GoesOn
           /\ pc' = [pc EXCEPT ![c] = "failing"] /\ UNCHANGED <<op, scamOp>>
  BY <1>1, <1>5 DEF EnginePlans, GoesOn
<1>6. CASE /\ ~disposed /\ EnginePlans(c) /\ GoesOn
           /\ \/ pc' = [pc EXCEPT ![c] = "facts"] /\ op' = [op EXCEPT ![c] = "pending"]
              \/ pc' = [pc EXCEPT ![c] = "scam"] /\ UNCHANGED op
           /\ \E o \in {"none", "pending"} : scamOp' = [scamOp EXCEPT ![c] = o]
  BY <1>1, <1>6, Zenon DEF EnginePlans, GoesOn
<1>7. QED BY <1>2, <1>3, <1>4, <1>5, <1>6, Zenon DEF PlanCheck

ReceiveOutcome(c) ==
    /\ pc[c] = "facts"
    /\ UNCHANGED <<disposed, depth, released, entries, refresh, ticket, plans, tickets, expected>>
    /\ \/ disposed /\ Ended(c) /\ UNCHANGED scamOp
       \/ /\ ~disposed
          /\ op' = [op EXCEPT ![c] = "none"] /\ UNCHANGED aborted
          /\ \E l \in {"failing", "scam"} : pc' = [pc EXCEPT ![c] = l]
          /\ \E o \in {scamOp[c], "none"} : scamOp' = [scamOp EXCEPT ![c] = o]

\* ReceiveFacts ends the check of a disposed instance and otherwise goes on.
LEMMA ReceiveShape ==
    ASSUME Types, NEW c \in Checks, ReceiveFacts(c) PROVE ReceiveOutcome(c)
<1>1. pc[c] = "facts" /\ UNCHANGED <<disposed, depth, released, entries, refresh, ticket, plans,
                                      tickets, expected>>
  BY DEF ReceiveFacts, life, cacheVars, engineVars
<1>2. CASE disposed BY <1>1, <1>2, EndShape, Zenon DEF ReceiveFacts, ReceiveOutcome
<1>3. CASE /\ ~disposed /\ pc' = [pc EXCEPT ![c] = "failing"] /\ op' = [op EXCEPT ![c] = "none"]
           /\ UNCHANGED <<scamOp, aborted>>
  <2>1. scamOp' = [scamOp EXCEPT ![c] = scamOp[c]] BY <1>3 DEF Types, OtherTypes
  <2>2. QED BY <1>1, <1>3, <2>1, Zenon DEF ReceiveOutcome
<1>4. CASE /\ ~disposed /\ pc' = [pc EXCEPT ![c] = "scam"] /\ op' = [op EXCEPT ![c] = "none"]
           /\ UNCHANGED aborted
           /\ \E o \in {scamOp[c], "none"} : scamOp' = [scamOp EXCEPT ![c] = o]
  BY <1>1, <1>4, Zenon DEF ReceiveOutcome
<1>5. QED BY <1>2, <1>3, <1>4, Zenon DEF ReceiveFacts, GoesOn

\* Entering the engine, whatever the frame notes of it.
LEMMA EnterShape ==
    ASSUME NEW t \in Planners, NEW now, NEW failure, EnterEngine(t, now, failure),
           UNCHANGED <<op, aborted>>
    PROVE  Entered(t) /\ UNCHANGED <<tickets, expected>>
BY DEF EnterEngine, Entered

EvaluateOutcome(c) ==
    /\ pc[c] = "scam" /\ scamOp[c] # "pending"
    /\ UNCHANGED <<disposed, released, entries, refresh, scamOp, ticket, tickets, expected>>
    /\ \/ disposed /\ Ended(c) /\ UNCHANGED <<depth, plans>>
       \/ ~disposed /\ pc' = [pc EXCEPT ![c] = "failing"]
          /\ UNCHANGED <<depth, op, aborted, plans>>
       \/ ~disposed /\ Entered(c)

\* EvaluateCheck ends the check of a disposed instance, fails, or enters the engine.
LEMMA EvaluateShape == ASSUME NEW c \in Checks, EvaluateCheck(c) PROVE EvaluateOutcome(c)
<1>1. /\ pc[c] = "scam" /\ scamOp[c] # "pending"
      /\ UNCHANGED <<disposed, released, entries, refresh, scamOp, ticket>>
  BY DEF EvaluateCheck, cacheVars
<1>2. CASE disposed BY <1>1, <1>2, EndShape, Zenon DEF EvaluateCheck, EvaluateOutcome, engineVars
<1>3. CASE /\ ~disposed /\ pc' = [pc EXCEPT ![c] = "failing"]
           /\ UNCHANGED <<depth, op, engineVars>> /\ GoesOn
  BY <1>1, <1>3 DEF EvaluateOutcome, engineVars, GoesOn
<1>4. CASE /\ ~disposed /\ \E now \in Times : EnterEngine(c, now, FALSE)
           /\ UNCHANGED op /\ GoesOn
  BY <1>1, <1>4, EnterShape, Zenon DEF EvaluateOutcome, GoesOn, Planners
<1>5. QED BY <1>2, <1>3, <1>4, Zenon DEF EvaluateCheck

FailOutcome(c) ==
    /\ pc[c] = "failing"
    /\ scamOp' = [scamOp EXCEPT ![c] = "none"]
    /\ UNCHANGED <<disposed, released, entries, refresh, ticket, tickets, expected>>
    /\ \/ disposed /\ Ended(c) /\ UNCHANGED <<depth, plans>>
       \/ ~disposed /\ Entered(c)

\* FailCheck ends the check of a disposed instance or enters the engine.
LEMMA FailShape == ASSUME NEW c \in Checks, FailCheck(c) PROVE FailOutcome(c)
<1>1. /\ pc[c] = "failing" /\ scamOp' = [scamOp EXCEPT ![c] = "none"]
      /\ UNCHANGED <<disposed, released, entries, refresh, ticket>>
  BY Zenon DEF FailCheck, cacheVars
<1>2. CASE disposed BY <1>1, <1>2, EndShape, Zenon DEF FailCheck, FailOutcome, engineVars
<1>3. CASE ~disposed
  <2>1. (\E now \in Times : EnterEngine(c, now, TRUE)) /\ UNCHANGED op /\ GoesOn
    BY <1>3, Zenon DEF FailCheck
  <2>2. QED BY <1>1, <1>3, <2>1, EnterShape, Zenon DEF FailOutcome, GoesOn, Planners
<1>4. QED BY <1>2, <1>3

LeaveOutcome(t) ==
    /\ pc[t] = "engine"
    /\ depth' = 0 /\ released' = IF disposed THEN released + 1 ELSE released
    /\ Ended(t)
    /\ UNCHANGED <<disposed, refresh, scamOp, ticket, plans, tickets, expected>>
    /\ disposed => entries' = entries

\* LeaveCheck and LeaveHandle end the call, or give it its verdict.
LEMMA LeaveShape ==
    /\ \A c \in Checks : LeaveCheck(c) => LeaveOutcome(c)
    /\ \A h \in Handles : LeaveHandle(h) => LeaveOutcome(h)
<1>1. ASSUME NEW c \in Checks, LeaveCheck(c) PROVE LeaveOutcome(c)
  <2>1. /\ pc[c] = "engine" /\ depth' = 0 /\ ReleaseAfterEngine
        /\ UNCHANGED <<disposed, refresh, scamOp, ticket, plans, tickets, expected>>
    BY <1>1 DEF LeaveCheck, engineVars
  <2>2. /\ Ends(c, "rejected") \/ \E verdict \in Verdicts : Publishes(c, verdict)
        /\ disposed => UNCHANGED cacheVars
    BY <1>1, Zenon DEF LeaveCheck, Verdicts
  <2>3. QED BY <2>1, <2>2, EndShape, Zenon DEF LeaveOutcome, ReleaseAfterEngine, cacheVars
<1>2. ASSUME NEW h \in Handles, LeaveHandle(h) PROVE LeaveOutcome(h)
  <2>1. Ends(h, "rejected") \/ \E verdict \in Verdicts : Publishes(h, verdict)
    BY <1>2, Zenon DEF LeaveHandle, Verdicts
  <2>2. QED
    BY <1>2, <2>1, EndShape, Zenon
       DEF LeaveHandle, LeaveOutcome, ReleaseAfterEngine, cacheVars, engineVars
<1>3. QED BY <1>1, <1>2, Zenon

HostEvaluateOutcome(h) ==
    /\ pc[h] = "held"
    /\ UNCHANGED <<disposed, released, entries, refresh, scamOp, ticket, tickets, expected>>
    /\ \/ Ended(h) /\ UNCHANGED <<depth, plans>>
       \/ ~disposed /\ Entered(h)

\* HostEvaluate ends the handle or enters the engine.
LEMMA HostEvaluateShape == ASSUME NEW h \in Handles, HostEvaluate(h) PROVE HostEvaluateOutcome(h)
<1>1. pc[h] = "held" /\ UNCHANGED <<disposed, released, entries, refresh, scamOp, ticket>>
  BY DEF HostEvaluate, cacheVars
<1>2. CASE Ends(h, "rejected") /\ UNCHANGED <<depth, engineVars>>
  BY <1>1, <1>2, EndShape, Zenon DEF HostEvaluateOutcome, engineVars
<1>3. CASE ~disposed /\ (\E now \in Times : EnterEngine(h, now, FALSE)) /\ UNCHANGED op /\ GoesOn
  BY <1>1, <1>3, EnterShape, Zenon DEF HostEvaluateOutcome, GoesOn, Planners
<1>4. QED BY <1>2, <1>3, Zenon DEF HostEvaluate

PublishOutcome(t) ==
    /\ pc[t] \in {"fail_closed", "unsupported", "evaluated"}
    /\ pc' = [pc EXCEPT ![t] = "done"]
    /\ op' = [op EXCEPT ![t] = "none"]
    /\ aborted' = [aborted EXCEPT ![t] = FALSE]
    /\ UNCHANGED <<disposed, depth, released, entries, refresh, scamOp, ticket, plans, tickets,
                   expected>>

\* Publish ends the call.
LEMMA PublishShape ==
    ASSUME NEW t \in Planners, Publish(t) PROVE PublishOutcome(t) /\ Ended(t)
BY Zenon DEF Publish, PublishOutcome, Ends, Ended, Verdicts, life, cacheVars, engineVars
-----------------------------------------------------------------------------
\* A call that ends, or enters the engine, stays well-typed.
LEMMA EndTypes ==
    ASSUME CallTypes, NEW t \in Tasks, Ended(t) \/ Entered(t)
    PROVE  CallTypes'
<1>1. pc' \in [Tasks -> CheckLabels \cup HandleLabels \cup RefreshLabels]
  BY DEF CallTypes, Ended, Entered, CheckLabels
<1>2. op' \in [Tasks -> {"none", "pending", "value", "error"}]
  BY DEF CallTypes, Ended, Entered
<1>3. aborted' \in [Tasks -> BOOLEAN]
  BY Zenon DEF CallTypes, Ended, Entered
<1>4. QED BY <1>1, <1>2, <1>3, Zenon DEF CallTypes

\* A call that moves on, with another operation or the same, stays well-typed.
LEMMA MoveTypes ==
    ASSUME CallTypes, UNCHANGED aborted, NEW t \in Tasks,
           NEW l \in CheckLabels \cup HandleLabels \cup RefreshLabels,
           pc' = [pc EXCEPT ![t] = l],
           UNCHANGED op \/ \E o \in {"none", "pending"} : op' = [op EXCEPT ![t] = o]
    PROVE  CallTypes'
<1>1. pc' \in [Tasks -> CheckLabels \cup HandleLabels \cup RefreshLabels] BY DEF CallTypes
<1>2. op' \in [Tasks -> {"none", "pending", "value", "error"}] BY DEF CallTypes
<1>3. QED BY <1>1, <1>2 DEF CallTypes

\* Every step keeps the types of the calls.
LEMMA StepCallTypes == Types /\ [Next]_vars => CallTypes'
<1> SUFFICES ASSUME Types, CallTypes, [Next]_vars PROVE CallTypes' BY DEF Types
<1>0. /\ Checks \subseteq Tasks /\ Handles \subseteq Tasks /\ Refreshes \subseteq Tasks
      /\ Checks \subseteq Planners /\ Handles \subseteq Planners
  BY DEF Tasks, Planners
<1>1. ASSUME NEW t \in Checks \cup Refreshes, Answer(t) PROVE CallTypes'
  BY <1>0, <1>1, Zenon DEF Answer, GoesOn, CallTypes
<1>2. ASSUME NEW t \in Checks \cup Refreshes, Timeout(t) PROVE CallTypes'
  BY <1>0, <1>2, Zenon DEF Timeout, GoesOn, CallTypes
<1>3. ASSUME NEW t \in Checks \cup Refreshes, Abort(t) PROVE CallTypes'
  BY <1>0, <1>3, Zenon DEF Abort, Cancelled, CallTypes
<1>4. ASSUME NEW c \in Checks, StartCheck(c) PROVE CallTypes'
  BY <1>0, <1>4, EndTypes, MoveTypes, Zenon DEF StartCheck, Ends, Ended, GoesOn, CheckLabels
<1>5. ASSUME NEW c \in Checks, PlanCheck(c) PROVE CallTypes'
  BY <1>0, <1>5, PlanShape, EndTypes, MoveTypes DEF PlanOutcome, CheckLabels
<1>6. ASSUME NEW c \in Checks, ReceiveFacts(c) PROVE CallTypes'
  BY <1>0, <1>6, ReceiveShape, EndTypes, MoveTypes DEF ReceiveOutcome, CheckLabels
<1>7. ASSUME NEW c \in Checks, ScamSettles(c) PROVE CallTypes'
  BY <1>0, <1>7, Zenon DEF ScamSettles, GoesOn, CallTypes
<1>8. ASSUME NEW c \in Checks, EvaluateCheck(c) PROVE CallTypes'
  BY <1>0, <1>8, EvaluateShape, EndTypes, MoveTypes, Zenon DEF EvaluateOutcome, CheckLabels
<1>9. ASSUME NEW c \in Checks, FailCheck(c) PROVE CallTypes'
  BY <1>0, <1>9, FailShape, EndTypes, Zenon DEF FailOutcome
<1>10. ASSUME NEW c \in Checks, LeaveCheck(c) PROVE CallTypes'
  BY <1>0, <1>10, LeaveShape, EndTypes, Zenon DEF LeaveOutcome
<1>11. ASSUME NEW h \in Handles, HostPlan(h) PROVE CallTypes'
  BY <1>0, <1>11, EndTypes, MoveTypes, Zenon DEF HostPlan, Ends, Ended, GoesOn, HandleLabels
<1>12. ASSUME NEW h \in Handles, HostEvaluate(h) PROVE CallTypes'
  BY <1>0, <1>12, HostEvaluateShape, EndTypes, Zenon DEF HostEvaluateOutcome
<1>13. ASSUME NEW h \in Handles, LeaveHandle(h) PROVE CallTypes'
  BY <1>0, <1>13, LeaveShape, EndTypes, Zenon DEF LeaveOutcome
<1>14. ASSUME NEW r \in Refreshes, StartRefresh(r) PROVE CallTypes'
  <2>1. CASE Ends(r, "rejected") BY <1>0, <1>14, <2>1, EndTypes, Zenon DEF Ends, Ended
  <2>2. CASE /\ op' = [t \in Tasks |-> IF t = r THEN "pending"
                                     ELSE IF t = refresh THEN Cancelled(op[t]) ELSE op[t]]
             /\ pc' = [pc EXCEPT ![r] = "fetching"] /\ UNCHANGED aborted
    BY <1>0, <2>2, Zenon DEF CallTypes, Cancelled, RefreshLabels
  <2>3. QED BY <1>14, <2>1, <2>2, Zenon DEF StartRefresh, GoesOn
<1>15. ASSUME NEW r \in Refreshes, FinishRefresh(r) PROVE CallTypes'
  BY <1>0, <1>15, EndTypes, Zenon DEF FinishRefresh, Ends, Ended
<1>16. CASE Dispose BY <1>16 DEF Dispose, GoesOn, Cancelled, CallTypes
<1>17. ASSUME NEW t \in Planners, Publish(t) PROVE CallTypes'
  BY <1>0, <1>17, PublishShape, EndTypes, Zenon DEF Tasks
<1>18. CASE UNCHANGED vars BY <1>18, Zenon DEF vars, CallTypes
<1>19. QED
  BY SMTT(30), ZenonT(30), <1>1, <1>2, <1>3, <1>4, <1>5, <1>6, <1>7, <1>8, <1>9, <1>10,
     <1>11, <1>12, <1>13, <1>14, <1>15, <1>16, <1>17, <1>18 DEF Next

\* Every step keeps the other types.
LEMMA StepOtherTypes == Types /\ [Next]_vars => OtherTypes'
<1> SUFFICES ASSUME Types, OtherTypes, [Next]_vars PROVE OtherTypes' BY DEF Types
<1> USE DEF OtherTypes, life, engineVars
<1>0. /\ Checks \subseteq Tasks /\ Handles \subseteq Tasks /\ Refreshes \subseteq Tasks
      /\ Checks \subseteq Planners /\ Handles \subseteq Planners
  BY Zenon DEF Tasks, Planners
<1>1. ASSUME NEW t \in Checks \cup Refreshes, Answer(t) PROVE OtherTypes'
  BY <1>0, <1>1, Zenon DEF Answer
<1>2. ASSUME NEW t \in Checks \cup Refreshes, Timeout(t) PROVE OtherTypes'
  BY <1>0, <1>2, Zenon DEF Timeout
<1>3. ASSUME NEW t \in Checks \cup Refreshes, Abort(t) PROVE OtherTypes'
  BY <1>0, <1>3, Zenon DEF Abort
<1>4. ASSUME NEW c \in Checks, StartCheck(c) PROVE OtherTypes'
  BY <1>0, <1>4, Zenon DEF StartCheck
<1>5. ASSUME NEW c \in Checks, PlanCheck(c) PROVE OtherTypes'
  BY <1>0, <1>5, PlanShape DEF PlanOutcome
<1>6. ASSUME NEW c \in Checks, ReceiveFacts(c) PROVE OtherTypes'
  BY <1>0, <1>6, ReceiveShape DEF ReceiveOutcome
<1>7. ASSUME NEW c \in Checks, ScamSettles(c) PROVE OtherTypes'
  BY <1>0, <1>7, Zenon DEF ScamSettles
<1>8. ASSUME NEW c \in Checks, EvaluateCheck(c) PROVE OtherTypes'
  BY <1>0, <1>8, EvaluateShape, Zenon DEF EvaluateOutcome, Entered
<1>9. ASSUME NEW c \in Checks, FailCheck(c) PROVE OtherTypes'
  BY <1>0, <1>9, FailShape, Zenon DEF FailOutcome, Entered
<1>10. ASSUME NEW c \in Checks, LeaveCheck(c) PROVE OtherTypes'
  BY <1>0, <1>10, LeaveShape DEF LeaveOutcome
<1>11. ASSUME NEW h \in Handles, HostPlan(h) PROVE OtherTypes'
  BY <1>0, <1>11, Zenon DEF HostPlan, EnginePlans, EngineRefuses
<1>12. ASSUME NEW h \in Handles, HostEvaluate(h) PROVE OtherTypes'
  BY <1>0, <1>12, HostEvaluateShape, Zenon DEF HostEvaluateOutcome, Entered
<1>13. ASSUME NEW h \in Handles, LeaveHandle(h) PROVE OtherTypes'
  BY <1>0, <1>13, LeaveShape DEF LeaveOutcome
<1>14. ASSUME NEW r \in Refreshes, StartRefresh(r) PROVE OtherTypes'
  BY <1>0, <1>14 DEF StartRefresh
<1>15. ASSUME NEW r \in Refreshes, FinishRefresh(r) PROVE OtherTypes'
  BY <1>0, <1>15, Zenon DEF FinishRefresh
<1>16. CASE Dispose BY <1>16 DEF Dispose
<1>17. ASSUME NEW t \in Planners, Publish(t) PROVE OtherTypes'
  BY <1>0, <1>17, PublishShape, Zenon DEF PublishOutcome
<1>18. CASE UNCHANGED vars BY <1>18, Zenon DEF vars
<1>19. QED
  BY SMTT(30), ZenonT(30), <1>1, <1>2, <1>3, <1>4, <1>5, <1>6, <1>7, <1>8, <1>9, <1>10,
     <1>11, <1>12, <1>13, <1>14, <1>15, <1>16, <1>17, <1>18 DEF Next

\* Every call moves along the labels of its kind.
LEMMA StepPlaced == Types /\ Placed /\ [Next]_vars => Placed'
<1> SUFFICES ASSUME Types, Placed, [Next]_vars PROVE Placed' BY Zenon
<1> USE DEF Types, CallTypes, OtherTypes, Placed, Tasks, Planners, CheckLabels, HandleLabels,
            RefreshLabels
<1>1. ASSUME NEW t \in Checks \cup Refreshes, Answer(t) PROVE Placed'
  BY <1>1, RuntimeAssumption, Zenon DEF Answer, GoesOn
<1>2. ASSUME NEW t \in Checks \cup Refreshes, Timeout(t) PROVE Placed'
  BY <1>2, RuntimeAssumption, Zenon DEF Timeout, GoesOn
<1>3. ASSUME NEW t \in Checks \cup Refreshes, Abort(t) PROVE Placed'
  BY <1>3, RuntimeAssumption, Zenon DEF Abort, Cancelled
<1>4. ASSUME NEW c \in Checks, StartCheck(c) PROVE Placed'
  BY <1>4, RuntimeAssumption DEF StartCheck, Ends, GoesOn
<1>5. ASSUME NEW c \in Checks, PlanCheck(c) PROVE Placed'
  BY <1>5, RuntimeAssumption, PlanShape DEF PlanOutcome, Ended
<1>6. ASSUME NEW c \in Checks, ReceiveFacts(c) PROVE Placed'
  BY <1>6, RuntimeAssumption, ReceiveShape DEF ReceiveOutcome, Ended
<1>7. ASSUME NEW c \in Checks, ScamSettles(c) PROVE Placed'
  BY <1>7, RuntimeAssumption, Zenon DEF ScamSettles, GoesOn
<1>8. ASSUME NEW c \in Checks, EvaluateCheck(c) PROVE Placed'
  BY <1>8, RuntimeAssumption, EvaluateShape DEF EvaluateOutcome, Ended, Entered
<1>9. ASSUME NEW c \in Checks, FailCheck(c) PROVE Placed'
  BY <1>9, RuntimeAssumption, FailShape DEF FailOutcome, Ended, Entered
<1>10. ASSUME NEW c \in Checks, LeaveCheck(c) PROVE Placed'
  BY <1>10, RuntimeAssumption, LeaveShape DEF LeaveOutcome, Ended
<1>11. ASSUME NEW h \in Handles, HostPlan(h) PROVE Placed'
  BY <1>11, RuntimeAssumption DEF HostPlan, Ends, GoesOn, EnginePlans, EngineRefuses
<1>12. ASSUME NEW h \in Handles, HostEvaluate(h) PROVE Placed'
  BY <1>12, RuntimeAssumption, HostEvaluateShape DEF HostEvaluateOutcome, Ended, Entered
<1>13. ASSUME NEW h \in Handles, LeaveHandle(h) PROVE Placed'
  BY <1>13, RuntimeAssumption, LeaveShape DEF LeaveOutcome, Ended
<1>14. ASSUME NEW r \in Refreshes, StartRefresh(r) PROVE Placed'
  BY <1>14, RuntimeAssumption DEF StartRefresh, Ends, GoesOn, Cancelled
<1>15. ASSUME NEW r \in Refreshes, FinishRefresh(r) PROVE Placed'
  BY <1>15, RuntimeAssumption DEF FinishRefresh, Ends
<1>16. CASE Dispose BY <1>16, Zenon DEF Dispose, GoesOn, Cancelled
<1>17. ASSUME NEW t \in Planners, Publish(t) PROVE Placed'
  BY <1>17, RuntimeAssumption, PublishShape DEF PublishOutcome
<1>18. CASE UNCHANGED vars BY <1>18, ZenonT(30) DEF vars, life, cacheVars, engineVars
<1>19. QED
  BY ZenonT(30), <1>1, <1>2, <1>3, <1>4, <1>5, <1>6, <1>7, <1>8, <1>9, <1>10,
     <1>11, <1>12, <1>13, <1>14, <1>15, <1>16, <1>17, <1>18 DEF Next

\* Every step keeps the count of evaluations, and the release with it.
LEMMA StepEngine == Types /\ EngineInv /\ [Next]_vars => EngineInv'
<1> SUFFICES ASSUME Types, EngineInv, [Next]_vars PROVE EngineInv' OBVIOUS
<1> USE DEF Types, CallTypes, OtherTypes, EngineInv, ReleasedOnce, Tasks, Planners, CheckLabels,
            HandleLabels, RefreshLabels, life
<1>1. ASSUME NEW t \in Checks \cup Refreshes, Answer(t) PROVE EngineInv'
  BY <1>1, RuntimeAssumption, Zenon DEF Answer, GoesOn
<1>2. ASSUME NEW t \in Checks \cup Refreshes, Timeout(t) PROVE EngineInv'
  BY <1>2, RuntimeAssumption, Zenon DEF Timeout, GoesOn
<1>3. ASSUME NEW t \in Checks \cup Refreshes, Abort(t) PROVE EngineInv'
  BY <1>3, RuntimeAssumption, Zenon DEF Abort, Cancelled
<1>4. ASSUME NEW c \in Checks, StartCheck(c) PROVE EngineInv'
  BY <1>4, RuntimeAssumption DEF StartCheck, Ends, GoesOn
<1>5. ASSUME NEW c \in Checks, PlanCheck(c) PROVE EngineInv'
  BY <1>5, RuntimeAssumption, PlanShape DEF PlanOutcome, Ended
<1>6. ASSUME NEW c \in Checks, ReceiveFacts(c) PROVE EngineInv'
  BY <1>6, RuntimeAssumption, ReceiveShape DEF ReceiveOutcome, Ended
<1>7. ASSUME NEW c \in Checks, ScamSettles(c) PROVE EngineInv'
  BY <1>7, RuntimeAssumption, Zenon DEF ScamSettles, GoesOn
<1>8. ASSUME NEW c \in Checks, EvaluateCheck(c) PROVE EngineInv'
  BY <1>8, RuntimeAssumption, EvaluateShape DEF EvaluateOutcome, Ended, Entered
<1>9. ASSUME NEW c \in Checks, FailCheck(c) PROVE EngineInv'
  BY <1>9, RuntimeAssumption, FailShape DEF FailOutcome, Ended, Entered
<1>10. ASSUME NEW c \in Checks, LeaveCheck(c) PROVE EngineInv'
  BY <1>10, RuntimeAssumption, LeaveShape DEF LeaveOutcome, Ended
<1>11. ASSUME NEW h \in Handles, HostPlan(h) PROVE EngineInv'
  BY <1>11, RuntimeAssumption DEF HostPlan, Ends, GoesOn, EnginePlans, EngineRefuses
<1>12. ASSUME NEW h \in Handles, HostEvaluate(h) PROVE EngineInv'
  BY <1>12, RuntimeAssumption, HostEvaluateShape DEF HostEvaluateOutcome, Ended, Entered
<1>13. ASSUME NEW h \in Handles, LeaveHandle(h) PROVE EngineInv'
  BY <1>13, RuntimeAssumption, LeaveShape DEF LeaveOutcome, Ended
<1>14. ASSUME NEW r \in Refreshes, StartRefresh(r) PROVE EngineInv'
  BY <1>14, RuntimeAssumption, SMTT(30), ZenonT(30) DEF StartRefresh, Ends, GoesOn, Cancelled
<1>15. ASSUME NEW r \in Refreshes, FinishRefresh(r) PROVE EngineInv'
  BY <1>15, RuntimeAssumption DEF FinishRefresh, Ends
<1>16. CASE Dispose BY <1>16 DEF Dispose, GoesOn, Cancelled
<1>17. ASSUME NEW t \in Planners, Publish(t) PROVE EngineInv'
  BY <1>17, RuntimeAssumption, PublishShape DEF PublishOutcome
<1>18. CASE UNCHANGED vars BY <1>18, Zenon DEF vars, life, cacheVars, engineVars
<1>19. QED
  BY SMTT(30), ZenonT(30), <1>1, <1>2, <1>3, <1>4, <1>5, <1>6, <1>7, <1>8, <1>9, <1>10,
     <1>11, <1>12, <1>13, <1>14, <1>15, <1>16, <1>17, <1>18 DEF Next

\* Every step keeps operations with the calls that await them.
LEMMA StepOps == Types /\ Placed /\ OpInv /\ [Next]_vars => OpInv'
<1> SUFFICES ASSUME Types, Placed, OpInv, [Next]_vars PROVE OpInv' BY Zenon
<1> USE DEF Types, CallTypes, OtherTypes, Placed, OpInv, Tasks, Planners, CheckLabels,
            HandleLabels, RefreshLabels, life
<1>1. ASSUME NEW t \in Checks \cup Refreshes, Answer(t) PROVE OpInv'
  BY <1>1, RuntimeAssumption DEF Answer, GoesOn
<1>2. ASSUME NEW t \in Checks \cup Refreshes, Timeout(t) PROVE OpInv'
  BY <1>2, RuntimeAssumption, Zenon DEF Timeout, GoesOn
<1>3. ASSUME NEW t \in Checks \cup Refreshes, Abort(t) PROVE OpInv'
  BY <1>3, RuntimeAssumption, Zenon DEF Abort, Cancelled
<1>4. ASSUME NEW c \in Checks, StartCheck(c) PROVE OpInv'
  BY <1>4, RuntimeAssumption DEF StartCheck, Ends, GoesOn
<1>5. ASSUME NEW c \in Checks, PlanCheck(c) PROVE OpInv'
  BY <1>5, RuntimeAssumption, PlanShape, SMTT(30), ZenonT(30) DEF PlanOutcome, Ended
<1>6. ASSUME NEW c \in Checks, ReceiveFacts(c) PROVE OpInv'
  BY <1>6, RuntimeAssumption, ReceiveShape DEF ReceiveOutcome, Ended
<1>7. ASSUME NEW c \in Checks, ScamSettles(c) PROVE OpInv'
  BY <1>7, RuntimeAssumption DEF ScamSettles, GoesOn
<1>8. ASSUME NEW c \in Checks, EvaluateCheck(c) PROVE OpInv'
  BY <1>8, RuntimeAssumption, EvaluateShape DEF EvaluateOutcome, Ended, Entered
<1>9. ASSUME NEW c \in Checks, FailCheck(c) PROVE OpInv'
  BY <1>9, RuntimeAssumption, FailShape DEF FailOutcome, Ended, Entered
<1>10. ASSUME NEW c \in Checks, LeaveCheck(c) PROVE OpInv'
  BY <1>10, RuntimeAssumption, LeaveShape DEF LeaveOutcome, Ended
<1>11. ASSUME NEW h \in Handles, HostPlan(h) PROVE OpInv'
  BY <1>11, RuntimeAssumption DEF HostPlan, Ends, GoesOn, EnginePlans, EngineRefuses
<1>12. ASSUME NEW h \in Handles, HostEvaluate(h) PROVE OpInv'
  BY <1>12, RuntimeAssumption, HostEvaluateShape, SMTT(30), ZenonT(30)
    DEF HostEvaluateOutcome, Ended, Entered
<1>13. ASSUME NEW h \in Handles, LeaveHandle(h) PROVE OpInv'
  BY <1>13, RuntimeAssumption, LeaveShape DEF LeaveOutcome, Ended
<1>14. ASSUME NEW r \in Refreshes, StartRefresh(r) PROVE OpInv'
  <2>1. CASE /\ pc' = [pc EXCEPT ![r] = "done"] /\ op' = [op EXCEPT ![r] = "none"]
             /\ UNCHANGED <<disposed, refresh, scamOp>>
    BY <1>14, <2>1, RuntimeAssumption, Zenon
  <2>2. CASE /\ pc' = [pc EXCEPT ![r] = "fetching"] /\ ~disposed /\ refresh' = r
             /\ op' = [t \in Tasks |-> IF t = r THEN "pending"
                                      ELSE IF t = refresh THEN Cancelled(op[t]) ELSE op[t]]
             /\ UNCHANGED <<disposed, scamOp>>
    BY <1>14, <2>2, RuntimeAssumption, Zenon DEF Cancelled
  <2>3. QED BY <1>14, <2>1, <2>2, Zenon DEF StartRefresh, Ends
<1>15. ASSUME NEW r \in Refreshes, FinishRefresh(r) PROVE OpInv'
  <2>1. /\ pc' = [pc EXCEPT ![r] = "done"] /\ op' = [op EXCEPT ![r] = "none"]
        /\ refresh' = IF refresh = r THEN NoRefresh ELSE refresh
        /\ UNCHANGED <<disposed, scamOp>>
    BY <1>15, Zenon DEF FinishRefresh, Ends
  <2>2. QED BY <1>15, <2>1, RuntimeAssumption
<1>16. CASE Dispose BY <1>16, Zenon DEF Dispose, GoesOn, Cancelled
<1>17. ASSUME NEW t \in Planners, Publish(t) PROVE OpInv'
  BY <1>17, RuntimeAssumption, PublishShape DEF PublishOutcome
<1>18. CASE UNCHANGED vars BY <1>18, ZenonT(30) DEF vars, life, cacheVars, engineVars
<1>19. QED
  BY ZenonT(30), <1>1, <1>2, <1>3, <1>4, <1>5, <1>6, <1>7, <1>8, <1>9, <1>10,
     <1>11, <1>12, <1>13, <1>14, <1>15, <1>16, <1>17, <1>18 DEF Next

\* Every step keeps the plans of checks with checks that end them.
LEMMA StepPlans == Types /\ Placed /\ PlanInv /\ [Next]_vars => PlanInv'
<1> SUFFICES ASSUME Types, Placed, PlanInv, [Next]_vars PROVE PlanInv' OBVIOUS
<1> USE DEF Types, CallTypes, OtherTypes, Placed, PlanInv, Tasks, Planners, CheckLabels,
            HandleLabels, RefreshLabels, life, engineVars
<1>1. ASSUME NEW t \in Checks \cup Refreshes, Answer(t) PROVE PlanInv'
  BY <1>1, RuntimeAssumption, Zenon DEF Answer, GoesOn
<1>2. ASSUME NEW t \in Checks \cup Refreshes, Timeout(t) PROVE PlanInv'
  BY <1>2, RuntimeAssumption, Zenon DEF Timeout, GoesOn
<1>3. ASSUME NEW t \in Checks \cup Refreshes, Abort(t) PROVE PlanInv'
  BY <1>3, RuntimeAssumption, Zenon DEF Abort, Cancelled
<1>4. ASSUME NEW c \in Checks, StartCheck(c) PROVE PlanInv'
  BY <1>4, RuntimeAssumption DEF StartCheck, Ends, GoesOn
<1>5. ASSUME NEW c \in Checks, PlanCheck(c) PROVE PlanInv'
  BY <1>5, RuntimeAssumption, PlanShape, SMTT(30), ZenonT(30) DEF PlanOutcome, Ended
<1>6. ASSUME NEW c \in Checks, ReceiveFacts(c) PROVE PlanInv'
  BY <1>6, RuntimeAssumption, ReceiveShape DEF ReceiveOutcome, Ended
<1>7. ASSUME NEW c \in Checks, ScamSettles(c) PROVE PlanInv'
  BY <1>7, RuntimeAssumption, Zenon DEF ScamSettles, GoesOn
<1>8. ASSUME NEW c \in Checks, EvaluateCheck(c) PROVE PlanInv'
  BY <1>8, RuntimeAssumption, EvaluateShape DEF EvaluateOutcome, Ended, Entered
<1>9. ASSUME NEW c \in Checks, FailCheck(c) PROVE PlanInv'
  BY <1>9, RuntimeAssumption, FailShape DEF FailOutcome, Ended, Entered
<1>10. ASSUME NEW c \in Checks, LeaveCheck(c) PROVE PlanInv'
  BY <1>10, RuntimeAssumption, LeaveShape, SMTT(30), ZenonT(30) DEF LeaveOutcome, Ended
<1>11. ASSUME NEW h \in Handles, HostPlan(h) PROVE PlanInv'
  BY <1>11, RuntimeAssumption DEF HostPlan, Ends, GoesOn, EnginePlans, EngineRefuses
<1>12. ASSUME NEW h \in Handles, HostEvaluate(h) PROVE PlanInv'
  BY <1>12, RuntimeAssumption, HostEvaluateShape DEF HostEvaluateOutcome, Ended, Entered
<1>13. ASSUME NEW h \in Handles, LeaveHandle(h) PROVE PlanInv'
  BY <1>13, RuntimeAssumption, LeaveShape DEF LeaveOutcome, Ended
<1>14. ASSUME NEW r \in Refreshes, StartRefresh(r) PROVE PlanInv'
  BY <1>14, RuntimeAssumption, ZenonT(30) DEF StartRefresh, Ends, GoesOn, Cancelled
<1>15. ASSUME NEW r \in Refreshes, FinishRefresh(r) PROVE PlanInv'
  BY <1>15, RuntimeAssumption DEF FinishRefresh, Ends
<1>16. CASE Dispose BY <1>16, Zenon DEF Dispose, GoesOn, Cancelled
<1>17. ASSUME NEW t \in Planners, Publish(t) PROVE PlanInv'
  BY <1>17, RuntimeAssumption, PublishShape DEF PublishOutcome
<1>18. CASE UNCHANGED vars BY <1>18, Zenon DEF vars, life, cacheVars, engineVars
<1>19. QED
  BY ZenonT(30), <1>1, <1>2, <1>3, <1>4, <1>5, <1>6, <1>7, <1>8, <1>9, <1>10,
     <1>11, <1>12, <1>13, <1>14, <1>15, <1>16, <1>17, <1>18 DEF Next

\* Every step keeps the expected ticket the last one given.
LEMMA StepTickets == Types /\ Placed /\ TicketInv /\ [Next]_vars => TicketInv'
<1> SUFFICES ASSUME Types, Placed, TicketInv, [Next]_vars PROVE TicketInv' OBVIOUS
<1> USE DEF Types, CallTypes, OtherTypes, Placed, TicketInv, Tasks, Planners, CheckLabels,
            HandleLabels, RefreshLabels, life, engineVars
<1>1. ASSUME NEW t \in Checks \cup Refreshes, Answer(t) PROVE TicketInv'
  BY <1>1, RuntimeAssumption, Zenon DEF Answer, GoesOn
<1>2. ASSUME NEW t \in Checks \cup Refreshes, Timeout(t) PROVE TicketInv'
  BY <1>2, RuntimeAssumption, Zenon DEF Timeout, GoesOn
<1>3. ASSUME NEW t \in Checks \cup Refreshes, Abort(t) PROVE TicketInv'
  BY <1>3, RuntimeAssumption, Zenon DEF Abort, Cancelled
<1>4. ASSUME NEW c \in Checks, StartCheck(c) PROVE TicketInv'
  BY <1>4, RuntimeAssumption DEF StartCheck, Ends, GoesOn
<1>5. ASSUME NEW c \in Checks, PlanCheck(c) PROVE TicketInv'
  BY <1>5, RuntimeAssumption, PlanShape DEF PlanOutcome, Ended
<1>6. ASSUME NEW c \in Checks, ReceiveFacts(c) PROVE TicketInv'
  BY <1>6, RuntimeAssumption, ReceiveShape DEF ReceiveOutcome, Ended
<1>7. ASSUME NEW c \in Checks, ScamSettles(c) PROVE TicketInv'
  BY <1>7, RuntimeAssumption, Zenon DEF ScamSettles, GoesOn
<1>8. ASSUME NEW c \in Checks, EvaluateCheck(c) PROVE TicketInv'
  BY <1>8, RuntimeAssumption, EvaluateShape DEF EvaluateOutcome, Ended, Entered
<1>9. ASSUME NEW c \in Checks, FailCheck(c) PROVE TicketInv'
  BY <1>9, RuntimeAssumption, FailShape DEF FailOutcome, Ended, Entered
<1>10. ASSUME NEW c \in Checks, LeaveCheck(c) PROVE TicketInv'
  BY <1>10, RuntimeAssumption, LeaveShape, SMTT(30), ZenonT(30) DEF LeaveOutcome, Ended
<1>11. ASSUME NEW h \in Handles, HostPlan(h) PROVE TicketInv'
  BY <1>11, RuntimeAssumption DEF HostPlan, Ends, GoesOn, EnginePlans, EngineRefuses
<1>12. ASSUME NEW h \in Handles, HostEvaluate(h) PROVE TicketInv'
  BY <1>12, RuntimeAssumption, HostEvaluateShape DEF HostEvaluateOutcome, Ended, Entered
<1>13. ASSUME NEW h \in Handles, LeaveHandle(h) PROVE TicketInv'
  BY <1>13, RuntimeAssumption, LeaveShape, SMTT(30), ZenonT(30) DEF LeaveOutcome, Ended
<1>14. ASSUME NEW r \in Refreshes, StartRefresh(r) PROVE TicketInv'
  BY <1>14, RuntimeAssumption, SMTT(30), ZenonT(30) DEF StartRefresh, Ends, GoesOn, Cancelled
<1>15. ASSUME NEW r \in Refreshes, FinishRefresh(r) PROVE TicketInv'
  BY <1>15, RuntimeAssumption DEF FinishRefresh, Ends
<1>16. CASE Dispose BY <1>16, Zenon DEF Dispose, GoesOn, Cancelled
<1>17. ASSUME NEW t \in Planners, Publish(t) PROVE TicketInv'
  BY <1>17, RuntimeAssumption, PublishShape DEF PublishOutcome
<1>18. CASE UNCHANGED vars BY <1>18, Zenon DEF vars, life, cacheVars, engineVars
<1>19. QED
  BY ZenonT(30), <1>1, <1>2, <1>3, <1>4, <1>5, <1>6, <1>7, <1>8, <1>9, <1>10,
     <1>11, <1>12, <1>13, <1>14, <1>15, <1>16, <1>17, <1>18 DEF Next

\* No step fills the cache of a disposed instance.
LEMMA StepCache == Types /\ CacheGone /\ [Next]_vars => CacheGone'
<1> SUFFICES ASSUME Types, CacheGone, [Next]_vars PROVE CacheGone' OBVIOUS
<1> USE DEF CacheGone, life, cacheVars, Facts!Clear
<1>1. ASSUME NEW t \in Checks \cup Refreshes, Answer(t) PROVE CacheGone'
  BY <1>1, RuntimeAssumption, Zenon DEF Answer, GoesOn
<1>2. ASSUME NEW t \in Checks \cup Refreshes, Timeout(t) PROVE CacheGone'
  BY <1>2, RuntimeAssumption, Zenon DEF Timeout, GoesOn
<1>3. ASSUME NEW t \in Checks \cup Refreshes, Abort(t) PROVE CacheGone'
  BY <1>3, RuntimeAssumption, Zenon DEF Abort, Cancelled
<1>4. ASSUME NEW c \in Checks, StartCheck(c) PROVE CacheGone'
  BY <1>4, RuntimeAssumption, Zenon DEF StartCheck, Ends, GoesOn
<1>5. ASSUME NEW c \in Checks, PlanCheck(c) PROVE CacheGone'
  BY <1>5, RuntimeAssumption, PlanShape, Zenon DEF PlanOutcome, Ended
<1>6. ASSUME NEW c \in Checks, ReceiveFacts(c) PROVE CacheGone'
  BY <1>6, RuntimeAssumption, ReceiveShape, Zenon DEF ReceiveOutcome, Ended
<1>7. ASSUME NEW c \in Checks, ScamSettles(c) PROVE CacheGone'
  BY <1>7, RuntimeAssumption DEF ScamSettles, GoesOn
<1>8. ASSUME NEW c \in Checks, EvaluateCheck(c) PROVE CacheGone'
  BY <1>8, RuntimeAssumption, EvaluateShape, Zenon DEF EvaluateOutcome, Ended, Entered
<1>9. ASSUME NEW c \in Checks, FailCheck(c) PROVE CacheGone'
  BY <1>9, RuntimeAssumption, FailShape, Zenon DEF FailOutcome, Ended, Entered
<1>10. ASSUME NEW c \in Checks, LeaveCheck(c) PROVE CacheGone'
  BY <1>10, RuntimeAssumption, LeaveShape, Zenon DEF LeaveOutcome, Ended
<1>11. ASSUME NEW h \in Handles, HostPlan(h) PROVE CacheGone'
  BY <1>11, RuntimeAssumption, Zenon DEF HostPlan, Ends, GoesOn, EnginePlans, EngineRefuses
<1>12. ASSUME NEW h \in Handles, HostEvaluate(h) PROVE CacheGone'
  BY <1>12, RuntimeAssumption, HostEvaluateShape, Zenon DEF HostEvaluateOutcome, Ended, Entered
<1>13. ASSUME NEW h \in Handles, LeaveHandle(h) PROVE CacheGone'
  BY <1>13, RuntimeAssumption, LeaveShape, Zenon DEF LeaveOutcome, Ended
<1>14. ASSUME NEW r \in Refreshes, StartRefresh(r) PROVE CacheGone'
  BY <1>14, RuntimeAssumption, Zenon DEF StartRefresh, Ends, GoesOn, Cancelled
<1>15. ASSUME NEW r \in Refreshes, FinishRefresh(r) PROVE CacheGone'
  BY <1>15, RuntimeAssumption, Zenon DEF FinishRefresh, Ends
<1>16. CASE Dispose BY <1>16, Zenon DEF Dispose, GoesOn, Cancelled
<1>17. ASSUME NEW t \in Planners, Publish(t) PROVE CacheGone'
  BY <1>17, PublishShape, Zenon DEF PublishOutcome
<1>18. CASE UNCHANGED vars BY <1>18, Zenon DEF vars, life, cacheVars, engineVars
<1>19. QED
  BY ZenonT(30), <1>1, <1>2, <1>3, <1>4, <1>5, <1>6, <1>7, <1>8, <1>9, <1>10,
     <1>11, <1>12, <1>13, <1>14, <1>15, <1>16, <1>17, <1>18 DEF Next

\* The first state satisfies the invariant.
LEMMA InitInv == Init => IInv
<1> SUFFICES ASSUME Init PROVE IInv BY Zenon
<1> USE DEF Init
<1>1. Types BY Zenon DEF Types, CallTypes, OtherTypes, CheckLabels
<1>2. Placed BY Zenon DEF Placed, CheckLabels, HandleLabels, RefreshLabels, Tasks, Planners
<1>3. EngineInv BY Zenon DEF EngineInv, ReleasedOnce
<1>4. OpInv /\ PlanInv BY Zenon DEF OpInv, PlanInv
<1>5. TicketInv BY DEF TicketInv, Tasks
<1>6. CacheGone BY DEF CacheGone
<1>7. QED BY <1>1, <1>2, <1>3, <1>4, <1>5, <1>6, Zenon DEF IInv

\* Wherever calls are cut by host code, IInv holds: the one engine evaluation is counted,
\* every pending operation has a call that awaits it, and every plan of a check a check
\* that ends it.
THEOREM RuntimeInvariant == Spec => []IInv
<1>1. IInv /\ [Next]_vars => IInv'
  BY Zenon, StepCallTypes, StepOtherTypes, StepPlaced, StepEngine, StepOps, StepPlans,
     StepTickets,
     StepCache DEF IInv, Types
<1>2. QED BY InitInv, <1>1, PTL DEF Spec

\* dispose() releases the engine exactly once, and never under an evaluation.
THEOREM EngineReleasedOnce == Spec => []ReleasedOnce
BY RuntimeInvariant, PTL DEF IInv, EngineInv

\* A disposed instance has no cached fact, no refresh and no pending operation.
THEOREM DisposedIsQuiet == Spec => []NothingAfterDispose
<1>1. IInv => NothingAfterDispose
  BY Zenon DEF IInv, OpInv, CacheGone, NothingAfterDispose
<1>2. QED BY RuntimeInvariant, <1>1, PTL

\* A check that has ended has no plan in the live engine and no advisory operation.
THEOREM CallsLeaveNothing == Spec => []NothingLeftBehind
<1>1. IInv => NothingLeftBehind
  BY Zenon DEF IInv, OpInv, PlanInv, NothingLeftBehind, Verdicts
<1>2. QED BY RuntimeInvariant, <1>1, PTL
-----------------------------------------------------------------------------
\* How a step may answer: a check rejects, or the hooks have been told of its verdict.
CheckAnswers ==
    \E c \in Checks, how \in Endings :
        /\ answer' = [task |-> c, how |-> how]
        /\ how # "installed"
        /\ how = "rejected" => disposed
        /\ how # "rejected" => pc[c] = how
        /\ pc' = [pc EXCEPT ![c] = "done"]
HandleAnswers ==
    \E h \in Handles, how \in Endings :
        answer' = [task |-> h, how |-> how] /\ how # "installed"
RefreshAnswers ==
    \E r \in Refreshes, how \in {"rejected", "installed"} :
        /\ answer' = [task |-> r, how |-> how]
        /\ how = "installed" => pc[r] = "fetching" /\ expected = ticket[r]
Answering == answer' = NoAnswer \/ CheckAnswers \/ HandleAnswers \/ RefreshAnswers

\* Every step answers no task, or one in a way its state allows.
LEMMA StepAnswers == ASSUME Next PROVE Answering
<1> USE DEF Answering
<1>1. ASSUME NEW t \in Checks \cup Refreshes, Answer(t) \/ Timeout(t) \/ Abort(t) PROVE Answering
  BY <1>1, Zenon DEF Answer, Timeout, Abort, GoesOn
<1>2. ASSUME NEW c \in Checks, ScamSettles(c) PROVE Answering
  BY <1>2, Zenon DEF ScamSettles, GoesOn
<1>3. ASSUME NEW c \in Checks, Ends(c, "rejected"), disposed PROVE Answering
  BY <1>3, Zenon DEF Ends, CheckAnswers, Endings
<1>4. ASSUME NEW c \in Checks, Publish(c) PROVE Answering
  BY <1>4, ZenonT(30) DEF Publish, Ends, CheckAnswers, Endings, Verdicts
<1>5. ASSUME NEW t, NEW verdict, Publishes(t, verdict) PROVE Answering
  BY <1>5 DEF Publishes, GoesOn
<1>6. ASSUME GoesOn PROVE Answering BY <1>6 DEF GoesOn
<1>7. ASSUME NEW c \in Checks, StartCheck(c) PROVE Answering
  BY <1>3, <1>6, <1>7, Zenon DEF StartCheck
<1>8. ASSUME NEW c \in Checks, PlanCheck(c) PROVE Answering
  BY <1>3, <1>5, <1>6, <1>8, Zenon DEF PlanCheck
<1>9. ASSUME NEW c \in Checks, ReceiveFacts(c) PROVE Answering
  BY <1>3, <1>6, <1>9, Zenon DEF ReceiveFacts
<1>10. ASSUME NEW c \in Checks, EvaluateCheck(c) PROVE Answering
  BY <1>3, <1>6, <1>10, Zenon DEF EvaluateCheck
<1>11. ASSUME NEW c \in Checks, FailCheck(c) PROVE Answering
  BY <1>3, <1>6, <1>11, Zenon DEF FailCheck
<1>12. ASSUME NEW c \in Checks, LeaveCheck(c) PROVE Answering
  BY <1>3, <1>5, <1>12, Zenon DEF LeaveCheck
<1>13. ASSUME NEW h \in Handles, NEW how \in Endings, how # "installed", Ends(h, how)
       PROVE  Answering
  BY <1>13, Zenon DEF Ends, HandleAnswers
<1>14. ASSUME NEW h \in Handles, HostPlan(h) PROVE Answering
  BY <1>6, <1>13, <1>14, Zenon DEF HostPlan, Endings
<1>15. ASSUME NEW h \in Handles, HostEvaluate(h) PROVE Answering
  <2>1. Ends(h, "rejected") \/ GoesOn BY <1>15, Zenon DEF HostEvaluate
  <2>2. QED BY <1>6, <1>13, <2>1, Zenon DEF Endings
<1>16. ASSUME NEW h \in Handles, LeaveHandle(h) PROVE Answering
  <2>1. Ends(h, "rejected") \/ \E verdict : Publishes(h, verdict)
    BY <1>16, ZenonT(30) DEF LeaveHandle
  <2>2. QED BY <1>5, <1>13, <2>1, Zenon DEF Endings
<1>17. ASSUME NEW r \in Refreshes, Ends(r, "rejected") PROVE Answering
  BY <1>17 DEF Ends, RefreshAnswers
<1>18. ASSUME NEW r \in Refreshes, StartRefresh(r) PROVE Answering
  BY <1>6, <1>17, <1>18, Zenon DEF StartRefresh
<1>19. ASSUME NEW r \in Refreshes, FinishRefresh(r) PROVE Answering
  <2>1. CASE Ends(r, "rejected") BY <1>17, <2>1, Zenon
  <2>2. CASE Ends(r, "installed") /\ EngineExpects(r) /\ pc[r] = "fetching"
    BY <2>2, Zenon DEF Ends, RefreshAnswers, EngineExpects
  <2>3. QED BY <1>19, <2>1, <2>2, Zenon DEF FinishRefresh
<1>20. CASE Dispose BY <1>6, <1>20, Zenon DEF Dispose
<1>21. ASSUME NEW t \in Planners, Publish(t) PROVE Answering
  <2>1. CASE t \in Checks BY <1>4, <1>21, <2>1, Zenon
  <2>2. CASE t \in Handles
    BY <1>13, <1>21, <2>2, ZenonT(30) DEF Publish, Endings, Verdicts
  <2>3. QED BY <2>1, <2>2, Zenon DEF Planners
<1>22. QED
  BY <1>1, <1>2, <1>7, <1>8, <1>9, <1>10, <1>11, <1>12, <1>14, <1>15, <1>16, <1>18, <1>19,
     <1>20, <1>21, SMTT(30), ZenonT(30)
     DEF Next

\* An interrupted check is not at a verdict other than fail_closed, and will not be: it
\* stays interrupted until it has ended or told its hooks.
Interrupted(c) ==
    /\ pc[c] \notin {"idle", "unsupported", "evaluated"}
    /\ aborted[c] \/ disposed \/ pc[c] \in {"fail_closed", "done"}

Judged(c) == [task : {c}, how : {"evaluated", "unsupported"}]

\* A task moves, and if it is the interrupted check, not to such a verdict.
MovesOn(c, t, l) ==
    /\ pc' = [pc EXCEPT ![t] = l]
    /\ aborted' = aborted \/ (l = "done" /\ aborted' = [aborted EXCEPT ![t] = FALSE])
    /\ UNCHANGED disposed
    /\ t = c => \/ l \in {"fail_closed", "done"}
                \/ l \in {"facts", "scam", "failing", "engine"} /\ (aborted[c] \/ disposed)

\* Such a move leaves the check interrupted.
LEMMA MoveInterrupted ==
    ASSUME CallTypes, NEW c \in Checks, Interrupted(c),
           NEW t \in Tasks, NEW l, MovesOn(c, t, l)
    PROVE  Interrupted(c)'
<1>1. c \in Tasks BY Zenon DEF Tasks, Planners
<1>2. CASE t = c BY <1>1, <1>2 DEF CallTypes, Interrupted, MovesOn
<1>3. CASE t # c
  <2>1. pc'[c] = pc[c] /\ aborted'[c] = aborted[c] BY <1>1, <1>3 DEF CallTypes, MovesOn
  <2>2. QED BY <2>1, Zenon DEF Interrupted, MovesOn
<1>4. QED BY <1>2, <1>3, Zenon

\* What ends a task, or publishes a verdict an interrupted check may have, is such a move.
LEMMA EndMoves ==
    ASSUME NEW c, NEW t, UNCHANGED disposed
    PROVE  /\ \A how : Ends(t, how) => MovesOn(c, t, "done")
           /\ Publishes(t, "fail_closed") => MovesOn(c, t, "fail_closed")
           /\ \A verdict : t # c /\ Publishes(t, verdict) => MovesOn(c, t, verdict)
BY Zenon DEF Ends, Publishes, GoesOn, MovesOn

\* No step of the runtime gives an interrupted check another verdict.
LEMMA StepInterrupted ==
    ASSUME CallTypes, NEW c \in Checks, Interrupted(c), Next PROVE Interrupted(c)'
<1>1. Checks \subseteq Tasks /\ Handles \subseteq Tasks /\ Refreshes \subseteq Tasks
      /\ Planners \subseteq Tasks
  BY Zenon DEF Tasks, Planners
<1>2. ASSUME pc' = pc, aborted' = aborted, disposed => disposed' PROVE Interrupted(c)'
  BY <1>2, Zenon DEF Interrupted
<1>3. ASSUME NEW t \in Tasks, \E l : MovesOn(c, t, l) PROVE Interrupted(c)'
  BY <1>3, MoveInterrupted, Zenon
<1>4. ASSUME NEW t \in Checks \cup Refreshes, Answer(t) \/ Timeout(t) PROVE Interrupted(c)'
  BY <1>2, <1>4, Zenon DEF Answer, Timeout, GoesOn, life
<1>5. ASSUME NEW t \in Checks \cup Refreshes, Abort(t) PROVE Interrupted(c)'
  <2>1. aborted[c] => aborted'[c] BY <1>1, <1>5 DEF Abort, CallTypes
  <2>2. QED BY <1>5, <2>1, Zenon DEF Abort, life, Interrupted
<1>6. ASSUME NEW d \in Checks, StartCheck(d) PROVE Interrupted(c)'
  <2>1. UNCHANGED disposed BY <1>6, Zenon DEF StartCheck, life
  <2>2. d # c BY <1>6, Zenon DEF StartCheck, Interrupted
  <2>3. MovesOn(c, d, "done") \/ MovesOn(c, d, "entered")
    BY <1>6, <2>1, <2>2, EndMoves, Zenon DEF StartCheck, GoesOn, MovesOn
  <2>4. QED BY <1>1, <1>3, <2>3, Zenon
<1>7. ASSUME NEW d \in Checks, PlanCheck(d) PROVE Interrupted(c)'
  <2>1. UNCHANGED disposed BY <1>7, ZenonT(30) DEF PlanCheck, life
  <2>2. d = c => aborted[d] \/ disposed BY <1>7, Zenon DEF PlanCheck, Interrupted
  <2>3. CASE Ends(d, "rejected") \/ Publishes(d, "fail_closed")
    BY <1>1, <1>3, <2>1, <2>3, EndMoves, Zenon
  <2>4. CASE ~disposed /\ ~aborted[d] /\ Publishes(d, "unsupported")
    BY <1>1, <1>3, <2>1, <2>2, <2>4, EndMoves, Zenon
  <2>5. CASE /\ ~disposed /\ ~aborted[d] /\ GoesOn
             /\ \E l \in {"facts", "scam", "failing"} : pc' = [pc EXCEPT ![d] = l]
    BY <1>1, <1>3, <2>1, <2>2, <2>5, Zenon DEF MovesOn, GoesOn
  <2>6. QED BY <1>7, <2>3, <2>4, <2>5, Zenon DEF PlanCheck
<1>8. ASSUME NEW d \in Checks, ReceiveFacts(d) PROVE Interrupted(c)'
  <2>1. UNCHANGED disposed BY <1>8, Zenon DEF ReceiveFacts, life
  <2>2. d = c => aborted[d] \/ disposed BY <1>8, Zenon DEF ReceiveFacts, Interrupted
  <2>3. \E l \in {"done", "failing", "scam"} : MovesOn(c, d, l)
    BY <1>8, <2>1, <2>2, EndMoves, Zenon DEF ReceiveFacts, GoesOn, MovesOn
  <2>4. QED BY <1>1, <1>3, <2>3, Zenon
<1>9. ASSUME NEW d \in Checks, ScamSettles(d) PROVE Interrupted(c)'
  BY <1>2, <1>9, Zenon DEF ScamSettles, GoesOn, life
<1>10. ASSUME NEW d \in Checks, EvaluateCheck(d) PROVE Interrupted(c)'
  <2>1. UNCHANGED disposed BY <1>10, Zenon DEF EvaluateCheck
  <2>2. d = c => aborted[d] \/ disposed BY <1>10, Zenon DEF EvaluateCheck, Interrupted
  <2>3. \E l \in {"done", "failing", "engine"} : MovesOn(c, d, l)
    BY <1>10, <2>1, <2>2, EndMoves, Zenon DEF EvaluateCheck, EnterEngine, GoesOn, MovesOn
  <2>4. QED BY <1>1, <1>3, <2>3, Zenon
<1>11. ASSUME NEW d \in Checks, FailCheck(d) PROVE Interrupted(c)'
  <2>1. UNCHANGED disposed BY <1>11, Zenon DEF FailCheck
  <2>2. d = c => aborted[d] \/ disposed BY <1>11, Zenon DEF FailCheck, Interrupted
  <2>3. \E l \in {"done", "engine"} : MovesOn(c, d, l)
    BY <1>11, <2>1, <2>2, EndMoves, Zenon DEF FailCheck, EnterEngine, GoesOn, MovesOn
  <2>4. QED BY <1>1, <1>3, <2>3, Zenon
<1>12. ASSUME NEW d \in Checks, LeaveCheck(d) PROVE Interrupted(c)'
  <2>1. UNCHANGED disposed BY <1>12, Zenon DEF LeaveCheck
  <2>2. d = c => aborted[d] \/ disposed BY <1>12, Zenon DEF LeaveCheck, Interrupted
  <2>3. CASE Ends(d, "rejected") \/ Publishes(d, "fail_closed")
    BY <1>1, <1>3, <2>1, <2>3, EndMoves, Zenon
  <2>4. CASE ~disposed /\ ~aborted[d] /\ Publishes(d, "evaluated")
    BY <1>1, <1>3, <2>1, <2>2, <2>4, EndMoves, Zenon
  <2>5. QED BY <1>12, <2>3, <2>4, Zenon DEF LeaveCheck, AbortedInEngine
<1>13. ASSUME NEW h \in Handles, HostPlan(h) \/ HostEvaluate(h) \/ LeaveHandle(h)
       PROVE  Interrupted(c)'
  <2>1. UNCHANGED disposed BY <1>13, Zenon DEF HostPlan, HostEvaluate, LeaveHandle, life
  <2>2. h # c BY RuntimeAssumption, Zenon
  <2>3. CASE HostPlan(h)
    BY <1>1, <1>3, <2>1, <2>2, <2>3, EndMoves, Zenon DEF HostPlan, GoesOn, MovesOn
  <2>4. CASE HostEvaluate(h)
    BY <1>1, <1>3, <2>1, <2>2, <2>4, EndMoves, Zenon
      DEF HostEvaluate, EnterEngine, GoesOn, MovesOn
  <2>5. CASE LeaveHandle(h)
    BY <1>1, <1>3, <2>1, <2>2, <2>5, EndMoves, ZenonT(30) DEF LeaveHandle
  <2>6. QED BY <1>13, <2>3, <2>4, <2>5, Zenon
<1>14. ASSUME NEW t \in Planners, Publish(t) PROVE Interrupted(c)'
  BY <1>1, <1>3, <1>14, EndMoves, Zenon DEF Publish, life
<1>15. ASSUME NEW r \in Refreshes, StartRefresh(r) \/ FinishRefresh(r) PROVE Interrupted(c)'
  <2>1. UNCHANGED disposed BY <1>15, Zenon DEF StartRefresh, FinishRefresh, life
  <2>2. r # c BY RuntimeAssumption, Zenon
  <2>3. \E l \in {"done", "fetching"} : MovesOn(c, r, l)
    BY <1>15, <2>1, <2>2, EndMoves, Zenon DEF StartRefresh, FinishRefresh, GoesOn, MovesOn
  <2>4. QED BY <1>1, <1>3, <2>3, Zenon
<1>16. CASE Dispose BY <1>2, <1>16, Zenon DEF Dispose, GoesOn
<1>17. QED
  BY <1>4, <1>5, <1>6, <1>7, <1>8, <1>9, <1>10, <1>11, <1>12, <1>13, <1>14, <1>15, <1>16,
     ZenonT(30)
     DEF Next

\* A step answers with a judged verdict only for a check that was at it, and ends it.
LEMMA JudgedAnswer ==
    ASSUME CallTypes, NEW c \in Checks, Next, answer' \in Judged(c)
    PROVE  pc[c] \in {"evaluated", "unsupported"} /\ pc'[c] = "done"
<1>1. PICK how \in {"evaluated", "unsupported"} : answer' = [task |-> c, how |-> how]
  BY DEF Judged
<1>2. answer' # NoAnswer BY <1>1, NoAnswerAssumption DEF Endings, Verdicts, Tasks, Planners
<1>3. ~HandleAnswers /\ ~RefreshAnswers
  BY <1>1, RuntimeAssumption, Zenon DEF HandleAnswers, RefreshAnswers
<1>4. CheckAnswers BY <1>2, <1>3, StepAnswers, Zenon DEF Answering
<1>5. PICK d \in Checks, end \in Endings :
         /\ answer' = [task |-> d, how |-> end]
         /\ end # "rejected" => pc[d] = end
         /\ pc' = [pc EXCEPT ![d] = "done"]
  BY <1>4, Zenon DEF CheckAnswers
<1>6. d = c /\ end = how BY <1>1, <1>5
<1>7. QED BY <1>1, <1>5, <1>6 DEF CallTypes, Tasks, Planners

\* A check whose judged verdict was just answered has ended.
AnswerInv == \A c \in Checks : answer \in Judged(c) => pc[c] = "done"

\* A check whose caller aborts, or whose instance is disposed, before it has its verdict
\* never answers with a judged one, however long it goes on, and also when the pending
\* hook or a clock callback inside the evaluation does it.
THEOREM InterruptedNotJudged == Spec => InterruptionHonoured
<1> SUFFICES ASSUME NEW c \in Checks
             PROVE  Spec => [](Deciding(c) /\ (aborted[c] \/ disposed) =>
                       [](answer \notin [task : {c}, how : {"evaluated", "unsupported"}]))
  BY DEF InterruptionHonoured
<1> DEFINE Kept == answer \notin [task : {c}, how : {"evaluated", "unsupported"}]
           Start == Deciding(c) /\ (aborted[c] \/ disposed)
           Stopped == Interrupted(c) /\ answer \notin Judged(c)
<1>1. Init => AnswerInv
  BY NoAnswerAssumption DEF Init, AnswerInv, Judged, Endings, Verdicts, Tasks, Planners
<1>2. IInv /\ AnswerInv /\ [Next]_vars => AnswerInv'
  <2>1. CASE UNCHANGED vars BY <2>1, Zenon DEF vars, AnswerInv, Judged
  <2>2. CASE IInv /\ Next
    BY <2>2, JudgedAnswer, Zenon DEF IInv, Types, AnswerInv
  <2>3. QED BY <2>1, <2>2, Zenon
<1>3. AnswerInv /\ Start => Stopped
  BY Zenon DEF AnswerInv, Deciding, Interrupted, Verdicts
<1>4. IInv /\ Stopped /\ [Next]_vars => Stopped'
  <2>1. CASE UNCHANGED vars BY <2>1, Zenon DEF vars, life, Interrupted, Judged
  <2>2. CASE IInv /\ Stopped /\ Next
    <3>1. Interrupted(c)' BY <2>2, StepInterrupted, Zenon DEF IInv, Types
    <3>2. answer' \notin Judged(c)
      BY <2>2, JudgedAnswer, Zenon DEF IInv, Types, Interrupted
    <3>3. QED BY <3>1, <3>2, Zenon DEF Judged
  <2>3. QED BY <2>1, <2>2, Zenon
<1>5. Stopped => Kept BY Zenon DEF Judged
<1> HIDE DEF Kept, Start, Stopped
<1>6. Spec => [](Start => []Kept)
  BY <1>1, <1>2, <1>3, <1>4, <1>5, RuntimeInvariant, PTL DEF Spec
<1>7. QED BY <1>6, PTL DEF Kept, Start

\* check() rejects only when the instance is disposed.
THEOREM LiveChecksAnswer == Spec => OnlyDisposalRejects
<1> DEFINE A == \A c \in Checks : answer' = [task |-> c, how |-> "rejected"] => disposed
<1>1. Next => A
  <2> SUFFICES ASSUME Next, NEW c \in Checks, answer' = [task |-> c, how |-> "rejected"]
               PROVE  disposed
    BY Zenon
  <2>1. answer' # NoAnswer BY NoAnswerAssumption DEF Endings, Tasks, Planners
  <2>2. ~HandleAnswers /\ ~RefreshAnswers
    BY RuntimeAssumption, Zenon DEF HandleAnswers, RefreshAnswers
  <2>3. CheckAnswers BY <2>1, <2>2, StepAnswers, Zenon DEF Answering
  <2>4. QED BY <2>3, Zenon DEF CheckAnswers
<1> HIDE DEF A
<1>2. [Next]_vars => [A]_vars BY <1>1
<1>3. QED BY <1>2, PTL DEF Spec, OnlyDisposalRejects, A

\* Only the refresh that holds the engine's last ticket installs a policy.
THEOREM LatestInstalls == Spec => LatestRefreshInstalls
<1> DEFINE A == \A r \in Refreshes : answer' = [task |-> r, how |-> "installed"]
                => ticket[r] = tickets
<1>1. IInv /\ Next => A
  <2> SUFFICES ASSUME IInv, Next, NEW r \in Refreshes, answer' = [task |-> r, how |-> "installed"]
               PROVE  ticket[r] = tickets
    BY Zenon
  <2>1. answer' # NoAnswer BY NoAnswerAssumption DEF Endings, Tasks
  <2>2. ~HandleAnswers /\ ~CheckAnswers BY Zenon DEF HandleAnswers, CheckAnswers
  <2>3. RefreshAnswers BY <2>1, <2>2, StepAnswers, ZenonT(30) DEF Answering
  <2>4. pc[r] = "fetching" /\ expected = ticket[r] BY <2>3 DEF RefreshAnswers
  <2>5. QED BY <2>4 DEF IInv, TicketInv, Types, OtherTypes
<1> HIDE DEF A
<1>2. IInv /\ [Next]_vars => [A]_vars BY <1>1, Zenon
<1>3. QED BY <1>2, RuntimeInvariant, PTL DEF Spec, LatestRefreshInstalls, A
-----------------------------------------------------------------------------
(***************************************************************************)
(* Which policy a check was planned under, and what a step does to the     *)
(* fact cache.                                                             *)
(***************************************************************************)
\* A check was planned under the policy of its epoch.
Frame == {f \in [epoch : Nat, policy : Nat, fact : Times \cup {NoFact}, at : Times,
                 failure : BOOLEAN, known : BOOLEAN] : f.epoch = f.policy}

EpochInv ==
    /\ epoch \in Nat /\ installed = epoch
    /\ frame \in [Planners -> Frame]

\* get() finds facts with the time they were observed at.
FoundInTime ==
    \A now \in Times :
        Facts!Touch(Call, now) /\ Facts!Lookup(Call, now) # <<>>
            => Facts!Lookup(Call, now)[1].observedAt \in Times

\* The cache is left alone, read, emptied, or given a fact of a verdict under the
\* installed policy.
CacheMoves ==
    \/ UNCHANGED <<entries, bytes>> /\ accepted \subseteq accepted'
    \/ UNCHANGED accepted /\ \E now \in Times : Facts!Touch(Call, now)
    \/ entries' = <<>> /\ bytes' = 0
    \/ /\ accepted \subseteq accepted'
       /\ \E f \in Times : \E now : f \in accepted' /\ Facts!Put(<<Response(f)>>, TRUE, now)

\* What becomes of the locals of a call that ends, enters the engine, or gets its fact.
LEMMA EndFrame ==
    ASSUME EpochInv, NEW t, NEW how, Ends(t, how) \/ Publishes(t, how)
    PROVE  frame' \in [Planners -> Frame]
<1>1. Blank \in Frame BY RuntimeAssumption DEF Blank, Frame, Times
<1>2. QED BY <1>1, Zenon DEF Ends, Publishes, EpochInv

LEMMA EnterFrame ==
    ASSUME EpochInv, NEW t \in Planners, NEW now \in Times, NEW failure \in BOOLEAN,
           EnterEngine(t, now, failure)
    PROVE  frame' \in [Planners -> Frame]
<1>1. frame[t] \in Frame BY DEF EpochInv
<1>2. [frame[t] EXCEPT !.at = now, !.failure = failure, !.known = (t \in plans)] \in Frame
  <2> DEFINE known == t \in plans
  <2>1. known \in BOOLEAN OBVIOUS
  <2> HIDE DEF known
  <2>2. [frame[t] EXCEPT !.at = now, !.failure = failure, !.known = known] \in Frame
    BY <1>1, <2>1, Zenon DEF Frame
  <2>3. QED BY <2>2, Zenon DEF known
<1>3. QED BY <1>1, <1>2, Zenon DEF EnterEngine, EpochInv

LEMMA FactFrame ==
    ASSUME EpochInv, NEW c \in Planners, NEW f \in Times \cup {NoFact},
           frame' = [frame EXCEPT ![c].fact = f]
    PROVE  frame' \in [Planners -> Frame]
<1>1. frame[c] \in Frame BY DEF EpochInv
<1>2. [frame[c] EXCEPT !.fact = f] \in Frame BY <1>1 DEF Frame
<1>3. QED BY <1>2 DEF EpochInv

\* A plan is noted with its epoch and policy, and with a fact of the cache if there is one.
LEMMA PlanFrame ==
    ASSUME EpochInv, NEW f \in Times \cup {NoFact}
    PROVE  LET planned == [Blank EXCEPT !.epoch = epoch, !.policy = installed] IN
           planned \in Frame /\ [planned EXCEPT !.fact = f] \in Frame
<1> DEFINE planned == [Blank EXCEPT !.epoch = epoch, !.policy = installed]
<1>1. Blank \in Frame BY RuntimeAssumption DEF Blank, Frame, Times
<1>2. epoch \in Nat /\ installed = epoch BY DEF EpochInv
<1>3. planned \in Frame BY <1>1, <1>2, Zenon DEF Frame
<1> HIDE DEF planned
<1>4. [planned EXCEPT !.fact = f] \in Frame BY <1>3 DEF Frame
<1>5. QED BY <1>3, <1>4, SMTT(30), ZenonT(30) DEF planned

\* Steps that touch neither the cache nor the policy.
LEMMA Untouched ==
    ASSUME EpochInv, UNCHANGED <<epoch, installed, entries, bytes, accepted>>,
           frame' \in [Planners -> Frame]
    PROVE  EpochInv' /\ CacheMoves
BY DEF EpochInv, CacheMoves

\* A check that is planned reads the cache and notes the policy.
LEMMA PlanPolicy ==
    ASSUME EpochInv, FoundInTime, NEW c \in Checks, PlanCheck(c) PROVE EpochInv' /\ CacheMoves
<1> DEFINE planned == [Blank EXCEPT !.epoch = epoch, !.policy = installed]
<1>0. c \in Planners /\ UNCHANGED <<epoch, accepted>>
  BY Zenon DEF PlanCheck, Planners
<1>1. CASE /\ \E how : Ends(c, how) \/ Publishes(c, how)
           /\ UNCHANGED installed /\ UNCHANGED cacheVars
  BY <1>0, <1>1, EndFrame, Untouched, Zenon DEF cacheVars
<1>2. ASSUME NEW f \in Times \cup {NoFact}, UNCHANGED installed,
             \/ frame' = [frame EXCEPT ![c] = planned]
             \/ frame' = [frame EXCEPT ![c] = [planned EXCEPT !.fact = f]]
      PROVE  EpochInv'
  <2>1. planned \in Frame /\ [planned EXCEPT !.fact = f] \in Frame BY PlanFrame, Zenon
  <2> HIDE DEF planned
  <2>2. QED BY <1>0, <1>2, <2>1, Zenon DEF EpochInv
<1>3. CASE /\ UNCHANGED installed /\ frame' = [frame EXCEPT ![c] = planned]
           /\ UNCHANGED cacheVars \/ \E now \in Times : Facts!Touch(Call, now)
  <2>1. EpochInv' BY <1>2, <1>3
  <2>2. QED BY <1>0, <1>3, <2>1, Zenon DEF cacheVars, CacheMoves
<1>4. ASSUME NEW now \in Times, Facts!Touch(Call, now), UNCHANGED installed,
             IF Facts!Lookup(Call, now) = <<>>
             THEN frame' = [frame EXCEPT ![c] = planned]
             ELSE frame' = [frame EXCEPT ![c] =
                              [planned EXCEPT !.fact = Facts!Lookup(Call, now)[1].observedAt]]
      PROVE  EpochInv' /\ CacheMoves
  <2> DEFINE found == Facts!Lookup(Call, now)
  <2>1. found # <<>> => found[1].observedAt \in Times BY <1>4 DEF FoundInTime
  <2>2. CacheMoves BY <1>0, <1>4, Zenon DEF CacheMoves
  <2> HIDE DEF found, planned
  <2>3. CASE found = <<>> BY <1>2, <1>4, <2>2, <2>3 DEF found
  <2>4. CASE found # <<>> BY <1>2, <1>4, <2>1, <2>2, <2>4 DEF found
  <2>5. QED BY <2>3, <2>4
<1> HIDE DEF planned
<1>5. CASE disposed
  <2>1. Ends(c, "rejected") /\ UNCHANGED <<cacheVars, engineVars>> BY <1>5, Zenon DEF PlanCheck
  <2>2. QED BY <1>1, <2>1, Zenon DEF engineVars
<1>6. CASE ~disposed
  <2>1. CASE /\ Publishes(c, "fail_closed") \/ Publishes(c, "unsupported")
             /\ EngineRefuses /\ UNCHANGED cacheVars
    BY <1>1, <2>1, Zenon DEF EngineRefuses
  <2>2. CASE /\ EnginePlans(c) /\ frame' = [frame EXCEPT ![c] = planned]
             /\ UNCHANGED cacheVars \/ \E now \in Times : Facts!Touch(Call, now)
    BY <1>3, <2>2, Zenon DEF EnginePlans
  <2>3. CASE /\ EnginePlans(c)
             /\ \E now \in Times :
                  /\ Facts!Touch(Call, now)
                  /\ IF Facts!Lookup(Call, now) = <<>>
                     THEN frame' = [frame EXCEPT ![c] = planned]
                     ELSE frame' = [frame EXCEPT ![c] =
                                 [planned EXCEPT !.fact = Facts!Lookup(Call, now)[1].observedAt]]
    BY <1>4, <2>3, Zenon DEF EnginePlans
  <2>4. QED BY <1>6, <2>1, <2>2, <2>3, Zenon DEF PlanCheck, planned
<1>7. QED BY <1>5, <1>6

\* A check that is evaluated stores its fact only under the policy of its plan.
LEMMA LeavePolicy ==
    ASSUME EpochInv, NEW c \in Checks, LeaveCheck(c) PROVE EpochInv' /\ CacheMoves
<1>0. /\ c \in Planners /\ UNCHANGED <<epoch, installed>>
      /\ \E how : Ends(c, how) \/ Publishes(c, how)
  BY Zenon DEF LeaveCheck, Planners, engineVars
<1>1. frame' \in [Planners -> Frame] /\ frame[c] \in Frame BY <1>0, EndFrame DEF EpochInv
<1>2. EpochInv' BY <1>0, <1>1 DEF EpochInv
<1>3. CASE UNCHANGED <<cacheVars, accepted>>
  BY <1>0, <1>1, <1>3, Untouched DEF cacheVars
<1>4. CASE /\ Evaluated(c)
           /\ accepted' = IF frame[c].policy = installed THEN accepted \cup {frame[c].fact}
                          ELSE accepted
           /\ IF Cacheable(c)
              THEN Facts!Put(<<Response(frame[c].fact)>>, TRUE, frame[c].at)
              ELSE UNCHANGED cacheVars
  <2>1. frame[c].fact \in Times /\ frame[c].epoch = frame[c].policy
    BY <1>1, <1>4 DEF Evaluated, Frame
  <2>2. CASE Cacheable(c)
    <3>1. accepted' = accepted \cup {frame[c].fact}
      BY <1>0, <1>4, <2>1, <2>2, ZenonT(30) DEF Cacheable, EpochInv
    <3>2. CacheMoves BY <1>4, <2>1, <2>2, <3>1, ZenonT(30) DEF CacheMoves
    <3>3. QED BY <1>2, <3>2, Zenon
  <2>3. CASE ~Cacheable(c)
    <3>1. CacheMoves BY <1>4, <2>3, ZenonT(30) DEF CacheMoves, cacheVars
    <3>2. QED BY <1>2, <3>1
  <2>4. QED BY <2>2, <2>3, SMTT(30), ZenonT(30)
<1>5. QED BY <1>3, <1>4, Zenon DEF LeaveCheck

\* So it is with every step.
LEMMA StepPolicy ==
    ASSUME EpochInv, FoundInTime, [Next]_vars PROVE EpochInv' /\ CacheMoves
<1>0. /\ frame \in [Planners -> Frame]
      /\ Checks \subseteq Planners /\ Handles \subseteq Planners
  BY Zenon DEF EpochInv, Planners
<1> USE DEF cacheVars, engineVars, life
<1>1. ASSUME NEW t \in Checks \cup Refreshes, Answer(t) \/ Timeout(t) \/ Abort(t)
      PROVE  EpochInv' /\ CacheMoves
  BY <1>0, <1>1, Untouched, Zenon DEF Answer, Timeout, Abort
<1>2. ASSUME NEW c \in Checks, StartCheck(c) PROVE EpochInv' /\ CacheMoves
  BY <1>0, <1>2, Untouched, EndFrame, Zenon DEF StartCheck
<1>3. ASSUME NEW c \in Checks, ReceiveFacts(c) PROVE EpochInv' /\ CacheMoves
  <2>1. UNCHANGED <<epoch, installed, entries, bytes, accepted>> BY <1>3 DEF ReceiveFacts
  <2>2. \/ Ends(c, "rejected") \/ UNCHANGED frame
        \/ \E f \in Times \cup {NoFact} : frame' = [frame EXCEPT ![c].fact = f]
    BY <1>3, Zenon DEF ReceiveFacts
  <2>3. QED BY <1>0, <2>1, <2>2, Untouched, EndFrame, FactFrame, Zenon
<1>4. ASSUME NEW c \in Checks, ScamSettles(c) PROVE EpochInv' /\ CacheMoves
  BY <1>0, <1>4, Untouched, Zenon DEF ScamSettles
<1>5. ASSUME NEW c \in Planners, EvaluateCheck(c) \/ FailCheck(c) \/ HostEvaluate(c)
      PROVE  EpochInv' /\ CacheMoves
  <2>1. UNCHANGED <<epoch, entries, bytes, accepted>>
    BY <1>5, Zenon DEF EvaluateCheck, FailCheck, HostEvaluate
  <2>2. \/ Ends(c, "rejected") /\ UNCHANGED installed
        \/ UNCHANGED <<frame, installed>>
        \/ \E now \in Times, failure \in BOOLEAN : EnterEngine(c, now, failure)
    BY <1>5, Zenon DEF EvaluateCheck, FailCheck, HostEvaluate
  <2>3. CASE \E now \in Times, failure \in BOOLEAN : EnterEngine(c, now, failure)
    <3>1. UNCHANGED installed BY <2>3 DEF EnterEngine
    <3>2. QED BY <1>0, <2>1, <2>3, <3>1, EnterFrame, Untouched
  <2>4. QED BY <1>0, <2>1, <2>2, <2>3, Untouched, EndFrame, Zenon
<1>6. ASSUME NEW h \in Handles, HostPlan(h) PROVE EpochInv' /\ CacheMoves
  <2>1. UNCHANGED <<epoch, installed, entries, bytes, accepted>>
    BY <1>6, Zenon DEF HostPlan, EngineRefuses, EnginePlans
  <2>2. Ends(h, "rejected") \/ UNCHANGED frame BY <1>6, Zenon DEF HostPlan
  <2>3. QED BY <1>0, <2>1, <2>2, Untouched, EndFrame
<1>7. ASSUME NEW h \in Handles, LeaveHandle(h) PROVE EpochInv' /\ CacheMoves
  <2>1. /\ \E how : Ends(h, how) \/ Publishes(h, how)
        /\ UNCHANGED <<epoch, installed, entries, bytes, accepted>>
    BY <1>7, Zenon DEF LeaveHandle
  <2>2. QED BY <1>0, <2>1, Untouched, EndFrame, Zenon
<1>8. ASSUME NEW r \in Refreshes, StartRefresh(r) PROVE EpochInv' /\ CacheMoves
  <2>1. UNCHANGED <<epoch, installed, entries, bytes, accepted>> BY <1>8, Zenon DEF StartRefresh
  <2>2. Ends(r, "rejected") \/ UNCHANGED frame BY <1>8, Zenon DEF StartRefresh
  <2>3. QED BY <1>0, <2>1, <2>2, Untouched, EndFrame, Zenon
<1>9. ASSUME NEW r \in Refreshes, FinishRefresh(r) PROVE EpochInv' /\ CacheMoves
  <2>1. frame' \in [Planners -> Frame] BY <1>0, <1>9, EndFrame, Zenon DEF FinishRefresh
  <2>2. CASE installed' = installed + 1 /\ epoch' = epoch + 1 /\ Facts!Clear
    <3>1. EpochInv' BY <2>1, <2>2 DEF EpochInv
    <3>2. CacheMoves BY <2>2, Zenon DEF CacheMoves, Facts!Clear
    <3>3. QED BY <3>1, <3>2, Zenon
  <2>3. CASE UNCHANGED <<cacheVars, epoch, installed, accepted>> BY <2>1, <2>3, Untouched, Zenon
  <2>4. QED BY <1>9, <2>2, <2>3, Zenon DEF FinishRefresh
<1>10. CASE Dispose
  <2>1. CacheMoves BY <1>10, Zenon DEF Dispose, CacheMoves, Facts!Clear
  <2>2. EpochInv' BY <1>10, Zenon DEF Dispose, EpochInv
  <2>3. QED BY <2>1, <2>2, Zenon
<1>11. CASE UNCHANGED vars BY <1>0, <1>11, Untouched, Zenon DEF vars
<1>12. ASSUME NEW t \in Planners, Publish(t) PROVE EpochInv' /\ CacheMoves
  BY <1>12, Untouched, EndFrame, Zenon DEF Publish
<1>13. QED
  BY SMTT(30), ZenonT(30), <1>0, <1>1, <1>2, <1>3, <1>4, <1>5, <1>6, <1>7, <1>8, <1>9,
     <1>10, <1>11, <1>12,
     PlanPolicy, LeavePolicy DEF Next

LEMMA InitEpoch == Init => EpochInv
<1>1. Blank \in Frame BY RuntimeAssumption, SMTT(30), ZenonT(30) DEF Blank, Frame, Times
<1>2. QED BY <1>1 DEF Init, EpochInv

-----------------------------------------------------------------------------
\* What the cache holds, by what is proved of FactCache by itself.
Cached == INSTANCE FactCacheProofs
            WITH Keys <- {Call}, Sizes <- {1}, Batches <- {}, MaxEntries <- 1, MaxBytes <- 1,
                 MaxSafeInteger <- MaxTime, hit <- NoHit

CacheInv ==
    /\ Cached!CacheOK(Cached!Cache(entries, bytes))
    /\ \A x \in Cached!Elems(entries) : x.observedAt \in accepted

\* The limits CoreRuntime gives the cache are limits FactCache assumes.
LEMMA CacheConstants == Cached!CacheAssumption
BY RuntimeAssumption, SMTT(30), ZenonT(30) DEF Cached!CacheAssumption, Cached!Responses

\* The two instances of FactCache, with and without its proofs, are one.
LEMMA SameOperators ==
    ASSUME NEW now
    PROVE  /\ Facts!Touch(Call, now) <=> Cached!Touch(Call, now)
           /\ Facts!Lookup(Call, now) = Cached!Lookup(Call, now)
<1> USE DEF Facts!Forget, Cached!Forget, Facts!Observe, Cached!Observe,
            Facts!SaneClock, Cached!SaneClock, Facts!Prune, Cached!Prune,
            Facts!Without, Cached!Without, Facts!Found, Cached!Found, Facts!Only, Cached!Only,
            Facts!Keep, Cached!Keep, Facts!Cache, Cached!Cache, Facts!SumBytes, Cached!SumBytes,
            Facts!Entries, Cached!Entries, Facts!Fresh, Cached!Fresh
<1>1. Facts!Touch(Call, now) <=> Cached!Touch(Call, now)
  BY SMTT(30), ZenonT(30) DEF Facts!Touch, Cached!Touch
<1>2. Facts!Lookup(Call, now) = Cached!Lookup(Call, now)
  BY SMTT(30), ZenonT(30) DEF Facts!Lookup, Cached!Lookup
<1>3. QED BY <1>1, <1>2, SMTT(30), ZenonT(30)

LEMMA SamePut ==
    ASSUME NEW batch, NEW now
    PROVE  Facts!Put(batch, TRUE, now) <=> Cached!Put(batch, TRUE, now)
<1> USE DEF Facts!Forget, Cached!Forget, Facts!Observe, Cached!Observe,
            Facts!SaneClock, Cached!SaneClock
<1>1. Facts!Prune(now) = Cached!Prune(now)
  BY SMTT(30), ZenonT(30)
    DEF Facts!Prune, Cached!Prune, Facts!Only, Cached!Only, Facts!Keep, Cached!Keep,
         Facts!Cache, Cached!Cache, Facts!SumBytes, Cached!SumBytes,
         Facts!Entries, Cached!Entries, Facts!Fresh, Cached!Fresh
<1>2. Facts!Reached(batch) = Cached!Reached(batch)
  BY SMTT(30), ZenonT(30) DEF Facts!Reached, Cached!Reached, Facts!Min, Cached!Min
<1>3. \A c, size : Facts!Room(c, size) = Cached!Room(c, size)
  BY SMTT(30), ZenonT(30)
    DEF Facts!Room, Cached!Room, Facts!Cache, Cached!Cache, Facts!SumBytes, Cached!SumBytes
<1>4. \A c, key : Facts!RemoveKey(c, key) = Cached!RemoveKey(c, key)
  BY ZenonT(30)
    DEF Facts!RemoveKey, Cached!RemoveKey, Facts!Without, Cached!Without, Facts!Only,
        Cached!Only,
         Facts!Keep, Cached!Keep, Facts!Cache, Cached!Cache, Facts!SumBytes, Cached!SumBytes,
         Facts!Entries, Cached!Entries
<1>5. \A c, r : Facts!Store(c, r, now) = Cached!Store(c, r, now)
  BY <1>3, <1>4, ZenonT(30)
    DEF Facts!Store, Cached!Store, Facts!Fresh, Cached!Fresh, Facts!Cache, Cached!Cache
<1>6. ASSUME NEW c, NEW b PROVE Facts!StoreAll(c, b, now) = Cached!StoreAll(c, b, now)
  <2> DEFINE One(f) == [i \in 0 .. Len(b) |-> IF i = 0 THEN c
                                              ELSE Facts!Store(f[i - 1], b[i], now)]
             Other(f) == [i \in 0 .. Len(b) |-> IF i = 0 THEN c
                                                ELSE Cached!Store(f[i - 1], b[i], now)]
  <2>1. \A f : One(f) = Other(f) BY <1>5, SMTT(30), ZenonT(30)
  <2>2. /\ Facts!StoreAll(c, b, now) = (CHOOSE f : f = One(f))[Len(b)]
        /\ Cached!StoreAll(c, b, now) = (CHOOSE f : f = Other(f))[Len(b)]
    BY DEF Facts!StoreAll, Cached!StoreAll
  <2> HIDE DEF One, Other
  <2>3. (CHOOSE f : f = One(f)) = (CHOOSE f : f = Other(f)) BY <2>1, ZenonT(30)
  <2>4. QED BY <2>2, <2>3, ZenonT(30)
<1>7. QED BY <1>1, <1>2, <1>6, SMTT(30), ZenonT(30) DEF Facts!Put, Cached!Put

\* Reading the cache keeps what is known of it.
LEMMA TouchKeeps ==
    ASSUME CacheInv, NEW now, Facts!Touch(Call, now)
    PROVE  /\ accepted' = accepted => CacheInv'
           /\ Facts!Lookup(Call, now) # <<>> => Facts!Lookup(Call, now)[1].observedAt \in Times
<1>1. Cached!Touch(Call, now) /\ Facts!Lookup(Call, now) = Cached!Lookup(Call, now)
  BY SameOperators, SMTT(30), ZenonT(30)
<1>2. /\ Cached!CacheOK(Cached!Cache(entries', bytes'))
      /\ Cached!Elems(entries') \subseteq Cached!Elems(entries)
      /\ Cached!Lookup(Call, now) # <<>> => Cached!Lookup(Call, now)[1] \in Cached!Entries
  BY <1>1, CacheConstants, Cached!TouchTakes, SMTT(30), ZenonT(30) DEF CacheInv
<1>3. accepted' = accepted => CacheInv' BY <1>2, SMTT(30), ZenonT(30) DEF CacheInv
<1>4. \A e \in Cached!Entries : e.observedAt \in Times
  BY SMTT(30), ZenonT(30) DEF Cached!Entries, Times
<1>5. QED BY <1>1, <1>2, <1>3, <1>4, SMTT(30), ZenonT(30)

\* An emptied cache holds nothing.
LEMMA ClearKeeps == ASSUME entries' = <<>>, bytes' = 0 PROVE CacheInv'
BY CacheConstants, Cached!EmptyOK, SMTT(30), ZenonT(30) DEF CacheInv

\* A fact is stored for a policy only with a verdict under that policy.
LEMMA PutKeeps ==
    ASSUME CacheInv, NEW f \in Times, NEW now, Facts!Put(<<Response(f)>>, TRUE, now),
           accepted \subseteq accepted', f \in accepted'
    PROVE  CacheInv'
<1>1. Cached!Put(<<Response(f)>>, TRUE, now) BY SamePut, ZenonT(30)
<1>2. Response(f) \in Cached!Responses
  BY SMTT(30), ZenonT(30) DEF Response, Cached!Responses, Times
<1>3. <<Response(f)>> \in Seq(Cached!Responses) BY <1>2, SMTT(30), ZenonT(30)
<1>4. /\ Cached!CacheOK(Cached!Cache(entries', bytes'))
      /\ \A x \in Cached!Elems(entries') :
            \/ x \in Cached!Elems(entries)
            \/ \E r \in Cached!Elems(<<Response(f)>>) : x = Cached!Kept(r)
  BY <1>1, <1>3, CacheConstants, Cached!PutAdds, ZenonT(30) DEF CacheInv
<1>5. \A r \in Cached!Elems(<<Response(f)>>) : r = Response(f)
  BY SMTT(30), ZenonT(30) DEF Cached!Elems
<1>6. Cached!Kept(Response(f)).observedAt = f
  BY SMTT(30), ZenonT(30) DEF Cached!Kept, Response
<1>7. QED BY <1>4, <1>5, <1>6, SMTT(30), ZenonT(30) DEF CacheInv

\* Whatever a step does to the cache keeps this.
LEMMA MovesKeep == ASSUME CacheInv, CacheMoves PROVE CacheInv'
<1>1. CASE UNCHANGED <<entries, bytes>> /\ accepted \subseteq accepted'
  <2>1. entries' = entries /\ bytes' = bytes BY <1>1, SMTT(30), ZenonT(30)
  <2>2. Cached!CacheOK(Cached!Cache(entries', bytes')) BY <2>1, SMTT(30), ZenonT(30) DEF CacheInv
  <2>3. \A x \in Cached!Elems(entries') : x.observedAt \in accepted'
    BY <1>1, <2>1, SMTT(30), ZenonT(30) DEF CacheInv
  <2>4. QED BY <2>2, <2>3, SMTT(30), ZenonT(30) DEF CacheInv
<1>2. QED BY <1>1, TouchKeeps, ClearKeeps, PutKeeps, ZenonT(30) DEF CacheMoves

\* Every cached fact was part of a verdict under the policy installed now, although
\* refreshes commit while checks are in flight: an epoch is a policy, and a check that
\* was planned in another epoch stores nothing.
THEOREM CachedUnderPolicy == Spec => []CachedUnderInstalledPolicy
<1> DEFINE PolicyInv == EpochInv /\ CacheInv
<1>1. Init => PolicyInv
  <2> SUFFICES ASSUME Init PROVE PolicyInv OBVIOUS
  <2>1. EpochInv BY InitEpoch, SMTT(30), ZenonT(30)
  <2>2. entries = <<>> /\ bytes = 0 BY SMTT(30), ZenonT(30) DEF Init, Facts!Init
  <2>3. CacheInv BY <2>2, CacheConstants, Cached!EmptyOK, SMTT(30), ZenonT(30) DEF CacheInv
  <2>4. QED BY <2>1, <2>3, SMTT(30), ZenonT(30)
<1>2. PolicyInv /\ [Next]_vars => PolicyInv'
  <2> SUFFICES ASSUME PolicyInv, [Next]_vars PROVE PolicyInv' BY SMTT(30), ZenonT(30)
  <2>1. FoundInTime BY TouchKeeps, SMTT(30), ZenonT(30) DEF FoundInTime
  <2>2. EpochInv' /\ CacheMoves BY <2>1, StepPolicy, SMTT(30), ZenonT(30)
  <2>3. CacheInv' BY <2>2, MovesKeep, SMTT(30), ZenonT(30)
  <2>4. QED BY <2>2, <2>3, SMTT(30), ZenonT(30)
<1>3. PolicyInv => CachedUnderInstalledPolicy
  BY DEF CacheInv, Cached!Elems, CachedUnderInstalledPolicy
<1>4. QED BY <1>1, <1>2, <1>3, PTL DEF Spec
=============================================================================
