---------------------------- MODULE CoreRuntime ----------------------------
(***************************************************************************)
(* packages/core/src/runtime/core-runtime.ts: one CoreRuntime instance on  *)
(* the JavaScript event loop.  Checks and policy refreshes run up to an    *)
(* await and go on when what they wait for has settled; timers, provider   *)
(* answers, AbortSignals and dispose() come in between.                    *)
(*                                                                         *)
(* Host code runs inside a call wherever a clock or an input of the host   *)
(* is read and wherever its hooks are told of a request or a verdict, and  *)
(* may call back into the instance; so a call is cut at the pending hook,  *)
(* inside the engine and at the hooks of #publish too.  While `depth' is 1 *)
(* the engine is on the stack: only such re-entrant calls happen, and      *)
(* those that need the engine fail.                                        *)
(*                                                                         *)
(* Every check plans the same one required call.  CoreSession models the   *)
(* engine; here it is the plans it holds, the refresh it expects and the   *)
(* policy it has installed, and whether a plan has expired, or a request   *)
(* or policy is accepted, is arbitrary.                                    *)
(***************************************************************************)
EXTENDS Integers, Sequences, FiniteSets

CONSTANTS
    Checks, Handles, Refreshes,   \* calls of check(), of plan() then evaluate(), of refreshPolicies()
    MaxTime,           \* clock readings are 0 .. MaxTime
    MaxFactAge, AllowedClockSkew,
    Call,              \* the call every check plans
    NoFact,            \* no response, or one native validation refuses
    NoTime, NoHit, NoRefresh, NoAnswer

Times == 0 .. MaxTime

ASSUME RuntimeAssumption ==
    /\ MaxTime \in Nat /\ MaxFactAge \in Nat /\ AllowedClockSkew \in Nat
    /\ NoFact \notin Nat /\ NoTime \notin Nat
    /\ Checks \cap Handles = {} /\ (Checks \cup Handles) \cap Refreshes = {}
    /\ NoRefresh \notin Refreshes

VARIABLES
    disposed, depth,               \* #disposed, #evaluationDepth
    released,                      \* how often native was released
    entries, bytes, lastNow,       \* #cache
    epoch,                         \* #cacheEpoch
    refresh,                       \* #refresh
    pc,        \* where each check and refresh stands
    op,        \* its pending operation: of the policy facts, or of the bundle
    aborted,   \* the callers' AbortSignals
    scamOp,    \* the advisory operation of a check
    frame,     \* the local variables of a check, the state of a handle
    ticket,    \* the engine's ticket of each refresh
    plans,     \* checks and handles whose plan the engine holds
    tickets,   \* tickets the engine has given
    expected,  \* the ticket it would commit, or 0
    installed, \* refreshes it has committed
    accepted,  \* history: facts evaluated under the installed policy
    answer     \* the task the last step ended, and how, if it ended one

cacheVars == <<entries, bytes, lastNow>>
engineVars == <<plans, tickets, expected, installed>>
life == <<disposed, depth, released>>
vars == <<life, cacheVars, epoch, refresh, pc, op, aborted, scamOp, frame, ticket,
          engineVars, accepted, answer>>

Facts == INSTANCE FactCache
            WITH Keys <- {Call}, Sizes <- {1}, Batches <- {}, MaxEntries <- 1, MaxBytes <- 1,
                 MaxSafeInteger <- MaxTime, hit <- NoHit

Planners == Checks \cup Handles
Tasks == Planners \cup Refreshes

Verdicts == {"fail_closed", "unsupported", "evaluated"}
Endings == Verdicts \cup {"rejected", "installed"}
ASSUME NoAnswerAssumption == NoAnswer \notin [task : Tasks, how : Endings]

\* What check() keeps of a plan: the epoch and policy it was planned under, the
\* fact it will submit, and while it is in the engine when it entered, if it
\* reported a failure, and if the plan was there.  The handle is active up to
\* then and consumed from then on.
Blank == [epoch |-> 0, policy |-> 0, fact |-> NoFact,
          at |-> 0, failure |-> FALSE, known |-> FALSE]

Init ==
    /\ disposed = FALSE /\ depth = 0 /\ released = 0
    /\ Facts!Init
    /\ epoch = 0
    /\ refresh = NoRefresh
    /\ pc = [t \in Tasks |-> "idle"]
    /\ op = [t \in Tasks |-> "none"]
    /\ aborted = [t \in Tasks |-> FALSE]
    /\ scamOp = [c \in Checks |-> "none"]
    /\ frame = [c \in Planners |-> Blank]
    /\ ticket = [r \in Refreshes |-> 0]
    /\ plans = {} /\ tickets = 0 /\ expected = 0 /\ installed = 0
    /\ accepted = {}
    /\ answer = NoAnswer

-----------------------------------------------------------------------------
\* No task ends.
GoesOn == answer' = NoAnswer /\ UNCHANGED aborted

\* startOperation: an operation settles once, with its work's value or error,
\* by its timer, by the caller's signal, or by cancel().

Cancelled(o) == IF o = "pending" THEN "error" ELSE o

\* A provider answers.  An answer after the operation settled is dropped.
Answer(t) ==
    /\ depth = 0
    /\ op[t] = "pending"
    /\ \E o \in {"value", "error"} : op' = [op EXCEPT ![t] = o]
    /\ GoesOn
    /\ UNCHANGED <<life, cacheVars, epoch, refresh, pc, scamOp, frame, ticket,
                   engineVars, accepted>>

\* Slip: the timer is not armed.
NoTimeout(t) == FALSE /\ UNCHANGED vars

Timeout(t) ==
    /\ depth = 0
    /\ op[t] = "pending"
    /\ op' = [op EXCEPT ![t] = "error"]
    /\ GoesOn
    /\ UNCHANGED <<life, cacheVars, epoch, refresh, pc, scamOp, frame, ticket,
                   engineVars, accepted>>

\* beginScamOperation: its answer, its deadline or the tightened deadline.  It
\* always resolves; what it resolves to is arbitrary to the rest.
ScamSettles(c) ==
    /\ depth = 0
    /\ scamOp[c] = "pending"
    /\ scamOp' = [scamOp EXCEPT ![c] = "none"]
    /\ GoesOn
    /\ UNCHANGED <<life, cacheVars, epoch, refresh, pc, op, frame, ticket,
                   engineVars, accepted>>

\* The caller aborts the signal it passed.
Abort(t) ==
    /\ ~aborted[t]
    /\ pc[t] \notin {"idle", "done"}
    /\ aborted' = [aborted EXCEPT ![t] = TRUE]
    /\ answer' = NoAnswer
    /\ op' = [op EXCEPT ![t] = Cancelled(@)]
    /\ scamOp' = [c \in Checks |-> IF c = t THEN "none" ELSE scamOp[c]]
    /\ UNCHANGED <<life, cacheVars, epoch, refresh, pc, frame, ticket, engineVars,
                   accepted>>
-----------------------------------------------------------------------------
\* The promise of a task resolves or rejects; its locals are gone.
Ends(t, how) ==
    /\ pc' = [pc EXCEPT ![t] = "done"]
    /\ answer' = [task |-> t, how |-> how]
    /\ op' = [op EXCEPT ![t] = "none"]
    /\ aborted' = [aborted EXCEPT ![t] = FALSE]
    /\ frame' = [c \in Planners |-> IF c = t THEN Blank ELSE frame[c]]

\* check() and evaluate() have their verdict, and #publish tells the host's hooks:
\* until the promise resolves the call is at its verdict.
Publishes(t, verdict) ==
    /\ pc' = [pc EXCEPT ![t] = verdict]
    /\ op' = [op EXCEPT ![t] = "none"]
    /\ frame' = [c \in Planners |-> IF c = t THEN Blank ELSE frame[c]]
    /\ GoesOn

\* The hooks have returned.  Whatever they did to the instance or to the caller's
\* signal, the verdict they were told of is the answer.
Publish(t) ==
    /\ pc[t] \in Verdicts
    /\ Ends(t, pc[t])
    /\ UNCHANGED <<life, cacheVars, epoch, refresh, scamOp, ticket, engineVars, accepted>>

\* The calls of check() up to the pending hook.
StartCheck(c) ==
    /\ pc[c] = "idle"
    /\ IF disposed
       THEN Ends(c, "rejected")
       ELSE pc' = [pc EXCEPT ![c] = "entered"] /\ UNCHANGED <<op, frame>> /\ GoesOn
    /\ UNCHANGED <<life, cacheVars, epoch, refresh, scamOp, ticket, engineVars, accepted>>

\* native.plan: expired plans of others are evicted, then this one is held or
\* refused.  A call from within an evaluation fails before it does anything.
EnginePlans(t) ==
    /\ depth = 0
    /\ \E evicted \in SUBSET plans : plans' = (plans \ evicted) \cup {t}
    /\ UNCHANGED <<tickets, expected, installed>>
EngineRefuses ==
    /\ \E evicted \in SUBSET plans : plans' = plans \ evicted /\ (depth = 0 \/ evicted = {})
    /\ UNCHANGED <<tickets, expected, installed>>

\* The plan, the cache, and what is still to be fetched.
PlanCheck(c) ==
    /\ pc[c] = "entered"
    /\ \/ /\ disposed
          /\ Ends(c, "rejected")
          /\ UNCHANGED <<cacheVars, scamOp, engineVars>>
       \/ \* aborted, a clock that throws, a plan the engine refuses
          /\ ~disposed
          /\ \/ Publishes(c, "fail_closed")
             \/ ~aborted[c] /\ depth = 0 /\ Publishes(c, "unsupported")
          /\ EngineRefuses
          /\ UNCHANGED <<cacheVars, scamOp>>
       \/ /\ ~disposed /\ ~aborted[c]
          /\ EnginePlans(c)
          /\ LET planned == [Blank EXCEPT !.epoch = epoch, !.policy = installed]
             IN  \/ \* the clock throws, before or after the cache is read
                    /\ pc' = [pc EXCEPT ![c] = "failing"]
                    /\ frame' = [frame EXCEPT ![c] = planned]
                    /\ UNCHANGED cacheVars \/ \E now \in Times : Facts!Touch(Call, now)
                    /\ UNCHANGED <<op, scamOp>>
                 \/ /\ \E now \in Times :
                        /\ Facts!Touch(Call, now)
                        /\ IF Facts!Lookup(Call, now) = <<>>
                           THEN /\ op' = [op EXCEPT ![c] = "pending"]
                                /\ pc' = [pc EXCEPT ![c] = "facts"]
                                /\ frame' = [frame EXCEPT ![c] = planned]
                           ELSE /\ pc' = [pc EXCEPT ![c] = "scam"]
                                /\ frame' = [frame EXCEPT ![c] =
                                    [planned EXCEPT !.fact = Facts!Lookup(Call, now)[1].observedAt]]
                                /\ UNCHANGED op
                    /\ \E o \in {"none", "pending"} : scamOp' = [scamOp EXCEPT ![c] = o]
          /\ GoesOn
    /\ UNCHANGED <<life, epoch, refresh, ticket, accepted>>

\* await operation.promise, then merge and copy the batch.  policyReady() may
\* end the advisory operation for lack of time.
ReceiveFacts(c) ==
    /\ depth = 0
    /\ pc[c] = "facts" /\ op[c] \in {"value", "error"}
    /\ \/ /\ disposed
          /\ Ends(c, "rejected")
          /\ UNCHANGED scamOp
       \/ \* an error of the operation, the signal, a batch that cannot be merged
          /\ ~disposed
          /\ pc' = [pc EXCEPT ![c] = "failing"]
          /\ op' = [op EXCEPT ![c] = "none"]
          /\ UNCHANGED <<scamOp, frame>> /\ GoesOn
       \/ /\ ~disposed /\ ~aborted[c] /\ op[c] = "value"
          /\ pc' = [pc EXCEPT ![c] = "scam"]
          /\ op' = [op EXCEPT ![c] = "none"]
          /\ \E f \in Times \cup {NoFact} : frame' = [frame EXCEPT ![c].fact = f]
          /\ \E o \in {scamOp[c], "none"} : scamOp' = [scamOp EXCEPT ![c] = o]
          /\ GoesOn
    /\ UNCHANGED <<life, cacheVars, epoch, refresh, ticket, engineVars, accepted>>

\* #evaluateCheck up to the engine, which takes the plan before anything else.
EnterEngine(c, now, failure) ==
    /\ depth = 0
    /\ depth' = 1
    /\ pc' = [pc EXCEPT ![c] = "engine"]
    /\ frame' = [frame EXCEPT ![c].at = now, ![c].failure = failure,
                              ![c].known = c \in plans]
    /\ plans' = plans \ {c}
    /\ UNCHANGED <<tickets, expected, installed>>

\* await scamOperation.promise, then the clock and the evaluation.
EvaluateCheck(c) ==
    /\ depth = 0
    /\ pc[c] = "scam" /\ scamOp[c] # "pending"
    /\ \/ /\ disposed
          /\ Ends(c, "rejected")
          /\ UNCHANGED <<depth, engineVars>>
       \/ /\ ~disposed
          /\ pc' = [pc EXCEPT ![c] = "failing"]
          /\ UNCHANGED <<depth, op, frame, engineVars>> /\ GoesOn
       \/ /\ ~disposed /\ ~aborted[c]
          /\ \E now \in Times : EnterEngine(c, now, FALSE)
          /\ UNCHANGED op /\ GoesOn
    /\ UNCHANGED <<disposed, released, cacheVars, epoch, refresh, scamOp, ticket, accepted>>

\* Slips: the catch block answers without ending the engine's plan; it throws the
\* error on.
FailCheckHere(c) ==
    /\ depth = 0
    /\ pc[c] = "failing"
    /\ scamOp' = [scamOp EXCEPT ![c] = "none"]
    /\ IF disposed THEN Ends(c, "rejected") ELSE Publishes(c, "fail_closed")
    /\ UNCHANGED <<life, cacheVars, epoch, refresh, ticket, engineVars, accepted>>
FailCheckRejects(c) ==
    /\ depth = 0
    /\ pc[c] = "failing"
    /\ scamOp' = [scamOp EXCEPT ![c] = "none"]
    /\ Ends(c, "rejected")
    /\ plans' = plans \ {c}
    /\ UNCHANGED <<life, cacheVars, epoch, refresh, ticket, tickets, expected, installed, accepted>>

\* The catch block of check() while the handle is active: the engine ends the
\* plan and gives the verdict.  A clock that throws is replaced by createdAt.
FailCheck(c) ==
    /\ depth = 0
    /\ pc[c] = "failing"
    /\ scamOp' = [scamOp EXCEPT ![c] = "none"]
    /\ IF disposed
       THEN Ends(c, "rejected") /\ UNCHANGED <<depth, engineVars>>
       ELSE (\E now \in Times : EnterEngine(c, now, TRUE)) /\ UNCHANGED op /\ GoesOn
    /\ UNCHANGED <<disposed, released, cacheVars, epoch, refresh, ticket, accepted>>

\* What the engine can have judged: a plan it held, no reported failure, and a
\* fact that was valid when it read the clock again.
Evaluated(c) ==
    /\ frame[c].known /\ ~frame[c].failure
    /\ frame[c].fact # NoFact
    /\ \E later \in frame[c].at .. MaxTime : Facts!Fresh(frame[c].fact, later)

\* Slip: the cache takes facts of a check planned before the last refresh.
CacheableAnyEpoch(c) == TRUE

\* The condition on which check() keeps the facts of an evaluated verdict.
Cacheable(c) == frame[c].epoch = epoch

Response(f) == [key |-> Call, observedAt |-> f, bytes |-> 1, kind |-> "storable"]

\* finally: a disposal during the evaluation is completed.
ReleaseAfterEngine == released' = IF disposed THEN released + 1 ELSE released

\* Slip: only the signal before the evaluation counts.
AbortIgnored(c) == FALSE

\* The signal may have been aborted by the clock callback.
AbortedInEngine(c) == aborted[c]

\* The engine returns: #nativeEvaluation, then the rest of check() up to #publish.
LeaveCheck(c) ==
    /\ pc[c] = "engine"
    /\ depth' = 0
    /\ ReleaseAfterEngine
    /\ \/ /\ disposed
          /\ Ends(c, "rejected")
          /\ UNCHANGED <<cacheVars, accepted>>
       \/ /\ ~disposed
          /\ Publishes(c, "fail_closed")
          /\ UNCHANGED <<cacheVars, accepted>>
       \/ /\ ~disposed /\ ~AbortedInEngine(c)
          /\ Evaluated(c)
          /\ Publishes(c, "evaluated")
          /\ accepted' = IF frame[c].policy = installed THEN accepted \cup {frame[c].fact}
                         ELSE accepted
          /\ IF Cacheable(c)
             THEN Facts!Put(<<Response(frame[c].fact)>>, TRUE, frame[c].at)
             ELSE UNCHANGED cacheVars
    /\ UNCHANGED <<disposed, epoch, refresh, scamOp, ticket, engineVars>>
-----------------------------------------------------------------------------
\* plan(): the host keeps the handle.
HostPlan(h) ==
    /\ pc[h] = "idle"
    /\ \/ Ends(h, "rejected") /\ EngineRefuses
       \/ /\ ~disposed
          /\ EnginePlans(h)
          /\ pc' = [pc EXCEPT ![h] = "held"]
          /\ UNCHANGED <<op, frame>> /\ GoesOn
    /\ UNCHANGED <<life, cacheVars, epoch, refresh, scamOp, ticket, accepted>>

\* evaluate(): throws for a disposed instance, an expired plan or a clock that
\* fails, and leaves the engine's plan to its expiry.
HostEvaluate(h) ==
    /\ pc[h] = "held"
    /\ \/ Ends(h, "rejected") /\ UNCHANGED <<depth, engineVars>>
       \/ /\ ~disposed
          /\ \E now \in Times : EnterEngine(h, now, FALSE)
          /\ UNCHANGED op /\ GoesOn
    /\ UNCHANGED <<disposed, released, cacheVars, epoch, refresh, scamOp, ticket, accepted>>

LeaveHandle(h) ==
    /\ pc[h] = "engine"
    /\ depth' = 0
    /\ ReleaseAfterEngine
    /\ IF disposed \/ ~frame[h].known THEN Ends(h, "rejected")
       ELSE \E verdict \in {"evaluated", "fail_closed"} : Publishes(h, verdict)
    /\ UNCHANGED <<disposed, cacheVars, epoch, refresh, scamOp, ticket, engineVars, accepted>>
-----------------------------------------------------------------------------
\* refreshPolicies() up to its await: the engine's ticket, and the operation
\* that takes the place of the one before.
StartRefresh(r) ==
    /\ pc[r] = "idle"
    /\ \/ \* disposed, aborted, or refused by the engine
          /\ Ends(r, "rejected")
          /\ UNCHANGED <<refresh, ticket, engineVars>>
       \/ /\ ~disposed /\ depth = 0
          /\ tickets' = tickets + 1
          /\ expected' = tickets + 1
          /\ ticket' = [ticket EXCEPT ![r] = tickets + 1]
          /\ refresh' = r
          /\ op' = [t \in Tasks |-> IF t = r THEN "pending"
                                   ELSE IF t = refresh THEN Cancelled(op[t]) ELSE op[t]]
          /\ pc' = [pc EXCEPT ![r] = "fetching"]
          /\ UNCHANGED <<frame, plans, installed>> /\ GoesOn
    /\ UNCHANGED <<life, cacheVars, epoch, scamOp, accepted>>

\* Slip: the engine commits whatever refresh comes.
EngineExpectsAny(r) == TRUE
EngineExpects(r) == expected = ticket[r]

\* await operation.promise, then the commit; finally the ticket is cancelled,
\* which only ends this refresh's own attempt.
FinishRefresh(r) ==
    /\ depth = 0
    /\ pc[r] = "fetching" /\ op[r] \in {"value", "error"}
    /\ \/ /\ op[r] = "value" /\ ~disposed /\ ~aborted[r]
          /\ EngineExpects(r)
          /\ installed' = installed + 1
          /\ epoch' = epoch + 1
          /\ Facts!Clear
          /\ accepted' = {}
          /\ Ends(r, "installed")
       \/ /\ Ends(r, "rejected")
          /\ UNCHANGED <<cacheVars, epoch, installed, accepted>>
    /\ refresh' = IF refresh = r THEN NoRefresh ELSE refresh
    /\ expected' = IF ~disposed /\ expected = ticket[r] THEN 0 ELSE expected
    /\ ticket' = [ticket EXCEPT ![r] = 0]
    /\ UNCHANGED <<life, scamOp, plans, tickets>>

\* Slips: the engine is released under a running evaluation; the operations of
\* checks are left to their timers.
DisposeReleases ==
    /\ ~disposed
    /\ disposed' = TRUE
    /\ op' = [t \in Tasks |-> IF t \in Checks \cup {refresh} THEN Cancelled(op[t]) ELSE op[t]]
    /\ scamOp' = [c \in Checks |-> "none"]
    /\ refresh' = NoRefresh
    /\ Facts!Clear
    /\ released' = released + 1
    /\ GoesOn
    /\ UNCHANGED <<depth, epoch, pc, frame, ticket, engineVars, accepted>>
DisposeRefreshOnly ==
    /\ ~disposed
    /\ disposed' = TRUE
    /\ op' = [t \in Tasks |-> IF t = refresh THEN Cancelled(op[t]) ELSE op[t]]
    /\ refresh' = NoRefresh
    /\ Facts!Clear
    /\ released' = IF depth = 0 THEN released + 1 ELSE released
    /\ GoesOn
    /\ UNCHANGED <<depth, epoch, pc, scamOp, frame, ticket, engineVars, accepted>>

\* dispose(): #checks holds the pending operations of checks.
Dispose ==
    /\ ~disposed
    /\ disposed' = TRUE
    /\ op' = [t \in Tasks |-> IF t \in Checks \cup {refresh} THEN Cancelled(op[t]) ELSE op[t]]
    /\ scamOp' = [c \in Checks |-> "none"]
    /\ refresh' = NoRefresh
    /\ Facts!Clear
    /\ released' = IF depth = 0 THEN released + 1 ELSE released
    /\ GoesOn
    /\ UNCHANGED <<depth, epoch, pc, frame, ticket, engineVars, accepted>>

Next ==
    \/ \E t \in Checks \cup Refreshes : Answer(t) \/ Timeout(t) \/ Abort(t)
    \/ \E c \in Checks : \/ StartCheck(c) \/ PlanCheck(c) \/ ReceiveFacts(c) \/ ScamSettles(c)
                         \/ EvaluateCheck(c) \/ FailCheck(c) \/ LeaveCheck(c)
    \/ \E h \in Handles : HostPlan(h) \/ HostEvaluate(h) \/ LeaveHandle(h)
    \/ \E t \in Planners : Publish(t)
    \/ \E r \in Refreshes : StartRefresh(r) \/ FinishRefresh(r)
    \/ Dispose

\* The event loop runs what has settled, timers fire, the engine and hooks return.
\* Nothing else is assumed of providers, callers and the host.
Fairness ==
    /\ \A t \in Checks \cup Refreshes : WF_vars(Timeout(t))
    /\ \A c \in Checks : /\ WF_vars(ScamSettles(c))
                         /\ WF_vars(\/ PlanCheck(c) \/ ReceiveFacts(c) \/ EvaluateCheck(c)
                                    \/ FailCheck(c) \/ LeaveCheck(c) \/ Publish(c))
    /\ \A h \in Handles : WF_vars(LeaveHandle(h) \/ Publish(h))
    /\ \A r \in Refreshes : WF_vars(FinishRefresh(r))

Spec == Init /\ [][Next]_vars
FairSpec == Spec /\ Fairness
-----------------------------------------------------------------------------
\* The engine is released exactly once after dispose(), and never while one of
\* its evaluations is on the stack and a clock callback disposed the instance.
ReleasedOnce == released = IF disposed /\ depth = 0 THEN 1 ELSE 0

\* dispose() leaves nothing that would keep the instance busy: no cached fact,
\* no refresh, no operation whose provider is still expected to answer.
NothingAfterDispose ==
    disposed => /\ entries = <<>>
                /\ refresh = NoRefresh
                /\ \A t \in Tasks : op[t] # "pending"
                /\ \A c \in Checks : scamOp[c] # "pending"

\* However a check ends, and before the hooks are told of its verdict, the live
\* engine holds no plan of it: failures after planning end the plan, and do not
\* leave it to fill maxPendingPlans; and its advisory operation has ended.  An
\* operation is there only while a call awaits it, also when cancel() meets one
\* that has settled.
NothingLeftBehind ==
    /\ \A c \in Checks :
          pc[c] \in Verdicts \cup {"done"} => scamOp[c] # "pending" /\ (~disposed => c \notin plans)
    /\ \A t \in Tasks : op[t] # "none" => pc[t] \in {"facts", "fetching"}

\* Every cached fact was part of a verdict evaluated under the policy installed
\* now, although refreshes commit while checks are in flight.
CachedUnderInstalledPolicy ==
    \A i \in DOMAIN entries : entries[i].observedAt \in accepted

\* A check that has begun and whose verdict is not yet decided.
Deciding(c) == pc[c] \notin {"idle", "done"} \cup Verdicts

\* A check that is interrupted before its verdict is decided, by its caller's abort
\* or by dispose(), wherever it stands and whatever it waits for, the clock callback
\* inside the engine included, can only reject or fail closed: no later step makes
\* it answer with what the engine found.  An abort or a dispose() from a hook that
\* is being told of the verdict (#publish, core-runtime.ts:595) comes too late.
InterruptionHonoured ==
    \A c \in Checks :
        [](Deciding(c) /\ (aborted[c] \/ disposed) =>
             [](answer \notin [task : {c}, how : {"evaluated", "unsupported"}]))

\* check() answers a live instance with a verdict, whatever fails underneath.
OnlyDisposalRejects ==
    [][\A c \in Checks : answer' = [task |-> c, how |-> "rejected"] => disposed]_vars

\* Only the refresh begun last installs a policy, also when an older one had
\* its bundle before it was superseded.
LatestRefreshInstalls ==
    [][\A r \in Refreshes : answer' = [task |-> r, how |-> "installed"] => ticket[r] = tickets]_vars

\* Every check and every refresh ends, though providers may never answer
\* (startOperation, io.ts:75).
CallsEnd ==
    /\ \A c \in Checks : pc[c] = "entered" ~> pc[c] = "done"
    /\ \A r \in Refreshes : pc[r] = "fetching" ~> pc[r] = "done"
=============================================================================
