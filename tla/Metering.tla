------------------------------ MODULE Metering ------------------------------
(***************************************************************************)
(* The review allowance of one user account: the users row (plan and       *)
(* free_review_used), the usage_events of the current month, plan_history, *)
(* and the handlers that read and write them.                              *)
(*                                                                         *)
(* Handlers run in server threads and share nothing but the database,      *)
(* which commits each transaction at READ COMMITTED; no handler locks a    *)
(* row it has read.  One step of the model is a read or a commit, so any   *)
(* other thread's commits may fall between them.  A flush writes only the  *)
(* columns whose value differs from the one loaded, as the ORM does.       *)
(***************************************************************************)
EXTENDS Integers, Sequences, FiniteSets

CONSTANTS
    Requests,       \* the server threads, each handling one call at a time
    MonthlyQuota,   \* reviews_month of each plan that has one
    MaxCalls        \* bound: calls started, per behaviour

MeteredPlans == {"pro", "scale"}

\* "enterprise" stands for every plan name that has no entry with a quota
Plans == {"free", "paygo", "enterprise"} \cup MeteredPlans

ASSUME RequestsAssumption == IsFiniteSet(Requests) /\ Requests # {}

ASSUME QuotaAssumption == MonthlyQuota \in [MeteredPlans -> Nat \ {0}]

ASSUME MaxCallsAssumption == MaxCalls \in Nat

VARIABLES
    account,    \* the users row: [plan, freeUsed]
    usage,      \* review_started rows of the current month
    history,    \* plan_history rows, oldest first: [old, new]
    pc,         \* what each thread is about to do
    row,        \* the users row as each thread last loaded it
    target,     \* the plan a thread is setting
    oldPlan,    \* the plan a cancellation read before it reloaded the row
    calls,      \* calls started (bounded by MaxCalls)
    freeGrants, \* observation: free reviews granted
    planStarts, \* observation: reviews granted on a monthly quota this month
    resets      \* observation: cancellations committed

db == <<account, usage, history>>
locals == <<pc, row, target, oldPlan>>
observed == <<freeGrants, planStarts, resets>>
meterVars == <<account, usage, history, pc, row, target, oldPlan, calls,
               freeGrants, planStarts, resets>>

AccountRow == [plan : Plans, freeUsed : BOOLEAN]

PCs == {"idle", "loaded", "grant_free", "flag_loaded", "flag_set", "grant_plan",
        "cancel_checked", "cancel_loaded", "set_loaded"}

MeterTypeOK ==
    /\ account \in AccountRow
    /\ usage \in Nat
    /\ history \in Seq([old : Plans, new : Plans])
    /\ pc \in [Requests -> PCs]
    /\ row \in [Requests -> AccountRow]
    /\ target \in [Requests -> Plans]
    /\ oldPlan \in [Requests -> Plans]
    /\ calls \in Nat
    /\ freeGrants \in Nat
    /\ planStarts \in Nat
    /\ resets \in Nat

NewAccount == [plan |-> "free", freeUsed |-> FALSE]

MeterInit ==
    /\ account = NewAccount
    /\ usage = 0
    /\ history = <<>>
    /\ pc = [r \in Requests |-> "idle"]
    /\ row = [r \in Requests |-> NewAccount]
    /\ target = [r \in Requests |-> "free"]
    /\ oldPlan = [r \in Requests |-> "free"]
    /\ calls = 0
    /\ freeGrants = 0
    /\ planStarts = 0
    /\ resets = 0

(***************************************************************************)
(* authorize_review: load the row, count the month's usage and decide,     *)
(* then commit.                                                            *)
(***************************************************************************)
AuthorizeLoad(r) ==
    /\ pc[r] = "idle"
    /\ calls < MaxCalls
    /\ calls' = calls + 1
    /\ row' = [row EXCEPT ![r] = account]
    /\ pc' = [pc EXCEPT ![r] = "loaded"]
    /\ UNCHANGED <<db, target, oldPlan, observed>>

\* (mutant) the free plan is granted without looking at the flag
FreeReviewLeftUnflagged(r) == row[r].plan = "free"

\* (mutant) the quota compared with > instead of >=
QuotaLeftOffByOne(r) ==
    /\ row[r].plan \in MeteredPlans
    /\ usage <= MonthlyQuota[row[r].plan]

\* plans.authorize, on the row this thread loaded and the usage counted now
FreeReviewLeft(r) == row[r].plan = "free" /\ ~row[r].freeUsed

QuotaLeft(r) ==
    /\ row[r].plan \in MeteredPlans
    /\ usage < MonthlyQuota[row[r].plan]

Decide(r) ==
    /\ pc[r] = "loaded"
    /\ pc' = [pc EXCEPT ![r] =
                IF FreeReviewLeft(r) THEN "grant_free"
                ELSE IF QuotaLeft(r) THEN "grant_plan"
                ELSE "idle"]    \* PaywallError, or a paygo grant: nothing written
    /\ UNCHANGED <<db, row, target, oldPlan, calls, observed>>

\* a free review loads the row again to set the flag, and commits that first ...
FlagLoad(r) ==
    /\ pc[r] = "grant_free"
    /\ row' = [row EXCEPT ![r] = account]
    /\ pc' = [pc EXCEPT ![r] = "flag_loaded"]
    /\ UNCHANGED <<db, target, oldPlan, calls, observed>>

CommitFreeFlag(r) ==
    /\ pc[r] = "flag_loaded"
    /\ account' = [account EXCEPT !.freeUsed = IF row[r].freeUsed THEN @ ELSE TRUE]
    /\ pc' = [pc EXCEPT ![r] = "flag_set"]
    /\ UNCHANGED <<usage, history, row, target, oldPlan, calls, observed>>

\* (mutant) the review is taken off the count
RecordFreeUsageDown(r) ==
    /\ pc[r] = "flag_set"
    /\ usage' = usage - 1
    /\ freeGrants' = freeGrants + 1
    /\ pc' = [pc EXCEPT ![r] = "idle"]
    /\ UNCHANGED <<account, history, row, target, oldPlan, calls, planStarts, resets>>

\* ... and the usage row in a second transaction
RecordFreeUsage(r) ==
    /\ pc[r] = "flag_set"
    /\ usage' = usage + 1
    /\ freeGrants' = freeGrants + 1
    /\ pc' = [pc EXCEPT ![r] = "idle"]
    /\ UNCHANGED <<account, history, row, target, oldPlan, calls, planStarts, resets>>

RecordPlanUsage(r) ==
    /\ pc[r] = "grant_plan"
    /\ usage' = usage + 1
    /\ planStarts' = planStarts + 1
    /\ pc' = [pc EXCEPT ![r] = "idle"]
    /\ UNCHANGED <<account, history, row, target, oldPlan, calls, freeGrants, resets>>

(***************************************************************************)
(* cancel_subscription: read the plan and refuse a free account, load the  *)
(* row again to change it, commit row and history together.                *)
(***************************************************************************)
CancelCheck(r) ==
    /\ pc[r] = "idle"
    /\ calls < MaxCalls
    /\ account.plan # "free"
    /\ calls' = calls + 1
    /\ oldPlan' = [oldPlan EXCEPT ![r] = account.plan]
    /\ pc' = [pc EXCEPT ![r] = "cancel_checked"]
    /\ UNCHANGED <<db, row, target, observed>>

CancelLoad(r) ==
    /\ pc[r] = "cancel_checked"
    /\ row' = [row EXCEPT ![r] = account]
    /\ pc' = [pc EXCEPT ![r] = "cancel_loaded"]
    /\ UNCHANGED <<db, target, oldPlan, calls, observed>>

CancelCommit(r) ==
    /\ pc[r] = "cancel_loaded"
    /\ account' = [plan     |-> IF row[r].plan # "free" THEN "free" ELSE account.plan,
                   freeUsed |-> IF row[r].freeUsed THEN FALSE ELSE account.freeUsed]
    /\ history' = Append(history, [old |-> oldPlan[r], new |-> "free"])
    /\ resets' = resets + 1
    /\ pc' = [pc EXCEPT ![r] = "idle"]
    /\ UNCHANGED <<usage, row, target, oldPlan, calls, freeGrants, planStarts>>

(***************************************************************************)
(* set_user_plan, reached from the subscription webhooks and from the      *)
(* admin console: load the row, commit row and history together.           *)
(***************************************************************************)
SetPlanLoad(r, p) ==
    /\ pc[r] = "idle"
    /\ calls < MaxCalls
    /\ calls' = calls + 1
    /\ row' = [row EXCEPT ![r] = account]
    /\ target' = [target EXCEPT ![r] = p]
    /\ pc' = [pc EXCEPT ![r] = "set_loaded"]
    /\ UNCHANGED <<db, oldPlan, observed>>

\* (mutant) the whole row is written back, the stale flag with it
SetPlanCommitWholeRow(r) ==
    /\ pc[r] = "set_loaded"
    /\ account' = [plan |-> target[r], freeUsed |-> row[r].freeUsed]
    /\ history' = Append(history, [old |-> row[r].plan, new |-> target[r]])
    /\ pc' = [pc EXCEPT ![r] = "idle"]
    /\ UNCHANGED <<usage, row, target, oldPlan, calls, observed>>

SetPlanCommit(r) ==
    /\ pc[r] = "set_loaded"
    /\ account' = [account EXCEPT
                     !.plan = IF target[r] # row[r].plan THEN target[r] ELSE @]
    /\ history' = Append(history, [old |-> row[r].plan, new |-> target[r]])
    /\ pc' = [pc EXCEPT ![r] = "idle"]
    /\ UNCHANGED <<usage, row, target, oldPlan, calls, observed>>

(***************************************************************************)
(* The calendar and the process.                                           *)
(***************************************************************************)

\* _month_reviews counts from the first of the month
NewMonth ==
    /\ usage # 0
    /\ usage' = 0
    /\ planStarts' = 0
    /\ UNCHANGED <<account, history, locals, calls, freeGrants, resets>>

\* the server dies and comes back: every call in progress is lost
Crash ==
    /\ \E r \in Requests : pc[r] # "idle"
    /\ pc' = [r \in Requests |-> "idle"]
    /\ UNCHANGED <<db, row, target, oldPlan, calls, observed>>

MeterNext ==
    \/ \E r \in Requests :
        \/ AuthorizeLoad(r)
        \/ Decide(r)
        \/ FlagLoad(r)
        \/ CommitFreeFlag(r)
        \/ RecordFreeUsage(r)
        \/ RecordPlanUsage(r)
        \/ CancelCheck(r)
        \/ CancelLoad(r)
        \/ CancelCommit(r)
        \/ \E p \in Plans : SetPlanLoad(r, p)
        \/ SetPlanCommit(r)
    \/ NewMonth
    \/ Crash

MeterSpec == MeterInit /\ [][MeterNext]_meterVars

-----------------------------------------------------------------------------
(***************************************************************************)
(* Safety.                                                                 *)
(***************************************************************************)
LargestQuota ==
    IF MonthlyQuota["pro"] > MonthlyQuota["scale"] THEN MonthlyQuota["pro"]
                                                   ELSE MonthlyQuota["scale"]

\* The month's quota is counted and spent in two steps with no lock between
\* them, so threads that counted together all start a review; what the code
\* still guarantees is that the overshoot is one less than the threads that
\* can be between the count and the usage row.
QuotaOvershootBounded ==
    planStarts <= LargestQuota - 1 + Cardinality(Requests)

\* The free-review flag is read and set without a lock, and a cancellation
\* clears it: the free reviews of one account are at most one for each thread
\* since it was created, and one more for each thread per cancellation.
FreeReviewsBounded ==
    freeGrants <= (1 + resets) * Cardinality(Requests)

\* Once a free review is on record and nobody has cancelled since, the flag is
\* spent: no interleaving of authorisations and plan changes gives it back.
FreeFlagSticks ==
    (freeGrants > 0 /\ resets = 0) => account.freeUsed

\* Every commit that changes the plan appends, in the same transaction, one
\* plan_history row that names the new plan: the update of a stale row is
\* never a change the history does not show.
PlanChangeRecorded ==
    [][account'.plan # account.plan =>
         /\ Len(history') = Len(history) + 1
         /\ history'[Len(history')].new = account'.plan]_meterVars
=============================================================================
