---------------------------- MODULE Billing_proofs ----------------------------
(***************************************************************************)
(* Proofs about the billing side of an account, for every number of        *)
(* threads, checkouts and providers, every quota, coupon and seat limit.   *)
(*                                                                         *)
(* Metering: type correctness, the bounds on the quota's overshoot and on  *)
(* the free reviews, the free-review flag, the recording of plan changes.  *)
(*                                                                         *)
(* Payments: the webhooks implement PaymentLedger, nothing but a project is *)
(* activated unpaid, each transfer has one invoice, the coupon's count is  *)
(* within its limit.                                                       *)
(*                                                                         *)
(* Seats: the types, with the uses of an invitation, and the bound on the  *)
(* members and invitations beyond the limit of the plan.                   *)
(***************************************************************************)
EXTENDS Metering, Payments, Seats, FiniteSetTheorems, TLAPS

-----------------------------------------------------------------------------
(***************************************************************************)
(* METERING                                                                *)
(***************************************************************************)
N == Cardinality(Requests)

\* Threads whose plan grant is decided but not yet on record.
Counted == {r \in Requests : pc[r] = "grant_plan"}

\* Threads that are sure to record a free review, unless the server dies.
FreeInFlight ==
    {r \in Requests :
        \/ pc[r] \in {"grant_free", "flag_loaded", "flag_set"}
        \/ pc[r] = "loaded" /\ FreeReviewLeft(r)}

\* Threads that record a free review and will not set the flag any more.
FlagBehind ==
    {r \in Requests :
        \/ pc[r] = "flag_set"
        \/ pc[r] = "flag_loaded" /\ row[r].freeUsed}

QuotaInv ==
    /\ planStarts <= usage
    /\ planStarts + Cardinality(Counted) <= LargestQuota - 1 + N

FreeInv ==
    /\ freeGrants + Cardinality(FreeInFlight) <= (1 + resets) * N
    /\ ~account.freeUsed => freeGrants + Cardinality(FlagBehind) <= resets * N

-----------------------------------------------------------------------------
(***************************************************************************)
(* Types.                                                                  *)
(***************************************************************************)

\* Every reachable state is well typed.
THEOREM MeterTypes == MeterSpec => []MeterTypeOK
<1>1. MeterInit => MeterTypeOK
  BY DEF MeterInit, MeterTypeOK, AccountRow, NewAccount, PCs, Plans, MeteredPlans
<1>2. MeterTypeOK /\ [MeterNext]_meterVars => MeterTypeOK'
  <2> SUFFICES ASSUME MeterTypeOK, [MeterNext]_meterVars PROVE MeterTypeOK'
    OBVIOUS
  <2> USE DEF MeterTypeOK, AccountRow, PCs, db, locals, observed
  <2>0. "free" \in Plans
    BY DEF Plans
  <2>1. ASSUME NEW r \in Requests, AuthorizeLoad(r) PROVE MeterTypeOK'
    BY <2>1 DEF AuthorizeLoad
  <2>2. ASSUME NEW r \in Requests, Decide(r) PROVE MeterTypeOK'
    BY <2>2 DEF Decide
  <2>3. ASSUME NEW r \in Requests, FlagLoad(r) PROVE MeterTypeOK'
    BY <2>3 DEF FlagLoad
  <2>4. ASSUME NEW r \in Requests, CommitFreeFlag(r) PROVE MeterTypeOK'
    BY <2>4 DEF CommitFreeFlag
  <2>5. ASSUME NEW r \in Requests, RecordFreeUsage(r) PROVE MeterTypeOK'
    BY <2>5 DEF RecordFreeUsage
  <2>6. ASSUME NEW r \in Requests, RecordPlanUsage(r) PROVE MeterTypeOK'
    BY <2>6 DEF RecordPlanUsage
  <2>7. ASSUME NEW r \in Requests, CancelCheck(r) PROVE MeterTypeOK'
    BY <2>7 DEF CancelCheck
  <2>8. ASSUME NEW r \in Requests, CancelLoad(r) PROVE MeterTypeOK'
    BY <2>8 DEF CancelLoad
  <2>9. ASSUME NEW r \in Requests, CancelCommit(r) PROVE MeterTypeOK'
    <3>1. (IF row[r].plan # "free" THEN "free" ELSE account.plan) \in Plans
      BY <2>0
    <3>2. CASE row[r].freeUsed
      BY <3>1, <3>2, <2>9 DEF CancelCommit
    <3>3. CASE ~row[r].freeUsed
      BY <3>1, <3>3, <2>9 DEF CancelCommit
    <3> QED
      BY <3>2, <3>3
  <2>10. ASSUME NEW r \in Requests, NEW p \in Plans, SetPlanLoad(r, p) PROVE MeterTypeOK'
    BY <2>10 DEF SetPlanLoad
  <2>11. ASSUME NEW r \in Requests, SetPlanCommit(r) PROVE MeterTypeOK'
    BY <2>11 DEF SetPlanCommit
  <2>12. CASE NewMonth
    BY <2>12 DEF NewMonth
  <2>13. CASE Crash
    BY <2>13 DEF Crash
  <2>14. CASE UNCHANGED meterVars
    BY <2>14 DEF meterVars
  <2> QED
    BY <2>1, <2>2, <2>3, <2>4, <2>5, <2>6, <2>7, <2>8, <2>9, <2>10, <2>11,
       <2>12, <2>13, <2>14 DEF MeterNext
<1> QED
  BY <1>1, <1>2, PTL DEF MeterSpec

-----------------------------------------------------------------------------
(***************************************************************************)
(* Counting threads.                                                       *)
(***************************************************************************)
LEMMA ThreadSets ==
  /\ N \in Nat /\ N >= 1
  /\ \A S \in SUBSET Requests :
       IsFiniteSet(S) /\ Cardinality(S) \in Nat /\ Cardinality(S) <= N
<1>1. IsFiniteSet(Requests) /\ Requests # {}
  BY RequestsAssumption
<1>2. N \in Nat /\ N # 0
  BY <1>1, FS_CardinalityType, FS_EmptySet DEF N
<1>3. ASSUME NEW S \in SUBSET Requests
      PROVE  IsFiniteSet(S) /\ Cardinality(S) \in Nat /\ Cardinality(S) <= N
  BY <1>1, <1>3, FS_Subset, FS_CardinalityType DEF N
<1> QED
  BY <1>2, <1>3

LEMMA OneMoreThread ==
  ASSUME NEW S \in SUBSET Requests, NEW T, NEW r \in Requests,
         r \notin S, T = S \cup {r}
  PROVE  Cardinality(T) = Cardinality(S) + 1
BY ThreadSets, FS_AddElement

LEMMA OneThreadLess ==
  ASSUME NEW S \in SUBSET Requests, NEW T, NEW r \in Requests,
         r \in S, T = S \ {r}
  PROVE  Cardinality(T) = Cardinality(S) - 1
BY ThreadSets, FS_RemoveElement

LEMMA Multiples ==
  ASSUME NEW k \in Nat
  PROVE  k * N \in Nat /\ (1 + k) * N = k * N + N /\ (k + 1) * N = k * N + N
BY ThreadSets

LEMMA QuotaType ==
  /\ LargestQuota \in Nat \ {0}
  /\ \A p \in MeteredPlans : MonthlyQuota[p] \in Nat /\ MonthlyQuota[p] <= LargestQuota
BY QuotaAssumption DEF LargestQuota, MeteredPlans

-----------------------------------------------------------------------------
(***************************************************************************)
(* The monthly quota.  The count a decision is based on may be stale only  *)
(* by the grants other threads have decided and not recorded.              *)
(***************************************************************************)
LEMMA QuotaInvInductive == MeterTypeOK /\ QuotaInv /\ [MeterNext]_meterVars => QuotaInv'
<1> SUFFICES ASSUME MeterTypeOK, QuotaInv, [MeterNext]_meterVars PROVE QuotaInv'
  OBVIOUS
<1> USE DEF QuotaInv, db, locals, observed
<1>0. Counted \in SUBSET Requests /\ Counted' \in SUBSET Requests
  BY DEF Counted
<1>t. planStarts \in Nat /\ usage \in Nat
  BY DEF MeterTypeOK
<1>1. ASSUME Counted' = Counted, planStarts' = planStarts,
             usage' = usage \/ usage' = usage + 1
      PROVE  QuotaInv'
  BY <1>1, <1>t
<1>2. ASSUME NEW r \in Requests, AuthorizeLoad(r) PROVE QuotaInv'
  BY <1>2, <1>1 DEF AuthorizeLoad, Counted, MeterTypeOK
<1>3. ASSUME NEW r \in Requests, Decide(r) PROVE QuotaInv'
  <2>1. CASE ~FreeReviewLeft(r) /\ QuotaLeft(r)
    <3>1. Counted' = Counted \cup {r} /\ r \notin Counted
      BY <1>3, <2>1 DEF Decide, Counted, MeterTypeOK
    <3>2. planStarts <= LargestQuota - 1
      BY <2>1, <1>t, QuotaType DEF QuotaLeft
    <3>3. Cardinality(Counted') \in Nat /\ Cardinality(Counted') <= N
      BY <1>0, ThreadSets
    <3> QED
      BY <3>2, <3>3, <1>3, <1>t, QuotaType, ThreadSets DEF Decide
  <2>2. CASE ~(~FreeReviewLeft(r) /\ QuotaLeft(r))
    <3>1. Counted' = Counted
      BY <1>3, <2>2 DEF Decide, Counted, MeterTypeOK
    <3> QED
      BY <3>1, <1>3, <1>1 DEF Decide
  <2> QED
    BY <2>1, <2>2
<1>4. ASSUME NEW r \in Requests, FlagLoad(r) PROVE QuotaInv'
  BY <1>4, <1>1 DEF FlagLoad, Counted, MeterTypeOK
<1>5. ASSUME NEW r \in Requests, CommitFreeFlag(r) PROVE QuotaInv'
  BY <1>5, <1>1 DEF CommitFreeFlag, Counted, MeterTypeOK
<1>6. ASSUME NEW r \in Requests, RecordFreeUsage(r) PROVE QuotaInv'
  BY <1>6, <1>1 DEF RecordFreeUsage, Counted, MeterTypeOK
<1>7. ASSUME NEW r \in Requests, RecordPlanUsage(r) PROVE QuotaInv'
  <2>1. Counted' = Counted \ {r} /\ r \in Counted
    BY <1>7 DEF RecordPlanUsage, Counted, MeterTypeOK
  <2>2. Cardinality(Counted') = Cardinality(Counted) - 1
    BY <2>1, <1>0, OneThreadLess
  <2>3. Cardinality(Counted) \in Nat
    BY <1>0, ThreadSets
  <2> QED
    BY <2>2, <2>3, <1>7, <1>t, QuotaType, ThreadSets DEF RecordPlanUsage
<1>8. ASSUME NEW r \in Requests, CancelCheck(r) PROVE QuotaInv'
  BY <1>8, <1>1 DEF CancelCheck, Counted, MeterTypeOK
<1>9. ASSUME NEW r \in Requests, CancelLoad(r) PROVE QuotaInv'
  BY <1>9, <1>1 DEF CancelLoad, Counted, MeterTypeOK
<1>10. ASSUME NEW r \in Requests, CancelCommit(r) PROVE QuotaInv'
  BY <1>10, <1>1 DEF CancelCommit, Counted, MeterTypeOK
<1>11. ASSUME NEW r \in Requests, NEW p \in Plans, SetPlanLoad(r, p) PROVE QuotaInv'
  BY <1>11, <1>1 DEF SetPlanLoad, Counted, MeterTypeOK
<1>12. ASSUME NEW r \in Requests, SetPlanCommit(r) PROVE QuotaInv'
  BY <1>12, <1>1 DEF SetPlanCommit, Counted, MeterTypeOK
<1>13. CASE NewMonth
  <2>1. Counted' = Counted /\ planStarts' = 0 /\ usage' = 0
    BY <1>13 DEF NewMonth, Counted
  <2>2. Cardinality(Counted) \in Nat /\ Cardinality(Counted) <= N
    BY <1>0, ThreadSets
  <2> QED
    BY <2>1, <2>2, QuotaType, ThreadSets
<1>14. CASE Crash
  <2>1. Counted' = {} /\ planStarts' = planStarts /\ usage' = usage
    BY <1>14 DEF Crash, Counted
  <2>2. Cardinality(Counted) \in Nat /\ Cardinality(Counted') = 0
    BY <2>1, <1>0, ThreadSets, FS_EmptySet
  <2> QED
    BY <2>1, <2>2, <1>t, QuotaType, ThreadSets
<1>15. CASE UNCHANGED meterVars
  BY <1>15, <1>1 DEF meterVars, Counted
<1> QED
  BY <1>2, <1>3, <1>4, <1>5, <1>6, <1>7, <1>8, <1>9, <1>10, <1>11, <1>12,
     <1>13, <1>14, <1>15 DEF MeterNext

\* However many threads count the month's reviews at once, the reviews started
\* on a monthly quota exceed it by less than the number of threads.
THEOREM QuotaOvershoot == MeterSpec => []QuotaOvershootBounded
<1>1. MeterInit => QuotaInv
  <2> SUFFICES ASSUME MeterInit PROVE QuotaInv
    OBVIOUS
  <2>1. Counted = {} /\ planStarts = 0 /\ usage = 0
    BY DEF MeterInit, Counted
  <2> QED
    BY <2>1, FS_EmptySet, QuotaType, ThreadSets DEF QuotaInv
<1>2. MeterTypeOK /\ QuotaInv => QuotaOvershootBounded
  <2> SUFFICES ASSUME MeterTypeOK, QuotaInv PROVE QuotaOvershootBounded
    OBVIOUS
  <2>1. Cardinality(Counted) \in Nat
    BY ThreadSets DEF Counted
  <2> QED
    BY <2>1, QuotaType, ThreadSets DEF MeterTypeOK, QuotaInv, QuotaOvershootBounded, N
<1> QED
  BY <1>1, <1>2, QuotaInvInductive, MeterTypes, PTL DEF MeterSpec

-----------------------------------------------------------------------------
(***************************************************************************)
(* The free review.  A thread that has set the flag, or found it set, can  *)
(* no longer stop the next cancellation from offering another free review  *)
(* on top of its own; every other thread sets the flag before it records.  *)
(***************************************************************************)
LEMMA FreeInvInductive == MeterTypeOK /\ FreeInv /\ [MeterNext]_meterVars => FreeInv'
<1> SUFFICES ASSUME MeterTypeOK, FreeInv, [MeterNext]_meterVars PROVE FreeInv'
  OBVIOUS
<1> DEFINE I == Cardinality(FreeInFlight)
           F == Cardinality(FlagBehind)
<1> USE DEF db, locals, observed
<1>s. /\ FreeInFlight \in SUBSET Requests /\ FreeInFlight' \in SUBSET Requests
      /\ FlagBehind \in SUBSET Requests /\ FlagBehind' \in SUBSET Requests
  BY DEF FreeInFlight, FlagBehind
<1>t. /\ freeGrants \in Nat /\ resets \in Nat /\ I \in Nat /\ F \in Nat
      /\ I' \in Nat /\ F' \in Nat /\ I' <= N /\ F <= I
  <2>1. FlagBehind \in SUBSET FreeInFlight
    BY DEF FreeInFlight, FlagBehind
  <2>2. F <= I
    BY <2>1, <1>s, ThreadSets, FS_Subset
  <2> QED
    BY <1>s, <2>2, ThreadSets DEF MeterTypeOK
<1>m. /\ resets * N \in Nat /\ (1 + resets) * N = resets * N + N
      /\ (resets + 1) * N = resets * N + N
      /\ (1 + (resets + 1)) * N = resets * N + N + N
  BY <1>t, Multiples, ThreadSets
<1>n. N \in Nat
  BY ThreadSets
<1>a. freeGrants + I <= resets * N + N
  BY <1>m DEF FreeInv
<1>b. ~account.freeUsed => freeGrants + F <= resets * N
  BY DEF FreeInv
<1>1. ASSUME FreeInFlight' = FreeInFlight, FlagBehind' = FlagBehind,
             freeGrants' = freeGrants, resets' = resets,
             account.freeUsed => account'.freeUsed
      PROVE  FreeInv'
  BY <1>1 DEF FreeInv
<1>2. ASSUME NEW r \in Requests, AuthorizeLoad(r) PROVE FreeInv'
  <2>1. /\ FlagBehind' = FlagBehind /\ account' = account
        /\ freeGrants' = freeGrants /\ resets' = resets
    BY <1>2 DEF AuthorizeLoad, FlagBehind, MeterTypeOK
  <2>2. CASE account.freeUsed
    <3>1. FreeInFlight' = FreeInFlight
      BY <1>2, <2>2 DEF AuthorizeLoad, FreeInFlight, FreeReviewLeft, MeterTypeOK
    <3> QED
      BY <3>1, <2>1, <1>1
  <2>3. CASE ~account.freeUsed
    <3>1. freeGrants <= resets * N
      BY <2>3, <1>b, <1>t, <1>m
    <3>2. freeGrants' + I' <= (1 + resets') * N
      BY <3>1, <2>1, <1>t, <1>m, <1>n
    <3> QED
      BY <3>2, <2>1, <1>b DEF FreeInv
  <2> QED
    BY <2>2, <2>3
<1>3. ASSUME NEW r \in Requests, Decide(r) PROVE FreeInv'
  <2>1. FreeInFlight' = FreeInFlight
    BY <1>3 DEF Decide, FreeInFlight, FreeReviewLeft, MeterTypeOK
  <2>2. FlagBehind' = FlagBehind
    BY <1>3 DEF Decide, FlagBehind, MeterTypeOK
  <2> QED
    BY <2>1, <2>2, <1>3, <1>1 DEF Decide
<1>4. ASSUME NEW r \in Requests, FlagLoad(r) PROVE FreeInv'
  <2>1. /\ FreeInFlight' = FreeInFlight /\ account' = account
        /\ freeGrants' = freeGrants /\ resets' = resets
    BY <1>4 DEF FlagLoad, FreeInFlight, FreeReviewLeft, MeterTypeOK
  <2>2. CASE account.freeUsed
    BY <2>1, <2>2 DEF FreeInv
  <2>3. CASE ~account.freeUsed
    <3>1. FlagBehind' = FlagBehind
      BY <1>4, <2>3 DEF FlagLoad, FlagBehind, MeterTypeOK
    <3> QED
      BY <3>1, <2>1, <1>1
  <2> QED
    BY <2>2, <2>3
<1>5. ASSUME NEW r \in Requests, CommitFreeFlag(r) PROVE FreeInv'
  <2>1. /\ FreeInFlight' = FreeInFlight
        /\ freeGrants' = freeGrants /\ resets' = resets
    BY <1>5 DEF CommitFreeFlag, FreeInFlight, FreeReviewLeft, MeterTypeOK
  <2>2. CASE row[r].freeUsed
    <3>1. FlagBehind' = FlagBehind
      BY <1>5, <2>2 DEF CommitFreeFlag, FlagBehind, MeterTypeOK
    <3>2. account'.freeUsed = account.freeUsed
      BY <1>5, <2>2 DEF CommitFreeFlag, MeterTypeOK, AccountRow
    <3> QED
      BY <3>1, <3>2, <2>1, <1>1
  <2>3. CASE ~row[r].freeUsed
    <3>1. account'.freeUsed
      BY <1>5, <2>3 DEF CommitFreeFlag, MeterTypeOK, AccountRow
    <3> QED
      BY <3>1, <2>1 DEF FreeInv
  <2> QED
    BY <2>2, <2>3
<1>6. ASSUME NEW r \in Requests, RecordFreeUsage(r) PROVE FreeInv'
  <2>1. /\ FreeInFlight' = FreeInFlight \ {r} /\ r \in FreeInFlight
        /\ FlagBehind' = FlagBehind \ {r} /\ r \in FlagBehind
    BY <1>6 DEF RecordFreeUsage, FreeInFlight, FlagBehind, FreeReviewLeft, MeterTypeOK
  <2>2. I' = I - 1 /\ F' = F - 1
    BY <2>1, <1>s, OneThreadLess
  <2>3. freeGrants' = freeGrants + 1 /\ resets' = resets /\ account' = account
    BY <1>6 DEF RecordFreeUsage
  <2>4. freeGrants' + I' <= (1 + resets') * N
    BY <2>2, <2>3, <1>a, <1>t, <1>m, <1>n
  <2>5. ~account'.freeUsed => freeGrants' + F' <= resets' * N
    BY <2>2, <2>3, <1>b, <1>t, <1>m, <1>n
  <2> QED
    BY <2>4, <2>5 DEF FreeInv
<1>7. ASSUME NEW r \in Requests, RecordPlanUsage(r) PROVE FreeInv'
  BY <1>7, <1>1 DEF RecordPlanUsage, FreeInFlight, FlagBehind, FreeReviewLeft, MeterTypeOK
<1>8. ASSUME NEW r \in Requests, CancelCheck(r) PROVE FreeInv'
  BY <1>8, <1>1 DEF CancelCheck, FreeInFlight, FlagBehind, FreeReviewLeft, MeterTypeOK
<1>9. ASSUME NEW r \in Requests, CancelLoad(r) PROVE FreeInv'
  BY <1>9, <1>1 DEF CancelLoad, FreeInFlight, FlagBehind, FreeReviewLeft, MeterTypeOK
<1>10. ASSUME NEW r \in Requests, CancelCommit(r) PROVE FreeInv'
  <2>1. /\ FreeInFlight' = FreeInFlight /\ FlagBehind' = FlagBehind
        /\ freeGrants' = freeGrants /\ resets' = resets + 1
    BY <1>10 DEF CancelCommit, FreeInFlight, FlagBehind, FreeReviewLeft, MeterTypeOK
  <2>2. freeGrants' + I' <= (1 + resets') * N
    BY <2>1, <1>a, <1>t, <1>m, <1>n
  <2>3. freeGrants' + F' <= resets' * N
    BY <2>1, <1>a, <1>t, <1>m, <1>n
  <2> QED
    BY <2>2, <2>3 DEF FreeInv
<1>11. ASSUME NEW r \in Requests, NEW p \in Plans, SetPlanLoad(r, p) PROVE FreeInv'
  BY <1>11, <1>1 DEF SetPlanLoad, FreeInFlight, FlagBehind, FreeReviewLeft, MeterTypeOK
<1>12. ASSUME NEW r \in Requests, SetPlanCommit(r) PROVE FreeInv'
  <2>1. account'.freeUsed = account.freeUsed
    BY <1>12 DEF SetPlanCommit, MeterTypeOK, AccountRow
  <2> QED
    BY <2>1, <1>12, <1>1
      DEF SetPlanCommit, FreeInFlight, FlagBehind, FreeReviewLeft, MeterTypeOK
<1>13. CASE NewMonth
  BY <1>13, <1>1 DEF NewMonth, FreeInFlight, FlagBehind, FreeReviewLeft
<1>14. CASE Crash
  <2>1. /\ FreeInFlight' = {} /\ FlagBehind' = {} /\ account' = account
        /\ freeGrants' = freeGrants /\ resets' = resets
    BY <1>14 DEF Crash, FreeInFlight, FlagBehind
  <2>2. I' = 0 /\ F' = 0
    BY <2>1, FS_EmptySet
  <2>3. freeGrants' + I' <= (1 + resets') * N
    BY <2>1, <2>2, <1>a, <1>t, <1>m, <1>n
  <2>4. ~account'.freeUsed => freeGrants' + F' <= resets' * N
    BY <2>1, <2>2, <1>b, <1>t, <1>m, <1>n
  <2> QED
    BY <2>3, <2>4 DEF FreeInv
<1>15. CASE UNCHANGED meterVars
  BY <1>15, <1>1 DEF meterVars, FreeInFlight, FlagBehind, FreeReviewLeft
<1> QED
  BY <1>2, <1>3, <1>4, <1>5, <1>6, <1>7, <1>8, <1>9, <1>10, <1>11, <1>12,
     <1>13, <1>14, <1>15 DEF MeterNext

LEMMA FreeInvInitially == MeterInit => FreeInv
<1> SUFFICES ASSUME MeterInit PROVE FreeInv
  OBVIOUS
<1>1. FreeInFlight = {} /\ FlagBehind = {} /\ freeGrants = 0 /\ resets = 0
  BY DEF MeterInit, FreeInFlight, FlagBehind
<1>2. (1 + resets) * N = N /\ resets * N = 0
  BY <1>1, ThreadSets
<1> QED
  BY <1>1, <1>2, FS_EmptySet, ThreadSets DEF FreeInv

\* An account starts at most one free review for each thread since its
\* creation, and as many again for each cancellation, whatever is interleaved.
THEOREM FreeReviews == MeterSpec => []FreeReviewsBounded
<1>1. MeterTypeOK /\ FreeInv => FreeReviewsBounded
  <2> SUFFICES ASSUME MeterTypeOK, FreeInv PROVE FreeReviewsBounded
    OBVIOUS
  <2>1. Cardinality(FreeInFlight) \in Nat
    BY ThreadSets DEF FreeInFlight
  <2>2. (1 + resets) * N \in Nat
    BY Multiples, ThreadSets DEF MeterTypeOK
  <2>3. freeGrants <= (1 + resets) * N
    BY <2>1, <2>2 DEF FreeInv, MeterTypeOK
  <2> QED
    BY <2>3 DEF FreeReviewsBounded, N
<1> QED
  BY <1>1, FreeInvInitially, FreeInvInductive, MeterTypes, PTL DEF MeterSpec

\* Until a cancellation commits, an account with a free review on record has
\* its flag set: no stale update of the row clears it.
THEOREM FreeFlag == MeterSpec => []FreeFlagSticks
<1>1. MeterTypeOK /\ FreeInv => FreeFlagSticks
  <2> SUFFICES ASSUME MeterTypeOK, FreeInv, resets = 0, ~account.freeUsed
               PROVE  ~(freeGrants > 0)
    BY DEF FreeFlagSticks
  <2>1. Cardinality(FlagBehind) \in Nat
    BY ThreadSets DEF FlagBehind
  <2>2. resets * N = 0
    BY ThreadSets
  <2> QED
    BY <2>1, <2>2 DEF FreeInv, MeterTypeOK
<1> QED
  BY <1>1, FreeInvInitially, FreeInvInductive, MeterTypes, PTL DEF MeterSpec

\* Every step that changes the plan of the account appends the plan_history
\* row that names the new plan.
THEOREM PlanHistoryComplete == MeterSpec => PlanChangeRecorded
<1> DEFINE Recorded ==
      account'.plan # account.plan =>
        /\ Len(history') = Len(history) + 1
        /\ history'[Len(history')].new = account'.plan
<1>1. ASSUME MeterTypeOK, [MeterNext]_meterVars PROVE [Recorded]_meterVars
  <2> USE DEF db, locals, observed
  <2>1. ASSUME NEW r \in Requests, CancelCommit(r) PROVE Recorded
    <3>1. account'.plan = "free" \/ account'.plan = account.plan
      BY <2>1 DEF CancelCommit
    <3> QED
      BY <3>1, <2>1, <1>1 DEF CancelCommit, MeterTypeOK
  <2>2. ASSUME NEW r \in Requests, SetPlanCommit(r) PROVE Recorded
    <3>1. account'.plan = target[r] \/ account'.plan = account.plan
      BY <2>2, <1>1 DEF SetPlanCommit, MeterTypeOK, AccountRow
    <3> QED
      BY <3>1, <2>2, <1>1 DEF SetPlanCommit, MeterTypeOK
  <2>3. ASSUME NEW r \in Requests, CommitFreeFlag(r) PROVE Recorded
    BY <2>3, <1>1 DEF CommitFreeFlag, MeterTypeOK, AccountRow
  <2>4. ASSUME NEW r \in Requests,
               \/ AuthorizeLoad(r) \/ Decide(r) \/ FlagLoad(r)
               \/ RecordFreeUsage(r) \/ RecordPlanUsage(r)
               \/ CancelCheck(r) \/ CancelLoad(r)
               \/ \E p \in Plans : SetPlanLoad(r, p)
        PROVE  Recorded
    BY <2>4 DEF AuthorizeLoad, Decide, FlagLoad, RecordFreeUsage,
                RecordPlanUsage, CancelCheck, CancelLoad, SetPlanLoad
  <2>5. CASE NewMonth \/ Crash
    BY <2>5 DEF NewMonth, Crash
  <2> QED
    BY <1>1, <2>1, <2>2, <2>3, <2>4, <2>5 DEF MeterNext
<1> QED
  BY <1>1, MeterTypes, PTL DEF MeterSpec, PlanChangeRecorded

-----------------------------------------------------------------------------
(***************************************************************************)
(* PAYMENTS                                                                *)
(***************************************************************************)
LEMMA EventFields ==
  ASSUME NEW e \in Events
  PROVE  e.checkout \in Checkouts /\ e.type \in Types
BY DEF Events

LEMMA SentEvent ==
  ASSUME NEW c \in Checkouts, NEW t \in Types
  PROVE  /\ [checkout |-> c, type |-> t] \in Events
         /\ [checkout |-> c, type |-> t].checkout = c
         /\ [checkout |-> c, type |-> t].type = t
BY DEF Events

LEMMA PaidTypes == \A p \in Providers : PaidType(p) \in Types
BY DEF PaidType, Types

LEMMA Steps ==
  ASSUME Next
  PROVE  \/ CouponLapses
         \/ \E c \in Checkouts :
              \/ ValidateCoupon(c) \/ TakeUse(c) \/ RejectCheckout(c)
              \/ CreateOrder(c) \/ CrashCheckout(c)
         \/ \E c \in Checkouts : Pay(c) \/ PaymentFails(c)
         \/ \E c \in Checkouts, type \in SubscriptionTypes : SubscriptionEvent(c, type)
         \/ \E e \in Events : RefuseAmount(e) \/ Duplicate(e) \/ ApplyEvent(e)
BY DEF Next, Deliver

-----------------------------------------------------------------------------
(***************************************************************************)
(* Types.                                                                  *)
(***************************************************************************)
LEMMA AdvanceType ==
  ASSUME TypeOK, NEW c \in Checkouts, NEW from, NEW to \in States, Advance(c, from, to)
  PROVE  order' \in [Checkouts -> [state : States, kind : Kinds,
                                   provider : Providers, coupon : BOOLEAN, inr : BOOLEAN]]
BY DEF TypeOK, Advance

LEMMA SendType ==
  ASSUME TypeOK, NEW c \in Checkouts, NEW t \in Types, Send(c, t)
  PROVE  sent' \subseteq Events
BY SentEvent DEF TypeOK, Send

\* Every reachable state is well typed.
THEOREM TypeCorrect == Spec => []TypeOK
<1>1. Init => TypeOK
  <2> SUFFICES ASSUME Init PROVE TypeOK
    OBVIOUS
  <2>1. order \in [Checkouts -> [state : States, kind : Kinds,
                                 provider : Providers, coupon : BOOLEAN, inr : BOOLEAN]]
    BY DEF Init, States
  <2> QED
    BY <2>1 DEF Init, TypeOK
<1>2. TypeOK /\ [Next]_vars => TypeOK'
  <2> SUFFICES ASSUME TypeOK, [Next]_vars PROVE TypeOK'
    OBVIOUS
  <2> USE DEF webhookVars, effectVars, checkoutVars
  <2>1. CASE CouponLapses
    BY <2>1 DEF CouponLapses, TypeOK
  <2>2. ASSUME NEW c \in Checkouts, ValidateCoupon(c) PROVE TypeOK'
    <3>1. order' \in [Checkouts -> [state : States, kind : Kinds,
                                    provider : Providers, coupon : BOOLEAN, inr : BOOLEAN]]
      BY <2>2, AdvanceType DEF ValidateCoupon, States
    <3> QED
      BY <2>2, <3>1 DEF ValidateCoupon, Advance, TypeOK
  <2>3. ASSUME NEW c \in Checkouts, TakeUse(c) PROVE TypeOK'
    <3>1. order' \in [Checkouts -> [state : States, kind : Kinds,
                                    provider : Providers, coupon : BOOLEAN, inr : BOOLEAN]]
      BY <2>3, AdvanceType DEF TakeUse, States
    <3> QED
      BY <2>3, <3>1 DEF TakeUse, Advance, TypeOK
  <2>4. ASSUME NEW c \in Checkouts, RejectCheckout(c) \/ CreateOrder(c) \/ CrashCheckout(c)
        PROVE  TypeOK'
    <3>1. order' \in [Checkouts -> [state : States, kind : Kinds,
                                    provider : Providers, coupon : BOOLEAN, inr : BOOLEAN]]
      BY <2>4, AdvanceType DEF RejectCheckout, CreateOrder, CrashCheckout, States
    <3> QED
      BY <2>4, <3>1 DEF RejectCheckout, CreateOrder, CrashCheckout, Advance, TypeOK
  <2>5. ASSUME NEW c \in Checkouts, Pay(c) PROVE TypeOK'
    <3>1. order' \in [Checkouts -> [state : States, kind : Kinds,
                                    provider : Providers, coupon : BOOLEAN, inr : BOOLEAN]]
      BY <2>5 DEF Pay, TypeOK, States
    <3>2. sent' \subseteq Events
      BY <2>5, SendType, PaidTypes DEF Pay, TypeOK
    <3> QED
      BY <2>5, <3>1, <3>2 DEF Pay, Send, TypeOK
  <2>6. ASSUME NEW c \in Checkouts, PaymentFails(c) PROVE TypeOK'
    <3>1. sent' \subseteq Events
      BY <2>6, SendType DEF PaymentFails, Types
    <3> QED
      BY <2>6, <3>1 DEF PaymentFails, Send, TypeOK
  <2>7. ASSUME NEW c \in Checkouts, NEW t \in SubscriptionTypes, SubscriptionEvent(c, t)
        PROVE  TypeOK'
    <3>1. sent' \subseteq Events
      BY <2>7, SendType DEF SubscriptionEvent, Types
    <3> QED
      BY <2>7, <3>1 DEF SubscriptionEvent, Send, TypeOK
  <2>8. ASSUME NEW e \in Events, RefuseAmount(e) \/ Duplicate(e) PROVE TypeOK'
    BY <2>8 DEF RefuseAmount, vars, Duplicate, TypeOK
  <2>9. ASSUME NEW e \in Events, ApplyEvent(e) PROVE TypeOK'
    <3>1. e.checkout \in Checkouts
      BY EventFields
    <3>2. plan' \in {"free", "pro"}
      BY <2>9 DEF ApplyEvent, TypeOK
    <3>3. active' \in BOOLEAN
      BY <2>9 DEF ApplyEvent, TypeOK
    <3>4. credits' \in [Checkouts -> Nat] /\ invoices' \in [Checkouts -> Nat]
      BY <2>9, <3>1 DEF ApplyEvent, TypeOK
    <3> QED
      BY <2>9, <3>2, <3>3, <3>4 DEF ApplyEvent, TypeOK
  <2>10. CASE UNCHANGED vars
    BY <2>10 DEF vars, TypeOK
  <2> QED
    BY <2>1, <2>2, <2>3, <2>4, <2>5, <2>6, <2>7, <2>8, <2>9, <2>10, Steps
<1> QED
  BY <1>1, <1>2, PTL DEF Spec

-----------------------------------------------------------------------------
(***************************************************************************)
(* The webhooks implement the ledger.  The marker and the effect are one   *)
(* commit, so an event is claimed exactly when it took effect, and once.   *)
(***************************************************************************)
ClaimInv ==
    /\ times \in [Events -> {0, 1}]
    /\ \A e \in Events : e \in claimed <=> times[e] = 1

LEMMA AppliedIsClaimed ==
  ASSUME Identified = Providers, TypeOK, NEW e \in Events, ApplyEvent(e)
  PROVE  claimed' = claimed \cup {e}
<1>1. order[e.checkout].provider \in Identified
  BY EventFields DEF TypeOK
<1> QED
  BY <1>1 DEF ApplyEvent

LEMMA ClaimInvInductive ==
  ASSUME Identified = Providers
  PROVE  TypeOK /\ ClaimInv /\ [Next]_vars => ClaimInv'
<1> SUFFICES ASSUME TypeOK, ClaimInv, [Next]_vars PROVE ClaimInv'
  OBVIOUS
<1> USE DEF webhookVars, effectVars, checkoutVars
<1>1. ASSUME claimed' = claimed, times' = times PROVE ClaimInv'
  BY <1>1 DEF ClaimInv
<1>2. ASSUME NEW e \in Events, ApplyEvent(e) PROVE ClaimInv'
  <2>1. claimed' = claimed \cup {e}
    BY <1>2, AppliedIsClaimed
  <2>2. e \notin claimed /\ times' = [times EXCEPT ![e] = @ + 1]
    BY <1>2 DEF ApplyEvent
  <2> QED
    BY <2>1, <2>2 DEF ClaimInv
<1>3. CASE CouponLapses
  BY <1>3, <1>1 DEF CouponLapses
<1>4. ASSUME NEW c \in Checkouts,
             \/ ValidateCoupon(c) \/ TakeUse(c) \/ RejectCheckout(c)
             \/ CreateOrder(c) \/ CrashCheckout(c)
      PROVE  ClaimInv'
  BY <1>4, <1>1 DEF ValidateCoupon, TakeUse, RejectCheckout, CreateOrder,
                    CrashCheckout, Advance
<1>5. ASSUME NEW c \in Checkouts, Pay(c) \/ PaymentFails(c) PROVE ClaimInv'
  BY <1>5, <1>1 DEF Pay, PaymentFails, Send
<1>6. ASSUME NEW c \in Checkouts, NEW t \in SubscriptionTypes, SubscriptionEvent(c, t)
      PROVE  ClaimInv'
  BY <1>6, <1>1 DEF SubscriptionEvent, Send
<1>7. ASSUME NEW e \in Events, RefuseAmount(e) \/ Duplicate(e) PROVE ClaimInv'
  BY <1>7, <1>1 DEF RefuseAmount, vars, Duplicate
<1>8. CASE UNCHANGED vars
  BY <1>8, <1>1 DEF vars
<1> QED
  BY <1>2, <1>3, <1>4, <1>5, <1>6, <1>7, <1>8, Steps

LEMMA ClaimInvInitially == Init => ClaimInv
BY DEF Init, ClaimInv

\* A step is a ledger step: emission, first application, acknowledgement of a
\* duplicate; everything a checkout does is a stutter.
LEMMA StepsAreLedgerSteps ==
  ASSUME TypeOK, ClaimInv, [Next]_vars
  PROVE  [Ledger!LedgerNext]_(Ledger!ledger)
<1> USE DEF webhookVars, effectVars, checkoutVars
<1>1. ASSUME sent' = sent, times' = times, acked' = acked
      PROVE  [Ledger!LedgerNext]_(Ledger!ledger)
  BY <1>1 DEF Ledger!ledger
<1>2. ASSUME NEW c \in Checkouts, NEW t \in Types, Send(c, t)
      PROVE  [Ledger!LedgerNext]_(Ledger!ledger)
  <2> DEFINE e == [checkout |-> c, type |-> t]
  <2>1. e \in Events
    BY SentEvent
  <2>2. Ledger!Emit(e)
    BY <1>2 DEF Send, Ledger!Emit
  <2> QED
    BY <2>1, <2>2 DEF Ledger!LedgerNext
<1>3. ASSUME NEW e \in Events, ApplyEvent(e)
      PROVE  [Ledger!LedgerNext]_(Ledger!ledger)
  <2>1. times[e] = 0
    BY <1>3 DEF ApplyEvent, ClaimInv
  <2>2. Ledger!Apply(e)
    BY <1>3, <2>1 DEF ApplyEvent, Ledger!Apply
  <2> QED
    BY <2>2 DEF Ledger!LedgerNext
<1>4. ASSUME NEW e \in Events, Duplicate(e)
      PROVE  [Ledger!LedgerNext]_(Ledger!ledger)
  <2>1. Ledger!Acknowledge(e)
    BY <1>4 DEF Duplicate, ClaimInv, Ledger!Acknowledge
  <2> QED
    BY <2>1 DEF Ledger!LedgerNext
<1>5. ASSUME NEW e \in Events, RefuseAmount(e)
      PROVE  [Ledger!LedgerNext]_(Ledger!ledger)
  BY <1>5, <1>1 DEF RefuseAmount, vars
<1>6. CASE CouponLapses
  BY <1>6, <1>1 DEF CouponLapses
<1>7. ASSUME NEW c \in Checkouts,
             \/ ValidateCoupon(c) \/ TakeUse(c) \/ RejectCheckout(c)
             \/ CreateOrder(c) \/ CrashCheckout(c)
      PROVE  [Ledger!LedgerNext]_(Ledger!ledger)
  BY <1>7, <1>1 DEF ValidateCoupon, TakeUse, RejectCheckout, CreateOrder,
                    CrashCheckout, Advance
<1>8. ASSUME NEW c \in Checkouts, Pay(c) \/ PaymentFails(c)
      PROVE  [Ledger!LedgerNext]_(Ledger!ledger)
  BY <1>8, <1>2, PaidTypes DEF Pay, PaymentFails, TypeOK, Types
<1>9. ASSUME NEW c \in Checkouts, NEW t \in SubscriptionTypes, SubscriptionEvent(c, t)
      PROVE  [Ledger!LedgerNext]_(Ledger!ledger)
  BY <1>9, <1>2 DEF SubscriptionEvent, Types
<1>10. CASE UNCHANGED vars
  BY <1>10, <1>1 DEF vars
<1> QED
  BY <1>3, <1>4, <1>5, <1>6, <1>7, <1>8, <1>9, <1>10, Steps

\* When events carry an id, the webhooks implement the ledger: each event takes
\* effect at most once, and is acknowledged only after it did.
THEOREM LedgerImplemented == Identified = Providers => (Spec => LedgerSpec)
<1> SUFFICES ASSUME Identified = Providers PROVE Spec => LedgerSpec
  OBVIOUS
<1>1. Init => Ledger!LedgerInit
  BY DEF Init, Ledger!LedgerInit
<1>2. TypeOK /\ ClaimInv /\ [Next]_vars => ClaimInv'
  BY ClaimInvInductive
<1>3. TypeOK /\ ClaimInv /\ [Next]_vars => [Ledger!LedgerNext]_(Ledger!ledger)
  BY StepsAreLedgerSteps
<1> QED
  BY <1>1, <1>2, <1>3, ClaimInvInitially, TypeCorrect, PTL
    DEF Spec, LedgerSpec, Ledger!LedgerSpec

-----------------------------------------------------------------------------
(***************************************************************************)
(* Nothing unpaid.  Every event the provider sends is about a paid order,  *)
(* unless it says that the payment failed.                                 *)
(***************************************************************************)
SentInv ==
    \A e \in sent :
        \/ e.type = "payment.failed"
        \/ /\ order[e.checkout].state = "paid"
           /\ \/ e.type = PaidType(order[e.checkout].provider)
              \/ e.type \in SubscriptionTypes /\ order[e.checkout].kind = "subscription"

\* A credit stands for the paid event of its checkout, which took effect.
CreditInv ==
    \A c \in Checkouts :
        /\ credits[c] <= 1
        /\ credits[c] > 0 =>
            [checkout |-> c, type |-> PaidType(order[c].provider)] \in claimed

PaidInv == claimed \subseteq sent /\ SentInv /\ CreditInv /\ NothingUnpaid

\* What an order is for and who collects it never change, and paid stays paid.
LEMMA OrdersKept ==
  ASSUME TypeOK, [Next]_vars, NEW c \in Checkouts
  PROVE  /\ order'[c].kind = order[c].kind
         /\ order'[c].provider = order[c].provider
         /\ order'[c].coupon = order[c].coupon /\ order'[c].inr = order[c].inr
         /\ order[c].state = "paid" => order'[c].state = "paid"
<1> USE DEF TypeOK, checkoutVars
<1>1. ASSUME order' = order
      PROVE  /\ order'[c].kind = order[c].kind
             /\ order'[c].provider = order[c].provider
             /\ order'[c].coupon = order[c].coupon /\ order'[c].inr = order[c].inr
             /\ order[c].state = "paid" => order'[c].state = "paid"
  BY <1>1
<1>2. ASSUME NEW d \in Checkouts, NEW to, order[d].state # "paid" \/ to = "paid",
             order' = [order EXCEPT ![d].state = to]
      PROVE  /\ order'[c].kind = order[c].kind
             /\ order'[c].provider = order[c].provider
             /\ order'[c].coupon = order[c].coupon /\ order'[c].inr = order[c].inr
             /\ order[c].state = "paid" => order'[c].state = "paid"
  BY <1>2
<1>3. CASE CouponLapses
  BY <1>3, <1>1 DEF CouponLapses
<1>4. ASSUME NEW d \in Checkouts,
             \/ ValidateCoupon(d) \/ TakeUse(d) \/ RejectCheckout(d)
             \/ CreateOrder(d) \/ CrashCheckout(d)
      PROVE  \E to : order[d].state # "paid" /\ order' = [order EXCEPT ![d].state = to]
  BY <1>4 DEF ValidateCoupon, TakeUse, RejectCheckout, CreateOrder,
              CrashCheckout, Advance
<1>5. ASSUME NEW d \in Checkouts, Pay(d)
      PROVE  order' = [order EXCEPT ![d].state = "paid"]
  BY <1>5 DEF Pay
<1>6. ASSUME NEW d \in Checkouts,
             PaymentFails(d) \/ \E t \in SubscriptionTypes : SubscriptionEvent(d, t)
      PROVE  order' = order
  BY <1>6 DEF PaymentFails, SubscriptionEvent
<1>7. ASSUME NEW e \in Events, RefuseAmount(e) \/ Duplicate(e) \/ ApplyEvent(e)
      PROVE  order' = order
  BY <1>7 DEF RefuseAmount, vars, Duplicate, ApplyEvent
<1>8. CASE UNCHANGED vars
  BY <1>8, <1>1 DEF vars
<1> QED
  BY <1>1, <1>2, <1>3, <1>4, <1>5, <1>6, <1>7, <1>8, Steps

LEMMA PaidInvInductive ==
  ASSUME Identified = Providers,
         TypeOK, TypeOK', PaidInv, [Next]_vars
  PROVE  PaidInv'
<1> USE DEF webhookVars, effectVars, checkoutVars
<1>k. \A c \in Checkouts :
        /\ order'[c].kind = order[c].kind
        /\ order'[c].provider = order[c].provider
        /\ order'[c].coupon = order[c].coupon /\ order'[c].inr = order[c].inr
        /\ order[c].state = "paid" => order'[c].state = "paid"
  BY OrdersKept
<1>s. \A e \in sent : e \in Events /\ e.checkout \in Checkouts
  BY EventFields DEF TypeOK
<1>1. SentInv' /\ (sent \subseteq sent')
  <2>1. ASSUME sent' = sent PROVE SentInv'
    BY <2>1, <1>k, <1>s DEF PaidInv, SentInv
  <2>2. ASSUME NEW c \in Checkouts, NEW t \in Types, Send(c, t),
               order'[c].state = "paid",
               \/ t = PaidType(order[c].provider)
               \/ t \in SubscriptionTypes /\ order[c].kind = "subscription"
        PROVE  SentInv'
    BY <2>2, <1>k, <1>s, SentEvent DEF PaidInv, SentInv, Send
  <2>3. ASSUME NEW c \in Checkouts, Pay(c) PROVE SentInv' /\ sent \subseteq sent'
    <3>1. order'[c].state = "paid"
      BY <2>3 DEF Pay, TypeOK
    <3>2. Send(c, PaidType(order[c].provider))
      BY <2>3 DEF Pay
    <3>3. PaidType(order[c].provider) \in Types
      BY PaidTypes DEF TypeOK
    <3> QED
      BY <3>1, <3>2, <3>3, <2>2 DEF Send
  <2>4. ASSUME NEW c \in Checkouts, NEW t \in SubscriptionTypes, SubscriptionEvent(c, t)
        PROVE  SentInv' /\ sent \subseteq sent'
    <3>1. order'[c].state = "paid" /\ order[c].kind = "subscription" /\ t \in Types
      BY <2>4 DEF SubscriptionEvent, Types
    <3>2. Send(c, t)
      BY <2>4 DEF SubscriptionEvent
    <3> QED
      BY <3>1, <3>2, <2>2, <2>4 DEF Send
  <2>5. CASE CouponLapses \/ UNCHANGED vars
    BY <2>5, <2>1 DEF CouponLapses, vars
  <2>6. ASSUME NEW c \in Checkouts,
               \/ ValidateCoupon(c) \/ TakeUse(c) \/ RejectCheckout(c)
               \/ CreateOrder(c) \/ CrashCheckout(c)
        PROVE  sent' = sent
    BY <2>6 DEF ValidateCoupon, TakeUse, RejectCheckout, CreateOrder,
                CrashCheckout, Advance
  <2>7. ASSUME NEW c \in Checkouts, PaymentFails(c) PROVE SentInv' /\ sent \subseteq sent'
    <3>1. sent' = sent \cup {[checkout |-> c, type |-> "payment.failed"]} /\ order' = order
      BY <2>7 DEF PaymentFails, Send
    <3> QED
      BY <3>1 DEF PaidInv, SentInv
  <2>8. ASSUME NEW e \in Events, RefuseAmount(e) \/ Duplicate(e) \/ ApplyEvent(e)
        PROVE  sent' = sent
    BY <2>8 DEF RefuseAmount, vars, Duplicate, ApplyEvent
  <2> QED
    BY <2>1, <2>3, <2>4, <2>5, <2>6, <2>7, <2>8, Steps
<1>2. ASSUME claimed' = claimed, UNCHANGED <<credits, invoices, plan, active, times>>
      PROVE  PaidInv'
  <2>1. claimed' \subseteq sent'
    BY <1>1, <1>2 DEF PaidInv
  <2>2. CreditInv'
    BY <1>2, <1>k DEF PaidInv, CreditInv
  <2>3. \A kind : PaidFor(kind) => PaidFor(kind)'
    BY <1>k DEF PaidFor
  <2>5. ProjectAccounted'
    BY <1>2, <1>k, EventFields DEF PaidInv, NothingUnpaid, ProjectAccounted
  <2>4. NothingUnpaid'
    BY <1>2, <1>k, <2>3, <2>5 DEF PaidInv, NothingUnpaid
  <2> QED
    BY <1>1, <2>1, <2>2, <2>4 DEF PaidInv
<1>3. ASSUME NEW e \in Events, ApplyEvent(e) PROVE PaidInv'
  <2> DEFINE c == e.checkout
  <2>1. c \in Checkouts /\ e \in sent /\ e \notin claimed /\ order' = order
    BY <1>3, EventFields DEF ApplyEvent
  <2>2. \/ e.type = "payment.failed"
        \/ /\ order[c].state = "paid"
           /\ \/ e.type = PaidType(order[c].provider)
              \/ e.type \in SubscriptionTypes /\ order[c].kind = "subscription"
    BY <2>1 DEF PaidInv, SentInv
  <2>f. e.type = "payment.failed" => ~CreditsReview(e) /\ ~SetsPlan(e) /\ ~Invoices(e)
    BY DEF CreditsReview, SetsPlan, Invoices
  <2>3. claimed' = claimed \cup {e} /\ claimed' \subseteq sent'
    BY <1>3, <2>1, <1>1, AppliedIsClaimed DEF PaidInv
  <2>4. ASSUME CreditsReview(e) PROVE credits[c] = 0
    <3>1. e.type = PaidType(order[c].provider)
      BY <2>2, <2>f, <2>4 DEF CreditsReview, SubscriptionTypes
    <3>2. e = [checkout |-> c, type |-> PaidType(order[c].provider)]
      BY <3>1 DEF Events
    <3> QED
      BY <3>2, <2>1 DEF PaidInv, CreditInv, TypeOK
  <2>5. CreditInv'
    <3> SUFFICES ASSUME NEW d \in Checkouts
                 PROVE  /\ credits'[d] <= 1
                        /\ credits'[d] > 0 =>
                             [checkout |-> d, type |-> PaidType(order[d].provider)] \in claimed'
      BY <2>1 DEF CreditInv
    <3>1. CASE d = c /\ CreditsReview(e)
      <4>1. credits'[d] = 1
        BY <3>1, <2>4, <2>1, <1>3 DEF ApplyEvent, TypeOK
      <4>2. e.type = PaidType(order[c].provider)
        BY <2>2, <2>f, <3>1 DEF CreditsReview, SubscriptionTypes
      <4>3. e = [checkout |-> c, type |-> PaidType(order[c].provider)]
        BY <4>2 DEF Events
      <4> QED
        BY <4>1, <4>3, <2>3, <3>1
    <3>2. CASE ~(d = c /\ CreditsReview(e))
      <4>1. credits'[d] = credits[d]
        BY <3>2, <2>1, <1>3 DEF ApplyEvent, TypeOK
      <4> QED
        BY <4>1, <2>3 DEF PaidInv, CreditInv
    <3> QED
      BY <3>1, <3>2
  <2>6. ProjectAccounted'
    <3>0. \A d \in Events : times[d] \in Nat /\ times'[d] \in Nat /\ times'[d] >= times[d]
      BY <1>3 DEF ApplyEvent, TypeOK
    <3>1. CASE ActivatesProject(e)
      <4>1. times'[e] > 0
        BY <1>3 DEF ApplyEvent, TypeOK
      <4>2. order[c].state = "paid" \/ e.type = "payment.failed"
        BY <2>2
      <4>3. CarriesAmount(e)
        BY <2>2, <3>1, PaidTypes DEF CarriesAmount, ActivatesProject, PaidType
      <4>4. order[c].inr /\ ~order[c].coupon
        BY <4>3, <3>1, <1>3 DEF ApplyEvent, AmountValid, ActivatesProject
      <4> QED
        BY <4>1, <4>2, <4>4, <3>1, <2>1 DEF ProjectAccounted, ActivatesProject
    <3>2. CASE ~ActivatesProject(e)
      <4>1. active' = active
        BY <3>2, <1>3 DEF ApplyEvent, TypeOK
      <4> QED
        BY <4>1, <3>0, <2>1 DEF ProjectAccounted, PaidInv, NothingUnpaid
    <3> QED
      BY <3>1, <3>2
  <2>7. plan' # "free" => PaidFor("subscription")'
    <3>1. CASE SetsPlan(e)
      <4>1. order[c].kind = "subscription"
        BY <3>1, <2>2, <2>f DEF SetsPlan, PaidType
      <4> QED
        BY <4>1, <3>1, <2>1, <2>2, <2>f DEF PaidFor
    <3>2. CASE ~SetsPlan(e)
      <4>1. plan' = "free" \/ plan' = plan
        BY <3>2, <1>3 DEF ApplyEvent
      <4> QED
        BY <4>1, <2>1 DEF PaidFor, PaidInv, NothingUnpaid
    <3> QED
      BY <3>1, <3>2
  <2>8. ASSUME NEW d \in Checkouts, credits'[d] + invoices'[d] > 0
        PROVE  order'[d].state = "paid"
    <3>1. CASE d = c /\ e.type # "payment.failed"
      BY <3>1, <2>1, <2>2
    <3>2. CASE d # c \/ e.type = "payment.failed"
      <4>1. credits'[d] = credits[d] /\ invoices'[d] = invoices[d]
        BY <3>2, <2>f, <2>1, <1>3 DEF ApplyEvent, TypeOK
      <4> QED
        BY <4>1, <2>1, <2>8 DEF PaidInv, NothingUnpaid
    <3> QED
      BY <3>1, <3>2
  <2> QED
    BY <1>1, <2>3, <2>5, <2>6, <2>7, <2>8 DEF PaidInv, NothingUnpaid, CreditInv
<1>4. CASE CouponLapses \/ UNCHANGED vars
  BY <1>4, <1>2 DEF CouponLapses, vars
<1>5. ASSUME NEW c \in Checkouts,
             \/ ValidateCoupon(c) \/ TakeUse(c) \/ RejectCheckout(c)
             \/ CreateOrder(c) \/ CrashCheckout(c)
      PROVE  PaidInv'
  BY <1>5, <1>2 DEF ValidateCoupon, TakeUse, RejectCheckout, CreateOrder,
                    CrashCheckout, Advance
<1>6. ASSUME NEW c \in Checkouts,
             \/ Pay(c) \/ PaymentFails(c)
             \/ \E t \in SubscriptionTypes : SubscriptionEvent(c, t)
      PROVE  PaidInv'
  BY <1>6, <1>2 DEF Pay, PaymentFails, SubscriptionEvent, Send
<1>7. ASSUME NEW e \in Events, RefuseAmount(e) \/ Duplicate(e) PROVE PaidInv'
  BY <1>7, <1>2 DEF RefuseAmount, vars, Duplicate
<1> QED
  BY <1>3, <1>4, <1>5, <1>6, <1>7, Steps

LEMMA PaidInvInitially == Init => PaidInv
BY DEF Init, PaidInv, SentInv, CreditInv, NothingUnpaid, ProjectAccounted

\* If events carry an id, then of all an account holds only an activation can
\* come from a payment that failed, and that one was at the full price in rupees.
THEOREM PaidOnly == Identified = Providers => (Spec => []NothingUnpaid)
<1> SUFFICES ASSUME Identified = Providers PROVE Spec => []NothingUnpaid
  OBVIOUS
<1>1. TypeOK /\ TypeOK' /\ PaidInv /\ [Next]_vars => PaidInv'
  BY PaidInvInductive
<1>2. PaidInv => NothingUnpaid
  BY DEF PaidInv
<1> QED
  BY <1>1, <1>2, PaidInvInitially, TypeCorrect, PTL DEF Spec

-----------------------------------------------------------------------------
(***************************************************************************)
(* The coupon.  A checkout writes back the count it loaded plus one, and   *)
(* it loaded a count below the limit and below the uses committed so far.  *)
(***************************************************************************)
Takers == {c \in Checkouts : TookUse(c)}

UseInv ==
    /\ UsesCounted
    /\ \A c \in Checkouts :
        order[c].state = "validated" =>
            order[c].coupon /\ seen[c] < MaxUses /\ seen[c] <= Cardinality(Takers)

LEMMA UserSets ==
  \A S, T \in SUBSET Checkouts :
    /\ Cardinality(S) \in Nat
    /\ S \subseteq T => Cardinality(S) <= Cardinality(T)
<1> SUFFICES ASSUME NEW S \in SUBSET Checkouts, NEW T \in SUBSET Checkouts
             PROVE  /\ Cardinality(S) \in Nat
                    /\ S \subseteq T => Cardinality(S) <= Cardinality(T)
  OBVIOUS
<1>1. IsFiniteSet(S) /\ IsFiniteSet(T)
  BY CheckoutsAssumption, FS_Subset
<1> QED
  BY <1>1, FS_CardinalityType, FS_Subset

LEMMA UseInvInductive ==
  ASSUME TypeOK, UseInv, [Next]_vars
  PROVE  UseInv'
<1> USE DEF webhookVars, effectVars, checkoutVars
<1> DEFINE n == Cardinality(Takers)
<1>u. Takers \in SUBSET Checkouts /\ Takers' \in SUBSET Checkouts
  BY DEF Takers
<1>t. n \in Nat /\ n' \in Nat /\ coupon.uses \in Nat /\ MaxUses \in Nat
  BY <1>u, UserSets, MaxUsesAssumption DEF TypeOK
<1>1. ASSUME order' = order, coupon'.uses = coupon.uses, seen' = seen PROVE UseInv'
  <2>1. Takers' = Takers
    BY <1>1 DEF Takers, TookUse
  <2> QED
    BY <1>1, <2>1 DEF UseInv, UsesCounted, Takers
<1>2. ASSUME NEW c \in Checkouts, NEW from, NEW to, Advance(c, from, to),
             from # "use_taken" \/ to \in {"rejected", "crashed", "ordered"},
             from \in {"new", "validated", "use_taken"}
      PROVE  Takers \subseteq Takers' /\ n <= n'
  <2>1. Takers \subseteq Takers'
    BY <1>2 DEF Takers, TookUse, Advance, TypeOK
  <2> QED
    BY <2>1, <1>u, UserSets
<1>3. ASSUME NEW c \in Checkouts, ValidateCoupon(c) PROVE UseInv'
  <2>1. n <= n'
    BY <1>3, <1>2 DEF ValidateCoupon
  <2>2. UsesCounted'
    BY <2>1, <1>t, <1>3 DEF ValidateCoupon, UseInv, UsesCounted, Takers
  <2>3. ASSUME NEW d \in Checkouts, order'[d].state = "validated"
        PROVE  order'[d].coupon /\ seen'[d] < MaxUses /\ seen'[d] <= n'
    <3>1. CASE d = c
      BY <3>1, <2>1, <1>t, <1>3
        DEF ValidateCoupon, Advance, CouponValid, TypeOK, UseInv, UsesCounted, Takers
    <3>2. CASE d # c
      BY <3>2, <2>1, <2>3, <1>t, <1>3 DEF ValidateCoupon, Advance, TypeOK, UseInv
    <3> QED
      BY <3>1, <3>2
  <2> QED
    BY <2>2, <2>3 DEF UseInv
<1>4. ASSUME NEW c \in Checkouts, TakeUse(c) PROVE UseInv'
  <2>1. n <= n'
    BY <1>4, <1>2 DEF TakeUse
  <2>2. n + 1 <= n'
    <3>0. order[c].state = "validated" /\ order[c].coupon
      BY <1>4 DEF TakeUse, Advance, UseInv
    <3>a. order'[c].state = "use_taken" /\ order'[c].coupon
      BY <1>4, <3>0 DEF TakeUse, Advance, TypeOK
    <3>b. Takers \subseteq Takers'
      BY <1>4, <1>2 DEF TakeUse
    <3>1. c \notin Takers /\ Takers \cup {c} \subseteq Takers'
      BY <3>0, <3>a, <3>b DEF Takers, TookUse
    <3>2. IsFiniteSet(Takers)
      BY <1>u, CheckoutsAssumption, FS_Subset
    <3>3. Cardinality(Takers \cup {c}) = n + 1
      BY <3>1, <3>2, FS_AddElement
    <3> QED
      BY <3>1, <3>3, <1>u, UserSets
  <2>3. seen[c] < MaxUses /\ seen[c] <= n /\ seen[c] \in Nat
    BY <1>4 DEF TakeUse, Advance, UseInv, TypeOK
  <2>4. coupon'.uses = seen[c] + 1
    BY <1>4 DEF TakeUse, TypeOK
  <2>5. UsesCounted'
    BY <2>2, <2>3, <2>4, <1>t DEF UsesCounted, Takers
  <2>6. ASSUME NEW d \in Checkouts, order'[d].state = "validated"
        PROVE  order'[d].coupon /\ seen'[d] < MaxUses /\ seen'[d] <= n'
    BY <2>1, <2>6, <1>t, <1>4 DEF TakeUse, Advance, TypeOK, UseInv
  <2> QED
    BY <2>5, <2>6 DEF UseInv
<1>5. ASSUME NEW c \in Checkouts,
             RejectCheckout(c) \/ CreateOrder(c) \/ CrashCheckout(c)
      PROVE  UseInv'
  <2>1. n <= n'
    BY <1>5, <1>2 DEF RejectCheckout, CreateOrder, CrashCheckout
  <2>2. UsesCounted'
    BY <2>1, <1>t, <1>5
      DEF RejectCheckout, CreateOrder, CrashCheckout, UseInv, UsesCounted, Takers
  <2>3. ASSUME NEW d \in Checkouts, order'[d].state = "validated"
        PROVE  order'[d].coupon /\ seen'[d] < MaxUses /\ seen'[d] <= n'
    BY <2>1, <2>3, <1>t, <1>5
      DEF RejectCheckout, CreateOrder, CrashCheckout, Advance, TypeOK, UseInv
  <2> QED
    BY <2>2, <2>3 DEF UseInv
<1>6. ASSUME NEW c \in Checkouts, Pay(c) PROVE UseInv'
  <2>1. Takers' = Takers /\ coupon' = coupon /\ seen' = seen
    BY <1>6 DEF Pay, Send, Takers, TookUse, TypeOK
  <2>2. \A d \in Checkouts :
          order'[d].state = "validated" =>
            order[d].state = "validated" /\ order'[d].coupon = order[d].coupon
    BY <1>6 DEF Pay, TypeOK
  <2> QED
    BY <2>1, <2>2 DEF UseInv, UsesCounted, Takers
<1>7. ASSUME NEW c \in Checkouts,
             PaymentFails(c) \/ \E t \in SubscriptionTypes : SubscriptionEvent(c, t)
      PROVE  UseInv'
  BY <1>7, <1>1 DEF PaymentFails, SubscriptionEvent, Send
<1>8. ASSUME NEW e \in Events, RefuseAmount(e) \/ Duplicate(e) \/ ApplyEvent(e)
      PROVE  UseInv'
  BY <1>8, <1>1 DEF RefuseAmount, vars, Duplicate, ApplyEvent
<1>9. CASE CouponLapses
  BY <1>9, <1>1 DEF CouponLapses, TypeOK
<1>10. CASE UNCHANGED vars
  BY <1>10, <1>1 DEF vars
<1> QED
  BY <1>3, <1>4, <1>5, <1>6, <1>7, <1>8, <1>9, <1>10, Steps

\* Lost updates only ever undercount: uses_count stays within max_uses and
\* within the number of checkouts that committed a use.
THEOREM CouponCount == Spec => []UsesCounted
<1>1. Init => UseInv
  <2> SUFFICES ASSUME Init PROVE UseInv
    OBVIOUS
  <2>1. Cardinality(Takers) \in Nat
    BY UserSets DEF Takers
  <2> QED
    BY <2>1, MaxUsesAssumption DEF Init, UseInv, UsesCounted, Takers
<1>2. UseInv => UsesCounted
  BY DEF UseInv
<1>3. TypeOK /\ UseInv /\ [Next]_vars => UseInv'
  BY UseInvInductive
<1> QED
  BY <1>1, <1>2, <1>3, TypeCorrect, PTL DEF Spec
-----------------------------------------------------------------------------
(***************************************************************************)
(* Invoices.  Delivery is the only step that claims an event or counts an  *)
(* invoice, and it does both for the same events.                          *)
(***************************************************************************)
Transfers(c) == {e \in claimed : e.checkout = c /\ e.type \in MoneyTypes}

InvoiceInv == IsFiniteSet(claimed) /\ MoneyInvoicedOnce

\* For a review or a subscription, an event is invoiced exactly when it moves
\* money, whichever provider reports it and under whichever name.
LEMMA InvoicedIsMoney ==
  ASSUME TypeOK, NEW e \in Events, ~ActivatesProject(e)
  PROVE  Invoices(e) <=> e.type \in MoneyTypes
<1>1. order[e.checkout].kind \in {"paygo", "subscription"}
  BY EventFields, KindsAssumption DEF TypeOK, ActivatesProject
<1> QED
  BY <1>1 DEF Invoices, CreditsReview, SetsPlan, CarriesAmount, MoneyTypes

LEMMA InvoicedInductive ==
  ASSUME Identified = Providers, TypeOK, InvoiceInv, [Next]_vars
  PROVE  InvoiceInv'
<1> USE DEF webhookVars, effectVars, checkoutVars
<1>k. \A c \in Checkouts : order'[c].kind = order[c].kind
  BY OrdersKept
<1>1. ASSUME claimed' = claimed, invoices' = invoices PROVE InvoiceInv'
  BY <1>1, <1>k DEF InvoiceInv, MoneyInvoicedOnce
<1>2. ASSUME NEW e \in Events, ApplyEvent(e) PROVE InvoiceInv'
  <2>1. claimed' = claimed \cup {e} /\ e \notin claimed
    BY <1>2, AppliedIsClaimed DEF ApplyEvent
  <2>2. e.checkout \in Checkouts
    BY EventFields
  <2>3. ASSUME NEW c \in Checkouts, order[c].kind # "project_activation"
        PROVE  invoices'[c] = Cardinality(Transfers(c)')
    <3>1. invoices[c] = Cardinality(Transfers(c)) /\ invoices[c] \in Nat
      BY <2>3 DEF InvoiceInv, MoneyInvoicedOnce, Transfers, TypeOK
    <3>2. CASE c = e.checkout /\ e.type \in MoneyTypes
      <4>1. Transfers(c)' = Transfers(c) \cup {e} /\ e \notin Transfers(c)
        BY <2>1, <3>2 DEF Transfers
      <4>2. IsFiniteSet(Transfers(c))
        BY FS_Subset DEF InvoiceInv, Transfers
      <4>3. Cardinality(Transfers(c) \cup {e}) = Cardinality(Transfers(c)) + 1
        BY <4>1, <4>2, FS_AddElement
      <4>4. Invoices(e)
        BY <2>3, <3>2, InvoicedIsMoney DEF ActivatesProject
      <4>5. invoices'[c] = invoices[c] + 1
        BY <1>2, <2>2, <3>2, <4>4 DEF ApplyEvent, TypeOK
      <4> QED
        BY <3>1, <4>1, <4>3, <4>5
    <3>3. CASE ~(c = e.checkout /\ e.type \in MoneyTypes)
      <4>1. Transfers(c)' = Transfers(c)
        BY <2>1, <3>3 DEF Transfers
      <4>2. c = e.checkout => ~Invoices(e)
        BY <2>3, <3>3, InvoicedIsMoney DEF ActivatesProject
      <4>3. invoices'[c] = invoices[c]
        BY <1>2, <2>2, <4>2 DEF ApplyEvent, TypeOK
      <4> QED
        BY <3>1, <4>1, <4>3
    <3> QED
      BY <3>2, <3>3
  <2>4. IsFiniteSet(claimed')
    BY <2>1, FS_AddElement DEF InvoiceInv
  <2> QED
    BY <2>3, <2>4, <1>k DEF InvoiceInv, MoneyInvoicedOnce, Transfers
<1>3. CASE CouponLapses \/ UNCHANGED vars
  BY <1>3, <1>1 DEF CouponLapses, vars
<1>4. ASSUME NEW c \in Checkouts,
             \/ ValidateCoupon(c) \/ TakeUse(c) \/ RejectCheckout(c)
             \/ CreateOrder(c) \/ CrashCheckout(c)
      PROVE  InvoiceInv'
  BY <1>4, <1>1 DEF ValidateCoupon, TakeUse, RejectCheckout, CreateOrder,
                    CrashCheckout, Advance
<1>5. ASSUME NEW c \in Checkouts,
             \/ Pay(c) \/ PaymentFails(c)
             \/ \E t \in SubscriptionTypes : SubscriptionEvent(c, t)
      PROVE  InvoiceInv'
  BY <1>5, <1>1 DEF Pay, PaymentFails, SubscriptionEvent, Send
<1>6. ASSUME NEW e \in Events, RefuseAmount(e) \/ Duplicate(e) PROVE InvoiceInv'
  BY <1>6, <1>1 DEF RefuseAmount, vars, Duplicate
<1> QED
  BY <1>2, <1>3, <1>4, <1>5, <1>6, Steps

\* When events carry an id, each transfer of money has exactly one paid invoice,
\* whatever is delivered twice, late or out of order, and refused payments
\* reported or not.
THEOREM InvoicedOnce == Identified = Providers => (Spec => []MoneyInvoicedOnce)
<1> SUFFICES ASSUME Identified = Providers PROVE Spec => []MoneyInvoicedOnce
  OBVIOUS
<1>1. Init => InvoiceInv
  <2> SUFFICES ASSUME Init, NEW c \in Checkouts
               PROVE  IsFiniteSet(claimed) /\ invoices[c] = Cardinality(Transfers(c))
    BY FS_EmptySet DEF Init, InvoiceInv, MoneyInvoicedOnce, Transfers
  <2>1. Transfers(c) = {} /\ invoices[c] = 0
    BY DEF Init, Transfers
  <2> QED
    BY <2>1, FS_EmptySet DEF Init
<1>2. TypeOK /\ InvoiceInv /\ [Next]_vars => InvoiceInv'
  BY InvoicedInductive
<1>3. InvoiceInv => MoneyInvoicedOnce
  BY DEF InvoiceInv
<1> QED
  BY <1>1, <1>2, <1>3, TypeCorrect, PTL DEF Spec

-----------------------------------------------------------------------------
(***************************************************************************)
(* SEATS                                                                   *)
(***************************************************************************)
SeatJobs == [pc : SeatsPCs, user : Users \cup {None}, invitation : Invitations \cup {None},
             seat : BOOLEAN, count : {0, 1}, limit : Limits \cup {0}, seen : Nat]

\* What kind of request a thread serves: an acceptance asks for no further seat
\* and is of an invitation that exists, a request that makes somebody a member
\* otherwise needs a seat, and a limit once read was once the limit.
RequestKind(t) ==
    /\ job[t].limit <= highest
    /\ job[t].pc = "idle" => ~Accepts(t)
    /\ job[t].pc # "idle" =>
        /\ job[t].count = 1 <=> ~Accepts(t)
        /\ job[t].user # None \/ job[t].invitation # None
        /\ ~Accepts(t) => (job[t].seat <=> job[t].user # None)
    /\ Accepts(t) =>
        /\ job[t].user = Email[job[t].invitation]
        /\ invitation[job[t].invitation] # "none"

Holders(i) == {t \in Threads : Accepts(t) /\ job[t].invitation = i}

\* Once an invitation has been used nobody reads it as acceptable again
UsesLeft ==
    \A i \in Invitations : uses[i] > 0 => uses[i] + Cardinality(Holders(i)) <= Cardinality(Threads)

SeatsTypeInv ==
    /\ SeatsTypeOK
    /\ IsFiniteSet(members) /\ IsFiniteSet(Pending)
    /\ limit <= highest
    /\ \A t \in Threads : RequestKind(t)
    /\ UsesLeft

LEMMA HoldersFinite ==
    ASSUME NEW S \in SUBSET Threads
    PROVE  /\ IsFiniteSet(S) /\ Cardinality(S) \in Nat /\ Cardinality(Threads) \in Nat
           /\ Cardinality(S) <= Cardinality(Threads)
BY ThreadsAssumption, FS_Subset, FS_CardinalityType

LEMMA SeatIdle == /\ Idle \in SeatJobs /\ Idle.pc = "idle" /\ Idle.user = None /\ Idle.invitation = None
                  /\ Idle.limit = 0 /\ Idle.count = 0 /\ Idle.seat = FALSE
BY DEF Idle, SeatJobs, SeatsPCs

LEMMA SeatsTypeInit == SeatsInit => SeatsTypeInv
<1> SUFFICES ASSUME SeatsInit PROVE SeatsTypeInv
  OBVIOUS
<1>1. Cardinality(Threads) \in Nat
  BY HoldersFinite
<1>2. job \in [Threads -> SeatJobs] /\ \A t \in Threads : job[t] = Idle
  BY SeatIdle DEF SeatsInit
<1>3. limit \in Limits /\ limit \in Nat /\ highest = limit
  BY LimitsAssumption DEF SeatsInit
<1>4. SeatsTypeOK
  <2>1. uses \in [Invitations -> 0..Cardinality(Threads)] /\ \A i \in Invitations : uses[i] = 0
    BY <1>1 DEF SeatsInit
  <2>2. invitation \in [Invitations -> InvitationStates] /\ members \subseteq Users /\ late \in BOOLEAN
    BY OwnerAssumption DEF SeatsInit, InvitationStates
  <2> QED BY <1>2, <1>3, <2>1, <2>2 DEF SeatsTypeOK, SeatJobs
<1>5. \A t \in Threads : RequestKind(t)
  BY <1>2, <1>3, SeatIdle DEF RequestKind, Accepts
<1>6. UsesLeft
  BY DEF UsesLeft, SeatsInit
<1>7. IsFiniteSet(members) /\ IsFiniteSet(Pending)
  <2>1. members = {Owner} /\ Pending = {}
    BY DEF SeatsInit, Pending
  <2> QED BY <2>1, FS_EmptySet, FS_Singleton
<1> QED BY <1>3, <1>4, <1>5, <1>6, <1>7 DEF SeatsTypeInv

\* A step of one thread that leaves the invitations alone and does not begin to
\* accept one
LEMMA SeatsTypeThread ==
    ASSUME SeatsTypeInv, NEW t \in Threads, UNCHANGED <<invitation, limit, highest, uses, late>>,
           members' \subseteq Users, IsFiniteSet(members'),
           job' \in [Threads -> SeatJobs], \A s \in Threads \ {t} : job'[s] = job[s],
           RequestKind(t)', Accepts(t)' => Accepts(t) /\ job'[t].invitation = job[t].invitation
    PROVE  SeatsTypeInv'
<1>1. SeatsTypeOK'
  BY DEF SeatsTypeInv, SeatsTypeOK, SeatJobs
<1>2. ASSUME NEW s \in Threads PROVE RequestKind(s)'
  <2>1. CASE s = t
    BY <2>1
  <2>2. CASE s # t
    BY <2>2 DEF SeatsTypeInv, RequestKind, Accepts
  <2> QED BY <2>1, <2>2
<1>3. UsesLeft'
  <2> SUFFICES ASSUME NEW i \in Invitations, uses[i] > 0
               PROVE  uses[i] + Cardinality(Holders(i)') <= Cardinality(Threads)
    BY DEF UsesLeft
  <2>1. Holders(i)' \subseteq Holders(i) /\ Holders(i) \in SUBSET Threads
    BY DEF Holders, Accepts
  <2>2. Cardinality(Holders(i)') <= Cardinality(Holders(i)) /\ Cardinality(Holders(i)') \in Nat
        /\ Cardinality(Holders(i)) \in Nat
    BY <2>1, HoldersFinite, FS_Subset, FS_CardinalityType
  <2>3. uses[i] + Cardinality(Holders(i)) <= Cardinality(Threads) /\ uses[i] \in Nat /\ Cardinality(Threads) \in Nat
    BY HoldersFinite DEF SeatsTypeInv, UsesLeft, SeatsTypeOK
  <2> QED BY <2>2, <2>3
<1> QED BY <1>1, <1>2, <1>3 DEF SeatsTypeInv, Pending

LEMMA SeatsTypeFinish ==
    ASSUME SeatsTypeInv, NEW t \in Threads, Finish(t), UNCHANGED <<invitation, limit, highest, uses, late>>,
           members' \subseteq Users, IsFiniteSet(members')
    PROVE  SeatsTypeInv'
<1>1. job \in [Threads -> SeatJobs]
  BY DEF SeatsTypeInv, SeatsTypeOK, SeatJobs
<1>2. job' \in [Threads -> SeatJobs] /\ job'[t] = Idle /\ \A s \in Threads \ {t} : job'[s] = job[s]
  BY <1>1, SeatIdle DEF Finish
<1>3. highest \in Nat
  BY LimitsAssumption DEF SeatsTypeInv, SeatsTypeOK
<1>4. RequestKind(t)' /\ ~Accepts(t)'
  BY <1>2, <1>3, SeatIdle DEF RequestKind, Accepts
<1> QED BY <1>2, <1>4, SeatsTypeThread

\* What a load leaves in the thread
LEMMA Loaded ==
    ASSUME SeatsTypeInv, NEW t \in Threads
    PROVE  /\ \A u \in Users : AddLoad(t, u) =>
                /\ job' \in [Threads -> SeatJobs] /\ \A s \in Threads \ {t} : job'[s] = job[s]
                /\ job[t].pc = "idle" /\ u \notin members
                /\ UNCHANGED <<members, invitation, limit, highest, uses, late>>
                /\ job'[t].pc = "limit_read" /\ job'[t].user = u /\ job'[t].invitation = None
                /\ job'[t].seat = TRUE /\ job'[t].count = 1 /\ job'[t].limit = limit
           /\ \A i \in Invitations : InviteLoad(t, i) =>
                /\ job' \in [Threads -> SeatJobs] /\ \A s \in Threads \ {t} : job'[s] = job[s]
                /\ job[t].pc = "idle" /\ invitation[i] = "none"
                /\ UNCHANGED <<members, invitation, limit, highest, uses, late>>
                /\ job'[t].pc = "limit_read" /\ job'[t].user = None /\ job'[t].invitation = i
                /\ job'[t].seat = FALSE /\ job'[t].count = 1 /\ job'[t].limit = limit
           /\ \A i \in Invitations : AcceptLoad(t, i) =>
                /\ job' \in [Threads -> SeatJobs] /\ \A s \in Threads \ {t} : job'[s] = job[s]
                /\ job[t].pc = "idle" /\ invitation[i] = "pending"
                /\ UNCHANGED <<members, invitation, limit, highest, uses, late>>
                /\ job'[t].pc = IF Email[i] \in members THEN "granted" ELSE "limit_read"
                /\ job'[t].user = Email[i] /\ job'[t].invitation = i
                /\ job'[t].seat = (Email[i] \notin members) /\ job'[t].count = 0 /\ job'[t].limit = limit
<1>1. job \in [Threads -> SeatJobs] /\ limit \in Limits
  BY DEF SeatsTypeInv, SeatsTypeOK, SeatJobs
<1>2. ASSUME NEW request \in SeatJobs, Load(t, request)
      PROVE  /\ job' \in [Threads -> SeatJobs] /\ \A s \in Threads \ {t} : job'[s] = job[s]
             /\ job[t].pc = "idle" /\ job'[t] = request
             /\ UNCHANGED <<members, invitation, limit, highest, uses, late>>
  BY <1>1, <1>2 DEF Load
<1>3. ASSUME NEW u \in Users, AddLoad(t, u)
      PROVE  /\ job' \in [Threads -> SeatJobs] /\ \A s \in Threads \ {t} : job'[s] = job[s]
             /\ job[t].pc = "idle" /\ u \notin members
             /\ UNCHANGED <<members, invitation, limit, highest, uses, late>>
             /\ job'[t].pc = "limit_read" /\ job'[t].user = u /\ job'[t].invitation = None
             /\ job'[t].seat = TRUE /\ job'[t].count = 1 /\ job'[t].limit = limit
  <2>1. PICK request : request = [Idle EXCEPT !.pc = "limit_read", !.user = u, !.seat = TRUE, !.count = 1, !.limit = limit]
    OBVIOUS
  <2>2. request \in SeatJobs
    BY <1>1, <2>1, SeatIdle DEF SeatJobs, SeatsPCs
  <2>3. /\ request.pc = "limit_read" /\ request.user = u /\ request.invitation = None
        /\ request.seat = TRUE /\ request.count = 1 /\ request.limit = limit
    BY <2>1, SeatIdle DEF SeatJobs
  <2>4. Load(t, request) /\ u \notin members
    BY <1>3, <2>1 DEF AddLoad
  <2> QED BY <1>2, <2>2, <2>3, <2>4
<1>4. ASSUME NEW i \in Invitations, InviteLoad(t, i)
      PROVE  /\ job' \in [Threads -> SeatJobs] /\ \A s \in Threads \ {t} : job'[s] = job[s]
             /\ job[t].pc = "idle" /\ invitation[i] = "none"
             /\ UNCHANGED <<members, invitation, limit, highest, uses, late>>
             /\ job'[t].pc = "limit_read" /\ job'[t].user = None /\ job'[t].invitation = i
             /\ job'[t].seat = FALSE /\ job'[t].count = 1 /\ job'[t].limit = limit
  <2>1. PICK request : request = [Idle EXCEPT !.pc = "limit_read", !.invitation = i, !.count = 1, !.limit = limit]
    OBVIOUS
  <2>2. request \in SeatJobs
    BY <1>1, <2>1, SeatIdle DEF SeatJobs, SeatsPCs
  <2>3. /\ request.pc = "limit_read" /\ request.user = None /\ request.invitation = i
        /\ request.seat = FALSE /\ request.count = 1 /\ request.limit = limit
    BY <2>1, SeatIdle DEF SeatJobs
  <2>4. Load(t, request) /\ invitation[i] = "none"
    BY <1>4, <2>1 DEF InviteLoad
  <2> QED BY <1>2, <2>2, <2>3, <2>4
<1>5. ASSUME NEW i \in Invitations, AcceptLoad(t, i)
      PROVE  /\ job' \in [Threads -> SeatJobs] /\ \A s \in Threads \ {t} : job'[s] = job[s]
             /\ job[t].pc = "idle" /\ invitation[i] = "pending"
             /\ UNCHANGED <<members, invitation, limit, highest, uses, late>>
             /\ job'[t].pc = IF Email[i] \in members THEN "granted" ELSE "limit_read"
             /\ job'[t].user = Email[i] /\ job'[t].invitation = i
             /\ job'[t].seat = (Email[i] \notin members) /\ job'[t].count = 0 /\ job'[t].limit = limit
  <2>1. PICK needed \in BOOLEAN : needed = (Email[i] \notin members)
    OBVIOUS
  <2>2. PICK step : step = IF Email[i] \in members THEN "granted" ELSE "limit_read"
    OBVIOUS
  <2>3. PICK u : u = Email[i]
    OBVIOUS
  <2>4. step \in SeatsPCs /\ u \in Users
    BY <2>2, <2>3, EmailAssumption DEF SeatsPCs
  <2>5. PICK request : request = [Idle EXCEPT !.pc = step, !.user = u, !.invitation = i, !.seat = needed, !.limit = limit]
    OBVIOUS
  <2>6. request \in SeatJobs
    BY <1>1, <2>4, <2>5, SeatIdle DEF SeatJobs
  <2>7. /\ request.pc = step /\ request.user = u /\ request.invitation = i
        /\ request.seat = needed /\ request.count = 0 /\ request.limit = limit
    BY <2>5, SeatIdle DEF SeatJobs
  <2>8. Load(t, request) /\ invitation[i] = "pending"
    BY <1>5, <2>1, <2>2, <2>3, <2>5 DEF AcceptLoad, Acceptable
  <2> QED BY <1>2, <2>1, <2>2, <2>3, <2>6, <2>7, <2>8
<1> QED BY <1>3, <1>4, <1>5

LEMMA SeatsTypeLoad ==
    ASSUME SeatsTypeInv, NEW t \in Threads,
           \/ \E u \in Users : AddLoad(t, u)
           \/ \E i \in Invitations : InviteLoad(t, i)
    PROVE  SeatsTypeInv'
<1>1. members \subseteq Users /\ limit <= highest /\ IsFiniteSet(members)
  BY DEF SeatsTypeInv, SeatsTypeOK
<1>2. ASSUME NEW u \in Users, AddLoad(t, u) PROVE SeatsTypeInv'
  <2>1. RequestKind(t)' /\ ~Accepts(t)'
    <3>1. /\ job'[t].pc # "idle" /\ job'[t].user = u /\ job'[t].invitation = None
          /\ job'[t].seat /\ job'[t].count = 1 /\ job'[t].limit = limit /\ highest' = highest
      BY <1>2, Loaded
    <3> QED BY <1>1, <3>1, NoneAssumption DEF RequestKind, Accepts
  <2> QED BY <1>1, <1>2, <2>1, Loaded, SeatsTypeThread
<1>3. ASSUME NEW i \in Invitations, InviteLoad(t, i) PROVE SeatsTypeInv'
  <2>1. RequestKind(t)' /\ ~Accepts(t)'
    <3>1. /\ job'[t].pc # "idle" /\ job'[t].user = None /\ job'[t].invitation = i
          /\ ~job'[t].seat /\ job'[t].count = 1 /\ job'[t].limit = limit /\ highest' = highest
      BY <1>3, Loaded
    <3> QED BY <1>1, <3>1, NoneAssumption DEF RequestKind, Accepts
  <2> QED BY <1>1, <1>3, <2>1, Loaded, SeatsTypeThread
<1> QED BY <1>2, <1>3

LEMMA SeatsTypeAcceptLoad ==
    ASSUME SeatsTypeInv, NEW t \in Threads, NEW i \in Invitations, AcceptLoad(t, i) PROVE SeatsTypeInv'
<1>1. /\ job' \in [Threads -> SeatJobs] /\ \A s \in Threads \ {t} : job'[s] = job[s]
      /\ invitation[i] = "pending"
      /\ UNCHANGED <<members, invitation, limit, highest, uses, late>>
      /\ job'[t].pc # "idle" /\ job'[t].user = Email[i] /\ job'[t].invitation = i
      /\ job'[t].count = 0 /\ job'[t].limit = limit
  BY Loaded
<1>2. Email[i] \in Users
  BY EmailAssumption
<1>3. SeatsTypeOK'
  BY <1>1 DEF SeatsTypeInv, SeatsTypeOK, SeatJobs
<1>4. ASSUME NEW s \in Threads PROVE RequestKind(s)'
  <2>1. CASE s = t
    <3>1. Accepts(t)'
      BY <1>1, <1>2, NoneAssumption DEF Accepts
    <3> QED BY <1>1, <2>1, <3>1, NoneAssumption DEF RequestKind, SeatsTypeInv
  <2>2. CASE s # t
    BY <1>1, <2>2 DEF SeatsTypeInv, RequestKind, Accepts
  <2> QED BY <2>1, <2>2
<1>5. UsesLeft'
  <2> SUFFICES ASSUME NEW j \in Invitations, uses[j] > 0
               PROVE  uses[j] + Cardinality(Holders(j)') <= Cardinality(Threads)
    BY <1>1 DEF UsesLeft
  <2>1. j # i
    BY <1>1 DEF SeatsTypeInv, SeatsTypeOK
  <2>2. Holders(j)' \subseteq Holders(j) /\ Holders(j) \in SUBSET Threads
    BY <1>1, <2>1 DEF Holders, Accepts
  <2>3. Cardinality(Holders(j)') <= Cardinality(Holders(j)) /\ Cardinality(Holders(j)') \in Nat
        /\ Cardinality(Holders(j)) \in Nat
    BY <2>2, HoldersFinite, FS_Subset, FS_CardinalityType
  <2>4. uses[j] + Cardinality(Holders(j)) <= Cardinality(Threads) /\ uses[j] \in Nat /\ Cardinality(Threads) \in Nat
    BY HoldersFinite DEF SeatsTypeInv, UsesLeft, SeatsTypeOK
  <2> QED BY <2>3, <2>4
<1> QED BY <1>1, <1>3, <1>4, <1>5 DEF SeatsTypeInv, Pending

LEMMA SeatsTypeCount ==
    ASSUME SeatsTypeInv, NEW t \in Threads, CountMembers(t) \/ CountPending(t)
    PROVE  SeatsTypeInv'
<1>1. job \in [Threads -> SeatJobs] /\ members \subseteq Users /\ IsFiniteSet(members)
  BY DEF SeatsTypeInv, SeatsTypeOK, SeatJobs
<1>2. ASSUME NEW step \in {"members_counted", "granted"}, NEW n \in Nat, job[t].pc # "idle",
             job' = [job EXCEPT ![t] = [job[t] EXCEPT !.pc = step, !.seen = n]],
             UNCHANGED <<members, invitation, limit, highest, uses, late>>
      PROVE  SeatsTypeInv'
  <2>1. [job[t] EXCEPT !.pc = step, !.seen = n] \in SeatJobs
    BY <1>1 DEF SeatJobs, SeatsPCs
  <2>2. /\ job' \in [Threads -> SeatJobs] /\ \A s \in Threads \ {t} : job'[s] = job[s]
        /\ job'[t].pc = step /\ job'[t].user = job[t].user /\ job'[t].invitation = job[t].invitation
        /\ job'[t].seat = job[t].seat /\ job'[t].count = job[t].count /\ job'[t].limit = job[t].limit
    BY <1>1, <1>2, <2>1 DEF SeatJobs
  <2>3. RequestKind(t)' /\ Accepts(t)' = Accepts(t)
    BY <1>2, <2>2 DEF SeatsTypeInv, RequestKind, Accepts
  <2> QED BY <1>1, <1>2, <2>2, <2>3, SeatsTypeThread
<1>3. CASE CountMembers(t)
  <2>1. PICK n : n = Cardinality(members)
    OBVIOUS
  <2>2. n \in Nat
    BY <1>1, <2>1, FS_CardinalityType
  <2>3. job' = [job EXCEPT ![t] = [job[t] EXCEPT !.pc = "members_counted", !.seen = n]]
    BY <1>1, <1>3, <2>1 DEF CountMembers, SeatJobs
  <2> QED BY <1>2, <1>3, <2>2, <2>3 DEF CountMembers
<1>4. CASE CountPending(t)
  <2>1. CASE Finish(t)
    BY <1>1, <1>4, <2>1, SeatsTypeFinish DEF CountPending
  <2>2. CASE job' = [job EXCEPT ![t].pc = "granted"]
    <3>1. job[t].seen \in Nat
      BY <1>1 DEF SeatJobs
    <3>2. job' = [job EXCEPT ![t] = [job[t] EXCEPT !.pc = "granted", !.seen = job[t].seen]]
      BY <1>1, <2>2 DEF SeatJobs
    <3> QED BY <1>2, <1>4, <3>1, <3>2 DEF CountPending
  <2> QED BY <1>4, <2>1, <2>2 DEF CountPending
<1> QED BY <1>3, <1>4

LEMMA SeatsTypeAdd ==
    ASSUME SeatsTypeInv, NEW t \in Threads, RollBack(t) \/ AddCommit(t) PROVE SeatsTypeInv'
<1>1. /\ members \subseteq Users /\ IsFiniteSet(members)
      /\ job[t].user \in Users \cup {None} /\ job[t].seat \in BOOLEAN /\ RequestKind(t)
  BY DEF SeatsTypeInv, SeatsTypeOK
<1>2. CASE RollBack(t)
  BY <1>1, <1>2, SeatsTypeFinish DEF RollBack
<1>3. CASE AddCommit(t)
  <2>1. members' = members \/ (members' = members \cup {job[t].user} /\ job[t].user \in Users)
    BY <1>1, <1>3 DEF AddCommit, Granted, RequestKind, Accepts, Seated
  <2>2. members' \subseteq Users /\ IsFiniteSet(members')
    BY <1>1, <2>1, FS_AddElement
  <2> QED BY <1>3, <2>2, SeatsTypeFinish DEF AddCommit
<1> QED BY <1>2, <1>3

\* A step that only moves invitations forward
LEMMA SeatsTypeRows ==
    ASSUME SeatsTypeInv, UNCHANGED <<limit, highest, uses, members>>, late' \in BOOLEAN,
           invitation' \in [Invitations -> InvitationStates], IsFiniteSet(Pending'),
           \A i \in Invitations : invitation[i] # "none" => invitation'[i] # "none",
           \A i \in Invitations : invitation[i] \in {"used", "revoked"} => invitation'[i] \in {"used", "revoked"},
           job' \in [Threads -> SeatJobs],
           \A s \in Threads : job'[s] = job[s] \/ job'[s] = Idle
    PROVE  SeatsTypeInv'
<1>1. SeatsTypeOK'
  BY DEF SeatsTypeInv, SeatsTypeOK, SeatJobs
<1>2. ASSUME NEW s \in Threads PROVE RequestKind(s)'
  <2>1. CASE job'[s] = job[s]
    BY <1>1, <2>1 DEF SeatsTypeInv, SeatsTypeOK, RequestKind, Accepts
  <2>2. CASE job'[s] = Idle
    <3>1. highest \in Nat
      BY LimitsAssumption DEF SeatsTypeInv, SeatsTypeOK
    <3> QED BY <2>2, <3>1, SeatIdle DEF RequestKind, Accepts
  <2> QED BY <2>1, <2>2
<1>3. UsesLeft'
  <2> SUFFICES ASSUME NEW i \in Invitations, uses[i] > 0
               PROVE  uses[i] + Cardinality(Holders(i)') <= Cardinality(Threads)
    BY DEF UsesLeft
  <2>1. Holders(i)' \subseteq Holders(i) /\ Holders(i) \in SUBSET Threads
    BY SeatIdle, NoneAssumption DEF Holders, Accepts
  <2>2. Cardinality(Holders(i)') <= Cardinality(Holders(i)) /\ Cardinality(Holders(i)') \in Nat
        /\ Cardinality(Holders(i)) \in Nat
    BY <2>1, HoldersFinite, FS_Subset, FS_CardinalityType
  <2>3. uses[i] + Cardinality(Holders(i)) <= Cardinality(Threads) /\ uses[i] \in Nat /\ Cardinality(Threads) \in Nat
    BY HoldersFinite DEF SeatsTypeInv, UsesLeft, SeatsTypeOK
  <2> QED BY <2>2, <2>3
<1> QED BY <1>1, <1>2, <1>3 DEF SeatsTypeInv

LEMMA SeatsTypeInvitations ==
    ASSUME SeatsTypeInv,
           \/ \E t \in Threads : InviteCommit(t)
           \/ \E i \in Invitations : RevokeInvitation(i) \/ InvitationExpires(i)
           \/ SeatsCrash
    PROVE  SeatsTypeInv'
<1>1. /\ job \in [Threads -> SeatJobs] /\ invitation \in [Invitations -> InvitationStates]
      /\ IsFiniteSet(Pending) /\ late \in BOOLEAN
  BY DEF SeatsTypeInv, SeatsTypeOK, SeatJobs
<1>2. ASSUME NEW t \in Threads, InviteCommit(t) PROVE SeatsTypeInv'
  <2>1. PICK i : i = job[t].invitation
    OBVIOUS
  <2>2. i \in Invitations
    BY <1>2, <2>1 DEF InviteCommit, Granted, SeatsTypeInv, SeatsTypeOK, RequestKind
  <2>3. /\ invitation[i] = "none" /\ invitation' = [invitation EXCEPT ![i] = "pending"]
        /\ UNCHANGED <<members, limit, highest, uses, late>>
        /\ job' = [job EXCEPT ![t] = Idle]
    BY <1>2, <2>1 DEF InviteCommit, Finish
  <2>4. invitation' \in [Invitations -> InvitationStates]
    BY <1>1, <2>3 DEF InvitationStates
  <2>5. Pending' = Pending \cup {i}
    BY <1>1, <2>2, <2>3 DEF Pending
  <2>6. job' \in [Threads -> SeatJobs] /\ \A s \in Threads : job'[s] = job[s] \/ job'[s] = Idle
    BY <1>1, <2>3, SeatIdle
  <2>7. IsFiniteSet(Pending')
    BY <1>1, <2>5, FS_AddElement
  <2>8. \A k \in Invitations : invitation[k] # "none" => invitation'[k] = invitation[k]
    BY <1>1, <2>3
  <2> QED BY <1>1, <2>3, <2>4, <2>6, <2>7, <2>8, SeatsTypeRows
<1>3. ASSUME NEW i \in Invitations, RevokeInvitation(i) \/ InvitationExpires(i) PROVE SeatsTypeInv'
  <2>1. /\ invitation'[i] \in {"expired", "revoked"} /\ invitation[i] # "none"
        /\ invitation[i] = "used" => invitation'[i] = "revoked"
        /\ invitation[i] # "revoked"
        /\ \A k \in Invitations \ {i} : invitation'[k] = invitation[k]
        /\ UNCHANGED <<members, limit, job, highest, uses, late>>
    BY <1>1, <1>3 DEF RevokeInvitation, InvitationExpires
  <2>2. invitation' \in [Invitations -> InvitationStates]
    BY <1>1, <1>3 DEF RevokeInvitation, InvitationExpires, InvitationStates
  <2>3. Pending' \in SUBSET Pending
    BY <2>1 DEF Pending
  <2>4. IsFiniteSet(Pending')
    BY <1>1, <2>3, FS_Subset
  <2> QED BY <1>1, <2>1, <2>2, <2>4, SeatsTypeRows
<1>4. CASE SeatsCrash
  <2>1. job' \in [Threads -> SeatJobs] /\ \A s \in Threads : job'[s] = Idle
    BY <1>4, SeatIdle DEF SeatsCrash
  <2>2. UNCHANGED <<members, limit, highest, uses, late, invitation>> /\ Pending' = Pending
    BY <1>4 DEF SeatsCrash, Pending
  <2> QED BY <1>1, <2>1, <2>2, SeatsTypeRows
<1> QED BY <1>2, <1>3, <1>4

LEMMA SeatsTypeAccept ==
    ASSUME SeatsTypeInv, NEW t \in Threads, AcceptCommit(t) PROVE SeatsTypeInv'
<1>1. PICK i : i = job[t].invitation
  OBVIOUS
<1>2. /\ i \in Invitations /\ t \in Holders(i) /\ job[t].user \in Users /\ job[t].seat \in BOOLEAN
  BY <1>1 DEF AcceptCommit, Accepts, Holders, SeatsTypeInv, SeatsTypeOK
<1>3. /\ job' = [job EXCEPT ![t] = Idle] /\ UNCHANGED <<limit, highest>>
      /\ invitation' = [invitation EXCEPT ![i] = "used"]
      /\ uses' = [uses EXCEPT ![i] = uses[i] + 1]
      /\ members' = members \/ members' = members \cup {job[t].user}
      /\ late' \in BOOLEAN
  BY <1>1 DEF AcceptCommit, Finish, Accepted, Seated
<1>4. /\ job \in [Threads -> SeatJobs] /\ invitation \in [Invitations -> InvitationStates]
      /\ IsFiniteSet(members) /\ IsFiniteSet(Pending) /\ members \subseteq Users
      /\ uses \in [Invitations -> 0..Cardinality(Threads)]
  BY DEF SeatsTypeInv, SeatsTypeOK, SeatJobs
<1>5. job' \in [Threads -> SeatJobs] /\ job'[t] = Idle /\ \A s \in Threads \ {t} : job'[s] = job[s]
  BY <1>3, <1>4, SeatIdle
<1>6. /\ invitation'[i] = "used" /\ \A k \in Invitations \ {i} : invitation'[k] = invitation[k]
      /\ invitation' \in [Invitations -> InvitationStates]
  BY <1>2, <1>3, <1>4 DEF InvitationStates
<1>7. uses'[i] = uses[i] + 1 /\ \A k \in Invitations \ {i} : uses'[k] = uses[k]
  BY <1>2, <1>3, <1>4
<1>8. uses'[i] + Cardinality(Holders(i)') <= Cardinality(Threads) /\ uses'[i] \in 0..Cardinality(Threads)
  <2>1. Holders(i)' \subseteq Holders(i) \ {t} /\ Holders(i) \in SUBSET Threads
    BY <1>2, <1>5, SeatIdle, NoneAssumption DEF Holders, Accepts
  <2>2. /\ Cardinality(Holders(i)') <= Cardinality(Holders(i)) - 1
        /\ Cardinality(Holders(i)') \in Nat /\ Cardinality(Holders(i)) \in Nat
        /\ Cardinality(Holders(i)) <= Cardinality(Threads) /\ Cardinality(Threads) \in Nat
    <3>1. IsFiniteSet(Holders(i)) /\ Cardinality(Holders(i)) \in Nat
          /\ Cardinality(Holders(i)) <= Cardinality(Threads) /\ Cardinality(Threads) \in Nat
      BY <2>1, HoldersFinite
    <3>2. IsFiniteSet(Holders(i) \ {t}) /\ Cardinality(Holders(i) \ {t}) = Cardinality(Holders(i)) - 1
      BY <1>2, <3>1, FS_RemoveElement
    <3>3. IsFiniteSet(Holders(i)') /\ Cardinality(Holders(i)') <= Cardinality(Holders(i) \ {t})
      BY <2>1, <3>2, FS_Subset
    <3> QED BY <3>1, <3>2, <3>3, FS_CardinalityType
  <2>3. uses[i] = 0 \/ uses[i] + Cardinality(Holders(i)) <= Cardinality(Threads)
    BY <1>2, <1>4 DEF SeatsTypeInv, UsesLeft
  <2>4. uses[i] \in Nat
    BY <1>2, <1>4
  <2> QED BY <1>7, <2>2, <2>3, <2>4
<1>9. members' \subseteq Users /\ IsFiniteSet(members')
  BY <1>2, <1>3, <1>4, FS_AddElement
<1>10. IsFiniteSet(Pending')
  <2>1. Pending' \in SUBSET Pending
    BY <1>2, <1>6 DEF Pending
  <2> QED BY <1>4, <2>1, FS_Subset
<1>11. uses' \in [Invitations -> 0..Cardinality(Threads)]
  <2>1. \A k \in Invitations : uses'[k] \in 0..Cardinality(Threads)
    BY <1>4, <1>7, <1>8
  <2> QED BY <1>3, <1>4, <2>1
<1>12. SeatsTypeOK'
  <2>1. \A k \in Invitations : uses'[k] > 0 => invitation'[k] \in {"used", "revoked"}
    BY <1>6, <1>7 DEF SeatsTypeInv, SeatsTypeOK
  <2> QED BY <1>3, <1>5, <1>6, <1>9, <1>11, <2>1 DEF SeatsTypeInv, SeatsTypeOK, SeatJobs
<1>13. ASSUME NEW s \in Threads PROVE RequestKind(s)'
  <2>1. CASE s = t
    <3>1. highest \in Nat
      BY LimitsAssumption DEF SeatsTypeInv, SeatsTypeOK
    <3> QED BY <1>3, <1>5, <2>1, <3>1, SeatIdle DEF RequestKind, Accepts
  <2>2. CASE s # t
    <3>1. Accepts(s) => job[s].invitation \in Invitations /\ invitation[job[s].invitation] # "none"
      BY DEF Accepts, SeatsTypeInv, SeatsTypeOK, RequestKind
    <3>2. Accepts(s) => invitation'[job[s].invitation] # "none"
      BY <1>6, <3>1
    <3> QED BY <1>3, <1>5, <2>2, <3>2 DEF SeatsTypeInv, RequestKind, Accepts
  <2> QED BY <2>1, <2>2
<1>14. UsesLeft'
  <2> SUFFICES ASSUME NEW k \in Invitations, uses'[k] > 0
               PROVE  uses'[k] + Cardinality(Holders(k)') <= Cardinality(Threads)
    BY DEF UsesLeft
  <2>1. CASE k = i
    BY <1>8, <2>1
  <2>2. CASE k # i
    <3>1. Holders(k)' \subseteq Holders(k) /\ Holders(k) \in SUBSET Threads
      BY <1>5, SeatIdle, NoneAssumption DEF Holders, Accepts
    <3>2. Cardinality(Holders(k)') <= Cardinality(Holders(k)) /\ Cardinality(Holders(k)') \in Nat
          /\ Cardinality(Holders(k)) \in Nat
      BY <3>1, HoldersFinite, FS_Subset, FS_CardinalityType
    <3>3. uses'[k] = uses[k] /\ uses[k] \in Nat /\ Cardinality(Threads) \in Nat
          /\ uses[k] + Cardinality(Holders(k)) <= Cardinality(Threads)
      BY <1>4, <1>7, <2>2, HoldersFinite DEF SeatsTypeInv, UsesLeft
    <3> QED BY <3>2, <3>3
  <2> QED BY <2>1, <2>2
<1> QED BY <1>3, <1>9, <1>10, <1>12, <1>13, <1>14 DEF SeatsTypeInv

LEMMA SeatsTypeOther ==
    ASSUME SeatsTypeInv,
           \/ \E u \in Users : RemoveMember(u)
           \/ \E l \in Limits : PlanChanges(l)
           \/ UNCHANGED seatsVars
    PROVE  SeatsTypeInv'
<1>1. UNCHANGED <<invitation, job, uses, late>>
  BY DEF RemoveMember, PlanChanges, seatsVars
<1>2. members' \subseteq Users /\ IsFiniteSet(members')
  <2>1. members' \in SUBSET members
    BY DEF RemoveMember, PlanChanges, seatsVars
  <2> QED BY <2>1, FS_Subset DEF SeatsTypeInv, SeatsTypeOK
<1>3. /\ limit' \in Limits /\ highest' \in Limits /\ limit' <= highest' /\ highest <= highest'
      /\ highest \in Nat /\ highest' \in Nat
  <2>1. limit \in Limits /\ highest \in Limits /\ limit <= highest
    BY DEF SeatsTypeInv, SeatsTypeOK
  <2> QED BY <2>1, LimitsAssumption DEF RemoveMember, PlanChanges, seatsVars
<1>4. SeatsTypeOK'
  BY <1>1, <1>2, <1>3 DEF SeatsTypeInv, SeatsTypeOK
<1>5. ASSUME NEW s \in Threads PROVE RequestKind(s)'
  <2>1. job[s].limit \in Limits \cup {0}
    BY DEF SeatsTypeInv, SeatsTypeOK
  <2>2. job[s].limit \in Nat
    <3>1. Limits \cup {0} \subseteq Nat
      BY LimitsAssumption
    <3> QED BY <2>1, <3>1
  <2>3. RequestKind(s)
    BY DEF SeatsTypeInv
  <2> QED BY <1>1, <1>3, <2>2, <2>3 DEF RequestKind, Accepts
<1>6. UsesLeft' /\ Pending' = Pending
  BY <1>1 DEF SeatsTypeInv, UsesLeft, Holders, Accepts, Pending
<1> QED BY <1>2, <1>3, <1>4, <1>5, <1>6 DEF SeatsTypeInv

LEMMA SeatsTypeStep == SeatsTypeInv /\ [SeatsNext]_seatsVars => SeatsTypeInv'
BY SeatsTypeLoad, SeatsTypeAcceptLoad, SeatsTypeCount, SeatsTypeAdd, SeatsTypeInvitations, SeatsTypeAccept,
   SeatsTypeOther DEF SeatsNext

\* The types of members and invitations, and that an invitation is accepted at most
\* once by each thread (accept_invitation, used_at).
THEOREM SeatsTypes == SeatsSpec => []SeatsTypeOK
<1>1. SeatsTypeInv => SeatsTypeOK
  BY DEF SeatsTypeInv
<1> QED BY <1>1, SeatsTypeInit, SeatsTypeStep, PTL DEF SeatsSpec

-----------------------------------------------------------------------------
(***************************************************************************)
(* The seat limit.  How far the workspace is over its limit is weighed     *)
(* against the threads that may still take a seat; the count of a thread   *)
(* that is about to decide is right for some number j of seats too many,   *)
(* so the invariant has a level for every j, and a step that frees a       *)
(* pending invitation's seat moves each level to the next.                 *)
(***************************************************************************)
\* Passes the count of pending invitations if j more seats than its limit are there
Counting(t, j) ==
    \/ job[t].pc = "granted"
    \/ /\ job[t].pc = "members_counted"
       /\ job[t].seen + Cardinality(Pending) + job[t].count <= job[t].limit + j

\* Accepts into the seat its invitation reserved, which nobody has taken
Reserving(t) == Accepts(t) /\ job[t].seat /\ invitation[job[t].invitation] \in {"pending", "expired"}

\* Accepts without a seat of its own to take: the user was a member when it read
\* the invitation, or the invitation has been used since
Returning(t) == Accepts(t) /\ (~job[t].seat \/ invitation[job[t].invitation] = "used")

Holding(j) == {t \in Threads : Counting(t, j) /\ (job[t].count = 1 \/ Reserving(t))}
Removed == {u \in Users \ members : \E t \in Threads : Returning(t) /\ job[t].user = u}
Fresh(j) == \E t \in Threads : Reserving(t) /\ Counting(t, j) /\ (j = 0 \/ ~Counting(t, j - 1))

Excess == Cardinality(members) + Cardinality(Pending) + Cardinality(Removed)
            - (highest + Cardinality(Threads))

\* With j seats more than the limit allows, what is taken and what the threads that
\* count on them may still take
SeatsLevel(j) == /\ Excess + Cardinality(Holding(j)) <= j
                 /\ late \/ Fresh(j) \/ Excess + Cardinality(Holding(j)) <= j - 1

SeatsInv == SeatsTypeInv /\ \A j \in Nat : SeatsLevel(j)

LEMMA HoldingFinite ==
    ASSUME NEW j \in Nat
    PROVE  IsFiniteSet(Holding(j)) /\ Cardinality(Holding(j)) \in Nat
BY HoldersFinite DEF Holding

\* A thread that holds a seat is not one that comes back for one
LEMMA Population ==
    ASSUME SeatsTypeInv, NEW j \in Nat
    PROVE  /\ IsFiniteSet(Removed) /\ Cardinality(Removed) \in Nat
           /\ Cardinality(Holding(j)) + Cardinality(Removed) <= Cardinality(Threads)
<1> DEFINE Back == {t \in Threads : Returning(t) /\ job[t].user \in Removed}
           who == [t \in Back |-> job[t].user]
<1>1. IsFiniteSet(Back) /\ Cardinality(Back) \in Nat
  BY HoldersFinite
<1>2. who \in Surjection(Back, Removed)
  BY DEF Surjection, Removed
<1>3. IsFiniteSet(Removed) /\ Cardinality(Removed) <= Cardinality(Back) /\ Cardinality(Removed) \in Nat
  <2> HIDE DEF who, Back
  <2> QED BY <1>1, <1>2, FS_Surjection, FS_CardinalityType
<1>4. Holding(j) \cap Back = {}
  <2> SUFFICES ASSUME NEW t \in Holding(j), Returning(t) PROVE FALSE
    OBVIOUS
  <2>1. job[t].pc # "idle" /\ t \in Threads
    BY DEF Holding, Counting
  <2>2. job[t].count # 1
    BY <2>1 DEF SeatsTypeInv, RequestKind, Returning
  <2>3. Reserving(t)
    BY <2>2 DEF Holding
  <2> QED BY <2>3 DEF Reserving, Returning
<1>5. Cardinality(Holding(j)) + Cardinality(Back) <= Cardinality(Threads)
  <2>1. /\ IsFiniteSet(Holding(j) \cup Back)
        /\ Cardinality(Holding(j) \cup Back)
             = Cardinality(Holding(j)) + Cardinality(Back) - Cardinality(Holding(j) \cap Back)
    <3> HIDE DEF Back
    <3> QED BY <1>1, HoldingFinite, FS_Union
  <2>2. Cardinality(Holding(j) \cap Back) = 0
    BY <1>4, FS_EmptySet
  <2>3. Cardinality(Holding(j) \cup Back) <= Cardinality(Threads)
    <3>1. Holding(j) \cup Back \in SUBSET Threads
      BY DEF Holding
    <3> QED BY <3>1, HoldersFinite
  <2> HIDE DEF Back
  <2> QED BY <1>1, <2>1, <2>2, <2>3, HoldingFinite
<1> HIDE DEF Back, who
<1> QED BY <1>1, <1>3, <1>5, HoldingFinite, HoldersFinite

LEMMA ExcessInt ==
    ASSUME SeatsTypeInv
    PROVE  /\ Excess \in Int /\ Cardinality(members) \in Nat /\ Cardinality(Pending) \in Nat
           /\ IsFiniteSet(Removed) /\ Cardinality(Removed) \in Nat /\ highest \in Nat
           /\ Cardinality(Threads) \in Nat
<1>1. /\ Cardinality(members) \in Nat /\ Cardinality(Pending) \in Nat
      /\ IsFiniteSet(Removed) /\ Cardinality(Removed) \in Nat
      /\ Cardinality(Threads) \in Nat
  BY Population, HoldersFinite, FS_CardinalityType DEF SeatsTypeInv
<1>2. highest \in Nat
  BY LimitsAssumption DEF SeatsTypeInv, SeatsTypeOK
<1> QED BY <1>1, <1>2 DEF Excess

\* How a step moves the excess when nobody is removed in it
LEMMA ExcessStep ==
    ASSUME SeatsTypeInv, SeatsTypeInv', Removed' \subseteq Removed
    PROVE  Excess' <= Excess + Cardinality(members') - Cardinality(members)
                        + Cardinality(Pending') - Cardinality(Pending)
                        + highest - highest'
<1>1. Cardinality(Removed') <= Cardinality(Removed)
  BY ExcessInt, FS_Subset
<1>2. /\ Cardinality(members) \in Nat /\ Cardinality(Pending) \in Nat
      /\ Cardinality(Removed) \in Nat /\ highest \in Nat
      /\ Cardinality(Threads) \in Nat
  BY ExcessInt
<1>3. /\ Cardinality(members') \in Nat /\ Cardinality(Pending') \in Nat
      /\ Cardinality(Removed') \in Nat /\ highest' \in Nat
  <2>1. /\ Cardinality(members') \in Nat /\ Cardinality(Pending') \in Nat
        /\ IsFiniteSet(Removed')
    BY ExcessInt, FS_CardinalityType, FS_Subset DEF SeatsTypeInv
  <2>2. highest' \in Nat
    BY LimitsAssumption DEF SeatsTypeInv, SeatsTypeOK
  <2> QED BY <2>1, <2>2, FS_CardinalityType
<1> QED BY <1>1, <1>2, <1>3 DEF Excess

\* The level after a step from one before it: it stands when the excess falls as far
\* as the level, and the thread that just fits still does or gave up its seat
LEMMA LevelKept ==
    ASSUME SeatsInv, SeatsTypeInv', Excess' \in Int, late => late',
           NEW j \in Nat, NEW k \in Nat, NEW M \in SUBSET Threads, Holding(j)' \subseteq M,
           Excess' - j + Cardinality(M) <= Excess - k + Cardinality(Holding(k)),
           \/ Excess' - j + Cardinality(M) <= Excess - k + Cardinality(Holding(k)) - 1
           \/ late'
           \/ Fresh(k) => Fresh(j)' \/ Holding(j)' # M
    PROVE  SeatsLevel(j)'
<1>1. /\ Cardinality(M) \in Nat /\ Cardinality(Holding(j)') \in Nat
      /\ Cardinality(Holding(j)') <= Cardinality(M)
      /\ Holding(j)' # M => Cardinality(Holding(j)') < Cardinality(M)
  BY HoldersFinite, FS_Subset, FS_CardinalityType
<1>2. Excess \in Int /\ Cardinality(Holding(k)) \in Nat
  BY ExcessInt, HoldingFinite DEF SeatsInv
<1>3. /\ Excess + Cardinality(Holding(k)) <= k
      /\ late \/ Fresh(k) \/ Excess + Cardinality(Holding(k)) <= k - 1
  BY DEF SeatsInv, SeatsLevel
<1>4. Excess' + Cardinality(Holding(j)') <= j
  BY <1>1, <1>2, <1>3
<1>5. late' \/ Fresh(j)' \/ Excess' + Cardinality(Holding(j)') <= j - 1
  BY <1>1, <1>2, <1>3
<1> QED BY <1>4, <1>5 DEF SeatsLevel
LEMMA PopulationNext ==
    ASSUME NEW j \in Nat
    PROVE  SeatsTypeInv' =>
               /\ IsFiniteSet(Removed') /\ Cardinality(Removed') \in Nat /\ Cardinality(Holding(j)') \in Nat
               /\ Cardinality(Holding(j)') + Cardinality(Removed') <= Cardinality(Threads)
<1>1. SeatsTypeInv => /\ IsFiniteSet(Removed) /\ Cardinality(Removed) \in Nat /\ Cardinality(Holding(j)) \in Nat
                      /\ Cardinality(Holding(j)) + Cardinality(Removed) <= Cardinality(Threads)
  BY Population, HoldingFinite
<1>2. (SeatsTypeInv => /\ IsFiniteSet(Removed) /\ Cardinality(Removed) \in Nat /\ Cardinality(Holding(j)) \in Nat
                       /\ Cardinality(Holding(j)) + Cardinality(Removed) <= Cardinality(Threads))'
  BY <1>1, PTL
<1> QED BY <1>2

LEMMA ExcessNext == SeatsTypeInv' => Excess' \in Int
<1>1. SeatsTypeInv => Excess \in Int
  BY ExcessInt
<1>2. (SeatsTypeInv => Excess \in Int)'
  BY <1>1, PTL
<1> QED BY <1>2

\* A thread that a step leaves alone, the invitations with it
LEMMA SeatAlone ==
    ASSUME NEW s \in Threads, job'[s] = job[s], invitation' = invitation
    PROVE  /\ Reserving(s)' <=> Reserving(s)
           /\ Returning(s)' <=> Returning(s)
           /\ \A j : Counting(s, j)' <=> Counting(s, j)
BY DEF Reserving, Returning, Counting, Accepts, Pending

\* A step of a thread that holds nothing afterwards which it did not hold before
LEMMA LevelThread ==
    ASSUME SeatsInv, SeatsTypeInv', NEW t \in Threads, NEW j \in Nat,
           invitation' = invitation, highest' = highest, late' = late, members \subseteq members',
           \A s \in Threads \ {t} : job'[s] = job[s],
           Returning(t)' => job'[t].user \in members' \/ (Returning(t) /\ job'[t].user = job[t].user),
           \/ Cardinality(members') = Cardinality(members)
           \/ t \in Holding(j) /\ Cardinality(members') = Cardinality(members) + 1 /\ ~Reserving(t),
           \/ t \notin Holding(j)'
           \/ /\ t \in Holding(j) /\ members' = members
              /\ Reserving(t) => Reserving(t)' /\ \A k \in Nat : Counting(t, k) /\ Counting(t, k)'
    PROVE  SeatsLevel(j)'
<1>1. Removed' \subseteq Removed
  <2> SUFFICES ASSUME NEW u \in Users \ members', NEW s \in Threads, Returning(s)', job'[s].user = u
               PROVE  u \in Removed
    BY DEF Removed
  <2>1. Returning(s) /\ job[s].user = u
    BY SeatAlone
  <2> QED BY <2>1 DEF Removed
<1>2. Pending' = Pending
  BY DEF Pending
<1>3. /\ Excess \in Int /\ Excess' \in Int /\ Cardinality(members) \in Nat /\ Cardinality(Pending) \in Nat
      /\ highest \in Nat /\ Cardinality(Holding(j)) \in Nat /\ IsFiniteSet(Holding(j))
  BY ExcessInt, ExcessNext, HoldingFinite DEF SeatsInv
<1>4. Excess' <= Excess + Cardinality(members') - Cardinality(members)
  <2>1. Excess' <= Excess + Cardinality(members') - Cardinality(members)
                        + Cardinality(Pending') - Cardinality(Pending)
                        + highest - highest'
    BY <1>1, ExcessStep DEF SeatsInv
  <2>2. Cardinality(members') \in Nat
    BY <1>3
  <2> QED BY <1>2, <1>3, <2>1, <2>2
<1>5. \A s \in Holding(j)' : s # t => s \in Holding(j)
  BY SeatAlone DEF Holding
<1>6. ASSUME NEW s \in Threads \ {t}, Reserving(s), Counting(s, j), j = 0 \/ ~Counting(s, j - 1)
      PROVE  Fresh(j)'
  BY <1>6, SeatAlone DEF Fresh
<1>7. CASE t \in Holding(j) /\ Cardinality(members') = Cardinality(members) + 1 /\ ~Reserving(t)
  <2>1. t \notin Holding(j)'
    BY <1>3, <1>7
  <2>2. PICK M \in SUBSET Threads : M = Holding(j) \ {t}
    BY DEF Holding
  <2>3. Holding(j)' \subseteq M /\ Cardinality(M) = Cardinality(Holding(j)) - 1
    BY <1>3, <1>5, <1>7, <2>1, <2>2, FS_RemoveElement DEF Holding
  <2>4. Fresh(j) => Fresh(j)'
    BY <1>6, <1>7 DEF Fresh
  <2>5. Excess' - j + Cardinality(M) <= Excess - j + Cardinality(Holding(j))
    BY <1>3, <1>4, <1>7, <2>3
  <2> QED BY <1>3, <2>3, <2>4, <2>5, LevelKept
<1>8. CASE Cardinality(members') = Cardinality(members)
  <2>1. Holding(j)' \subseteq Holding(j) /\ Holding(j) \in SUBSET Threads
    BY <1>5 DEF Holding
  <2>2. Excess' - j + Cardinality(Holding(j)) <= Excess - j + Cardinality(Holding(j))
    BY <1>3, <1>4, <1>8
  <2>3. Fresh(j) => Fresh(j)' \/ Holding(j)' # Holding(j)
    <3> SUFFICES ASSUME NEW s \in Threads, Reserving(s), Counting(s, j), j = 0 \/ ~Counting(s, j - 1)
                 PROVE  Fresh(j)' \/ Holding(j)' # Holding(j)
      BY DEF Fresh
    <3>1. CASE s # t
      BY <1>6, <3>1
    <3>2. CASE s = t
      <4>1. s \in Holding(j)
        BY DEF Holding
      <4>2. CASE j = 0 /\ s \in Holding(j)'
        BY <3>2, <4>1, <4>2 DEF Fresh
      <4>3. CASE j # 0 /\ s \in Holding(j)'
        <5>1. j - 1 \in Nat
          BY <4>3
        <5> QED BY <3>2, <4>3, <5>1
      <4> QED BY <4>1, <4>2, <4>3
    <3> QED BY <3>1, <3>2
  <2> QED BY <1>3, <2>1, <2>2, <2>3, LevelKept
<1> QED BY <1>7, <1>8

LEMMA LevelLoad ==
    ASSUME SeatsInv, SeatsTypeInv', NEW t \in Threads, NEW j \in Nat,
           \/ \E u \in Users : AddLoad(t, u)
           \/ \E i \in Invitations : InviteLoad(t, i) \/ AcceptLoad(t, i)
    PROVE  SeatsLevel(j)'
<1>1. SeatsTypeInv
  BY DEF SeatsInv
<1>2. Cardinality(members') = Cardinality(members) /\ members \subseteq members'
      /\ UNCHANGED <<invitation, highest, late>> /\ \A s \in Threads \ {t} : job'[s] = job[s]
  BY <1>1, Loaded
<1>3. CASE \E u \in Users : AddLoad(t, u)
  <2>1. job'[t].pc = "limit_read" /\ job'[t].invitation = None
    BY <1>1, <1>3, Loaded
  <2>2. ~Returning(t)' /\ t \notin Holding(j)'
    BY <2>1 DEF Returning, Accepts, Holding, Counting
  <2> QED BY <1>2, <2>2, LevelThread
<1>4. CASE \E i \in Invitations : InviteLoad(t, i)
  <2>1. job'[t].pc = "limit_read" /\ job'[t].user = None
    BY <1>1, <1>4, Loaded
  <2>2. ~Returning(t)' /\ t \notin Holding(j)'
    BY <2>1 DEF Returning, Accepts, Holding, Counting
  <2> QED BY <1>2, <2>2, LevelThread
<1>5. CASE \E i \in Invitations : AcceptLoad(t, i)
  <2> PICK i \in Invitations : AcceptLoad(t, i)
    BY <1>5
  <2>1. /\ Email[i] \notin members => job'[t].pc = "limit_read"
        /\ job'[t].user = Email[i] /\ job'[t].invitation = i /\ job'[t].count = 0
        /\ job'[t].seat <=> (Email[i] \notin members)
        /\ invitation'[i] = "pending" /\ members' = members
    <3>1. /\ job'[t].pc = IF Email[i] \in members THEN "granted" ELSE "limit_read"
          /\ job'[t].user = Email[i] /\ job'[t].invitation = i /\ job'[t].count = 0
          /\ job'[t].seat = (Email[i] \notin members)
          /\ invitation[i] = "pending" /\ invitation' = invitation /\ members' = members
      BY <1>1, Loaded
    <3> QED BY <3>1
  <2>2. t \notin Holding(j)'
    <3>1. CASE Email[i] \in members
      BY <2>1, <3>1 DEF Holding, Reserving
    <3>2. CASE Email[i] \notin members
      BY <2>1, <3>2 DEF Holding, Counting
    <3> QED BY <3>1, <3>2
  <2>3. Returning(t)' => job'[t].user \in members'
    BY <2>1 DEF Returning
  <2> QED BY <1>2, <2>2, <2>3, LevelThread
<1> QED BY <1>3, <1>4, <1>5

LEMMA LevelCountMembers ==
    ASSUME SeatsInv, SeatsTypeInv', NEW t \in Threads, NEW j \in Nat, CountMembers(t)
    PROVE  SeatsLevel(j)'
<1>1. job \in [Threads -> SeatJobs] /\ SeatsTypeInv
  BY DEF SeatsInv, SeatsTypeInv, SeatsTypeOK, SeatJobs
<1>2. /\ \A s \in Threads \ {t} : job'[s] = job[s]
      /\ job'[t].pc = "members_counted" /\ job'[t].user = job[t].user /\ job'[t].invitation = job[t].invitation
      /\ job'[t].seat = job[t].seat /\ job'[t].count = job[t].count /\ job'[t].limit = job[t].limit
      /\ job'[t].seen = Cardinality(members) /\ job[t].pc = "limit_read"
      /\ UNCHANGED <<members, invitation, limit, highest, uses, late>>
  BY <1>1 DEF CountMembers, SeatJobs
<1>3. Returning(t)' => Returning(t)
  BY <1>2 DEF Returning, Accepts
<1>4. CASE t \notin Holding(j)'
  BY <1>2, <1>3, <1>4, LevelThread
<1>5. CASE t \in Holding(j)'
  <2>1. /\ Cardinality(members) \in Nat /\ Cardinality(Pending) \in Nat /\ highest \in Nat
        /\ Cardinality(Threads) \in Nat /\ job[t].limit \in Nat /\ job[t].limit <= highest
        /\ job[t].count \in {0, 1}
    <3>1. Limits \cup {0} \subseteq Nat
      BY LimitsAssumption
    <3>2. job[t].limit \in Limits \cup {0} /\ job[t].count \in {0, 1}
      BY <1>1 DEF SeatJobs
    <3> QED BY <1>1, <3>1, <3>2, ExcessInt DEF SeatsTypeInv, RequestKind
  <2>2. /\ IsFiniteSet(Removed') /\ Cardinality(Removed') \in Nat /\ Cardinality(Holding(j)') \in Nat
        /\ Cardinality(Holding(j)') + Cardinality(Removed') <= Cardinality(Threads)
    BY PopulationNext
  <2>3. Pending' = Pending
    BY <1>2 DEF Pending
  <2>4. ASSUME NEW k \in Int, Counting(t, k)'
        PROVE  Cardinality(members) + Cardinality(Pending) + job[t].count <= highest + k
    <3>1. Cardinality(members) + Cardinality(Pending) + job[t].count <= job[t].limit + k
      BY <1>2, <2>3, <2>4 DEF Counting
    <3> QED BY <2>1, <3>1
  <2>5. Cardinality(members) + Cardinality(Pending) + job[t].count <= highest + j
    BY <1>5, <2>4 DEF Holding
  <2>6. ASSUME NEW n \in Int, Cardinality(members) + Cardinality(Pending) <= highest + n
        PROVE  Excess' + Cardinality(Holding(j)') <= n
    BY <1>2, <2>1, <2>2, <2>3, <2>6 DEF Excess
  <2>7. Excess' + Cardinality(Holding(j)') <= j
    BY <2>1, <2>5, <2>6
  <2>8. CASE job[t].count = 1
    <3>1. Cardinality(members) + Cardinality(Pending) <= highest + (j - 1)
      BY <2>1, <2>5, <2>8
    <3> QED BY <2>6, <2>7, <3>1 DEF SeatsLevel
  <2>9. CASE job[t].count # 1 /\ Counting(t, j - 1)'
    <3>1. Cardinality(members) + Cardinality(Pending) <= highest + (j - 1)
      BY <2>1, <2>4, <2>9
    <3> QED BY <2>6, <2>7, <3>1 DEF SeatsLevel
  <2>10. CASE job[t].count # 1 /\ ~Counting(t, j - 1)'
    <3>1. Reserving(t)' /\ Counting(t, j)'
      BY <1>2, <1>5, <2>10 DEF Holding
    <3>2. Fresh(j)'
      BY <2>10, <3>1 DEF Fresh
    <3> QED BY <2>7, <3>2 DEF SeatsLevel
  <2> QED BY <2>8, <2>9, <2>10
<1> QED BY <1>4, <1>5

\* A request that is refused or rolled back
LEMMA LevelLeave ==
    ASSUME SeatsInv, SeatsTypeInv', NEW t \in Threads, NEW j \in Nat, Finish(t),
           UNCHANGED <<members, invitation, highest, late>>
    PROVE  SeatsLevel(j)'
<1>1. job \in [Threads -> SeatJobs]
  BY DEF SeatsInv, SeatsTypeInv, SeatsTypeOK, SeatJobs
<1>2. job'[t] = Idle /\ \A s \in Threads \ {t} : job'[s] = job[s]
  BY <1>1 DEF Finish
<1>3. ~Returning(t)' /\ t \notin Holding(j)'
  BY <1>2, SeatIdle DEF Returning, Accepts, Holding, Counting
<1> QED BY <1>2, <1>3, LevelThread

LEMMA LevelCountPending ==
    ASSUME SeatsInv, SeatsTypeInv', NEW t \in Threads, NEW j \in Nat, CountPending(t)
    PROVE  SeatsLevel(j)'
<1>1. job \in [Threads -> SeatJobs] /\ SeatsTypeInv
  BY DEF SeatsInv, SeatsTypeInv, SeatsTypeOK, SeatJobs
<1>2. CASE Finish(t)
  BY <1>2, LevelLeave DEF CountPending
<1>3. CASE ~Finish(t)
  <2>1. /\ \A s \in Threads \ {t} : job'[s] = job[s]
        /\ job'[t].pc = "granted" /\ job'[t].user = job[t].user /\ job'[t].invitation = job[t].invitation
        /\ job'[t].seat = job[t].seat /\ job'[t].count = job[t].count
        /\ job[t].pc = "members_counted"
        /\ job[t].seen + Cardinality(Pending) + job[t].count <= job[t].limit
        /\ UNCHANGED <<members, invitation, limit, highest, uses, late>>
    BY <1>1, <1>3 DEF CountPending, UsedSeats, SeatJobs
  <2>2. /\ Returning(t)' => Returning(t)
        /\ Reserving(t)' <=> Reserving(t)
    BY <2>1 DEF Returning, Reserving, Accepts
  <2>3. \A k \in Nat : Counting(t, k) /\ Counting(t, k)'
    <3>1. Cardinality(Pending) \in Nat /\ job[t].seen \in Nat /\ job[t].count \in Nat /\ job[t].limit \in Nat
      <4>1. Limits \cup {0} \subseteq Nat
        BY LimitsAssumption
      <4>2. job[t].seen \in Nat /\ job[t].limit \in Limits \cup {0} /\ job[t].count \in {0, 1}
        BY <1>1 DEF SeatJobs
      <4> QED BY <1>1, <4>1, <4>2, ExcessInt
    <3> QED BY <2>1, <3>1 DEF Counting
  <2>4. t \in Holding(j)' => t \in Holding(j)
    BY <2>1, <2>2, <2>3 DEF Holding
  <2> QED BY <2>1, <2>2, <2>3, <2>4, LevelThread
<1> QED BY <1>2, <1>3

LEMMA LevelAdd ==
    ASSUME SeatsInv, SeatsTypeInv', NEW t \in Threads, NEW j \in Nat, RollBack(t) \/ AddCommit(t)
    PROVE  SeatsLevel(j)'
<1>1. CASE RollBack(t)
  BY <1>1, LevelLeave DEF RollBack
<1>2. CASE AddCommit(t)
  <2>1. /\ SeatsTypeInv /\ job \in [Threads -> SeatJobs] /\ IsFiniteSet(members) /\ RequestKind(t)
        /\ job[t].pc = "granted" /\ job[t].invitation = None
    BY <1>2 DEF SeatsInv, SeatsTypeInv, SeatsTypeOK, SeatJobs, AddCommit, Granted
  <2>2. job[t].seat /\ job[t].count = 1 /\ ~Reserving(t)
    BY <2>1 DEF RequestKind, Accepts, Reserving
  <2>3. members' = members \cup {job[t].user} /\ job[t].user \notin members
    BY <1>2, <2>2 DEF AddCommit, Seated, Conflict
  <2>4. Cardinality(members') = Cardinality(members) + 1
    BY <2>1, <2>3, FS_AddElement
  <2>5. job'[t] = Idle /\ \A s \in Threads \ {t} : job'[s] = job[s]
    BY <1>2, <2>1 DEF AddCommit, Finish
  <2>6. t \in Holding(j) /\ t \notin Holding(j)' /\ ~Returning(t)'
    BY <2>1, <2>2, <2>5, SeatIdle DEF Holding, Counting, Returning, Accepts
  <2>7. UNCHANGED <<invitation, highest, late>>
    BY <1>2 DEF AddCommit
  <2> QED BY <2>2, <2>3, <2>4, <2>5, <2>6, <2>7, LevelThread
<1> QED BY <1>1, <1>2

LEMMA LevelInvite ==
    ASSUME SeatsInv, SeatsTypeInv', NEW t \in Threads, NEW j \in Nat, InviteCommit(t)
    PROVE  SeatsLevel(j)'
<1>1. /\ SeatsTypeInv /\ job \in [Threads -> SeatJobs] /\ invitation \in [Invitations -> InvitationStates]
      /\ IsFiniteSet(Pending) /\ RequestKind(t)
      /\ job[t].pc = "granted" /\ job[t].user = None
  BY DEF SeatsInv, SeatsTypeInv, SeatsTypeOK, SeatJobs, InviteCommit, Granted
<1>2. PICK i \in Invitations : i = job[t].invitation
  BY <1>1 DEF RequestKind, SeatJobs
<1>3. /\ invitation[i] = "none" /\ invitation'[i] = "pending"
      /\ \A k \in Invitations \ {i} : invitation'[k] = invitation[k]
      /\ UNCHANGED <<members, limit, highest, uses, late>>
      /\ job'[t] = Idle /\ \A s \in Threads \ {t} : job'[s] = job[s]
  BY <1>1, <1>2 DEF InviteCommit, Finish
<1>4. Pending' = Pending \cup {i} /\ i \notin Pending
  BY <1>2, <1>3 DEF Pending
<1>5. Cardinality(Pending') = Cardinality(Pending) + 1
  BY <1>1, <1>4, FS_AddElement
<1>6. ASSUME NEW s \in Threads PROVE Accepts(s) => job[s].invitation \in Invitations \ {i}
  BY <1>1, <1>3 DEF SeatsTypeInv, RequestKind, Accepts, SeatJobs
<1>7. ASSUME NEW s \in Threads \ {t}
      PROVE  (Reserving(s)' <=> Reserving(s)) /\ (Returning(s)' <=> Returning(s))
  BY <1>3, <1>6 DEF Reserving, Returning, Accepts
<1>8. ~Reserving(t) /\ ~Reserving(t)' /\ ~Returning(t)' /\ \A k : ~Counting(t, k)'
  BY <1>1, <1>3, SeatIdle DEF Reserving, Returning, Accepts, Counting
<1>9. ASSUME NEW k \in Nat PROVE t \in Holding(k)
  BY <1>1 DEF Holding, Counting, RequestKind, Accepts
<1>10. Removed' \subseteq Removed
  BY <1>3, <1>7, <1>8 DEF Removed
<1>11. /\ Excess \in Int /\ Excess' \in Int /\ Cardinality(members) \in Nat /\ Cardinality(Pending) \in Nat
       /\ highest \in Nat
  BY <1>1, ExcessInt, ExcessNext
<1>12. Excess' <= Excess + 1
  <2>1. Excess' <= Excess + Cardinality(members') - Cardinality(members)
                        + Cardinality(Pending') - Cardinality(Pending)
                        + highest - highest'
    BY <1>1, <1>10, ExcessStep
  <2> QED BY <1>3, <1>5, <1>11, <2>1
<1>13. ASSUME NEW s \in Threads \ {t}, NEW k \in Int PROVE Counting(s, k)' <=> Counting(s, k - 1) \/ job[s].pc = "granted"
  <2>1. job[s].seen \in Nat /\ job[s].count \in Nat /\ job[s].limit \in Nat
    <3>1. Limits \cup {0} \subseteq Nat
      BY LimitsAssumption
    <3>2. job[s].seen \in Nat /\ job[s].limit \in Limits \cup {0} /\ job[s].count \in {0, 1}
      BY <1>1 DEF SeatJobs
    <3> QED BY <3>1, <3>2
  <2> QED BY <1>3, <1>5, <1>11, <2>1 DEF Counting
<1>14. ASSUME NEW k \in Nat, NEW M, M = Holding(k) \ {t}
       PROVE  M \in SUBSET Threads /\ Cardinality(M) = Cardinality(Holding(k)) - 1
  BY <1>9, <1>14, HoldingFinite, FS_RemoveElement DEF Holding
<1>15. CASE j # 0
  <2>1. PICK k \in Nat : k = j - 1
    BY <1>15
  <2>2. PICK M : M = Holding(k) \ {t}
    OBVIOUS
  <2>3. Holding(j)' \subseteq M
    BY <1>3, <1>7, <1>8, <1>13, <2>1, <2>2 DEF Holding, Counting
  <2>4. Cardinality(Holding(k)) \in Nat
    BY HoldingFinite
  <2>5. Excess' - j + Cardinality(M) <= Excess - k + Cardinality(Holding(k)) - 1
    BY <1>11, <1>12, <1>14, <2>1, <2>2, <2>4
  <2>6. Excess' - j + Cardinality(M) <= Excess - k + Cardinality(Holding(k))
    BY <1>11, <1>14, <2>1, <2>2, <2>4, <2>5
  <2> QED BY <1>3, <1>11, <1>14, <2>2, <2>3, <2>5, <2>6, LevelKept
<1>16. CASE j = 0
  <2>1. PICK M : M = Holding(j) \ {t}
    OBVIOUS
  <2>2. ASSUME NEW s \in Threads \ {t}, Counting(s, j)' PROVE Counting(s, j)
    <3>1. Counting(s, j - 1) \/ job[s].pc = "granted"
      BY <1>13, <2>2
    <3>2. job[s].seen \in Nat /\ job[s].count \in Nat /\ job[s].limit \in Nat
      <4>1. Limits \cup {0} \subseteq Nat
        BY LimitsAssumption
      <4>2. job[s].seen \in Nat /\ job[s].limit \in Limits \cup {0} /\ job[s].count \in {0, 1}
        BY <1>1 DEF SeatJobs
      <4> QED BY <4>1, <4>2
    <3> QED BY <1>11, <3>1, <3>2 DEF Counting
  <2>3. Holding(j)' \subseteq M
    BY <1>3, <1>7, <1>8, <2>1, <2>2 DEF Holding
  <2>4. Cardinality(Holding(j)) \in Nat
    BY HoldingFinite
  <2>5. Excess' - j + Cardinality(M) <= Excess - j + Cardinality(Holding(j))
    BY <1>11, <1>12, <1>14, <2>1, <2>4
  <2>6. Fresh(j) => Fresh(j)' \/ Holding(j)' # M
    <3> SUFFICES ASSUME NEW s \in Threads, Reserving(s), Counting(s, j), Holding(j)' = M PROVE Fresh(j)'
      BY DEF Fresh
    <3>1. s # t
      BY <1>8
    <3>2. s \in M
      BY <2>1, <3>1 DEF Holding
    <3>3. Counting(s, j)' /\ Reserving(s)'
      BY <1>7, <3>1, <3>2 DEF Holding
    <3> QED BY <1>16, <3>3 DEF Fresh
  <2> QED BY <1>3, <1>11, <1>14, <2>1, <2>3, <2>5, <2>6, LevelKept
<1> QED BY <1>15, <1>16

\* Who holds a seat of an invitation asks for no other
LEMMA HoldsOne ==
    ASSUME SeatsTypeInv, NEW s \in Threads, NEW j \in Int, Reserving(s), Counting(s, j)
    PROVE  job[s].count # 1
BY DEF SeatsTypeInv, RequestKind, Reserving, Counting

\* A step after which no thread holds a seat that it did not hold before
LEMMA LevelFewer ==
    ASSUME SeatsInv, SeatsTypeInv', NEW j \in Nat, Pending' = Pending, Excess' <= Excess, late => late',
           \A s \in Threads : job'[s] = job[s] \/ job'[s] = Idle,
           \A s \in Threads : Reserving(s)' => Reserving(s)
    PROVE  SeatsLevel(j)'
<1>1. Excess \in Int /\ Excess' \in Int /\ Cardinality(Holding(j)) \in Nat
  BY ExcessInt, ExcessNext, HoldingFinite DEF SeatsInv
<1>2. ASSUME NEW s \in Threads, job'[s] = Idle PROVE \A k : ~Counting(s, k)'
  BY <1>2, SeatIdle DEF Counting
<1>3. ASSUME NEW s \in Threads, job'[s] = job[s] PROVE \A k : Counting(s, k)' <=> Counting(s, k)
  BY <1>3 DEF Counting
<1>4. Holding(j)' \subseteq Holding(j) /\ Holding(j) \in SUBSET Threads
  BY <1>2, <1>3 DEF Holding
<1>5. Fresh(j) => Fresh(j)' \/ Holding(j)' # Holding(j)
  <2> SUFFICES ASSUME NEW s \in Threads, Reserving(s), Counting(s, j), j = 0 \/ ~Counting(s, j - 1)
               PROVE  Fresh(j)' \/ Holding(j)' # Holding(j)
    BY DEF Fresh
  <2>1. s \in Holding(j) /\ job[s].count # 1
    BY HoldsOne DEF Holding, SeatsInv
  <2>2. CASE job'[s] = Idle
    <3>1. s \notin Holding(j)'
      BY <1>2, <2>2 DEF Holding
    <3> QED BY <2>1, <3>1
  <2>3. CASE job'[s] = job[s] /\ Reserving(s)'
    BY <1>3, <2>3 DEF Fresh
  <2>4. CASE job'[s] = job[s] /\ ~Reserving(s)'
    <3>1. s \notin Holding(j)'
      BY <2>1, <2>4 DEF Holding
    <3> QED BY <2>1, <3>1
  <2> QED BY <2>2, <2>3, <2>4
<1>6. Excess' - j + Cardinality(Holding(j)) <= Excess - j + Cardinality(Holding(j))
  BY <1>1
<1> QED BY <1>1, <1>4, <1>5, <1>6, LevelKept

\* A pending invitation that is accepted, revoked or expires gives the others one seat
LEMMA LevelUnpended ==
    ASSUME SeatsInv, SeatsTypeInv', NEW j \in Nat, NEW i \in Invitations, NEW t \in Threads,
           invitation[i] = "pending", invitation'[i] # "pending",
           \A k \in Invitations \ {i} : invitation'[k] = invitation[k],
           highest' = highest, late => late', Removed' \subseteq Removed,
           \A s \in Threads \ {t} : job'[s] = job[s], job'[t] = job[t] \/ job'[t] = Idle,
           \/ Cardinality(members') = Cardinality(members)
           \/ /\ Cardinality(members') = Cardinality(members) + 1
              /\ job'[t] = Idle /\ job[t].pc = "granted" /\ Reserving(t)
    PROVE  SeatsLevel(j)'
<1>1. /\ SeatsTypeInv /\ job \in [Threads -> SeatJobs] /\ IsFiniteSet(Pending)
  BY DEF SeatsInv, SeatsTypeInv, SeatsTypeOK, SeatJobs
<1>2. Pending' = Pending \ {i} /\ i \in Pending
  BY DEF Pending
<1>3. Cardinality(Pending') = Cardinality(Pending) - 1
  BY <1>1, <1>2, FS_RemoveElement
<1>4. /\ Excess \in Int /\ Excess' \in Int /\ Cardinality(members) \in Nat /\ Cardinality(Pending) \in Nat
      /\ highest \in Nat
  BY <1>1, ExcessInt, ExcessNext
<1>5. Excess' <= Excess + Cardinality(members') - Cardinality(members) - 1
  <2>1. Excess' <= Excess + Cardinality(members') - Cardinality(members)
                        + Cardinality(Pending') - Cardinality(Pending)
                        + highest - highest'
    BY <1>1, ExcessStep
  <2>2. Cardinality(members') \in Nat
    BY <1>4
  <2> QED BY <1>3, <1>4, <2>1, <2>2
<1>6. PICK k \in Nat : k = j + 1
  OBVIOUS
<1>7. Cardinality(Holding(k)) \in Nat /\ IsFiniteSet(Holding(k)) /\ Holding(k) \in SUBSET Threads
  BY HoldingFinite DEF Holding
<1>8. ASSUME NEW s \in Threads, job'[s] = Idle PROVE (\A n : ~Counting(s, n)') /\ ~Reserving(s)'
  BY <1>8, SeatIdle DEF Counting, Reserving, Accepts
<1>9. ASSUME NEW s \in Threads, job'[s] = job[s], NEW n \in Int
      PROVE  Counting(s, n)' <=> Counting(s, n + 1)
  <2>1. job[s].seen \in Nat /\ job[s].count \in Nat /\ job[s].limit \in Nat
    <3>1. Limits \cup {0} \subseteq Nat
      BY LimitsAssumption
    <3>2. job[s].seen \in Nat /\ job[s].limit \in Limits \cup {0} /\ job[s].count \in {0, 1}
      BY <1>1 DEF SeatJobs
    <3> QED BY <3>1, <3>2
  <2> QED BY <1>3, <1>4, <1>9, <2>1 DEF Counting
<1>10. ASSUME NEW s \in Threads, job'[s] = job[s], Reserving(s)' PROVE Reserving(s)
  <2>1. Accepts(s) /\ job[s].invitation \in Invitations /\ job[s].seat
        /\ invitation'[job[s].invitation] \in {"pending", "expired"}
    BY <1>1, <1>10 DEF Reserving, Accepts, SeatJobs
  <2>2. invitation[job[s].invitation] \in {"pending", "expired"}
    BY <2>1
  <2> QED BY <2>1, <2>2 DEF Reserving
<1>11. Holding(j)' \subseteq Holding(k)
  BY <1>6, <1>8, <1>9, <1>10 DEF Holding
<1>12. ASSUME NEW s \in Threads, Reserving(s), Counting(s, k), ~Counting(s, j), job'[s] = job[s]
       PROVE  s \in Holding(k) /\ (Fresh(j)' \/ s \notin Holding(j)')
  <2>1. s \in Holding(k) /\ job[s].count # 1
    BY <1>1, <1>12, HoldsOne DEF Holding
  <2>2. CASE ~Reserving(s)'
    BY <1>12, <2>1, <2>2 DEF Holding
  <2>3. CASE Reserving(s)'
    <3>1. Counting(s, j)'
      BY <1>6, <1>9, <1>12
    <3>2. j = 0 \/ ~Counting(s, j - 1)'
      <4>1. Counting(s, j - 1)' <=> Counting(s, (j - 1) + 1)
        BY <1>9, <1>12
      <4>2. (j - 1) + 1 = j
        OBVIOUS
      <4> QED BY <1>12, <4>1, <4>2
    <3> QED BY <2>1, <2>3, <3>1, <3>2 DEF Fresh
  <2> QED BY <2>2, <2>3
<1>13. CASE Cardinality(members') = Cardinality(members)
  <2>1. Excess' - j + Cardinality(Holding(k)) <= Excess - k + Cardinality(Holding(k))
    BY <1>4, <1>5, <1>6, <1>7, <1>13
  <2>2. Fresh(k) => Fresh(j)' \/ Holding(j)' # Holding(k)
    <3> SUFFICES ASSUME NEW s \in Threads, Reserving(s), Counting(s, k), ~Counting(s, j)
                 PROVE  Fresh(j)' \/ Holding(j)' # Holding(k)
      BY <1>6 DEF Fresh
    <3>1. CASE job'[s] = job[s]
      BY <1>12, <3>1
    <3>2. CASE job'[s] = Idle
      <4>1. s \in Holding(k) /\ s \notin Holding(j)'
        BY <1>8, <3>2 DEF Holding
      <4> QED BY <4>1
    <3> QED BY <3>1, <3>2
  <2> QED BY <1>4, <1>7, <1>11, <2>1, <2>2, LevelKept
<1>14. CASE /\ Cardinality(members') = Cardinality(members) + 1
            /\ job'[t] = Idle /\ job[t].pc = "granted" /\ Reserving(t)
  <2>1. PICK M \in SUBSET Threads : M = Holding(k) \ {t}
    BY <1>7
  <2>2. t \in Holding(k) /\ t \notin Holding(j)' /\ Counting(t, j)
    BY <1>8, <1>14 DEF Holding, Counting
  <2>3. Holding(j)' \subseteq M /\ Cardinality(M) = Cardinality(Holding(k)) - 1
    BY <1>7, <1>11, <2>1, <2>2, FS_RemoveElement
  <2>4. Excess' - j + Cardinality(M) <= Excess - k + Cardinality(Holding(k))
    BY <1>4, <1>5, <1>6, <1>7, <1>14, <2>3
  <2>5. Fresh(k) => Fresh(j)' \/ Holding(j)' # M
    <3> SUFFICES ASSUME NEW s \in Threads, Reserving(s), Counting(s, k), ~Counting(s, j)
                 PROVE  Fresh(j)' \/ Holding(j)' # M
      BY <1>6 DEF Fresh
    <3>1. s # t
      BY <2>2
    <3> QED BY <1>12, <2>1, <3>1
  <2> QED BY <1>4, <2>3, <2>4, <2>5, LevelKept
<1> QED BY <1>13, <1>14

LEMMA LevelAccept ==
    ASSUME SeatsInv, SeatsTypeInv', NEW t \in Threads, NEW j \in Nat, AcceptCommit(t)
    PROVE  SeatsLevel(j)'
<1>1. /\ SeatsTypeInv /\ job \in [Threads -> SeatJobs] /\ invitation \in [Invitations -> InvitationStates]
      /\ IsFiniteSet(members) /\ RequestKind(t) /\ Accepts(t) /\ job[t].pc = "granted"
  BY DEF SeatsInv, SeatsTypeInv, SeatsTypeOK, SeatJobs, AcceptCommit, Granted
<1>2. PICK i : i = job[t].invitation
  OBVIOUS
<1>3. PICK u : u = job[t].user
  OBVIOUS
<1>4. /\ i \in Invitations /\ u \in Users /\ u = Email[i]
      /\ invitation[i] \in {"pending", "used", "expired"}
  <2>1. i \in Invitations /\ u \in Users /\ u = Email[i] /\ invitation[i] # "none"
    BY <1>1, <1>2, <1>3 DEF RequestKind, Accepts, SeatJobs
  <2>2. invitation[i] # "revoked"
    BY <1>1, <1>2 DEF AcceptCommit, Conflict
  <2> QED BY <1>1, <2>1, <2>2 DEF InvitationStates
<1>5. /\ invitation'[i] = "used" /\ \A k \in Invitations \ {i} : invitation'[k] = invitation[k]
      /\ highest' = highest
      /\ (late => late') /\ (invitation[i] = "expired" => late')
      /\ job'[t] = Idle /\ \A s \in Threads \ {t} : job'[s] = job[s]
  BY <1>1, <1>2, <1>4 DEF AcceptCommit, Finish, Accepted
<1>6. /\ job[t].seat => members' = members \cup {u} /\ u \notin members
      /\ ~job[t].seat => members' = members
  BY <1>3 DEF AcceptCommit, Seated, Conflict
<1>7. /\ job[t].seat => Cardinality(members') = Cardinality(members) + 1
      /\ ~job[t].seat => Cardinality(members') = Cardinality(members)
  BY <1>1, <1>6, FS_AddElement
<1>8. ASSUME NEW s \in Threads, Reserving(s)' PROVE Reserving(s) /\ job[s].invitation # i /\ s # t
  BY <1>1, <1>5, <1>8, SeatIdle DEF Reserving, Accepts, SeatJobs
\* The others who read this invitation come back for the seat of the same user
<1>9. Removed' \subseteq Removed
  <2> SUFFICES ASSUME NEW v \in Users \ members', NEW s \in Threads, Returning(s)', job'[s].user = v
               PROVE  v \in Removed
    BY DEF Removed
  <2>1. s # t /\ Accepts(s) /\ job'[s] = job[s] /\ v \notin members /\ job[s].invitation \in Invitations
    BY <1>1, <1>5, <1>6, SeatIdle DEF Returning, Accepts, SeatJobs
  <2>2. CASE job[s].invitation # i
    BY <1>5, <2>1, <2>2 DEF Returning, Removed, Accepts
  <2>3. CASE job[s].invitation = i
    <3>1. v = u
      BY <1>1, <1>4, <2>1, <2>3 DEF SeatsTypeInv, RequestKind
    <3>2. ~job[t].seat
      BY <1>6, <3>1
    <3> QED BY <1>1, <1>3, <2>1, <3>1, <3>2 DEF Returning, Removed
  <2> QED BY <2>2, <2>3
<1>10. CASE invitation[i] = "pending"
  <2>1. job[t].seat => Reserving(t)
    BY <1>1, <1>2, <1>10 DEF Reserving
  <2> QED BY <1>1, <1>4, <1>5, <1>7, <1>9, <1>10, <2>1, LevelUnpended
\* Nothing is pending for a seat that was expired: this thread held one all the same
<1>11. CASE invitation[i] \in {"used", "expired"}
  <2>1. Pending' = Pending
    BY <1>5, <1>11 DEF Pending
  <2>2. /\ Excess \in Int /\ Excess' \in Int /\ Cardinality(members) \in Nat /\ Cardinality(Pending) \in Nat
        /\ highest \in Nat /\ Cardinality(Threads) \in Nat /\ Cardinality(Removed) \in Nat
        /\ IsFiniteSet(Removed)
    BY <1>1, ExcessInt, ExcessNext
  <2>3. Excess' <= Excess + Cardinality(members') - Cardinality(members)
    <3>1. Excess' <= Excess + Cardinality(members') - Cardinality(members)
                          + Cardinality(Pending') - Cardinality(Pending)
                          + highest - highest'
      BY <1>1, <1>9, ExcessStep
    <3>2. Cardinality(members') \in Nat
      BY <1>7, <2>2
    <3> QED BY <1>5, <2>1, <2>2, <3>1, <3>2
  <2>4. CASE ~job[t].seat
    <3>1. Excess' <= Excess
      BY <1>7, <2>2, <2>3, <2>4
    <3> QED BY <1>5, <1>8, <2>1, <3>1, LevelFewer
  <2>5. CASE invitation[i] = "used" /\ job[t].seat
    <3>1. Excess' <= Excess
      <4>1. u \in Removed /\ u \notin Removed'
        BY <1>1, <1>2, <1>3, <1>4, <1>6, <2>5 DEF Removed, Returning
      <4>2. Removed' \in SUBSET (Removed \ {u})
        BY <1>9, <4>1
      <4>3. IsFiniteSet(Removed \ {u}) /\ Cardinality(Removed \ {u}) = Cardinality(Removed) - 1
        BY <2>2, <4>1, FS_RemoveElement
      <4>4. Cardinality(Removed') <= Cardinality(Removed) - 1 /\ Cardinality(Removed') \in Nat
        BY <4>2, <4>3, FS_Subset, FS_CardinalityType
      <4> QED BY <1>5, <1>7, <2>1, <2>2, <2>5, <4>4 DEF Excess
    <3> QED BY <1>5, <1>8, <2>1, <3>1, LevelFewer
  <2>6. CASE invitation[i] = "expired" /\ job[t].seat
    <3>1. t \in Holding(j) /\ Holding(j) \in SUBSET Threads
      BY <1>1, <1>2, <2>6 DEF Holding, Counting, Reserving
    <3>2. PICK M \in SUBSET Threads : M = Holding(j) \ {t}
      BY <3>1
    <3>3. Cardinality(M) = Cardinality(Holding(j)) - 1 /\ Cardinality(Holding(j)) \in Nat
      BY <3>1, <3>2, HoldingFinite, FS_RemoveElement
    <3>4. Holding(j)' \subseteq M
      <4> SUFFICES ASSUME NEW s \in Threads, Counting(s, j)', job'[s].count = 1 \/ Reserving(s)'
                   PROVE  s \in Holding(j) /\ s # t
        BY <3>2 DEF Holding
      <4>1. s # t /\ job'[s] = job[s]
        BY <1>5, SeatIdle DEF Counting
      <4>2. Counting(s, j)
        BY <2>1, <4>1 DEF Counting
      <4> QED BY <1>8, <4>1, <4>2 DEF Holding
    <3>5. Excess' - j + Cardinality(M) <= Excess - j + Cardinality(Holding(j))
      BY <1>7, <2>2, <2>3, <2>6, <3>3
    <3>6. late' /\ (late => late')
      BY <1>5, <2>6
    <3> QED BY <2>2, <3>4, <3>5, <3>6, LevelKept
  <2> QED BY <1>11, <2>4, <2>5, <2>6
<1> QED BY <1>4, <1>10, <1>11

LEMMA LevelRows ==
    ASSUME SeatsInv, SeatsTypeInv', NEW j \in Nat, NEW i \in Invitations,
           RevokeInvitation(i) \/ InvitationExpires(i)
    PROVE  SeatsLevel(j)'
<1>1. /\ SeatsTypeInv /\ job \in [Threads -> SeatJobs] /\ invitation \in [Invitations -> InvitationStates]
  BY DEF SeatsInv, SeatsTypeInv, SeatsTypeOK, SeatJobs
<1>2. /\ invitation'[i] \in {"expired", "revoked"}
      /\ invitation'[i] = "expired" => invitation[i] = "pending"
      /\ \A k \in Invitations \ {i} : invitation'[k] = invitation[k]
      /\ UNCHANGED <<members, limit, job, highest, uses, late>>
  BY <1>1 DEF RevokeInvitation, InvitationExpires
<1>3. ASSUME NEW s \in Threads
      PROVE  (Reserving(s)' => Reserving(s)) /\ (Returning(s)' => Returning(s))
  BY <1>1, <1>2 DEF Reserving, Returning, Accepts, SeatJobs
<1>4. Removed' \subseteq Removed
  BY <1>2, <1>3 DEF Removed
<1>5. CASE invitation[i] = "pending"
  <2>1. PICK t : t \in Threads
    BY ThreadsAssumption
  <2> QED BY <1>2, <1>4, <1>5, <2>1, LevelUnpended
<1>6. CASE invitation[i] # "pending"
  <2>1. Pending' = Pending
    BY <1>2, <1>6 DEF Pending
  <2>2. Excess' <= Excess
    <3>1. Excess' <= Excess + Cardinality(members') - Cardinality(members)
                          + Cardinality(Pending') - Cardinality(Pending)
                          + highest - highest'
      BY <1>1, <1>4, ExcessStep
    <3>2. /\ Excess \in Int /\ Cardinality(members) \in Nat /\ Cardinality(Pending) \in Nat
          /\ highest \in Nat /\ Excess' \in Int
      BY <1>1, ExcessInt, ExcessNext
    <3> QED BY <1>2, <2>1, <3>1, <3>2
  <2> QED BY <1>2, <1>3, <2>1, <2>2, LevelFewer
<1> QED BY <1>5, <1>6

LEMMA LevelRemove ==
    ASSUME SeatsInv, SeatsTypeInv', NEW j \in Nat, NEW u \in Users, RemoveMember(u)
    PROVE  SeatsLevel(j)'
<1>1. /\ SeatsTypeInv /\ IsFiniteSet(members) /\ u \in members /\ members' = members \ {u}
      /\ UNCHANGED <<invitation, limit, job, highest, uses, late>>
  BY DEF SeatsInv, SeatsTypeInv, RemoveMember
<1>2. Pending' = Pending /\ \A s \in Threads : Reserving(s)' <=> Reserving(s)
  BY <1>1 DEF Pending, Reserving, Accepts
<1>3. /\ Excess \in Int /\ Excess' \in Int /\ Cardinality(members) \in Nat /\ Cardinality(Pending) \in Nat
      /\ highest \in Nat /\ Cardinality(Threads) \in Nat /\ Cardinality(Removed) \in Nat
      /\ IsFiniteSet(Removed)
  BY <1>1, ExcessInt, ExcessNext
<1>4. Cardinality(members') = Cardinality(members) - 1
  BY <1>1, FS_RemoveElement
<1>5. Cardinality(Removed') <= Cardinality(Removed) + 1 /\ Cardinality(Removed') \in Nat
  <2>1. Removed' \in SUBSET (Removed \cup {u})
    BY <1>1 DEF Removed, Returning, Accepts
  <2>2. IsFiniteSet(Removed \cup {u}) /\ Cardinality(Removed \cup {u}) <= Cardinality(Removed) + 1
    <3>1. /\ IsFiniteSet(Removed \cup {u})
          /\ \/ Cardinality(Removed \cup {u}) = Cardinality(Removed)
             \/ Cardinality(Removed \cup {u}) = Cardinality(Removed) + 1
      BY <1>3, FS_AddElement
    <3> QED BY <1>3, <3>1
  <2> QED BY <1>3, <2>1, <2>2, FS_Subset, FS_CardinalityType
<1>6. Excess' <= Excess
  BY <1>1, <1>2, <1>3, <1>4, <1>5 DEF Excess
<1> QED BY <1>1, <1>2, <1>6, LevelFewer

LEMMA LevelOther ==
    ASSUME SeatsInv, SeatsTypeInv', NEW j \in Nat,
           (\E l \in Limits : PlanChanges(l)) \/ SeatsCrash \/ UNCHANGED seatsVars
    PROVE  SeatsLevel(j)'
<1>1. /\ SeatsTypeInv /\ highest \in Limits /\ highest \in Nat
  BY LimitsAssumption DEF SeatsInv, SeatsTypeInv, SeatsTypeOK
<1>2. /\ UNCHANGED <<members, invitation, late>> /\ highest' \in Nat /\ highest <= highest'
      /\ \A s \in Threads : job'[s] = job[s] \/ job'[s] = Idle
  BY <1>1, LimitsAssumption DEF PlanChanges, SeatsCrash, seatsVars
<1>3. ASSUME NEW s \in Threads
      PROVE  (Reserving(s)' => Reserving(s)) /\ (Returning(s)' => Returning(s) /\ job'[s].user = job[s].user)
  BY <1>2, SeatIdle DEF Reserving, Returning, Accepts
<1>4. Removed' \subseteq Removed /\ Pending' = Pending
  BY <1>2, <1>3 DEF Removed, Pending
<1>5. Excess' <= Excess
  <2>1. Excess' <= Excess + Cardinality(members') - Cardinality(members)
                        + Cardinality(Pending') - Cardinality(Pending)
                        + highest - highest'
    BY <1>1, <1>4, ExcessStep
  <2>2. /\ Excess \in Int /\ Cardinality(members) \in Nat /\ Cardinality(Pending) \in Nat
        /\ Excess' \in Int
    BY <1>1, ExcessInt, ExcessNext
  <2> QED BY <1>1, <1>2, <1>4, <2>1, <2>2
<1> QED BY <1>2, <1>3, <1>4, <1>5, LevelFewer

LEMMA SeatsInvInit == SeatsInit => SeatsInv
<1> SUFFICES ASSUME SeatsInit, NEW j \in Nat PROVE SeatsLevel(j)
  BY SeatsTypeInit DEF SeatsInv
<1>1. \A t \in Threads : job[t] = Idle
  BY DEF SeatsInit
<1>2. Holding(j) = {} /\ Removed = {} /\ Pending = {} /\ members = {Owner}
  BY <1>1, SeatIdle DEF SeatsInit, Holding, Counting, Removed, Returning, Accepts, Pending
<1>3. Cardinality(Holding(j)) = 0 /\ Cardinality(Removed) = 0 /\ Cardinality(Pending) = 0 /\ Cardinality(members) = 1
  BY <1>2, FS_EmptySet, FS_Singleton
<1>4. highest \in Nat \ {0}
  BY LimitsAssumption DEF SeatsInit
<1>5. Cardinality(Threads) \in Nat \ {0}
  BY ThreadsAssumption, FS_EmptySet, FS_CardinalityType
<1> QED BY <1>3, <1>4, <1>5 DEF SeatsLevel, Excess

LEMMA SeatsInvStep == SeatsInv /\ [SeatsNext]_seatsVars => SeatsInv'
<1> SUFFICES ASSUME SeatsInv, [SeatsNext]_seatsVars PROVE SeatsInv'
  OBVIOUS
<1>1. SeatsTypeInv'
  BY SeatsTypeStep DEF SeatsInv
<1>2. ASSUME NEW j \in Nat PROVE SeatsLevel(j)'
  BY <1>1, LevelLoad, LevelCountMembers, LevelCountPending, LevelAdd, LevelInvite, LevelAccept,
     LevelRows, LevelRemove, LevelOther DEF SeatsNext
<1> QED BY <1>1, <1>2 DEF SeatsInv

\* Members and pending invitations exceed the highest limit by fewer than the
\* threads; once an invitation has expired while it was being accepted, by one
\* more at most (_assert_seats_available and the commits that follow it).
THEOREM SeatLimit == SeatsSpec => []SeatsBounded
<1>1. SeatsInv => SeatsBounded
  <2> SUFFICES ASSUME SeatsInv PROVE SeatsBounded
    OBVIOUS
  <2>1. SeatsTypeInv /\ SeatsLevel(0)
    BY DEF SeatsInv
  <2>2. Cardinality(Holding(0)) \in Nat /\ IsFiniteSet(Holding(0))
    BY HoldingFinite
  <2>3. Fresh(0) => Cardinality(Holding(0)) # 0
    <3>1. Fresh(0) => Holding(0) # {}
      BY DEF Fresh, Holding
    <3> QED BY <2>2, <3>1, FS_EmptySet
  <2>4. Excess <= 0 /\ (~late => Excess <= -1)
    BY <2>1, <2>2, <2>3, ExcessInt DEF SeatsLevel
  <2>5. /\ Cardinality(members) \in Nat /\ Cardinality(Pending) \in Nat /\ Cardinality(Removed) \in Nat
        /\ highest \in Nat /\ Cardinality(Threads) \in Nat
    BY <2>1, ExcessInt
  <2> QED BY <2>4, <2>5 DEF Excess, SeatsBounded
<1> QED BY <1>1, SeatsInvInit, SeatsInvStep, PTL DEF SeatsSpec
=============================================================================
