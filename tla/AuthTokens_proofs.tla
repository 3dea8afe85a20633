-------------------------- MODULE AuthTokens_proofs --------------------------
(***************************************************************************)
(* Proofs about AuthTokens, for every number of threads, tokens and        *)
(* families: type correctness with the shape of the rotation chain, the    *)
(* bound on the rotations of one token, and that a revocation no rotation  *)
(* overlapped is final.                                                    *)
(***************************************************************************)
EXTENDS AuthTokens, FiniteSetTheorems, TLAPS

N == Cardinality(Threads)

\* A request that loaded a token holds one that has been issued.
JobOK ==
    /\ \A t \in Threads : job[t].pc \in {"rotating", "revoking", "revoke_selected"} =>
          job[t].token \in Tokens /\ Issued(job[t].token)
    /\ \A t \in Threads : \A k \in job[t].rows : Issued(k)

TypeInv == TypeOK /\ JobOK

-----------------------------------------------------------------------------
(***************************************************************************)
(* Types.                                                                  *)
(***************************************************************************)
LEMMA NewTokenIsNew ==
  ASSUME \E k \in Tokens : ~Issued(k)
  PROVE  NewToken \in Tokens /\ ~Issued(NewToken)
BY DEF NewToken

LEMMA IdleTyped == Idle \in Job /\ Idle.pc = "idle" /\ Idle.rows = {}
BY DEF Idle, Job, PCs

LEMMA TypeInvInit == Init => TypeInv
<1> SUFFICES ASSUME Init PROVE TypeInv
  OBVIOUS
<1>1. /\ token \in [Tokens -> Row]
      /\ parent \in [Tokens -> Tokens \cup {None}]
      /\ \A k \in Tokens : parent[k] = None
  BY DEF Init, Unissued, Row
<1>2. /\ job \in [Threads -> Job]
      /\ \A t \in Threads : job[t].pc = "idle" /\ job[t].rows = {}
  BY IdleTyped DEF Init
<1>3. TypeOK
  BY <1>1, <1>2 DEF Init, TypeOK
<1> QED
  BY <1>2, <1>3 DEF TypeInv, JobOK

\* One thread moves on, what was issued stays so.
LEMMA JobStep ==
  ASSUME TypeInv, NEW t \in Threads, NEW j \in Job, job' = [job EXCEPT ![t] = j],
         \A k \in Tokens : Issued(k) => Issued(k)',
         j.pc \in {"rotating", "revoking", "revoke_selected"} =>
            j.token \in Tokens /\ Issued(j.token),
         \A k \in j.rows : Issued(k)
  PROVE  job' \in [Threads -> Job] /\ JobOK'
<1>1. job' \in [Threads -> Job]
  BY DEF TypeInv, TypeOK
<1>2. job'[t] = j /\ \A s \in Threads : s # t => job'[s] = job[s]
  BY DEF TypeInv, TypeOK
<1>3. \A s \in Threads : job[s].rows \subseteq Tokens /\ j.rows \subseteq Tokens
  BY DEF TypeInv, TypeOK, Job
<1> QED
  BY <1>1, <1>2, <1>3 DEF TypeInv, JobOK

\* What a login leaves.
LEMMA StartFamilyTyped ==
  ASSUME TypeInv, NEW t \in Threads, StartFamily(t)
  PROVE  TypeInv'
<1> DEFINE f == CHOOSE x \in FreshFamilies : TRUE
           n == NewToken
<1>1. f \in Families /\ f # None
  BY NoneAssumption DEF StartFamily, FreshFamilies
<1>2. n \in Tokens /\ ~Issued(n)
  BY NewTokenIsNew DEF StartFamily
<1>3. /\ token' = [token EXCEPT ![n] = [Unissued EXCEPT !.family = f]]
      /\ job' = [job EXCEPT ![t] = Idle]
      /\ UNCHANGED <<suspended, otp, otpEnabled, parent, revokedOnce, raced>>
  BY DEF StartFamily, Finish, history
<1> HIDE DEF f, n
<1>4. token' \in [Tokens -> Row]
  BY <1>1, <1>2, <1>3 DEF TypeInv, TypeOK, Unissued, Row
<1>5. \A k \in Tokens : k # n => token'[k] = token[k]
  BY <1>2, <1>3 DEF TypeInv, TypeOK
<1>6. parent[n] = None /\ \A k \in Tokens : parent[k] # n
  BY <1>2, NoneAssumption DEF TypeInv, TypeOK, Issued
<1>7. \A k \in Tokens : Issued(k) => Issued(k)' /\ k # n
  BY <1>2, <1>5 DEF Issued
<1>8. \A k \in Tokens : parent'[k] # None =>
         /\ token'[parent'[k]].used
         /\ token'[k].family = token'[parent'[k]].family
         /\ Issued(k)'
  BY <1>3, <1>5, <1>6, <1>7 DEF TypeInv, TypeOK
<1>9. job' \in [Threads -> Job]
  BY <1>3, IdleTyped DEF TypeInv, TypeOK
<1>10. TypeOK'
  BY <1>3, <1>4, <1>8, <1>9 DEF TypeInv, TypeOK
<1>11. JobOK'
  BY <1>3, <1>7, IdleTyped, JobStep
<1> QED
  BY <1>10, <1>11 DEF TypeInv

\* What a rotation leaves.
LEMMA RotateCommitTyped ==
  ASSUME TypeInv, NEW t \in Threads, RotateCommit(t)
  PROVE  /\ TypeInv'
         /\ NewToken \in Tokens /\ ~Issued(NewToken)
         /\ job[t].token \in Tokens /\ Issued(job[t].token)
         /\ \A k \in Tokens : k # NewToken => /\ token'[k].family = token[k].family
                                              /\ token'[k].revoked = token[k].revoked
         /\ token'[NewToken].family = FamilyOf(t)
<1> DEFINE old == job[t].token
           n == NewToken
<1>1. old \in Tokens /\ Issued(old)
  BY DEF RotateCommit, TypeInv, JobOK
<1>2. n \in Tokens /\ ~Issued(n)
  BY NewTokenIsNew DEF RotateCommit
<1>3. /\ token' = [token EXCEPT ![old] = WithUsed(@), ![n] = Successor(token[old])]
      /\ parent' = [parent EXCEPT ![n] = old]
      /\ job' = [job EXCEPT ![t] = Idle]
      /\ UNCHANGED <<suspended, otp, otpEnabled, revokedOnce, raced>>
  BY DEF RotateCommit, Finish
<1>20. FamilyOf(t) = token[old].family
  BY DEF FamilyOf
<1> HIDE DEF old, n
<1>4. old # n
  BY <1>1, <1>2
<1>5. /\ token'[old] = [token[old] EXCEPT !.used = TRUE]
      /\ token'[n] = [Unissued EXCEPT !.family = token[old].family]
      /\ \A k \in Tokens \ {old, n} : token'[k] = token[k]
  BY <1>1, <1>2, <1>3, <1>4 DEF TypeInv, TypeOK, WithUsed, Successor
<1>6. token' \in [Tokens -> Row]
  <2>1. token[old] \in Row
    BY <1>1 DEF TypeInv, TypeOK
  <2> QED
    BY <2>1, <1>1, <1>2, <1>3 DEF TypeInv, TypeOK, Unissued, WithUsed, Successor, Row
<1>7. /\ token'[old].used /\ token'[old].family = token[old].family
      /\ token'[old].revoked = token[old].revoked
      /\ token'[n].family = token[old].family
  BY <1>1, <1>5 DEF TypeInv, TypeOK, Unissued, Row
<1>8. \A k \in Tokens : k # n => /\ token'[k].family = token[k].family
                                 /\ token'[k].revoked = token[k].revoked
                                 /\ token[k].used => token'[k].used
  BY <1>5, <1>7
<1>9. \A k \in Tokens : Issued(k) => Issued(k)' /\ k # n
  BY <1>2, <1>8 DEF Issued
<1>10. \A k \in Tokens : parent[k] # n
  BY <1>2, NoneAssumption DEF TypeInv, TypeOK, Issued
<1>11. ASSUME NEW k \in Tokens, parent'[k] # None
       PROVE  /\ token'[parent'[k]].used
              /\ token'[k].family = token'[parent'[k]].family
              /\ Issued(k)'
  <2>1. CASE k = n
    <3>1. parent'[k] = old
      BY <2>1, <1>2, <1>3 DEF TypeInv, TypeOK
    <3>2. Issued(k)'
      BY <2>1, <1>1, <1>7 DEF Issued
    <3> QED
      BY <3>1, <3>2, <2>1, <1>7
  <2>2. CASE k # n
    <3>1. parent'[k] = parent[k] /\ parent[k] \in Tokens
      BY <2>2, <1>3, <1>11 DEF TypeInv, TypeOK
    <3> QED
      BY <3>1, <2>2, <1>8, <1>9, <1>10, <1>11 DEF TypeInv, TypeOK
  <2> QED
    BY <2>1, <2>2
<1>12. job' \in [Threads -> Job]
  BY <1>3, IdleTyped DEF TypeInv, TypeOK
<1>13. parent' \in [Tokens -> Tokens \cup {None}]
  BY <1>1, <1>3 DEF TypeInv, TypeOK
<1>14. TypeOK'
  BY <1>3, <1>6, <1>11, <1>12, <1>13 DEF TypeInv, TypeOK
<1>15. JobOK'
  BY <1>3, <1>9, IdleTyped, JobStep
<1> QED
  BY <1>1, <1>2, <1>7, <1>8, <1>14, <1>15, <1>20 DEF TypeInv, old, n

\* What the marks of a revocation leave.
LEMMA RevokeTyped ==
  ASSUME TypeInv, NEW marked, Revoke(marked)
  PROVE  /\ token' \in [Tokens -> Row]
         /\ \A k \in Tokens : /\ token'[k].family = token[k].family
                              /\ token'[k].used = token[k].used
                              /\ token'[k].revoked = (token[k].revoked \/ k \in marked)
<1>1. \A k \in Tokens :
        token'[k] = IF k \in marked THEN [token[k] EXCEPT !.revoked = TRUE] ELSE token[k]
  BY DEF Revoke
<1>2. \A k \in Tokens : token[k] \in Row
  BY DEF TypeInv, TypeOK
<1>3. \A k \in Tokens : token'[k] \in Row
  BY <1>1, <1>2 DEF Row
<1> QED
  BY <1>1, <1>2, <1>3 DEF Revoke, Row

\* Steps that keep the families, the uses and the rotation chain keep the shape.
LEMMA ShapeKept ==
  ASSUME TypeInv, UNCHANGED parent,
         \A k \in Tokens : token'[k].family = token[k].family /\ token'[k].used = token[k].used
  PROVE  /\ \A k \in Tokens : parent'[k] # None => /\ token'[parent'[k]].used
                                                  /\ token'[k].family = token'[parent'[k]].family
                                                  /\ Issued(k)'
         /\ \A k \in Tokens : Issued(k)' = Issued(k)
BY DEF TypeInv, TypeOK, Issued

LEMMA TypeInvStep == TypeInv /\ [Next]_vars => TypeInv'
<1> SUFFICES ASSUME TypeInv, [Next]_vars PROVE TypeInv'
  OBVIOUS
<1> USE DEF rows, history
<1>a. UNCHANGED token => \A k \in Tokens : Issued(k) => Issued(k)'
  BY DEF Issued
<1>b. \A t \in Threads : job[t] \in Job
  BY DEF TypeInv, TypeOK
<1>1. ASSUME NEW t \in Threads, NEW pc \in PCs, Goto(t, pc),
             pc \notin {"rotating", "revoking", "revoke_selected"}, UNCHANGED <<token, history>>,
             suspended' \in BOOLEAN, otp' \in BOOLEAN, otpEnabled' \in BOOLEAN
      PROVE  TypeInv'
  <2> DEFINE j == [job[t] EXCEPT !.pc = pc]
  <2>1. j \in Job /\ j.pc = pc /\ \A k \in j.rows : Issued(k)
    BY <1>b DEF Job, TypeInv, JobOK
  <2>2. job' = [job EXCEPT ![t] = j]
    BY <1>1 DEF Goto
  <2> HIDE DEF j
  <2>3. job' \in [Threads -> Job] /\ JobOK'
    BY <1>1, <1>a, <2>1, <2>2, JobStep
  <2> QED
    BY <1>1, <2>3 DEF TypeInv, TypeOK, Issued
<1>2. ASSUME NEW t \in Threads, LoginIssue(t) \/ ChallengeIssue(t) PROVE TypeInv'
  BY <1>2, StartFamilyTyped DEF LoginIssue, ChallengeIssue
<1>3. ASSUME NEW t \in Threads, RotateCommit(t) PROVE TypeInv'
  BY <1>3, RotateCommitTyped
<1>4. ASSUME NEW t \in Threads, NEW k \in Tokens,
             RotateLoad(t, k) \/ ReuseLoad(t, k) \/ LogoutLoad(t, k)
      PROVE  TypeInv'
  <2>1. raced' \subseteq Families
    BY <1>4, NoneAssumption DEF RotateLoad, ReuseLoad, LogoutLoad, TypeInv, TypeOK, Issued, Row
  <2>2. PICK pc \in {"rotating", "revoking"} :
          job' = [job EXCEPT ![t] = [Idle EXCEPT !.pc = pc, !.token = k]]
    BY <1>4 DEF RotateLoad, ReuseLoad, LogoutLoad
  <2> DEFINE j == [Idle EXCEPT !.pc = pc, !.token = k]
  <2>3. j \in Job /\ j.token = k /\ j.rows = {}
    BY DEF Job, Idle, PCs
  <2> HIDE DEF j
  <2>4. Issued(k) /\ UNCHANGED <<token, suspended, otp, otpEnabled, parent, revokedOnce>>
    BY <1>4 DEF RotateLoad, ReuseLoad, LogoutLoad
  <2>5. job' \in [Threads -> Job] /\ JobOK'
    BY <1>a, <2>2, <2>3, <2>4, JobStep DEF j
  <2> QED
    BY <2>1, <2>4, <2>5 DEF TypeInv, TypeOK, Issued
<1>5. ASSUME NEW t \in Threads, RevokeSelect(t) PROVE TypeInv'
  <2>1. /\ FamilyOf(t) \in Families /\ FamilyOf(t) # None
        /\ job[t].token \in Tokens /\ Issued(job[t].token)
    BY <1>5 DEF RevokeSelect, TypeInv, TypeOK, JobOK, Issued, FamilyOf, Row
  <2> DEFINE R == {k \in Tokens : token[k].family = FamilyOf(t)}
             j == [job[t] EXCEPT !.pc = "revoke_selected", !.rows = R]
  <2>2. R \in SUBSET Tokens /\ \A k \in R : Issued(k)
    BY <2>1 DEF Issued
  <2>3. job' = [job EXCEPT ![t] = j]
    BY <1>5 DEF RevokeSelect
  <2> HIDE DEF R
  <2>4. j \in Job /\ j.token = job[t].token /\ j.rows = R
    BY <1>b, <2>2 DEF Job, PCs
  <2> HIDE DEF j
  <2>5. UNCHANGED <<token, suspended, otp, otpEnabled, parent, revokedOnce>>
    BY <1>5 DEF RevokeSelect
  <2>6. job' \in [Threads -> Job] /\ JobOK'
    BY <1>a, <2>1, <2>2, <2>3, <2>4, <2>5, JobStep
  <2>7. raced' \subseteq Families
    BY <1>5, <2>1 DEF RevokeSelect, TypeInv, TypeOK
  <2> QED
    BY <2>5, <2>6, <2>7 DEF TypeInv, TypeOK, Issued
<1>6. ASSUME NEW t \in Threads, SuspendSelect(t) PROVE TypeInv'
  <2> DEFINE R == {k \in Tokens : Issued(k)}
             j == [job[t] EXCEPT !.pc = "suspend_selected", !.rows = R]
  <2>1. R \in SUBSET Tokens /\ \A k \in R : Issued(k)
    OBVIOUS
  <2>2. job' = [job EXCEPT ![t] = j]
    BY <1>6 DEF SuspendSelect
  <2> HIDE DEF R
  <2>3. j \in Job /\ j.pc = "suspend_selected" /\ j.rows = R
    BY <1>b, <2>1 DEF Job, PCs
  <2> HIDE DEF j
  <2>4. UNCHANGED <<token, suspended, otp, otpEnabled, parent, revokedOnce>>
    BY <1>6 DEF SuspendSelect
  <2>5. job' \in [Threads -> Job] /\ JobOK'
    BY <1>a, <2>1, <2>2, <2>3, <2>4, JobStep
  <2>6. raced' \subseteq Families
    BY <1>6 DEF SuspendSelect, TypeInv, TypeOK
  <2> QED
    BY <2>4, <2>5, <2>6 DEF TypeInv, TypeOK, Issued
<1>7. ASSUME NEW t \in Threads, RevokeCommit(t) \/ SuspendCommit(t) PROVE TypeInv'
  <2>1. Revoke(job[t].rows) /\ UNCHANGED parent /\ job' = [job EXCEPT ![t] = Idle]
    BY <1>7 DEF RevokeCommit, SuspendCommit, Finish
  <2>2. /\ token' \in [Tokens -> Row]
        /\ \A k \in Tokens : token'[k].family = token[k].family /\ token'[k].used = token[k].used
    BY <2>1, RevokeTyped
  <2>3. revokedOnce' \subseteq Families
    BY <1>7 DEF RevokeCommit, SuspendCommit, FamilyOf, TypeInv, TypeOK, JobOK, Issued, Row, Job
  <2>4. job' \in [Threads -> Job] /\ JobOK'
    BY <2>1, <2>2, IdleTyped, ShapeKept, JobStep
  <2> QED
    BY <1>7, <2>1, <2>2, <2>3, <2>4, ShapeKept
       DEF RevokeCommit, SuspendCommit, TypeInv, TypeOK
<1>8. ASSUME NEW k \in Tokens, TokenExpires(k) PROVE TypeInv'
  <2> DEFINE row == [token[k] EXCEPT !.expired = TRUE]
  <2>1. token' = [token EXCEPT ![k] = row] /\ UNCHANGED <<parent, job>>
    BY <1>8 DEF TokenExpires
  <2>2. row \in Row /\ row.family = token[k].family /\ row.used = token[k].used
    <3>1. token[k] \in Row
      BY DEF TypeInv, TypeOK
    <3> QED
      BY <3>1 DEF Row
  <2> HIDE DEF row
  <2>3. /\ token' \in [Tokens -> Row]
        /\ \A n \in Tokens : token'[n].family = token[n].family /\ token'[n].used = token[n].used
    BY <2>1, <2>2 DEF TypeInv, TypeOK
  <2>4. JobOK'
    BY <2>1, <2>3, ShapeKept DEF TypeInv, TypeOK, JobOK, Job
  <2> QED
    BY <1>8, <2>1, <2>3, <2>4, ShapeKept DEF TokenExpires, TypeInv, TypeOK
<1>9. CASE Unsuspend \/ OtpExpires \/ UNCHANGED vars
  BY <1>9 DEF TypeInv, TypeOK, JobOK, Issued, Unsuspend, OtpExpires, vars
<1>10. CASE Crash
  <2>1. job' \in [Threads -> Job] /\ \A t \in Threads : job'[t] = Idle
    BY <1>10, IdleTyped DEF Crash
  <2>2. JobOK'
    BY <2>1, IdleTyped DEF JobOK
  <2> QED
    BY <1>10, <2>1, <2>2 DEF Crash, TypeInv, TypeOK, Issued
<1>11. ASSUME NEW t \in Threads, LoginLoad(t) \/ ChallengeLoad(t) \/ ChallengeSpend(t)
                                 \/ SuspendLoad(t)
       PROVE  TypeInv'
  BY <1>1, <1>11 DEF LoginLoad, ChallengeLoad, ChallengeSpend, SuspendLoad, PCs, TypeInv, TypeOK
<1>12. ASSUME NEW t \in Threads, LoginChallenge(t) PROVE TypeInv'
  <2>1. job' = [job EXCEPT ![t] = Idle] /\ UNCHANGED <<token, parent>>
    BY <1>12 DEF LoginChallenge, Finish
  <2>2. job' \in [Threads -> Job] /\ JobOK'
    BY <1>a, <2>1, IdleTyped, JobStep
  <2> QED
    BY <1>12, <2>2 DEF LoginChallenge, TypeInv, TypeOK, Issued
<1> QED
  BY <1>2, <1>3, <1>4, <1>5, <1>6, <1>7, <1>8, <1>9, <1>10, <1>11, <1>12 DEF Next

\* Every reachable state is well typed; a successor belongs to the family of the
\* token it was rotated from, and that one is marked used.
THEOREM TypeCorrect == Spec => []TypeOK
<1>1. Spec => []TypeInv
  BY TypeInvInit, TypeInvStep, PTL DEF Spec
<1>2. TypeInv => TypeOK
  BY DEF TypeInv
<1> QED
  BY <1>1, <1>2, PTL

-----------------------------------------------------------------------------
(***************************************************************************)
(* Rotations.  A thread that rotates a token read it before it had any     *)
(* successor, and leaves one of its own: threads that are about to and     *)
(* successors that are there never outnumber the threads.                  *)
(***************************************************************************)
Rotators(k) == {t \in Threads : job[t].pc = "rotating" /\ job[t].token = k}

RotInv ==
    \A k \in Tokens : /\ IsFiniteSet(Successors(k))
                      /\ Cardinality(Successors(k)) + Cardinality(Rotators(k)) <= N

LEMMA ThreadSets ==
  /\ N \in Nat
  /\ \A S \in SUBSET Threads :
       IsFiniteSet(S) /\ Cardinality(S) \in Nat /\ Cardinality(S) <= N
BY ThreadsAssumption, FS_CardinalityType, FS_Subset DEF N

LEMMA RotInvInit == Init => RotInv
<1> SUFFICES ASSUME Init, NEW k \in Tokens
             PROVE  /\ IsFiniteSet(Successors(k))
                    /\ Cardinality(Successors(k)) + Cardinality(Rotators(k)) <= N
  BY DEF RotInv
<1>1. Successors(k) = {}
  BY NoneAssumption DEF Init, Successors
<1>2. Rotators(k) \in SUBSET Threads
  BY DEF Rotators
<1> QED
  BY <1>1, <1>2, ThreadSets, FS_EmptySet

\* Nothing is rotated: no thread joins those that rotate a token.
LEMMA NoRotation ==
  ASSUME RotInv, UNCHANGED parent,
         \A t \in Threads : job'[t].pc = "rotating" =>
            job[t].pc = "rotating" /\ job'[t].token = job[t].token
  PROVE  RotInv'
<1> SUFFICES ASSUME NEW k \in Tokens
             PROVE  /\ IsFiniteSet(Successors(k)')
                    /\ Cardinality(Successors(k)') + Cardinality(Rotators(k)') <= N
  BY DEF RotInv
<1>1. Successors(k)' = Successors(k)
  BY DEF Successors
<1>2. Rotators(k)' \in SUBSET Rotators(k) /\ Rotators(k) \in SUBSET Threads
  BY DEF Rotators
<1>3. IsFiniteSet(Rotators(k)) /\ Cardinality(Rotators(k)) \in Nat
  BY <1>2, ThreadSets
<1>4. Cardinality(Rotators(k)') <= Cardinality(Rotators(k)) /\ Cardinality(Rotators(k)') \in Nat
  BY <1>2, <1>3, FS_Subset, ThreadSets
<1>5. /\ IsFiniteSet(Successors(k)) /\ Cardinality(Successors(k)) \in Nat
      /\ Cardinality(Successors(k)) + Cardinality(Rotators(k)) <= N
  BY FS_CardinalityType DEF RotInv
<1> QED
  BY <1>1, <1>3, <1>4, <1>5, ThreadSets

LEMMA RotInvStep == TypeInv /\ RotInv /\ [Next]_vars => RotInv'
<1> SUFFICES ASSUME TypeInv, RotInv, [Next]_vars PROVE RotInv'
  OBVIOUS
<1> USE DEF rows, history
<1>1. ASSUME NEW t \in Threads, NEW j \in Job, job' = [job EXCEPT ![t] = j],
             j.pc # "rotating", UNCHANGED parent
      PROVE  RotInv'
  BY <1>1, NoRotation DEF TypeInv, TypeOK
<1>2. ASSUME NEW t \in Threads, NEW k \in Tokens, RotateLoad(t, k) PROVE RotInv'
  <2>1. job' = [job EXCEPT ![t] = [Idle EXCEPT !.pc = "rotating", !.token = k]]
    BY <1>2 DEF RotateLoad
  <2>2. /\ job'[t].pc = "rotating" /\ job'[t].token = k
        /\ \A s \in Threads : s # t => job'[s] = job[s]
    BY <2>1 DEF TypeInv, TypeOK, Idle
  <2>3. job[t].pc = "idle" /\ ~token[k].used /\ UNCHANGED parent
    BY <1>2 DEF RotateLoad, Valid
  <2> SUFFICES ASSUME NEW n \in Tokens
               PROVE  /\ IsFiniteSet(Successors(n)')
                      /\ Cardinality(Successors(n)') + Cardinality(Rotators(n)') <= N
    BY DEF RotInv
  <2>4. Successors(n)' = Successors(n)
    BY <2>3 DEF Successors
  <2>5. CASE n = k
    <3>1. Successors(n) = {}
      BY <2>3, <2>5, NoneAssumption DEF Successors, TypeInv, TypeOK
    <3>2. Rotators(n)' \in SUBSET Threads
      BY DEF Rotators
    <3> QED
      BY <2>4, <3>1, <3>2, FS_EmptySet, ThreadSets
  <2>6. CASE n # k
    <3>1. Rotators(n)' = Rotators(n)
      BY <2>2, <2>3, <2>6 DEF Rotators
    <3> QED
      BY <2>4, <3>1 DEF RotInv
  <2> QED
    BY <2>5, <2>6
<1>3. ASSUME NEW t \in Threads, RotateCommit(t) PROVE RotInv'
  <2> DEFINE old == job[t].token
  <2>1. /\ old \in Tokens /\ NewToken \in Tokens /\ ~Issued(NewToken)
        /\ parent' = [parent EXCEPT ![NewToken] = old]
        /\ job' = [job EXCEPT ![t] = Idle]
        /\ job[t].pc = "rotating"
    BY <1>3, RotateCommitTyped DEF RotateCommit, Finish
  <2>2. parent[NewToken] = None
    BY <2>1 DEF TypeInv, TypeOK
  <2>3. job'[t].pc = "idle" /\ \A s \in Threads : s # t => job'[s] = job[s]
    BY <2>1, IdleTyped DEF TypeInv, TypeOK
  <2> SUFFICES ASSUME NEW n \in Tokens
               PROVE  /\ IsFiniteSet(Successors(n)')
                      /\ Cardinality(Successors(n)') + Cardinality(Rotators(n)') <= N
    BY DEF RotInv
  <2>4. /\ IsFiniteSet(Successors(n)) /\ Cardinality(Successors(n)) \in Nat
        /\ Cardinality(Successors(n)) + Cardinality(Rotators(n)) <= N
    BY FS_CardinalityType DEF RotInv
  <2>5. /\ IsFiniteSet(Rotators(n)) /\ Cardinality(Rotators(n)) \in Nat
        /\ Cardinality(Rotators(n)') \in Nat
    BY ThreadSets DEF Rotators
  <2>6. CASE n = old
    <3>1. Successors(n)' = Successors(n) \cup {NewToken} /\ NewToken \notin Successors(n)
      BY <2>1, <2>2, <2>6, NoneAssumption DEF Successors, TypeInv, TypeOK
    <3>2. Rotators(n)' = Rotators(n) \ {t} /\ t \in Rotators(n)
      BY <2>1, <2>3, <2>6 DEF Rotators
    <3>3. /\ IsFiniteSet(Successors(n)')
          /\ Cardinality(Successors(n)') = Cardinality(Successors(n)) + 1
      BY <2>4, <3>1, FS_AddElement
    <3>4. Cardinality(Rotators(n)') = Cardinality(Rotators(n)) - 1
      BY <2>5, <3>2, FS_RemoveElement
    <3> QED
      BY <2>4, <2>5, <3>3, <3>4, ThreadSets
  <2>7. CASE n # old
    <3>1. Successors(n)' = Successors(n)
      BY <2>1, <2>2, <2>7, NoneAssumption DEF Successors, TypeInv, TypeOK
    <3>2. Rotators(n)' = Rotators(n)
      BY <2>1, <2>3, <2>7 DEF Rotators
    <3> QED
      BY <2>4, <3>1, <3>2
  <2> QED
    BY <2>6, <2>7
<1>4. ASSUME NEW t \in Threads,
             \/ LoginIssue(t) \/ ChallengeIssue(t) \/ LoginChallenge(t)
             \/ RevokeCommit(t) \/ SuspendCommit(t)
      PROVE  RotInv'
  BY <1>1, <1>4, IdleTyped
     DEF LoginIssue, ChallengeIssue, StartFamily, LoginChallenge, RevokeCommit, SuspendCommit, Finish
<1>5. ASSUME NEW t \in Threads, NEW pc, pc # "rotating", UNCHANGED parent,
             NEW R, job' = [job EXCEPT ![t] = [@ EXCEPT !.pc = pc, !.rows = R]]
                 \/ Goto(t, pc)
      PROVE  RotInv'
  <2>1. /\ job'[t] = [job[t] EXCEPT !.pc = pc, !.rows = R] \/ job'[t] = [job[t] EXCEPT !.pc = pc]
        /\ \A s \in Threads : s # t => job'[s] = job[s]
    BY <1>5 DEF Goto, TypeInv, TypeOK
  <2>2. job[t] \in Job
    BY DEF TypeInv, TypeOK
  <2>3. job'[t].pc = pc
    BY <2>1, <2>2 DEF Job
  <2> QED
    BY <1>5, <2>1, <2>3, NoRotation
<1>6. ASSUME NEW t \in Threads,
             \/ LoginLoad(t) \/ ChallengeLoad(t) \/ ChallengeSpend(t) \/ SuspendLoad(t)
      PROVE  RotInv'
  BY <1>5, <1>6 DEF LoginLoad, ChallengeLoad, ChallengeSpend, SuspendLoad
<1>7. ASSUME NEW t \in Threads, RevokeSelect(t) \/ SuspendSelect(t) PROVE RotInv'
  BY <1>5, <1>7 DEF RevokeSelect, SuspendSelect
<1>8. ASSUME NEW t \in Threads, NEW k \in Tokens, ReuseLoad(t, k) \/ LogoutLoad(t, k)
      PROVE  RotInv'
  <2>1. job' = [job EXCEPT ![t] = [Idle EXCEPT !.pc = "revoking", !.token = k]]
        /\ UNCHANGED parent
    BY <1>8 DEF ReuseLoad, LogoutLoad
  <2>2. [Idle EXCEPT !.pc = "revoking", !.token = k] \in Job
    BY DEF Idle, Job, PCs
  <2>3. [Idle EXCEPT !.pc = "revoking", !.token = k].pc = "revoking"
    BY DEF Idle
  <2> QED
    BY <1>1, <2>1, <2>2, <2>3
<1>9. ASSUME NEW k \in Tokens, TokenExpires(k) PROVE RotInv'
  BY <1>9, NoRotation DEF TokenExpires
<1>10. CASE Unsuspend \/ OtpExpires \/ UNCHANGED vars
  BY <1>10, NoRotation DEF Unsuspend, OtpExpires, vars
<1>11. CASE Crash
  BY <1>11, NoRotation, IdleTyped DEF Crash
<1> QED
  BY <1>2, <1>3, <1>4, <1>6, <1>7, <1>8, <1>9, <1>10, <1>11 DEF Next

\* However requests interleave, one token has at most one successor for each
\* thread that can have read it before the first rotation committed.
THEOREM Rotations == Spec => []RotationsBounded
<1>1. Spec => [](TypeInv /\ RotInv)
  BY TypeInvInit, TypeInvStep, RotInvInit, RotInvStep, PTL DEF Spec
<1>2. RotInv => RotationsBounded
  <2> SUFFICES ASSUME RotInv, NEW k \in Tokens
               PROVE  Cardinality(Successors(k)) <= N
    BY DEF RotationsBounded, N
  <2>1. Cardinality(Successors(k)) \in Nat /\ Cardinality(Successors(k)) + Cardinality(Rotators(k)) <= N
    BY FS_CardinalityType DEF RotInv
  <2>2. Cardinality(Rotators(k)) \in Nat
    BY ThreadSets DEF Rotators
  <2> QED
    BY <2>1, <2>2, ThreadSets
<1> QED
  BY <1>1, <1>2, PTL

-----------------------------------------------------------------------------
(***************************************************************************)
(* Revocations.  In a family no rotation raced in, nobody rotates while a  *)
(* revocation has selected its rows, the rows it selected stay all the     *)
(* family has, and once it has committed there is nothing left to rotate.  *)
(***************************************************************************)
InFamily(f) == {k \in Tokens : token[k].family = f}

Hits(t, f) ==
    \/ job[t].pc = "revoke_selected" /\ FamilyOf(t) = f
    \/ job[t].pc = "suspend_selected" /\ InFamily(f) \cap job[t].rows # {}

Gone(f) == InFamily(f) # {} /\ \A k \in InFamily(f) : token[k].revoked

Settled(f) ==
    /\ f \in revokedOnce => Gone(f) /\ ~Rotating(f)
    /\ Selecting(f) => ~Rotating(f)
    /\ \A t \in Threads : Hits(t, f) => InFamily(f) \subseteq job[t].rows

RevInv ==
    /\ \A f \in Families \ raced : Settled(f)
    /\ \A f \in revokedOnce : InFamily(f) # {}

LEMMA RevInvInit == Init => RevInv
<1> SUFFICES ASSUME Init PROVE RevInv
  OBVIOUS
<1>1. \A t \in Threads : job[t].pc = "idle"
  BY IdleTyped DEF Init
<1> QED
  BY <1>1 DEF Init, RevInv, Settled, Selecting, Rotating, Hits

\* A thread that rotates or selected rows stands for an issued family.
LEMMA FamilyIssued ==
  ASSUME TypeInv, NEW t \in Threads, job[t].pc \in {"rotating", "revoking", "revoke_selected"}
  PROVE  /\ job[t].token \in Tokens
         /\ FamilyOf(t) \in Families /\ FamilyOf(t) # None
         /\ job[t].token \in InFamily(FamilyOf(t))
BY DEF TypeInv, TypeOK, JobOK, Issued, FamilyOf, InFamily, Row

\* Nobody starts to rotate or to revoke in f, and f gets no token: f stays settled.
LEMMA QuietIn ==
  ASSUME TypeInv, NEW f \in Families, Settled(f),
         InFamily(f)' = InFamily(f),
         \A k \in Tokens : token[k].family # None => token'[k].family = token[k].family,
         \A k \in InFamily(f) : token[k].revoked => token'[k].revoked,
         f \in revokedOnce' => f \in revokedOnce,
         \A t \in Threads : \/ job'[t] = job[t]
                            \/ job'[t].pc \notin {"rotating", "revoke_selected", "suspend_selected"}
  PROVE  Settled(f)'
<1>1. \A t \in Threads : job'[t].pc \in {"rotating", "revoke_selected"} =>
         job'[t] = job[t] /\ FamilyOf(t)' = FamilyOf(t)
  BY FamilyIssued DEF FamilyOf
<1>2. Rotating(f)' => Rotating(f)
  BY <1>1 DEF Rotating
<1>3. Selecting(f)' => Selecting(f)
  BY <1>1 DEF Selecting
<1>4. \A t \in Threads : Hits(t, f)' => Hits(t, f) /\ job'[t] = job[t]
  BY <1>1 DEF Hits
<1>5. Gone(f) => Gone(f)'
  BY DEF Gone
<1> QED
  BY <1>2, <1>3, <1>4, <1>5 DEF Settled

\* The families stay, nothing is unmarked and nobody starts.
LEMMA Quiet ==
  ASSUME TypeInv, RevInv, UNCHANGED <<revokedOnce, raced>>,
         \A k \in Tokens : token'[k].family = token[k].family
                           /\ (token[k].revoked => token'[k].revoked),
         \A t \in Threads : \/ job'[t] = job[t]
                            \/ job'[t].pc \notin {"rotating", "revoke_selected", "suspend_selected"}
  PROVE  RevInv'
<1>1. \A f : InFamily(f)' = InFamily(f)
  BY DEF InFamily
<1>2. \A k \in Tokens : token[k].family # None => token'[k].family = token[k].family
  OBVIOUS
<1>3. ASSUME NEW f \in Families \ raced PROVE Settled(f)'
  <2>1. Settled(f)
    BY DEF RevInv
  <2>2. \A k \in InFamily(f) : token[k].revoked => token'[k].revoked
    BY DEF InFamily
  <2> QED
    BY <2>1, <2>2, <1>1, <1>2, QuietIn
<1> QED
  BY <1>1, <1>3 DEF RevInv

\* A login starts a family nobody has revoked or is about to.
LEMMA StartFamilySettled ==
  ASSUME TypeInv, RevInv, NEW t \in Threads, StartFamily(t)
  PROVE  RevInv'
<1>a. PICK g \in FreshFamilies : g = CHOOSE x \in FreshFamilies : TRUE
  BY DEF StartFamily
<1>b. PICK n \in Tokens : n = NewToken /\ ~Issued(n)
  BY NewTokenIsNew DEF StartFamily
<1> DEFINE row == [Unissued EXCEPT !.family = g]
<1>1. g \in Families /\ g # None /\ InFamily(g) = {}
  BY NoneAssumption DEF FreshFamilies, InFamily
<1>2. n \in Tokens /\ ~Issued(n)
  BY <1>b
<1>3. /\ token' = [token EXCEPT ![n] = row]
      /\ job' = [job EXCEPT ![t] = Idle]
      /\ UNCHANGED <<revokedOnce, raced>>
  BY <1>a, <1>b DEF StartFamily, Finish, history
<1>4. row.family = g
  BY DEF Unissued
<1> HIDE DEF row
<1>5. /\ token'[n].family = g /\ token[n].family = None
      /\ \A k \in Tokens : k # n => token'[k] = token[k]
  BY <1>2, <1>3, <1>4 DEF TypeInv, TypeOK, Issued
<1>6. job'[t].pc = "idle" /\ \A s \in Threads : s # t => job'[s] = job[s]
  BY <1>3, IdleTyped DEF TypeInv, TypeOK
<1>7. \A f \in Families : f # g => InFamily(f)' = InFamily(f)
  BY <1>5, NoneAssumption DEF InFamily
<1>8. ASSUME NEW f \in Families \ raced, f # g PROVE Settled(f)'
  <2>1. \A k \in InFamily(f) : token'[k] = token[k]
    BY <1>2, <1>5, NoneAssumption DEF InFamily
  <2> QED
    BY <2>1, <1>3, <1>5, <1>6, <1>7, <1>8, QuietIn DEF RevInv
<1>9. Settled(g)'
  <2>1. g \notin revokedOnce
    BY <1>1 DEF RevInv
  <2>2. \A s \in Threads : job'[s].pc \in {"rotating", "revoke_selected"} =>
           /\ job'[s] = job[s] /\ FamilyOf(s)' = FamilyOf(s)
           /\ FamilyOf(s) # g
    BY <1>1, <1>5, <1>6, FamilyIssued DEF FamilyOf
  <2>3. ~Rotating(g)'
    BY <2>2 DEF Rotating
  <2>4. \A s \in Threads : ~Hits(s, g)'
    <3>1. \A s \in Threads : \A k \in job[s].rows : k \in Tokens /\ token[k].family # None
      BY DEF TypeInv, TypeOK, JobOK, Job, Issued
    <3>2. InFamily(g)' = {n}
      BY <1>1, <1>2, <1>5 DEF InFamily
    <3> QED
      BY <2>2, <3>1, <3>2, <1>5, <1>6 DEF Hits
  <2> QED
    BY <2>1, <2>3, <2>4, <1>3 DEF Settled
<1>10. \A f \in revokedOnce : f \in Families /\ f # g
  BY <1>1 DEF RevInv, TypeInv, TypeOK
<1> QED
  BY <1>3, <1>7, <1>8, <1>9, <1>10 DEF RevInv

\* A rotation commits in a family that is not revoked and not selected, or raced.
LEMMA RotateCommitSettled ==
  ASSUME TypeInv, RevInv, NEW t \in Threads, RotateCommit(t)
  PROVE  RevInv'
<1>a. PICK n \in Tokens : n = NewToken /\ ~Issued(n)
  BY NewTokenIsNew DEF RotateCommit
<1>b. PICK g \in Families : g = FamilyOf(t) /\ g # None /\ InFamily(g) # {}
  BY FamilyIssued DEF RotateCommit
<1>1. /\ \A k \in Tokens : k # n => /\ token'[k].family = token[k].family
                                    /\ token'[k].revoked = token[k].revoked
      /\ token'[n].family = g
  BY <1>a, <1>b, RotateCommitTyped
<1>2. token[n].family = None
  BY <1>a DEF Issued
<1>3. /\ job' = [job EXCEPT ![t] = Idle]
      /\ UNCHANGED <<revokedOnce, raced>>
      /\ Rotating(g)
  BY <1>b DEF RotateCommit, Finish, Rotating
<1>4. job'[t].pc = "idle" /\ \A s \in Threads : s # t => job'[s] = job[s]
  BY <1>3, IdleTyped DEF TypeInv, TypeOK
<1>5. \A f \in Families : f # g => InFamily(f)' = InFamily(f)
  BY <1>1, <1>2, NoneAssumption DEF InFamily
<1>6. InFamily(g) \subseteq InFamily(g)'
  BY <1>1 DEF InFamily
<1>7. ASSUME NEW f \in Families \ raced, f # g PROVE Settled(f)'
  <2>1. \A k \in InFamily(f) : token'[k].revoked = token[k].revoked
    BY <1>1, <1>2, NoneAssumption DEF InFamily
  <2> QED
    BY <2>1, <1>1, <1>2, <1>3, <1>4, <1>5, <1>7, QuietIn DEF RevInv
<1>8. ASSUME g \notin raced PROVE Settled(g)'
  <2>1. Settled(g)
    BY <1>8 DEF RevInv
  <2>2. g \notin revokedOnce /\ ~Selecting(g)
    BY <2>1, <1>3 DEF Settled
  <2>3. \A s \in Threads : job'[s].pc = "revoke_selected" =>
           job'[s] = job[s] /\ FamilyOf(s)' = FamilyOf(s)
    <3> SUFFICES ASSUME NEW s \in Threads, job'[s].pc = "revoke_selected"
                 PROVE  job'[s] = job[s] /\ FamilyOf(s)' = FamilyOf(s)
      OBVIOUS
    <3>1. job'[s] = job[s]
      BY <1>4
    <3>2. job[s].token \in Tokens /\ Issued(job[s].token)
      BY <3>1 DEF TypeInv, JobOK
    <3> QED
      BY <3>1, <3>2, <1>1, <1>2 DEF FamilyOf, Issued
  <2>4. ~Selecting(g)'
    BY <2>2, <2>3, <1>4 DEF Selecting
  <2>5. \A s \in Threads : ~Hits(s, g)'
    BY <2>4 DEF Hits, Selecting
  <2> QED
    BY <2>2, <2>4, <2>5, <1>3 DEF Settled
<1>9. \A f \in revokedOnce : f \in Families
  BY DEF TypeInv, TypeOK
<1> QED
  BY <1>b, <1>3, <1>5, <1>6, <1>7, <1>8, <1>9 DEF RevInv

\* A rotation begins with a token that is not revoked; if the family is selected
\* it joins those that raced.
LEMMA RotateLoadSettled ==
  ASSUME TypeInv, RevInv, NEW t \in Threads, NEW k \in Tokens, RotateLoad(t, k)
  PROVE  RevInv'
<1>a. PICK g \in Families : g = token[k].family
  BY DEF RotateLoad, Issued, TypeInv, TypeOK, Row
<1>1. /\ job' = [job EXCEPT ![t] = [Idle EXCEPT !.pc = "rotating", !.token = k]]
      /\ job[t].pc = "idle"
      /\ ~token[k].revoked
      /\ raced' = IF Selecting(g) THEN raced \cup {g} ELSE raced
      /\ UNCHANGED <<token, revokedOnce>>
  BY <1>a DEF RotateLoad, Valid, rows
<1>2. /\ job'[t].pc = "rotating" /\ job'[t].token = k
      /\ \A s \in Threads : s # t => job'[s] = job[s]
  BY <1>1 DEF TypeInv, TypeOK, Idle
<1>3. \A f \in Families : InFamily(f)' = InFamily(f) /\ (Gone(f)' <=> Gone(f))
  BY <1>1 DEF InFamily, Gone
<1>4. \A f : Selecting(f)' <=> Selecting(f)
  BY <1>1, <1>2 DEF Selecting, FamilyOf
<1>5. \A s \in Threads : \A f \in Families : Hits(s, f)' => Hits(s, f) /\ job'[s] = job[s]
  BY <1>1, <1>2, <1>3 DEF Hits, FamilyOf
<1>6. \A f : f # g => (Rotating(f)' <=> Rotating(f))
  BY <1>a, <1>1, <1>2 DEF Rotating, FamilyOf
<1>7. ASSUME NEW f \in Families \ raced' PROVE Settled(f)'
  <2>1. f \notin raced /\ Settled(f)
    BY <1>1, <1>7 DEF RevInv
  <2>2. CASE f = g
    <3>1. ~Selecting(g)
      BY <2>2, <1>1, <1>7
    <3>2. ~Gone(g)
      BY <1>a, <1>1 DEF Gone, InFamily
    <3>3. \A s \in Threads : Hits(s, f)' => InFamily(f)' \subseteq job'[s].rows
      BY <2>1, <1>3, <1>5 DEF Settled
    <3> QED
      BY <2>1, <2>2, <3>1, <3>2, <3>3, <1>1, <1>4 DEF Settled
  <2>3. CASE f # g
    BY <2>1, <2>3, <1>1, <1>3, <1>4, <1>5, <1>6 DEF Settled
  <2> QED
    BY <2>2, <2>3
<1> QED
  BY <1>1, <1>3, <1>7 DEF RevInv, TypeInv, TypeOK

\* A revocation selects its rows: all the family has, and a family somebody
\* rotates in joins those that raced.
LEMMA SelectSettled ==
  ASSUME TypeInv, RevInv, NEW t \in Threads, RevokeSelect(t) \/ SuspendSelect(t)
  PROVE  RevInv'
<1>1. /\ UNCHANGED <<token, revokedOnce>>
      /\ job[t].pc \in {"revoking", "suspending"}
      /\ \A s \in Threads : s # t => job'[s] = job[s]
  BY DEF RevokeSelect, SuspendSelect, rows, TypeInv, TypeOK
<1>2. /\ RevokeSelect(t) => /\ job'[t].pc = "revoke_selected" /\ job'[t].token = job[t].token
                            /\ job'[t].rows = InFamily(FamilyOf(t))
      /\ SuspendSelect(t) => /\ job'[t].pc = "suspend_selected"
                             /\ job'[t].rows = {k \in Tokens : Issued(k)}
  <2>1. job[t] \in Job
    BY DEF TypeInv, TypeOK
  <2>2. /\ RevokeSelect(t) => job'[t] = [job[t] EXCEPT !.pc = "revoke_selected",
                                                       !.rows = InFamily(FamilyOf(t))]
        /\ SuspendSelect(t) => job'[t] = [job[t] EXCEPT !.pc = "suspend_selected",
                                                        !.rows = {k \in Tokens : Issued(k)}]
    BY DEF RevokeSelect, SuspendSelect, TypeInv, TypeOK, InFamily
  <2> QED
    BY <2>1, <2>2 DEF Job
<1>3. \A f \in Families : InFamily(f)' = InFamily(f) /\ (Gone(f)' <=> Gone(f))
  BY <1>1 DEF InFamily, Gone
<1>4. \A f : Rotating(f)' <=> Rotating(f)
  BY <1>1, <1>2 DEF Rotating, FamilyOf
<1>5. raced \subseteq raced'
  BY DEF RevokeSelect, SuspendSelect
<1>6. ASSUME NEW f \in Families \ raced' PROVE Settled(f)'
  <2>1. Settled(f)
    BY <1>5, <1>6 DEF RevInv
  <2>2. Selecting(f)' => Selecting(f) \/ ~Rotating(f)
    BY <1>1, <1>2, <1>6 DEF Selecting, FamilyOf, RevokeSelect, SuspendSelect
  <2>3. Hits(t, f)' => InFamily(f) \subseteq job'[t].rows
    <3>1. CASE RevokeSelect(t)
      BY <3>1, <1>1, <1>2 DEF Hits, FamilyOf
    <3>2. CASE SuspendSelect(t)
      BY <3>2, <1>2, NoneAssumption DEF InFamily, Issued
    <3> QED
      BY <3>1, <3>2
  <2>4. \A s \in Threads : s # t => (Hits(s, f)' <=> Hits(s, f))
    BY <1>1, <1>3 DEF Hits, FamilyOf
  <2>5. \A s \in Threads : Hits(s, f)' => InFamily(f)' \subseteq job'[s].rows
    BY <2>1, <2>3, <2>4, <1>1, <1>3 DEF Settled
  <2> QED
    BY <2>1, <2>2, <2>5, <1>1, <1>3, <1>4 DEF Settled
<1> QED
  BY <1>1, <1>3, <1>6 DEF RevInv, TypeInv, TypeOK

\* A revocation commits: what it marks is all the family has.
LEMMA CommitSettled ==
  ASSUME TypeInv, RevInv, NEW t \in Threads, RevokeCommit(t) \/ SuspendCommit(t)
  PROVE  RevInv'
<1>1. /\ Revoke(job[t].rows) /\ job' = [job EXCEPT ![t] = Idle] /\ UNCHANGED raced
      /\ \A f \in revokedOnce' : f \in revokedOnce \/ Hits(t, f)
      /\ \A f : Hits(t, f) => Selecting(f)
  <2>1. \A k \in job[t].rows : k \in InFamily(token[k].family)
    BY DEF TypeInv, TypeOK, Job, InFamily
  <2> QED
    BY <2>1 DEF RevokeCommit, SuspendCommit, Finish, Hits, Selecting
<1>2. job'[t].pc = "idle" /\ \A s \in Threads : s # t => job'[s] = job[s]
  BY <1>1, IdleTyped DEF TypeInv, TypeOK
<1>3. \A k \in Tokens : /\ token'[k].family = token[k].family
                        /\ token'[k].revoked = (token[k].revoked \/ k \in job[t].rows)
  BY <1>1, RevokeTyped
<1>4. \A f : InFamily(f)' = InFamily(f)
  BY <1>3 DEF InFamily
<1>5. ASSUME NEW f \in revokedOnce' PROVE f \in Families /\ InFamily(f) # {}
  <2>1. CASE f \in revokedOnce
    BY <2>1 DEF RevInv, TypeInv, TypeOK
  <2>2. CASE Hits(t, f)
    <3>1. CASE job[t].pc = "revoke_selected" /\ FamilyOf(t) = f
      BY <3>1, FamilyIssued
    <3>2. CASE job[t].pc = "suspend_selected" /\ InFamily(f) \cap job[t].rows # {}
      BY <3>2 DEF TypeInv, TypeOK, JobOK, InFamily, Issued, Row
    <3> QED
      BY <2>2, <3>1, <3>2 DEF Hits
  <2> QED
    BY <2>1, <2>2, <1>1, <1>5
<1>6. ASSUME NEW f \in Families \ raced PROVE Settled(f)'
  <2>1. Settled(f)
    BY <1>6 DEF RevInv
  <2>2. \A k \in InFamily(f) : token[k].revoked => token'[k].revoked
    BY <1>3 DEF InFamily
  <2>3. CASE f \in revokedOnce' => f \in revokedOnce
    BY <2>1, <2>2, <2>3, <1>2, <1>3, <1>4, QuietIn
  <2>4. CASE Hits(t, f) /\ f \in revokedOnce'
    <3>1. InFamily(f) \subseteq job[t].rows /\ ~Rotating(f)
      BY <2>1, <2>4, <1>1 DEF Settled
    <3>2. Gone(f)'
      BY <2>4, <3>1, <1>3, <1>4, <1>5 DEF Gone, InFamily
    <3>3. \A s \in Threads : job'[s].pc \in {"rotating", "revoke_selected"} =>
             job'[s] = job[s] /\ FamilyOf(s)' = FamilyOf(s)
      BY <1>2, <1>3, FamilyIssued DEF FamilyOf
    <3>4. ~Rotating(f)'
      BY <3>1, <3>3 DEF Rotating
    <3>5. \A s \in Threads : Hits(s, f)' => Hits(s, f) /\ job'[s] = job[s]
      BY <3>3, <1>2, <1>4 DEF Hits
    <3> QED
      BY <2>1, <3>2, <3>4, <3>5, <1>4 DEF Settled
  <2> QED
    BY <2>3, <2>4, <1>1
<1> QED
  BY <1>1, <1>4, <1>5, <1>6 DEF RevInv

LEMMA RevInvStep == TypeInv /\ RevInv /\ [Next]_vars => RevInv'
<1> SUFFICES ASSUME TypeInv, RevInv, [Next]_vars PROVE RevInv'
  OBVIOUS
<1> USE DEF rows, history
<1>1. ASSUME NEW t \in Threads, NEW j, job' = [job EXCEPT ![t] = j],
             j.pc \notin {"rotating", "revoke_selected", "suspend_selected"},
             UNCHANGED <<token, revokedOnce, raced>>
      PROVE  RevInv'
  BY <1>1, Quiet DEF TypeInv, TypeOK
<1>2. ASSUME NEW t \in Threads, NEW pc, Goto(t, pc),
             pc \notin {"rotating", "revoke_selected", "suspend_selected"},
             UNCHANGED <<token, revokedOnce, raced>>
      PROVE  RevInv'
  <2> DEFINE j == [job[t] EXCEPT !.pc = pc]
  <2>1. job' = [job EXCEPT ![t] = j]
    BY <1>2 DEF Goto
  <2>2. j.pc = pc
    BY DEF TypeInv, TypeOK, Job
  <2> QED
    BY <1>1, <1>2, <2>1, <2>2
<1>3. ASSUME NEW t \in Threads, LoginIssue(t) \/ ChallengeIssue(t) PROVE RevInv'
  BY <1>3, StartFamilySettled DEF LoginIssue, ChallengeIssue
<1>4. ASSUME NEW t \in Threads,
             \/ LoginLoad(t) \/ ChallengeLoad(t) \/ ChallengeSpend(t) \/ SuspendLoad(t)
      PROVE  RevInv'
  BY <1>2, <1>4 DEF LoginLoad, ChallengeLoad, ChallengeSpend, SuspendLoad
<1>5. ASSUME NEW t \in Threads, LoginChallenge(t) PROVE RevInv'
  BY <1>1, <1>5, IdleTyped DEF LoginChallenge, Finish
<1>6. ASSUME NEW t \in Threads, NEW k \in Tokens, ReuseLoad(t, k) \/ LogoutLoad(t, k)
      PROVE  RevInv'
  <2> DEFINE j == [Idle EXCEPT !.pc = "revoking", !.token = k]
  <2>1. job' = [job EXCEPT ![t] = j] /\ UNCHANGED <<token, revokedOnce, raced>>
    BY <1>6 DEF ReuseLoad, LogoutLoad
  <2>2. j.pc = "revoking"
    BY DEF Idle
  <2> QED
    BY <1>1, <2>1, <2>2
<1>7. ASSUME NEW k \in Tokens, TokenExpires(k) PROVE RevInv'
  <2>1. \A n \in Tokens : token'[n].family = token[n].family /\ token'[n].revoked = token[n].revoked
    <3>1. \A n \in Tokens : token[n] \in Row
      BY DEF TypeInv, TypeOK
    <3>2. \A n \in Tokens : token'[n] = token[n] \/ token'[n] = [token[n] EXCEPT !.expired = TRUE]
      BY <1>7 DEF TokenExpires, TypeInv, TypeOK
    <3> QED
      BY <3>1, <3>2 DEF Row
  <2> QED
    BY <1>7, <2>1, Quiet DEF TokenExpires
<1>8. CASE Unsuspend \/ OtpExpires \/ UNCHANGED vars
  BY <1>8, Quiet DEF Unsuspend, OtpExpires, vars
<1>9. CASE Crash
  BY <1>9, Quiet, IdleTyped DEF Crash
<1> QED
  BY <1>3, <1>4, <1>5, <1>6, <1>7, <1>8, <1>9,
     RotateLoadSettled, RotateCommitSettled, SelectSettled, CommitSettled DEF Next

\* A committed logout, reuse detection or suspension leaves no good token in the
\* families it revoked, unless a rotation overlapped it.
THEOREM Revocation == Spec => []RevocationIsFinal
<1>1. Spec => [](TypeInv /\ RevInv)
  BY TypeInvInit, TypeInvStep, RevInvInit, RevInvStep, PTL DEF Spec
<1>2. TypeInv /\ RevInv => RevocationIsFinal
  BY DEF TypeInv, TypeOK, RevInv, Settled, Gone, InFamily, RevocationIsFinal, Live
<1> QED
  BY <1>1, <1>2, PTL
=============================================================================
