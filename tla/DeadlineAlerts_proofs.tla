------------------------ MODULE DeadlineAlerts_proofs ------------------------
(***************************************************************************)
(* Proofs about DeadlineAlerts, for every number of processes, members and *)
(* stretches: type correctness with the hold of the shared lock, and the   *)
(* bound on the copies of one alert.                                       *)
(***************************************************************************)
EXTENDS DeadlineAlerts, FiniteSetTheorems, WellFoundedInduction, TLAPS

\* Processes that see the log, have sent member m the alert of b and not recorded it.
Owes(j) == j.pc = "sent" /\ ~j.blind

Senders(m, b) == {p \in Processes : Owes(proc[p]) /\ proc[p].member = m /\ Bucket = b}

\* How many processes can send one alert with nobody dying
Parallel == IF redis THEN 1 ELSE Cardinality(Processes)

Jobs == [pc : PCs, todo : SUBSET Members, member : Members \cup {None}, blind : BOOLEAN]

\* A run that alerts knows the stretch, and one that sent knows to whom.
RunOK ==
    \A p \in Processes :
        /\ proc[p].pc \in {"alerting", "sent"} => Bucket \in Buckets
        /\ proc[p].pc = "sent" => proc[p].member \in Members

TypeInv == TypeOK /\ RunOK

-----------------------------------------------------------------------------
(***************************************************************************)
(* The stretch of a day.                                                   *)
(***************************************************************************)
LEMMA Least ==
  ASSUME NEW S \in SUBSET Nat, S # {}
  PROVE  \E x \in S : \A y \in S : x <= y
<1> DEFINE R == StrictSubsetOrdering(Nat)
           T == {1..x : x \in S}
<1>1. T \subseteq FiniteSubsetsOf(Nat) /\ T # {}
  <2>1. \A x \in S : 1..x \subseteq Nat /\ IsFiniteSet(1..x)
    BY FS_Interval
  <2> QED
    BY <2>1 DEF FiniteSubsetsOf
<1>2. IsWellFoundedOn(R, FiniteSubsetsOf(Nat))
  BY FS_StrictSubsetOrderingWellFounded
<1> HIDE DEF R
<1>3. PICK U \in T : \A V \in T : <<V, U>> \notin R
  BY <1>1, <1>2, WFMin
<1>4. PICK x \in S : U = 1..x
  BY <1>3
<1>5. ASSUME NEW y \in S PROVE x <= y
  <2> SUFFICES ASSUME y < x PROVE FALSE
    BY <1>5
  <2>1. 1..y \subseteq 1..x /\ x \in 1..x /\ x \notin 1..y
    OBVIOUS
  <2>2. 1..y \in SUBSET Nat /\ 1..x \in SUBSET Nat
    OBVIOUS
  <2>3. <<1..y, 1..x>> \in R
    BY <2>1, <2>2 DEF R, StrictSubsetOrdering
  <2> QED
    BY <1>3, <1>4, <2>3
<1> QED
  BY <1>4, <1>5

LEMMA BucketTyped == Bucket \in Buckets \cup {None}
<1> DEFINE candidates == {b \in Buckets : days <= b}
<1>1. CASE days < 0 \/ candidates = {}
  BY <1>1 DEF Bucket, BucketOn
<1>2. CASE ~(days < 0) /\ candidates # {}
  <2>1. \E b \in candidates : \A a \in candidates : b <= a
    BY <1>2, Least, BucketsAssumption
  <2> QED
    BY <1>2, <2>1 DEF Bucket, BucketOn
<1> QED
  BY <1>1, <1>2

LEMMA SameBucket ==
  ASSUME UNCHANGED days
  PROVE  Bucket' = Bucket
BY DEF Bucket, BucketOn

LEMMA ProcessTyped ==
  ASSUME NEW pc \in PCs
  PROVE  /\ Process(pc) \in Jobs
         /\ Process(pc).pc = pc
BY DEF Process, Jobs

-----------------------------------------------------------------------------
(***************************************************************************)
(* Types.                                                                  *)
(***************************************************************************)
LEMMA TypeInvInit == Init => TypeInv
<1> SUFFICES ASSUME Init PROVE TypeInv
  OBVIOUS
<1>1. "fresh" \in PCs /\ "fresh" \notin Running /\ "fresh" \notin {"alerting", "sent"}
  BY DEF PCs, Running
<1>2. /\ proc \in [Processes -> Jobs]
      /\ \A p \in Processes : proc[p].pc = "fresh"
  BY <1>1, ProcessTyped DEF Init
<1>3. copies \in [Members -> [Buckets -> Nat]]
  BY DEF Init
<1>4. days \in -1..MaxDays /\ crashes \in Nat
  BY BoundsAssumption DEF Init
<1> QED
  BY <1>1, <1>2, <1>3, <1>4 DEF Init, TypeInv, TypeOK, Jobs, RunOK

\* One process moves on within a day, and holds the lock if it runs.
LEMMA ProcStep ==
  ASSUME TypeInv, NEW p \in Processes,
         NEW j \in Jobs,
         proc' = [proc EXCEPT ![p] = j],
         UNCHANGED <<days, deployment>>,
         j.pc \in {"alerting", "sent"} => Bucket \in Buckets,
         j.pc = "sent" => j.member \in Members,
         redis /\ j.pc \in Running => lock' = p,
         \/ UNCHANGED lock
         \/ redis => \A q \in Processes : q # p => proc[q].pc \notin Running
  PROVE  /\ proc' \in [Processes -> Jobs]
         /\ \A q \in Processes : redis' /\ proc'[q].pc \in Running => lock' = q
         /\ RunOK'
<1>1. proc'[p] = j /\ \A q \in Processes : q # p => proc'[q] = proc[q]
  BY DEF TypeInv, TypeOK, Jobs, deployment, history
<1>2. \A q \in Processes : redis' /\ proc'[q].pc \in Running => lock' = q
  BY <1>1 DEF TypeInv, TypeOK, Jobs, deployment, history
<1>3. RunOK'
  BY <1>1, SameBucket DEF TypeInv, RunOK
<1> QED
  BY <1>2, <1>3 DEF TypeInv, TypeOK, Jobs, deployment, history

\* Whoever runs keeps the others out.
LEMMA Alone ==
  ASSUME TypeInv, NEW p \in Processes, proc[p].pc \in Running, redis
  PROVE  lock = p /\ \A q \in Processes : q # p => proc[q].pc \notin Running
BY DEF TypeInv, TypeOK, Jobs, deployment, history

LEMMA FinishTyped ==
  ASSUME TypeInv, NEW p \in Processes, proc[p].pc \in Running, Finish(p),
         UNCHANGED <<days, deployment>>
  PROVE  /\ proc' \in [Processes -> Jobs]
         /\ \A q \in Processes : redis' /\ proc'[q].pc \in Running => lock' = q
         /\ RunOK'
         /\ lock' \in Processes \cup {None}
         /\ aged' \in BOOLEAN
<1>1. "done" \in PCs /\ "done" \notin Running /\ "done" \notin {"alerting", "sent"}
  BY DEF PCs, Running
<1>2. proc' = [proc EXCEPT ![p] = Process("done")]
  BY DEF Finish
<1>3. lock' \in Processes \cup {None} /\ aged' \in BOOLEAN
  BY DEF Finish, TypeInv, TypeOK
<1>4. UNCHANGED lock \/ (redis => \A q \in Processes : q # p => proc[q].pc \notin Running)
  BY Alone DEF Finish
<1>5. Process("done").pc = "done"
  BY <1>1, ProcessTyped
<1> QED
  BY <1>1, <1>2, <1>3, <1>4, <1>5, ProcStep, ProcessTyped

LEMMA TickTyped ==
  ASSUME TypeInv, NEW p \in Processes, Tick(p)
  PROVE  TypeInv'
<1>0. /\ proc[p] \in Jobs
      /\ {"scanning", "alerting", "sent", "done"} \subseteq PCs
      /\ {"scanning", "alerting", "sent"} \subseteq Running
      /\ "done" \notin Running
  BY DEF TypeInv, TypeOK, Jobs, PCs, Running
<1>1. CASE TickStart(p)
  <2>1. CASE MayRun(p)
    <3> DEFINE j == Process("scanning")
    <3>1. j \in Jobs /\ j.pc = "scanning"
      BY <1>0, ProcessTyped
    <3>2. /\ proc' = [proc EXCEPT ![p] = j]
          /\ lock' = IF redis THEN p ELSE lock
          /\ aged' = FALSE
          /\ UNCHANGED <<days, deadline, wants, log, deployment, history>>
      BY <1>1, <2>1 DEF TickStart
    <3>3. redis => \A q \in Processes : q # p => proc[q].pc \notin Running
      BY <2>1, NoneAssumption DEF MayRun, TypeInv, TypeOK
    <3> HIDE DEF j
    <3>4. /\ proc' \in [Processes -> Jobs]
          /\ \A q \in Processes : redis' /\ proc'[q].pc \in Running => lock' = q
          /\ RunOK'
      BY <3>1, <3>2, <3>3, ProcStep
    <3> QED
      BY <3>2, <3>4 DEF TypeInv, TypeOK, Jobs, deployment, history
  <2>2. CASE ~MayRun(p)
    <3> DEFINE j == Process("done")
    <3>1. j \in Jobs /\ j.pc = "done"
      BY <1>0, ProcessTyped
    <3>2. /\ proc' = [proc EXCEPT ![p] = j]
          /\ UNCHANGED <<days, deadline, wants, log, lock, aged, deployment, history>>
      BY <1>1, <2>2 DEF TickStart
    <3> HIDE DEF j
    <3>3. /\ proc' \in [Processes -> Jobs]
          /\ \A q \in Processes : redis' /\ proc'[q].pc \in Running => lock' = q
          /\ RunOK'
      BY <1>0, <3>1, <3>2, ProcStep
    <3> QED
      BY <3>2, <3>3 DEF TypeInv, TypeOK, Jobs, deployment, history
  <2> QED
    BY <2>1, <2>2
<1>2. CASE Scan(p)
  <2>1. CASE deadline = "open" /\ Bucket # None
    <3> DEFINE j == [proc[p] EXCEPT !.pc = "alerting", !.todo = Members]
    <3>1. j \in Jobs /\ j.pc = "alerting"
      BY <1>0 DEF Jobs
    <3>2. /\ proc' = [proc EXCEPT ![p] = j]
          /\ UNCHANGED <<days, deadline, wants, log, lock, aged, deployment, history>>
      BY <1>2, <2>1 DEF Scan
    <3>3. Bucket \in Buckets
      BY <2>1, BucketTyped
    <3>4. redis => lock = p
      BY <1>2, <1>0, Alone DEF Scan
    <3> HIDE DEF j
    <3>5. /\ proc' \in [Processes -> Jobs]
          /\ \A q \in Processes : redis' /\ proc'[q].pc \in Running => lock' = q
          /\ RunOK'
      BY <3>1, <3>2, <3>3, <3>4, ProcStep
    <3> QED
      BY <3>2, <3>5 DEF TypeInv, TypeOK, Jobs, deployment, history
  <2>2. CASE ~(deadline = "open" /\ Bucket # None)
    <3>1. /\ proc[p].pc \in Running /\ Finish(p)
          /\ UNCHANGED <<days, deadline, wants, log, deployment, history>>
      BY <1>2, <2>2, <1>0 DEF Scan
    <3> QED
      BY <3>1, FinishTyped DEF TypeInv, TypeOK, Jobs, deployment, history
  <2> QED
    BY <2>1, <2>2
<1>3. ASSUME NEW m \in Members, Skip(p, m) PROVE TypeInv'
  <2> DEFINE j == [proc[p] EXCEPT !.todo = @ \ {m}]
  <2>1. j \in Jobs /\ j.pc = "alerting"
    BY <1>0, <1>3 DEF Skip, Jobs
  <2>2. /\ proc' = [proc EXCEPT ![p] = j]
        /\ UNCHANGED <<days, deadline, wants, log, lock, aged, deployment, history>>
    BY <1>3 DEF Skip
  <2>3. Bucket \in Buckets /\ (redis => lock = p)
    BY <1>3, <1>0, Alone DEF Skip, TypeInv, RunOK
  <2> HIDE DEF j
  <2>4. /\ proc' \in [Processes -> Jobs]
        /\ \A q \in Processes : redis' /\ proc'[q].pc \in Running => lock' = q
        /\ RunOK'
    BY <2>1, <2>2, <2>3, ProcStep
  <2> QED
    BY <2>2, <2>4 DEF TypeInv, TypeOK, Jobs, deployment, history
<1>4. ASSUME NEW m \in Members, NEW ok \in BOOLEAN, Send(p, m, ok) PROVE TypeInv'
  <2> DEFINE j == [proc[p] EXCEPT !.pc = "sent", !.member = m]
  <2>1. j \in Jobs /\ j.pc = "sent" /\ j.member = m
    BY <1>0 DEF Jobs
  <2>2. /\ proc' = [proc EXCEPT ![p] = j]
        /\ copies' \in {copies, [copies EXCEPT ![m][Bucket] = @ + 1]}
        /\ told' \in {told, told \cup {m}}
        /\ failed' \in {failed, failed \cup {<<m, Bucket>>}}
        /\ UNCHANGED <<days, deadline, wants, log, lock, aged, deployment, crashes>>
    BY <1>4 DEF Send
  <2>3. Bucket \in Buckets /\ (redis => lock = p)
    BY <1>4, <1>0, Alone DEF Send, TypeInv, RunOK
  <2> HIDE DEF j
  <2>4. /\ proc' \in [Processes -> Jobs]
        /\ \A q \in Processes : redis' /\ proc'[q].pc \in Running => lock' = q
        /\ RunOK'
    BY <2>1, <2>2, <2>3, ProcStep
  <2>5. /\ copies' \in [Members -> [Buckets -> Nat]]
        /\ told' \subseteq Members /\ failed' \subseteq Members \X Buckets
    <3>1. [copies EXCEPT ![m][Bucket] = @ + 1] \in [Members -> [Buckets -> Nat]]
      BY <2>3 DEF TypeInv, TypeOK
    <3>2. <<m, Bucket>> \in Members \X Buckets
      BY <2>3
    <3> QED
      BY <2>2, <3>1, <3>2 DEF TypeInv, TypeOK
  <2> QED
    BY <2>2, <2>4, <2>5 DEF TypeInv, TypeOK, Jobs, deployment, history
<1>5. CASE Record(p)
  <2> DEFINE row == <<proc[p].member, Bucket>>
  <2>0. proc[p].pc = "sent" /\ proc[p].member \in Members /\ Bucket \in Buckets
    BY <1>5 DEF Record, TypeInv, RunOK
  <2>1. CASE row \in log \/ proc[p].blind
    <3>1. /\ proc[p].pc \in Running /\ Finish(p)
          /\ UNCHANGED <<days, deadline, wants, log, deployment, history>>
      BY <1>5, <2>1, <1>0 DEF Record
    <3> QED
      BY <3>1, FinishTyped DEF TypeInv, TypeOK, Jobs, deployment, history
  <2>2. CASE row \notin log /\ ~proc[p].blind
    <3> DEFINE j == [proc[p] EXCEPT !.pc = "alerting", !.member = None,
                                    !.todo = proc[p].todo \ {proc[p].member}, !.blind = rls]
    <3>0. rls \in BOOLEAN
      BY DEF TypeInv, TypeOK
    <3>1. j \in Jobs /\ j.pc = "alerting"
      BY <1>0, <3>0 DEF Jobs
    <3>2. /\ proc' = [proc EXCEPT ![p] = j]
          /\ log' = log \cup {row}
          /\ UNCHANGED <<days, deadline, wants, lock, aged, deployment, history>>
      BY <1>5, <2>2 DEF Record
    <3>3. redis => lock = p
      BY <2>0, <1>0, Alone
    <3> HIDE DEF j
    <3>4. /\ proc' \in [Processes -> Jobs]
          /\ \A q \in Processes : redis' /\ proc'[q].pc \in Running => lock' = q
          /\ RunOK'
      BY <2>0, <3>1, <3>2, <3>3, ProcStep
    <3>5. log' \subseteq Members \X Buckets
      BY <2>0, <3>2 DEF TypeInv, TypeOK, Jobs, deployment, history
    <3> QED
      BY <3>2, <3>4, <3>5 DEF TypeInv, TypeOK, Jobs, deployment, history
  <2> QED
    BY <2>1, <2>2
<1>6. CASE TickEnd(p)
  <2>1. /\ proc[p].pc \in Running /\ Finish(p)
        /\ UNCHANGED <<days, deadline, wants, log, deployment, history>>
    BY <1>6, <1>0 DEF TickEnd
  <2> QED
    BY <2>1, FinishTyped DEF TypeInv, TypeOK, Jobs, deployment, history
<1> QED
  BY <1>1, <1>2, <1>3, <1>4, <1>5, <1>6 DEF Tick

LEMMA TypeInvStep == TypeInv /\ [Next]_vars => TypeInv'
<1> SUFFICES ASSUME TypeInv, [Next]_vars PROVE TypeInv'
  OBVIOUS
<1>0. /\ {"fresh", "waiting"} \subseteq PCs
      /\ "fresh" \notin Running /\ "waiting" \notin Running
  BY DEF PCs, Running
<1>1. ASSUME NEW p \in Processes, Crash(p) PROVE TypeInv'
  <2> DEFINE j == Process("fresh")
  <2>1. j \in Jobs /\ j.pc = "fresh"
    BY <1>0, ProcessTyped
  <2>2. /\ proc' = [proc EXCEPT ![p] = j]
        /\ crashes' = crashes + 1
        /\ UNCHANGED <<days, deadline, wants, log, lock, aged, deployment, copies, told, failed>>
    BY <1>1 DEF Crash
  <2> HIDE DEF j
  <2>3. /\ proc' \in [Processes -> Jobs]
        /\ \A q \in Processes : redis' /\ proc'[q].pc \in Running => lock' = q
        /\ RunOK'
    BY <1>0, <2>1, <2>2, ProcStep
  <2>4. crashes' \in Nat
    BY <2>2 DEF TypeInv, TypeOK, Jobs, deployment, history
  <2> QED
    BY <2>2, <2>3, <2>4 DEF TypeInv, TypeOK, Jobs, deployment, history
<1>2. CASE LockExpires
  BY <1>2, SameBucket DEF LockExpires, TypeInv, TypeOK, Jobs, RunOK, deployment, history
<1>3. CASE DayPasses
  <2>1. /\ proc' \in [Processes -> Jobs]
        /\ \A p \in Processes : proc'[p].pc = "waiting"
    BY <1>0, <1>3, ProcessTyped DEF DayPasses
  <2>2. RunOK' /\ \A p \in Processes : redis' /\ proc'[p].pc \in Running => lock' = p
    BY <1>0, <2>1 DEF RunOK
  <2>3. days' \in -1..MaxDays
    BY <1>3, BoundsAssumption DEF DayPasses, TypeInv, TypeOK
  <2> QED
    BY <1>3, <2>1, <2>2, <2>3 DEF DayPasses, TypeInv, TypeOK, Jobs, deployment, history
<1>4. CASE Extract \/ ConfirmDeadline \/ UNCHANGED vars
  BY <1>4, SameBucket DEF Extract, ConfirmDeadline, vars, TypeInv, TypeOK, Jobs, RunOK, deployment, history
<1>5. ASSUME NEW m \in Members, SetPreference(m) PROVE TypeInv'
  BY <1>5, SameBucket DEF SetPreference, TypeInv, TypeOK, Jobs, RunOK, deployment, history
<1> QED
  BY <1>1, <1>2, <1>3, <1>4, <1>5, TickTyped DEF Next

\* Every state has the type TypeOK gives it, and with Redis whoever runs holds
\* the lock: no run takes it from another, and none is left running without it.
THEOREM TypeCorrect == Spec => []TypeOK
<1>1. TypeInv => TypeOK
  BY DEF TypeInv
<1> QED
  BY <1>1, TypeInvInit, TypeInvStep, PTL DEF Spec

-----------------------------------------------------------------------------
(***************************************************************************)
(* Copies.  Before an alert is recorded, its copies are those of runs that *)
(* died and of runs that are about to record it; no other is sent after.   *)
(***************************************************************************)
CopyOK(m, b) ==
    /\ <<m, b>> \notin log => copies[m][b] <= crashes + Cardinality(Senders(m, b))
    /\ <<m, b>> \in log => copies[m][b] \in 1..(crashes + Parallel)

CopyInv ==
    /\ \A m \in Members, b \in Buckets : CopyOK(m, b)
    /\ \A p \in Processes :
          Owes(proc[p]) => copies[proc[p].member][Bucket] > 0

LEMMA SendersFinite ==
  ASSUME NEW m, NEW b
  PROVE  IsFiniteSet(Senders(m, b)) /\ Cardinality(Senders(m, b)) \in Nat
<1>1. Senders(m, b) \in SUBSET Processes
  BY DEF Senders
<1> QED
  BY <1>1, SetsAssumption, FS_Subset, FS_CardinalityType

LEMMA ParallelTyped == Parallel \in Nat
BY SetsAssumption, FS_CardinalityType DEF Parallel

\* With Redis at most one process is in the middle of an alert.
LEMMA SendersFew ==
  ASSUME TypeInv, NEW m, NEW b
  PROVE  Cardinality(Senders(m, b)) <= Parallel
<1>1. Senders(m, b) \in SUBSET Processes
  BY DEF Senders
<1>2. CASE ~redis
  BY <1>1, <1>2, SetsAssumption, FS_Subset DEF Parallel
<1>3. CASE redis
  <2>1. Senders(m, b) \in SUBSET {lock}
    BY <1>3, Alone DEF Senders, Owes, Running
  <2>2. IsFiniteSet({lock}) /\ Cardinality({lock}) = 1
    BY FS_Singleton
  <2> QED
    BY <1>3, <2>1, <2>2, FS_Subset DEF Parallel
<1> QED
  BY <1>2, <1>3

LEMMA CopyInvInit == Init => CopyInv
<1> SUFFICES ASSUME Init PROVE CopyInv
  OBVIOUS
<1>1. \A p \in Processes : proc[p].pc = "fresh"
  BY DEF Init, Process
<1>2. ASSUME NEW m \in Members, NEW b \in Buckets PROVE CopyOK(m, b)
  <2>1. copies[m][b] = 0 /\ <<m, b>> \notin log /\ crashes = 0
    BY DEF Init
  <2> QED
    BY <2>1, SendersFinite DEF CopyOK
<1> QED
  BY <1>1, <1>2 DEF CopyInv, Owes

\* A step that sends, records and loses nothing.
LEMMA Quiet ==
  ASSUME TypeInv, CopyInv, UNCHANGED <<log, copies, crashes, redis>>,
         \/ /\ UNCHANGED days
            /\ \A p \in Processes :
                  /\ Owes(proc'[p]) <=> Owes(proc[p])
                  /\ Owes(proc[p]) => proc'[p].member = proc[p].member
         \/ \A p \in Processes : ~Owes(proc'[p]) /\ ~Owes(proc[p])
  PROVE  CopyInv'
<1>1. ASSUME NEW m, NEW b PROVE Senders(m, b)' = Senders(m, b)
  BY SameBucket DEF Senders
<1>2. Parallel' = Parallel
  BY DEF Parallel
<1>3. \A m \in Members, b \in Buckets : CopyOK(m, b)'
  BY <1>1, <1>2 DEF CopyInv, CopyOK
<1>4. \A p \in Processes : Owes(proc'[p]) => (copies[proc[p].member][Bucket])' > 0
  BY SameBucket DEF CopyInv
<1> QED
  BY <1>3, <1>4 DEF CopyInv

\* One process moves on, owing no record before or after.
LEMMA QuietStep ==
  ASSUME TypeInv, CopyInv, UNCHANGED <<log, history, deployment, days>>,
         NEW p \in Processes, NEW j, proc' = [proc EXCEPT ![p] = j],
         ~Owes(j), ~Owes(proc[p])
  PROVE  CopyInv'
<1>1. proc'[p] = j /\ \A q \in Processes : q # p => proc'[q] = proc[q]
  BY DEF TypeInv, TypeOK
<1> QED
  BY <1>1, Quiet DEF history, deployment

LEMMA SendBounded ==
  ASSUME TypeInv, CopyInv, NEW p \in Processes, NEW m \in Members, NEW ok \in BOOLEAN, Send(p, m, ok)
  PROVE  CopyInv'
<1> DEFINE j == [proc[p] EXCEPT !.pc = "sent", !.member = m]
<1>0. CASE proc[p].blind
  <2>1. /\ proc' = [proc EXCEPT ![p] = j]
        /\ UNCHANGED <<log, history, deployment, days>>
    BY <1>0 DEF Send, history
  <2>2. j.blind
    BY <1>0 DEF TypeInv, TypeOK
  <2> HIDE DEF j
  <2> QED
    BY <1>0, <2>1, <2>2, QuietStep DEF Owes
<1> SUFFICES ASSUME ~proc[p].blind PROVE CopyInv'
  BY <1>0
<1>1. /\ proc[p].pc = "alerting"
      /\ Bucket \in Buckets
      /\ <<m, Bucket>> \notin log
      /\ copies' = [copies EXCEPT ![m][Bucket] = @ + 1]
      /\ proc' = [proc EXCEPT ![p] = j]
      /\ UNCHANGED <<days, log, redis, crashes>>
  BY DEF Send, Due, TypeInv, RunOK, deployment
<1>2. Owes(j) /\ j.member = m
  BY DEF TypeInv, TypeOK, Owes
<1> HIDE DEF j
<1>3. proc'[p] = j /\ \A q \in Processes : q # p => proc'[q] = proc[q]
  BY <1>1 DEF TypeInv, TypeOK
<1>4. /\ copies'[m][Bucket] = copies[m][Bucket] + 1
      /\ \A n \in Members, b \in Buckets :
            n # m \/ b # Bucket => copies'[n][b] = copies[n][b]
  BY <1>1 DEF TypeInv, TypeOK
<1>5. Bucket' = Bucket /\ Parallel' = Parallel
  BY <1>1, SameBucket DEF Parallel
<1>6. ASSUME NEW n \in Members, NEW b \in Buckets PROVE CopyOK(n, b)'
  <2>1. CASE n = m /\ b = Bucket
    <3>0. ~Owes(proc[p])
      BY <1>1 DEF Owes
    <3>1. Senders(m, b)' = Senders(m, b) \cup {p} /\ p \notin Senders(m, b)
      BY <1>1, <1>2, <1>3, <1>5, <2>1, <3>0 DEF Senders
    <3>2. Cardinality(Senders(m, b)') = Cardinality(Senders(m, b)) + 1
      BY <3>1, SendersFinite, FS_AddElement
    <3>3. copies[m][b] <= crashes + Cardinality(Senders(m, b))
      BY <1>1, <2>1 DEF CopyInv, CopyOK
    <3>4. copies[m][b] \in Nat /\ crashes \in Nat
      BY DEF TypeInv, TypeOK
    <3>5. copies'[m][b] <= crashes' + Cardinality(Senders(m, b)')
      BY <1>1, <1>4, <2>1, <3>2, <3>3, <3>4, SendersFinite
    <3> QED
      BY <1>1, <2>1, <3>5 DEF CopyOK
  <2>2. CASE ~(n = m /\ b = Bucket)
    <3>0. ~Owes(proc[p])
      BY <1>1 DEF Owes
    <3>1. Senders(n, b)' = Senders(n, b)
      BY <1>1, <1>2, <1>3, <1>5, <2>2, <3>0 DEF Senders
    <3> QED
      BY <1>1, <1>4, <1>5, <2>2, <3>1 DEF CopyInv, CopyOK
  <2> QED
    BY <2>1, <2>2
<1>7. ASSUME NEW q \in Processes, Owes(proc'[q])
      PROVE  (copies[proc[q].member][Bucket])' > 0
  <2>1. copies[m][Bucket] \in Nat
    BY <1>1 DEF TypeInv, TypeOK
  <2>2. CASE proc'[q].member = m
    BY <1>4, <1>5, <2>1, <2>2
  <2>3. CASE proc'[q].member # m
    <3>1. proc'[q] = proc[q] /\ proc[q].member \in Members
      BY <1>2, <1>3, <1>7, <2>3 DEF TypeInv, RunOK, Owes
    <3> QED
      BY <1>1, <1>4, <1>5, <1>7, <2>3, <3>1 DEF CopyInv
  <2> QED
    BY <2>2, <2>3
<1> QED
  BY <1>6, <1>7 DEF CopyInv

\* Some processes leave "sent", none enters it.
LEMMA SendersShrink ==
  ASSUME TypeInv, NEW p \in Processes, NEW j, proc' = [proc EXCEPT ![p] = j],
         ~Owes(j), UNCHANGED days, NEW m, NEW b
  PROVE  Senders(m, b)' = Senders(m, b) \ {p}
<1>1. proc'[p] = j /\ \A q \in Processes : q # p => proc'[q] = proc[q]
  BY DEF TypeInv, TypeOK
<1> QED
  BY <1>1, SameBucket DEF Senders

LEMMA RecordBounded ==
  ASSUME TypeInv, CopyInv, NEW p \in Processes, Record(p)
  PROVE  CopyInv'
<1> DEFINE row == <<proc[p].member, Bucket>>
<1>a. CASE proc[p].blind
  <2> DEFINE i == Process("done")
  <2>1. /\ proc' = [proc EXCEPT ![p] = i]
        /\ UNCHANGED <<log, history, deployment, days>>
    BY <1>a DEF Record, Finish
  <2>2. ~Owes(i) /\ ~Owes(proc[p])
    BY <1>a DEF Process, Owes
  <2> HIDE DEF i
  <2> QED
    BY <2>1, <2>2, QuietStep
<1> SUFFICES ASSUME ~proc[p].blind PROVE CopyInv'
  BY <1>a
<1>0. /\ Owes(proc[p]) /\ proc[p].member \in Members /\ Bucket \in Buckets
      /\ UNCHANGED <<days, redis, copies, crashes>>
  BY DEF Record, TypeInv, RunOK, Owes, deployment, history
<1>1. PICK j : /\ proc' = [proc EXCEPT ![p] = j]
               /\ ~Owes(j)
               /\ log' = log \cup {row}
  <2>1. CASE row \in log
    <3> DEFINE i == Process("done")
    <3>1. proc' = [proc EXCEPT ![p] = i] /\ log' = log \cup {row}
      BY <2>1 DEF Record, Finish
    <3>2. ~Owes(i)
      BY DEF Process, Owes
    <3> HIDE DEF i
    <3> QED
      BY <3>1, <3>2
  <2>2. CASE row \notin log
    <3> DEFINE i == [proc[p] EXCEPT !.pc = "alerting", !.member = None,
                                    !.todo = proc[p].todo \ {proc[p].member}, !.blind = rls]
    <3>1. proc' = [proc EXCEPT ![p] = i] /\ log' = log \cup {row}
      BY <2>2 DEF Record
    <3>2. ~Owes(i)
      BY DEF TypeInv, TypeOK, Owes
    <3> QED
      BY <3>1, <3>2
  <2> QED
    BY <2>1, <2>2
<1>2. proc'[p] = j /\ \A q \in Processes : q # p => proc'[q] = proc[q]
  BY <1>1 DEF TypeInv, TypeOK
<1>3. Bucket' = Bucket /\ Parallel' = Parallel
  BY <1>0, SameBucket DEF Parallel
<1>4. ASSUME NEW m \in Members, NEW b \in Buckets PROVE CopyOK(m, b)'
  <2>1. copies[m][b] \in Nat /\ crashes \in Nat
    BY DEF TypeInv, TypeOK
  <2>2. CASE <<m, b>> \in log
    BY <1>0, <1>1, <1>3, <2>2 DEF CopyInv, CopyOK
  <2>3. CASE <<m, b>> \notin log /\ <<m, b>> = row
    <3>1. copies[m][b] > 0
      BY <1>0, <2>3 DEF CopyInv
    <3>2. copies[m][b] <= crashes + Parallel
      BY <2>1, <2>3, SendersFew, SendersFinite, ParallelTyped DEF CopyInv, CopyOK
    <3> QED
      BY <1>0, <1>1, <1>3, <2>1, <2>3, <3>1, <3>2, ParallelTyped DEF CopyOK
  <2>4. CASE <<m, b>> \notin log /\ <<m, b>> # row
    <3>1. p \notin Senders(m, b)
      BY <2>4 DEF Senders
    <3>2. Senders(m, b)' = Senders(m, b) \ {p}
      BY <1>0, <1>1, SendersShrink
    <3>3. Senders(m, b)' = Senders(m, b)
      BY <3>1, <3>2
    <3> QED
      BY <1>0, <1>1, <2>4, <3>3 DEF CopyInv, CopyOK
  <2> QED
    BY <2>2, <2>3, <2>4
<1>5. \A q \in Processes : Owes(proc'[q]) => (copies[proc[q].member][Bucket])' > 0
  BY <1>0, <1>1, <1>2, <1>3 DEF CopyInv
<1> QED
  BY <1>4, <1>5 DEF CopyInv

LEMMA CrashBounded ==
  ASSUME TypeInv, CopyInv, NEW p \in Processes, Crash(p)
  PROVE  CopyInv'
<1> DEFINE j == Process("fresh")
<1>1. /\ proc' = [proc EXCEPT ![p] = j]
      /\ ~Owes(j)
      /\ crashes' = crashes + 1
      /\ UNCHANGED <<days, log, redis, copies>>
  BY DEF Crash, Process, Owes, deployment
<1> HIDE DEF j
<1>2. proc'[p] = j /\ \A q \in Processes : q # p => proc'[q] = proc[q]
  BY <1>1 DEF TypeInv, TypeOK
<1>3. Bucket' = Bucket /\ Parallel' = Parallel
  BY <1>1, SameBucket DEF Parallel
<1>4. ASSUME NEW m \in Members, NEW b \in Buckets PROVE CopyOK(m, b)'
  <2>1. copies[m][b] \in Nat /\ crashes \in Nat
    BY DEF TypeInv, TypeOK
  <2>2. /\ Cardinality(Senders(m, b)) <= Cardinality(Senders(m, b)') + 1
        /\ Cardinality(Senders(m, b)') \in Nat
    <3> DEFINE S == Senders(m, b) \ {p}
    <3>1. Senders(m, b)' = S
      BY <1>1, SendersShrink
    <3>2. IsFiniteSet(S) /\ Cardinality(S) = IF p \in Senders(m, b)
                                             THEN Cardinality(Senders(m, b)) - 1
                                             ELSE Cardinality(Senders(m, b))
      BY SendersFinite, FS_RemoveElement
    <3>3. Cardinality(S) \in Nat
      BY <3>2, FS_CardinalityType
    <3>4. Cardinality(Senders(m, b)) <= Cardinality(S) + 1
      BY <3>2, <3>3, SendersFinite
    <3> HIDE DEF S
    <3> QED
      BY <3>1, <3>3, <3>4
  <2>3. CASE <<m, b>> \notin log
    <3>1. copies[m][b] <= crashes + Cardinality(Senders(m, b))
      BY <2>3 DEF CopyInv, CopyOK
    <3>2. copies[m][b] <= crashes' + Cardinality(Senders(m, b)')
      BY <1>1, <2>1, <2>2, <3>1, SendersFinite
    <3> QED
      BY <1>1, <2>3, <3>2 DEF CopyOK
  <2>4. CASE <<m, b>> \in log
    <3>1. copies[m][b] \in 1..(crashes + Parallel)
      BY <2>4 DEF CopyInv, CopyOK
    <3> QED
      BY <1>1, <1>3, <2>1, <2>4, <3>1, ParallelTyped DEF CopyOK
  <2> QED
    BY <2>3, <2>4
<1>5. \A q \in Processes : Owes(proc'[q]) => (copies[proc[q].member][Bucket])' > 0
  BY <1>1, <1>2, <1>3 DEF CopyInv
<1> QED
  BY <1>4, <1>5 DEF CopyInv

LEMMA CopyInvStep == TypeInv /\ CopyInv /\ [Next]_vars => CopyInv'
<1> SUFFICES ASSUME TypeInv, CopyInv, [Next]_vars PROVE CopyInv'
  OBVIOUS
<1>0. ~Owes(Process("done")) /\ ~Owes(Process("scanning"))
  BY DEF Process, Owes
<1>1. ASSUME NEW p \in Processes, TickStart(p) PROVE CopyInv'
  <2>1. PICK pc \in {"scanning", "done"} : proc' = [proc EXCEPT ![p] = Process(pc)]
    BY <1>1 DEF TickStart
  <2>2. ~Owes(Process(pc))
    BY <1>0, <2>1
  <2>3. ~Owes(proc[p]) /\ UNCHANGED <<log, history, deployment, days>>
    BY <1>1 DEF TickStart, Owes
  <2> QED
    BY <2>1, <2>2, <2>3, QuietStep
<1>2. ASSUME NEW p \in Processes, Scan(p) \/ TickEnd(p) PROVE CopyInv'
  <2>1. ~Owes(proc[p]) /\ UNCHANGED <<log, history, deployment, days>>
    BY <1>2 DEF Scan, TickEnd, Owes
  <2>2. CASE Finish(p)
    BY <1>0, <2>1, <2>2, QuietStep DEF Finish
  <2>3. CASE ~Finish(p)
    <3> DEFINE j == [proc[p] EXCEPT !.pc = "alerting", !.todo = Members]
    <3>1. proc' = [proc EXCEPT ![p] = j]
      BY <1>2, <2>3 DEF Scan, TickEnd
    <3>2. ~Owes(j)
      BY DEF TypeInv, TypeOK, Owes
    <3> HIDE DEF j
    <3> QED
      BY <2>1, <3>1, <3>2, QuietStep
  <2> QED
    BY <2>2, <2>3
<1>3. ASSUME NEW p \in Processes, NEW m \in Members, Skip(p, m) PROVE CopyInv'
  <2> DEFINE j == [proc[p] EXCEPT !.todo = @ \ {m}]
  <2>1. ~Owes(proc[p]) /\ UNCHANGED <<log, history, deployment, days>>
    BY <1>3 DEF Skip, Owes
  <2>2. proc' = [proc EXCEPT ![p] = j]
    BY <1>3 DEF Skip
  <2>3. ~Owes(j)
    BY <1>3 DEF Skip, TypeInv, TypeOK, Owes
  <2> HIDE DEF j
  <2> QED
    BY <2>1, <2>2, <2>3, QuietStep
<1>4. CASE DayPasses
  <2>1. \A p \in Processes : ~Owes(proc[p])
    BY <1>4 DEF DayPasses, Owes
  <2>2. \A p \in Processes : ~Owes(proc'[p])
    BY <1>4 DEF DayPasses, Process, Owes
  <2>3. UNCHANGED <<log, copies, crashes, redis>>
    BY <1>4 DEF DayPasses, history, deployment
  <2> QED
    BY <2>1, <2>2, <2>3, Quiet
<1>5. CASE LockExpires \/ Extract \/ ConfirmDeadline \/ UNCHANGED vars
  BY <1>5, Quiet DEF LockExpires, Extract, ConfirmDeadline, vars, history, deployment
<1>6. ASSUME NEW m \in Members, SetPreference(m) PROVE CopyInv'
  BY <1>6, Quiet DEF SetPreference, history, deployment
<1> QED
  BY <1>1, <1>2, <1>3, <1>4, <1>5, <1>6, SendBounded, RecordBounded, CrashBounded
     DEF Next, Tick

\* One copy of a stretch's alert for a member, one more for each process that
\* died, and without Redis one for each other process; what is recorded was handed over.
THEOREM Copies == Spec => []CopiesBounded
<1>1. Spec => [](TypeInv /\ CopyInv)
  BY TypeInvInit, TypeInvStep, CopyInvInit, CopyInvStep, PTL DEF Spec
<1>2. TypeInv /\ CopyInv => CopiesBounded
  <2> SUFFICES ASSUME TypeInv, CopyInv, NEW m \in Members, NEW b \in Buckets
               PROVE  /\ copies[m][b] <= 1 + crashes
                             + (IF redis THEN 0 ELSE Cardinality(Processes) - 1)
                      /\ <<m, b>> \in log => copies[m][b] > 0
    BY DEF CopiesBounded
  <2>1. copies[m][b] \in Nat /\ crashes \in Nat /\ Cardinality(Processes) \in Nat
    BY SetsAssumption, FS_CardinalityType DEF TypeInv, TypeOK
  <2>2. CopyOK(m, b)
    BY DEF CopyInv
  <2>3. copies[m][b] <= crashes + Parallel
    BY <2>1, <2>2, SendersFew, SendersFinite, ParallelTyped DEF CopyOK
  <2>4. <<m, b>> \in log => copies[m][b] > 0
    BY <2>1, <2>2, ParallelTyped DEF CopyOK
  <2> QED
    BY <2>1, <2>3, <2>4 DEF Parallel
<1> QED
  BY <1>1, <1>2, PTL
=============================================================================
