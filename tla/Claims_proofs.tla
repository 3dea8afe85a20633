---------------------------- MODULE Claims_proofs ----------------------------
(***************************************************************************)
(* Proofs about ChangeEvents and Claims, for every number of threads,      *)
(* events, signals and claims: type correctness, the bound on the open     *)
(* events of an unpaid project, that what rests on a change rests on a     *)
(* person's word, and that an uncrossed claim stands.                      *)
(***************************************************************************)
EXTENDS Claims, Functions, FiniteSetTheorems, TLAPS

N == Cardinality(Threads)

-----------------------------------------------------------------------------
(***************************************************************************)
(* Types of the change events.                                             *)
(***************************************************************************)
\* What a request has read is there to be written to.
JobOK ==
    /\ \A t \in Threads : job[t].pc = "received" \/ job[t].mail => job[t].signal \in Signals
    /\ \A t \in Threads :
          job[t].pc \in {"attaching", "deciding", "computing"} => job[t].event \in Events

EventType == TypeOK /\ JobOK

LEMMA IdleTyped ==
  /\ Idle \in Job
  /\ Idle.pc = "idle" /\ Idle.mail = FALSE
BY DEF Idle, Job, PCs, Statuses, Open

LEMMA EventTypeInit == Init => EventType
<1> SUFFICES ASSUME Init PROVE EventType
  OBVIOUS
<1>1. event \in [Events -> EventRow]
  BY DEF Init, NoEvent, EventRow, Statuses, Open
<1>2. job \in [Threads -> Job] /\ \A t \in Threads : job[t] = Idle
  BY IdleTyped DEF Init
<1>3. last \in [Signals -> Events \cup {None}]
  BY DEF Init
<1>4. JobOK
  BY <1>2, IdleTyped DEF JobOK
<1> QED
  BY <1>1, <1>2, <1>3, <1>4 DEF Init, EventType, TypeOK

\* One request moves on.
LEMMA JobStep ==
  ASSUME EventType, NEW t \in Threads, NEW j \in Job, job' = [job EXCEPT ![t] = j],
         j.pc = "received" \/ j.mail => j.signal \in Signals,
         j.pc \in {"attaching", "deciding", "computing"} => j.event \in Events
  PROVE  /\ job' \in [Threads -> Job] /\ JobOK'
         /\ job'[t] = j
         /\ \A s \in Threads : s # t => job'[s] = job[s]
<1>1. job' \in [Threads -> Job] /\ job'[t] = j /\ \A s \in Threads : s # t => job'[s] = job[s]
  BY DEF EventType, TypeOK
<1> QED
  BY <1>1 DEF EventType, JobOK

\* Where a request goes next, and what it then holds.
LEMMA RequestMoves ==
  ASSUME EventType, NEW t \in Threads, Request(t)
  PROVE  /\ job' \in [Threads -> Job] /\ JobOK'
         /\ \A s \in Threads : s # t => job'[s] = job[s]
<1> DEFINE Moved == /\ job' \in [Threads -> Job] /\ JobOK'
                    /\ \A s \in Threads : s # t => job'[s] = job[s]
<1>0. /\ job[t] \in Job
      /\ job[t].pc = "received" \/ job[t].mail => job[t].signal \in Signals
      /\ baseline \in Nat /\ last \in [Signals -> Events \cup {None}]
      /\ \A e \in Events : event[e] \in EventRow
  BY DEF EventType, TypeOK, JobOK
<1>1. ASSUME NEW s \in Signals, NEW mail \in BOOLEAN, Receive(t, s, mail)
      PROVE  Moved
  <2> DEFINE j == [Idle EXCEPT !.pc = "received", !.signal = s, !.mail = mail,
                               !.baseline = baseline]
  <2>1. j \in Job /\ j.pc = "received" /\ j.signal = s
    BY <1>0 DEF Idle, Job, PCs, Statuses, Open
  <2>2. job' = [job EXCEPT ![t] = j]
    BY <1>1 DEF Receive
  <2> HIDE DEF j
  <2> QED
    BY <2>1, <2>2, JobStep
<1>2. CASE Match(t)
  <2> DEFINE found == last[job[t].signal]
             j == [job[t] EXCEPT !.pc = IF found = None THEN "unmatched" ELSE "attaching",
                                 !.event = found]
  <2>1. found \in Events \cup {None}
    BY <1>0, <1>2 DEF Match
  <2>2. job' = [job EXCEPT ![t] = j]
    BY <1>2 DEF Match
  <2> HIDE DEF found
  <2>3. /\ j \in Job /\ j.mail = job[t].mail /\ j.signal = job[t].signal
        /\ j.pc \in {"unmatched", "attaching"} /\ j.event = found
        /\ j.pc = "attaching" => found # None
    BY <1>0, <2>1 DEF Job, PCs
  <2> HIDE DEF j
  <2> QED
    BY <1>0, <2>1, <2>2, <2>3, JobStep
<1>3. CASE CreateManual(t)
  <2> DEFINE j == [Idle EXCEPT !.pc = "unmatched", !.baseline = baseline]
  <2>1. j \in Job /\ j.pc = "unmatched" /\ j.mail = FALSE
    BY <1>0 DEF Idle, Job, PCs, Statuses, Open
  <2>2. job' = [job EXCEPT ![t] = j]
    BY <1>3 DEF CreateManual
  <2> HIDE DEF j
  <2> QED
    BY <2>1, <2>2, JobStep
<1>4. ASSUME job' = [job EXCEPT ![t] = Idle] PROVE Moved
  BY <1>4, IdleTyped, JobStep
<1>5. CASE RequireSlot(t)
  <2>1. CASE Goto(t, "granted")
    <3> DEFINE j == [job[t] EXCEPT !.pc = "granted"]
    <3>1. j \in Job /\ j.pc = "granted" /\ j.mail = job[t].mail /\ j.signal = job[t].signal
      BY <1>0 DEF Job, PCs
    <3>2. job' = [job EXCEPT ![t] = j]
      BY <2>1 DEF Goto
    <3> HIDE DEF j
    <3> QED
      BY <1>0, <3>1, <3>2, JobStep
  <2>2. CASE Finish(t)
    BY <2>2, <1>4 DEF Finish
  <2> QED
    BY <1>5, <2>1, <2>2 DEF RequireSlot
<1>6. ASSUME NEW e \in Events, NEW new \in Statuses, NEW changed \in BOOLEAN,
             Decide(t, e, new, changed)
      PROVE  Moved
  <2> DEFINE j == [Idle EXCEPT !.pc = "deciding", !.event = e, !.changed = changed,
                               !.status = IF new = event[e].status THEN "none" ELSE new]
  <2>1. j \in Job /\ j.pc = "deciding" /\ j.event = e /\ j.mail = FALSE
    BY DEF Idle, Job, PCs, Statuses, Open
  <2>2. job' = [job EXCEPT ![t] = j]
    BY <1>6 DEF Decide
  <2> HIDE DEF j
  <2> QED
    BY <2>1, <2>2, JobStep
<1>7. ASSUME NEW e \in Events, DeadlineLoad(t, e) PROVE Moved
  <2> DEFINE j == [Idle EXCEPT !.pc = "computing", !.event = e]
  <2>1. j \in Job /\ j.event = e /\ j.mail = FALSE /\ j.pc = "computing"
    BY DEF Idle, Job, PCs, Statuses, Open
  <2>2. job' = [job EXCEPT ![t] = j]
    BY <1>7 DEF DeadlineLoad
  <2> HIDE DEF j
  <2> QED
    BY <2>1, <2>2, JobStep
<1>8. ASSUME \/ AttachCommit(t) \/ MailRollBack(t) \/ DecideCommit(t)
             \/ \E e \in Events : CreateCommit(t, e)
             \/ \E found \in BOOLEAN : DeadlineCommit(t, found)
      PROVE  Moved
  BY <1>4, <1>8 DEF AttachCommit, MailRollBack, DecideCommit, CreateCommit, DeadlineCommit, Finish
<1>9. ASSUME NEW e \in Events,
             \/ \E decision \in {"triaged", "shut"} : Triage(t, e, decision)
             \/ \E outcome \in Outcomes : Confirm(t, e, outcome)
      PROVE  Moved
  BY <1>6, <1>9 DEF Triage, Confirm, Outcomes, StatusAfter, Statuses, Open
<1> HIDE DEF Moved
<1>10. Moved
  <2>1. (\E s \in Signals, mail \in BOOLEAN : Receive(t, s, mail)) => Moved
    BY <1>1, Zenon
  <2>2. (\E e \in Events : \/ \E decision \in {"triaged", "shut"} : Triage(t, e, decision)
                           \/ \E outcome \in Outcomes : Confirm(t, e, outcome)
                           \/ CreateCommit(t, e)
                           \/ DeadlineLoad(t, e)) => Moved
    <3>1. ASSUME NEW e \in Events, CreateCommit(t, e) PROVE Moved
      BY <1>8, <3>1
    <3>2. \A e \in Events : (\E decision \in {"triaged", "shut"} : Triage(t, e, decision)) => Moved
      BY <1>9
    <3>3. \A e \in Events : (\E outcome \in Outcomes : Confirm(t, e, outcome)) => Moved
      BY <1>9
    <3> QED
      BY <1>7, <3>1, <3>2, <3>3
  <2>3. Match(t) \/ CreateManual(t) \/ RequireSlot(t) => Moved
    BY <1>2, <1>3, <1>5 DEF Moved
  <2>4. AttachCommit(t) \/ MailRollBack(t) \/ DecideCommit(t)
           \/ (\E found \in BOOLEAN : DeadlineCommit(t, found)) => Moved
    BY <1>8
  <2> QED
    BY <2>1, <2>2, <2>3, <2>4 DEF Request
<1> QED
  BY <1>10 DEF Moved

\* What a request does to the events: none disappears, none forgets its baseline
\* or that a person called it a change.
EventKept ==
    \A e \in Events : event[e].status # "none" =>
        /\ event'[e].status # "none"
        /\ event'[e].baseline = event[e].baseline
        /\ event[e].changed => event'[e].changed

\* The commits that change an event.
LEMMA CreateWrites ==
  ASSUME EventType, NEW t \in Threads, NEW e \in Events, CreateCommit(t, e)
  PROVE  /\ event' \in [Events -> EventRow] /\ EventKept
         /\ event'[e].status = "candidate" /\ ~event'[e].changed /\ ~event'[e].deadline
         /\ event[e].status = "none"
         /\ \A d \in Events : d # e => event'[d] = event[d]
<1> DEFINE row == [NoEvent EXCEPT !.status = "candidate", !.baseline = job[t].baseline]
<1>0. job[t] \in Job /\ event \in [Events -> EventRow]
  BY DEF EventType, TypeOK
<1>1. row \in EventRow /\ row.status = "candidate" /\ ~row.changed /\ ~row.deadline
  BY <1>0 DEF NoEvent, EventRow, Statuses, Open, Job
<1>2. event' = [event EXCEPT ![e] = row] /\ event[e].status = "none"
  BY DEF CreateCommit
<1> HIDE DEF row
<1> QED
  BY <1>0, <1>1, <1>2 DEF EventKept

LEMMA DecideWrites ==
  ASSUME EventType, NEW t \in Threads, DecideCommit(t)
  PROVE  LET e == job[t].event
         IN  /\ e \in Events
             /\ event' \in [Events -> EventRow] /\ EventKept
             /\ event'[e].status = IF job[t].status = "none"
                                   THEN event[e].status ELSE job[t].status
             /\ event'[e].changed = (event[e].changed \/ job[t].changed)
             /\ event'[e].deadline = event[e].deadline
             /\ \A d \in Events : d # e => event'[d] = event[d]
<1>0. PICK e \in Events : e = job[t].event
  BY DEF DecideCommit, EventType, JobOK
<1> DEFINE status == IF job[t].status = "none" THEN event[e].status ELSE job[t].status
           changed == event[e].changed \/ job[t].changed
           row == Decided(event[e], job[t])
<1>1. job[t] \in Job /\ event \in [Events -> EventRow]
  BY DEF EventType, TypeOK
<1>2. status \in Statuses /\ changed \in BOOLEAN
  BY <1>1 DEF EventRow, Job
<1>3. event' = [event EXCEPT ![e] = row]
  BY <1>0 DEF DecideCommit
<1>4. /\ event[e].status # "none" => status # "none"
      /\ event[e].changed => changed
  OBVIOUS
<1>5. row = [event[e] EXCEPT !.status = status, !.changed = changed]
  BY Zenon DEF Decided
<1> HIDE DEF status, changed, row
<1>6. /\ row \in EventRow /\ row.status = status /\ row.changed = changed
      /\ row.baseline = event[e].baseline /\ row.deadline = event[e].deadline
  BY <1>1, <1>2, <1>5 DEF EventRow
<1>7. /\ event' \in [Events -> EventRow]
      /\ event'[e] = row
      /\ \A d \in Events : d # e => event'[d] = event[d]
  BY <1>1, <1>3, <1>6
<1>8. EventKept
  BY <1>4, <1>6, <1>7 DEF EventKept
<1> QED
  BY <1>0, <1>6, <1>7, <1>8 DEF status, changed

LEMMA DeadlineWrites ==
  ASSUME EventType, NEW t \in Threads, NEW found \in BOOLEAN, DeadlineCommit(t, found)
  PROVE  LET e == job[t].event
         IN  /\ e \in Events
             /\ event' \in [Events -> EventRow] /\ EventKept
             /\ \A d \in Events : d # e => event'[d] = event[d]
             /\ \A d \in Events : event'[d].status = event[d].status
                                  /\ event'[d].changed = event[d].changed
<1>0. PICK e \in Events : e = job[t].event
  BY DEF DeadlineCommit, EventType, JobOK
<1> DEFINE row == [event[e] EXCEPT !.deadline = found]
<1>1. event \in [Events -> EventRow]
  BY DEF EventType, TypeOK
<1>2. event' = [event EXCEPT ![e] = row]
  BY <1>0 DEF DeadlineCommit
<1>3. /\ row \in EventRow /\ row.status = event[e].status /\ row.changed = event[e].changed
      /\ row.baseline = event[e].baseline
  BY <1>1 DEF EventRow
<1> HIDE DEF row
<1> QED
  BY <1>0, <1>1, <1>2, <1>3 DEF EventKept

\* Every other step of a request leaves the events alone.
LEMMA EventWrites ==
  ASSUME EventType, NEW t \in Threads, Request(t)
  PROVE  /\ event' \in [Events -> EventRow] /\ EventKept
         /\ \/ UNCHANGED event
            \/ DecideCommit(t)
            \/ \E e \in Events : CreateCommit(t, e)
            \/ \E found \in BOOLEAN : DeadlineCommit(t, found)
<1>1. ASSUME UNCHANGED event PROVE event' \in [Events -> EventRow] /\ EventKept
  BY <1>1 DEF EventKept, EventType, TypeOK
<1>2. \/ UNCHANGED event
      \/ DecideCommit(t)
      \/ \E e \in Events : CreateCommit(t, e)
      \/ \E found \in BOOLEAN : DeadlineCommit(t, found)
  BY DEF Request, Receive, Match, CreateManual, RequireSlot, AttachCommit, MailRollBack,
         Triage, Confirm, Decide, DeadlineLoad
<1>3. CASE DecideCommit(t)
  BY <1>3, DecideWrites
<1>4. CASE \E found \in BOOLEAN : DeadlineCommit(t, found)
  BY <1>4, DeadlineWrites
<1>5. CASE \E e \in Events : CreateCommit(t, e)
  BY <1>5, CreateWrites
<1> QED
  BY <1>1, <1>2, <1>3, <1>4, <1>5

\* The steps of Claims as the change events see them.
Restart == job' = [t \in Threads |-> Idle] /\ UNCHANGED <<event, last, inbound, baseline, paid>>

EventStep == (\E t \in Threads : Request(t)) \/ Surroundings \/ Restart \/ UNCHANGED eventVars

LEMMA ClaimsSteps == [ClaimsNext]_<<eventVars, claimVars>> => EventStep
<1>1. CrashBoth => Restart
  BY DEF CrashBoth, Restart
<1>2. NewClaim /\ UNCHANGED eventVars => EventStep
  BY DEF EventStep
<1> QED
  BY <1>1, <1>2 DEF ClaimsNext, EventStep

LEMMA RestartIdle ==
  ASSUME Restart
  PROVE  job' \in [Threads -> Job] /\ \A t \in Threads : job'[t] = Idle
BY IdleTyped DEF Restart

LEMMA EventTypeStep == EventType /\ EventStep => EventType'
<1> SUFFICES ASSUME EventType, EventStep PROVE EventType'
  OBVIOUS
<1>1. ASSUME NEW t \in Threads, Request(t) PROVE EventType'
  <2>0. job[t].pc \in {"received", "attaching"} \/ job[t].mail => job[t].signal \in Signals \cup {None}
    BY DEF EventType, TypeOK, Job
  <2>1. \A e \in Events \cup {None} :
          AddSource(t, e) => last' \in [Signals -> Events \cup {None}] /\ inbound' \subseteq Signals
    BY DEF AddSource, EventType, TypeOK, JobOK
  <2>2. \/ UNCHANGED <<last, inbound>>
        \/ \E e \in Events : CreateCommit(t, e)
        \/ AttachCommit(t)
    BY <1>1 DEF Request, Receive, Match, CreateManual, RequireSlot, MailRollBack,
       Triage, Confirm, Decide, DeadlineLoad, DecideCommit, DeadlineCommit
  <2>3. last' \in [Signals -> Events \cup {None}] /\ inbound' \subseteq Signals
    <3>1. CASE AttachCommit(t)
      BY <3>1, <2>1 DEF AttachCommit, EventType, JobOK
    <3>2. CASE \E e \in Events : CreateCommit(t, e)
      BY <3>2, <2>1 DEF CreateCommit
    <3> QED
      BY <2>2, <3>1, <3>2 DEF EventType, TypeOK
  <2>4. UNCHANGED <<baseline, paid>>
    BY <1>1 DEF Request, Receive, Match, CreateManual, RequireSlot, MailRollBack, AttachCommit,
       CreateCommit, Triage, Confirm, Decide, DeadlineLoad, DecideCommit, DeadlineCommit
  <2> QED
    BY <1>1, <2>3, <2>4, RequestMoves, EventWrites DEF EventType, TypeOK
<1>2. CASE Surroundings
  <2>1. UNCHANGED <<event, inbound, job>>
    BY <1>2 DEF Surroundings, SourceAges, BaselineSealed, ProjectPaid
  <2>2. last' \in [Signals -> Events \cup {None}]
    BY <1>2 DEF Surroundings, SourceAges, BaselineSealed, ProjectPaid, EventType, TypeOK
  <2>3. baseline' \in Nat
    BY <1>2 DEF Surroundings, SourceAges, BaselineSealed, ProjectPaid, EventType, TypeOK
  <2>4. paid' = paid \/ paid' = TRUE
    BY <1>2 DEF Surroundings, SourceAges, BaselineSealed, ProjectPaid
  <2>5. paid' \in BOOLEAN
    BY <2>4 DEF EventType, TypeOK
  <2> QED
    BY <2>1, <2>2, <2>3, <2>5 DEF EventType, TypeOK, JobOK
<1>3. CASE Restart
  BY <1>3, RestartIdle, IdleTyped DEF Restart, EventType, TypeOK, JobOK
<1>4. CASE UNCHANGED eventVars
  BY <1>4 DEF eventVars, EventType, TypeOK, JobOK
<1> QED
  BY <1>1, <1>2, <1>3, <1>4 DEF EventStep

-----------------------------------------------------------------------------
(***************************************************************************)
(* The open events of an unpaid project.                                   *)
(***************************************************************************)
Deciding == {t \in Threads : job[t].pc = "deciding"}

LEMMA Finite ==
  /\ N \in Nat /\ FreeEvents \in Nat /\ FreeEvents > 0
  /\ \A S \in SUBSET Threads : IsFiniteSet(S) /\ Cardinality(S) \in Nat /\ Cardinality(S) <= N
  /\ \A S \in SUBSET Events : IsFiniteSet(S) /\ Cardinality(S) \in Nat
BY ThreadsAssumption, EventsAssumption, FS_CardinalityType, FS_Subset DEF N

LEMMA AddOne ==
  ASSUME NEW S, NEW x, IsFiniteSet(S)
  PROVE  Cardinality(S \cup {x}) <= Cardinality(S) + 1
<1>1. Cardinality(S) \in Nat
  BY FS_CardinalityType
<1>2. Cardinality(S \cup {x}) = IF x \in S THEN Cardinality(S) ELSE Cardinality(S) + 1
  BY FS_AddElement
<1> QED
  BY <1>1, <1>2

\* Fewer open events, or on the way to it, and fewer requests granted a slot.
LEMMA FewerOpen ==
  ASSUME SlotsBounded, NEW A \in SUBSET (Active \cup Reopening), NEW G \in SUBSET Granted, ~paid
  PROVE  Cardinality(A) + Cardinality(G) <= FreeEvents + (N - 1)
<1>1. Active \cup Reopening \in SUBSET Events /\ Granted \in SUBSET Threads
  BY DEF Active, Reopening, Granted
<1>2. A \in SUBSET Events /\ G \in SUBSET Threads
  BY <1>1
<1>3. Cardinality(A) <= Cardinality(Active \cup Reopening)
  BY <1>1, Finite, FS_Subset
<1>4. Cardinality(G) <= Cardinality(Granted)
  BY <1>1, Finite, FS_Subset
<1> QED
  BY <1>1, <1>2, <1>3, <1>4, Finite DEF SlotsBounded, N

\* Each event on the way to being open is in the hands of a request.
LEMMA ReopeningBound == EventType => Cardinality(Reopening) <= Cardinality(Deciding)
<1> SUFFICES ASSUME EventType PROVE Cardinality(Reopening) <= Cardinality(Deciding)
  OBVIOUS
<1> DEFINE img == {job[t].event : t \in Deciding}
           f == [t \in Deciding |-> job[t].event]
<1>1. Deciding \in SUBSET Threads /\ Reopening \in SUBSET Events /\ IsFiniteSet(Deciding)
  BY Finite DEF Deciding, Reopening
<1>2. IsFiniteSet(img) /\ Cardinality(img) <= Cardinality(Deciding)
  <2>1. f \in Surjection(Deciding, img)
    BY DEF Surjection
  <2> HIDE DEF f, img
  <2> QED
    BY <1>1, <2>1, FS_Surjection
<1>3. Reopening \subseteq img
  BY DEF Reopening, Deciding
<1>4. Cardinality(Reopening) <= Cardinality(img)
  BY <1>2, <1>3, FS_Subset
<1> QED
  BY <1>1, <1>2, <1>3, <1>4, Finite, FS_CardinalityType

LEMMA SlotsInit == Init => SlotsBounded
<1> SUFFICES ASSUME Init PROVE SlotsBounded
  OBVIOUS
<1>1. \A t \in Threads : job[t].pc = "idle"
  BY IdleTyped DEF Init
<1>2. Active = {} /\ Reopening = {} /\ Granted = {}
  BY <1>1 DEF Init, Active, Reopening, Granted, NoEvent, Open
<1>3. N > 0 \/ Threads = {}
  BY ThreadsAssumption, FS_EmptySet, Finite DEF N
<1> QED
  BY <1>2, <1>3, FS_EmptySet, Finite DEF SlotsBounded, N

\* A slot is granted when fewer than the free events are open; the requests that
\* may open more before this one commits are each one thread, and this is another.
LEMMA GrantStep ==
  ASSUME EventType, SlotsBounded, NEW t \in Threads, RequireSlot(t), ~paid
  PROVE  Cardinality(Active \cup Reopening) + Cardinality(Granted \cup {t}) <= FreeEvents + (N - 1)
         \/ Finish(t)
<1> SUFFICES ASSUME ~Finish(t)
             PROVE  Cardinality(Active \cup Reopening) + Cardinality(Granted \cup {t})
                      <= FreeEvents + (N - 1)
  OBVIOUS
<1>1. Cardinality(Active) < FreeEvents /\ job[t].pc = "unmatched"
  BY DEF RequireSlot, SlotFree
<1>2. /\ Active \in SUBSET Events /\ Reopening \in SUBSET Events
      /\ Granted \cup {t} \in SUBSET Threads /\ Deciding \in SUBSET Threads
      /\ (Granted \cup {t}) \cap Deciding = {}
  BY <1>1 DEF Active, Reopening, Granted, Deciding
<1>3. Cardinality(Active \cup Reopening) <= Cardinality(Active) + Cardinality(Reopening)
  <2>1. Active \cap Reopening \in SUBSET Events
    BY <1>2
  <2>2. Cardinality(Active \cup Reopening)
          = Cardinality(Active) + Cardinality(Reopening) - Cardinality(Active \cap Reopening)
    BY <1>2, Finite, FS_Union
  <2> HIDE DEF Active, Reopening
  <2> QED
    BY <1>2, <2>1, <2>2, Finite
<1>4. Cardinality(Granted \cup {t}) + Cardinality(Deciding) <= N
  <2>1. Cardinality((Granted \cup {t}) \cup Deciding)
          = Cardinality(Granted \cup {t}) + Cardinality(Deciding) - Cardinality({})
    BY <1>2, Finite, FS_Union
  <2>2. (Granted \cup {t}) \cup Deciding \in SUBSET Threads
    BY <1>2
  <2> QED
    BY <1>2, <2>1, <2>2, Finite, FS_EmptySet
<1>5. Active \cup Reopening \in SUBSET Events
  BY <1>2
<1> QED
  BY <1>1, <1>2, <1>3, <1>4, <1>5, ReopeningBound, Finite

LEMMA SlotsStep == EventType /\ SlotsBounded /\ EventStep => SlotsBounded'
<1> SUFFICES ASSUME EventType, SlotsBounded, EventStep, ~paid'
             PROVE  Cardinality(Active \cup Reopening)' + Cardinality(Granted)'
                      <= FreeEvents + (N - 1)
  BY DEF SlotsBounded, N
<1>0. ~paid
  BY DEF EventStep, Request, Receive, Match, CreateManual, RequireSlot, MailRollBack, AttachCommit,
     CreateCommit, Triage, Confirm, Decide, DeadlineLoad, DecideCommit, DeadlineCommit,
     Surroundings, SourceAges, BaselineSealed, ProjectPaid, Restart, eventVars
<1>1. ASSUME (Active \cup Reopening)' \subseteq Active \cup Reopening, Granted' \subseteq Granted
      PROVE  Cardinality(Active \cup Reopening)' + Cardinality(Granted)' <= FreeEvents + (N - 1)
  BY <1>0, <1>1, FewerOpen
<1>2. CASE Surroundings \/ UNCHANGED eventVars
  BY <1>1, <1>2 DEF Surroundings, SourceAges, BaselineSealed, ProjectPaid, eventVars,
     Active, Reopening, Granted
<1>3. CASE Restart
  BY <1>1, <1>3, RestartIdle, IdleTyped DEF Restart, Active, Reopening, Granted
<1>4. ASSUME NEW t \in Threads, Request(t)
      PROVE  Cardinality(Active \cup Reopening)' + Cardinality(Granted)' <= FreeEvents + (N - 1)
  <2>1. \A s \in Threads : s # t => job'[s] = job[s]
    BY <1>4, RequestMoves
  <2>2. job' \in [Threads -> Job] /\ job \in [Threads -> Job]
    BY <1>4, RequestMoves DEF EventType, TypeOK
  <2>3. CASE \E e \in Events : Triage(t, e, "triaged") \/ Triage(t, e, "shut")
                               \/ \E outcome \in Outcomes : Confirm(t, e, outcome)
    <3>a. PICK e \in Events : e \in Active /\ \E y, z : Decide(t, e, y, z)
      <4>1. \A e \in Events : Triage(t, e, "triaged") \/ Triage(t, e, "shut")
              => event[e].status \in Open /\ \E y, z : Decide(t, e, y, z)
        BY DEF Triage, Open
      <4>2. \A e \in Events : \A outcome \in Outcomes : Confirm(t, e, outcome)
              => event[e].status \in Open /\ \E y, z : Decide(t, e, y, z)
        BY DEF Confirm
      <4> QED
        BY <2>3, <4>1, <4>2 DEF Active
    <3>b. PICK new, changed : Decide(t, e, new, changed)
      BY <3>a
    <3>0. e \in Active /\ Decide(t, e, new, changed)
      BY <3>a, <3>b
    <3>1. job'[t].pc = "deciding" /\ job'[t].event = e
      BY <2>2, <3>0 DEF Decide, Idle
    <3>2. UNCHANGED event
      BY <3>0 DEF Decide
    <3>3. (Active \cup Reopening)' \subseteq Active \cup Reopening
      BY <2>1, <3>0, <3>1, <3>2 DEF Active, Reopening
    <3>4. Granted' \subseteq Granted
      BY <2>1, <3>1 DEF Granted
    <3> QED
      BY <1>1, <3>3, <3>4
  <2>4. CASE RequireSlot(t)
    <3>1. UNCHANGED event
      BY <2>4 DEF RequireSlot
    <3>2. CASE Finish(t)
      <4>1. job'[t].pc = "idle"
        BY <2>2, <3>2, IdleTyped DEF Finish
      <4> QED
        BY <1>1, <2>1, <3>1, <4>1 DEF Active, Reopening, Granted
    <3>3. CASE ~Finish(t)
      <4>1. job'[t].pc = "granted"
        BY <2>2, <2>4, <3>3 DEF RequireSlot, Goto, Job
      <4>2. (Active \cup Reopening)' \subseteq Active \cup Reopening
        BY <2>1, <3>1, <4>1 DEF Active, Reopening
      <4>3. Granted' = Granted \cup {t}
        BY <2>1, <4>1 DEF Granted
      <4>4. Cardinality(Active \cup Reopening)' <= Cardinality(Active \cup Reopening)
        <5>1. Active \cup Reopening \in SUBSET Events
          BY DEF Active, Reopening
        <5> QED
          BY <4>2, <5>1, Finite, FS_Subset
      <4>5. Cardinality(Active \cup Reopening) + Cardinality(Granted \cup {t})
              <= FreeEvents + (N - 1)
        BY <1>0, <2>4, <3>3, GrantStep
      <4>6. /\ (Active \cup Reopening)' \in SUBSET Events /\ Active \cup Reopening \in SUBSET Events
            /\ Granted \cup {t} \in SUBSET Threads
        BY DEF Active, Reopening, Granted
      <4> QED
        BY <4>3, <4>4, <4>5, <4>6, Finite
    <3> QED
      BY <3>2, <3>3
  <2>5. ASSUME NEW e \in Events, CreateCommit(t, e)
        PROVE  Cardinality(Active \cup Reopening)' + Cardinality(Granted)' <= FreeEvents + (N - 1)
    <3>1. job[t].pc = "granted" /\ job'[t].pc = "idle"
      BY <2>2, <2>5, IdleTyped DEF CreateCommit, Finish
    <3>2. \A d \in Events : d # e => event'[d] = event[d]
      BY <2>5 DEF CreateCommit, EventType, TypeOK
    <3>3. (Active \cup Reopening)' \subseteq (Active \cup Reopening) \cup {e}
      BY <2>1, <3>1, <3>2 DEF Active, Reopening
    <3>4. Granted' = Granted \ {t} /\ t \in Granted
      BY <2>1, <3>1 DEF Granted
    <3>5. Granted \in SUBSET Threads /\ Active \cup Reopening \in SUBSET Events
      BY DEF Granted, Active, Reopening
    <3>6. Cardinality(Granted') = Cardinality(Granted) - 1
      BY <3>4, <3>5, Finite, FS_RemoveElement
    <3>7. Cardinality((Active \cup Reopening) \cup {e}) <= Cardinality(Active \cup Reopening) + 1
      BY <3>5, Finite, AddOne
    <3>8. Cardinality((Active \cup Reopening)') <= Cardinality((Active \cup Reopening) \cup {e})
      <4>1. (Active \cup Reopening) \cup {e} \in SUBSET Events
        BY <3>5
      <4> QED
        BY <3>3, <4>1, Finite, FS_Subset
    <3>9. Cardinality(Active \cup Reopening) + Cardinality(Granted) <= FreeEvents + (N - 1)
      BY <1>0 DEF SlotsBounded, N
    <3>10. /\ (Active \cup Reopening)' \in SUBSET Events
           /\ (Active \cup Reopening) \cup {e} \in SUBSET Events
           /\ Granted' \in SUBSET Threads
      BY <3>3, <3>4, <3>5
    <3> QED
      BY <3>5, <3>6, <3>7, <3>8, <3>9, <3>10, Finite
  <2>6. CASE DecideCommit(t)
    <3>1. job[t].pc = "deciding" /\ job'[t].pc = "idle" /\ job[t].event \in Events
      BY <2>2, <2>6, IdleTyped DEF DecideCommit, Finish, EventType, JobOK
    <3>2. /\ event'[job[t].event].status = IF job[t].status = "none"
                                           THEN event[job[t].event].status ELSE job[t].status
          /\ \A d \in Events : d # job[t].event => event'[d] = event[d]
      BY <2>6, DecideWrites
    <3>3. (Active \cup Reopening)' \subseteq Active \cup Reopening
      BY <2>1, <3>1, <3>2 DEF Active, Reopening
    <3>4. Granted' \subseteq Granted
      BY <2>1, <3>1 DEF Granted
    <3> QED
      BY <1>1, <3>3, <3>4
  <2>7. CASE \/ \E found \in BOOLEAN : DeadlineCommit(t, found)
             \/ AttachCommit(t) \/ MailRollBack(t)
             \/ \E s \in Signals, mail \in BOOLEAN : Receive(t, s, mail)
             \/ Match(t) \/ CreateManual(t)
             \/ \E e \in Events : DeadlineLoad(t, e)
    <3>a. /\ Finish(t) => job'[t].pc = "idle"
          /\ Match(t) => job'[t].pc \in {"unmatched", "attaching"}
          /\ CreateManual(t) => job'[t].pc = "unmatched"
          /\ \A s \in Signals : \A mail : Receive(t, s, mail) => job'[t].pc = "received"
          /\ \A e \in Events : DeadlineLoad(t, e) => job'[t].pc = "computing"
      <4>1. \A j : job' = [job EXCEPT ![t] = j] => job'[t] = j
        BY <2>2
      <4>2. job[t] \in Job
        BY <2>2
      <4>3. Match(t) => job'[t].pc \in {"unmatched", "attaching"}
        BY <4>1, <4>2 DEF Match, Job
      <4> QED
        BY <4>1, <4>3, IdleTyped DEF Finish, CreateManual, Receive, DeadlineLoad, Idle
    <3>1. job'[t].pc \notin {"deciding", "granted"}
      <4>1. \/ Finish(t) \/ Match(t) \/ CreateManual(t)
            \/ \E s \in Signals : \E mail : Receive(t, s, mail)
            \/ \E e \in Events : DeadlineLoad(t, e)
        BY <2>7 DEF DeadlineCommit, AttachCommit, MailRollBack
      <4> QED
        BY <3>a, <4>1
    <3>2. \A e \in Events : event'[e].status = event[e].status
      <4>1. UNCHANGED event \/ \E found \in BOOLEAN : DeadlineCommit(t, found)
        BY <2>7 DEF Receive, Match, CreateManual, DeadlineLoad, AttachCommit, MailRollBack
      <4>2. ASSUME NEW found \in BOOLEAN, DeadlineCommit(t, found)
            PROVE  \A e \in Events : event'[e].status = event[e].status
        BY <4>2, DeadlineWrites
      <4> QED
        BY <4>1, <4>2
    <3>3. (Active \cup Reopening)' \subseteq Active \cup Reopening
      BY <2>1, <3>1, <3>2 DEF Active, Reopening
    <3>4. Granted' \subseteq Granted
      BY <2>1, <3>1 DEF Granted
    <3> QED
      BY <1>1, <3>3, <3>4
  <2> QED
    BY <1>4, <2>3, <2>4, <2>5, <2>6, <2>7 DEF Request
<1> QED
  BY <1>2, <1>3, <1>4 DEF EventStep

-----------------------------------------------------------------------------
(***************************************************************************)
(* Types of the claims.                                                    *)
(***************************************************************************)
\* A request on a claim holds one that has been created, and what it will write.
DeskOK(t) ==
    \/ desk[t] = NoDesk
    \/ /\ desk[t].pc # "idle"
       /\ desk[t].claim \in ClaimIds /\ Stored(t).status # "none"
       /\ desk[t].pc \in {"submitting", "checked"} => desk[t].status = "submitted"
       /\ desk[t].pc = "answering" => desk[t].status \in {"none", "under_review", "negotiated"}
       /\ desk[t].pc = "settling" => desk[t].status \in Terminal

\* A terminal status comes with a settlement, and neither a submitted nor a
\* settled claim is a draft again.
RowOK(row) ==
    /\ row.status \in Terminal => row.settlement # "none"
    /\ row.submitted \/ row.settlement # "none" => row.status # "draft"
    /\ row.status = "none" => row = NoClaim

ClaimType ==
    /\ EventType
    /\ ClaimsTypeOK
    /\ \A t \in Threads : DeskOK(t)
    /\ \A c \in ClaimIds : RowOK(claim[c])

LEMMA AnAmountTyped == AnAmount \in Amounts
BY AmountsAssumption DEF AnAmount

LEMMA NoDeskTyped ==
  /\ NoDesk \in Desk
  /\ NoDesk.pc = "idle" /\ NoDesk.claim = None /\ NoDesk.claim \notin ClaimIds
BY AnAmountTyped, ClaimIdsAssumption DEF NoDesk, Desk, DeskPCs, ClaimStatuses

LEMMA NoClaimTyped ==
  /\ NoClaim \in ClaimRow /\ RowOK(NoClaim)
  /\ NoClaim.status = "none" /\ NoClaim.event = None
  /\ ~NoClaim.submitted /\ NoClaim.settlement = "none"
<1>1. NoClaim \in ClaimRow
  BY AnAmountTyped DEF NoClaim, ClaimRow, ClaimStatuses
<1>2. /\ NoClaim.status = "none" /\ NoClaim.event = None
      /\ ~NoClaim.submitted /\ NoClaim.settlement = "none"
  BY DEF NoClaim
<1> QED
  BY <1>1, <1>2, TerminalAssumption DEF RowOK

LEMMA ClaimTypeInit == ClaimsInit => ClaimType
<1> SUFFICES ASSUME ClaimsInit PROVE ClaimType
  OBVIOUS
<1>1. /\ claim \in [ClaimIds -> ClaimRow] /\ \A c \in ClaimIds : claim[c] = NoClaim
      /\ desk \in [Threads -> Desk] /\ \A t \in Threads : desk[t] = NoDesk
      /\ agreed \in [ClaimIds -> Amounts]
      /\ crossed \subseteq ClaimIds
  BY NoClaimTyped, NoDeskTyped, AnAmountTyped DEF ClaimsInit
<1>2. EventType
  BY EventTypeInit DEF ClaimsInit
<1>3. ClaimsTypeOK
  BY <1>1, <1>2 DEF EventType, ClaimsTypeOK
<1> QED
  BY <1>1, <1>2, <1>3, NoClaimTyped DEF ClaimType, DeskOK

\* A request on a claim begins: it holds the claim and what it will write.
LEMMA OpenWrites ==
  ASSUME ClaimType, NEW t \in Threads, NEW c \in ClaimIds, NEW pc \in DeskPCs \ {"idle"},
         NEW status \in ClaimStatuses, NEW amount \in Amounts,
         OpenClaim(t, c, pc, status, amount)
  PROVE  /\ desk' \in [Threads -> Desk]
         /\ desk'[t].pc = pc /\ desk'[t].claim = c /\ desk'[t].amount = amount
         /\ desk'[t].status = IF status = claim[c].status THEN "none" ELSE status
         /\ \A s \in Threads : s # t => desk'[s] = desk[s]
         /\ claim[c].status # "none"
         /\ desk[t] = NoDesk /\ job[t] = Idle
         /\ crossed \subseteq crossed' /\ crossed' \subseteq ClaimIds
         /\ (\E s \in Threads : desk[s].claim = c) => c \in crossed'
         /\ UNCHANGED <<claim, agreed>>
<1> DEFINE new == IF status = claim[c].status THEN "none" ELSE status
           d == [pc |-> pc, claim |-> c, amount |-> amount, status |-> new]
<1>1. new \in ClaimStatuses
  BY DEF ClaimStatuses
<1>2. desk' = [desk EXCEPT ![t] = d]
  BY DEF OpenClaim
<1> HIDE DEF new
<1>3. d \in Desk /\ d.pc = pc /\ d.claim = c /\ d.amount = amount /\ d.status = new
  BY <1>1 DEF Desk
<1> HIDE DEF d
<1>4. desk \in [Threads -> Desk] /\ crossed \subseteq ClaimIds
  BY DEF ClaimType, ClaimsTypeOK
<1>5. desk' \in [Threads -> Desk] /\ desk'[t] = d /\ \A s \in Threads : s # t => desk'[s] = desk[s]
  BY <1>2, <1>3, <1>4
<1>6. /\ claim[c].status # "none"
      /\ desk[t] = NoDesk /\ job[t] = Idle
      /\ crossed \subseteq crossed' /\ crossed' \subseteq ClaimIds
      /\ (\E s \in Threads : desk[s].claim = c) => c \in crossed'
      /\ UNCHANGED <<claim, agreed>>
  BY <1>4 DEF OpenClaim, Free
<1> QED
  BY <1>3, <1>5, <1>6 DEF new

\* The requests on claims that load a row.
Load(t, c, pc, status, amount) ==
    /\ OpenClaim(t, c, pc, status, amount)
    /\ \/ /\ pc = "updating"
          /\ claim[c].status = "draft" /\ status = "draft"
       \/ /\ pc = "submitting"
          /\ claim[c].status = "draft" /\ status = "submitted" /\ amount = claim[c].amount
       \/ /\ pc = "answering"
          /\ status \in {claim[c].status, "under_review", "negotiated"}
          /\ claim[c].status \in Terminal => status = claim[c].status
       \/ /\ pc = "settling"
          /\ status \in Terminal /\ claim[c].settlement = "none"

LEMMA LoadCases ==
  ASSUME ClaimType, NEW t \in Threads, NEW c \in ClaimIds,
         \/ \E amount \in Amounts : UpdateLoad(t, c, amount)
         \/ \E status \in Terminal : SettleLoad(t, c, status)
         \/ SubmitLoad(t, c) \/ RespondLoad(t, c) \/ NegotiateLoad(t, c)
  PROVE  \E pc \in DeskPCs \ {"idle"}, status \in ClaimStatuses, amount \in Amounts :
           Load(t, c, pc, status, amount)
<1>1. claim[c] \in ClaimRow
  BY DEF ClaimType, ClaimsTypeOK
<1>2. claim[c].status \in ClaimStatuses /\ claim[c].amount \in Amounts
  BY <1>1 DEF ClaimRow
<1>3. CASE \E amount \in Amounts : UpdateLoad(t, c, amount)
  BY <1>2, <1>3 DEF UpdateLoad, Editable, Load, DeskPCs
<1>4. CASE \E status \in Terminal : SettleLoad(t, c, status)
  BY <1>2, <1>4, AnAmountTyped DEF SettleLoad, Load, DeskPCs, ClaimStatuses
<1>5. CASE SubmitLoad(t, c)
  BY <1>2, <1>5 DEF SubmitLoad, Load, DeskPCs, ClaimStatuses
<1>6. CASE RespondLoad(t, c)
  <2> DEFINE status == AfterResponse(claim[c].status)
  <2>1. /\ status \in {claim[c].status, "under_review", "negotiated"}
        /\ claim[c].status \in Terminal => status = claim[c].status
        /\ status \in ClaimStatuses
    BY <1>2, TerminalAssumption DEF AfterResponse, ClaimStatuses
  <2>2. OpenClaim(t, c, "answering", status, AnAmount)
    BY <1>6 DEF RespondLoad
  <2> HIDE DEF status
  <2> QED
    BY <2>1, <2>2, AnAmountTyped DEF Load, DeskPCs
<1>7. CASE NegotiateLoad(t, c)
  <2> DEFINE status == AfterNegotiation(claim[c].status)
  <2>1. /\ status \in {claim[c].status, "under_review", "negotiated"}
        /\ claim[c].status \in Terminal => status = claim[c].status
        /\ status \in ClaimStatuses
    BY <1>2, TerminalAssumption DEF AfterNegotiation, ClaimStatuses
  <2>2. OpenClaim(t, c, "answering", status, AnAmount)
    BY <1>7 DEF NegotiateLoad
  <2> HIDE DEF status
  <2> QED
    BY <2>1, <2>2, AnAmountTyped DEF Load, DeskPCs
<1> QED
  BY <1>3, <1>4, <1>5, <1>6, <1>7

\* A request on a claim ends: it writes its claim, or nothing.
Commit(t) == UpdateCommit(t) \/ SubmitCommit(t) \/ AnswerCommit(t) \/ SettleCommit(t)

LEMMA CommitWrites ==
  ASSUME ClaimType, NEW t \in Threads, Commit(t)
  PROVE  \E c \in ClaimIds :
           /\ c = desk[t].claim
           /\ claim' \in [ClaimIds -> ClaimRow]
           /\ \A d \in ClaimIds : d # c => claim'[d] = claim[d] /\ agreed'[d] = agreed[d]
           /\ RowOK(claim'[c]) /\ claim[c].status # "none" /\ claim'[c].status # "none"
           /\ claim'[c].event = claim[c].event /\ claim'[c].baseline = claim[c].baseline
           /\ desk' = [desk EXCEPT ![t] = NoDesk] /\ UNCHANGED crossed
           /\ agreed' \in [ClaimIds -> Amounts]
           /\ UpdateCommit(t) =>
                /\ claim'[c].submitted = claim[c].submitted
                /\ claim'[c].status = claim[c].status /\ claim'[c].settlement = claim[c].settlement
                /\ UNCHANGED agreed
           /\ SubmitCommit(t) =>
                /\ claim'[c].amount = claim[c].amount /\ agreed'[c] = desk[t].amount
                /\ claim'[c].status = "submitted" /\ claim'[c].settlement = claim[c].settlement
           /\ AnswerCommit(t) =>
                /\ claim'[c].amount = claim[c].amount /\ claim'[c].submitted = claim[c].submitted
                /\ claim'[c].settlement = claim[c].settlement /\ UNCHANGED agreed
                /\ desk[t].status = "none" => claim'[c].status = claim[c].status
           /\ SettleCommit(t) =>
                /\ claim'[c].amount = claim[c].amount /\ claim'[c].submitted = claim[c].submitted
                /\ UNCHANGED agreed
                /\ \/ claim[c].settlement # "none" /\ claim'[c] = claim[c]
                   \/ claim[c].settlement = "none" /\ claim'[c].status = claim'[c].settlement
<1>1. PICK c \in ClaimIds : c = desk[t].claim
  BY NoDeskTyped DEF ClaimType, DeskOK, Commit, UpdateCommit, SubmitCommit, AnswerCommit, SettleCommit
<1>2. /\ claim \in [ClaimIds -> ClaimRow] /\ agreed \in [ClaimIds -> Amounts]
      /\ claim[c] \in ClaimRow /\ RowOK(claim[c])
      /\ desk[t] \in Desk /\ desk[t].amount \in Amounts
  BY DEF ClaimType, ClaimsTypeOK, Desk
<1>3. /\ claim[c].status # "none"
      /\ desk[t].pc = "checked" => desk[t].status = "submitted"
      /\ desk[t].pc = "answering" => desk[t].status \in {"none", "under_review", "negotiated"}
      /\ desk[t].pc = "settling" => desk[t].status \in Terminal
  BY <1>1, NoDeskTyped DEF ClaimType, DeskOK, Stored
<1>4. Written(t) = IF desk[t].status = "none" THEN claim[c].status ELSE desk[t].status
  BY <1>1 DEF Written, Stored
<1>5. desk' = [desk EXCEPT ![t] = NoDesk] /\ UNCHANGED crossed
  BY DEF Commit, UpdateCommit, SubmitCommit, AnswerCommit, SettleCommit, Leave
<1>6. ASSUME NEW row \in ClaimRow, claim' = [claim EXCEPT ![c] = row]
      PROVE  /\ claim' \in [ClaimIds -> ClaimRow]
             /\ claim'[c] = row /\ \A d \in ClaimIds : d # c => claim'[d] = claim[d]
  BY <1>2, <1>6
<1>7. CASE UpdateCommit(t)
  <2> DEFINE row == [claim[c] EXCEPT !.amount = desk[t].amount]
  <2>1. claim' = [claim EXCEPT ![c] = row] /\ UNCHANGED agreed /\ desk[t].pc = "updating"
    BY <1>1, <1>7 DEF UpdateCommit
  <2>2. /\ row \in ClaimRow /\ row.event = claim[c].event /\ row.baseline = claim[c].baseline
        /\ row.submitted = claim[c].submitted /\ row.status = claim[c].status
        /\ row.settlement = claim[c].settlement
    BY <1>2 DEF ClaimRow
  <2> HIDE DEF row
  <2>3. RowOK(row) /\ row.status # "none"
    BY <1>2, <1>3, <2>2 DEF RowOK
  <2>4. ~SubmitCommit(t) /\ ~AnswerCommit(t) /\ ~SettleCommit(t)
    BY <2>1 DEF SubmitCommit, AnswerCommit, SettleCommit
  <2> QED
    BY <1>1, <1>2, <1>3, <1>5, <1>6, <2>1, <2>2, <2>3, <2>4
<1>8. CASE SubmitCommit(t)
  <2> DEFINE row == [claim[c] EXCEPT !.status = Written(t), !.submitted = TRUE]
  <2>1. /\ claim' = [claim EXCEPT ![c] = row] /\ agreed' = [agreed EXCEPT ![c] = desk[t].amount]
        /\ desk[t].pc = "checked"
    BY <1>1, <1>8 DEF SubmitCommit
  <2>2. Written(t) = "submitted"
    BY <1>3, <1>4, <2>1
  <2>3. /\ row \in ClaimRow /\ row.event = claim[c].event /\ row.baseline = claim[c].baseline
        /\ row.status = "submitted" /\ row.amount = claim[c].amount
        /\ row.settlement = claim[c].settlement
    BY <1>2, <2>2 DEF ClaimRow, ClaimStatuses
  <2> HIDE DEF row
  <2>4. RowOK(row)
    BY <2>3, TerminalAssumption DEF RowOK
  <2>5. /\ agreed' \in [ClaimIds -> Amounts] /\ agreed'[c] = desk[t].amount
        /\ \A d \in ClaimIds : d # c => agreed'[d] = agreed[d]
    BY <1>2, <2>1
  <2>6. ~UpdateCommit(t) /\ ~AnswerCommit(t) /\ ~SettleCommit(t)
    BY <2>1 DEF UpdateCommit, AnswerCommit, SettleCommit
  <2> QED
    BY <1>1, <1>3, <1>5, <1>6, <2>1, <2>3, <2>4, <2>5, <2>6
<1>9. CASE AnswerCommit(t)
  <2> DEFINE row == [claim[c] EXCEPT !.status = Written(t)]
  <2>1. claim' = [claim EXCEPT ![c] = row] /\ UNCHANGED agreed /\ desk[t].pc = "answering"
    BY <1>1, <1>9 DEF AnswerCommit
  <2>2. Written(t) \in {claim[c].status, "under_review", "negotiated"}
    BY <1>3, <1>4, <2>1
  <2>3. /\ row \in ClaimRow /\ row.event = claim[c].event /\ row.baseline = claim[c].baseline
        /\ row.status = Written(t) /\ row.amount = claim[c].amount
        /\ row.settlement = claim[c].settlement /\ row.submitted = claim[c].submitted
    BY <1>2, <2>2 DEF ClaimRow, ClaimStatuses
  <2> HIDE DEF row
  <2>4. RowOK(row) /\ row.status # "none"
    BY <1>2, <1>3, <2>2, <2>3, TerminalAssumption DEF RowOK
  <2>5. desk[t].status = "none" => row.status = claim[c].status
    BY <1>4, <2>3
  <2>6. ~UpdateCommit(t) /\ ~SubmitCommit(t) /\ ~SettleCommit(t)
    BY <2>1 DEF UpdateCommit, SubmitCommit, SettleCommit
  <2> QED
    BY <1>1, <1>2, <1>3, <1>5, <1>6, <2>1, <2>3, <2>4, <2>5, <2>6
<1>10. CASE SettleCommit(t)
  <2>1. UNCHANGED agreed /\ desk[t].pc = "settling"
    BY <1>10 DEF SettleCommit
  <2>2. ~UpdateCommit(t) /\ ~SubmitCommit(t) /\ ~AnswerCommit(t)
    BY <2>1 DEF UpdateCommit, SubmitCommit, AnswerCommit
  <2>3. CASE claim[c].settlement # "none"
    <3>1. claim' = claim
      BY <1>1, <1>10, <2>3 DEF SettleCommit, Stored
    <3> QED
      BY <1>1, <1>2, <1>3, <1>5, <2>1, <2>2, <2>3, <3>1
  <2>4. CASE claim[c].settlement = "none"
    <3> DEFINE row == [claim[c] EXCEPT !.status = Written(t), !.settlement = desk[t].status]
    <3>1. claim' = [claim EXCEPT ![c] = row]
      BY <1>1, <1>10, <2>4 DEF SettleCommit, Stored
    <3>2. Written(t) = desk[t].status /\ desk[t].status \in Terminal
      BY <1>3, <1>4, <2>1, TerminalAssumption
    <3>3. /\ row \in ClaimRow /\ row.event = claim[c].event /\ row.baseline = claim[c].baseline
          /\ row.status = desk[t].status /\ row.amount = claim[c].amount
          /\ row.settlement = desk[t].status /\ row.submitted = claim[c].submitted
      BY <1>2, <3>2 DEF ClaimRow, ClaimStatuses
    <3> HIDE DEF row
    <3>4. RowOK(row) /\ row.status # "none"
      BY <3>2, <3>3, TerminalAssumption DEF RowOK
    <3> QED
      BY <1>1, <1>2, <1>3, <1>5, <1>6, <2>1, <2>2, <2>4, <3>1, <3>3, <3>4
  <2> QED
    BY <2>3, <2>4
<1> QED
  BY <1>7, <1>8, <1>9, <1>10 DEF Commit

\* A claim is created: nobody holds it yet.
LEMMA NewClaimWrites ==
  ASSUME ClaimType, NewClaim
  PROVE  \E c \in ClaimIds :
           /\ claim[c].status = "none" /\ claim' \in [ClaimIds -> ClaimRow]
           /\ \A d \in ClaimIds : d # c => claim'[d] = claim[d]
           /\ claim'[c].status = "draft" /\ RowOK(claim'[c])
           /\ ~claim'[c].submitted /\ claim'[c].settlement = "none"
           /\ claim'[c].event # None => claim'[c].event \in Events
                                        /\ event[claim'[c].event].status # "none"
           /\ \A t \in Threads : desk[t].claim # c
           /\ UNCHANGED <<desk, agreed, crossed>>
<1>1. PICK c \in ClaimIds, e \in Events \cup {None}, named \in 0..baseline, amount \in Amounts :
         CreateClaim(c, e, named, amount)
  BY DEF NewClaim
<1> DEFINE b == IF named = 0 /\ e # None THEN event[e].baseline ELSE named
           row == [NoClaim EXCEPT !.status = "draft", !.event = e, !.amount = amount, !.baseline = b]
<1>2. b \in Nat
  BY DEF ClaimType, EventType, TypeOK, EventRow
<1>3. claim' = [claim EXCEPT ![c] = row] /\ UNCHANGED <<desk, agreed, crossed>>
  BY <1>1 DEF CreateClaim
<1> HIDE DEF b
<1>4. /\ row \in ClaimRow /\ row.status = "draft" /\ row.event = e
      /\ ~row.submitted /\ row.settlement = "none"
  BY <1>2 DEF NoClaim, ClaimRow, ClaimStatuses
<1> HIDE DEF row
<1>5. RowOK(row)
  BY <1>4, TerminalAssumption DEF RowOK
<1>6. claim[c].status = "none" /\ (e # None => event[e].status # "none")
  BY <1>1 DEF CreateClaim
<1>7. \A t \in Threads : desk[t].claim # c
  BY <1>6, NoDeskTyped DEF ClaimType, DeskOK, Stored
<1>8. claim' \in [ClaimIds -> ClaimRow] /\ claim'[c] = row
      /\ \A d \in ClaimIds : d # c => claim'[d] = claim[d]
  BY <1>3, <1>4 DEF ClaimType, ClaimsTypeOK
<1> QED
  BY <1>3, <1>4, <1>5, <1>6, <1>7, <1>8

\* The check before a submission: the request goes on, or ends without a write.
LEMMA CheckWrites ==
  ASSUME ClaimType, NEW t \in Threads, SubmitCheck(t)
  PROVE  /\ desk' \in [Threads -> Desk] /\ \A s \in Threads : s # t => desk'[s] = desk[s]
         /\ UNCHANGED <<claim, agreed, crossed>>
         /\ desk[t].pc = "submitting" /\ desk[t].claim \in ClaimIds
         /\ \/ desk'[t] = NoDesk
            \/ /\ desk'[t].pc = "checked" /\ desk'[t].claim = desk[t].claim
               /\ desk'[t].status = desk[t].status /\ desk'[t].amount = desk[t].amount
               /\ ChainIntact(claim[desk[t].claim])
<1>1. desk \in [Threads -> Desk] /\ desk[t] \in Desk
  BY DEF ClaimType, ClaimsTypeOK
<1>2. /\ desk[t].pc = "submitting" /\ desk[t].claim \in ClaimIds
      /\ UNCHANGED <<claim, agreed, crossed>>
  BY NoDeskTyped DEF SubmitCheck, ClaimType, DeskOK
<1> DEFINE d == [desk[t] EXCEPT !.pc = "checked"]
<1>3. /\ d \in Desk /\ d.pc = "checked" /\ d.claim = desk[t].claim
      /\ d.status = desk[t].status /\ d.amount = desk[t].amount
  BY <1>1 DEF Desk, DeskPCs
<1>4. \/ desk' = [desk EXCEPT ![t] = d] /\ ChainIntact(claim[desk[t].claim])
      \/ desk' = [desk EXCEPT ![t] = NoDesk]
  BY DEF SubmitCheck, Leave, Stored
<1> HIDE DEF d
<1> QED
  BY <1>1, <1>2, <1>3, <1>4, NoDeskTyped

\* What the steps of the claims and of their surroundings do, one by one.
LEMMA ClaimSteps ==
  ASSUME ClaimType, [ClaimsNext]_<<eventVars, claimVars>>
  PROVE  \/ UNCHANGED claimVars /\ \E t \in Threads : desk[t] = NoDesk /\ Request(t)
         \/ UNCHANGED claimVars /\ (Surroundings \/ UNCHANGED eventVars)
         \/ UNCHANGED eventVars /\ NewClaim
         \/ UNCHANGED eventVars /\ \E t \in Threads : SubmitCheck(t)
         \/ UNCHANGED eventVars /\ \E t \in Threads : Commit(t)
         \/ UNCHANGED eventVars /\ \E t \in Threads, c \in ClaimIds, pc \in DeskPCs \ {"idle"},
                                      status \in ClaimStatuses, amount \in Amounts :
                                     Load(t, c, pc, status, amount)
         \/ CrashBoth
<1>1. ASSUME NEW t \in Threads, ClaimRequest(t)
      PROVE  \/ SubmitCheck(t) \/ Commit(t)
             \/ \E c \in ClaimIds, pc \in DeskPCs \ {"idle"},
                   status \in ClaimStatuses, amount \in Amounts : Load(t, c, pc, status, amount)
  BY <1>1, LoadCases DEF ClaimRequest, Commit
<1> QED
  BY <1>1 DEF ClaimsNext

LEMMA ClaimTypeStep ==
  ClaimType /\ [ClaimsNext]_<<eventVars, claimVars>> => ClaimType'
<1> SUFFICES ASSUME ClaimType, [ClaimsNext]_<<eventVars, claimVars>> PROVE ClaimType'
  OBVIOUS
<1>0. EventType'
  BY ClaimsSteps, EventTypeStep DEF ClaimType
<1>1. ASSUME UNCHANGED claimVars,
             \A t \in Threads : job'[t] = Idle \/ desk'[t] = NoDesk
      PROVE  ClaimType'
  <2>1. \A t \in Threads : DeskOK(t)'
    BY <1>1 DEF claimVars, ClaimType, DeskOK, Stored
  <2>2. \A c \in ClaimIds : RowOK(claim[c])'
    BY <1>1 DEF claimVars, ClaimType, RowOK
  <2> QED
    BY <1>0, <1>1, <2>1, <2>2 DEF ClaimType, ClaimsTypeOK, EventType, claimVars
<1>2. CASE UNCHANGED claimVars /\ \E t \in Threads : desk[t] = NoDesk /\ Request(t)
  <2>1. \A t \in Threads : job'[t] = Idle \/ desk'[t] = NoDesk
    BY <1>2, RequestMoves DEF claimVars, ClaimType, ClaimsTypeOK
  <2> QED
    BY <1>1, <1>2, <2>1
<1>3. CASE UNCHANGED claimVars /\ (Surroundings \/ UNCHANGED eventVars)
  <2>1. UNCHANGED job
    BY <1>3 DEF Surroundings, SourceAges, BaselineSealed, ProjectPaid, eventVars
  <2> QED
    BY <1>1, <1>3, <2>1 DEF claimVars, ClaimType, ClaimsTypeOK
<1>4. CASE UNCHANGED eventVars /\ NewClaim
  <2>1. PICK c \in ClaimIds :
          /\ claim[c].status = "none" /\ claim' \in [ClaimIds -> ClaimRow]
          /\ \A d \in ClaimIds : d # c => claim'[d] = claim[d]
          /\ claim'[c].status = "draft" /\ RowOK(claim'[c])
          /\ UNCHANGED <<desk, agreed, crossed, job>>
    BY <1>4, NewClaimWrites DEF eventVars
  <2>2. \A d \in ClaimIds : RowOK(claim[d])'
    BY <2>1 DEF ClaimType, RowOK
  <2>3. \A t \in Threads : DeskOK(t)'
    BY <2>1 DEF ClaimType, DeskOK, Stored
  <2>4. ClaimsTypeOK'
    BY <1>0, <2>1, <2>2 DEF ClaimType, ClaimsTypeOK, EventType, RowOK
  <2> QED
    BY <1>0, <2>2, <2>3, <2>4 DEF ClaimType
<1>5. CASE UNCHANGED eventVars /\ \E t \in Threads : SubmitCheck(t)
  <2>1. PICK t \in Threads : SubmitCheck(t)
    BY <1>5
  <2>2. \A c \in ClaimIds : RowOK(claim[c])'
    BY <2>1, CheckWrites DEF ClaimType, RowOK
  <2>3. \A s \in Threads : DeskOK(s)'
    <3>1. \A s \in Threads : s # t => DeskOK(s)'
      BY <2>1, CheckWrites DEF ClaimType, DeskOK, Stored
    <3>2. DeskOK(t)
      BY DEF ClaimType
    <3>3. DeskOK(t)'
      BY <2>1, <3>2, CheckWrites, NoDeskTyped DEF DeskOK, Stored
    <3> QED
      BY <3>1, <3>3
  <2>4. \A s \in Threads : job'[s] = Idle \/ desk'[s] = NoDesk
    BY <1>5, <2>1, CheckWrites, NoDeskTyped DEF eventVars, ClaimType, ClaimsTypeOK
  <2>5. ClaimsTypeOK'
    BY <1>0, <2>1, <2>4, CheckWrites DEF ClaimType, ClaimsTypeOK, EventType
  <2> QED
    BY <1>0, <2>2, <2>3, <2>5 DEF ClaimType
<1>6. CASE UNCHANGED eventVars /\ \E t \in Threads : Commit(t)
  <2>1. PICK t \in Threads : Commit(t)
    BY <1>6
  <2>2. PICK c \in ClaimIds :
           /\ claim' \in [ClaimIds -> ClaimRow]
           /\ \A d \in ClaimIds : d # c => claim'[d] = claim[d]
           /\ RowOK(claim'[c]) /\ claim'[c].status # "none"
           /\ desk' = [desk EXCEPT ![t] = NoDesk] /\ UNCHANGED crossed
           /\ agreed' \in [ClaimIds -> Amounts]
    BY <2>1, CommitWrites
  <2>3. /\ desk' \in [Threads -> Desk]
        /\ desk'[t] = NoDesk /\ \A s \in Threads : s # t => desk'[s] = desk[s]
    BY <2>2, NoDeskTyped DEF ClaimType, ClaimsTypeOK
  <2>4. \A d \in ClaimIds : RowOK(claim[d])'
    BY <2>2 DEF ClaimType, RowOK
  <2>5. \A s \in Threads : DeskOK(s)'
    BY <2>2, <2>3 DEF ClaimType, DeskOK, Stored
  <2>6. \A s \in Threads : job'[s] = Idle \/ desk'[s] = NoDesk
    BY <1>6, <2>3 DEF eventVars, ClaimType, ClaimsTypeOK
  <2>7. ClaimsTypeOK'
    BY <1>0, <2>2, <2>3, <2>4, <2>6 DEF ClaimType, ClaimsTypeOK, EventType, RowOK
  <2> QED
    BY <1>0, <2>4, <2>5, <2>7 DEF ClaimType
<1>7. ASSUME UNCHANGED eventVars,
             NEW t \in Threads, NEW c \in ClaimIds, NEW pc \in DeskPCs \ {"idle"},
             NEW status \in ClaimStatuses, NEW amount \in Amounts, Load(t, c, pc, status, amount)
      PROVE  ClaimType'
  <2>1. OpenClaim(t, c, pc, status, amount)
    BY <1>7 DEF Load
  <2>2. /\ desk' \in [Threads -> Desk]
        /\ desk'[t].pc = pc /\ desk'[t].claim = c
        /\ desk'[t].status = IF status = claim[c].status THEN "none" ELSE status
        /\ \A s \in Threads : s # t => desk'[s] = desk[s]
        /\ claim[c].status # "none" /\ job[t] = Idle
        /\ crossed' \subseteq ClaimIds
        /\ UNCHANGED <<claim, agreed>>
    BY <2>1, OpenWrites
  <2>3. \A d \in ClaimIds : RowOK(claim[d])'
    BY <2>2 DEF ClaimType, RowOK
  <2>4. DeskOK(t)'
    <3>1. pc = "settling" => desk'[t].status \in Terminal
      BY <1>7, <2>2 DEF Load, ClaimType, RowOK
    <3>2. pc = "answering" => desk'[t].status \in {"none", "under_review", "negotiated"}
      BY <1>7, <2>2 DEF Load
    <3>3. pc = "submitting" => desk'[t].status = "submitted"
      BY <1>7, <2>2 DEF Load
    <3>4. pc # "checked"
      BY <1>7 DEF Load
    <3> QED
      BY <2>2, <3>1, <3>2, <3>3, <3>4 DEF DeskOK, Stored
  <2>5. \A s \in Threads : s # t => DeskOK(s)'
    BY <2>2 DEF ClaimType, DeskOK, Stored
  <2>6. \A s \in Threads : job'[s] = Idle \/ desk'[s] = NoDesk
    BY <1>7, <2>2 DEF eventVars, ClaimType, ClaimsTypeOK
  <2>7. ClaimsTypeOK'
    BY <1>0, <2>2, <2>6 DEF ClaimType, ClaimsTypeOK, EventType
  <2> QED
    BY <1>0, <2>3, <2>4, <2>5, <2>7 DEF ClaimType
<1>8. CASE CrashBoth
  <2>1. /\ \A t \in Threads : desk'[t] = NoDesk /\ job'[t] = Idle
        /\ desk' \in [Threads -> Desk]
        /\ UNCHANGED <<claim, agreed, crossed>>
    BY <1>8, NoDeskTyped DEF CrashBoth
  <2>2. \A c \in ClaimIds : RowOK(claim[c])'
    BY <2>1 DEF ClaimType, RowOK
  <2>3. ClaimsTypeOK'
    BY <1>0, <2>1 DEF ClaimType, ClaimsTypeOK, EventType
  <2> QED
    BY <1>0, <2>1, <2>2, <2>3 DEF ClaimType, DeskOK
<1> QED
  BY <1>2, <1>3, <1>4, <1>5, <1>6, <1>7, <1>8, ClaimSteps

\* Every reachable state of the change events and the claims is well typed, and a
\* thread is in one of the two modules at a time.
THEOREM TypeCorrect == ClaimsSpec => []ClaimsTypeOK
<1>1. ClaimsSpec => []ClaimType
  BY ClaimTypeInit, ClaimTypeStep, PTL DEF ClaimsSpec
<1>2. ClaimType => ClaimsTypeOK
  BY DEF ClaimType
<1> QED
  BY <1>1, <1>2, PTL

\* The open events of an unpaid project exceed the free ones by at most one for
\* each other request served at the same time.
THEOREM Slots == ClaimsSpec => []SlotsBounded
<1>1. ClaimsInit => SlotsBounded
  BY SlotsInit DEF ClaimsInit
<1>2. ClaimType /\ SlotsBounded /\ [ClaimsNext]_<<eventVars, claimVars>> => SlotsBounded'
  BY ClaimsSteps, SlotsStep DEF ClaimType
<1> QED
  BY <1>1, <1>2, ClaimTypeInit, ClaimTypeStep, PTL DEF ClaimsSpec

-----------------------------------------------------------------------------
(***************************************************************************)
(* What rests on a change rests on a person's word.  A request that is     *)
(* about to confirm carries the word, one that computes a deadline found   *)
(* it, and a claim that passed the check names an event that has it; no    *)
(* event loses it, or its baseline, once it is there.                      *)
(***************************************************************************)
Supported(row) ==
    /\ row.event # None
    /\ event[row.event].changed
    /\ event[row.event].baseline = row.baseline

WordInv ==
    /\ ConfirmedByPerson
    /\ \A t \in Threads : job[t].pc = "deciding" /\ job[t].status = "confirmed" => job[t].changed
    /\ \A t \in Threads : job[t].pc = "computing" =>
          event[job[t].event].changed /\ event[job[t].event].status # "none"

SupportInv ==
    /\ \A c \in ClaimIds : claim[c].event # None => event[claim[c].event].status # "none"
    /\ \A c \in ClaimIds : claim[c].submitted => Supported(claim[c])
    /\ \A t \in Threads : desk[t].pc = "checked" => Supported(Stored(t))

BackInv == WordInv /\ SupportInv

\* No request makes an event forget.
LEMMA EventsKeep == EventType /\ EventStep => EventKept
<1> SUFFICES ASSUME EventType, EventStep PROVE EventKept
  OBVIOUS
<1>1. ASSUME UNCHANGED event PROVE EventKept
  BY <1>1 DEF EventKept
<1> QED
  BY <1>1, EventWrites DEF EventStep, Surroundings, SourceAges, BaselineSealed, ProjectPaid,
     Restart, eventVars

\* What a request that loads an event carries.
LEMMA LoadedJob ==
  ASSUME EventType, WordInv, NEW t \in Threads, Request(t)
  PROVE  /\ job'[t].pc = "deciding" /\ job'[t].status = "confirmed" => job'[t].changed
         /\ job'[t].pc = "computing" => /\ UNCHANGED event
                                        /\ event[job'[t].event].status = "confirmed"
                                        /\ job'[t].event \in Events
<1>0. job \in [Threads -> Job] /\ job[t] \in Job
  BY DEF EventType, TypeOK
<1>1. \A j : job' = [job EXCEPT ![t] = j] => job'[t] = j
  BY <1>0
<1>2. ASSUME NEW e \in Events, NEW new, NEW changed \in BOOLEAN, Decide(t, e, new, changed),
             new = "confirmed" => changed
      PROVE  /\ job'[t].pc = "deciding"
             /\ job'[t].status = "confirmed" => job'[t].changed
  <2> DEFINE written == IF new = event[e].status THEN "none" ELSE new
             j == [Idle EXCEPT !.pc = "deciding", !.event = e, !.changed = changed,
                               !.status = written]
  <2>1. job'[t] = j
    BY <1>1, <1>2 DEF Decide
  <2>2. written = "confirmed" => changed
    BY <1>2
  <2> HIDE DEF written
  <2>3. j.pc = "deciding" /\ j.status = written /\ j.changed = changed
    BY DEF Idle
  <2> HIDE DEF j
  <2> QED
    BY <2>1, <2>2, <2>3
<1>3. ASSUME NEW e \in Events, \E decision \in {"triaged", "shut"} : Triage(t, e, decision)
      PROVE  /\ job'[t].pc = "deciding"
             /\ job'[t].status = "confirmed" => job'[t].changed
  BY <1>2, <1>3 DEF Triage
<1>4. ASSUME NEW e \in Events, NEW outcome \in Outcomes, Confirm(t, e, outcome)
      PROVE  /\ job'[t].pc = "deciding"
             /\ job'[t].status = "confirmed" => job'[t].changed
  <2>1. Decide(t, e, StatusAfter(outcome), outcome = "changed")
    BY <1>4 DEF Confirm
  <2>2. StatusAfter(outcome) = "confirmed" => outcome = "changed"
    BY DEF StatusAfter, Outcomes
  <2>3. (outcome = "changed") \in BOOLEAN
    OBVIOUS
  <2> QED
    BY <1>2, <2>1, <2>2, <2>3
<1>5. ASSUME NEW e \in Events, DeadlineLoad(t, e)
      PROVE  /\ UNCHANGED event /\ job'[t].pc = "computing" /\ job'[t].event = e
             /\ event[e].status = "confirmed"
  BY <1>1, <1>5 DEF DeadlineLoad, DeadlineDue, Idle
<1>6. \/ \E e \in Events : DeadlineLoad(t, e)
      \/ \E e \in Events : \E decision \in {"triaged", "shut"} : Triage(t, e, decision)
      \/ \E e \in Events : \E outcome \in Outcomes : Confirm(t, e, outcome)
      \/ job'[t].pc \notin {"deciding", "computing"}
  <2>1. /\ Finish(t) => job'[t].pc = "idle"
        /\ CreateManual(t) => job'[t].pc = "unmatched"
        /\ \A s \in Signals : \A mail : Receive(t, s, mail) => job'[t].pc = "received"
    BY <1>1, IdleTyped DEF Finish, CreateManual, Receive, Idle
  <2>4. RequireSlot(t) => Finish(t) \/ job'[t].pc = "granted"
    <3>1. Goto(t, "granted") => job'[t].pc = "granted"
      BY <1>0, <1>1 DEF Goto, Job
    <3> QED
      BY <3>1 DEF RequireSlot
  <2>2. Match(t) => job'[t].pc \in {"unmatched", "attaching"}
    BY <1>0, <1>1 DEF Match, Job
  <2>3. \/ Finish(t) \/ RequireSlot(t) \/ CreateManual(t) \/ Match(t)
        \/ \E s \in Signals : \E mail : Receive(t, s, mail)
        \/ \E e \in Events : DeadlineLoad(t, e)
        \/ \E e \in Events : \E decision \in {"triaged", "shut"} : Triage(t, e, decision)
        \/ \E e \in Events : \E outcome \in Outcomes : Confirm(t, e, outcome)
    BY DEF Request, AttachCommit, MailRollBack, CreateCommit, DecideCommit, DeadlineCommit
  <2> QED
    BY <2>1, <2>2, <2>3, <2>4
<1> QED
  BY <1>3, <1>4, <1>5, <1>6

LEMMA WordStep == EventType /\ WordInv /\ EventStep => WordInv'
<1> SUFFICES ASSUME EventType, WordInv, EventStep PROVE WordInv'
  OBVIOUS
<1>1. EventKept
  BY EventsKeep
<1>2. CASE Surroundings \/ UNCHANGED eventVars
  BY <1>2 DEF Surroundings, SourceAges, BaselineSealed, ProjectPaid, eventVars,
     WordInv, ConfirmedByPerson
<1>3. CASE Restart
  BY <1>3, RestartIdle, IdleTyped DEF Restart, WordInv, ConfirmedByPerson
<1>4. ASSUME NEW t \in Threads, Request(t) PROVE WordInv'
  <2>1. \A s \in Threads : s # t => job'[s] = job[s]
    BY <1>4, RequestMoves
  <2>2. ConfirmedByPerson'
    <3>1. CASE DecideCommit(t)
      <4>1. job[t].pc = "deciding"
        BY <3>1 DEF DecideCommit
      <4> DEFINE e == job[t].event
      <4>2. /\ event'[e].status = IF job[t].status = "none"
                                  THEN event[e].status ELSE job[t].status
            /\ event'[e].changed = (event[e].changed \/ job[t].changed)
            /\ event'[e].deadline = event[e].deadline
            /\ e \in Events
            /\ \A d \in Events : d # e => event'[d] = event[d]
        BY <3>1, DecideWrites
      <4>3. job[t].status = "confirmed" => job[t].changed
        BY <4>1 DEF WordInv
      <4>4. event[e].status = "confirmed" \/ event[e].deadline => event[e].changed
        BY <4>2 DEF WordInv, ConfirmedByPerson
      <4>5. event'[e].status = "confirmed" \/ event'[e].deadline => event'[e].changed
        BY <4>2, <4>3, <4>4
      <4> QED
        BY <4>2, <4>5 DEF WordInv, ConfirmedByPerson
    <3>2. CASE \E e \in Events : CreateCommit(t, e)
      BY <3>2, CreateWrites DEF WordInv, ConfirmedByPerson
    <3>3. ASSUME NEW found \in BOOLEAN, DeadlineCommit(t, found) PROVE ConfirmedByPerson'
      <4>1. event[job[t].event].changed
        BY <3>3 DEF DeadlineCommit, WordInv
      <4> QED
        BY <3>3, <4>1, DeadlineWrites DEF WordInv, ConfirmedByPerson
    <3>4. CASE UNCHANGED event
      BY <3>4 DEF WordInv, ConfirmedByPerson
    <3> QED
      BY <1>4, <3>1, <3>2, <3>3, <3>4, EventWrites
  <2>3. \A s \in Threads : job'[s].pc = "deciding" /\ job'[s].status = "confirmed" => job'[s].changed
    BY <1>4, <2>1, LoadedJob DEF WordInv
  <2>4. \A s \in Threads : job'[s].pc = "computing" =>
           event'[job'[s].event].changed /\ event'[job'[s].event].status # "none"
    <3>1. ASSUME job'[t].pc = "computing"
          PROVE  event'[job'[t].event].changed /\ event'[job'[t].event].status # "none"
      BY <1>4, <3>1, LoadedJob DEF WordInv, ConfirmedByPerson
    <3>2. ASSUME NEW s \in Threads, s # t, job'[s].pc = "computing"
          PROVE  event'[job'[s].event].changed /\ event'[job'[s].event].status # "none"
      BY <1>1, <2>1, <3>2 DEF WordInv, EventKept, EventType, JobOK
    <3> QED
      BY <3>1, <3>2
  <2> QED
    BY <2>2, <2>3, <2>4 DEF WordInv
<1> QED
  BY <1>2, <1>3, <1>4 DEF EventStep

LEMMA SupportStep ==
  ClaimType /\ BackInv /\ [ClaimsNext]_<<eventVars, claimVars>> => SupportInv'
<1> SUFFICES ASSUME ClaimType, BackInv, [ClaimsNext]_<<eventVars, claimVars>> PROVE SupportInv'
  OBVIOUS
<1>0. EventKept
  BY ClaimsSteps, EventsKeep DEF ClaimType
<1>a. \A c \in ClaimIds : claim[c].event \in Events \cup {None}
  BY DEF ClaimType, ClaimsTypeOK, ClaimRow
<1>b. \A c \in ClaimIds : claim'[c] = claim[c] /\ claim[c].event # None
                            => event'[claim'[c].event].status # "none"
  BY <1>0, <1>a DEF BackInv, SupportInv, EventKept
<1>c. ASSUME NEW c \in ClaimIds, Supported(claim[c]),
             claim'[c].event = claim[c].event, claim'[c].baseline = claim[c].baseline
      PROVE  Supported(claim[c])'
  BY <1>0, <1>a, <1>c DEF BackInv, SupportInv, EventKept, Supported
<1>d. \A t \in Threads : desk[t].pc = "checked" => desk[t].claim \in ClaimIds
  BY NoDeskTyped DEF ClaimType, DeskOK
<1>1. ASSUME UNCHANGED claim,
             \A t \in Threads : desk'[t] = desk[t] \/ desk'[t].pc # "checked"
      PROVE  SupportInv'
  <2>1. \A c \in ClaimIds : claim'[c].submitted => Supported(claim[c])'
    BY <1>1, <1>c DEF BackInv, SupportInv
  <2>2. \A t \in Threads : desk'[t].pc = "checked" => Supported(Stored(t))'
    BY <1>1, <1>c, <1>d DEF BackInv, SupportInv, Stored
  <2> QED
    BY <1>1, <1>b, <2>1, <2>2 DEF SupportInv
<1>2. CASE UNCHANGED claimVars
  BY <1>1, <1>2 DEF claimVars
<1>3. CASE CrashBoth
  BY <1>1, <1>3, NoDeskTyped DEF CrashBoth
<1>4. CASE UNCHANGED eventVars /\ NewClaim
  <2>1. PICK c \in ClaimIds :
           /\ \A d \in ClaimIds : d # c => claim'[d] = claim[d]
           /\ ~claim'[c].submitted
           /\ claim'[c].event # None => event[claim'[c].event].status # "none"
           /\ \A t \in Threads : desk[t].claim # c
           /\ UNCHANGED desk
    BY <1>4, NewClaimWrites
  <2>2. \A d \in ClaimIds : claim'[d].event # None => event'[claim'[d].event].status # "none"
    BY <1>4, <2>1, <1>b DEF eventVars
  <2>3. \A d \in ClaimIds : claim'[d].submitted => Supported(claim[d])'
    BY <2>1, <1>c DEF BackInv, SupportInv
  <2>4. \A t \in Threads : desk'[t].pc = "checked" => Supported(Stored(t))'
    BY <2>1, <1>c, <1>d DEF BackInv, SupportInv, Stored
  <2> QED
    BY <2>2, <2>3, <2>4 DEF SupportInv
<1>5. ASSUME UNCHANGED eventVars, NEW t \in Threads, SubmitCheck(t) PROVE SupportInv'
  <2>1. desk'[t].pc = "checked" => Supported(Stored(t))'
    <3>1. ASSUME desk'[t].pc = "checked"
          PROVE  desk'[t].claim = desk[t].claim /\ ChainIntact(claim[desk[t].claim])
      BY <1>5, <3>1, CheckWrites, NoDeskTyped
    <3>2. \A c \in ClaimIds : ChainIntact(claim[c]) => Supported(claim[c])
      BY <1>a DEF ChainIntact, Supported, BackInv, WordInv, ConfirmedByPerson
    <3> QED
      BY <1>5, <3>1, <3>2, <1>c, CheckWrites DEF Stored
  <2>2. \A s \in Threads : s # t => desk'[s] = desk[s]
    BY <1>5, CheckWrites
  <2>3. UNCHANGED claim
    BY <1>5, CheckWrites
  <2>4. \A c \in ClaimIds : claim'[c].submitted => Supported(claim[c])'
    BY <2>3, <1>c DEF BackInv, SupportInv
  <2>5. \A s \in Threads : s # t /\ desk'[s].pc = "checked" => Supported(Stored(s))'
    BY <2>2, <2>3, <1>c, <1>d DEF BackInv, SupportInv, Stored
  <2> QED
    BY <1>b, <2>1, <2>3, <2>4, <2>5 DEF SupportInv
<1>6. ASSUME UNCHANGED eventVars, NEW t \in Threads, Commit(t) PROVE SupportInv'
  <2>1. PICK c \in ClaimIds :
           /\ c = desk[t].claim
           /\ \A d \in ClaimIds : d # c => claim'[d] = claim[d]
           /\ claim'[c].event = claim[c].event /\ claim'[c].baseline = claim[c].baseline
           /\ desk' = [desk EXCEPT ![t] = NoDesk]
           /\ SubmitCommit(t) \/ claim'[c].submitted = claim[c].submitted
    <3>1. \A d : SettleCommit(t) /\ claim'[d] = claim[d] => claim'[d].submitted = claim[d].submitted
      OBVIOUS
    <3> QED
      BY <1>6, CommitWrites DEF Commit
  <2>2. desk'[t] = NoDesk /\ \A s \in Threads : s # t => desk'[s] = desk[s]
    BY <2>1 DEF ClaimType, ClaimsTypeOK
  <2>3. SubmitCommit(t) => Supported(claim[c])
    BY <2>1 DEF SubmitCommit, BackInv, SupportInv, Stored
  <2>4. \A d \in ClaimIds : claim'[d].event # None => event'[claim'[d].event].status # "none"
    BY <1>6, <2>1, <1>b DEF BackInv, SupportInv, eventVars
  <2>5. \A d \in ClaimIds : claim'[d].submitted => Supported(claim[d])'
    BY <2>1, <2>3, <1>c DEF BackInv, SupportInv
  <2>6. \A s \in Threads : desk'[s].pc = "checked" => Supported(Stored(s))'
    <3>1. \A d \in ClaimIds : Supported(claim[d]) => Supported(claim[d])'
      BY <2>1, <1>c
    <3> QED
      BY <2>2, <3>1, <1>d, NoDeskTyped DEF BackInv, SupportInv, Stored
  <2> QED
    BY <2>4, <2>5, <2>6 DEF SupportInv
<1>7. ASSUME UNCHANGED eventVars,
             NEW t \in Threads, NEW c \in ClaimIds, NEW pc \in DeskPCs \ {"idle"},
             NEW status \in ClaimStatuses, NEW amount \in Amounts, Load(t, c, pc, status, amount)
      PROVE  SupportInv'
  <2>1. pc # "checked" /\ OpenClaim(t, c, pc, status, amount)
    BY <1>7 DEF Load
  <2> QED
    BY <1>1, <2>1, OpenWrites
<1> QED
  BY <1>2, <1>3, <1>4, <1>5, <1>6, <1>7, ClaimSteps

LEMMA BackInvInit == ClaimsInit => BackInv
<1> SUFFICES ASSUME ClaimsInit PROVE BackInv
  OBVIOUS
<1>1. /\ \A t \in Threads : job[t] = Idle /\ desk[t] = NoDesk
      /\ \A c \in ClaimIds : claim[c] = NoClaim
      /\ \A e \in Events : event[e] = NoEvent
  BY DEF ClaimsInit, Init
<1>2. WordInv
  BY <1>1, IdleTyped DEF WordInv, ConfirmedByPerson, NoEvent
<1>3. SupportInv
  BY <1>1, NoClaimTyped, NoDeskTyped DEF SupportInv
<1> QED
  BY <1>2, <1>3 DEF BackInv

\* No interleaving of the requests of the two modules confirms an event, computes
\* a notice deadline or submits a claim that a person's word does not back.
THEOREM Backing == ClaimsSpec => []Backed
<1>1. ClaimType /\ BackInv /\ [ClaimsNext]_<<eventVars, claimVars>> => BackInv'
  BY SupportStep, WordStep, ClaimsSteps DEF BackInv, ClaimType
<1>2. BackInv => Backed
  BY DEF BackInv, WordInv, SupportInv, Supported, Backed
<1> QED
  BY <1>1, <1>2, ClaimTypeInit, ClaimTypeStep, BackInvInit, PTL DEF ClaimsSpec

-----------------------------------------------------------------------------
(***************************************************************************)
(* A claim whose requests came one at a time.  The request that holds it   *)
(* is the only one that does, so what it loaded is what is stored: an      *)
(* update finds a claim that was not submitted, a submission the amount it *)
(* approved, an answer leaves a settled status, a settlement finds none.   *)
(***************************************************************************)
Holds(t, c) == desk[t].claim = c

Alone(c) == \A s, t \in Threads : Holds(s, c) /\ Holds(t, c) => s = t

Fresh(t, c) ==
    /\ desk[t].pc = "updating" => ~claim[c].submitted
    /\ desk[t].pc \in {"submitting", "checked"} =>
          claim[c].amount = desk[t].amount /\ claim[c].settlement = "none"
    /\ desk[t].pc = "answering" /\ claim[c].settlement # "none" => desk[t].status = "none"

Stands(c) ==
    /\ claim[c].submitted => claim[c].amount = agreed[c]
    /\ claim[c].settlement # "none" => claim[c].status = claim[c].settlement

StandInv ==
    \A c \in ClaimIds \ crossed :
        Alone(c) /\ Stands(c) /\ \A t \in Threads : Holds(t, c) => Fresh(t, c)

LEMMA StandInvInit == ClaimsInit => StandInv
<1> SUFFICES ASSUME ClaimsInit PROVE StandInv
  OBVIOUS
<1>1. /\ \A t \in Threads : desk[t] = NoDesk
      /\ \A c \in ClaimIds : claim[c] = NoClaim
  BY DEF ClaimsInit
<1> QED
  BY <1>1, NoClaimTyped, NoDeskTyped DEF StandInv, Alone, Stands, Holds

\* Nothing is written and nobody takes up a claim.
LEMMA StandsIdle ==
  ASSUME ClaimType, StandInv, UNCHANGED <<claim, agreed, crossed>>,
         \A t \in Threads : \/ desk'[t] = desk[t]
                            \/ desk'[t] = NoDesk
                            \/ /\ desk'[t].claim = desk[t].claim
                               /\ desk[t].pc = "submitting" /\ desk'[t].pc = "checked"
                               /\ desk'[t].amount = desk[t].amount
  PROVE  StandInv'
<1> SUFFICES ASSUME NEW c \in ClaimIds \ crossed
             PROVE  /\ Alone(c)' /\ Stands(c)'
                    /\ \A t \in Threads : Holds(t, c)' => Fresh(t, c)'
  BY DEF StandInv
<1>1. Alone(c) /\ Stands(c) /\ \A t \in Threads : Holds(t, c) => Fresh(t, c)
  BY DEF StandInv
<1>2. \A t \in Threads : Holds(t, c)' => Holds(t, c) /\ desk'[t] # NoDesk
  BY NoDeskTyped DEF Holds
<1>3. Alone(c)'
  BY <1>1, <1>2 DEF Alone
<1>4. Stands(c)'
  BY <1>1 DEF Stands
<1>5. \A t \in Threads : Holds(t, c)' => Fresh(t, c)'
  BY <1>1, <1>2 DEF Fresh
<1> QED
  BY <1>3, <1>4, <1>5

LEMMA StandsLoad ==
  ASSUME ClaimType, StandInv, NEW t \in Threads, NEW c \in ClaimIds,
         NEW pc \in DeskPCs \ {"idle"}, NEW status \in ClaimStatuses, NEW amount \in Amounts,
         Load(t, c, pc, status, amount)
  PROVE  StandInv'
<1>0. OpenClaim(t, c, pc, status, amount)
  BY DEF Load
<1>1. /\ desk'[t].pc = pc /\ desk'[t].claim = c /\ desk'[t].amount = amount
      /\ desk'[t].status = IF status = claim[c].status THEN "none" ELSE status
      /\ \A s \in Threads : s # t => desk'[s] = desk[s]
      /\ crossed \subseteq crossed'
      /\ (\E s \in Threads : desk[s].claim = c) => c \in crossed'
      /\ UNCHANGED <<claim, agreed>>
  BY <1>0, OpenWrites
<1> SUFFICES ASSUME NEW d \in ClaimIds \ crossed'
             PROVE  /\ Alone(d)' /\ Stands(d)'
                    /\ \A s \in Threads : Holds(s, d)' => Fresh(s, d)'
  BY DEF StandInv
<1>2. Alone(d) /\ Stands(d) /\ \A s \in Threads : Holds(s, d) => Fresh(s, d)
  BY <1>1 DEF StandInv
<1>3. Stands(d)'
  BY <1>1, <1>2 DEF Stands
<1>4. CASE d # c
  <2>1. \A s \in Threads : Holds(s, d)' => Holds(s, d) /\ s # t
    BY <1>1, <1>4 DEF Holds
  <2> QED
    BY <1>1, <1>2, <1>3, <2>1 DEF Alone, Fresh
<1>5. CASE d = c
  <2>1. \A s \in Threads : Holds(s, d)' => s = t
    BY <1>1, <1>5 DEF Holds
  <2>2. RowOK(claim[c])
    BY DEF ClaimType
  <2>3. claim[c].settlement # "none" => claim[c].status \in Terminal
    <3>1. claim[c].settlement \in Terminal \cup {"none"}
      BY DEF ClaimType, ClaimsTypeOK, ClaimRow
    <3> QED
      BY <1>2, <1>5, <3>1 DEF Stands
  <2>4. Fresh(t, c)'
    BY <1>1, <2>2, <2>3 DEF Fresh, Load, RowOK
  <2> QED
    BY <1>3, <1>5, <2>1, <2>4 DEF Alone
<1> QED
  BY <1>4, <1>5

LEMMA StandsCommit ==
  ASSUME ClaimType, StandInv, NEW t \in Threads, Commit(t)
  PROVE  StandInv'
<1>1. PICK c \in ClaimIds :
        /\ c = desk[t].claim
        /\ \A d \in ClaimIds : d # c => claim'[d] = claim[d] /\ agreed'[d] = agreed[d]
        /\ desk' = [desk EXCEPT ![t] = NoDesk] /\ UNCHANGED crossed
        /\ UpdateCommit(t) =>
             /\ claim'[c].submitted = claim[c].submitted
             /\ claim'[c].status = claim[c].status /\ claim'[c].settlement = claim[c].settlement
             /\ UNCHANGED agreed
        /\ SubmitCommit(t) =>
             /\ claim'[c].amount = claim[c].amount /\ agreed'[c] = desk[t].amount
             /\ claim'[c].settlement = claim[c].settlement
        /\ AnswerCommit(t) =>
             /\ claim'[c].amount = claim[c].amount /\ claim'[c].submitted = claim[c].submitted
             /\ claim'[c].settlement = claim[c].settlement /\ UNCHANGED agreed
             /\ desk[t].status = "none" => claim'[c].status = claim[c].status
        /\ SettleCommit(t) =>
             /\ claim'[c].amount = claim[c].amount /\ claim'[c].submitted = claim[c].submitted
             /\ UNCHANGED agreed
             /\ \/ claim[c].settlement # "none" /\ claim'[c] = claim[c]
                \/ claim[c].settlement = "none" /\ claim'[c].status = claim'[c].settlement
  BY CommitWrites
<1>2. desk'[t] = NoDesk /\ \A s \in Threads : s # t => desk'[s] = desk[s]
  BY <1>1 DEF ClaimType, ClaimsTypeOK
<1> SUFFICES ASSUME NEW d \in ClaimIds \ crossed
             PROVE  /\ Alone(d)' /\ Stands(d)'
                    /\ \A s \in Threads : Holds(s, d)' => Fresh(s, d)'
  BY <1>1 DEF StandInv
<1>3. Alone(d) /\ Stands(d) /\ \A s \in Threads : Holds(s, d) => Fresh(s, d)
  BY DEF StandInv
<1>4. \A s \in Threads : Holds(s, d)' => Holds(s, d) /\ s # t
  BY <1>2, NoDeskTyped DEF Holds
<1>5. Alone(d)'
  BY <1>3, <1>4 DEF Alone
<1>6. CASE d # c
  <2>1. Stands(d)'
    BY <1>1, <1>3, <1>6 DEF Stands
  <2>2. \A s \in Threads : Holds(s, d)' => Fresh(s, d)'
    BY <1>1, <1>2, <1>3, <1>4, <1>6 DEF Fresh
  <2> QED
    BY <1>5, <2>1, <2>2
<1>7. CASE d = c
  <2>1. \A s \in Threads : ~Holds(s, d)'
    BY <1>1, <1>3, <1>4, <1>7 DEF Alone, Holds
  <2>2. Fresh(t, c)
    BY <1>1, <1>3, <1>7 DEF Holds
  <2>a. /\ UpdateCommit(t) => desk[t].pc = "updating"
        /\ SubmitCommit(t) => desk[t].pc = "checked"
        /\ AnswerCommit(t) => desk[t].pc = "answering"
    BY DEF UpdateCommit, SubmitCommit, AnswerCommit
  <2>b. Stands(c)
    BY <1>3, <1>7
  <2>3. ASSUME UpdateCommit(t) PROVE Stands(c)'
    BY <1>1, <2>a, <2>b, <2>2, <2>3 DEF Stands, Fresh
  <2>4. ASSUME SubmitCommit(t) PROVE Stands(c)'
    BY <1>1, <2>a, <2>b, <2>2, <2>4 DEF Stands, Fresh
  <2>5. ASSUME AnswerCommit(t) PROVE Stands(c)'
    BY <1>1, <2>a, <2>b, <2>2, <2>5 DEF Stands, Fresh
  <2>6. ASSUME SettleCommit(t) PROVE Stands(c)'
    BY <1>1, <2>b, <2>6 DEF Stands
  <2>7. Stands(d)'
    BY <1>7, <2>3, <2>4, <2>5, <2>6 DEF Commit
  <2> QED
    BY <1>5, <2>1, <2>7
<1> QED
  BY <1>6, <1>7

LEMMA StandsNew ==
  ASSUME ClaimType, StandInv, NewClaim
  PROVE  StandInv'
<1>1. PICK c \in ClaimIds :
           /\ \A d \in ClaimIds : d # c => claim'[d] = claim[d]
           /\ ~claim'[c].submitted /\ claim'[c].settlement = "none"
           /\ \A t \in Threads : desk[t].claim # c
           /\ UNCHANGED <<desk, agreed, crossed>>
  BY NewClaimWrites
<1> SUFFICES ASSUME NEW d \in ClaimIds \ crossed
             PROVE  /\ Alone(d)' /\ Stands(d)'
                    /\ \A s \in Threads : Holds(s, d)' => Fresh(s, d)'
  BY <1>1 DEF StandInv
<1>2. Alone(d) /\ Stands(d) /\ \A s \in Threads : Holds(s, d) => Fresh(s, d)
  BY DEF StandInv
<1>3. Alone(d)'
  BY <1>1, <1>2 DEF Alone, Holds
<1>4. Stands(d)'
  BY <1>1, <1>2 DEF Stands
<1>5. \A s \in Threads : Holds(s, d)' => Fresh(s, d)'
  BY <1>1, <1>2 DEF Holds, Fresh
<1> QED
  BY <1>3, <1>4, <1>5

LEMMA StandInvStep ==
  ClaimType /\ StandInv /\ [ClaimsNext]_<<eventVars, claimVars>> => StandInv'
<1> SUFFICES ASSUME ClaimType, StandInv, [ClaimsNext]_<<eventVars, claimVars>> PROVE StandInv'
  OBVIOUS
<1>1. CASE UNCHANGED claimVars
  BY <1>1, StandsIdle DEF claimVars
<1>2. CASE CrashBoth
  BY <1>2, StandsIdle DEF CrashBoth
<1>3. ASSUME NEW t \in Threads, SubmitCheck(t) PROVE StandInv'
  BY <1>3, CheckWrites, StandsIdle
<1> QED
  BY <1>1, <1>2, <1>3, ClaimSteps, StandsLoad, StandsCommit, StandsNew

\* A claim whose requests never overlapped claims what was approved, and a
\* settlement is the last word on its status.
THEOREM Standing == ClaimsSpec => []ClaimStands
<1>1. StandInv => ClaimStands
  BY DEF StandInv, Stands, ClaimStands
<1> QED
  BY <1>1, ClaimTypeInit, ClaimTypeStep, StandInvInit, StandInvStep, PTL DEF ClaimsSpec
=============================================================================
