--------------------------- MODULE DeadlineAlerts ---------------------------
(***************************************************************************)
(* The daily deadline alerts (notifications/module.py).  Every server      *)
(* process runs the job 24 hours after it started and each day from then   *)
(* on.  With Redis the processes share a lock that expires after 23 hours; *)
(* without it nothing keeps them apart.  A run looks at the deadline,      *)
(* hands the sender one alert for each member who wants e-mail in each of  *)
(* the last stretches of days ("buckets"), and records it whatever the     *)
(* sender answered; a process may die at any step.  Where row level        *)
(* security applies, the first record's commit ends the transaction that   *)
(* was bound to the workspace, and the run is blind to the log from then.  *)
(***************************************************************************)
EXTENDS Integers, FiniteSets

CONSTANTS
    Processes,  \* server processes
    Members,    \* members of the workspace
    Buckets,    \* days before the deadline that start a stretch (7, 3, 1, 0)
    MaxDays,    \* bound: days before the deadline when the story starts
    MaxMishaps, \* bound: processes killed, and alerts the sender answers False to
    None

ASSUME SetsAssumption == IsFiniteSet(Processes) /\ Processes # {}
ASSUME BucketsAssumption == Buckets \subseteq Nat
ASSUME BoundsAssumption == MaxDays \in Nat /\ MaxMishaps \in Nat
ASSUME NoneAssumption == None \notin Processes \cup Members \cup Buckets

VARIABLES
    days,     \* whole days left (-1: the deadline is past)
    deadline, \* "none", then "open" until somebody has confirmed it
    wants,    \* notification_preferences.email_deadlines
    log,      \* deadline_alert_log
    redis,    \* a redis_url is configured
    rls,      \* the database role is subject to row level security
    lock,     \* the process whose run took tendershield:deadline_alert_lock
    aged,     \* the lock was taken the day before
    proc,     \* the job of each process
              \* history, of runs that see the log:
    copies,   \* alerts handed to the sender
    told,     \* members the sender answered True for
    failed,   \* alerts it answered False to
    crashes   \* history: processes that died

deployment == <<redis, rls>>
history == <<copies, told, failed, crashes>>
vars == <<days, deadline, wants, log, lock, aged, proc, deployment, history>>

\* fresh: started today; waiting: today's run is to come; done: it is over
Running == {"scanning", "alerting", "sent"}
PCs == Running \cup {"fresh", "waiting", "done"}

Process(pc) == [pc |-> pc, todo |-> {}, member |-> None, blind |-> FALSE]

\* _alert_day
BucketOn(day) ==
    LET candidates == {b \in Buckets : day <= b}
    IN  IF day < 0 \/ candidates = {} THEN None
        ELSE CHOOSE b \in candidates : \A a \in candidates : b <= a

\* (mutant) the day of the deadline is left out
BucketBefore == IF days = 0 THEN None ELSE BucketOn(days)

Bucket == BucketOn(days)

\* The end of a run, which releases the lock
Finish(p) ==
    /\ proc' = [proc EXCEPT ![p] = Process("done")]
    /\ lock' = IF redis THEN None ELSE lock
    /\ aged' = FALSE

(***************************************************************************)
(* _deadline_alert_tick                                                    *)
(***************************************************************************)
\* (mutant) the lock is not looked at
MayRunAnyway(p) == TRUE

\* lock.acquire gives up after 5 seconds
MayRun(p) == redis => lock = None

TickStart(p) ==
    /\ proc[p].pc = "waiting"
    /\ IF MayRun(p)
       THEN /\ proc' = [proc EXCEPT ![p] = Process("scanning")]
            /\ lock' = IF redis THEN p ELSE lock
            /\ aged' = FALSE
       ELSE /\ proc' = [proc EXCEPT ![p] = Process("done")]
            /\ UNCHANGED <<lock, aged>>
    /\ UNCHANGED <<days, deadline, wants, log, deployment, history>>

\* The deadline is worth an alert when the run comes to it
Scan(p) ==
    /\ proc[p].pc = "scanning"
    /\ IF deadline = "open" /\ Bucket # None
       THEN /\ proc' = [proc EXCEPT ![p] = [@ EXCEPT !.pc = "alerting", !.todo = Members]]
            /\ UNCHANGED <<lock, aged>>
       ELSE Finish(p)
    /\ UNCHANGED <<days, deadline, wants, log, deployment, history>>

\* There may be one mishap more
MayFail == crashes + Cardinality(failed) < MaxMishaps

\* (mutant) what was sent is not looked up
DueAgain(p, m) == wants[m]

\* _preference and _already_sent: a blind run finds no row
Due(p, m) == wants[m] /\ (<<m, Bucket>> \in log => proc[p].blind)

Skip(p, m) ==
    /\ proc[p].pc = "alerting"
    /\ m \in proc[p].todo
    /\ ~Due(p, m)
    /\ proc' = [proc EXCEPT ![p].todo = @ \ {m}]
    /\ UNCHANGED <<days, deadline, wants, log, lock, aged, deployment, history>>

\* sender.send, whose answer nobody looks at
Send(p, m, ok) ==
    /\ proc[p].pc = "alerting"
    /\ m \in proc[p].todo
    /\ Due(p, m)
    /\ proc' = [proc EXCEPT ![p] = [@ EXCEPT !.pc = "sent", !.member = m]]
    /\ IF proc[p].blind
       THEN UNCHANGED <<copies, told, failed>>
       ELSE /\ ok \/ MayFail
            /\ copies' = [copies EXCEPT ![m][Bucket] = @ + 1]
            /\ told' = IF ok THEN told \cup {m} ELSE told
            /\ failed' = IF ok THEN failed ELSE failed \cup {<<m, Bucket>>}
    /\ UNCHANGED <<days, deadline, wants, log, lock, aged, deployment, crashes>>

\* _record_sent; a second row for the bucket violates the unique key, a row of a
\* blind run the policy, and the exception ends the run
Record(p) ==
    LET row == <<proc[p].member, Bucket>>
    IN  /\ proc[p].pc = "sent"
        /\ IF row \in log \/ proc[p].blind
           THEN Finish(p) /\ UNCHANGED log
           ELSE /\ log' = log \cup {row}
                /\ proc' = [proc EXCEPT ![p] =
                       [@ EXCEPT !.pc = "alerting", !.member = None,
                                 !.todo = proc[p].todo \ {proc[p].member}, !.blind = rls]]
                /\ UNCHANGED <<lock, aged>>
        /\ UNCHANGED <<days, deadline, wants, deployment, history>>

TickEnd(p) ==
    /\ proc[p].pc = "alerting"
    /\ proc[p].todo = {}
    /\ Finish(p)
    /\ UNCHANGED <<days, deadline, wants, log, deployment, history>>

(***************************************************************************)
(* Processes die and start again with a job that is due a day later; what  *)
(* one that ran held stays locked for 23 hours, some time on the next day  *)
(* at the latest.                                                          *)
(***************************************************************************)
Crash(p) ==
    /\ MayFail
    /\ crashes' = crashes + 1
    /\ proc' = [proc EXCEPT ![p] = Process("fresh")]
    /\ UNCHANGED <<days, deadline, wants, log, lock, aged, deployment,
                   copies, told, failed>>

LockExpires ==
    /\ lock # None
    /\ proc[lock].pc \notin Running
    /\ lock' = None
    /\ aged' = FALSE
    /\ UNCHANGED <<days, deadline, wants, log, proc, deployment, history>>

(***************************************************************************)
(* A day passes.  A job runs on its day and is over before the next.       *)
(***************************************************************************)
DayPasses ==
    /\ days >= 0
    /\ \A p \in Processes : proc[p].pc \in {"fresh", "done"}
    /\ ~aged
    /\ days' = days - 1
    /\ proc' = [p \in Processes |-> Process("waiting")]
    /\ aged' = (lock # None)
    /\ UNCHANGED <<deadline, wants, log, lock, deployment, history>>

(***************************************************************************)
(* Other requests: a document with the deadline, its confirmation, and a   *)
(* member who turns the e-mails off or on.                                 *)
(***************************************************************************)
Extract ==
    /\ deadline = "none"
    /\ deadline' = "open"
    /\ UNCHANGED <<days, wants, log, lock, aged, proc, deployment, history>>

ConfirmDeadline ==
    /\ deadline = "open"
    /\ deadline' = "confirmed"
    /\ UNCHANGED <<days, wants, log, lock, aged, proc, deployment, history>>

SetPreference(m) ==
    /\ wants' = [wants EXCEPT ![m] = ~@]
    /\ UNCHANGED <<days, deadline, log, lock, aged, proc, deployment, history>>

Init ==
    /\ days = MaxDays
    /\ deadline = "none"
    /\ wants = [m \in Members |-> TRUE]
    /\ log = {}
    /\ redis \in BOOLEAN /\ rls \in BOOLEAN
    /\ lock = None
    /\ aged = FALSE
    /\ proc = [p \in Processes |-> Process("fresh")]
    /\ copies = [m \in Members |-> [b \in Buckets |-> 0]]
    /\ told = {} /\ failed = {}
    /\ crashes = 0

Tick(p) ==
    \/ TickStart(p) \/ Scan(p) \/ Record(p) \/ TickEnd(p)
    \/ \E m \in Members : Skip(p, m) \/ \E ok \in BOOLEAN : Send(p, m, ok)

Next ==
    \/ \E p \in Processes : Tick(p) \/ Crash(p)
    \/ LockExpires
    \/ DayPasses
    \/ Extract \/ ConfirmDeadline
    \/ \E m \in Members : SetPreference(m)

Spec == Init /\ [][Next]_vars

\* A process that lives goes on, and so does time; nobody has to do anything.
FairSpec ==
    /\ Spec
    /\ \A p \in Processes : WF_vars(Tick(p))
    /\ WF_vars(LockExpires)
    /\ WF_vars(DayPasses)

-----------------------------------------------------------------------------
(***************************************************************************)
(* What the alerts promise.                                                *)
(***************************************************************************)
\* With Redis, whoever runs holds the lock.
TypeOK ==
    /\ days \in -1..MaxDays
    /\ deadline \in {"none", "open", "confirmed"}
    /\ wants \in [Members -> BOOLEAN]
    /\ log \subseteq Members \X Buckets
    /\ redis \in BOOLEAN /\ rls \in BOOLEAN
    /\ lock \in Processes \cup {None}
    /\ aged \in BOOLEAN
    /\ proc \in [Processes -> [pc : PCs, todo : SUBSET Members, member : Members \cup {None},
                               blind : BOOLEAN]]
    /\ copies \in [Members -> [Buckets -> Nat]]
    /\ told \subseteq Members
    /\ failed \subseteq Members \X Buckets
    /\ crashes \in Nat
    /\ \A p \in Processes : redis /\ proc[p].pc \in Running => lock = p

\* B2, B8: from the runs that see the log, the sender gets one alert for a member
\* and a bucket, and one more only for a process that died between sending and
\* recording it - or, without the lock, for each other process that can be there.
\* What is recorded was handed over, whatever the sender answered.
CopiesBounded ==
    /\ \A m \in Members, b \in Buckets :
        /\ copies[m][b] <= 1 + crashes + (IF redis THEN 0 ELSE Cardinality(Processes) - 1)
        /\ <<m, b>> \in log => copies[m][b] > 0

Week == CHOOSE b \in Buckets : \A a \in Buckets : a <= b

\* The days whose runs could still tell a member, after the first: a send that fails
\* is recorded, and its stretch lost.
Chances(m) == {d \in 0..Week - 1 : <<m, BucketOn(d)>> \notin failed}

\* The stretches back each other up.  Of a deadline known when its first stretch
\* begins, each member who goes on wanting e-mails is told before it is over, unless
\* failed sends and dead processes can have cost every day: a process that dies takes
\* the lock with it and can keep the others from their runs that day and the next.
\* A run that meets another's record gives up, and yet nobody is forgotten.  (Not
\* where row level security applies: there a run reaches two members and ends.)
AlertedInTime ==
    \A m \in Members :
        (~rls /\ deadline = "open" /\ days >= Week /\ wants[m])
            ~> \/ m \in told \/ deadline = "confirmed" \/ ~wants[m]
               \/ Cardinality(Chances(m)) <= 2 * crashes
=============================================================================
