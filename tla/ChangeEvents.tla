---------------------------- MODULE ChangeEvents ----------------------------
(***************************************************************************)
(* The change events of one opportunity (change/service.py).  A signal (an *)
(* inbound e-mail, or the same text sent to the API) attaches to the event *)
(* a copy of it made in the past day, or makes an event of its own; people *)
(* add events, triage them, confirm or dismiss the change and have the     *)
(* notice deadline computed.  Two events that are neither rejected nor     *)
(* closed are free, more need a paid project.  A request loads a row and   *)
(* commits what it decided; nothing is locked, and a status that does not  *)
(* differ from the one loaded is not written.                              *)
(***************************************************************************)
EXTENDS Naturals, FiniteSets

CONSTANTS
    Threads,      \* requests served at one time
    Events,       \* bound: change_events rows
    Signals,      \* texts, by the hash of kind, quote and message id
    FreeEvents,   \* open events an unpaid project may have (2 in the code)
    MaxBaselines, \* bound: sealed baselines
    None

ASSUME ThreadsAssumption == IsFiniteSet(Threads)
ASSUME EventsAssumption == IsFiniteSet(Events) /\ FreeEvents \in Nat \ {0}
ASSUME BaselinesAssumption == MaxBaselines \in Nat
ASSUME NoneAssumption == None \notin Events \cup Signals

VARIABLES
    event,     \* change_events and change_confirmations
    last,      \* change_sources: the event of each signal's last source of
               \* the past 24 hours
    inbound,   \* change_inbound_emails: the signals that came by e-mail
    baseline,  \* the latest sealed baseline (0: none)
    paid,      \* the project is active
    job        \* what each thread is doing and has read

eventVars == <<event, last, inbound, baseline, paid, job>>

Open == {"candidate", "triaged", "confirmed"}
\* shut: rejected or closed, which nothing tells apart
Statuses == Open \cup {"none", "shut"}
Outcomes == {"changed", "dismissed", "unclear"}
PCs == {"idle", "received", "unmatched", "granted", "attaching", "deciding", "computing"}

\* changed: there is a confirmation row that says so; deadline: it has one
NoEvent == [status |-> "none", baseline |-> 0, changed |-> FALSE, deadline |-> FALSE]

\* mail: the signal is an e-mail; status: what to write ("none": what was loaded)
Idle == [pc |-> "idle", signal |-> None, mail |-> FALSE, event |-> None,
         status |-> "none", changed |-> FALSE, baseline |-> 0]

Goto(t, pc) == job' = [job EXCEPT ![t] = [@ EXCEPT !.pc = pc]]
Finish(t) == job' = [job EXCEPT ![t] = Idle]
Active == {e \in Events : event[e].status \in Open}

(***************************************************************************)
(* process_inbound_email, ingest_signal and create_manual_event.           *)
(***************************************************************************)
Receive(t, s, mail) ==
    /\ job[t].pc = "idle"
    /\ mail => s \notin inbound
    /\ baseline > 0
    /\ job' = [job EXCEPT ![t] = [Idle EXCEPT !.pc = "received", !.signal = s,
                                              !.mail = mail, !.baseline = baseline]]
    /\ UNCHANGED <<event, last, inbound, baseline, paid>>

\* _find_recent_duplicate
Match(t) ==
    LET found == last[job[t].signal]
    IN  /\ job[t].pc = "received"
        /\ job' = [job EXCEPT ![t] =
                     [@ EXCEPT !.pc = IF found = None THEN "unmatched" ELSE "attaching",
                               !.event = found]]
        /\ UNCHANGED <<event, last, inbound, baseline, paid>>

CreateManual(t) ==
    /\ job[t].pc = "idle"
    /\ baseline > 0
    /\ job' = [job EXCEPT ![t] = [Idle EXCEPT !.pc = "unmatched", !.baseline = baseline]]
    /\ UNCHANGED <<event, last, inbound, baseline, paid>>

\* (mutant) confirmed events do not count
SlotFreeUnconfirmed ==
    paid \/ Cardinality({e \in Active : event[e].status # "confirmed"}) < FreeEvents

\* _require_project_slot; a refusal rolls the e-mail back
SlotFree == paid \/ Cardinality(Active) < FreeEvents

RequireSlot(t) ==
    /\ job[t].pc = "unmatched"
    /\ IF SlotFree THEN Goto(t, "granted") ELSE Finish(t)
    /\ UNCHANGED <<event, last, inbound, baseline, paid>>

\* uq: of two commits of one e-mail the second rolls back
Taken(t) == job[t].mail /\ job[t].signal \in inbound

\* What the commit of a signal's source leaves, with the e-mail's own row
AddSource(t, e) ==
    /\ last' = [s \in Signals |-> IF s = job[t].signal THEN e ELSE last[s]]
    /\ inbound' = inbound \cup (IF job[t].mail THEN {job[t].signal} ELSE {})

CreateCommit(t, e) ==
    /\ job[t].pc = "granted"
    /\ ~Taken(t)
    /\ event[e].status = "none"
    /\ event' = [event EXCEPT ![e] =
                    [NoEvent EXCEPT !.status = "candidate", !.baseline = job[t].baseline]]
    /\ AddSource(t, e)
    /\ Finish(t)
    /\ UNCHANGED <<baseline, paid>>

AttachCommit(t) ==
    /\ job[t].pc = "attaching"
    /\ ~Taken(t)
    /\ AddSource(t, job[t].event)
    /\ Finish(t)
    /\ UNCHANGED <<event, baseline, paid>>

MailRollBack(t) ==
    /\ job[t].pc \in {"granted", "attaching"}
    /\ Taken(t)
    /\ Finish(t)
    /\ UNCHANGED <<event, last, inbound, baseline, paid>>

(***************************************************************************)
(* triage_event and record_confirmation.                                   *)
(***************************************************************************)
Decide(t, e, new, changed) ==
    /\ job[t].pc = "idle"
    /\ job' = [job EXCEPT ![t] =
                 [Idle EXCEPT !.pc = "deciding", !.event = e, !.changed = changed,
                              !.status = IF new = event[e].status THEN "none" ELSE new]]
    /\ UNCHANGED <<event, last, inbound, baseline, paid>>

Triage(t, e, decision) ==
    /\ \/ event[e].status = "candidate" /\ decision \in {"triaged", "shut"}
       \/ event[e].status = "triaged" /\ decision = "shut"
    /\ Decide(t, e, decision, FALSE)

\* not_changed, contractor_risk and client_risk dismiss; clarification_only and
\* unknown leave it unclear
StatusAfter(outcome) ==
    CASE outcome = "changed" -> "confirmed"
      [] outcome = "dismissed" -> "shut"
      [] outcome = "unclear" -> "triaged"

Confirm(t, e, outcome) ==
    /\ event[e].status \in Open
    /\ Decide(t, e, StatusAfter(outcome), outcome = "changed")

Decided(row, j) == [row EXCEPT !.status = IF j.status = "none" THEN @ ELSE j.status,
                               !.changed = @ \/ j.changed]

DecideCommit(t) ==
    /\ job[t].pc = "deciding"
    /\ event' = [event EXCEPT ![job[t].event] = Decided(@, job[t])]
    /\ Finish(t)
    /\ UNCHANGED <<last, inbound, baseline, paid>>

(***************************************************************************)
(* compute_notice_deadline, from the register of the latest baseline.      *)
(***************************************************************************)
DeadlineDue(e) == event[e].status = "confirmed"

DeadlineLoad(t, e) ==
    /\ job[t].pc = "idle"
    /\ DeadlineDue(e)
    /\ job' = [job EXCEPT ![t] = [Idle EXCEPT !.pc = "computing", !.event = e]]
    /\ UNCHANGED <<event, last, inbound, baseline, paid>>

\* found: the register has a rule for the notice, so the date is known
DeadlineCommit(t, found) ==
    /\ job[t].pc = "computing"
    /\ event' = [event EXCEPT ![job[t].event] = [@ EXCEPT !.deadline = found]]
    /\ Finish(t)
    /\ UNCHANGED <<last, inbound, baseline, paid>>

(***************************************************************************)
(* Time, the other modules and the process.                                *)
(***************************************************************************)
\* 24 hours after the signal's last source
SourceAges(s) ==
    /\ last[s] # None
    /\ last' = [last EXCEPT ![s] = None]
    /\ UNCHANGED <<event, inbound, baseline, paid, job>>

BaselineSealed ==
    /\ baseline < MaxBaselines
    /\ baseline' = baseline + 1
    /\ UNCHANGED <<event, last, inbound, paid, job>>

ProjectPaid ==
    /\ ~paid
    /\ paid' = TRUE
    /\ UNCHANGED <<event, last, inbound, baseline, job>>

Crash ==
    /\ \E t \in Threads : job[t].pc # "idle"
    /\ job' = [t \in Threads |-> Idle]
    /\ UNCHANGED <<event, last, inbound, baseline, paid>>

Init ==
    /\ event = [e \in Events |-> NoEvent]
    /\ last = [s \in Signals |-> None]
    /\ inbound = {}
    /\ baseline = 0
    /\ paid = FALSE
    /\ job = [t \in Threads |-> Idle]

Request(t) ==
    \/ \E s \in Signals, mail \in BOOLEAN : Receive(t, s, mail)
    \/ Match(t) \/ CreateManual(t) \/ RequireSlot(t)
    \/ AttachCommit(t) \/ MailRollBack(t)
    \/ \E e \in Events :
        \/ \E decision \in {"triaged", "shut"} : Triage(t, e, decision)
        \/ \E outcome \in Outcomes : Confirm(t, e, outcome)
        \/ CreateCommit(t, e)
        \/ DeadlineLoad(t, e)
    \/ DecideCommit(t)
    \/ \E found \in BOOLEAN : DeadlineCommit(t, found)

Surroundings ==
    \/ \E s \in Signals : SourceAges(s)
    \/ BaselineSealed
    \/ ProjectPaid

Next == (\E t \in Threads : Request(t)) \/ Surroundings \/ Crash

Spec == Init /\ [][Next]_eventVars

-----------------------------------------------------------------------------
(***************************************************************************)
(* Safety.                                                                 *)
(***************************************************************************)
EventRow == [status : Statuses, baseline : Nat, changed : BOOLEAN, deadline : BOOLEAN]
Job == [pc : PCs, signal : Signals \cup {None}, mail : BOOLEAN, event : Events \cup {None},
        status : Statuses, changed : BOOLEAN, baseline : Nat]

TypeOK ==
    /\ event \in [Events -> EventRow]
    /\ last \in [Signals -> Events \cup {None}]
    /\ inbound \subseteq Signals
    /\ baseline \in Nat
    /\ paid \in BOOLEAN
    /\ job \in [Threads -> Job]

Granted == {t \in Threads : job[t].pc = "granted"}
Reopening == {e \in Events : \E t \in Threads :
                 job[t].pc = "deciding" /\ job[t].event = e /\ job[t].status \in Open}

\* The open events of an unpaid project, with those on the way to being open,
\* never exceed the free ones by more than one for each other request that can
\* be between its check and its commit - although a stale triage or confirmation
\* opens a shut event again without a check.  _require_project_slot.
SlotsBounded ==
    ~paid => Cardinality(Active \cup Reopening) + Cardinality(Granted)
               <= FreeEvents + (Cardinality(Threads) - 1)

\* An event is confirmed, and has a notice deadline, only if a person recorded
\* that the change is one: no interleaving of triage, confirmations and the
\* computation gets there otherwise.  record_confirmation, compute_notice_deadline.
ConfirmedByPerson ==
    \A e \in Events : event[e].status = "confirmed" \/ event[e].deadline
                        => event[e].changed
=============================================================================
