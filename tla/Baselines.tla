------------------------------ MODULE Baselines ------------------------------
(***************************************************************************)
(* The sealed baselines of one opportunity (baseline: freeze,              *)
(* seed_watchlist, update_watchlist, upsert_cost_codes).  A freeze passes  *)
(* the review gate, reads what it seals in queries of its own, inserts the *)
(* next version, audits it, seeds watchlist controls and locks the cost    *)
(* codes: four commits, any of which may be the last.  Cost codes are      *)
(* edited by whole-table upserts beside it.  Nothing is locked.            *)
(***************************************************************************)
EXTENDS Naturals, Sequences, FiniteSets

CONSTANTS
    Threads,     \* requests served at one time
    Findings,    \* findings of the opportunity
    High,        \* those of severity critical or high
    Codes,       \* bound: bl_cost_codes rows ever created
    Labels,      \* what a cost code may say
    MaxVersions, \* bound: baselines
    MaxClosings, \* bound: times a control is closed or reopened
    None         \* no label

ASSUME ThreadsAssumption == IsFiniteSet(Threads)
ASSUME FindingsAssumption == High \subseteq Findings
ASSUME LabelsAssumption == None \notin Labels
ASSUME BoundsAssumption == MaxVersions \in Nat /\ MaxClosings \in Nat

VARIABLES
    review,     \* the review status of each finding
    code,       \* bl_cost_codes: label (None: deleted or not created) and locked_at
    spent,      \* row ids of cost codes that have been given out
    sealed,     \* baselines, by version
    active,     \* bl_watchlist_controls with status "active", per obligation
    closed,     \* and with status "closed"
    job,        \* what each thread is doing and has read
    reopened,   \* history: times a control was reopened, per obligation
    closings,   \* history: times a control was closed or reopened
    inflight,   \* history: upserts in flight as the freeze that sealed a code completed
    late,       \* history: upserts that wrote the code after that
    slipped     \* history: codes written between the reading and the locking of a freeze

rows == <<review, code, spent, sealed, active, closed>>
writes == <<inflight, late, slipped>>
history == <<reopened, closings, inflight, late, slipped>>
vars == <<review, code, spent, sealed, active, closed, job, reopened, closings,
          inflight, late, slipped>>

Statuses == {"absent", "proposed", "accepted", "rejected"}
FreezePCs == {"gate_passed", "findings_read", "built", "inserted", "committed",
              "audited", "seeding", "seeded", "locking"}
PCs == FreezePCs \cup {"idle", "upserting"}

NoCodes == [c \in Codes |-> [label |-> None, locked |-> FALSE]]
Idle == [pc |-> "idle", findings |-> {}, codes |-> NoCodes, version |-> 0,
         edit |-> [c \in Codes |-> None]]

Goto(t, pc) == job' = [job EXCEPT ![t].pc = pc]
Finish(t) == job' = [job EXCEPT ![t] = Idle]
Existing(table) == {c \in Codes : table[c].label # None}
Complete == {v \in DOMAIN sealed : sealed[v].complete}
Frozen(c) == \E v \in Complete : sealed[v].codes[c] # None

\* A freeze that has read the cost codes and has yet to lock them
Sealing == FreezePCs \ {"gate_passed", "findings_read"}
Upserting == {t \in Threads : job[t].pc = "upserting"}

(***************************************************************************)
(* Reviewers and producers, between any two steps of a freeze.             *)
(***************************************************************************)
FindingChanges(f, status) ==
    /\ review[f] # status
    /\ review' = [review EXCEPT ![f] = status]
    /\ UNCHANGED <<code, spent, sealed, active, closed, job, history>>

(***************************************************************************)
(* freeze.                                                                 *)
(***************************************************************************)
\* _gate_ok: there are findings and none waits for a reviewer
FreezeGate(t) ==
    /\ job[t].pc = "idle"
    /\ Len(sealed) < MaxVersions
    /\ \E f \in Findings : review[f] # "absent"
    /\ \A f \in Findings : review[f] # "proposed"
    /\ Goto(t, "gate_passed")
    /\ UNCHANGED <<rows, history>>

\* _build_snapshot, query by query
FreezeFindings(t) ==
    /\ job[t].pc = "gate_passed"
    /\ job' = [job EXCEPT ![t].pc = "findings_read",
                          ![t].findings = {f \in Findings : review[f] = "accepted"}]
    /\ UNCHANGED <<rows, history>>

FreezeCodes(t) ==
    /\ job[t].pc = "findings_read"
    /\ job' = [job EXCEPT ![t].pc = "built", ![t].codes = code]
    /\ UNCHANGED <<rows, history>>

FreezeInsert(t) ==
    /\ job[t].pc = "built"
    /\ job' = [job EXCEPT ![t].pc = "inserted", ![t].version = Len(sealed) + 1]
    /\ UNCHANGED <<rows, history>>

\* uq_baselines_opportunity_version: of two inserts of a version one rolls back
FreezeCommit(t) ==
    /\ job[t].pc = "inserted"
    /\ IF job[t].version = Len(sealed) + 1
       THEN /\ sealed' = Append(sealed, [findings |-> job[t].findings,
                                         codes |-> [c \in Codes |-> job[t].codes[c].label],
                                         audited |-> FALSE, complete |-> FALSE])
            /\ job' = [job EXCEPT ![t].pc = "committed", ![t].codes = NoCodes]
       ELSE Finish(t) /\ UNCHANGED sealed
    /\ UNCHANGED <<review, code, spent, active, closed, history>>

FreezeAudit(t) ==
    /\ job[t].pc = "committed"
    /\ sealed' = [sealed EXCEPT ![job[t].version].audited = TRUE]
    /\ Goto(t, "audited")
    /\ UNCHANGED <<review, code, spent, active, closed, history>>

(***************************************************************************)
(* seed_watchlist: the obligations without an active control are read and  *)
(* each is given one in a single commit.                                   *)
(***************************************************************************)
\* (mutant) a baseline seeds what is new in it
SeedsNew(t) == {f \in job[t].findings \cap High :
                  \A v \in 1..(job[t].version - 1) : f \notin sealed[v].findings}

Seeds(t) == {f \in job[t].findings \cap High : active[f] = 0}

\* (mutant) the seal is not audited first
SeedReadUnaudited(t) ==
    /\ job[t].pc \in {"committed", "audited"}
    /\ job' = [job EXCEPT ![t].pc = "seeding", ![t].findings = Seeds(t)]
    /\ UNCHANGED <<rows, history>>

SeedRead(t) ==
    /\ job[t].pc = "audited"
    /\ job' = [job EXCEPT ![t].pc = "seeding", ![t].findings = Seeds(t)]
    /\ UNCHANGED <<rows, history>>

SeedCommit(t) ==
    /\ job[t].pc = "seeding"
    /\ active' = [f \in Findings |-> IF f \in job[t].findings THEN active[f] + 1 ELSE active[f]]
    /\ job' = [job EXCEPT ![t].pc = "seeded", ![t].findings = {}]
    /\ UNCHANGED <<review, code, spent, sealed, closed, history>>

(***************************************************************************)
(* _lock_cost_codes.  An update of a row that has gone fails the commit.   *)
(***************************************************************************)
LockRead(t) ==
    /\ job[t].pc = "seeded"
    /\ job' = [job EXCEPT ![t].pc = "locking", ![t].codes = code]
    /\ UNCHANGED <<rows, history>>

LockCommit(t) ==
    LET found == Existing(job[t].codes)
    IN  /\ job[t].pc = "locking"
        /\ IF found \subseteq Existing(code)
           THEN /\ code' = [c \in Codes |-> IF c \in found THEN [code[c] EXCEPT !.locked = TRUE]
                                            ELSE code[c]]
                /\ sealed' = [sealed EXCEPT ![job[t].version].complete = TRUE]
                /\ inflight' = [c \in Codes |->
                                   IF ~Frozen(c) /\ sealed[job[t].version].codes[c] # None
                                   THEN Cardinality(Upserting) ELSE inflight[c]]
           ELSE UNCHANGED <<code, sealed, inflight>>
        /\ Finish(t)
        /\ UNCHANGED <<review, spent, active, closed, reopened, closings, late, slipped>>

(***************************************************************************)
(* upsert_cost_codes: the request names a label for the rows it keeps      *)
(* (edit), and may bring a new one.                                        *)
(***************************************************************************)
\* (mutant) rows that are not listed go, locked or not
DeletedAnyway(t) == {c \in Existing(job[t].codes) : job[t].edit[c] = None}

Deleted(t) == {c \in Existing(job[t].codes) : job[t].edit[c] = None /\ ~job[t].codes[c].locked}

UpsertLoad(t, edit) ==
    /\ job[t].pc = "idle"
    /\ \A c \in Codes : edit[c] # None => code[c].label # None /\ ~code[c].locked
    /\ job' = [job EXCEPT ![t] = [Idle EXCEPT !.pc = "upserting", !.codes = code, !.edit = edit]]
    /\ UNCHANGED <<rows, history>>

\* Only a label that differs from the one read is written
Changed(t) == {c \in Codes : job[t].edit[c] \notin {None, job[t].codes[c].label}}

Written(t) == (Deleted(t) \cap Existing(code)) \cup Changed(t)

\* A row to delete that has gone already is none to delete; a row to update that
\* has gone fails the request.
UpsertCommit(t, new) ==
    /\ job[t].pc = "upserting"
    /\ new \subseteq Codes \ spent
    /\ Changed(t) \subseteq Existing(code)
    /\ \E label \in Labels :
        code' = [c \in Codes |->
                    IF c \in Deleted(t) THEN NoCodes[c]
                    ELSE IF c \in Changed(t) THEN [code[c] EXCEPT !.label = job[t].edit[c]]
                    ELSE IF c \in new THEN [label |-> label, locked |-> FALSE]
                    ELSE code[c]]
    /\ spent' = spent \cup new
    /\ late' = [c \in Codes |-> IF Frozen(c) /\ c \in Written(t) THEN late[c] + 1 ELSE late[c]]
    /\ slipped' = IF \E s \in Threads : job[s].pc \in Sealing
                  THEN slipped \cup Written(t) ELSE slipped
    /\ Finish(t)
    /\ UNCHANGED <<review, sealed, active, closed, reopened, closings, inflight>>

UpsertRollBack(t) ==
    /\ job[t].pc = "upserting"
    /\ ~(Changed(t) \subseteq Existing(code))
    /\ Finish(t)
    /\ UNCHANGED <<rows, history>>

(***************************************************************************)
(* update_watchlist, and the process.                                      *)
(***************************************************************************)
CloseControl(f) ==
    /\ active[f] > 0
    /\ closings < MaxClosings
    /\ active' = [active EXCEPT ![f] = @ - 1]
    /\ closed' = [closed EXCEPT ![f] = @ + 1]
    /\ closings' = closings + 1
    /\ UNCHANGED <<review, code, spent, sealed, job, reopened, writes>>

ReopenControl(f) ==
    /\ closed[f] > 0
    /\ closings < MaxClosings
    /\ active' = [active EXCEPT ![f] = @ + 1]
    /\ closed' = [closed EXCEPT ![f] = @ - 1]
    /\ reopened' = [reopened EXCEPT ![f] = @ + 1]
    /\ closings' = closings + 1
    /\ UNCHANGED <<review, code, spent, sealed, job, writes>>

Crash ==
    /\ \E t \in Threads : job[t].pc # "idle"
    /\ job' = [t \in Threads |-> Idle]
    /\ UNCHANGED <<rows, history>>

Init ==
    /\ review = [f \in Findings |-> "absent"]
    /\ code = NoCodes
    /\ spent = {}
    /\ sealed = << >>
    /\ active = [f \in Findings |-> 0]
    /\ closed = [f \in Findings |-> 0]
    /\ job = [t \in Threads |-> Idle]
    /\ reopened = [f \in Findings |-> 0]
    /\ closings = 0
    /\ inflight = [c \in Codes |-> 0]
    /\ late = [c \in Codes |-> 0]
    /\ slipped = {}

Next ==
    \/ \E f \in Findings :
        \/ \E status \in Statuses : FindingChanges(f, status)
        \/ CloseControl(f) \/ ReopenControl(f)
    \/ \E t \in Threads :
        \/ FreezeGate(t) \/ FreezeFindings(t) \/ FreezeCodes(t)
        \/ FreezeInsert(t) \/ FreezeCommit(t) \/ FreezeAudit(t)
        \/ SeedRead(t) \/ SeedCommit(t) \/ LockRead(t) \/ LockCommit(t)
        \/ \E edit \in [Codes -> Labels \cup {None}] : UpsertLoad(t, edit)
        \/ \E new \in SUBSET Codes : UpsertCommit(t, new)
        \/ UpsertRollBack(t)
    \/ Crash

Spec == Init /\ [][Next]_vars

-----------------------------------------------------------------------------
(***************************************************************************)
(* Safety.                                                                 *)
(***************************************************************************)
\* The types, and: a baseline is complete only once it has been audited.
TypeOK ==
    /\ review \in [Findings -> Statuses]
    /\ code \in [Codes -> [label : Labels \cup {None}, locked : BOOLEAN]]
    /\ spent \subseteq Codes
    /\ sealed \in Seq([findings : SUBSET Findings, codes : [Codes -> Labels \cup {None}],
                       audited : BOOLEAN, complete : BOOLEAN])
    /\ \A v \in DOMAIN sealed : sealed[v].complete => sealed[v].audited
    /\ active \in [Findings -> Nat]
    /\ closed \in [Findings -> Nat]
    /\ job \in [Threads -> [pc : PCs, findings : SUBSET Findings,
                            codes : [Codes -> [label : Labels \cup {None}, locked : BOOLEAN]],
                            version : Nat, edit : [Codes -> Labels \cup {None}]]]
    /\ reopened \in [Findings -> Nat]
    /\ closings \in Nat
    /\ inflight \in [Codes -> Nat]
    /\ late \in [Codes -> Nat]
    /\ slipped \subseteq Codes

\* Once the freeze that sealed a cost code has run to its end, the code is written
\* only by upserts that were in flight then, once by each; and it differs from the
\* seal only if one of them, or an upsert that came between the freeze's reading and
\* its locking, wrote it.  Crashed and concurrent freezes and any number of later
\* upserts change nothing of that.  _lock_cost_codes, upsert_cost_codes.
SealedCodesKept ==
    /\ \A c \in Codes : late[c] <= inflight[c]
    /\ \A v \in Complete, c \in Codes :
          sealed[v].codes[c] \notin {None, code[c].label} => late[c] > 0 \/ c \in slipped

\* Every critical or high finding of a baseline whose freeze ran to its end has
\* a control, and concurrent freezes and reopened controls are all that can
\* give an obligation more than one that is active.  seed_watchlist.
ControlsFollow ==
    /\ \A v \in Complete : \A f \in sealed[v].findings \cap High : active[f] + closed[f] > 0
    /\ \A f \in Findings : active[f] <= Cardinality(Threads) + reopened[f]
=============================================================================
