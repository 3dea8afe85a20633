----------------------------- MODULE ReviewGate -----------------------------
(***************************************************************************)
(* The findings of one opportunity from the engine that proposes them to   *)
(* the pack that leaves the system: FindingStore.replace_for_producer and  *)
(* set_review, ReviewService.review_finding and gate, and                  *)
(* ExportService.export.                                                   *)
(*                                                                         *)
(* Each endpoint runs in a server thread with a database session of its    *)
(* own.  A transaction is atomic, but a handler runs several: a step of    *)
(* the model is one query or one commit, and other threads' commits fall   *)
(* in between.  Notes and reasons travel with reviewed_by and are left     *)
(* out, and so are the stamp, the title and the artifacts of a pack, which *)
(* are read-only, and its audit row, which nothing reads.                  *)
(***************************************************************************)
EXTENDS Integers, FiniteSets

CONSTANTS
    Threads,
    Producers,
    SkipsEmptyRuns, \* the producers that do not call the store with no findings
    Reviewers,
    NoReviewer,     \* reviewed_by of a row nobody reviewed
    Decisions,      \* the decisions reviewers use
    BatchSizes,     \* how many findings a run may propose
    MaxRuns,        \* bound: runs of all producers together
    MaxDecisions,   \* bound: a review starts only below this many decisions
    MaxPacks        \* bound: an export starts only below this many packs

ASSUME ReviewAssumption ==
    /\ SkipsEmptyRuns \subseteq Producers
    /\ NoReviewer \notin Reviewers
    /\ Decisions \subseteq
         {"accepted", "edited", "rejected", "false_positive", "needs_clarification"}
    /\ BatchSizes \subseteq Nat
    /\ MaxRuns \in Nat

VARIABLES
    findings,   \* the findings rows: id |-> [status, by]
    audit,      \* finding.* rows of audit_log
    packs,      \* observation: the packs sent to a client
    runs,       \* observation: number of runs started
    overlaps,   \* observation: pairs of runs that were under way together
    decided,    \* observation: the decisions set_review committed
    pc,         \* what each thread is about to do
    decision,   \* the review a thread is recording
    loaded,     \* the row as that review loaded it
    run,        \* the run a thread is storing
    doomed,     \* the rows its DELETE has matched
    pack        \* the pack a thread is building

tables == <<findings, audit>>
observed == <<packs, runs, overlaps, decided>>
locals == <<decision, loaded, run, doomed, pack>>
vars == <<findings, audit, packs, runs, overlaps, decided,
          pc, decision, loaded, run, doomed, pack>>

\* the k-th finding of run n, which is of one producer: a new row each time
Ids == Producers \X Nat \X Nat

Statuses == {"proposed"} \cup Decisions

Row == [status : Statuses, by : Reviewers \cup {NoReviewer}]

Decision == [id : Ids, status : Decisions, by : Reviewers]

Run == [producer : Producers, n : Nat, size : Nat]

Formats == {"xlsx", "docx"}    \* docx stands for pdf too

Register == SUBSET [id : Ids, status : Statuses]

\* hashed is what the integrity hash stamped on the pack was taken of; since and
\* between observe the rows that were written, inserted or deleted from the gate
\* to the last render and between the two renders
Pack == [format : Formats, hashed : Register, content : Register,
         since : SUBSET Ids, between : SUBSET Ids]

PCs == {"idle", "review_loaded", "review_saved", "run_deleted",
        "gate_passed", "drafted", "rendered"}

\* A thread's record outside the handler that uses it
NoDecision == [id |-> <<>>, status |-> "none", by |-> NoReviewer]
NoRow == [status |-> "none", by |-> NoReviewer]
NoRun == [producer |-> <<>>, n |-> 0, size |-> 0]
NoPack == [format |-> "none", hashed |-> {}, content |-> {}, since |-> {}, between |-> {}]

TypeOK ==
    /\ DOMAIN findings \subseteq Ids
    /\ \A i \in DOMAIN findings : findings[i] \in Row
    /\ audit \subseteq Decision
    /\ packs \subseteq Pack
    /\ runs \in Nat
    /\ overlaps \subseteq Nat \X Nat
    /\ decided \subseteq Decision
    /\ pc \in [Threads -> PCs]
    /\ decision \in [Threads -> Decision \cup {NoDecision}]
    /\ loaded \in [Threads -> Row \cup {NoRow}]
    /\ run \in [Threads -> Run \cup {NoRun}]
    /\ doomed \in [Threads -> SUBSET Ids]
    /\ pack \in [Threads -> Pack \cup {NoPack}]
    /\ \A t \in Threads :
         /\ pc[t] \in {"review_loaded", "review_saved"} => decision[t] \in Decision
         /\ pc[t] = "review_loaded" => loaded[t] \in Row
         /\ pc[t] = "run_deleted" => run[t] \in Run
         /\ pc[t] \in {"gate_passed", "drafted", "rendered"} => pack[t] \in Pack

Init ==
    /\ findings = [i \in {} |-> NoRow]
    /\ audit = {}
    /\ packs = {}
    /\ runs = 0
    /\ overlaps = {}
    /\ decided = {}
    /\ pc = [t \in Threads |-> "idle"]
    /\ decision = [t \in Threads |-> NoDecision]
    /\ loaded = [t \in Threads |-> NoRow]
    /\ run = [t \in Threads |-> NoRun]
    /\ doomed = [t \in Threads |-> {}]
    /\ pack = [t \in Threads |-> NoPack]

\* The request ends and its session is closed
Leave(t) ==
    /\ pc' = [pc EXCEPT ![t] = "idle"]
    /\ decision' = [decision EXCEPT ![t] = NoDecision]
    /\ loaded' = [loaded EXCEPT ![t] = NoRow]
    /\ run' = [run EXCEPT ![t] = NoRun]
    /\ doomed' = [doomed EXCEPT ![t] = {}]

Return(t) ==
    /\ Leave(t)
    /\ pack' = [pack EXCEPT ![t] = NoPack]

\* A commit that writes these rows, seen by the exports under way
Touch(ids) ==
    pack' = [u \in Threads |->
               CASE pc[u] = "gate_passed" -> [pack[u] EXCEPT !.since = @ \cup ids]
                 [] pc[u] = "drafted"     -> [pack[u] EXCEPT !.since = @ \cup ids,
                                                             !.between = @ \cup ids]
                 [] OTHER                 -> pack[u]]

(***************************************************************************)
(* A producer's run: one transaction deletes its rows and inserts the new  *)
(* ones, but the DELETE matches the rows committed when it starts, and a   *)
(* second run of the producer may insert its own before this one commits.  *)
(***************************************************************************)
\* (mutant) the DELETE without its producer condition
RowsOfAnyone(p) == DOMAIN findings

RowsOf(p) == {i \in DOMAIN findings : i[1] = p}

RunDelete(t, p, size) ==
    /\ pc[t] = "idle"
    /\ runs < MaxRuns
    /\ ~(size = 0 /\ p \in SkipsEmptyRuns)
    /\ runs' = runs + 1
    /\ LET open == {run[u].n : u \in {v \in Threads : pc[v] = "run_deleted"}}
       IN  overlaps' = overlaps \cup (open \X {runs + 1}) \cup ({runs + 1} \X open)
    /\ run' = [run EXCEPT ![t] = [producer |-> p, n |-> runs + 1, size |-> size]]
    /\ doomed' = [doomed EXCEPT ![t] = RowsOf(p)]
    /\ pc' = [pc EXCEPT ![t] = "run_deleted"]
    /\ UNCHANGED <<tables, packs, decided, decision, loaded, pack>>

\* qualification and standards leave the table alone when they find nothing
RunFindsNothing(t, p) ==
    /\ pc[t] = "idle"
    /\ runs < MaxRuns
    /\ p \in SkipsEmptyRuns
    /\ 0 \in BatchSizes
    /\ runs' = runs + 1
    /\ UNCHANGED <<tables, packs, overlaps, decided, pc, locals>>

\* (mutant) a run proposes findings that count as reviewed
NewRowAccepted == [status |-> "accepted", by |-> NoReviewer]

\* (mutant) the status column is not filled in
NewRowBlank == NoRow

NewRow == [status |-> "proposed", by |-> NoReviewer]

Batch(r) == {<<r.producer, r.n, k>> : k \in 1..r.size}

\* (mutant) the DELETE is lost and a run only adds
RunCommitKeeping(t) ==
    /\ pc[t] = "run_deleted"
    /\ findings' = [i \in DOMAIN findings \cup Batch(run[t]) |->
                      IF i \in Batch(run[t]) THEN NewRow ELSE findings[i]]
    /\ Touch(doomed[t] \cup Batch(run[t]))
    /\ Leave(t)
    /\ UNCHANGED <<audit, packs, runs, overlaps, decided>>

RunCommit(t) ==
    /\ pc[t] = "run_deleted"
    /\ findings' = [i \in (DOMAIN findings \ doomed[t]) \cup Batch(run[t]) |->
                      IF i \in Batch(run[t]) THEN NewRow ELSE findings[i]]
    /\ Touch(doomed[t] \cup Batch(run[t]))
    /\ Leave(t)
    /\ UNCHANGED <<audit, packs, runs, overlaps, decided>>

(***************************************************************************)
(* review_finding: load the row, commit the review columns, and write the  *)
(* audit row in a second transaction.                                      *)
(***************************************************************************)
\* (mutant) the audit row written before the review is saved
ReviewLoadAuditing(t, d) ==
    /\ pc[t] = "idle"
    /\ Cardinality(decided) < MaxDecisions
    /\ d.id \in DOMAIN findings
    /\ decision' = [decision EXCEPT ![t] = d]
    /\ loaded' = [loaded EXCEPT ![t] = findings[d.id]]
    /\ audit' = audit \cup {d}
    /\ pc' = [pc EXCEPT ![t] = "review_loaded"]
    /\ UNCHANGED <<findings, observed, run, doomed, pack>>

ReviewLoad(t, d) ==
    /\ pc[t] = "idle"
    /\ Cardinality(decided) < MaxDecisions
    /\ d.id \in DOMAIN findings    \* else not_found
    /\ decision' = [decision EXCEPT ![t] = d]
    /\ loaded' = [loaded EXCEPT ![t] = findings[d.id]]
    /\ pc' = [pc EXCEPT ![t] = "review_loaded"]
    /\ UNCHANGED <<tables, observed, run, doomed, pack>>

\* The flush writes the columns that differ from the loaded ones, or nothing
NothingToFlush(t) ==
    loaded[t] = [status |-> decision[t].status, by |-> decision[t].by]

Flushed(t, row) ==
    [status |-> IF decision[t].status = loaded[t].status THEN row.status ELSE decision[t].status,
     by     |-> IF decision[t].by = loaded[t].by THEN row.by ELSE decision[t].by]

\* an UPDATE waits for the transaction that has deleted its row
RowUnlocked(t) == \A u \in Threads : decision[t].id \notin doomed[u]

ReviewCommit(t) ==
    /\ pc[t] = "review_loaded"
    /\ \/ NothingToFlush(t) /\ UNCHANGED <<findings, pack>>
       \/ /\ ~NothingToFlush(t)
          /\ RowUnlocked(t)
          /\ decision[t].id \in DOMAIN findings
          /\ findings' = [findings EXCEPT ![decision[t].id] = Flushed(t, @)]
          /\ Touch({decision[t].id})
    /\ decided' = decided \cup {decision[t]}
    /\ pc' = [pc EXCEPT ![t] = "review_saved"]
    /\ UNCHANGED <<audit, packs, runs, overlaps, decision, loaded, run, doomed>>

\* the UPDATE matches no row: StaleDataError, nothing is committed
ReviewRowGone(t) ==
    /\ pc[t] = "review_loaded"
    /\ ~NothingToFlush(t)
    /\ decision[t].id \notin DOMAIN findings
    /\ Return(t)
    /\ UNCHANGED <<tables, observed>>

ReviewAudit(t) ==
    /\ pc[t] = "review_saved"
    /\ audit' = audit \cup {decision[t]}
    /\ Return(t)
    /\ UNCHANGED <<findings, observed>>

(***************************************************************************)
(* export: the gate, a draft render whose hash is stamped, and the render  *)
(* that is sent; each reads the findings again.                            *)
(***************************************************************************)
Pending == {"proposed", "needs_clarification"}

\* (mutant) a clarification that is still open lets the pack go
ExportAllowedClarifying ==
    /\ DOMAIN findings # {}
    /\ \A i \in DOMAIN findings : findings[i].status # "proposed"

ExportAllowed ==
    /\ DOMAIN findings # {}
    /\ \A i \in DOMAIN findings : findings[i].status \notin Pending

\* render_xlsx lists the whole register, the narrative formats what was accepted
Accepted == {"accepted", "edited"}

Rendered(format) ==
    {[id |-> i, status |-> findings[i].status] :
       i \in {j \in DOMAIN findings : format = "xlsx" \/ findings[j].status \in Accepted}}

ExportGate(t, format) ==
    /\ pc[t] = "idle"
    /\ Cardinality(packs) < MaxPacks
    /\ ExportAllowed
    /\ pack' = [pack EXCEPT ![t] = [NoPack EXCEPT !.format = format]]
    /\ pc' = [pc EXCEPT ![t] = "gate_passed"]
    /\ UNCHANGED <<tables, observed, decision, loaded, run, doomed>>

\* (mutant) the hash always taken of the spreadsheet
ExportDraftXlsx(t) ==
    /\ pc[t] = "gate_passed"
    /\ pack' = [pack EXCEPT ![t].hashed = Rendered("xlsx")]
    /\ pc' = [pc EXCEPT ![t] = "drafted"]
    /\ UNCHANGED <<tables, observed, decision, loaded, run, doomed>>

ExportDraft(t) ==
    /\ pc[t] = "gate_passed"
    /\ pack' = [pack EXCEPT ![t].hashed = Rendered(pack[t].format)]
    /\ pc' = [pc EXCEPT ![t] = "drafted"]
    /\ UNCHANGED <<tables, observed, decision, loaded, run, doomed>>

ExportFinal(t) ==
    /\ pc[t] = "drafted"
    /\ pack' = [pack EXCEPT ![t].content = Rendered(pack[t].format)]
    /\ pc' = [pc EXCEPT ![t] = "rendered"]
    /\ UNCHANGED <<tables, observed, decision, loaded, run, doomed>>

\* the router audits the pack, swallows a failure to, and sends it either way
ExportSend(t) ==
    /\ pc[t] = "rendered"
    /\ packs' = packs \cup {pack[t]}
    /\ Return(t)
    /\ UNCHANGED <<findings, audit, runs, overlaps, decided>>

\* The process stops, or the database fails the request: what is committed stays
RequestDies(t) ==
    /\ pc[t] # "idle"
    /\ Return(t)
    /\ UNCHANGED <<tables, observed>>

Next ==
    \E t \in Threads :
        \/ \E p \in Producers, size \in BatchSizes : RunDelete(t, p, size)
        \/ \E p \in Producers : RunFindsNothing(t, p)
        \/ RunCommit(t)
        \/ \E i \in DOMAIN findings, s \in Decisions, r \in Reviewers :
             ReviewLoad(t, [id |-> i, status |-> s, by |-> r])
        \/ ReviewCommit(t)
        \/ ReviewRowGone(t)
        \/ ReviewAudit(t)
        \/ \E format \in Formats : ExportGate(t, format)
        \/ ExportDraft(t)
        \/ ExportFinal(t)
        \/ ExportSend(t)
        \/ RequestDies(t)

Spec == Init /\ [][Next]_vars

-----------------------------------------------------------------------------
(***************************************************************************)
(* What holds whatever the threads do.                                     *)
(***************************************************************************)
\* Every finding.* row of the audit log stands for a decision that really was
\* committed: the audit is written after the review, never instead of it.
AuditTellsTruth == audit \subseteq decided

\* Somebody gave this row this status / this reviewer decided on this row
Backed(i, status) ==
    status = "proposed" \/ \E d \in decided : d.id = i /\ d.status = status

Names(i, by) == \E d \in decided : d.id = i /\ d.by = by

\* A status other than proposed, in the table or in a pack that was sent, is
\* one some reviewer gave that very row, and the row names somebody who decided
\* on it, although two reviewers who load a row together may mix their columns:
\* no re-run, lost update or partial flush makes a finding look reviewed.
DecisionsBacked ==
    /\ \A i \in DOMAIN findings :
        /\ Backed(i, findings[i].status)
        /\ findings[i].status # "proposed" => Names(i, findings[i].by)
    /\ \A p \in packs : \A e \in p.content : Backed(e.id, e.status)

\* A row disappears only when a run of its own producer commits: a finding
\* keeps its review across a re-run of another producer.
OtherProducersKept ==
    [][\A i \in DOMAIN findings \ DOMAIN findings' :
         \E t \in Threads : pc[t] = "run_deleted" /\ run[t].producer = i[1]]_vars

\* A run replaces its producer's rows: rows of two runs stand side by side only
\* if the two were under way at the same time.
RunsReplace ==
    \A p \in Producers : \A i, j \in RowsOf(p) :
        i[2] # j[2] => <<i[2], j[2]>> \in overlaps

\* "Nothing exports until a human reviews it", but for what is committed after
\* the gate has looked: a finding that is proposed or awaits clarification gets
\* into a pack only if its row was written since then, and into a spreadsheet
\* only.
NothingUnreviewedExported ==
    \A p \in packs : \A e \in p.content :
        e.status \in Pending => e.id \in p.since /\ p.format = "xlsx"

\* The integrity hash stamped on a pack covers the findings the pack shows, but
\* for rows that were written between the render that is hashed and the one that
\* is sent.
HashCoversContent ==
    \A p \in packs :
        \A e \in (p.hashed \ p.content) \cup (p.content \ p.hashed) : e.id \in p.between
=============================================================================
