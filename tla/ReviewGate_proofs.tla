------------------------- MODULE ReviewGate_proofs --------------------------
(***************************************************************************)
(* What the review gate guarantees for any number of threads, producers    *)
(* and reviewers and any bounds: type correctness, an audit log that only  *)
(* records what was committed, statuses that some reviewer really gave,    *)
(* findings that survive the re-runs of other producers and are replaced   *)
(* by those of their own, and packs that show what the gate has let pass   *)
(* and the hash covers, but for rows written meanwhile.                    *)
(***************************************************************************)
EXTENDS ReviewGate, TLAPS

-----------------------------------------------------------------------------
(* Type correctness.  Every action writes one thread's cells, so what is   *)
(* shown is that the tables stay typed and that this thread's cells do.    *)

LEMMA LeaveKeepsTypes ==
    ASSUME TypeOK, NEW t \in Threads, Leave(t)
    PROVE  /\ pc' \in [Threads -> PCs]
           /\ decision' \in [Threads -> Decision \cup {NoDecision}]
           /\ loaded' \in [Threads -> Row \cup {NoRow}]
           /\ run' \in [Threads -> Run \cup {NoRun}]
           /\ doomed' \in [Threads -> SUBSET Ids]
           /\ pc'[t] = "idle"
           /\ \A u \in Threads \ {t} :
                /\ pc'[u] = pc[u] /\ decision'[u] = decision[u] /\ loaded'[u] = loaded[u]
                /\ run'[u] = run[u] /\ doomed'[u] = doomed[u]
BY DEF TypeOK, Leave, PCs

LEMMA ReturnKeepsTypes ==
    ASSUME TypeOK, NEW t \in Threads, Return(t)
    PROVE  /\ pc' \in [Threads -> PCs]
           /\ decision' \in [Threads -> Decision \cup {NoDecision}]
           /\ loaded' \in [Threads -> Row \cup {NoRow}]
           /\ run' \in [Threads -> Run \cup {NoRun}]
           /\ doomed' \in [Threads -> SUBSET Ids]
           /\ pack' \in [Threads -> Pack \cup {NoPack}]
           /\ pc'[t] = "idle"
           /\ \A u \in Threads \ {t} :
                /\ pc'[u] = pc[u] /\ decision'[u] = decision[u] /\ loaded'[u] = loaded[u]
                /\ run'[u] = run[u] /\ doomed'[u] = doomed[u] /\ pack'[u] = pack[u]
BY LeaveKeepsTypes DEF TypeOK, Return

Exporting == {"gate_passed", "drafted", "rendered"}

\* What a commit changes of the packs under way is only what is observed of it
LEMMA TouchFacts ==
    ASSUME TypeOK, NEW ids \in SUBSET Ids, Touch(ids)
    PROVE  /\ pack' \in [Threads -> Pack \cup {NoPack}]
           /\ \A u \in Threads :
                /\ pc[u] \in Exporting =>
                     /\ pack'[u] \in Pack
                     /\ pack'[u].format = pack[u].format /\ pack'[u].hashed = pack[u].hashed
                /\ pc[u] \in {"gate_passed", "drafted"} => pack'[u].since = pack[u].since \cup ids
                /\ pc[u] = "drafted" => pack'[u].between = pack[u].between \cup ids
                /\ pc[u] \notin {"gate_passed", "drafted"} => pack'[u] = pack[u]
<1>1. ASSUME NEW u \in Threads, pc[u] \in Exporting
      PROVE  /\ pack[u] \in Pack
             /\ [pack[u] EXCEPT !.since = @ \cup ids] \in Pack
             /\ [pack[u] EXCEPT !.since = @ \cup ids, !.between = @ \cup ids] \in Pack
  BY <1>1 DEF TypeOK, Exporting, Pack
<1>2. ASSUME NEW u \in Threads, pc[u] = "gate_passed"
      PROVE  pack'[u] = [pack[u] EXCEPT !.since = @ \cup ids]
  BY <1>2 DEF Touch
<1>3. ASSUME NEW u \in Threads, pc[u] = "drafted"
      PROVE  pack'[u] = [pack[u] EXCEPT !.since = @ \cup ids, !.between = @ \cup ids]
  BY <1>3 DEF Touch
<1>4. ASSUME NEW u \in Threads, pc[u] \notin {"gate_passed", "drafted"}
      PROVE  pack'[u] = pack[u]
  BY <1>4 DEF Touch
<1>5. ASSUME NEW u \in Threads
      PROVE  /\ pack'[u] \in Pack \cup {NoPack}
             /\ pc[u] \in Exporting =>
                  /\ pack'[u] \in Pack
                  /\ pack'[u].format = pack[u].format /\ pack'[u].hashed = pack[u].hashed
             /\ pc[u] \in {"gate_passed", "drafted"} => pack'[u].since = pack[u].since \cup ids
             /\ pc[u] = "drafted" => pack'[u].between = pack[u].between \cup ids
  <2>1. CASE pc[u] = "gate_passed"
    BY <2>1, <1>1, <1>2 DEF Exporting, Pack
  <2>2. CASE pc[u] = "drafted"
    BY <2>2, <1>1, <1>3 DEF Exporting, Pack
  <2>3. CASE pc[u] \notin {"gate_passed", "drafted"}
    BY <2>3, <1>1, <1>4 DEF TypeOK
  <2> QED BY <2>1, <2>2, <2>3
<1> QED BY <1>4, <1>5 DEF Touch

\* The per-thread conjunct of TypeOK, as one operator
Cells(t) ==
    /\ pc[t] \in {"review_loaded", "review_saved"} => decision[t] \in Decision
    /\ pc[t] = "review_loaded" => loaded[t] \in Row
    /\ pc[t] = "run_deleted" => run[t] \in Run
    /\ pc[t] \in {"gate_passed", "drafted", "rendered"} => pack[t] \in Pack

LEMMA ReturnKeepsCells ==
    ASSUME TypeOK, NEW t \in Threads, Return(t)
    PROVE  \A u \in Threads : Cells(u)'
<1> TAKE u \in Threads
<1>1. CASE u = t
  BY <1>1, ReturnKeepsTypes DEF Cells
<1>2. CASE u # t
  <2>1. Cells(u)
    BY DEF TypeOK, Cells
  <2> QED BY <1>2, <2>1, ReturnKeepsTypes DEF Cells
<1> QED BY <1>1, <1>2

LEMMA LeaveKeepsCells ==
    ASSUME TypeOK, NEW t \in Threads, Leave(t), pc[t] \notin Exporting,
           NEW ids \in SUBSET Ids, Touch(ids)
    PROVE  \A u \in Threads : Cells(u)'
<1> TAKE u \in Threads
<1>1. CASE u = t
  BY <1>1, LeaveKeepsTypes DEF Cells
<1>2. CASE u # t
  <2>1. Cells(u)
    BY DEF TypeOK, Cells
  <2> QED BY <1>2, <2>1, LeaveKeepsTypes, TouchFacts DEF Cells, Exporting
<1> QED BY <1>1, <1>2

LEMMA BatchIds ==
    ASSUME NEW r \in Run PROVE Batch(r) \subseteq Ids
<1>1. \A k \in 1..r.size : k \in Nat
  BY DEF Run
<1> QED BY <1>1 DEF Batch, Run, Ids

LEMMA RenderedTyped ==
    ASSUME TypeOK, NEW format PROVE Rendered(format) \in Register
<1>1. \A i \in DOMAIN findings : i \in Ids /\ findings[i].status \in Statuses
  BY DEF TypeOK, Row
<1>2. \A e \in Rendered(format) :
        \E i \in DOMAIN findings : e = [id |-> i, status |-> findings[i].status]
  BY DEF Rendered
<1> QED BY <1>1, <1>2 DEF Register

LEMMA NewRowTyped == NewRow \in Row
BY DEF NewRow, Row, Statuses

LEMMA TypeInit == Init => TypeOK
<1> SUFFICES ASSUME Init PROVE TypeOK
  OBVIOUS
<1>1. DOMAIN findings = {}
  BY DEF Init
<1>2. \A t \in Threads : pc[t] = "idle"
  BY DEF Init
<1> QED BY <1>1, <1>2 DEF Init, TypeOK, PCs

\* The tables' part of TypeOK and the threads' part
TablesOK ==
    /\ DOMAIN findings \subseteq Ids
    /\ \A i \in DOMAIN findings : findings[i] \in Row
    /\ audit \subseteq Decision
    /\ packs \subseteq Pack
    /\ runs \in Nat
    /\ overlaps \subseteq Nat \X Nat
    /\ decided \subseteq Decision

ThreadsOK ==
    /\ pc \in [Threads -> PCs]
    /\ decision \in [Threads -> Decision \cup {NoDecision}]
    /\ loaded \in [Threads -> Row \cup {NoRow}]
    /\ run \in [Threads -> Run \cup {NoRun}]
    /\ doomed \in [Threads -> SUBSET Ids]
    /\ pack \in [Threads -> Pack \cup {NoPack}]
    /\ \A t \in Threads : Cells(t)

LEMMA TypeParts ==
    /\ TypeOK <=> TablesOK /\ ThreadsOK
    /\ TypeOK' <=> TablesOK' /\ ThreadsOK'
BY DEF TypeOK, TablesOK, ThreadsOK, Cells

LEMMA ReturnThreadsOK ==
    ASSUME TypeOK, NEW t \in Threads, Return(t) PROVE ThreadsOK'
BY ReturnKeepsTypes, ReturnKeepsCells DEF ThreadsOK

\* A row is well typed after any flush of a well-typed review
LEMMA FlushTyped ==
    ASSUME TypeOK, NEW t \in Threads, pc[t] = "review_loaded", NEW row \in Row
    PROVE  Flushed(t, row) \in Row
<1>1. decision[t] \in Decision
  BY DEF TypeOK
<1> QED BY <1>1 DEF Flushed, Decision, Row, Statuses

LEMMA TypeNext == TypeOK /\ [Next]_vars => TypeOK'
<1> SUFFICES ASSUME TypeOK, [Next]_vars PROVE TypeOK'
  OBVIOUS
<1> USE TypeParts
<1>0. TablesOK /\ ThreadsOK
  OBVIOUS
<1>1. ASSUME NEW t \in Threads, NEW p \in Producers, NEW size \in BatchSizes, RunDelete(t, p, size)
      PROVE  TypeOK'
  <2>1. [producer |-> p, n |-> runs + 1, size |-> size] \in Run
    BY <1>0, ReviewAssumption DEF TablesOK, Run
  <2>5. \A u \in Threads : pc[u] = "run_deleted" => run[u].n \in Nat
    BY <1>0 DEF ThreadsOK, Cells, Run
  <2>6. runs' \in Nat /\ overlaps' \subseteq Nat \X Nat
    BY <1>0, <1>1, <2>5 DEF TablesOK, RunDelete
  <2>2. RowsOf(p) \subseteq Ids
    BY <1>0 DEF TablesOK, RowsOf
  <2>3. TablesOK'
    BY <1>0, <1>1, <2>6 DEF TablesOK, RunDelete, tables
  <2>4. ThreadsOK'
    BY <1>0, <1>1, <2>1, <2>2 DEF ThreadsOK, Cells, RunDelete, PCs
  <2> QED BY <2>3, <2>4
<1>2. ASSUME NEW t \in Threads, NEW p \in Producers, RunFindsNothing(t, p)
      PROVE  TypeOK'
  <2>1. TablesOK'
    BY <1>0, <1>2 DEF TablesOK, RunFindsNothing, tables
  <2>2. ThreadsOK'
    BY <1>0, <1>2 DEF ThreadsOK, Cells, RunFindsNothing, locals
  <2> QED BY <2>1, <2>2
<1>3. ASSUME NEW t \in Threads, RunCommit(t)
      PROVE  TypeOK'
  <2>1. run[t] \in Run
    BY <1>0, <1>3 DEF ThreadsOK, Cells, RunCommit
  <2>2. Batch(run[t]) \subseteq Ids
    BY <2>1, BatchIds
  <2>3. TablesOK'
    <3>1. DOMAIN findings' \subseteq Ids /\ \A i \in DOMAIN findings' : findings'[i] \in Row
      BY <1>0, <1>3, <2>2, NewRowTyped DEF TablesOK, RunCommit
    <3> QED BY <1>0, <1>3, <3>1 DEF TablesOK, RunCommit
  <2>4. doomed[t] \cup Batch(run[t]) \in SUBSET Ids /\ pc[t] \notin Exporting
    BY <1>0, <1>3, <2>2 DEF ThreadsOK, RunCommit, Exporting
  <2>5. ThreadsOK'
    BY <1>3, <2>4, LeaveKeepsTypes, LeaveKeepsCells, TouchFacts DEF RunCommit, ThreadsOK
  <2> QED BY <2>3, <2>5
<1>4. ASSUME NEW t \in Threads, NEW i \in DOMAIN findings, NEW s \in Decisions, NEW r \in Reviewers,
             ReviewLoad(t, [id |-> i, status |-> s, by |-> r])
      PROVE  TypeOK'
  <2>1. [id |-> i, status |-> s, by |-> r] \in Decision /\ findings[i] \in Row
    BY <1>0 DEF TablesOK, Decision
  <2>2. TablesOK'
    BY <1>0, <1>4 DEF TablesOK, ReviewLoad, tables, observed
  <2>3. ThreadsOK'
    BY <1>0, <1>4, <2>1 DEF ThreadsOK, Cells, ReviewLoad, PCs
  <2> QED BY <2>2, <2>3
<1>5. ASSUME NEW t \in Threads, ReviewCommit(t)
      PROVE  TypeOK'
  <2>1. decision[t] \in Decision
    BY <1>0, <1>5 DEF ThreadsOK, Cells, ReviewCommit
  <2>2. DOMAIN findings' = DOMAIN findings /\ \A i \in DOMAIN findings : findings'[i] \in Row
    BY <1>0, <1>5, FlushTyped DEF TablesOK, ReviewCommit
  <2>3. TablesOK'
    BY <1>0, <1>5, <2>1, <2>2 DEF TablesOK, ReviewCommit
  <2>4. /\ pack' \in [Threads -> Pack \cup {NoPack}]
        /\ \A u \in Threads : pc[u] \in Exporting => pack'[u] \in Pack
    <3>1. {decision[t].id} \in SUBSET Ids
      BY <2>1 DEF Decision
    <3>2. CASE pack' = pack
      BY <3>2, <1>0 DEF ThreadsOK, Cells, Exporting
    <3>3. CASE Touch({decision[t].id})
      BY <3>1, <3>3, TouchFacts
    <3> QED BY <1>5, <3>2, <3>3 DEF ReviewCommit
  <2>5. ThreadsOK'
    BY <1>0, <1>5, <2>1, <2>4 DEF ThreadsOK, Cells, ReviewCommit, PCs, Exporting
  <2> QED BY <2>3, <2>5
<1>6. ASSUME NEW t \in Threads, ReviewRowGone(t) \/ ReviewAudit(t) \/ RequestDies(t)
      PROVE  TypeOK'
  <2>1. TablesOK'
    BY <1>0, <1>6 DEF TablesOK, ThreadsOK, Cells, ReviewRowGone, ReviewAudit, RequestDies,
                      tables, observed
  <2> QED BY <1>6, <2>1, ReturnThreadsOK DEF ReviewRowGone, ReviewAudit, RequestDies
<1>7. ASSUME NEW t \in Threads, NEW format \in Formats, ExportGate(t, format)
      PROVE  TypeOK'
  <2>1. [NoPack EXCEPT !.format = format] \in Pack
    BY DEF Pack, Register, NoPack
  <2>2. TablesOK'
    BY <1>0, <1>7 DEF TablesOK, ExportGate, tables, observed
  <2>3. ThreadsOK'
    BY <1>0, <1>7, <2>1 DEF ThreadsOK, Cells, ExportGate, PCs
  <2> QED BY <2>2, <2>3
<1>8. ASSUME NEW t \in Threads, ExportDraft(t) \/ ExportFinal(t)
      PROVE  TypeOK'
  <2>1. pack[t] \in Pack /\ pack \in [Threads -> Pack \cup {NoPack}]
    BY <1>0, <1>8 DEF ThreadsOK, Cells, ExportDraft, ExportFinal
  <2>2. Rendered(pack[t].format) \in Register
    BY RenderedTyped
  <2>3. /\ pack'[t] \in Pack
        /\ pack' = [pack EXCEPT ![t] = pack'[t]]
    BY <1>8, <2>1, <2>2 DEF ExportDraft, ExportFinal, Pack
  <2>4. TablesOK'
    BY <1>0, <1>8 DEF TablesOK, ExportDraft, ExportFinal, tables, observed
  <2>5. ThreadsOK'
    BY <1>0, <1>8, <2>3 DEF ThreadsOK, Cells, ExportDraft, ExportFinal, PCs
  <2> QED BY <2>4, <2>5
<1>9. ASSUME NEW t \in Threads, ExportSend(t)
      PROVE  TypeOK'
  <2>1. TablesOK'
    BY <1>0, <1>9 DEF TablesOK, ThreadsOK, Cells, ExportSend
  <2> QED BY <1>9, <2>1, ReturnThreadsOK DEF ExportSend
<1>10. CASE UNCHANGED vars
  BY <1>0, <1>10 DEF TablesOK, ThreadsOK, Cells, vars
<1> QED BY <1>1, <1>2, <1>3, <1>4, <1>5, <1>6, <1>7, <1>8, <1>9, <1>10 DEF Next

\* Every reachable state is well typed: in particular a thread past a read
\* holds the row, run or pack it read.
THEOREM TypeCorrect == Spec => []TypeOK
BY TypeInit, TypeNext, PTL DEF Spec

-----------------------------------------------------------------------------
(* The audit log.  A thread about to write an audit row has committed the  *)
(* decision the row records.                                               *)

AuditInv ==
    /\ AuditTellsTruth
    /\ \A t \in Threads : pc[t] = "review_saved" => decision[t] \in decided

LEMMA AuditNext == TypeOK /\ AuditInv /\ [Next]_vars => AuditInv'
<1> SUFFICES ASSUME TypeOK, AuditInv, [Next]_vars PROVE AuditInv'
  OBVIOUS
<1> USE DEF AuditInv, AuditTellsTruth, TypeOK
<1>1. ASSUME NEW t \in Threads, NEW p \in Producers, NEW size \in BatchSizes, RunDelete(t, p, size)
      PROVE  AuditInv'
  BY <1>1 DEF RunDelete, tables
<1>2. ASSUME NEW t \in Threads, NEW p \in Producers, RunFindsNothing(t, p)
      PROVE  AuditInv'
  BY <1>2 DEF RunFindsNothing, tables, locals
<1>3. ASSUME NEW t \in Threads, RunCommit(t)
      PROVE  AuditInv'
  BY <1>3 DEF RunCommit, Leave
<1>4. ASSUME NEW t \in Threads, NEW d, ReviewLoad(t, d)
      PROVE  AuditInv'
  BY <1>4 DEF ReviewLoad, tables, observed
<1>5. ASSUME NEW t \in Threads, ReviewCommit(t)
      PROVE  AuditInv'
  BY <1>5 DEF ReviewCommit
<1>6. ASSUME NEW t \in Threads, ReviewRowGone(t) \/ ReviewAudit(t) \/ RequestDies(t)
      PROVE  AuditInv'
  BY <1>6 DEF ReviewRowGone, ReviewAudit, RequestDies, Return, Leave, tables, observed
<1>7. ASSUME NEW t \in Threads, NEW format \in Formats, ExportGate(t, format)
      PROVE  AuditInv'
  BY <1>7 DEF ExportGate, tables, observed
<1>8. ASSUME NEW t \in Threads, ExportDraft(t) \/ ExportFinal(t)
      PROVE  AuditInv'
  BY <1>8 DEF ExportDraft, ExportFinal, tables, observed
<1>9. ASSUME NEW t \in Threads, ExportSend(t)
      PROVE  AuditInv'
  BY <1>9 DEF ExportSend, Return, Leave
<1>10. CASE UNCHANGED vars
  BY <1>10 DEF vars
<1> QED BY <1>1, <1>2, <1>3, <1>4, <1>5, <1>6, <1>7, <1>8, <1>9, <1>10 DEF Next

\* Every finding.* audit row records a decision that was committed, whatever
\* requests die on the way.
THEOREM AuditTrue == Spec => []AuditTellsTruth
<1>1. Init => AuditInv
  BY DEF Init, AuditInv, AuditTellsTruth
<1>2. AuditInv => AuditTellsTruth
  BY DEF AuditInv
<1> QED BY <1>1, <1>2, AuditNext, TypeCorrect, PTL DEF Spec
-----------------------------------------------------------------------------
(* Rows are new.  A run that is under way has a number of its own, which no *)
(* row and no review has seen, so a row once reviewed never starts again.   *)

FreshInv ==
    /\ \A i \in DOMAIN findings : i[2] <= runs
    /\ \A t \in Threads :
        /\ pc[t] = "review_loaded" => decision[t].id[2] <= runs
        /\ pc[t] = "run_deleted" =>
             /\ run[t].n <= runs
             /\ \A i \in DOMAIN findings : i[2] # run[t].n
             /\ \A u \in Threads :
                 /\ pc[u] = "review_loaded" => decision[u].id[2] # run[t].n
                 /\ pc[u] = "run_deleted" /\ u # t => run[u].n # run[t].n

LEMMA IdRun == \A i \in Ids : i[2] \in Nat
BY DEF Ids

LEMMA FreshNext == TypeOK /\ FreshInv /\ [Next]_vars => FreshInv'
<1> SUFFICES ASSUME TypeOK, FreshInv, [Next]_vars PROVE FreshInv'
  OBVIOUS
<1> USE DEF FreshInv
<1>0. /\ runs \in Nat
      /\ \A i \in DOMAIN findings : i[2] \in Nat
      /\ \A u \in Threads : pc[u] = "review_loaded" => decision[u].id[2] \in Nat
      /\ \A u \in Threads : pc[u] = "run_deleted" => run[u].n \in Nat
  BY IdRun DEF TypeOK, Decision, Run
<1>1. ASSUME NEW t \in Threads, NEW p \in Producers, NEW size \in BatchSizes, RunDelete(t, p, size)
      PROVE  FreshInv'
  <2>1. /\ findings' = findings /\ runs' = runs + 1 /\ decision' = decision
        /\ pc'[t] = "run_deleted" /\ run'[t].n = runs + 1
        /\ \A u \in Threads \ {t} : pc'[u] = pc[u] /\ run'[u] = run[u]
    BY <1>1 DEF RunDelete, tables, TypeOK
  <2> QED BY <1>0, <2>1
<1>2. ASSUME findings' = findings, decision' = decision, runs' \in Nat, runs <= runs', run' = run,
             \A u \in Threads : pc'[u] \in {"review_loaded", "run_deleted"} => pc'[u] = pc[u]
      PROVE  FreshInv'
  BY <1>0, <1>2
<1>3. ASSUME NEW t \in Threads, RunCommit(t)
      PROVE  FreshInv'
  <2>1. /\ pc[t] = "run_deleted" /\ runs' = runs /\ pc'[t] = "idle"
        /\ \A u \in Threads \ {t} :
             pc'[u] = pc[u] /\ run'[u] = run[u] /\ decision'[u] = decision[u]
    BY <1>3, LeaveKeepsTypes DEF RunCommit
  <2>2. \A i \in DOMAIN findings' : i \in DOMAIN findings \/ i[2] = run[t].n
    BY <1>3 DEF RunCommit, Batch
  <2> QED BY <1>0, <2>1, <2>2
<1>4. ASSUME NEW t \in Threads, NEW i \in DOMAIN findings, NEW st \in Decisions, NEW by \in Reviewers,
             ReviewLoad(t, [id |-> i, status |-> st, by |-> by])
      PROVE  FreshInv'
  <2>1. /\ findings' = findings /\ runs' = runs /\ run' = run
        /\ decision'[t].id = i /\ pc'[t] = "review_loaded"
        /\ \A u \in Threads \ {t} : pc'[u] = pc[u] /\ decision'[u] = decision[u]
    BY <1>4 DEF ReviewLoad, tables, observed, TypeOK
  <2> QED BY <1>0, <2>1
<1>5. ASSUME NEW t \in Threads, ReviewCommit(t)
      PROVE  FreshInv'
  <2>1. /\ DOMAIN findings' = DOMAIN findings /\ runs' = runs /\ run' = run
        /\ decision' = decision
        /\ \A u \in Threads : pc'[u] \in {"review_loaded", "run_deleted"} => pc'[u] = pc[u]
    BY <1>5 DEF ReviewCommit, TypeOK
  <2> QED BY <2>1
<1>6. ASSUME NEW t \in Threads,
             ReviewRowGone(t) \/ ReviewAudit(t) \/ RequestDies(t) \/ ExportSend(t)
      PROVE  FreshInv'
  <2>1. Return(t) /\ findings' = findings /\ runs' = runs
    BY <1>6 DEF ReviewRowGone, ReviewAudit, RequestDies, ExportSend, tables, observed
  <2> QED BY <2>1, ReturnKeepsTypes
<1>7. ASSUME NEW t \in Threads,
             \/ \E p \in Producers : RunFindsNothing(t, p)
             \/ ExportDraft(t) \/ ExportFinal(t) \/ \E format \in Formats : ExportGate(t, format)
      PROVE  FreshInv'
  <2>1. /\ findings' = findings /\ decision' = decision /\ run' = run
        /\ runs' = runs \/ runs' = runs + 1
        /\ \A u \in Threads : pc'[u] \in {"review_loaded", "run_deleted"} => pc'[u] = pc[u]
    BY <1>7 DEF RunFindsNothing, ExportDraft, ExportFinal, ExportGate, tables, observed, locals, TypeOK
  <2> QED BY <1>0, <2>1, <1>2
<1>8. CASE UNCHANGED vars
  BY <1>8 DEF vars
<1> QED BY <1>1, <1>3, <1>4, <1>5, <1>6, <1>7, <1>8 DEF Next

-----------------------------------------------------------------------------
(* Reviewed status.  What a thread has rendered is backed like what it has  *)
(* sent, decisions are never forgotten, and a row that was reviewed when a  *)
(* review loaded it names a reviewer still, so the column that a flush      *)
(* leaves out is never empty.                                               *)

AllBacked(c) == \A e \in c : Backed(e.id, e.status)

RowBacked(i, row) ==
    /\ Backed(i, row.status)
    /\ row.by # NoReviewer => Names(i, row.by)
    /\ row.status # "proposed" => row.by # NoReviewer

BackedInv ==
    /\ \A i \in DOMAIN findings : RowBacked(i, findings[i])
    /\ \A p \in packs : AllBacked(p.content)
    /\ \A t \in Threads :
        /\ pc[t] = "rendered" => AllBacked(pack[t].content)
        /\ pc[t] = "review_loaded" /\ decision[t].id \in DOMAIN findings =>
             (loaded[t].by # NoReviewer => findings[decision[t].id].by # NoReviewer)

LEMMA BackedGrows ==
    ASSUME decided \subseteq decided'
    PROVE  /\ \A i, row : RowBacked(i, row) => RowBacked(i, row)'
           /\ \A c : AllBacked(c) => AllBacked(c)'
BY DEF Backed, Names, RowBacked, AllBacked

\* The first conjunct of BackedInv after a step, from what is known of each row
LEMMA RowsBacked ==
    ASSUME \A i \in DOMAIN findings' : \A row : row = findings'[i] => RowBacked(i, row)'
    PROVE  (\A i \in DOMAIN findings : RowBacked(i, findings[i]))'
BY DEF RowBacked, Backed, Names

LEMMA RenderedBacked ==
    ASSUME BackedInv, NEW format PROVE AllBacked(Rendered(format))
<1>1. \A e \in Rendered(format) :
        \E i \in DOMAIN findings : e.id = i /\ e.status = findings[i].status
  BY DEF Rendered
<1> QED BY <1>1 DEF AllBacked, BackedInv, RowBacked

LEMMA BackedNext == TypeOK /\ FreshInv /\ BackedInv /\ [Next]_vars => BackedInv'
<1> SUFFICES ASSUME TypeOK, FreshInv, BackedInv, [Next]_vars PROVE BackedInv'
  OBVIOUS
<1> USE DEF BackedInv
<1>1. ASSUME findings' = findings, decided' = decided, packs' = packs,
             \A u \in Threads :
               /\ pc'[u] = "rendered" => pc[u] = "rendered" /\ pack'[u].content = pack[u].content
               /\ pc'[u] = "review_loaded" =>
                    pc[u] = pc'[u] /\ decision'[u] = decision[u] /\ loaded'[u] = loaded[u]
      PROVE  BackedInv'
  BY <1>1, BackedGrows
<1>2. ASSUME NEW t \in Threads,
             \/ \E p \in Producers, size \in BatchSizes : RunDelete(t, p, size)
             \/ \E p \in Producers : RunFindsNothing(t, p)
             \/ \E format \in Formats : ExportGate(t, format)
             \/ ExportDraft(t)
      PROVE  BackedInv'
  BY <1>2, <1>1 DEF RunDelete, RunFindsNothing, ExportGate, ExportDraft, tables, observed, locals, TypeOK
<1>3. ASSUME NEW t \in Threads, RunCommit(t)
      PROVE  BackedInv'
  <2>1. /\ pc[t] = "run_deleted" /\ pc'[t] = "idle" /\ decided' = decided /\ packs' = packs
        /\ \A u \in Threads \ {t} :
             pc'[u] = pc[u] /\ decision'[u] = decision[u] /\ loaded'[u] = loaded[u]
    BY <1>3, LeaveKeepsTypes DEF RunCommit
  <2>2. doomed[t] \cup Batch(run[t]) \in SUBSET Ids
    BY <2>1, BatchIds DEF TypeOK
  <2>3. \A u \in Threads : pc[u] = "rendered" => pack'[u] = pack[u]
    BY <1>3, <2>2, TouchFacts DEF RunCommit
  <2>4. \A i \in DOMAIN findings' :
          \/ i \in Batch(run[t]) /\ findings'[i] = NewRow
          \/ i \in DOMAIN findings /\ findings'[i] = findings[i]
    BY <1>3 DEF RunCommit
  <2>5. \A i : RowBacked(i, NewRow)'
    BY DEF NewRow, RowBacked, Backed
  <2>6. \A i \in DOMAIN findings' : \A row : row = findings'[i] => RowBacked(i, row)'
    BY <2>1, <2>4, <2>5, BackedGrows
  <2>7. \A i \in Batch(run[t]) : i[2] = run[t].n
    BY DEF Batch
  <2>8. \A u \in Threads : pc[u] = "review_loaded" => decision[u].id \notin Batch(run[t])
    BY <2>1, <2>7 DEF FreshInv
  <2> QED BY <2>1, <2>3, <2>4, <2>6, <2>8, BackedGrows, RowsBacked
<1>4. ASSUME NEW t \in Threads, NEW i \in DOMAIN findings, NEW st \in Decisions, NEW by \in Reviewers,
             ReviewLoad(t, [id |-> i, status |-> st, by |-> by])
      PROVE  BackedInv'
  <2>1. /\ findings' = findings /\ decided' = decided /\ packs' = packs /\ pack' = pack
        /\ decision'[t].id = i /\ loaded'[t] = findings[i] /\ pc'[t] = "review_loaded"
        /\ \A u \in Threads \ {t} :
             pc'[u] = pc[u] /\ decision'[u] = decision[u] /\ loaded'[u] = loaded[u]
    BY <1>4 DEF ReviewLoad, tables, observed, TypeOK
  <2> QED BY <2>1, BackedGrows
<1>5. ASSUME NEW t \in Threads, ReviewCommit(t)
      PROVE  BackedInv'
  <2> PICK d : d = decision[t]
    OBVIOUS
  <2> PICK i : i = d.id
    OBVIOUS
  <2>1. /\ pc[t] = "review_loaded" /\ d \in Decision /\ loaded[t] \in Row
        /\ decided' = decided \cup {d}
        /\ packs' = packs /\ decision' = decision /\ loaded' = loaded
        /\ DOMAIN findings' = DOMAIN findings
        /\ \A u \in Threads : pc'[u] \in {"rendered", "review_loaded"} => pc'[u] = pc[u]
    BY <1>5 DEF ReviewCommit, TypeOK
  <2>2. {i} \in SUBSET Ids
    BY <2>1 DEF Decision
  <2>3. \A u \in Threads : pc[u] = "rendered" => pack'[u] = pack[u]
    <3>1. CASE pack' = pack
      BY <3>1
    <3>2. CASE Touch({i})
      BY <3>2, <2>2, TouchFacts
    <3> QED BY <1>5, <3>1, <3>2 DEF ReviewCommit
  <2>4. d.by \in Reviewers /\ d.by # NoReviewer /\ Names(i, d.by)' /\ Backed(i, d.status)'
    BY <2>1, ReviewAssumption DEF Decision, Names, Backed
  <2>5. ASSUME i \in DOMAIN findings, findings'[i] = Flushed(t, findings[i])
        PROVE  /\ findings'[i].by # NoReviewer
               /\ \A row : row = findings'[i] => RowBacked(i, row)'
    <3>1. \A row : row = findings[i] => RowBacked(i, row)'
      BY <2>1, <2>5, BackedGrows
    <3>2. /\ findings'[i].status \in {findings[i].status, d.status}
          /\ findings'[i].by = IF d.by = loaded[t].by THEN findings[i].by ELSE d.by
      BY <2>5 DEF Flushed
    <3>3. findings'[i].by # NoReviewer /\ \A by : by = findings'[i].by => Names(i, by)'
      BY <3>1, <3>2, <2>1, <2>4, <2>5 DEF RowBacked
    <3>4. \A s : s = findings'[i].status => Backed(i, s)'
      BY <3>1, <3>2, <2>4 DEF RowBacked
    <3> QED BY <3>3, <3>4 DEF RowBacked
  <2>6. \A j \in DOMAIN findings :
          findings'[j] = findings[j] \/ (j = i /\ findings'[i] = Flushed(t, findings[i]))
    BY <1>5 DEF ReviewCommit
  <2>7. \A j \in DOMAIN findings' :
          /\ \A row : row = findings'[j] => RowBacked(j, row)'
          /\ findings[j].by # NoReviewer => findings'[j].by # NoReviewer
    BY <2>1, <2>5, <2>6, BackedGrows
  <2>8. \A u \in Threads :
          /\ pc'[u] = "rendered" =>
               pc[u] = "rendered" /\ pack'[u].content = pack[u].content
          /\ pc'[u] = "review_loaded" /\ decision'[u].id \in DOMAIN findings' =>
               (loaded'[u].by # NoReviewer => findings'[decision'[u].id].by # NoReviewer)
    BY <2>1, <2>3, <2>7, BackedGrows
  <2> QED BY <2>1, <2>7, <2>8, BackedGrows, RowsBacked
<1>6. ASSUME NEW t \in Threads, ReviewRowGone(t) \/ ReviewAudit(t) \/ RequestDies(t)
      PROVE  BackedInv'
  <2>1. Return(t) /\ findings' = findings /\ decided' = decided /\ packs' = packs
    BY <1>6 DEF ReviewRowGone, ReviewAudit, RequestDies, tables, observed
  <2> QED BY <2>1, <1>1, ReturnKeepsTypes
<1>7. ASSUME NEW t \in Threads, ExportFinal(t)
      PROVE  BackedInv'
  <2>1. pack[t] \in Pack /\ pack'[t].content = Rendered(pack[t].format)
    BY <1>7 DEF ExportFinal, TypeOK, Pack
  <2>2. AllBacked(pack'[t].content)
    BY <2>1, RenderedBacked
  <2> QED BY <1>7, <2>2, BackedGrows DEF ExportFinal, tables, observed, TypeOK
<1>8. ASSUME NEW t \in Threads, ExportSend(t)
      PROVE  BackedInv'
  <2>1. /\ pc[t] = "rendered" /\ Return(t) /\ packs' = packs \cup {pack[t]}
        /\ findings' = findings /\ decided' = decided
    BY <1>8 DEF ExportSend
  <2> QED BY <2>1, ReturnKeepsTypes, BackedGrows
<1>9. CASE UNCHANGED vars
  BY <1>9, <1>1 DEF vars
<1> QED BY <1>2, <1>3, <1>4, <1>5, <1>6, <1>7, <1>8, <1>9 DEF Next

\* No interleaving of runs, reviews and exports makes a finding look reviewed,
\* in the table or in a pack, without a reviewer's decision on that very row,
\* and no row names a reviewer who never decided on it.
THEOREM StatusesBacked == Spec => []DecisionsBacked
<1>1. Init => FreshInv /\ BackedInv
  BY DEF Init, FreshInv, BackedInv
<1>2. BackedInv => DecisionsBacked
  BY DEF BackedInv, DecisionsBacked, RowBacked, AllBacked
<1> QED BY <1>1, <1>2, FreshNext, BackedNext, TypeCorrect, PTL DEF Spec

-----------------------------------------------------------------------------
(* Re-runs.  The rows a run has matched are its producer's.                *)

DoomedInv ==
    \A t \in Threads :
        pc[t] = "run_deleted" => \A i \in doomed[t] : i[1] = run[t].producer

LEMMA DoomedNext == TypeOK /\ DoomedInv /\ [Next]_vars => DoomedInv'
<1> SUFFICES ASSUME TypeOK, DoomedInv, [Next]_vars PROVE DoomedInv'
  OBVIOUS
<1> USE DEF DoomedInv, TypeOK
<1>1. ASSUME NEW t \in Threads, NEW p \in Producers, NEW size \in BatchSizes, RunDelete(t, p, size)
      PROVE  DoomedInv'
  <2>1. run'[t].producer = p /\ doomed'[t] = RowsOf(p)
    BY <1>1 DEF RunDelete
  <2>2. \A u \in Threads \ {t} : pc'[u] = pc[u] /\ run'[u] = run[u] /\ doomed'[u] = doomed[u]
    BY <1>1 DEF RunDelete
  <2> QED BY <2>1, <2>2 DEF RowsOf
<1>2. ASSUME NEW t \in Threads,
             \/ \E p \in Producers : RunFindsNothing(t, p)
             \/ RunCommit(t) \/ ReviewRowGone(t) \/ ReviewAudit(t)
             \/ ExportSend(t) \/ RequestDies(t)
      PROVE  DoomedInv'
  BY <1>2 DEF RunFindsNothing, RunCommit, ReviewRowGone, ReviewAudit, ExportSend,
              RequestDies, Return, Leave, locals
<1>3. ASSUME NEW t \in Threads,
             \/ \E d : ReviewLoad(t, d)
             \/ ReviewCommit(t) \/ ExportDraft(t) \/ ExportFinal(t)
             \/ \E format \in Formats : ExportGate(t, format)
      PROVE  DoomedInv'
  BY <1>3 DEF ReviewLoad, ReviewCommit, ExportGate, ExportDraft, ExportFinal, locals
<1>4. CASE UNCHANGED vars
  BY <1>4 DEF vars
<1> QED BY <1>1, <1>2, <1>3, <1>4 DEF Next

\* A finding, and so its review, survives every step but the commit of a run
\* of its own producer.
THEOREM ReviewsKept == Spec => OtherProducersKept
<1>1. Init => DoomedInv
  BY DEF Init, DoomedInv
<1>2. ASSUME TypeOK, DoomedInv, [Next]_vars
      PROVE  [\A i \in DOMAIN findings \ DOMAIN findings' :
                \E t \in Threads : pc[t] = "run_deleted" /\ run[t].producer = i[1]]_vars
  <2>1. ASSUME NEW t \in Threads, RunCommit(t), NEW i \in DOMAIN findings \ DOMAIN findings'
        PROVE  pc[t] = "run_deleted" /\ run[t].producer = i[1]
    BY <2>1, <1>2 DEF RunCommit, DoomedInv
  <2>2. ASSUME Next, \A t \in Threads : ~RunCommit(t)
        PROVE  DOMAIN findings' = DOMAIN findings
    BY <2>2 DEF Next, RunDelete, RunFindsNothing, ReviewLoad, ReviewCommit, ReviewRowGone,
                ReviewAudit, ExportGate, ExportDraft, ExportFinal, ExportSend, RequestDies, tables
  <2> QED BY <1>2, <2>1, <2>2
<1> QED BY <1>1, <1>2, DoomedNext, TypeCorrect, PTL DEF Spec, OtherProducersKept

-----------------------------------------------------------------------------
(* Runs of one producer.  A row that a run under way has not matched comes *)
(* from a run that was under way together with it, and so do the runs that *)
(* are under way now: whichever commits leaves its own rows and theirs.    *)

Together(m, n) == m # n => <<m, n>> \in overlaps /\ <<n, m>> \in overlaps

RunsInv ==
    /\ \A i, j \in DOMAIN findings : i[1] = j[1] => Together(i[2], j[2])
    /\ \A t \in Threads : pc[t] = "run_deleted" =>
        /\ \A i \in DOMAIN findings \ doomed[t] :
             i[1] = run[t].producer => Together(i[2], run[t].n)
        /\ \A u \in Threads : pc[u] = "run_deleted" => Together(run[u].n, run[t].n)

LEMMA TogetherStays ==
    ASSUME overlaps \subseteq overlaps'
    PROVE  \A m, n : Together(m, n) => Together(m, n)'
BY DEF Together

\* Steps that leave the runs under way and the rows alone
LEMMA RunsUntouched ==
    ASSUME RunsInv, DOMAIN findings' = DOMAIN findings, overlaps' = overlaps,
           \A u \in Threads : pc'[u] = "run_deleted" =>
             pc[u] = "run_deleted" /\ run'[u] = run[u] /\ doomed'[u] = doomed[u]
    PROVE  RunsInv'
BY DEF RunsInv, Together

LEMMA RunsNext == TypeOK /\ RunsInv /\ [Next]_vars => RunsInv'
<1> SUFFICES ASSUME TypeOK, RunsInv, [Next]_vars PROVE RunsInv'
  OBVIOUS
<1>1. ASSUME NEW t \in Threads, NEW p \in Producers, NEW size \in BatchSizes, RunDelete(t, p, size)
      PROVE  RunsInv'
  <2>1. /\ findings' = findings /\ pc[t] = "idle"
        /\ run'[t].producer = p /\ run'[t].n = runs + 1 /\ doomed'[t] = RowsOf(p)
        /\ \A u \in Threads \ {t} : pc'[u] = pc[u] /\ run'[u] = run[u] /\ doomed'[u] = doomed[u]
    BY <1>1 DEF RunDelete, TypeOK, tables
  <2>2. \A u \in Threads : pc[u] = "run_deleted" =>
          <<run[u].n, runs + 1>> \in overlaps' /\ <<runs + 1, run[u].n>> \in overlaps'
    BY <1>1 DEF RunDelete
  <2>3. overlaps \subseteq overlaps'
    BY <1>1 DEF RunDelete
  <2>4. \A i, j \in DOMAIN findings' : i[1] = j[1] => Together(i[2], j[2])'
    BY <2>1, <2>3, TogetherStays DEF RunsInv
  <2>5. ASSUME NEW u \in Threads, pc'[u] = "run_deleted",
               NEW i \in DOMAIN findings' \ doomed'[u], i[1] = run'[u].producer
        PROVE  u # t /\ Together(i[2], run[u].n)'
    <3>1. u # t
      BY <2>1, <2>5 DEF RowsOf
    <3> QED BY <3>1, <2>1, <2>3, <2>5 DEF RunsInv, Together
  <2>6. ASSUME NEW u \in Threads, NEW v \in Threads,
               pc'[u] = "run_deleted", pc'[v] = "run_deleted"
        PROVE  Together(run[u].n, run[v].n)'
    BY <2>1, <2>2, <2>3, <2>6 DEF RunsInv, Together
  <2> QED BY <2>4, <2>5, <2>6 DEF RunsInv
<1>2. ASSUME NEW t \in Threads, RunCommit(t)
      PROVE  RunsInv'
  <2>1. /\ pc[t] = "run_deleted" /\ pc'[t] = "idle" /\ overlaps' = overlaps
        /\ \A u \in Threads \ {t} : pc'[u] = pc[u] /\ run'[u] = run[u] /\ doomed'[u] = doomed[u]
    BY <1>2, LeaveKeepsTypes DEF RunCommit
  <2>2. \A i \in DOMAIN findings' :
          \/ i \in DOMAIN findings \ doomed[t]
          \/ i[1] = run[t].producer /\ i[2] = run[t].n
    BY <1>2 DEF RunCommit, Batch
  <2>3. ASSUME NEW i \in DOMAIN findings', NEW j \in DOMAIN findings', i[1] = j[1]
        PROVE  Together(i[2], j[2])
    BY <2>1, <2>2, <2>3 DEF RunsInv, Together
  <2>4. ASSUME NEW u \in Threads, pc'[u] = "run_deleted",
               NEW i \in DOMAIN findings' \ doomed'[u], i[1] = run'[u].producer
        PROVE  Together(i[2], run[u].n)
    BY <2>1, <2>2, <2>4 DEF RunsInv, Together
  <2> QED BY <2>1, <2>3, <2>4 DEF RunsInv, Together
<1>3. ASSUME NEW t \in Threads,
             ReviewRowGone(t) \/ ReviewAudit(t) \/ ExportSend(t) \/ RequestDies(t)
      PROVE  RunsInv'
  <2>1. Return(t) /\ findings' = findings /\ overlaps' = overlaps
    BY <1>3 DEF ReviewRowGone, ReviewAudit, ExportSend, RequestDies, tables, observed
  <2> QED BY <2>1, ReturnKeepsTypes, RunsUntouched
<1>4. ASSUME NEW t \in Threads,
             \/ \E p \in Producers : RunFindsNothing(t, p)
             \/ \E d : ReviewLoad(t, d)
             \/ ReviewCommit(t) \/ ExportDraft(t) \/ ExportFinal(t)
             \/ \E format \in Formats : ExportGate(t, format)
      PROVE  RunsInv'
  <2>1. /\ DOMAIN findings' = DOMAIN findings /\ overlaps' = overlaps
        /\ run' = run /\ doomed' = doomed
        /\ \A u \in Threads : pc'[u] = "run_deleted" => pc[u] = "run_deleted"
    BY <1>4 DEF TypeOK, RunFindsNothing, ReviewLoad, ReviewCommit, ExportGate, ExportDraft,
                ExportFinal, tables, observed, locals
  <2> QED BY <2>1, RunsUntouched
<1>5. CASE UNCHANGED vars
  BY <1>5, RunsUntouched DEF vars
<1> QED BY <1>1, <1>2, <1>3, <1>4, <1>5 DEF Next

\* However many threads run a producer, its run replaces the rows that were
\* there when it started: rows of two runs that did not overlap never stand side
\* by side.
THEOREM RunsReplaced == Spec => []RunsReplace
<1>1. Init => RunsInv
  BY DEF Init, RunsInv
<1>2. RunsInv => RunsReplace
  BY DEF RunsInv, RunsReplace, RowsOf, Together
<1> QED BY <1>1, <1>2, RunsNext, TypeCorrect, PTL DEF Spec

-----------------------------------------------------------------------------
(* Packs.  After the gate every row that awaits review was written since,  *)
(* and after the draft the findings differ from the hashed ones only where *)
(* they were written in between.                                           *)

GateHolds(t) ==
    \A i \in DOMAIN findings : findings[i].status \in Pending => i \in pack[t].since

Differ(a, b) == (a \ b) \cup (b \ a)

DraftHolds(t) ==
    \A e \in Differ(pack[t].hashed, Rendered(pack[t].format)) : e.id \in pack[t].between

PackReviewed(p) ==
    \A e \in p.content : e.status \in Pending => e.id \in p.since /\ p.format = "xlsx"

PackCovered(p) == \A e \in Differ(p.hashed, p.content) : e.id \in p.between

ExportInv ==
    /\ \A p \in packs : PackReviewed(p) /\ PackCovered(p)
    /\ \A t \in Threads :
        /\ pc[t] \in {"gate_passed", "drafted"} => GateHolds(t)
        /\ pc[t] = "drafted" => DraftHolds(t)
        /\ pc[t] = "rendered" => PackReviewed(pack[t]) /\ PackCovered(pack[t])

\* A commit that the exports under way have observed
LEMMA CommitKeeps ==
    ASSUME TypeOK, ExportInv, NEW ids \in SUBSET Ids, Touch(ids), packs' = packs,
           \A i : i \notin ids =>
             /\ i \in DOMAIN findings' <=> i \in DOMAIN findings
             /\ i \in DOMAIN findings => findings'[i] = findings[i],
           \A u \in Threads : pc'[u] \in Exporting => pc'[u] = pc[u]
    PROVE  ExportInv'
<1>1. ASSUME NEW u \in Threads, pc'[u] \in {"gate_passed", "drafted"}
      PROVE  GateHolds(u)'
  <2>1. pc[u] \in {"gate_passed", "drafted"} /\ pack'[u].since = pack[u].since \cup ids
    BY <1>1, TouchFacts DEF Exporting
  <2> QED BY <2>1 DEF ExportInv, GateHolds
<1>2. ASSUME NEW u \in Threads, pc'[u] = "drafted"
      PROVE  DraftHolds(u)'
  <2>1. /\ pc[u] = "drafted" /\ pack'[u].between = pack[u].between \cup ids
        /\ pack'[u].hashed = pack[u].hashed /\ pack'[u].format = pack[u].format
    BY <1>2, TouchFacts DEF Exporting
  <2>2. \A e : e.id \notin ids =>
          (e \in Rendered(pack[u].format)' <=> e \in Rendered(pack[u].format))
    BY <2>1 DEF Rendered
  <2> QED BY <2>1, <2>2 DEF ExportInv, DraftHolds, Differ
<1>3. ASSUME NEW u \in Threads, pc'[u] = "rendered"
      PROVE  pc[u] = "rendered" /\ pack'[u] = pack[u]
  BY <1>3, TouchFacts DEF Exporting
<1> QED BY <1>1, <1>2, <1>3 DEF ExportInv, PackReviewed, PackCovered, Differ

LEMMA ExportNext == TypeOK /\ ExportInv /\ [Next]_vars => ExportInv'
<1> SUFFICES ASSUME TypeOK, ExportInv, [Next]_vars PROVE ExportInv'
  OBVIOUS
<1>1. ASSUME findings' = findings, packs' = packs,
             \A u \in Threads : pc'[u] \in Exporting => pc'[u] = pc[u] /\ pack'[u] = pack[u]
      PROVE  ExportInv'
  BY <1>1 DEF ExportInv, Exporting, GateHolds, DraftHolds, Rendered, PackReviewed, PackCovered, Differ
<1>2. ASSUME NEW t \in Threads,
             \/ \E p \in Producers, size \in BatchSizes : RunDelete(t, p, size)
             \/ \E p \in Producers : RunFindsNothing(t, p)
             \/ \E d : ReviewLoad(t, d)
      PROVE  ExportInv'
  <2>1. /\ findings' = findings /\ packs' = packs /\ pack' = pack
        /\ \A u \in Threads : pc'[u] \in Exporting => pc'[u] = pc[u]
    BY <1>2 DEF RunDelete, RunFindsNothing, ReviewLoad, tables, observed, locals, TypeOK, Exporting
  <2> QED BY <2>1, <1>1
<1>3. ASSUME NEW t \in Threads, RunCommit(t)
      PROVE  ExportInv'
  <2>1. /\ pc[t] = "run_deleted" /\ packs' = packs /\ Touch(doomed[t] \cup Batch(run[t]))
        /\ \A u \in Threads : pc'[u] \in Exporting => pc'[u] = pc[u]
    BY <1>3, LeaveKeepsTypes DEF RunCommit, Exporting
  <2>2. doomed[t] \cup Batch(run[t]) \in SUBSET Ids
    BY <2>1, BatchIds DEF TypeOK
  <2>3. \A i : i \notin doomed[t] \cup Batch(run[t]) =>
          /\ i \in DOMAIN findings' <=> i \in DOMAIN findings
          /\ i \in DOMAIN findings => findings'[i] = findings[i]
    BY <1>3 DEF RunCommit
  <2> QED BY <2>1, <2>2, <2>3, CommitKeeps
<1>4. ASSUME NEW t \in Threads, ReviewCommit(t)
      PROVE  ExportInv'
  <2> PICK i : i = decision[t].id
    OBVIOUS
  <2>1. /\ i \in Ids /\ packs' = packs
        /\ \A u \in Threads : pc'[u] \in Exporting => pc'[u] = pc[u]
    BY <1>4 DEF ReviewCommit, TypeOK, Decision, Exporting
  <2>2. CASE findings' = findings /\ pack' = pack
    BY <2>1, <2>2, <1>1
  <2>3. CASE findings' = [findings EXCEPT ![i] = Flushed(t, @)] /\ Touch({i})
    <3>1. \A j : j \notin {i} =>
            /\ j \in DOMAIN findings' <=> j \in DOMAIN findings
            /\ j \in DOMAIN findings => findings'[j] = findings[j]
      BY <2>3
    <3> QED BY <2>1, <2>3, <3>1, CommitKeeps
  <2> QED BY <1>4, <2>2, <2>3 DEF ReviewCommit
<1>5. ASSUME NEW t \in Threads, ReviewRowGone(t) \/ ReviewAudit(t) \/ RequestDies(t)
      PROVE  ExportInv'
  <2>1. Return(t) /\ findings' = findings /\ packs' = packs
    BY <1>5 DEF ReviewRowGone, ReviewAudit, RequestDies, tables, observed
  <2> QED BY <2>1, <1>1, ReturnKeepsTypes DEF Exporting
<1>6. ASSUME NEW t \in Threads, NEW format \in Formats, ExportGate(t, format)
      PROVE  ExportInv'
  <2>1. /\ findings' = findings /\ packs' = packs /\ pc'[t] = "gate_passed"
        /\ \A u \in Threads \ {t} : pc'[u] = pc[u] /\ pack'[u] = pack[u]
    BY <1>6 DEF ExportGate, tables, observed, TypeOK
  <2>2. GateHolds(t)'
    BY <1>6 DEF ExportGate, ExportAllowed, GateHolds, tables
  <2> QED BY <2>1, <2>2 DEF ExportInv, GateHolds, DraftHolds, Rendered, PackReviewed, PackCovered, Differ
<1>7. ASSUME NEW t \in Threads, ExportDraft(t)
      PROVE  ExportInv'
  <2>1. /\ findings' = findings /\ packs' = packs /\ pc[t] = "gate_passed" /\ pc'[t] = "drafted"
        /\ \A u \in Threads \ {t} : pc'[u] = pc[u] /\ pack'[u] = pack[u]
    BY <1>7 DEF ExportDraft, tables, observed, TypeOK
  <2>2. /\ pack'[t].hashed = Rendered(pack[t].format)
        /\ pack'[t].format = pack[t].format /\ pack'[t].since = pack[t].since
    BY <1>7 DEF ExportDraft, TypeOK, Pack
  <2>3. GateHolds(t)'
    BY <2>1, <2>2 DEF ExportInv, GateHolds
  <2>4. DraftHolds(t)'
    BY <2>1, <2>2 DEF DraftHolds, Differ, Rendered
  <2> QED BY <2>1, <2>3, <2>4 DEF ExportInv, GateHolds, DraftHolds, Rendered, PackReviewed, PackCovered, Differ
<1>8. ASSUME NEW t \in Threads, ExportFinal(t)
      PROVE  ExportInv'
  <2>1. /\ findings' = findings /\ packs' = packs /\ pc[t] = "drafted" /\ pc'[t] = "rendered"
        /\ \A u \in Threads \ {t} : pc'[u] = pc[u] /\ pack'[u] = pack[u]
    BY <1>8 DEF ExportFinal, tables, observed, TypeOK
  <2>2. /\ pack'[t].content = Rendered(pack[t].format)
        /\ pack'[t].format = pack[t].format /\ pack'[t].since = pack[t].since
        /\ pack'[t].hashed = pack[t].hashed /\ pack'[t].between = pack[t].between
    BY <1>8 DEF ExportFinal, TypeOK, Pack
  <2>3. PackCovered(pack[t])'
    BY <2>1, <2>2 DEF ExportInv, DraftHolds, PackCovered, Differ
  <2>4. ASSUME NEW e \in Rendered(pack[t].format), e.status \in Pending
        PROVE  e.id \in pack[t].since /\ pack[t].format = "xlsx"
    <3>1. PICK j \in DOMAIN findings :
            /\ e.id = j /\ e.status = findings[j].status
            /\ pack[t].format = "xlsx" \/ findings[j].status \in Accepted
      BY <2>4 DEF Rendered
    <3> QED BY <2>1, <2>4, <3>1 DEF ExportInv, GateHolds, Pending, Accepted
  <2>5. PackReviewed(pack[t])'
    BY <2>2, <2>4 DEF PackReviewed
  <2> QED BY <2>1, <2>3, <2>5 DEF ExportInv, GateHolds, DraftHolds, Rendered, PackReviewed, PackCovered, Differ
<1>9. ASSUME NEW t \in Threads, ExportSend(t)
      PROVE  ExportInv'
  <2>1. /\ pc[t] = "rendered" /\ Return(t) /\ findings' = findings /\ packs' = packs \cup {pack[t]}
    BY <1>9 DEF ExportSend
  <2> QED BY <2>1, ReturnKeepsTypes
          DEF ExportInv, GateHolds, DraftHolds, Rendered, PackReviewed, PackCovered, Differ
<1>10. CASE UNCHANGED vars
  BY <1>10, <1>1 DEF vars
<1> QED BY <1>2, <1>3, <1>4, <1>5, <1>6, <1>7, <1>8, <1>9, <1>10 DEF Next

LEMMA ExportCorrect == Spec => []ExportInv
<1>1. Init => ExportInv
  BY DEF Init, ExportInv
<1> QED BY <1>1, ExportNext, TypeCorrect, PTL DEF Spec

\* With any number of runs and reviews around it, a pack shows what awaits
\* review only where the row was written after the gate, and only in a
\* spreadsheet.
THEOREM ReviewedExported == Spec => []NothingUnreviewedExported
<1>1. ExportInv => NothingUnreviewedExported
  BY DEF ExportInv, NothingUnreviewedExported, PackReviewed
<1> QED BY <1>1, ExportCorrect, PTL

\* Whatever commits around an export, the stamped hash and the pack disagree
\* only about rows written between the two renders.
THEOREM HashCovers == Spec => []HashCoversContent
<1>1. ExportInv => HashCoversContent
  BY DEF ExportInv, HashCoversContent, PackCovered, Differ
<1> QED BY <1>1, ExportCorrect, PTL
=============================================================================
