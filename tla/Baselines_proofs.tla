-------------------------- MODULE Baselines_proofs --------------------------
(***************************************************************************)
(* Proofs about Baselines, for every number of threads, findings and cost  *)
(* codes: type correctness, who may still write a sealed cost code, and    *)
(* that the watchlist follows the baselines.                               *)
(***************************************************************************)
EXTENDS Baselines, FiniteSetTheorems, TLAPS

CodeRow == [label : Labels \cup {None}, locked : BOOLEAN]
Row == [findings : SUBSET Findings, codes : [Codes -> Labels \cup {None}],
        audited : BOOLEAN, complete : BOOLEAN]
Job == [pc : PCs, findings : SUBSET Findings, codes : [Codes -> CodeRow],
        version : Nat, edit : [Codes -> Labels \cup {None}]]

\* A freeze past its first commit, and one past its audit record
PastCommit == {"committed", "audited", "seeding", "seeded", "locking"}
PastAudit == PastCommit \ {"committed"}

\* It knows the baseline it made, and the baseline is audited before its
\* watchlist is read.
JobOK(j) ==
    /\ j.pc \in PastCommit => j.version \in DOMAIN sealed
    /\ j.pc \in PastAudit => sealed[j.version].audited

TypeInv == TypeOK /\ \A t \in Threads : JobOK(job[t])

\* One thread moves on to pc.
Moves(t, pc) ==
    /\ job' \in [Threads -> Job]
    /\ job'[t].pc = pc
    /\ \A s \in Threads : s # t => job'[s] = job[s]

\* No baseline is lost or says anything else.
Kept ==
    /\ Len(sealed) <= Len(sealed')
    /\ \A v \in DOMAIN sealed :
          /\ v \in DOMAIN sealed'
          /\ sealed'[v].findings = sealed[v].findings
          /\ sealed'[v].codes = sealed[v].codes
          /\ sealed[v].audited => sealed'[v].audited

-----------------------------------------------------------------------------
(***************************************************************************)
(* What the steps do.                                                      *)
(***************************************************************************)
LEMMA TypeFacts ==
  ASSUME TypeInv
  PROVE  /\ job \in [Threads -> Job]
         /\ sealed \in Seq(Row)
         /\ Len(sealed) \in Nat
         /\ DOMAIN sealed = 1..Len(sealed)
         /\ sealed \in [1..Len(sealed) -> Row]
         /\ code \in [Codes -> CodeRow]
<1>1. job \in [Threads -> Job] /\ code \in [Codes -> CodeRow]
  BY DEF TypeInv, TypeOK, Job, CodeRow
<1>2. sealed \in Seq(Row)
  BY DEF TypeInv, TypeOK, Row
<1> QED
  BY <1>1, <1>2

LEMMA IdleTyped == /\ Idle \in Job
                   /\ Idle.pc = "idle"
                   /\ Idle.findings = {}
                   /\ NoCodes \in [Codes -> CodeRow]
                   /\ \A c \in Codes : NoCodes[c].label = None /\ ~NoCodes[c].locked
<1>1. NoCodes \in [Codes -> CodeRow]
  BY DEF NoCodes, CodeRow
<1>2. "idle" \in PCs
  BY DEF PCs
<1> QED
  BY <1>1, <1>2 DEF Idle, Job, NoCodes

LEMMA Moved ==
  ASSUME TypeInv, NEW t \in Threads, NEW j \in Job, job' = [job EXCEPT ![t] = j]
  PROVE  Moves(t, j.pc) /\ job'[t] = j
BY TypeFacts DEF Moves

LEMMA GotoMoves ==
  ASSUME TypeInv, NEW t \in Threads, NEW pc \in PCs, Goto(t, pc)
  PROVE  /\ Moves(t, pc)
         /\ job'[t].findings = job[t].findings
         /\ job'[t].codes = job[t].codes
         /\ job'[t].version = job[t].version
<1> DEFINE j == [job[t] EXCEPT !.pc = pc]
<1>1. job' = [job EXCEPT ![t] = j]
  BY DEF Goto
<1>2. j \in Job /\ j.pc = pc
  BY TypeFacts DEF Job
<1>3. Moves(t, j.pc) /\ job'[t] = j
  BY <1>1, <1>2, Moved
<1> QED
  BY <1>2, <1>3, TypeFacts DEF Job

LEMMA FinishMoves ==
  ASSUME TypeInv, NEW t \in Threads, Finish(t)
  PROVE  Moves(t, "idle")
BY IdleTyped, Moved DEF Finish

\* A column of one baseline is written.
LEMMA RowWritten ==
  ASSUME TypeInv, NEW v \in DOMAIN sealed, NEW r \in Row,
         sealed' = [sealed EXCEPT ![v] = r]
  PROVE  /\ sealed' \in Seq(Row)
         /\ Len(sealed') = Len(sealed)
         /\ DOMAIN sealed' = DOMAIN sealed
         /\ sealed'[v] = r
         /\ \A w \in DOMAIN sealed : w # v => sealed'[w] = sealed[w]
BY TypeFacts

LEMMA Unwritten ==
  ASSUME TypeInv, sealed' = sealed
  PROVE  Kept /\ sealed' \in Seq(Row) /\ Len(sealed') = Len(sealed)
<1>1. Len(sealed) <= Len(sealed)
  BY TypeFacts
<1> QED
  BY <1>1, TypeFacts DEF Kept

LEMMA Audits ==
  ASSUME TypeInv, NEW t \in Threads, FreezeAudit(t)
  PROVE  /\ Moves(t, "audited")
         /\ job'[t].findings = job[t].findings
         /\ job'[t].version = job[t].version
         /\ sealed' \in Seq(Row)
         /\ Len(sealed') = Len(sealed)
         /\ sealed'[job[t].version].audited
         /\ \A v \in DOMAIN sealed : sealed'[v].complete = sealed[v].complete
         /\ Kept
<1> DEFINE v == job[t].version
           r == [sealed[v] EXCEPT !.audited = TRUE]
<1>1. v \in DOMAIN sealed
  BY DEF TypeInv, JobOK, FreezeAudit, PastCommit
<1>2. r \in Row /\ r.audited /\ r.findings = sealed[v].findings
      /\ r.codes = sealed[v].codes /\ r.complete = sealed[v].complete
  BY <1>1, TypeFacts DEF Row
<1>3. sealed' = [sealed EXCEPT ![v] = r]
  BY DEF FreezeAudit
<1> HIDE DEF r
<1>4. /\ sealed' \in Seq(Row)
      /\ Len(sealed') = Len(sealed)
      /\ DOMAIN sealed' = DOMAIN sealed
      /\ sealed'[v] = r
      /\ \A w \in DOMAIN sealed : w # v => sealed'[w] = sealed[w]
  BY <1>1, <1>2, <1>3, RowWritten
<1>5. Kept
  BY <1>2, <1>4, TypeFacts DEF Kept
<1>6. /\ Moves(t, "audited")
      /\ job'[t].findings = job[t].findings
      /\ job'[t].version = job[t].version
  BY GotoMoves DEF FreezeAudit, PCs, FreezePCs
<1> QED
  BY <1>2, <1>4, <1>5, <1>6

\* The version a freeze counted is the next one, or another freeze took it.
LEMMA Commits ==
  ASSUME TypeInv, NEW t \in Threads, FreezeCommit(t)
  PROVE  /\ sealed' \in Seq(Row)
         /\ Kept
         /\ \A v \in DOMAIN sealed : sealed'[v] = sealed[v]
         /\ \/ /\ Moves(t, "committed")
               /\ job'[t].version = Len(sealed) + 1
               /\ job'[t].findings = job[t].findings
               /\ Len(sealed') = Len(sealed) + 1
               /\ sealed'[Len(sealed) + 1].findings = job[t].findings
               /\ \A c \in Codes : sealed'[Len(sealed) + 1].codes[c] = job[t].codes[c].label
               /\ ~sealed'[Len(sealed) + 1].complete
            \/ /\ Moves(t, "idle")
               /\ sealed' = sealed
<1>1. CASE job[t].version = Len(sealed) + 1
  <2> DEFINE labels == [c \in Codes |-> job[t].codes[c].label]
             r == [findings |-> job[t].findings, codes |-> labels,
                   audited |-> FALSE, complete |-> FALSE]
             j == [job[t] EXCEPT !.pc = "committed", !.codes = NoCodes]
  <2>1. labels \in [Codes -> Labels \cup {None}]
    BY TypeFacts DEF Job, CodeRow
  <2>2. r \in Row /\ r.findings = job[t].findings /\ r.codes = labels /\ ~r.complete
    BY <2>1, TypeFacts DEF Row, Job
  <2>3. sealed' = Append(sealed, r)
    BY <1>1 DEF FreezeCommit
  <2>4. \A c \in Codes : labels[c] = job[t].codes[c].label
    OBVIOUS
  <2> HIDE DEF r, labels
  <2>5. /\ sealed' \in Seq(Row)
        /\ Len(sealed') = Len(sealed) + 1
        /\ sealed'[Len(sealed) + 1] = r
        /\ \A v \in DOMAIN sealed : v \in DOMAIN sealed' /\ sealed'[v] = sealed[v]
    BY <2>2, <2>3, TypeFacts
  <2>6. job' = [job EXCEPT ![t] = j]
    BY <1>1 DEF FreezeCommit
  <2>7. /\ j \in Job /\ j.pc = "committed"
        /\ j.version = job[t].version /\ j.findings = job[t].findings
    BY IdleTyped, TypeFacts DEF Job, PCs, FreezePCs
  <2> HIDE DEF j
  <2>8. Moves(t, "committed") /\ job'[t] = j
    BY <2>6, <2>7, Moved
  <2>9. Kept
    BY <2>5, TypeFacts DEF Kept
  <2>10. /\ job'[t].version = Len(sealed) + 1
         /\ job'[t].findings = job[t].findings
    BY <1>1, <2>7, <2>8
  <2>11. /\ sealed'[Len(sealed) + 1].findings = job[t].findings
         /\ \A c \in Codes : sealed'[Len(sealed) + 1].codes[c] = job[t].codes[c].label
         /\ ~sealed'[Len(sealed) + 1].complete
    BY <2>2, <2>4, <2>5
  <2>12. \A v \in DOMAIN sealed : sealed'[v] = sealed[v]
    BY <2>5
  <2>13. Len(sealed') = Len(sealed) + 1 /\ sealed' \in Seq(Row)
    BY <2>5
  <2> QED
    BY <2>8, <2>9, <2>10, <2>11, <2>12, <2>13, Zenon
<1>2. CASE job[t].version # Len(sealed) + 1
  <2>1. sealed' = sealed /\ Moves(t, "idle")
    BY <1>2, FinishMoves DEF FreezeCommit
  <2>2. Kept /\ sealed' \in Seq(Row)
    BY <2>1, Unwritten
  <2> QED
    BY <2>1, <2>2
<1> QED
  BY <1>1, <1>2

LEMMA SeedReads ==
  ASSUME TypeInv, NEW t \in Threads, SeedRead(t)
  PROVE  /\ Moves(t, "seeding")
         /\ job'[t].version = job[t].version
         /\ job'[t].findings = Seeds(t)
<1> DEFINE j == [job[t] EXCEPT !.pc = "seeding", !.findings = Seeds(t)]
<1>1. Seeds(t) \in SUBSET Findings
  BY TypeFacts DEF Seeds, Job
<1>2. /\ j \in Job /\ j.pc = "seeding"
      /\ j.version = job[t].version /\ j.findings = Seeds(t)
  BY <1>1, TypeFacts DEF Job, PCs, FreezePCs
<1>3. job' = [job EXCEPT ![t] = j]
  BY DEF SeedRead
<1> HIDE DEF j
<1> QED
  BY <1>2, <1>3, Moved

LEMMA SeedCommits ==
  ASSUME TypeInv, NEW t \in Threads, SeedCommit(t)
  PROVE  /\ Moves(t, "seeded")
         /\ job'[t].version = job[t].version
<1> DEFINE j == [job[t] EXCEPT !.pc = "seeded", !.findings = {}]
<1>1. j \in Job /\ j.pc = "seeded" /\ j.version = job[t].version
  BY TypeFacts DEF Job, PCs, FreezePCs
<1>2. job' = [job EXCEPT ![t] = j]
  BY DEF SeedCommit
<1> HIDE DEF j
<1> QED
  BY <1>1, <1>2, Moved

LEMMA LockReads ==
  ASSUME TypeInv, NEW t \in Threads, LockRead(t)
  PROVE  /\ Moves(t, "locking")
         /\ job'[t].version = job[t].version
         /\ job'[t].codes = code
<1> DEFINE j == [job[t] EXCEPT !.pc = "locking", !.codes = code]
<1>1. j \in Job /\ j.pc = "locking" /\ j.version = job[t].version /\ j.codes = code
  BY TypeFacts DEF Job, PCs, FreezePCs
<1>2. job' = [job EXCEPT ![t] = j]
  BY DEF LockRead
<1> HIDE DEF j
<1> QED
  BY <1>1, <1>2, Moved

\* The codes it found are locked, and the baseline is complete; or one of them
\* has gone, and nothing is written.
LEMMA Locks ==
  ASSUME TypeInv, NEW t \in Threads, LockCommit(t)
  PROVE  /\ Moves(t, "idle")
         /\ sealed' \in Seq(Row)
         /\ Len(sealed') = Len(sealed)
         /\ Kept
         /\ \A v \in DOMAIN sealed : v # job[t].version => sealed'[v].complete = sealed[v].complete
         /\ \/ /\ sealed[job[t].version].audited
               /\ code' \in [Codes -> CodeRow]
               /\ \A c \in Codes :
                     /\ code'[c].label = code[c].label
                     /\ code[c].locked => code'[c].locked
                     /\ job[t].codes[c].label # None => code'[c].locked
            \/ code' = code /\ sealed' = sealed
<1> DEFINE found == Existing(job[t].codes)
           v == job[t].version
<1>0. /\ Moves(t, "idle")
      /\ v \in DOMAIN sealed
      /\ sealed[v].audited
  BY FinishMoves DEF LockCommit, TypeInv, JobOK, PastCommit, PastAudit
<1>1. CASE found \subseteq Existing(code)
  <2> DEFINE r == [sealed[v] EXCEPT !.complete = TRUE]
  <2>1. r \in Row /\ r.findings = sealed[v].findings /\ r.codes = sealed[v].codes
        /\ r.audited = sealed[v].audited
    BY <1>0, TypeFacts DEF Row
  <2>2. sealed' = [sealed EXCEPT ![v] = r]
    BY <1>1 DEF LockCommit
  <2> HIDE DEF r
  <2>3. /\ sealed' \in Seq(Row)
        /\ Len(sealed') = Len(sealed)
        /\ DOMAIN sealed' = DOMAIN sealed
        /\ sealed'[v] = r
        /\ \A w \in DOMAIN sealed : w # v => sealed'[w] = sealed[w]
    BY <1>0, <2>1, <2>2, RowWritten
  <2>4. Kept
    BY <2>1, <2>3, TypeFacts DEF Kept
  <2>5. code' = [c \in Codes |-> IF c \in found THEN [code[c] EXCEPT !.locked = TRUE]
                                ELSE code[c]]
    BY <1>1 DEF LockCommit
  <2>6. ASSUME NEW c \in Codes
        PROVE  LET k == [code[c] EXCEPT !.locked = TRUE]
               IN  k \in CodeRow /\ k.label = code[c].label /\ k.locked
    BY TypeFacts DEF CodeRow
  <2>7. \A c \in Codes : c \in found <=> job[t].codes[c].label # None
    BY DEF Existing
  <2> HIDE DEF found
  <2>8. /\ code' \in [Codes -> CodeRow]
        /\ \A c \in Codes :
              /\ code'[c].label = code[c].label
              /\ code[c].locked => code'[c].locked
              /\ job[t].codes[c].label # None => code'[c].locked
    BY <2>5, <2>6, <2>7, TypeFacts
  <2> QED
    BY <1>0, <2>3, <2>4, <2>8
<1>2. CASE ~(found \subseteq Existing(code))
  <2>1. code' = code /\ sealed' = sealed
    BY <1>2 DEF LockCommit
  <2>2. Kept /\ sealed' \in Seq(Row) /\ Len(sealed') = Len(sealed)
    BY <2>1, Unwritten
  <2> QED
    BY <1>0, <2>1, <2>2
<1> QED
  BY <1>1, <1>2

LEMMA FreezeReads ==
  ASSUME TypeInv, NEW t \in Threads
  PROVE  /\ FreezeGate(t) => Moves(t, "gate_passed")
         /\ FreezeFindings(t) => Moves(t, "findings_read")
         /\ FreezeCodes(t) => Moves(t, "built") /\ job'[t].codes = code
         /\ FreezeInsert(t) => Moves(t, "inserted") /\ job'[t].codes = job[t].codes
<1>1. ASSUME FreezeGate(t) PROVE Moves(t, "gate_passed")
  BY <1>1, GotoMoves DEF FreezeGate, PCs, FreezePCs
<1>2. ASSUME FreezeFindings(t) PROVE Moves(t, "findings_read")
  <2> DEFINE S == {f \in Findings : review[f] = "accepted"}
             j == [job[t] EXCEPT !.pc = "findings_read", !.findings = S]
  <2>1. j \in Job /\ j.pc = "findings_read"
    BY TypeFacts DEF Job, PCs, FreezePCs
  <2>2. job' = [job EXCEPT ![t] = j]
    BY <1>2 DEF FreezeFindings
  <2> HIDE DEF j
  <2> QED
    BY <2>1, <2>2, Moved
<1>3. ASSUME FreezeCodes(t) PROVE Moves(t, "built") /\ job'[t].codes = code
  <2> DEFINE j == [job[t] EXCEPT !.pc = "built", !.codes = code]
  <2>1. j \in Job /\ j.pc = "built" /\ j.codes = code
    BY TypeFacts DEF Job, PCs, FreezePCs
  <2>2. job' = [job EXCEPT ![t] = j]
    BY <1>3 DEF FreezeCodes
  <2> HIDE DEF j
  <2> QED
    BY <2>1, <2>2, Moved
<1>4. ASSUME FreezeInsert(t) PROVE Moves(t, "inserted") /\ job'[t].codes = job[t].codes
  <2> DEFINE j == [job[t] EXCEPT !.pc = "inserted", !.version = Len(sealed) + 1]
  <2>0. Len(sealed) + 1 \in Nat /\ "inserted" \in PCs
    BY TypeFacts DEF PCs, FreezePCs
  <2>1. j \in Job /\ j.pc = "inserted" /\ j.codes = job[t].codes
    BY <2>0, TypeFacts DEF Job
  <2>2. job' = [job EXCEPT ![t] = j]
    BY <1>4 DEF FreezeInsert
  <2> HIDE DEF j
  <2> QED
    BY <2>1, <2>2, Moved
<1> QED
  BY <1>1, <1>2, <1>3, <1>4

LEMMA UpsertLoads ==
  ASSUME TypeInv, NEW t \in Threads, NEW edit \in [Codes -> Labels \cup {None}],
         UpsertLoad(t, edit)
  PROVE  /\ Moves(t, "upserting")
         /\ job'[t].codes = code
         /\ job'[t].edit = edit
<1> DEFINE j == [Idle EXCEPT !.pc = "upserting", !.codes = code, !.edit = edit]
<1>1. j \in Job /\ j.pc = "upserting" /\ j.codes = code /\ j.edit = edit
  BY TypeFacts, IdleTyped DEF Job, PCs
<1>2. job' = [job EXCEPT ![t] = j]
  BY DEF UpsertLoad
<1> HIDE DEF j
<1> QED
  BY <1>1, <1>2, Moved

\* What an upsert leaves of a cost code.
LEMMA UpsertWrites ==
  ASSUME TypeInv, NEW t \in Threads, NEW new \in SUBSET Codes, UpsertCommit(t, new)
  PROVE  /\ Moves(t, "idle")
         /\ code' \in [Codes -> CodeRow]
         /\ \A c \in Codes :
               /\ code'[c].locked => code[c].locked
               /\ \/ code'[c] = code[c]
                  \/ c \in Deleted(t) \cup Changed(t) \cup new
               /\ \/ code'[c].label = None
                  \/ code[c].label # None
                  \/ c \in new
<1>0. Moves(t, "idle")
  BY FinishMoves DEF UpsertCommit
<1>1. PICK label \in Labels :
        code' = [c \in Codes |->
                    IF c \in Deleted(t) THEN NoCodes[c]
                    ELSE IF c \in Changed(t) THEN [code[c] EXCEPT !.label = job[t].edit[c]]
                    ELSE IF c \in new THEN [label |-> label, locked |-> FALSE]
                    ELSE code[c]]
  BY DEF UpsertCommit
<1>2. ASSUME NEW c \in Codes
      PROVE  /\ code'[c] \in CodeRow
             /\ code'[c].locked => code[c].locked
             /\ \/ code'[c] = code[c]
                \/ c \in Deleted(t) \cup Changed(t) \cup new
             /\ \/ code'[c].label = None
                \/ code[c].label # None
                \/ c \in new
  <2>1. CASE c \in Deleted(t)
    <3>1. code'[c] = NoCodes[c]
      BY <1>1, <2>1
    <3> QED
      BY <2>1, <3>1, IdleTyped
  <2>2. CASE c \notin Deleted(t) /\ c \in Changed(t)
    <3>1. code'[c] = [code[c] EXCEPT !.label = job[t].edit[c]]
      BY <1>1, <2>2
    <3>2. job[t].edit[c] \in Labels \cup {None} /\ code[c] \in CodeRow
      BY TypeFacts DEF Job
    <3>3. code[c].label # None
      BY <2>2 DEF UpsertCommit, Existing
    <3> QED
      BY <2>2, <3>1, <3>2, <3>3 DEF CodeRow
  <2>3. CASE c \notin Deleted(t) \cup Changed(t) /\ c \in new
    <3>1. code'[c] = [label |-> label, locked |-> FALSE]
      BY <1>1, <2>3
    <3> QED
      BY <2>3, <3>1 DEF CodeRow
  <2>4. CASE c \notin Deleted(t) \cup Changed(t) \cup new
    <3>1. code'[c] = code[c]
      BY <1>1, <2>4
    <3> QED
      BY <3>1, TypeFacts DEF CodeRow
  <2> QED
    BY <2>1, <2>2, <2>3, <2>4
<1>3. code' \in [Codes -> CodeRow]
  BY <1>1, <1>2
<1> QED
  BY <1>0, <1>2, <1>3

-----------------------------------------------------------------------------
(***************************************************************************)
(* Types.                                                                  *)
(***************************************************************************)
AuditedFirst == \A v \in DOMAIN sealed : sealed[v].complete => sealed[v].audited

\* The parts of TypeOK that a step of a thread can disturb
Rest ==
    /\ review \in [Findings -> Statuses]
    /\ spent \subseteq Codes
    /\ active \in [Findings -> Nat]
    /\ closed \in [Findings -> Nat]
    /\ reopened \in [Findings -> Nat]
    /\ closings \in Nat
    /\ inflight \in [Codes -> Nat]
    /\ late \in [Codes -> Nat]
    /\ slipped \subseteq Codes

LEMMA TypeParts ==
  TypeOK <=> /\ Rest
             /\ code \in [Codes -> CodeRow]
             /\ sealed \in Seq(Row)
             /\ AuditedFirst
             /\ job \in [Threads -> Job]
BY DEF TypeOK, Rest, CodeRow, Row, Job, AuditedFirst

LEMMA TypePartsNext ==
  TypeOK' <=> /\ Rest'
              /\ code' \in [Codes -> CodeRow]
              /\ sealed' \in Seq(Row)
              /\ AuditedFirst'
              /\ job' \in [Threads -> Job]
BY DEF TypeOK, Rest, CodeRow, Row, Job, AuditedFirst

LEMMA TypeInvInit == Init => TypeInv
<1> SUFFICES ASSUME Init PROVE TypeInv
  OBVIOUS
<1>1. sealed \in Seq(Row) /\ AuditedFirst
  BY DEF Init, AuditedFirst
<1>2. job \in [Threads -> Job] /\ \A t \in Threads : job[t].pc = "idle"
  BY IdleTyped DEF Init
<1>3. code \in [Codes -> CodeRow]
  BY IdleTyped DEF Init
<1>4. Rest
  BY DEF Init, Rest, Statuses
<1>5. TypeOK
  BY <1>1, <1>2, <1>3, <1>4, TypeParts
<1> QED
  BY <1>2, <1>5 DEF TypeInv, JobOK, PastCommit, PastAudit

\* What the thread that moves has to show.
LEMMA ThreadTyped ==
  ASSUME TypeInv, NEW t \in Threads, NEW pc, Moves(t, pc), Rest',
         code' \in [Codes -> CodeRow], sealed' \in Seq(Row), Kept, AuditedFirst',
         pc \in PastCommit => job'[t].version \in DOMAIN sealed',
         pc \in PastAudit => sealed'[job'[t].version].audited
  PROVE  TypeInv'
<1>1. TypeOK'
  BY TypePartsNext DEF Moves
<1>2. ASSUME NEW s \in Threads PROVE JobOK(job[s])'
  <2>1. CASE s = t
    BY <2>1 DEF JobOK, Moves
  <2>2. CASE s # t
    <3>1. job'[s] = job[s] /\ JobOK(job[s])
      BY <2>2 DEF Moves, TypeInv
    <3>2. job[s].pc \in PastAudit => job[s].pc \in PastCommit
      BY DEF PastAudit
    <3> QED
      BY <3>1, <3>2 DEF JobOK, Kept
  <2> QED
    BY <2>1, <2>2
<1> QED
  BY <1>1, <1>2 DEF TypeInv

\* It has not made a baseline yet, or goes on to what does not need one.
LEMMA EarlyTyped ==
  ASSUME TypeInv, NEW t \in Threads, NEW pc, Moves(t, pc), Rest',
         code' \in [Codes -> CodeRow], sealed' = sealed, pc \notin PastCommit
  PROVE  TypeInv'
<1>1. Kept /\ sealed' \in Seq(Row) /\ AuditedFirst'
  BY Unwritten, TypeParts DEF TypeInv, AuditedFirst
<1>2. pc \notin PastAudit
  BY DEF PastAudit
<1> QED
  BY <1>1, <1>2, ThreadTyped

\* It goes on with an audited baseline.
LEMMA LateTyped ==
  ASSUME TypeInv, NEW t \in Threads, NEW pc, Moves(t, pc), Rest',
         UNCHANGED <<code, sealed>>, job[t].pc \in PastAudit,
         job'[t].version = job[t].version
  PROVE  TypeInv'
<1>1. Kept /\ sealed' \in Seq(Row) /\ AuditedFirst' /\ code' \in [Codes -> CodeRow]
  BY Unwritten, TypeParts DEF TypeInv, AuditedFirst
<1>2. job[t].version \in DOMAIN sealed /\ sealed[job[t].version].audited
  BY DEF TypeInv, JobOK, PastAudit
<1> QED
  BY <1>1, <1>2, ThreadTyped

LEMMA TypeInvStep == TypeInv /\ [Next]_vars => TypeInv'
<1> SUFFICES ASSUME TypeInv, [Next]_vars PROVE TypeInv'
  OBVIOUS
<1>0. TypeOK /\ Rest /\ AuditedFirst /\ code \in [Codes -> CodeRow]
  BY TypeParts DEF TypeInv
<1> DEFINE Same == UNCHANGED <<code, sealed, job>>
<1>1. ASSUME Rest', Same PROVE TypeInv'
  <2>1. TypeOK'
    BY <1>0, <1>1, TypePartsNext, TypeFacts DEF AuditedFirst
  <2> QED
    BY <1>1, <2>1 DEF TypeInv, JobOK
<1>2. ASSUME NEW f \in Findings, NEW status \in Statuses, FindingChanges(f, status)
      PROVE  TypeInv'
  <2>1. Rest' /\ Same
    BY <1>0, <1>2 DEF FindingChanges, history, Rest
  <2> QED
    BY <1>1, <2>1
<1>3. ASSUME NEW f \in Findings, CloseControl(f) PROVE TypeInv'
  <2>1. Rest' /\ Same
    BY <1>0, <1>3 DEF CloseControl, writes, Rest
  <2> QED
    BY <1>1, <2>1
<1>4. ASSUME NEW f \in Findings, ReopenControl(f) PROVE TypeInv'
  <2>1. Rest' /\ Same
    BY <1>0, <1>4 DEF ReopenControl, writes, Rest
  <2> QED
    BY <1>1, <2>1
<1>5. ASSUME NEW t \in Threads,
             \/ FreezeGate(t) \/ FreezeFindings(t) \/ FreezeCodes(t)
             \/ FreezeInsert(t) \/ UpsertRollBack(t)
      PROVE  TypeInv'
  <2>1. UNCHANGED <<code, sealed>> /\ Rest'
    BY <1>0, <1>5 DEF FreezeGate, FreezeFindings, FreezeCodes, FreezeInsert, UpsertRollBack,
                      rows, history, Rest
  <2>2. PICK pc \in {"gate_passed", "findings_read", "built", "inserted", "idle"} :
           Moves(t, pc)
    BY <1>5, FreezeReads, FinishMoves DEF UpsertRollBack
  <2> QED
    BY <1>0, <2>1, <2>2, EarlyTyped DEF PastCommit
<1>6. ASSUME NEW t \in Threads, FreezeCommit(t) PROVE TypeInv'
  <2>1. Rest' /\ UNCHANGED code
    BY <1>0, <1>6 DEF FreezeCommit, history, Rest
  <2>2. CASE Moves(t, "idle") /\ sealed' = sealed
    BY <1>0, <2>1, <2>2, EarlyTyped DEF PastCommit
  <2>3. CASE ~(Moves(t, "idle") /\ sealed' = sealed)
    <3>1. /\ sealed' \in Seq(Row)
          /\ Kept
          /\ \A v \in DOMAIN sealed : sealed'[v] = sealed[v]
          /\ Moves(t, "committed")
          /\ job'[t].version = Len(sealed) + 1
          /\ Len(sealed') = Len(sealed) + 1
          /\ ~sealed'[Len(sealed) + 1].complete
      BY <1>6, <2>3, Commits
    <3>2. /\ job'[t].version \in DOMAIN sealed'
          /\ \A v \in DOMAIN sealed' : v \in DOMAIN sealed \/ v = Len(sealed) + 1
      BY <3>1, TypeFacts
    <3>3. AuditedFirst'
      BY <1>0, <3>1, <3>2 DEF AuditedFirst
    <3> QED
      BY <1>0, <2>1, <3>1, <3>2, <3>3, ThreadTyped DEF PastAudit
  <2> QED
    BY <2>2, <2>3
<1>7. ASSUME NEW t \in Threads, FreezeAudit(t) PROVE TypeInv'
  <2>1. Rest' /\ UNCHANGED code
    BY <1>0, <1>7 DEF FreezeAudit, history, Rest
  <2>2. job[t].version \in DOMAIN sealed
    BY <1>7 DEF FreezeAudit, TypeInv, JobOK, PastCommit
  <2>3. DOMAIN sealed' = DOMAIN sealed
    BY <1>7, Audits, TypeFacts
  <2>4. AuditedFirst'
    BY <1>0, <1>7, <2>3, Audits DEF AuditedFirst, Kept
  <2> QED
    BY <1>0, <1>7, <2>1, <2>2, <2>3, <2>4, Audits, ThreadTyped
<1>8. ASSUME NEW t \in Threads, SeedRead(t) \/ SeedCommit(t) \/ LockRead(t) PROVE TypeInv'
  <2>1. UNCHANGED <<code, sealed>> /\ job[t].pc \in PastAudit
    BY <1>8 DEF SeedRead, SeedCommit, LockRead, rows, PastAudit, PastCommit
  <2>2. Rest'
    <3>1. CASE SeedRead(t) \/ LockRead(t)
      BY <1>0, <3>1 DEF SeedRead, LockRead, rows, history, Rest
    <3>2. CASE SeedCommit(t)
      <4>1. active' \in [Findings -> Nat]
        BY <1>0, <3>2 DEF SeedCommit, Rest
      <4> QED
        BY <1>0, <3>2, <4>1 DEF SeedCommit, history, Rest
    <3> QED
      BY <1>8, <3>1, <3>2
  <2>3. PICK pc \in {"seeding", "seeded", "locking"} :
           Moves(t, pc) /\ job'[t].version = job[t].version
    BY <1>8, SeedReads, SeedCommits, LockReads
  <2> QED
    BY <2>1, <2>2, <2>3, LateTyped
<1>9. ASSUME NEW t \in Threads, LockCommit(t) PROVE TypeInv'
  <2>1. Rest'
    <3>1. Cardinality(Upserting) \in Nat
      <4>1. Upserting \in SUBSET Threads
        BY DEF Upserting
      <4> QED
        BY <4>1, ThreadsAssumption, FS_Subset, FS_CardinalityType
    <3>2. inflight' \in [Codes -> Nat]
      BY <1>0, <1>9, <3>1 DEF LockCommit, Rest
    <3> QED
      BY <1>0, <1>9, <3>2 DEF LockCommit, Rest
  <2>2. CASE code' = code /\ sealed' = sealed
    BY <1>0, <1>9, <2>1, <2>2, Locks, EarlyTyped DEF PastCommit
  <2>3. CASE ~(code' = code /\ sealed' = sealed)
    <3>1. /\ Moves(t, "idle")
          /\ sealed' \in Seq(Row)
          /\ DOMAIN sealed' = DOMAIN sealed
          /\ Kept
          /\ sealed[job[t].version].audited
          /\ code' \in [Codes -> CodeRow]
          /\ \A v \in DOMAIN sealed : v # job[t].version => sealed'[v].complete = sealed[v].complete
      BY <1>9, <2>3, Locks, TypeFacts
    <3>2. AuditedFirst'
      BY <1>0, <3>1 DEF AuditedFirst, Kept
    <3> QED
      BY <2>1, <3>1, <3>2, ThreadTyped DEF PastCommit, PastAudit
  <2> QED
    BY <2>2, <2>3
<1>10. ASSUME NEW t \in Threads, NEW edit \in [Codes -> Labels \cup {None}], UpsertLoad(t, edit)
       PROVE  TypeInv'
  <2>1. UNCHANGED <<code, sealed>> /\ Rest'
    BY <1>0, <1>10 DEF UpsertLoad, rows, history, Rest
  <2> QED
    BY <1>0, <1>10, <2>1, UpsertLoads, EarlyTyped DEF PastCommit
<1>11. ASSUME NEW t \in Threads, NEW new \in SUBSET Codes, UpsertCommit(t, new) PROVE TypeInv'
  <2>1. UNCHANGED sealed /\ Rest'
    <3>1. late' \in [Codes -> Nat]
      BY <1>0, <1>11 DEF UpsertCommit, Rest
    <3>2. Written(t) \subseteq Codes
      BY DEF Written, Existing, Changed
    <3>3. slipped' \subseteq Codes
      BY <1>0, <1>11, <3>2 DEF UpsertCommit, Rest
    <3> QED
      BY <1>0, <1>11, <3>1, <3>3 DEF UpsertCommit, Rest
  <2> QED
    BY <1>11, <2>1, UpsertWrites, EarlyTyped DEF PastCommit
<1>12. CASE Crash
  <2>1. /\ job' \in [Threads -> Job]
        /\ \A t \in Threads : job'[t].pc = "idle"
    BY <1>12, IdleTyped DEF Crash
  <2>2. UNCHANGED <<code, sealed>> /\ Rest'
    BY <1>0, <1>12 DEF Crash, rows, history, Rest
  <2>3. TypeOK'
    BY <1>0, <2>1, <2>2, TypePartsNext, TypeFacts DEF AuditedFirst
  <2> QED
    BY <2>1, <2>3 DEF TypeInv, JobOK, PastCommit, PastAudit
<1>13. CASE UNCHANGED vars
  <2>1. Rest' /\ Same
    BY <1>0, <1>13 DEF vars, Rest
  <2> QED
    BY <1>1, <2>1
<1> QED
  BY <1>2, <1>3, <1>4, <1>5, <1>6, <1>7, <1>8, <1>9, <1>10, <1>11, <1>12, <1>13 DEF Next

\* Every state has the type TypeOK gives it, and a baseline is complete only once
\* its seal is in the audit log: seed_watchlist and _lock_cost_codes come after.
THEOREM TypeCorrect == Spec => []TypeOK
<1>1. TypeInv => TypeOK
  BY DEF TypeInv
<1> QED
  BY <1>1, TypeInvInit, TypeInvStep, PTL DEF Spec

-----------------------------------------------------------------------------
(***************************************************************************)
(* Sealed cost codes.  A row's id is given out once, so a row that is gone *)
(* stays gone; what a freeze read is still so, or has been overwritten     *)
(* while the freeze was sealing.                                           *)
(***************************************************************************)
\* What a thread relies on from one step to the next
Relies(j) ==
    /\ j.pc \in {"built", "inserted"} =>
          \A c \in Codes : j.codes[c].label # None =>
             c \in spent /\ (c \in slipped \/ j.codes[c].label = code[c].label)
    /\ j.pc \in PastCommit =>
          \A c \in Codes : sealed[j.version].codes[c] # None =>
             c \in slipped \/ sealed[j.version].codes[c] = code[c].label
    /\ j.pc = "locking" =>
          \A c \in Codes : sealed[j.version].codes[c] # None /\ j.codes[c].label = None =>
             code[c].label = None

EditOK(j) ==
    j.pc = "upserting" =>
       \A c \in Codes : j.edit[c] # None => j.codes[c].label # None /\ ~j.codes[c].locked

\* The rows a complete baseline seals are locked or gone, and as it sealed them
\* unless they were overwritten.
Sealed(v) ==
    \A c \in Codes : sealed[v].codes[c] # None =>
        /\ code[c].locked \/ code[c].label = None
        /\ sealed[v].codes[c] = code[c].label \/ c \in slipped \/ late[c] > 0

KeepInv ==
    /\ \A c \in Codes : code[c].label # None => c \in spent
    /\ \A v \in DOMAIN sealed, c \in Codes : sealed[v].codes[c] # None => c \in spent
    /\ \A t \in Threads : EditOK(job[t]) /\ Relies(job[t])
    /\ \A v \in Complete : Sealed(v)

LEMMA KeepInvInit == Init => KeepInv
<1> SUFFICES ASSUME Init PROVE KeepInv
  OBVIOUS
<1>1. \A t \in Threads : job[t].pc = "idle"
  BY IdleTyped DEF Init
<1>2. Complete = {} /\ DOMAIN sealed = {}
  BY DEF Init, Complete
<1>3. \A c \in Codes : code[c].label = None
  BY IdleTyped DEF Init
<1> QED
  BY <1>1, <1>2, <1>3 DEF KeepInv, Relies, EditOK, PastCommit

\* No step but the end of a freeze makes a baseline complete.
SealsSame ==
    /\ DOMAIN sealed' = DOMAIN sealed
    /\ \A v \in DOMAIN sealed : /\ sealed'[v].codes = sealed[v].codes
                                /\ sealed'[v].complete = sealed[v].complete

\* Cost codes and seals stay; the thread that moves shows what it relies on.
LEMMA KeepQuiet ==
  ASSUME TypeInv, TypeInv', KeepInv, NEW t \in Threads, NEW pc, Moves(t, pc),
         UNCHANGED <<code, spent, late, slipped>>, SealsSame,
         EditOK(job'[t]), Relies(job'[t])
  PROVE  KeepInv'
<1>1. ASSUME NEW s \in Threads PROVE EditOK(job[s])' /\ Relies(job[s])'
  <2>1. EditOK(job'[s]) /\ Relies(job'[s])
    BY DEF Moves, KeepInv
  <2>2. job'[s].pc \in PastCommit => job'[s].version \in DOMAIN sealed
    BY DEF TypeInv, JobOK, SealsSame
  <2>3. job'[s].pc = "locking" => job'[s].pc \in PastCommit
    BY DEF PastCommit
  <2> QED
    BY <2>1, <2>2, <2>3 DEF Relies, EditOK, SealsSame
<1>2. ASSUME NEW v \in Complete' PROVE Sealed(v)'
  <2>1. v \in Complete /\ Sealed(v) /\ v \in DOMAIN sealed
    BY <1>2 DEF Complete, SealsSame, KeepInv
  <2> QED
    BY <2>1 DEF Sealed, SealsSame
<1>3. \A v \in DOMAIN sealed', c \in Codes : sealed'[v].codes[c] # None => c \in spent'
  BY DEF KeepInv, SealsSame
<1> QED
  BY <1>1, <1>2, <1>3 DEF KeepInv

LEMMA AuditedKept ==
  ASSUME TypeInv, TypeInv', KeepInv, NEW t \in Threads, FreezeAudit(t)
  PROVE  KeepInv'
<1>1. SealsSame
  BY Audits, TypeFacts DEF SealsSame, Kept
<1>2. job'[t].pc = "audited" /\ job'[t].version = job[t].version /\ job[t].pc = "committed"
  BY Audits DEF Moves, FreezeAudit
<1>3. Relies(job'[t]) /\ EditOK(job'[t])
  BY <1>2 DEF Relies, EditOK, PastCommit, KeepInv
<1>4. UNCHANGED <<code, spent, late, slipped>>
  BY DEF FreezeAudit, history
<1> QED
  BY <1>1, <1>3, <1>4, Audits, KeepQuiet

\* The new baseline seals what its freeze read of the cost codes.
LEMMA CommitKept ==
  ASSUME TypeInv, TypeInv', KeepInv, NEW t \in Threads, FreezeCommit(t)
  PROVE  KeepInv'
<1>0. job[t].pc = "inserted" /\ UNCHANGED <<code, spent, late, slipped>>
  BY DEF FreezeCommit, history
<1>1. CASE Moves(t, "idle") /\ sealed' = sealed
  <2>1. SealsSame
    BY <1>1 DEF SealsSame
  <2>2. Relies(job'[t]) /\ EditOK(job'[t])
    BY <1>1 DEF Relies, EditOK, Moves, PastCommit
  <2> QED
    BY <1>0, <1>1, <2>1, <2>2, KeepQuiet
<1>2. CASE ~(Moves(t, "idle") /\ sealed' = sealed)
  <2> DEFINE n == Len(sealed) + 1
  <2>1. /\ \A v \in DOMAIN sealed : sealed'[v] = sealed[v]
        /\ Moves(t, "committed")
        /\ job'[t].version = n
        /\ DOMAIN sealed' = 1..n
        /\ \A c \in Codes : sealed'[n].codes[c] = job[t].codes[c].label
        /\ ~sealed'[n].complete
    BY <1>2, Commits, TypeFacts
  <2>2. /\ n \in Nat
        /\ \A v \in 1..n : v \in DOMAIN sealed \/ v = n
        /\ \A v \in DOMAIN sealed : v \in 1..n
    BY TypeFacts
  <2> HIDE DEF n
  <2>3. ASSUME NEW c \in Codes, sealed'[n].codes[c] # None
        PROVE  c \in spent /\ (c \in slipped \/ sealed'[n].codes[c] = code[c].label)
    BY <1>0, <2>1, <2>3 DEF KeepInv, Relies
  <2>4. Complete' = Complete
    BY <2>1, <2>2 DEF Complete
  <2>5. \A s \in Threads : EditOK(job'[s])
    BY <2>1 DEF Moves, KeepInv, EditOK
  <2>6. ASSUME NEW s \in Threads PROVE Relies(job[s])'
    <3>1. CASE s = t
      <4>1. job'[s].pc = "committed" /\ job'[s].version = n
        BY <2>1, <3>1 DEF Moves
      <4> QED
        BY <1>0, <2>3, <4>1 DEF Relies
    <3>2. CASE s # t
      <4>1. job'[s] = job[s] /\ Relies(job[s])
        BY <2>1, <3>2 DEF Moves, KeepInv
      <4>2. job[s].pc \in PastCommit => sealed'[job[s].version] = sealed[job[s].version]
        BY <2>1 DEF TypeInv, JobOK
      <4>3. job[s].pc = "locking" => job[s].pc \in PastCommit
        BY DEF PastCommit
      <4> QED
        BY <1>0, <4>1, <4>2, <4>3 DEF Relies
    <3> QED
      BY <3>1, <3>2
  <2>7. ASSUME NEW v \in Complete PROVE Sealed(v)'
    <3>1. v \in DOMAIN sealed /\ Sealed(v)
      BY <2>7 DEF Complete, KeepInv
    <3>2. sealed'[v] = sealed[v]
      BY <2>1, <3>1
    <3> QED
      BY <1>0, <3>1, <3>2 DEF Sealed
  <2>8. \A v \in DOMAIN sealed', c \in Codes : sealed'[v].codes[c] # None => c \in spent
    BY <2>1, <2>2, <2>3 DEF KeepInv
  <2> QED
    BY <1>0, <2>4, <2>5, <2>6, <2>7, <2>8 DEF KeepInv, EditOK
<1> QED
  BY <1>1, <1>2

\* The rows the completed baseline seals have been found and locked, or are gone.
LEMMA LockKept ==
  ASSUME TypeInv, TypeInv', KeepInv, NEW t \in Threads, LockCommit(t)
  PROVE  KeepInv'
<1>0. job[t].pc = "locking" /\ UNCHANGED <<spent, late, slipped>>
  BY DEF LockCommit
<1>1. CASE code' = code /\ sealed' = sealed
  <2>1. SealsSame
    BY <1>1 DEF SealsSame
  <2>2. Relies(job'[t]) /\ EditOK(job'[t])
    BY Locks DEF Relies, EditOK, Moves, PastCommit
  <2> QED
    BY <1>0, <1>1, <2>1, <2>2, Locks, KeepQuiet
<1>2. CASE ~(code' = code /\ sealed' = sealed)
  <2> DEFINE v == job[t].version
  <2>1. /\ Moves(t, "idle")
        /\ DOMAIN sealed' = DOMAIN sealed
        /\ \A w \in DOMAIN sealed : sealed'[w].codes = sealed[w].codes
        /\ \A w \in DOMAIN sealed : w # v => sealed'[w].complete = sealed[w].complete
        /\ \A c \in Codes : /\ code'[c].label = code[c].label
                            /\ code[c].locked => code'[c].locked
                            /\ job[t].codes[c].label # None => code'[c].locked
    BY <1>2, Locks, TypeFacts DEF Kept
  <2>2. v \in DOMAIN sealed
    BY <1>0, TypeFacts DEF TypeInv, JobOK, PastCommit
  <2>3. \A s \in Threads : EditOK(job'[s])
    BY <2>1 DEF Moves, KeepInv, EditOK
  <2>4. Complete' \subseteq Complete \cup {v}
    BY <2>1 DEF Complete
  <2>5. ASSUME NEW s \in Threads PROVE Relies(job[s])'
    <3>1. CASE s = t
      BY <2>1, <3>1 DEF Moves, Relies, PastCommit
    <3>2. CASE s # t
      <4>1. job'[s] = job[s] /\ Relies(job[s])
        BY <2>1, <3>2 DEF Moves, KeepInv
      <4>2. job[s].pc \in PastCommit => job[s].version \in DOMAIN sealed
        BY DEF TypeInv, JobOK
      <4>3. job[s].pc = "locking" => job[s].pc \in PastCommit
        BY DEF PastCommit
      <4> QED
        BY <1>0, <2>1, <4>1, <4>2, <4>3 DEF Relies
    <3> QED
      BY <3>1, <3>2
  <2> HIDE DEF v
  <2>6. ASSUME NEW c \in Codes, sealed[v].codes[c] # None
        PROVE  /\ c \in slipped \/ sealed[v].codes[c] = code[c].label
               /\ job[t].codes[c].label # None \/ code[c].label = None
    BY <1>0, <2>6 DEF KeepInv, Relies, PastCommit, v
  <2>7. ASSUME NEW u \in Complete' PROVE Sealed(u)'
    <3>1. CASE u \in Complete
      <4>1. Sealed(u) /\ u \in DOMAIN sealed
        BY <3>1 DEF KeepInv, Complete
      <4> QED
        BY <1>0, <2>1, <4>1 DEF Sealed
    <3>2. CASE u = v
      BY <1>0, <2>1, <2>2, <2>6, <3>2 DEF Sealed
    <3> QED
      BY <2>4, <2>7, <3>1, <3>2
  <2>8. /\ \A c \in Codes : code'[c].label # None => c \in spent'
        /\ \A w \in DOMAIN sealed', c \in Codes : sealed'[w].codes[c] # None => c \in spent'
    BY <1>0, <2>1 DEF KeepInv
  <2> QED
    BY <2>3, <2>5, <2>7, <2>8 DEF KeepInv, EditOK
<1> QED
  BY <1>1, <1>2

\* An upsert leaves the rows it does not write, and brings back none that is gone.
LEMMA UpsertChanges ==
  ASSUME TypeInv, KeepInv, NEW t \in Threads, NEW new \in SUBSET Codes, UpsertCommit(t, new)
  PROVE  /\ \A c \in spent : code[c].label = None => code'[c].label = None
         /\ \A c \in spent \ Written(t) : code'[c].label = code[c].label
         /\ \A c \in spent : code[c].locked => code'[c].locked \/ code'[c].label = None
         /\ spent \subseteq Codes
<1>1. PICK label \in Labels :
        code' = [c \in Codes |->
                    IF c \in Deleted(t) THEN NoCodes[c]
                    ELSE IF c \in Changed(t) THEN [code[c] EXCEPT !.label = job[t].edit[c]]
                    ELSE IF c \in new THEN [label |-> label, locked |-> FALSE]
                    ELSE code[c]]
  BY DEF UpsertCommit
<1>2. spent \subseteq Codes
  BY TypeParts DEF TypeInv, Rest
<1>3. ASSUME NEW c \in spent
      PROVE  /\ code[c].label = None => code'[c].label = None
             /\ c \notin Written(t) => code'[c].label = code[c].label
             /\ code[c].locked => code'[c].locked \/ code'[c].label = None
  <2>1. c \in Codes /\ c \notin new
    BY <1>2 DEF UpsertCommit
  <2>2. CASE c \in Deleted(t)
    <3>1. code'[c].label = None
      BY <1>1, <2>1, <2>2, IdleTyped
    <3>2. c \notin Written(t) => code[c].label = None
      BY <2>1, <2>2 DEF Written, Existing
    <3> QED
      BY <3>1, <3>2
  <2>3. CASE c \notin Deleted(t) /\ c \in Changed(t)
    <3>1. code'[c] = [code[c] EXCEPT !.label = job[t].edit[c]]
      BY <1>1, <2>1, <2>3
    <3>2. code[c] \in CodeRow
      BY <2>1, TypeFacts
    <3>3. code'[c].locked = code[c].locked
      BY <3>1, <3>2 DEF CodeRow
    <3>4. code[c].label # None /\ c \in Written(t)
      BY <2>3 DEF UpsertCommit, Existing, Written
    <3> QED
      BY <3>3, <3>4
  <2>4. CASE c \notin Deleted(t) \cup Changed(t)
    BY <1>1, <2>1, <2>4
  <2> QED
    BY <2>2, <2>3, <2>4
<1> QED
  BY <1>2, <1>3

LEMMA UpsertKept ==
  ASSUME TypeInv, TypeInv', KeepInv, NEW t \in Threads, NEW new \in SUBSET Codes,
         UpsertCommit(t, new)
  PROVE  KeepInv'
<1>1. /\ spent' = spent \cup new
      /\ late' = [c \in Codes |-> IF Frozen(c) /\ c \in Written(t) THEN late[c] + 1 ELSE late[c]]
      /\ slipped' = IF \E s \in Threads : job[s].pc \in Sealing
                    THEN slipped \cup Written(t) ELSE slipped
      /\ UNCHANGED sealed
  BY DEF UpsertCommit
<1>2. /\ Moves(t, "idle")
      /\ \A c \in Codes : code'[c].label = None \/ code[c].label # None \/ c \in new
  BY UpsertWrites
<1>3. /\ \A c \in spent : code[c].label = None => code'[c].label = None
      /\ \A c \in spent \ Written(t) : code'[c].label = code[c].label
      /\ \A c \in spent : code[c].locked => code'[c].locked \/ code'[c].label = None
      /\ spent \subseteq Codes
  BY UpsertChanges
<1>4. /\ \A c \in Codes : code'[c].label # None => c \in spent'
      /\ \A v \in DOMAIN sealed', c \in Codes : sealed'[v].codes[c] # None => c \in spent'
  BY <1>1, <1>2 DEF KeepInv
<1>5. \A s \in Threads : EditOK(job'[s])
  BY <1>2 DEF Moves, KeepInv, EditOK
<1>6. ASSUME NEW s \in Threads PROVE Relies(job[s])'
  <2>1. CASE s = t
    BY <1>2, <2>1 DEF Moves, Relies, PastCommit
  <2>2. CASE s # t
    <3>1. job'[s] = job[s] /\ Relies(job[s])
      BY <1>2, <2>2 DEF Moves, KeepInv
    <3>2. job[s].pc \in PastCommit \cup {"built", "inserted"} => slipped' = slipped \cup Written(t)
      BY <1>1 DEF PastCommit, Sealing, FreezePCs
    <3>3. job[s].pc \in PastCommit => job[s].version \in DOMAIN sealed
      BY DEF TypeInv, JobOK
    <3>4. job[s].pc = "locking" => job[s].pc \in PastCommit
      BY DEF PastCommit
    <3>5. job[s].pc \in PastCommit =>
            \A c \in Codes : sealed[job[s].version].codes[c] # None => c \in spent
      BY <3>3 DEF KeepInv
    <3>6. job[s].pc \in {"built", "inserted"} =>
            \A c \in Codes : job[s].codes[c].label # None =>
               c \in spent' /\ (c \in slipped' \/ job[s].codes[c].label = code'[c].label)
      BY <1>1, <1>3, <3>1, <3>2 DEF Relies
    <3>7. job[s].pc \in PastCommit =>
            \A c \in Codes : sealed[job[s].version].codes[c] # None =>
               c \in slipped' \/ sealed[job[s].version].codes[c] = code'[c].label
      BY <1>3, <3>1, <3>2, <3>5 DEF Relies
    <3>8. job[s].pc = "locking" =>
            \A c \in Codes : sealed[job[s].version].codes[c] # None /\ job[s].codes[c].label = None =>
               code'[c].label = None
      BY <1>3, <3>1, <3>4, <3>5 DEF Relies
    <3> QED
      BY <1>1, <3>1, <3>6, <3>7, <3>8 DEF Relies
  <2> QED
    BY <2>1, <2>2
<1>7. ASSUME NEW v \in Complete' PROVE Sealed(v)'
  <2>1. v \in Complete /\ Sealed(v) /\ v \in DOMAIN sealed
    BY <1>1, <1>7 DEF Complete, KeepInv
  <2>2. ASSUME NEW c \in Codes, sealed[v].codes[c] # None
        PROVE  /\ code'[c].locked \/ code'[c].label = None
               /\ sealed[v].codes[c] = code'[c].label \/ c \in slipped' \/ late'[c] > 0
    <3>1. c \in spent /\ Frozen(c) /\ late[c] \in Nat
      BY <2>1, <2>2, TypeParts DEF KeepInv, Frozen, TypeInv, Rest
    <3>2. code[c].locked \/ code[c].label = None
      BY <2>1, <2>2 DEF Sealed
    <3>3. late'[c] = IF c \in Written(t) THEN late[c] + 1 ELSE late[c]
      BY <1>1, <3>1
    <3>4. sealed[v].codes[c] = code[c].label \/ c \in slipped \/ late[c] > 0
      BY <2>1, <2>2 DEF Sealed
    <3>5. c \in slipped => c \in slipped'
      BY <1>1
    <3>6. CASE c \in Written(t)
      BY <1>3, <3>1, <3>2, <3>3, <3>6
    <3>7. CASE c \notin Written(t)
      BY <1>3, <3>1, <3>2, <3>3, <3>4, <3>5, <3>7
    <3> QED
      BY <3>6, <3>7
  <2> QED
    BY <1>1, <2>2 DEF Sealed
<1> QED
  BY <1>4, <1>5, <1>6, <1>7 DEF KeepInv, EditOK

LEMMA UpsertLoadKept ==
  ASSUME TypeInv, TypeInv', KeepInv, NEW t \in Threads,
         NEW edit \in [Codes -> Labels \cup {None}], UpsertLoad(t, edit)
  PROVE  KeepInv'
<1>1. /\ UNCHANGED <<code, spent, sealed, late, slipped>>
      /\ \A c \in Codes : edit[c] # None => code[c].label # None /\ ~code[c].locked
  BY DEF UpsertLoad, rows, history
<1>2. Moves(t, "upserting") /\ job'[t].codes = code /\ job'[t].edit = edit
  BY UpsertLoads
<1>3. EditOK(job'[t]) /\ Relies(job'[t])
  BY <1>1, <1>2 DEF EditOK, Relies, Moves, PastCommit
<1>4. SealsSame
  BY <1>1 DEF SealsSame
<1> QED
  BY <1>1, <1>2, <1>3, <1>4, KeepQuiet

\* The steps of a freeze that write no cost code and no baseline.
LEMMA FreezeKept ==
  ASSUME TypeInv, TypeInv', KeepInv, NEW t \in Threads,
         \/ FreezeGate(t) \/ FreezeFindings(t) \/ FreezeCodes(t) \/ FreezeInsert(t)
         \/ SeedRead(t) \/ SeedCommit(t) \/ LockRead(t)
  PROVE  KeepInv'
<1>0. UNCHANGED <<code, spent, sealed, late, slipped>>
  BY DEF FreezeGate, FreezeFindings, FreezeCodes, FreezeInsert, SeedRead, SeedCommit, LockRead,
         rows, history
<1>1. SealsSame
  BY <1>0 DEF SealsSame
<1>2. ASSUME NEW pc \in FreezePCs, Moves(t, pc), Relies(job'[t])
      PROVE  KeepInv'
  <2>1. EditOK(job'[t])
    BY <1>2 DEF EditOK, Moves, FreezePCs
  <2> QED
    BY <1>0, <1>1, <1>2, <2>1, KeepQuiet
<1>3. CASE FreezeGate(t) \/ FreezeFindings(t)
  <2>1. PICK pc \in {"gate_passed", "findings_read"} : Moves(t, pc)
    BY <1>3, FreezeReads
  <2>2. Relies(job'[t]) /\ pc \in FreezePCs
    BY <2>1 DEF Relies, Moves, PastCommit, FreezePCs
  <2> QED
    BY <1>2, <2>1, <2>2
<1>4. CASE FreezeCodes(t)
  <2>1. Moves(t, "built") /\ job'[t].codes = code
    BY <1>4, FreezeReads
  <2>2. Relies(job'[t])
    BY <2>1 DEF KeepInv, Relies, Moves, PastCommit
  <2> QED
    BY <1>2, <2>1, <2>2 DEF FreezePCs
<1>5. CASE FreezeInsert(t)
  <2>1. Moves(t, "inserted") /\ job'[t].codes = job[t].codes /\ job[t].pc = "built"
    BY <1>5, FreezeReads DEF FreezeInsert
  <2>2. Relies(job'[t])
    BY <2>1 DEF KeepInv, Relies, Moves, PastCommit
  <2> QED
    BY <1>2, <2>1, <2>2 DEF FreezePCs
<1>6. CASE SeedRead(t) \/ SeedCommit(t) \/ LockRead(t)
  <2>1. PICK pc \in {"seeding", "seeded", "locking"} :
           /\ Moves(t, pc)
           /\ job'[t].version = job[t].version
           /\ pc = "locking" => job'[t].codes = code
    BY <1>6, SeedReads, SeedCommits, LockReads
  <2>2. job[t].pc \in PastCommit
    BY <1>6 DEF SeedRead, SeedCommit, LockRead, PastCommit
  <2>3. Relies(job'[t])
    BY <2>1, <2>2 DEF KeepInv, Relies, Moves
  <2>4. pc \in FreezePCs
    BY <2>1 DEF FreezePCs
  <2> QED
    BY <1>2, <2>1, <2>3, <2>4
<1> QED
  BY <1>3, <1>4, <1>5, <1>6

LEMMA KeepInvStep == TypeInv /\ TypeInv' /\ KeepInv /\ [Next]_vars => KeepInv'
<1> SUFFICES ASSUME TypeInv, TypeInv', KeepInv, [Next]_vars PROVE KeepInv'
  OBVIOUS
<1>1. ASSUME UNCHANGED <<code, spent, sealed, job, late, slipped>> PROVE KeepInv'
  BY <1>1 DEF KeepInv, EditOK, Relies, Complete, Sealed
<1>2. ASSUME NEW f \in Findings,
             \/ \E status \in Statuses : FindingChanges(f, status)
             \/ CloseControl(f) \/ ReopenControl(f)
      PROVE  KeepInv'
  BY <1>1, <1>2 DEF FindingChanges, CloseControl, ReopenControl, history, writes
<1>3. CASE UNCHANGED vars
  BY <1>1, <1>3 DEF vars
<1>4. ASSUME NEW t \in Threads, UpsertRollBack(t) PROVE KeepInv'
  <2>1. Moves(t, "idle") /\ UNCHANGED <<code, spent, sealed, late, slipped>>
    BY <1>4, FinishMoves DEF UpsertRollBack, rows, history
  <2>2. EditOK(job'[t]) /\ Relies(job'[t]) /\ SealsSame
    BY <2>1 DEF EditOK, Relies, Moves, PastCommit, SealsSame
  <2> QED
    BY <2>1, <2>2, KeepQuiet
<1>5. CASE Crash
  <2>1. /\ \A t \in Threads : job'[t].pc = "idle"
        /\ UNCHANGED <<code, spent, sealed, late, slipped>>
    BY <1>5, IdleTyped DEF Crash, rows, history
  <2>2. \A t \in Threads : Relies(job[t])' /\ EditOK(job[t])'
    BY <2>1 DEF Relies, EditOK, PastCommit
  <2>3. \A v \in Complete' : Sealed(v)'
    BY <2>1 DEF KeepInv, Complete, Sealed
  <2> QED
    BY <2>1, <2>2, <2>3 DEF KeepInv
<1> QED
  BY <1>2, <1>3, <1>4, <1>5, FreezeKept, CommitKept, AuditedKept, LockKept,
     UpsertKept, UpsertLoadKept DEF Next

-----------------------------------------------------------------------------
(***************************************************************************)
(* Late writes.  An upsert writes only rows it loaded unlocked, and after  *)
(* the freeze nobody loads them so: the late writes and the upserts that   *)
(* may still make one are never more than were in flight.                  *)
(***************************************************************************)
Holders(c) == {t \in Threads : /\ job[t].pc = "upserting"
                               /\ job[t].codes[c].label # None /\ ~job[t].codes[c].locked}

LateInv ==
    \A c \in Codes : IF Frozen(c) THEN late[c] + Cardinality(Holders(c)) <= inflight[c]
                     ELSE late[c] = 0

LEMMA Counted ==
  ASSUME TypeInv
  PROVE  /\ \A c \in Codes : late[c] \in Nat /\ inflight[c] \in Nat
         /\ late \in [Codes -> Nat] /\ inflight \in [Codes -> Nat]
BY TypeParts DEF TypeInv, Rest

LEMMA HoldersFinite ==
  ASSUME NEW c
  PROVE  /\ IsFiniteSet(Holders(c)) /\ Cardinality(Holders(c)) \in Nat
         /\ IsFiniteSet(Holders(c)') /\ Cardinality(Holders(c)') \in Nat
<1>1. Holders(c) \in SUBSET Threads /\ Holders(c)' \in SUBSET Threads
  BY DEF Holders
<1> QED
  BY <1>1, ThreadsAssumption, FS_Subset, FS_CardinalityType

LEMMA LateInvInit == Init => LateInv
<1> SUFFICES ASSUME Init PROVE LateInv
  OBVIOUS
<1>1. \A c \in Codes : ~Frozen(c) /\ late[c] = 0
  BY DEF Init, Frozen, Complete
<1> QED
  BY <1>1 DEF LateInv

\* Nothing is frozen anew or written, and nobody comes to hold a frozen row.
LEMMA LateQuiet ==
  ASSUME TypeInv, LateInv, UNCHANGED <<late, inflight>>,
         \A c \in Codes : Frozen(c)' <=> Frozen(c),
         \A c \in Codes : Frozen(c) => Holders(c)' \subseteq Holders(c)
  PROVE  LateInv'
<1> SUFFICES ASSUME NEW c \in Codes
             PROVE  IF Frozen(c)' THEN late'[c] + Cardinality(Holders(c)') <= inflight'[c]
                    ELSE late'[c] = 0
  BY DEF LateInv
<1>1. CASE Frozen(c)
  <2>1. Cardinality(Holders(c)') <= Cardinality(Holders(c))
    BY <1>1, HoldersFinite, FS_Subset
  <2>2. late[c] + Cardinality(Holders(c)) <= inflight[c]
    BY <1>1 DEF LateInv
  <2> QED
    BY <1>1, <2>1, <2>2, Counted, HoldersFinite
<1>2. CASE ~Frozen(c)
  BY <1>2 DEF LateInv
<1> QED
  BY <1>1, <1>2

\* A thread that is not to upsert moves, and no freeze completes.
LEMMA LateMoves ==
  ASSUME TypeInv, LateInv, NEW t \in Threads, NEW pc, Moves(t, pc), pc # "upserting",
         UNCHANGED <<late, inflight>>, \A c \in Codes : Frozen(c)' <=> Frozen(c)
  PROVE  LateInv'
<1>1. \A c \in Codes : Holders(c)' \subseteq Holders(c)
  BY DEF Holders, Moves
<1> QED
  BY <1>1, LateQuiet

LEMMA FrozenSame ==
  ASSUME SealsSame
  PROVE  \A c \in Codes : Frozen(c)' <=> Frozen(c)
BY DEF SealsSame, Frozen, Complete

LEMMA UpsertLate ==
  ASSUME TypeInv, KeepInv, LateInv, NEW t \in Threads, NEW new \in SUBSET Codes,
         UpsertCommit(t, new)
  PROVE  LateInv'
<1>1. /\ late' = [c \in Codes |-> IF Frozen(c) /\ c \in Written(t) THEN late[c] + 1 ELSE late[c]]
      /\ job[t].pc = "upserting"
      /\ UNCHANGED <<sealed, inflight>>
  BY DEF UpsertCommit
<1>2. Moves(t, "idle")
  BY UpsertWrites
<1>3. SealsSame
  BY <1>1 DEF SealsSame
<1> SUFFICES ASSUME NEW c \in Codes
             PROVE  IF Frozen(c)' THEN late'[c] + Cardinality(Holders(c)') <= inflight'[c]
                    ELSE late'[c] = 0
  BY DEF LateInv
<1>4. Frozen(c)' <=> Frozen(c)
  BY <1>3, FrozenSame
<1>5. late'[c] = IF Frozen(c) /\ c \in Written(t) THEN late[c] + 1 ELSE late[c]
  BY <1>1
<1>6. CASE Frozen(c) /\ c \in Written(t)
  <2>1. t \in Holders(c)
    <3>1. CASE c \in Deleted(t)
      BY <1>1, <3>1 DEF Holders, Deleted, Existing
    <3>2. CASE c \in Changed(t)
      BY <1>1, <3>2 DEF Holders, Changed, KeepInv, EditOK
    <3> QED
      BY <1>6, <3>1, <3>2 DEF Written
  <2> DEFINE S == Holders(c) \ {t}
  <2>2. Holders(c)' = S
    BY <1>2 DEF Holders, Moves
  <2>3. Cardinality(S) = Cardinality(Holders(c)) - 1
    BY <2>1, HoldersFinite, FS_RemoveElement
  <2> HIDE DEF S
  <2>4. Cardinality(Holders(c)') = Cardinality(Holders(c)) - 1
    BY <2>2, <2>3
  <2>5. late[c] + Cardinality(Holders(c)) <= inflight[c]
    BY <1>6 DEF LateInv
  <2> QED
    BY <1>1, <1>4, <1>5, <1>6, <2>4, <2>5, Counted, HoldersFinite
<1>7. CASE Frozen(c) /\ c \notin Written(t)
  <2>1. Holders(c)' \subseteq Holders(c)
    BY <1>2 DEF Holders, Moves
  <2>2. Cardinality(Holders(c)') <= Cardinality(Holders(c))
    BY <2>1, HoldersFinite, FS_Subset
  <2>3. late[c] + Cardinality(Holders(c)) <= inflight[c]
    BY <1>7 DEF LateInv
  <2> QED
    BY <1>1, <1>4, <1>5, <1>7, <2>2, <2>3, Counted, HoldersFinite
<1>8. CASE ~Frozen(c)
  BY <1>4, <1>5, <1>8 DEF LateInv
<1> QED
  BY <1>6, <1>7, <1>8

LEMMA UpsertLoadLate ==
  ASSUME TypeInv, KeepInv, LateInv, NEW t \in Threads,
         NEW edit \in [Codes -> Labels \cup {None}], UpsertLoad(t, edit)
  PROVE  LateInv'
<1>1. UNCHANGED <<sealed, late, inflight>>
  BY DEF UpsertLoad, rows, history
<1>2. Moves(t, "upserting") /\ job'[t].codes = code
  BY UpsertLoads
<1>3. SealsSame
  BY <1>1 DEF SealsSame
<1>4. ASSUME NEW c \in Codes, Frozen(c) PROVE Holders(c)' \subseteq Holders(c)
  <2>1. code[c].locked \/ code[c].label = None
    BY <1>4 DEF Frozen, KeepInv, Sealed
  <2> QED
    BY <1>2, <2>1 DEF Holders, Moves
<1> QED
  BY <1>1, <1>3, <1>4, FrozenSame, LateQuiet

LEMMA LockLate ==
  ASSUME TypeInv, LateInv, NEW t \in Threads, LockCommit(t)
  PROVE  LateInv'
<1>0. Moves(t, "idle") /\ UNCHANGED late /\ job[t].pc = "locking"
  BY Locks DEF LockCommit
<1>1. CASE sealed' = sealed /\ inflight' = inflight
  <2>1. SealsSame
    BY <1>1 DEF SealsSame
  <2> QED
    BY <1>0, <1>1, <2>1, FrozenSame, LateMoves
<1>2. CASE ~(sealed' = sealed /\ inflight' = inflight)
  <2> DEFINE v == job[t].version
             Seals(c) == sealed[v].codes[c] # None
  <2>1. inflight' = [c \in Codes |-> IF ~Frozen(c) /\ sealed[job[t].version].codes[c] # None
                                     THEN Cardinality(Upserting) ELSE inflight[c]]
    BY <1>2 DEF LockCommit
  <2>2. /\ DOMAIN sealed' = DOMAIN sealed
        /\ \A w \in DOMAIN sealed : sealed'[w].codes = sealed[w].codes
        /\ \A w \in DOMAIN sealed : w # v => sealed'[w].complete = sealed[w].complete
    BY Locks, TypeFacts DEF Kept
  <2>3. ASSUME NEW c \in Codes PROVE Frozen(c)' => Frozen(c) \/ Seals(c)
    BY <2>2 DEF Frozen, Complete
  <2>4. \A w \in Complete : w \in Complete' /\ sealed'[w].codes = sealed[w].codes
    <3>1. CASE Existing(job[t].codes) \subseteq Existing(code)
      <4>1. sealed' = [sealed EXCEPT ![v].complete = TRUE]
        BY <3>1 DEF LockCommit
      <4>2. v \in DOMAIN sealed
        BY <1>0 DEF TypeInv, JobOK, PastCommit
      <4>3. sealed'[v].complete
        BY <4>1, <4>2, TypeFacts DEF Row
      <4> QED
        BY <2>2, <4>3 DEF Complete
    <3>2. CASE ~(Existing(job[t].codes) \subseteq Existing(code))
      BY <1>2, <3>2 DEF LockCommit
    <3> QED
      BY <3>1, <3>2
  <2>5. ASSUME NEW c \in Codes PROVE Frozen(c) => Frozen(c)'
    BY <2>4 DEF Frozen
  <2> HIDE DEF v, Seals
  <2> SUFFICES ASSUME NEW c \in Codes
               PROVE  IF Frozen(c)' THEN late'[c] + Cardinality(Holders(c)') <= inflight'[c]
                      ELSE late'[c] = 0
    BY DEF LateInv
  <2>6. Holders(c)' \subseteq Holders(c)
    BY <1>0 DEF Holders, Moves
  <2>7. Cardinality(Holders(c)') <= Cardinality(Holders(c))
    BY <2>6, HoldersFinite, FS_Subset
  <2>8. CASE Frozen(c)
    <3>1. late[c] + Cardinality(Holders(c)) <= inflight[c]
      BY <2>8 DEF LateInv
    <3>2. inflight'[c] = inflight[c] /\ Frozen(c)'
      BY <2>1, <2>5, <2>8
    <3> QED
      BY <1>0, <2>7, <3>1, <3>2, Counted, HoldersFinite
  <2>9. CASE ~Frozen(c) /\ Seals(c)
    <3>1. inflight'[c] = Cardinality(Upserting)
      BY <2>1, <2>9 DEF Seals, v
    <3>2. /\ IsFiniteSet(Upserting) /\ Cardinality(Upserting) \in Nat
          /\ Holders(c) \subseteq Upserting
      <4>1. Upserting \in SUBSET Threads /\ Holders(c) \subseteq Upserting
        BY DEF Upserting, Holders
      <4> QED
        BY <4>1, ThreadsAssumption, FS_Subset, FS_CardinalityType
    <3>3. Cardinality(Holders(c)) <= Cardinality(Upserting)
      BY <3>2, FS_Subset
    <3>4. late'[c] = 0
      BY <1>0, <2>9 DEF LateInv
    <3> QED
      BY <2>7, <3>1, <3>2, <3>3, <3>4, HoldersFinite
  <2>10. CASE ~Frozen(c) /\ ~Seals(c)
    BY <1>0, <2>3, <2>10 DEF LateInv
  <2> QED
    BY <2>8, <2>9, <2>10
<1> QED
  BY <1>1, <1>2

LEMMA LateInvStep == TypeInv /\ KeepInv /\ LateInv /\ [Next]_vars => LateInv'
<1> SUFFICES ASSUME TypeInv, KeepInv, LateInv, [Next]_vars PROVE LateInv'
  OBVIOUS
<1>1. ASSUME UNCHANGED <<sealed, job, late, inflight>> PROVE LateInv'
  BY <1>1 DEF LateInv, Frozen, Complete, Holders
<1>2. ASSUME NEW f \in Findings,
             \/ \E status \in Statuses : FindingChanges(f, status)
             \/ CloseControl(f) \/ ReopenControl(f)
      PROVE  LateInv'
  BY <1>1, <1>2 DEF FindingChanges, CloseControl, ReopenControl, history, writes
<1>3. CASE UNCHANGED vars
  BY <1>1, <1>3 DEF vars
<1>4. ASSUME NEW t \in Threads,
             \/ FreezeGate(t) \/ FreezeFindings(t) \/ FreezeCodes(t) \/ FreezeInsert(t)
             \/ SeedRead(t) \/ SeedCommit(t) \/ LockRead(t) \/ UpsertRollBack(t)
      PROVE  LateInv'
  <2>1. UNCHANGED <<sealed, late, inflight>>
    BY <1>4 DEF FreezeGate, FreezeFindings, FreezeCodes, FreezeInsert, SeedRead, SeedCommit,
                LockRead, UpsertRollBack, rows, history
  <2>2. PICK pc \in {"gate_passed", "findings_read", "built", "inserted", "seeding", "seeded",
                     "locking", "idle"} : Moves(t, pc)
    BY <1>4, FreezeReads, SeedReads, SeedCommits, LockReads, FinishMoves DEF UpsertRollBack
  <2>3. SealsSame
    BY <2>1 DEF SealsSame
  <2> QED
    BY <2>1, <2>2, <2>3, FrozenSame, LateMoves
<1>5. ASSUME NEW t \in Threads, FreezeCommit(t) \/ FreezeAudit(t) PROVE LateInv'
  <2>1. UNCHANGED <<late, inflight>>
    BY <1>5 DEF FreezeCommit, FreezeAudit, history
  <2>2. PICK pc \in {"idle", "committed", "audited"} : Moves(t, pc)
    BY <1>5, Commits, Audits
  <2>3. /\ \A v \in DOMAIN sealed : /\ v \in DOMAIN sealed'
                                    /\ sealed'[v].codes = sealed[v].codes
                                    /\ sealed'[v].complete = sealed[v].complete
        /\ \A v \in DOMAIN sealed' : sealed'[v].complete => v \in DOMAIN sealed
    <3>1. CASE FreezeAudit(t)
      BY <3>1, Audits, TypeFacts DEF Kept
    <3>2. CASE FreezeCommit(t)
      BY <3>2, Commits, TypeFacts DEF Kept
    <3> QED
      BY <1>5, <3>1, <3>2
  <2>4. \A c \in Codes : Frozen(c)' <=> Frozen(c)
    BY <2>3 DEF Frozen, Complete
  <2> QED
    BY <2>1, <2>2, <2>4, LateMoves
<1>6. CASE Crash
  <2>1. /\ \A t \in Threads : job'[t].pc = "idle"
        /\ UNCHANGED <<sealed, late, inflight>>
    BY <1>6, IdleTyped DEF Crash, rows, history
  <2>2. \A c \in Codes : Holders(c)' \subseteq Holders(c)
    BY <2>1 DEF Holders
  <2>3. SealsSame
    BY <2>1 DEF SealsSame
  <2> QED
    BY <2>1, <2>2, <2>3, FrozenSame, LateQuiet
<1> QED
  BY <1>2, <1>3, <1>4, <1>5, <1>6, LockLate, UpsertLate, UpsertLoadLate DEF Next

\* A sealed cost code is written after the end of the freeze only by the upserts that
\* were in flight then, once by each, and differs from the seal only if one of them
\* or an upsert within the freeze wrote it.
THEOREM SealKept == Spec => []SealedCodesKept
<1>1. Spec => [](TypeInv /\ KeepInv /\ LateInv)
  BY TypeInvInit, TypeInvStep, KeepInvInit, KeepInvStep, LateInvInit, LateInvStep, PTL DEF Spec
<1>2. TypeInv /\ KeepInv /\ LateInv => SealedCodesKept
  <2> SUFFICES ASSUME TypeInv, KeepInv, LateInv PROVE SealedCodesKept
    OBVIOUS
  <2>1. ASSUME NEW c \in Codes PROVE late[c] <= inflight[c]
    <3>1. CASE Frozen(c)
      BY <3>1, Counted, HoldersFinite DEF LateInv
    <3>2. CASE ~Frozen(c)
      BY <3>2, Counted DEF LateInv
    <3> QED
      BY <3>1, <3>2
  <2>2. ASSUME NEW v \in Complete, NEW c \in Codes, sealed[v].codes[c] \notin {None, code[c].label}
        PROVE  late[c] > 0 \/ c \in slipped
    BY <2>2 DEF KeepInv, Sealed
  <2> QED
    BY <2>1, <2>2 DEF SealedCodesKept
<1> QED
  BY <1>1, <1>2, PTL

-----------------------------------------------------------------------------
(***************************************************************************)
(* The watchlist.  From its commit on a freeze carries what its baseline   *)
(* says, until each critical or high finding of it has a control.          *)
(***************************************************************************)
Has(f) == active[f] + closed[f] > 0

Watched(v) == \A f \in sealed[v].findings \cap High : Has(f)

Carries(j) ==
    /\ j.pc \in {"committed", "audited"} => j.findings = sealed[j.version].findings
    /\ j.pc = "seeding" =>
          \A f \in sealed[j.version].findings \cap High : f \in j.findings \/ Has(f)
    /\ j.pc \in {"seeded", "locking"} => Watched(j.version)

WatchInv ==
    /\ \A t \in Threads : Carries(job[t])
    /\ \A v \in Complete : Watched(v)

LEMMA WatchInvInit == Init => WatchInv
<1> SUFFICES ASSUME Init PROVE WatchInv
  OBVIOUS
<1>1. \A t \in Threads : job[t].pc = "idle"
  BY IdleTyped DEF Init
<1>2. Complete = {}
  BY DEF Init, Complete
<1> QED
  BY <1>1, <1>2 DEF WatchInv, Carries

LEMMA SealedFindings ==
  ASSUME TypeInv, NEW v \in DOMAIN sealed
  PROVE  sealed[v].findings \subseteq Findings
BY TypeFacts DEF Row

LEMMA Counts ==
  ASSUME TypeInv
  PROVE  \A f \in Findings : active[f] \in Nat /\ closed[f] \in Nat /\ reopened[f] \in Nat
BY TypeParts DEF TypeInv, Rest

LEMMA StillWatched ==
  ASSUME TypeInv, Kept, \A f \in Findings : Has(f) => Has(f)', NEW v \in DOMAIN sealed,
         Watched(v)
  PROVE  Watched(v)'
BY SealedFindings DEF Kept, Watched

LEMMA StillCarries ==
  ASSUME TypeInv, Kept, \A f \in Findings : Has(f) => Has(f)', NEW s \in Threads,
         Carries(job[s]), job'[s] = job[s]
  PROVE  Carries(job[s])'
<1>1. CASE job[s].pc \in {"committed", "audited"}
  <2>1. job[s].version \in DOMAIN sealed
    BY <1>1 DEF TypeInv, JobOK, PastCommit
  <2> QED
    BY <1>1, <2>1 DEF Carries, Kept
<1>2. CASE job[s].pc = "seeding"
  <2>1. job[s].version \in DOMAIN sealed
    BY <1>2 DEF TypeInv, JobOK, PastCommit
  <2> QED
    BY <1>2, <2>1, SealedFindings DEF Carries, Kept
<1>3. CASE job[s].pc \in {"seeded", "locking"}
  <2>1. job[s].version \in DOMAIN sealed
    BY <1>3 DEF TypeInv, JobOK, PastCommit
  <2>2. Watched(job[s].version)'
    <3> DEFINE v == job[s].version
    <3>1. Watched(v) /\ v \in DOMAIN sealed
      BY <1>3, <2>1 DEF Carries
    <3> HIDE DEF v
    <3>2. ASSUME NEW f \in sealed[v].findings \cap High PROVE Has(f)'
      BY <3>1, SealedFindings DEF Watched
    <3>3. sealed'[v].findings = sealed[v].findings
      BY <3>1 DEF Kept
    <3>4. v = job'[s].version
      BY DEF v
    <3> QED
      BY <3>2, <3>3, <3>4 DEF Watched
  <2> QED
    BY <1>3, <2>2 DEF Carries
<1>4. CASE job[s].pc \notin {"committed", "audited", "seeding", "seeded", "locking"}
  BY <1>4 DEF Carries
<1> QED
  BY <1>1, <1>2, <1>3, <1>4

\* Controls are kept; the thread that moves shows what it carries, and that a
\* baseline it completed is watched.
LEMMA WatchStep ==
  ASSUME TypeInv, WatchInv, NEW t \in Threads, NEW pc, Moves(t, pc), Kept,
         \A f \in Findings : Has(f) => Has(f)', Carries(job[t])',
         \A v \in Complete' : v \in Complete \/ Watched(v)'
  PROVE  WatchInv'
<1>1. ASSUME NEW s \in Threads PROVE Carries(job[s])'
  BY StillCarries DEF WatchInv, Moves
<1>2. ASSUME NEW v \in Complete' PROVE Watched(v)'
  <2>1. CASE v \in Complete
    BY <2>1, StillWatched DEF WatchInv, Complete
  <2> QED
    BY <1>2, <2>1
<1> QED
  BY <1>1, <1>2 DEF WatchInv

\* It is no longer, or not yet, at work on a baseline.
LEMMA WatchFree ==
  ASSUME TypeInv, WatchInv, NEW t \in Threads, NEW pc, Moves(t, pc), pc \notin PastCommit,
         sealed' = sealed, UNCHANGED <<active, closed>>
  PROVE  WatchInv'
<1>1. Carries(job[t])'
  BY DEF Carries, Moves, PastCommit
<1>2. Kept /\ Complete' = Complete
  BY Unwritten DEF Complete
<1>3. \A f \in Findings : Has(f) => Has(f)'
  BY DEF Has
<1> QED
  BY <1>1, <1>2, <1>3, WatchStep

LEMMA WatchFreeze ==
  ASSUME TypeInv, WatchInv, NEW t \in Threads,
         \/ FreezeCommit(t) \/ FreezeAudit(t) \/ SeedRead(t) \/ LockRead(t)
  PROVE  WatchInv'
<1>0. UNCHANGED <<active, closed>> /\ \A f \in Findings : Has(f) => Has(f)'
  BY DEF FreezeCommit, FreezeAudit, SeedRead, LockRead, rows, Has
<1>1. CASE FreezeCommit(t)
  <2>1. CASE Moves(t, "idle") /\ sealed' = sealed
    BY <1>0, <2>1, WatchFree DEF PastCommit
  <2>2. CASE ~(Moves(t, "idle") /\ sealed' = sealed)
    <3> DEFINE n == Len(sealed) + 1
    <3>1. /\ Kept
          /\ \A v \in DOMAIN sealed : sealed'[v] = sealed[v]
          /\ Moves(t, "committed")
          /\ job'[t].version = n
          /\ job'[t].findings = job[t].findings
          /\ sealed'[n].findings = job[t].findings
          /\ DOMAIN sealed' = 1..n
          /\ ~sealed'[n].complete
      BY <1>1, <2>2, Commits, TypeFacts
    <3>2. \A v \in 1..n : v \in DOMAIN sealed \/ v = n
      BY TypeFacts
    <3> HIDE DEF n
    <3>3. Carries(job[t])'
      BY <3>1 DEF Carries, Moves
    <3>4. Complete' \subseteq Complete
      BY <3>1, <3>2 DEF Complete
    <3> QED
      BY <1>0, <3>1, <3>3, <3>4, WatchStep
  <2> QED
    BY <2>1, <2>2
<1>2. CASE FreezeAudit(t)
  <2>1. /\ Moves(t, "audited")
        /\ job'[t].findings = job[t].findings
        /\ job'[t].version = job[t].version
        /\ DOMAIN sealed' = DOMAIN sealed
        /\ \A v \in DOMAIN sealed : sealed'[v].complete = sealed[v].complete
        /\ Kept
    BY <1>2, Audits, TypeFacts
  <2>2. job[t].pc = "committed" /\ job[t].version \in DOMAIN sealed
    BY <1>2 DEF FreezeAudit, TypeInv, JobOK, PastCommit
  <2>3. job[t].findings = sealed[job[t].version].findings
    BY <2>2 DEF WatchInv, Carries
  <2>4. Carries(job[t])'
    BY <2>1, <2>2, <2>3 DEF Carries, Moves, Kept
  <2>5. Complete' = Complete
    BY <2>1 DEF Complete
  <2> QED
    BY <1>0, <2>1, <2>4, <2>5, WatchStep
<1>3. CASE SeedRead(t)
  <2>1. /\ Moves(t, "seeding")
        /\ job'[t].version = job[t].version
        /\ job'[t].findings = Seeds(t)
        /\ sealed' = sealed
    BY <1>3, SeedReads DEF SeedRead, rows
  <2>2. job[t].pc = "audited" /\ job[t].version \in DOMAIN sealed
    BY <1>3 DEF SeedRead, TypeInv, JobOK, PastCommit
  <2>3. job[t].findings = sealed[job[t].version].findings
    BY <2>2 DEF WatchInv, Carries
  <2>4. ASSUME NEW f \in sealed[job[t].version].findings \cap High
        PROVE  f \in Seeds(t) \/ Has(f)
    <3>1. active[f] \in Nat /\ closed[f] \in Nat
      BY <2>2, SealedFindings, Counts
    <3> QED
      BY <2>3, <3>1 DEF Seeds, Has
  <2>5. Carries(job[t])'
    BY <1>0, <2>1, <2>4 DEF Carries, Moves, Has
  <2>6. Kept /\ Complete' = Complete
    BY <2>1, Unwritten DEF Complete
  <2> QED
    BY <1>0, <2>1, <2>5, <2>6, WatchStep
<1>4. CASE LockRead(t)
  <2>1. Moves(t, "locking") /\ job'[t].version = job[t].version /\ sealed' = sealed
    BY <1>4, LockReads DEF LockRead, rows
  <2>2. job[t].pc = "seeded"
    BY <1>4 DEF LockRead
  <2>3. Carries(job[t])'
    BY <1>0, <2>1, <2>2 DEF WatchInv, Carries, Watched, Moves, Has
  <2>4. Kept /\ Complete' = Complete
    BY <2>1, Unwritten DEF Complete
  <2> QED
    BY <1>0, <2>1, <2>3, <2>4, WatchStep
<1> QED
  BY <1>1, <1>2, <1>3, <1>4

\* The missing controls are given.
LEMMA SeedWatched ==
  ASSUME TypeInv, WatchInv, NEW t \in Threads, SeedCommit(t)
  PROVE  WatchInv'
<1>1. Moves(t, "seeded") /\ job'[t].version = job[t].version /\ UNCHANGED <<sealed, closed>>
  BY SeedCommits DEF SeedCommit
<1>2. job[t].pc = "seeding" /\ job[t].version \in DOMAIN sealed
  BY DEF SeedCommit, TypeInv, JobOK, PastCommit
<1>3. \A f \in Findings :
         active'[f] = IF f \in job[t].findings THEN active[f] + 1 ELSE active[f]
  BY DEF SeedCommit
<1>4. \A f \in Findings : f \in job[t].findings \/ Has(f) => Has(f)'
  BY <1>1, <1>3, Counts DEF Has
<1>5. \A f \in sealed[job[t].version].findings \cap High : Has(f)'
  BY <1>2, <1>4, SealedFindings DEF WatchInv, Carries
<1>6. Carries(job[t])'
  BY <1>1, <1>5 DEF Carries, Watched, Moves
<1>7. Kept /\ Complete' = Complete
  BY <1>1, Unwritten DEF Complete
<1> QED
  BY <1>1, <1>4, <1>6, <1>7, WatchStep

LEMMA LockWatched ==
  ASSUME TypeInv, WatchInv, NEW t \in Threads, LockCommit(t)
  PROVE  WatchInv'
<1>0. PICK v \in DOMAIN sealed : v = job[t].version
  BY DEF LockCommit, TypeInv, JobOK, PastCommit
<1>1. /\ Moves(t, "idle")
      /\ DOMAIN sealed' = DOMAIN sealed
      /\ Kept
      /\ \A w \in DOMAIN sealed : w # v => sealed'[w].complete = sealed[w].complete
  BY <1>0, Locks, TypeFacts
<1>2. \A f \in Findings : Has(f) => Has(f)'
  BY DEF LockCommit, Has
<1>3. Watched(v)
  BY <1>0 DEF LockCommit, WatchInv, Carries
<1>4. Watched(v)'
  BY <1>1, <1>2, <1>3, StillWatched
<1>5. Complete' \subseteq Complete \cup {v}
  BY <1>1 DEF Complete
<1>6. Carries(job[t])'
  BY <1>1 DEF Carries, Moves
<1> QED
  BY <1>1, <1>2, <1>4, <1>5, <1>6, WatchStep

\* A control that is closed or opened again is still a control.
LEMMA ControlWatched ==
  ASSUME TypeInv, WatchInv, NEW f \in Findings, CloseControl(f) \/ ReopenControl(f)
  PROVE  WatchInv'
<1>1. UNCHANGED <<sealed, job>>
  BY DEF CloseControl, ReopenControl
<1>2. ASSUME NEW g \in Findings PROVE Has(g) => Has(g)'
  <2>1. CASE CloseControl(f)
    BY <2>1, Counts, TypeParts DEF CloseControl, TypeInv, Rest, Has
  <2>2. CASE ReopenControl(f)
    BY <2>2, Counts, TypeParts DEF ReopenControl, TypeInv, Rest, Has
  <2> QED
    BY <2>1, <2>2
<1>3. Kept /\ Complete' = Complete
  BY <1>1, Unwritten DEF Complete
<1>4. ASSUME NEW s \in Threads PROVE Carries(job[s])'
  BY <1>1, <1>2, <1>3, StillCarries DEF WatchInv
<1>5. ASSUME NEW v \in Complete' PROVE Watched(v)'
  BY <1>2, <1>3, <1>5, StillWatched DEF WatchInv, Complete
<1> QED
  BY <1>4, <1>5 DEF WatchInv

LEMMA WatchInvStep == TypeInv /\ WatchInv /\ [Next]_vars => WatchInv'
<1> SUFFICES ASSUME TypeInv, WatchInv, [Next]_vars PROVE WatchInv'
  OBVIOUS
<1>1. ASSUME UNCHANGED <<sealed, active, closed, job>> PROVE WatchInv'
  BY <1>1 DEF WatchInv, Carries, Watched, Has, Complete
<1>2. CASE UNCHANGED vars \/ \E f \in Findings, status \in Statuses : FindingChanges(f, status)
  BY <1>1, <1>2 DEF vars, FindingChanges
<1>3. ASSUME NEW t \in Threads,
             \/ FreezeGate(t) \/ FreezeFindings(t) \/ FreezeCodes(t) \/ FreezeInsert(t)
             \/ UpsertRollBack(t)
      PROVE  WatchInv'
  <2>1. UNCHANGED <<sealed, active, closed>>
    BY <1>3 DEF FreezeGate, FreezeFindings, FreezeCodes, FreezeInsert, UpsertRollBack, rows
  <2>2. PICK pc \in {"gate_passed", "findings_read", "built", "inserted", "idle"} :
           Moves(t, pc)
    BY <1>3, FreezeReads, FinishMoves DEF UpsertRollBack
  <2> QED
    BY <2>1, <2>2, WatchFree DEF PastCommit
<1>4. ASSUME NEW t \in Threads, NEW edit \in [Codes -> Labels \cup {None}], UpsertLoad(t, edit)
      PROVE  WatchInv'
  BY <1>4, UpsertLoads, WatchFree DEF UpsertLoad, rows, PastCommit
<1>5. ASSUME NEW t \in Threads, NEW new \in SUBSET Codes, UpsertCommit(t, new) PROVE WatchInv'
  BY <1>5, UpsertWrites, WatchFree DEF UpsertCommit, PastCommit
<1>6. CASE Crash
  <2>1. /\ \A t \in Threads : job'[t].pc = "idle"
        /\ UNCHANGED <<sealed, active, closed>>
    BY <1>6, IdleTyped DEF Crash, rows
  <2>2. \A t \in Threads : Carries(job[t])'
    BY <2>1 DEF Carries
  <2>3. \A v \in Complete' : Watched(v)'
    BY <2>1 DEF WatchInv, Complete, Watched, Has
  <2> QED
    BY <2>2, <2>3 DEF WatchInv
<1> QED
  BY <1>2, <1>3, <1>4, <1>5, <1>6, WatchFreeze, SeedWatched, LockWatched, ControlWatched DEF Next

-----------------------------------------------------------------------------
(***************************************************************************)
(* Duplicate controls.  A thread that has found an obligation without an   *)
(* active control gives it one, whatever the others have done meanwhile;   *)
(* it found none, so the controls and such threads together are never more *)
(* than the threads and what was reopened.                                 *)
(***************************************************************************)
Seeders(f) == {t \in Threads : job[t].pc = "seeding" /\ f \in job[t].findings}

CountInv ==
    \A f \in Findings : active[f] + Cardinality(Seeders(f)) <= Cardinality(Threads) + reopened[f]

LEMMA SeedersFinite ==
  ASSUME NEW f
  PROVE  /\ Cardinality(Seeders(f)) \in Nat
         /\ Cardinality(Seeders(f)) <= Cardinality(Threads)
         /\ Cardinality(Threads) \in Nat
         /\ IsFiniteSet(Seeders(f))
<1>1. Seeders(f) \in SUBSET Threads
  BY DEF Seeders
<1> QED
  BY <1>1, ThreadsAssumption, FS_Subset, FS_CardinalityType

LEMMA SeedersFiniteNext ==
  ASSUME NEW f
  PROVE  /\ Cardinality(Seeders(f)') \in Nat
         /\ Cardinality(Seeders(f)') <= Cardinality(Threads)
<1>1. Seeders(f)' \in SUBSET Threads
  BY DEF Seeders
<1> QED
  BY <1>1, ThreadsAssumption, FS_Subset, FS_CardinalityType

LEMMA CountInvInit == Init => CountInv
<1> SUFFICES ASSUME Init, NEW f \in Findings
             PROVE  active[f] + Cardinality(Seeders(f)) <= Cardinality(Threads) + reopened[f]
  BY DEF CountInv
<1>1. active[f] = 0 /\ reopened[f] = 0
  BY DEF Init
<1> QED
  BY <1>1, SeedersFinite

\* Nobody begins or ends to seed.
LEMMA CountQuiet ==
  ASSUME TypeInv, CountInv, NEW t \in Threads, NEW pc, Moves(t, pc),
         pc # "seeding", job[t].pc # "seeding", UNCHANGED <<active, reopened>>
  PROVE  CountInv'
<1>1. ASSUME NEW f PROVE Seeders(f)' = Seeders(f)
  BY DEF Seeders, Moves
<1> QED
  BY <1>1 DEF CountInv

LEMMA SeedReadCounted ==
  ASSUME TypeInv, CountInv, NEW t \in Threads, SeedRead(t)
  PROVE  CountInv'
<1> SUFFICES ASSUME NEW f \in Findings
             PROVE  active'[f] + Cardinality(Seeders(f)') <= Cardinality(Threads) + reopened'[f]
  BY DEF CountInv
<1>1. Moves(t, "seeding") /\ job'[t].findings = Seeds(t) /\ UNCHANGED <<active, reopened>>
  BY SeedReads DEF SeedRead, rows, history
<1>2. CASE f \in Seeds(t)
  <2>1. active[f] = 0
    BY <1>2 DEF Seeds
  <2>2. active'[f] = 0 /\ reopened'[f] \in Nat
    BY <1>1, <2>1, Counts
  <2> QED
    BY <2>2, SeedersFiniteNext, SeedersFinite
<1>3. CASE f \notin Seeds(t)
  <2>1. job[t].pc # "seeding"
    BY DEF SeedRead
  <2>2. Seeders(f)' = Seeders(f)
    BY <1>1, <1>3, <2>1 DEF Seeders, Moves
  <2>3. active[f] + Cardinality(Seeders(f)) <= Cardinality(Threads) + reopened[f]
    BY DEF CountInv
  <2> QED
    BY <1>1, <2>2, <2>3
<1> QED
  BY <1>2, <1>3

LEMMA SeedCommitCounted ==
  ASSUME TypeInv, CountInv, NEW t \in Threads, SeedCommit(t)
  PROVE  CountInv'
<1> SUFFICES ASSUME NEW f \in Findings
             PROVE  active'[f] + Cardinality(Seeders(f)') <= Cardinality(Threads) + reopened'[f]
  BY DEF CountInv
<1>1. /\ Moves(t, "seeded") /\ job[t].pc = "seeding" /\ UNCHANGED reopened
      /\ active'[f] = IF f \in job[t].findings THEN active[f] + 1 ELSE active[f]
  BY SeedCommits DEF SeedCommit, history
<1>2. CASE f \in job[t].findings
  <2> DEFINE S == Seeders(f) \ {t}
  <2>1. Seeders(f)' = S
    BY <1>1 DEF Seeders, Moves
  <2>2. t \in Seeders(f)
    BY <1>1, <1>2 DEF Seeders
  <2>3. Cardinality(S) = Cardinality(Seeders(f)) - 1
    BY <2>2, SeedersFinite, FS_RemoveElement
  <2> HIDE DEF S
  <2>4. active[f] + Cardinality(Seeders(f)) <= Cardinality(Threads) + reopened[f]
    BY DEF CountInv
  <2>5. Cardinality(Seeders(f)') = Cardinality(Seeders(f)) - 1
    BY <2>1, <2>3
  <2> QED
    BY <1>1, <1>2, <2>4, <2>5, SeedersFinite, Counts
<1>3. CASE f \notin job[t].findings
  <2>1. Seeders(f)' = Seeders(f)
    BY <1>1, <1>3 DEF Seeders, Moves
  <2> QED
    BY <1>1, <1>3, <2>1 DEF CountInv
<1> QED
  BY <1>2, <1>3

LEMMA ControlCounted ==
  ASSUME TypeInv, CountInv, NEW g \in Findings, CloseControl(g) \/ ReopenControl(g)
  PROVE  CountInv'
<1> SUFFICES ASSUME NEW f \in Findings
             PROVE  active'[f] + Cardinality(Seeders(f)') <= Cardinality(Threads) + reopened'[f]
  BY DEF CountInv
<1>1. Seeders(f)' = Seeders(f)
  BY DEF CloseControl, ReopenControl, Seeders
<1>2. active[f] + Cardinality(Seeders(f)) <= Cardinality(Threads) + reopened[f]
  BY DEF CountInv
<1>3. active \in [Findings -> Nat] /\ reopened \in [Findings -> Nat]
  BY TypeParts DEF TypeInv, Rest
<1>4. \/ active'[f] <= active[f] /\ reopened'[f] = reopened[f] /\ active'[f] \in Int
      \/ active'[f] = active[f] + 1 /\ reopened'[f] = reopened[f] + 1
  <2>1. CASE CloseControl(g)
    BY <1>3, <2>1 DEF CloseControl
  <2>2. CASE ReopenControl(g)
    <3>1. CASE f = g
      BY <1>3, <2>2, <3>1 DEF ReopenControl
    <3>2. CASE f # g
      BY <1>3, <2>2, <3>2 DEF ReopenControl
    <3> QED
      BY <3>1, <3>2
  <2> QED
    BY <2>1, <2>2
<1>5. active[f] \in Nat /\ reopened[f] \in Nat
  BY <1>3
<1> QED
  BY <1>1, <1>2, <1>4, <1>5, SeedersFinite

LEMMA CountInvStep == TypeInv /\ CountInv /\ [Next]_vars => CountInv'
<1> SUFFICES ASSUME TypeInv, CountInv, [Next]_vars PROVE CountInv'
  OBVIOUS
<1>1. ASSUME UNCHANGED <<active, reopened, job>> PROVE CountInv'
  BY <1>1 DEF CountInv, Seeders
<1>2. CASE UNCHANGED vars \/ \E f \in Findings, status \in Statuses : FindingChanges(f, status)
  BY <1>1, <1>2 DEF vars, FindingChanges, history
<1>3. ASSUME NEW t \in Threads,
             \/ FreezeGate(t) \/ FreezeFindings(t) \/ FreezeCodes(t) \/ FreezeInsert(t)
             \/ FreezeCommit(t) \/ FreezeAudit(t) \/ LockRead(t) \/ LockCommit(t)
             \/ UpsertRollBack(t)
      PROVE  CountInv'
  <2>1. UNCHANGED <<active, reopened>> /\ job[t].pc # "seeding"
    BY <1>3 DEF FreezeGate, FreezeFindings, FreezeCodes, FreezeInsert, FreezeCommit, FreezeAudit,
                LockRead, LockCommit, UpsertRollBack, rows, history
  <2>2. PICK pc \in PCs \ {"seeding"} : Moves(t, pc)
    <3>1. {"gate_passed", "findings_read", "built", "inserted", "idle", "committed",
           "audited", "locking"} \subseteq PCs \ {"seeding"}
      BY DEF PCs, FreezePCs
    <3>2. \E pc \in {"gate_passed", "findings_read", "built", "inserted", "idle", "committed",
                     "audited", "locking"} : Moves(t, pc)
      BY <1>3, FreezeReads, Commits, Audits, LockReads, Locks, FinishMoves DEF UpsertRollBack
    <3> QED
      BY <3>1, <3>2
  <2> QED
    BY <2>1, <2>2, CountQuiet
<1>4. ASSUME NEW t \in Threads, NEW edit \in [Codes -> Labels \cup {None}], UpsertLoad(t, edit)
      PROVE  CountInv'
  BY <1>4, UpsertLoads, CountQuiet DEF UpsertLoad, rows, history
<1>5. ASSUME NEW t \in Threads, NEW new \in SUBSET Codes, UpsertCommit(t, new) PROVE CountInv'
  BY <1>5, UpsertWrites, CountQuiet DEF UpsertCommit, history
<1>6. CASE Crash
  <2>1. /\ \A t \in Threads : job'[t].pc = "idle"
        /\ UNCHANGED <<active, reopened>>
    BY <1>6, IdleTyped DEF Crash, rows, history
  <2> SUFFICES ASSUME NEW f \in Findings
               PROVE  active'[f] + Cardinality(Seeders(f)') <= Cardinality(Threads) + reopened'[f]
    BY DEF CountInv
  <2>2. Seeders(f)' = {}
    BY <2>1 DEF Seeders
  <2>3. Cardinality(Seeders(f)') = 0
    BY <2>2, FS_EmptySet
  <2>4. active[f] + Cardinality(Seeders(f)) <= Cardinality(Threads) + reopened[f]
    BY DEF CountInv
  <2> QED
    BY <2>1, <2>3, <2>4, SeedersFinite, Counts
<1> QED
  BY <1>2, <1>3, <1>4, <1>5, <1>6, SeedReadCounted, SeedCommitCounted, ControlCounted DEF Next

\* A finished freeze leaves every critical or high finding it sealed with a control,
\* and only concurrent freezes and reopened controls give one more than one.
THEOREM Watchlist == Spec => []ControlsFollow
<1>1. Spec => [](TypeInv /\ WatchInv /\ CountInv)
  BY TypeInvInit, TypeInvStep, WatchInvInit, WatchInvStep, CountInvInit, CountInvStep, PTL DEF Spec
<1>2. TypeInv /\ WatchInv /\ CountInv => ControlsFollow
  <2> SUFFICES ASSUME TypeInv, WatchInv, CountInv PROVE ControlsFollow
    OBVIOUS
  <2>1. \A v \in Complete : \A f \in sealed[v].findings \cap High : active[f] + closed[f] > 0
    BY DEF WatchInv, Watched, Has
  <2>2. ASSUME NEW f \in Findings PROVE active[f] <= Cardinality(Threads) + reopened[f]
    <3>1. active[f] + Cardinality(Seeders(f)) <= Cardinality(Threads) + reopened[f]
      BY DEF CountInv
    <3> QED
      BY <3>1, SeedersFinite, Counts
  <2> QED
    BY <2>1, <2>2 DEF ControlsFollow
<1> QED
  BY <1>1, <1>2, PTL
=============================================================================
