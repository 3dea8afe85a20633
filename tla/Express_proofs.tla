--------------------------- MODULE Express_proofs ---------------------------
(***************************************************************************)
(* What the pay-per-report lane guarantees for any number of threads,      *)
(* sessions, documents, users and orders: type correctness, workspaces     *)
(* that change hands only against payment, a session state that never      *)
(* claims more than the other tables hold, and documents of claimed        *)
(* sessions that no purge deletes.                                         *)
(***************************************************************************)
EXTENDS Express, TLAPS

Jobs == [pc : PCs, session : Sessions \cup {None}, was : SessionStates,
         doc : Docs \cup {None}, reads : SUBSET Docs, user : Users \cup {None}]

ClaimPCs == {"claim_checked", "claim_transferred", "claim_docs_read"}

UploadPCs == {"upload_loaded", "upload_stored"}

LoopPCs == UploadPCs \cup {"webhook_loaded"}

\* What a request under way knows of its session, its document and its user
JobOK(j) ==
    /\ j.pc \notin {"idle", "purging"} => j.session \in Sessions
    /\ j.pc \in UploadPCs => j.doc \in Docs
    /\ j.pc \in ClaimPCs => j.user \in Users

\* The coroutines exclude each other, so a webhook still finds its order
LoopInv ==
    /\ \A t, u \in Threads : job[t].pc \in LoopPCs /\ job[u].pc \in LoopPCs => t = u
    /\ \A t \in Threads : job[t].pc = "webhook_loaded" => open[job[t].session] > 0

TypeInv ==
    /\ TypeOK
    /\ \A t \in Threads : JobOK(job[t])
    /\ LoopInv

\* A claim runs only for a session with an activated purchase
ClaimInv ==
    \A t \in Threads :
        /\ job[t].pc \in ClaimPCs => activated[job[t].session] > 0
        /\ job[t].pc \in {"claim_transferred", "claim_docs_read"} =>
             owner[job[t].session] # System

\* No claim of the document's session is running, and none can start
Unclaimable(d) ==
    /\ timedOut[docs[d].session]
    /\ \A t \in Threads : job[t].pc \in ClaimPCs => job[t].session # docs[d].session

PurgeInv ==
    /\ \A t \in Threads : job[t].pc = "upload_loaded" => docs[job[t].doc].status = "absent"
    /\ \A d \in Docs : docs[d].status # "absent" => docs[d].session \in Sessions
    /\ \A d \in Docs : docs[d].status \in {"overdue", "purged"} => Unclaimable(d)
    /\ \A t \in Threads : job[t].pc = "purging" =>
         \A d \in job[t].reads :
            docs[d].status \in {"overdue", "purged"} /\ ~claimed[docs[d].session]
    /\ \A t \in Threads : job[t].pc = "claim_docs_read" =>
         \A d \in job[t].reads :
            docs[d].status # "absent" /\ docs[d].session = job[t].session

-----------------------------------------------------------------------------
(***************************************************************************)
(* Types.  A step writes the job of one thread at most.                    *)
(***************************************************************************)
LEMMA IdleTyped == Idle \in Jobs /\ JobOK(Idle)
BY DEF Idle, Jobs, JobOK, PCs, SessionStates, UploadPCs, ClaimPCs

LEMMA JobTyped ==
    ASSUME TypeInv, NEW t \in Threads
    PROVE  job[t] \in Jobs /\ JobOK(job[t]) /\ job \in [Threads -> Jobs]
BY DEF TypeInv, TypeOK, Jobs

\* What a step does to the jobs: none, one, or (a crash) all become idle
JobStep(t, j) ==
    /\ j \in Jobs
    /\ JobOK(j)
    /\ job' = [job EXCEPT ![t] = j]

LEMMA StartStep ==
    ASSUME TypeInv, NEW t \in Threads, NEW s \in Sessions,
           NEW p \in {"teaser_loaded", "checkout_loaded"}, Start(t, s, p)
    PROVE  /\ JobStep(t, job'[t])
           /\ job'[t].pc = p
BY DEF TypeInv, TypeOK, Start, Idle, Jobs, JobStep, JobOK, PCs, SessionStates,
       UploadPCs, ClaimPCs

LEMMA FinishStep ==
    ASSUME TypeInv, NEW t \in Threads, Finish(t)
    PROVE  /\ JobStep(t, Idle)
           /\ job'[t] = Idle
BY IdleTyped DEF TypeInv, TypeOK, Finish, JobStep

LEMMA FlushTyped ==
    ASSUME TypeOK, NEW t \in Threads, NEW new \in SessionStates, Flush(t, new)
    PROVE  state' \in [Sessions -> SessionStates]
BY DEF TypeOK, Flush

LEMMA JobStepTyped ==
    ASSUME TypeInv, NEW t \in Threads, NEW j, JobStep(t, j)
    PROVE  /\ job' \in [Threads -> Jobs]
           /\ \A u \in Threads : JobOK(job'[u])
BY JobTyped DEF JobStep, TypeInv

\* A step that starts no coroutine and takes no order
LEMMA LoopKept ==
    ASSUME TypeInv, NEW t \in Threads, NEW j, JobStep(t, j), open' = open,
           j.pc \in LoopPCs =>
             job[t].pc \in LoopPCs /\ j.pc # "webhook_loaded"
    PROVE  LoopInv'
BY DEF TypeInv, TypeOK, JobStep, LoopInv, LoopPCs, UploadPCs

LEMMA TypeInvStep == TypeInv /\ [Next]_vars => TypeInv'
<1> SUFFICES ASSUME TypeInv, [Next]_vars PROVE TypeInv'
  OBVIOUS
<1> USE DEF rows, UploadPCs, ClaimPCs, LoopPCs
<1>1. ASSUME NEW t \in Threads, NEW s \in Sessions, NEW d \in Docs, UploadLoad(t, s, d)
      PROVE  TypeInv'
  <2> DEFINE j == [Idle EXCEPT !.pc = "upload_loaded", !.session = s, !.was = state[s], !.doc = d]
  <2>1. JobStep(t, j) /\ j.pc = "upload_loaded"
    BY <1>1 DEF UploadLoad, JobStep, JobOK, Idle, Jobs, PCs, SessionStates, TypeInv, TypeOK
  <2>2. LoopInv'
    BY <1>1, <2>1 DEF UploadLoad, JobStep, LoopInv, LoopFree, TypeInv, TypeOK
  <2> QED BY <1>1, <2>1, <2>2, JobStepTyped DEF UploadLoad, TypeInv, TypeOK, Jobs
<1>2. ASSUME NEW t \in Threads, UploadCommit(t) PROVE TypeInv'
  <2> DEFINE j == [job[t] EXCEPT !.pc = "upload_stored"]
  <2>1. JobStep(t, j) /\ j.pc = "upload_stored"
    BY <1>2, JobTyped DEF UploadCommit, JobStep, JobOK, Jobs, PCs
  <2>2. LoopInv'
    BY <1>2, <2>1, LoopKept DEF UploadCommit
  <2>3. state' \in [Sessions -> SessionStates]
    BY <1>2, FlushTyped DEF UploadCommit, SessionStates, TypeInv
  <2>4. docs' \in [Docs -> [session : Sessions \cup {None}, status : DocStates]]
    BY <1>2, JobTyped DEF UploadCommit, DocStates, Jobs, TypeInv, TypeOK
  <2> QED BY <1>2, <2>1, <2>2, <2>3, <2>4, JobStepTyped DEF UploadCommit, TypeInv, TypeOK, Jobs
<1>3. ASSUME NEW t \in Threads, UploadRegister(t) PROVE TypeInv'
  <2>1. job[t].doc \in Docs /\ pack' \subseteq Docs
    BY <1>3, JobTyped DEF UploadRegister, JobOK, TypeInv, TypeOK
  <2>2. JobStep(t, Idle) /\ Idle.pc = "idle"
    BY <1>3, FinishStep DEF UploadRegister, Idle
  <2>3. LoopInv'
    BY <1>3, <2>2, LoopKept DEF UploadRegister
  <2> QED BY <1>3, <2>1, <2>2, <2>3, JobStepTyped DEF UploadRegister, TypeInv, TypeOK, Jobs
<1>4. ASSUME NEW t \in Threads, NEW s \in Sessions, TeaserLoad(t, s) PROVE TypeInv'
  <2>1. JobStep(t, job'[t]) /\ job'[t].pc = "teaser_loaded"
    BY <1>4, StartStep DEF TeaserLoad
  <2>2. LoopInv'
    BY <1>4, <2>1, LoopKept DEF TeaserLoad
  <2> QED BY <1>4, <2>1, <2>2, JobStepTyped DEF TeaserLoad, TypeInv, TypeOK, Jobs
<1>5. ASSUME NEW t \in Threads, RefuseTeaser(t) PROVE TypeInv'
  <2>1. JobStep(t, Idle) /\ Idle.pc = "idle"
    BY <1>5, FinishStep DEF RefuseTeaser, Idle
  <2>2. LoopInv'
    BY <1>5, <2>1, LoopKept DEF RefuseTeaser
  <2> QED BY <1>5, <2>1, <2>2, JobStepTyped DEF RefuseTeaser, TypeInv, TypeOK, Jobs
<1>6. ASSUME NEW t \in Threads, TeaserCheck(t) PROVE TypeInv'
  <2> DEFINE j == [job[t] EXCEPT !.pc = "teaser_checked"]
  <2>1. JobStep(t, j) /\ j.pc = "teaser_checked"
    <3>1. j \in Jobs /\ JobOK(j) /\ j.pc = "teaser_checked"
      BY <1>6, JobTyped DEF TeaserCheck, JobOK, Jobs, PCs
    <3>2. job' = [job EXCEPT ![t] = j]
      BY <1>6, JobTyped DEF TeaserCheck, Jobs
    <3> QED BY <3>1, <3>2 DEF JobStep
  <2>2. LoopInv'
    BY <1>6, <2>1, LoopKept DEF TeaserCheck
  <2> QED BY <1>6, <2>1, <2>2, JobStepTyped DEF TeaserCheck, TypeInv, TypeOK, Jobs
<1>7. ASSUME NEW t \in Threads, TeaserCommit(t) PROVE TypeInv'
  <2>1. state' \in [Sessions -> SessionStates]
    BY <1>7, FlushTyped DEF TeaserCommit, SessionStates, TypeInv
  <2>2. JobStep(t, Idle) /\ Idle.pc = "idle"
    BY <1>7, FinishStep DEF TeaserCommit, Idle
  <2>3. LoopInv'
    BY <1>7, <2>2, LoopKept DEF TeaserCommit
  <2> QED BY <1>7, <2>1, <2>2, <2>3, JobStepTyped DEF TeaserCommit, TypeInv, TypeOK, Jobs
<1>8. ASSUME NEW t \in Threads, NEW s \in Sessions, CheckoutLoad(t, s) PROVE TypeInv'
  <2>1. JobStep(t, job'[t]) /\ job'[t].pc = "checkout_loaded"
    BY <1>8, StartStep DEF CheckoutLoad
  <2>2. LoopInv'
    BY <1>8, <2>1, LoopKept DEF CheckoutLoad
  <2> QED BY <1>8, <2>1, <2>2, JobStepTyped DEF CheckoutLoad, TypeInv, TypeOK, Jobs
<1>9. ASSUME NEW t \in Threads, CheckoutCommit(t) PROVE TypeInv'
  <2>1. state' \in [Sessions -> SessionStates]
    BY <1>9, FlushTyped DEF CheckoutCommit, SessionStates, TypeInv
  <2>2. JobStep(t, Idle) /\ Idle.pc = "idle"
    BY <1>9, FinishStep DEF CheckoutCommit, Idle
  <2>3. job[t].session \in Sessions
    BY <1>9, JobTyped DEF CheckoutCommit, JobOK
  <2>4. open' = [open EXCEPT ![job[t].session] = open[job[t].session] + 1]
    BY <1>9 DEF CheckoutCommit
  <2>5. open' \in [Sessions -> Nat] /\ \A s \in Sessions : open'[s] >= open[s]
    BY <2>3, <2>4 DEF TypeInv, TypeOK
  <2>6. LoopInv'
    BY <2>2, <2>5, JobTyped DEF JobStep, LoopInv, JobOK, TypeInv, TypeOK
  <2> QED BY <1>9, <2>1, <2>2, <2>5, <2>6, JobStepTyped DEF CheckoutCommit, TypeInv, TypeOK, Jobs
<1>10. ASSUME NEW t \in Threads, NEW s \in Sessions, WebhookLoad(t, s) PROVE TypeInv'
  <2> DEFINE j == [Idle EXCEPT !.pc = "webhook_loaded", !.session = s, !.was = state[s]]
  <2>1. JobStep(t, j) /\ j.pc = "webhook_loaded" /\ j.session = s
    BY <1>10 DEF WebhookLoad, JobStep, JobOK, Idle, Jobs, PCs, SessionStates, TypeInv, TypeOK
  <2>2. LoopInv'
    BY <1>10, <2>1 DEF WebhookLoad, JobStep, LoopInv, LoopFree, TypeInv, TypeOK
  <2> QED BY <1>10, <2>1, <2>2, JobStepTyped DEF WebhookLoad, TypeInv, TypeOK, Jobs
<1>11. ASSUME NEW t \in Threads, WebhookCommit(t) PROVE TypeInv'
  <2>1. state' \in [Sessions -> SessionStates]
    BY <1>11, FlushTyped DEF WebhookCommit, SessionStates, TypeInv
  <2>2. JobStep(t, Idle) /\ Idle.pc = "idle"
    BY <1>11, FinishStep DEF WebhookCommit, Idle
  <2>3. job[t].session \in Sessions /\ open[job[t].session] > 0
    BY <1>11, JobTyped DEF WebhookCommit, JobOK, LoopInv, TypeInv
  <2>4. open' \in [Sessions -> Nat] /\ activated' \in [Sessions -> Nat]
    BY <1>11, <2>3 DEF WebhookCommit, TypeInv, TypeOK
  <2>5. \A u \in Threads : job'[u].pc \notin LoopPCs
    BY <1>11, <2>2 DEF WebhookCommit, JobStep, LoopInv, TypeInv, TypeOK
  <2>6. LoopInv'
    BY <2>5 DEF LoopInv
  <2> QED BY <1>11, <2>1, <2>2, <2>4, <2>6, JobStepTyped DEF WebhookCommit, TypeInv, TypeOK, Jobs
<1>12. ASSUME NEW t \in Threads, NEW s \in Sessions, NEW u \in Users, ClaimCheck(t, s, u)
       PROVE  TypeInv'
  <2> DEFINE j == [Idle EXCEPT !.pc = "claim_checked", !.session = s, !.was = state[s], !.user = u]
  <2>1. JobStep(t, j) /\ j.pc = "claim_checked"
    BY <1>12 DEF ClaimCheck, JobStep, JobOK, Idle, Jobs, PCs, SessionStates, TypeInv, TypeOK
  <2>2. LoopInv'
    BY <1>12, <2>1, LoopKept DEF ClaimCheck
  <2> QED BY <1>12, <2>1, <2>2, JobStepTyped DEF ClaimCheck, TypeInv, TypeOK, Jobs
<1>13. ASSUME NEW t \in Threads, ClaimTransfer(t) PROVE TypeInv'
  <2> DEFINE j == [job[t] EXCEPT !.pc = "claim_transferred"]
  <2>1. JobStep(t, j) /\ j.pc = "claim_transferred" /\ job[t].user \in Users
    BY <1>13, JobTyped DEF ClaimTransfer, JobStep, JobOK, Jobs, PCs
  <2>2. LoopInv'
    BY <1>13, <2>1, LoopKept DEF ClaimTransfer
  <2> QED BY <1>13, <2>1, <2>2, JobStepTyped DEF ClaimTransfer, TypeInv, TypeOK, Jobs
<1>14. ASSUME NEW t \in Threads, ClaimReadDocs(t) PROVE TypeInv'
  <2> DEFINE j == [job[t] EXCEPT !.pc = "claim_docs_read", !.reads = DocsOf(job[t].session)]
  <2>1. JobStep(t, j) /\ j.pc = "claim_docs_read"
    <3>1. DocsOf(job[t].session) \subseteq Docs
      BY DEF DocsOf
    <3>2. j \in Jobs /\ JobOK(j) /\ j.pc = "claim_docs_read"
      BY <1>14, <3>1, JobTyped DEF ClaimReadDocs, JobOK, Jobs, PCs
    <3>3. job' = [job EXCEPT ![t] = j]
      BY <1>14, JobTyped DEF ClaimReadDocs, Jobs
    <3> QED BY <3>2, <3>3 DEF JobStep
  <2>2. LoopInv'
    BY <1>14, <2>1, LoopKept DEF ClaimReadDocs
  <2> QED BY <1>14, <2>1, <2>2, JobStepTyped DEF ClaimReadDocs, TypeInv, TypeOK, Jobs
<1>15. ASSUME NEW t \in Threads, ClaimCommit(t) PROVE TypeInv'
  <2>1. state' \in [Sessions -> SessionStates]
    BY <1>15, FlushTyped DEF ClaimCommit, SessionStates, TypeInv
  <2>2. JobStep(t, Idle) /\ Idle.pc = "idle"
    BY <1>15, FinishStep DEF ClaimCommit, Idle
  <2>3. docs' \in [Docs -> [session : Sessions \cup {None}, status : DocStates]]
    BY <1>15 DEF ClaimCommit, DocStates, TypeInv, TypeOK
  <2>4. LoopInv'
    BY <1>15, <2>2, LoopKept DEF ClaimCommit
  <2> QED BY <1>15, <2>1, <2>2, <2>3, <2>4, JobStepTyped DEF ClaimCommit, TypeInv, TypeOK, Jobs
<1>16. ASSUME NEW t \in Threads, PurgeSelect(t) PROVE TypeInv'
  <2> DEFINE due == {d \in Docs : docs[d].status = "overdue" /\ ~claimed[docs[d].session]}
  <2> DEFINE j == [Idle EXCEPT !.pc = "purging", !.reads = due]
  <2>1. JobStep(t, j) /\ j.pc = "purging"
    BY <1>16 DEF PurgeSelect, JobStep, JobOK, Idle, Jobs, PCs, SessionStates, TypeInv, TypeOK
  <2>2. LoopInv'
    BY <1>16, <2>1, LoopKept DEF PurgeSelect
  <2> QED BY <1>16, <2>1, <2>2, JobStepTyped DEF PurgeSelect, TypeInv, TypeOK, Jobs
<1>17. ASSUME NEW t \in Threads, PurgeDelete(t) PROVE TypeInv'
  <2>1. JobStep(t, Idle) /\ Idle.pc = "idle"
    BY <1>17, FinishStep DEF PurgeDelete, Idle
  <2>2. docs' \in [Docs -> [session : Sessions \cup {None}, status : DocStates]]
    BY <1>17 DEF PurgeDelete, DocStates, TypeInv, TypeOK
  <2>3. LoopInv'
    BY <1>17, <2>1, LoopKept DEF PurgeDelete
  <2> QED BY <1>17, <2>1, <2>2, <2>3, JobStepTyped DEF PurgeDelete, TypeInv, TypeOK, Jobs
<1>18. ASSUME NEW s \in Sessions, ExpireOnRead(s) \/ SessionTimesOut(s) PROVE TypeInv'
  BY <1>18 DEF ExpireOnRead, SessionTimesOut, TypeInv, TypeOK, LoopInv, JobOK, SessionStates
<1>19. ASSUME NEW d \in Docs, RetentionPasses(d) PROVE TypeInv'
  BY <1>19 DEF RetentionPasses, TypeInv, TypeOK, LoopInv, JobOK, DocStates
<1>20. ASSUME Crash PROVE TypeInv'
  <2>1. \A t \in Threads : job'[t] = Idle
    BY <1>20 DEF Crash
  <2>2. LoopInv' /\ \A t \in Threads : JobOK(job'[t])
    BY <2>1, IdleTyped DEF LoopInv, Idle
  <2> QED BY <1>20, <2>2, IdleTyped DEF Crash, TypeInv, TypeOK, Jobs
<1>21. ASSUME UNCHANGED vars PROVE TypeInv'
  BY <1>21 DEF vars, TypeInv, TypeOK, LoopInv, JobOK
<1> QED
  BY <1>1, <1>2, <1>3, <1>4, <1>5, <1>6, <1>7, <1>8, <1>9, <1>10, <1>11, <1>12, <1>13,
     <1>14, <1>15, <1>16, <1>17, <1>18, <1>19, <1>20, <1>21 DEF Next, Continue

LEMMA TypeInvariant == Spec => []TypeInv
<1>1. Init => TypeInv
  BY DEF Init, TypeInv, TypeOK, Idle, JobOK, LoopInv, PCs, SessionStates, DocStates,
         UploadPCs, ClaimPCs, LoopPCs
<1> QED BY <1>1, TypeInvStep, PTL DEF Spec

\* Every reachable state is well typed.
THEOREM TypeCorrect == Spec => []TypeOK
<1>1. TypeInv => TypeOK
  BY DEF TypeInv
<1> QED BY <1>1, TypeInvariant, PTL

-----------------------------------------------------------------------------
(***************************************************************************)
(* Most steps only move a job along.  These are the others.                *)
(***************************************************************************)
Writes(t) ==
    \/ UploadCommit(t)
    \/ UploadRegister(t)
    \/ TeaserCommit(t)
    \/ CheckoutCommit(t)
    \/ WebhookCommit(t)
    \/ ClaimTransfer(t)
    \/ ClaimCommit(t)
    \/ PurgeDelete(t)

LEMMA WritingSteps ==
    ASSUME [Next]_vars
    PROVE  \/ UNCHANGED <<rows, timedOut>>
           \/ \E t \in Threads : Writes(t)
           \/ \E s \in Sessions : ExpireOnRead(s) \/ SessionTimesOut(s)
           \/ \E d \in Docs : RetentionPasses(d)
<1>1. ASSUME NEW t \in Threads, Continue(t)
      PROVE  UNCHANGED <<rows, timedOut>> \/ Writes(t)
  BY <1>1 DEF Continue, Writes, RefuseTeaser, TeaserCheck, ClaimReadDocs
<1>2. ASSUME NEW t \in Threads, PurgeSelect(t) PROVE UNCHANGED <<rows, timedOut>>
  BY <1>2 DEF PurgeSelect
<1>3. ASSUME NEW t \in Threads, NEW s \in Sessions,
             TeaserLoad(t, s) \/ CheckoutLoad(t, s) \/ WebhookLoad(t, s)
      PROVE  UNCHANGED <<rows, timedOut>>
  BY <1>3 DEF TeaserLoad, CheckoutLoad, WebhookLoad
<1>4. ASSUME NEW t \in Threads, NEW s \in Sessions, NEW d \in Docs, UploadLoad(t, s, d)
      PROVE  UNCHANGED <<rows, timedOut>>
  BY <1>4 DEF UploadLoad
<1>5. ASSUME NEW t \in Threads, NEW s \in Sessions, NEW u \in Users, ClaimCheck(t, s, u)
      PROVE  UNCHANGED <<rows, timedOut>>
  BY <1>5 DEF ClaimCheck
<1>6. ASSUME Crash \/ UNCHANGED vars PROVE UNCHANGED <<rows, timedOut>>
  BY <1>6 DEF Crash, vars, rows
<1> QED BY <1>1, <1>2, <1>3, <1>4, <1>5, <1>6 DEF Next

-----------------------------------------------------------------------------
(***************************************************************************)
(* Ownership.  Only the steps of a claim touch owner, members and claimed, *)
(* and no step takes an activated purchase back.                           *)
(***************************************************************************)
ClaimStep(t) ==
    \/ \E s \in Sessions, u \in Users : ClaimCheck(t, s, u)
    \/ ClaimTransfer(t)
    \/ ClaimReadDocs(t)
    \/ ClaimCommit(t)

LEMMA ActivatedGrows ==
    ASSUME TypeInv, [Next]_vars, NEW s \in Sessions
    PROVE  activated[s] \in Nat /\ activated'[s] >= activated[s]
<1>1. activated[s] \in Nat
  BY DEF TypeInv, TypeOK
<1>2. ASSUME NEW t \in Threads, WebhookCommit(t) PROVE activated'[s] >= activated[s]
  <2>1. activated' = [activated EXCEPT ![job[t].session] = activated[job[t].session] + 1]
    BY <1>2 DEF WebhookCommit
  <2> QED BY <1>1, <2>1 DEF TypeInv, TypeOK
<1>3. ASSUME \A t \in Threads : ~WebhookCommit(t) PROVE activated' = activated
  BY <1>3, WritingSteps DEF Writes, rows, UploadCommit, UploadRegister, TeaserCommit,
       CheckoutCommit, ClaimTransfer, ClaimCommit, PurgeDelete, ExpireOnRead, SessionTimesOut,
       RetentionPasses
<1> QED BY <1>1, <1>2, <1>3

LEMMA OtherStepsKeepClaims ==
    ASSUME TypeInv, [Next]_vars, \A t \in Threads : ~ClaimStep(t)
    PROVE  /\ UNCHANGED <<owner, members, claimed>>
           /\ \A u \in Threads : job'[u] = job[u] \/ job'[u].pc \notin ClaimPCs
<1>1. UNCHANGED <<owner, members, claimed>>
  BY WritingSteps DEF Writes, ClaimStep, rows, UploadCommit, UploadRegister, TeaserCommit,
     CheckoutCommit, WebhookCommit, PurgeDelete, ExpireOnRead, SessionTimesOut, RetentionPasses
<1>2. ASSUME NEW u \in Threads PROVE job'[u] = job[u] \/ job'[u].pc \notin ClaimPCs
  <2> USE DEF ClaimPCs
  <2>1. ASSUME NEW t \in Threads, Finish(t) PROVE job'[u] = job[u] \/ job'[u].pc \notin ClaimPCs
    BY <2>1 DEF Finish, Idle, TypeInv, TypeOK
  <2>2. ASSUME NEW t \in Threads, NEW s \in Sessions, NEW p \in {"teaser_loaded", "checkout_loaded"},
               Start(t, s, p)
        PROVE job'[u] = job[u] \/ job'[u].pc \notin ClaimPCs
    BY <2>2, StartStep DEF JobStep, TypeInv, TypeOK
  <2>3. ASSUME NEW t \in Threads, NEW s \in Sessions,
               WebhookLoad(t, s) \/ \E d \in Docs : UploadLoad(t, s, d)
        PROVE job'[u] = job[u] \/ job'[u].pc \notin ClaimPCs
    <3>1. CASE WebhookLoad(t, s)
      BY <3>1 DEF WebhookLoad, Idle, TypeInv, TypeOK
    <3>2. CASE \E d \in Docs : UploadLoad(t, s, d)
      BY <3>2 DEF UploadLoad, Idle, TypeInv, TypeOK
    <3> QED BY <2>3, <3>1, <3>2
  <2>4. ASSUME NEW t \in Threads, UploadCommit(t) \/ TeaserCheck(t)
        PROVE job'[u] = job[u] \/ job'[u].pc \notin ClaimPCs
    BY <2>4, JobTyped DEF UploadCommit, TeaserCheck, Jobs
  <2>5. ASSUME Crash PROVE job'[u].pc \notin ClaimPCs
    BY <2>5 DEF Crash, Idle
  <2>6. ASSUME NEW t \in Threads, PurgeSelect(t)
        PROVE job'[u] = job[u] \/ job'[u].pc \notin ClaimPCs
    BY <2>6 DEF PurgeSelect, Idle, TypeInv, TypeOK
  <2>7. ASSUME NEW t \in Threads, Continue(t)
        PROVE job'[u] = job[u] \/ job'[u].pc \notin ClaimPCs
    BY <2>1, <2>4, <2>7 DEF Continue, ClaimStep, UploadRegister, RefuseTeaser, TeaserCommit,
        CheckoutCommit, WebhookCommit, PurgeDelete
  <2>8. ASSUME NEW t \in Threads, NEW s \in Sessions, TeaserLoad(t, s) \/ CheckoutLoad(t, s)
        PROVE job'[u] = job[u] \/ job'[u].pc \notin ClaimPCs
    BY <2>2, <2>8 DEF TeaserLoad, CheckoutLoad
  <2>9. ASSUME \/ UNCHANGED vars
               \/ \E s \in Sessions : ExpireOnRead(s) \/ SessionTimesOut(s)
               \/ \E d \in Docs : RetentionPasses(d)
        PROVE job'[u] = job[u]
    BY <2>9 DEF vars, ExpireOnRead, SessionTimesOut, RetentionPasses
  <2> QED BY <2>3, <2>5, <2>6, <2>7, <2>8, <2>9 DEF Next, ClaimStep
<1> QED BY <1>1, <1>2

LEMMA OwnershipKept ==
    TypeInv /\ ClaimInv /\ OwnershipIsPaidFor /\ [Next]_vars => ClaimInv' /\ OwnershipIsPaidFor'
<1> SUFFICES ASSUME TypeInv, ClaimInv, OwnershipIsPaidFor, [Next]_vars
             PROVE  ClaimInv' /\ OwnershipIsPaidFor'
  OBVIOUS
<1>1. CASE \A t \in Threads : ~ClaimStep(t)
  <2>0. \A s \in Sessions : activated[s] > 0 => activated'[s] > 0
    <3> SUFFICES ASSUME NEW s \in Sessions, activated[s] > 0 PROVE activated'[s] > 0
      OBVIOUS
    <3>1. activated[s] \in Nat /\ activated'[s] >= activated[s]
      BY ActivatedGrows
    <3>2. activated'[s] \in Nat
      BY TypeInvStep DEF TypeInv, TypeOK
    <3> QED BY <3>1, <3>2
  <2>1. OwnershipIsPaidFor'
    BY <1>1, <2>0, OtherStepsKeepClaims DEF OwnershipIsPaidFor
  <2>2. ASSUME NEW u \in Threads, job'[u].pc \in ClaimPCs
        PROVE  job'[u] = job[u] /\ job[u].session \in Sessions
    BY <1>1, <2>2, OtherStepsKeepClaims, JobTyped DEF JobOK, ClaimPCs
  <2>3. ClaimInv'
    BY <1>1, <2>0, <2>2, OtherStepsKeepClaims DEF ClaimInv, ClaimPCs
  <2> QED BY <2>1, <2>3
<1>2. ASSUME NEW t \in Threads, NEW s \in Sessions, NEW u \in Users, ClaimCheck(t, s, u)
      PROVE  ClaimInv' /\ OwnershipIsPaidFor'
  <2>1. job'[t].pc = "claim_checked" /\ job'[t].session = s /\ activated[s] > 0
    BY <1>2 DEF ClaimCheck, Idle, TypeInv, TypeOK
  <2>2. \A v \in Threads \ {t} : job'[v] = job[v]
    BY <1>2 DEF ClaimCheck, TypeInv, TypeOK
  <2> QED BY <1>2, <2>1, <2>2 DEF ClaimCheck, rows, ClaimInv, OwnershipIsPaidFor, ClaimPCs
<1>3. ASSUME NEW t \in Threads, ClaimTransfer(t) PROVE ClaimInv' /\ OwnershipIsPaidFor'
  <2>1. job[t].user \in Users /\ job[t].session \in Sessions /\ activated[job[t].session] > 0
    BY <1>3, JobTyped DEF ClaimTransfer, JobOK, ClaimInv, ClaimPCs
  <2>2. job'[t].pc = "claim_transferred" /\ job'[t].session = job[t].session
    BY <1>3, JobTyped DEF ClaimTransfer, Jobs
  <2>3. \A v \in Threads \ {t} : job'[v] = job[v]
    BY <1>3, JobTyped DEF ClaimTransfer
  <2>4. owner'[job[t].session] = job[t].user /\ job[t].user # System
    BY <1>3, <2>1, ExpressAssumption DEF ClaimTransfer, TypeInv, TypeOK
  <2>5. \A s \in Sessions : s # job[t].session => owner'[s] = owner[s]
    BY <1>3, <2>1 DEF ClaimTransfer, TypeInv, TypeOK
  <2>6. \A s \in Sessions : owner'[s] \in members'[s]
    BY <1>3, <2>1, <2>4, <2>5 DEF ClaimTransfer, OwnershipIsPaidFor, TypeInv, TypeOK
  <2>7. OwnershipIsPaidFor'
    BY <1>3, <2>1, <2>4, <2>5, <2>6 DEF ClaimTransfer, OwnershipIsPaidFor
  <2>8. \A v \in Threads : job[v].pc \in ClaimPCs => job[v].session \in Sessions
    BY JobTyped DEF JobOK, ClaimPCs
  <2>9. ClaimInv'
    BY <1>3, <2>1, <2>2, <2>3, <2>4, <2>5, <2>8 DEF ClaimTransfer, ClaimInv, ClaimPCs
  <2> QED BY <2>7, <2>9
<1>4. ASSUME NEW t \in Threads, ClaimReadDocs(t) PROVE ClaimInv' /\ OwnershipIsPaidFor'
  <2>1. job'[t].session = job[t].session /\ job[t].pc = "claim_transferred"
    BY <1>4, JobTyped DEF ClaimReadDocs, Jobs
  <2>2. \A v \in Threads \ {t} : job'[v] = job[v]
    BY <1>4, JobTyped DEF ClaimReadDocs
  <2> QED BY <1>4, <2>1, <2>2 DEF ClaimReadDocs, rows, ClaimInv, OwnershipIsPaidFor, ClaimPCs
<1>5. ASSUME NEW t \in Threads, ClaimCommit(t) PROVE ClaimInv' /\ OwnershipIsPaidFor'
  <2>1. owner[job[t].session] # System /\ job[t].session \in Sessions
    BY <1>5, JobTyped DEF ClaimCommit, ClaimInv, JobOK
  <2>2. \A v \in Threads : job'[v] = job[v] \/ job'[v].pc = "idle"
    BY <1>5 DEF ClaimCommit, Finish, Idle, TypeInv, TypeOK
  <2>3. OwnershipIsPaidFor'
    BY <1>5, <2>1 DEF ClaimCommit, OwnershipIsPaidFor, TypeInv, TypeOK
  <2> QED BY <1>5, <2>2, <2>3 DEF ClaimCommit, ClaimInv, ClaimPCs
<1> QED BY <1>1, <1>2, <1>3, <1>4, <1>5 DEF ClaimStep

\* A workspace leaves the system user only against an activated purchase, its
\* owner is a member of it, and a claimed session has been handed over.
THEOREM Ownership == Spec => []OwnershipIsPaidFor
<1>1. Init => ClaimInv /\ OwnershipIsPaidFor
  BY DEF Init, ClaimInv, OwnershipIsPaidFor, Idle, ClaimPCs
<1> QED BY <1>1, OwnershipKept, TypeInvariant, PTL DEF Spec

-----------------------------------------------------------------------------
(***************************************************************************)
(* The state column.  Orders, activations and claims are never taken back, *)
(* so what a state says stays true until the state is written again.       *)
(***************************************************************************)
Says(s, word) ==
    /\ word = "checkout_pending" => open[s] + activated[s] > 0
    /\ word = "purchased" => activated[s] > 0
    /\ word = "claimed" => claimed[s]

LEMMA OrdersGrow ==
    ASSUME TypeInv, [Next]_vars, NEW s \in Sessions
    PROVE  /\ open'[s] + activated'[s] >= open[s] + activated[s]
           /\ claimed[s] => claimed'[s]
<1> USE DEF TypeInv, TypeOK
<1>1. ASSUME NEW t \in Threads, CheckoutCommit(t)
      PROVE  open'[s] + activated'[s] >= open[s] + activated[s]
  <2>1. open' = [open EXCEPT ![job[t].session] = open[job[t].session] + 1] /\ activated' = activated
    BY <1>1 DEF CheckoutCommit
  <2> QED BY <2>1
<1>2. ASSUME NEW t \in Threads, WebhookCommit(t)
      PROVE  open'[s] + activated'[s] >= open[s] + activated[s]
  <2>1. /\ open' = [open EXCEPT ![job[t].session] = open[job[t].session] - 1]
        /\ activated' = [activated EXCEPT ![job[t].session] = activated[job[t].session] + 1]
    BY <1>2 DEF WebhookCommit
  <2> QED BY <2>1
<1>3. ASSUME \A t \in Threads : ~CheckoutCommit(t) /\ ~WebhookCommit(t)
      PROVE  open' = open /\ activated' = activated
  BY <1>3, WritingSteps DEF Writes, rows, UploadCommit, UploadRegister, TeaserCommit,
       ClaimTransfer, ClaimCommit, PurgeDelete, ExpireOnRead, SessionTimesOut, RetentionPasses
<1>4. ASSUME NEW t \in Threads, ClaimCommit(t) PROVE claimed[s] => claimed'[s]
  BY <1>4 DEF ClaimCommit
<1>5. ASSUME \A t \in Threads : ~ClaimCommit(t) PROVE claimed' = claimed
  BY <1>5, WritingSteps DEF Writes, rows, UploadCommit, UploadRegister, TeaserCommit,
       CheckoutCommit, WebhookCommit, ClaimTransfer, PurgeDelete, ExpireOnRead, SessionTimesOut,
       RetentionPasses
<1>6. open'[s] + activated'[s] >= open[s] + activated[s]
  <2>1. CASE \A t \in Threads : ~CheckoutCommit(t) /\ ~WebhookCommit(t)
    BY <1>3, <2>1
  <2> QED BY <1>1, <1>2, <2>1
<1> QED BY <1>4, <1>5, <1>6

LEMMA SaidStaysTrue ==
    ASSUME TypeInv, [Next]_vars, NEW s \in Sessions, NEW word, Says(s, word)
    PROVE  Says(s, word)'
<1>1. open[s] \in Nat /\ activated[s] \in Nat /\ open'[s] \in Nat /\ activated'[s] \in Nat
  BY TypeInvStep DEF TypeInv, TypeOK
<1> QED BY <1>1, ActivatedGrows, OrdersGrow DEF Says

LEMMA FlushTellsTruth ==
    ASSUME TypeInv, StateTellsTruth, [Next]_vars, NEW t \in Threads, NEW new,
           Flush(t, new), NEW of, of = job[t].session, Says(of, new)'
    PROVE  StateTellsTruth'
<1> SUFFICES ASSUME NEW s \in Sessions PROVE Says(s, state[s])'
  BY DEF Says, StateTellsTruth
<1>1. Says(s, state[s])
  BY DEF Says, StateTellsTruth
<1>2. CASE state'[s] = state[s]
  <2>1. \A word : Says(s, word) => Says(s, word)'
    BY SaidStaysTrue
  <2> QED BY <1>1, <1>2, <2>1 DEF Says
<1>3. CASE state'[s] # state[s]
  <2>1. s = of /\ state'[s] = new
    BY <1>3 DEF Flush, TypeInv, TypeOK
  <2> QED BY <2>1 DEF Says
<1> QED BY <1>2, <1>3

LEMMA StateKept == TypeInv /\ StateTellsTruth /\ [Next]_vars => StateTellsTruth'
<1> SUFFICES ASSUME TypeInv, StateTellsTruth, [Next]_vars PROVE StateTellsTruth'
  OBVIOUS
<1>1. ASSUME NEW t \in Threads, UploadCommit(t) PROVE StateTellsTruth'
  <2> PICK s \in Sessions : s = job[t].session
    BY <1>1, JobTyped DEF UploadCommit, JobOK
  <2>1. Flush(t, "uploaded") /\ Says(s, "uploaded")'
    BY <1>1 DEF UploadCommit, Says
  <2> QED BY <2>1, FlushTellsTruth
<1>2. ASSUME NEW t \in Threads, TeaserCommit(t) PROVE StateTellsTruth'
  <2> PICK s \in Sessions : s = job[t].session
    BY <1>2, JobTyped DEF TeaserCommit, JobOK
  <2>1. Flush(t, "teaser_ready") /\ Says(s, "teaser_ready")'
    BY <1>2 DEF TeaserCommit, Says
  <2> QED BY <2>1, FlushTellsTruth
<1>3. ASSUME NEW t \in Threads, CheckoutCommit(t) PROVE StateTellsTruth'
  <2> PICK s \in Sessions : s = job[t].session
    BY <1>3, JobTyped DEF CheckoutCommit, JobOK
  <2>2. open' = [open EXCEPT ![s] = open[s] + 1] /\ activated' = activated
    BY <1>3 DEF CheckoutCommit
  <2>3. open'[s] + activated'[s] > 0
    BY <2>2 DEF TypeInv, TypeOK
  <2>4. Says(s, "checkout_pending")'
    BY <2>3 DEF Says
  <2> QED BY <1>3, <2>4, FlushTellsTruth DEF CheckoutCommit
<1>4. ASSUME NEW t \in Threads, WebhookCommit(t) PROVE StateTellsTruth'
  <2> PICK s \in Sessions : s = job[t].session
    BY <1>4, JobTyped DEF WebhookCommit, JobOK
  <2>2. activated' = [activated EXCEPT ![s] = activated[s] + 1]
    BY <1>4 DEF WebhookCommit
  <2>3. activated'[s] > 0
    BY <2>2 DEF TypeInv, TypeOK
  <2>4. Says(s, "purchased")'
    BY <2>3 DEF Says
  <2> QED BY <1>4, <2>4, FlushTellsTruth DEF WebhookCommit
<1>5. ASSUME NEW t \in Threads, ClaimCommit(t) PROVE StateTellsTruth'
  <2> PICK s \in Sessions : s = job[t].session
    BY <1>5, JobTyped DEF ClaimCommit, JobOK
  <2>1. claimed'[s]
    BY <1>5 DEF ClaimCommit, TypeInv, TypeOK
  <2>2. Says(s, "claimed")'
    BY <2>1 DEF Says
  <2> QED BY <1>5, <2>2, FlushTellsTruth DEF ClaimCommit
<1>6. ASSUME NEW s \in Sessions, ExpireOnRead(s) PROVE StateTellsTruth'
  BY <1>6 DEF ExpireOnRead, StateTellsTruth, TypeInv, TypeOK
<1>7. ASSUME state' = state PROVE StateTellsTruth'
  <2> SUFFICES ASSUME NEW s \in Sessions PROVE Says(s, state[s])'
    BY DEF Says, StateTellsTruth
  <2>1. Says(s, state[s])
    BY DEF Says, StateTellsTruth
  <2>2. \A word : Says(s, word) => Says(s, word)'
    BY SaidStaysTrue
  <2> QED BY <1>7, <2>1, <2>2 DEF Says
<1>8. \/ state' = state
      \/ \E t \in Threads : \/ UploadCommit(t) \/ TeaserCommit(t) \/ CheckoutCommit(t)
                            \/ WebhookCommit(t) \/ ClaimCommit(t)
      \/ \E s \in Sessions : ExpireOnRead(s)
  BY WritingSteps DEF Writes, rows, UploadRegister, ClaimTransfer, PurgeDelete, SessionTimesOut,
     RetentionPasses
<1> QED BY <1>1, <1>2, <1>3, <1>4, <1>5, <1>6, <1>7, <1>8

\* Whatever requests overwrite each other's state, it never says more of orders,
\* purchases and claims than the other tables hold.
THEOREM StateTrue == Spec => []StateTellsTruth
<1>1. Init => StateTellsTruth
  BY DEF Init, StateTellsTruth
<1> QED BY <1>1, StateKept, TypeInvariant, PTL DEF Spec

-----------------------------------------------------------------------------
(***************************************************************************)
(* Retention.  A document falls overdue only when its session has timed    *)
(* out and no claim of it is running, and no claim starts afterwards: what *)
(* a purge has selected is not claimed before it is deleted.               *)
(***************************************************************************)

\* A step that starts no upload, claim or purge and reads no documents
JobsQuiet ==
    \A u \in Threads :
        /\ job'[u].pc \in ClaimPCs =>
             job[u].pc \in ClaimPCs /\ job'[u].session = job[u].session
        /\ job'[u].pc \in {"upload_loaded", "purging", "claim_docs_read"} => job'[u] = job[u]

LEMMA QuietStep ==
    ASSUME TypeInv, [Next]_vars,
           \A t \in Threads :
              /\ \A s \in Sessions, d \in Docs : ~UploadLoad(t, s, d)
              /\ \A s \in Sessions, u \in Users : ~ClaimCheck(t, s, u)
              /\ ~ClaimReadDocs(t) /\ ~PurgeSelect(t)
    PROVE  JobsQuiet
<1> SUFFICES ASSUME NEW u \in Threads
             PROVE  /\ job'[u].pc \in ClaimPCs =>
                         job[u].pc \in ClaimPCs /\ job'[u].session = job[u].session
                    /\ job'[u].pc \in {"upload_loaded", "purging", "claim_docs_read"} =>
                         job'[u] = job[u]
  BY DEF JobsQuiet
<1> USE DEF ClaimPCs
<1>1. CASE job'[u] = job[u]
  BY <1>1
<1>2. CASE job'[u] # job[u]
  <2>1. ASSUME NEW t \in Threads, Finish(t) PROVE job'[u].pc = "idle"
    BY <1>2, <2>1 DEF Finish, Idle, TypeInv, TypeOK
  <2>2. ASSUME NEW t \in Threads, NEW s \in Sessions, NEW p \in {"teaser_loaded", "checkout_loaded"},
               Start(t, s, p)
        PROVE  job'[u].pc = p
    BY <1>2, <2>2, StartStep DEF JobStep, TypeInv, TypeOK
  <2>3. ASSUME NEW t \in Threads, NEW s \in Sessions, WebhookLoad(t, s)
        PROVE  job'[u].pc = "webhook_loaded"
    BY <1>2, <2>3 DEF WebhookLoad, Idle, TypeInv, TypeOK
  <2>4. ASSUME NEW t \in Threads, UploadCommit(t) \/ TeaserCheck(t)
        PROVE  job'[u].pc \in {"upload_stored", "teaser_checked"}
    BY <1>2, <2>4, JobTyped DEF UploadCommit, TeaserCheck, Jobs
  <2>5. ASSUME NEW t \in Threads, ClaimTransfer(t)
        PROVE  /\ job[u].pc \in ClaimPCs /\ job'[u].session = job[u].session
               /\ job'[u].pc = "claim_transferred"
    BY <1>2, <2>5, JobTyped DEF ClaimTransfer, Jobs
  <2>6. ASSUME Crash PROVE job'[u].pc = "idle"
    BY <2>6 DEF Crash, Idle
  <2>7. ASSUME NEW t \in Threads, NEW s \in Sessions, TeaserLoad(t, s) \/ CheckoutLoad(t, s)
        PROVE  job'[u].pc \in {"teaser_loaded", "checkout_loaded"}
    BY <2>2, <2>7 DEF TeaserLoad, CheckoutLoad
  <2>8. ASSUME NEW t \in Threads, Continue(t), ~ClaimReadDocs(t)
        PROVE  \/ job'[u].pc \in {"idle", "upload_stored", "teaser_checked"}
               \/ /\ job[u].pc \in ClaimPCs /\ job'[u].session = job[u].session
                  /\ job'[u].pc = "claim_transferred"
    BY <2>1, <2>4, <2>5, <2>8 DEF Continue, UploadRegister, RefuseTeaser, TeaserCommit,
        CheckoutCommit, WebhookCommit, ClaimCommit, PurgeDelete
  <2>9. ~(\/ UNCHANGED vars
          \/ \E s \in Sessions : ExpireOnRead(s) \/ SessionTimesOut(s)
          \/ \E d \in Docs : RetentionPasses(d))
    BY <1>2 DEF vars, ExpireOnRead, SessionTimesOut, RetentionPasses
  <2> QED BY <2>3, <2>6, <2>7, <2>8, <2>9 DEF Next
<1> QED BY <1>1, <1>2

SurviveInv == PurgeInv /\ ClaimedDocumentsSurvive

LEMMA QuietKeeps ==
    ASSUME SurviveInv, JobsQuiet, docs' = docs, claimed' = claimed,
           \A s \in Sessions : timedOut[s] => timedOut'[s]
    PROVE  SurviveInv'
<1>1. \A d \in Docs : Unclaimable(d) /\ docs[d].session \in Sessions => Unclaimable(d)'
  BY DEF Unclaimable, JobsQuiet
<1> QED BY <1>1 DEF SurviveInv, PurgeInv, ClaimedDocumentsSurvive, JobsQuiet

LEMMA DocsTyped ==
    ASSUME TypeInv, NEW d \in Docs
    PROVE  docs[d] \in [session : Sessions \cup {None}, status : DocStates]
BY DEF TypeInv, TypeOK

LEMMA SurviveKept == TypeInv /\ SurviveInv /\ [Next]_vars => SurviveInv'
<1> SUFFICES ASSUME TypeInv, SurviveInv, [Next]_vars PROVE SurviveInv'
  OBVIOUS
<1>1. ASSUME NEW t \in Threads, NEW s \in Sessions, NEW d \in Docs, UploadLoad(t, s, d)
      PROVE  SurviveInv'
  <2>1. job'[t].pc = "upload_loaded" /\ job'[t].doc = d
    BY <1>1 DEF UploadLoad, Idle, TypeInv, TypeOK
  <2>2. \A u \in Threads \ {t} : job'[u] = job[u]
    BY <1>1 DEF UploadLoad, TypeInv, TypeOK
  <2> QED BY <1>1, <2>1, <2>2 DEF UploadLoad, rows, SurviveInv, PurgeInv, Unclaimable,
              ClaimedDocumentsSurvive, ClaimPCs
<1>2. ASSUME NEW t \in Threads, NEW s \in Sessions, NEW u \in Users, ClaimCheck(t, s, u)
      PROVE  SurviveInv'
  <2>1. job'[t].pc = "claim_checked" /\ job'[t].session = s /\ ~timedOut[s]
    BY <1>2 DEF ClaimCheck, Idle, TypeInv, TypeOK
  <2>2. \A v \in Threads \ {t} : job'[v] = job[v]
    BY <1>2 DEF ClaimCheck, TypeInv, TypeOK
  <2> QED BY <1>2, <2>1, <2>2 DEF ClaimCheck, rows, SurviveInv, PurgeInv, Unclaimable,
              ClaimedDocumentsSurvive, ClaimPCs
<1>3. ASSUME NEW t \in Threads, ClaimReadDocs(t) PROVE SurviveInv'
  <2>1. /\ job'[t].pc = "claim_docs_read" /\ job'[t].session = job[t].session
        /\ job'[t].reads = DocsOf(job[t].session)
    BY <1>3, JobTyped DEF ClaimReadDocs, Jobs
  <2>2. \A v \in Threads \ {t} : job'[v] = job[v]
    BY <1>3, JobTyped DEF ClaimReadDocs
  <2>3. job[t].pc = "claim_transferred"
    BY <1>3 DEF ClaimReadDocs
  <2>4. UNCHANGED <<docs, claimed, timedOut>>
    BY <1>3 DEF ClaimReadDocs, rows
  <2>5. \A d \in Docs : Unclaimable(d) => Unclaimable(d)'
    BY <2>1, <2>2, <2>3, <2>4 DEF Unclaimable, ClaimPCs
  <2>6. \A d \in job'[t].reads : docs[d].status # "absent" /\ docs[d].session = job'[t].session
    BY <2>1 DEF DocsOf
  <2> QED BY <2>1, <2>2, <2>4, <2>5, <2>6 DEF SurviveInv, PurgeInv, ClaimedDocumentsSurvive
<1>4. ASSUME NEW t \in Threads, PurgeSelect(t) PROVE SurviveInv'
  <2>1. /\ job'[t].pc = "purging"
        /\ job'[t].reads = {d \in Docs : docs[d].status = "overdue" /\ ~claimed[docs[d].session]}
    BY <1>4 DEF PurgeSelect, Idle, TypeInv, TypeOK
  <2>2. \A v \in Threads \ {t} : job'[v] = job[v]
    BY <1>4 DEF PurgeSelect, TypeInv, TypeOK
  <2> QED BY <1>4, <2>1, <2>2 DEF PurgeSelect, rows, SurviveInv, PurgeInv, Unclaimable,
              ClaimedDocumentsSurvive, ClaimPCs
<1>5. CASE \A t \in Threads :
              /\ \A s \in Sessions, d \in Docs : ~UploadLoad(t, s, d)
              /\ \A s \in Sessions, u \in Users : ~ClaimCheck(t, s, u)
              /\ ~ClaimReadDocs(t) /\ ~PurgeSelect(t)
  <2>1. JobsQuiet
    BY <1>5, QuietStep
  <2> USE DEF SurviveInv
  <2>2. ASSUME NEW t \in Threads, UploadCommit(t) PROVE SurviveInv'
    <3> DEFINE new == job[t].doc
    <3>1. /\ new \in Docs /\ job[t].session \in Sessions
          /\ docs[new].status = "absent"
          /\ docs' = [docs EXCEPT ![new] = [session |-> job[t].session, status |-> "stored"]]
      BY <2>2, JobTyped DEF UploadCommit, JobOK, UploadPCs, PurgeInv
    <3>2. docs'[new].status = "stored" /\ \A d \in Docs \ {new} : docs'[d] = docs[d]
      BY <3>1 DEF TypeInv, TypeOK
    <3>3. timedOut' = timedOut /\ claimed' = claimed
      BY <2>2 DEF UploadCommit
    <3>4. \A u \in Threads : job'[u].pc # "upload_loaded"
      <4> SUFFICES ASSUME NEW u \in Threads, job'[u].pc = "upload_loaded" PROVE FALSE
        OBVIOUS
      <4>1. job'[u] = job[u] /\ job'[t].pc = "upload_stored"
        BY <2>1, <2>2, JobTyped DEF JobsQuiet, UploadCommit, Jobs
      <4>2. u = t
        BY <4>1, <2>2 DEF TypeInv, LoopInv, LoopPCs, UploadPCs, UploadCommit
      <4> QED BY <4>1, <4>2
    <3>5. \A d \in Docs : docs'[d].status \in {"overdue", "purged"} => d # new
      BY <3>2
    <3>6. \A d \in Docs \ {new} : docs[d].status \in {"overdue", "purged"} => Unclaimable(d)'
      BY <2>1, <3>2, <3>3 DEF JobsQuiet, Unclaimable, PurgeInv
    <3>7. docs'[new].session \in Sessions
      BY <3>1 DEF TypeInv, TypeOK
    <3>8. \A d \in Docs : docs'[d].status # "absent" => docs'[d].session \in Sessions
      BY <3>2, <3>7 DEF PurgeInv
    <3>9. \A u \in Threads : job'[u].pc \in {"purging", "claim_docs_read"} =>
            job'[u] = job[u] /\ job[u].reads \subseteq Docs /\ new \notin job[u].reads
      BY <2>1, <3>1, JobTyped DEF JobsQuiet, PurgeInv, Jobs
    <3>10. PurgeInv'
      BY <3>2, <3>3, <3>4, <3>5, <3>6, <3>8, <3>9 DEF PurgeInv
    <3> QED BY <3>2, <3>3, <3>5, <3>10 DEF ClaimedDocumentsSurvive
  <2>3. ASSUME NEW t \in Threads, ClaimCommit(t) PROVE SurviveInv'
    <3>1. /\ job[t].pc = "claim_docs_read" /\ job[t].session \in Sessions
          /\ timedOut' = timedOut
          /\ claimed' = [claimed EXCEPT ![job[t].session] = TRUE]
      BY <2>3, JobTyped DEF ClaimCommit, JobOK
    <3>2. \A d \in job[t].reads : docs[d].status # "absent" /\ docs[d].session = job[t].session
      BY <3>1 DEF PurgeInv
    <3>3. \A d \in Docs :
            /\ docs'[d].session = docs[d].session
            /\ d \in job[t].reads => docs'[d].status = "held"
            /\ d \notin job[t].reads => docs'[d] = docs[d]
      <4>1. docs' = [d \in Docs |-> IF d \in job[t].reads THEN [docs[d] EXCEPT !.status = "held"]
                                   ELSE docs[d]]
        BY <2>3 DEF ClaimCommit
      <4> QED BY <4>1, DocsTyped
    <3>4. \A d \in Docs : docs[d].status \in {"overdue", "purged"} =>
            /\ docs[d].session # job[t].session
            /\ d \notin job[t].reads
            /\ claimed'[docs[d].session] = claimed[docs[d].session]
      <4> SUFFICES ASSUME NEW d \in Docs, docs[d].status \in {"overdue", "purged"}
                   PROVE  /\ docs[d].session # job[t].session
                          /\ d \notin job[t].reads
                          /\ claimed'[docs[d].session] = claimed[docs[d].session]
        OBVIOUS
      <4>1. Unclaimable(d) /\ docs[d].session \in Sessions
        BY DEF PurgeInv
      <4>2. docs[d].session # job[t].session
        BY <3>1, <4>1 DEF Unclaimable, ClaimPCs
      <4> QED BY <3>1, <3>2, <4>1, <4>2 DEF TypeInv, TypeOK
    <3>5. \A d \in Docs : docs'[d].status \in {"overdue", "purged"} => Unclaimable(d)'
      BY <2>1, <3>1, <3>3 DEF JobsQuiet, Unclaimable, PurgeInv
    <3>6. \A u \in Threads : job'[u].pc = "upload_loaded" =>
            docs'[job'[u].doc].status = "absent"
      <4> SUFFICES ASSUME NEW u \in Threads, job'[u].pc = "upload_loaded"
                   PROVE  docs'[job'[u].doc].status = "absent"
        OBVIOUS
      <4>1. job'[u] = job[u] /\ job[u].doc \in Docs /\ docs[job[u].doc].status = "absent"
        BY <2>1, JobTyped DEF JobsQuiet, JobOK, UploadPCs, PurgeInv
      <4> QED BY <4>1, <3>2, <3>3
    <3>7. \A d \in Docs : docs'[d].status # "absent" => docs'[d].session \in Sessions
      BY <3>2, <3>3 DEF PurgeInv
    <3>8. \A u \in Threads : job'[u].pc \in {"purging", "claim_docs_read"} =>
            job'[u] = job[u] /\ job[u].reads \subseteq Docs
      BY <2>1, JobTyped DEF JobsQuiet, Jobs
    <3>9. \A u \in Threads : job'[u].pc = "purging" =>
            \A d \in job'[u].reads :
               docs'[d].status \in {"overdue", "purged"} /\ ~claimed'[docs'[d].session]
      BY <3>3, <3>4, <3>8 DEF PurgeInv
    <3>10. \A u \in Threads : job'[u].pc = "claim_docs_read" =>
            \A d \in job'[u].reads :
               docs'[d].status # "absent" /\ docs'[d].session = job'[u].session
      BY <3>3, <3>8 DEF PurgeInv
    <3>11. PurgeInv'
      BY <3>5, <3>6, <3>7, <3>9, <3>10 DEF PurgeInv
    <3>12. ClaimedDocumentsSurvive'
      BY <3>3, <3>4 DEF ClaimedDocumentsSurvive
    <3> QED BY <3>11, <3>12
  <2>4. ASSUME NEW t \in Threads, PurgeDelete(t) PROVE SurviveInv'
    <3>1. job[t].pc = "purging" /\ timedOut' = timedOut /\ claimed' = claimed
      BY <2>4 DEF PurgeDelete
    <3>2. \A d \in job[t].reads :
            docs[d].status \in {"overdue", "purged"} /\ ~claimed[docs[d].session]
      BY <3>1 DEF PurgeInv
    <3>3. \A d \in Docs :
            /\ docs'[d].session = docs[d].session
            /\ d \in job[t].reads => docs'[d].status = "purged"
            /\ d \notin job[t].reads => docs'[d] = docs[d]
      BY <2>4, DocsTyped DEF PurgeDelete
    <3>4. \A d \in Docs : docs'[d].status \in {"overdue", "purged"} =>
            docs[d].status \in {"overdue", "purged"}
      BY <3>2, <3>3
    <3>5. \A d \in Docs : docs[d].status \in {"overdue", "purged"} => Unclaimable(d)'
      BY <2>1, <3>1, <3>3 DEF JobsQuiet, Unclaimable, PurgeInv
    <3>6. \A u \in Threads : job'[u].pc = "upload_loaded" =>
            docs'[job'[u].doc].status = "absent"
      <4> SUFFICES ASSUME NEW u \in Threads, job'[u].pc = "upload_loaded"
                   PROVE  docs'[job'[u].doc].status = "absent"
        OBVIOUS
      <4>1. job'[u] = job[u] /\ job[u].doc \in Docs /\ docs[job[u].doc].status = "absent"
        BY <2>1, JobTyped DEF JobsQuiet, JobOK, UploadPCs, PurgeInv
      <4> QED BY <4>1, <3>2, <3>3
    <3>7. \A u \in Threads : job'[u].pc \in {"purging", "claim_docs_read"} =>
            job'[u] = job[u] /\ job[u].reads \subseteq Docs
      BY <2>1, JobTyped DEF JobsQuiet, Jobs
    <3>8. \A d \in Docs : docs'[d].status # "absent" => docs'[d].session \in Sessions
      BY <3>2, <3>3 DEF PurgeInv
    <3>9. \A u \in Threads : job'[u].pc = "purging" =>
            \A d \in job'[u].reads :
               docs'[d].status \in {"overdue", "purged"} /\ ~claimed'[docs'[d].session]
      BY <3>1, <3>3, <3>7 DEF PurgeInv
    <3>10. \A u \in Threads : job'[u].pc = "claim_docs_read" =>
            \A d \in job'[u].reads :
               docs'[d].status # "absent" /\ docs'[d].session = job'[u].session
      BY <3>3, <3>7 DEF PurgeInv
    <3>11. PurgeInv'
      BY <3>4, <3>5, <3>6, <3>8, <3>9, <3>10 DEF PurgeInv
    <3>12. ClaimedDocumentsSurvive'
      BY <3>1, <3>2, <3>3 DEF ClaimedDocumentsSurvive
    <3> QED BY <3>11, <3>12
  <2>5. ASSUME NEW d \in Docs, RetentionPasses(d) PROVE SurviveInv'
    <3>1. /\ docs[d].status = "stored" /\ timedOut[docs[d].session]
          /\ \A t \in Threads : job[t].session # docs[d].session
          /\ job' = job /\ timedOut' = timedOut /\ claimed' = claimed
      BY <2>5 DEF RetentionPasses
    <3>2. /\ docs'[d].session = docs[d].session /\ docs'[d].status = "overdue"
          /\ \A e \in Docs \ {d} : docs'[e] = docs[e]
      BY <2>5, DocsTyped DEF RetentionPasses, TypeInv, TypeOK
    <3>3. \A u \in Threads : job[u].reads \subseteq Docs /\
                             (job[u].pc \in UploadPCs => job[u].doc \in Docs)
      BY JobTyped DEF Jobs, JobOK
    <3>4. PurgeInv'
      BY <3>1, <3>2, <3>3 DEF PurgeInv, Unclaimable, UploadPCs
    <3> QED BY <3>1, <3>2, <3>4 DEF ClaimedDocumentsSurvive
  <2>6. ASSUME docs' = docs, claimed' = claimed PROVE SurviveInv'
    <3>1. \A s \in Sessions : timedOut[s] => timedOut'[s]
      BY WritingSteps DEF Writes, UploadCommit, UploadRegister, TeaserCommit, CheckoutCommit,
         WebhookCommit, ClaimTransfer, ClaimCommit, PurgeDelete, ExpireOnRead, SessionTimesOut,
         RetentionPasses, TypeInv, TypeOK
    <3> QED BY <2>1, <2>6, <3>1, QuietKeeps
  <2>7. \/ docs' = docs /\ claimed' = claimed
        \/ \E t \in Threads : UploadCommit(t) \/ ClaimCommit(t) \/ PurgeDelete(t)
        \/ \E d \in Docs : RetentionPasses(d)
    BY WritingSteps DEF Writes, rows, UploadRegister, TeaserCommit, CheckoutCommit,
       WebhookCommit, ClaimTransfer, ExpireOnRead, SessionTimesOut
  <2> QED BY <2>2, <2>3, <2>4, <2>5, <2>6, <2>7
<1> QED BY <1>1, <1>2, <1>3, <1>4, <1>5

\* No purge, however it interleaves with uploads and claims, deletes a document
\* of a claimed session.
THEOREM ClaimedSurvive == Spec => []ClaimedDocumentsSurvive
<1>1. Init => SurviveInv
  BY DEF Init, SurviveInv, PurgeInv, ClaimedDocumentsSurvive, Idle
<1>2. SurviveInv => ClaimedDocumentsSurvive
  BY DEF SurviveInv
<1> QED BY <1>1, <1>2, SurviveKept, TypeInvariant, PTL DEF Spec
=============================================================================
