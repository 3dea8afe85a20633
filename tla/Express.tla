------------------------------- MODULE Express -------------------------------
(***************************************************************************)
(* The pay-per-report lane: anonymous sessions, the documents uploaded to  *)
(* them, teasers, checkouts, activation by webhook, the claim of a session *)
(* by a registered user, and the retention purge.                          *)
(*                                                                         *)
(* Endpoints run in threads and interleave at every read and commit; the   *)
(* upload and webhook endpoints are coroutines that do not await between   *)
(* their reads and commits, so they exclude each other.  A commit writes   *)
(* only the columns that differ from the row as the thread loaded it.      *)
(***************************************************************************)
EXTENDS Integers, FiniteSets

CONSTANTS
    Threads,        \* requests being served at one time
    Sessions,       \* ex_sessions rows, each with its ephemeral workspace
    Docs,           \* documents visitors may upload
    Users,          \* registered users who may claim a session
    Hash,           \* the sha256 of each document
    MaxOrders,      \* bound: orders started, for each session
    System,         \* the system user that owns ephemeral workspaces
    None            \* no session, document or user

ASSUME ExpressAssumption ==
    /\ None \notin Sessions \cup Docs \cup Users
    /\ System \notin Users
    /\ Docs \subseteq DOMAIN Hash
    /\ MaxOrders \in [Sessions -> Nat]

VARIABLES
    state,      \* ex_sessions.state
    timedOut,   \* expires_at has passed
    claimed,    \* claimed_at is set
    docs,       \* ex_documents rows: the session and the retention status
    pack,       \* documents registered with the ingestion module
    open,       \* ex_purchases rows not yet activated, per session
    activated,  \* ex_purchases rows with activated_at, per session
    owner,      \* owner of the session's workspace
    members,    \* members of the session's workspace
    job         \* what each thread is doing

rows == <<state, claimed, docs, pack, open, activated, owner, members>>
vars == <<state, timedOut, claimed, docs, pack, open, activated, owner,
          members, job>>

SessionStates == {"created", "uploaded", "teaser_ready", "checkout_pending",
                  "purchased", "claimed", "expired"}

TeaserStates == {"teaser_ready", "checkout_pending", "purchased", "claimed"}

CheckoutStates == {"uploaded", "teaser_ready", "checkout_pending"}

\* "stored" until retention_until passes, "held" once a claim cleared it
DocStates == {"absent", "stored", "overdue", "held", "purged"}

PCs == {"idle", "upload_loaded", "upload_stored", "teaser_loaded", "teaser_checked",
        "checkout_loaded", "webhook_loaded", "claim_checked", "claim_transferred", "claim_docs_read",
        "purging"}

TypeOK ==
    /\ state \in [Sessions -> SessionStates]
    /\ timedOut \in [Sessions -> BOOLEAN]
    /\ claimed \in [Sessions -> BOOLEAN]
    /\ docs \in [Docs -> [session : Sessions \cup {None}, status : DocStates]]
    /\ pack \subseteq Docs
    /\ open \in [Sessions -> Nat]
    /\ activated \in [Sessions -> Nat]
    /\ owner \in [Sessions -> Users \cup {System}]
    /\ members \in [Sessions -> SUBSET (Users \cup {System})]
    /\ job \in [Threads -> [pc : PCs, session : Sessions \cup {None},
                            was : SessionStates, doc : Docs \cup {None},
                            reads : SUBSET Docs, user : Users \cup {None}]]

Idle == [pc |-> "idle", session |-> None, was |-> "created", doc |-> None,
         reads |-> {}, user |-> None]

\* Sessions as create_session leaves them.
Init ==
    /\ state = [s \in Sessions |-> "created"]
    /\ timedOut = [s \in Sessions |-> FALSE]
    /\ claimed = [s \in Sessions |-> FALSE]
    /\ docs = [d \in Docs |-> [session |-> None, status |-> "absent"]]
    /\ pack = {}
    /\ open = [s \in Sessions |-> 0]
    /\ activated = [s \in Sessions |-> 0]
    /\ owner = [s \in Sessions |-> System]
    /\ members = [s \in Sessions |-> {System}]
    /\ job = [t \in Threads |-> Idle]

DocsOf(s) == {d \in Docs : docs[d].session = s /\ docs[d].status \notin {"absent", "purged"}}

\* No coroutine is between its first read and its last commit.
LoopFree ==
    \A t \in Threads : job[t].pc \notin {"upload_loaded", "upload_stored", "webhook_loaded"}

\* require_session: the row is loaded and its expiry checked.
Start(t, s, pc) ==
    /\ job[t].pc = "idle"
    /\ ~timedOut[s]
    /\ job' = [job EXCEPT ![t] = [Idle EXCEPT !.pc = pc, !.session = s, !.was = state[s]]]

Finish(t) == job' = [job EXCEPT ![t] = Idle]

\* The flush of an assignment to session.state.
Flush(t, new) ==
    state' = [state EXCEPT ![job[t].session] = IF job[t].was = new THEN @ ELSE new]

\* get_by_token on a token that has expired: 404, and the row says so.  One
\* step: whatever is committed between its read and its commit, it leaves
\* "expired" or, having read "expired", nothing.
ExpireOnRead(s) ==
    /\ timedOut[s]
    /\ state' = [state EXCEPT ![s] = "expired"]
    /\ UNCHANGED <<timedOut, claimed, docs, pack, open, activated, owner, members, job>>

(***************************************************************************)
(* upload_document: the row is committed, then the document registered     *)
(* with ingestion.  Any live session accepts it, whatever its state.       *)
(***************************************************************************)
UploadLoad(t, s, d) ==
    /\ LoopFree
    /\ job[t].pc = "idle"
    /\ ~timedOut[s]
    /\ docs[d].status = "absent"
    /\ job' = [job EXCEPT ![t] = [Idle EXCEPT !.pc = "upload_loaded", !.session = s,
                                              !.was = state[s], !.doc = d]]
    /\ UNCHANGED <<rows, timedOut>>

\* (mutant) the session's new state is written where the document's belongs
UploadCommitUnbound(t) ==
    /\ job[t].pc = "upload_loaded"
    /\ docs' = [docs EXCEPT ![job[t].doc] = [session |-> None, status |-> "uploaded"]]
    /\ Flush(t, "uploaded")
    /\ job' = [job EXCEPT ![t].pc = "upload_stored"]
    /\ UNCHANGED <<timedOut, claimed, pack, open, activated, owner, members>>

UploadCommit(t) ==
    /\ job[t].pc = "upload_loaded"
    /\ docs' = [docs EXCEPT ![job[t].doc] = [session |-> job[t].session, status |-> "stored"]]
    /\ Flush(t, "uploaded")
    /\ job' = [job EXCEPT ![t].pc = "upload_stored"]
    /\ UNCHANGED <<timedOut, claimed, pack, open, activated, owner, members>>

UploadRegister(t) ==
    /\ job[t].pc = "upload_stored"
    /\ pack' = pack \cup {job[t].doc}
    /\ Finish(t)
    /\ UNCHANGED <<state, timedOut, claimed, docs, open, activated, owner, members>>

(***************************************************************************)
(* render_teaser: the hashes of the session's documents are looked up in   *)
(* the other sessions that had a teaser, then the state is set.            *)
(***************************************************************************)
TeaserLoad(t, s) ==
    /\ Start(t, s, "teaser_loaded")
    /\ UNCHANGED <<rows, timedOut>>

TeaserDuplicate(s) ==
    \E d \in DocsOf(s), e \in Docs, other \in Sessions \ {s} :
        /\ e \in DocsOf(other)
        /\ Hash[e] = Hash[d]
        /\ state[other] \in TeaserStates

RefuseTeaser(t) ==
    /\ job[t].pc = "teaser_loaded"
    /\ TeaserDuplicate(job[t].session)
    /\ Finish(t)
    /\ UNCHANGED <<rows, timedOut>>

TeaserCheck(t) ==
    /\ job[t].pc = "teaser_loaded"
    /\ ~TeaserDuplicate(job[t].session)
    /\ job' = [job EXCEPT ![t].pc = "teaser_checked"]
    /\ UNCHANGED <<rows, timedOut>>

TeaserCommit(t) ==
    /\ job[t].pc = "teaser_checked"
    /\ Flush(t, "teaser_ready")
    /\ Finish(t)
    /\ UNCHANGED <<timedOut, claimed, docs, pack, open, activated, owner, members>>

(***************************************************************************)
(* create_checkout, and activate_from_webhook on the payment event of one  *)
(* of the session's orders (Payments: an event takes effect once).  The    *)
(* webhook looks at neither the expiry nor the claim.                      *)
(***************************************************************************)
CheckoutLoad(t, s) ==
    /\ state[s] \in CheckoutStates
    /\ open[s] + activated[s] < MaxOrders[s]
    /\ Start(t, s, "checkout_loaded")
    /\ UNCHANGED <<rows, timedOut>>

CheckoutCommit(t) ==
    /\ job[t].pc = "checkout_loaded"
    /\ open' = [open EXCEPT ![job[t].session] = @ + 1]
    /\ Flush(t, "checkout_pending")
    /\ Finish(t)
    /\ UNCHANGED <<timedOut, claimed, docs, pack, activated, owner, members>>

WebhookLoad(t, s) ==
    /\ LoopFree
    /\ job[t].pc = "idle"
    /\ open[s] > 0
    /\ job' = [job EXCEPT ![t] = [Idle EXCEPT !.pc = "webhook_loaded", !.session = s,
                                              !.was = state[s]]]
    /\ UNCHANGED <<rows, timedOut>>

WebhookCommit(t) ==
    /\ job[t].pc = "webhook_loaded"
    /\ open' = [open EXCEPT ![job[t].session] = @ - 1]
    /\ activated' = [activated EXCEPT ![job[t].session] = @ + 1]
    /\ Flush(t, "purchased")
    /\ Finish(t)
    /\ UNCHANGED <<timedOut, claimed, docs, pack, owner, members>>

(***************************************************************************)
(* claim_session: checks, the transfer of the workspace in a transaction   *)
(* of its own, then the session and its documents.                         *)
(***************************************************************************)
ClaimCheck(t, s, u) ==
    /\ job[t].pc = "idle"
    /\ ~timedOut[s]
    /\ ~claimed[s]
    /\ activated[s] > 0
    /\ job' = [job EXCEPT ![t] = [Idle EXCEPT !.pc = "claim_checked", !.session = s,
                                              !.was = state[s], !.user = u]]
    /\ UNCHANGED <<rows, timedOut>>

\* (mutant) the session is marked claimed in the transaction of the transfer
ClaimTransferMarked(t) ==
    /\ job[t].pc = "claim_checked"
    /\ members' = [members EXCEPT ![job[t].session] = @ \cup {job[t].user}]
    /\ owner' = [owner EXCEPT ![job[t].session] = job[t].user]
    /\ state' = [state EXCEPT ![job[t].session] = "claimed"]
    /\ job' = [job EXCEPT ![t].pc = "claim_transferred"]
    /\ UNCHANGED <<timedOut, claimed, docs, pack, open, activated>>

\* (mutant) the owner is set, the membership left for later
ClaimTransferOwnerOnly(t) ==
    /\ job[t].pc = "claim_checked"
    /\ owner' = [owner EXCEPT ![job[t].session] = job[t].user]
    /\ job' = [job EXCEPT ![t].pc = "claim_transferred"]
    /\ UNCHANGED <<state, timedOut, claimed, docs, pack, open, activated, members>>

ClaimTransfer(t) ==
    /\ job[t].pc = "claim_checked"
    /\ members' = [members EXCEPT ![job[t].session] = @ \cup {job[t].user}]
    /\ owner' = [owner EXCEPT ![job[t].session] = job[t].user]
    /\ job' = [job EXCEPT ![t].pc = "claim_transferred"]
    /\ UNCHANGED <<state, timedOut, claimed, docs, pack, open, activated>>

ClaimReadDocs(t) ==
    /\ job[t].pc = "claim_transferred"
    /\ job' = [job EXCEPT ![t].pc = "claim_docs_read", ![t].reads = DocsOf(job[t].session)]
    /\ UNCHANGED <<rows, timedOut>>

ClaimCommit(t) ==
    /\ job[t].pc = "claim_docs_read"
    /\ claimed' = [claimed EXCEPT ![job[t].session] = TRUE]
    /\ Flush(t, "claimed")
    /\ docs' = [d \in Docs |-> IF d \in job[t].reads THEN [docs[d] EXCEPT !.status = "held"]
                               ELSE docs[d]]
    /\ Finish(t)
    /\ UNCHANGED <<timedOut, pack, open, activated, owner, members>>

(***************************************************************************)
(* purge_expired selects the overdue documents of unclaimed sessions and   *)
(* deletes them by id.  Nothing in the program calls it on a schedule.     *)
(***************************************************************************)
\* (mutant) the purge selects by retention date alone
PurgeSelectClaimed(t) ==
    LET due == {d \in Docs : docs[d].status = "overdue"}
    IN  /\ job[t].pc = "idle"
        /\ due # {}
        /\ job' = [job EXCEPT ![t] = [Idle EXCEPT !.pc = "purging", !.reads = due]]
        /\ UNCHANGED <<rows, timedOut>>

PurgeSelect(t) ==
    LET due == {d \in Docs : docs[d].status = "overdue" /\ ~claimed[docs[d].session]}
    IN  /\ job[t].pc = "idle"
        /\ due # {}
        /\ job' = [job EXCEPT ![t] = [Idle EXCEPT !.pc = "purging", !.reads = due]]
        /\ UNCHANGED <<rows, timedOut>>

PurgeDelete(t) ==
    /\ job[t].pc = "purging"
    /\ docs' = [d \in Docs |-> IF d \in job[t].reads THEN [docs[d] EXCEPT !.status = "purged"]
                               ELSE docs[d]]
    /\ Finish(t)
    /\ UNCHANGED <<state, timedOut, claimed, pack, open, activated, owner, members>>

(***************************************************************************)
(* The clock and the process.                                              *)
(***************************************************************************)
SessionTimesOut(s) ==
    /\ ~timedOut[s]
    /\ timedOut' = [timedOut EXCEPT ![s] = TRUE]
    /\ UNCHANGED <<rows, job>>

\* 90 days after the upload: the session expired 87 days ago or more, and no
\* request for it has been running that long
RetentionPasses(d) ==
    /\ docs[d].status = "stored"
    /\ timedOut[docs[d].session]
    /\ \A t \in Threads : job[t].session # docs[d].session
    /\ docs' = [docs EXCEPT ![d].status = "overdue"]
    /\ UNCHANGED <<state, timedOut, claimed, pack, open, activated, owner, members, job>>

Crash ==
    /\ \E t \in Threads : job[t].pc # "idle"
    /\ job' = [t \in Threads |-> Idle]
    /\ UNCHANGED <<rows, timedOut>>

\* The steps of a request already started.
Continue(t) ==
    \/ UploadCommit(t)
    \/ UploadRegister(t)
    \/ RefuseTeaser(t)
    \/ TeaserCheck(t)
    \/ TeaserCommit(t)
    \/ CheckoutCommit(t)
    \/ WebhookCommit(t)
    \/ ClaimTransfer(t)
    \/ ClaimReadDocs(t)
    \/ ClaimCommit(t)
    \/ PurgeDelete(t)

Next ==
    \/ \E t \in Threads :
        \/ Continue(t)
        \/ PurgeSelect(t)
        \/ \E s \in Sessions :
            \/ TeaserLoad(t, s)
            \/ CheckoutLoad(t, s)
            \/ WebhookLoad(t, s)
            \/ \E d \in Docs : UploadLoad(t, s, d)
            \/ \E u \in Users : ClaimCheck(t, s, u)
    \/ \E s \in Sessions : ExpireOnRead(s) \/ SessionTimesOut(s)
    \/ \E d \in Docs : RetentionPasses(d)
    \/ Crash

Spec == Init /\ [][Next]_vars

-----------------------------------------------------------------------------
(***************************************************************************)
(* Safety.                                                                 *)
(***************************************************************************)

\* The workspace of a session always has its owner among its members; it has
\* left the system user only if a purchase of the session was activated, and
\* always before the session says it was claimed.
OwnershipIsPaidFor ==
    \A s \in Sessions :
        /\ owner[s] \in members[s]
        /\ owner[s] # System => activated[s] > 0
        /\ claimed[s] => owner[s] # System

\* Acceptance 9: no purge, however it interleaves with a claim, deletes a
\* document of a claimed session, not even one uploaded while the claim ran and
\* so left with its retention deadline.
ClaimedDocumentsSurvive ==
    \A d \in Docs : docs[d].status = "purged" => ~claimed[docs[d].session]

\* Whatever requests overwrite each other's state, a session that says it is
\* being paid for has an order, one that says it was purchased has an activated
\* one, and one that says it was claimed has its claim.
StateTellsTruth ==
    \A s \in Sessions :
        /\ state[s] = "checkout_pending" => open[s] + activated[s] > 0
        /\ state[s] = "purchased" => activated[s] > 0
        /\ state[s] = "claimed" => claimed[s]
=============================================================================
