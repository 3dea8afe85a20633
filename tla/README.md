# TLA+ models of TenderShield

TenderShield reads tender documents, lets engines propose findings about them, makes a person review
every finding, and exports a signed-off pack. It sells this by subscription, by single review, by
project and, to anonymous visitors, by report. The program is a modular monolith: FastAPI on one
process (`backend/app/main.py`), one relational database through SQLAlchemy, a Next.js front end.
This directory holds TLA+ models of the parts of the back end that keep state and that several
actors change at once, TLC configurations that check them, and TLAPS proofs.

Contents: [the system](#1-the-system), [the plan](#2-the-plan), [the execution
model](#3-how-the-code-executes), [the modules](#4-the-modules), [the runs](#5-the-runs),
[fairness](#6-fairness), [the proofs](#7-the-proofs), [findings](#8-findings), [what is not
modelled](#9-what-is-not-modelled), [how to run](#10-how-to-run).

## 1. The system

Paths are below `src/backend/app/`.

| Component | State it keeps | Operations | What must be true of it |
|---|---|---|---|
| billing: metering (`modules/billing/service.py`, `plans.py`) | `users.plan`, `users.free_review_used`, `usage_events`, `plan_history` | `authorize_review`, `start_review`, `set_user_plan`, `cancel_subscription` | the allowance is not overspent by more than concurrency explains; a spent free review stays spent; every plan change is on record |
| billing: checkout and webhooks (`modules/billing/service.py`, `router.py`, `project_activation.py`) | `coupons`, `payment_log`, `webhook_events`, `usage_events`, `invoices`, project subscriptions | coupon administration, `checkout`, `process_razorpay_webhook`, `process_stripe_webhook` | an event takes effect at most once; nothing is granted without a payment; a payment takes effect; a quoted price is honoured |
| express lane (`modules/express/*`, `modules/auth/claim.py`) | `ex_sessions`, `ex_documents`, `ex_purchases`, ephemeral organisations, their owner and members | create session, upload, teaser, checkout, activation by webhook, claim, purge | a workspace changes hands only against payment, and once; documents of a claimed session survive; unclaimed ones do not; the session state never lies about payment |
| findings (`modules/findings/store.py`) | `findings` | `replace_for_producer`, `list`, `set_review` | a run replaces its own producer's rows and nobody else's |
| review (`modules/review/service.py`) | `audit_log` (append only) | `review_finding`, `gate` | every status was given by a reviewer; every decision is audited |
| export (`modules/export/service.py`, `router.py`) | `audit_log`, the pack that leaves | `export` | nothing unreviewed leaves; the integrity hash is of what leaves |
| auth (`modules/auth/service.py`) | users, refresh tokens, memberships, invitations, seats | register, login, refresh, revoke, invite, accept | a refresh token is rotated no more often than concurrency explains, and a revoked family stays dead; seats are not oversold by more than that either |
| baseline (`modules/baseline/*`) | baselines, watchlist controls, cost codes | freeze, supersede, watch | once a freeze has ended, only requests in flight at that moment still change a cost code it sealed; the high findings of a baseline have controls |
| ingestion (`modules/ingestion/*`) | opportunities, documents, upload state files | resumable (tus) upload, register, extract | the document registered is the one sent, once, in order; one copy of it is read |
| notifications (`modules/notifications/*`) | the alert log | a daily tick that sends deadline alerts | an alert is sent in time, and no more often than deaths and a missing lock explain |
| change, claims (`modules/change/*`, `modules/claims/*`) | change events and their sources, confirmations, claims and settlements | ingest, triage, confirm, compute deadlines; draft, submit, answer, settle | unpaid projects keep to their free events; what is claimed rests on a person's word; a submitted claim stands |
| core (`core/*`) | module registry, event bus, rate-limiter windows, scheduler jobs, audit helper | start modules, publish, admit, tick | modules start after what they need; one handler's failure stays its own |
| engines: risk, boq, crossref, standards, qualification, comparison, pricing, timeline, drawings, subcontract, drafting, advisor, assistant, governance, rulepacks, marketdata ... | what they write through the findings store, or nothing | deterministic rules and LLM calls over documents | mostly pure functions of their inputs |

How they meet: modules call each other through capabilities in a registry, in process and
synchronously. The engines write findings through the findings store, `review` decides on them,
`export` and `baseline` read the gate. The payment webhooks of `billing` dispatch on the kind of
order to metering, to project activation or to `express`; `express` uses `ingestion` to store a
document and `auth` to hand over a workspace. `core.audit` writes a transaction of its own. The
event bus calls its subscribers synchronously and isolates their exceptions; no module subscribes to
anything at this commit.

What is hard here:

* **Interleaving.** Handlers run in threads, hold no row lock, and read, decide and commit in
  separate steps. Every check-then-act in the code is exposed to every other handler.
* **Several commits per call.** A review and its audit row, a free-review flag and its usage row, a
  coupon use and its order, a workspace transfer and the claim of its session: a request that dies
  in between leaves one without the other.
* **Column-wise flushes of stale rows.** The ORM writes only the columns that differ from what was
  loaded, so a lost update can mix two handlers' columns, or silently write nothing.
* **Delivery.** Payment events are lost, repeated and reordered; a coupon or a session may have
  expired by the time the payment arrives.
* **Protocol gaps.** What a webhook does depends on provider, event type and order kind; some
  combinations have no branch.
* **Time.** Months, coupon validity, session expiry, retention.

`PROJECT.json` lists each hazard at its line with the properties that cover it.

## 2. The plan

Ordered by what a wrong behaviour costs. Each module is written so that it can be proved about:
constants with named assumptions, one action per query or commit, no recursive operator.

1. `Metering`: the allowance of one account. `Billing_proofs`.
2. `Payments` over the abstract `PaymentLedger`: coupons, checkouts, provider events.
   `Billing_proofs`, with the refinement.
3. `Express`: the pay-per-report lane with claim and purge. `Express_proofs`.
4. `ReviewGate`: findings store, review and export as one pipeline. `ReviewGate_proofs`.
5. `AuthTokens`: families of refresh tokens. `AuthTokens_proofs`. `Seats`: members and invitations
   against the plan's limit. `Billing_proofs`.
6. `Baselines`: freeze, watchlist controls, cost codes. `Baselines_proofs`.
7. `Uploads`: resumable upload, registration and processing of documents. `Uploads_proofs`.
8. `DeadlineAlerts`: the daily tick, its lock, the log of what was sent; liveness.
   `DeadlineAlerts_proofs`.
9. `ChangeEvents`, and `Claims` composed with it in one state space. `Claims_proofs`.

All nine are done, and every safety property that a passing run checks is a theorem as well (§7).
`Metering`, `Payments` and `Seats` share one module of proofs, and for that `Metering` and `Seats`
prefix their names for the state (`MeterSpec`, `SeatsSpec`). Candidates for what comes next:
`integrations` as a source of signals for `ChangeEvents`; the nightly purge of `governance`, which
has the shape of `DeadlineAlerts`; `rulepacks` (versions and activation); and `Metering` composed
with `Payments` over the plan column.

## 3. How the code executes

Every model rests on the same reading of the runtime:

* `def` endpoints run in worker threads. The Razorpay and Stripe webhooks and the express upload are
  `async def` with a synchronous database session: once past the `await` that reads the request they
  hold the event loop to their last commit, so two of them never overlap, though threads run beside
  them.
* Each request has one SQLAlchemy session with `expire_on_commit=False` on READ COMMITTED. No query
  says FOR UPDATE. A query sees what is committed when it runs; an object in memory stays as it was
  loaded.
* A flush issues an UPDATE of the columns whose values differ from the loaded ones; an UPDATE that
  matches no row is an error (StaleDataError) and rolls back, while a DELETE that matches no row
  only warns and the transaction commits.
* A crash of the process loses what threads are doing and keeps what is committed.

So a step of a model is one query or one commit of one handler; other threads' commits fall anywhere
between. A purely local computation is joined to the read or commit next to it. `core.audit.log`
runs in its own transaction and swallows failures.

Row level security. `bind_workspace_context` (`core/db.py:87-107`) binds a request's transaction to
its workspace with `SET LOCAL`, which ends with the transaction: after the first commit of a handler
nothing binds it again. Where the policies apply, its later statements see no row of a workspace
table and may insert none. Whether they apply depends on the database role. A superuser bypasses
them, which is what `POSTGRES_USER` of `docker-compose.yml:21` is; the role of `ci.yml:96` is
NOSUPERUSER and is subject to them; SQLite has none. The modules take a role that bypasses the
policies. Under the other, a handler of several commits that inserts into a workspace table after
its first one fails there, which in the models is a request that dies between its commits; what it
then reads as empty they do not have. `DeadlineAlerts`, where every member's record is a commit and
the next member's log is read after it, has both kinds of role.

## 4. The modules

### Metering (`MCMetering`, `Billing_proofs`)

One account. `account`, `usage`, `history` are the `users` row, the month's `review_started` rows
and the `plan_history` rows; `row`, `target`, `oldPlan`, `pc` are each thread's locals. The actions
follow `authorize_review` (`AuthorizeLoad`, `Decide` with `plans.authorize`, then `FlagLoad`,
`CommitFreeFlag`, `RecordFreeUsage` or `RecordPlanUsage`), `cancel_subscription` (`CancelCheck`,
`CancelLoad`, `CancelCommit`) and `set_user_plan` (`SetPlanLoad`, `SetPlanCommit`). `NewMonth` is
the calendar, `Crash` the process. `freeGrants`, `planStarts` and `resets` count what happened and
influence nothing. Plans without a quota are one plan, `enterprise`; a paygo grant writes nothing
and so ends the call.

### Payments over PaymentLedger (`MCPayments`, `Billing_proofs`)

Checkout requests of one account against one coupon, the orders they create, and the events the
provider sends for them. A checkout validates the coupon, commits the raised count, may be rejected
(wrong amount, provider down) or die, and otherwise creates an order. The customer pays, or a card
is refused; subscriptions send further events. The provider may deliver any event it has sent, in
any order, any number of times. A delivery is one step (§3): it is refused for its amount and comes
again (`RefuseAmount`), or finds its marker (`Duplicate`), or takes effect (`ApplyEvent`) by kind of
order and type of event, and its answer may be lost. Two things are outside `src/` and taken from
how it is used: when the customer pays, and which events a provider sends. `Identified` are the
providers whose event bodies carry the top-level `id` the code keys its marker on. An amount is
valid or not (`AmountValid`); the sums are not modelled. A review or a subscription is accepted at
the amount and currency its order was quoted, with a coupon only while the coupon is still valid; a
project only at the full price in rupees, so that neither a coupon nor another currency
(`order.inr`), though both are quoted, can ever activate one. Coupons with a percentage that rounds
to the full price are left out.

`PaymentLedger` is the promise: an event that was emitted is applied at most once and is
acknowledged only once applied. `Payments` implements it with `emitted <- sent, applied <- times,
acknowledged <- acked`.

### Express (`MCExpress`, `Express_proofs`)

Anonymous sessions with one ephemeral workspace each. `state`, `timedOut` and `claimed` are columns
of `ex_sessions`; `docs` the `ex_documents` rows with their retention; `pack` what ingestion holds;
`open` and `activated` the purchases; `owner` and `members` the workspace. `job[t].was` is the state
as thread t loaded it, which decides what its flush writes (`Flush`). Upload and webhook are
coroutines: `LoopFree` keeps one from starting inside another, while threads interleave with them.
`claim_session` is four steps, of which the transfer of the workspace commits separately.
`PurgeSelect` and `PurgeDelete` are `purge_expired`, which nothing calls: it may happen (an operator
may call the capability) and has no fairness. A payment event reaches `WebhookLoad` at most once per
order, which is what `Payments` establishes for events that carry an id.

### ReviewGate (`MCReviewGate`, `ReviewGate_proofs`)

The findings of one opportunity. `RunDelete`/`RunCommit` are `replace_for_producer`: the DELETE
matches the rows committed when it starts, so rows that a second run inserts meanwhile stay.
`ReviewLoad`, `ReviewCommit` (column-wise flush, `ReviewRowGone` when a run deleted the row, waiting
on the row lock of an open DELETE), `ReviewAudit` are `review_finding`. `ExportGate`, `ExportDraft`,
`ExportFinal`, `ExportSend` are the export: gate, the render that is hashed and the render that is
sent each read the table again, and another thread may commit between any two of them. A register is
the set of (row, status) pairs a format shows: everything in xlsx, the accepted and edited in the
narrative formats. Three observations say which steps of other threads fell in between and influence
nothing: `overlaps` the pairs of runs that were under way together, `since` and `between` (of a
pack) the rows written since its gate and between its two renders. The audit row of a pack, which
nothing reads, is left out. `SkipsEmptyRuns` are the producers (standards, qualification) that do
not call the store when they find nothing. `RequestDies` ends a request anywhere.

### AuthTokens (`MCAuthTokens`, `AuthTokens_proofs`)

The sessions of one user. `token` is `refresh_tokens` (family and the marks used, revoked, expired),
`suspended` and `otp` are columns of `users`, `job` holds what a thread loaded or selected. A login
checks the user (`LoginLoad`) and then starts a family (`LoginIssue`) or sends a code
(`LoginChallenge`); `mfa_challenge` checks the code, commits that it is spent, and issues in a
further commit. `refresh` and `switch_workspace` load a row that `evaluate_refresh` finds valid
(`RotateLoad`) and commit `used_at` with the successor (`RotateCommit`). Presenting a used token
(`ReuseLoad`) and `logout` revoke: a query selects the rows of the family (`RevokeSelect`), a later
commit marks just those (`RevokeCommit`). `suspend_user` does the same to all tokens. `parent`,
`revokedOnce` and `raced` are history. Left out: sign-up and verification, the lockout counter, TOTP
(which spends nothing), the expiry of the MFA token, the workspace a token names.

### Seats (`MCSeats`, `Billing_proofs`)

One workspace and the seat limit of its owner's plan. `_assert_seats_available` is three reads
(`AddLoad`, `InviteLoad` or `AcceptLoad` take the limit, `CountMembers`, `CountPending`), and the
row it grants is a commit of its own. Accepting asks for no further seat, since the invitation it
uses up reserved one. An unlimited plan returns at once and is left out; so are roles, projects, and
the express claim, which adds an owner to a workspace of its own without a seat check. An invitation
may expire between the moment a thread reads it and the commit that accepts it: `late` says that one
did.

### Uploads (`MCUploads`, `Uploads_proofs`)

The tus uploads into one opportunity. `part` and `saved` are the two files of an upload; a PATCH is
`PatchLoad` (the offset is compared), `PatchAppend` after the body has arrived, `PatchMeasure`,
`PatchSave`. At full length `_finalize` reads the bytes back, may refuse them, registers the
document (`Register`, with `_find_duplicate`), and either processes it in place (`ProcessCommit`,
commit by commit) or queues it (`Enqueue`), and removes the files (`Cleanup`). A document in which
the request found no text, a scan without OCR, is registered and not processed (`blank`;
`ingestion/service.py:180`). The worker acknowledges a task as it takes it and swallows its
exceptions (`WorkerTake`, `WorkerCommit`, `WorkerStops`). `SweepPart` and `SweepState` are the sweep
of expired files. Registration does not await, so on the event loop it excludes other registrations
(`LoopFree`). A client is well behaved: the bytes it sends at an offset are those of its document at
that offset; what it may do is send less, repeat, come twice at once and stop. The test of the size
limit and the append are one step, so nothing is claimed about the limit. Left out: the multipart
route, sample texts, hard deletion, addenda, what the extraction finds.

### Baselines (`MCBaselines`, `Baselines_proofs`)

The baselines of one opportunity. A freeze is `FreezeGate`, the two queries of `_build_snapshot`,
the INSERT that takes the next version, and four commits: the baseline, its audit row, the watchlist
controls (`SeedRead`, `SeedCommit`) and the locks on the cost codes (`LockRead`, `LockCommit`).
`UpsertLoad` and `UpsertCommit` are `upsert_cost_codes`, which rewrites labels, adds rows, and
deletes the unlocked rows that the request does not list. A row to relabel that has gone meanwhile
rolls it back (`UpsertRollBack`); a row to delete that has gone does not (§3). `inflight` is the
number of upserts that were in flight when the freeze that sealed a code ended, `late` the number of
those that wrote it since, `slipped` the codes that were written while a freeze was between reading
and locking them. Findings change at any time (`FindingChanges`): the producers and reviewers of
`ReviewGate`, reduced to what a freeze can see of them. Left out: diffs, mappings of codes to BOQ
lines, the notice register, exports.

### ChangeEvents and Claims (`MCClaims`, `Claims_proofs`)

`ChangeEvents` has the events of one opportunity. A signal comes by e-mail or through the API
(`Receive`), is compared with the sources of the past day (`Match`, `SourceAges`), and attaches to
an event (`AttachCommit`) or passes the slot gate (`RequireSlot`) and becomes one (`CreateCommit`);
the unique key on the e-mail's message id rolls back the slower of two (`MailRollBack`). `Triage`
and `Confirm` decide on the row they loaded and commit later, status column only if it changed.
`DeadlineCommit` is `compute_notice_deadline`. `Claims` EXTENDS it with one more record per thread
(`desk`): creation, edits of a draft, submission behind `chain_integrity` and the approval matrix,
responses, negotiations, settlement. A thread serves one request of either module, and `ClaimsNext`
interleaves both. Left out of `ChangeEvents`: the baseline diff (a loop of the same upsert),
polling, impacts, notice drafts. Left out of `Claims`: rounds as rows, checklists, drafts, quantum
lines.

### DeadlineAlerts (`MCDeadlineAlerts`, `DeadlineAlerts_proofs`)

One deadline, the members of its workspace, and the daily job in every server process. `days` counts
down; `proc[p].pc` says whether today's job of process p is to come, running or over. `TickStart`
takes the Redis lock if Redis is configured; the run looks at the deadline (`Scan`), at each
member's preference and log row (`Due`, `Skip`), sends (`Send`) and records (`Record`). The sender
answers whether it sent the alert; the job does not look at the answer and records either way, so a
stretch whose send failed is lost (`failed`; `told` are the members whose send succeeded). Under row
level security (`rls`, §3) the commit of the first record ends the binding, the run is `blind` from
then on: it finds no log row, sends to the next member whether that one has had the alert or not,
fails to record and ends. A process that dies keeps the lock until it expires after 23 hours and,
started again, runs its job a day later (`Crash`, `LockExpires`). A run ends on the day it began,
and the members are fixed. `copies`, `told` and `failed` count what runs send that see the log.
`change/alert_processor.py` and `notice_alerts.py` have the same shape and are not modelled again.

## 5. The runs

| Run | What it asks | Size |
|---|---|---|
| `metering_threads` | Two threads, five calls, a crash anywhere, a new month: do quota and free review overshoot by what concurrency explains and no more, does a spent flag stay spent? | 2.4 M states, 25 s |
| `payments_webhooks` | Two checkouts of any kind, price and currency at either provider, payments that succeed and fail, subscription events, any delivery order, repeats, lost answers: is nothing granted unpaid but a project whose payment failed, is every transfer invoiced once, does the coupon count stay within its limit, is `PaymentLedger` implemented? | 115 K, 30 s |
| `payments_retries` | Three checkouts overwrite the coupon's count, and the provider delivers until it is answered: does a payment take effect in the end whose price is acceptable from some moment on, also when it was refused before? | 279 K, 80 s |
| `payments_failed` | One order for a project whose payment fails: is a project active only if one was paid for? It is not (§8), and this run is expected to find that. | violated at once |
| `express_sessions` | Two threads on a session that is paid for and claimed and one that only has its teaser, two documents of one content, two claimants, purge and crash: ownership, documents of claimed sessions, the state column | 3.4 M, 140 s |
| `review_threads` | Two threads, two producers, two reviewers, two decisions, exports in both formats, deaths: does the audit tell the truth, is every status backed by a decision, are other producers' rows kept and a producer's own replaced, was everything reviewed that leaves, is the hash of what leaves, but for the rows written meanwhile? | 741 K, 30 s |
| `auth_threads` | Two threads, four tokens in two families: how often is a token rotated, and does a revocation last? | 2.5 M, 45 s |
| `seats_threads` | Two threads, three users, two invitations, a plan that shrinks and grows: how far are seats oversold, how often is an invitation used? | 1.4 M, 36 s |
| `uploads` | Two requests at a time, two uploads of a document of two chunks, a worker, a document without text, sweeps, crashes: is what is registered what was sent, and is the original read? | 3.3 M, 150 s |
| `baselines` | Two threads that freeze and edit, two versions, a finding that comes and goes, controls closed and reopened, crashes: which edits still change a sealed cost code, do high findings have controls? | 2.5 M, 165 s |
| `claims` | Two threads on one event slot, a signal that comes by mail and by API, two baselines, a claim at an approved or unapproved amount: slots, confirmations, the claim's chain, its amount and status | 2.6 M, 55 s |
| `deadline_alerts` | Two processes and two members over the four days to a deadline, with and without Redis and row level security, a send that fails or a crash at any step: how many copies, and does every member get an alert? | 552 K, 105 s |

Every run but `payments_failed` is expected to pass. `CHECK_DEADLOCK FALSE` throughout: once the
bounded number of calls is used up, or the tokens, rows or days, nothing need happen.

Bounds. Two threads are enough for every race here: each is between one handler's read and its
commit and another handler's commit, and the theorems of §7 cover any number. Two sessions and two
documents are needed for a teaser shown twice, two claimants for a double claim, two checkouts for a
count that is overwritten and for a limit of one use to be met; a quota of 1 and of 2 so that the
boundary is met and passed; two runs in all, so that a run replaces or overlaps another, and two
decisions, so that two reviewers load one row together and mix its columns and a reviewed finding is
opened again between gate and render; one pack shows what a pack can. Four tokens are a login, a
rotation by both threads and a rotation of one of the two; a second family is what a revocation must
not touch. Limits of one and two seats with three users meet the limit, pass it and shrink below
what is taken. A document of two chunks can be cut, resumed, repeated and overlapped; two document
rows are an original and its duplicate. One cost code with two labels shows an edit, a deletion and
a lock; two versions a superseded baseline. One free event slot (two in the code) is met at once,
and one event row is enough to be shut and opened again; a claim at 5 is approved and at 9 is not.
One mishap of the alerts is a failed send or a crash: both together would excuse the alert anyway.
Stretches of days at 3 and 0 stand for 7, 3, 1, 0: one that starts with days to spare and the last
one.

`MaxCalls`, `MaxOrders`, `MaxRuns`, `MaxDecisions`, `MaxPacks`, `MaxVersions`, `MaxClosings`,
`MaxBaselines`, `MaxDays` and `MaxMishaps` bound what otherwise grows for ever, and so do the sets
`Tokens`, `Families`, `Docs`, `Codes`, `Events` and `ClaimIds`; each bounds the action that starts
something. `MaxRepeats` bounds how often an event without an id takes effect.
`subscription.cancelled`, which grants nothing, is left to the proofs. Symmetry is used only with
safety properties, and only over sets the modules treat alike: a set from which `CHOOSE` picks the
next free row (tokens, documents) is left out.

## 6. Fairness

* `Payments!FairSpec`: the provider delivers an event until it is answered 200, which is how
  `router.py` uses it (a refusal is answered 400 so that the event comes again). One weak fairness
  condition per event on an unacknowledged delivery. Customers, checkouts and coupons have none.
* `DeadlineAlerts!FairSpec`: a process that lives goes on with its job (`WF(Tick(p))`, the
  scheduler's interval trigger), an abandoned lock expires (`WF(LockExpires)`, the lock's timeout),
  and time passes (`WF(DayPasses)`). Nobody has to confirm, extract or die. `AlertedInTime` is a
  race of the daily jobs against the deadline. A send that fails is recorded and costs its member
  the rest of that stretch; a crash costs two days at most, the day of the job that died with the
  lock and the job of the process itself. `Chances` are the days below the start of the first
  stretch that are in stretches whose send has not failed; the member is told unless the crashes can
  have cost them all. With stretches at 3 and 0 a member is told despite one crash, and despite one
  failed send; the code's 7 days survive three crashes. A process that is redeployed every day
  before its job is due never runs it. Deployments under row level security are left out, for there
  the property is false (§8).
* The other modules have safety properties only. Retention in `Express` would need a purge that
  something starts; nothing does (§8).

## 7. The proofs

Each holds for every value of the constants that meets the named assumptions of its module.

**Billing_proofs, Metering.** `MeterTypes`, `QuotaOvershoot`, `FreeReviews`, `FreeFlag`,
`PlanHistoryComplete`, from `RequestsAssumption` (finitely many threads, at least one) and
`QuotaAssumption`. `QuotaOvershootBounded` is not inductive: the step that violates it would be a
`RecordPlanUsage` by a thread that decided long ago. The invariant `QuotaInv` counts the threads in
`grant_plan` with the reviews already recorded, and says that if any is there, the rest already fit
below the largest quota plus the threads. `FreeInv` does the same for `grant_free`, `flag_loaded`,
`flag_set`, and ties them to the flag and the cancellations. `PlanHistoryComplete` (every change of
the plan is recorded) is an action property that needs the type invariant only; it is proved and not
in a run.

**Billing_proofs, Payments.** `TypeCorrect`. `LedgerImplemented`, a step simulation under
`Identified`: every action of `Payments` is an action of `PaymentLedger` or a stutter, given
`ClaimInv` (an event is claimed exactly when it took effect once). `PaidOnly`, under `Identified`,
over all types of event: from `SentInv` (what was sent implies what was paid, or that a payment
failed), `CreditInv` (a credit stands for the one paid event of its checkout) and `claimed \subseteq
sent`; of an active project it says that some event of an order at the full price did it, and if the
order was not paid, that the event was a failed payment (`ProjectAccounted`). `InvoicedOnce`, under
`Identified`: an event is invoiced exactly when it moves money (`InvoicedIsMoney`, over both
providers and all types), and a delivery that takes effect adds one to the claimed events and one to
the invoices; without the marker a repeated event would add to one side only. `CouponCount`: uses
are overwritten, so the invariant `UseInv` bounds not the committed count alone but every value a
checkout has loaded and will commit plus one, by the cardinality of the set of checkouts that took a
use, a set that only grows.

**Billing_proofs, Seats.** `SeatsTypes`, from `ThreadsAssumption` (finitely many threads; at least
one, which only `SeatLimit` needs): an invitation that was used is not loaded again, so its uses and
the threads that still hold it are together at most the threads (`UsesLeft`). `SeatLimit`: a thread
decides on two counts of different moments, between which invitations become members and expire, so
no sum over the present state says what it will decide. `SeatsInv` therefore has a level for every
natural number j: with j seats beyond its limit granted, a thread that has counted the members would
pass or not (`Counting(t, j)`); the members, the pending invitations, the users that an invitation
may bring back (`Removed`) and the threads that would pass and take a seat (`Holding(j)`) exceed the
highest limit, the late acceptances and the threads together by at most j, and by less unless one of
them holds a reserved seat and passes at j but not before (`Fresh(j)`). A pending invitation that is
accepted, revoked or expires lowers the second count of all the others, which takes level j+1 to
level j (`LevelUnpended`); a new invitation takes j to j+1 (`LevelInvite`); all other steps stay on
their level. When a thread counts the members its level is established anew, since threads that hold
a seat and threads that come back for one are different threads (`Population`). Level 0 is the
property.

**Express_proofs.** `TypeCorrect` already needs the coroutines' mutual exclusion (`LoopInv`):
without it two webhooks could take one order. `Ownership` from `ClaimInv` (a claim under way is of a
session with an activated purchase; past the transfer, the owner is a user). `StateTrue`: orders,
activations and claims are never taken back, so what the state says stays true until it is written
again, and each flush writes something true. `ClaimedSurvive` from `PurgeInv`: a document is overdue
only when its session has timed out and no claim of it is running, and no claim starts after that;
so what a purge selected is still unclaimed when it is deleted, and an upload cannot bring it back.

**ReviewGate_proofs.** `TypeCorrect`. `AuditTrue` from `AuditInv` (a thread about to audit holds a
decision that was committed). `StatusesBacked` from `BackedInv` (rows, packs under way and packs
sent show only statuses backed by a decision), which is where the column-wise flush matters.
`ReviewsKept` from `DoomedInv` (a run's DELETE has matched rows of its own producer only).
`RunsReplaced` from `RunsInv`: two runs of a producer with rows in the table were under way together
(`Together`), and so were any two that are under way now, and a run under way with those whose rows
its DELETE has not matched; whichever commits leaves its own rows and theirs. `ReviewedExported` and
`HashCovers` from `ExportInv`: between the gate and the render, what the table shows as awaiting
review is in `since` (`GateHolds`); between the two renders, what they differ in is in `between`
(`DraftHolds`); and a pack, under way or sent, has the two properties (`PackReviewed`,
`PackCovered`). Every commit of another thread adds the rows it writes to both sets, which is what
keeps them (`CommitKeeps`). None of these takes a bound on the threads.

**AuthTokens_proofs.** `TypeCorrect`, which has the family of a successor in it. `Rotations`: a
token is loaded for rotation only while it is unused, so the invariant counts its successors
together with the threads that hold it, and that sum only falls once the first of them has
committed. `Revocation`: in a family that was revoked and that no rotation overlapped, no thread
holds a token for rotation and no token is live; the invariant carries the families that a thread
has selected as well, for between the selection and the commit nothing is revoked yet, and `raced`
is what keeps rotations out.

**Claims_proofs.** `TypeCorrect` over both modules. `Slots`: the gate counts open events only, and a
stale triage or confirmation opens a shut event without asking, so the invariant counts the open
events, those about to be opened and the threads past the gate together; opening again takes a
thread, which is then neither past the gate nor about to pass it. `Backing`: the word of a person is
never taken back, so it is enough that a thread that will write "confirmed" or a deadline, or has
checked a chain, holds an event that has it, or brings it in the same commit. `Standing`: of a claim
nobody else has loaded, what a thread loaded is what is stored.

**Baselines_proofs.** `TypeCorrect`, where a freeze past its audit record knows an audited baseline.
`SealKept`: `KeepInv` says that what a freeze has read of a cost code and its baseline sealed is
still what the code says, unless the code has `slipped` (`Relies`), until the last commit locks the
row; that afterwards it stays so unless a late upsert wrote it, and the row is locked or gone
(`Sealed`); and that an upsert relabels only rows it loaded unlocked (`EditOK`). A new row never
takes the id of an old one (`spent`). That late upserts are few is a count of its own, `LateInv`:
for a frozen code, those that have written it and those in flight that still may (`Holders`) are
together at most `inflight`, and a sum that starts as the number of upserts in flight only falls,
because an upsert loaded later finds the lock. `Watchlist`: `Carries` follows the findings of a
baseline through the freeze until each has a control, and no step takes the last control away. The
number of active controls alone is not inductive, for a thread gives a control on what it read;
`CountInv` adds the threads that are about to.

**DeadlineAlerts_proofs.** `TypeCorrect` has the lock in it: a process that runs with Redis is the
one that holds it, and that is so only because a lock that expires is never that of a running job.
`Copies`: of the runs that see the log, a run that has sent and not recorded `Owes` a record. Before
an alert is recorded, its copies are at most the processes that died and those that owe it
(`Senders`, `CopyOK`), and of these there is one with Redis and at most all without; once it is
recorded no such run sends it again. A run is blind only after a record of its own. That a stretch
begins on a known day rests on a lemma about least elements (`Least`).

**Uploads_proofs.** `TypeCorrect` from `WorkInv`, what the requests, the queue and the worker hold
(a document that is queued has no commits, a request that is at work has a document to work on),
with the exclusion on the event loop. `RegisteredIntact` from `IntactInv`: of an upload that is not
`disturbed`, one PATCH is under way at most; the bytes in the file are a prefix of the document; the
saved offset is their number, except while that PATCH still has to measure or save it
(`OffsetKnown`); and what a request holds of them is what the file has (`Holds`). So a body that is
appended extends the prefix (`PrefixExtended`), and at full length a prefix is the document
(`PrefixIsSource`). `OriginalsRead` from `OriginalInv`: every registered document has an original
(`HasOriginal`), of one content there is one (`OneOriginal`, by the exclusion of registrations), and
that one was interrupted, had no text, is at work or has been read (`OriginalKept`).

Model-checked only: the liveness properties (`PaidTakesEffect`, `AlertedInTime`), for they rest on
fairness and ENABLED, which this prover does not handle.

## 8. Findings

What the documents say and the code, read for these models, does otherwise. One has a run of its
own, `payments_failed`; each is the reason for a guard, a bound or a history variable of a model.

* Metering. Two threads read an unspent flag, and both start a free review
  (`billing/service.py:127`); `specs/modules/billing.md:143` says concurrent requests cannot
  double-spend it. Hence `FreeReviewsBounded` with a bound that grows with the threads.
  `billing/service.py:304`: two concurrent plan changes record the same old plan.
* Payments. `order.paid` is credited as a single review whatever the order was for, so a paid
  upgrade leaves the plan free (`billing/service.py:594`; `specs/modules/billing.md:113`). A
  `payment.failed` event of the right amount activates a project (`:559`), while
  `specs/modules/billing.md:129` says "A payment event must represent a positive transfer of funds
  to activate a paid plan or project": the run `payments_failed`. `NothingUnpaid` has the failed
  payment in it and says that it gives nothing else. The payment of the last use of a coupon is
  refused, because the checkout itself raised the count that the webhook validates again (`:248`); a
  project activation at a discount or in a currency other than INR, both of which `router.py:38-49`
  quotes, is answered 400 at every delivery (`:234`, `project_activation.py:16`); two checkouts take
  the last use (`:396`); the use of a checkout that is rejected afterwards is not given back
  (`router.py:162`). An event without a top-level `id` has no marker and takes effect at each
  delivery (`:589`). `project_activation.py:58` writes no invoice.
* Express. `claimed_at` is tested at the start and set after the transfer has committed, so two
  users can both become owners (`express/service.py:380`, while `:374` answers a second claim
  `already_claimed`). A further upload resets the state that the duplicate check reads
  (`abuse.py:75`). `activation.py:62` activates a session whose token has expired. `retention.py:34`
  leaves the ingestion copy, and nothing calls `purge_expired` (`module.py:30`).
* ReviewGate. A run that commits between the gate and the render puts unreviewed findings into a
  pack (`export/service.py:217`; `README.md:22` "nothing exports until a human reviews it"):
  `NothingUnreviewedExported` names the rows it can happen to, those written since the gate, in
  spreadsheets only. The hash is of one render and the pack is another (`:231`); `HashCoversContent`
  names the rows in which they may differ. Two concurrent runs of a producer keep both batches
  (`findings/store.py:26`); `RunsReplace` says that no others do. Two concurrent reviews mix their
  columns (`:81`), so a row can name a reviewer who gave it another status; `DecisionsBacked` still
  has the status given by someone and the reviewer among those who decided.
  `standards/router.py:186` stores nothing for an empty run. A request that dies between its commits
  leaves a decision unaudited (`review/service.py:83`).
* AuthTokens. Two refreshes with one token both rotate, and reuse detection sees neither
  (`auth/service.py:290`). A rotation that overlaps a logout or a suspension leaves a live
  successor: `raced` is the set of families it happened to. A login or a one-time code that was
  checked before a suspension issues tokens after it (`:1021`).
* Seats. Counting and committing are apart (`auth/service.py:467`), so each further thread may
  oversell one seat, and an invitation may be accepted once per thread that read it.
* Uploads. Two PATCHes at one offset both append, and a crash between the append and the save leaves
  the saved offset behind the file (`tus.py:210`, `:221`); `disturbed` names those uploads. A task
  that dies is not read again and its later copies are duplicates of it (`tasks.py:115`);
  `interrupted` names them. A document in which the request finds no text is registered and never
  processed (`ingestion/service.py:180`), and later copies of it, also those with text found, are
  duplicates of it: `blank`. `specs/modules/ingestion.md` (B15) has duplicates skip processing, and
  the asynchronous mode queues them too (`tus.py:276`).
* Baselines. The snapshot is read after the gate in queries of its own, so a finding that was
  proposed in between is left out, and one that was accepted is sealed (`baseline/service.py:431`).
  A code edited beside a freeze is sealed as one thing and locked as another (`slipped`), and an
  upsert that loaded a row before it was locked changes or deletes it afterwards (`late`, at most
  once for each that was `inflight`). `specs/modules/baseline.md` (B15) has locked rows read-only
  until the next baseline version and B17 and A14 have approved edits of them; the code never
  unlocks a row and has no such edit. `specs/modules/baseline.md` (B11) seeds a control unless one
  with its key exists, the code unless an active one does (`watchlist.py:47`), so a closed control
  is seeded again by the next baseline. The mappings of a locked code can be edited, though B15
  calls locked rows read-only.
* ChangeEvents and Claims. Two ingestions of one text make two events (`change/service.py:861`); an
  unpaid project can exceed its slots by a thread (`:779`). Two negotiation rounds can get one
  number; a claim edited while it is submitted carries an amount nobody approved (`crossed` names
  such claims); a settlement can be recorded of a draft (`claims/service.py:811`).
* DeadlineAlerts. `sender.send` answers False when it could not send, and the alert is recorded as
  sent (`notifications/module.py:148`; `specs/modules/notifications.md` B2 "After a successful send
  a row is inserted"), which suppresses every other attempt of that stretch; the module has this,
  and `AlertedInTime` is told of a failed send. Under row level security a run sees no log row after
  its first record (§3): it sends again to the next member who wants e-mail, fails to record and
  ends, so it records about one member a day. Without Redis every process runs the job unlocked,
  though B8 says it degrades to a no-op. Another process's row ends the whole run, and a deadline
  confirmed after the run looked at it is still alerted.

## 9. What is not modelled

Components marked `not_modelled` in `PROJECT.json` give their reason, and §4 says what each module
leaves out. The engines are rules and prompts over documents whose results matter here only as "a
run of a producer proposes some findings", which is how `ReviewGate` has them; a large part of the
source is of this kind (text matching, prompts, parsers, report layouts, read-only aggregation for
dashboards). LLM clients, object storage, tracing, the front end, the MCP server, the evaluation
harnesses, the rule-pack data and the migrations are I/O, presentation or data. The rate limiter is
sequential under its own lock. `integrations`, `governance` and `rulepacks` keep state and are the
next to model. Row level security is modelled in `DeadlineAlerts` only (§3). Within modelled
components: amounts as numbers, invoices' text, GST numbers, address and e-mail limits of express
sessions (`abuse.py`), workspace contents, the layout of a pack.

## 10. How to run

In this directory, for any row of `runs` in `PROJECT.json`:

    tlc -workers 2 -config <cfg> <module>.tla
    tlapm <Module>_proofs.tla
